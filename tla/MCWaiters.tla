------------------------------ MODULE MCWaiters ------------------------------
\* Instances of Waiters for TLC.  Liveness is checked, so no symmetry is used.
EXTENDS Waiters
=============================================================================
