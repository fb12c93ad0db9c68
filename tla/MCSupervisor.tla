---------------------------- MODULE MCSupervisor ----------------------------
\* Supervisor.tla on small instances.  Clients are interchangeable.
EXTENDS Supervisor, TLC

ClientSymmetry == Permutations(Clients)
=============================================================================
