------------------------------ MODULE MCTimers ------------------------------
\* Timers.tla on two tasks and three goroutines: one task can have a current,
\* a replaced and a firing arm at once while the other one interferes.
EXTENDS Timers
=============================================================================
