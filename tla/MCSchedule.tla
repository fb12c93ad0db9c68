----------------------------- MODULE MCSchedule -----------------------------
EXTENDS Schedule

Plain == [base |-> 1, factor |-> 2, max |-> 3, jitter |-> 0, buffer |-> 1,
          maxAttempts |-> 0, deadline |-> None, maxTotalWait |-> 0,
          onInterrupt |-> "backoff", probe |-> FALSE]

\* Waits that outlast the longest backing off, and short ones for a reset.
Slow == [Plain EXCEPT !.base = 9, !.max = 9, !.probe = TRUE]

Absolute == [kind |-> "absolute", at |-> 4]
Relative == [kind |-> "relative", at |-> 4]

MCPolicies == {
  Slow,
  [Plain EXCEPT !.maxTotalWait = 4, !.jitter = 4],
  [Plain EXCEPT !.deadline = Absolute, !.maxAttempts = 4],
  [Plain EXCEPT !.deadline = Absolute, !.onInterrupt = "resume_now"],
  [Plain EXCEPT !.deadline = Relative, !.maxTotalWait = 5]}
=============================================================================
