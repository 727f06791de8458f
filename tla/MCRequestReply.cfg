\* Two calls, one with a deadline of its own, two consumers and a
\* failure; the target serves both calls or only one.
CONSTANTS
  Calls = {c1, c2}
  Servers = {s1, s2}
  CallerDeadline = {c1}
  Registries = {{c1, c2}, {c1}}
  WithDLQRetry = TRUE
  None = None
  MaxQueryFaults = 1
SPECIFICATION FairQuerySpec
\* Every call is made once, so a run may end.
CHECK_DEADLOCK FALSE
INVARIANTS
  AnswerIsOwn
  EntriesMatchCalls
PROPERTIES
  NoSilentHang
