\* Two messages, one attempt, and a dead-letter publish that fails.
CONSTANTS
  N = 2
  RetryLimits = {1}
  MaxCallFaults = 1
  MaxCrashes = 0
  DurationBits = 4
SPECIFICATION ListenerSpec
\* The partition is finite, so a run may end.
CHECK_DEADLOCK FALSE
INVARIANTS
  AtLeastOnce
