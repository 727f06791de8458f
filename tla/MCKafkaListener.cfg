\* Three messages, one, two or six attempts, delays of four bits, two faults and a crash.
CONSTANTS
  N = 3
  RetryLimits = {1, 2, 6}
  MaxCallFaults = 2
  MaxCrashes = 1
  DurationBits = 4
SPECIFICATION FairListenerSpec
\* The partition is finite, so a run may end.
CHECK_DEADLOCK FALSE
INVARIANTS
  CommittedIsSettled
  BackoffIsExact
PROPERTIES
  DLQOnlyWhenExhausted
  PartitionDrains
