\* Two reconnects in a row and one refusal by the broker.
CONSTANTS
  MaxStarts = 4
  MaxDrops = 2
  MaxFaults = 1
SPECIFICATION FairSpec
\* Start returns once and its goroutines end, so a run may end.
CHECK_DEADLOCK FALSE
PROPERTIES
  ConsumerRecovers
