\* One reconnect and two refusals by the broker; handlers may hang.
CONSTANTS
  MaxStarts = 4
  MaxDrops = 1
  MaxFaults = 2
SPECIFICATION FairSpec
\* Start returns once and its goroutines end, so a run may end.
CHECK_DEADLOCK FALSE
INVARIANTS
  OneConsumer
  HealthTracksNewest
  NoAddAfterWait
  DrainIsComplete
PROPERTIES
  ConsumerRecovers
  DrainCompletes
