SPECIFICATION FairSpec
CONSTANTS
  Calls = {c1}
  Partitions = {p1}
  Names <- MCNames
  Clusters <- MCClusters
  MaxFaults = 1
INVARIANTS
  NoMissedReply
  ReadyMeansServing
  FailedStartIsClean
  ClosedAfterDrain
PROPERTIES
  StartReturns
  ReplyIsDelivered
CHECK_DEADLOCK FALSE
