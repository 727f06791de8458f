SPECIFICATION Spec
CONSTANTS
  Calls = {c1}
  Partitions = {p1, p2}
  Names <- MCNames
  Clusters <- MCClusters
  MaxFaults = 0
INVARIANT
  NoMissedReply
CHECK_DEADLOCK FALSE
