SPECIFICATION FairSpec
CONSTANTS
  Literals = {"a", "b"}
  Apps = {"A", "B"}
  Scenarios <- MCScenarios
  Handlers <- MCHandlers
  MaxFailures = 1
  MaxFaults = 1
INVARIANTS
  MatcherAgrees
  StarsResolveAlike
  CacheCoherent
  NoLoss
  NoStrayCopy
  RoutedHasHandler
PROPERTY
  EventuallySettled
CHECK_DEADLOCK FALSE
