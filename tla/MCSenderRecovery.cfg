\* One send whose context need not end, a reconnect, and a failure the broker
\* makes.  Four channels are as many as these events can ask for.
CONSTANTS
  Senders = {p1}
  Notifiers = {}
  Channels = {c1, c2, c3, c4}
  Conns = {k0, k1}
  FirstConn = k0
  None = None
  MaxFaults = 1
SPECIFICATION FairSpec
\* Every call is made once, so a run may end.
CHECK_DEADLOCK FALSE
INVARIANTS
  NoChannelLeak
  RecoveryOwned
PROPERTIES
  SendsReturn
  PublisherRecovers
