\* Two confirmed sends and a notification; the broker closes a channel.
CONSTANTS
  Senders = {p1, p2}
  Notifiers = {n1}
  Channels = {c1, c2}
  Conns = {k0}
  FirstConn = k0
  None = None
  MaxFaults = 1
SPECIFICATION Spec
SYMMETRY Symmetry
\* Every call is made once, so a run may end.
CHECK_DEADLOCK FALSE
INVARIANTS
  TagDiscipline
  ConfirmedMeansAcked
  NoLostWaiter
PROPERTY
  KeepsPromise
