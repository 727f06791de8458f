\* A notification between two confirmed sends.
CONSTANTS
  Senders = {p1, p2}
  Notifiers = {n1}
  Channels = {c1}
  Conns = {k0}
  FirstConn = k0
  None = None
  MaxFaults = 0
SPECIFICATION Spec
SYMMETRY Symmetry
\* Every call is made once, so a run may end.
CHECK_DEADLOCK FALSE
INVARIANTS
  SendOrError
