\* Connections in a row, each on a socket that may wedge; a shutdown at any
\* moment.  The close is shorter than a write, the handshake longer.
CONSTANTS
  MaxConns = 4
  WriteTimeout = 2
  HandshakeTimeout = 3
  CloseTimeout = 1
SPECIFICATION JointFairSpec
\* Start returns once and its goroutines end, so a run may end.
CHECK_DEADLOCK FALSE
INVARIANTS
  OneConnection
  HealthHonest
  WriteBounded
PROPERTIES
  ConnectionRecovers
  ShutdownReleasesAll
  CloseReturns
