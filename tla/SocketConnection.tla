-------------------------- MODULE SocketConnection --------------------------
(***************************************************************************)
(* Connection on top of Socket.  There is at most one connection at a      *)
(* time, so one socket: that of the connection dialled last.  Between the  *)
(* two stands amqp091, as the code uses it: Dial calls handshakeDial and   *)
(* clears the deadline when the handshake is over; CloseDeadline sets one, *)
(* sends the close frame and waits for the answer; a write that times out  *)
(* ends the connection.  Heartbeats and publishes may be written at any    *)
(* time, and a wedged peer may leave any write in flight.                  *)
(***************************************************************************)
EXTENDS Connection

CONSTANTS WriteTimeout, HandshakeTimeout, CloseTimeout   \* in ticks

ASSUME SocketAssumption == {WriteTimeout, HandshakeTimeout, CloseTimeout} \subseteq Nat \ {0}

VARIABLES
  baseDeadline, version, sockDeadline, wpc, wdeadline, wversion, spc, sdeadline,
  lasted, overlapped,
  phase,       \* amqp091: what the connection is used for
  closeFrame   \* amqp091: the write in progress is the close frame

S == INSTANCE Socket

socketVars == <<baseDeadline, version, sockDeadline, wpc, wdeadline, wversion, spc, sdeadline,
                lasted, overlapped>>
allVars == <<vars, socketVars, phase, closeFrame>>

\* Every variable keeps its type.
JointTypeOK ==
  /\ TypeOK /\ S!TypeOK
  /\ phase \in {"none", "handshake", "opened", "open", "closing", "sent", "down"}
  /\ closeFrame \in BOOLEAN

JointInit == Init /\ S!Init /\ phase = "none" /\ closeFrame = FALSE

\* amqp091 is done with the connection.
Gone == S!Closed /\ phase' = "none" /\ closeFrame' = FALSE

\* amqp091 has closed the socket; CloseDeadline is about to return.
ShutDown == S!Closed /\ phase' = "down" /\ closeFrame' = FALSE /\ UNCHANGED vars
-----------------------------------------------------------------------------
\* amqp.DialConfig calls the dialer,
DialsSocket(w) ==
  /\ pc[w] = "dialling" /\ phase = "none" /\ dialled < MaxConns
  /\ S!handshakeDial /\ phase' = "handshake"
  /\ UNCHANGED <<vars, closeFrame>>

\* clears the deadline after the handshake,
HandshakeEnds ==
  /\ phase = "handshake" /\ baseDeadline > 0
  /\ S!SetDeadline(S!Never) /\ phase' = "opened"
  /\ UNCHANGED <<vars, closeFrame>>

\* and returns the connection,
SocketDialSucceeds(w) ==
  /\ phase = "opened" /\ spc = "idle"
  /\ DialSucceeds(w) /\ phase' = "open"
  /\ UNCHANGED <<socketVars, closeFrame>>

\* or gives up: no socket, a refused handshake, or one that is out of time.
SocketDialFails(w) ==
  /\ phase \in {"none", "handshake"}
  /\ DialFails(w) /\ Gone

\* A write begins; the close frame is written once.
Writes(close) ==
  /\ phase \in IF close THEN {"closing"} ELSE {"handshake", "opened", "open", "closing", "sent"}
  /\ close => spc = "idle"
  /\ S!WriteBegins /\ closeFrame' = close
  /\ UNCHANGED <<vars, phase>>

WriteReturns ==
  /\ S!WriteReturns /\ UNCHANGED <<vars, phase, closeFrame>>

\* The deferred part of Write; then the close frame is on its way.
WriteEnds ==
  /\ S!WriteRestores
  /\ phase' = IF closeFrame THEN "sent" ELSE phase
  /\ closeFrame' = FALSE
  /\ UNCHANGED vars

\* A write times out: the dial fails, the connection is lost, or the close of it
\* is over.
WriteTimesOut ==
  /\ S!TimesOut
  /\ \/ phase = "handshake" /\ Gone /\ \E w \in Goroutines : DialFails(w)
     \/ phase = "open" /\ Gone /\ ConnectionLost(dialled)
     \/ phase \in {"closing", "sent"} /\ ShutDown

SetDeadlineApplies ==
  /\ S!SetDeadlineApplies /\ UNCHANGED <<vars, phase, closeFrame>>
-----------------------------------------------------------------------------
\* Somebody is inside closeConn with the open connection.
InCloseConn ==
  /\ dialled > 0 /\ cstate[dialled] = "open"
  /\ \/ mpc \in {"cancelTaken", "closeTaken"} /\ mheld = dialled
     \/ pc[0] = "discard"
     \/ stopped /\ \E k \in ConnIds : pc[k] = "recheck"

\* Mutant: closeConn calls Close, which sets no deadline.
CloseWithoutDeadline ==
  /\ InCloseConn /\ phase = "open" /\ phase' = "closing"
  /\ UNCHANGED <<vars, socketVars, closeFrame>>

\* closeConn calls CloseDeadline,
CloseDeadline ==
  /\ InCloseConn /\ phase = "open"
  /\ S!SetDeadline(CloseTimeout) /\ phase' = "closing"
  /\ UNCHANGED <<vars, closeFrame>>

\* which ends with the answer to the close frame, or at the deadline.
CloseAnswered == phase = "sent" /\ ShutDown

\* A step of Connection; closing an open connection takes CloseDeadline.
Joint(A) ==
  /\ A
  /\ IF \E k \in ConnIds : cstate[k] = "open" /\ cstate'[k] = "closed"
     THEN phase = "down" /\ Gone
     ELSE UNCHANGED <<socketVars, phase, closeFrame>>

\* The network ends the connection.
SocketLost(k) == phase # "down" /\ ConnectionLost(k) /\ Gone

\* Time does not pass a deadline that somebody waits for.
Tick ==
  /\ S!Tick
  /\ phase # "opened" /\ ~(phase \in {"handshake", "sent"} /\ baseDeadline = 0)
  /\ UNCHANGED <<vars, phase, closeFrame>>
-----------------------------------------------------------------------------
WriteStep ==
  \/ S!WriteArms /\ UNCHANGED <<vars, phase, closeFrame>>
  \/ WriteEnds \/ WriteTimesOut

DialsOn(w) == DialsSocket(w) \/ SocketDialSucceeds(w) \/ SocketDialFails(w)

JointNext ==
  \/ Joint(DialStep) \/ Joint(CloseStep) \/ Joint(DialContextCancelled \/ CloseBegins)
  \/ \E w \in Goroutines : DialsOn(w)
  \/ \E k \in ConnIds : Joint(WatchStep(k)) \/ SocketLost(k)
  \/ HandshakeEnds \/ CloseDeadline \/ CloseAnswered \/ SetDeadlineApplies
  \/ WriteStep \/ WriteReturns \/ Tick
  \/ \E close \in BOOLEAN : Writes(close)

JointSpec == JointInit /\ [][JointNext]_allVars

\* Goroutines run and time passes; a broker that is dialled again and again ends
\* a handshake at last; the send lock is fair.  A write need not return, except
\* on the last connection of the instance, which stays up.
JointFairSpec ==
  /\ JointSpec
  /\ WF_allVars(Joint(DialStep)) /\ WF_allVars(Joint(CloseStep))
  /\ \A k \in ConnIds : WF_allVars(Joint(WatchStep(k)))
  /\ WF_allVars(\E w \in Goroutines : DialsOn(w))
  /\ SF_allVars(\E w \in Goroutines : DialsSocket(w)) /\ SF_allVars(HandshakeEnds)
  /\ WF_allVars(CloseDeadline) /\ WF_allVars(CloseAnswered /\ baseDeadline = 0)
  /\ WF_allVars(SetDeadlineApplies) /\ SF_allVars(Writes(TRUE))
  /\ WF_allVars(WriteStep) /\ SF_allVars(Tick)
  /\ WF_allVars(WriteReturns /\ dialled = MaxConns)
-----------------------------------------------------------------------------
(* Properties.                                                             *)

\* A write never outlasts WriteTimeout nor the deadline amqp091 has set, whatever
\* the peer does; only a SetDeadline that comes in the middle of a write can
\* replace its deadline.
WriteBounded ==
  wpc = "flight" /\ ~overlapped =>
    lasted + sockDeadline <= WriteTimeout /\ sockDeadline <= baseDeadline

\* Start returns from Close, and from a cancelled DialContext, however wedged the
\* socket is: a write in flight cannot keep the close frame from its turn.
CloseReturns == stopped ~> mpc = "returned"
=============================================================================
