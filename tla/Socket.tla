------------------------------- MODULE Socket -------------------------------
(***************************************************************************)
(* writeDeadlineConn of internal/rabbit/socket.go: the socket of one       *)
(* connection.  A deadline is the number of ticks that are left of it;     *)
(* Never stands for the zero time, no deadline.  amqp091 writes under its  *)
(* send lock, one write at a time, while another of its goroutines may     *)
(* call SetDeadline.  One action is one critical section of mu or one call *)
(* on the socket underneath.                                               *)
(***************************************************************************)
EXTENDS Naturals

CONSTANTS WriteTimeout, HandshakeTimeout, CloseTimeout   \* in ticks, not zero

VARIABLES
  baseDeadline, version,       \* the fields
  sockDeadline,                \* the write deadline of the socket underneath
  wpc, wdeadline, wversion,    \* Write: position, deadline and version
  spc, sdeadline,              \* SetDeadline: position, t
  lasted, overlapped           \* history: ticks in flight; a SetDeadline came between

vars == <<baseDeadline, version, sockDeadline, wpc, wdeadline, wversion, spc, sdeadline,
          lasted, overlapped>>
writeVars == <<wpc, wdeadline, wversion, lasted>>
setVars == <<spc, sdeadline>>

Never == WriteTimeout + HandshakeTimeout + CloseTimeout
Deadlines == 0..Never

\* Every variable keeps its type.
TypeOK ==
  /\ baseDeadline \in Deadlines /\ sockDeadline \in Deadlines /\ version \in 0..3
  /\ wpc \in {"idle", "arm", "flight", "after"} /\ wdeadline \in Deadlines /\ wversion \in 0..3
  /\ spc \in {"idle", "apply"} /\ sdeadline \in Deadlines
  /\ lasted \in Deadlines /\ overlapped \in BOOLEAN

\* No socket yet.
Init ==
  /\ baseDeadline = Never /\ version = 0 /\ sockDeadline = Never
  /\ wpc = "idle" /\ wdeadline = Never /\ wversion = 0
  /\ spc = "idle" /\ sdeadline = Never
  /\ lasted = 0 /\ overlapped = FALSE

\* handshakeDial returns a socket with the handshake deadline.
handshakeDial ==
  /\ baseDeadline' = HandshakeTimeout /\ version' = 1 /\ sockDeadline' = HandshakeTimeout
  /\ UNCHANGED <<writeVars, setVars, overlapped>>

\* The socket is closed: what was in progress on it fails.
Closed ==
  /\ baseDeadline' = Never /\ version' = 0 /\ sockDeadline' = Never
  /\ wpc' = "idle" /\ wdeadline' = Never /\ wversion' = 0
  /\ spc' = "idle" /\ sdeadline' = Never
  /\ lasted' = 0 /\ overlapped' = FALSE
-----------------------------------------------------------------------------
(* Write.                                                                  *)
Earlier(d, e) == IF d < e THEN d ELSE e

\* Mutant: the deadline of amqp091 is not looked at.
WriteBeginsAlone ==
  /\ wpc = "idle" /\ wpc' = "arm"
  /\ wdeadline' = WriteTimeout /\ wversion' = version
  /\ lasted' = 0 /\ overlapped' = FALSE
  /\ UNCHANGED <<baseDeadline, version, sockDeadline, setVars>>

\* The first critical section.
WriteBegins ==
  /\ wpc = "idle" /\ wpc' = "arm"
  /\ wdeadline' = Earlier(baseDeadline, WriteTimeout) /\ wversion' = version
  /\ lasted' = 0 /\ overlapped' = FALSE
  /\ UNCHANGED <<baseDeadline, version, sockDeadline, setVars>>

\* SetWriteDeadline on the socket; then its Write blocks.
WriteArms ==
  /\ wpc = "arm" /\ wpc' = "flight"
  /\ sockDeadline' = wdeadline /\ wdeadline' = Never
  /\ UNCHANGED <<baseDeadline, version, wversion, lasted, overlapped, setVars>>

\* The socket takes the bytes.
WriteReturns ==
  /\ wpc = "flight" /\ wpc' = "after" /\ lasted' = 0
  /\ UNCHANGED <<baseDeadline, version, sockDeadline, wdeadline, wversion, overlapped, setVars>>

\* The write deadline has passed; amqp091 shuts the connection down.
TimesOut == wpc = "flight" /\ sockDeadline = 0

\* The second critical section: restore unless a SetDeadline came between.
WriteRestores ==
  /\ wpc = "after" /\ wpc' = "idle" /\ wversion' = 0 /\ overlapped' = FALSE
  /\ sockDeadline' = IF version = wversion THEN baseDeadline ELSE sockDeadline
  /\ UNCHANGED <<baseDeadline, version, wdeadline, lasted, setVars>>
-----------------------------------------------------------------------------
(* SetDeadline, and SetWriteDeadline likewise.                             *)

\* The critical section,
SetDeadline(t) ==
  /\ spc = "idle" /\ spc' = "apply"
  /\ baseDeadline' = t /\ version' = version + 1 /\ sdeadline' = t
  /\ overlapped' = (wpc # "idle")
  /\ UNCHANGED <<sockDeadline, writeVars>>

\* and the call on the socket, after the unlock.
SetDeadlineApplies ==
  /\ spc = "apply" /\ spc' = "idle" /\ sdeadline' = Never
  /\ sockDeadline' = sdeadline
  /\ overlapped' = (wpc # "idle")
  /\ UNCHANGED <<baseDeadline, version, writeVars>>

Less(d) == IF d \in {0, Never} THEN d ELSE d - 1

\* Time passes while nothing but the write itself is in progress, and not past
\* the deadline of a write.
Tick ==
  /\ wpc \in {"idle", "flight"} /\ spc = "idle" /\ ~TimesOut
  /\ baseDeadline' = Less(baseDeadline) /\ sockDeadline' = Less(sockDeadline)
  /\ lasted' = IF wpc = "flight" /\ lasted < Never THEN lasted + 1 ELSE lasted
  /\ UNCHANGED <<version, wpc, wdeadline, wversion, setVars, overlapped>>
=============================================================================
