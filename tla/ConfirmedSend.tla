--------------------------- MODULE ConfirmedSend ---------------------------
(***************************************************************************)
(* What SendWithConfirm promises its callers, without channels, tags,      *)
(* generations and goroutines: a call hands its message to the broker at   *)
(* most once, and what it returns tells what became of the message.  Calls *)
(* in disturbed are the ones a notification or a reconnect on the same     *)
(* channel can make take the verdict of another message for their own.     *)
(***************************************************************************)
EXTENDS Naturals

CONSTANT Senders

VARIABLES call, received, verdict, ret, disturbed

vars == <<call, received, verdict, ret, disturbed>>

Verdicts == {"ack", "nack"}
Returns == Verdicts \cup {"closed", "unavailable", "ctx"}

Init ==
  /\ call = [p \in Senders |-> "idle"]
  /\ received = {}
  /\ verdict = [p \in Senders |-> "none"]
  /\ ret = [p \in Senders |-> "none"]
  /\ disturbed = {}

Begin(p) ==
  /\ call[p] = "idle"
  /\ call' = [call EXCEPT ![p] = "registered"]
  /\ disturbed' \in {disturbed, disturbed \cup {p}}
  /\ UNCHANGED <<received, verdict, ret>>

\* The broker has the message.
Receive(p) ==
  /\ call[p] = "registered"
  /\ call' = [call EXCEPT ![p] = "waiting"]
  /\ received' = received \cup {p}
  /\ UNCHANGED <<verdict, ret, disturbed>>

\* The broker's verdict is final, and may come after the call has returned.
Confirm(p, v) ==
  /\ p \in received /\ verdict[p] = "none"
  /\ verdict' = [verdict EXCEPT ![p] = v]
  /\ UNCHANGED <<call, received, ret, disturbed>>

\* A verdict is that of the call's own message; a closed channel leaves open
\* whether the broker kept a message it received; an unavailable one means that
\* it never had it; the context of a call may end at any time.
Honest(p, r) ==
  CASE r \in Verdicts -> p \in received /\ (verdict[p] = r \/ p \in disturbed)
    [] r = "closed" -> p \in received
    [] r = "unavailable" -> p \notin received
    [] OTHER -> r = "ctx"

Return(p, r) ==
  /\ call[p] # "done" /\ Honest(p, r)
  /\ call' = [call EXCEPT ![p] = "done"]
  /\ ret' = [ret EXCEPT ![p] = r]
  /\ UNCHANGED <<received, verdict, disturbed>>

Disturb(calls) ==
  /\ disturbed' = disturbed \cup calls
  /\ UNCHANGED <<call, received, verdict, ret>>

Next ==
  \/ \E p \in Senders :
       \/ Begin(p) \/ Receive(p)
       \/ \E v \in Verdicts : Confirm(p, v)
       \/ \E r \in Returns : Return(p, r)
  \/ \E calls \in SUBSET {p \in Senders : call[p] # "idle"} : Disturb(calls)

Spec == Init /\ [][Next]_vars
=============================================================================
