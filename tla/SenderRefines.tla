--------------------------- MODULE SenderRefines ---------------------------
(***************************************************************************)
(* Sender as an implementation of ConfirmedSend.  The broker has received  *)
(* what has a delivery tag, and a call is disturbed when its channel is.   *)
(***************************************************************************)
EXTENDS Sender

Received == {p \in Senders : pos[p] > 0}
Disturbed == {p \in Senders : callCh[p] \in desync}

Promise == INSTANCE ConfirmedSend WITH
  call <- [p \in Senders |-> pc[p]],
  received <- Received,
  verdict <- [p \in Senders |-> verdict[p]],
  ret <- [p \in Senders |-> ret[p]],
  disturbed <- Disturbed

\* Whatever rebuilds, drains, rollbacks and late confirms interleave,
\* SendWithConfirm behaves like ConfirmedSend: it publishes a message at most
\* once, a verdict it returns is the one of that message, "closed" is only
\* returned for a message the broker received and "unavailable" only for one
\* that it did not.
KeepsPromise == Promise!Spec
=============================================================================
