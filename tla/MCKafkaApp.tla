----------------------------- MODULE MCKafkaApp -----------------------------
(***************************************************************************)
(* An app with an event handler and a query handler that calls itself.     *)
(***************************************************************************)
EXTENDS KafkaApp

MCNames == {<<"event", "e">>, <<"query", "q">>}
\* An empty cluster with auto-creation, and one without in which the topic of the
\* queries is missing: Start fails with the query handler and succeeds with the other.
SomeTopics == {<<Shared("reply"), "topic">>} \cup {<<"event", "e">>} \X {"topic", "DLQ"}
MCClusters == {<<TRUE, {}>>, <<FALSE, SomeTopics>>}
=============================================================================
