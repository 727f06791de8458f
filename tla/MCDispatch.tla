----------------------------- MODULE MCDispatch -----------------------------
(***************************************************************************)
(* Two apps that share the events exchange.  A handles every kind, with    *)
(* wildcards that match zero, one and more segments; B handles one event,  *)
(* and runs where an event is sent: the rest of the traffic is A's alone.  *)
(***************************************************************************)
EXTENDS Dispatch

Message(kind, name, to) == [kind |-> kind, name |-> name, to |-> to]

Created == Message("event", <<"a", "b">>, "all")
Alert == Message("notification", <<"a">>, "all")
CommandA == Message("command", <<"a">>, "A")
CommandB == Message("command", <<"b">>, "A")
Query == Message("query", <<"b">>, "A")

MCScenarios == {
  [apps |-> {"A", "B"}, traffic |-> {Created}, late |-> {}],
  [apps |-> {"A"}, traffic |-> {Alert}, late |-> {<<"A", "event", <<"*">> >>}],
  [apps |-> {"A"}, traffic |-> {CommandA, CommandB}, late |-> {<<"A", "command", <<"*">> >>}],
  [apps |-> {"A"}, traffic |-> {Query}, late |-> {}]}

MCHandlers == [x \in {"A", "B"} |-> [k \in Kinds |->
  CASE x = "A" /\ k = "event" -> {<<"a", "*">>, <<"a", "#">>}
    [] x = "A" /\ k = "notification" -> {<<"a", "#">>}
    [] x = "A" /\ k = "command" -> {<<"a">>}
    [] x = "A" /\ k = "query" -> {<<"b">>}
    [] x = "B" /\ k = "event" -> {<<"#", "b">>}
    [] OTHER -> {}]]

====
