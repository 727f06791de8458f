---------------------------- MODULE ConsumerInv -----------------------------
(***************************************************************************)
(* The inductive invariant behind the safety of Consumer, in three layers, *)
(* each inductive relative to the ones before it: the generations of       *)
(* start and supervise, the health, and the restores with the shutdown.    *)
(***************************************************************************)
EXTENDS Consumer

Alive(g) == pc[g] \notin {"none", "abandoned", "exited"}

\* Generation g has left its wait for the previous one, and not by giving up.
Passed(g) == pc[g] \in {"open", "check", "exited"} \cup Supervising

\* The channel of a generation is opened and closed by its own goroutine.
ChannelInv ==
  \A g \in Gens : chan[g] # "none" => pc[g] \in {"check"} \cup (Supervising \ {"released"})

\* An older generation lives on beside one that has passed its wait only if some
\* generation between them stopped waiting too early.
HandoverInv ==
  \A g, h \in Gens : g < h /\ Alive(g) /\ Passed(h) => \E k \in timedOut : g < k /\ k <= h

GenInv ==
  /\ \A g \in Gens : g > runGen => pc[g] = "none"
  /\ \A g \in stop : g < runGen
  /\ \A g \in done : pc[g] = "exited"
  /\ ChannelInv
  /\ HandoverInv

\* A start runs inside the restore that called it; what supervises is counted.
WorkInv ==
  /\ \A g \in Gens : pc[g] \in Starting =>
       \E r \in Restores : rpc[r] = "starting" /\ rstart[r] = g
  /\ \A g \in Gens : pc[g] \in Supervising \ {"released"} => g \in wg

\* A reconnect has a restore of its own.
DropInv ==
  /\ \A r \in Restores : r > drops => rpc[r] = "none"
  /\ ~connOpen /\ mpc # "returned" => rpc[drops] = "none"
  /\ dpc # "none" => shuttingDown

ShutdownInv == WorkInv /\ DropInv /\ NoAddAfterWait /\ DrainIsComplete

IInv == TypeOK /\ GenInv /\ HealthTracksNewest /\ ShutdownInv
=============================================================================
