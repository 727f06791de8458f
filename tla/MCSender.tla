------------------------------ MODULE MCSender ------------------------------
(* Small instances of Sender for TLC.                                      *)
EXTENDS SenderRefines, TLC

\* Calls are interchangeable.
Symmetry == Permutations(Senders)
=============================================================================
