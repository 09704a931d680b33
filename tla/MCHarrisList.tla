----------------------------- MODULE MCHarrisList -----------------------------
(* Small instances of HarrisList for TLC. *)
EXTENDS HarrisListInv

\* Two neighbours leave the list, and one of them may return on the node that
\* the other one had.
MCRequests == {[op |-> "remove", val |-> 1], [op |-> "remove", val |-> 2],
               [op |-> "add", val |-> 2], [op |-> "contains", val |-> 2]}
MCInitial == <<1, 2, 3>>
MCMaxCalls == [t \in Threads |-> IF t = 0 THEN 3 ELSE 1]
==============================================================================
