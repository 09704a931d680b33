------------------------------ MODULE DurableSet ------------------------------
(***************************************************************************)
(* What the linked list promises when the machine may stop at any time: a  *)
(* linearizable set (LinearSet) that comes back as it was.  Of a call that *)
(* was interrupted it is open whether it has happened; nothing else may    *)
(* change.                                                                 *)
(*                                                                         *)
(* Lossy describes what recover() really keeps: above the value of an      *)
(* interrupted remove() values may be gone, up to the first one that is    *)
(* still there.                                                            *)
(***************************************************************************)
EXTENDS LinearSet, Naturals

CONSTANT Lossy

VARIABLES up,       \* the program runs
          pending   \* the requests that were interrupted since it ran

durableVars == <<setVars, up, pending>>

DurableSetInit == LinearSetInit /\ up = TRUE /\ pending = {}

Run == up /\ LinearSetNext /\ UNCHANGED <<up, pending>>

Crash ==
    /\ up
    /\ up' = FALSE
    /\ pending' = {call[t] : t \in Callers} \ {Idle}
    /\ call' = [t \in Callers |-> Idle]
    /\ seen' = [t \in Callers |-> {}]
    /\ result' = [t \in Callers |-> "none"]
    /\ UNCHANGED set

Updates(op) == {r.val : r \in {q \in pending : q.op = op}}

\* The value w is above that of an interrupted remove(), and so is all that is
\* missing of S in between.
Swept(w, S) == \E v \in Updates("remove") :
                   v < w /\ \A x \in set : v < x /\ x < w => x \notin S

Recover ==
    /\ ~ up
    /\ up' = TRUE
    /\ \A w \in set' \ set : w \in Updates("add") \cup Updates("remove")
    /\ \A w \in set \ set' : \/ w \in Updates("add") \cup Updates("remove")
                             \/ Lossy /\ Swept(w, set')
    /\ pending' = {}
    /\ UNCHANGED <<call, seen, result>>

DurableSetNext == Run \/ Crash \/ Recover
DurableSetSpec == DurableSetInit /\ [][DurableSetNext]_durableVars
==============================================================================
