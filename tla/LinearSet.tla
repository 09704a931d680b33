------------------------------ MODULE LinearSet ------------------------------
(***************************************************************************)
(* What the linked list promises while nothing crashes: a linearizable     *)
(* set.  An add() or remove() that changes the set does so at one instant  *)
(* between its call and its return; one that does not, and contains(),     *)
(* answers what was true of its value at some instant in between.          *)
(*                                                                         *)
(* An operation concerns one value only, so it is enough to remember       *)
(* whether that value was in the set, and whether it was not, since then.  *)
(***************************************************************************)
CONSTANTS Callers,
          Requests   \* [op : {"add", "remove", "contains"}, val : ...]

VARIABLES set,    \* the values in the set
          call,   \* call[t]: the request under way, or Idle
          seen,   \* seen[t]: where its value was since the call, "in" or "out"
          result  \* result[t]: "yes" or "no", or "none" before it is decided

setVars == <<set, call, seen, result>>

Idle == [op |-> "none"]

Where(v, S) == IF v \in S THEN "in" ELSE "out"

\* What everybody has seen when the set becomes S.
Seeing(S) == [t \in Callers |-> IF call[t] = Idle THEN {}
                                ELSE seen[t] \cup {Where(call[t].val, S)}]

LinearSetInit ==
    /\ call = [t \in Callers |-> Idle]
    /\ seen = [t \in Callers |-> {}]
    /\ result = [t \in Callers |-> "none"]

Call(t, r) ==
    /\ call[t] = Idle
    /\ call' = [call EXCEPT ![t] = r]
    /\ seen' = [seen EXCEPT ![t] = {Where(r.val, set)}]
    /\ UNCHANGED <<set, result>>

Undecided(t, op) == call[t].op = op /\ result[t] = "none"

\* The add() or remove() that changes the set.
Update(t) ==
    /\ \/ /\ Undecided(t, "add")
          /\ call[t].val \notin set
          /\ set' = set \cup {call[t].val}
       \/ /\ Undecided(t, "remove")
          /\ call[t].val \in set
          /\ set' = set \ {call[t].val}
    /\ seen' = Seeing(set')
    /\ result' = [result EXCEPT ![t] = "yes"]
    /\ UNCHANGED call

\* All other answers.
Answer(t) ==
    /\ \/ /\ \/ Undecided(t, "add") /\ "in" \in seen[t]
             \/ Undecided(t, "remove") /\ "out" \in seen[t]
             \/ Undecided(t, "contains") /\ "out" \in seen[t]
          /\ result' = [result EXCEPT ![t] = "no"]
       \/ /\ Undecided(t, "contains") /\ "in" \in seen[t]
          /\ result' = [result EXCEPT ![t] = "yes"]
    /\ UNCHANGED <<set, call, seen>>

Return(t) ==
    /\ call[t] # Idle
    /\ result[t] # "none"
    /\ call' = [call EXCEPT ![t] = Idle]
    /\ seen' = [seen EXCEPT ![t] = {}]
    /\ result' = [result EXCEPT ![t] = "none"]
    /\ UNCHANGED set

LinearSetNext == \E t \in Callers :
    (\E r \in Requests : Call(t, r)) \/ Update(t) \/ Answer(t) \/ Return(t)

LinearSetSpec == LinearSetInit /\ [][LinearSetNext]_setVars
==============================================================================
