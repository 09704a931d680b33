---------------------------- MODULE HarrisListInv -----------------------------
(***************************************************************************)
(* Why the list of HarrisList is in order and linearizable: what holds of  *)
(* the nodes between any two steps, and of each thread at each point of    *)
(* its call.                                                               *)
(***************************************************************************)
EXTENDS HarrisList

Succ(i) == Unmark(next[i])
Key(t) == call[t].val

------------------------------------------------------------------------------
(* The nodes.                                                               *)

\* From the head the nodes L lead on in the order of their keys, past none of
\* them, to the tail.  (SortedIsReachable: then they are what can be reached.)
SortedList(nx, dt, L) ==
    /\ HEAD \in L /\ dt[HEAD] = INT_MIN
    /\ TAIL \in L /\ dt[TAIL] = INT_MAX
    /\ \A i \in L : INT_MIN <= dt[i] /\ dt[i] <= INT_MAX
    /\ \A i, j \in L : dt[i] = dt[j] => i = j
    /\ \A i \in L \ {TAIL} :
          /\ Unmark(nx[i]) \in L
          /\ dt[i] < dt[Unmark(nx[i])]
          /\ \A j \in L : dt[j] <= dt[i] \/ dt[Unmark(nx[i])] <= dt[j]

InOrder == /\ SortedList(next, data, linked)
           /\ next[TAIL] = LL_SIZE
           /\ ~ IsMarked(next[HEAD])

\* Whatever a thread can have met leads to more of it, upwards; what was taken
\* out is marked.
Traversable ==
    \A t \in Threads : InOp(t) =>
        /\ linked \subseteq reach[t]
        /\ \A i \in reach[t] :
              /\ ~ IsMarked(next[i]) => i \in linked
              /\ i # TAIL => Succ(i) \in reach[t] /\ data[i] < data[Succ(i)]

\* The value v is not in a list that has the node i.
Excludes(i, v) == \/ i # TAIL /\ data[i] < v /\ v < data[Succ(i)]
                  \/ data[i] = v /\ IsMarked(next[i])

\* If a node a thread can have met excludes its value, then the value was
\* really absent for a moment since the call, however long ago the node left.
Witnessed ==
    \A t \in Threads :
        /\ call[t] # Idle => Where(Key(t), Set) \in seen[t]
        /\ InOp(t) => \A i \in reach[t] :
                          Excludes(i, Key(t)) => "out" \in seen[t]

------------------------------------------------------------------------------
(* A thread t.                                                              *)

Searching == {"head", "walk", "reclaim", "reclaimed", "check"}
Adding    == {"find", "claim", "insert", "relink"}
Removing  == {"read", "mark", "delete", "retire"}

\* Where it is in the reclamation, and which operation it is in.
Phase(t) ==
    /\ pc[t] \in {"idle", "return"} => ebr_pc[t] = "out"
    /\ pc[t] = "start" => ebr_pc[t] = "reserve"
    /\ pc[t] \in {"reclaimed", "end"} => InOp(t)
    /\ pc[t] \in (Searching \ {"reclaimed"}) \cup Adding \cup Removing
                 \cup {"first", "iterate"} => ebr_pc[t] = "in"
    /\ pc[t] # "exit" => (pc[t] = "idle" <=> call[t] = Idle)
    /\ InOp(t) => call[t] # Idle
    /\ pc[t] \in {"first", "iterate"} => call[t].op = "contains"
    /\ pc[t] \in Searching => call[t].op \in {"add", "remove"}
    /\ pc[t] \in Adding => call[t].op = "add"
    /\ pc[t] \in Removing => call[t].op = "remove"

\* What it is going to return; right_idx # 0 says that it has marked its node.
Decided(t) ==
    /\ pc[t] \in {"idle", "start", "first", "iterate", "read", "mark"} \cup Adding =>
           result[t] = "none"
    /\ pc[t] \in Searching => result[t] = IF right_idx[t] = 0 THEN "none" ELSE "yes"
    /\ pc[t] \in Searching /\ right_idx[t] # 0 => call[t].op = "remove"
    /\ pc[t] \in {"delete", "retire"} => result[t] = "yes"
    /\ pc[t] \in {"end", "return"} => result[t] # "none"

\* Locals that are not in use are 0.
Cleared(t) ==
    /\ pc[t] \in {"idle", "start", "return"} => cur[t] = 0 /\ left[t] = 0
    /\ pc[t] \notin {"walk", "reclaim", "reclaimed", "check", "exit"} =>
           cur_next[t] = 0 /\ left_next[t] = 0
    /\ pc[t] \in {"idle", "start", "return", "first", "iterate", "read"} \cup Adding =>
           right_idx[t] = 0
    /\ pc[t] = "find" => new_elem[t] = 0

\* It has claimed the node it is going to insert, and no other.
Owning(t) ==
    /\ pc[t] # "exit" =>
           owned[t] = IF new_elem[t] # 0 /\ pc[t] # "claim" /\ result[t] # "yes"
                      THEN {new_elem[t]} ELSE {}
    /\ owned[t] # {} => call[t].op = "add" /\ \A i \in owned[t] : data[i] = Key(t)
    /\ pc[t] \in {"claim", "insert", "relink"} => new_elem[t] # 0
    /\ pc[t] = "insert" => next[new_elem[t]] = cur[t]

\* The nodes of the list L from f to before c are marked; c was in it as long
\* as f was.
AllMarked(nx, dt, L, f, c) ==
    f \in L => /\ c \in L
               /\ \A i \in L : dt[f] <= dt[i] /\ dt[i] < dt[c] => IsMarked(nx[i])

\* p_list_search(): the node it stands on, and the last unmarked one before.
Walked(t) == pc[t] = "walk" =>
    /\ IF cur[t] = TAIL THEN cur_next[t] = LL_SIZE
                        ELSE /\ Unmark(cur_next[t]) \in reach[t]
                             /\ data[cur[t]] < data[Unmark(cur_next[t])]
    /\ IsMarked(cur_next[t]) => next[cur[t]] = cur_next[t]
    /\ ~ IsMarked(cur_next[t]) /\ cur[t] # TAIL
          /\ data[cur[t]] < Key(t) /\ Key(t) < data[cur_next[t]] => "out" \in seen[t]
    /\ \/ cur[t] = HEAD /\ left_next[t] = 0 /\ ~ IsMarked(cur_next[t])
       \/ /\ data[left[t]] < Key(t)
          /\ left_next[t] \in reach[t]
          /\ data[left[t]] < data[left_next[t]] /\ data[left_next[t]] <= data[cur[t]]
          /\ Key(t) < data[left_next[t]] => "out" \in seen[t]
          /\ AllMarked(next, data, linked, left_next[t], cur[t])

\* What it has found.
Found(t) ==
    /\ pc[t] \in {"reclaim", "reclaimed", "check"} =>
           /\ data[left[t]] < Key(t) /\ Key(t) <= data[cur[t]]
           /\ Key(t) < data[cur[t]] => "out" \in seen[t]
    /\ pc[t] \in Adding => data[left[t]] < Key(t) /\ Key(t) < data[cur[t]]
    /\ pc[t] \in Removing => data[left[t]] < Key(t) /\ data[cur[t]] = Key(t)
    /\ pc[t] \in {"mark", "delete", "retire"} =>
           right_idx[t] \in Nodes \ {0} /\ data[cur[t]] < data[right_idx[t]]
    /\ pc[t] \in {"delete", "retire"} => next[cur[t]] = right_idx[t] + MARK
    /\ pc[t] = "iterate" => (Key(t) < data[cur[t]] => "out" \in seen[t])

\* The nodes D lead from f to c, upwards, past none of them, and are marked.
Run(nx, dt, D, f, c) ==
    /\ f \in D
    /\ \A i, j \in D : dt[i] = dt[j] => i = j
    /\ \A i \in D :
          /\ IsMarked(nx[i])
          /\ dt[f] <= dt[i] /\ dt[i] < dt[c]
          /\ Unmark(nx[i]) \in D \cup {c}
          /\ \A j \in D : dt[j] <= dt[i] \/ dt[Unmark(nx[i])] <= dt[j]

\* The nodes it has still to retire are those it is going to come by.
Reclaiming(t) ==
    /\ detached[t] \subseteq reach[t]
    /\ pc[t] \notin {"reclaim", "reclaimed", "retire", "exit"} => detached[t] = {}
    /\ pc[t] = "retire" => detached[t] = {cur[t]}
    /\ pc[t] = "reclaim" => Run(next, data, detached[t], Unmark(cur_next[t]), cur[t])
    /\ pc[t] = "reclaimed" =>
           /\ Unmark(cur_next[t]) \in reach[t] \ {TAIL}
           /\ IsMarked(next[Unmark(cur_next[t])])
           /\ IF Succ(Unmark(cur_next[t])) = cur[t]
              THEN detached[t] = {}
              ELSE Run(next, data, detached[t], Succ(Unmark(cur_next[t])), cur[t])

Local(t) == /\ Phase(t)
            /\ Decided(t)
            /\ Cleared(t)
            /\ Owning(t)
            /\ Walked(t)
            /\ Found(t)
            /\ Reclaiming(t)

\* The inductive invariant.
ListInv == /\ ListTypeOK
           /\ HeldReached
           /\ InOrder
           /\ Traversable
           /\ Witnessed
           /\ \A t \in Threads : Local(t)
==============================================================================
