------------------------------ MODULE HarrisList ------------------------------
(***************************************************************************)
(* The lock-free sorted linked list of linkedlist.c: p_list_add(),         *)
(* p_list_remove() and p_list_contains() in any number of threads, one     *)
(* action per load or locked instruction that other threads can tell.      *)
(*                                                                         *)
(* A node is deleted by marking its next index; from then on that index    *)
(* is frozen.  Every search takes the marked nodes it finds between two    *)
(* others out of the list with one compare-and-swap, and retires them.     *)
(* The nodes and their epochs are those of Ebr.                            *)
(*                                                                         *)
(* data[i] of a node somebody may hold never changes (HeldReached and      *)
(* Protected together), so it is read along with next[i].                  *)
(***************************************************************************)
EXTENDS Ebr, SequencesExt

CONSTANTS Values,            \* the keys, type val_t
          INT_MIN, INT_MAX,  \* those of the head and of the tail
          MARK,              \* 1 << 31
          WORD,              \* bits of a word of the bitmap, 64
          FFS,               \* of which __builtin_ffs() sees so many, 32
          Requests,          \* what threads ask for, [op : ..., val : Values]
          MaxCalls,          \* bound of the model: calls of each thread
          Initial            \* the values in the list at the beginning, in order

ASSUME ListAssumption ==
    /\ Values \subseteq Nat /\ INT_MIN \in Nat /\ INT_MAX \in Nat
    /\ INT_MIN < INT_MAX
    /\ \A v \in Values : INT_MIN < v /\ v < INT_MAX
    /\ MARK \in Nat /\ MARK > LL_SIZE
    /\ WORD \in Nat \ {0} /\ LL_SIZE % WORD = 0 /\ LL_SIZE >= 2
    /\ FFS \in 2 .. WORD
    /\ Requests \subseteq [op : {"add", "remove", "contains"}, val : Values]
    /\ MaxCalls \in [Threads -> Nat]
    /\ Initial \in Seq(Values) /\ IsSorted(Initial, <)

VARIABLES
    data, next,      \* node_arr: data[i] and next[i]
    pc,              \* where t is
    call, result,    \* its request, and what it is going to return
    cur, cur_next,   \* t (then right_node) and t_next
    left, left_next, \* *left_node and left_node_next
    right_idx,       \* right_idx of p_list_remove(), 0 before it is read
    new_elem, word,  \* the node of p_list_add(), 0 before; i of the bitmap scan
    calls,           \* the calls of t so far
    seen             \* history: where its value was since the call

searchVars == <<cur, cur_next, left, left_next>>
listVars == <<data, next, pc, call, result, searchVars, right_idx, new_elem,
              word, calls, seen>>
vars == <<listVars, nodeVars>>

HEAD == 0
TAIL == 1
IsMarked(i) == i >= MARK
Unmark(i) == IF i >= MARK THEN i - MARK ELSE i

\* LL_SIZE is the next of the tail, and no node.
Indexes == 0 .. LL_SIZE
MarkedIndexes == Indexes \cup {i + MARK : i \in Nodes}

\* p_list->head and then the next of each node.
Path(nx) ==
    LET at[k \in Nodes] == IF k = 0 THEN HEAD
                           ELSE IF at[k - 1] = TAIL THEN TAIL
                           ELSE Unmark(nx[at[k - 1]])
    IN  at
ReachableBy(nx) == {Path(nx)[k] : k \in Nodes}
Reachable == ReachableBy(next)

\* The list as a set.
Set == {data[i] : i \in {n \in Reachable : ~ IsMarked(next[n])} \ {HEAD, TAIL}}

Idle == [op |-> "none"]
Where(v, S) == IF v \in S THEN "in" ELSE "out"
See(S) == seen' = [t \in Threads |-> IF call[t] = Idle THEN {}
                                     ELSE seen[t] \cup {Where(call[t].val, S)}]

Goto(t, from, to) == /\ pc[t] = from
                     /\ pc' = [pc EXCEPT ![t] = to]

\* The bits of word w that bm_find_first_bit_set() can see.
Visible(w) == {i \in Nodes : i \div WORD = w /\ i % WORD < FFS}

\* The indexes new_p_node() hands out one after the other: the head, the tail
\* (FFS >= 2), and the nodes of the values that are added first.
Handout(k) == ((k - 1) \div FFS) * WORD + ((k - 1) % FFS)
InitialNodes == {Handout(k) : k \in 1 .. Len(Initial) + 2}

\* They do not use up the array.
ASSUME InitialFits == InitialNodes \subseteq Nodes

\* After init() and some calls of p_list_add() (main.c fills the list first).
Init ==
    LET at(k) == IF k > Len(Initial) THEN TAIL ELSE Handout(k + 2)
        rank(i) == CHOOSE k \in 1 .. Len(Initial) : at(k) = i
    IN  /\ data = [i \in Nodes |-> CASE i = HEAD -> INT_MIN
                                     [] i = TAIL -> INT_MAX
                                     [] i \in InitialNodes \ {HEAD, TAIL} -> Initial[rank(i)]
                                     [] OTHER -> 0]
        /\ next = [i \in Nodes |-> CASE i = HEAD -> at(1)
                                     [] i = TAIL -> LL_SIZE
                                     [] i \in InitialNodes \ {HEAD, TAIL} -> at(rank(i) + 1)
                                     [] OTHER -> 0]
        /\ EbrInit(InitialNodes)
        /\ pc = [t \in Threads |-> "idle"]
        /\ call = [t \in Threads |-> Idle]
        /\ result = [t \in Threads |-> "none"]
        /\ cur = [t \in Threads |-> 0]
        /\ cur_next = [t \in Threads |-> 0]
        /\ left = [t \in Threads |-> 0]
        /\ left_next = [t \in Threads |-> 0]
        /\ right_idx = [t \in Threads |-> 0]
        /\ new_elem = [t \in Threads |-> 0]
        /\ word = [t \in Threads |-> 0]
        /\ calls = [t \in Threads |-> 0]
        /\ seen = [t \in Threads |-> {}]

------------------------------------------------------------------------------
(* The start and the end of a call.                                         *)

\* start_op() loads the epoch ...
Call(t) == \E r \in Requests :
    /\ Goto(t, "idle", "start")
    /\ calls[t] < MaxCalls[t]
    /\ calls' = [calls EXCEPT ![t] = @ + 1]
    /\ call' = [call EXCEPT ![t] = r]
    /\ seen' = [seen EXCEPT ![t] = {Where(r.val, Set)}]
    /\ StartLoad(t)
    /\ UNCHANGED <<data, next, result, searchVars, right_idx, new_elem, word>>

\* ... and stores it.
Start(t) ==
    /\ Goto(t, "start", IF call[t].op = "contains" THEN "first" ELSE "head")
    /\ StartStore(t)
    /\ UNCHANGED <<data, next, call, result, searchVars, right_idx, new_elem,
                   word, calls, seen>>

End(t) ==
    /\ Goto(t, "end", "return")
    /\ EndOp(t)
    /\ cur' = [cur EXCEPT ![t] = 0]
    /\ left' = [left EXCEPT ![t] = 0]
    /\ right_idx' = [right_idx EXCEPT ![t] = 0]
    /\ UNCHANGED <<data, next, call, result, cur_next, left_next, new_elem,
                   word, calls, seen>>

\* An add() that found its value after it had claimed a node gives it back.
Return(t) ==
    /\ Goto(t, "return", "idle")
    /\ IF new_elem[t] # 0 /\ result[t] = "no" THEN Discard(t, new_elem[t])
                                              ELSE UNCHANGED nodeVars
    /\ new_elem' = [new_elem EXCEPT ![t] = 0]
    /\ call' = [call EXCEPT ![t] = Idle]
    /\ result' = [result EXCEPT ![t] = "none"]
    /\ seen' = [seen EXCEPT ![t] = {}]
    /\ UNCHANGED <<data, next, searchVars, right_idx, word, calls>>

------------------------------------------------------------------------------
(* p_list_search().                                                         *)

\* Once more from the head; right_idx # 0 says that remove() has marked its
\* node and only wants it taken out.
SearchAgain(t, from) ==
    /\ Goto(t, from, "head")
    /\ cur' = [cur EXCEPT ![t] = 0]
    /\ cur_next' = [cur_next EXCEPT ![t] = 0]
    /\ left' = [left EXCEPT ![t] = 0]
    /\ left_next' = [left_next EXCEPT ![t] = 0]

SearchHead(t) ==
    /\ Goto(t, "head", "walk")
    /\ cur' = [cur EXCEPT ![t] = HEAD]
    /\ cur_next' = [cur_next EXCEPT ![t] = next[HEAD]]
    /\ UNCHANGED <<data, next, call, result, left, left_next, right_idx,
                   new_elem, word, calls, seen, nodeVars>>

\* The condition of the loop.  (At the tail the code leaves it with a break:
\* the tail has the greatest key and is never marked.)
Walking(t) == IsMarked(cur_next[t]) \/ data[cur[t]] < call[t].val

\* Mutant of Walk: a marked node may become the left one.
WalkMarked(t) ==
    /\ pc[t] = "walk" /\ Walking(t)
    /\ left' = [left EXCEPT ![t] = cur[t]]
    /\ left_next' = [left_next EXCEPT ![t] = Unmark(cur_next[t])]
    /\ cur' = [cur EXCEPT ![t] = Unmark(cur_next[t])]
    /\ cur_next' = [cur_next EXCEPT ![t] = next[Unmark(cur_next[t])]]
    /\ UNCHANGED <<data, next, pc, call, result, right_idx, new_elem, word,
                   calls, seen, nodeVars>>

Walk(t) ==
    /\ pc[t] = "walk" /\ Walking(t)
    /\ IF IsMarked(cur_next[t])
       THEN UNCHANGED <<left, left_next>>
       ELSE /\ left' = [left EXCEPT ![t] = cur[t]]
            /\ left_next' = [left_next EXCEPT ![t] = cur_next[t]]
    /\ cur' = [cur EXCEPT ![t] = Unmark(cur_next[t])]
    /\ cur_next' = [cur_next EXCEPT ![t] = next[Unmark(cur_next[t])]]
    /\ UNCHANGED <<data, next, pc, call, result, right_idx, new_elem, word,
                   calls, seen, nodeVars>>

\* What add() and remove() do with the node they have found.
Exit(t, from) ==
    LET present == data[cur[t]] = call[t].val
        no == right_idx[t] = 0 /\ (present <=> call[t].op = "add")
    IN  /\ Goto(t, from, IF right_idx[t] # 0 \/ no THEN "end"
                         ELSE IF call[t].op = "remove" THEN "read"
                         ELSE IF new_elem[t] = 0 THEN "find" ELSE "relink")
        /\ result' = [result EXCEPT ![t] = IF no THEN "no" ELSE @]
        /\ cur_next' = [cur_next EXCEPT ![t] = 0]
        /\ left_next' = [left_next EXCEPT ![t] = 0]
        /\ UNCHANGED <<cur, left>>

\* right_node was the next of left_node: it must not be marked now.
Adjacent(t) ==
    /\ pc[t] = "walk" /\ ~ Walking(t) /\ left_next[t] = cur[t]
    /\ IF IsMarked(next[cur[t]]) THEN SearchAgain(t, "walk") /\ UNCHANGED result
                                 ELSE Exit(t, "walk")
    /\ UNCHANGED <<data, next, call, right_idx, new_elem, word, calls, seen,
                   nodeVars>>

Apart(t) == pc[t] = "walk" /\ ~ Walking(t) /\ left_next[t] # cur[t]

\* The marked nodes in between are taken out, all at once ...
Unlink(t) ==
    /\ Apart(t) /\ next[left[t]] = left_next[t]
    /\ pc' = [pc EXCEPT ![t] = "reclaim"]
    /\ next' = [next EXCEPT ![left[t]] = cur[t]]
    /\ Detach(t, linked \ ReachableBy(next'))
    /\ cur_next' = [cur_next EXCEPT ![t] = left_next[t]]
    /\ UNCHANGED <<data, call, result, cur, left, left_next, right_idx,
                   new_elem, word, calls, seen>>

UnlinkFailed(t) ==
    /\ Apart(t) /\ next[left[t]] # left_next[t]
    /\ SearchAgain(t, "walk")
    /\ UNCHANGED <<data, next, call, result, right_idx, new_elem, word, calls,
                   seen, nodeVars>>

\* ... and retired one after the other.
ReclaimNode(t) ==
    /\ Goto(t, "reclaim", "reclaimed")
    /\ Retire(t, Unmark(cur_next[t]))
    /\ UNCHANGED <<data, next, call, result, searchVars, right_idx, new_elem,
                   word, calls, seen>>

ReclaimNext(t) ==
    /\ pc[t] = "reclaimed" /\ ebr_pc[t] = "in"
    /\ LET n == next[Unmark(cur_next[t])] IN
          /\ cur_next' = [cur_next EXCEPT ![t] = n]
          /\ pc' = [pc EXCEPT ![t] = IF Unmark(n) = cur[t] THEN "check" ELSE "reclaim"]
    /\ UNCHANGED <<data, next, call, result, cur, left, left_next, right_idx,
                   new_elem, word, calls, seen, nodeVars>>

Check(t) ==
    /\ IF IsMarked(next[cur[t]]) THEN SearchAgain(t, "check") /\ UNCHANGED result
                                 ELSE Exit(t, "check")
    /\ UNCHANGED <<data, next, call, right_idx, new_elem, word, calls, seen,
                   nodeVars>>

------------------------------------------------------------------------------
(* p_list_add(): new_p_node(), and the insertion.                           *)

\* bm_find_first_bit_set() reads one word after the other.
Free(t) == {i \in bm : i \div WORD = word[t] /\ i % WORD < FFS}
LastWord(t) == word[t] = LL_SIZE \div WORD - 1

FindBit(t) ==
    /\ Goto(t, "find", "claim")
    /\ Free(t) # {}
    /\ new_elem' = [new_elem EXCEPT ![t] = Min(Free(t))]
    /\ word' = [word EXCEPT ![t] = 0]
    /\ UNCHANGED <<data, next, call, result, searchVars, right_idx, calls, seen,
                   nodeVars>>

FindNextWord(t) ==
    /\ pc[t] = "find"
    /\ Free(t) = {} /\ ~ LastWord(t)
    /\ word' = [word EXCEPT ![t] = @ + 1]
    /\ UNCHANGED <<data, next, pc, call, result, searchVars, right_idx, new_elem,
                   calls, seen, nodeVars>>

\* exit(1) ends the process.
OutOfMemory(t) ==
    /\ pc[t] = "find"
    /\ Free(t) = {} /\ LastWord(t)
    /\ pc' = [u \in Threads |-> "exit"]
    /\ UNCHANGED <<data, next, call, result, searchVars, right_idx, new_elem,
                   word, calls, seen, nodeVars>>

\* bm_clear_bit() takes the node, and it is filled in ...
ClaimBit(t) ==
    /\ Goto(t, "claim", "insert")
    /\ Claim(t, new_elem[t])
    /\ data' = [data EXCEPT ![new_elem[t]] = call[t].val]
    /\ next' = [next EXCEPT ![new_elem[t]] = cur[t]]
    /\ UNCHANGED <<call, result, searchVars, right_idx, new_elem, word, calls,
                   seen>>

\* ... unless somebody else has taken it since.
ClaimFailed(t) ==
    /\ Goto(t, "claim", "find")
    /\ new_elem[t] \notin bm
    /\ new_elem' = [new_elem EXCEPT ![t] = 0]
    /\ UNCHANGED <<data, next, call, result, searchVars, right_idx, word,
                   calls, seen, nodeVars>>

\* Mutant of Insert: a store instead of the compare-and-swap.
InsertBlind(t) ==
    /\ Goto(t, "insert", "end")
    /\ next' = [next EXCEPT ![left[t]] = new_elem[t]]
    /\ Publish(t, new_elem[t])
    /\ result' = [result EXCEPT ![t] = "yes"]
    /\ UNCHANGED <<data, call, searchVars, right_idx, new_elem, word, calls>>
    /\ See(Set')

Insert(t) ==
    /\ Goto(t, "insert", "end")
    /\ next[left[t]] = cur[t]
    /\ next' = [next EXCEPT ![left[t]] = new_elem[t]]
    /\ Publish(t, new_elem[t])
    /\ result' = [result EXCEPT ![t] = "yes"]
    /\ UNCHANGED <<data, call, searchVars, right_idx, new_elem, word, calls>>
    /\ See(Set')

\* Mutant of InsertFailed: the same compare-and-swap again.
InsertRetried(t) ==
    /\ next[left[t]] # cur[t]
    /\ Goto(t, "insert", "insert")
    /\ UNCHANGED <<data, next, call, result, searchVars, right_idx, new_elem,
                   word, calls, seen, nodeVars>>

InsertFailed(t) ==
    /\ next[left[t]] # cur[t]
    /\ SearchAgain(t, "insert")
    /\ UNCHANGED <<data, next, call, result, right_idx, new_elem, word, calls,
                   seen, nodeVars>>

Relink(t) ==
    /\ Goto(t, "relink", "insert")
    /\ next' = [next EXCEPT ![new_elem[t]] = cur[t]]
    /\ UNCHANGED <<data, call, result, searchVars, right_idx, new_elem, word,
                   calls, seen, nodeVars>>

------------------------------------------------------------------------------
(* p_list_remove(): the mark, and the attempt to take the node out.         *)

\* Mutant of ReadNext: the mark is not looked at.
ReadNextUnchecked(t) ==
    /\ Goto(t, "read", "mark")
    /\ right_idx' = [right_idx EXCEPT ![t] = next[cur[t]]]
    /\ UNCHANGED <<data, next, call, result, searchVars, new_elem, word, calls,
                   seen, nodeVars>>

ReadNext(t) ==
    /\ IF IsMarked(next[cur[t]])
       THEN SearchAgain(t, "read") /\ UNCHANGED right_idx
       ELSE /\ Goto(t, "read", "mark")
            /\ right_idx' = [right_idx EXCEPT ![t] = next[cur[t]]]
            /\ UNCHANGED searchVars
    /\ UNCHANGED <<data, next, call, result, new_elem, word, calls, seen,
                   nodeVars>>

Mark(t) ==
    /\ Goto(t, "mark", "delete")
    /\ next[cur[t]] = right_idx[t]
    /\ next' = [next EXCEPT ![cur[t]] = right_idx[t] + MARK]
    /\ result' = [result EXCEPT ![t] = "yes"]
    /\ UNCHANGED <<data, call, searchVars, right_idx, new_elem, word, calls,
                   nodeVars>>
    /\ See(Set')

MarkFailed(t) ==
    /\ next[cur[t]] # right_idx[t]
    /\ SearchAgain(t, "mark")
    /\ right_idx' = [right_idx EXCEPT ![t] = 0]
    /\ UNCHANGED <<data, next, call, result, new_elem, word, calls, seen,
                   nodeVars>>

\* Mutant of Delete: a store instead of the compare-and-swap.
DeleteBlind(t) ==
    /\ Goto(t, "delete", "retire")
    /\ next' = [next EXCEPT ![left[t]] = right_idx[t]]
    /\ Detach(t, linked \ ReachableBy(next'))
    /\ UNCHANGED <<data, call, result, searchVars, right_idx, new_elem, word,
                   calls, seen>>

Delete(t) ==
    /\ Goto(t, "delete", "retire")
    /\ next[left[t]] = cur[t]
    /\ next' = [next EXCEPT ![left[t]] = right_idx[t]]
    /\ Detach(t, linked \ ReachableBy(next'))
    /\ UNCHANGED <<data, call, result, searchVars, right_idx, new_elem, word,
                   calls, seen>>

\* A search will do it.
DeleteFailed(t) ==
    /\ next[left[t]] # cur[t]
    /\ SearchAgain(t, "delete")
    /\ UNCHANGED <<data, next, call, result, right_idx, new_elem, word, calls,
                   seen, nodeVars>>

RetireRight(t) ==
    /\ Goto(t, "retire", "end")
    /\ Retire(t, cur[t])
    /\ UNCHANGED <<data, next, call, result, searchVars, right_idx, new_elem,
                   word, calls, seen>>

------------------------------------------------------------------------------
(* p_list_contains().                                                       *)

\* Mutant of Iterate: a marked node counts.
IterateUnmarked(t) ==
    LET i == IF pc[t] = "first" THEN HEAD ELSE cur[t]
        found == data[i] >= call[t].val
    IN  /\ pc[t] \in {"first", "iterate"}
        /\ IF found \/ Unmark(next[i]) = TAIL
           THEN /\ pc' = [pc EXCEPT ![t] = "end"]
                /\ result' = [result EXCEPT ![t] =
                       IF found /\ data[i] = call[t].val THEN "yes" ELSE "no"]
                /\ UNCHANGED cur
           ELSE /\ pc' = [pc EXCEPT ![t] = "iterate"]
                /\ cur' = [cur EXCEPT ![t] = Unmark(next[i])]
                /\ UNCHANGED result
        /\ UNCHANGED <<data, next, call, cur_next, left, left_next, right_idx,
                       new_elem, word, calls, seen, nodeVars>>

\* The next of the head, then of each node that is too small or marked.
Iterate(t) ==
    LET i == IF pc[t] = "first" THEN HEAD ELSE cur[t]
        n == next[i]
        found == data[i] >= call[t].val /\ ~ IsMarked(n)
    IN  /\ pc[t] \in {"first", "iterate"}
        /\ IF found \/ Unmark(n) = TAIL
           THEN /\ pc' = [pc EXCEPT ![t] = "end"]
                /\ result' = [result EXCEPT ![t] =
                       IF found /\ data[i] = call[t].val THEN "yes" ELSE "no"]
                /\ UNCHANGED cur
           ELSE /\ pc' = [pc EXCEPT ![t] = "iterate"]
                /\ cur' = [cur EXCEPT ![t] = Unmark(n)]
                /\ UNCHANGED result
        /\ UNCHANGED <<data, next, call, cur_next, left, left_next, right_idx,
                       new_elem, word, calls, seen, nodeVars>>

------------------------------------------------------------------------------
\* The rest of retire(), inside which pc waits.
Retiring(t) == pc[t] # "exit" /\ UNCHANGED listVars

EbrStep(t) == \/ RetireCount(t) /\ Retiring(t)
              \/ GetMin(t) /\ Retiring(t)
              \/ GotMin(t) /\ Retiring(t)
              \/ Empty(t) /\ Retiring(t)
              \/ RetireDone(t) /\ Retiring(t)

Step(t) == \/ Start(t) \/ End(t) \/ Return(t) \/ EbrStep(t)
           \/ SearchHead(t) \/ Walk(t) \/ Adjacent(t) \/ Unlink(t) \/ UnlinkFailed(t)
           \/ ReclaimNode(t) \/ ReclaimNext(t) \/ Check(t)
           \/ FindBit(t) \/ FindNextWord(t) \/ OutOfMemory(t)
           \/ ClaimBit(t) \/ ClaimFailed(t)
           \/ Insert(t) \/ InsertFailed(t) \/ Relink(t)
           \/ ReadNext(t) \/ Mark(t) \/ MarkFailed(t)
           \/ Delete(t) \/ DeleteFailed(t) \/ RetireRight(t)
           \/ Iterate(t)

\* Nothing is left to do: the process has ended, or used up the bound.
Finished == /\ \A t \in Threads : pc[t] \in {"idle", "exit"}
            /\ \A t \in Threads : pc[t] = "idle" => calls[t] = MaxCalls[t]
            /\ UNCHANGED vars

Next == (\E t \in Threads : Call(t) \/ Step(t)) \/ Finished

Spec == Init /\ [][Next]_vars

\* Each thread runs on while it has something to do.
FairSpec == Spec /\ \A t \in Threads : WF_vars(Step(t))

------------------------------------------------------------------------------
ListTypeOK ==
    /\ EbrTypeOK
    /\ data \in [Nodes -> Values \cup {0, INT_MIN, INT_MAX}]
    /\ next \in [Nodes -> MarkedIndexes]
    /\ pc \in [Threads -> {"idle", "start", "head", "walk", "reclaim",
                           "reclaimed", "check", "find", "claim", "insert",
                           "relink", "read", "mark", "delete", "retire",
                           "first", "iterate", "end", "return", "exit"}]
    /\ call \in [Threads -> Requests \cup {Idle}]
    /\ result \in [Threads -> {"none", "yes", "no"}]
    /\ cur \in [Threads -> Nodes]
    /\ cur_next \in [Threads -> MarkedIndexes]
    /\ left \in [Threads -> Nodes]
    /\ left_next \in [Threads -> Indexes]
    /\ right_idx \in [Threads -> Nodes]
    /\ new_elem \in [Threads -> Nodes]
    /\ word \in [Threads -> 0 .. LL_SIZE \div WORD - 1]
    /\ calls \in [Threads -> Nat]
    /\ seen \in [Threads -> SUBSET {"in", "out"}]

\* The nodes that can be reached are those whose life Ebr follows; they are in
\* order, the head and the tail among them and unmarked.  So no interleaving
\* of insertions, marks and removals loses the rest of the list, links a node
\* twice or brings back one that was taken out.
Linked ==
    /\ linked = Reachable
    /\ TAIL \in Reachable
    /\ ~ IsMarked(next[HEAD])
    /\ \A i \in Reachable \ {TAIL} : data[i] < data[Unmark(next[i])]

\* Whatever a thread holds an index of, to follow it or to write it into
\* another node, it can have met in its operation (p_list_search() returns two
\* bare indexes): the reclamation must not hand such a node out again.
Held(t) == {cur[t], left[t], Unmark(cur_next[t]), left_next[t], right_idx[t]}
HeldReached ==
    \A t \in Threads : InOp(t) => Held(t) \ {LL_SIZE} \subseteq reach[t]

\* The list is a linearizable set: no update is lost, none happens twice, and
\* no answer is out of date, whatever nodes are reused in between.
AbstractSet == INSTANCE LinearSet WITH set <- Set, Callers <- Threads
ImplementsSet == AbstractSet!LinearSetSpec

\* Searches start again when a node was marked or linked under them, but only
\* because some other call got on: with finitely many calls each one returns
\* (unless the process runs out of nodes).
CallsReturn == \A t \in Threads : pc[t] # "idle" ~> pc[t] \in {"idle", "exit"}
==============================================================================
