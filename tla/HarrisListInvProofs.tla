-------------------------- MODULE HarrisListInvProofs --------------------------
(***************************************************************************)
(* HarrisListInv for any number of threads, nodes, values and calls: the   *)
(* invariant holds at the beginning and every step keeps it; and with it   *)
(* HarrisList implements LinearSet: the list is a linearizable set.        *)
(*                                                                         *)
(* Insert and Mark are the instants at which the set changes.  The other   *)
(* answers are given by the step that leaves the search, and are justified *)
(* by what the invariant says has been seen since the call.                *)
(***************************************************************************)
EXTENDS HarrisListProofs

------------------------------------------------------------------------------
(* Lists in order: what the writes to next do to them.                      *)

\* The values of a list with the nodes L.
SetOf(nx, dt, L) == {dt[i] : i \in {n \in L : ~ IsMarked(nx[n])} \ {HEAD, TAIL}}

\* Marks do not matter, nor do nodes that are not in the list.
LEMMA SortedKept ==
    ASSUME NEW nx, NEW dt, NEW L, NEW nx2, NEW dt2, SortedList(nx, dt, L),
           \A i \in L : Unmark(nx2[i]) = Unmark(nx[i]) /\ dt2[i] = dt[i]
    PROVE  SortedList(nx2, dt2, L)
BY DEF SortedList

\* A node linked in behind a.
LEMMA LinkIn ==
    ASSUME NEW nx, NEW dt \in [Nodes -> Nat], NEW L \in SUBSET Nodes, NEW nx2,
           NEW a \in L, NEW n \in Nodes \ L, SortedList(nx, dt, L), a # TAIL,
           dt[a] < dt[n], dt[n] < dt[Unmark(nx[a])],
           nx2[a] = n, Unmark(nx2[n]) = Unmark(nx[a]),
           \A i \in L \ {a} : nx2[i] = nx[i]
    PROVE  SortedList(nx2, dt, L \cup {n})
<1> DEFINE c == Unmark(nx[a])
<1>1. /\ HEAD \in L /\ dt[HEAD] = INT_MIN /\ TAIL \in L /\ dt[TAIL] = INT_MAX
      /\ \A i \in L : INT_MIN <= dt[i] /\ dt[i] <= INT_MAX
      /\ \A i, j \in L : dt[i] = dt[j] => i = j
      /\ \A i \in L \ {TAIL} :
          /\ Unmark(nx[i]) \in L
          /\ dt[i] < dt[Unmark(nx[i])]
          /\ \A j \in L : dt[j] <= dt[i] \/ dt[Unmark(nx[i])] <= dt[j]
  BY DEF SortedList
<1>2. /\ \A i \in L \cup {n} : dt[i] \in Nat
      /\ Unmark(n) = n /\ n # TAIL /\ n # a /\ INT_MIN \in Nat /\ INT_MAX \in Nat
  BY <1>1, NodeIndex, Numbers
<1>3. /\ c \in L /\ Unmark(nx2[a]) = n /\ Unmark(nx2[n]) = c
      /\ dt[a] < dt[n] /\ dt[n] < dt[c]
      /\ \A j \in L : dt[j] <= dt[a] \/ dt[c] <= dt[j]
      /\ \A i \in L \ {a} : nx2[i] = nx[i]
  BY <1>1, <1>2
<1> HIDE DEF c
<1>4. \A i \in L \cup {n} : INT_MIN <= dt[i] /\ dt[i] <= INT_MAX
  BY <1>1, <1>2, <1>3
<1>5. \A i \in L : dt[i] # dt[n]
  BY <1>1, <1>2, <1>3
<1>6. ASSUME NEW i \in (L \cup {n}) \ {TAIL}
      PROVE  /\ Unmark(nx2[i]) \in L \cup {n}
             /\ dt[i] < dt[Unmark(nx2[i])]
             /\ \A j \in L \cup {n} : dt[j] <= dt[i] \/ dt[Unmark(nx2[i])] <= dt[j]
  <2>1. CASE i = a
    BY <1>2, <1>3, <2>1
  <2>2. CASE i = n
    BY <1>2, <1>3, <2>2
  <2>3. CASE i \in L \ {a}
    <3>1. nx2[i] = nx[i] /\ Unmark(nx[i]) \in L /\ dt[i] < dt[Unmark(nx[i])]
      BY <1>1, <1>3, <2>3
    <3>2. dt[i] # dt[a] /\ (dt[a] <= dt[i] \/ dt[Unmark(nx[i])] <= dt[a])
      BY <1>1, <2>3
    <3>3. dt[i] <= dt[a] \/ dt[c] <= dt[i]
      BY <1>3, <2>3
    <3>4. dt[n] <= dt[i] \/ dt[Unmark(nx[i])] <= dt[n]
      BY <1>2, <1>3, <2>3, <3>1, <3>2, <3>3
    <3> QED BY <1>1, <2>3, <3>1, <3>4
  <2> QED BY <2>1, <2>2, <2>3
<1> QED BY <1>1, <1>4, <1>5, <1>6 DEF SortedList

\* The nodes between a and b taken out of L, which leaves K.
Cut(nx, dt, L, nx2, a, b, K) ==
    /\ dt \in [Nodes -> Nat] /\ L \in SUBSET Nodes /\ SortedList(nx, dt, L)
    /\ a \in L /\ b \in L /\ dt[a] < dt[b]
    /\ nx2[a] = b /\ \A i \in L \ {a} : nx2[i] = nx[i]
    /\ K \in SUBSET L /\ \A i \in L : i \in K <=> dt[i] <= dt[a] \/ dt[b] <= dt[i]

LEMMA CutOut ==
    ASSUME NEW nx, NEW dt, NEW L, NEW nx2, NEW a, NEW b, NEW K,
           Cut(nx, dt, L, nx2, a, b, K)
    PROVE  SortedList(nx2, dt, K)
<1> USE DEF Cut
<1>1. /\ HEAD \in L /\ dt[HEAD] = INT_MIN /\ TAIL \in L /\ dt[TAIL] = INT_MAX
      /\ \A i \in L : INT_MIN <= dt[i] /\ dt[i] <= INT_MAX
      /\ \A i, j \in L : dt[i] = dt[j] => i = j
      /\ \A i \in L \ {TAIL} :
          /\ Unmark(nx[i]) \in L
          /\ dt[i] < dt[Unmark(nx[i])]
          /\ \A j \in L : dt[j] <= dt[i] \/ dt[Unmark(nx[i])] <= dt[j]
  BY DEF SortedList
<1>2. \A i \in L : dt[i] \in Nat
  OBVIOUS
<1>3. Unmark(nx2[a]) = b
  BY NodeIndex
<1>4. HEAD \in K /\ TAIL \in K /\ a \in K /\ b \in K
  BY <1>1, <1>2
<1>5. ASSUME NEW i \in K \ {TAIL}
      PROVE  /\ Unmark(nx2[i]) \in K
             /\ dt[i] < dt[Unmark(nx2[i])]
             /\ \A j \in K : dt[j] <= dt[i] \/ dt[Unmark(nx2[i])] <= dt[j]
  <2>1. CASE i = a
    BY <1>2, <1>3, <1>4, <2>1
  <2>2. CASE i # a
    <3> DEFINE s == Unmark(nx[i])
    <3>1. Unmark(nx2[i]) = s /\ i \in L
      BY <2>2
    <3>2. s \in L /\ dt[i] < dt[s] /\ \A j \in L : dt[j] <= dt[i] \/ dt[s] <= dt[j]
      BY <1>1, <3>1
    <3>3. dt[i] # dt[a] /\ (dt[a] <= dt[i] \/ dt[s] <= dt[a])
      BY <1>1, <2>2, <3>2
    <3>4. dt[i] <= dt[a] \/ dt[b] <= dt[i]
      OBVIOUS
    <3> HIDE DEF s
    <3>5. dt[s] <= dt[a] \/ dt[b] <= dt[s]
      BY <1>2, <3>1, <3>2, <3>3, <3>4
    <3> QED BY <3>1, <3>2, <3>5
  <2> QED BY <2>1, <2>2
<1> QED BY <1>1, <1>4, <1>5 DEF SortedList

\* A node that excludes a value.
LEMMA ExcludesNow ==
    ASSUME NEW nx, NEW dt \in [Nodes -> Nat], NEW L \in SUBSET Nodes,
           SortedList(nx, dt, L), NEW i \in L, NEW v,
           \/ i # TAIL /\ dt[i] < v /\ v < dt[Unmark(nx[i])]
           \/ dt[i] = v /\ IsMarked(nx[i])
    PROVE  v \notin SetOf(nx, dt, L)
<1> SUFFICES ASSUME NEW j \in L, ~ IsMarked(nx[j]), dt[j] = v PROVE FALSE
  BY DEF SetOf
<1>1. CASE dt[i] = v /\ IsMarked(nx[i])
  BY <1>1 DEF SortedList
<1>2. CASE i # TAIL /\ dt[i] < v /\ v < dt[Unmark(nx[i])]
  <2>1. dt[j] <= dt[i] \/ dt[Unmark(nx[i])] <= dt[j]
    BY <1>2 DEF SortedList
  <2>2. dt[i] \in Nat /\ dt[j] \in Nat /\ Unmark(nx[i]) \in L
    BY <1>2 DEF SortedList
  <2> QED BY <1>2, <2>1, <2>2
<1> QED BY <1>1, <1>2

------------------------------------------------------------------------------
(* What the invariant says of a state.                                      *)

LEMMA DataNat ==
    /\ ListTypeOK => data \in [Nodes -> Nat]
    /\ ListTypeOK' => data' \in [Nodes -> Nat]
<1>1. Values \cup {0, INT_MIN, INT_MAX} \subseteq Nat
  <2>1. Values \subseteq Nat
    BY ListAssumption
  <2> QED BY <2>1, Numbers
<1> QED BY <1>1 DEF ListTypeOK

LEMMA LinkedNodes ==
    /\ ListTypeOK => linked \in SUBSET Nodes
    /\ ListTypeOK' => linked' \in SUBSET Nodes
BY DEF ListTypeOK, EbrTypeOK

\* The values of the list are those of the unmarked nodes.
LEMMA SetIs ==
    ASSUME ListTypeOK, InOrder
    PROVE  Reachable = linked /\ Set = SetOf(next, data, linked)
<1>1. ReachableBy(next) = linked
  BY DataNat, LinkedNodes, SortedIsReachable DEF InOrder
<1> QED BY <1>1 DEF Reachable, Set, SetOf

LEMMA SetIsNext ==
    ASSUME ListTypeOK', InOrder'
    PROVE  Reachable' = linked' /\ Set' = SetOf(next', data', linked')
<1>1. ReachableBy(next') = linked'
  BY DataNat, LinkedNodes, SortedIsReachable DEF InOrder
<1> QED BY <1>1 DEF Reachable, Set, SetOf

LEMMA Calls ==
    ASSUME ListTypeOK, NEW t \in Threads
    PROVE  /\ call[t] = Idle => call[t].op = "none"
           /\ call[t] # Idle => /\ call[t] \in Requests
                                /\ call[t].op \in {"add", "remove", "contains"}
                                /\ call[t].val \in Values
                                /\ call[t].val \in Nat
                                /\ INT_MIN < call[t].val /\ call[t].val < INT_MAX
<1>1. Requests \subseteq [op : {"add", "remove", "contains"}, val : Values]
  BY ListAssumption
<1>2. Values \subseteq Nat /\ \A v \in Values : INT_MIN < v /\ v < INT_MAX
  BY ListAssumption
<1>3. call[t] \in Requests \/ call[t] = Idle
  BY DEF ListTypeOK
<1>4. Idle.op = "none"
  BY DEF Idle
<1>5. ASSUME call[t] \in Requests
      PROVE  call[t].op \in {"add", "remove", "contains"} /\ call[t].val \in Values
  BY <1>1, <1>5
<1> QED BY <1>2, <1>3, <1>4, <1>5

\* In an operation t can go from node to node.
LEMMA Stand ==
    ASSUME ListInv, EbrInv, NEW t \in Threads, InOp(t)
    PROVE  /\ linked \subseteq reach[t] /\ reach[t] \subseteq Nodes
           /\ HEAD \in linked /\ data[HEAD] = INT_MIN
           /\ TAIL \in linked /\ data[TAIL] = INT_MAX /\ next[TAIL] = LL_SIZE
           /\ ~ IsMarked(next[HEAD])
           /\ cur[t] \in reach[t] /\ left[t] \in reach[t] /\ right_idx[t] \in reach[t]
           /\ cur_next[t] # LL_SIZE => Unmark(cur_next[t]) \in reach[t]
           /\ left_next[t] # LL_SIZE => left_next[t] \in reach[t]
           /\ \A i \in reach[t] : /\ data[i] \in Nat /\ next[i] \in MarkedIndexes
                                  /\ ~ IsMarked(next[i]) => i \in linked
           /\ \A i \in reach[t] \ {TAIL} : /\ Unmark(next[i]) \in reach[t]
                                           /\ data[i] < data[Unmark(next[i])]
           /\ \A i \in linked \ {TAIL} : Unmark(next[i]) \in linked
           /\ call[t] # Idle /\ INT_MIN < call[t].val /\ call[t].val < INT_MAX
           /\ INT_MIN \in Nat /\ INT_MAX \in Nat /\ call[t].val \in Nat
<1>1. linked \subseteq reach[t] /\ reach[t] \subseteq Nodes
  BY DEF ListInv, Traversable, ListTypeOK, EbrTypeOK
<1>2. /\ HEAD \in linked /\ data[HEAD] = INT_MIN
      /\ TAIL \in linked /\ data[TAIL] = INT_MAX /\ next[TAIL] = LL_SIZE
      /\ ~ IsMarked(next[HEAD])
      /\ \A i \in linked \ {TAIL} : Unmark(next[i]) \in linked
  BY DEF ListInv, InOrder, SortedList
<1>3. /\ cur[t] \in Nodes /\ left[t] \in Nodes /\ right_idx[t] \in Nodes
      /\ cur_next[t] \in MarkedIndexes
  BY DEF ListInv, ListTypeOK
<1>4. /\ cur[t] \in reach[t] /\ left[t] \in reach[t] /\ right_idx[t] \in reach[t]
      /\ left_next[t] # LL_SIZE => left_next[t] \in reach[t]
      /\ Unmark(cur_next[t]) # LL_SIZE => Unmark(cur_next[t]) \in reach[t]
  BY <1>3, NodeIndex DEF ListInv, HeldReached, Held
<1>5. cur_next[t] # LL_SIZE => Unmark(cur_next[t]) # LL_SIZE
  BY <1>3, AnyIndex, NoNode
<1>6. \A i \in reach[t] : data[i] \in Nat /\ next[i] \in MarkedIndexes
  BY <1>1, DataNat DEF ListInv, ListTypeOK
<1>7. /\ \A i \in reach[t] : ~ IsMarked(next[i]) => i \in linked
      /\ \A i \in reach[t] \ {TAIL} : /\ Unmark(next[i]) \in reach[t]
                                      /\ data[i] < data[Unmark(next[i])]
  BY DEF ListInv, Traversable, Succ
<1>8. call[t] # Idle
  BY DEF ListInv, Local, Phase
<1>9. /\ INT_MIN < call[t].val /\ call[t].val < INT_MAX
      /\ INT_MIN \in Nat /\ INT_MAX \in Nat /\ call[t].val \in Nat
  BY <1>8, Calls, Numbers DEF ListInv
<1> QED BY <1>1, <1>2, <1>4, <1>5, <1>6, <1>7, <1>8, <1>9

------------------------------------------------------------------------------
(* What a step does to the nodes.                                           *)

\* Nobody notices: of what a thread can have met the keys and the marked next
\* indexes stay.
Frozen == \A u \in Threads : \A i \in reach[u] :
              /\ data'[i] = data[i]
              /\ IsMarked(next[i]) => next'[i] = next[i]

\* If the list is in order after the step, and what it took out was marked
\* before, then all can still go on from node to node, and have seen what the
\* nodes tell them.
LEMMA NodesStep ==
    ASSUME ListInv, EbrInv, ListTypeOK', InOrder', Frozen,
           \A u \in Threads :
               /\ call'[u] # Idle => Where(call'[u].val, Set') \in seen'[u]
               /\ InOp(u)' => linked' \subseteq reach'[u]
               /\ InOp(u)' /\ InOp(u) =>
                      /\ reach[u] \subseteq reach'[u]
                      /\ call'[u] = call[u] /\ seen[u] \subseteq seen'[u]
               /\ InOp(u)' => call'[u] # Idle
               /\ \A i \in reach'[u] \ linked' : i \in reach[u] /\ IsMarked(next[i])
    PROVE  Traversable' /\ Witnessed'
<1>1. ASSUME NEW u \in Threads, InOp(u)', NEW i \in linked'
      PROVE  i # TAIL => /\ Unmark(next'[i]) \in reach'[u]
                         /\ data'[i] < data'[Unmark(next'[i])]
  BY <1>1 DEF InOrder, SortedList
<1>2. ASSUME NEW u \in Threads, InOp(u)', NEW i \in reach'[u] \ linked'
      PROVE  /\ InOp(u) /\ i \in reach[u] /\ IsMarked(next[i])
             /\ next'[i] = next[i] /\ data'[i] = data[i]
             /\ IsMarked(next'[i])
             /\ i # TAIL => /\ Unmark(next'[i]) \in reach'[u]
                            /\ data'[i] < data'[Unmark(next'[i])]
             /\ i # TAIL => data'[Unmark(next'[i])] = data[Unmark(next[i])]
  <2>1. i \in reach[u] /\ IsMarked(next[i]) /\ reach[u] # {}
    BY <1>2
  <2>2. InOp(u)
    BY <2>1 DEF EbrInv, EpochsPast
  <2>3. next'[i] = next[i] /\ data'[i] = data[i]
    BY <2>1 DEF Frozen
  <2>4. i # TAIL => Unmark(next[i]) \in reach[u] /\ data[i] < data[Unmark(next[i])]
    BY <2>1, <2>2 DEF ListInv, Traversable, Succ
  <2>5. i # TAIL => data'[Unmark(next[i])] = data[Unmark(next[i])]
    BY <2>4 DEF Frozen
  <2> QED BY <1>2, <2>1, <2>2, <2>3, <2>4, <2>5
<1>3. Traversable'
  BY <1>1, <1>2 DEF Traversable, Succ
<1>4. ASSUME NEW u \in Threads, InOp(u)', NEW i \in reach'[u], Excludes(i, Key(u))'
      PROVE  "out" \in seen'[u]
  <2>0. \/ i # TAIL /\ data'[i] < call'[u].val /\ call'[u].val < data'[Unmark(next'[i])]
        \/ data'[i] = call'[u].val /\ IsMarked(next'[i])
    BY <1>4 DEF Excludes, Key, Succ
  <2>1. CASE i \in linked'
    <3>1. SortedList(next', data', linked')
      BY DEF InOrder
    <3>2. call'[u].val \notin SetOf(next', data', linked')
      BY <2>0, <2>1, <3>1, DataNat, LinkedNodes, ExcludesNow
    <3>3. call'[u].val \notin Set'
      BY <3>2, SetIsNext
    <3> QED BY <1>4, <3>3 DEF Where
  <2>2. CASE i \notin linked'
    <3>1. Excludes(i, Key(u))
      BY <1>2, <1>4, <2>0, <2>2 DEF Excludes, Key, Succ
    <3>2. "out" \in seen[u]
      BY <1>2, <1>4, <2>2, <3>1 DEF ListInv, Witnessed
    <3> QED BY <1>2, <1>4, <2>2, <3>2
  <2> QED BY <2>1, <2>2
<1>5. Witnessed'
  BY <1>4 DEF Witnessed, Key
<1> QED BY <1>3, <1>5

------------------------------------------------------------------------------
(* What the step of one thread leaves to the others.                        *)

SameLocals(u) ==
    /\ pc'[u] = pc[u] /\ call'[u] = call[u] /\ result'[u] = result[u]
    /\ cur'[u] = cur[u] /\ cur_next'[u] = cur_next[u]
    /\ left'[u] = left[u] /\ left_next'[u] = left_next[u]
    /\ right_idx'[u] = right_idx[u] /\ new_elem'[u] = new_elem[u]

SameNodes(u) ==
    /\ ebr_pc'[u] = ebr_pc[u] /\ owned'[u] = owned[u] /\ detached'[u] = detached[u]
    /\ reach[u] \subseteq reach'[u]
    /\ call[u] # Idle => seen[u] \subseteq seen'[u]
    /\ \A i \in owned[u] : data'[i] = data[i] /\ next'[i] = next[i]

\* What AllMarked says of nodes that u has met stays true.
MarkedStay(u) == \A f, c \in reach[u] :
    data[f] <= data[c] /\ AllMarked(next, data, linked, f, c) =>
        AllMarked(next', data', linked', f, c)

\* Where u is in its own call does not depend on what the others do meanwhile.
LEMMA Others ==
    ASSUME ListInv, EbrInv, Frozen, NEW u \in Threads,
           SameLocals(u), SameNodes(u), MarkedStay(u)
    PROVE  /\ Local(u)'
           /\ InOp(u)' => Held(u)' \ {LL_SIZE} \subseteq reach'[u]
<1> USE DEF SameLocals, SameNodes, Key
<1>1. Local(u)
  BY DEF ListInv
<1>2. InOp(u)' <=> InOp(u)
  BY DEF InOp
<1>3. InOp(u)' => Held(u)' \ {LL_SIZE} \subseteq reach'[u]
  BY <1>2 DEF ListInv, HeldReached, Held
<1>4. \A i \in reach[u] : /\ data'[i] = data[i]
                          /\ IsMarked(next[i]) => next'[i] = next[i]
  BY DEF Frozen
<1>5. Phase(u)' /\ Decided(u)' /\ Cleared(u)'
  BY <1>1, <1>2 DEF Local, Phase, Decided, Cleared
<1>6. Owning(u)'
  <2>1. pc[u] = "insert" => new_elem[u] \in owned[u]
    BY <1>1 DEF Local, Owning, Decided, Adding
  <2> QED BY <1>1, <2>1 DEF Local, Owning
<1>7. ASSUME pc[u] # "idle", pc[u] # "start", pc[u] # "return", pc[u] # "exit"
      PROVE  InOp(u) /\ seen[u] \subseteq seen'[u]
  BY <1>1, <1>7 DEF Local, Phase, InOp, Searching, Adding, Removing, ListInv, ListTypeOK
<1>8. Walked(u)'
  <2> SUFFICES ASSUME pc[u] = "walk" PROVE Walked(u)'
    BY DEF Walked
  <2>1. InOp(u) /\ seen[u] \subseteq seen'[u]
    BY <1>7
  <2>2. /\ cur[u] \in reach[u] /\ left[u] \in reach[u]
        /\ data'[cur[u]] = data[cur[u]] /\ data'[left[u]] = data[left[u]]
    BY <2>1, <1>4, Stand
  <2>3. cur[u] # TAIL => data'[Unmark(cur_next[u])] = data[Unmark(cur_next[u])]
    BY <1>1, <1>4 DEF Local, Walked
  <2>4. cur_next[u] \in MarkedIndexes
    BY DEF ListInv, ListTypeOK
  <2>5. ~ IsMarked(cur_next[u]) => Unmark(cur_next[u]) = cur_next[u]
    BY <2>4, AnyIndex
  <2>6. IsMarked(cur_next[u]) => next'[cur[u]] = next[cur[u]]
    BY <1>1, <1>4, <2>2 DEF Local, Walked
  <2>7. \/ cur[u] = HEAD /\ left_next[u] = 0 /\ ~ IsMarked(cur_next[u])
        \/ /\ data'[left[u]] < call[u].val
           /\ left_next[u] \in reach'[u]
           /\ data'[left[u]] < data'[left_next[u]] /\ data'[left_next[u]] <= data'[cur[u]]
           /\ call[u].val < data'[left_next[u]] => "out" \in seen'[u]
           /\ AllMarked(next', data', linked', left_next[u], cur[u])
    <3> SUFFICES ASSUME ~ (cur[u] = HEAD /\ left_next[u] = 0 /\ ~ IsMarked(cur_next[u]))
                 PROVE  /\ data'[left[u]] < call[u].val
                        /\ left_next[u] \in reach'[u]
                        /\ data'[left[u]] < data'[left_next[u]]
                        /\ data'[left_next[u]] <= data'[cur[u]]
                        /\ call[u].val < data'[left_next[u]] => "out" \in seen'[u]
                        /\ AllMarked(next', data', linked', left_next[u], cur[u])
      OBVIOUS
    <3>1. /\ data[left[u]] < call[u].val
          /\ left_next[u] \in reach[u]
          /\ data[left[u]] < data[left_next[u]] /\ data[left_next[u]] <= data[cur[u]]
          /\ call[u].val < data[left_next[u]] => "out" \in seen[u]
          /\ AllMarked(next, data, linked, left_next[u], cur[u])
      BY <1>1 DEF Local, Walked
    <3>2. data'[left_next[u]] = data[left_next[u]]
      BY <1>4, <3>1
    <3>3. AllMarked(next', data', linked', left_next[u], cur[u])
      BY <2>2, <3>1 DEF MarkedStay
    <3> QED BY <2>1, <2>2, <3>1, <3>2, <3>3
  <2>8. /\ IF cur[u] = TAIL THEN cur_next[u] = LL_SIZE
                             ELSE /\ Unmark(cur_next[u]) \in reach'[u]
                                  /\ data'[cur[u]] < data'[Unmark(cur_next[u])]
        /\ IsMarked(cur_next[u]) => next'[cur[u]] = cur_next[u]
        /\ ~ IsMarked(cur_next[u]) /\ cur[u] # TAIL
              /\ data'[cur[u]] < call[u].val /\ call[u].val < data'[cur_next[u]]
              => "out" \in seen'[u]
    BY <1>1, <2>1, <2>2, <2>3, <2>5, <2>6 DEF Local, Walked
  <2> QED BY <2>7, <2>8 DEF Walked
<1>9. Found(u)'
  <2>1. ASSUME InOp(u)
        PROVE  /\ cur[u] \in reach[u]
               /\ data'[cur[u]] = data[cur[u]] /\ data'[left[u]] = data[left[u]]
               /\ data'[right_idx[u]] = data[right_idx[u]]
               /\ IsMarked(next[cur[u]]) => next'[cur[u]] = next[cur[u]]
    BY <2>1, <1>4, Stand
  <2>2. pc[u] \in {"delete", "retire"} => IsMarked(next[cur[u]])
    BY <1>1, NodeIndex DEF Local, Found
  <2> QED BY <1>1, <1>7, <2>1, <2>2 DEF Local, Found, Adding, Removing
<1>10. Reclaiming(u)'
  <2>1. detached[u] \subseteq reach'[u]
    BY <1>1 DEF Local, Reclaiming
  <2>2. ASSUME pc[u] \in {"reclaim", "reclaimed"}, NEW f,
               Run(next, data, detached[u], f, cur[u])
        PROVE  Run(next', data', detached[u], f, cur[u])
    <3>1. cur[u] \in reach[u] /\ detached[u] \subseteq reach[u]
      BY <1>1, <1>7, <2>2, Stand DEF Local, Reclaiming
    <3>2. /\ \A i \in detached[u] \cup {cur[u]} : data'[i] = data[i]
          /\ \A i \in detached[u] : next'[i] = next[i]
          /\ f \in detached[u]
      BY <1>4, <2>2, <3>1 DEF Run
    <3> QED BY <2>2, <3>2 DEF Run
  <2>3. pc[u] = "reclaim" => 
           Run(next', data', detached[u], Unmark(cur_next[u]), cur[u])
    BY <1>1, <2>2 DEF Local, Reclaiming
  <2>4. ASSUME pc[u] = "reclaimed"
        PROVE  /\ Unmark(cur_next[u]) \in reach'[u] \ {TAIL}
               /\ IsMarked(next'[Unmark(cur_next[u])])
               /\ IF Unmark(next'[Unmark(cur_next[u])]) = cur[u]
                  THEN detached[u] = {}
                  ELSE Run(next', data', detached[u], Unmark(next'[Unmark(cur_next[u])]), cur[u])
    <3>1. next'[Unmark(cur_next[u])] = next[Unmark(cur_next[u])]
      BY <1>1, <1>4, <2>4 DEF Local, Reclaiming
    <3> QED BY <1>1, <2>2, <2>4, <3>1 DEF Local, Reclaiming, Succ
  <2> QED BY <1>1, <2>1, <2>3, <2>4 DEF Local, Reclaiming, Succ
<1> QED BY <1>3, <1>5, <1>6, <1>8, <1>9, <1>10 DEF Local

------------------------------------------------------------------------------
(* The steps that touch no node.                                            *)

\* Such a step of t concerns t only.
LEMMA LocalStep ==
    ASSUME ListInv, EbrInv, NEW t \in Threads,
           UNCHANGED <<data, next, call, seen, nodeVars>>,
           \A u \in Threads \ {t} : SameLocals(u),
           ListTypeOK', Local(t)', InOp(t) => Held(t)' \ {LL_SIZE} \subseteq reach[t]
    PROVE  ListInv'
<1> USE DEF nodeVars, ebrVars, useVars
<1>1. InOrder'
  BY DEF ListInv, InOrder
<1>2. Traversable'
  BY DEF ListInv, Traversable, InOp, Succ
<1>3. Set' = Set
  BY DEF Set, Reachable
<1>4. Witnessed'
  BY <1>3 DEF ListInv, Witnessed, InOp, Excludes, Key, Succ
<1>5. ASSUME NEW u \in Threads \ {t}
      PROVE  Local(u)' /\ (InOp(u)' => Held(u)' \ {LL_SIZE} \subseteq reach'[u])
  <2>1. Frozen
    BY DEF Frozen
  <2>2. SameNodes(u)
    BY DEF SameNodes
  <2>3. MarkedStay(u)
    BY DEF MarkedStay, AllMarked
  <2> QED BY <2>1, <2>2, <2>3, Others
<1>6. HeldReached'
  BY <1>5 DEF HeldReached, InOp
<1> QED BY <1>1, <1>2, <1>4, <1>5, <1>6 DEF ListInv

LEMMA SearchHeadInv ==
    ASSUME ListInv, EbrInv, NEW t \in Threads, SearchHead(t)
    PROVE  ListInv'
<1> USE DEF SearchHead, Goto
<1>1. /\ pc[t] = "head" /\ Local(t) /\ InOp(t) /\ ebr_pc[t] = "in" /\ ListTypeOK
  BY DEF ListInv, Local, Phase, InOp, Searching
<1>2. /\ \A u \in Threads \ {t} : SameLocals(u)
      /\ pc'[t] = "walk" /\ cur'[t] = HEAD /\ cur_next'[t] = next[HEAD]
      /\ left_next[t] = 0
  BY <1>1 DEF ListTypeOK, SameLocals, Local, Cleared
<1>3. HEAD \in reach[t] /\ TAIL \in reach[t] /\ HEAD \in Nodes
  BY <1>1, Stand
<1>4. next[HEAD] \in MarkedIndexes /\ ~ IsMarked(next[HEAD]) /\ Unmark(next[HEAD]) = next[HEAD]
  BY <1>1, <1>3, Stand, AnyIndex
<1>5. ListTypeOK'
  BY <1>1, <1>3, <1>4 DEF ListTypeOK, EbrTypeOK, nodeVars, ebrVars, useVars, Block, RetiredIdx
<1>6. next[HEAD] \in reach[t] /\ data[HEAD] < data[next[HEAD]]
  BY <1>1, <1>3, <1>4, Stand, Numbers
<1>7. data[HEAD] < Key(t) /\ Key(t) < data[next[HEAD]] => "out" \in seen[t]
  BY <1>1, <1>3, <1>4, Numbers DEF ListInv, Witnessed, Excludes, Succ
<1>8. Walked(t)'
  BY <1>2, <1>3, <1>4, <1>6, <1>7, Numbers DEF Walked, Key, nodeVars, useVars
<1>9. Local(t)'
  BY <1>1, <1>2, <1>8
  DEF Local, Phase, Decided, Cleared, Owning, Found, Reclaiming, Key, Searching,
      Adding, Removing, InOp, nodeVars, ebrVars, useVars
<1>10. Held(t)' \ {LL_SIZE} \subseteq reach[t]
  BY <1>1, <1>2, <1>3, <1>4, <1>6, Stand DEF Held
<1> QED BY <1>2, <1>5, <1>9, <1>10, LocalStep

\* Once more from the head: wherever t was, it remembers no node.
LEMMA SearchAgainInv ==
    ASSUME ListInv, EbrInv, NEW t \in Threads,
           NEW from \in {"walk", "check", "insert", "read", "mark", "delete"},
           SearchAgain(t, from),
           UNCHANGED <<data, next, call, result, new_elem, word, calls, seen, nodeVars>>,
           UNCHANGED right_idx \/ right_idx' = [right_idx EXCEPT ![t] = 0],
           result[t] = IF right_idx'[t] = 0 THEN "none" ELSE "yes"
    PROVE  ListInv'
<1> USE DEF SearchAgain, Goto
<1>1. pc[t] = from /\ Local(t) /\ InOp(t) /\ ebr_pc[t] = "in" /\ ListTypeOK
  BY DEF ListInv, Local, Phase, InOp, Searching, Adding, Removing
<1>2. /\ \A u \in Threads \ {t} : SameLocals(u)
      /\ pc'[t] = "head" /\ cur'[t] = 0 /\ cur_next'[t] = 0
      /\ left'[t] = 0 /\ left_next'[t] = 0 /\ right_idx'[t] \in {0, right_idx[t]}
  BY <1>1 DEF ListTypeOK, SameLocals
<1>3. HEAD \in reach[t] /\ 0 \in Nodes /\ 0 \in MarkedIndexes /\ 0 \in Indexes
  BY <1>1, Stand, Numbers, NodeIndex DEF HEAD
<1>4. ListTypeOK'
  BY <1>1, <1>3 DEF ListTypeOK, EbrTypeOK, nodeVars, ebrVars, useVars, Block, RetiredIdx
<1>5. Phase(t)' /\ Cleared(t)'
  BY <1>1, <1>2
  DEF Local, Phase, Cleared, Searching, Adding, Removing, InOp, nodeVars, ebrVars
<1>6. Decided(t)'
  <2>1. right_idx[t] # 0 => call[t].op = "remove"
    BY <1>1 DEF Local, Phase, Decided, Cleared, Searching, Adding, Removing
  <2> QED BY <1>1, <1>2, <2>1 DEF Decided, Searching, Adding
<1>7. Owning(t)' /\ Walked(t)' /\ Found(t)' /\ Reclaiming(t)'
  BY <1>1, <1>2
  DEF Local, Owning, Walked, Found, Reclaiming, Key, Adding, Removing, nodeVars, useVars
<1>8. Held(t)' \ {LL_SIZE} \subseteq reach[t]
  <2>1. Unmark(0) = 0
    BY <1>3, NodeIndex
  <2> QED BY <1>1, <1>2, <1>3, <2>1, Stand DEF Held, HEAD
<1> QED BY <1>2, <1>4, <1>5, <1>6, <1>7, <1>8, LocalStep DEF Local

LEMMA FailedInv ==
    ASSUME ListInv, EbrInv, NEW t \in Threads,
           UnlinkFailed(t) \/ InsertFailed(t) \/ MarkFailed(t) \/ DeleteFailed(t)
    PROVE  ListInv'
<1>1. Local(t) /\ ListTypeOK
  BY DEF ListInv
<1>2. CASE UnlinkFailed(t)
  <2>1. result[t] = IF right_idx[t] = 0 THEN "none" ELSE "yes"
    BY <1>1, <1>2 DEF UnlinkFailed, Apart, Local, Decided, Searching
  <2> QED BY <1>2, <2>1, SearchAgainInv DEF UnlinkFailed
<1>3. CASE InsertFailed(t)
  <2>1. result[t] = "none" /\ right_idx[t] = 0
    BY <1>1, <1>3 DEF InsertFailed, SearchAgain, Goto, Local, Decided, Cleared, Adding
  <2> QED BY <1>3, <2>1, SearchAgainInv DEF InsertFailed
<1>4. CASE MarkFailed(t)
  <2>1. result[t] = "none" /\ right_idx'[t] = 0
    BY <1>1, <1>4 DEF MarkFailed, SearchAgain, Goto, Local, Decided, ListTypeOK
  <2> QED BY <1>4, <2>1, SearchAgainInv DEF MarkFailed
<1>5. CASE DeleteFailed(t)
  <2>1. result[t] = "yes" /\ right_idx[t] # 0
    BY <1>1, <1>5
    DEF DeleteFailed, SearchAgain, Goto, Local, Decided, Found
  <2> QED BY <1>5, <2>1, SearchAgainInv DEF DeleteFailed
<1> QED BY <1>2, <1>3, <1>4, <1>5

LEMMA WalkInv ==
    ASSUME ListInv, EbrInv, NEW t \in Threads, Walk(t)
    PROVE  ListInv'
<1> USE DEF Walk, Walking
<1>1. pc[t] = "walk" /\ Local(t) /\ InOp(t) /\ ebr_pc[t] = "in" /\ ListTypeOK
  BY DEF ListInv, Local, Phase, InOp, Searching
<1> DEFINE c == Unmark(cur_next[t])
<1>2. /\ \A u \in Threads \ {t} : SameLocals(u)
      /\ cur'[t] = c /\ cur_next'[t] = next[c] /\ pc' = pc
      /\ IF IsMarked(cur_next[t])
         THEN left'[t] = left[t] /\ left_next'[t] = left_next[t]
         ELSE left'[t] = cur[t] /\ left_next'[t] = cur_next[t]
  BY <1>1 DEF ListTypeOK, SameLocals
<1>3. cur[t] # TAIL
  <2> SUFFICES ASSUME cur[t] = TAIL PROVE FALSE
    OBVIOUS
  <2>1. cur_next[t] = LL_SIZE
    BY <1>1 DEF Local, Walked
  <2>2. ~ IsMarked(cur_next[t])
    BY <2>1, NoNode
  <2> QED BY <1>1, <2>2, Stand, Numbers
<1>4. /\ c \in reach[t] /\ c \in Nodes /\ data[cur[t]] < data[c]
      /\ cur[t] \in reach[t] /\ data[cur[t]] \in Nat /\ data[c] \in Nat
      /\ call[t].val \in Nat /\ c # LL_SIZE /\ cur[t] \in Nodes
  BY <1>1, <1>3, Stand, Numbers DEF Local, Walked
<1>5. /\ next[c] \in MarkedIndexes
      /\ IF c = TAIL THEN next[c] = LL_SIZE
                     ELSE Unmark(next[c]) \in reach[t] /\ data[c] < data[Unmark(next[c])]
  BY <1>1, <1>4, Stand
<1>6. cur_next[t] \in MarkedIndexes /\ (~ IsMarked(cur_next[t]) => cur_next[t] = c /\ c \in Indexes)
  BY <1>1, AnyIndex DEF ListTypeOK
<1>7. ListTypeOK'
  BY <1>1, <1>4, <1>5, <1>6
  DEF ListTypeOK, EbrTypeOK, nodeVars, ebrVars, useVars, Block, RetiredIdx
<1>8. ~ IsMarked(next[c]) /\ c # TAIL /\ data[c] < call[t].val /\ call[t].val < data[next[c]]
      => "out" \in seen[t]
  <2>1. ~ IsMarked(next[c]) => Unmark(next[c]) = next[c]
    BY <1>5, AnyIndex
  <2> QED BY <1>1, <1>4, <2>1 DEF ListInv, Witnessed, Excludes, Succ, Key
<1>9. ASSUME IsMarked(cur_next[t]) PROVE Walked(t)'
  <2>1. /\ data[left[t]] < call[t].val
        /\ left_next[t] \in reach[t]
        /\ data[left[t]] < data[left_next[t]] /\ data[left_next[t]] <= data[cur[t]]
        /\ call[t].val < data[left_next[t]] => "out" \in seen[t]
        /\ AllMarked(next, data, linked, left_next[t], cur[t])
        /\ next[cur[t]] = cur_next[t]
    BY <1>1, <1>9 DEF Local, Walked, Key
  <2>2. data[left_next[t]] <= data[c]
    BY <1>1, <1>4, <2>1, Stand
  <2>3. AllMarked(next, data, linked, left_next[t], c)
    <3> SUFFICES ASSUME left_next[t] \in linked
                 PROVE  /\ c \in linked
                        /\ \A i \in linked : data[left_next[t]] <= data[i] /\ data[i] < data[c]
                                             => IsMarked(next[i])
      BY DEF AllMarked
    <3>1. /\ cur[t] \in linked
          /\ \A i \in linked : data[left_next[t]] <= data[i] /\ data[i] < data[cur[t]]
                               => IsMarked(next[i])
      BY <2>1 DEF AllMarked
    <3>2. /\ c \in linked
          /\ \A j \in linked : data[j] <= data[cur[t]] \/ data[c] <= data[j]
          /\ \A j \in linked : data[j] = data[cur[t]] => j = cur[t]
      BY <1>3, <2>1, <3>1 DEF ListInv, InOrder, SortedList
    <3>3. \A i \in linked : data[i] \in Nat
      BY <1>1, Stand
    <3> QED BY <1>4, <1>9, <2>1, <3>1, <3>2, <3>3
  <2> HIDE DEF c
  <2> QED
    BY <1>2, <1>5, <1>8, <1>9, <2>1, <2>2, <2>3 DEF Walked, Key, nodeVars, useVars
<1>10. ASSUME ~ IsMarked(cur_next[t]) PROVE Walked(t)'
  <2>1. call[t].val < data[c] => "out" \in seen[t]
    BY <1>1, <1>3, <1>6, <1>10 DEF Local, Walked, Key
  <2>2. AllMarked(next, data, linked, c, c)
    BY <1>1, <1>4, Stand DEF AllMarked
  <2>3. data[cur[t]] < call[t].val
    BY <1>10
  <2> HIDE DEF c
  <2> QED
    BY <1>2, <1>4, <1>5, <1>6, <1>8, <1>10, <2>1, <2>2, <2>3
    DEF Walked, Key, nodeVars, useVars
<1>11. Phase(t)' /\ Decided(t)' /\ Cleared(t)' /\ Owning(t)' /\ Found(t)' /\ Reclaiming(t)'
  BY <1>1, <1>2
  DEF Local, Phase, Decided, Cleared, Owning, Found, Reclaiming, Key, Searching,
      Adding, Removing, InOp, nodeVars, ebrVars, useVars
<1>12. Held(t)' \ {LL_SIZE} \subseteq reach[t]
  <2>1. next[c] # LL_SIZE => Unmark(next[c]) \in reach[t]
    BY <1>5
  <2>2. Unmark(LL_SIZE) = LL_SIZE
    BY NoNode
  <2>3. left'[t] \in reach[t] /\ (left_next'[t] # LL_SIZE => left_next'[t] \in reach[t])
    BY <1>1, <1>2, <1>4, <1>6, Stand
  <2> HIDE DEF c
  <2> QED BY <1>1, <1>2, <1>4, <2>1, <2>2, <2>3, Stand DEF Held
<1> QED BY <1>2, <1>7, <1>9, <1>10, <1>11, <1>12, LocalStep DEF Local

\* The node is found; what becomes of it depends on the operation.
LEMMA ExitInv ==
    ASSUME ListInv, EbrInv, NEW t \in Threads, NEW from \in {"walk", "check"},
           Exit(t, from),
           UNCHANGED <<data, next, call, right_idx, new_elem, word, calls, seen, nodeVars>>,
           data[left[t]] < call[t].val, call[t].val <= data[cur[t]]
    PROVE  ListInv'
<1> USE DEF Exit, Goto
<1>1. pc[t] = from /\ Local(t) /\ InOp(t) /\ ebr_pc[t] = "in" /\ ListTypeOK
  BY DEF ListInv, Local, Phase, InOp, Searching
<1> DEFINE present == data[cur[t]] = call[t].val
           no == right_idx[t] = 0 /\ (present <=> call[t].op = "add")
<1>2. /\ \A u \in Threads \ {t} : SameLocals(u)
      /\ pc'[t] = IF right_idx[t] # 0 \/ no THEN "end"
                  ELSE IF call[t].op = "remove" THEN "read"
                  ELSE IF new_elem[t] = 0 THEN "find" ELSE "relink"
      /\ result'[t] = IF no THEN "no" ELSE result[t]
      /\ cur_next'[t] = 0 /\ left_next'[t] = 0 /\ cur' = cur /\ left' = left
  BY <1>1 DEF ListTypeOK, SameLocals
<1>3. 0 \in Nodes /\ 0 \in MarkedIndexes /\ 0 \in Indexes /\ HEAD \in reach[t]
  BY <1>1, Numbers, NodeIndex, Stand DEF HEAD
<1>4. ListTypeOK'
  BY <1>1, <1>3 DEF ListTypeOK, EbrTypeOK, nodeVars, ebrVars, useVars, Block, RetiredIdx
<1>5. call[t].op \in {"add", "remove"} /\ call[t] # Idle
  BY <1>1, Stand DEF Local, Phase, Searching
<1>6. /\ right_idx[t] # 0 => call[t].op = "remove"
      /\ result[t] = IF right_idx[t] = 0 THEN "none" ELSE "yes"
  BY <1>1 DEF Local, Decided, Searching
<1>7. Phase(t)' /\ Cleared(t)' /\ Walked(t)'
  BY <1>1, <1>2, <1>5, <1>6
  DEF Local, Phase, Cleared, Walked, Searching, Adding, Removing, InOp, nodeVars, ebrVars
<1>8. Decided(t)'
  BY <1>2, <1>5, <1>6 DEF Decided, Searching, Adding
<1>9. Owning(t)' /\ Reclaiming(t)'
  BY <1>1, <1>2, <1>5, <1>6 DEF Local, Owning, Reclaiming, Key, nodeVars, useVars
<1>10. Found(t)'
  <2>1. data[cur[t]] \in Nat /\ call[t].val \in Nat
    BY <1>1, Stand
  <2> QED BY <1>2, <1>5, <1>6, <2>1 DEF Found, Key, Adding, Removing
<1>11. Held(t)' \ {LL_SIZE} \subseteq reach[t]
  <2>1. Unmark(0) = 0
    BY <1>3, NodeIndex
  <2> QED BY <1>1, <1>2, <1>3, <2>1, Stand DEF Held, HEAD
<1> QED BY <1>2, <1>4, <1>7, <1>8, <1>9, <1>10, <1>11, LocalStep DEF Local

\* Where a search leaves its loop.
LEMMA WalkDone ==
    ASSUME ListInv, EbrInv, NEW t \in Threads, pc[t] = "walk", ~ Walking(t)
    PROVE  /\ InOp(t) /\ ebr_pc[t] = "in"
           /\ data[left[t]] < call[t].val /\ call[t].val <= data[cur[t]]
           /\ left_next[t] \in reach[t]
           /\ data[left[t]] < data[left_next[t]] /\ data[left_next[t]] <= data[cur[t]]
           /\ call[t].val < data[left_next[t]] => "out" \in seen[t]
           /\ AllMarked(next, data, linked, left_next[t], cur[t])
<1>1. Local(t) /\ InOp(t) /\ ebr_pc[t] = "in"
  BY DEF ListInv, Local, Phase, InOp, Searching
<1>2. call[t].val <= data[cur[t]]
  BY <1>1, Stand DEF Walking
<1>3. cur[t] # HEAD
  BY <1>1, <1>2, Stand
<1> QED BY <1>1, <1>2, <1>3 DEF Local, Walked, Key

LEMMA AdjacentInv ==
    ASSUME ListInv, EbrInv, NEW t \in Threads, Adjacent(t)
    PROVE  ListInv'
<1>1. CASE IsMarked(next[cur[t]])
  <2>1. SearchAgain(t, "walk") /\ UNCHANGED <<data, next, call, result, new_elem,
                                              word, calls, seen, nodeVars, right_idx>>
    BY <1>1 DEF Adjacent
  <2>2. result[t] = IF right_idx'[t] = 0 THEN "none" ELSE "yes"
    BY <2>1 DEF ListInv, Local, Decided, Searching, SearchAgain, Goto
  <2> QED BY <2>1, <2>2, SearchAgainInv
<1>2. CASE ~ IsMarked(next[cur[t]])
  BY <1>2, WalkDone, ExitInv DEF Adjacent
<1> QED BY <1>1, <1>2

LEMMA CheckInv ==
    ASSUME ListInv, EbrInv, NEW t \in Threads, Check(t)
    PROVE  ListInv'
<1>1. CASE IsMarked(next[cur[t]])
  <2>1. SearchAgain(t, "check") /\ UNCHANGED <<data, next, call, result, new_elem,
                                               word, calls, seen, nodeVars, right_idx>>
    BY <1>1 DEF Check
  <2>2. result[t] = IF right_idx'[t] = 0 THEN "none" ELSE "yes"
    BY <2>1 DEF ListInv, Local, Decided, Searching, SearchAgain, Goto
  <2> QED BY <2>1, <2>2, SearchAgainInv
<1>2. CASE ~ IsMarked(next[cur[t]])
  <2>1. Exit(t, "check") /\ UNCHANGED <<data, next, call, right_idx, new_elem,
                                        word, calls, seen, nodeVars>>
    BY <1>2 DEF Check
  <2>2. data[left[t]] < call[t].val /\ call[t].val <= data[cur[t]]
    BY <2>1 DEF ListInv, Local, Found, Key, Exit, Goto
  <2> QED BY <2>1, <2>2, ExitInv
<1> QED BY <1>1, <1>2

LEMMA ReclaimNextInv ==
    ASSUME ListInv, EbrInv, NEW t \in Threads, ReclaimNext(t)
    PROVE  ListInv'
<1> USE DEF ReclaimNext
<1> DEFINE f == Unmark(cur_next[t])
<1>1. pc[t] = "reclaimed" /\ ebr_pc[t] = "in" /\ Local(t) /\ InOp(t) /\ ListTypeOK
  BY DEF ListInv, InOp
<1>2. /\ \A u \in Threads \ {t} : SameLocals(u)
      /\ cur_next'[t] = next[f]
      /\ pc'[t] = IF Unmark(next[f]) = cur[t] THEN "check" ELSE "reclaim"
  BY <1>1 DEF ListTypeOK, SameLocals
<1>3. /\ f \in reach[t] \ {TAIL} /\ f \in Nodes
      /\ IF Unmark(next[f]) = cur[t]
         THEN detached[t] = {}
         ELSE Run(next, data, detached[t], Unmark(next[f]), cur[t])
  BY <1>1, Stand DEF Local, Reclaiming, Succ
<1>4. next[f] \in MarkedIndexes /\ Unmark(next[f]) \in reach[t]
  BY <1>1, <1>3, Stand
<1> HIDE DEF f
<1>5. ListTypeOK'
  BY <1>1, <1>4 DEF ListTypeOK, EbrTypeOK, nodeVars, ebrVars, useVars, Block, RetiredIdx, f
<1>6. Phase(t)' /\ Decided(t)' /\ Cleared(t)' /\ Owning(t)' /\ Walked(t)'
  BY <1>1, <1>2
  DEF Local, Phase, Decided, Cleared, Owning, Walked, Key, Searching, Adding,
      Removing, InOp, nodeVars, ebrVars, useVars
<1>7. Found(t)'
  BY <1>1, <1>2 DEF Local, Found, Key, Adding, Removing
<1>8. Reclaiming(t)'
  BY <1>1, <1>2, <1>3 DEF Local, Reclaiming, nodeVars, useVars
<1>9. Held(t)' \ {LL_SIZE} \subseteq reach[t]
  BY <1>1, <1>2, <1>4, Stand DEF Held
<1> QED BY <1>2, <1>5, <1>6, <1>7, <1>8, <1>9, LocalStep DEF Local

\* The bitmap has at least one word.
LEMMA Words == LL_SIZE \div WORD \in Nat /\ 0 \in 0 .. LL_SIZE \div WORD - 1
<1>1. WORD \in Nat \ {0} /\ LL_SIZE \in Nat /\ LL_SIZE >= 2 /\ LL_SIZE % WORD = 0
  BY ListAssumption, EbrAssumption
<1> DEFINE q == LL_SIZE \div WORD
<1>2. q \in Nat /\ LL_SIZE = WORD * q + (LL_SIZE % WORD)
  BY <1>1
<1> HIDE DEF q
<1>3. q # 0
  BY <1>1, <1>2
<1> QED BY <1>2, <1>3 DEF q

LEMMA FindBitInv ==
    ASSUME ListInv, EbrInv, NEW t \in Threads, FindBit(t)
    PROVE  ListInv'
<1> USE DEF FindBit, Goto
<1> DEFINE n == Min(Free(t))
<1>1. pc[t] = "find" /\ ebr_pc[t] = "in" /\ Local(t) /\ InOp(t) /\ ListTypeOK
  BY DEF ListInv, Local, Phase, InOp, Adding
<1>2. n \in bm /\ n \in Nodes
  <2>1. Free(t) \subseteq Nat /\ Free(t) # {} /\ Free(t) \subseteq bm
    BY <1>1, Numbers DEF Free, ListTypeOK, EbrTypeOK
  <2>2. \E m \in Free(t) : \A i \in Free(t) : m <= i
    BY <2>1, Least
  <2>3. n \in Free(t)
    BY <2>2 DEF Min
  <2> QED BY <1>1, <2>1, <2>3 DEF ListTypeOK, EbrTypeOK
<1>3. n # 0
  BY <1>1, <1>2, Stand DEF EbrInv, Protected, HEAD
<1> HIDE DEF n
<1>4. /\ \A u \in Threads \ {t} : SameLocals(u)
      /\ pc'[t] = "claim" /\ new_elem'[t] = n
  BY <1>1 DEF ListTypeOK, SameLocals, searchVars, n
<1>5. ListTypeOK'
  BY <1>1, <1>2, Words
  DEF ListTypeOK, EbrTypeOK, nodeVars, ebrVars, useVars, searchVars, Block, RetiredIdx, n
<1>6. Phase(t)' /\ Decided(t)' /\ Cleared(t)' /\ Walked(t)' /\ Found(t)' /\ Reclaiming(t)'
  BY <1>1, <1>4
  DEF Local, Phase, Decided, Cleared, Walked, Found, Reclaiming, Key, Searching,
      Adding, Removing, InOp, nodeVars, ebrVars, useVars, searchVars
<1>7. Owning(t)'
  <2>1. owned[t] = {}
    BY <1>1 DEF Local, Owning, Cleared
  <2> QED BY <1>3, <1>4, <2>1 DEF Owning, nodeVars, useVars
<1>8. Held(t)' \ {LL_SIZE} \subseteq reach[t]
  BY <1>1 DEF ListInv, HeldReached, Held, searchVars
<1> QED BY <1>4, <1>5, <1>6, <1>7, <1>8, LocalStep DEF Local

LEMMA FindNextWordInv ==
    ASSUME ListInv, EbrInv, NEW t \in Threads, FindNextWord(t)
    PROVE  ListInv'
<1> USE DEF FindNextWord, LastWord
<1>1. pc[t] = "find" /\ Local(t) /\ InOp(t) /\ ListTypeOK
  BY DEF ListInv, Local, Phase, InOp, Adding
<1>2. \A u \in Threads : SameLocals(u)
  BY <1>1 DEF ListTypeOK, SameLocals, searchVars
<1>3. word[t] + 1 \in 0 .. LL_SIZE \div WORD - 1
  <2> DEFINE q == LL_SIZE \div WORD
  <2>1. q \in Nat /\ word[t] \in 0 .. q - 1 /\ word[t] # q - 1
    BY <1>1, Words DEF ListTypeOK
  <2> HIDE DEF q
  <2>2. word[t] + 1 \in 0 .. q - 1
    BY <2>1
  <2> QED BY <2>2 DEF q
<1>4. ListTypeOK'
  BY <1>1, <1>3
  DEF ListTypeOK, EbrTypeOK, nodeVars, ebrVars, useVars, searchVars, Block, RetiredIdx
<1>5. Local(t)'
  BY <1>1, <1>2
  DEF Local, Phase, Decided, Cleared, Owning, Walked, Found, Reclaiming, Key,
      Searching, Adding, Removing, InOp, SameLocals, nodeVars, ebrVars, useVars
<1>6. Held(t)' \ {LL_SIZE} \subseteq reach[t]
  BY <1>1 DEF ListInv, HeldReached, Held, searchVars
<1> QED BY <1>2, <1>4, <1>5, <1>6, LocalStep

LEMMA ClaimFailedInv ==
    ASSUME ListInv, EbrInv, NEW t \in Threads, ClaimFailed(t)
    PROVE  ListInv'
<1> USE DEF ClaimFailed, Goto
<1>1. pc[t] = "claim" /\ Local(t) /\ InOp(t) /\ ListTypeOK
  BY DEF ListInv, Local, Phase, InOp, Adding
<1>2. /\ \A u \in Threads \ {t} : SameLocals(u)
      /\ pc'[t] = "find" /\ new_elem'[t] = 0
  BY <1>1 DEF ListTypeOK, SameLocals, searchVars
<1>3. ListTypeOK'
  BY <1>1, Numbers
  DEF ListTypeOK, EbrTypeOK, nodeVars, ebrVars, useVars, searchVars, Block, RetiredIdx, HEAD
<1>4. Local(t)'
  BY <1>1, <1>2
  DEF Local, Phase, Decided, Cleared, Owning, Walked, Found, Reclaiming, Key,
      Searching, Adding, Removing, InOp, nodeVars, ebrVars, useVars, searchVars
<1>5. Held(t)' \ {LL_SIZE} \subseteq reach[t]
  BY <1>1 DEF ListInv, HeldReached, Held, searchVars
<1> QED BY <1>2, <1>3, <1>4, <1>5, LocalStep

LEMMA ReadNextInv ==
    ASSUME ListInv, EbrInv, NEW t \in Threads, ReadNext(t)
    PROVE  ListInv'
<1> DEFINE n == next[cur[t]]
<1>1. CASE IsMarked(n)
  <2>1. SearchAgain(t, "read") /\ UNCHANGED <<data, next, call, result, new_elem,
                                              word, calls, seen, nodeVars, right_idx>>
    BY <1>1 DEF ReadNext
  <2>2. result[t] = IF right_idx'[t] = 0 THEN "none" ELSE "yes"
    BY <2>1 DEF ListInv, Local, Decided, Cleared, SearchAgain, Goto
  <2> QED BY <2>1, <2>2, SearchAgainInv
<1>2. CASE ~ IsMarked(n)
  <2>1. pc[t] = "read" /\ pc' = [pc EXCEPT ![t] = "mark"] /\ Local(t) /\ InOp(t) /\ ListTypeOK
    BY <1>2 DEF ReadNext, Goto, ListInv, Local, Phase, InOp, Removing
  <2>2. /\ right_idx' = [right_idx EXCEPT ![t] = n]
        /\ UNCHANGED <<data, next, call, result, searchVars, new_elem, word, calls, seen, nodeVars>>
    BY <1>2 DEF ReadNext
  <2>3. /\ \A u \in Threads \ {t} : SameLocals(u)
        /\ pc'[t] = "mark" /\ right_idx'[t] = n
    BY <2>1, <2>2 DEF ListTypeOK, SameLocals, searchVars
  <2>4. /\ cur[t] \in reach[t] /\ cur[t] # TAIL /\ data[cur[t]] = call[t].val
        /\ INT_MIN < call[t].val
    BY <2>1, Stand, Numbers DEF Local, Found, Removing, Key
  <2>5. Unmark(n) = n /\ n \in reach[t] /\ data[cur[t]] < data[n]
    BY <1>2, <2>1, <2>4, Stand, AnyIndex
  <2>6. n \in Nodes /\ n # 0
    <3>1. /\ data[HEAD] = INT_MIN /\ n \in Nodes
          /\ data[n] \in Nat /\ data[cur[t]] \in Nat
      BY <2>1, <2>4, <2>5, Stand
    <3> QED BY <2>4, <2>5, <3>1, Numbers DEF HEAD
  <2> HIDE DEF n
  <2>7. ListTypeOK'
    BY <2>1, <2>2, <2>6
    DEF ListTypeOK, EbrTypeOK, nodeVars, ebrVars, useVars, searchVars, Block, RetiredIdx
  <2>8. /\ Phase(t)' /\ Decided(t)' /\ Cleared(t)' /\ Owning(t)' /\ Walked(t)'
        /\ Reclaiming(t)'
    BY <2>1, <2>2, <2>3
    DEF Local, Phase, Decided, Cleared, Owning, Walked, Reclaiming, Key, Searching,
        Adding, Removing, InOp, nodeVars, ebrVars, useVars, searchVars
  <2>9. Found(t)'
    BY <2>1, <2>2, <2>3, <2>5, <2>6 DEF Local, Found, Key, Adding, Removing, searchVars
  <2>10. Held(t)' \ {LL_SIZE} \subseteq reach[t]
    BY <2>1, <2>2, <2>3, <2>5 DEF ListInv, HeldReached, Held, searchVars
  <2> QED BY <2>2, <2>3, <2>7, <2>8, <2>9, <2>10, LocalStep DEF Local
<1> QED BY <1>1, <1>2

\* The node that contains() looks at.
LEMMA Iterated ==
    ASSUME ListInv, EbrInv, NEW t \in Threads, pc[t] \in {"first", "iterate"},
           NEW i, i = IF pc[t] = "first" THEN HEAD ELSE cur[t]
    PROVE  /\ InOp(t) /\ i \in reach[t]
           /\ call[t].val < data[i] => "out" \in seen[t]
           /\ data[i] < call[t].val \/ IsMarked(next[i]) =>
                  /\ i # TAIL /\ Unmark(next[i]) \in reach[t]
                  /\ call[t].val < data[Unmark(next[i])] => "out" \in seen[t]
<1>1. Local(t) /\ InOp(t)
  BY DEF ListInv, Local, Phase, InOp
<1>2. i \in reach[t] /\ data[i] \in Nat /\ call[t].val \in Nat
  BY <1>1, Stand
<1>3. call[t].val < data[i] => "out" \in seen[t]
  BY <1>1, Stand DEF Local, Found, Key
<1>4. ASSUME data[i] < call[t].val \/ IsMarked(next[i])
      PROVE  /\ i # TAIL /\ Unmark(next[i]) \in reach[t]
             /\ call[t].val < data[Unmark(next[i])] => "out" \in seen[t]
  <2>1. i # TAIL
    BY <1>1, <1>2, <1>4, Stand, NoNode, Numbers
  <2>2. Unmark(next[i]) \in reach[t]
    BY <1>1, <1>2, <2>1, Stand
  <2>3. Excludes(i, Key(t)) => "out" \in seen[t]
    BY <1>1, <1>2 DEF ListInv, Witnessed
  <2> QED BY <1>2, <1>3, <1>4, <2>1, <2>2, <2>3 DEF Excludes, Key, Succ
<1> QED BY <1>1, <1>2, <1>3, <1>4

LEMMA IterateInv ==
    ASSUME ListInv, EbrInv, NEW t \in Threads, Iterate(t)
    PROVE  ListInv'
<1> DEFINE i == IF pc[t] = "first" THEN HEAD ELSE cur[t]
           n == next[i]
           found == data[i] >= call[t].val /\ ~ IsMarked(n)
<1>1. /\ pc[t] \in {"first", "iterate"} /\ Local(t) /\ InOp(t) /\ ebr_pc[t] = "in" /\ ListTypeOK
      /\ UNCHANGED <<data, next, call, cur_next, left, left_next, right_idx,
                     new_elem, word, calls, seen, nodeVars>>
  BY DEF Iterate, ListInv, Local, Phase, InOp
<1>2. /\ i \in reach[t]
      /\ ~ found => Unmark(n) \in reach[t]
                    /\ (call[t].val < data[Unmark(n)] => "out" \in seen[t])
  <2>1. i \in reach[t]
    BY <1>1, Stand
  <2>2. data[i] \in Nat /\ call[t].val \in Nat
    BY <1>1, <2>1, Stand
  <2>3. ~ found => data[i] < call[t].val \/ IsMarked(n)
    BY <2>2
  <2> QED BY <1>1, <2>1, <2>3, Iterated
<1>3. \/ /\ pc' = [pc EXCEPT ![t] = "end"] /\ cur' = cur
         /\ \E r \in {"yes", "no"} : result' = [result EXCEPT ![t] = r]
      \/ /\ ~ found /\ pc' = [pc EXCEPT ![t] = "iterate"] /\ result' = result
         /\ cur' = [cur EXCEPT ![t] = Unmark(n)]
  BY DEF Iterate
<1> HIDE DEF i, n, found
<1>4. \A u \in Threads \ {t} : SameLocals(u)
  BY <1>1, <1>3 DEF ListTypeOK, SameLocals
<1>5. ListTypeOK' /\ Local(t)' /\ Held(t)' \ {LL_SIZE} \subseteq reach[t]
  <2>1. CASE pc' = [pc EXCEPT ![t] = "end"] /\ cur' = cur
    <3>1. pc'[t] = "end" /\ result'[t] \in {"yes", "no"} /\ cur'[t] = cur[t]
      BY <1>1, <1>3, <2>1 DEF ListTypeOK
    <3>2. result' \in [Threads -> {"none", "yes", "no"}]
      BY <1>1, <1>3 DEF ListTypeOK
    <3>3. ListTypeOK'
      BY <1>1, <2>1, <3>2
      DEF ListTypeOK, EbrTypeOK, nodeVars, ebrVars, useVars, Block, RetiredIdx
    <3>4. Phase(t)' /\ Decided(t)' /\ Cleared(t)' /\ Walked(t)' /\ Found(t)' /\ Reclaiming(t)'
      BY <1>1, <3>1
      DEF Local, Phase, Decided, Cleared, Walked, Found, Reclaiming, Key, Searching,
          Adding, Removing, InOp, nodeVars, ebrVars, useVars
    <3>5. Owning(t)'
      <4>1. owned[t] = {}
        BY <1>1 DEF Local, Owning, Phase
      <4>2. result[t] = "none"
        BY <1>1 DEF Local, Decided
      <4> QED BY <1>1, <3>1, <4>1, <4>2 DEF Local, Owning, nodeVars, useVars
    <3>6. Held(t)' \ {LL_SIZE} \subseteq reach[t]
      BY <1>1, <2>1 DEF ListInv, HeldReached, Held
    <3> QED BY <3>3, <3>4, <3>5, <3>6 DEF Local
  <2>2. CASE ~ (pc' = [pc EXCEPT ![t] = "end"] /\ cur' = cur)
    <3>1. /\ ~ found /\ pc' = [pc EXCEPT ![t] = "iterate"] /\ result' = result
          /\ cur' = [cur EXCEPT ![t] = Unmark(n)]
          /\ pc'[t] = "iterate" /\ cur'[t] = Unmark(n)
      BY <1>1, <1>3, <2>2 DEF ListTypeOK
    <3>2. Unmark(n) \in reach[t] /\ Unmark(n) \in Nodes
      BY <1>1, <1>2, <3>1, Stand
    <3>3. ListTypeOK'
      BY <1>1, <3>1, <3>2
      DEF ListTypeOK, EbrTypeOK, nodeVars, ebrVars, useVars, Block, RetiredIdx
    <3>4. Phase(t)' /\ Decided(t)' /\ Cleared(t)' /\ Owning(t)' /\ Walked(t)' /\ Reclaiming(t)'
      BY <1>1, <3>1
      DEF Local, Phase, Decided, Cleared, Owning, Walked, Reclaiming, Key, Searching,
          Adding, Removing, InOp, nodeVars, ebrVars, useVars
    <3>5. Found(t)'
      BY <1>1, <1>2, <3>1 DEF Found, Key, Adding, Removing
    <3>6. Held(t)' \ {LL_SIZE} \subseteq reach[t]
      BY <1>1, <3>1, <3>2 DEF ListInv, HeldReached, Held
    <3> QED BY <3>3, <3>4, <3>5, <3>6 DEF Local
  <2> QED BY <2>1, <2>2
<1> QED BY <1>1, <1>4, <1>5, LocalStep

------------------------------------------------------------------------------
(* The steps that change no node of the list.                               *)

\* Such a step of t concerns t and the reclamation.
LEMMA SteadyStep ==
    ASSUME ListInv, EbrInv, NEW t \in Threads,
           UNCHANGED <<data, next, linked>>,
           \A u \in Threads \ {t} :
               /\ SameLocals(u) /\ ebr_pc'[u] = ebr_pc[u] /\ owned'[u] = owned[u]
               /\ detached'[u] = detached[u] /\ reach'[u] = reach[u] /\ seen'[u] = seen[u],
           reach'[t] = IF ~ InOp(t)' THEN {} ELSE IF InOp(t) THEN reach[t] ELSE linked,
           call'[t] # Idle => Where(call'[t].val, Set) \in seen'[t],
           InOp(t) /\ InOp(t)' => call'[t] = call[t] /\ seen'[t] = seen[t],
           ListTypeOK', Local(t)', InOp(t)' => Held(t)' \ {LL_SIZE} \subseteq reach'[t]
    PROVE  ListInv'
<1>1. InOrder'
  BY DEF ListInv, InOrder
<1>2. Frozen
  BY DEF Frozen
<1>3. Set' = Set
  BY DEF Set, Reachable
<1>4. ASSUME NEW u \in Threads \ {t}
      PROVE  Local(u)' /\ (InOp(u)' => Held(u)' \ {LL_SIZE} \subseteq reach'[u])
  <2>1. SameLocals(u) /\ SameNodes(u)
    BY DEF SameNodes
  <2>2. MarkedStay(u)
    BY DEF MarkedStay, AllMarked
  <2> QED BY <1>2, <2>1, <2>2, Others
<1>5. \A u \in Threads : InOp(u)' => call'[u] # Idle
  BY <1>4 DEF Local, Phase
<1>6. ASSUME NEW u \in Threads
      PROVE  /\ call'[u] # Idle => Where(call'[u].val, Set') \in seen'[u]
             /\ InOp(u)' => linked' \subseteq reach'[u]
             /\ InOp(u)' /\ InOp(u) =>
                    /\ reach[u] \subseteq reach'[u]
                    /\ call'[u] = call[u] /\ seen[u] \subseteq seen'[u]
             /\ InOp(u)' => call'[u] # Idle
             /\ \A i \in reach'[u] \ linked' : i \in reach[u] /\ IsMarked(next[i])
  <2>1. InOp(u) => linked \subseteq reach[u]
    BY DEF ListInv, Traversable
  <2>2. \A i \in reach[u] \ linked : IsMarked(next[i])
    <3>1. ~ InOp(u) => reach[u] = {}
      BY DEF EbrInv, EpochsPast
    <3> QED BY <3>1 DEF ListInv, Traversable
  <2>3. CASE u = t
    BY <1>3, <1>5, <2>1, <2>2, <2>3
  <2>4. CASE u # t
    <3>1. /\ call'[u] = call[u] /\ reach'[u] = reach[u] /\ seen'[u] = seen[u]
          /\ (InOp(u)' <=> InOp(u))
      BY <2>4 DEF SameLocals, InOp
    <3>2. call[u] # Idle => Where(call[u].val, Set) \in seen[u]
      BY DEF ListInv, Witnessed, Key
    <3> QED BY <1>3, <1>5, <2>1, <2>2, <3>1, <3>2
  <2> QED BY <2>3, <2>4
<1>7. Traversable' /\ Witnessed'
  BY <1>1, <1>2, <1>6, NodesStep
<1>8. HeldReached' /\ \A u \in Threads : Local(u)'
  BY <1>4 DEF HeldReached
<1> QED BY <1>1, <1>7, <1>8 DEF ListInv

LEMMA EbrStepInv ==
    ASSUME ListInv, EbrInv, EbrInv', NEW t \in Threads, EbrStep(t)
    PROVE  ListInv'
<1>1. UNCHANGED <<listVars, useVars>> /\ pc[t] # "exit"
  BY DEF EbrStep, Retiring, RetireCount, GetMin, GotMin, Empty, RetireDone
<1>2. /\ ebr_pc[t] \in {"count", "scan", "empty"}
      /\ ebr_pc'[t] \in {"in", "count", "scan", "empty"}
      /\ \A u \in Threads \ {t} : ebr_pc'[u] = ebr_pc[u]
  <2>1. ebr_pc \in [Threads -> {"out", "reserve", "in", "count", "scan", "empty"}]
    BY DEF EbrInv, EbrTypeOK
  <2> QED
    BY <2>1 DEF EbrStep, RetireCount, GetMin, GotMin, Empty, RetireDone, EbrGoto
<1>3. ListTypeOK'
  BY <1>1 DEF ListInv, ListTypeOK, listVars, searchVars, EbrInv
<1>4. Local(t) /\ InOp(t) /\ InOp(t)'
  BY <1>2 DEF ListInv, InOp
<1>5. Phase(t)'
  <2>1. pc[t] \in {"reclaimed", "end"}
    BY <1>1, <1>2, <1>4
    DEF ListInv, ListTypeOK, Local, Phase, Searching, Adding, Removing
  <2> QED
    BY <1>1, <1>4, <2>1
    DEF Local, Phase, Searching, Adding, Removing, listVars, searchVars
<1>6. Local(t)'
  BY <1>1, <1>4, <1>5
  DEF Local, Decided, Cleared, Owning, Walked, Found, Reclaiming, Key, Succ,
      listVars, searchVars, useVars
<1>7. call'[t] # Idle => Where(call'[t].val, Set) \in seen'[t]
  BY <1>1 DEF ListInv, Witnessed, Key, listVars
<1>8. Held(t)' \ {LL_SIZE} \subseteq reach'[t]
  BY <1>1, <1>4 DEF ListInv, HeldReached, Held, listVars, searchVars, useVars
<1>9. \A u \in Threads \ {t} :
          /\ SameLocals(u) /\ ebr_pc'[u] = ebr_pc[u] /\ owned'[u] = owned[u]
          /\ detached'[u] = detached[u] /\ reach'[u] = reach[u] /\ seen'[u] = seen[u]
  BY <1>1, <1>2 DEF SameLocals, listVars, searchVars, useVars
<1> QED
  BY <1>1, <1>3, <1>4, <1>6, <1>7, <1>8, <1>9, SteadyStep
  DEF listVars, searchVars, useVars

\* A call, whoever makes it and however it is counted.
LEMMA EnterInv ==
    ASSUME ListInv, EbrInv, EbrInv', NEW t \in Threads, NEW r \in Requests,
           Goto(t, "idle", "start"),
           calls' \in [Threads -> Nat],
           call' = [call EXCEPT ![t] = r],
           seen' = [seen EXCEPT ![t] = {Where(r.val, Set)}],
           StartLoad(t),
           UNCHANGED <<data, next, result, searchVars, right_idx, new_elem, word>>
    PROVE  ListInv'
<1> USE DEF Goto, StartLoad, EbrGoto, useVars
<1>1. pc[t] = "idle" /\ Local(t) /\ ListTypeOK /\ EbrTypeOK' /\ EbrTypeOK
  BY DEF ListInv, ListTypeOK, EbrInv
<1>2. /\ pc'[t] = "start" /\ call'[t] = r /\ seen'[t] = {Where(r.val, Set)}
      /\ ebr_pc'[t] = "reserve"
      /\ \A u \in Threads \ {t} :
          /\ SameLocals(u) /\ ebr_pc'[u] = ebr_pc[u] /\ owned'[u] = owned[u]
          /\ detached'[u] = detached[u] /\ reach'[u] = reach[u] /\ seen'[u] = seen[u]
  BY <1>1 DEF ListTypeOK, EbrTypeOK, SameLocals, searchVars
<1>3. ListTypeOK'
  <2>1. Where(r.val, Set) \in {"in", "out"}
    BY DEF Where
  <2> QED BY <1>1, <2>1 DEF ListTypeOK, searchVars
<1>4. ~ InOp(t) /\ ~ InOp(t)' /\ reach'[t] = {}
  <2>1. ~ InOp(t) /\ ~ InOp(t)'
    BY <1>1, <1>2 DEF Local, Phase, InOp
  <2> QED BY <2>1 DEF EbrInv, EpochsPast
<1>5. r # Idle
  <2>1. r.op \in {"add", "remove", "contains"} /\ Idle.op = "none"
    BY ListAssumption DEF Idle
  <2> QED BY <2>1
<1>6. Phase(t)'
  BY <1>2, <1>4, <1>5 DEF Phase, Searching, Adding, Removing
<1>7. /\ Decided(t)' /\ Cleared(t)' /\ Walked(t)' /\ Found(t)' /\ Reclaiming(t)'
  BY <1>1, <1>2
  DEF Local, Decided, Cleared, Walked, Found, Reclaiming, Searching, Adding,
      Removing, searchVars
<1>8. Owning(t)'
  <2>1. owned[t] = {}
    BY <1>1 DEF Local, Owning, Phase, Idle
  <2> QED BY <1>1, <1>2, <2>1 DEF Local, Owning, Decided
<1>9. Local(t)'
  BY <1>6, <1>7, <1>8 DEF Local
<1> QED BY <1>2, <1>3, <1>4, <1>9, SteadyStep

LEMMA CallInv ==
    ASSUME ListInv, EbrInv, EbrInv', NEW t \in Threads, Call(t)
    PROVE  ListInv'
<1>1. calls' \in [Threads -> Nat]
  BY DEF Call, ListInv, ListTypeOK
<1> QED BY <1>1, EnterInv DEF Call

LEMMA StartInv ==
    ASSUME ListInv, EbrInv, EbrInv', NEW t \in Threads, Start(t)
    PROVE  ListInv'
<1> USE DEF Start, Goto, StartStore, EbrGoto
<1>1. pc[t] = "start" /\ Local(t) /\ ListTypeOK /\ EbrTypeOK' /\ EbrTypeOK
  BY DEF ListInv, ListTypeOK, EbrInv
<1>2. /\ pc'[t] = IF call[t].op = "contains" THEN "first" ELSE "head"
      /\ ebr_pc[t] = "reserve" /\ ebr_pc'[t] = "in" /\ reach'[t] = linked
      /\ \A u \in Threads \ {t} :
          /\ SameLocals(u) /\ ebr_pc'[u] = ebr_pc[u] /\ owned'[u] = owned[u]
          /\ detached'[u] = detached[u] /\ reach'[u] = reach[u] /\ seen'[u] = seen[u]
  BY <1>1 DEF ListTypeOK, EbrTypeOK, SameLocals, searchVars
<1>3. ListTypeOK'
  BY <1>1 DEF ListTypeOK, searchVars
<1>4. ~ InOp(t) /\ InOp(t)'
  BY <1>2 DEF InOp
<1>5. call[t] # Idle /\ call[t].op \in {"add", "remove", "contains"}
  BY <1>1, Calls DEF Local, Phase
<1>6. Phase(t)' /\ Decided(t)' /\ Cleared(t)' /\ Owning(t)' /\ Walked(t)' /\ Found(t)'
  BY <1>1, <1>2, <1>4, <1>5
  DEF Local, Phase, Decided, Cleared, Owning, Walked, Found, Key, Searching, Adding,
      Removing, searchVars
<1>7. Reclaiming(t)'
  BY <1>1, <1>2 DEF Local, Reclaiming
<1>8. Local(t)'
  BY <1>6, <1>7 DEF Local
<1>9. Held(t)' \ {LL_SIZE} \subseteq linked
  <2>1. HEAD \in linked /\ Unmark(0) = 0
    BY NodeIndex, Numbers DEF ListInv, InOrder, SortedList, HEAD
  <2> QED BY <1>1, <2>1 DEF Local, Cleared, Held, HEAD, searchVars, Adding
<1>10. Where(call[t].val, Set) \in seen[t]
  BY <1>5 DEF ListInv, Witnessed, Key
<1> QED BY <1>2, <1>3, <1>4, <1>8, <1>9, <1>10, SteadyStep

LEMMA EndInv ==
    ASSUME ListInv, EbrInv, EbrInv', NEW t \in Threads, End(t)
    PROVE  ListInv'
<1> USE DEF End, Goto, EndOp, EbrGoto
<1>1. pc[t] = "end" /\ Local(t) /\ ListTypeOK /\ EbrTypeOK' /\ EbrTypeOK
  BY DEF ListInv, ListTypeOK, EbrInv
<1>2. /\ pc'[t] = "return" /\ cur'[t] = 0 /\ left'[t] = 0 /\ right_idx'[t] = 0
      /\ ebr_pc[t] = "in" /\ ebr_pc'[t] = "out" /\ reach'[t] = {} /\ detached'[t] = {}
      /\ \A u \in Threads \ {t} :
          /\ SameLocals(u) /\ ebr_pc'[u] = ebr_pc[u] /\ owned'[u] = owned[u]
          /\ detached'[u] = detached[u] /\ reach'[u] = reach[u] /\ seen'[u] = seen[u]
  BY <1>1 DEF ListTypeOK, EbrTypeOK, SameLocals
<1>3. ListTypeOK'
  BY <1>1, Numbers DEF ListTypeOK, HEAD
<1>4. InOp(t) /\ ~ InOp(t)'
  BY <1>2 DEF InOp
<1>5. Phase(t)' /\ Decided(t)' /\ Cleared(t)' /\ Owning(t)' /\ Walked(t)' /\ Found(t)'
  BY <1>1, <1>2, <1>4
  DEF Local, Phase, Decided, Cleared, Owning, Walked, Found, Key, Searching, Adding, Removing
<1>6. Reclaiming(t)'
  BY <1>2 DEF Reclaiming
<1>7. Local(t)'
  BY <1>5, <1>6 DEF Local
<1>8. call[t] # Idle => Where(call[t].val, Set) \in seen[t]
  BY DEF ListInv, Witnessed, Key
<1> QED BY <1>2, <1>3, <1>4, <1>7, <1>8, SteadyStep

LEMMA ReturnInv ==
    ASSUME ListInv, EbrInv, EbrInv', NEW t \in Threads, Return(t)
    PROVE  ListInv'
<1> USE DEF Return, Goto, Discard, nodeVars, ebrVars, useVars
<1>1. pc[t] = "return" /\ Local(t) /\ ListTypeOK /\ EbrTypeOK' /\ EbrTypeOK
  BY DEF ListInv, ListTypeOK, EbrInv
<1>2. /\ pc'[t] = "idle" /\ new_elem'[t] = 0 /\ call'[t] = Idle
      /\ result'[t] = "none" /\ seen'[t] = {}
      /\ owned'[t] = {}
      /\ UNCHANGED <<data, next, linked, reach, detached, ebr_pc>>
      /\ \A u \in Threads \ {t} :
          /\ SameLocals(u) /\ ebr_pc'[u] = ebr_pc[u] /\ owned'[u] = owned[u]
          /\ detached'[u] = detached[u] /\ reach'[u] = reach[u] /\ seen'[u] = seen[u]
  <2>1. owned[t] = IF new_elem[t] # 0 /\ result[t] # "yes" THEN {new_elem[t]} ELSE {}
    BY <1>1 DEF Local, Owning
  <2>2. result[t] # "none" /\ result[t] \in {"none", "yes", "no"}
    BY <1>1 DEF Local, Decided, ListTypeOK
  <2>3. owned'[t] = {}
    BY <1>1, <2>1, <2>2 DEF EbrTypeOK
  <2> QED BY <1>1, <2>3 DEF ListTypeOK, EbrTypeOK, SameLocals, searchVars
<1>3. ListTypeOK'
  BY <1>1, Numbers DEF ListTypeOK, searchVars, HEAD
<1>4. ~ InOp(t) /\ ~ InOp(t)' /\ reach[t] = {}
  BY <1>1, <1>2 DEF Local, Phase, InOp, EbrInv, EpochsPast
<1>5. /\ Phase(t)' /\ Decided(t)' /\ Cleared(t)' /\ Owning(t)' /\ Walked(t)'
      /\ Found(t)' /\ Reclaiming(t)'
  BY <1>1, <1>2, <1>4
  DEF Local, Phase, Decided, Cleared, Owning, Walked, Found, Reclaiming, Key,
      Searching, Adding, Removing, searchVars
<1>6. Local(t)'
  BY <1>5 DEF Local
<1> QED BY <1>2, <1>3, <1>4, <1>6, SteadyStep

\* What has been taken out is no longer in the list.
LEMMA Out ==
    ASSUME EbrInv, NEW t \in Threads
    PROVE  /\ \A i \in detached[t] : i \notin linked
           /\ \A i \in owned[t] : /\ i \notin linked /\ i \notin bm
                                  /\ \A u \in Threads : i \notin reach[u]
                                  /\ \A u \in Threads \ {t} : i \notin owned[u]
<1>1. detached[t] \subseteq Nodes /\ owned[t] \subseteq Nodes
  BY DEF EbrInv, EbrTypeOK
<1>2. \A i \in detached[t] : i \notin linked
  BY <1>1 DEF EbrInv, NodeOwners
<1>3. ASSUME NEW i \in owned[t]
      PROVE  /\ i \notin linked /\ i \notin bm
             /\ \A u \in Threads \ {t} : i \notin owned[u]
             /\ \A u \in Threads : i \notin detached[u] \cup RetiredIdx(u)
  BY <1>1 DEF EbrInv, NodeOwners
<1> QED BY <1>2, <1>3 DEF EbrInv, MetNodes

LEMMA ReclaimNodeInv ==
    ASSUME ListInv, EbrInv, EbrInv', NEW t \in Threads, ReclaimNode(t)
    PROVE  ListInv'
<1> USE DEF ReclaimNode, Goto, Retire, EbrGoto
<1> DEFINE f == Unmark(cur_next[t])
           D == detached[t]
           c == cur[t]
           s == Unmark(next[f])
<1>1. pc[t] = "reclaim" /\ Local(t) /\ ListTypeOK /\ EbrTypeOK' /\ EbrTypeOK
  BY DEF ListInv, ListTypeOK, EbrInv
<1>2. /\ pc'[t] = "reclaimed" /\ ebr_pc[t] = "in" /\ ebr_pc'[t] = "count"
      /\ detached'[t] = D \ {f} /\ reach' = reach
      /\ UNCHANGED <<data, next, linked, owned, call, seen, result, searchVars,
                     right_idx, new_elem>>
      /\ \A u \in Threads \ {t} :
          /\ SameLocals(u) /\ ebr_pc'[u] = ebr_pc[u] /\ owned'[u] = owned[u]
          /\ detached'[u] = detached[u] /\ reach'[u] = reach[u] /\ seen'[u] = seen[u]
  BY <1>1 DEF ListTypeOK, EbrTypeOK, SameLocals, searchVars
<1>3. ListTypeOK'
  BY <1>1 DEF ListTypeOK, searchVars
<1>4. InOp(t) /\ InOp(t)'
  BY <1>2 DEF InOp
<1>5. Run(next, data, D, f, c) /\ D \subseteq reach[t] /\ f \in reach[t] /\ f # TAIL
  <2>1. Run(next, data, D, f, c) /\ D \subseteq reach[t]
    BY <1>1 DEF Local, Reclaiming
  <2>2. f \in D
    BY <2>1 DEF Run
  <2> QED BY <1>4, <2>1, <2>2, Out, Stand
<1>6. c \in reach[t] /\ data[c] \in Nat /\ \A i \in D : data[i] \in Nat
  BY <1>4, <1>5, Stand
<1> HIDE DEF f, c, D
<1>7. /\ f \in D /\ IsMarked(next[f]) /\ s \in D \cup {c} /\ data[f] < data[s]
      /\ \A i, j \in D : data[i] = data[j] => i = j
      /\ \A i \in D : /\ IsMarked(next[i])
                      /\ data[f] <= data[i] /\ data[i] < data[c]
                      /\ Unmark(next[i]) \in D \cup {c}
                      /\ data[i] < data[Unmark(next[i])]
                      /\ \A j \in D : data[j] <= data[i] \/ data[Unmark(next[i])] <= data[j]
  <2>1. \A i \in D : i # TAIL /\ i \in reach[t]
    BY <1>4, <1>5, Out, Stand DEF D
  <2>2. \A i \in D : data[i] < data[Unmark(next[i])]
    BY <1>4, <2>1, Stand
  <2> QED BY <1>5, <2>2 DEF Run
<1> HIDE DEF s
<1>8. s = c => D \ {f} = {}
  <2> SUFFICES ASSUME NEW j \in D, j # f, s = c PROVE FALSE
    OBVIOUS
  <2>1. data[j] <= data[f] \/ data[s] <= data[j]
    BY <1>7 DEF s
  <2> QED BY <1>6, <1>7, <2>1
<1>9. s # c => Run(next, data, D \ {f}, s, c)
  <2> SUFFICES ASSUME s # c PROVE Run(next, data, D \ {f}, s, c)
    OBVIOUS
  <2>1. s \in D \ {f}
    BY <1>6, <1>7
  <2>2. \A i \in D \ {f} : data[s] <= data[i]
    <3> TAKE i \in D \ {f}
    <3>1. data[i] <= data[f] \/ data[s] <= data[i]
      BY <1>7 DEF s
    <3>2. data[f] <= data[i] /\ data[i] # data[f]
      BY <1>7
    <3> QED BY <1>6, <1>7, <3>1, <3>2
  <2>3. \A i \in D \ {f} : Unmark(next[i]) \in (D \ {f}) \cup {c}
    <3> TAKE i \in D \ {f}
    <3>1. Unmark(next[i]) # f
      BY <1>6, <1>7
    <3> QED BY <1>7, <3>1
  <2> QED BY <1>7, <2>1, <2>2, <2>3 DEF Run
<1>10. Reclaiming(t)'
  BY <1>2, <1>5, <1>7, <1>8, <1>9 DEF Reclaiming, Succ, searchVars, f, c, D, s
<1>11. /\ Phase(t)' /\ Decided(t)' /\ Cleared(t)' /\ Owning(t)' /\ Walked(t)' /\ Found(t)'
  BY <1>1, <1>2, <1>4
  DEF Local, Phase, Decided, Cleared, Owning, Walked, Found, Key, Searching, Adding,
      Removing, searchVars
<1>12. Local(t)'
  BY <1>10, <1>11 DEF Local
<1>13. Held(t)' \ {LL_SIZE} \subseteq reach'[t]
  BY <1>2, <1>4 DEF ListInv, HeldReached, Held, searchVars
<1>14. call[t] # Idle => Where(call[t].val, Set) \in seen[t]
  BY DEF ListInv, Witnessed, Key
<1> QED BY <1>2, <1>3, <1>4, <1>12, <1>13, <1>14, SteadyStep

LEMMA RetireRightInv ==
    ASSUME ListInv, EbrInv, EbrInv', NEW t \in Threads, RetireRight(t)
    PROVE  ListInv'
<1> USE DEF RetireRight, Goto, Retire, EbrGoto
<1>1. pc[t] = "retire" /\ Local(t) /\ ListTypeOK /\ EbrTypeOK' /\ EbrTypeOK
  BY DEF ListInv, ListTypeOK, EbrInv
<1>2. /\ pc'[t] = "end" /\ ebr_pc[t] = "in" /\ ebr_pc'[t] = "count" /\ reach' = reach
      /\ detached'[t] = {}
      /\ UNCHANGED <<data, next, linked, owned, call, seen, result, searchVars,
                     right_idx, new_elem>>
      /\ \A u \in Threads \ {t} :
          /\ SameLocals(u) /\ ebr_pc'[u] = ebr_pc[u] /\ owned'[u] = owned[u]
          /\ detached'[u] = detached[u] /\ reach'[u] = reach[u] /\ seen'[u] = seen[u]
  <2>1. detached[t] = {cur[t]}
    BY <1>1 DEF Local, Reclaiming
  <2>2. detached'[t] = {}
    BY <1>1, <2>1 DEF EbrTypeOK
  <2> QED BY <1>1, <2>2 DEF ListTypeOK, EbrTypeOK, SameLocals, searchVars
<1>3. ListTypeOK'
  BY <1>1 DEF ListTypeOK, searchVars
<1>4. InOp(t) /\ InOp(t)'
  BY <1>2 DEF InOp
<1>5. /\ Phase(t)' /\ Decided(t)' /\ Cleared(t)' /\ Owning(t)' /\ Walked(t)'
      /\ Found(t)' /\ Reclaiming(t)'
  BY <1>1, <1>2, <1>4
  DEF Local, Phase, Decided, Cleared, Owning, Walked, Found, Reclaiming, Key,
      Searching, Adding, Removing, searchVars
<1>6. Local(t)'
  BY <1>5 DEF Local
<1>7. Held(t)' \ {LL_SIZE} \subseteq reach'[t]
  BY <1>2, <1>4 DEF ListInv, HeldReached, Held, searchVars
<1>8. call[t] # Idle => Where(call[t].val, Set) \in seen[t]
  BY DEF ListInv, Witnessed, Key
<1> QED BY <1>2, <1>3, <1>4, <1>6, <1>7, <1>8, SteadyStep

LEMMA OutOfMemoryInv ==
    ASSUME ListInv, EbrInv, NEW t \in Threads, OutOfMemory(t)
    PROVE  ListInv'
<1> USE DEF OutOfMemory, nodeVars, ebrVars, useVars, searchVars
<1>1. \A u \in Threads : pc'[u] = "exit"
  OBVIOUS
<1>2. ListTypeOK' /\ InOrder'
  BY DEF ListInv, ListTypeOK, EbrTypeOK, InOrder, Block, RetiredIdx
<1>3. HeldReached' /\ Traversable'
  BY DEF ListInv, HeldReached, Held, Traversable, InOp, Succ
<1>4. Set' = Set
  BY DEF Set, Reachable
<1>5. Witnessed'
  BY <1>4 DEF ListInv, Witnessed, InOp, Excludes, Key, Succ
<1>6. ASSUME NEW u \in Threads PROVE Local(u)'
  <2>1. Local(u)
    BY DEF ListInv
  <2> QED
    BY <1>1, <2>1
    DEF Local, Phase, Decided, Cleared, Owning, Walked, Found, Reclaiming, Key,
        Searching, Adding, Removing, InOp
<1> QED BY <1>2, <1>3, <1>5, <1>6 DEF ListInv

LEMMA StutterInv == ListInv /\ UNCHANGED vars => ListInv'
<1> SUFFICES ASSUME ListInv, UNCHANGED vars PROVE ListInv'
  OBVIOUS
<1> USE DEF vars, listVars, nodeVars, ebrVars, useVars, searchVars
<1>1. ListTypeOK' /\ InOrder'
  BY DEF ListInv, ListTypeOK, EbrTypeOK, InOrder, Block, RetiredIdx
<1>2. HeldReached' /\ Traversable'
  BY DEF ListInv, HeldReached, Held, Traversable, InOp, Succ
<1>3. Set' = Set
  BY DEF Set, Reachable
<1>4. Witnessed'
  BY <1>3 DEF ListInv, Witnessed, InOp, Excludes, Key, Succ
<1>5. ASSUME NEW u \in Threads PROVE Local(u)'
  <2>1. Local(u)
    BY DEF ListInv
  <2> QED
    BY <2>1
    DEF Local, Phase, Decided, Cleared, Owning, Walked, Found, Reclaiming, Key,
        Searching, Adding, Removing, InOp, Succ
<1> QED BY <1>1, <1>2, <1>4, <1>5 DEF ListInv

------------------------------------------------------------------------------
(* The steps that write to a node.                                          *)

\* Such a step of t, if it keeps the list in order, takes only marked nodes out
\* and lets everybody see what the list is now.
LEMMA ChangeStep ==
    ASSUME ListInv, EbrInv, NEW t \in Threads, ListTypeOK', InOrder', Frozen,
           UNCHANGED <<call, ebr_pc>>,
           \A u \in Threads :
               /\ u # t => SameLocals(u) /\ owned'[u] = owned[u] /\ detached'[u] = detached[u]
                           /\ \A i \in owned[u] : data'[i] = data[i] /\ next'[i] = next[i]
               /\ MarkedStay(u)
               /\ reach[u] \subseteq reach'[u] /\ (InOp(u) => linked' \subseteq reach'[u])
               /\ \A i \in reach'[u] \ linked' : i \in reach[u] /\ IsMarked(next[i])
               /\ call[u] # Idle => /\ seen[u] \subseteq seen'[u]
                                    /\ Where(call[u].val, Set') \in seen'[u],
           Local(t)', InOp(t)' => Held(t)' \ {LL_SIZE} \subseteq reach'[t]
    PROVE  ListInv'
<1>1. ASSUME NEW u \in Threads \ {t}
      PROVE  Local(u)' /\ (InOp(u)' => Held(u)' \ {LL_SIZE} \subseteq reach'[u])
  <2>1. SameLocals(u) /\ SameNodes(u) /\ MarkedStay(u)
    BY DEF SameNodes
  <2> QED BY <2>1, Others
<1>2. \A u \in Threads : InOp(u)' <=> InOp(u)
  BY DEF InOp
<1>3. \A u \in Threads : InOp(u) => call[u] # Idle
  BY DEF ListInv, Local, Phase
<1>4. Traversable' /\ Witnessed'
  BY <1>2, <1>3, NodesStep
<1>5. HeldReached' /\ \A u \in Threads : Local(u)'
  BY <1>1 DEF HeldReached
<1> QED BY <1>4, <1>5 DEF ListInv

\* Nodes that a thread has met are in the list, or were and are marked.
LEMMA Met ==
    ASSUME ListInv, EbrInv, NEW u \in Threads
    PROVE  /\ InOp(u) => linked \subseteq reach[u]
           /\ ~ InOp(u) => reach[u] = {}
           /\ \A i \in reach[u] \ linked : IsMarked(next[i])
           /\ call[u] # Idle => Where(call[u].val, Set) \in seen[u]
<1>1. ~ InOp(u) => reach[u] = {}
  BY DEF EbrInv, EpochsPast
<1>2. InOp(u) => /\ linked \subseteq reach[u]
                 /\ \A i \in reach[u] \ linked : IsMarked(next[i])
  BY DEF ListInv, Traversable
<1>3. call[u] # Idle => Where(call[u].val, Set) \in seen[u]
  BY DEF ListInv, Witnessed, Key
<1> QED BY <1>1, <1>2, <1>3

\* A write to a node that is in nobody's way.
LEMMA PrivateWrite ==
    ASSUME ListInv, EbrInv, ListTypeOK', NEW n \in Nodes,
           n \notin linked, \A u \in Threads : n \notin reach[u],
           \A i \in Nodes \ {n} : data'[i] = data[i] /\ next'[i] = next[i],
           UNCHANGED linked
    PROVE  InOrder' /\ Frozen /\ Set' = Set /\ \A u \in Threads : MarkedStay(u)
<1>1. linked \subseteq Nodes /\ \A u \in Threads : reach[u] \subseteq Nodes
  BY DEF ListInv, ListTypeOK, EbrTypeOK
<1>2. \A i \in linked : data'[i] = data[i] /\ next'[i] = next[i]
  BY <1>1
<1>3. InOrder'
  <2>1. SortedList(next, data, linked) /\ HEAD \in linked /\ TAIL \in linked
    BY DEF ListInv, InOrder, SortedList
  <2>2. SortedList(next', data', linked)
    BY <1>2, <2>1, SortedKept
  <2> QED BY <1>2, <2>1, <2>2 DEF ListInv, InOrder
<1>4. Frozen
  BY <1>1 DEF Frozen
<1>5. SetOf(next', data', linked') = SetOf(next, data, linked)
  BY <1>2 DEF SetOf
<1>6. Set' = Set
  BY <1>3, <1>5, SetIs, SetIsNext DEF ListInv
<1>7. ASSUME NEW u \in Threads PROVE MarkedStay(u)
  BY <1>1, <1>2 DEF MarkedStay, AllMarked
<1> QED BY <1>3, <1>4, <1>6, <1>7

LEMMA ClaimBitInv ==
    ASSUME ListInv, EbrInv, EbrInv', NEW t \in Threads, ClaimBit(t)
    PROVE  ListInv' /\ Set' = Set
<1> USE DEF ClaimBit, Goto, Claim
<1> DEFINE n == new_elem[t]
<1>1. /\ pc[t] = "claim" /\ Local(t) /\ InOp(t) /\ ListTypeOK /\ EbrTypeOK' /\ EbrTypeOK
  BY DEF ListInv, ListTypeOK, EbrInv, Local, Phase, Adding, InOp
<1>2. /\ pc'[t] = "insert" /\ n \in bm /\ n \in Nodes /\ owned[t] = {} /\ owned'[t] = {n}
      /\ data'[n] = call[t].val /\ next'[n] = cur[t]
      /\ \A i \in Nodes \ {n} : data'[i] = data[i] /\ next'[i] = next[i]
      /\ UNCHANGED <<ebr_pc, reach, linked, detached, call, seen>>
      /\ \A u \in Threads \ {t} : SameLocals(u) /\ owned'[u] = owned[u]
  BY <1>1
  DEF ListTypeOK, EbrTypeOK, SameLocals, searchVars, ebrVars, Local, Owning
<1>3. /\ n \notin linked /\ \A u \in Threads : n \notin reach[u]
      /\ \A u \in Threads : n \notin owned[u]
  BY <1>2 DEF EbrInv, Protected, NodeOwners
<1>4. ListTypeOK'
  <2>1. call[t].val \in Values
    BY <1>1, Stand, Calls
  <2>2. cur[t] \in MarkedIndexes
    BY <1>1, NodeIndex DEF ListTypeOK
  <2> QED BY <1>1, <2>1, <2>2 DEF ListTypeOK, searchVars
<1>5. InOrder' /\ Frozen /\ Set' = Set /\ \A u \in Threads : MarkedStay(u)
  BY <1>2, <1>3, <1>4, PrivateWrite
<1>6. Found(t)'
  <2>1. data'[cur[t]] = data[cur[t]] /\ data'[left[t]] = data[left[t]]
    <3>1. cur[t] \in reach[t] /\ left[t] \in reach[t]
      BY <1>1, Stand
    <3> QED BY <3>1, <1>5 DEF Frozen
  <2> QED BY <1>1, <1>2, <2>1 DEF Local, Found, Key, Adding, Removing, searchVars
<1>7. Owning(t)'
  BY <1>1, <1>2 DEF Local, Owning, Decided, Phase, Key, Adding, searchVars
<1>8. /\ Phase(t)' /\ Decided(t)' /\ Cleared(t)' /\ Walked(t)' /\ Reclaiming(t)'
  BY <1>1, <1>2
  DEF Local, Phase, Decided, Cleared, Walked, Reclaiming, InOp, Searching, Adding,
      Removing, searchVars
<1>9. Local(t)'
  BY <1>6, <1>7, <1>8 DEF Local
<1>10. Held(t)' \ {LL_SIZE} \subseteq reach'[t]
  BY <1>1, <1>2 DEF ListInv, HeldReached, Held, searchVars
<1>11. \A u \in Threads :
          /\ u # t => SameLocals(u) /\ owned'[u] = owned[u] /\ detached'[u] = detached[u]
                      /\ \A i \in owned[u] : data'[i] = data[i] /\ next'[i] = next[i]
          /\ MarkedStay(u)
          /\ reach[u] \subseteq reach'[u] /\ (InOp(u) => linked' \subseteq reach'[u])
          /\ \A i \in reach'[u] \ linked' : i \in reach[u] /\ IsMarked(next[i])
          /\ call[u] # Idle => /\ seen[u] \subseteq seen'[u]
                               /\ Where(call[u].val, Set') \in seen'[u]
  <2>1. \A u \in Threads : owned[u] \subseteq Nodes
    BY <1>1 DEF EbrTypeOK
  <2> QED BY <1>2, <1>3, <1>5, <2>1, Met
<1> QED BY <1>2, <1>4, <1>5, <1>9, <1>10, <1>11, ChangeStep

LEMMA RelinkInv ==
    ASSUME ListInv, EbrInv, NEW t \in Threads, Relink(t)
    PROVE  ListInv' /\ Set' = Set
<1> USE DEF Relink, Goto
<1> DEFINE n == new_elem[t]
<1>1. /\ pc[t] = "relink" /\ Local(t) /\ InOp(t) /\ ListTypeOK /\ EbrTypeOK
      /\ UNCHANGED <<data, linked, reach, owned, detached, ebr_pc, call, seen>>
  BY DEF ListInv, ListTypeOK, EbrInv, Local, Phase, Adding, InOp, nodeVars, useVars, ebrVars
<1>2. /\ pc'[t] = "insert" /\ n \in Nodes /\ n \in owned[t]
      /\ next'[n] = cur[t] /\ \A i \in Nodes \ {n} : next'[i] = next[i]
      /\ \A u \in Threads \ {t} : SameLocals(u)
  BY <1>1 DEF ListTypeOK, SameLocals, searchVars, Local, Owning, Decided, Adding
<1>3. /\ n \notin linked /\ \A u \in Threads : n \notin reach[u]
      /\ \A u \in Threads \ {t} : n \notin owned[u]
  BY <1>2, Out
<1>4. ListTypeOK'
  <2>1. cur[t] \in MarkedIndexes
    BY <1>1, NodeIndex DEF ListTypeOK
  <2> QED
    BY <1>1, <2>1
    DEF ListTypeOK, EbrTypeOK, searchVars, nodeVars, ebrVars, useVars, Block, RetiredIdx
<1>5. InOrder' /\ Frozen /\ Set' = Set /\ \A u \in Threads : MarkedStay(u)
  BY <1>1, <1>2, <1>3, <1>4, PrivateWrite
<1>6. /\ Phase(t)' /\ Decided(t)' /\ Cleared(t)' /\ Owning(t)' /\ Walked(t)'
      /\ Found(t)' /\ Reclaiming(t)'
  BY <1>1, <1>2
  DEF Local, Phase, Decided, Cleared, Owning, Walked, Found, Reclaiming, InOp, Key,
      Searching, Adding, Removing, searchVars
<1>7. Local(t)'
  BY <1>6 DEF Local
<1>8. Held(t)' \ {LL_SIZE} \subseteq reach'[t]
  BY <1>1 DEF ListInv, HeldReached, Held, searchVars
<1>9. \A u \in Threads :
          /\ u # t => SameLocals(u) /\ owned'[u] = owned[u] /\ detached'[u] = detached[u]
                      /\ \A i \in owned[u] : data'[i] = data[i] /\ next'[i] = next[i]
          /\ MarkedStay(u)
          /\ reach[u] \subseteq reach'[u] /\ (InOp(u) => linked' \subseteq reach'[u])
          /\ \A i \in reach'[u] \ linked' : i \in reach[u] /\ IsMarked(next[i])
          /\ call[u] # Idle => /\ seen[u] \subseteq seen'[u]
                               /\ Where(call[u].val, Set') \in seen'[u]
  <2>1. \A u \in Threads : owned[u] \subseteq Nodes
    BY <1>1 DEF EbrTypeOK
  <2> QED BY <1>1, <1>2, <1>3, <1>5, <2>1, Met
<1> QED BY <1>1, <1>4, <1>5, <1>7, <1>8, <1>9, ChangeStep

\* See() tells everybody who is in a call.
LEMMA Seeing ==
    ASSUME See(Set'), NEW u \in Threads, call[u] # Idle
    PROVE  seen[u] \subseteq seen'[u] /\ Where(call[u].val, Set') \in seen'[u]
BY DEF See

LEMMA SeeType ==
    ASSUME ListTypeOK, See(Set') PROVE seen' \in [Threads -> SUBSET {"in", "out"}]
BY DEF ListTypeOK, See, Where

LEMMA MarkInv ==
    ASSUME ListInv, EbrInv, NEW t \in Threads, Mark(t)
    PROVE  ListInv' /\ Key(t) \in Set /\ Set' = Set \ {Key(t)}
<1> USE DEF Mark, Goto
<1> DEFINE c == cur[t]
           r == right_idx[t]
<1>1. /\ pc[t] = "mark" /\ Local(t) /\ InOp(t) /\ ListTypeOK /\ EbrTypeOK /\ next[c] = r
      /\ UNCHANGED <<data, linked, reach, owned, detached, ebr_pc, call>> /\ See(Set')
  BY DEF ListInv, ListTypeOK, EbrInv, Local, Phase, Removing, InOp, nodeVars, useVars, ebrVars
<1>2. /\ c \in reach[t] /\ c \in Nodes /\ r \in Nodes /\ r # 0
      /\ data[c] = call[t].val /\ data[c] < data[r] /\ ~ IsMarked(r)
  BY <1>1, Stand, NodeIndex DEF Local, Found, Removing, Key
<1>3. c \in linked /\ c # HEAD /\ c # TAIL
  BY <1>1, <1>2, Stand, Numbers
<1>4. /\ r + MARK \in MarkedIndexes /\ IsMarked(r + MARK) /\ Unmark(r + MARK) = r
      /\ Unmark(r) = r
  BY <1>2, NodeIndex
<1>5. /\ pc'[t] = "delete" /\ result'[t] = "yes" /\ next'[c] = r + MARK
      /\ \A i \in Nodes \ {c} : next'[i] = next[i]
      /\ \A u \in Threads \ {t} : SameLocals(u)
  BY <1>1, <1>2 DEF ListTypeOK, SameLocals, searchVars
<1>6. ListTypeOK'
  BY <1>1, <1>4, SeeType
  DEF ListTypeOK, EbrTypeOK, searchVars, nodeVars, ebrVars, useVars, Block, RetiredIdx
<1>7. linked \subseteq Nodes /\ \A u \in Threads : reach[u] \subseteq Nodes /\ owned[u] \subseteq Nodes
  BY <1>1 DEF EbrTypeOK
<1> HIDE DEF c, r
<1>8. InOrder'
  <2>1. SortedList(next, data, linked) /\ HEAD \in linked /\ TAIL \in linked
    BY DEF ListInv, InOrder, SortedList
  <2>2. \A i \in linked : Unmark(next'[i]) = Unmark(next[i])
    BY <1>1, <1>4, <1>5, <1>7
  <2>3. SortedList(next', data', linked')
    BY <1>1, <2>1, <2>2, SortedKept
  <2> QED BY <1>1, <1>3, <1>5, <1>7, <2>1, <2>3 DEF ListInv, InOrder
<1>9. Frozen
  BY <1>1, <1>2, <1>5, <1>7 DEF Frozen
<1>10. \A u \in Threads : MarkedStay(u)
  BY <1>1, <1>4, <1>5, <1>7 DEF MarkedStay, AllMarked
<1>11. /\ Phase(t)' /\ Decided(t)' /\ Cleared(t)' /\ Owning(t)' /\ Walked(t)'
       /\ Reclaiming(t)'
  <2>1. owned[t] = {}
    BY <1>1 DEF Local, Owning, Phase, Removing
  <2> QED
    BY <1>1, <1>2, <1>5, <2>1
    DEF Local, Phase, Decided, Cleared, Owning, Walked, Reclaiming, InOp, Key,
        Searching, Adding, Removing, searchVars, r
<1>12. Found(t)'
  BY <1>1, <1>2, <1>5 DEF Local, Found, Key, Adding, Removing, searchVars, c, r
<1>13. Local(t)'
  BY <1>11, <1>12 DEF Local
<1>14. Held(t)' \ {LL_SIZE} \subseteq reach'[t]
  BY <1>1 DEF ListInv, HeldReached, Held, searchVars
<1>15. \A u \in Threads :
          /\ u # t => SameLocals(u) /\ owned'[u] = owned[u] /\ detached'[u] = detached[u]
                      /\ \A i \in owned[u] : data'[i] = data[i] /\ next'[i] = next[i]
          /\ MarkedStay(u)
          /\ reach[u] \subseteq reach'[u] /\ (InOp(u) => linked' \subseteq reach'[u])
          /\ \A i \in reach'[u] \ linked' : i \in reach[u] /\ IsMarked(next[i])
          /\ call[u] # Idle => /\ seen[u] \subseteq seen'[u]
                               /\ Where(call[u].val, Set') \in seen'[u]
  BY <1>1, <1>3, <1>5, <1>7, <1>10, Met, Out, Seeing
<1>16. Key(t) \in Set
  BY <1>1, <1>2, <1>3, SetIs DEF ListInv, SetOf, Key
<1>17. Set' = Set \ {Key(t)}
  <2>1. \A i \in linked : IsMarked(next'[i]) <=> IsMarked(next[i]) \/ i = c
    BY <1>1, <1>2, <1>4, <1>5, <1>7
  <2>2. \A i \in linked : data[i] = Key(t) <=> i = c
    BY <1>2, <1>3 DEF ListInv, InOrder, SortedList, Key
  <2>3. SetOf(next', data', linked') = SetOf(next, data, linked) \ {Key(t)}
    BY <1>1, <2>1, <2>2 DEF SetOf
  <2> QED BY <1>6, <1>8, <2>3, SetIs, SetIsNext DEF ListInv
<1> QED BY <1>1, <1>6, <1>8, <1>9, <1>13, <1>14, <1>15, <1>16, <1>17, ChangeStep

\* A node linked in behind a node that is not marked is in no thread's way.
LEMMA MarkedLink ==
    ASSUME NEW nx, NEW dt \in [Nodes -> Nat], NEW L \in SUBSET Nodes, NEW nx2,
           NEW a \in L \ {TAIL}, NEW n \in Nodes \ L, SortedList(nx, dt, L), ~ IsMarked(nx[a]),
           dt[a] < dt[n], dt[n] < dt[Unmark(nx[a])],
           \A i \in L \ {a} : nx2[i] = nx[i],
           NEW f \in Nodes \ {n}, NEW c \in Nodes, AllMarked(nx, dt, L, f, c)
    PROVE  AllMarked(nx2, dt, L \cup {n}, f, c)
<1> SUFFICES ASSUME f \in L
             PROVE  c \in L /\ \A i \in L \cup {n} : dt[f] <= dt[i] /\ dt[i] < dt[c] => IsMarked(nx2[i])
  BY DEF AllMarked
<1>1. c \in L /\ \A i \in L : dt[f] <= dt[i] /\ dt[i] < dt[c] => IsMarked(nx[i])
  BY DEF AllMarked
<1>2. ~ (dt[f] <= dt[a] /\ dt[a] < dt[c])
  BY <1>1
<1>3. \A i \in L : dt[i] <= dt[a] \/ dt[Unmark(nx[a])] <= dt[i]
  BY DEF SortedList
<1>4. dt[Unmark(nx[a])] \in Nat
  BY DEF SortedList
<1>5. ~ (dt[f] <= dt[n] /\ dt[n] < dt[c])
  BY <1>1, <1>2, <1>3, <1>4
<1> QED BY <1>1, <1>2, <1>5

\* Nor are the nodes that are cut out behind such a node.
LEMMA MarkedCut ==
    ASSUME NEW nx, NEW dt, NEW L, NEW nx2, NEW a, NEW b, NEW K,
           Cut(nx, dt, L, nx2, a, b, K), ~ IsMarked(nx[a]),
           NEW f \in Nodes, NEW c \in Nodes, dt[f] <= dt[c], AllMarked(nx, dt, L, f, c)
    PROVE  AllMarked(nx2, dt, K, f, c)
<1> USE DEF Cut
<1> SUFFICES ASSUME f \in K
             PROVE  /\ c \in L /\ (dt[c] <= dt[a] \/ dt[b] <= dt[c])
                    /\ \A i \in L : dt[f] <= dt[i] /\ dt[i] < dt[c] => IsMarked(nx2[i])
  BY DEF AllMarked
<1>1. c \in L /\ \A i \in L : dt[f] <= dt[i] /\ dt[i] < dt[c] => IsMarked(nx[i])
  BY DEF AllMarked
<1>2. ~ (dt[f] <= dt[a] /\ dt[a] < dt[c])
  BY <1>1
<1> QED BY <1>1, <1>2

LEMMA InsertInv ==
    ASSUME ListInv, EbrInv, EbrInv', NEW t \in Threads, Insert(t)
    PROVE  ListInv' /\ Key(t) \notin Set /\ Set' = Set \cup {Key(t)}
<1> USE DEF Insert, Goto, Publish
<1> DEFINE n == new_elem[t]
           a == left[t]
           c == cur[t]
<1>1. /\ pc[t] = "insert" /\ Local(t) /\ InOp(t) /\ ListTypeOK /\ EbrTypeOK /\ EbrTypeOK'
      /\ next[a] = c /\ See(Set')
      /\ UNCHANGED <<data, detached, ebr_pc, call>>
  BY DEF ListInv, ListTypeOK, EbrInv, Local, Phase, Adding, InOp, ebrVars
<1>2. /\ a \in reach[t] /\ c \in reach[t] /\ a \in Nodes /\ c \in Nodes
      /\ data[a] < call[t].val /\ call[t].val < data[c]
      /\ n \in Nodes /\ n \in owned[t] /\ owned[t] = {n} /\ data[n] = call[t].val /\ next[n] = c
  <2>1. n # 0 /\ owned[t] = {n} /\ next[n] = c
    BY <1>1 DEF Local, Owning, Decided, Adding
  <2> QED BY <1>1, <2>1, Stand DEF Local, Found, Owning, Adding, Key, ListTypeOK
<1>3. /\ n \notin linked /\ \A u \in Threads : n \notin reach[u]
      /\ \A u \in Threads \ {t} : n \notin owned[u]
  BY <1>2, Out
<1>4. ~ IsMarked(next[a]) /\ Unmark(next[a]) = c /\ a \in linked /\ a # TAIL /\ a # n
      /\ Unmark(n) = n /\ ~ IsMarked(n)
  <2>1. ~ IsMarked(next[a]) /\ Unmark(next[a]) = c /\ Unmark(n) = n /\ ~ IsMarked(n)
    BY <1>1, <1>2, NodeIndex
  <2> QED BY <1>1, <1>2, <1>3, <2>1, Stand, Numbers
<1>5. /\ pc'[t] = "end" /\ result'[t] = "yes" /\ next'[a] = n
      /\ \A i \in Nodes \ {a} : next'[i] = next[i]
      /\ linked' = linked \cup {n} /\ owned'[t] = {}
      /\ \A u \in Threads : reach'[u] = IF InOp(u) THEN reach[u] \cup {n} ELSE reach[u]
      /\ \A u \in Threads \ {t} : SameLocals(u) /\ owned'[u] = owned[u]
  BY <1>1, <1>2 DEF ListTypeOK, EbrTypeOK, SameLocals, searchVars
<1>6. ListTypeOK'
  <2>1. n \in MarkedIndexes
    BY <1>2, NodeIndex
  <2> QED BY <1>1, <2>1, SeeType DEF ListTypeOK, searchVars
<1>7. /\ linked \in SUBSET Nodes /\ data \in [Nodes -> Nat]
      /\ \A u \in Threads : reach[u] \subseteq Nodes /\ owned[u] \subseteq Nodes
  BY <1>1, DataNat DEF EbrTypeOK
<1>8. SortedList(next, data, linked) /\ HEAD \in linked /\ TAIL \in linked
      /\ next[TAIL] = LL_SIZE /\ ~ IsMarked(next[HEAD])
  BY DEF ListInv, InOrder, SortedList
<1> HIDE DEF n, a, c
<1>9. InOrder'
  <2>1. /\ data[a] < data[n] /\ data[n] < data[Unmark(next[a])]
        /\ Unmark(next'[n]) = Unmark(next[a])
        /\ \A i \in linked \ {a} : next'[i] = next[i]
        /\ n \in Nodes \ linked
    BY <1>1, <1>2, <1>3, <1>4, <1>5, <1>7
  <2>2. SortedList(next', data, linked \cup {n})
    BY <1>4, <1>5, <1>7, <1>8, <2>1, LinkIn
  <2>3. next'[TAIL] = LL_SIZE /\ ~ IsMarked(next'[HEAD])
    BY <1>4, <1>5, <1>7, <1>8
  <2> QED BY <1>1, <1>5, <2>2, <2>3 DEF InOrder
<1>10. Frozen
  BY <1>1, <1>4, <1>5, <1>7 DEF Frozen
<1>11. ASSUME NEW u \in Threads PROVE MarkedStay(u)
  <2> SUFFICES ASSUME NEW f \in reach[u], NEW d \in reach[u], AllMarked(next, data, linked, f, d)
               PROVE  AllMarked(next', data', linked', f, d)
    BY DEF MarkedStay
  <2>1. f \in Nodes \ {n} /\ d \in Nodes
    BY <1>3, <1>7
  <2>2. /\ n \in Nodes \ linked /\ a \in linked \ {TAIL}
        /\ data[a] < data[n] /\ data[n] < data[Unmark(next[a])]
        /\ \A i \in linked \ {a} : next'[i] = next[i]
    BY <1>2, <1>3, <1>4, <1>5, <1>7
  <2>3. AllMarked(next', data, linked \cup {n}, f, d)
    BY <1>4, <1>7, <1>8, <2>1, <2>2, MarkedLink
  <2> QED BY <1>1, <1>5, <2>3
<1>12. /\ Phase(t)' /\ Decided(t)' /\ Cleared(t)' /\ Owning(t)' /\ Walked(t)'
       /\ Found(t)' /\ Reclaiming(t)'
  BY <1>1, <1>2, <1>5
  DEF Local, Phase, Decided, Cleared, Owning, Walked, Found, Reclaiming, InOp, Key,
      Searching, Adding, Removing, searchVars
<1>13. Local(t)'
  BY <1>12 DEF Local
<1>14. Held(t)' \ {LL_SIZE} \subseteq reach'[t]
  BY <1>1, <1>5 DEF ListInv, HeldReached, Held, searchVars
<1>15. \A u \in Threads :
          /\ u # t => SameLocals(u) /\ owned'[u] = owned[u] /\ detached'[u] = detached[u]
                      /\ \A i \in owned[u] : data'[i] = data[i] /\ next'[i] = next[i]
          /\ MarkedStay(u)
          /\ reach[u] \subseteq reach'[u] /\ (InOp(u) => linked' \subseteq reach'[u])
          /\ \A i \in reach'[u] \ linked' : i \in reach[u] /\ IsMarked(next[i])
          /\ call[u] # Idle => /\ seen[u] \subseteq seen'[u]
                               /\ Where(call[u].val, Set') \in seen'[u]
  <2> TAKE u \in Threads
  <2>1. u # t => SameLocals(u) /\ owned'[u] = owned[u] /\ detached'[u] = detached[u]
                 /\ \A i \in owned[u] : data'[i] = data[i] /\ next'[i] = next[i]
    <3>1. a \notin owned[u]
      BY <1>4, Out
    <3> QED BY <1>1, <1>5, <1>7, <3>1
  <2>2. /\ reach[u] \subseteq reach'[u] /\ (InOp(u) => linked' \subseteq reach'[u])
        /\ \A i \in reach'[u] \ linked' : i \in reach[u] /\ IsMarked(next[i])
    BY <1>5, Met
  <2> QED BY <1>1, <1>11, <2>1, <2>2, Seeing
<1>16. Key(t) \notin Set
  BY <1>1, <1>2, <1>4, <1>7, <1>8, ExcludesNow, SetIs DEF ListInv, Key
<1>17. Set' = Set \cup {Key(t)}
  <2>1. \A i \in linked : IsMarked(next'[i]) <=> IsMarked(next[i])
    BY <1>4, <1>5, <1>7
  <2>2. ~ IsMarked(next'[n]) /\ n # HEAD /\ n # TAIL /\ data'[n] = Key(t)
    BY <1>1, <1>2, <1>3, <1>4, <1>5, <1>8, NodeIndex DEF Key
  <2>3. SetOf(next', data', linked') = SetOf(next, data, linked) \cup {Key(t)}
    BY <1>1, <1>5, <2>1, <2>2 DEF SetOf
  <2> QED BY <1>6, <1>9, <2>3, SetIs, SetIsNext DEF ListInv
<1> QED BY <1>1, <1>6, <1>9, <1>10, <1>13, <1>14, <1>15, <1>16, <1>17, ChangeStep

\* t takes the marked nodes between its left node, which is not marked, and b
\* out of the list.
LEMMA CutStep ==
    ASSUME ListInv, EbrInv, ListTypeOK', NEW t \in Threads, NEW b \in linked,
           left[t] \in linked, ~ IsMarked(next[left[t]]), data[left[t]] < data[b],
           \A i \in linked : data[left[t]] < data[i] /\ data[i] < data[b] => IsMarked(next[i]),
           next' = [next EXCEPT ![left[t]] = b], UNCHANGED data,
           Detach(t, linked \ ReachableBy(next'))
    PROVE  /\ InOrder' /\ Frozen /\ Set' = Set
           /\ \A u \in Threads :
                 /\ MarkedStay(u)
                 /\ \A i \in reach[u] \ linked' : IsMarked(next[i])
           /\ linked' \subseteq linked
           /\ detached'[t] = detached[t] \cup
                  {i \in linked : data[left[t]] < data[i] /\ data[i] < data[b]}
<1> DEFINE a == left[t]
           K == {i \in linked : data[i] <= data[a] \/ data[b] <= data[i]}
<1>1. /\ linked \in SUBSET Nodes /\ data \in [Nodes -> Nat] /\ next \in [Nodes -> MarkedIndexes]
      /\ \A u \in Threads : reach[u] \subseteq Nodes
      /\ detached \in [Threads -> SUBSET Nodes]
  BY DataNat, LinkedNodes DEF ListInv, ListTypeOK, EbrTypeOK
<1>2. SortedList(next, data, linked) /\ HEAD \in linked /\ TAIL \in linked
      /\ next[TAIL] = LL_SIZE /\ ~ IsMarked(next[HEAD]) /\ data[TAIL] = INT_MAX
      /\ data[b] <= INT_MAX
  BY DEF ListInv, InOrder, SortedList
<1>3. a # TAIL /\ b \in Nodes /\ a \in linked /\ data[a] \in Nat /\ data[b] \in Nat
  BY <1>1, <1>2, Numbers
<1>4. next'[a] = b /\ \A i \in Nodes \ {a} : next'[i] = next[i]
  BY <1>1, <1>3
<1>5. Cut(next, data, linked, next', a, b, K)
  BY <1>1, <1>2, <1>3, <1>4 DEF Cut
<1>6. SortedList(next', data, K)
  <2> HIDE DEF K
  <2> QED BY <1>5, CutOut
<1>7. ReachableBy(next') = K
  BY <1>1, <1>6, SortedIsReachable
<1>8. linked' = K
  BY <1>7 DEF Detach
<1>9. detached'[t] = detached[t] \cup {i \in linked : data[a] < data[i] /\ data[i] < data[b]}
  <2>1. linked \ K = {i \in linked : data[a] < data[i] /\ data[i] < data[b]}
    BY <1>1, <1>3
  <2> HIDE DEF a, K
  <2>2. detached'[t] = detached[t] \cup (linked \ K)
    BY <1>1, <1>7 DEF Detach
  <2> QED BY <2>1, <2>2
<1>10. InOrder'
  <2>1. SortedList(next', data', linked')
    BY <1>6, <1>8
  <2> HIDE DEF a, K
  <2>2. next'[TAIL] = LL_SIZE /\ ~ IsMarked(next'[HEAD])
    BY <1>1, <1>2, <1>3, <1>4, NodeIndex
  <2> QED BY <2>1, <2>2 DEF InOrder
<1>11. Frozen
  BY <1>1, <1>4 DEF Frozen
<1>12. ASSUME NEW u \in Threads
       PROVE  /\ MarkedStay(u)
              /\ \A i \in reach[u] \ linked' : IsMarked(next[i])
  <2>1. MarkedStay(u)
    <3> SUFFICES ASSUME NEW f \in reach[u], NEW c \in reach[u], data[f] <= data[c],
                        AllMarked(next, data, linked, f, c)
                 PROVE  AllMarked(next', data', linked', f, c)
      BY DEF MarkedStay
    <3>1. f \in Nodes /\ c \in Nodes /\ \A i \in linked \ {a} : next'[i] = next[i]
      BY <1>1, <1>4
    <3>2. AllMarked(next', data, K, f, c)
      <4> HIDE DEF K
      <4> QED BY <1>5, <3>1, MarkedCut
    <3> QED BY <1>8, <3>2
  <2>2. ASSUME NEW i \in reach[u] \ linked' PROVE IsMarked(next[i])
    <3>1. CASE i \notin linked
      BY <3>1, Met
    <3>2. CASE i \in linked
      BY <1>1, <1>3, <1>8, <2>2, <3>2
    <3> QED BY <3>1, <3>2
  <2> QED BY <2>1, <2>2
<1>13. Set' = Set
  <2>1. \A i \in linked : ~ IsMarked(next[i]) <=> i \in linked' /\ ~ IsMarked(next'[i])
    <3>1. ~ IsMarked(next'[a])
      BY <1>3, <1>4, NodeIndex
    <3> QED BY <1>1, <1>3, <1>4, <1>8, <3>1
  <2>2. linked' \subseteq linked
    BY <1>8
  <2> HIDE DEF a, K
  <2>3. SetOf(next', data', linked') = SetOf(next, data, linked)
    BY <2>1, <2>2 DEF SetOf
  <2> QED BY <1>10, <2>3, SetIs, SetIsNext DEF ListInv
<1> QED BY <1>8, <1>9, <1>10, <1>11, <1>12, <1>13

\* If that is all t does, and its own point of view is right, all is well.
LEMMA CutInv ==
    ASSUME ListInv, EbrInv, ListTypeOK', NEW t \in Threads, NEW b \in linked,
           left[t] \in linked, ~ IsMarked(next[left[t]]), data[left[t]] < data[b],
           \A i \in linked : data[left[t]] < data[i] /\ data[i] < data[b] => IsMarked(next[i]),
           next' = [next EXCEPT ![left[t]] = b], UNCHANGED <<data, call, seen>>,
           Detach(t, linked \ ReachableBy(next')),
           \A u \in Threads \ {t} : SameLocals(u),
           Local(t)', Held(t)' \ {LL_SIZE} \subseteq reach[t]
    PROVE  ListInv' /\ Set' = Set
<1>1. /\ InOrder' /\ Frozen /\ Set' = Set /\ linked' \subseteq linked
      /\ \A u \in Threads : /\ MarkedStay(u)
                             /\ \A i \in reach[u] \ linked' : IsMarked(next[i])
  BY CutStep
<1>2. UNCHANGED <<ebr_pc, reach, owned>> /\ ebr_pc[t] = "in"
  BY DEF Detach, ebrVars
<1>3. \A u \in Threads \ {t} : detached'[u] = detached[u]
  BY DEF Detach, ListInv, ListTypeOK, EbrTypeOK
<1>4. \A u \in Threads \ {t} : \A i \in owned[u] : data'[i] = data[i] /\ next'[i] = next[i]
  <2> TAKE u \in Threads \ {t}
  <2> TAKE i \in owned[u]
  <2>1. i # left[t] /\ i \in Nodes
    BY Out DEF ListInv, ListTypeOK, EbrTypeOK
  <2> QED BY <2>1 DEF ListInv, ListTypeOK
<1>5. \A u \in Threads :
          /\ u # t => SameLocals(u) /\ owned'[u] = owned[u] /\ detached'[u] = detached[u]
                      /\ \A i \in owned[u] : data'[i] = data[i] /\ next'[i] = next[i]
          /\ MarkedStay(u)
          /\ reach[u] \subseteq reach'[u] /\ (InOp(u) => linked' \subseteq reach'[u])
          /\ \A i \in reach'[u] \ linked' : i \in reach[u] /\ IsMarked(next[i])
          /\ call[u] # Idle => /\ seen[u] \subseteq seen'[u]
                               /\ Where(call[u].val, Set') \in seen'[u]
  BY <1>1, <1>2, <1>3, <1>4, Met
<1> QED BY <1>1, <1>2, <1>5, ChangeStep

LEMMA UnlinkInv ==
    ASSUME ListInv, EbrInv, EbrInv', NEW t \in Threads, Unlink(t)
    PROVE  ListInv' /\ Set' = Set
<1> USE DEF Unlink, Apart
<1> DEFINE a == left[t]
           f == left_next[t]
           c == cur[t]
<1>1. /\ pc[t] = "walk" /\ ~ Walking(t) /\ f # c /\ next[a] = f /\ next' = [next EXCEPT ![a] = c]
      /\ Local(t) /\ InOp(t) /\ ListTypeOK /\ EbrTypeOK /\ EbrTypeOK'
      /\ Detach(t, linked \ ReachableBy(next'))
      /\ UNCHANGED <<data, call, seen, result, cur, left, left_next, right_idx, new_elem,
                     word, calls>>
  BY WalkDone DEF ListInv, ListTypeOK, EbrInv
<1>2. /\ data[a] < call[t].val /\ call[t].val <= data[c]
      /\ f \in reach[t]
      /\ data[a] < data[f] /\ data[f] <= data[c]
      /\ call[t].val < data[f] => "out" \in seen[t]
      /\ AllMarked(next, data, linked, f, c)
  BY <1>1, WalkDone
<1>3. /\ linked \in SUBSET Nodes /\ reach[t] \subseteq Nodes /\ a \in reach[t] /\ c \in reach[t]
      /\ \A i \in reach[t] : data[i] \in Nat
      /\ call[t].val \in Nat /\ call[t].val < INT_MAX /\ INT_MAX \in Nat
      /\ linked \subseteq reach[t] /\ data[TAIL] = INT_MAX
  BY <1>1, Stand DEF EbrTypeOK
<1>4. /\ ~ IsMarked(next[a]) /\ Unmark(next[a]) = f /\ a \in linked /\ a # TAIL
      /\ Unmark(f) = f /\ f \in MarkedIndexes /\ c \in MarkedIndexes
  <2>1. ~ IsMarked(f) /\ Unmark(f) = f /\ f \in MarkedIndexes /\ c \in MarkedIndexes
    BY <1>2, <1>3, NodeIndex
  <2>2. a \in linked
    BY <1>1, <1>3, <2>1, Stand
  <2>3. a # TAIL
    BY <1>2, <1>3
  <2> QED BY <1>1, <2>1, <2>2, <2>3
<1>5. f \in linked /\ \A i \in linked : data[i] <= data[a] \/ data[f] <= data[i]
  BY <1>4 DEF ListInv, InOrder, SortedList
<1>6. /\ c \in linked
      /\ \A i \in linked : data[f] <= data[i] /\ data[i] < data[c] => IsMarked(next[i])
  BY <1>2, <1>5 DEF AllMarked
<1>7. data[f] < data[c]
  <2>1. data[f] # data[c]
    BY <1>1, <1>5, <1>6 DEF ListInv, InOrder, SortedList
  <2> QED BY <1>2, <1>3, <2>1
<1> HIDE DEF a, f, c
<1> DEFINE D == {i \in linked : data[a] < data[i] /\ data[i] < data[c]}
<1>8. \A i \in linked : i \in D <=> data[f] <= data[i] /\ data[i] < data[c]
  BY <1>2, <1>3, <1>5, <1>6
<1> HIDE DEF D
<1>9. D \subseteq linked /\ \A i \in D : IsMarked(next[i])
  BY <1>6, <1>8 DEF D
<1>10. /\ pc'[t] = "reclaim" /\ cur_next'[t] = f
       /\ ebr_pc[t] = "in" /\ UNCHANGED <<ebr_pc, reach, owned>>
       /\ \A u \in Threads \ {t} : SameLocals(u)
       /\ next'[a] = c /\ \A i \in Nodes \ {a} : next'[i] = next[i]
  BY <1>1, <1>3 DEF ListTypeOK, SameLocals, Detach, ebrVars, f, a, c
<1>11. ListTypeOK'
  BY <1>1, <1>4 DEF ListTypeOK, a, f, c
<1>12. detached'[t] = D
  <2>1. detached[t] = {}
    BY <1>1 DEF Local, Reclaiming
  <2>2. \A i \in linked : data[a] < data[i] /\ data[i] < data[c] => IsMarked(next[i])
    BY <1>9 DEF D
  <2>3. data[a] < data[c]
    BY <1>2, <1>3, <1>7, <1>4, <1>5
  <2>4. detached'[t] = detached[t] \cup {i \in linked : data[a] < data[i] /\ data[i] < data[c]}
    BY <1>1, <1>4, <1>6, <1>11, <2>2, <2>3, CutStep DEF a, c
  <2> QED BY <2>1, <2>4 DEF D
<1>13. Run(next', data', D, f, c)
  <2>1. f \in D
    BY <1>3, <1>5, <1>7, <1>8
  <2>2. \A i, j \in D : data[i] = data[j] => i = j
    BY <1>9 DEF ListInv, InOrder, SortedList
  <2>3. \A i \in D : next'[i] = next[i]
    BY <1>3, <1>4, <1>9, <1>10
  <2>4. ASSUME NEW i \in D
        PROVE  /\ data[f] <= data[i] /\ data[i] < data[c]
               /\ Unmark(next[i]) \in D \cup {c}
               /\ \A j \in D : data[j] <= data[i] \/ data[Unmark(next[i])] <= data[j]
    <3> DEFINE s == Unmark(next[i])
    <3>1. data[f] <= data[i] /\ data[i] < data[c] /\ i \in linked
      BY <1>8, <1>9
    <3>2. i # TAIL
      BY <1>3, <1>6, <3>1, Numbers DEF ListInv, InOrder, SortedList
    <3>3. /\ s \in linked /\ data[i] < data[s]
          /\ \A j \in linked : data[j] <= data[i] \/ data[s] <= data[j]
          /\ \A j \in linked : data[j] = data[s] => j = s
      BY <3>1, <3>2 DEF ListInv, InOrder, SortedList
    <3> HIDE DEF s
    <3>4. s \in D \cup {c}
      BY <1>3, <1>5, <1>6, <1>8, <3>1, <3>3
    <3> QED BY <1>9, <3>1, <3>3, <3>4 DEF s
  <2> QED BY <1>1, <1>9, <2>1, <2>2, <2>3, <2>4 DEF Run
<1>14. call[t].val < data[c] => "out" \in seen[t]
  <2> SUFFICES ASSUME call[t].val < data[c], data[f] <= call[t].val
               PROVE  "out" \in seen[t]
    BY <1>2, <1>3
  <2>1. call[t].val \notin SetOf(next, data, linked)
    BY <1>6 DEF SetOf
  <2>2. call[t].val \notin Set
    BY <2>1, SetIs DEF ListInv
  <2>3. call[t] # Idle
    BY <1>1, Stand
  <2> QED BY <2>2, <2>3, Met DEF Where
<1>15. /\ Phase(t)' /\ Decided(t)' /\ Cleared(t)' /\ Owning(t)' /\ Walked(t)'
  BY <1>1, <1>10
  DEF Local, Phase, Decided, Cleared, Owning, Walked, InOp, Key, Searching, Adding,
      Removing
<1>16. Found(t)'
  BY <1>1, <1>2, <1>10, <1>14 DEF Found, Key, Adding, Removing, a, c
<1>17. Reclaiming(t)'
  <2>1. D \subseteq reach'[t]
    BY <1>3, <1>9, <1>10
  <2> QED BY <1>1, <1>4, <1>10, <1>12, <1>13, <2>1 DEF Reclaiming, c
<1>18. Local(t)'
  BY <1>15, <1>16, <1>17 DEF Local
<1>19. Held(t)' \ {LL_SIZE} \subseteq reach[t]
  BY <1>1, <1>2, <1>4, <1>10 DEF ListInv, HeldReached, Held, f
<1> QED
  <2>1. \A i \in linked : data[a] < data[i] /\ data[i] < data[c] => IsMarked(next[i])
    BY <1>9 DEF D
  <2>2. data[a] < data[c]
    BY <1>2, <1>3, <1>7, <1>4, <1>5
  <2> QED BY <1>1, <1>4, <1>6, <1>10, <1>11, <1>18, <1>19, <2>1, <2>2, CutInv DEF a, c

LEMMA DeleteInv ==
    ASSUME ListInv, EbrInv, EbrInv', NEW t \in Threads, Delete(t)
    PROVE  ListInv' /\ Set' = Set
<1> USE DEF Delete, Goto
<1> DEFINE a == left[t]
           c == cur[t]
           r == right_idx[t]
<1>1. /\ pc[t] = "delete" /\ next[a] = c /\ next' = [next EXCEPT ![a] = r]
      /\ Local(t) /\ InOp(t) /\ ebr_pc[t] = "in" /\ ListTypeOK /\ EbrTypeOK /\ EbrTypeOK'
      /\ Detach(t, linked \ ReachableBy(next'))
      /\ UNCHANGED <<data, call, result, cur, cur_next, left, left_next, right_idx,
                     new_elem, word, calls, seen>>
  BY DEF ListInv, ListTypeOK, EbrInv, Local, Phase, Removing, InOp, searchVars
<1>2. /\ data[a] < call[t].val /\ data[c] = call[t].val
      /\ r \in Nodes \ {0} /\ data[c] < data[r] /\ next[c] = r + MARK
  BY <1>1 DEF Local, Found, Key, Removing
<1>3. /\ linked \in SUBSET Nodes /\ reach[t] \subseteq Nodes /\ a \in reach[t] /\ c \in reach[t]
      /\ \A i \in reach[t] : data[i] \in Nat
      /\ call[t].val \in Nat /\ call[t].val < INT_MAX /\ INT_MAX \in Nat
      /\ linked \subseteq reach[t] /\ data[TAIL] = INT_MAX
  BY <1>1, Stand DEF EbrTypeOK
<1>4. /\ ~ IsMarked(next[a]) /\ Unmark(next[a]) = c /\ a \in linked /\ a # TAIL
      /\ IsMarked(next[c]) /\ Unmark(next[c]) = r /\ r \in MarkedIndexes /\ c # TAIL
  <2>1. /\ ~ IsMarked(c) /\ Unmark(c) = c /\ r \in MarkedIndexes
        /\ IsMarked(next[c]) /\ Unmark(next[c]) = r
    BY <1>2, <1>3, NodeIndex
  <2>2. a \in linked
    BY <1>1, <1>3, <2>1, Stand
  <2>3. a # TAIL /\ c # TAIL
    BY <1>2, <1>3
  <2> QED BY <1>1, <2>1, <2>2, <2>3
<1>5. /\ c \in linked /\ data[a] < data[c]
      /\ \A i \in linked : data[i] <= data[a] \/ data[c] <= data[i]
  BY <1>4 DEF ListInv, InOrder, SortedList
<1>6. /\ r \in linked /\ \A i \in linked : data[i] <= data[c] \/ data[r] <= data[i]
      /\ \A i \in linked : data[i] = data[c] => i = c
  BY <1>4, <1>5 DEF ListInv, InOrder, SortedList
<1> HIDE DEF a, c, r
<1>7. /\ \A i \in linked : data[a] < data[i] /\ data[i] < data[r] <=> i = c
      /\ data[a] < data[r]
  BY <1>2, <1>3, <1>5, <1>6
<1>8. \A i \in linked : data[a] < data[i] /\ data[i] < data[r] => IsMarked(next[i])
  BY <1>4, <1>7
<1>9. /\ pc'[t] = "retire"
      /\ UNCHANGED <<ebr_pc, reach, owned>> /\ \A u \in Threads \ {t} : SameLocals(u)
      /\ \A i \in Nodes \ {a} : next'[i] = next[i]
  BY <1>1, <1>3 DEF ListTypeOK, SameLocals, Detach, ebrVars, r, a, c
<1>10. ListTypeOK'
  BY <1>1, <1>4 DEF ListTypeOK, a, r, c
<1>11. detached'[t] = {c}
  <2>1. detached[t] = {}
    BY <1>1 DEF Local, Reclaiming
  <2>2. detached'[t] = detached[t] \cup {i \in linked : data[a] < data[i] /\ data[i] < data[r]}
    BY <1>1, <1>4, <1>6, <1>7, <1>8, <1>10, CutStep DEF a, r
  <2> QED BY <1>5, <1>7, <2>1, <2>2
<1>12. /\ Phase(t)' /\ Decided(t)' /\ Cleared(t)' /\ Owning(t)' /\ Walked(t)'
       /\ Reclaiming(t)'
  BY <1>1, <1>3, <1>9, <1>11
  DEF Local, Phase, Decided, Cleared, Owning, Walked, Reclaiming, InOp, Key, Searching,
      Adding, Removing, c
<1>13. Found(t)'
  <2>1. next'[c] = next[c]
    BY <1>3, <1>5, <1>9
  <2> QED BY <1>1, <1>2, <1>9, <2>1 DEF Found, Key, Adding, Removing, a, c, r
<1>14. Local(t)'
  BY <1>12, <1>13 DEF Local
<1>15. Held(t)' \ {LL_SIZE} \subseteq reach[t]
  BY <1>1 DEF ListInv, HeldReached, Held
<1> QED
  BY <1>1, <1>4, <1>6, <1>7, <1>8, <1>9, <1>10, <1>14, <1>15, CutInv DEF a, r

------------------------------------------------------------------------------
(* The list at the beginning.                                               *)

LEMMA Division ==
    ASSUME NEW a \in Nat, NEW d \in Nat \ {0}
    PROVE  /\ a = d * (a \div d) + (a % d) /\ a \div d \in Int
           /\ a % d \in Nat /\ a % d < d
OBVIOUS

LEMMA Multiples ==
    ASSUME NEW d \in Nat \ {0}, NEW m \in Int, m >= 1 PROVE d * m >= d
OBVIOUS

LEMMA Quotient ==
    ASSUME NEW d \in Nat \ {0}, NEW u \in Int, NEW v \in Int, NEW r \in Nat, NEW s \in Nat,
           r < d, s < d, d * u + r = d * v + s
    PROVE  u = v /\ r = s
<1>1. d * u \in Int /\ d * v \in Int /\ d * (u - v) = d * u - d * v
      /\ d * (v - u) = d * v - d * u
  OBVIOUS
<1>2. ~ (u - v >= 1)
  BY <1>1, Multiples
<1>3. ~ (v - u >= 1)
  BY <1>1, Multiples
<1>4. u = v
  BY <1>2, <1>3
<1> QED BY <1>1, <1>4

LEMMA Bits == FFS \in Nat \ {0} /\ FFS >= 2 /\ WORD \in Nat \ {0} /\ FFS <= WORD
<1>1. WORD \in Nat \ {0} /\ FFS \in 2 .. WORD
  BY ListAssumption
<1> QED BY <1>1

\* new_p_node() hands out different nodes, those of the head and the tail first.
LEMMA Handouts ==
    /\ Handout(1) = HEAD /\ Handout(2) = TAIL
    /\ \A j, k \in Nat \ {0} : Handout(j) = Handout(k) => j = k
<1>1. FFS \in Nat \ {0} /\ FFS >= 2 /\ WORD \in Nat \ {0} /\ FFS <= WORD
  BY Bits
<1>2. ASSUME NEW x \in Nat, x < FFS
      PROVE  x \div FFS = 0 /\ x % FFS = x
  <2>1. /\ x = FFS * (x \div FFS) + (x % FFS) /\ x \div FFS \in Int
        /\ x % FFS \in Nat /\ x % FFS < FFS
    BY <1>1, Division
  <2>2. FFS * (x \div FFS) + (x % FFS) = FFS * 0 + x
    BY <1>1, <2>1
  <2> QED BY <1>1, <1>2, <2>1, <2>2, Quotient
<1>3. HEAD = Handout(1)
  <2>1. 0 \div FFS = 0 /\ 0 % FFS = 0
    BY <1>1, <1>2
  <2> QED BY <1>1, <2>1 DEF Handout, HEAD
<1>4. TAIL = Handout(2)
  <2>1. 1 \div FFS = 0 /\ 1 % FFS = 1
    BY <1>1, <1>2
  <2> QED BY <1>1, <2>1 DEF Handout, TAIL
<1>5. ASSUME NEW j \in Nat \ {0}, NEW k \in Nat \ {0}, Handout(j) = Handout(k)
      PROVE  j = k
  <2> DEFINE qj == (j - 1) \div FFS
             rj == (j - 1) % FFS
             qk == (k - 1) \div FFS
             rk == (k - 1) % FFS
  <2>1. /\ j - 1 = FFS * qj + rj /\ qj \in Int /\ rj \in Nat /\ rj < FFS
        /\ k - 1 = FFS * qk + rk /\ qk \in Int /\ rk \in Nat /\ rk < FFS
    <3>1. j - 1 \in Nat /\ k - 1 \in Nat
      OBVIOUS
    <3> QED BY <1>1, <3>1, Division
  <2>2. qj * WORD + rj = qk * WORD + rk
    BY <1>5 DEF Handout
  <2> HIDE DEF qj, rj, qk, rk
  <2>3. WORD * qj + rj = WORD * qk + rk
    BY <1>1, <2>1, <2>2
  <2>4. rj < WORD /\ rk < WORD
    BY <1>1, <2>1
  <2>5. qj = qk /\ rj = rk
    BY <1>1, <2>1, <2>3, <2>4, Quotient
  <2> QED BY <2>1, <2>5
<1> QED BY <1>3, <1>4, <1>5

LEMMA InitialSorted ==
    /\ Len(Initial) \in Nat
    /\ \A i \in 1 .. Len(Initial) : Initial[i] \in Values
    /\ \A i, j \in 1 .. Len(Initial) : i < j => Initial[i] < Initial[j]
<1>1. IsSorted(Initial, <)
  BY Zenon, ListAssumption
<1>2. Initial \in Seq(Values)
  BY ListAssumption
<1>3. \A i, j \in 1 .. Len(Initial) : i < j => Initial[i] < Initial[j]
  BY Zenon, <1>1 DEF IsSorted
<1> QED BY <1>2, <1>3

\* The place k of the first list: the head, the initial values, the tail.
Place(k) == IF k = 0 THEN HEAD ELSE IF k > Len(Initial) THEN TAIL ELSE Handout(k + 2)

LEMMA Places ==
    ASSUME Init
    PROVE  /\ linked = {Place(k) : k \in 0 .. Len(Initial) + 1} /\ linked \subseteq Nodes
           /\ \A j, k \in 0 .. Len(Initial) + 1 : Place(j) = Place(k) => j = k
           /\ data[HEAD] = INT_MIN /\ data[TAIL] = INT_MAX /\ next[TAIL] = LL_SIZE
           /\ \A k \in 1 .. Len(Initial) : data[Place(k)] = Initial[k]
           /\ \A k \in 0 .. Len(Initial) : next[Place(k)] = Place(k + 1)
           /\ \A i \in Nodes \ linked : data[i] = 0 /\ next[i] = 0
           /\ DOMAIN data = Nodes /\ DOMAIN next = Nodes
<1> DEFINE n == Len(Initial)
           at(k) == IF k > n THEN TAIL ELSE Handout(k + 2)
           rank(i) == CHOOSE k \in 1 .. n : at(k) = i
<1>1. n \in Nat
  BY InitialSorted
<1>2. linked = InitialNodes /\ linked \subseteq Nodes
  BY InitialFits DEF Init, EbrInit
<1>3. /\ Handout(1) = HEAD /\ Handout(2) = TAIL
      /\ \A j, k \in Nat \ {0} : Handout(j) = Handout(k) => j = k
  BY Handouts
<1>4. /\ data = [i \in Nodes |-> CASE i = HEAD -> INT_MIN
                                  [] i = TAIL -> INT_MAX
                                  [] i \in InitialNodes \ {HEAD, TAIL} -> Initial[rank(i)]
                                  [] OTHER -> 0]
      /\ next = [i \in Nodes |-> CASE i = HEAD -> at(1)
                                  [] i = TAIL -> LL_SIZE
                                  [] i \in InitialNodes \ {HEAD, TAIL} -> at(rank(i) + 1)
                                  [] OTHER -> 0]
  BY DEF Init
<1>5. HEAD \in Nodes /\ TAIL \in Nodes /\ HEAD # TAIL
  BY Numbers
<1> HIDE DEF n, at, rank
<1>6. /\ data[HEAD] = INT_MIN /\ data[TAIL] = INT_MAX /\ next[TAIL] = LL_SIZE
      /\ next[HEAD] = at(1)
  BY <1>4, <1>5
<1>7. ASSUME NEW k \in 1 .. n
      PROVE  /\ at(k) = Handout(k + 2) /\ at(k) \in InitialNodes \ {HEAD, TAIL}
             /\ rank(at(k)) = k
  <2>1. at(k) = Handout(k + 2) /\ k + 2 \in 1 .. n + 2
    BY <1>1 DEF at
  <2>2. at(k) \in InitialNodes \ {HEAD, TAIL}
    BY <1>1, <1>3, <2>1 DEF InitialNodes, n
  <2>3. \A j \in 1 .. n : at(j) = at(k) => j = k
    BY <1>1, <1>3 DEF at
  <2> QED BY <2>1, <2>2, <2>3 DEF rank
<1>8. ASSUME NEW k \in 1 .. n
      PROVE  data[at(k)] = Initial[k] /\ next[at(k)] = at(k + 1)
  <2>1. at(k) \in Nodes
    BY <1>2, <1>7
  <2>2. data[at(k)] = Initial[rank(at(k))] /\ next[at(k)] = at(rank(at(k)) + 1)
    BY <1>4, <1>7, <2>1
  <2> QED BY <1>7, <2>2
<1>9. \A i \in Nodes \ linked : data[i] = 0 /\ next[i] = 0
  <2>1. HEAD \in linked /\ TAIL \in linked
    BY <1>1, <1>2, <1>3 DEF InitialNodes, n
  <2> QED BY <1>2, <1>4, <2>1
<1>10. \A k \in 0 .. n + 1 : Place(k) = IF k = 0 THEN HEAD ELSE at(k)
  BY <1>1 DEF Place, at, n
<1>11. at(n + 1) = TAIL
  BY <1>1 DEF at
<1>12. linked = {Place(k) : k \in 0 .. n + 1}
  <2>1. ASSUME NEW k \in 1 .. n + 2 PROVE \E j \in 0 .. n + 1 : Place(j) = Handout(k)
    <3>1. CASE k = 1
      BY <1>1, <1>3, <3>1, <1>10
    <3>2. CASE k = 2
      BY <1>1, <1>3, <3>2, <1>10, <1>11
    <3>3. CASE k > 2
      <4>1. k - 2 \in 1 .. n /\ k - 2 \in 0 .. n + 1 /\ (k - 2) + 2 = k /\ k - 2 # 0
        BY <1>1, <3>3
      <4>2. Place(k - 2) = Handout(k)
        BY <1>7, <1>10, <4>1
      <4> QED BY <4>1, <4>2
    <3> QED BY <3>1, <3>2, <3>3
  <2>2. ASSUME NEW k \in 0 .. n + 1 PROVE Place(k) \in InitialNodes
    <3>1. CASE k = 0
      BY <1>1, <1>3, <1>10, <3>1 DEF InitialNodes, n
    <3>2. CASE k = n + 1
      BY <1>1, <1>3, <1>10, <1>11, <3>2 DEF InitialNodes, n
    <3>3. CASE k \in 1 .. n
      BY <1>1, <1>7, <1>10, <3>3
    <3> QED BY <1>1, <3>1, <3>2, <3>3
  <2>3. InitialNodes = {Handout(k) : k \in 1 .. n + 2}
    BY DEF InitialNodes, n
  <2> QED BY <1>2, <2>1, <2>2, <2>3
<1>13. \A j, k \in 0 .. n + 1 : Place(j) = Place(k) => j = k
  <2> SUFFICES ASSUME NEW j \in 0 .. n + 1, NEW k \in 0 .. n + 1, Place(j) = Place(k) PROVE j = k
    OBVIOUS
  <2> DEFINE h(m) == IF m = 0 THEN 1 ELSE IF m = n + 1 THEN 2 ELSE m + 2
  <2>1. \A m \in 0 .. n + 1 : Place(m) = Handout(h(m)) /\ h(m) \in Nat \ {0}
    BY <1>1, <1>3, <1>7, <1>10, <1>11
  <2>2. h(j) = h(k)
    <3> HIDE DEF h
    <3> QED BY <1>3, <2>1
  <2> QED BY <1>1, <2>2
<1>14. \A k \in 1 .. n : data[Place(k)] = Initial[k]
  BY <1>1, <1>8, <1>10
<1>15. \A k \in 0 .. n : next[Place(k)] = Place(k + 1)
  <2> TAKE k \in 0 .. n
  <2>1. k + 1 \in 0 .. n + 1 /\ k + 1 # 0 /\ k \in 0 .. n + 1
    BY <1>1
  <2>2. Place(k + 1) = at(k + 1)
    BY <1>10, <2>1
  <2>3. CASE k = 0
    BY <1>6, <1>10, <2>1, <2>2, <2>3
  <2>4. CASE k \in 1 .. n
    BY <1>8, <1>10, <2>1, <2>2, <2>4
  <2> QED BY <1>1, <2>3, <2>4
<1>16. DOMAIN data = Nodes /\ DOMAIN next = Nodes
  BY <1>4
<1> QED BY <1>2, <1>6, <1>9, <1>12, <1>13, <1>14, <1>15, <1>16 DEF n

LEMMA InitialOrder ==
    ASSUME Init
    PROVE  /\ InOrder
           /\ data \in [Nodes -> Values \cup {0, INT_MIN, INT_MAX}]
           /\ next \in [Nodes -> MarkedIndexes]
<1> DEFINE n == Len(Initial)
<1>1. /\ n \in Nat
      /\ \A i \in 1 .. n : Initial[i] \in Values
      /\ \A i, j \in 1 .. n : i < j => Initial[i] < Initial[j]
  BY InitialSorted
<1>2. /\ linked = {Place(k) : k \in 0 .. n + 1} /\ linked \subseteq Nodes
      /\ \A j, k \in 0 .. n + 1 : Place(j) = Place(k) => j = k
      /\ data[HEAD] = INT_MIN /\ data[TAIL] = INT_MAX /\ next[TAIL] = LL_SIZE
      /\ \A k \in 1 .. n : data[Place(k)] = Initial[k]
      /\ \A k \in 0 .. n : next[Place(k)] = Place(k + 1)
      /\ \A i \in Nodes \ linked : data[i] = 0 /\ next[i] = 0
      /\ DOMAIN data = Nodes /\ DOMAIN next = Nodes
  BY Places
<1> HIDE DEF n
<1>3. Place(0) = HEAD /\ Place(n + 1) = TAIL
  BY <1>1 DEF Place, n
<1>4. Values \subseteq Nat /\ \A v \in Values : INT_MIN < v /\ v < INT_MAX
  BY ListAssumption
<1>5. \A k \in 0 .. n + 1 : data[Place(k)] \in Nat /\ data[Place(k)] \in Values \cup {INT_MIN, INT_MAX}
                             /\ INT_MIN <= data[Place(k)] /\ data[Place(k)] <= INT_MAX
  <2> TAKE k \in 0 .. n + 1
  <2>1. CASE k = 0
    BY <1>2, <1>3, <2>1, Numbers
  <2>2. CASE k = n + 1
    BY <1>2, <1>3, <2>2, Numbers
  <2>3. CASE k \in 1 .. n
    <3>1. data[Place(k)] \in Values
      BY <1>1, <1>2, <2>3
    <3>2. /\ data[Place(k)] \in Nat /\ INT_MIN < data[Place(k)]
          /\ data[Place(k)] < INT_MAX
      BY <1>4, <3>1
    <3>3. INT_MIN \in Nat /\ INT_MAX \in Nat
      BY Numbers
    <3> QED BY <3>1, <3>2, <3>3
  <2> QED BY <1>1, <2>1, <2>2, <2>3
<1>6. ASSUME NEW j \in 0 .. n + 1, NEW k \in 0 .. n + 1, j < k
      PROVE  data[Place(j)] < data[Place(k)]
  <2>1. CASE j = 0 /\ k = n + 1
    BY <1>2, <1>3, <2>1, Numbers
  <2>2. CASE j = 0 /\ k \in 1 .. n
    BY <1>1, <1>2, <1>3, <1>4, <2>2
  <2>3. CASE j \in 1 .. n /\ k = n + 1
    BY <1>1, <1>2, <1>3, <1>4, <2>3
  <2>4. CASE j \in 1 .. n /\ k \in 1 .. n
    BY <1>1, <1>2, <1>6, <2>4
  <2> QED BY <1>1, <1>6, <2>1, <2>2, <2>3, <2>4
<1>7. \A k \in 0 .. n + 1 : Place(k) \in linked /\ Place(k) \in Nodes
  BY <1>2
<1>8. \A k \in 0 .. n : Unmark(next[Place(k)]) = Place(k + 1) /\ ~ IsMarked(next[Place(k)])
                         /\ next[Place(k)] \in MarkedIndexes
  <2> TAKE k \in 0 .. n
  <2>1. k + 1 \in 0 .. n + 1
    BY <1>1
  <2> QED BY <1>2, <1>7, <2>1, NodeIndex
<1>9. SortedList(next, data, linked)
  <2>1. HEAD \in linked /\ TAIL \in linked
    BY <1>1, <1>3, <1>7
  <2>2. \A i \in linked : INT_MIN <= data[i] /\ data[i] <= INT_MAX
    BY <1>2, <1>5
  <2>3. \A i, j \in linked : data[i] = data[j] => i = j
    <3> SUFFICES ASSUME NEW j \in 0 .. n + 1, NEW k \in 0 .. n + 1,
                        data[Place(j)] = data[Place(k)]
                 PROVE  j = k
      BY <1>2
    <3>1. ~ (j < k) /\ ~ (k < j)
      BY <1>5, <1>6
    <3> QED BY <1>1, <3>1
  <2>4. ASSUME NEW i \in linked \ {TAIL}
        PROVE  /\ Unmark(next[i]) \in linked /\ data[i] < data[Unmark(next[i])]
               /\ \A j \in linked : data[j] <= data[i] \/ data[Unmark(next[i])] <= data[j]
    <3>1. PICK k \in 0 .. n + 1 : i = Place(k)
      BY <1>2
    <3>2. k \in 0 .. n /\ k + 1 \in 0 .. n + 1
      BY <1>1, <1>3, <3>1
    <3>3. Unmark(next[i]) = Place(k + 1) /\ data[i] < data[Place(k + 1)]
      BY <1>6, <1>8, <3>1, <3>2
    <3>4. ASSUME NEW m \in 0 .. n + 1
          PROVE  data[Place(m)] <= data[i] \/ data[Place(k + 1)] <= data[Place(m)]
      <4>1. CASE m < k
        BY <1>5, <1>6, <3>1, <4>1
      <4>2. CASE m = k
        BY <1>5, <3>1, <4>2
      <4>3. CASE m = k + 1
        BY <1>5, <4>3
      <4>4. CASE k + 1 < m
        BY <1>5, <1>6, <3>2, <4>4
      <4> QED BY <1>1, <4>1, <4>2, <4>3, <4>4
    <3> QED BY <1>2, <1>7, <3>2, <3>3, <3>4
  <2> QED BY <1>2, <2>1, <2>2, <2>3, <2>4 DEF SortedList
<1>10. ~ IsMarked(next[HEAD])
  BY <1>1, <1>3, <1>8
<1>11. data \in [Nodes -> Values \cup {0, INT_MIN, INT_MAX}]
  <2>1. \A i \in Nodes : data[i] \in Values \cup {0, INT_MIN, INT_MAX}
    BY <1>2, <1>5
  <2>2. data = [i \in Nodes |-> data[i]]
    BY DEF Init
  <2> QED BY <2>1, <2>2
<1>12. next \in [Nodes -> MarkedIndexes]
  <2>1. 0 \in MarkedIndexes /\ LL_SIZE \in MarkedIndexes
    BY Numbers, NodeIndex, NoNode DEF HEAD
  <2>2. \A i \in Nodes : next[i] \in MarkedIndexes
    <3> TAKE i \in Nodes
    <3>1. CASE i \notin linked
      BY <1>2, <2>1, <3>1
    <3>2. CASE i \in linked
      <4>1. PICK k \in 0 .. n + 1 : i = Place(k)
        BY <1>2, <3>2
      <4>2. CASE k = n + 1
        BY <1>2, <1>3, <2>1, <4>1, <4>2
      <4>3. CASE k \in 0 .. n
        BY <1>8, <4>1, <4>3
      <4> QED BY <1>1, <4>2, <4>3
    <3> QED BY <3>1, <3>2
  <2>3. next = [i \in Nodes |-> next[i]]
    BY DEF Init
  <2> QED BY <2>2, <2>3
<1> QED BY <1>2, <1>9, <1>10, <1>11, <1>12 DEF InOrder

LEMMA InitListInv == Init => ListInv
<1> SUFFICES ASSUME Init PROVE ListInv
  OBVIOUS
<1> USE DEF Init, EbrInit
<1>1. \A t \in Threads : ebr_pc[t] = "out" /\ ~ InOp(t) /\ call[t] = Idle /\ pc[t] = "idle"
  BY DEF InOp
<1>2. ListTypeOK
  <2>1. EbrTypeOK
    <3>1. InitialNodes \in SUBSET Nodes
      BY InitialFits
    <3> QED BY <3>1, InitTypeOK
  <2>2. /\ data \in [Nodes -> Values \cup {0, INT_MIN, INT_MAX}]
        /\ next \in [Nodes -> MarkedIndexes]
    BY InitialOrder
  <2>3. /\ 0 \in Nodes /\ 0 \in MarkedIndexes /\ 0 \in Indexes
        /\ 0 \in 0 .. LL_SIZE \div WORD - 1
    BY Numbers, NodeIndex, Words DEF HEAD
  <2> QED BY <2>1, <2>2, <2>3 DEF ListTypeOK
<1>3. HeldReached /\ Traversable /\ Witnessed
  BY <1>1 DEF HeldReached, Traversable, Witnessed
<1>4. InOrder
  BY InitialOrder
<1>5. ASSUME NEW t \in Threads PROVE Local(t)
  BY <1>1
  DEF Local, Phase, Decided, Cleared, Owning, Walked, Found, Reclaiming, InOp, Searching,
      Adding, Removing
<1> QED BY <1>2, <1>3, <1>4, <1>5 DEF ListInv

------------------------------------------------------------------------------
(* The invariant holds.                                                     *)

LEMMA StepListInv == ListInv /\ EbrInv /\ EbrInv' /\ [Next]_vars => ListInv'
<1> SUFFICES ASSUME ListInv, EbrInv, EbrInv', [Next]_vars PROVE ListInv'
  OBVIOUS
<1>1. CASE UNCHANGED vars
  BY <1>1, StutterInv
<1>2. ASSUME NEW t \in Threads, Call(t) \/ Step(t) PROVE ListInv'
  <2>1. CASE Call(t)
    BY <2>1, CallInv
  <2>2. CASE Start(t) \/ End(t) \/ Return(t) \/ EbrStep(t)
    BY <2>2, StartInv, EndInv, ReturnInv, EbrStepInv
  <2>3. CASE SearchHead(t) \/ Walk(t) \/ Adjacent(t) \/ Unlink(t) \/ Check(t)
    BY <2>3, SearchHeadInv, WalkInv, AdjacentInv, UnlinkInv, CheckInv
  <2>4. CASE UnlinkFailed(t) \/ InsertFailed(t) \/ MarkFailed(t) \/ DeleteFailed(t)
    BY <2>4, FailedInv
  <2>5. CASE ReclaimNode(t) \/ ReclaimNext(t) \/ RetireRight(t)
    BY <2>5, ReclaimNodeInv, ReclaimNextInv, RetireRightInv
  <2>6. CASE FindBit(t) \/ FindNextWord(t) \/ OutOfMemory(t) \/ ClaimBit(t) \/ ClaimFailed(t)
    BY <2>6, FindBitInv, FindNextWordInv, OutOfMemoryInv, ClaimBitInv, ClaimFailedInv
  <2>7. CASE Insert(t) \/ Relink(t) \/ ReadNext(t) \/ Mark(t) \/ Delete(t) \/ Iterate(t)
    BY <2>7, InsertInv, RelinkInv, ReadNextInv, MarkInv, DeleteInv, IterateInv
  <2> QED BY <1>2, <2>1, <2>2, <2>3, <2>4, <2>5, <2>6, <2>7 DEF Step
<1> QED BY <1>1, <1>2 DEF Next, Finished

\* Between any two steps the nodes are in order, whatever a thread can have met
\* leads on to more of it and tells it no lies, and each thread is where the
\* code has it: for any number of threads, nodes, values and calls.
THEOREM ListInvariance == Spec => []ListInv
BY InitListInv, StepListInv, ListNodesSafe, PTL DEF Spec

\* Every variable keeps its type: no index that some thread follows or writes
\* leaves the array, and no marked index is taken for a node.
THEOREM ListTypeCorrect == Spec => []ListTypeOK
<1>1. ListInv => ListTypeOK
  BY DEF ListInv
<1> QED BY <1>1, ListInvariance, PTL

LEMMA InOrderLinked == ListTypeOK /\ InOrder => Linked
<1> SUFFICES ASSUME ListTypeOK, InOrder PROVE Linked
  OBVIOUS
<1>1. Reachable = linked
  BY SetIs
<1>2. /\ TAIL \in linked /\ ~ IsMarked(next[HEAD])
      /\ \A i \in linked \ {TAIL} : data[i] < data[Unmark(next[i])]
  BY DEF InOrder, SortedList
<1> QED BY <1>1, <1>2 DEF Linked

\* The nodes that can be reached are those of the list, in order, with the head
\* and the tail: no interleaving of insertions, marks and removals loses the
\* rest of the list, links a node twice or brings one back.
THEOREM AlwaysLinked == Spec => []Linked
<1>1. ListInv => Linked
  BY InOrderLinked DEF ListInv
<1> QED BY <1>1, ListInvariance, PTL

\* A thread follows and writes only indexes of nodes that cannot be handed out
\* again before its operation ends.
THEOREM OnlyHeldNodes == Spec => []HeldReached
<1>1. ListInv => HeldReached
  BY DEF ListInv
<1> QED BY <1>1, ListInvariance, PTL

------------------------------------------------------------------------------
(* What an unmarked node says.                                              *)

\* A value somebody finds in an unmarked node is in the set.
LEMMA Present ==
    ASSUME ListInv, EbrInv, NEW t \in Threads, InOp(t), NEW i \in reach[t],
           ~ IsMarked(next[i]), data[i] = call[t].val
    PROVE  "in" \in seen[t]
<1>1. i \in linked /\ i # HEAD /\ i # TAIL /\ call[t] # Idle
  BY Stand
<1>2. call[t].val \in Set
  BY <1>1, SetIs DEF ListInv, SetOf
<1> QED BY <1>1, <1>2, Met DEF Where

------------------------------------------------------------------------------
(* The steps that answer.                                                   *)

LEMMA ExitStep ==
    ASSUME ListInv, EbrInv, NEW t \in Threads, NEW from \in {"walk", "check"},
           Exit(t, from),
           UNCHANGED <<data, next, call, right_idx, new_elem, word, calls, seen, nodeVars>>,
           ~ IsMarked(next[cur[t]]),
           data[left[t]] < call[t].val, call[t].val <= data[cur[t]],
           call[t].val < data[cur[t]] => "out" \in seen[t]
    PROVE  AbstractSet!Answer(t) \/ UNCHANGED AbstractSet!setVars
<1> DEFINE present == data[cur[t]] = call[t].val
           no == right_idx[t] = 0 /\ (present <=> call[t].op = "add")
<1>1. pc[t] = from /\ Local(t) /\ InOp(t)
  BY DEF ListInv, Local, Phase, InOp, Searching, Exit, Goto
<1>2. /\ result[t] = IF right_idx[t] = 0 THEN "none" ELSE "yes"
      /\ call[t].op \in {"add", "remove"}
  BY <1>1 DEF Local, Decided, Phase, Searching
<1>3. Set' = Set /\ UNCHANGED <<call, seen>>
  BY DEF Set, Reachable
<1>4. cur[t] \in reach[t] /\ data[cur[t]] \in Nat /\ call[t].val \in Nat
  BY <1>1, Stand
<1>5. present => "in" \in seen[t]
  BY <1>1, <1>4, Present
<1>6. ~ present => "out" \in seen[t]
  BY <1>4
<1>7. result' = [result EXCEPT ![t] = IF no THEN "no" ELSE @]
  BY DEF Exit
<1> HIDE DEF present
<1>8. CASE no
  BY <1>2, <1>3, <1>5, <1>6, <1>7, <1>8 DEF AbstractSet!Answer, AbstractSet!Undecided
<1>9. CASE ~ no
  <2>1. result' = result
    BY <1>7, <1>9 DEF ListInv, ListTypeOK
  <2> QED BY <1>3, <2>1 DEF AbstractSet!setVars
<1> QED BY <1>8, <1>9

LEMMA AdjacentStep ==
    ASSUME ListInv, EbrInv, NEW t \in Threads, Adjacent(t)
    PROVE  AbstractSet!Answer(t) \/ UNCHANGED AbstractSet!setVars
<1>1. CASE IsMarked(next[cur[t]])
  BY <1>1 DEF Adjacent, Set, Reachable, AbstractSet!setVars
<1>2. CASE ~ IsMarked(next[cur[t]])
  BY <1>2, WalkDone, ExitStep DEF Adjacent
<1> QED BY <1>1, <1>2

LEMMA CheckStep ==
    ASSUME ListInv, EbrInv, NEW t \in Threads, Check(t)
    PROVE  AbstractSet!Answer(t) \/ UNCHANGED AbstractSet!setVars
<1>1. CASE IsMarked(next[cur[t]])
  BY <1>1 DEF Check, Set, Reachable, AbstractSet!setVars
<1>2. CASE ~ IsMarked(next[cur[t]])
  <2>1. Exit(t, "check") /\ UNCHANGED <<data, next, call, right_idx, new_elem,
                                        word, calls, seen, nodeVars>>
    BY <1>2 DEF Check
  <2>2. /\ data[left[t]] < call[t].val /\ call[t].val <= data[cur[t]]
        /\ call[t].val < data[cur[t]] => "out" \in seen[t]
    BY <2>1 DEF ListInv, Local, Found, Key, Exit, Goto
  <2> QED BY <1>2, <2>1, <2>2, ExitStep
<1> QED BY <1>1, <1>2

LEMMA IterateStep ==
    ASSUME ListInv, EbrInv, NEW t \in Threads, Iterate(t)
    PROVE  AbstractSet!Answer(t) \/ UNCHANGED AbstractSet!setVars
<1> DEFINE i == IF pc[t] = "first" THEN HEAD ELSE cur[t]
           n == next[i]
           found == data[i] >= call[t].val /\ ~ IsMarked(n)
<1>1. /\ pc[t] \in {"first", "iterate"} /\ Local(t)
      /\ Set' = Set /\ UNCHANGED <<call, seen>>
  BY DEF Iterate, ListInv, Set, Reachable
<1>2. call[t].op = "contains" /\ result[t] = "none"
  BY <1>1 DEF Local, Phase, Decided
<1>3. /\ InOp(t) /\ i \in reach[t]
      /\ call[t].val < data[i] => "out" \in seen[t]
      /\ data[i] < call[t].val \/ IsMarked(n) =>
             (call[t].val < data[Unmark(n)] => "out" \in seen[t])
  BY <1>1, Iterated
<1>4. /\ data[i] \in Nat /\ call[t].val \in Nat /\ call[t].val < data[TAIL]
  BY <1>3, Stand
<1>5. \/ /\ found \/ Unmark(n) = TAIL
         /\ result' = [result EXCEPT ![t] =
                           IF found /\ data[i] = call[t].val THEN "yes" ELSE "no"]
      \/ result' = result
  BY DEF Iterate
<1> HIDE DEF i, n
<1>6. CASE result' = result
  BY <1>1, <1>6 DEF AbstractSet!setVars
<1>7. ASSUME found, data[i] = call[t].val PROVE "in" \in seen[t]
  BY <1>3, <1>7, Present DEF n
<1>8. ASSUME found \/ Unmark(n) = TAIL, ~ (found /\ data[i] = call[t].val)
      PROVE  "out" \in seen[t]
  <2>1. CASE found
    BY <1>3, <1>4, <1>8, <2>1
  <2>2. CASE ~ found
    BY <1>3, <1>4, <1>8, <2>2
  <2> QED BY <2>1, <2>2
<1> HIDE DEF found
<1>9. CASE /\ found \/ Unmark(n) = TAIL
           /\ result' = [result EXCEPT ![t] =
                             IF found /\ data[i] = call[t].val THEN "yes" ELSE "no"]
  <2>1. CASE found /\ data[i] = call[t].val
    BY <1>1, <1>2, <1>7, <1>9, <2>1 DEF AbstractSet!Answer, AbstractSet!Undecided
  <2>2. CASE ~ (found /\ data[i] = call[t].val)
    BY <1>1, <1>2, <1>8, <1>9, <2>2 DEF AbstractSet!Answer, AbstractSet!Undecided
  <2> QED BY <2>1, <2>2
<1> QED BY <1>5, <1>6, <1>9

------------------------------------------------------------------------------
(* The steps that change the set.                                           *)

LEMMA InsertStep ==
    ASSUME ListInv, EbrInv, EbrInv', NEW t \in Threads, Insert(t)
    PROVE  AbstractSet!Update(t)
<1>1. call[t].val \notin Set /\ Set' = Set \cup {call[t].val}
  BY InsertInv DEF Key
<1>2. call[t].op = "add" /\ result[t] = "none"
  BY DEF ListInv, Local, Phase, Decided, Adding, Insert, Goto
<1>3. seen' = AbstractSet!Seeing(Set')
  BY DEF Insert, See, AbstractSet!Seeing, AbstractSet!Idle, AbstractSet!Where, Idle, Where
<1> QED BY <1>1, <1>2, <1>3 DEF Insert, AbstractSet!Update, AbstractSet!Undecided

LEMMA MarkStep ==
    ASSUME ListInv, EbrInv, NEW t \in Threads, Mark(t)
    PROVE  AbstractSet!Update(t)
<1>1. call[t].val \in Set /\ Set' = Set \ {call[t].val}
  BY MarkInv DEF Key
<1>2. call[t].op = "remove" /\ result[t] = "none"
  BY DEF ListInv, Local, Phase, Decided, Removing, Mark, Goto
<1>3. seen' = AbstractSet!Seeing(Set')
  BY DEF Mark, See, AbstractSet!Seeing, AbstractSet!Idle, AbstractSet!Where, Idle, Where
<1> QED BY <1>1, <1>2, <1>3 DEF Mark, AbstractSet!Update, AbstractSet!Undecided

------------------------------------------------------------------------------
(* The start and the end of a call, and all other steps.                    *)

LEMMA CallStep ==
    ASSUME ListInv, NEW t \in Threads, Call(t)
    PROVE  \E r \in Requests : AbstractSet!Call(t, r)
<1>1. Set' = Set
  BY DEF Call, Set, Reachable
<1>2. call[t] = Idle
  BY DEF Call, Goto, ListInv, Local, Phase
<1> QED
  BY <1>1, <1>2
  DEF Call, AbstractSet!Call, AbstractSet!Idle, AbstractSet!Where, Idle, Where

LEMMA ReturnStep ==
    ASSUME ListInv, NEW t \in Threads, Return(t)
    PROVE  AbstractSet!Return(t)
<1>1. Set' = Set
  BY DEF Return, Set, Reachable
<1>2. call[t] # Idle /\ result[t] # "none"
  BY DEF Return, Goto, ListInv, Local, Phase, Decided
<1> QED BY <1>1, <1>2 DEF Return, AbstractSet!Return, AbstractSet!Idle, Idle

LEMMA OtherStep ==
    ASSUME ListInv, EbrInv, EbrInv', NEW t \in Threads,
           Step(t), ~ Return(t), ~ Adjacent(t), ~ Check(t), ~ Iterate(t),
           ~ Insert(t), ~ Mark(t)
    PROVE  UNCHANGED AbstractSet!setVars
<1>1. UNCHANGED <<call, seen, result>>
  BY DEF Step, Start, End, EbrStep, Retiring, listVars, SearchHead, Walk, Unlink, UnlinkFailed,
         ReclaimNode, ReclaimNext, FindBit, FindNextWord, OutOfMemory, ClaimBit, ClaimFailed,
         InsertFailed, Relink, ReadNext, MarkFailed, Delete, DeleteFailed, RetireRight
<1>2. CASE UNCHANGED <<data, next>>
  BY <1>1, <1>2 DEF Set, Reachable, AbstractSet!setVars
<1>3. CASE Unlink(t) \/ Delete(t) \/ ClaimBit(t) \/ Relink(t)
  BY <1>1, <1>3, UnlinkInv, DeleteInv, ClaimBitInv, RelinkInv DEF AbstractSet!setVars
<1>4. UNCHANGED <<data, next>> \/ Unlink(t) \/ Delete(t) \/ ClaimBit(t) \/ Relink(t)
  BY DEF Step, Start, End, EbrStep, Retiring, listVars, SearchHead, Walk, UnlinkFailed,
         ReclaimNode, ReclaimNext, FindBit, FindNextWord, OutOfMemory, ClaimFailed,
         InsertFailed, ReadNext, MarkFailed, DeleteFailed, RetireRight
<1> QED BY <1>2, <1>3, <1>4

------------------------------------------------------------------------------
\* The list is a linearizable set: every add() and remove() that changes it
\* does so at one instant of its call, and every other answer was true of the
\* value at some instant of the call, however the threads interleave and
\* whatever nodes are handed out again in between.
THEOREM ListRefinement == Spec => ImplementsSet
<1>1. Init => AbstractSet!LinearSetInit
  BY DEF Init, AbstractSet!LinearSetInit, AbstractSet!Idle, Idle
<1>2. ListInv /\ EbrInv /\ EbrInv' /\ [Next]_vars
      => [AbstractSet!LinearSetNext]_(AbstractSet!setVars)
  <2> SUFFICES ASSUME ListInv, EbrInv, EbrInv', [Next]_vars
               PROVE  [AbstractSet!LinearSetNext]_(AbstractSet!setVars)
    OBVIOUS
  <2>1. CASE UNCHANGED vars
    BY <2>1 DEF vars, listVars, Set, Reachable, AbstractSet!setVars
  <2>2. ASSUME NEW t \in Threads, Call(t)
        PROVE  [AbstractSet!LinearSetNext]_(AbstractSet!setVars)
    BY <2>2, CallStep DEF AbstractSet!LinearSetNext
  <2>3. ASSUME NEW t \in Threads, Step(t)
        PROVE  [AbstractSet!LinearSetNext]_(AbstractSet!setVars)
    <3>1. CASE Adjacent(t) \/ Check(t) \/ Iterate(t)
      BY <3>1, AdjacentStep, CheckStep, IterateStep DEF AbstractSet!LinearSetNext
    <3>2. CASE Insert(t) \/ Mark(t)
      BY <3>2, InsertStep, MarkStep DEF AbstractSet!LinearSetNext
    <3>3. CASE Return(t)
      BY <3>3, ReturnStep DEF AbstractSet!LinearSetNext
    <3> QED BY <2>3, <3>1, <3>2, <3>3, OtherStep
  <2> QED BY <2>1, <2>2, <2>3 DEF Next, Finished
<1> QED
  BY <1>1, <1>2, ListInvariance, ListNodesSafe, PTL
  DEF Spec, ImplementsSet, AbstractSet!LinearSetSpec
===============================================================================
