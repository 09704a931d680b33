--------------------------- MODULE HarrisListProofs ---------------------------
(***************************************************************************)
(* HarrisList for any number of threads, nodes, values and calls: it uses  *)
(* its nodes as Ebr expects, so that what EbrProofs proves holds of it.    *)
(***************************************************************************)
EXTENDS HarrisListInv, EbrProofs, FiniteSetTheorems

------------------------------------------------------------------------------
(* Indexes with and without a mark.                                         *)

LEMMA Numbers ==
    /\ LL_SIZE \in Nat /\ LL_SIZE >= 2 /\ MARK \in Nat /\ LL_SIZE < MARK
    /\ \A i : i \in Nodes <=> i \in Nat /\ i < LL_SIZE
    /\ HEAD \in Nodes /\ TAIL \in Nodes /\ HEAD # TAIL
    /\ INT_MIN \in Nat /\ INT_MAX \in Nat /\ INT_MIN < INT_MAX
<1>1. LL_SIZE \in Nat /\ LL_SIZE >= 2 /\ MARK \in Nat /\ LL_SIZE < MARK
  BY EbrAssumption, ListAssumption
<1>2. \A i : i \in Nodes <=> i \in Nat /\ i < LL_SIZE
  BY <1>1 DEF Nodes
<1>3. INT_MIN \in Nat /\ INT_MAX \in Nat /\ INT_MIN < INT_MAX
  BY ListAssumption
<1> QED BY <1>1, <1>2, <1>3 DEF HEAD, TAIL

LEMMA NodeIndex ==
    ASSUME NEW i \in Nodes
    PROVE  /\ i \in Nat /\ i # LL_SIZE /\ i \in Indexes /\ i \in MarkedIndexes
           /\ ~ IsMarked(i) /\ Unmark(i) = i
           /\ i + MARK \in MarkedIndexes /\ IsMarked(i + MARK) /\ Unmark(i + MARK) = i
BY Numbers DEF Indexes, MarkedIndexes, IsMarked, Unmark

LEMMA NoNode ==
    /\ LL_SIZE \notin Nodes /\ LL_SIZE \in Indexes /\ LL_SIZE \in MarkedIndexes
    /\ ~ IsMarked(LL_SIZE) /\ Unmark(LL_SIZE) = LL_SIZE
BY Numbers DEF Indexes, MarkedIndexes, IsMarked, Unmark

LEMMA AnyIndex ==
    ASSUME NEW x \in MarkedIndexes
    PROVE  /\ Unmark(x) \in Nodes \/ x = LL_SIZE
           /\ IsMarked(x) => Unmark(x) \in Nodes /\ x = Unmark(x) + MARK
           /\ ~ IsMarked(x) => Unmark(x) = x /\ x \in Indexes
BY Numbers DEF Indexes, MarkedIndexes, IsMarked, Unmark

------------------------------------------------------------------------------
(* What can be reached: induction along the path from the head.             *)

\* The sets 1 .. n are finite, and inclusion is well-founded on finite sets.
LEMMA Least ==
    ASSUME NEW T, T \subseteq Nat, T # {}
    PROVE  \E m \in T : \A n \in T : m <= n
<1> DEFINE Below == {1 .. n : n \in T}
           R == StrictSubsetOrdering(Nat)
<1>1. IsWellFoundedOn(R, FiniteSubsetsOf(Nat))
  BY FS_StrictSubsetOrderingWellFounded
<1>2. Below \subseteq FiniteSubsetsOf(Nat)
  BY FS_Interval DEF FiniteSubsetsOf
<1>3. \E x \in Below : \A y \in Below : ~ (<<y, x>> \in R)
  <2>1. Below # {}
    OBVIOUS
  <2> HIDE DEF Below, R
  <2> QED BY <1>1, <1>2, <2>1, WFMin
<1>4. PICK m \in T : \A n \in T : ~ (<<1 .. n, 1 .. m>> \in R)
  BY <1>3
<1>5. ASSUME NEW n \in T, n < m PROVE <<1 .. n, 1 .. m>> \in R
  <2>1. 1 .. n \subseteq 1 .. m /\ m \in 1 .. m /\ m \notin 1 .. n
    BY <1>5
  <2>2. 1 .. n # 1 .. m
    BY <2>1
  <2> QED BY <2>1, <2>2 DEF StrictSubsetOrdering
<1>6. \A n \in T : ~ (n < m)
  BY <1>4, <1>5
<1> HIDE DEF Below, R
<1>7. \A n \in T : m <= n
  BY <1>6
<1> QED BY <1>7

LEMMA Induction ==
    ASSUME NEW S, 0 \in S, \A n \in Nat : n \in S => n + 1 \in S
    PROVE  Nat \subseteq S
<1> SUFFICES ASSUME ~ (Nat \subseteq S) PROVE FALSE
  OBVIOUS
<1> DEFINE T == Nat \ S
<1>1. PICK m \in T : \A n \in T : m <= n
  BY Least
<1>2. m # 0 /\ m - 1 \in Nat /\ m - 1 \notin T
  BY <1>1
<1> QED BY <1>2

NextOnPath(nx, i) == IF i = TAIL THEN TAIL ELSE Unmark(nx[i])
IsPath(nx, f, n) ==
    f = [k \in 0 .. n |-> IF k = 0 THEN HEAD ELSE NextOnPath(nx, f[k - 1])]

LEMMA PathExists ==
    ASSUME NEW nx, NEW n \in Nat
    PROVE  \E f : IsPath(nx, f, n)
<1> DEFINE S == {k \in Nat : \E f : IsPath(nx, f, k)}
<1>1. 0 \in S
  <2> DEFINE f == [k \in 0 .. 0 |-> HEAD]
  <2>1. f = [k \in 0 .. 0 |-> IF k = 0 THEN HEAD ELSE NextOnPath(nx, f[k - 1])]
    OBVIOUS
  <2>2. IsPath(nx, f, 0)
    BY <2>1 DEF IsPath
  <2> QED BY <2>2
<1>2. ASSUME NEW m \in Nat, m \in S PROVE m + 1 \in S
  <2>1. PICK f : IsPath(nx, f, m)
    BY <1>2
  <2> DEFINE g == [k \in 0 .. m + 1 |->
                      IF k = m + 1 THEN NextOnPath(nx, f[m]) ELSE f[k]]
  <2>2. /\ f[0] = HEAD
        /\ \A k \in 1 .. m : f[k] = NextOnPath(nx, f[k - 1])
    BY <2>1 DEF IsPath
  <2>3. \A k \in 0 .. m + 1 : g[k] = IF k = 0 THEN HEAD ELSE NextOnPath(nx, g[k - 1])
    BY <2>2
  <2>4. g = [k \in 0 .. m + 1 |-> IF k = 0 THEN HEAD ELSE NextOnPath(nx, g[k - 1])]
    BY <2>3
  <2>5. IsPath(nx, g, m + 1)
    BY <2>4 DEF IsPath
  <2> QED BY <2>5
<1> HIDE DEF S
<1>3. n \in S
  BY <1>1, <1>2, Induction
<1> QED BY <1>3 DEF S

\* Path is what its recursive definition says.
LEMMA PathDef ==
    ASSUME NEW nx
    PROVE  /\ Path(nx)[0] = HEAD
           /\ \A k \in Nat : k + 1 \in Nodes => Path(nx)[k + 1] = NextOnPath(nx, Path(nx)[k])
<1>1. LL_SIZE - 1 \in Nat /\ Nodes = 0 .. LL_SIZE - 1 /\ 0 \in Nodes
  BY Numbers DEF Nodes, HEAD
<1>2. \E f : IsPath(nx, f, LL_SIZE - 1)
  BY <1>1, PathExists
<1>3. IsPath(nx, CHOOSE f : IsPath(nx, f, LL_SIZE - 1), LL_SIZE - 1)
  BY <1>2, Zenon
<1>4. Path(nx) = CHOOSE f : IsPath(nx, f, LL_SIZE - 1)
  BY DEF Path, IsPath, Nodes, NextOnPath
<1>5. IsPath(nx, Path(nx), LL_SIZE - 1)
  BY <1>3, <1>4
<1>6. Path(nx) = [k \in Nodes |-> IF k = 0 THEN HEAD ELSE NextOnPath(nx, Path(nx)[k - 1])]
  BY <1>5, <1>1 DEF IsPath
<1>7. ASSUME NEW k \in Nat, k + 1 \in Nodes
      PROVE  Path(nx)[k + 1] = NextOnPath(nx, Path(nx)[k])
  <2>1. k + 1 # 0 /\ (k + 1) - 1 = k
    OBVIOUS
  <2> QED BY <1>6, <1>7, <2>1
<1> QED BY <1>1, <1>6, <1>7

\* The nodes of a list in order are those one comes by, from the head on: the
\* keys grow, no node is passed, and there is no room for more steps.
LEMMA SortedIsReachable ==
    ASSUME NEW nx, NEW dt \in [Nodes -> Nat], NEW L \in SUBSET Nodes,
           SortedList(nx, dt, L)
    PROVE  ReachableBy(nx) = L
<1> DEFINE p == Path(nx)
<1>0. /\ 0 \in Nodes
      /\ \A k \in Nat : k + 1 \in Nodes => k \in Nodes
      /\ Nodes \subseteq Nat
      /\ \A i \in L : dt[i] \in Nat
  BY Numbers DEF HEAD
<1>1. p[0] = HEAD /\ \A k \in Nat : k + 1 \in Nodes => p[k + 1] = NextOnPath(nx, p[k])
  BY PathDef
<1> HIDE DEF p
<1>4. /\ HEAD \in L /\ TAIL \in L
      /\ \A i \in L : dt[i] <= dt[TAIL] /\ dt[HEAD] <= dt[i]
      /\ \A i, j \in L : dt[i] = dt[j] => i = j
      /\ \A i \in L \ {TAIL} : /\ NextOnPath(nx, i) \in L
                               /\ dt[i] < dt[NextOnPath(nx, i)]
                               /\ \A j \in L : dt[j] <= dt[i] \/ dt[NextOnPath(nx, i)] <= dt[j]
      /\ NextOnPath(nx, TAIL) = TAIL
  BY DEF SortedList, NextOnPath
<1>2. \A k \in Nodes : p[k] \in L
  <2> DEFINE S == {k \in Nat : k \in Nodes => p[k] \in L}
  <2>1. 0 \in S
    BY <1>1, <1>4
  <2>2. ASSUME NEW k \in Nat, k \in S PROVE k + 1 \in S
    <3> SUFFICES ASSUME k + 1 \in Nodes PROVE p[k + 1] \in L
      OBVIOUS
    <3>1. p[k] \in L /\ p[k + 1] = NextOnPath(nx, p[k])
      BY <1>0, <1>1, <2>2
    <3> QED BY <3>1, <1>4
  <2> HIDE DEF S
  <2>3. Nat \subseteq S
    BY <2>1, <2>2, Induction
  <2> QED BY <1>0, <2>3 DEF S
<1>3. ASSUME NEW j \in L, \A k \in Nodes : p[k] # j PROVE FALSE
  <2> DEFINE S == {k \in Nat : k \in Nodes => dt[p[k]] < dt[j]}
  <2>1. 0 \in S
    BY <1>0, <1>1, <1>3, <1>4
  <2>2. ASSUME NEW k \in Nat, k \in S PROVE k + 1 \in S
    <3> SUFFICES ASSUME k + 1 \in Nodes PROVE dt[p[k + 1]] < dt[j]
      OBVIOUS
    <3>1. k \in Nodes /\ p[k] \in L /\ dt[p[k]] < dt[j] /\ p[k + 1] \in L /\ p[k + 1] # j
      BY <1>0, <1>2, <1>3, <2>2
    <3>2. p[k] # TAIL
      BY <3>1, <1>4, <1>0
    <3>3. dt[j] <= dt[p[k]] \/ dt[p[k + 1]] <= dt[j]
      BY <1>1, <3>1, <3>2, <1>4
    <3>4. dt[p[k + 1]] # dt[j]
      BY <3>1, <1>4
    <3>5. dt[p[k + 1]] \in Nat /\ dt[j] \in Nat /\ dt[p[k]] \in Nat
      BY <3>1, <1>0
    <3> QED BY <3>1, <3>3, <3>4, <3>5
  <2> HIDE DEF S
  <2>3. Nat \subseteq S
    BY <2>1, <2>2, Induction
  <2>4. \A k \in Nodes : dt[p[k]] < dt[j]
    BY <1>0, <2>3 DEF S
  <2>5. ASSUME NEW k \in Nat, k + 1 \in Nodes PROVE dt[p[k]] < dt[p[k + 1]]
    <3>1. k \in Nodes /\ p[k] \in L /\ dt[p[k]] < dt[j]
      BY <1>0, <1>2, <2>4, <2>5
    <3>2. p[k] # TAIL
      BY <3>1, <1>4, <1>0
    <3> QED BY <1>1, <2>5, <3>1, <3>2, <1>4
  <2>6. ASSUME NEW a \in Nodes PROVE \A b \in Nodes : a < b => dt[p[a]] < dt[p[b]]
    <3> DEFINE U == {b \in Nat : b \in Nodes => (a < b => dt[p[a]] < dt[p[b]])}
    <3>1. 0 \in U
      BY <1>0
    <3>2. ASSUME NEW b \in Nat, b \in U PROVE b + 1 \in U
      <4> SUFFICES ASSUME b + 1 \in Nodes, a < b + 1 PROVE dt[p[a]] < dt[p[b + 1]]
        OBVIOUS
      <4>1. b \in Nodes /\ dt[p[b]] < dt[p[b + 1]]
        BY <1>0, <2>5
      <4>2. dt[p[a]] \in Nat /\ dt[p[b]] \in Nat /\ dt[p[b + 1]] \in Nat
        BY <1>0, <1>2, <4>1
      <4>3. CASE a = b
        BY <4>1, <4>3
      <4>4. CASE a < b
        BY <3>2, <4>1, <4>2, <4>4
      <4>5. a \in Nat
        BY <1>0
      <4> QED BY <4>3, <4>4, <4>5
    <3> HIDE DEF U
    <3>3. Nat \subseteq U
      BY <3>1, <3>2, Induction
    <3> QED BY <1>0, <3>3 DEF U
  <2>7. ASSUME NEW a \in Nodes, NEW b \in Nodes, p[a] = p[b] PROVE a = b
    <3>1. dt[p[a]] \in Nat /\ dt[p[a]] = dt[p[b]] /\ a \in Nat /\ b \in Nat
      BY <1>0, <1>2, <2>7
    <3>2. ~ (a < b) /\ ~ (b < a)
      BY <2>6, <3>1
    <3> QED BY <3>1, <3>2
  <2> DEFINE f == [k \in Nodes |-> p[k]]
  <2>8. f \in [Nodes -> Nodes \ {j}]
    BY <1>2, <1>3
  <2>9. IsFiniteSet(Nodes) /\ Cardinality(Nodes) = LL_SIZE
    BY Numbers, FS_Interval DEF Nodes
  <2>10. IsFiniteSet(Nodes \ {j}) /\ Cardinality(Nodes \ {j}) = LL_SIZE - 1
    BY <2>9, FS_RemoveElement
  <2>11. \E x, y \in Nodes : x # y /\ f[x] = f[y]
    <3> HIDE DEF f
    <3>1. Cardinality(Nodes \ {j}) < Cardinality(Nodes)
      BY <2>9, <2>10, Numbers
    <3> QED BY <2>8, <2>9, <2>10, <3>1, FS_PigeonHole
  <2> QED BY <2>7, <2>11
<1> QED BY <1>2, <1>3 DEF ReachableBy, p

------------------------------------------------------------------------------
(* The list as a user of its nodes.                                          *)

\* What the list does with a node it may do in Ebr, whichever node it is.
LEMMA UseIsEbr ==
    ASSUME EbrTypeOK, NEW t \in Threads
    PROVE  /\ StartLoad(t) \/ StartStore(t) \/ EndOp(t) \/ RetireStep(t) => EbrNext
           /\ \A n : Retire(t, n) \/ Claim(t, n) \/ Publish(t, n) \/ Discard(t, n) => EbrNext
           /\ \A S : Detach(t, S) => EbrNext
<1>1. \A n : Retire(t, n) \/ Claim(t, n) \/ Publish(t, n) \/ Discard(t, n) => n \in Nodes
  BY DEF EbrTypeOK, Retire, Claim, Publish, Discard
<1>2. \A S : Detach(t, S) => S \in SUBSET Nodes
  BY DEF EbrTypeOK, Detach
<1> QED BY <1>1, <1>2 DEF EbrNext

\* Each step of the list is one of Ebr, or leaves the nodes alone.
LEMMA StepIsEbr ==
    ASSUME EbrTypeOK, NEW t \in Threads, Call(t) \/ Step(t)
    PROVE  EbrNext \/ UNCHANGED nodeVars
<1> USE UseIsEbr
<1>1. CASE Call(t)          BY <1>1 DEF Call
<1>2. CASE Start(t)         BY <1>2 DEF Start
<1>3. CASE End(t)           BY <1>3 DEF End
<1>4. CASE Return(t)        BY <1>4 DEF Return
<1>5. CASE EbrStep(t)       BY <1>5 DEF EbrStep, RetireStep
<1>6. CASE SearchHead(t)    BY <1>6 DEF SearchHead
<1>7. CASE Walk(t)          BY <1>7 DEF Walk
<1>8. CASE Adjacent(t)      BY <1>8 DEF Adjacent
<1>9. CASE Unlink(t)        BY <1>9 DEF Unlink
<1>10. CASE UnlinkFailed(t) BY <1>10 DEF UnlinkFailed
<1>11. CASE ReclaimNode(t)  BY <1>11 DEF ReclaimNode
<1>12. CASE ReclaimNext(t)  BY <1>12 DEF ReclaimNext
<1>13. CASE Check(t)        BY <1>13 DEF Check
<1>14. CASE FindBit(t)      BY <1>14 DEF FindBit
<1>15. CASE FindNextWord(t) BY <1>15 DEF FindNextWord
<1>16. CASE OutOfMemory(t)  BY <1>16 DEF OutOfMemory
<1>17. CASE ClaimBit(t)     BY <1>17 DEF ClaimBit
<1>18. CASE ClaimFailed(t)  BY <1>18 DEF ClaimFailed
<1>19. CASE Insert(t)       BY <1>19 DEF Insert
<1>20. CASE InsertFailed(t) BY <1>20 DEF InsertFailed
<1>21. CASE Relink(t)       BY <1>21 DEF Relink
<1>22. CASE ReadNext(t)     BY <1>22 DEF ReadNext
<1>23. CASE Mark(t)         BY <1>23 DEF Mark
<1>24. CASE MarkFailed(t)   BY <1>24 DEF MarkFailed
<1>25. CASE Delete(t)       BY <1>25 DEF Delete
<1>26. CASE DeleteFailed(t) BY <1>26 DEF DeleteFailed
<1>27. CASE RetireRight(t)  BY <1>27 DEF RetireRight
<1>28. CASE Iterate(t)      BY <1>28 DEF Iterate
<1> QED
  BY <1>1, <1>2, <1>3, <1>4, <1>5, <1>6, <1>7, <1>8, <1>9, <1>10, <1>11, <1>12,
     <1>13, <1>14, <1>15, <1>16, <1>17, <1>18, <1>19, <1>20, <1>21, <1>22, <1>23,
     <1>24, <1>25, <1>26, <1>27, <1>28
  DEF Step

\* add(), remove() and contains() claim, publish, take out, retire and discard
\* nodes only as the reclamation allows: the list is one of its users.
THEOREM ListUsesEbr == Spec => EbrSpec
<1>1. Init => \E S \in SUBSET Nodes : EbrInit(S)
  BY InitialFits DEF Init
<1>2. (\E S \in SUBSET Nodes : EbrInit(S)) => EbrTypeOK
  BY InitTypeOK
<1>3. EbrTypeOK /\ [Next]_vars => [EbrNext]_nodeVars
  BY StepIsEbr DEF Next, Finished, vars
<1>4. EbrTypeOK /\ [EbrNext]_nodeVars => EbrTypeOK'
  BY StepTypeOK
<1> QED BY <1>1, <1>2, <1>3, <1>4, PTL DEF Spec, EbrSpec

\* No thread of the list ever stands on a node that was given back, and
\* every node has one owner (ebr.h:182, linkedlist.c).
THEOREM ListNodesSafe == Spec => [](EbrInv /\ Protected /\ NodeOwners)
BY ListUsesEbr, EbrInvariance, NeverReusedUnderAThread, OneOwner, PTL
===============================================================================
