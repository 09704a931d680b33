------------------------- MODULE QueueRecoveryProofs -------------------------
(***************************************************************************)
(* QueueRecovery for any number of threads, any ring size, any items, any  *)
(* number of operations, and crashes at any moment: recover() leaves no    *)
(* gap below head_ and gives out no ticket.                                *)
(***************************************************************************)
EXTENDS QueueRecoveryInv, LockFreeQueueProofs, FiniteSetTheorems

------------------------------------------------------------------------------
(* Sorting: Sorted() returns what its definition asks for.                  *)

LEMMA LeastNumber ==
    ASSUME NEW T, T \subseteq Nat, T # {}
    PROVE  \E m \in T : \A n \in T : m <= n
<1> DEFINE Below == {1 .. n : n \in T}
           R == StrictSubsetOrdering(Nat)
<1>1. IsWellFoundedOn(R, FiniteSubsetsOf(Nat))
  BY FS_StrictSubsetOrderingWellFounded
<1>2. Below \subseteq FiniteSubsetsOf(Nat)
  BY FS_Interval DEF FiniteSubsetsOf
<1>3. \E x \in Below : \A y \in Below : ~ (<<y, x>> \in R)
  <2>1. Below # {}
    OBVIOUS
  <2> HIDE DEF Below, R
  <2> QED BY <1>1, <1>2, <2>1, WFMin
<1>4. PICK m \in T : \A n \in T : ~ (<<1 .. n, 1 .. m>> \in R)
  BY <1>3
<1>5. ASSUME NEW n \in T, n < m PROVE <<1 .. n, 1 .. m>> \in R
  <2>1. 1 .. n \subseteq 1 .. m /\ m \in 1 .. m /\ m \notin 1 .. n
    BY <1>5
  <2>2. 1 .. n # 1 .. m
    BY <2>1
  <2> QED BY <2>1, <2>2 DEF StrictSubsetOrdering
<1>6. \A n \in T : ~ (n < m)
  BY <1>4, <1>5
<1> HIDE DEF Below, R
<1> QED BY <1>6

LEMMA NatInductive ==
    ASSUME NEW S, 0 \in S, \A n \in Nat : n \in S => n + 1 \in S
    PROVE  Nat \subseteq S
<1> SUFFICES ASSUME ~ (Nat \subseteq S) PROVE FALSE
  OBVIOUS
<1> DEFINE T == Nat \ S
<1>1. PICK m \in T : \A n \in T : m <= n
  BY LeastNumber
<1>2. m # 0 /\ m - 1 \in Nat /\ m - 1 \notin T
  BY <1>1
<1> QED BY <1>2

\* Of finitely many pairs one comes before all others.
LEMMA FirstPair ==
    ASSUME NEW S \in SUBSET Pairs, S # {}
    PROVE  \E e \in S : \A d \in S \ {e} : PairLess(e, d)
<1>0. \A e \in S : e[1] \in Nat /\ e[2] \in Nat /\ e = <<e[1], e[2]>>
  BY DEF Pairs
<1> DEFINE Firsts == {e[1] : e \in S}
<1>1. PICK a \in Firsts : \A n \in Firsts : a <= n
  <2>1. Firsts \subseteq Nat /\ Firsts # {}
    BY <1>0
  <2> HIDE DEF Firsts
  <2> QED BY <2>1, LeastNumber
<1> DEFINE Seconds == {e[2] : e \in {d \in S : d[1] = a}}
<1>2. PICK b \in Seconds : \A n \in Seconds : b <= n
  <2>1. Seconds \subseteq Nat /\ Seconds # {}
    BY <1>0, <1>1
  <2> HIDE DEF Seconds
  <2> QED BY <2>1, LeastNumber
<1>3. PICK e \in S : e[1] = a /\ e[2] = b
  BY <1>2
<1>4. ASSUME NEW d \in S, d # e PROVE PairLess(e, d)
  <2>1. a <= d[1] /\ (d[1] = a => b <= d[2])
    BY <1>1, <1>2, <1>4
  <2>2. ~ (d[1] = a /\ d[2] = b)
    BY <1>0, <1>3, <1>4
  <2> QED BY <1>0, <1>3, <2>1, <2>2 DEF PairLess
<1> QED BY <1>4

\* s lists the n pairs of S in ascending order.
SortedList(s, n, S) ==
    /\ s \in [1 .. n -> S]
    /\ \A k, m \in 1 .. n : k < m => PairLess(s[k], s[m])

LEMMA SortedExists ==
    ASSUME NEW n \in Nat, NEW S \in SUBSET Pairs, IsFiniteSet(S), Cardinality(S) = n
    PROVE  \E s : SortedList(s, n, S)
<1> DEFINE OK == {m \in Nat : \A T \in SUBSET Pairs :
                    IsFiniteSet(T) /\ Cardinality(T) = m => \E s : SortedList(s, m, T)}
<1>1. 0 \in OK
  <2>1. ASSUME NEW T \in SUBSET Pairs PROVE SortedList([k \in 1 .. 0 |-> 0], 0, T)
    BY DEF SortedList
  <2> QED BY <2>1
<1>2. ASSUME NEW m \in Nat, m \in OK PROVE m + 1 \in OK
  <2> SUFFICES ASSUME NEW T \in SUBSET Pairs, IsFiniteSet(T), Cardinality(T) = m + 1
               PROVE  \E s : SortedList(s, m + 1, T)
    OBVIOUS
  <2>1. T # {}
    BY FS_EmptySet
  <2>2. PICK e \in T : \A d \in T \ {e} : PairLess(e, d)
    BY <2>1, FirstPair
  <2>3. IsFiniteSet(T \ {e}) /\ Cardinality(T \ {e}) = m
    <3>1. IsFiniteSet(T \ {e}) /\ Cardinality(T \ {e}) = Cardinality(T) - 1
      BY FS_RemoveElement
    <3> QED BY <3>1
  <2>4. PICK s : SortedList(s, m, T \ {e})
    BY <1>2, <2>3
  <2> DEFINE t == [k \in 1 .. m + 1 |-> IF k = 1 THEN e ELSE s[k - 1]]
  <2>5. \A k \in 2 .. m + 1 : k - 1 \in 1 .. m /\ s[k - 1] \in T \ {e} /\ t[k] = s[k - 1]
    BY <2>4 DEF SortedList
  <2>6. t \in [1 .. m + 1 -> T]
    <3>1. \A k \in 1 .. m + 1 : k = 1 \/ k \in 2 .. m + 1
      OBVIOUS
    <3>2. \A k \in 1 .. m + 1 : (IF k = 1 THEN e ELSE s[k - 1]) \in T
      BY <2>5, <3>1
    <3> QED BY <3>2
  <2>7. ASSUME NEW k \in 1 .. m + 1, NEW l \in 1 .. m + 1, k < l
        PROVE  PairLess(t[k], t[l])
    <3>1. l \in 2 .. m + 1 /\ (k = 1 \/ k \in 2 .. m + 1)
      BY <2>7
    <3>2. CASE k = 1
      BY <2>2, <2>5, <3>1, <3>2
    <3>3. CASE k \in 2 .. m + 1
      <4>1. k - 1 < l - 1
        BY <2>7, <3>1
      <4>2. PairLess(s[k - 1], s[l - 1])
        BY <2>4, <2>5, <3>1, <3>3, <4>1 DEF SortedList
      <4> QED BY <2>5, <3>1, <3>3, <4>2
    <3> QED BY <3>1, <3>2, <3>3
  <2> HIDE DEF t
  <2>8. SortedList(t, m + 1, T)
    BY <2>6, <2>7 DEF SortedList
  <2> QED BY <2>8
<1> HIDE DEF OK
<1>3. Nat \subseteq OK
  BY <1>1, <1>2, NatInductive
<1> QED BY <1>3 DEF OK

\* What a sorted list of a set of pairs has: every pair, once, in order.
LEMMA SortedIs ==
    ASSUME NEW S \in SUBSET Pairs, IsFiniteSet(S)
    PROVE  /\ Cardinality(S) \in Nat
           /\ Sorted(S) \in Seq(S) /\ Len(Sorted(S)) = Cardinality(S)
           /\ DOMAIN Sorted(S) = 1 .. Cardinality(S)
           /\ \A k, m \in DOMAIN Sorted(S) : k < m => PairLess(Sorted(S)[k], Sorted(S)[m])
           /\ \A e \in S : \E m \in DOMAIN Sorted(S) : Sorted(S)[m] = e
<1> DEFINE n == Cardinality(S)
           s == Sorted(S)
<1>1. n \in Nat
  BY FS_CardinalityType
<1>2. \E t \in [1 .. n -> S] : \A k, m \in 1 .. n : k < m => PairLess(t[k], t[m])
  BY <1>1, SortedExists DEF SortedList
<1>3. s \in [1 .. n -> S] /\ \A k, m \in 1 .. n : k < m => PairLess(s[k], s[m])
  <2> HIDE DEF n
  <2>1. Sorted(S) = CHOOSE t \in [1 .. n -> S] :
                       \A k, m \in 1 .. n : k < m => PairLess(t[k], t[m])
    BY DEF Sorted, n
  <2> QED BY <1>2, <2>1
<1> HIDE DEF n, s
<1>4. s \in Seq(S) /\ Len(s) = n /\ DOMAIN s = 1 .. n
  BY <1>1, <1>3
<1>5. ASSUME NEW k \in 1 .. n, NEW m \in 1 .. n, s[k] = s[m] PROVE k = m
  <2>1. s[k] \in Pairs
    BY <1>3
  <2>2. s[k][1] \in Nat /\ s[k][2] \in Nat
    BY <2>1 DEF Pairs
  <2>3. ~ PairLess(s[k], s[m]) /\ ~ PairLess(s[m], s[k])
    BY <1>5, <2>2 DEF PairLess
  <2> QED BY <1>1, <1>3, <2>3
<1>6. s \in Injection(1 .. n, S)
  BY <1>3, <1>5 DEF Injection, IsInjective
<1>7. Cardinality(1 .. n) = n
  BY <1>1, FS_Interval
<1>8. s \in Surjection(1 .. n, S)
  BY <1>6, <1>7, FS_Injection DEF n
<1>9. \A e \in S : \E m \in 1 .. n : s[m] = e
  BY <1>8 DEF Surjection
<1> QED BY <1>1, <1>3, <1>4, <1>9 DEF n, s

\* Numbers in ascending order from above L: the m'th is at least L + m.
LEMMA AscendingIsAbove ==
    ASSUME NEW L \in Nat, NEW n \in Nat, NEW f, \A k \in 1 .. n : f[k] \in Nat /\ L < f[k],
           \A k, m \in 1 .. n : k < m => f[k] < f[m]
    PROVE  \A m \in 1 .. n : L + m <= f[m]
<1> DEFINE OK == {m \in Nat : m \in 1 .. n => L + m <= f[m]}
<1>1. 0 \in OK
  OBVIOUS
<1>2. ASSUME NEW m \in Nat, m \in OK PROVE m + 1 \in OK
  <2> SUFFICES ASSUME m + 1 \in 1 .. n PROVE L + (m + 1) <= f[m + 1]
    OBVIOUS
  <2>1. f[m + 1] \in Nat /\ L < f[m + 1]
    OBVIOUS
  <2>2. CASE m = 0
    BY <2>1, <2>2
  <2>3. CASE m # 0
    <3>1. m \in 1 .. n /\ m < m + 1
      BY <2>3
    <3>2. L + m <= f[m] /\ f[m] \in Nat /\ f[m] < f[m + 1]
      BY <1>2, <3>1
    <3> QED BY <2>1, <3>2
  <2> QED BY <2>2, <2>3
<1> HIDE DEF OK
<1>3. Nat \subseteq OK
  BY <1>1, <1>2, NatInductive
<1> QED BY <1>3 DEF OK

------------------------------------------------------------------------------
(* Numbers and slots.                                                       *)

LEMMA Sizes ==
    /\ NProducers \in Nat /\ NConsumers \in Nat /\ MaxTicket \in Nat
    /\ ULONG_MAX \in Nat /\ MaxTicket < ULONG_MAX /\ Q_SIZE \in Nat /\ NoItem \notin Items
BY QueueAssumption

LEMMA MarksAre ==
    /\ Positions \subseteq Nat /\ Marks \subseteq Nat /\ 0 \in Positions
    /\ ULONG_MAX \in Marks /\ ULONG_MAX \notin Positions
    /\ \A k \in Positions : k < ULONG_MAX
    /\ \A k \in Nat, m \in Positions : k <= m => k \in Positions
    /\ \A k \in Marks : k # ULONG_MAX => k \in Positions
BY Sizes DEF Positions, Marks

LEMMA LesserIs ==
    ASSUME NEW x \in Nat, NEW y \in Nat
    PROVE  /\ Lesser(x, y) \in Nat
           /\ y \in Positions => Lesser(x, y) \in Positions
BY MarksAre DEF Lesser

\* A slot once written stays so.
LEMMA Writing ==
    ASSUME RecTypeOK, NEW d \in Nat, NEW x \in Items \cup {NoItem}, x # NoItem,
           ptr_array_' = [ptr_array_ EXCEPT ![Slot(d)] = x]
    PROVE  /\ Written(d)'
           /\ \A k \in Nat : Written(k) => Written(k)'
<1>1. Slot(d) \in Slots /\ \A k \in Nat : Slot(k) \in Slots
  BY Sets
<1>2. ptr_array_ \in [Slots -> Items \cup {NoItem}]
  BY DEF RecTypeOK
<1> QED BY <1>1, <1>2 DEF Written

------------------------------------------------------------------------------
(* push() and pop() keep the types.                                         *)

LEMMA RecInitTypeOK == RecInit => RecTypeOK
BY Sizes, MarksAre DEF RecInit, Init, RecTypeOK, RecPCs, PCs

LEMMA TypesAre ==
    /\ Positions \subseteq Nat /\ Positions \subseteq Marks /\ 0 \in Positions
    /\ ULONG_MAX \in Marks /\ ULONG_MAX \in Nat /\ NProducers \in Nat /\ NConsumers \in Nat
    /\ \A k \in Positions : k < MaxTicket => k + 1 \in Positions
BY Sizes DEF Positions, Marks

\* The variables that push() and pop() share, and the locals of each.
SharedTypes ==
    /\ head_ \in Positions /\ last_head_ \in Positions
    /\ tail_ \in Nat /\ last_tail_ \in Nat
    /\ thr_head \in [Producers -> Marks] /\ pos_push \in [Producers -> Marks]
    /\ thr_tail \in [Consumers -> Nat] /\ pos_pop \in [Consumers -> Nat]
    /\ ptr_array_ \in [Slots -> Items \cup {NoItem}]

PushTypes ==
    /\ push_pc \in [Producers -> PCs] /\ push_reg \in [Producers -> Positions]
    /\ push_min \in [Producers -> Nat] /\ push_i \in [Producers -> 0 .. NConsumers]
    /\ item \in [Producers -> Items \cup {NoItem}]

PopTypes ==
    /\ pop_pc \in [Consumers -> PCs] /\ pop_reg \in [Consumers -> Nat]
    /\ pop_min \in [Consumers -> Positions] /\ pop_i \in [Consumers -> 0 .. NProducers]
    /\ buffer \in [Consumers -> Items \cup {NoItem}]

LEMMA TypeParts ==
    ASSUME RecTypeOK
    PROVE  /\ SharedTypes /\ PushTypes /\ PopTypes
           /\ UNCHANGED recVars /\ SharedTypes' /\ PushTypes' /\ PopTypes' => RecTypeOK'
<1>1. SharedTypes /\ PushTypes /\ PopTypes
  BY DEF RecTypeOK, SharedTypes, PushTypes, PopTypes
<1>2. ASSUME UNCHANGED recVars, SharedTypes', PushTypes', PopTypes'
      PROVE  RecTypeOK'
  BY <1>2 DEF recVars, RecTypeOK, SharedTypes, PushTypes, PopTypes
<1> QED BY <1>1, <1>2

LEMMA PushKeepsTypes ==
    ASSUME RecTypeOK, UNCHANGED recVars, NEW p \in Producers,
           (\E x \in Items : PushCall(p, x)) \/ PushStep(p)
    PROVE  RecTypeOK'
<1>0. SharedTypes /\ PushTypes /\ PopTypes
  BY TypeParts
<1>a. UNCHANGED popLocal
  BY DEF PushStep, PushCall, PushLoad, PushAnnounce, PushTake, PushRecord, PushCheck,
         PushFind, PushScan, PushUpdate, PushCopy, PushPos, PushRelease
<1>b. PopTypes'
  BY <1>0, <1>a DEF PopTypes, popLocal
<1>c. SharedTypes' /\ PushTypes'
  <2> USE <1>0, TypesAre DEF SharedTypes, PushTypes, PCs, PushGoto, shared
  <2>1. ASSUME NEW x \in Items, PushCall(p, x) PROVE SharedTypes' /\ PushTypes'
    BY <2>1 DEF PushCall
  <2>2. CASE PushLoad(p)      BY <2>2 DEF PushLoad
  <2>3. CASE PushAnnounce(p)  BY <2>3 DEF PushAnnounce
  <2>4. CASE PushTake(p)      BY <2>4 DEF PushTake
  <2>5. CASE PushRecord(p)    BY <2>5 DEF PushRecord
  <2>6. CASE PushCheck(p)     BY <2>6 DEF PushCheck
  <2>7. CASE PushFind(p)      BY <2>7 DEF PushFind
  <2>8. CASE PushScan(p)
    <3>1. push_i[p] \in Consumers /\ push_i[p] + 1 \in 0 .. NConsumers
      BY <2>8, Ids DEF PushScan
    <3>2. Lesser(thr_tail[push_i[p]], push_min[p]) \in Nat
      <4>1. thr_tail[push_i[p]] \in Nat /\ push_min[p] \in Nat
        BY <3>1
      <4> QED BY <4>1, LesserIs
    <3> QED BY <2>8, <3>1, <3>2 DEF PushScan
  <2>9. CASE PushUpdate(p)    BY <2>9 DEF PushUpdate
  <2>10. CASE PushCopy(p)     BY <2>10 DEF PushCopy
  <2>11. CASE PushPos(p)      BY <2>11 DEF PushPos
  <2>12. CASE PushRelease(p)  BY <2>12 DEF PushRelease
  <2> HIDE <1>0, TypesAre DEF SharedTypes, PushTypes, PCs, PushGoto, shared
  <2> QED
    BY <2>1, <2>2, <2>3, <2>4, <2>5, <2>6, <2>7, <2>8, <2>9, <2>10, <2>11, <2>12
    DEF PushStep
<1> QED BY <1>b, <1>c, TypeParts

LEMMA PopKeepsTypes ==
    ASSUME RecTypeOK, UNCHANGED recVars, NEW c \in Consumers, PopCall(c) \/ PopStep(c)
    PROVE  RecTypeOK'
<1>0. SharedTypes /\ PushTypes /\ PopTypes
  BY TypeParts
<1>a. UNCHANGED pushLocal
  BY DEF PopStep, PopCall, PopLoad, PopAnnounce, PopTake, PopRecord, PopCheck,
         PopFind, PopScan, PopUpdate, PopCopy, PopPos, PopRelease
<1>b. PushTypes'
  BY <1>0, <1>a DEF PushTypes, pushLocal
<1>c. SharedTypes' /\ PopTypes'
  <2> USE <1>0, TypesAre DEF SharedTypes, PopTypes, PCs, PopGoto, shared
  <2>1. CASE PopCall(c)      BY <2>1 DEF PopCall
  <2>2. CASE PopLoad(c)      BY <2>2 DEF PopLoad
  <2>3. CASE PopAnnounce(c)  BY <2>3 DEF PopAnnounce
  <2>4. CASE PopTake(c)      BY <2>4 DEF PopTake
  <2>5. CASE PopRecord(c)    BY <2>5 DEF PopRecord
  <2>6. CASE PopCheck(c)     BY <2>6 DEF PopCheck
  <2>7. CASE PopFind(c)      BY <2>7 DEF PopFind
  <2>8. CASE PopScan(c)
    <3>1. pop_i[c] \in Producers /\ pop_i[c] + 1 \in 0 .. NProducers
      BY <2>8, Ids DEF PopScan
    <3>2. Lesser(thr_head[pop_i[c]], pop_min[c]) \in Positions
      <4>1. thr_head[pop_i[c]] \in Nat /\ pop_min[c] \in Nat /\ pop_min[c] \in Positions
        BY <3>1, MarksAre
      <4> QED BY <4>1, LesserIs
    <3> QED BY <2>8, <3>1, <3>2 DEF PopScan
  <2>9. CASE PopUpdate(c)    BY <2>9 DEF PopUpdate
  <2>10. CASE PopCopy(c)     BY <2>10, Sets DEF PopCopy
  <2>11. CASE PopPos(c)      BY <2>11 DEF PopPos
  <2>12. CASE PopRelease(c)  BY <2>12 DEF PopRelease
  <2> HIDE <1>0, TypesAre DEF SharedTypes, PopTypes, PCs, PopGoto, shared
  <2> QED
    BY <2>1, <2>2, <2>3, <2>4, <2>5, <2>6, <2>7, <2>8, <2>9, <2>10, <2>11, <2>12
    DEF PopStep
<1> QED BY <1>b, <1>c, TypeParts

------------------------------------------------------------------------------
(* push() and pop() keep the slots below head_ accounted for.               *)

Accounted == GapsAnnounced /\ PositionsWritten /\ Running

\* What Accounted depends on.
LEMMA AccountedSame ==
    ASSUME Accounted, UNCHANGED <<head_, thr_head, pos_push, ptr_array_, push_pc, push_reg, item>>
    PROVE  Accounted'
BY DEF Accounted, GapsAnnounced, PositionsWritten, Running, HoldersAnnounce,
       TicketsDistinct, GapsHeld, Written, PushHolds, PushTicket, PushUnwritten

\* Between the ticket and the copy it does not matter where a producer is.
Waiting == {"check", "find", "scan", "copy"}

LEMMA WaitingMoves ==
    ASSUME RecTypeOK, Accounted, NEW p \in Producers, push_pc[p] \in Waiting,
           NEW pc \in Waiting, push_pc' = [push_pc EXCEPT ![p] = pc],
           UNCHANGED <<head_, thr_head, pos_push, ptr_array_, push_reg, item>>
    PROVE  Accounted'
<1> USE DEF PushHolds, PushTicket, PushUnwritten, Written
<1>1. /\ push_pc'[p] \in Waiting
      /\ \A q \in Producers : q # p => push_pc'[q] = push_pc[q]
  BY DEF RecTypeOK
<1>2. HoldersAnnounce'
  BY <1>1 DEF Accounted, Running, HoldersAnnounce, Waiting
<1>3. TicketsDistinct'
  <2> SUFFICES ASSUME NEW q \in Producers, NEW r \in Producers, q # r, PushHolds(q)'
               PROVE  /\ PushHolds(r)' => PushTicket(q)' # PushTicket(r)'
                      /\ pos_push'[r] # PushTicket(q)'
    BY DEF TicketsDistinct
  <2>1. /\ PushHolds(q) /\ PushTicket(q)' = PushTicket(q)
        /\ PushHolds(r)' => PushHolds(r) /\ PushTicket(r)' = PushTicket(r)
    BY <1>1 DEF Waiting
  <2> QED BY <2>1 DEF Accounted, Running, TicketsDistinct
<1>4. GapsHeld'
  <2> SUFFICES ASSUME NEW k \in 0 .. head_ - 1, ~ Written(k)
               PROVE  \E q \in Producers : PushUnwritten(q)' /\ PushTicket(q)' = k
    BY DEF GapsHeld
  <2>1. PICK q \in Producers : PushUnwritten(q) /\ PushTicket(q) = k
    BY DEF Accounted, Running, GapsHeld
  <2>2. PushUnwritten(q)' /\ PushTicket(q)' = PushTicket(q)
    BY <1>1, <2>1 DEF Waiting
  <2> QED BY <2>1, <2>2
<1> QED BY <1>2, <1>3, <1>4 DEF Accounted, Running, GapsAnnounced, PositionsWritten

\* The slot of a ticket whose producer has copied its item is written.
LEMMA CopiedIsWritten ==
    ASSUME RecTypeOK, Accounted, NEW p \in Producers, push_pc[p] \in {"pos", "release"}
    PROVE  thr_head[p] \in Positions /\ thr_head[p] < head_ /\ Written(thr_head[p])
<1> USE DEF PushHolds, PushTicket, PushUnwritten, Written
<1>1. PushHolds(p) /\ PushTicket(p) = thr_head[p] /\ ~ PushUnwritten(p)
  BY DEF PushHolds, PushTicket, PushUnwritten
<1>2. thr_head[p] < head_ /\ head_ \in Nat /\ thr_head[p] \in Nat /\ head_ \in Positions
  BY <1>1, MarksAre DEF Accounted, Running, HoldersAnnounce, RecTypeOK
<1>3. thr_head[p] \in Positions /\ thr_head[p] \in 0 .. head_ - 1
  BY <1>2, MarksAre
<1>4. ASSUME NEW q \in Producers, PushUnwritten(q), PushTicket(q) = thr_head[p] PROVE FALSE
  BY <1>1, <1>4 DEF Accounted, Running, TicketsDistinct, PushUnwritten
<1> QED BY <1>2, <1>3, <1>4 DEF Accounted, Running, GapsHeld

LEMMA CallAndLoadKeep ==
    ASSUME RecTypeOK, Accounted, NEW p \in Producers,
           (\E x \in Items : PushCall(p, x)) \/ PushLoad(p)
    PROVE  Accounted'
<1> USE DEF PushHolds, PushTicket, PushUnwritten, Written
<1>1. /\ UNCHANGED <<head_, thr_head, pos_push, ptr_array_>>
      /\ push_pc[p] \in {"idle", "load"} /\ push_pc'[p] \in {"load", "announce"}
      /\ push_pc'[p] = "announce" => push_reg'[p] = head_
      /\ item'[p] \in Items
      /\ \A q \in Producers : q # p => /\ push_pc'[q] = push_pc[q]
                                      /\ push_reg'[q] = push_reg[q]
                                      /\ item'[q] = item[q]
  <2>1. CASE \E x \in Items : PushCall(p, x)
    BY <2>1 DEF PushCall, PushGoto, RecTypeOK, shared
  <2>2. CASE PushLoad(p)
    BY <2>2 DEF PushLoad, PushGoto, RecTypeOK, shared, Accounted, Running, HoldersAnnounce
  <2> QED BY <2>1, <2>2
<1>2. /\ ~ PushHolds(p) /\ ~ PushHolds(p)' /\ ~ PushUnwritten(p) /\ ~ PushUnwritten(p)'
      /\ \A q \in Producers : q # p => /\ PushHolds(q)' <=> PushHolds(q)
                                      /\ PushUnwritten(q)' <=> PushUnwritten(q)
                                      /\ PushTicket(q)' = PushTicket(q)
  BY <1>1 DEF PushHolds, PushUnwritten, PushTicket
<1>3. HoldersAnnounce'
  <2>1. thr_head[p] = ULONG_MAX /\ head_ <= head_
    BY <1>1 DEF Accounted, Running, HoldersAnnounce, RecTypeOK, Positions
  <2> QED BY <1>1, <1>2, <2>1 DEF Accounted, Running, HoldersAnnounce
<1>4. TicketsDistinct'
  BY <1>1, <1>2 DEF Accounted, Running, TicketsDistinct
<1>5. GapsHeld'
  BY <1>1, <1>2 DEF Accounted, Running, GapsHeld, Written
<1> QED BY <1>1, <1>3, <1>4, <1>5
        DEF Accounted, Running, GapsAnnounced, PositionsWritten, Written

\* The announcement is not above head_, and covers what was not covered.
LEMMA AnnounceKeeps ==
    ASSUME RecTypeOK, Accounted, NEW p \in Producers, PushAnnounce(p)
    PROVE  Accounted'
<1> USE DEF PushHolds, PushTicket, PushUnwritten, Written
<1>1. /\ UNCHANGED <<head_, pos_push, ptr_array_, item>>
      /\ push_pc[p] = "announce" /\ push_pc'[p] = "take"
      /\ thr_head'[p] = push_reg[p] /\ push_reg[p] <= head_ /\ thr_head[p] = ULONG_MAX
      /\ \A q \in Producers : q # p => /\ push_pc'[q] = push_pc[q]
                                      /\ push_reg'[q] = push_reg[q]
                                      /\ thr_head'[q] = thr_head[q]
  BY DEF PushAnnounce, PushGoto, RecTypeOK, Accounted, Running, HoldersAnnounce
<1>2. /\ ~ PushHolds(p) /\ ~ PushHolds(p)' /\ ~ PushUnwritten(p) /\ ~ PushUnwritten(p)'
      /\ \A q \in Producers : q # p => /\ PushHolds(q)' <=> PushHolds(q)
                                      /\ PushUnwritten(q)' <=> PushUnwritten(q)
                                      /\ PushTicket(q)' = PushTicket(q)
  BY <1>1 DEF PushHolds, PushUnwritten, PushTicket
<1>3. HoldersAnnounce'
  BY <1>1, <1>2 DEF Accounted, Running, HoldersAnnounce
<1>4. TicketsDistinct'
  BY <1>1, <1>2 DEF Accounted, Running, TicketsDistinct
<1>5. GapsHeld'
  BY <1>1, <1>2 DEF Accounted, Running, GapsHeld, Written
<1>6. GapsAnnounced'
  <2> SUFFICES ASSUME NEW k \in 0 .. head_ - 1, ~ Written(k)
               PROVE  \E q \in Producers : thr_head'[q] <= k
    BY <1>1 DEF GapsAnnounced, Written
  <2>1. PICK q \in Producers : thr_head[q] <= k
    BY DEF Accounted, GapsAnnounced
  <2>2. k < ULONG_MAX /\ head_ \in Nat
    BY MarksAre DEF RecTypeOK
  <2>3. q # p
    BY <1>1, <2>1, <2>2, Sizes
  <2> QED BY <1>1, <2>1, <2>3
<1> QED BY <1>1, <1>3, <1>4, <1>5, <1>6
        DEF Accounted, Running, PositionsWritten, Written

\* A new ticket is above all others and above every position.
LEMMA TakeKeeps ==
    ASSUME RecTypeOK, Accounted, NEW p \in Producers, PushTake(p)
    PROVE  Accounted'
<1> USE DEF PushHolds, PushTicket, PushUnwritten, Written
<1>0. /\ head_ \in Nat /\ head_ \in Positions /\ head_ < ULONG_MAX
      /\ thr_head \in [Producers -> Nat] /\ pos_push \in [Producers -> Nat]
      /\ push_reg \in [Producers -> Nat] /\ ULONG_MAX \in Nat
  BY MarksAre, Sizes DEF RecTypeOK
<1>1. /\ UNCHANGED <<thr_head, pos_push, ptr_array_, item>>
      /\ push_pc[p] = "take" /\ push_pc'[p] = "record"
      /\ head_' = head_ + 1 /\ push_reg'[p] = head_ /\ thr_head[p] <= head_
      /\ \A q \in Producers : q # p => /\ push_pc'[q] = push_pc[q]
                                      /\ push_reg'[q] = push_reg[q]
  BY DEF PushTake, PushGoto, RecTypeOK, Accounted, Running, HoldersAnnounce
<1>2. /\ ~ PushHolds(p) /\ PushHolds(p)' /\ PushUnwritten(p)' /\ PushTicket(p)' = head_
      /\ \A q \in Producers : q # p => /\ PushHolds(q)' <=> PushHolds(q)
                                      /\ PushUnwritten(q)' <=> PushUnwritten(q)
                                      /\ PushTicket(q)' = PushTicket(q)
      /\ \A q \in Producers : PushUnwritten(q) => q # p
      /\ \A q \in Producers : PushTicket(q) \in Nat
  BY <1>0, <1>1 DEF PushHolds, PushUnwritten, PushTicket
<1>3. HoldersAnnounce'
  BY <1>0, <1>1, <1>2 DEF Accounted, Running, HoldersAnnounce
<1>4. /\ \A q \in Producers : PushHolds(q) => PushTicket(q) < head_
      /\ \A q \in Producers : pos_push[q] # ULONG_MAX => pos_push[q] < head_
  BY DEF Accounted, Running, HoldersAnnounce, PositionsWritten
<1>5. TicketsDistinct'
  <2>1. \A q \in Producers : pos_push[q] # head_
    BY <1>0, <1>4
  <2>2. \A q \in Producers : PushHolds(q) => PushTicket(q) # head_
    BY <1>0, <1>2, <1>4
  <2> QED BY <1>1, <1>2, <2>1, <2>2 DEF Accounted, Running, TicketsDistinct
<1>6. \A k \in 0 .. head_' - 1 : k = head_ \/ k \in 0 .. head_ - 1
  BY <1>0, <1>1
<1>7. GapsHeld'
  BY <1>1, <1>2, <1>6 DEF Accounted, Running, GapsHeld, Written
<1>8. GapsAnnounced'
  BY <1>1, <1>6 DEF Accounted, GapsAnnounced, Written
<1>9. PositionsWritten'
  BY <1>0, <1>1, <1>4 DEF Accounted, PositionsWritten, Written
<1> QED BY <1>3, <1>5, <1>7, <1>8, <1>9 DEF Accounted, Running

\* The announcement goes up to the ticket: all below it was somebody else's.
LEMMA RecordKeeps ==
    ASSUME RecTypeOK, Accounted, NEW p \in Producers, PushRecord(p)
    PROVE  Accounted'
<1> USE DEF PushHolds, PushTicket, PushUnwritten, Written
<1>0. /\ head_ \in Nat /\ thr_head \in [Producers -> Nat]
      /\ push_reg \in [Producers -> Nat]
  BY MarksAre DEF RecTypeOK
<1>1. /\ UNCHANGED <<head_, pos_push, ptr_array_, item>>
      /\ push_pc[p] = "record" /\ push_pc'[p] = "check" /\ thr_head'[p] = push_reg[p]
      /\ \A q \in Producers : q # p => /\ push_pc'[q] = push_pc[q]
                                      /\ push_reg'[q] = push_reg[q]
                                      /\ thr_head'[q] = thr_head[q]
  BY DEF PushRecord, PushGoto, RecTypeOK
<1>2. /\ PushHolds(p) /\ PushHolds(p)' /\ PushTicket(p) = push_reg[p]
      /\ \A q \in Producers : /\ PushHolds(q)' <=> PushHolds(q)
                             /\ PushUnwritten(q)' <=> PushUnwritten(q)
                             /\ PushTicket(q)' = PushTicket(q)
  BY <1>1 DEF PushHolds, PushUnwritten, PushTicket
<1>3. HoldersAnnounce'
  BY <1>0, <1>1, <1>2 DEF Accounted, Running, HoldersAnnounce
<1>4. TicketsDistinct'
  BY <1>1, <1>2 DEF Accounted, Running, TicketsDistinct
<1>5. GapsHeld'
  BY <1>1, <1>2 DEF Accounted, Running, GapsHeld, Written
<1>6. GapsAnnounced'
  BY <1>1, <1>3, <1>5 DEF GapsAnnounced, GapsHeld, HoldersAnnounce, PushUnwritten
<1> QED BY <1>1, <1>3, <1>4, <1>5, <1>6
        DEF Accounted, Running, PositionsWritten, Written

LEMMA CopyKeeps ==
    ASSUME RecTypeOK, Accounted, NEW p \in Producers, PushCopy(p)
    PROVE  Accounted'
<1> USE DEF PushHolds, PushTicket, PushUnwritten, Written
<1>0. head_ \in Nat /\ thr_head \in [Producers -> Nat] /\ Positions \subseteq Nat
  BY MarksAre DEF RecTypeOK
<1>1. /\ UNCHANGED <<head_, thr_head, pos_push, push_reg, item>>
      /\ push_pc[p] = "copy" /\ push_pc'[p] = "pos"
      /\ \A q \in Producers : q # p => push_pc'[q] = push_pc[q]
  BY DEF PushCopy, PushGoto, RecTypeOK
<1>2. /\ PushTicket(p) = thr_head[p] /\ ~ PushUnwritten(p)'
      /\ \A q \in Producers : /\ PushHolds(q)' <=> PushHolds(q)
                             /\ PushTicket(q)' = PushTicket(q)
                             /\ q # p => (PushUnwritten(q)' <=> PushUnwritten(q))
  BY <1>1 DEF PushHolds, PushUnwritten, PushTicket
<1>3. \A k \in Nat : k = thr_head[p] \/ Written(k) => Written(k)'
  <2>1. item[p] \in Items /\ item[p] # NoItem
    BY <1>1, Sizes DEF Accounted, Running, HoldersAnnounce
  <2> DEFINE d == thr_head[p]
  <2>2. d \in Nat /\ ptr_array_' = [ptr_array_ EXCEPT ![Slot(d)] = item[p]]
    BY <1>0 DEF PushCopy
  <2> HIDE DEF d
  <2> SUFFICES ASSUME NEW k \in Nat, k = d \/ Written(k) PROVE Written(k)'
    BY DEF d
  <2>3. CASE Written(k)
    BY <2>1, <2>2, <2>3, Writing
  <2>4. CASE k = d
    BY <2>1, <2>2, <2>4, Writing
  <2> QED BY <2>3, <2>4
<1>4. HoldersAnnounce'
  BY <1>1, <1>2 DEF Accounted, Running, HoldersAnnounce
<1>5. TicketsDistinct'
  BY <1>1, <1>2 DEF Accounted, Running, TicketsDistinct
<1>6. GapsHeld'
  <2> SUFFICES ASSUME NEW k \in 0 .. head_ - 1, ~ Written(k)'
               PROVE  \E q \in Producers : PushUnwritten(q)' /\ PushTicket(q)' = k
    BY <1>1 DEF GapsHeld
  <2>1. k \in Nat /\ ~ Written(k)
    BY <1>3
  <2>2. PICK q \in Producers : PushUnwritten(q) /\ PushTicket(q) = k
    BY <2>1 DEF Accounted, Running, GapsHeld
  <2>3. q # p
    BY <1>2, <1>3, <2>1, <2>2
  <2>4. PushUnwritten(q)' /\ PushTicket(q)' = k
    BY <1>1, <2>2, <2>3
  <2> QED BY <2>4
<1>7. GapsAnnounced'
  <2>1. \A k \in 0 .. head_ - 1 : k \in Nat
    BY <1>0
  <2> QED BY <1>1, <1>3, <2>1 DEF Accounted, GapsAnnounced
<1>8. PositionsWritten'
  <2> SUFFICES ASSUME NEW q \in Producers, pos_push[q] # ULONG_MAX
               PROVE  Written(pos_push[q])'
    BY <1>1 DEF Accounted, PositionsWritten
  <2>1. pos_push[q] \in Nat /\ Written(pos_push[q])
    BY MarksAre DEF RecTypeOK, Accounted, PositionsWritten
  <2> DEFINE k == pos_push[q]
  <2>2. k \in Nat /\ Written(k) /\ k' = k
    BY <1>1, <2>1
  <2> HIDE DEF k
  <2>3. Written(k)'
    BY <1>3, <2>2 DEF Written
  <2> QED BY <2>3 DEF k
<1> QED BY <1>4, <1>5, <1>6, <1>7, <1>8 DEF Accounted, Running

\* The position is that of a slot just filled, and nobody else's.
LEMMA PosKeeps ==
    ASSUME RecTypeOK, Accounted, NEW p \in Producers, PushPos(p)
    PROVE  Accounted'
<1> USE DEF PushHolds, PushTicket, PushUnwritten, Written
<1>0. /\ head_ \in Nat /\ thr_head \in [Producers -> Nat]
      /\ pos_push \in [Producers -> Nat] /\ Positions \subseteq Nat
  BY MarksAre DEF RecTypeOK
<1>1. /\ UNCHANGED <<head_, thr_head, ptr_array_, push_reg, item>>
      /\ push_pc[p] = "pos" /\ push_pc'[p] = "release" /\ pos_push'[p] = thr_head[p]
      /\ \A q \in Producers : q # p => /\ push_pc'[q] = push_pc[q]
                                      /\ pos_push'[q] = pos_push[q]
  BY DEF PushPos, PushGoto, RecTypeOK
<1>2. /\ PushHolds(p) /\ PushTicket(p) = thr_head[p]
      /\ \A q \in Producers : /\ PushHolds(q)' <=> PushHolds(q)
                             /\ PushTicket(q)' = PushTicket(q)
                             /\ PushUnwritten(q)' <=> PushUnwritten(q)
  BY <1>1 DEF PushHolds, PushUnwritten, PushTicket
<1>3. HoldersAnnounce'
  BY <1>1, <1>2 DEF Accounted, Running, HoldersAnnounce
<1>4. TicketsDistinct'
  BY <1>1, <1>2 DEF Accounted, Running, TicketsDistinct
<1>5. GapsHeld'
  BY <1>1, <1>2 DEF Accounted, Running, GapsHeld, Written
<1>6. PositionsWritten'
  <2>1. thr_head[p] < head_ /\ Written(thr_head[p])
    BY <1>1, CopiedIsWritten
  <2>2. \A q \in Producers : q # p => pos_push[q] # thr_head[p]
    BY <1>2 DEF Accounted, Running, TicketsDistinct
  <2> QED BY <1>1, <2>1, <2>2 DEF Accounted, PositionsWritten, Written
<1> QED BY <1>1, <1>3, <1>4, <1>5, <1>6 DEF Accounted, Running, GapsAnnounced, Written

\* What was above the announcement withdrawn is written or announced by others.
LEMMA ReleaseKeeps ==
    ASSUME RecTypeOK, Accounted, NEW p \in Producers, PushRelease(p)
    PROVE  Accounted'
<1> USE DEF PushHolds, PushTicket, PushUnwritten, Written
<1>1. /\ UNCHANGED <<head_, pos_push, ptr_array_, push_reg, item>>
      /\ push_pc[p] = "release" /\ push_pc'[p] = "idle" /\ thr_head'[p] = ULONG_MAX
      /\ \A q \in Producers : q # p => /\ push_pc'[q] = push_pc[q]
                                      /\ thr_head'[q] = thr_head[q]
  BY DEF PushRelease, PushGoto, RecTypeOK
<1>2. /\ ~ PushUnwritten(p) /\ ~ PushUnwritten(p)' /\ ~ PushHolds(p)'
      /\ \A q \in Producers : q # p => /\ PushHolds(q)' <=> PushHolds(q)
                                      /\ PushUnwritten(q)' <=> PushUnwritten(q)
                                      /\ PushTicket(q)' = PushTicket(q)
  BY <1>1 DEF PushHolds, PushUnwritten, PushTicket
<1>3. HoldersAnnounce'
  BY <1>1, <1>2 DEF Accounted, Running, HoldersAnnounce
<1>4. TicketsDistinct'
  BY <1>1, <1>2 DEF Accounted, Running, TicketsDistinct
<1>5. GapsHeld'
  BY <1>1, <1>2 DEF Accounted, Running, GapsHeld, Written
<1>6. GapsAnnounced'
  BY <1>1, <1>3, <1>5 DEF GapsAnnounced, GapsHeld, HoldersAnnounce, PushUnwritten
<1> QED BY <1>1, <1>3, <1>4, <1>5, <1>6
        DEF Accounted, Running, PositionsWritten, Written

LEMMA PushKeeps ==
    ASSUME RecTypeOK, Accounted, NEW p \in Producers,
           (\E x \in Items : PushCall(p, x)) \/ PushStep(p)
    PROVE  Accounted'
<1>1. CASE (\E x \in Items : PushCall(p, x)) \/ PushLoad(p)  BY <1>1, CallAndLoadKeep
<1>2. CASE PushAnnounce(p)                                   BY <1>2, AnnounceKeeps
<1>3. CASE PushTake(p)                                       BY <1>3, TakeKeeps
<1>4. CASE PushRecord(p)                                     BY <1>4, RecordKeeps
<1>5. CASE PushCheck(p) \/ PushFind(p) \/ PushScan(p) \/ PushUpdate(p)
  <2>1. /\ push_pc[p] \in Waiting
        /\ \E pc \in Waiting : push_pc' = [push_pc EXCEPT ![p] = pc]
        /\ UNCHANGED <<head_, thr_head, pos_push, ptr_array_, push_reg, item>>
    <3>1. CASE PushCheck(p)   BY <3>1 DEF PushCheck, PushGoto, Waiting, shared
    <3>2. CASE PushFind(p)    BY <3>2 DEF PushFind, PushGoto, Waiting, shared
    <3>3. CASE PushScan(p)    BY <3>3 DEF PushScan, Waiting, shared, RecTypeOK
    <3>4. CASE PushUpdate(p)  BY <3>4 DEF PushUpdate, PushGoto, Waiting
    <3> QED BY <1>5, <3>1, <3>2, <3>3, <3>4
  <2> QED BY <2>1, WaitingMoves
<1>6. CASE PushCopy(p)                                       BY <1>6, CopyKeeps
<1>7. CASE PushPos(p)                                        BY <1>7, PosKeeps
<1>8. CASE PushRelease(p)                                    BY <1>8, ReleaseKeeps
<1> QED BY <1>1, <1>2, <1>3, <1>4, <1>5, <1>6, <1>7, <1>8 DEF PushStep

LEMMA PopKeeps ==
    ASSUME Accounted, NEW c \in Consumers, PopCall(c) \/ PopStep(c)
    PROVE  Accounted'
<1>1. UNCHANGED <<head_, thr_head, pos_push, ptr_array_, push_pc, push_reg, item>>
  BY DEF PopStep, PopCall, PopLoad, PopAnnounce, PopTake, PopRecord, PopCheck, PopFind,
         PopScan, PopUpdate, PopCopy, PopPos, PopRelease, shared, pushLocal
<1> QED BY <1>1, AccountedSame

LEMMA RunKeeps ==
    ASSUME RecInv, RunStep
    PROVE  RecInv'
<1>1. RecTypeOK /\ Accounted /\ rec_pc = "up" /\ UNCHANGED recVars /\ Next
  BY DEF RecInv, RunStep, Accounted
<1>2. RecTypeOK' /\ Accounted'
  BY <1>1, PushKeepsTypes, PopKeepsTypes, PushKeeps, PopKeeps DEF Next
<1> QED BY <1>1, <1>2 DEF RecInv, Accounted, recVars

------------------------------------------------------------------------------
(* A crash, and the bounds that recover() starts from.                      *)

LEMMA SameSlots ==
    ASSUME GapsAnnounced, PositionsWritten, UNCHANGED <<head_, thr_head, pos_push, ptr_array_>>
    PROVE  GapsAnnounced' /\ PositionsWritten'
BY DEF GapsAnnounced, PositionsWritten, Written

LEMMA CrashKeeps ==
    ASSUME RecInv, Crash
    PROVE  RecInv'
<1>1. RecTypeOK'
  BY Sizes, MarksAre DEF RecInv, RecTypeOK, Crash, LocalsLost, shared, RecPCs, PCs
<1>2. GapsAnnounced' /\ PositionsWritten'
  BY SameSlots DEF RecInv, Crash, shared
<1>3. rec_pc' = "down" /\ Recovering'
  BY DEF Crash, LocalsLost, Recovering, Stopped
<1> QED BY <1>1, <1>2, <1>3 DEF RecInv

LEMMA MinIs ==
    ASSUME NEW S, S \subseteq Nat, S # {}
    PROVE  Min(S) \in S /\ \A n \in S : Min(S) <= n
<1>1. \E m \in S : \A n \in S : m <= n
  BY LeastNumber
<1> QED BY <1>1 DEF Min

LEMMA LastHeadKeeps ==
    ASSUME RecInv, RecLastHead
    PROVE  RecInv'
<1> DEFINE S == {head_} \cup {thr_head[p] : p \in Producers}
<1>1. S \subseteq Nat /\ S # {} /\ head_ \in S
  BY MarksAre DEF RecInv, RecTypeOK
<1>2. last_head_' \in Nat /\ \A n \in S : last_head_' <= n
  <2>1. last_head_' = Min(S)
    BY DEF RecLastHead
  <2> HIDE DEF S
  <2> QED BY <1>1, <2>1, MinIs
<1>3. rec_pc = "down" /\ rec_pc' = "last_tail"
  BY DEF RecLastHead, RecGoto
<1>4. RecTypeOK'
  <2>1. last_head_' <= head_ /\ head_ \in Positions
    BY <1>1, <1>2 DEF RecInv, RecTypeOK
  <2>2. last_head_' \in Positions
    BY <1>2, <2>1, MarksAre
  <2> QED BY <2>2 DEF RecInv, RecTypeOK, RecLastHead, RecGoto, RecPCs, locals, pushLocal, popLocal
<1>5. GapsAnnounced' /\ PositionsWritten'
  BY SameSlots DEF RecInv, RecLastHead
<1>6. Recovering'
  BY <1>2, <1>3 DEF RecInv, RecLastHead, Recovering, Stopped, LastHeadFound, locals, pushLocal
<1> QED BY <1>3, <1>4, <1>5, <1>6 DEF RecInv

LEMMA LastTailKeeps ==
    ASSUME RecInv, RecLastTail
    PROVE  RecInv'
<1> DEFINE S == {tail_} \cup {thr_tail[c] : c \in Consumers}
<1>1. S \subseteq Nat /\ S # {}
  BY DEF RecInv, RecTypeOK
<1>2. last_tail_' \in Nat
  <2>1. last_tail_' = Min(S)
    BY DEF RecLastTail
  <2> HIDE DEF S
  <2> QED BY <1>1, <2>1, MinIs
<1>3. rec_pc = "last_tail" /\ rec_pc' = "pushed"
  BY DEF RecLastTail, RecGoto
<1>4. RecTypeOK'
  BY <1>2 DEF RecInv, RecTypeOK, RecLastTail, RecGoto, RecPCs, locals, pushLocal, popLocal
<1>5. GapsAnnounced' /\ PositionsWritten'
  BY SameSlots DEF RecInv, RecLastTail
<1>6. Recovering'
  BY <1>3 DEF RecInv, RecLastTail, Recovering, Stopped, LastHeadFound, locals, pushLocal
<1> QED BY <1>3, <1>4, <1>5, <1>6 DEF RecInv

------------------------------------------------------------------------------
(* The finished pushes, sorted.                                             *)

LEMMA FiniteThreads ==
    /\ \A S \in SUBSET Producers : IsFiniteSet(S) /\ Cardinality(S) \in Nat
    /\ IsFiniteSet(Consumers) /\ \A S \in SUBSET Consumers : IsFiniteSet(S)
    /\ Producers \subseteq Nat /\ Consumers \subseteq Nat
<1>1. IsFiniteSet(Producers) /\ IsFiniteSet(Consumers)
  BY Sizes, FS_Interval DEF Producers, Consumers
<1>2. /\ \A S \in SUBSET Producers : IsFiniteSet(S)
      /\ \A S \in SUBSET Consumers : IsFiniteSet(S)
  BY <1>1, FS_Subset
<1> QED BY <1>1, <1>2, FS_CardinalityType, Ids

\* Pairs of a position and its thread, for the threads of D.
PairSet(pos, D) == {<<pos[d], d>> : d \in D}

\* The threads of D are finitely many and have positions.
Placed(pos, D) ==
    /\ IsFiniteSet(D) /\ D \subseteq Nat
    /\ \A d \in D : pos[d] \in Nat

LEMMA PairsOf ==
    ASSUME NEW D, NEW pos, Placed(pos, D)
    PROVE  /\ PairSet(pos, D) \in SUBSET Pairs /\ IsFiniteSet(PairSet(pos, D))
           /\ Cardinality(PairSet(pos, D)) = Cardinality(D)
           /\ \A e \in PairSet(pos, D) : e[2] \in D /\ e[1] = pos[e[2]]
           /\ \A d \in D : <<pos[d], d>> \in PairSet(pos, D)
<1> DEFINE S == PairSet(pos, D)
           f == [d \in D |-> <<pos[d], d>>]
<1>0. /\ IsFiniteSet(D) /\ D \subseteq Nat
      /\ \A d \in D : pos[d] \in Nat
  BY DEF Placed
<1>1. f \in Bijection(D, S)
  <2>1. f \in [D -> S]
    BY DEF PairSet
  <2>2. \A c, d \in D : f[c] = f[d] => c = d
    OBVIOUS
  <2>3. \A e \in S : \E d \in D : f[d] = e
    BY DEF PairSet
  <2> HIDE DEF f, S
  <2> QED BY <2>1, <2>2, <2>3 DEF Bijection, Injection, Surjection, IsInjective
<1> HIDE DEF f, S
<1>2. IsFiniteSet(S) /\ Cardinality(S) = Cardinality(D)
  BY <1>0, <1>1, FS_Bijection DEF ExistsBijection
<1>3. /\ S \in SUBSET Pairs
      /\ \A e \in S : e[2] \in D /\ e[1] = pos[e[2]]
      /\ \A d \in D : <<pos[d], d>> \in S
  <2>1. \A e \in S : \E d \in D : e = <<pos[d], d>>
    BY DEF S, PairSet
  <2>2. \A d \in D : <<pos[d], d>> \in Pairs
    BY <1>0 DEF Pairs
  <2>3. \A d \in D : <<pos[d], d>> \in S
    BY DEF S, PairSet
  <2> QED BY <2>1, <2>2, <2>3
<1> QED BY <1>2, <1>3 DEF S

LEMMA PushedKeeps ==
    ASSUME RecInv, RecPushed
    PROVE  RecInv'
<1> DEFINE D == {p \in Producers : /\ thr_head[p] = ULONG_MAX
                                    /\ pos_push[p] > last_head_
                                    /\ pos_push[p] # ULONG_MAX}
           S == PairSet(pos_push, D)
           s == Sorted(S)
           n == Cardinality(D)
<1>0. /\ RecTypeOK /\ PositionsWritten /\ GapsAnnounced /\ Stopped /\ LastHeadFound
      /\ rec_pc = "pushed" /\ rec_pc' = "push_copy" /\ it = 1 /\ i = 0
      /\ last_head_ \in Nat /\ head_ \in Nat /\ ULONG_MAX \in Nat
      /\ pos_push \in [Producers -> Marks] /\ Marks \subseteq Nat
  BY MarksAre, Sizes DEF RecInv, Recovering, RecPushed, RecGoto, RecTypeOK
<1>1. /\ elems' = s /\ n_pushed' = n
      /\ pos_push' = [p \in Producers |-> IF p \in D THEN pos_push[p] ELSE ULONG_MAX]
      /\ UNCHANGED <<head_, tail_, last_head_, last_tail_, thr_head, thr_tail, pos_pop,
                     ptr_array_, locals, popped, it, i, before>>
  BY DEF RecPushed, PairSet
<1>2. /\ D \subseteq Producers /\ \A p \in D : /\ pos_push[p] \in Nat
                                             /\ last_head_ < pos_push[p]
                                             /\ pos_push[p] # ULONG_MAX
      /\ IsFiniteSet(D) /\ D \subseteq Nat /\ n \in Nat
  <2>1. D \subseteq Producers
    OBVIOUS
  <2>2. \A p \in D : pos_push[p] \in Nat /\ last_head_ < pos_push[p] /\ pos_push[p] # ULONG_MAX
    BY <1>0
  <2> HIDE DEF D
  <2> QED BY <2>1, <2>2, FiniteThreads
<1> HIDE DEF D
<1>3. /\ S \in SUBSET Pairs /\ IsFiniteSet(S) /\ Cardinality(S) = n
      /\ \A e \in S : e[2] \in D /\ e[1] = pos_push[e[2]]
      /\ \A p \in D : <<pos_push[p], p>> \in S
  <2>1. Placed(pos_push, D)
    BY <1>2 DEF Placed
  <2> QED BY <2>1, PairsOf
<1> HIDE DEF S
<1>4. /\ s \in Seq(S) /\ Len(s) = n /\ DOMAIN s = 1 .. n
      /\ \A k, m \in DOMAIN s : k < m => PairLess(s[k], s[m])
      /\ \A e \in S : \E m \in DOMAIN s : s[m] = e
  BY <1>3, SortedIs
<1> HIDE DEF s, n
<1>5. \A m \in 1 .. n : /\ s[m] \in S /\ s[m] \in Pairs /\ s[m][1] \in Nat /\ s[m][2] \in D
                        /\ s[m][1] = pos_push[s[m][2]] /\ s[m][2] \in Producers
                        /\ last_head_ < s[m][1] /\ s[m][1] < head_
                        /\ pos_push'[s[m][2]] = s[m][1]
  <2> SUFFICES ASSUME NEW m \in 1 .. n
               PROVE  /\ s[m] \in S /\ s[m] \in Pairs /\ s[m][1] \in Nat /\ s[m][2] \in D
                      /\ s[m][1] = pos_push[s[m][2]] /\ s[m][2] \in Producers
                      /\ last_head_ < s[m][1] /\ s[m][1] < head_
                      /\ pos_push'[s[m][2]] = s[m][1]
    OBVIOUS
  <2>1. s[m] \in S /\ s[m] \in Pairs
    BY <1>3, <1>4
  <2>2. s[m][2] \in D /\ s[m][1] = pos_push[s[m][2]] /\ s[m][2] \in Producers
    BY <1>2, <1>3, <2>1
  <2> QED BY <1>0, <1>1, <1>2, <2>1, <2>2 DEF PositionsWritten
<1>6. \A k, m \in 1 .. n : k < m => s[k][1] < s[m][1] /\ s[k][2] # s[m][2]
  <2> SUFFICES ASSUME NEW k \in 1 .. n, NEW m \in 1 .. n, k < m
               PROVE  s[k][1] < s[m][1] /\ s[k][2] # s[m][2]
    OBVIOUS
  <2>1. /\ PairLess(s[k], s[m]) /\ s[k][1] \in Nat /\ s[m][1] \in Nat
        /\ s[k][2] \in Nat /\ s[m][2] \in Nat
    BY <1>2, <1>4, <1>5
  <2>2. s[k][2] # s[m][2]
    BY <1>5, <2>1 DEF PairLess
  <2>3. s[k][1] # s[m][1]
    <3>1. /\ s[k][2] \in Producers /\ s[m][2] \in Producers
          /\ s[k][2] \in D /\ s[m][2] \in D
          /\ s[k][1] = pos_push[s[k][2]] /\ s[m][1] = pos_push[s[m][2]]
      BY <1>5
    <3>2. pos_push[s[k][2]] # ULONG_MAX
      BY <1>2, <3>1
    <3> QED BY <1>0, <2>2, <3>1, <3>2 DEF PositionsWritten
  <2> QED BY <2>1, <2>2, <2>3 DEF PairLess
<1>7. \A m \in 1 .. n : last_head_ + m <= s[m][1]
  <2> DEFINE f == [m \in 1 .. n |-> s[m][1]]
  <2>1. /\ \A m \in 1 .. n : f[m] \in Nat /\ last_head_ < f[m]
        /\ \A k, m \in 1 .. n : k < m => f[k] < f[m]
    BY <1>5, <1>6
  <2>2. \A m \in 1 .. n : f[m] = s[m][1]
    OBVIOUS
  <2> HIDE DEF f
  <2>3. \A m \in 1 .. n : last_head_ + m <= f[m]
    BY <1>0, <1>2, <2>1, AscendingIsAbove
  <2> QED BY <2>2, <2>3
<1>8. RecTypeOK'
  <2>1. s \in Seq(Pairs)
    BY <1>3, <1>4
  <2>2. pos_push' \in [Producers -> Marks]
    BY <1>0, <1>1, MarksAre
  <2> QED BY <1>0, <1>1, <1>2, <2>1, <2>2 DEF RecTypeOK, RecPCs, locals, pushLocal, popLocal
<1>9. GapsAnnounced'
  BY <1>0, <1>1 DEF GapsAnnounced, Written
<1>10. PositionsWritten'
  <2>1. \A p \in Producers : pos_push'[p] = pos_push[p] \/ pos_push'[p] = ULONG_MAX
    BY <1>1
  <2> QED BY <1>0, <1>1, <2>1 DEF PositionsWritten, Written
<1>11. Moving'
  <2>1. \A p \in Producers : pos_push'[p] = ULONG_MAX \/ \E m \in 1 .. n : s[m][2] = p
    <3> SUFFICES ASSUME NEW p \in D PROVE \E m \in 1 .. n : s[m][2] = p
      BY <1>1
    <3>1. PICK m \in 1 .. n : s[m] = <<pos_push[p], p>>
      BY <1>3, <1>4
    <3> QED BY <3>1
  <2>2. /\ it' = 1 /\ i' = 0 /\ n_pushed' = Len(elems') /\ it' <= n_pushed' + 1
        /\ DOMAIN elems' = 1 .. n /\ i' = it' - 1
    BY <1>0, <1>1, <1>2, <1>4
  <2>3. \A m \in 1 .. n :
           /\ last_head_ + m <= s[m][1] /\ s[m][1] < head_ /\ s[m][2] \in Producers
           /\ pos_push'[s[m][2]] = IF m < 1 THEN last_head_ + m - 1 ELSE s[m][1]
    <3>1. \A m \in 1 .. n : ~ (m < 1)
      BY <1>2
    <3> QED BY <1>5, <1>7, <3>1
  <2>4. rec_pc' # "push_pos"
    BY <1>0
  <2>5. \A m \in DOMAIN elems' :
           /\ last_head_' + m <= elems'[m][1] /\ elems'[m][1] < head_'
           /\ elems'[m][2] \in Producers
           /\ pos_push'[elems'[m][2]] = IF m < it' THEN last_head_' + m - 1 ELSE elems'[m][1]
    BY <1>1, <2>2, <2>3
  <2>6. \A k, m \in DOMAIN elems' : k < m => /\ elems'[k][1] < elems'[m][1]
                                           /\ elems'[k][2] # elems'[m][2]
    BY <1>1, <1>6, <2>2
  <2>7. \A p \in Producers :
           pos_push'[p] = ULONG_MAX \/ \E m \in DOMAIN elems' : elems'[m][2] = p
    BY <1>1, <2>1, <2>2
  <2> QED BY <2>2, <2>4, <2>5, <2>6, <2>7 DEF Moving
<1>12. Recovering'
  BY <1>0, <1>1, <1>11 DEF Recovering, Stopped, LastHeadFound, locals, pushLocal
<1> QED BY <1>0, <1>8, <1>9, <1>10, <1>12 DEF RecInv

------------------------------------------------------------------------------
(* Moving the items down.                                                   *)

LEMMA PushCopyKeeps ==
    ASSUME RecInv, RecPushCopy
    PROVE  RecInv'
<1> DEFINE dst == last_head_ + i
           src == elems[it][1]
<1>0. /\ RecTypeOK /\ PositionsWritten /\ GapsAnnounced /\ Stopped /\ LastHeadFound /\ Moving
      /\ rec_pc = "push_copy" /\ it \in DOMAIN elems
      /\ last_head_ \in Nat /\ head_ \in Nat /\ i \in Nat /\ it \in Nat /\ n_pushed \in Nat
  BY MarksAre DEF RecInv, Recovering, RecPushCopy, RecTypeOK
<1>1. /\ src \in Nat /\ dst \in Nat /\ dst < src /\ src < head_
      /\ elems[it][2] \in Producers /\ pos_push[elems[it][2]] = src
  <2>1. elems[it] \in Nat \X Nat
    BY <1>0 DEF RecTypeOK, Pairs
  <2>2. src \in Nat
    BY <2>1
  <2>3. i = it - 1 /\ last_head_ + it <= src
    BY <1>0 DEF Moving
  <2>4. /\ src < head_ /\ elems[it][2] \in Producers
        /\ pos_push[elems[it][2]] = IF it < it THEN last_head_ + it - 1 ELSE src
    BY <1>0 DEF Moving
  <2>5. ~ (it < it)
    BY <1>0
  <2> HIDE DEF src
  <2> QED BY <1>0, <2>2, <2>3, <2>4, <2>5
<1>2. /\ rec_pc' = "push_pos"
      /\ ptr_array_' = [ptr_array_ EXCEPT ![Slot(dst)] = ptr_array_[Slot(src)]]
      /\ UNCHANGED <<head_, tail_, last_head_, last_tail_, thr_head, pos_push, thr_tail,
                     pos_pop, locals, elems, popped, n_pushed, it, i, before>>
  BY <1>1 DEF RecPushCopy
<1>3. /\ ptr_array_[Slot(src)] \in Items \cup {NoItem}
      /\ ptr_array_[Slot(src)] # NoItem
  <2>1. src # ULONG_MAX
    BY <1>0, <1>1, MarksAre DEF RecTypeOK
  <2> QED BY <1>0, <1>1, <2>1, Sets DEF PositionsWritten, Written, RecTypeOK
<1> HIDE DEF src
<1>4. dst' = dst
  BY <1>2
<1>5. /\ Written(dst)' /\ \A k \in Nat : Written(k) => Written(k)'
  <2> HIDE DEF dst
  <2>1. \A k \in Nat : Written(k) => Written(k)'
    BY <1>0, <1>1, <1>2, <1>3, Writing
  <2>2. ASSUME NEW k \in Nat, k = dst PROVE Written(k)'
    BY <1>0, <1>1, <1>2, <1>3, <2>2, Writing
  <2> QED BY <1>1, <1>4, <2>1, <2>2 DEF Written
<1>6. RecTypeOK'
  BY <1>0, <1>2, <1>3 DEF RecTypeOK, RecPCs, locals, pushLocal, popLocal
<1>7. GapsAnnounced'
  <2>1. \A k \in 0 .. head_ - 1 : k \in Nat
    BY <1>0
  <2> QED BY <1>0, <1>2, <1>5, <2>1 DEF GapsAnnounced
<1>8. PositionsWritten'
  <2> SUFFICES ASSUME NEW p \in Producers, pos_push[p] # ULONG_MAX
               PROVE  Written(pos_push[p])'
    BY <1>0, <1>2 DEF PositionsWritten
  <2> DEFINE k == pos_push[p]
  <2>1. k \in Nat /\ Written(k) /\ k' = k
    BY <1>0, <1>2, MarksAre DEF RecTypeOK, PositionsWritten
  <2> HIDE DEF k
  <2>2. Written(k)'
    BY <1>5, <2>1 DEF Written
  <2> QED BY <2>2 DEF k
<1>9. Moving'
  <2>1. it <= n_pushed
    BY <1>0 DEF Moving, RecTypeOK
  <2> QED BY <1>0, <1>2, <1>4, <1>5, <2>1 DEF Moving
<1>10. Recovering'
  BY <1>0, <1>2, <1>9 DEF Recovering, Stopped, LastHeadFound, locals, pushLocal
<1> QED BY <1>2, <1>6, <1>7, <1>8, <1>10 DEF RecInv

LEMMA PushPosKeeps ==
    ASSUME RecInv, RecPushPos
    PROVE  RecInv'
<1> DEFINE dst == last_head_ + i
           t == elems[it][2]
<1>0. /\ RecTypeOK /\ PositionsWritten /\ GapsAnnounced /\ Stopped /\ LastHeadFound /\ Moving
      /\ rec_pc = "push_pos" /\ rec_pc' = "push_copy" /\ elems \in Seq(Pairs)
      /\ last_head_ \in Nat /\ head_ \in Nat /\ i \in Nat /\ it \in Nat /\ n_pushed \in Nat
      /\ head_ \in Positions /\ pos_push \in [Producers -> Marks] /\ it # 0
  BY MarksAre DEF RecInv, Recovering, RecPushPos, RecGoto, RecTypeOK
<1>1. /\ it \in DOMAIN elems /\ it <= n_pushed /\ n_pushed = Len(elems) /\ i = it - 1
      /\ Written(dst)
  BY <1>0 DEF Moving
<1>2. /\ dst \in Nat /\ dst < elems[it][1] /\ elems[it][1] < head_ /\ elems[it][1] \in Nat
      /\ t \in Producers /\ dst = last_head_ + it - 1
  <2>1. elems[it] \in Nat \X Nat
    BY <1>0, <1>1 DEF Pairs
  <2>2. elems[it][1] \in Nat
    BY <2>1
  <2>3. /\ last_head_ + it <= elems[it][1] /\ elems[it][1] < head_
        /\ t \in Producers
    BY <1>0, <1>1 DEF Moving
  <2> HIDE DEF t
  <2> QED BY <1>0, <1>1, <2>2, <2>3
<1>3. dst < head_ /\ dst \in Positions /\ dst \in Marks /\ dst # ULONG_MAX
  <2>1. dst < head_
    BY <1>0, <1>2
  <2>2. dst \in Positions
    BY <1>0, <1>2, <2>1, MarksAre
  <2> QED BY <2>1, <2>2, MarksAre DEF Marks
<1>4. /\ pos_push' = [pos_push EXCEPT ![t] = dst] /\ it' = it + 1 /\ i' = i + 1
      /\ UNCHANGED <<head_, tail_, last_head_, last_tail_, thr_head, thr_tail, pos_pop,
                     ptr_array_, locals, elems, popped, n_pushed, before>>
  BY DEF RecPushPos
<1>5. RecTypeOK'
  <2>1. pos_push' \in [Producers -> Marks]
    BY <1>0, <1>3, <1>4
  <2>2. it' \in Nat \ {0} /\ i' \in Nat
    BY <1>0, <1>4
  <2> QED BY <1>0, <1>4, <2>1, <2>2 DEF RecTypeOK, RecPCs, locals, pushLocal, popLocal
<1>6. GapsAnnounced'
  BY <1>0, <1>4 DEF GapsAnnounced, Written
<1>7. \A m \in DOMAIN elems :
         /\ m \in Nat /\ elems[m][2] \in Producers /\ elems[m][1] \in Nat
         /\ last_head_ + m <= elems[m][1]
         /\ m # it => elems[m][2] # t
         /\ pos_push[elems[m][2]] = IF m < it THEN last_head_ + m - 1 ELSE elems[m][1]
         /\ pos_push'[elems[m][2]] = IF m < it + 1 THEN last_head_ + m - 1 ELSE elems[m][1]
  <2> SUFFICES ASSUME NEW m \in DOMAIN elems
               PROVE  /\ m \in Nat /\ elems[m][2] \in Producers /\ elems[m][1] \in Nat
                      /\ last_head_ + m <= elems[m][1]
                      /\ m # it => elems[m][2] # t
                      /\ pos_push[elems[m][2]] = IF m < it THEN last_head_ + m - 1 ELSE elems[m][1]
                      /\ pos_push'[elems[m][2]] = IF m < it + 1 THEN last_head_ + m - 1
                                                                ELSE elems[m][1]
    OBVIOUS
  <2>1. m \in Nat /\ elems[m][1] \in Nat
    BY <1>0 DEF Pairs
  <2>2. /\ elems[m][2] \in Producers /\ last_head_ + m <= elems[m][1]
        /\ pos_push[elems[m][2]] = IF m < it THEN last_head_ + m - 1 ELSE elems[m][1]
    BY <1>0 DEF Moving
  <2>3. m # it => elems[m][2] # t
    BY <1>0, <1>1, <2>1 DEF Moving
  <2>4. CASE m = it
    <3>1. m < it + 1 /\ pos_push'[elems[m][2]] = dst
      BY <1>0, <1>2, <1>4, <2>4
    <3> QED BY <1>2, <2>1, <2>2, <2>3, <2>4, <3>1
  <2>5. CASE m # it
    <3>1. pos_push'[elems[m][2]] = pos_push[elems[m][2]] /\ (m < it + 1 <=> m < it)
      <4>1. pos_push'[elems[m][2]] = pos_push[elems[m][2]]
        BY <1>0, <1>4, <2>2, <2>3, <2>5
      <4>2. m < it + 1 <=> m < it
        BY <1>0, <2>1, <2>5
      <4> QED BY <4>1, <4>2
    <3> QED BY <2>1, <2>2, <2>3, <3>1
  <2> QED BY <2>4, <2>5
<1>8. \A q \in Producers : q # t => pos_push[q] # dst
  <2> SUFFICES ASSUME NEW q \in Producers, q # t, pos_push[q] = dst PROVE FALSE
    OBVIOUS
  <2>1. PICK m \in DOMAIN elems : elems[m][2] = q
    BY <1>0, <1>3 DEF Moving
  <2> QED BY <1>0, <1>2, <1>7, <2>1
<1> HIDE DEF t
<1>9. PositionsWritten'
  <2> HIDE DEF dst
  <2>1. /\ pos_push'[t] = dst /\ t \in Producers
        /\ \A q \in Producers : q # t => pos_push'[q] = pos_push[q]
    BY <1>0, <1>2, <1>4
  <2> QED BY <1>0, <1>1, <1>3, <1>4, <1>8, <2>1 DEF PositionsWritten, Written
<1>10. Moving'
  <2>1. \A p \in Producers : pos_push'[p] = ULONG_MAX \/ \E m \in DOMAIN elems : elems[m][2] = p
    <3>1. \E m \in DOMAIN elems : elems[m][2] = t
      BY <1>1 DEF t
    <3> QED BY <1>0, <1>4, <3>1 DEF Moving
  <2>2. it + 1 <= n_pushed + 1 /\ i + 1 = (it + 1) - 1
    BY <1>0, <1>1
  <2> QED BY <1>0, <1>1, <1>4, <1>7, <2>1, <2>2 DEF Moving
<1>11. Recovering'
  BY <1>0, <1>4, <1>10 DEF Recovering, Stopped, LastHeadFound, locals, pushLocal
<1> QED BY <1>0, <1>5, <1>6, <1>9, <1>11 DEF RecInv

------------------------------------------------------------------------------
(* The items that were not popped move up, below last_head_.                *)

\* All pushed elements are in their places: no gap up to the last of them.
LEMMA AllMoved ==
    ASSUME RecInv, rec_pc = "push_copy", it > Len(elems)
    PROVE  /\ last_head_ + n_pushed <= head_ /\ FilledBelow(last_head_ + n_pushed)
           /\ \A p \in Producers : pos_push[p] = ULONG_MAX
                                   \/ pos_push[p] < last_head_ + n_pushed
<1> DEFINE n == n_pushed
           L == last_head_
<1>0. /\ PositionsWritten /\ GapsAnnounced /\ LastHeadFound /\ Moving /\ elems \in Seq(Pairs)
      /\ L \in Nat /\ head_ \in Nat /\ it \in Nat /\ n \in Nat /\ n = Len(elems)
      /\ thr_head \in [Producers -> Nat] /\ head_ < ULONG_MAX /\ ULONG_MAX \in Nat
      /\ n < it
  <2>1. /\ PositionsWritten /\ GapsAnnounced /\ LastHeadFound /\ Moving /\ elems \in Seq(Pairs)
        /\ L \in Nat /\ it \in Nat /\ n \in Nat /\ head_ \in Positions
        /\ thr_head \in [Producers -> Marks]
    BY MarksAre DEF RecInv, Recovering, RecTypeOK
  <2>2. n = Len(elems)
    BY <2>1 DEF Moving
  <2>3. thr_head \in [Producers -> Nat] /\ head_ \in Nat /\ head_ < ULONG_MAX
    BY <2>1, MarksAre
  <2> QED BY <2>1, <2>2, <2>3, Sizes
<1>1. \A m \in 1 .. n : /\ elems[m][2] \in Producers /\ elems[m][1] \in Nat
                        /\ L + m <= elems[m][1] /\ elems[m][1] < head_
                        /\ pos_push[elems[m][2]] = L + m - 1
  <2> SUFFICES ASSUME NEW m \in 1 .. n
               PROVE  /\ elems[m][2] \in Producers /\ elems[m][1] \in Nat
                      /\ L + m <= elems[m][1] /\ elems[m][1] < head_
                      /\ pos_push[elems[m][2]] = L + m - 1
    OBVIOUS
  <2>1. m \in DOMAIN elems /\ m < it /\ elems[m] \in Pairs
    BY <1>0
  <2> QED BY <1>0, <2>1 DEF Moving, Pairs
<1>2. L + n <= head_
  <2>1. CASE n = 0
    BY <1>0, <2>1 DEF LastHeadFound
  <2>2. CASE n # 0
    <3>1. n \in 1 .. n
      BY <1>0, <2>2
    <3> QED BY <1>0, <1>1, <3>1
  <2> QED BY <2>1, <2>2
<1>3. ASSUME NEW k \in 0 .. L + n - 1 PROVE Written(k)
  <2>1. CASE k < L
    <3>1. k \in 0 .. head_ - 1
      BY <1>0, <1>2
    <3>2. \A p \in Producers : ~ (thr_head[p] <= k)
      BY <1>0, <2>1 DEF LastHeadFound
    <3> QED BY <1>0, <3>1, <3>2 DEF GapsAnnounced
  <2>2. CASE ~ (k < L)
    <3>1. PICK m \in 1 .. n : k = L + m - 1
      <4>1. k - L + 1 \in 1 .. n /\ k = L + (k - L + 1) - 1
        BY <1>0, <2>2
      <4> QED BY <4>1
    <3>2. elems[m][2] \in Producers /\ pos_push[elems[m][2]] = k /\ k < ULONG_MAX
      BY <1>0, <1>1, <1>2, <3>1
    <3>3. k # ULONG_MAX
      BY <1>0, <3>2
    <3> QED BY <1>0, <3>2, <3>3 DEF PositionsWritten
  <2> QED BY <2>1, <2>2
<1>4. ASSUME NEW p \in Producers, pos_push[p] # ULONG_MAX PROVE pos_push[p] < L + n
  <2>1. PICK m \in 1 .. n : elems[m][2] = p
    BY <1>0, <1>4 DEF Moving
  <2> QED BY <1>0, <1>1, <2>1
<1>5. FilledBelow(last_head_ + n_pushed)
  BY <1>0, <1>3 DEF FilledBelow
<1> QED BY <1>2, <1>4, <1>5

\* The positions from each finished pop to below the next, with their threads.
Between(list) == UNION {{<<k, list[n][2]>> : k \in list[n - 1][1] .. list[n][1] - 1}
                          : n \in 2 .. Len(list)}

LEMMA BetweenIs ==
    ASSUME NEW L \in Nat, NEW list \in Seq(Pairs),
           \A m \in DOMAIN list : list[m][1] < L /\ list[m][2] \in Consumers
    PROVE  /\ Between(list) \in SUBSET Pairs /\ IsFiniteSet(Between(list))
           /\ \A e \in Between(list) : e[1] < L /\ e[2] \in Consumers
           /\ list = << >> => Between(list) = {}
<1>1. ASSUME NEW e \in Between(list)
      PROVE  e \in (0 .. L) \X Consumers /\ e[1] < L /\ list # << >>
  <2>1. PICK n \in 2 .. Len(list) :
               e \in {<<k, list[n][2]>> : k \in list[n - 1][1] .. list[n][1] - 1}
    BY DEF Between
  <2>2. PICK k \in list[n - 1][1] .. list[n][1] - 1 : e = <<k, list[n][2]>>
    BY <2>1
  <2>3. n \in DOMAIN list /\ n - 1 \in DOMAIN list
    OBVIOUS
  <2>4. list[n] \in Pairs /\ list[n - 1] \in Pairs
    BY <2>3
  <2>5. list[n][1] \in Nat /\ list[n - 1][1] \in Nat /\ list[n][1] < L /\ list[n][2] \in Consumers
    BY <2>3, <2>4 DEF Pairs
  <2>6. k \in 0 .. L /\ k < L
    BY <2>5
  <2> QED BY <2>2, <2>3, <2>5, <2>6
<1>2. IsFiniteSet((0 .. L) \X Consumers)
  <2>1. 0 \in Int /\ L \in Int
    OBVIOUS
  <2>2. IsFiniteSet(0 .. L)
    BY <2>1, FS_Interval
  <2>3. IsFiniteSet(Consumers)
    BY FiniteThreads
  <2> DEFINE A == 0 .. L
  <2> HIDE DEF A
  <2>4. IsFiniteSet(A \X Consumers)
    BY <2>2, <2>3, FS_Product DEF A
  <2> QED BY <2>4 DEF A
<1>3. Between(list) \in SUBSET ((0 .. L) \X Consumers)
  BY <1>1
<1>4. IsFiniteSet(Between(list))
  BY <1>2, <1>3, FS_Subset
<1>5. (0 .. L) \X Consumers \subseteq Pairs
  <2>1. 0 .. L \subseteq Nat /\ Consumers \subseteq Nat
    BY FiniteThreads
  <2> QED BY <2>1 DEF Pairs
<1> QED BY <1>1, <1>3, <1>4, <1>5

LEMMA PoppedKeeps ==
    ASSUME RecInv, RecPopped
    PROVE  RecInv'
<1> DEFINE D == {c \in Consumers : /\ thr_tail[c] = ULONG_MAX
                                    /\ pos_pop[c] > last_tail_
                                    /\ pos_pop[c] < last_head_}
           list == Sorted(PairSet(pos_pop, D))
           down == Sorted(Between(list))
<1>0. /\ RecTypeOK /\ PositionsWritten /\ GapsAnnounced /\ Stopped
      /\ rec_pc = "push_copy" /\ rec_pc' = "pop_copy" /\ it > Len(elems)
      /\ last_head_ \in Nat /\ ULONG_MAX \in Nat /\ pos_pop \in [Consumers -> Nat]
  BY MarksAre, Sizes DEF RecInv, Recovering, RecPopped, RecGoto, RecTypeOK
<1>1. /\ popped' = list /\ elems' = Reverse(down) /\ it' = 1 /\ i' = 0
      /\ pos_pop' = [c \in Consumers |-> IF c \in D THEN pos_pop[c] ELSE ULONG_MAX]
      /\ UNCHANGED <<head_, tail_, last_head_, last_tail_, thr_head, pos_push, thr_tail,
                     ptr_array_, locals, n_pushed, before>>
  BY DEF RecPopped, PairSet, Between
<1>2. /\ D \subseteq Consumers /\ D \subseteq Nat /\ IsFiniteSet(D)
      /\ \A c \in D : pos_pop[c] \in Nat /\ pos_pop[c] < last_head_
  <2>1. D \in SUBSET Consumers /\ \A c \in D : pos_pop[c] \in Nat /\ pos_pop[c] < last_head_
    BY <1>0
  <2> HIDE DEF D
  <2> QED BY <2>1, FiniteThreads
<1>3. pos_pop' \in [Consumers -> Nat]
  BY <1>0, <1>1
<1> HIDE DEF D
<1> DEFINE S == PairSet(pos_pop, D)
<1>4. /\ S \in SUBSET Pairs /\ IsFiniteSet(S)
      /\ \A e \in S : e[2] \in Consumers /\ e[1] < last_head_
  <2>1. Placed(pos_pop, D)
    BY <1>2 DEF Placed
  <2>2. /\ S \in SUBSET Pairs /\ IsFiniteSet(S)
        /\ \A e \in S : e[2] \in D /\ e[1] = pos_pop[e[2]]
    BY <2>1, PairsOf
  <2> HIDE DEF S
  <2> QED BY <1>2, <2>2
<1> HIDE DEF S
<1>5. list = Sorted(S)
  BY DEF S
<1> HIDE DEF list
<1>6. list \in Seq(S)
  BY <1>4, <1>5, SortedIs
<1>7. /\ list \in Seq(Pairs)
      /\ \A m \in DOMAIN list : list[m][1] < last_head_ /\ list[m][2] \in Consumers
  <2>1. \A m \in DOMAIN list : list[m] \in S
    BY <1>6
  <2> QED BY <1>4, <1>6, <2>1
<1> DEFINE U == Between(list)
<1>8. /\ U \in SUBSET Pairs /\ IsFiniteSet(U)
      /\ \A e \in U : e[1] < last_head_ /\ e[2] \in Consumers
      /\ list = << >> => U = {}
  BY <1>0, <1>7, BetweenIs
<1> HIDE DEF U
<1>9. down = Sorted(U)
  BY DEF U
<1> HIDE DEF down
<1>10. down \in Seq(U)
  BY <1>8, <1>9, SortedIs
<1>11. /\ elems' \in Seq(Pairs) /\ \A m \in DOMAIN elems' : elems'[m] \in U
       /\ elems' # << >> => U # {}
  <2>1. /\ Reverse(down) \in Seq(U)
    BY <1>10 DEF Reverse
  <2>2. elems' \in Seq(U)
    BY <1>1, <2>1
  <2>3. \A m \in DOMAIN elems' : elems'[m] \in U
    BY <2>2
  <2>4. elems' # << >> => \E m \in DOMAIN elems' : TRUE
    BY <2>2
  <2> QED BY <1>8, <2>2, <2>3, <2>4
<1>12. RecTypeOK'
  BY <1>0, <1>1, <1>3, <1>7, <1>11 DEF RecTypeOK, RecPCs, locals, pushLocal, popLocal
<1>13. GapsAnnounced' /\ PositionsWritten'
  BY <1>0, <1>1, SameSlots
<1>14. Moved'
  <2>1. /\ last_head_' + n_pushed' <= head_' /\ FilledBelow(last_head_ + n_pushed)'
        /\ \A p \in Producers : pos_push'[p] = ULONG_MAX
                                \/ pos_push'[p] < last_head_' + n_pushed'
    BY <1>0, <1>1, AllMoved DEF FilledBelow, Written
  <2>2. elems' # << >> => popped' # << >>
    BY <1>1, <1>8, <1>11
  <2>3. \A m \in DOMAIN elems' : elems'[m][1] < last_head_' /\ elems'[m][2] \in Consumers
    BY <1>1, <1>8, <1>11
  <2>4. rec_pc' # "pop_pos"
    BY <1>0
  <2> QED BY <2>1, <2>2, <2>3, <2>4 DEF Moved
<1>15. Recovering'
  BY <1>0, <1>1, <1>14 DEF Recovering, Stopped, locals, pushLocal
<1> QED BY <1>0, <1>12, <1>13, <1>15 DEF RecInv

LEMMA PopCopyKeeps ==
    ASSUME RecInv, RecPopCopy
    PROVE  RecInv'
<1> DEFINE dst == popped[Len(popped)][1] - i
           src == elems[it][1]
<1>0. /\ RecTypeOK /\ PositionsWritten /\ GapsAnnounced /\ Stopped /\ Moved
      /\ rec_pc = "pop_copy" /\ it <= Len(elems) /\ it \in DOMAIN elems
      /\ elems \in Seq(Pairs) /\ popped \in Seq(Pairs) /\ ptr_array_ \in [Slots -> Items \cup {NoItem}]
      /\ last_head_ \in Nat /\ head_ \in Nat /\ i \in Nat /\ it \in Nat /\ n_pushed \in Nat
  BY MarksAre DEF RecInv, Recovering, RecPopCopy, RecTypeOK
<1>1. /\ src \in Nat /\ src < last_head_ /\ dst \in Int
  <2>1. popped # << >>
    BY <1>0 DEF Moved
  <2>2. Len(popped) \in DOMAIN popped
    BY <1>0, <2>1
  <2>3. popped[Len(popped)] \in Pairs /\ elems[it] \in Pairs
    BY <1>0, <2>2
  <2>4. popped[Len(popped)][1] \in Nat /\ src \in Nat
    BY <2>3 DEF Pairs
  <2>5. src < last_head_
    BY <1>0 DEF Moved
  <2> HIDE DEF src
  <2> QED BY <1>0, <2>4, <2>5
<1>2. CASE ~ (dst > src)
  <2>1. /\ it' = it + 1
        /\ UNCHANGED <<rec_pc, ptr_array_, head_, tail_, last_head_, last_tail_, thr_head,
                       pos_push, thr_tail, pos_pop, locals, elems, popped, n_pushed, i, before>>
    BY <1>2 DEF RecPopCopy
  <2>2. RecTypeOK'
    <3>1. it' \in Nat \ {0}
      BY <1>0, <2>1
    <3> QED BY <1>0, <2>1, <3>1 DEF RecTypeOK, RecPCs, locals, pushLocal, popLocal
  <2>3. GapsAnnounced' /\ PositionsWritten'
    BY <1>0, <2>1, SameSlots
  <2>4. Moved'
    BY <1>0, <2>1 DEF Moved, FilledBelow, Written
  <2>5. Recovering'
    BY <1>0, <2>1, <2>4 DEF Recovering, Stopped, locals, pushLocal
  <2> QED BY <1>0, <2>1, <2>2, <2>3, <2>5 DEF RecInv
<1>3. CASE dst > src
  <2>1. /\ rec_pc' = "pop_pos"
        /\ ptr_array_' = [ptr_array_ EXCEPT ![Slot(dst)] = ptr_array_[Slot(src)]]
        /\ UNCHANGED <<head_, tail_, last_head_, last_tail_, thr_head, pos_push, thr_tail,
                       pos_pop, locals, elems, popped, n_pushed, it, i, before>>
    BY <1>3 DEF RecPopCopy
  <2>2. /\ dst \in Nat /\ dst' = dst /\ src' = src
        /\ ptr_array_[Slot(src)] \in Items \cup {NoItem} /\ ptr_array_[Slot(src)] # NoItem
    <3>1. src \in 0 .. last_head_ + n_pushed - 1
      BY <1>0, <1>1
    <3>2. Written(src)
      BY <1>0, <3>1 DEF Moved, FilledBelow
    <3>3. Slot(src) \in Slots
      BY <1>1, Sets
    <3>4. dst' = dst /\ src' = src
      BY <2>1
    <3> HIDE DEF src, dst
    <3>5. dst \in Nat
      BY <1>1, <1>3
    <3> QED BY <1>0, <3>2, <3>3, <3>4, <3>5 DEF Written
  <2> HIDE DEF dst, src
  <2>3. \A k \in Nat : Written(k) => Written(k)'
    BY <1>0, <2>1, <2>2, Writing
  <2>4. RecTypeOK'
    BY <1>0, <2>1, <2>2 DEF RecTypeOK, RecPCs, locals, pushLocal, popLocal
  <2>5. GapsAnnounced'
    <3>1. \A k \in 0 .. head_ - 1 : k \in Nat
      BY <1>0
    <3> QED BY <1>0, <2>1, <2>3, <3>1 DEF GapsAnnounced
  <2>6. PositionsWritten'
    <3> SUFFICES ASSUME NEW p \in Producers, pos_push[p] # ULONG_MAX
                 PROVE  Written(pos_push[p])'
      BY <1>0, <2>1 DEF PositionsWritten
    <3> DEFINE k == pos_push[p]
    <3>1. k \in Nat /\ Written(k) /\ k' = k
      BY <1>0, <2>1, MarksAre DEF RecTypeOK, PositionsWritten
    <3> HIDE DEF k
    <3>2. Written(k)'
      BY <2>3, <3>1 DEF Written
    <3> QED BY <3>2 DEF k
  <2>7. Moved'
    <3>1. FilledBelow(last_head_ + n_pushed)'
      <4>1. \A k \in 0 .. last_head_ + n_pushed - 1 : k \in Nat /\ Written(k)
        BY <1>0 DEF Moved, FilledBelow
      <4>2. \A k \in 0 .. last_head_ + n_pushed - 1 : Written(k)'
        BY <2>3, <4>1
      <4> QED BY <1>0, <2>1, <4>2 DEF FilledBelow
    <3>2. elems'[it'][1] < popped'[Len(popped')][1] - i'
      BY <1>1, <1>3, <2>1 DEF src, dst
    <3> QED BY <1>0, <2>1, <3>1, <3>2 DEF Moved
  <2>8. Recovering'
    BY <1>0, <2>1, <2>7 DEF Recovering, Stopped, locals, pushLocal
  <2> QED BY <1>0, <2>1, <2>4, <2>5, <2>6, <2>8 DEF RecInv
<1> QED BY <1>2, <1>3

LEMMA PopPosKeeps ==
    ASSUME RecInv, RecPopPos
    PROVE  RecInv'
<1> DEFINE dst == popped[Len(popped)][1] - i
           src == elems[it][1]
<1>0. /\ RecTypeOK /\ PositionsWritten /\ GapsAnnounced /\ Stopped /\ Moved
      /\ rec_pc = "pop_pos" /\ rec_pc' = "pop_copy"
      /\ elems \in Seq(Pairs) /\ popped \in Seq(Pairs) /\ pos_pop \in [Consumers -> Nat]
      /\ i \in Nat /\ it \in Nat /\ it # 0
  BY DEF RecInv, Recovering, RecPopPos, RecGoto, RecTypeOK
<1>1. it \in DOMAIN elems /\ src < dst
  BY <1>0 DEF Moved
<1>2. dst \in Nat
  <2>1. popped # << >>
    BY <1>0, <1>1 DEF Moved
  <2>2. Len(popped) \in DOMAIN popped
    BY <1>0, <2>1
  <2>3. popped[Len(popped)] \in Pairs /\ elems[it] \in Pairs
    BY <1>0, <1>1, <2>2
  <2>4. popped[Len(popped)][1] \in Nat /\ elems[it][1] \in Nat
    BY <2>3 DEF Pairs
  <2> QED BY <1>0, <1>1, <2>4
<1>3. /\ pos_pop' = [pos_pop EXCEPT ![elems[it][2]] = dst] /\ it' = it + 1 /\ i' = i + 1
      /\ UNCHANGED <<head_, tail_, last_head_, last_tail_, thr_head, pos_push, thr_tail,
                     ptr_array_, locals, elems, popped, n_pushed, before>>
  BY DEF RecPopPos
<1> HIDE DEF dst, src
<1>4. RecTypeOK'
  <2>1. pos_pop' \in [Consumers -> Nat]
    BY <1>0, <1>2, <1>3
  <2>2. it' \in Nat \ {0} /\ i' \in Nat
    BY <1>0, <1>3
  <2> QED BY <1>0, <1>3, <2>1, <2>2 DEF RecTypeOK, RecPCs, locals, pushLocal, popLocal
<1>5. GapsAnnounced' /\ PositionsWritten'
  BY <1>0, <1>3, SameSlots
<1>6. Moved'
  BY <1>0, <1>3 DEF Moved, FilledBelow, Written
<1>7. Recovering'
  BY <1>0, <1>3, <1>6 DEF Recovering, Stopped, locals, pushLocal
<1> QED BY <1>0, <1>4, <1>5, <1>7 DEF RecInv

------------------------------------------------------------------------------
(* The counters and the announcements.                                      *)

LEMMA AddHeadKeeps ==
    ASSUME RecInv, RecAddHead
    PROVE  RecInv'
<1>0. /\ RecTypeOK /\ PositionsWritten /\ GapsAnnounced /\ Stopped /\ Moved
      /\ rec_pc = "pop_copy" /\ rec_pc' = "set_head" /\ last_head_ \in Nat /\ n_pushed \in Nat
      /\ head_ \in Positions
  BY MarksAre DEF RecInv, Recovering, RecAddHead, RecGoto, RecTypeOK
<1>1. /\ last_head_' = last_head_ + n_pushed
      /\ UNCHANGED <<head_, tail_, last_tail_, thr_head, pos_push, thr_tail, pos_pop,
                     ptr_array_, locals, elems, popped, n_pushed, it, i, before>>
  BY DEF RecAddHead
<1>2. last_head_' \in Positions
  BY <1>0, <1>1, MarksAre DEF Moved
<1>3. RecTypeOK'
  BY <1>0, <1>1, <1>2 DEF RecTypeOK, RecPCs, locals, pushLocal, popLocal
<1>4. GapsAnnounced' /\ PositionsWritten'
  BY <1>0, <1>1, SameSlots
<1>5. Counted'
  BY <1>0, <1>1 DEF Moved, Counted, FilledBelow, Written
<1>6. Recovering'
  BY <1>0, <1>1, <1>5 DEF Recovering, Stopped, locals, pushLocal
<1> QED BY <1>0, <1>3, <1>4, <1>6 DEF RecInv

\* From here on head_ is the end of what is written.
LEMMA SetHeadKeeps ==
    ASSUME RecInv, RecSetHead
    PROVE  RecInv' /\ head_' <= head_
<1>0. /\ RecTypeOK /\ PositionsWritten /\ GapsAnnounced /\ Stopped /\ Counted
      /\ rec_pc = "set_head" /\ rec_pc' = "add_tail" /\ last_head_ \in Positions
  BY DEF RecInv, Recovering, RecSetHead, RecGoto, RecTypeOK
<1>1. /\ head_' = last_head_
      /\ UNCHANGED <<tail_, last_head_, last_tail_, thr_head, pos_push, thr_tail, pos_pop,
                     ptr_array_, locals, elems, popped, n_pushed, it, i, before>>
  BY DEF RecSetHead
<1>2. RecTypeOK'
  BY <1>0, <1>1 DEF RecTypeOK, RecPCs, locals, pushLocal, popLocal
<1>3. FilledBelow(head_)' /\ GapsAnnounced'
  BY <1>0, <1>1 DEF Counted, FilledBelow, Written, GapsAnnounced
<1>4. PositionsWritten'
  BY <1>0, <1>1 DEF Counted, PositionsWritten, Written
<1>5. Recovering'
  BY <1>0, <1>1, <1>3 DEF Recovering, Stopped, locals, pushLocal
<1> QED BY <1>0, <1>1, <1>2, <1>3, <1>4, <1>5 DEF RecInv, Counted

LEMMA AddTailKeeps ==
    ASSUME RecInv, RecAddTail
    PROVE  RecInv'
<1>0. /\ RecTypeOK /\ PositionsWritten /\ GapsAnnounced /\ Stopped /\ FilledBelow(head_)
      /\ rec_pc = "add_tail" /\ rec_pc' = "set_tail"
  BY DEF RecInv, Recovering, RecAddTail, RecGoto
<1>1. /\ last_tail_' = last_tail_ + Len(popped)
      /\ UNCHANGED <<head_, tail_, last_head_, thr_head, pos_push, thr_tail, pos_pop,
                     ptr_array_, locals, elems, popped, n_pushed, it, i, before>>
  BY DEF RecAddTail
<1>2. last_tail_' \in Nat
  BY <1>0, <1>1 DEF RecTypeOK
<1>3. RecTypeOK'
  BY <1>0, <1>1, <1>2 DEF RecTypeOK, RecPCs, locals, pushLocal, popLocal
<1>4. GapsAnnounced' /\ PositionsWritten'
  BY <1>0, <1>1, SameSlots
<1>5. Recovering'
  BY <1>0, <1>1 DEF Recovering, Stopped, FilledBelow, Written, locals, pushLocal
<1> QED BY <1>0, <1>3, <1>4, <1>5 DEF RecInv

LEMMA SetTailKeeps ==
    ASSUME RecInv, RecSetTail
    PROVE  RecInv'
<1>0. /\ RecTypeOK /\ PositionsWritten /\ GapsAnnounced /\ Stopped /\ FilledBelow(head_)
      /\ rec_pc = "set_tail" /\ rec_pc' = "heads"
  BY DEF RecInv, Recovering, RecSetTail, RecGoto
<1>1. /\ tail_' = last_tail_ /\ i' = 0
      /\ UNCHANGED <<head_, last_head_, last_tail_, thr_head, pos_push, thr_tail, pos_pop,
                     ptr_array_, locals, elems, popped, n_pushed, it, before>>
  BY DEF RecSetTail
<1>2. RecTypeOK'
  BY <1>0, <1>1 DEF RecTypeOK, RecPCs, locals, pushLocal, popLocal
<1>3. GapsAnnounced' /\ PositionsWritten'
  BY <1>0, <1>1, SameSlots
<1>4. \A p \in Producers : ~ (p < 0)
  BY FiniteThreads
<1>5. Recovering'
  BY <1>0, <1>1, <1>4 DEF Recovering, Stopped, FilledBelow, Written, locals, pushLocal
<1> QED BY <1>0, <1>2, <1>3, <1>5 DEF RecInv

LEMMA HeadsKeeps ==
    ASSUME RecInv, RecHeads
    PROVE  RecInv'
<1>0. /\ RecTypeOK /\ PositionsWritten /\ GapsAnnounced /\ Stopped /\ FilledBelow(head_)
      /\ rec_pc = "heads" /\ i \in Nat /\ thr_head \in [Producers -> Marks]
      /\ \A p \in Producers : p < i => thr_head[p] = ULONG_MAX
      /\ UNCHANGED <<head_, tail_, last_head_, last_tail_, pos_push, thr_tail, pos_pop,
                     ptr_array_, locals, elems, popped, n_pushed, it, before>>
  BY DEF RecInv, Recovering, RecHeads, RecTypeOK
<1>1. FilledBelow(head_)' /\ GapsAnnounced' /\ PositionsWritten'
  BY <1>0 DEF FilledBelow, Written, GapsAnnounced, PositionsWritten
<1>2. CASE i < NProducers
  <2>1. thr_head' = [thr_head EXCEPT ![i] = ULONG_MAX] /\ i' = i + 1 /\ rec_pc' = "heads"
    BY <1>0, <1>2 DEF RecHeads
  <2>2. thr_head' \in [Producers -> Marks] /\ i' \in Nat
    <3>1. thr_head' \in [Producers -> Marks]
      BY <1>0, <2>1, MarksAre
    <3>2. i' \in Nat
      BY <1>0, <2>1
    <3> QED BY <3>1, <3>2
  <2>3. RecTypeOK'
    BY <1>0, <2>1, <2>2 DEF RecTypeOK, RecPCs, locals, pushLocal, popLocal
  <2>4. \A p \in Producers : p < i' => thr_head'[p] = ULONG_MAX
    <3>1. \A p \in Producers : p \in Nat
      BY FiniteThreads
    <3>2. \A p \in Producers : p < i + 1 => p = i \/ p < i
      BY <1>0, <3>1
    <3> QED BY <1>0, <2>1, <3>2
  <2>5. Recovering'
    BY <1>0, <1>1, <2>1, <2>4 DEF Recovering, Stopped, locals, pushLocal
  <2> QED BY <1>1, <2>1, <2>3, <2>5 DEF RecInv
<1>3. CASE ~ (i < NProducers)
  <2>1. UNCHANGED thr_head /\ i' = 0 /\ rec_pc' = "tails"
    BY <1>0, <1>3 DEF RecHeads
  <2>2. RecTypeOK'
    BY <1>0, <2>1 DEF RecTypeOK, RecPCs, locals, pushLocal, popLocal
  <2>3. \A p \in Producers : thr_head'[p] = ULONG_MAX
    BY <1>0, <1>3, <2>1, Ids, Sizes
  <2>4. Recovering'
    BY <1>0, <1>1, <2>1, <2>3 DEF Recovering, Stopped, locals, pushLocal
  <2> QED BY <1>1, <2>1, <2>2, <2>4 DEF RecInv
<1> QED BY <1>2, <1>3

LEMMA TailsKeeps ==
    ASSUME RecInv, RecTails
    PROVE  RecInv'
<1>0. /\ RecTypeOK /\ PositionsWritten /\ GapsAnnounced /\ Stopped /\ FilledBelow(head_)
      /\ rec_pc = "tails" /\ i \in Nat /\ thr_tail \in [Consumers -> Nat]
      /\ \A p \in Producers : thr_head[p] = ULONG_MAX
      /\ UNCHANGED <<head_, tail_, last_head_, last_tail_, thr_head, pos_push, pos_pop,
                     ptr_array_, locals>>
  BY DEF RecInv, Recovering, RecTails, RecTypeOK
<1>1. GapsAnnounced' /\ PositionsWritten'
  BY <1>0, SameSlots
<1>2. CASE i < NConsumers
  <2>1. /\ thr_tail' = [thr_tail EXCEPT ![i] = ULONG_MAX] /\ i' = i + 1
        /\ UNCHANGED <<rec_pc, elems, popped, n_pushed, it>>
    BY <1>0, <1>2 DEF RecTails
  <2>2. thr_tail' \in [Consumers -> Nat] /\ i' \in Nat
    <3>1. thr_tail' \in [Consumers -> Nat]
      BY <1>0, <2>1, Sizes
    <3>2. i' \in Nat
      BY <1>0, <2>1
    <3> QED BY <3>1, <3>2
  <2>3. RecTypeOK'
    BY <1>0, <2>1, <2>2 DEF RecTypeOK, locals, pushLocal, popLocal
  <2>4. Recovering'
    BY <1>0, <2>1 DEF Recovering, Stopped, FilledBelow, Written, locals, pushLocal
  <2> QED BY <1>0, <1>1, <2>1, <2>3, <2>4 DEF RecInv
<1>3. CASE ~ (i < NConsumers)
  <2>1. /\ rec_pc' = "up" /\ elems' = << >> /\ popped' = << >> /\ n_pushed' = 0
        /\ it' = 1 /\ i' = 0 /\ UNCHANGED thr_tail
    BY <1>0, <1>3 DEF RecTails
  <2>2. RecTypeOK'
    BY <1>0, <2>1 DEF RecTypeOK, RecPCs, locals, pushLocal, popLocal
  <2>3. \A p \in Producers : push_pc'[p] = "idle" /\ thr_head'[p] = ULONG_MAX
    BY <1>0 DEF Stopped, locals, pushLocal
  <2>4. HoldersAnnounce' /\ TicketsDistinct'
    BY <2>3 DEF HoldersAnnounce, TicketsDistinct, PushHolds
  <2>5. GapsHeld'
    BY <1>0 DEF GapsHeld, FilledBelow, Written
  <2> QED BY <1>1, <2>1, <2>2, <2>4, <2>5 DEF RecInv, Running
<1> QED BY <1>2, <1>3

------------------------------------------------------------------------------
(* The theorems.                                                            *)

LEMMA RecInitInv == RecInit => RecInv
<1> SUFFICES ASSUME RecInit PROVE RecInv
  OBVIOUS
<1>1. /\ head_ = 0 /\ rec_pc = "up" /\ pos_push = [p \in Producers |-> ULONG_MAX]
      /\ thr_head = [p \in Producers |-> ULONG_MAX]
      /\ push_pc = [p \in Producers |-> "idle"]
  BY DEF RecInit, Init
<1>2. GapsAnnounced /\ GapsHeld
  BY <1>1 DEF GapsAnnounced, GapsHeld
<1>3. PositionsWritten
  BY <1>1 DEF PositionsWritten
<1>4. HoldersAnnounce /\ TicketsDistinct
  BY <1>1 DEF HoldersAnnounce, TicketsDistinct, PushHolds
<1> QED BY <1>1, <1>2, <1>3, <1>4, RecInitTypeOK DEF RecInv, Running

LEMMA RecNextInv ==
    ASSUME RecInv, [RecNext]_allVars
    PROVE  RecInv'
<1>1. CASE RunStep      BY <1>1, RunKeeps
<1>2. CASE Crash        BY <1>2, CrashKeeps
<1>3. CASE RecLastHead  BY <1>3, LastHeadKeeps
<1>4. CASE RecLastTail  BY <1>4, LastTailKeeps
<1>5. CASE RecPushed    BY <1>5, PushedKeeps
<1>6. CASE RecPushCopy  BY <1>6, PushCopyKeeps
<1>7. CASE RecPushPos   BY <1>7, PushPosKeeps
<1>8. CASE RecPopped    BY <1>8, PoppedKeeps
<1>9. CASE RecPopCopy   BY <1>9, PopCopyKeeps
<1>10. CASE RecPopPos   BY <1>10, PopPosKeeps
<1>11. CASE RecAddHead  BY <1>11, AddHeadKeeps
<1>12. CASE RecSetHead  BY <1>12, SetHeadKeeps
<1>13. CASE RecAddTail  BY <1>13, AddTailKeeps
<1>14. CASE RecSetTail  BY <1>14, SetTailKeeps
<1>15. CASE RecHeads    BY <1>15, HeadsKeeps
<1>16. CASE RecTails    BY <1>16, TailsKeeps
<1>17. CASE UNCHANGED allVars
  BY <1>17 DEF allVars, recVars, vars, shared, pushLocal, popLocal, RecInv, RecTypeOK,
     GapsAnnounced, PositionsWritten, Written, Running, HoldersAnnounce, TicketsDistinct,
     GapsHeld, PushHolds, PushTicket, PushUnwritten, Recovering, Stopped, LastHeadFound,
     Moving, Moved, Counted, FilledBelow
<1> QED
  BY <1>1, <1>2, <1>3, <1>4, <1>5, <1>6, <1>7, <1>8, <1>9, <1>10, <1>11, <1>12,
     <1>13, <1>14, <1>15, <1>16, <1>17
  DEF RecNext, RecStep

\* The invariant holds of push(), pop() and recover(), whenever the process is
\* killed and however often recover() is cut short and starts again.
THEOREM RecoveryInvariance == RecSpec => []RecInv
<1>1. RecInv /\ [RecNext]_allVars => RecInv'
  BY RecNextInv
<1> QED BY <1>1, RecInitInv, PTL DEF RecSpec

\* When recover() starts the threads again no ticket below head_ leads to a slot
\* that no push() had filled.
THEOREM NothingUnwritten == RecSpec => []NoHoles
<1>1. RecInv => NoHoles
  <2> SUFFICES ASSUME RecInv, rec_pc \in {"heads", "tails"}, NEW k \in Positions, k < head_
               PROVE  Written(k)
    BY DEF NoHoles, Written
  <2>1. FilledBelow(head_) /\ head_ \in Nat /\ k \in Nat
    BY MarksAre DEF RecInv, RecTypeOK, Recovering
  <2> QED BY <2>1 DEF FilledBelow
<1> QED BY <1>1, RecoveryInvariance, PTL

\* recover() gives push tickets back and hands none out.
THEOREM NoTicketMadeUp == RecSpec => NoPushMadeUp
<1>1. RecInv /\ [RecNext]_allVars => [rec_pc # "up" => head_' <= head_]_allVars
  <2> SUFFICES ASSUME RecInv, RecNext, rec_pc # "up" PROVE head_' <= head_
    OBVIOUS
  <2>1. head_ \in Nat
    BY MarksAre DEF RecInv, RecTypeOK
  <2>2. CASE Crash
    BY <2>1, <2>2 DEF Crash, shared
  <2>3. CASE RecSetHead
    BY <2>3, SetHeadKeeps
  <2>4. CASE RecStep /\ ~ RecSetHead
    <3>1. head_' = head_
      BY <2>4 DEF RecStep, RecLastHead, RecLastTail, RecPushed, RecPushCopy, RecPushPos,
         RecPopped, RecPopCopy, RecPopPos, RecAddHead, RecAddTail, RecSetTail, RecHeads,
         RecTails
    <3> QED BY <2>1, <3>1
  <2> QED BY <2>2, <2>3, <2>4 DEF RecNext, RunStep
<1> QED BY <1>1, RecoveryInvariance, PTL DEF RecSpec, NoPushMadeUp
==============================================================================
