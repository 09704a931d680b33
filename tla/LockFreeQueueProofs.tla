------------------------- MODULE LockFreeQueueProofs -------------------------
(***************************************************************************)
(* LockFreeQueue for any number of threads, any ring size, any items and   *)
(* any number of operations: its inductive invariant, and what follows.    *)
(***************************************************************************)
EXTENDS LockFreeQueue, Integers, TLAPS

------------------------------------------------------------------------------
(* The sets the variables range over, without their intervals.              *)

LEMMA Sets ==
    /\ \A k : k \in Positions <=> k \in Nat /\ k <= MaxTicket
    /\ \A k : k \in Marks <=> k \in Positions \/ k = ULONG_MAX
    /\ \A k \in Nat : Slot(k) \in Slots
BY QueueAssumption DEF Positions, Marks, Slot, Slots

LEMMA Ids ==
    /\ \A p : p \in Producers <=> p \in Nat /\ p < NProducers
    /\ \A c : c \in Consumers <=> c \in Nat /\ c < NConsumers
BY QueueAssumption DEF Producers, Consumers

\* Two tickets less than one round apart have different slots.
LEMMA SlotsDiffer ==
    ASSUME NEW k \in Nat, NEW r \in Nat, k < r, r < k + Q_SIZE
    PROVE  Slot(k) # Slot(r)
<1> DEFINE q == Q_SIZE
<1>1. q \in Nat /\ q > 0
  BY QueueAssumption
<1>2. ASSUME NEW m \in Int PROVE q * m <= 0 \/ q * m >= q
  <2>1. CASE m <= 0
    BY <1>1, <2>1
  <2>2. CASE m >= 1
    BY <1>1, <2>2
  <2> QED BY <2>1, <2>2
<1>3. /\ k = (q * (k \div q)) + (k % q) /\ (k \div q) \in Int
      /\ r = (q * (r \div q)) + (r % q) /\ (r \div q) \in Int
  BY <1>1
<1>4. ASSUME k % q = r % q PROVE FALSE
  <2> DEFINE m == (r \div q) - (k \div q)
  <2>1. r - k = q * m /\ m \in Int
    BY <1>1, <1>3, <1>4
  <2>2. q * m <= 0 \/ q * m >= q
    BY <1>2, <2>1
  <2> HIDE DEF m
  <2> QED BY <1>1, <2>1, <2>2
<1> QED BY <1>4 DEF Slot

------------------------------------------------------------------------------
(* Type correctness.                                                        *)

LEMMA InitTypeOK == Init => TypeOK
BY QueueAssumption, Sets DEF Init, TypeOK, PCs

LEMMA PushTypeOK ==
    ASSUME TypeOK, NEW p \in Producers,
           (\E x \in Items : PushCall(p, x)) \/ PushStep(p)
    PROVE  TypeOK'
<1> USE QueueAssumption, Sets
    DEF TypeOK, PCs, PushGoto, shared, popLocal
<1>1. ASSUME NEW x \in Items, PushCall(p, x) PROVE TypeOK'
  BY <1>1 DEF PushCall
<1>2. CASE PushLoad(p)      BY <1>2 DEF PushLoad
<1>3. CASE PushAnnounce(p)  BY <1>3 DEF PushAnnounce
<1>4. CASE PushTake(p)      BY <1>4 DEF PushTake
<1>5. CASE PushRecord(p)    BY <1>5 DEF PushRecord
<1>6. CASE PushCheck(p)     BY <1>6 DEF PushCheck
<1>7. CASE PushFind(p)      BY <1>7 DEF PushFind
<1>8. CASE PushScan(p)
  <2>1. push_i[p] \in Consumers /\ push_i[p] + 1 \in 0 .. NConsumers
    BY <1>8, Ids DEF PushScan
  <2>2. Lesser(thr_tail[push_i[p]], push_min[p]) \in Positions
    BY <2>1 DEF Lesser
  <2> QED BY <1>8, <2>1, <2>2 DEF PushScan
<1>9. CASE PushUpdate(p)    BY <1>9 DEF PushUpdate
<1>10. CASE PushCopy(p)     BY <1>10 DEF PushCopy
<1>11. CASE PushPos(p)      BY <1>11 DEF PushPos
<1>12. CASE PushRelease(p)  BY <1>12 DEF PushRelease
<1> QED
  BY <1>1, <1>2, <1>3, <1>4, <1>5, <1>6, <1>7, <1>8, <1>9, <1>10, <1>11, <1>12
  DEF PushStep

LEMMA PopTypeOK ==
    ASSUME TypeOK, NEW c \in Consumers, PopCall(c) \/ PopStep(c)
    PROVE  TypeOK'
<1> USE QueueAssumption, Sets
    DEF TypeOK, PCs, PopGoto, shared, pushLocal
<1>1. CASE PopCall(c)      BY <1>1 DEF PopCall
<1>2. CASE PopLoad(c)      BY <1>2 DEF PopLoad
<1>3. CASE PopAnnounce(c)  BY <1>3 DEF PopAnnounce
<1>4. CASE PopTake(c)      BY <1>4 DEF PopTake
<1>5. CASE PopRecord(c)    BY <1>5 DEF PopRecord
<1>6. CASE PopCheck(c)     BY <1>6 DEF PopCheck
<1>7. CASE PopFind(c)      BY <1>7 DEF PopFind
<1>8. CASE PopScan(c)
  <2>1. pop_i[c] \in Producers /\ pop_i[c] + 1 \in 0 .. NProducers
    BY <1>8, Ids DEF PopScan
  <2>2. Lesser(thr_head[pop_i[c]], pop_min[c]) \in Positions
    BY <2>1 DEF Lesser
  <2> QED BY <1>8, <2>1, <2>2 DEF PopScan
<1>9. CASE PopUpdate(c)    BY <1>9 DEF PopUpdate
<1>10. CASE PopCopy(c)     BY <1>10 DEF PopCopy
<1>11. CASE PopPos(c)      BY <1>11 DEF PopPos
<1>12. CASE PopRelease(c)  BY <1>12 DEF PopRelease
<1> QED
  BY <1>1, <1>2, <1>3, <1>4, <1>5, <1>6, <1>7, <1>8, <1>9, <1>10, <1>11, <1>12
  DEF PopStep

LEMMA StutterTypeOK == TypeOK /\ UNCHANGED vars => TypeOK'
BY DEF TypeOK, vars, shared, pushLocal, popLocal

\* Every variable keeps its type, whatever the sizes: counters stay within the
\* tickets given out, marks are a ticket or ULONG_MAX, scans stay in thr_p_.
THEOREM TypeCorrect == Spec => []TypeOK
<1>1. TypeOK /\ [Next]_vars => TypeOK'
  BY PushTypeOK, PopTypeOK, StutterTypeOK DEF Next
<1> QED BY InitTypeOK, <1>1, PTL DEF Spec

------------------------------------------------------------------------------
(* push() preserves the invariant.                                          *)

\* Most steps of push() leave the tickets alone: who holds one, and which.
PushKept ==
    /\ UNCHANGED <<head_, tail_, last_head_, thr_tail, popLocal>>
    /\ \A o \in Producers : /\ PushHolds(o)' <=> PushHolds(o)
                            /\ PushHolds(o) => PushTicket(o)' = PushTicket(o)

\* No producer that has a ticket gets past its check.
PushUncheckedKept == \A o \in Producers : PushUnchecked(o) => PushUnchecked(o)'

\* No producer starts a scan or goes on with one.
PushScansKept ==
    \A o \in Producers : push_pc'[o] = "scan" =>
        push_pc[o] = "scan" /\ push_min'[o] = push_min[o] /\ push_i'[o] = push_i[o]

\* A step that leaves the tickets alone can disturb its own announcement, and
\* what it does to a scan, a cached bound or a check.
LEMMA PushKeptInv ==
    ASSUME Inv, PushKept
    PROVE  /\ PopAnnounced' /\ PopDistinct' /\ PopScanning'
           /\ PushDistinct' /\ LastHeadSound'
           /\ ConsumerCleared' /\ ConsumerWaits'
           /\ PushScansKept => PushScanning'
           /\ UNCHANGED last_tail_ => LastTailSound'
           /\ PushUncheckedKept => WithinOneRound'
<1>1. \A c \in Consumers : /\ PopHolds(c)' <=> PopHolds(c)
                           /\ PopTicket(c)' = PopTicket(c)
  BY DEF PushKept, popLocal, PopHolds, PopTicket
<1>2. PopAnnounced'
  BY <1>1 DEF PushKept, Inv, PopAnnounced, popLocal
<1>3. PopDistinct'
  BY <1>1 DEF Inv, PopDistinct
<1>4. PopScanning'
  BY DEF PushKept, Inv, PopScanning, popLocal
<1>5. PushDistinct'
  BY DEF PushKept, Inv, PushDistinct
<1>6. LastHeadSound'
  BY DEF PushKept, Inv, LastHeadSound
<1>7. ConsumerCleared'
  BY DEF PushKept, Inv, ConsumerCleared, popLocal, PopTicket, PushHolds, PushTicket
<1>8. ConsumerWaits'
  BY DEF PushKept, Inv, ConsumerWaits, popLocal, PopHolds, PopTicket, PushHolds, PushTicket
<1>9. PushScansKept => PushScanning'
  BY <1>1 DEF PushKept, PushScansKept, Inv, PushScanning
<1>10. UNCHANGED last_tail_ => LastTailSound'
  BY <1>1 DEF PushKept, Inv, LastTailSound
<1>11. PushUncheckedKept => WithinOneRound'
  <2>1. \A o \in Producers : PushUnchecked(o) => PushTicket(o)' = PushTicket(o)
    BY DEF PushKept, PushUnchecked, PushHolds
  <2> QED BY <1>1, <2>1 DEF PushKept, PushUncheckedKept, Inv, WithinOneRound
<1> QED
  BY <1>2, <1>3, <1>4, <1>5, <1>6, <1>7, <1>8, <1>9, <1>10, <1>11

LEMMA PushInv ==
    ASSUME Inv, NEW p \in Producers,
           (\E x \in Items : PushCall(p, x)) \/ PushStep(p)
    PROVE  Inv'
<1> USE QueueAssumption, Sets DEF TypeOK, PCs, PushGoto, PushHolds, PushTicket
<1>0. TypeOK /\ TypeOK'
  BY PushTypeOK DEF Inv
<1>1. ASSUME NEW x \in Items, PushCall(p, x) PROVE Inv'
  <2>1. PushKept
    BY <1>0, <1>1 DEF PushCall, PushKept, shared
  <2>2. PushScansKept /\ UNCHANGED last_tail_ /\ PushUncheckedKept
    BY <1>0, <1>1 DEF PushCall, PushScansKept, shared, PushUncheckedKept, PushUnchecked
  <2>3. PushAnnounced'
    BY <1>0, <1>1, <2>1 DEF PushCall, PushKept, Inv, PushAnnounced, shared
  <2> QED BY <1>0, <2>1, <2>2, <2>3, PushKeptInv DEF Inv
<1>2. CASE PushLoad(p)
  <2>1. PushKept
    BY <1>0, <1>2 DEF PushLoad, PushKept, shared
  <2>2. PushScansKept /\ UNCHANGED last_tail_ /\ PushUncheckedKept
    BY <1>0, <1>2 DEF PushLoad, PushScansKept, shared, PushUncheckedKept, PushUnchecked
  <2>3. PushAnnounced'
    BY <1>0, <1>2, <2>1 DEF PushLoad, PushKept, Inv, PushAnnounced, shared
  <2> QED BY <1>0, <2>1, <2>2, <2>3, PushKeptInv DEF Inv
<1>3. CASE PushAnnounce(p)
  <2>1. PushKept
    BY <1>0, <1>3 DEF PushAnnounce, PushKept, shared
  <2>2. PushScansKept /\ UNCHANGED last_tail_ /\ PushUncheckedKept
    BY <1>0, <1>3 DEF PushAnnounce, PushScansKept, shared, PushUncheckedKept, PushUnchecked
  <2>3. PushAnnounced'
    BY <1>0, <1>3, <2>1 DEF PushAnnounce, PushKept, Inv, PushAnnounced, shared
  <2> QED BY <1>0, <2>1, <2>2, <2>3, PushKeptInv DEF Inv
<1>4. CASE PushTake(p)
  <2> USE <1>0, <1>4 DEF PushTake, Inv, PopHolds, PopTicket, popLocal
  <2>1. PushAnnounced' BY DEF PushAnnounced
  <2>2. PopAnnounced'  BY DEF PopAnnounced
  <2>3. PushDistinct'  BY DEF PushDistinct, PushAnnounced
  <2>4. PopDistinct'   BY DEF PopDistinct
  <2>5. PushScanning'  BY DEF PushScanning
  <2>6. PopScanning'   BY DEF PopScanning
  <2>7. LastHeadSound' BY DEF LastHeadSound
  <2>8. LastTailSound' BY DEF LastTailSound
  <2>9. ConsumerCleared'
    BY DEF ConsumerCleared
  <2>10. WithinOneRound'
    BY DEF WithinOneRound, PushUnchecked
  <2>11. ConsumerWaits'
    BY DEF ConsumerWaits
  <2> QED
    BY <2>1, <2>2, <2>3, <2>4, <2>5, <2>6, <2>7, <2>8, <2>9, <2>10, <2>11
<1>5. CASE PushRecord(p)
  <2>1. PushKept
    BY <1>0, <1>5 DEF PushRecord, PushKept, shared
  <2>2. PushScansKept /\ UNCHANGED last_tail_ /\ PushUncheckedKept
    BY <1>0, <1>5 DEF PushRecord, PushScansKept, shared, PushUncheckedKept, PushUnchecked
  <2>3. PushAnnounced'
    BY <1>0, <1>5, <2>1 DEF PushRecord, PushKept, Inv, PushAnnounced, shared
  <2> QED BY <1>0, <2>1, <2>2, <2>3, PushKeptInv DEF Inv
<1>6. CASE PushCheck(p)
  <2>1. PushKept
    BY <1>0, <1>6 DEF PushCheck, PushKept, shared
  <2>2. PushScansKept /\ UNCHANGED last_tail_
    BY <1>0, <1>6 DEF PushCheck, PushScansKept, shared
  <2>3. PushAnnounced'
    BY <1>0, <1>6, <2>1 DEF PushCheck, PushKept, Inv, PushAnnounced, shared
  <2>4. WithinOneRound'
    <3> SUFFICES ASSUME NEW k \in Positions, k < head_',
                        ~ \E o \in Producers : PushUnchecked(o)' /\ PushTicket(o)' = k
                 PROVE  /\ k < tail_' + Q_SIZE
                        /\ \A c \in Consumers : PopHolds(c)' => k < PopTicket(c)' + Q_SIZE
      BY DEF WithinOneRound
    <3>1. CASE \E o \in Producers : PushUnchecked(o) /\ PushTicket(o) = k
      <4>1. PICK o \in Producers : PushUnchecked(o) /\ PushTicket(o) = k
        BY <3>1
      <4>2. o = p /\ push_pc'[p] = "copy" /\ k = thr_head[p]
        BY <1>0, <1>6, <4>1 DEF PushCheck, PushUnchecked, shared
      <4>3. k < last_tail_ + Q_SIZE
        BY <1>0, <1>6, <4>2 DEF PushCheck
      <4> QED
        BY <1>0, <1>6, <4>3 DEF PushCheck, Inv, LastTailSound, PopHolds, PopTicket,
           shared, popLocal
    <3>2. CASE ~ \E o \in Producers : PushUnchecked(o) /\ PushTicket(o) = k
      BY <1>6, <3>2 DEF PushCheck, Inv, WithinOneRound, PopHolds, PopTicket,
         shared, popLocal
    <3> QED BY <3>1, <3>2
  <2> QED BY <1>0, <2>1, <2>2, <2>3, <2>4, PushKeptInv DEF Inv
<1>7. CASE PushFind(p)
  <2>1. PushKept
    BY <1>0, <1>7 DEF PushFind, PushKept, shared
  <2>2. UNCHANGED last_tail_ /\ PushUncheckedKept
    BY <1>0, <1>7 DEF PushFind, shared, PushUncheckedKept, PushUnchecked
  <2>3. PushAnnounced'
    BY <1>0, <1>7, <2>1 DEF PushFind, PushKept, Inv, PushAnnounced, shared
  <2>4. PushScanning'
    <3>1. push_min'[p] = tail_ /\ push_i'[p] = 0
      BY <1>0, <1>7 DEF PushFind
    <3>2. ASSUME NEW o \in Producers, o # p
          PROVE  UNCHANGED <<push_pc[o], push_min[o], push_i[o]>>
      BY <1>0, <1>7, <3>2 DEF PushFind
    <3>3. UNCHANGED <<tail_, thr_tail, popLocal>>
      BY <1>7 DEF PushFind, shared
    <3> QED
      BY <1>0, <3>1, <3>2, <3>3, Ids
      DEF Inv, PushScanning, PopHolds, PopTicket, popLocal
  <2> QED BY <1>0, <2>1, <2>2, <2>3, <2>4, PushKeptInv DEF Inv
<1>8. CASE PushScan(p)
  <2>1. PushKept
    BY <1>0, <1>8 DEF PushScan, PushKept, shared
  <2>2. UNCHANGED last_tail_ /\ PushUncheckedKept
    BY <1>0, <1>8 DEF PushScan, shared, PushUncheckedKept, PushUnchecked
  <2>3. PushAnnounced'
    BY <1>0, <1>8, <2>1 DEF PushScan, PushKept, Inv, PushAnnounced, shared
  <2>4. PushScanning'
    <3> DEFINE i == push_i[p]
    <3>1. /\ i \in Consumers /\ push_i'[p] = i + 1
          /\ push_min'[p] = Lesser(thr_tail[i], push_min[p])
      BY <1>0, <1>8, Ids DEF PushScan
    <3>2. push_min'[p] <= push_min[p] /\ push_min'[p] <= thr_tail[i]
      BY <1>0, <3>1 DEF Lesser
    <3>3. ASSUME NEW c \in Consumers, PopHolds(c), PopTicket(c) < push_min'[p]
          PROVE  i + 1 <= c
      <4>1. PopTicket(c) < push_min[p] /\ c # i
        BY <1>0, <3>1, <3>2, <3>3 DEF Inv, PopAnnounced, PopTicket
      <4>2. i <= c
        BY <1>8, <3>3, <4>1 DEF PushScan, Inv, PushScanning
      <4> QED BY <3>1, <4>1, <4>2, Ids
    <3>4. ASSUME NEW o \in Producers, o # p, push_pc[o] = "scan"
          PROVE  push_min'[o] = push_min[o] /\ push_i'[o] = push_i[o]
      BY <1>0, <1>8, <3>4 DEF PushScan
    <3>5. push_min'[p] <= tail_
      BY <1>0, <1>8, <3>2 DEF PushScan, Inv, PushScanning
    <3> HIDE DEF i
    <3> QED
      BY <1>0, <1>8, <3>1, <3>3, <3>4, <3>5
      DEF PushScan, Inv, PushScanning, PopHolds, PopTicket, shared, popLocal
  <2> QED BY <1>0, <2>1, <2>2, <2>3, <2>4, PushKeptInv DEF Inv
<1>9. CASE PushUpdate(p)
  <2>1. PushKept
    BY <1>0, <1>9 DEF PushUpdate, PushKept, shared
  <2>2. PushScansKept /\ PushUncheckedKept
    BY <1>0, <1>9 DEF PushUpdate, PushScansKept, PushUncheckedKept, PushUnchecked
  <2>3. PushAnnounced'
    BY <1>0, <1>9, <2>1 DEF PushUpdate, PushKept, Inv, PushAnnounced, shared
  <2>4. LastTailSound'
    <3>1. /\ push_pc[p] = "scan" /\ push_i[p] = NConsumers
          /\ last_tail_' = push_min[p] /\ push_min[p] \in Positions
      BY <1>0, <1>9 DEF PushUpdate
    <3>2. ASSUME NEW c \in Consumers, PopHolds(c) PROVE push_min[p] <= PopTicket(c)
      <4>1. PopTicket(c) \in Nat /\ push_min[p] \in Nat
        BY <1>0, <3>1 DEF PopTicket
      <4>2. ~ (PopTicket(c) < push_min[p])
        BY <3>1, <3>2, Ids DEF Inv, PushScanning
      <4> QED BY <4>1, <4>2
    <3>3. push_min[p] <= tail_
      BY <3>1 DEF Inv, PushScanning
    <3> QED
      BY <1>9, <3>1, <3>2, <3>3
      DEF PushUpdate, LastTailSound, PopHolds, PopTicket, popLocal
  <2> QED BY <1>0, <2>1, <2>2, <2>3, <2>4, PushKeptInv DEF Inv
<1>10. CASE PushCopy(p)
  <2>1. PushKept
    BY <1>0, <1>10 DEF PushCopy, PushKept, shared
  <2>2. PushScansKept /\ UNCHANGED last_tail_ /\ PushUncheckedKept
    BY <1>0, <1>10 DEF PushCopy, PushScansKept, shared, PushUncheckedKept, PushUnchecked
  <2>3. PushAnnounced'
    BY <1>0, <1>10, <2>1 DEF PushCopy, PushKept, Inv, PushAnnounced, shared
  <2> QED BY <1>0, <2>1, <2>2, <2>3, PushKeptInv DEF Inv
<1>11. CASE PushPos(p)
  <2>1. PushKept
    BY <1>0, <1>11 DEF PushPos, PushKept, shared
  <2>2. PushScansKept /\ UNCHANGED last_tail_ /\ PushUncheckedKept
    BY <1>0, <1>11 DEF PushPos, PushScansKept, shared, PushUncheckedKept, PushUnchecked
  <2>3. PushAnnounced'
    BY <1>0, <1>11, <2>1 DEF PushPos, PushKept, Inv, PushAnnounced, shared
  <2> QED BY <1>0, <2>1, <2>2, <2>3, PushKeptInv DEF Inv
<1>12. CASE PushRelease(p)
  <2> USE <1>0, <1>12 DEF PushRelease, Inv, PopHolds, PopTicket, popLocal
  <2>1. PushAnnounced' BY DEF PushAnnounced
  <2>2. PopAnnounced'  BY DEF PopAnnounced
  <2>3. PushDistinct'  BY DEF PushDistinct
  <2>4. PopDistinct'   BY DEF PopDistinct
  <2>5. PushScanning'  BY DEF PushScanning
  <2>6. PopScanning'   BY DEF PopScanning
  <2>7. LastHeadSound' BY DEF LastHeadSound
  <2>8. LastTailSound' BY DEF LastTailSound
  <2>9. ConsumerCleared'
    BY DEF ConsumerCleared
  <2>10. WithinOneRound'
    BY DEF WithinOneRound, PushUnchecked
  <2>11. ConsumerWaits'
    BY DEF ConsumerWaits
  <2> QED
    BY <2>1, <2>2, <2>3, <2>4, <2>5, <2>6, <2>7, <2>8, <2>9, <2>10, <2>11
<1> QED
  BY <1>1, <1>2, <1>3, <1>4, <1>5, <1>6, <1>7, <1>8, <1>9, <1>10, <1>11, <1>12
  DEF PushStep

------------------------------------------------------------------------------
(* pop() preserves the invariant.                                           *)

PopKept ==
    /\ UNCHANGED <<head_, tail_, last_tail_, thr_head, pushLocal>>
    /\ \A d \in Consumers : /\ PopHolds(d)' <=> PopHolds(d)
                            /\ PopHolds(d) => PopTicket(d)' = PopTicket(d)

\* No consumer gets past its check.
PopClearedKept ==
    \A d \in Consumers : pop_pc'[d] \in {"copy", "pos", "release"}
                         => pop_pc[d] \in {"copy", "pos", "release"}

PopScansKept ==
    \A d \in Consumers : pop_pc'[d] = "scan" =>
        pop_pc[d] = "scan" /\ pop_min'[d] = pop_min[d] /\ pop_i'[d] = pop_i[d]

LEMMA PopKeptInv ==
    ASSUME Inv, PopKept
    PROVE  /\ PushAnnounced' /\ PushDistinct' /\ PushScanning'
           /\ PopDistinct' /\ LastTailSound'
           /\ WithinOneRound' /\ ConsumerWaits'
           /\ PopScansKept => PopScanning'
           /\ UNCHANGED last_head_ => LastHeadSound'
           /\ PopClearedKept => ConsumerCleared'
<1>1. \A p \in Producers : /\ PushHolds(p)' <=> PushHolds(p)
                           /\ PushTicket(p)' = PushTicket(p)
  BY DEF PopKept, pushLocal, PushHolds, PushTicket
<1>2. PushAnnounced'
  BY <1>1 DEF PopKept, Inv, PushAnnounced, pushLocal
<1>3. PushDistinct'
  BY <1>1 DEF Inv, PushDistinct
<1>4. PushScanning'
  BY DEF PopKept, Inv, PushScanning, pushLocal
<1>5. PopDistinct'
  BY DEF PopKept, Inv, PopDistinct
<1>6. LastTailSound'
  BY DEF PopKept, Inv, LastTailSound
<1>7. WithinOneRound'
  BY DEF PopKept, Inv, WithinOneRound, pushLocal, PopHolds, PopTicket,
     PushUnchecked, PushTicket
<1>8. ConsumerWaits'
  BY DEF PopKept, Inv, ConsumerWaits, pushLocal, PopHolds, PopTicket, PushHolds,
     PushTicket
<1>9. PopScansKept => PopScanning'
  BY <1>1 DEF PopKept, PopScansKept, Inv, PopScanning
<1>10. UNCHANGED last_head_ => LastHeadSound'
  BY <1>1 DEF PopKept, Inv, LastHeadSound
<1>11. PopClearedKept => ConsumerCleared'
  BY DEF PopKept, PopClearedKept, Inv, ConsumerCleared, pushLocal, PopHolds,
     PopTicket, PushHolds, PushTicket
<1> QED
  BY <1>2, <1>3, <1>4, <1>5, <1>6, <1>7, <1>8, <1>9, <1>10, <1>11

LEMMA PopInv ==
    ASSUME Inv, NEW c \in Consumers, PopCall(c) \/ PopStep(c)
    PROVE  Inv'
<1> USE QueueAssumption, Sets DEF TypeOK, PCs, PopGoto, PopHolds,
        PopTicket
<1>0. TypeOK /\ TypeOK'
  BY PopTypeOK DEF Inv
<1>1. CASE PopCall(c)
  <2>1. PopKept
    BY <1>0, <1>1 DEF PopCall, PopKept, shared
  <2>2. PopScansKept /\ UNCHANGED last_head_ /\ PopClearedKept
    BY <1>0, <1>1 DEF PopCall, PopScansKept, shared, PopClearedKept
  <2>3. PopAnnounced'
    BY <1>0, <1>1, <2>1 DEF PopCall, PopKept, Inv, PopAnnounced, shared
  <2> QED BY <1>0, <2>1, <2>2, <2>3, PopKeptInv DEF Inv
<1>2. CASE PopLoad(c)
  <2>1. PopKept
    BY <1>0, <1>2 DEF PopLoad, PopKept, shared
  <2>2. PopScansKept /\ UNCHANGED last_head_ /\ PopClearedKept
    BY <1>0, <1>2 DEF PopLoad, PopScansKept, shared, PopClearedKept
  <2>3. PopAnnounced'
    BY <1>0, <1>2, <2>1 DEF PopLoad, PopKept, Inv, PopAnnounced, shared
  <2> QED BY <1>0, <2>1, <2>2, <2>3, PopKeptInv DEF Inv
<1>3. CASE PopAnnounce(c)
  <2>1. PopKept
    BY <1>0, <1>3 DEF PopAnnounce, PopKept, shared
  <2>2. PopScansKept /\ UNCHANGED last_head_ /\ PopClearedKept
    BY <1>0, <1>3 DEF PopAnnounce, PopScansKept, shared, PopClearedKept
  <2>3. PopAnnounced'
    BY <1>0, <1>3, <2>1 DEF PopAnnounce, PopKept, Inv, PopAnnounced, shared
  <2> QED BY <1>0, <2>1, <2>2, <2>3, PopKeptInv DEF Inv
<1>4. CASE PopTake(c)
  <2> USE <1>0, <1>4 DEF PopTake, Inv, PushHolds, PushTicket, pushLocal
  <2>1. PopAnnounced'  BY DEF PopAnnounced
  <2>2. PushAnnounced' BY DEF PushAnnounced
  <2>3. PopDistinct'   BY DEF PopDistinct, PopAnnounced
  <2>4. PushDistinct'  BY DEF PushDistinct
  <2>5. PopScanning'   BY DEF PopScanning
  <2>6. PushScanning'  BY DEF PushScanning
  <2>7. LastTailSound' BY DEF LastTailSound
  <2>8. LastHeadSound' BY DEF LastHeadSound
  <2>9. ConsumerCleared'
    BY DEF ConsumerCleared
  <2>10. WithinOneRound'
    BY DEF WithinOneRound, PushUnchecked
  <2>11. ConsumerWaits'
    BY DEF ConsumerWaits
  <2> QED
    BY <2>1, <2>2, <2>3, <2>4, <2>5, <2>6, <2>7, <2>8, <2>9, <2>10, <2>11
<1>5. CASE PopRecord(c)
  <2>1. PopKept
    BY <1>0, <1>5 DEF PopRecord, PopKept, shared
  <2>2. PopScansKept /\ UNCHANGED last_head_ /\ PopClearedKept
    BY <1>0, <1>5 DEF PopRecord, PopScansKept, shared, PopClearedKept
  <2>3. PopAnnounced'
    BY <1>0, <1>5, <2>1 DEF PopRecord, PopKept, Inv, PopAnnounced, shared
  <2> QED BY <1>0, <2>1, <2>2, <2>3, PopKeptInv DEF Inv
<1>6. CASE PopCheck(c)
  <2>1. PopKept
    BY <1>0, <1>6 DEF PopCheck, PopKept, shared
  <2>2. PopScansKept /\ UNCHANGED last_head_
    BY <1>0, <1>6 DEF PopCheck, PopScansKept, shared
  <2>3. PopAnnounced'
    BY <1>0, <1>6, <2>1 DEF PopCheck, PopKept, Inv, PopAnnounced, shared
  <2>4. ConsumerCleared'
    <3>1. ASSUME push_pc' = push_pc, thr_tail[c] < last_head_
          PROVE  /\ thr_tail[c] < head_
                 /\ \A p \in Producers : PushHolds(p) => thr_tail[c] < PushTicket(p)
      BY <1>0, <3>1 DEF Inv, LastHeadSound, PushTicket
    <3> QED
      BY <1>0, <1>6, <3>1 DEF PopCheck, Inv, ConsumerCleared, PushHolds, PushTicket,
         shared, pushLocal
  <2> QED BY <1>0, <2>1, <2>2, <2>3, <2>4, PopKeptInv DEF Inv
<1>7. CASE PopFind(c)
  <2>1. PopKept
    BY <1>0, <1>7 DEF PopFind, PopKept, shared
  <2>2. UNCHANGED last_head_ /\ PopClearedKept
    BY <1>0, <1>7 DEF PopFind, shared, PopClearedKept
  <2>3. PopAnnounced'
    BY <1>0, <1>7, <2>1 DEF PopFind, PopKept, Inv, PopAnnounced, shared
  <2>4. PopScanning'
    <3>1. pop_min'[c] = head_ /\ pop_i'[c] = 0
      BY <1>0, <1>7 DEF PopFind
    <3>2. ASSUME NEW d \in Consumers, d # c
          PROVE  UNCHANGED <<pop_pc[d], pop_min[d], pop_i[d]>>
      BY <1>0, <1>7, <3>2 DEF PopFind
    <3>3. UNCHANGED <<head_, thr_head, pushLocal>>
      BY <1>7 DEF PopFind, shared
    <3> QED
      BY <1>0, <3>1, <3>2, <3>3, Ids
      DEF Inv, PopScanning, PushHolds, PushTicket, pushLocal
  <2> QED BY <1>0, <2>1, <2>2, <2>3, <2>4, PopKeptInv DEF Inv
<1>8. CASE PopScan(c)
  <2>1. PopKept
    BY <1>0, <1>8 DEF PopScan, PopKept, shared
  <2>2. UNCHANGED last_head_ /\ PopClearedKept
    BY <1>0, <1>8 DEF PopScan, shared, PopClearedKept
  <2>3. PopAnnounced'
    BY <1>0, <1>8, <2>1 DEF PopScan, PopKept, Inv, PopAnnounced, shared
  <2>4. PopScanning'
    <3> DEFINE i == pop_i[c]
    <3>1. /\ i \in Producers /\ pop_i'[c] = i + 1
          /\ pop_min'[c] = Lesser(thr_head[i], pop_min[c])
      BY <1>0, <1>8, Ids DEF PopScan
    <3>2. pop_min'[c] <= pop_min[c] /\ pop_min'[c] <= thr_head[i]
      BY <1>0, <3>1 DEF Lesser
    <3>3. ASSUME NEW p \in Producers, PushHolds(p), PushTicket(p) < pop_min'[c]
          PROVE  i + 1 <= p
      <4>1. PushTicket(p) < pop_min[c] /\ p # i
        BY <1>0, <3>1, <3>2, <3>3 DEF Inv, PushAnnounced, PushTicket
      <4>2. i <= p
        BY <1>8, <3>3, <4>1 DEF PopScan, Inv, PopScanning
      <4> QED BY <3>1, <4>1, <4>2, Ids
    <3>4. ASSUME NEW d \in Consumers, d # c, pop_pc[d] = "scan"
          PROVE  pop_min'[d] = pop_min[d] /\ pop_i'[d] = pop_i[d]
      BY <1>0, <1>8, <3>4 DEF PopScan
    <3>5. pop_min'[c] <= head_
      BY <1>0, <1>8, <3>2 DEF PopScan, Inv, PopScanning
    <3> HIDE DEF i
    <3> QED
      BY <1>0, <1>8, <3>1, <3>3, <3>4, <3>5
      DEF PopScan, Inv, PopScanning, PushHolds, PushTicket, shared, pushLocal
  <2> QED BY <1>0, <2>1, <2>2, <2>3, <2>4, PopKeptInv DEF Inv
<1>9. CASE PopUpdate(c)
  <2>1. PopKept
    BY <1>0, <1>9 DEF PopUpdate, PopKept, shared
  <2>2. PopScansKept /\ PopClearedKept
    BY <1>0, <1>9 DEF PopUpdate, PopScansKept, PopClearedKept
  <2>3. PopAnnounced'
    BY <1>0, <1>9, <2>1 DEF PopUpdate, PopKept, Inv, PopAnnounced, shared
  <2>4. LastHeadSound'
    <3>1. /\ pop_pc[c] = "scan" /\ pop_i[c] = NProducers
          /\ last_head_' = pop_min[c] /\ pop_min[c] \in Positions
      BY <1>0, <1>9 DEF PopUpdate
    <3>2. ASSUME NEW p \in Producers, PushHolds(p) PROVE pop_min[c] <= PushTicket(p)
      <4>1. PushTicket(p) \in Nat /\ pop_min[c] \in Nat
        BY <1>0, <3>1 DEF PushTicket
      <4>2. ~ (PushTicket(p) < pop_min[c])
        BY <3>1, <3>2, Ids DEF Inv, PopScanning
      <4> QED BY <4>1, <4>2
    <3>3. pop_min[c] <= head_
      BY <3>1 DEF Inv, PopScanning
    <3> QED
      BY <1>9, <3>1, <3>2, <3>3
      DEF PopUpdate, LastHeadSound, PushHolds, PushTicket, pushLocal
  <2> QED BY <1>0, <2>1, <2>2, <2>3, <2>4, PopKeptInv DEF Inv
<1>10. CASE PopCopy(c)
  <2>1. PopKept
    BY <1>0, <1>10 DEF PopCopy, PopKept, shared
  <2>2. PopScansKept /\ UNCHANGED last_head_ /\ PopClearedKept
    BY <1>0, <1>10 DEF PopCopy, PopScansKept, shared, PopClearedKept
  <2>3. PopAnnounced'
    BY <1>0, <1>10, <2>1 DEF PopCopy, PopKept, Inv, PopAnnounced, shared
  <2> QED BY <1>0, <2>1, <2>2, <2>3, PopKeptInv DEF Inv
<1>11. CASE PopPos(c)
  <2>1. PopKept
    BY <1>0, <1>11 DEF PopPos, PopKept, shared
  <2>2. PopScansKept /\ UNCHANGED last_head_ /\ PopClearedKept
    BY <1>0, <1>11 DEF PopPos, PopScansKept, shared, PopClearedKept
  <2>3. PopAnnounced'
    BY <1>0, <1>11, <2>1 DEF PopPos, PopKept, Inv, PopAnnounced, shared
  <2> QED BY <1>0, <2>1, <2>2, <2>3, PopKeptInv DEF Inv
<1>12. CASE PopRelease(c)
  <2> USE <1>0, <1>12 DEF PopRelease, Inv, PushHolds, PushTicket, pushLocal
  <2>1. PopAnnounced'  BY DEF PopAnnounced
  <2>2. PushAnnounced' BY DEF PushAnnounced
  <2>3. PopDistinct'   BY DEF PopDistinct, PopAnnounced
  <2>4. PushDistinct'  BY DEF PushDistinct
  <2>5. PopScanning'   BY DEF PopScanning
  <2>6. PushScanning'  BY DEF PushScanning
  <2>7. LastTailSound' BY DEF LastTailSound
  <2>8. LastHeadSound' BY DEF LastHeadSound
  <2>9. ConsumerCleared'
    BY DEF ConsumerCleared
  <2>10. WithinOneRound'
    BY DEF WithinOneRound, PushUnchecked
  <2>11. ConsumerWaits'
    BY DEF ConsumerWaits, ConsumerCleared
  <2> QED
    BY <2>1, <2>2, <2>3, <2>4, <2>5, <2>6, <2>7, <2>8, <2>9, <2>10, <2>11
<1> QED
  BY <1>1, <1>2, <1>3, <1>4, <1>5, <1>6, <1>7, <1>8, <1>9, <1>10, <1>11, <1>12
  DEF PopStep

------------------------------------------------------------------------------
(* The invariant, and the safety properties of the ring.                    *)

LEMMA InitInv == Init => Inv
<1> SUFFICES ASSUME Init PROVE Inv
  OBVIOUS
<1>1. /\ \A p \in Producers : push_pc[p] = "idle"
      /\ \A c \in Consumers : pop_pc[c] = "idle"
  BY DEF Init
<1>2. /\ \A p \in Producers : ~ PushHolds(p) /\ push_pc[p] = "idle"
      /\ \A c \in Consumers : ~ PopHolds(c) /\ pop_pc[c] = "idle"
  BY <1>1 DEF PushHolds, PopHolds
<1>3. head_ = 0 /\ tail_ = 0 /\ last_head_ = 0 /\ last_tail_ = 0
  BY DEF Init
<1>4. PushAnnounced /\ PopAnnounced /\ PushDistinct /\ PopDistinct
  BY <1>2 DEF PushAnnounced, PopAnnounced, PushDistinct, PopDistinct
<1>5. PushScanning /\ PopScanning /\ LastHeadSound /\ LastTailSound
  BY <1>2, <1>3 DEF PushScanning, PopScanning, LastHeadSound, LastTailSound
<1>6. ConsumerCleared /\ WithinOneRound /\ ConsumerWaits
  BY <1>2, <1>3, Sets DEF ConsumerCleared, WithinOneRound, ConsumerWaits
<1> QED BY <1>4, <1>5, <1>6, InitTypeOK DEF Inv

LEMMA StutterInv == Inv /\ UNCHANGED vars => Inv'
BY StutterTypeOK
DEF Inv, vars, shared, pushLocal, popLocal, PushHolds, PushTicket, PushUnchecked,
    PopHolds, PopTicket, PushAnnounced, PopAnnounced, PushDistinct, PopDistinct,
    PushScanning, PopScanning, LastHeadSound, LastTailSound, ConsumerCleared,
    WithinOneRound, ConsumerWaits

\* Inv holds in every state of every execution of push() and pop().
THEOREM Invariance == Spec => []Inv
<1>1. Inv /\ [Next]_vars => Inv'
  BY PushInv, PopInv, StutterInv DEF Next
<1> QED BY InitInv, <1>1, PTL DEF Spec

\* A cached bound never covers a ticket that is still held, although scans run
\* while the announcements change and overwrite each other's results.
THEOREM BoundsSound == Spec => []CachedBoundsSound
<1>1. Inv => CachedBoundsSound
  BY DEF Inv, CachedBoundsSound
<1> QED BY Invariance, <1>1, PTL

\* A ticket in the copy of its producer is within one round of every consumer.
LEMMA FillingWithinOneRound ==
    ASSUME Inv, NEW p \in Producers, push_pc[p] = "copy"
    PROVE  /\ thr_head[p] \in Positions /\ thr_head[p] < tail_ + Q_SIZE
           /\ \A c \in Consumers : PopHolds(c) => thr_head[p] < PopTicket(c) + Q_SIZE
<1>1. PushHolds(p) /\ PushTicket(p) = thr_head[p] /\ ~ PushUnchecked(p)
  BY DEF PushHolds, PushTicket, PushUnchecked
<1>2. thr_head[p] \in Positions /\ thr_head[p] < head_
  BY <1>1, QueueAssumption, Sets DEF Inv, TypeOK, PushAnnounced
<1>3. \A o \in Producers : PushUnchecked(o) => o # p /\ PushHolds(o)
  BY <1>1 DEF PushUnchecked, PushHolds
<1>4. ~ \E o \in Producers : PushUnchecked(o) /\ PushTicket(o) = thr_head[p]
  BY <1>1, <1>3 DEF Inv, PushDistinct
<1> QED BY <1>2, <1>4 DEF Inv, WithinOneRound

\* The same of a ticket in the copy of its consumer.
LEMMA EmptyingWithinOneRound ==
    ASSUME Inv, NEW c \in Consumers, pop_pc[c] = "copy"
    PROVE  /\ thr_tail[c] \in Positions /\ PopHolds(c) /\ PopTicket(c) = thr_tail[c]
           /\ \A d \in Consumers : PopHolds(d) => thr_tail[c] < PopTicket(d) + Q_SIZE
           /\ \A p \in Producers : PushHolds(p) => thr_tail[c] < PushTicket(p)
<1>1. PopHolds(c) /\ PopTicket(c) = thr_tail[c]
  BY DEF PopHolds, PopTicket
<1>2. /\ thr_tail[c] < head_
      /\ \A p \in Producers : PushHolds(p) => thr_tail[c] < PushTicket(p)
  BY <1>1 DEF Inv, ConsumerCleared
<1>3. thr_tail[c] \in Positions
  BY <1>2, QueueAssumption, Sets DEF Inv, TypeOK
<1>4. \A p \in Producers : PushHolds(p) => PushTicket(p) # thr_tail[c]
  BY <1>2, <1>3, Sets DEF PushTicket, Inv, TypeOK
<1>5. ~ \E p \in Producers : PushUnchecked(p) /\ PushTicket(p) = thr_tail[c]
  BY <1>4 DEF PushUnchecked, PushHolds
<1> QED BY <1>1, <1>2, <1>3, <1>5 DEF Inv, WithinOneRound

LEMMA InvExclusion == Inv => SlotExclusion
<1> SUFFICES ASSUME Inv PROVE SlotExclusion
  OBVIOUS
<1> USE QueueAssumption, Sets
<1>1. ASSUME NEW p \in Producers, NEW o \in Producers, push_pc[p] = "copy",
             push_pc[o] = "copy", thr_head[p] < thr_head[o]
      PROVE  Slot(thr_head[o]) # Slot(thr_head[p])
  <2>1. PushHolds(p) /\ PushTicket(p) = thr_head[p]
    BY <1>1 DEF PushHolds, PushTicket
  <2>2. /\ thr_head[p] \in Positions /\ thr_head[o] \in Positions
        /\ thr_head[o] < tail_ + Q_SIZE
        /\ \A c \in Consumers : PopHolds(c) => thr_head[o] < PopTicket(c) + Q_SIZE
    BY <1>1, FillingWithinOneRound
  <2>3. CASE tail_ <= thr_head[p]
    <3>1. thr_head[o] < thr_head[p] + Q_SIZE
      BY <2>2, <2>3 DEF Inv, TypeOK
    <3> QED BY <1>1, <2>2, <3>1, SlotsDiffer
  <2>4. CASE thr_head[p] < tail_
    <3>1. PICK c \in Consumers : PopHolds(c) /\ PopTicket(c) = thr_head[p]
      BY <2>1, <2>2, <2>4 DEF Inv, ConsumerWaits
    <3>2. thr_head[o] < thr_head[p] + Q_SIZE
      BY <2>2, <3>1
    <3> QED BY <1>1, <2>2, <3>2, SlotsDiffer
  <2> QED BY <2>2, <2>3, <2>4 DEF Inv, TypeOK
<1>2. ASSUME NEW p \in Producers, NEW o \in Producers, p # o,
             push_pc[p] = "copy", push_pc[o] = "copy"
      PROVE  Slot(thr_head[o]) # Slot(thr_head[p])
  <2>1. thr_head[p] # thr_head[o]
    BY <1>2 DEF Inv, PushDistinct, PushHolds, PushTicket
  <2>2. thr_head[p] \in Positions /\ thr_head[o] \in Positions
    BY <1>2, FillingWithinOneRound
  <2>3. thr_head[p] < thr_head[o] \/ thr_head[o] < thr_head[p]
    BY <2>1, <2>2
  <2> QED BY <1>1, <1>2, <2>3
<1>3. ASSUME NEW p \in Producers, NEW c \in Consumers,
             push_pc[p] = "copy", pop_pc[c] = "copy"
      PROVE  Slot(thr_tail[c]) # Slot(thr_head[p])
  <2>1. /\ thr_head[p] \in Nat /\ thr_tail[c] \in Nat
        /\ thr_head[p] < thr_tail[c] + Q_SIZE
    BY <1>3, FillingWithinOneRound, EmptyingWithinOneRound
  <2>2. thr_tail[c] < thr_head[p]
    BY <1>3, EmptyingWithinOneRound DEF PushHolds, PushTicket
  <2> QED BY <2>1, <2>2, SlotsDiffer
<1>4. ASSUME NEW c \in Consumers, NEW d \in Consumers, c # d,
             pop_pc[c] = "copy", pop_pc[d] = "copy"
      PROVE  Slot(thr_tail[c]) # Slot(thr_tail[d])
  <2>1. /\ thr_tail[c] \in Nat /\ thr_tail[d] \in Nat
        /\ thr_tail[c] < thr_tail[d] + Q_SIZE /\ thr_tail[d] < thr_tail[c] + Q_SIZE
    BY <1>4, EmptyingWithinOneRound
  <2>2. thr_tail[c] # thr_tail[d]
    BY <1>4, EmptyingWithinOneRound DEF Inv, PopDistinct
  <2> QED BY <2>1, <2>2, SlotsDiffer
<1> QED BY <1>2, <1>3, <1>4 DEF SlotExclusion

\* No two threads are ever in the same slot, so the plain copies of push() and pop()
\* never meet, whatever the number of threads and slots.
THEOREM Exclusion == Spec => []SlotExclusion
BY Invariance, InvExclusion, PTL
==============================================================================
