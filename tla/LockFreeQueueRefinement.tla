------------------------ MODULE LockFreeQueueRefinement ------------------------
(***************************************************************************)
(* LockFreeQueue implements FifoQueue, for any number of threads, any ring *)
(* size, any items and any number of operations.                           *)
(***************************************************************************)
EXTENDS LockFreeQueueProofs, SequenceTheorems

------------------------------------------------------------------------------
(* Sequences given as functions.                                            *)

LEMMA FunctionIsSeq ==
    ASSUME NEW S, NEW n \in Nat, NEW f \in [1 .. n -> S]
    PROVE  f \in Seq(S) /\ Len(f) = n
OBVIOUS

LEMMA IsAppend ==
    ASSUME NEW S, NEW s \in Seq(S), NEW t \in Seq(S), NEW e \in S,
           Len(t) = Len(s) + 1, t[Len(t)] = e, \A i \in 1 .. Len(s) : t[i] = s[i]
    PROVE  t = Append(s, e)
<1>1. /\ Append(s, e) \in Seq(S)
      /\ Len(Append(s, e)) = Len(s) + 1
      /\ \A i \in 1 .. Len(s) : Append(s, e)[i] = s[i]
      /\ Append(s, e)[Len(s) + 1] = e
  BY AppendProperties
<1>2. \A i \in 1 .. Len(t) : t[i] = Append(s, e)[i]
  BY <1>1
<1> QED BY <1>1, <1>2, SeqEqual

LEMMA IsTail ==
    ASSUME NEW S, NEW s \in Seq(S), NEW t \in Seq(S),
           Len(s) = Len(t) + 1, \A i \in 1 .. Len(t) : t[i] = s[i + 1]
    PROVE  s # << >> /\ t = Tail(s)
<1>1. s # << >>
  BY EmptySeq
<1>2. /\ Tail(s) \in Seq(S)
      /\ Len(Tail(s)) = Len(s) - 1
      /\ \A i \in 1 .. Len(Tail(s)) : Tail(s)[i] = s[i + 1]
  BY <1>1, HeadTailProperties
<1>3. Len(t) \in Nat /\ Len(Tail(s)) = Len(t)
  BY <1>2
<1> QED BY <1>1, <1>2, <1>3, SeqEqual

------------------------------------------------------------------------------
(* The item of a ticket.                                                    *)

LEMMA ItemUnwritten ==
    ASSUME Inv, NEW p \in Producers, PushUnwritten(p)
    PROVE  ItemOf(PushTicket(p)) = item[p]
BY DEF ItemOf, Inv, PushDistinct, PushUnwritten

LEMMA ItemUnwrittenNext ==
    ASSUME Inv', NEW p \in Producers, PushUnwritten(p)', NEW k, PushTicket(p)' = k
    PROVE  ItemOf(k)' = item'[p]
BY DEF ItemOf, Inv, PushDistinct, PushUnwritten

LEMMA ItemWritten ==
    ASSUME NEW k, \A p \in Producers : PushUnwritten(p) => PushTicket(p) # k
    PROVE  ItemOf(k) = ptr_array_[Slot(k)]
BY DEF ItemOf

LEMMA ItemWrittenNext ==
    ASSUME NEW k, \A p \in Producers : PushUnwritten(p)' => PushTicket(p)' # k
    PROVE  ItemOf(k)' = ptr_array_'[Slot(k)]
BY DEF ItemOf

\* A step keeps the item of a ticket if it leaves alone who has yet to write it,
\* and its slot once it is written.
LEMMA ItemKept ==
    ASSUME Inv, Inv', NEW k \in Positions,
           \A p \in Producers :
               /\ PushUnwritten(p) /\ PushTicket(p) = k
                  <=> PushUnwritten(p)' /\ PushTicket(p)' = k
               /\ PushUnwritten(p) /\ PushTicket(p) = k => item'[p] = item[p],
           (\A p \in Producers : PushUnwritten(p) => PushTicket(p) # k)
               => ptr_array_'[Slot(k)] = ptr_array_[Slot(k)]
    PROVE  ItemOf(k)' = ItemOf(k)
<1>1. CASE \E p \in Producers : PushUnwritten(p) /\ PushTicket(p) = k
  <2>1. PICK p \in Producers : PushUnwritten(p) /\ PushTicket(p) = k
    BY <1>1
  <2>2. ItemOf(k) = item[p]
    BY <2>1, ItemUnwritten
  <2>3. ItemOf(k)' = item'[p]
    <3>1. PushUnwritten(p)' /\ PushTicket(p)' = k
      BY <2>1
    <3> QED BY <3>1, ItemUnwrittenNext
  <2> QED BY <2>1, <2>2, <2>3
<1>2. CASE \A p \in Producers : PushUnwritten(p) => PushTicket(p) # k
  BY <1>2, ItemWritten, ItemWrittenNext
<1> QED BY <1>1, <1>2

------------------------------------------------------------------------------
(* The tickets whose items callers can still tell.                          *)

Live(k) == /\ k < head_
           /\ tail_ <= k \/ \E c \in Consumers : PopUnread(c) /\ PopTicket(c) = k

\* Less than one round lies between a slot that is being filled and the slot of
\* any other live ticket.
LEMMA FillingMissesLive ==
    ASSUME Inv, NEW p \in Producers, push_pc[p] = "copy",
           NEW k \in Positions, Live(k), k # thr_head[p],
           \A o \in Producers : PushUnwritten(o) => PushTicket(o) # k
    PROVE  Slot(k) # Slot(thr_head[p])
<1> DEFINE r == thr_head[p]
<1>1. /\ r \in Positions
      /\ PushHolds(p) /\ PushTicket(p) = r
  BY FillingWithinOneRound DEF PushHolds, PushTicket
<1>2. r < head_ /\ r < tail_ + Q_SIZE
      /\ \A c \in Consumers : PopHolds(c) => r < PopTicket(c) + Q_SIZE
  BY FillingWithinOneRound, <1>1 DEF Inv, PushAnnounced
<1>3. /\ k < tail_ + Q_SIZE
      /\ \A c \in Consumers : PopHolds(c) => k < PopTicket(c) + Q_SIZE
  BY DEF Inv, WithinOneRound, Live, PushUnwritten, PushUnchecked, PushHolds
<1>4. r < k + Q_SIZE
  BY <1>1, <1>2, QueueAssumption, Sets DEF Live, PopUnread, Inv, TypeOK
<1>5. k < r + Q_SIZE
  <2>1. CASE tail_ <= r
    BY <1>1, <1>3, <2>1, QueueAssumption, Sets DEF Inv, TypeOK
  <2>2. CASE r < tail_
    <3>1. PICK c \in Consumers : PopHolds(c) /\ PopTicket(c) = r
      BY <1>1, <2>2 DEF Inv, ConsumerWaits
    <3> QED BY <1>3, <3>1
  <2> QED BY <1>1, <2>1, <2>2, Sets DEF Inv, TypeOK
<1> HIDE DEF r
<1>6. k \in Nat /\ r \in Nat /\ k # r
  BY <1>1, Sets DEF r
<1>7. k < r \/ r < k
  BY <1>6
<1>8. Slot(k) # Slot(r)
  BY <1>4, <1>5, <1>6, <1>7, SlotsDiffer
<1> QED BY <1>8 DEF r

\* What a producer does to its own ticket and to the items of the others.
LEMMA PushItemKept ==
    ASSUME Inv, Inv', NEW p \in Producers,
           (\E x \in Items : PushCall(p, x)) \/ PushStep(p),
           NEW k \in Positions, Live(k)
    PROVE  ItemOf(k)' = ItemOf(k)
<1> USE QueueAssumption, Sets DEF TypeOK, PCs, PushGoto, PushHolds, PushTicket, PushUnwritten
<1>0. TypeOK /\ TypeOK'
  BY DEF Inv
<1>1. CASE \E x \in Items : PushCall(p, x)
  BY <1>0, <1>1, ItemKept DEF PushCall, shared
<1>2. CASE PushLoad(p)
  BY <1>0, <1>2, ItemKept DEF PushLoad, shared
<1>3. CASE PushAnnounce(p)
  BY <1>0, <1>3, ItemKept DEF PushAnnounce
<1>4. CASE PushTake(p)
  BY <1>0, <1>4, ItemKept DEF PushTake, Live
<1>5. CASE PushRecord(p)
  BY <1>0, <1>5, ItemKept DEF PushRecord
<1>6. CASE PushCheck(p)
  BY <1>0, <1>6, ItemKept DEF PushCheck, shared
<1>7. CASE PushFind(p)
  BY <1>0, <1>7, ItemKept DEF PushFind, shared
<1>8. CASE PushScan(p)
  BY <1>0, <1>8, ItemKept DEF PushScan, shared
<1>9. CASE PushUpdate(p)
  BY <1>0, <1>9, ItemKept DEF PushUpdate
<1>10. CASE PushCopy(p)
  <2>1. /\ push_pc[p] = "copy" /\ push_pc' = [push_pc EXCEPT ![p] = "pos"]
        /\ ptr_array_' = [ptr_array_ EXCEPT ![Slot(thr_head[p])] = item[p]]
        /\ UNCHANGED <<thr_head, push_reg, item>>
    BY <1>10 DEF PushCopy
  <2>2. thr_head[p] \in Nat
    BY <1>0
  <2>3. CASE k = thr_head[p]
    <3>1. ItemOf(k) = item[p]
      BY <2>1, <2>3, ItemUnwritten
    <3>2. \A o \in Producers : PushUnwritten(o)' => PushTicket(o)' # k
      BY <1>0, <2>1, <2>3 DEF Inv, PushDistinct
    <3>3. ItemOf(k)' = ptr_array_'[Slot(k)]
      BY <3>2, ItemWrittenNext
    <3> QED BY <1>0, <2>1, <2>2, <2>3, <3>1, <3>3
  <2>4. CASE k # thr_head[p]
    <3>1. (\A o \in Producers : PushUnwritten(o) => PushTicket(o) # k)
            => ptr_array_'[Slot(k)] = ptr_array_[Slot(k)]
      BY <1>0, <2>1, <2>4, FillingMissesLive
    <3>2. \A o \in Producers :
              /\ PushUnwritten(o) /\ PushTicket(o) = k
                  <=> PushUnwritten(o)' /\ PushTicket(o)' = k
              /\ item'[o] = item[o]
      BY <1>0, <2>1, <2>4
    <3> QED BY <3>1, <3>2, ItemKept
  <2> QED BY <2>3, <2>4
<1>11. CASE PushPos(p)
  BY <1>0, <1>11, ItemKept DEF PushPos
<1>12. CASE PushRelease(p)
  BY <1>0, <1>12, ItemKept DEF PushRelease
<1> QED
  BY <1>1, <1>2, <1>3, <1>4, <1>5, <1>6, <1>7, <1>8, <1>9, <1>10, <1>11, <1>12
  DEF PushStep

\* pop() changes no item.
LEMMA PopItemKept ==
    ASSUME NEW c \in Consumers, PopCall(c) \/ PopStep(c), NEW k
    PROVE  ItemOf(k)' = ItemOf(k)
<1>1. UNCHANGED <<thr_head, ptr_array_, pushLocal>>
  BY DEF PopCall, PopStep, PopLoad, PopAnnounce, PopTake, PopRecord, PopCheck, PopFind,
     PopScan, PopUpdate, PopCopy, PopPos, PopRelease, shared
<1> QED BY <1>1 DEF ItemOf, PushUnwritten, PushHolds, PushTicket, pushLocal

------------------------------------------------------------------------------
(* What callers see, in terms of items of tickets.                          *)

Cells == Items \cup {NoItem}

LEMMA ItemType ==
    ASSUME TypeOK, NEW k \in Positions
    PROVE  ItemOf(k) \in Cells
<1>1. Slot(k) \in Slots
  BY Sets
<1> QED BY <1>1 DEF TypeOK, ItemOf, Cells

LEMMA ItemTypeNext ==
    ASSUME TypeOK', NEW k \in Positions
    PROVE  ItemOf(k)' \in Cells
<1>1. Slot(k) \in Slots
  BY Sets
<1> QED BY <1>1 DEF TypeOK, ItemOf, Cells

Size == IF tail_ < head_ THEN head_ - tail_ ELSE 0

LEMMA ContentsAre ==
    ASSUME TypeOK
    PROVE  /\ Size \in Nat /\ Contents \in Seq(Cells) /\ Len(Contents) = Size
           /\ \A n \in 1 .. Size :
                  LET k == tail_ + n - 1
                  IN  k \in Positions /\ k < head_ /\ Contents[n] = ItemOf(k)
<1>1. Size \in Nat
  BY QueueAssumption, Sets DEF TypeOK, Size
<1>2. \A n \in 1 .. Size : tail_ + n - 1 \in Positions /\ tail_ + n - 1 < head_
  BY QueueAssumption, Sets DEF TypeOK, Size
<1>3. Contents = [n \in 1 .. Size |-> ItemOf(tail_ + n - 1)]
  BY DEF Contents, Size
<1>4. Contents \in [1 .. Size -> Cells]
  BY <1>2, <1>3, ItemType
<1> QED BY <1>1, <1>2, <1>3, <1>4, FunctionIsSeq

LEMMA ContentsAreNext ==
    ASSUME TypeOK'
    PROVE  /\ Size' \in Nat /\ Contents' \in Seq(Cells) /\ Len(Contents') = Size'
           /\ \A n \in 1 .. Size' : \A k : k = tail_' + n - 1 =>
                  k \in Positions /\ k < head_' /\ Contents'[n] = ItemOf(k)'
<1>1. Size' \in Nat
  BY QueueAssumption, Sets DEF TypeOK, Size
<1>2. ASSUME NEW n \in 1 .. Size', NEW k, k = tail_' + n - 1
      PROVE  k \in Positions /\ k < head_' /\ Contents'[n] = ItemOf(k)'
  <2>1. k \in Positions /\ k < head_'
    BY <1>2, QueueAssumption, Sets DEF TypeOK, Size
  <2>2. ItemOf(tail_ + n - 1)' = ItemOf(k)'
    BY <1>2 DEF ItemOf
  <2> QED BY <2>1, <2>2 DEF Contents, Size
<1>3. \A n \in 1 .. Size' : Contents'[n] \in Cells
  BY <1>2, ItemTypeNext
<1>4. Contents' = [n \in 1 .. Size' |-> Contents'[n]]
  BY DEF Contents, Size
<1>5. Contents' \in [1 .. Size' -> Cells]
  BY <1>3, <1>4
<1> QED BY <1>1, <1>2, <1>5, FunctionIsSeq

LEMMA GivenIs ==
    ASSUME NEW c \in Consumers
    PROVE  /\ Served(c) /\ PopUnread(c) => Given[c] = ItemOf(PopTicket(c))
           /\ ~ (Served(c) /\ PopUnread(c)) => Given[c] = buffer[c]
BY DEF Given

LEMMA GivenIsNext ==
    ASSUME NEW c \in Consumers
    PROVE  /\ \A k : Served(c)' /\ PopUnread(c)' /\ PopTicket(c)' = k
                         => Given'[c] = ItemOf(k)'
           /\ ~ (Served(c)' /\ PopUnread(c)') => Given'[c] = buffer'[c]
<1>1. \A k : PopTicket(c)' = k => ItemOf(PopTicket(c))' = ItemOf(k)'
  BY DEF ItemOf
<1> QED BY <1>1 DEF Given

LEMMA GivenChanges ==
    ASSUME NEW f, \A c \in Consumers : Given'[c] = f[c]
    PROVE  Given' = [c \in Consumers |-> f[c]]
BY DEF Given

LEMMA GivenIsFunction == Given = [c \in Consumers |-> Given[c]]
BY DEF Given

ItemsKept == \A k \in Positions : Live(k) => ItemOf(k)' = ItemOf(k)

LEMMA ContentsKept ==
    ASSUME TypeOK, TypeOK', ItemsKept, UNCHANGED <<head_, tail_>>
    PROVE  Contents' = Contents
<1>1. Size' = Size
  BY DEF Size
<1>2. \A n \in 1 .. Size : Contents'[n] = Contents[n]
  <2> SUFFICES ASSUME NEW n \in 1 .. Size PROVE Contents'[n] = Contents[n]
    OBVIOUS
  <2> DEFINE k == tail_ + n - 1
  <2>1. k \in Positions /\ Live(k) /\ Contents[n] = ItemOf(k)
    BY ContentsAre, Sets DEF Live, TypeOK
  <2>2. \A j : j = k => Contents'[n] = ItemOf(j)'
    BY <1>1, ContentsAreNext
  <2> QED BY <2>1, <2>2 DEF ItemsKept
<1> QED BY <1>1, <1>2, ContentsAre, ContentsAreNext, SeqEqual

\* The item of a served consumer's ticket does not change.
LEMMA ServedItemKept ==
    ASSUME Inv, ItemsKept, NEW c \in Consumers, Served(c), PopUnread(c)
    PROVE  \A k : k = PopTicket(c) => ItemOf(k)' = ItemOf(k)
<1>1. PopTicket(c) \in Positions /\ Live(PopTicket(c))
  BY QueueAssumption, Sets DEF Served, Inv, TypeOK, Live, PopTicket, PopHolds
<1> QED BY <1>1 DEF ItemsKept

\* What consumers see depends on head_ and on the items of live tickets only.
LEMMA PoppersKept ==
    ASSUME Inv, ItemsKept, UNCHANGED <<head_, thr_tail, popLocal>>
    PROVE  UNCHANGED <<Popping, Given>>
<1>1. /\ \A c \in Consumers : Served(c)' <=> Served(c)
      /\ \A c \in Consumers : PopUnread(c)' <=> PopUnread(c)
      /\ \A c \in Consumers : PopTicket(c)' = PopTicket(c)
  BY DEF Served, PopHolds, PopUnread, PopTicket, popLocal
<1>2. \A c \in Consumers : Given'[c] = Given[c]
  <2> SUFFICES ASSUME NEW c \in Consumers PROVE Given'[c] = Given[c]
    OBVIOUS
  <2>1. buffer' = buffer
    BY DEF popLocal
  <2>2. CASE Served(c) /\ PopUnread(c)
    BY <1>1, <2>2, GivenIs, GivenIsNext, ServedItemKept
  <2>3. CASE ~ (Served(c) /\ PopUnread(c))
    BY <1>1, <2>1, <2>3, GivenIs, GivenIsNext
  <2> QED BY <2>2, <2>3
<1>3. Popping' = Popping
  BY <1>1 DEF Popping, popLocal
<1> QED BY <1>2, <1>3, GivenChanges, GivenIsFunction

------------------------------------------------------------------------------
(* push() takes its ticket: the item is in the queue, or with a consumer    *)
(* that has been waiting for this ticket.                                   *)

LEMMA PushTakeStep ==
    ASSUME Inv, Inv', NEW p \in Producers, PushTake(p)
    PROVE  Fifo!Enqueue(p) \/ \E c \in Consumers : Fifo!Handoff(p, c)
<1> USE QueueAssumption, Sets DEF Inv
<1>1. /\ push_pc[p] = "take" /\ push_pc' = [push_pc EXCEPT ![p] = "record"]
      /\ push_reg' = [push_reg EXCEPT ![p] = head_]
      /\ head_' = head_ + 1 /\ head_ \in Positions
      /\ UNCHANGED <<tail_, item, thr_head, thr_tail, popLocal>>
  BY DEF PushTake, PushGoto, TypeOK
<1>2. TypeOK /\ TypeOK'
  OBVIOUS
<1>3. ItemsKept
  BY PushItemKept DEF ItemsKept, PushStep
<1>4. Pushing[p] = "called" /\ Pushing' = [Pushing EXCEPT ![p] = "done"]
  BY <1>1, <1>2 DEF Pushing, PushHolds, TypeOK
<1>5. \A k : k = head_ => ItemOf(k)' = item[p]
  <2>1. PushUnwritten(p)' /\ PushTicket(p)' = head_
    BY <1>1, <1>2 DEF PushUnwritten, PushHolds, PushTicket, TypeOK
  <2> QED BY <1>1, <2>1, ItemUnwrittenNext
<1>6. /\ \A c \in Consumers : PopHolds(c)' <=> PopHolds(c)
      /\ \A c \in Consumers : PopUnread(c)' <=> PopUnread(c)
      /\ \A c \in Consumers : PopTicket(c)' = PopTicket(c)
      /\ buffer' = buffer
  BY <1>1 DEF PopHolds, PopUnread, PopTicket, popLocal
<1>7. \A c \in Consumers : (Served(c)' <=> Served(c)) => Given'[c] = Given[c]
  <2> SUFFICES ASSUME NEW c \in Consumers, Served(c)' <=> Served(c)
               PROVE  Given'[c] = Given[c]
    OBVIOUS
  <2>1. CASE Served(c) /\ PopUnread(c)
    BY <1>3, <1>6, <2>1, GivenIs, GivenIsNext, ServedItemKept
  <2>2. CASE ~ (Served(c) /\ PopUnread(c))
    BY <1>6, <2>2, GivenIs, GivenIsNext
  <2> QED BY <2>1, <2>2
<1>0. head_ \in Nat /\ tail_ \in Nat /\ tail_' = tail_ /\ head_' = head_ + 1
  BY <1>1, <1>2 DEF TypeOK
<1>8. CASE tail_ <= head_
  <2>1. \A c \in Consumers : Served(c)' <=> Served(c)
    BY <1>1, <1>2, <1>6, <1>8 DEF Served, PopAnnounced, PopTicket, PopHolds, TypeOK
  <2>2. Popping' = Popping
    BY <1>1, <1>6, <2>1 DEF Popping, popLocal
  <2>3. Given' = Given
    BY <1>7, <2>1, GivenChanges, GivenIsFunction
  <2>4. Contents' = Append(Contents, item[p])
    <3>1. Size' = Size + 1 /\ tail_ + Size = head_ /\ Size \in Nat
      BY ONLY <1>0, <1>8 DEF Size
    <3>2. \A n \in 1 .. Size : Contents'[n] = Contents[n]
      <4> SUFFICES ASSUME NEW n \in 1 .. Size PROVE Contents'[n] = Contents[n]
        OBVIOUS
      <4> DEFINE k == tail_ + n - 1
      <4>1. k \in Positions /\ Live(k) /\ Contents[n] = ItemOf(k)
        <5>1. k \in Positions /\ k < head_ /\ Contents[n] = ItemOf(k)
          BY <1>2, ContentsAre
        <5>2. tail_ <= k
          BY ONLY <1>0, <3>1, n \in 1 .. Size
        <5> QED BY ONLY <5>1, <5>2 DEF Live
      <4>2. n \in 1 .. Size' /\ k = tail_' + n - 1
        BY ONLY <1>0, <3>1, n \in 1 .. Size
      <4>3. \A j : j = k => Contents'[n] = ItemOf(j)'
        BY <1>2, <4>2, ContentsAreNext
      <4> QED BY <1>3, <4>1, <4>3 DEF ItemsKept
    <3>3. Contents'[Size + 1] = item[p]
      <4>1. head_ = tail_' + (Size + 1) - 1 /\ Size + 1 \in 1 .. Size'
        BY <1>1, <1>2, <3>1 DEF TypeOK
      <4> QED BY <1>2, <1>5, <4>1, ContentsAreNext
    <3>4. item[p] \in Cells
      BY <1>2 DEF TypeOK, Cells
    <3>5. /\ Contents \in Seq(Cells) /\ Len(Contents) = Size
          /\ Contents' \in Seq(Cells) /\ Len(Contents') = Size + 1
      BY <1>2, <3>1, ContentsAre, ContentsAreNext
    <3> QED BY <3>2, <3>3, <3>4, <3>5, IsAppend
  <2> QED BY <1>1, <1>4, <2>2, <2>3, <2>4 DEF Fifo!Enqueue
<1>9. CASE head_ < tail_
  <2>1. PICK c \in Consumers : PopHolds(c) /\ PopTicket(c) = head_
    BY <1>1, <1>9 DEF ConsumerWaits
  <2>2. PopUnread(c) /\ ~ Served(c) /\ Served(c)'
    BY <1>1, <1>2, <1>6, <2>1 DEF Served, PopUnread, PopHolds, ConsumerCleared, TypeOK
  <2>3. \A d \in Consumers \ {c} : Served(d)' <=> Served(d)
    <3>1. \A d \in Consumers \ {c} : PopHolds(d) =>
              PopTicket(d) # head_ /\ PopTicket(d) \in Nat
      BY <1>2, <2>1 DEF PopDistinct, PopTicket, PopHolds, TypeOK, PopAnnounced
    <3> QED BY ONLY <1>0, <1>6, <3>1 DEF Served
  <2>4. Popping[c] = "called" /\ Popping' = [Popping EXCEPT ![c] = "done"]
    <3>1. pop_pc' = pop_pc /\ pop_pc[c] # "idle"
      BY <1>1, <2>1 DEF popLocal, PopHolds
    <3> QED BY <2>2, <2>3, <3>1 DEF Popping
  <2>5. Given' = [Given EXCEPT ![c] = item[p]]
    <3>1. Given'[c] = item[p]
      BY <1>5, <1>6, <2>1, <2>2, GivenIsNext
    <3>2. \A d \in Consumers : Given'[d] = [Given EXCEPT ![c] = item[p]][d]
      BY <1>7, <2>3, <3>1, GivenIsFunction
    <3>3. Given' = [d \in Consumers |-> [Given EXCEPT ![c] = item[p]][d]]
      BY <3>2, GivenChanges
    <3> QED BY <3>3, GivenIsFunction
  <2>6. Contents = << >> /\ Contents' = << >>
    <3>1. ~ (tail_ < head_) /\ ~ (tail_' < head_')
      BY ONLY <1>0, <1>9
    <3> QED BY ONLY <3>1 DEF Contents
  <2> QED BY <1>1, <1>4, <2>4, <2>5, <2>6 DEF Fifo!Handoff
<1> QED BY <1>1, <1>2, <1>8, <1>9 DEF TypeOK

------------------------------------------------------------------------------
(* The other steps of push().                                               *)

\* They change neither the items of live tickets nor anything of the consumers.
LEMMA PushRest ==
    ASSUME Inv, Inv', NEW p \in Producers,
           (\E x \in Items : PushCall(p, x)) \/ PushStep(p), head_' = head_
    PROVE  UNCHANGED <<Contents, Popping, Given>>
<1>1. ItemsKept
  BY PushItemKept DEF ItemsKept
<1>2. UNCHANGED <<tail_, thr_tail, popLocal>>
  BY DEF PushCall, PushStep, PushLoad, PushAnnounce, PushTake, PushRecord, PushCheck,
     PushFind, PushScan, PushUpdate, PushCopy, PushPos, PushRelease, shared
<1> QED BY <1>1, <1>2, ContentsKept, PoppersKept DEF Inv

LEMMA PushCallStep ==
    ASSUME Inv, Inv', NEW p \in Producers, NEW x \in Items, PushCall(p, x)
    PROVE  Fifo!PushCall(p, x)
<1>1. /\ push_pc[p] = "idle" /\ push_pc' = [push_pc EXCEPT ![p] = "load"]
      /\ item' = [item EXCEPT ![p] = x] /\ head_' = head_
  BY DEF PushCall, PushGoto, shared
<1>2. UNCHANGED <<Contents, Popping, Given>>
  BY <1>1, PushRest
<1>3. Pushing[p] = "idle" /\ Pushing' = [Pushing EXCEPT ![p] = "called"]
  BY <1>1 DEF Pushing, PushHolds, Inv, TypeOK
<1> QED BY <1>1, <1>2, <1>3 DEF Fifo!PushCall

LEMMA PushReleaseStep ==
    ASSUME Inv, Inv', NEW p \in Producers, PushRelease(p)
    PROVE  Fifo!PushReturn(p)
<1>1. /\ push_pc[p] = "release" /\ push_pc' = [push_pc EXCEPT ![p] = "idle"]
      /\ UNCHANGED <<item, head_>>
  BY DEF PushRelease, PushGoto
<1>2. UNCHANGED <<Contents, Popping, Given>>
  BY <1>1, PushRest DEF PushStep
<1>3. Pushing[p] = "done" /\ Pushing' = [Pushing EXCEPT ![p] = "idle"]
  BY <1>1 DEF Pushing, PushHolds, Inv, TypeOK
<1> QED BY <1>1, <1>2, <1>3 DEF Fifo!PushReturn

\* Every other step of push() is invisible.
LEMMA PushOtherStep ==
    ASSUME Inv, Inv', NEW p \in Producers, PushStep(p), ~ PushTake(p), ~ PushRelease(p)
    PROVE  UNCHANGED Fifo!vars
<1>1. /\ UNCHANGED <<item, head_>>
      /\ push_pc[p] # "idle" /\ push_pc'[p] # "idle"
      /\ PushHolds(p)' <=> PushHolds(p)
      /\ \A o \in Producers \ {p} : push_pc'[o] = push_pc[o]
  BY DEF PushStep, PushLoad, PushAnnounce, PushRecord, PushCheck, PushFind, PushScan,
     PushUpdate, PushCopy, PushPos, PushGoto, PushHolds, shared, Inv, TypeOK
<1>2. UNCHANGED <<Contents, Popping, Given>>
  BY <1>1, PushRest
<1>3. Pushing' = Pushing
  BY <1>1 DEF Pushing, PushHolds
<1> QED BY <1>1, <1>2, <1>3 DEF Fifo!vars

------------------------------------------------------------------------------
(* pop() takes its ticket: the oldest item, or none as long as no producer  *)
(* has the same ticket.                                                     *)

LEMMA PopTakeStep ==
    ASSUME Inv, Inv', NEW c \in Consumers, PopTake(c)
    PROVE  Fifo!Dequeue(c) \/ UNCHANGED Fifo!vars
<1> USE QueueAssumption, Sets DEF Inv
<1>1. /\ pop_pc[c] = "take" /\ pop_pc' = [pop_pc EXCEPT ![c] = "record"]
      /\ pop_reg' = [pop_reg EXCEPT ![c] = tail_]
      /\ tail_' = tail_ + 1 /\ tail_ \in Positions
      /\ UNCHANGED <<head_, thr_tail, buffer, pushLocal>>
  BY DEF PopTake, PopGoto, TypeOK
<1>2. TypeOK /\ TypeOK'
  OBVIOUS
<1>3. \A k : ItemOf(k)' = ItemOf(k)
  BY PopItemKept DEF PopStep
<1>4. UNCHANGED <<Pushing, item>>
  BY <1>1 DEF Pushing, PushHolds, pushLocal
<1>5. head_ \in Nat /\ tail_ \in Nat /\ tail_' = tail_ + 1 /\ head_' = head_
  BY <1>1, <1>2 DEF TypeOK
<1>6. /\ ~ PopHolds(c) /\ PopHolds(c)' /\ PopUnread(c)' /\ PopTicket(c)' = tail_
      /\ \A d \in Consumers \ {c} :
             /\ PopHolds(d)' <=> PopHolds(d)
             /\ PopUnread(d)' <=> PopUnread(d)
             /\ PopTicket(d)' = PopTicket(d)
  BY <1>1, <1>2 DEF PopHolds, PopUnread, PopTicket, TypeOK
<1>7. /\ \A d \in Consumers \ {c} : Served(d)' <=> Served(d)
      /\ Served(c)' <=> tail_ < head_
      /\ ~ Served(c)
  BY <1>5, <1>6 DEF Served
<1>8. \A d \in Consumers \ {c} : Given'[d] = Given[d]
  <2> SUFFICES ASSUME NEW d \in Consumers \ {c} PROVE Given'[d] = Given[d]
    OBVIOUS
  <2>1. CASE Served(d) /\ PopUnread(d)
    BY <1>3, <1>6, <1>7, <2>1, GivenIs, GivenIsNext
  <2>2. CASE ~ (Served(d) /\ PopUnread(d))
    BY <1>1, <1>6, <1>7, <2>2, GivenIs, GivenIsNext
  <2> QED BY <2>1, <2>2
<1>9. CASE tail_ < head_
  <2>1. Popping[c] = "called" /\ Popping' = [Popping EXCEPT ![c] = "done"]
    BY <1>1, <1>2, <1>7, <1>9 DEF Popping, TypeOK
  <2>2. Size' = Size - 1 /\ Size \in Nat /\ Size' \in Nat /\ 1 \in 1 .. Size
    BY ONLY <1>5, <1>9 DEF Size
  <2>3. Contents[1] = ItemOf(tail_)
    <3>1. tail_ + 1 - 1 = tail_
      BY <1>5
    <3> QED BY <1>2, <2>2, <3>1, ContentsAre
  <2>4. Contents # << >> /\ Contents' = Tail(Contents)
    <3>1. \A n \in 1 .. Size' : Contents'[n] = Contents[n + 1]
      <4> SUFFICES ASSUME NEW n \in 1 .. Size' PROVE Contents'[n] = Contents[n + 1]
        OBVIOUS
      <4> DEFINE k == tail_ + (n + 1) - 1
      <4>0. k = tail_ + (n + 1) - 1
        OBVIOUS
      <4> HIDE DEF k
      <4>1. n + 1 \in 1 .. Size /\ k = tail_' + n - 1
        <5>1. n \in Nat /\ 1 <= n /\ n <= Size'
          BY <2>2
        <5>2. n + 1 \in Nat /\ 1 <= n + 1 /\ n + 1 <= Size
          BY ONLY <2>2, <5>1
        <5>3. k = tail_' + n - 1
          BY ONLY <1>5, <4>0, <5>1
        <5> QED BY <2>2, <5>2, <5>3
      <4>2. Contents[n + 1] = ItemOf(k)
        BY <1>2, <4>0, <4>1, ContentsAre
      <4>3. \A j : j = k => Contents'[n] = ItemOf(j)'
        BY <1>2, <4>1, ContentsAreNext
      <4> QED BY <1>3, <4>2, <4>3
    <3>2. /\ Contents \in Seq(Cells) /\ Len(Contents) = Size
          /\ Contents' \in Seq(Cells) /\ Len(Contents') = Size'
      BY <1>2, <2>2, ContentsAre, ContentsAreNext
    <3>3. Size = Size' + 1
      BY ONLY <2>2
    <3> QED BY <3>1, <3>2, <3>3, IsTail
  <2>5. Head(Contents) = ItemOf(tail_)
    <3>1. Contents \in Seq(Cells)
      BY <1>2, ContentsAre
    <3> QED BY <2>3, <2>4, <3>1
  <2>6. Given' = [Given EXCEPT ![c] = Head(Contents)]
    <3>1. Given'[c] = ItemOf(tail_)
      BY <1>3, <1>6, <1>7, <1>9, GivenIsNext
    <3>2. \A d \in Consumers : Given'[d] = [Given EXCEPT ![c] = Head(Contents)][d]
      BY <1>8, <2>5, <3>1, GivenIsFunction
    <3>3. Given' = [d \in Consumers |-> [Given EXCEPT ![c] = Head(Contents)][d]]
      BY <3>2, GivenChanges
    <3> QED BY <3>3, GivenIsFunction
  <2> QED BY <1>4, <2>1, <2>4, <2>6 DEF Fifo!Dequeue
<1>10. CASE ~ (tail_ < head_)
  <2>1. Popping' = Popping
    BY <1>1, <1>2, <1>7, <1>10 DEF Popping, TypeOK
  <2>2. Given' = Given
    <3>1. Given'[c] = Given[c]
      BY <1>1, <1>7, <1>10, GivenIs, GivenIsNext
    <3> QED BY <1>8, <3>1, GivenChanges, GivenIsFunction
  <2>3. Contents' = Contents
    <3>1. ~ (tail_' < head_')
      BY ONLY <1>5, <1>10
    <3> QED BY ONLY <1>10, <3>1 DEF Contents
  <2> QED BY <1>4, <2>1, <2>2, <2>3 DEF Fifo!vars
<1> QED BY <1>9, <1>10

------------------------------------------------------------------------------
(* The other steps of pop().                                                *)

LEMMA PopRest ==
    ASSUME Inv, Inv', NEW c \in Consumers, PopCall(c) \/ PopStep(c), tail_' = tail_
    PROVE  UNCHANGED <<Contents, Pushing, item>>
<1>1. ItemsKept
  BY PopItemKept DEF ItemsKept
<1>2. UNCHANGED <<head_, pushLocal>>
  BY DEF PopCall, PopStep, PopLoad, PopAnnounce, PopTake, PopRecord, PopCheck, PopFind,
     PopScan, PopUpdate, PopCopy, PopPos, PopRelease, shared
<1>3. UNCHANGED <<Pushing, item>>
  BY <1>2 DEF Pushing, PushHolds, pushLocal
<1> QED BY <1>1, <1>2, <1>3, ContentsKept DEF Inv

\* What a consumer's step does not do to the others, and to itself while it
\* neither reads its item nor begins or ends an operation.
LEMMA PopGivenKept ==
    ASSUME Inv, Inv', NEW c \in Consumers, PopCall(c) \/ PopStep(c), UNCHANGED <<head_, buffer>>,
           \A d \in Consumers : /\ Served(d)' /\ PopUnread(d)' <=> Served(d) /\ PopUnread(d)
                                /\ Served(d) => PopTicket(d)' = PopTicket(d)
    PROVE  Given' = Given
<1>1. \A k : ItemOf(k)' = ItemOf(k)
  BY PopItemKept
<1>2. \A d \in Consumers : Given'[d] = Given[d]
  <2> SUFFICES ASSUME NEW d \in Consumers PROVE Given'[d] = Given[d]
    OBVIOUS
  <2>1. CASE Served(d) /\ PopUnread(d)
    BY <1>1, <2>1, GivenIs, GivenIsNext
  <2>2. CASE ~ (Served(d) /\ PopUnread(d))
    BY <2>2, GivenIs, GivenIsNext
  <2> QED BY <2>1, <2>2
<1> QED BY <1>2, GivenChanges, GivenIsFunction

LEMMA PopCallStep ==
    ASSUME Inv, Inv', NEW c \in Consumers, PopCall(c)
    PROVE  Fifo!PopCall(c)
<1>1. /\ pop_pc[c] = "idle" /\ pop_pc' = [pop_pc EXCEPT ![c] = "load"]
      /\ UNCHANGED <<head_, tail_, thr_tail, pop_reg, buffer>>
  BY DEF PopCall, PopGoto, shared
<1>2. UNCHANGED <<Contents, Pushing, item>>
  BY <1>1, PopRest
<1>3. \A d \in Consumers : /\ Served(d)' <=> Served(d)
                           /\ PopUnread(d)' <=> PopUnread(d)
                           /\ Served(d) => PopTicket(d)' = PopTicket(d)
  BY <1>1 DEF Served, PopHolds, PopUnread, PopTicket, Inv, TypeOK
<1>4. Given' = Given
  BY <1>1, <1>3, PopGivenKept
<1>5. Popping[c] = "idle" /\ Popping' = [Popping EXCEPT ![c] = "called"]
  BY <1>1, <1>3 DEF Popping, Served, PopHolds, Inv, TypeOK
<1> QED BY <1>2, <1>4, <1>5 DEF Fifo!PopCall

LEMMA PopReleaseStep ==
    ASSUME Inv, Inv', NEW c \in Consumers, PopRelease(c)
    PROVE  Fifo!PopReturn(c)
<1>1. /\ pop_pc[c] = "release" /\ pop_pc' = [pop_pc EXCEPT ![c] = "idle"]
      /\ thr_tail' = [thr_tail EXCEPT ![c] = ULONG_MAX]
      /\ UNCHANGED <<head_, tail_, pop_reg, buffer>>
  BY DEF PopRelease, PopGoto
<1>2. UNCHANGED <<Contents, Pushing, item>>
  BY <1>1, PopRest DEF PopStep
<1>3. \A d \in Consumers \ {c} : /\ Served(d)' <=> Served(d)
                                 /\ PopUnread(d)' <=> PopUnread(d)
                                 /\ PopTicket(d)' = PopTicket(d)
  BY <1>1 DEF Served, PopHolds, PopUnread, PopTicket, Inv, TypeOK
<1>4. /\ Served(c) /\ ~ PopUnread(c) /\ ~ Served(c)'
  BY <1>1 DEF Served, PopHolds, PopUnread, ConsumerCleared, Inv, TypeOK
<1>5. Given' = Given
  <2>1. \A k : ItemOf(k)' = ItemOf(k)
    BY PopItemKept DEF PopStep
  <2>2. \A d \in Consumers : Given'[d] = Given[d]
    <3> SUFFICES ASSUME NEW d \in Consumers PROVE Given'[d] = Given[d]
      OBVIOUS
    <3>1. CASE d # c /\ Served(d) /\ PopUnread(d)
      BY <1>3, <2>1, <3>1, GivenIs, GivenIsNext
    <3>2. CASE d # c /\ ~ (Served(d) /\ PopUnread(d))
      BY <1>1, <1>3, <3>2, GivenIs, GivenIsNext
    <3>3. CASE d = c
      BY <1>1, <1>4, <3>3, GivenIs, GivenIsNext
    <3> QED BY <3>1, <3>2, <3>3
  <2> QED BY <2>2, GivenChanges, GivenIsFunction
<1>6. Popping[c] = "done" /\ Popping' = [Popping EXCEPT ![c] = "idle"]
  BY <1>1, <1>3, <1>4 DEF Popping, Inv, TypeOK
<1> QED BY <1>2, <1>5, <1>6 DEF Fifo!PopReturn

\* Every other step of pop() is invisible: a consumer reads the item it was
\* given when it was served.
LEMMA PopOtherStep ==
    ASSUME Inv, Inv', NEW c \in Consumers, PopStep(c), ~ PopTake(c), ~ PopRelease(c)
    PROVE  UNCHANGED Fifo!vars
<1>1. /\ UNCHANGED <<head_, tail_>>
      /\ pop_pc[c] # "idle" /\ pop_pc'[c] # "idle"
      /\ PopHolds(c)' <=> PopHolds(c)
      /\ PopHolds(c) => PopTicket(c)' = PopTicket(c)
      /\ ~ PopCopy(c) => (PopUnread(c)' <=> PopUnread(c)) /\ buffer' = buffer
      /\ \A d \in Consumers \ {c} : /\ pop_pc'[d] = pop_pc[d] /\ pop_reg'[d] = pop_reg[d]
                                    /\ thr_tail'[d] = thr_tail[d] /\ buffer'[d] = buffer[d]
  BY DEF PopStep, PopLoad, PopAnnounce, PopRecord, PopCheck, PopFind, PopScan, PopUpdate,
     PopCopy, PopPos, PopGoto, PopHolds, PopTicket, PopUnread, shared, Inv, TypeOK
<1>2. UNCHANGED <<Contents, Pushing, item>>
  BY <1>1, PopRest
<1>3. \A d \in Consumers : Served(d)' <=> Served(d)
  BY <1>1 DEF Served, PopHolds, PopTicket
<1>4. \A d \in Consumers \ {c} : /\ PopUnread(d)' <=> PopUnread(d)
                                 /\ PopTicket(d)' = PopTicket(d)
  BY <1>1 DEF PopUnread, PopHolds, PopTicket
<1>5. Popping' = Popping
  BY <1>1, <1>3 DEF Popping
<1>6. \A k : ItemOf(k)' = ItemOf(k)
  BY PopItemKept
<1>7. \A d \in Consumers \ {c} : Given'[d] = Given[d]
  <2> SUFFICES ASSUME NEW d \in Consumers \ {c} PROVE Given'[d] = Given[d]
    OBVIOUS
  <2>1. CASE Served(d) /\ PopUnread(d)
    BY <1>3, <1>4, <1>6, <2>1, GivenIs, GivenIsNext
  <2>2. CASE ~ (Served(d) /\ PopUnread(d))
    BY <1>1, <1>3, <1>4, <2>2, GivenIs, GivenIsNext
  <2> QED BY <2>1, <2>2
<1>8. Given'[c] = Given[c]
  <2>1. CASE PopCopy(c)
    <3>1. /\ Served(c) /\ PopUnread(c) /\ PopTicket(c) = thr_tail[c] /\ ~ PopUnread(c)'
          /\ buffer'[c] = ptr_array_[Slot(thr_tail[c])]
      BY <2>1 DEF PopCopy, PopGoto, Served, PopUnread, PopHolds, PopTicket, ConsumerCleared,
         Inv, TypeOK
    <3>2. \A p \in Producers : PushUnwritten(p) => PushTicket(p) # thr_tail[c]
      <4> SUFFICES ASSUME NEW p \in Producers, PushUnwritten(p)
                   PROVE  PushTicket(p) # thr_tail[c]
        OBVIOUS
      <4>1. thr_tail[c] < PushTicket(p)
        BY <2>1, <3>1 DEF PopCopy, PopGoto, PushUnwritten, Inv, ConsumerCleared
      <4>2. thr_tail[c] \in Nat /\ PushTicket(p) \in Nat
        BY <2>1, EmptyingWithinOneRound, QueueAssumption, Sets
        DEF PopCopy, PopGoto, PushTicket, PushUnwritten, PushHolds, PushAnnounced, Inv, TypeOK
      <4> QED BY <4>1, <4>2
    <3>3. ItemOf(thr_tail[c]) = ptr_array_[Slot(thr_tail[c])]
      BY <3>2, ItemWritten
    <3> QED BY <3>1, <3>3, GivenIs, GivenIsNext
  <2>2. CASE ~ PopCopy(c) /\ Served(c) /\ PopUnread(c)
    BY <1>1, <1>3, <1>6, <2>2, GivenIs, GivenIsNext DEF Served
  <2>3. CASE ~ PopCopy(c) /\ ~ (Served(c) /\ PopUnread(c))
    BY <1>1, <1>3, <2>3, GivenIs, GivenIsNext
  <2> QED BY <2>1, <2>2, <2>3
<1>9. Given' = Given
  BY <1>7, <1>8, GivenChanges, GivenIsFunction
<1> QED BY <1>2, <1>5, <1>9 DEF Fifo!vars

------------------------------------------------------------------------------
\* push() and pop() implement a first-in first-out queue whatever the number of
\* threads, the size of the ring and the number of operations: no item is lost,
\* duplicated, reordered or made up.
THEOREM Refinement == Spec => ImplementsFifo
<1>1. Init => Fifo!Init
  <2> SUFFICES ASSUME Init PROVE Fifo!Init
    OBVIOUS
  <2>1. Contents = << >>
    <3>1. ~ (tail_ < head_)
      BY DEF Init
    <3> QED BY ONLY <3>1 DEF Contents
  <2>2. \A c \in Consumers : pop_pc[c] = "idle" /\ ~ Served(c) /\ buffer[c] = NoItem
    BY DEF Init, Served, PopHolds
  <2>3. Popping = [c \in Consumers |-> "idle"] /\ Given = [c \in Consumers |-> NoItem]
    BY <2>2 DEF Popping, Given
  <2>4. Pushing = [p \in Producers |-> "idle"]
    BY DEF Init, Pushing
  <2> QED BY <2>1, <2>3, <2>4 DEF Init, Fifo!Init
<1>2. Inv /\ Inv' /\ [Next]_vars => [Fifo!Next]_(Fifo!vars)
  <2> SUFFICES ASSUME Inv, Inv', [Next]_vars PROVE [Fifo!Next]_(Fifo!vars)
    OBVIOUS
  <2>1. ASSUME NEW p \in Producers, NEW x \in Items, PushCall(p, x) PROVE Fifo!Next
    BY <2>1, PushCallStep DEF Fifo!Next
  <2>2. ASSUME NEW p \in Producers, PushStep(p) PROVE [Fifo!Next]_(Fifo!vars)
    BY <2>2, PushTakeStep, PushReleaseStep, PushOtherStep DEF Fifo!Next
  <2>3. ASSUME NEW c \in Consumers, PopCall(c) PROVE Fifo!Next
    BY <2>3, PopCallStep DEF Fifo!Next
  <2>4. ASSUME NEW c \in Consumers, PopStep(c) PROVE [Fifo!Next]_(Fifo!vars)
    BY <2>4, PopTakeStep, PopReleaseStep, PopOtherStep DEF Fifo!Next
  <2>5. CASE UNCHANGED vars
    BY <2>5 DEF vars, shared, pushLocal, popLocal, Fifo!vars, Contents, Pushing, Popping,
       Given, ItemOf, Served, PushUnwritten, PushHolds, PushTicket, PopUnread, PopHolds,
       PopTicket
  <2> QED BY <2>1, <2>2, <2>3, <2>4, <2>5 DEF Next
<1> QED BY <1>1, <1>2, Invariance, PTL DEF Spec, ImplementsFifo, Fifo!Spec
==============================================================================
