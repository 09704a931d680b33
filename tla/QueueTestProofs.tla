--------------------------- MODULE QueueTestProofs ---------------------------
(***************************************************************************)
(* run_test() for any number of threads, elements and slots: every element *)
(* is popped exactly once.                                                 *)
(***************************************************************************)
EXTENDS QueueTest, LockFreeQueueRefinement, FiniteSetTheorems

------------------------------------------------------------------------------
(* Which producer pushes which element.                                     *)

LEMMA Multiples ==
    ASSUME NEW d \in Nat \ {0}, NEW m \in Int
    PROVE  d * m <= 0 - d \/ m = 0 \/ d * m >= d
<1>1. CASE m >= 1
  BY <1>1
<1>2. CASE m <= 0 - 1
  BY <1>2
<1> QED BY <1>1, <1>2

LEMMA Division ==
    ASSUME NEW a \in Nat, NEW d \in Nat \ {0}
    PROVE  /\ a = d * (a \div d) + (a % d) /\ a \div d \in Int
           /\ a % d \in Nat /\ a % d < d
OBVIOUS

LEMMA UniqueRemainder ==
    ASSUME NEW d \in Nat \ {0}, NEW u \in Int, NEW v \in Int, NEW r \in Nat, NEW s \in Nat,
           r < d, s < d, d * u + r = d * v + d + s
    PROVE  r = s
<1>1. d * (u - v - 1) = d * u - d * v - d
  OBVIOUS
<1>2. d * u \in Int /\ d * v \in Int
  OBVIOUS
<1>3. d * (u - v - 1) = s - r
  BY <1>1, <1>2
<1>4. u - v - 1 = 0
  BY <1>3, Multiples
<1> QED BY <1>3, <1>4

LEMMA NextMultiple ==
    ASSUME NEW a \in Nat, NEW d \in Nat \ {0}
    PROVE  (a + d) % d = a % d
<1> DEFINE b == a + d
<1>1. b \in Nat /\ b = a + d
  OBVIOUS
<1> HIDE DEF b
<1>2. /\ a = d * (a \div d) + (a % d) /\ a \div d \in Int /\ a % d \in Nat /\ a % d < d
      /\ b = d * (b \div d) + (b % d) /\ b \div d \in Int /\ b % d \in Nat /\ b % d < d
  BY <1>1, Division
<1>3. d * (b \div d) + (b % d) = d * (a \div d) + d + (a % d)
  BY <1>1, <1>2
<1>4. b % d = a % d
  BY <1>2, <1>3, UniqueRemainder
<1> QED BY <1>4 DEF b

LEMMA SameRemainder ==
    ASSUME NEW a \in Nat, NEW b \in Nat, NEW d \in Nat \ {0}, a % d = b % d, b < a + d
    PROVE  b <= a
<1> DEFINE m == (b \div d) - (a \div d)
<1>1. /\ a = d * (a \div d) + (a % d) /\ a \div d \in Int
      /\ b = d * (b \div d) + (b % d) /\ b \div d \in Int
  BY Division
<1>2. m \in Int /\ d * m = b - a
  BY <1>1
<1> HIDE DEF m
<1> QED BY <1>2, Multiples

------------------------------------------------------------------------------
(* The inductive invariant: where each element is.                          *)

\* p is inside push() and has no ticket yet: the element is in its argument.
Pending(p) == push_pc[p] \in {"load", "announce", "take"}

\* c's last pop() has copied an element that c has not marked yet.
InHand(c) == at[c] = "use" /\ pop_pc[c] \in {"pos", "release", "idle"}

TestTypeOK ==
    /\ loop_i \in [Producers -> Nat] /\ n \in Nat
    /\ at \in [Consumers -> {"test", "use", "end"}]
    /\ x \in [Items -> {"EMPTY", "MISSED"}]
    /\ received \in [Items -> {0, 1}]

\* Producer p pushes the elements p, p + PRODUCERS, ... in this order.
Shared ==
    \A p \in Producers :
        /\ loop_i[p] % PRODUCERS = p
        /\ \A i \in Items : i % PRODUCERS = p => (x[i] = "MISSED" <=> i < loop_i[p])

\* A consumer is in pop() only from its loop.
Asks == \A c \in Consumers : /\ pop_pc[c] # "idle" => at[c] = "use"
                             /\ at[c] = "end" => n >= MaxTicket

\* An element on its way has been pushed and not received.
Under(i) == i \in Items /\ x[i] = "MISSED" /\ received[i] = 0

InArguments ==
    \A p \in Producers : Pending(p) =>
        /\ Under(item[p])
        /\ \A o \in Producers \ {p} : Pending(o) => item[o] # item[p]
        /\ \A k \in Positions : Live(k) => ItemOf(k) # item[p]
        /\ \A c \in Consumers : InHand(c) => buffer[c] # item[p]

InTickets ==
    \A k \in Positions : Live(k) =>
        /\ Under(ItemOf(k))
        /\ \A j \in Positions \ {k} : Live(j) => ItemOf(j) # ItemOf(k)
        /\ \A c \in Consumers : InHand(c) => buffer[c] # ItemOf(k)

InHands ==
    \A c \in Consumers : InHand(c) =>
        /\ Under(buffer[c])
        /\ \A d \in Consumers \ {c} : InHand(d) => buffer[d] # buffer[c]

\* No element that was pushed is nowhere.
Somewhere ==
    \A i \in Items : x[i] = "MISSED" =>
        \/ received[i] = 1
        \/ \E p \in Producers : Pending(p) /\ item[p] = i
        \/ \E k \in Positions : Live(k) /\ ItemOf(k) = i
        \/ \E c \in Consumers : InHand(c) /\ buffer[c] = i

OnlyPushed == \A i \in Items : x[i] = "EMPTY" => received[i] = 0

Placed == InArguments /\ InTickets /\ InHands /\ Somewhere /\ OnlyPushed

\* n counts the pops that were begun: those with a ticket and those without.
Asking == {c \in Consumers : pop_pc[c] \in {"load", "announce", "take"}}

PopsCounted == tail_ + Cardinality(Asking) = Lesser(n, MaxTicket)

\* Main has joined all threads.
Joined == res # "none" => AllEnded

TestInv == Inv /\ TestTypeOK /\ Shared /\ Asks /\ Placed /\ PopsCounted /\ Joined

------------------------------------------------------------------------------
LEMMA ProducersPositive ==
    ASSUME NEW p \in Producers
    PROVE  p \in Nat /\ p < PRODUCERS /\ PRODUCERS \in Nat \ {0}
BY QueueAssumption DEF Producers, PRODUCERS

LEMMA ItemsInterval ==
    /\ \A i : i \in Items <=> i \in Nat /\ i < MaxTicket
    /\ NoItem \notin Items /\ MaxTicket \in Nat /\ MaxTicket = N * PRODUCERS
BY QueueAssumption, TestAssumption

LEMMA AskingFinite == IsFiniteSet(Asking) /\ Cardinality(Asking) \in Nat
<1>1. IsFiniteSet(Consumers)
  BY QueueAssumption, FS_Interval DEF Consumers
<1> QED BY <1>1, FS_Subset, FS_CardinalityType DEF Asking

LEMMA AskingFiniteNext == IsFiniteSet(Asking') /\ Cardinality(Asking') \in Nat
<1>1. IsFiniteSet(Consumers)
  BY QueueAssumption, FS_Interval DEF Consumers
<1> QED BY <1>1, FS_Subset, FS_CardinalityType DEF Asking

\* A step that moves no element.
LEMMA PlacedKept ==
    ASSUME Placed, UNCHANGED <<x, received>>,
           \A p \in Producers : /\ Pending(p)' <=> Pending(p)
                                /\ Pending(p) => item'[p] = item[p],
           \A k \in Positions : /\ Live(k)' <=> Live(k)
                                /\ Live(k) => ItemOf(k)' = ItemOf(k),
           \A c \in Consumers : /\ InHand(c)' <=> InHand(c)
                                /\ InHand(c) => buffer'[c] = buffer[c]
    PROVE  Placed'
<1>1. InArguments'
  BY DEF Placed, InArguments, Under
<1>2. InTickets'
  BY DEF Placed, InTickets, Under
<1>3. InHands'
  BY DEF Placed, InHands, Under
<1>4. Somewhere'
  BY DEF Placed, Somewhere
<1> QED BY <1>1, <1>2, <1>3, <1>4 DEF Placed, OnlyPushed

------------------------------------------------------------------------------
(* The producers.                                                           *)

LEMMA ProducerLoopPlaced ==
    ASSUME TestInv, Inv', NEW p \in Producers, ProducerLoop(p), NEW e, e = loop_i[p]
    PROVE  Placed' /\ Shared' /\ TestTypeOK'
<1>1. /\ PushCall(p, e) /\ e \in Nat /\ e \in Items
      /\ x' = [x EXCEPT ![e] = "MISSED"]
      /\ loop_i' = [loop_i EXCEPT ![p] = e + PRODUCERS]
      /\ UNCHANGED <<n, at, received>>
  BY ItemsInterval DEF ProducerLoop, TestInv, TestTypeOK
<1>2. e % PRODUCERS = p /\ x[e] # "MISSED"
  BY <1>1 DEF TestInv, Shared
<1>3. /\ push_pc[p] = "idle" /\ push_pc' = [push_pc EXCEPT ![p] = "load"]
      /\ item' = [item EXCEPT ![p] = e]
      /\ UNCHANGED <<head_, tail_, thr_tail, popLocal>>
  BY <1>1 DEF PushCall, PushGoto, shared
<1>4. /\ ~ Pending(p) /\ Pending(p)' /\ item'[p] = e
      /\ \A o \in Producers \ {p} : (Pending(o)' <=> Pending(o)) /\ item'[o] = item[o]
  BY <1>3 DEF Pending, TestInv, Inv, TypeOK
<1>5. \A k \in Positions : /\ Live(k)' <=> Live(k)
                           /\ Live(k) => ItemOf(k)' = ItemOf(k)
  BY <1>1, <1>3, PushItemKept DEF Live, PopUnread, PopHolds, PopTicket, popLocal, TestInv
<1>6. \A c \in Consumers : (InHand(c)' <=> InHand(c)) /\ buffer'[c] = buffer[c]
  BY <1>1, <1>3 DEF InHand, popLocal
<1>7. \A i : Under(i) => i # e /\ Under(i)'
  BY <1>1, <1>2 DEF Under, TestInv, TestTypeOK
<1>8. Under(e)'
  <2>1. received[e] = 0
    BY <1>1, <1>2 DEF TestInv, TestTypeOK, Placed, OnlyPushed
  <2> QED BY <1>1, <2>1 DEF Under, TestInv, TestTypeOK
<1>9. InArguments'
  BY <1>4, <1>5, <1>6, <1>7, <1>8 DEF TestInv, Placed, InArguments, InTickets, InHands
<1>10. InTickets'
  BY <1>5, <1>6, <1>7 DEF TestInv, Placed, InTickets
<1>11. InHands'
  BY <1>6, <1>7 DEF TestInv, Placed, InHands
<1>12. Somewhere'
  BY <1>1, <1>4, <1>5, <1>6 DEF TestInv, Placed, Somewhere, TestTypeOK
<1>13. Shared'
  <2> SUFFICES ASSUME NEW o \in Producers
               PROVE  /\ loop_i'[o] % PRODUCERS = o
                      /\ \A i \in Items : i % PRODUCERS = o => (x'[i] = "MISSED" <=> i < loop_i'[o])
    BY DEF Shared
  <2>1. CASE o # p
    BY <1>1, <1>2, <2>1 DEF TestInv, Shared, TestTypeOK
  <2>2. CASE o = p
    <3>1. loop_i'[o] = e + PRODUCERS /\ (e + PRODUCERS) % PRODUCERS = p
      BY <1>1, <1>2, <2>2, NextMultiple, ProducersPositive DEF TestInv, TestTypeOK
    <3>2. \A i \in Items : i % PRODUCERS = p => (i < e + PRODUCERS <=> i <= e)
      BY <1>1, <1>2, SameRemainder, ProducersPositive, ItemsInterval
    <3>3. \A i \in Items : i % PRODUCERS = p => (x'[i] = "MISSED" <=> i <= e)
      BY <1>1, ItemsInterval DEF TestInv, Shared, TestTypeOK
    <3> QED BY <2>2, <3>1, <3>2, <3>3
  <2> QED BY <2>1, <2>2
<1>14. TestTypeOK'
  BY <1>1, ProducersPositive DEF TestInv, TestTypeOK
<1>15. OnlyPushed'
  BY <1>1 DEF TestInv, Placed, OnlyPushed, TestTypeOK
<1> QED BY <1>9, <1>10, <1>11, <1>12, <1>13, <1>14, <1>15 DEF Placed

\* The element moves from the argument to the ticket.
LEMMA PushTakePlaced ==
    ASSUME TestInv, Inv', NEW p \in Producers, PushTake(p), UNCHANGED testVars
    PROVE  Placed'
<1> USE QueueAssumption, Sets
<1>1. /\ push_pc[p] = "take" /\ push_pc' = [push_pc EXCEPT ![p] = "record"]
      /\ push_reg' = [push_reg EXCEPT ![p] = head_]
      /\ head_' = head_ + 1 /\ head_ \in Nat /\ tail_ \in Nat
      /\ UNCHANGED <<tail_, item, thr_head, thr_tail, popLocal, x, received, at>>
  BY DEF PushTake, PushGoto, TestInv, Inv, TypeOK, testVars
<1>2. \A k : k = head_ => /\ k \in Positions /\ ItemOf(k)' = item[p]
                          /\ ~ Live(k) /\ Live(k)'
  <2>1. PushUnwritten(p)' /\ PushTicket(p)' = head_
    BY <1>1 DEF PushUnwritten, PushHolds, PushTicket, TestInv, Inv, TypeOK
  <2>2. \A k : k = head_ => ItemOf(k)' = item[p]
    BY <1>1, <2>1, ItemUnwrittenNext
  <2>3. head_ \in Positions
    BY DEF TestInv, Inv, TypeOK
  <2>4. CASE tail_ <= head_
    BY <1>1, <2>2, <2>3, <2>4 DEF Live
  <2>5. CASE head_ < tail_
    <3>1. PICK c \in Consumers : PopHolds(c) /\ PopTicket(c) = head_
      BY <1>1, <2>3, <2>5 DEF TestInv, Inv, ConsumerWaits
    <3>2. PopUnread(c)' /\ PopTicket(c)' = head_
      BY <1>1, <3>1 DEF PopUnread, PopHolds, PopTicket, ConsumerCleared, popLocal, TestInv, Inv
    <3> QED BY <1>1, <2>2, <2>3, <3>2 DEF Live
  <2> QED BY <1>1, <2>4, <2>5
<1>3. \A k \in Positions : /\ Live(k) => Live(k)' /\ ItemOf(k)' = ItemOf(k)
                           /\ Live(k)' => Live(k) \/ k = head_
  <2> SUFFICES ASSUME NEW k \in Positions
               PROVE  /\ Live(k) => Live(k)' /\ ItemOf(k)' = ItemOf(k)
                      /\ Live(k)' => Live(k) \/ k = head_
    OBVIOUS
  <2>1. Live(k) => ItemOf(k)' = ItemOf(k)
    BY PushItemKept DEF TestInv, PushStep
  <2>2. \A c \in Consumers : (PopUnread(c)' <=> PopUnread(c)) /\ PopTicket(c)' = PopTicket(c)
    BY <1>1 DEF PopUnread, PopHolds, PopTicket, popLocal
  <2> QED BY <1>1, <2>1, <2>2 DEF Live
<1>4. /\ Pending(p) /\ ~ Pending(p)'
      /\ \A o \in Producers \ {p} : Pending(o)' <=> Pending(o)
  BY <1>1 DEF Pending, TestInv, Inv, TypeOK
<1>5. \A c \in Consumers : (InHand(c)' <=> InHand(c)) /\ buffer'[c] = buffer[c]
  BY <1>1 DEF InHand, popLocal
<1>6. \A i : Under(i)' <=> Under(i)
  BY <1>1 DEF Under
<1>7. Placed
  BY DEF TestInv
<1>8. item' = item /\ x' = x /\ received' = received
  BY <1>1
<1>9. InArguments'
  BY <1>2, <1>3, <1>4, <1>5, <1>6, <1>7, <1>8 DEF Placed, InArguments
<1>10. InTickets'
  <2> SUFFICES ASSUME NEW k \in Positions, Live(k)'
               PROVE  /\ Under(ItemOf(k))'
                      /\ \A j \in Positions \ {k} : Live(j)' => ItemOf(j)' # ItemOf(k)'
                      /\ \A c \in Consumers : InHand(c)' => buffer'[c] # ItemOf(k)'
    BY DEF InTickets
  <2>1. CASE k = head_
    <3>1. ItemOf(k)' = item[p] /\ Under(item[p])
      BY <1>2, <1>4, <1>7, <2>1 DEF Placed, InArguments
    <3>2. Under(ItemOf(k))'
      BY <1>8, <3>1 DEF Under
    <3>3. \A j \in Positions \ {k} : Live(j)' => ItemOf(j)' # ItemOf(k)'
      BY <1>3, <1>4, <1>7, <2>1, <3>1 DEF Placed, InArguments
    <3> QED BY <1>4, <1>5, <1>7, <3>1, <3>2, <3>3 DEF Placed, InArguments
  <2>2. CASE k # head_
    <3>1. Live(k) /\ ItemOf(k)' = ItemOf(k)
      BY <1>3, <2>2
    <3>2. Under(ItemOf(k))'
      BY <1>7, <1>8, <3>1 DEF Under, Placed, InTickets
    <3>3. \A j \in Positions \ {k} : Live(j)' => ItemOf(j)' # ItemOf(k)'
      BY <1>2, <1>3, <1>4, <1>7, <3>1 DEF Placed, InArguments, InTickets
    <3> QED BY <1>5, <1>7, <3>1, <3>2, <3>3 DEF Placed, InTickets
  <2> QED BY <2>1, <2>2
<1>11. InHands'
  BY <1>5, <1>6, <1>7 DEF Placed, InHands
<1>12. Somewhere'
  BY <1>2, <1>3, <1>4, <1>5, <1>7, <1>8 DEF Placed, Somewhere
<1> QED BY <1>7, <1>8, <1>9, <1>10, <1>11, <1>12 DEF Placed, OnlyPushed

LEMMA PushOtherPlaced ==
    ASSUME TestInv, Inv', NEW p \in Producers, PushStep(p), ~ PushTake(p), UNCHANGED testVars
    PROVE  Placed'
<1>1. /\ UNCHANGED <<head_, tail_, thr_tail, popLocal, item>>
      /\ \A o \in Producers : Pending(o)' <=> Pending(o)
  BY DEF PushStep, PushLoad, PushAnnounce, PushRecord, PushCheck, PushFind, PushScan,
     PushUpdate, PushCopy, PushPos, PushRelease, PushGoto, Pending, shared, TestInv, Inv, TypeOK
<1>2. \A k \in Positions : /\ Live(k)' <=> Live(k)
                           /\ Live(k) => ItemOf(k)' = ItemOf(k)
  BY <1>1, PushItemKept DEF Live, PopUnread, PopHolds, PopTicket, popLocal, TestInv
<1>3. \A c \in Consumers : (InHand(c)' <=> InHand(c)) /\ buffer'[c] = buffer[c]
  BY <1>1 DEF InHand, popLocal, testVars
<1> QED BY <1>1, <1>2, <1>3, PlacedKept DEF TestInv, testVars

------------------------------------------------------------------------------
(* The consumers.                                                           *)

LEMMA ConsumerTestPlaced ==
    ASSUME TestInv, NEW c \in Consumers, ConsumerTest(c)
    PROVE  Placed'
<1>1. UNCHANGED <<x, received, shared, pushLocal, buffer>>
  BY DEF ConsumerTest, PopCall, vars, popLocal
<1>2. \A p \in Producers : (Pending(p)' <=> Pending(p)) /\ item'[p] = item[p]
  BY <1>1 DEF Pending, pushLocal
<1>3. at[c] = "test" /\ pop_pc[c] = "idle"
  BY DEF ConsumerTest, TestInv, Asks
<1>4. \A d \in Consumers : InHand(d)' <=> InHand(d)
  BY <1>3 DEF ConsumerTest, PopCall, PopGoto, InHand, vars, popLocal, TestInv, TestTypeOK, Inv, TypeOK
<1>5. \A d \in Consumers : /\ PopUnread(d)' <=> PopUnread(d)
                           /\ PopUnread(d) => PopTicket(d)' = PopTicket(d)
  BY <1>1, <1>3 DEF ConsumerTest, PopCall, PopGoto, PopUnread, PopHolds, PopTicket, shared, vars,
     popLocal, TestInv, Inv, TypeOK
<1>6. \A k \in Positions : (Live(k)' <=> Live(k)) /\ ItemOf(k)' = ItemOf(k)
  BY <1>1, <1>5 DEF Live, ItemOf, PushUnwritten, PushHolds, PushTicket, shared, pushLocal
<1> QED BY <1>1, <1>2, <1>4, <1>6, PlacedKept DEF TestInv

LEMMA PopOtherPlaced ==
    ASSUME TestInv, Inv', NEW c \in Consumers, PopStep(c), ~ PopCopy(c), UNCHANGED testVars
    PROVE  Placed'
<1> USE QueueAssumption, Sets
<1>1. UNCHANGED <<head_, pushLocal, buffer>>
  BY DEF PopStep, PopLoad, PopAnnounce, PopTake, PopRecord, PopCheck, PopFind, PopScan,
     PopUpdate, PopPos, PopRelease, shared
<1>2. \A p \in Producers : (Pending(p)' <=> Pending(p)) /\ item'[p] = item[p]
  BY <1>1 DEF Pending, pushLocal
<1>3. at[c] = "use"
  BY DEF PopStep, PopLoad, PopAnnounce, PopTake, PopRecord, PopCheck, PopFind, PopScan,
     PopUpdate, PopPos, PopRelease, PopGoto, TestInv, Asks
<1>4. \A d \in Consumers : InHand(d)' <=> InHand(d)
  BY <1>3 DEF PopStep, PopLoad, PopAnnounce, PopTake, PopRecord, PopCheck, PopFind, PopScan,
     PopUpdate, PopPos, PopRelease, PopGoto, InHand, testVars, TestInv, Inv, TypeOK
<1>5. CASE PopTake(c)
  <2>1. /\ tail_' = tail_ + 1 /\ tail_ \in Nat
        /\ PopUnread(c)' /\ PopTicket(c)' = tail_ /\ ~ PopUnread(c)
        /\ \A d \in Consumers \ {c} : /\ PopUnread(d)' <=> PopUnread(d)
                                      /\ PopTicket(d)' = PopTicket(d)
    BY <1>5 DEF PopTake, PopGoto, PopUnread, PopHolds, PopTicket, TestInv, Inv, TypeOK
  <2>2. \A k \in Positions : Live(k)' <=> Live(k)
    BY <1>1, <2>1 DEF Live
  <2> QED BY <1>2, <1>1, <1>4, <2>2, PopItemKept, PlacedKept DEF TestInv, testVars
<1>6. CASE ~ PopTake(c)
  <2>1. /\ tail_' = tail_
        /\ \A d \in Consumers : /\ PopUnread(d)' <=> PopUnread(d)
                                /\ PopUnread(d) => PopTicket(d)' = PopTicket(d)
    BY <1>6 DEF PopStep, PopLoad, PopAnnounce, PopRecord, PopCheck, PopFind, PopScan, PopUpdate,
       PopPos, PopRelease, PopGoto, PopUnread, PopHolds, PopTicket, shared, TestInv, Inv, TypeOK
  <2>2. \A k \in Positions : Live(k)' <=> Live(k)
    BY <1>1, <2>1 DEF Live
  <2> QED BY <1>2, <1>1, <1>4, <2>2, PopItemKept, PlacedKept DEF TestInv, testVars
<1> QED BY <1>5, <1>6

\* The element moves from the ticket to the consumer's buffer.
LEMMA PopCopyPlaced ==
    ASSUME TestInv, Inv', NEW c \in Consumers, PopCopy(c), UNCHANGED testVars,
           NEW t, t = thr_tail[c]
    PROVE  Placed'
<1> USE QueueAssumption, Sets
<1>1. /\ pop_pc[c] = "copy" /\ pop_pc' = [pop_pc EXCEPT ![c] = "pos"]
      /\ buffer' = [buffer EXCEPT ![c] = ptr_array_[Slot(t)]]
      /\ UNCHANGED <<shared, pushLocal, pop_reg, x, received, at>>
  BY DEF PopCopy, PopGoto, testVars
<1>2. t \in Positions /\ t < head_ /\ PopUnread(c) /\ PopTicket(c) = t /\ ~ PopUnread(c)'
  BY <1>1, EmptyingWithinOneRound DEF PopUnread, PopHolds, PopTicket, ConsumerCleared, TestInv, Inv, TypeOK
<1>3. \A p \in Producers : PushUnwritten(p) => PushTicket(p) # t
  <2> SUFFICES ASSUME NEW p \in Producers, PushUnwritten(p) PROVE PushTicket(p) # t
    OBVIOUS
  <2>1. t < PushTicket(p)
    BY <1>1, EmptyingWithinOneRound DEF PushUnwritten, TestInv
  <2> QED BY <1>2, <2>1
<1>4. Live(t) /\ ItemOf(t) = ptr_array_[Slot(t)]
  BY <1>2, <1>3, ItemWritten DEF Live
<1>5. \A d \in Consumers \ {c} : /\ PopUnread(d)' <=> PopUnread(d)
                                 /\ PopTicket(d)' = PopTicket(d)
                                 /\ PopUnread(d) => PopTicket(d) # t
  BY <1>1, <1>2 DEF PopUnread, PopHolds, PopTicket, shared, PopDistinct, TestInv, Inv, TypeOK
<1>6. t < tail_ /\ tail_ \in Nat /\ head_' = head_ /\ tail_' = tail_
  BY <1>1, <1>2 DEF PopUnread, PopAnnounced, TestInv, Inv, TypeOK, shared
<1>7. \A k \in Positions : Live(k)' <=> Live(k) /\ k # t
  BY <1>2, <1>5, <1>6 DEF Live
<1>8. \A k : ItemOf(k)' = ItemOf(k)
  BY PopItemKept DEF PopStep
<1>9. /\ ~ InHand(c) /\ InHand(c)' /\ buffer'[c] = ItemOf(t)
      /\ \A d \in Consumers \ {c} : (InHand(d)' <=> InHand(d)) /\ buffer'[d] = buffer[d]
  BY <1>1, <1>4 DEF InHand, TestInv, Inv, TypeOK, Asks
<1>10. \A p \in Producers : (Pending(p)' <=> Pending(p)) /\ item'[p] = item[p]
  BY <1>1 DEF Pending, pushLocal
<1>11. Placed /\ x' = x /\ received' = received
  BY <1>1 DEF TestInv
<1>12. \A i : Under(i)' <=> Under(i)
  BY <1>11 DEF Under
<1>13. InArguments'
  BY <1>2, <1>4, <1>7, <1>8, <1>9, <1>10, <1>11, <1>12 DEF Placed, InArguments, Under
<1>14. InTickets'
  BY <1>2, <1>4, <1>7, <1>8, <1>9, <1>11, <1>12 DEF Placed, InTickets, Under
<1>15. InHands'
  BY <1>2, <1>4, <1>7, <1>9, <1>11, <1>12 DEF Placed, InTickets, InHands, Under
<1>16. Somewhere'
  BY <1>4, <1>7, <1>8, <1>9, <1>10, <1>11 DEF Placed, Somewhere
<1> QED BY <1>11, <1>13, <1>14, <1>15, <1>16 DEF Placed, OnlyPushed

\* The element is received.
LEMMA ConsumerUsePlaced ==
    ASSUME TestInv, NEW c \in Consumers, ConsumerUse(c), NEW e, e = buffer[c]
    PROVE  Placed' /\ received' \in [Items -> {0, 1}]
<1>1. /\ at[c] = "use" /\ pop_pc[c] = "idle" /\ at' = [at EXCEPT ![c] = "test"]
      /\ received' = [i \in Items |-> IF i = e THEN received[i] + 1 ELSE received[i]]
      /\ buffer' = [buffer EXCEPT ![c] = NoItem]
      /\ UNCHANGED <<shared, pushLocal, pop_pc, pop_reg, x>>
  BY DEF ConsumerUse
<1>2. InHand(c) /\ ~ InHand(c)' /\ Under(e)
  BY <1>1 DEF InHand, TestInv, Placed, InHands, TestTypeOK
<1>3. received'[e] = 1 /\ \A i \in Items \ {e} : received'[i] = received[i]
  BY <1>1, <1>2 DEF Under
<1>4. \A d \in Consumers \ {c} : (InHand(d)' <=> InHand(d)) /\ buffer'[d] = buffer[d]
  BY <1>1 DEF InHand, TestInv, TestTypeOK, Inv, TypeOK
<1>5. \A p \in Producers : (Pending(p)' <=> Pending(p)) /\ item'[p] = item[p]
  BY <1>1 DEF Pending, pushLocal
<1>6. \A k \in Positions : (Live(k)' <=> Live(k)) /\ ItemOf(k)' = ItemOf(k)
  BY <1>1 DEF Live, ItemOf, PushUnwritten, PushHolds, PushTicket, PopUnread, PopHolds, PopTicket,
     shared, pushLocal
<1>7. \A i : Under(i) /\ i # e => Under(i)'
  BY <1>1, <1>3 DEF Under
<1>8. Placed /\ x' = x
  BY <1>1 DEF TestInv
<1>9. InArguments'
  BY <1>2, <1>4, <1>5, <1>6, <1>7, <1>8 DEF Placed, InArguments
<1>10. InTickets'
  BY <1>2, <1>4, <1>6, <1>7, <1>8 DEF Placed, InTickets
<1>11. InHands'
  BY <1>2, <1>4, <1>7, <1>8 DEF Placed, InHands
<1>12. Somewhere'
  BY <1>2, <1>3, <1>4, <1>5, <1>6, <1>8 DEF Placed, Somewhere
<1>13. OnlyPushed'
  BY <1>2, <1>3, <1>8 DEF Placed, OnlyPushed, Under
<1>14. received' \in [Items -> {0, 1}]
  BY <1>1, <1>2 DEF Under, TestInv, TestTypeOK
<1> QED BY <1>9, <1>10, <1>11, <1>12, <1>13, <1>14 DEF Placed

------------------------------------------------------------------------------
(* The pops that were begun.                                                *)

LEMMA ConsumerTestCounted ==
    ASSUME TestInv, NEW c \in Consumers, ConsumerTest(c)
    PROVE  PopsCounted'
<1>1. /\ pop_pc[c] = "idle" /\ c \notin Asking /\ tail_' = tail_ /\ n' = n + 1 /\ n \in Nat
      /\ MaxTicket \in Nat
  BY ItemsInterval DEF ConsumerTest, PopCall, vars, shared, TestInv, TestTypeOK, Asks, Asking
<1>2. tail_ + Cardinality(Asking) = Lesser(n, MaxTicket) /\ tail_ \in Nat
  BY Sets, QueueAssumption DEF TestInv, PopsCounted, Inv, TypeOK
<1>3. CASE n < MaxTicket
  <2>1. PopCall(c)
    BY <1>3, ItemsInterval DEF ConsumerTest
  <2>2. Asking' = Asking \cup {c}
    BY <2>1 DEF PopCall, PopGoto, Asking, TestInv, Inv, TypeOK
  <2>3. Cardinality(Asking') = Cardinality(Asking) + 1
    BY <1>1, <2>2, AskingFinite, FS_AddElement
  <2> QED BY <1>1, <1>2, <1>3, <2>3, AskingFinite DEF PopsCounted, Lesser
<1>4. CASE ~ (n < MaxTicket)
  <2>1. Asking' = Asking
    BY <1>4, ItemsInterval DEF ConsumerTest, vars, popLocal, Asking
  <2> QED BY <1>1, <1>2, <1>4, <2>1 DEF PopsCounted, Lesser
<1> QED BY <1>3, <1>4

LEMMA PopCounted ==
    ASSUME TestInv, NEW c \in Consumers, PopStep(c), UNCHANGED n
    PROVE  PopsCounted'
<1>1. CASE PopTake(c)
  <2>1. /\ tail_' = tail_ + 1 /\ tail_ \in Nat
        /\ Asking' = Asking \ {c} /\ c \in Asking
    BY <1>1, Sets, QueueAssumption DEF PopTake, PopGoto, Asking, TestInv, Inv, TypeOK
  <2>2. Cardinality(Asking') = Cardinality(Asking) - 1
    BY <2>1, AskingFinite, FS_RemoveElement
  <2>3. tail_' + Cardinality(Asking') = tail_ + Cardinality(Asking)
    BY <2>1, <2>2, AskingFinite
  <2> QED BY <2>3 DEF PopsCounted, TestInv
<1>2. CASE ~ PopTake(c)
  <2>1. tail_' = tail_ /\ Asking' = Asking
    BY <1>2 DEF PopStep, PopLoad, PopAnnounce, PopRecord, PopCheck, PopFind, PopScan, PopUpdate,
       PopCopy, PopPos, PopRelease, PopGoto, shared, Asking, TestInv, Inv, TypeOK
  <2> QED BY <2>1 DEF PopsCounted, TestInv
<1> QED BY <1>1, <1>2

LEMMA StillCounted ==
    ASSUME PopsCounted, UNCHANGED <<tail_, n, pop_pc>>
    PROVE  PopsCounted'
BY DEF PopsCounted, Asking

------------------------------------------------------------------------------
(* Every step.                                                              *)

LEMMA TestInitInv == TestInit => TestInv
<1> SUFFICES ASSUME TestInit PROVE TestInv
  OBVIOUS
<1>1. Inv
  BY InitInv DEF TestInit
<1>2. TestTypeOK
  BY ProducersPositive DEF TestInit, TestTypeOK
<1>3. Shared
  <2> SUFFICES ASSUME NEW p \in Producers
               PROVE  /\ loop_i[p] % PRODUCERS = p
                      /\ \A i \in Items : i % PRODUCERS = p => (x[i] = "MISSED" <=> i < loop_i[p])
    BY DEF Shared
  <2>1. loop_i[p] = p /\ p % PRODUCERS = p
    BY ProducersPositive DEF TestInit
  <2>2. ASSUME NEW i \in Items, i % PRODUCERS = p PROVE ~ (i < p)
    BY <2>2, ProducersPositive, ItemsInterval
  <2> QED BY <2>1, <2>2 DEF TestInit
<1>4. Asks
  BY DEF TestInit, Init, Asks
<1>5. /\ \A p \in Producers : ~ Pending(p)
      /\ \A k \in Positions : ~ Live(k)
      /\ \A c \in Consumers : ~ InHand(c)
  BY Sets, QueueAssumption DEF TestInit, Init, Pending, Live, InHand, PopUnread, PopHolds
<1>6. Placed
  BY <1>5 DEF Placed, InArguments, InTickets, InHands, Somewhere, OnlyPushed, TestInit
<1>7. PopsCounted
  <2>1. Asking = {} /\ tail_ = 0 /\ n = 0
    BY DEF TestInit, Init, Asking
  <2> QED BY <2>1, FS_EmptySet, ItemsInterval DEF PopsCounted, Lesser
<1>8. Joined
  BY DEF TestInit, Joined
<1> QED BY <1>1, <1>2, <1>3, <1>4, <1>6, <1>7, <1>8 DEF TestInv

\* Once main has joined the threads they do nothing any more.
LEMMA NoneRuns ==
    ASSUME TestInv, res # "none"
    PROVE  /\ \A p \in Producers : ~ Producer(p)
           /\ \A c \in Consumers : ~ Consumer(c)
<1>1. /\ \A p \in Producers : push_pc[p] = "idle" /\ ~ (loop_i[p] < N * PRODUCERS)
      /\ \A c \in Consumers : at[c] = "end" /\ pop_pc[c] = "idle"
  <2>1. \A p \in Producers : push_pc[p] = "idle" /\ loop_i[p] >= MaxTicket
    BY ItemsInterval DEF TestInv, Joined, AllEnded, ProducerEnded
  <2>2. \A p \in Producers : ~ (loop_i[p] < MaxTicket)
    BY <2>1, ItemsInterval DEF TestInv, TestTypeOK
  <2> QED BY <2>1, <2>2, ItemsInterval DEF TestInv, Joined, AllEnded, ConsumerEnded, Asks
<1>2. \A p \in Producers : ~ Producer(p)
  BY <1>1 DEF Producer, ProducerLoop, ProducerPush, PushStep, PushLoad, PushAnnounce, PushTake,
     PushRecord, PushCheck, PushFind, PushScan, PushUpdate, PushCopy, PushPos, PushRelease, PushGoto
<1>3. \A c \in Consumers : ~ Consumer(c)
  BY <1>1 DEF Consumer, ConsumerTest, ConsumerPop, ConsumerUse, PopStep, PopLoad, PopAnnounce,
     PopTake, PopRecord, PopCheck, PopFind, PopScan, PopUpdate, PopCopy, PopPos, PopRelease, PopGoto
<1> QED BY <1>2, <1>3

LEMMA TestNextInv ==
    ASSUME TestInv, [TestNext]_<<vars, testVars>>
    PROVE  TestInv'
<1>1. ASSUME UNCHANGED vars, UNCHANGED <<loop_i, n, at, x, received>>, Joined'
      PROVE  TestInv'
  <2>1. Inv'
    BY <1>1, StutterInv DEF TestInv
  <2>2. TestTypeOK' /\ Shared' /\ Asks' /\ PopsCounted'
    BY <1>1, StillCounted DEF TestInv, TestTypeOK, Shared, Asks, vars, popLocal, shared
  <2>3. /\ \A p \in Producers : (Pending(p)' <=> Pending(p)) /\ item'[p] = item[p]
        /\ \A c \in Consumers : (InHand(c)' <=> InHand(c)) /\ buffer'[c] = buffer[c]
    BY <1>1 DEF Pending, InHand, vars, pushLocal, popLocal
  <2>4. \A k \in Positions : (Live(k)' <=> Live(k)) /\ ItemOf(k)' = ItemOf(k)
    BY <1>1 DEF Live, ItemOf, PushUnwritten, PushHolds, PushTicket, PopUnread, PopHolds, PopTicket,
       vars, shared, pushLocal, popLocal
  <2>5. Placed'
    BY <1>1, <2>3, <2>4, PlacedKept DEF TestInv
  <2> QED BY <1>1, <2>1, <2>2, <2>5 DEF TestInv
<1>2. CASE Main
  <2>1. UNCHANGED vars /\ UNCHANGED <<loop_i, n, at, x, received>>
    BY <1>2 DEF Main, StartThread, CheckData
  <2>2. Joined'
    BY <1>2, <2>1 DEF Main, StartThread, CheckData, Joined, AllEnded, ProducerEnded, ConsumerEnded,
       TestInv, vars, pushLocal
  <2> QED BY <1>1, <2>1, <2>2
<1>3. CASE Exited \/ UNCHANGED <<vars, testVars>>
  <2>1. Joined'
    BY <1>3 DEF Exited, testVars, Joined, AllEnded, ProducerEnded, ConsumerEnded, TestInv, vars,
       pushLocal
  <2> QED BY <1>1, <1>3, <2>1 DEF Exited, testVars
<1>4. ASSUME NEW p \in Producers, Producer(p) PROVE TestInv'
  <2>0. Joined'
    BY <1>4, NoneRuns DEF Joined, Producer, ProducerLoop, ProducerPush, testVars
  <2>1. CASE ProducerLoop(p)
    <3>1. PushCall(p, loop_i[p]) /\ loop_i[p] \in Items
      BY <2>1, ItemsInterval DEF ProducerLoop, TestInv, TestTypeOK
    <3>2. Inv'
      BY <3>1, PushInv DEF TestInv
    <3>3. Placed' /\ Shared' /\ TestTypeOK'
      BY <2>1, <3>2, ProducerLoopPlaced
    <3>4. UNCHANGED <<tail_, n, pop_pc, at>>
      BY <2>1, <3>1 DEF ProducerLoop, PushCall, shared, popLocal
    <3>5. Asks' /\ PopsCounted'
      BY <3>4, StillCounted DEF Asks, TestInv
    <3> QED BY <2>0, <3>2, <3>3, <3>5 DEF TestInv
  <2>2. CASE ProducerPush(p)
    <3>1. PushStep(p) /\ UNCHANGED testVars
      BY <2>2 DEF ProducerPush
    <3>2. Inv'
      BY <3>1, PushInv DEF TestInv
    <3>3. Placed'
      BY <3>1, <3>2, PushTakePlaced, PushOtherPlaced
    <3>4. UNCHANGED <<tail_, pop_pc>>
      BY <3>1 DEF PushStep, PushLoad, PushAnnounce, PushTake, PushRecord, PushCheck, PushFind,
         PushScan, PushUpdate, PushCopy, PushPos, PushRelease, shared, popLocal
    <3>5. Asks' /\ PopsCounted' /\ Shared' /\ TestTypeOK'
      BY <3>1, <3>4, StillCounted DEF Asks, Shared, TestTypeOK, TestInv, testVars
    <3> QED BY <2>0, <3>2, <3>3, <3>5 DEF TestInv
  <2> QED BY <1>4, <2>1, <2>2 DEF Producer
<1>5. ASSUME NEW c \in Consumers, Consumer(c) PROVE TestInv'
  <2>0. Joined'
    BY <1>5, NoneRuns DEF Joined, Consumer, ConsumerTest, ConsumerPop, ConsumerUse, testVars
  <2>1. CASE ConsumerTest(c)
    <3>1. PopCall(c) \/ UNCHANGED vars
      BY <2>1 DEF ConsumerTest
    <3>2. Inv'
      BY <3>1, PopInv, StutterInv DEF TestInv
    <3>3. Placed' /\ PopsCounted'
      BY <2>1, ConsumerTestPlaced, ConsumerTestCounted
    <3>4. TestTypeOK' /\ Shared'
      BY <2>1 DEF ConsumerTest, TestTypeOK, Shared, TestInv
    <3>5. Asks'
      <4>1. at[c] = "test" /\ pop_pc[c] = "idle" /\ n' = n + 1 /\ n \in Nat /\ MaxTicket \in Nat
        BY <2>1, ItemsInterval DEF ConsumerTest, TestInv, TestTypeOK, Asks
      <4>2. CASE n < MaxTicket
        BY <2>1, <4>1, <4>2, ItemsInterval
        DEF ConsumerTest, PopCall, PopGoto, Asks, TestInv, TestTypeOK, Inv, TypeOK
      <4>3. CASE ~ (n < MaxTicket)
        BY <2>1, <4>1, <4>3, ItemsInterval
        DEF ConsumerTest, Asks, TestInv, TestTypeOK, vars, popLocal
      <4> QED BY <4>2, <4>3
    <3> QED BY <2>0, <3>2, <3>3, <3>4, <3>5 DEF TestInv
  <2>2. CASE ConsumerPop(c)
    <3>1. PopStep(c) /\ UNCHANGED testVars
      BY <2>2 DEF ConsumerPop
    <3>2. Inv'
      BY <3>1, PopInv DEF TestInv
    <3>3. Placed' /\ PopsCounted'
      BY <3>1, <3>2, PopOtherPlaced, PopCopyPlaced, PopCounted DEF testVars
    <3>4. TestTypeOK' /\ Shared'
      BY <3>1 DEF TestTypeOK, Shared, TestInv, testVars
    <3>5. Asks'
      <4>1. /\ pop_pc[c] # "idle"
            /\ \A d \in Consumers \ {c} : pop_pc'[d] = pop_pc[d]
        BY <3>1 DEF PopStep, PopLoad, PopAnnounce, PopTake, PopRecord, PopCheck, PopFind, PopScan,
           PopUpdate, PopCopy, PopPos, PopRelease, PopGoto, TestInv, Inv, TypeOK
      <4> QED BY <3>1, <4>1 DEF Asks, TestInv, testVars
    <3> QED BY <2>0, <3>2, <3>3, <3>4, <3>5 DEF TestInv
  <2>3. CASE ConsumerUse(c)
    <3>1. UNCHANGED <<shared, pushLocal, pop_pc, pop_reg, pop_min, pop_i, loop_i, n, x>>
          /\ at' = [at EXCEPT ![c] = "test"] /\ buffer' = [buffer EXCEPT ![c] = NoItem]
          /\ pop_pc[c] = "idle"
      BY <2>3 DEF ConsumerUse
    <3>2. Inv'
      <4>1. TypeOK'
        BY <3>1 DEF TestInv, Inv, TypeOK, shared, pushLocal
      <4> QED BY <3>1, <4>1 DEF TestInv, Inv, PushAnnounced, PopAnnounced, PushDistinct, PopDistinct,
             PushScanning, PopScanning, LastHeadSound, LastTailSound, ConsumerCleared, WithinOneRound,
             ConsumerWaits, PushHolds, PushTicket, PopHolds, PopTicket, PushUnchecked, shared, pushLocal
    <3>3. Placed' /\ received' \in [Items -> {0, 1}]
      BY <2>3, ConsumerUsePlaced
    <3>4. TestTypeOK' /\ Shared' /\ Asks'
      BY <3>1, <3>3 DEF TestTypeOK, Shared, Asks, TestInv
    <3>5. PopsCounted'
      BY <3>1, StillCounted DEF TestInv, shared
    <3> QED BY <2>0, <3>2, <3>3, <3>4, <3>5 DEF TestInv
  <2> QED BY <1>5, <2>1, <2>2, <2>3 DEF Consumer
<1> QED BY <1>2, <1>3, <1>4, <1>5 DEF TestNext

------------------------------------------------------------------------------
LEMMA TestInvariance == TestSafe => []TestInv
<1>1. TestInv /\ [TestNext]_<<vars, testVars>> => TestInv'
  BY TestNextInv
<1> QED BY TestInitInv, <1>1, PTL DEF TestSafe

\* When main has joined the threads every pop that n asked for has its ticket,
\* so no element is left in the queue or on its way.
LEMMA AllReceived ==
    ASSUME TestInv, res # "none", NEW i \in Items
    PROVE  received[i] = 1
<1>1. /\ \A p \in Producers : push_pc[p] = "idle" /\ loop_i[p] >= MaxTicket
      /\ \A c \in Consumers : at[c] = "end" /\ pop_pc[c] = "idle" /\ n >= MaxTicket
  BY ItemsInterval DEF TestInv, Joined, AllEnded, ProducerEnded, ConsumerEnded, Asks
<1>2. i \in Nat /\ i < MaxTicket /\ MaxTicket \in Nat
  BY ItemsInterval
<1>3. x[i] = "MISSED"
  <2>1. PRODUCERS \in Nat \ {0}
    <3>1. N \in Nat /\ PRODUCERS \in Nat
      BY TestAssumption, QueueAssumption DEF PRODUCERS
    <3>2. PRODUCERS # 0
      BY <1>2, <3>1, ItemsInterval
    <3> QED BY <3>1, <3>2
  <2>2. i % PRODUCERS \in Producers
    BY <1>2, <2>1, QueueAssumption DEF Producers, PRODUCERS
  <2>3. i < loop_i[i % PRODUCERS]
    BY <1>1, <1>2, <2>2 DEF TestInv, TestTypeOK
  <2> QED BY <2>2, <2>3 DEF TestInv, Shared
<1>4. head_ <= tail_
  <2>1. Asking = {}
    BY <1>1 DEF Asking
  <2>2. n >= MaxTicket /\ n \in Nat
    <3>1. PICK c \in Consumers : TRUE
      BY TestAssumption, QueueAssumption DEF Consumers, CONSUMERS
    <3> QED BY <1>1, <3>1 DEF TestInv, TestTypeOK
  <2>3. tail_ = MaxTicket
    BY <1>2, <2>1, <2>2, FS_EmptySet, Sets DEF TestInv, PopsCounted, Lesser, Inv, TypeOK
  <2> QED BY <2>3, Sets, QueueAssumption DEF TestInv, Inv, TypeOK
<1>5. \A k \in Positions : ~ Live(k)
  BY <1>1, <1>4, Sets, QueueAssumption DEF Live, PopUnread, PopHolds, TestInv, Inv, TypeOK
<1> QED BY <1>1, <1>3, <1>5 DEF TestInv, Placed, Somewhere, Pending, InHand

\* run_test() makes each element pass through the queue exactly once, for any
\* number of elements, threads and slots.
THEOREM PoppedOnce == TestSafe => []ExactlyOnce
<1>1. TestInv => ExactlyOnce
  BY AllReceived DEF TestInv, TestTypeOK, ExactlyOnce
<1> QED BY TestInvariance, <1>1, PTL

\* The assertion of Consumer never fails.
THEOREM AssertionHolds == TestSafe => []PoppedIsMissed
<1>1. TestInv => PoppedIsMissed
  BY DEF TestInv, Placed, InHands, InHand, Under, PoppedIsMissed
<1> QED BY TestInvariance, <1>1, PTL
==============================================================================
