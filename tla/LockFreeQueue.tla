---------------------------- MODULE LockFreeQueue ----------------------------
(***************************************************************************)
(* The ring buffer of p_rb_q_eadr.cc: LockFreeQueue<T>::push() and pop()   *)
(* running in any number of producer and consumer threads, one action per  *)
(* load, store, locked instruction or copy of a slot that other threads    *)
(* can observe.                                                            *)
(*                                                                         *)
(* A producer announces a lower bound of the ticket it is going to get,    *)
(* takes a ticket from head_ with one atomic addition, waits until the     *)
(* slot of the ticket is free, fills it and withdraws its announcement.  A *)
(* consumer does the same with tail_.  Neither looks at what the other     *)
(* side is doing unless the cached bound last_tail_ (or last_head_) fails: *)
(* it then scans the announcements of the other side, one thread at a      *)
(* time, while they change, and overwrites the cached bound with what it   *)
(* found, even with a smaller one than another thread has just written.    *)
(***************************************************************************)
EXTENDS Naturals

CONSTANTS NProducers,  \* n_producers_
          NConsumers,  \* n_consumers_
          Q_SIZE,      \* slots of the ring: a power of two in the code, whose
                       \* Q_MASK then makes "& Q_MASK" the remainder
          ULONG_MAX,   \* "no ticket"
          MaxTicket,   \* bound of the model: tickets each side may take
          Items,       \* values of type T
          NoItem       \* the contents of memory that was never written

\* Tickets never reach the sentinel, not even after Q_SIZE is added to one:
\* 2^64 operations are out of reach.
ASSUME QueueAssumption == /\ NProducers \in Nat
                          /\ NConsumers \in Nat
                          /\ Q_SIZE \in Nat \ {0}
                          /\ MaxTicket \in Nat
                          /\ ULONG_MAX \in Nat
                          /\ MaxTicket + Q_SIZE < ULONG_MAX
                          /\ NoItem \notin Items

\* Thread ids are used for indexing only: a producer and a consumer share one.
Producers == 0 .. NProducers - 1
Consumers == 0 .. NConsumers - 1

VARIABLES
    head_, tail_,            \* QInfo: next ticket to push, next ticket to pop
    last_head_, last_tail_,  \* QInfo: cached bounds of the finished tickets
    thr_head, pos_push,      \* thr_p_[i].head and .pos_push
    thr_tail, pos_pop,       \* thr_p_[i].tail and .pos_pop
    ptr_array_,              \* the slots
    push_pc, pop_pc,         \* where each thread is
    push_reg, pop_reg,       \* a ticket loaded and not yet stored
    push_min, pop_min,       \* "min" of find_last_tail(), find_last_head()
    push_i, pop_i,           \* "i" of find_last_tail(), find_last_head()
    item,                    \* what the argument of push() points to
    buffer                   \* what the argument of pop() points to

shared    == <<head_, tail_, last_head_, last_tail_,
               thr_head, pos_push, thr_tail, pos_pop, ptr_array_>>
pushLocal == <<push_pc, push_reg, push_min, push_i, item>>
popLocal  == <<pop_pc, pop_reg, pop_min, pop_i, buffer>>
vars      == <<shared, pushLocal, popLocal>>

Slots == 0 .. Q_SIZE - 1
Slot(k) == k % Q_SIZE
Lesser(x, y) == IF x < y THEN x ELSE y

PCs == {"idle", "load", "announce", "take", "record", "check", "find", "scan",
        "copy", "pos", "release"}

Positions == 0 .. MaxTicket
Marks     == Positions \cup {ULONG_MAX}

TypeOK ==
    /\ head_ \in Positions /\ tail_ \in Positions
    /\ last_head_ \in Positions /\ last_tail_ \in Positions
    /\ thr_head \in [Producers -> Marks] /\ pos_push \in [Producers -> Marks]
    /\ thr_tail \in [Consumers -> Marks] /\ pos_pop \in [Consumers -> Marks]
    /\ ptr_array_ \in [Slots -> Items \cup {NoItem}]
    /\ push_pc \in [Producers -> PCs] /\ pop_pc \in [Consumers -> PCs]
    /\ push_reg \in [Producers -> Positions]
    /\ pop_reg \in [Consumers -> Positions]
    /\ push_min \in [Producers -> Positions]
    /\ pop_min \in [Consumers -> Positions]
    /\ push_i \in [Producers -> 0 .. NConsumers]
    /\ pop_i \in [Consumers -> 0 .. NProducers]
    /\ item \in [Producers -> Items \cup {NoItem}]
    /\ buffer \in [Consumers -> Items \cup {NoItem}]

Init == \* init(): every announcement and position withdrawn, every counter 0
    /\ head_ = 0 /\ tail_ = 0 /\ last_head_ = 0 /\ last_tail_ = 0
    /\ thr_head = [p \in Producers |-> ULONG_MAX]
    /\ pos_push = [p \in Producers |-> ULONG_MAX]
    /\ thr_tail = [c \in Consumers |-> ULONG_MAX]
    /\ pos_pop = [c \in Consumers |-> ULONG_MAX]
    /\ ptr_array_ = [s \in Slots |-> NoItem]
    /\ push_pc = [p \in Producers |-> "idle"]
    /\ pop_pc = [c \in Consumers |-> "idle"]
    /\ push_reg = [p \in Producers |-> 0] /\ pop_reg = [c \in Consumers |-> 0]
    /\ push_min = [p \in Producers |-> 0] /\ pop_min = [c \in Consumers |-> 0]
    /\ push_i = [p \in Producers |-> 0] /\ pop_i = [c \in Consumers |-> 0]
    /\ item = [p \in Producers |-> NoItem]
    /\ buffer = [c \in Consumers |-> NoItem]

------------------------------------------------------------------------------
(* push().  Locals are set back to 0 when the code no longer reads them.    *)

PushGoto(p, from, to) == /\ push_pc[p] = from
                         /\ push_pc' = [push_pc EXCEPT ![p] = to]

\* The caller passes a pointer to x.
PushCall(p, x) ==
    /\ PushGoto(p, "idle", "load")
    /\ item' = [item EXCEPT ![p] = x]
    /\ UNCHANGED <<shared, push_reg, push_min, push_i, popLocal>>

\* "tp.head = qi_->head_": the load ...
PushLoad(p) ==
    /\ PushGoto(p, "load", "announce")
    /\ push_reg' = [push_reg EXCEPT ![p] = head_]
    /\ UNCHANGED <<shared, push_min, push_i, item, popLocal>>

\* Mutant of PushAnnounce: no first assignment.
PushUnannounced(p) ==
    /\ PushGoto(p, "announce", "take")
    /\ push_reg' = [push_reg EXCEPT ![p] = 0]
    /\ UNCHANGED <<shared, push_min, push_i, item, popLocal>>

\* ... and the store.
PushAnnounce(p) ==
    /\ PushGoto(p, "announce", "take")
    /\ thr_head' = [thr_head EXCEPT ![p] = push_reg[p]]
    /\ push_reg' = [push_reg EXCEPT ![p] = 0]
    /\ UNCHANGED <<head_, tail_, last_head_, last_tail_, pos_push, thr_tail,
                   pos_pop, ptr_array_, push_min, push_i, item, popLocal>>

\* "tp.head = __sync_fetch_and_add(&qi_->head_, 1)": the locked addition ...
PushTake(p) ==
    /\ head_ < MaxTicket
    /\ PushGoto(p, "take", "record")
    /\ push_reg' = [push_reg EXCEPT ![p] = head_]
    /\ head_' = head_ + 1
    /\ UNCHANGED <<tail_, last_head_, last_tail_, thr_head, pos_push, thr_tail,
                   pos_pop, ptr_array_, push_min, push_i, item, popLocal>>

\* ... and the store.
PushRecord(p) ==
    /\ PushGoto(p, "record", "check")
    /\ thr_head' = [thr_head EXCEPT ![p] = push_reg[p]]
    /\ push_reg' = [push_reg EXCEPT ![p] = 0]
    /\ UNCHANGED <<head_, tail_, last_head_, last_tail_, pos_push, thr_tail,
                   pos_pop, ptr_array_, push_min, push_i, item, popLocal>>

\* Mutant of PushCheck: the test is off by one.
PushCheckOffByOne(p) ==
    /\ IF thr_head[p] <= last_tail_ + Q_SIZE
       THEN PushGoto(p, "check", "copy")
       ELSE PushGoto(p, "check", "find")
    /\ UNCHANGED <<shared, push_reg, push_min, push_i, item, popLocal>>

\* The load and test of "tp.head >= qi_->last_tail_ + Q_SIZE" (line 420): the
\* slot is free, or the tails are scanned.  The test after an update (line 424)
\* is the same step when it succeeds; when it fails it only leads to line 420.
PushCheck(p) ==
    /\ IF thr_head[p] < last_tail_ + Q_SIZE
       THEN PushGoto(p, "check", "copy")
       ELSE PushGoto(p, "check", "find")
    /\ UNCHANGED <<shared, push_reg, push_min, push_i, item, popLocal>>

\* find_last_tail(): the minimum starts from tail_ ...
PushFind(p) ==
    /\ PushGoto(p, "find", "scan")
    /\ push_min' = [push_min EXCEPT ![p] = tail_]
    /\ push_i' = [push_i EXCEPT ![p] = 0]
    /\ UNCHANGED <<shared, push_reg, item, popLocal>>

\* ... and is lowered by one announcement after the other.
PushScan(p) ==
    /\ push_pc[p] = "scan"
    /\ push_i[p] < NConsumers
    /\ push_min' = [push_min EXCEPT ![p] = Lesser(thr_tail[push_i[p]], @)]
    /\ push_i' = [push_i EXCEPT ![p] = @ + 1]
    /\ UNCHANGED <<shared, push_pc, push_reg, item, popLocal>>

\* "qi_->last_tail_ = find_last_tail()": the store, whatever last_tail_ holds.
PushUpdate(p) ==
    /\ PushGoto(p, "scan", "check")
    /\ push_i[p] = NConsumers
    /\ last_tail_' = push_min[p]
    /\ push_min' = [push_min EXCEPT ![p] = 0]
    /\ push_i' = [push_i EXCEPT ![p] = 0]
    /\ UNCHANGED <<head_, tail_, last_head_, thr_head, pos_push, thr_tail,
                   pos_pop, ptr_array_, push_reg, item, popLocal>>

\* memcpy() of the item to the slot.  It is under way as long as the producer
\* is at "copy", and this step is its end: see SlotExclusion.
PushCopy(p) ==
    /\ PushGoto(p, "copy", "pos")
    /\ ptr_array_' = [ptr_array_ EXCEPT ![Slot(thr_head[p])] = item[p]]
    /\ UNCHANGED <<head_, tail_, last_head_, last_tail_, thr_head, pos_push,
                   thr_tail, pos_pop, push_reg, push_min, push_i, item,
                   popLocal>>

\* "tp.pos_push = tp.head".
PushPos(p) ==
    /\ PushGoto(p, "pos", "release")
    /\ pos_push' = [pos_push EXCEPT ![p] = thr_head[p]]
    /\ UNCHANGED <<head_, tail_, last_head_, last_tail_, thr_head, thr_tail,
                   pos_pop, ptr_array_, push_reg, push_min, push_i, item,
                   popLocal>>

\* Mutant of PushRelease: the announcement is not withdrawn.
PushNotReleased(p) ==
    /\ PushGoto(p, "release", "idle")
    /\ UNCHANGED <<shared, push_reg, push_min, push_i, item, popLocal>>

\* "tp.head = ULONG_MAX", and return to the caller.
PushRelease(p) ==
    /\ PushGoto(p, "release", "idle")
    /\ thr_head' = [thr_head EXCEPT ![p] = ULONG_MAX]
    /\ UNCHANGED <<head_, tail_, last_head_, last_tail_, pos_push, thr_tail,
                   pos_pop, ptr_array_, push_reg, push_min, push_i, item,
                   popLocal>>

PushStep(p) == \/ PushLoad(p)  \/ PushAnnounce(p) \/ PushTake(p)
               \/ PushRecord(p) \/ PushCheck(p)   \/ PushFind(p)
               \/ PushScan(p)   \/ PushUpdate(p)  \/ PushCopy(p)
               \/ PushPos(p)    \/ PushRelease(p)

------------------------------------------------------------------------------
(* pop(), which mirrors push() with tail_ and last_head_.                   *)

PopGoto(c, from, to) == /\ pop_pc[c] = from
                        /\ pop_pc' = [pop_pc EXCEPT ![c] = to]

PopCall(c) ==
    /\ PopGoto(c, "idle", "load")
    /\ UNCHANGED <<shared, pushLocal, pop_reg, pop_min, pop_i, buffer>>

\* "tp.tail = qi_->tail_": the load ...
PopLoad(c) ==
    /\ PopGoto(c, "load", "announce")
    /\ pop_reg' = [pop_reg EXCEPT ![c] = tail_]
    /\ UNCHANGED <<shared, pushLocal, pop_min, pop_i, buffer>>

\* ... and the store.
PopAnnounce(c) ==
    /\ PopGoto(c, "announce", "take")
    /\ thr_tail' = [thr_tail EXCEPT ![c] = pop_reg[c]]
    /\ pop_reg' = [pop_reg EXCEPT ![c] = 0]
    /\ UNCHANGED <<head_, tail_, last_head_, last_tail_, thr_head, pos_push,
                   pos_pop, ptr_array_, pushLocal, pop_min, pop_i, buffer>>

\* Mutant of PopTake: a plain addition whose store another thread overwrites.
PopTakeLost(c) ==
    /\ tail_ < MaxTicket
    /\ PopGoto(c, "take", "record")
    /\ pop_reg' = [pop_reg EXCEPT ![c] = tail_]
    /\ tail_' \in {tail_, tail_ + 1}
    /\ UNCHANGED <<head_, last_head_, last_tail_, thr_head, pos_push, thr_tail,
                   pos_pop, ptr_array_, pushLocal, pop_min, pop_i, buffer>>

\* "tp.tail = __sync_fetch_and_add(&qi_->tail_, 1)": the locked addition ...
PopTake(c) ==
    /\ tail_ < MaxTicket
    /\ PopGoto(c, "take", "record")
    /\ pop_reg' = [pop_reg EXCEPT ![c] = tail_]
    /\ tail_' = tail_ + 1
    /\ UNCHANGED <<head_, last_head_, last_tail_, thr_head, pos_push, thr_tail,
                   pos_pop, ptr_array_, pushLocal, pop_min, pop_i, buffer>>

\* ... and the store.
PopRecord(c) ==
    /\ PopGoto(c, "record", "check")
    /\ thr_tail' = [thr_tail EXCEPT ![c] = pop_reg[c]]
    /\ pop_reg' = [pop_reg EXCEPT ![c] = 0]
    /\ UNCHANGED <<head_, tail_, last_head_, last_tail_, thr_head, pos_push,
                   pos_pop, ptr_array_, pushLocal, pop_min, pop_i, buffer>>

\* Mutant of PopCheck: the test is off by one.
PopCheckOffByOne(c) ==
    /\ IF thr_tail[c] <= last_head_
       THEN PopGoto(c, "check", "copy")
       ELSE PopGoto(c, "check", "find")
    /\ UNCHANGED <<shared, pushLocal, pop_reg, pop_min, pop_i, buffer>>

\* The load and test of "tp.tail >= qi_->last_head_", as in PushCheck.
PopCheck(c) ==
    /\ IF thr_tail[c] < last_head_
       THEN PopGoto(c, "check", "copy")
       ELSE PopGoto(c, "check", "find")
    /\ UNCHANGED <<shared, pushLocal, pop_reg, pop_min, pop_i, buffer>>

\* Mutant of PopFind: the minimum does not start from head_.
PopFindUnbounded(c) ==
    /\ PopGoto(c, "find", "scan")
    /\ pop_min' = [pop_min EXCEPT ![c] = ULONG_MAX]
    /\ pop_i' = [pop_i EXCEPT ![c] = 0]
    /\ UNCHANGED <<shared, pushLocal, pop_reg, buffer>>

\* find_last_head(): the minimum starts from head_ ...
PopFind(c) ==
    /\ PopGoto(c, "find", "scan")
    /\ pop_min' = [pop_min EXCEPT ![c] = head_]
    /\ pop_i' = [pop_i EXCEPT ![c] = 0]
    /\ UNCHANGED <<shared, pushLocal, pop_reg, buffer>>

\* ... and is lowered by one announcement after the other.
PopScan(c) ==
    /\ pop_pc[c] = "scan"
    /\ pop_i[c] < NProducers
    /\ pop_min' = [pop_min EXCEPT ![c] = Lesser(thr_head[pop_i[c]], @)]
    /\ pop_i' = [pop_i EXCEPT ![c] = @ + 1]
    /\ UNCHANGED <<shared, pushLocal, pop_pc, pop_reg, buffer>>

\* Mutant of PopUpdate: the scan leaves the last producer out.
PopUpdateEarly(c) ==
    /\ PopGoto(c, "scan", "check")
    /\ pop_i[c] + 1 = NProducers
    /\ last_head_' = pop_min[c]
    /\ pop_min' = [pop_min EXCEPT ![c] = 0]
    /\ pop_i' = [pop_i EXCEPT ![c] = 0]
    /\ UNCHANGED <<head_, tail_, last_tail_, thr_head, pos_push, thr_tail,
                   pos_pop, ptr_array_, pushLocal, pop_reg, buffer>>

\* "qi_->last_head_ = find_last_head()": the store, whatever last_head_ holds.
PopUpdate(c) ==
    /\ PopGoto(c, "scan", "check")
    /\ pop_i[c] = NProducers
    /\ last_head_' = pop_min[c]
    /\ pop_min' = [pop_min EXCEPT ![c] = 0]
    /\ pop_i' = [pop_i EXCEPT ![c] = 0]
    /\ UNCHANGED <<head_, tail_, last_tail_, thr_head, pos_push, thr_tail,
                   pos_pop, ptr_array_, pushLocal, pop_reg, buffer>>

\* memcpy() of the slot to the caller's buffer, under way while at "copy".
PopCopy(c) ==
    /\ PopGoto(c, "copy", "pos")
    /\ buffer' = [buffer EXCEPT ![c] = ptr_array_[Slot(thr_tail[c])]]
    /\ UNCHANGED <<shared, pushLocal, pop_reg, pop_min, pop_i>>

\* "tp.pos_pop = tp.tail".
PopPos(c) ==
    /\ PopGoto(c, "pos", "release")
    /\ pos_pop' = [pos_pop EXCEPT ![c] = thr_tail[c]]
    /\ UNCHANGED <<head_, tail_, last_head_, last_tail_, thr_head, pos_push,
                   thr_tail, ptr_array_, pushLocal, pop_reg, pop_min, pop_i,
                   buffer>>

\* "tp.tail = ULONG_MAX", and return to the caller.
PopRelease(c) ==
    /\ PopGoto(c, "release", "idle")
    /\ thr_tail' = [thr_tail EXCEPT ![c] = ULONG_MAX]
    /\ UNCHANGED <<head_, tail_, last_head_, last_tail_, thr_head, pos_push,
                   pos_pop, ptr_array_, pushLocal, pop_reg, pop_min, pop_i,
                   buffer>>

PopStep(c) == \/ PopLoad(c)   \/ PopAnnounce(c) \/ PopTake(c)
              \/ PopRecord(c) \/ PopCheck(c)    \/ PopFind(c)
              \/ PopScan(c)   \/ PopUpdate(c)   \/ PopCopy(c)
              \/ PopPos(c)    \/ PopRelease(c)

------------------------------------------------------------------------------
Next == \/ \E p \in Producers : (\E x \in Items : PushCall(p, x)) \/ PushStep(p)
        \/ \E c \in Consumers : PopCall(c) \/ PopStep(c)

Spec == Init /\ [][Next]_vars

------------------------------------------------------------------------------
(* Who holds which ticket.                                                  *)

\* p has taken a ticket and not yet withdrawn its announcement.
PushHolds(p) == push_pc[p] \in {"record", "check", "find", "scan", "copy",
                                "pos", "release"}
PushTicket(p) == IF push_pc[p] = "record" THEN push_reg[p] ELSE thr_head[p]

\* The slot of p's ticket does not have p's item yet.
PushUnwritten(p) == PushHolds(p) /\ push_pc[p] \notin {"pos", "release"}

PopHolds(c) == pop_pc[c] \in {"record", "check", "find", "scan", "copy",
                              "pos", "release"}
PopTicket(c) == IF pop_pc[c] = "record" THEN pop_reg[c] ELSE thr_tail[c]

\* c has taken a ticket and does not have its item yet.
PopUnread(c) == PopHolds(c) /\ pop_pc[c] \notin {"pos", "release"}

------------------------------------------------------------------------------
(* Safety.                                                                  *)

\* While a producer fills a slot (push, lines 430-434) no other producer and
\* no consumer (pop, line 483) is in the same slot, and no two consumers are:
\* the copies are plain memcpy() calls, and nothing but the tickets and the
\* cached bounds keeps them apart.
SlotExclusion ==
    /\ \A p \in Producers : push_pc[p] = "copy" =>
         /\ \A o \in Producers \ {p} : push_pc[o] = "copy" =>
                Slot(thr_head[o]) # Slot(thr_head[p])
         /\ \A c \in Consumers : pop_pc[c] = "copy" =>
                Slot(thr_tail[c]) # Slot(thr_head[p])
    /\ \A c, d \in Consumers : c # d /\ pop_pc[c] = "copy" /\ pop_pc[d] = "copy" =>
                Slot(thr_tail[c]) # Slot(thr_tail[d])

\* The cached bounds can go down, when a slow scan overwrites the result of a
\* fast one, but they are never too high: each ticket below last_head_ has
\* been given out and released by its producer, each below last_tail_ by its
\* consumer.  pop() and push() trust them for nothing else (lines 420, 474).
LastHeadSound ==
    /\ last_head_ <= head_
    /\ \A p \in Producers : PushHolds(p) => last_head_ <= PushTicket(p)

LastTailSound ==
    /\ last_tail_ <= tail_
    /\ \A c \in Consumers : PopHolds(c) => last_tail_ <= PopTicket(c)

CachedBoundsSound == LastHeadSound /\ LastTailSound

------------------------------------------------------------------------------
(* Why: the inductive invariant behind both.                                *)

\* What a thread announces is never above the ticket it gets next or holds.
\* This is the comment of push(), lines 405-407: without the first assignment
\* a scan could miss a ticket taken just before it.
PushAnnounced ==
    \A p \in Producers :
        /\ push_pc[p] = "announce" => push_reg[p] <= head_
        /\ push_pc[p] = "take" => thr_head[p] <= head_
        /\ PushHolds(p) => thr_head[p] <= PushTicket(p) /\ PushTicket(p) < head_

PopAnnounced ==
    \A c \in Consumers :
        /\ pop_pc[c] = "announce" => pop_reg[c] <= tail_
        /\ pop_pc[c] = "take" => thr_tail[c] <= tail_
        /\ PopHolds(c) => thr_tail[c] <= PopTicket(c) /\ PopTicket(c) < tail_

\* No ticket is held twice on one side.
PushDistinct ==
    \A p, o \in Producers : PushHolds(p) /\ PushHolds(o) /\ p # o
                                => PushTicket(p) # PushTicket(o)

PopDistinct ==
    \A c, d \in Consumers : PopHolds(c) /\ PopHolds(d) /\ c # d
                                => PopTicket(c) # PopTicket(d)

\* A scan has accounted for every thread it has already looked at: whoever
\* holds a ticket below its minimum is still ahead of it.
PushScanning ==
    \A p \in Producers : push_pc[p] = "scan" =>
        /\ push_min[p] <= tail_
        /\ \A c \in Consumers : PopHolds(c) /\ PopTicket(c) < push_min[p]
                                => push_i[p] <= c

PopScanning ==
    \A c \in Consumers : pop_pc[c] = "scan" =>
        /\ pop_min[c] <= head_
        /\ \A p \in Producers : PushHolds(p) /\ PushTicket(p) < pop_min[c]
                                => pop_i[c] <= p

\* A consumer past its check is behind every producer.
ConsumerCleared ==
    \A c \in Consumers : pop_pc[c] \in {"copy", "pos", "release"} =>
        /\ PopTicket(c) < head_
        /\ \A p \in Producers : PushHolds(p) => PopTicket(c) < PushTicket(p)

\* A producer before its check.
PushUnchecked(p) == push_pc[p] \in {"record", "check", "find", "scan"}

\* A ticket whose producer is past its check, or gone, is less than one round
\* of the ring ahead of every consumer, present and future.
WithinOneRound ==
    \A k \in Positions :
        k < head_ /\ ~(\E p \in Producers : PushUnchecked(p) /\ PushTicket(p) = k)
        => /\ k < tail_ + Q_SIZE
           /\ \A c \in Consumers : PopHolds(c) => k < PopTicket(c) + Q_SIZE

\* No consumer lets go of a ticket before the producer of that ticket has.
ConsumerWaits ==
    \A k \in Positions :
        /\ k < tail_
        /\ head_ <= k \/ \E p \in Producers : PushHolds(p) /\ PushTicket(p) = k
        => \E c \in Consumers : PopHolds(c) /\ PopTicket(c) = k

Inv == /\ TypeOK
       /\ PushAnnounced  /\ PopAnnounced
       /\ PushDistinct   /\ PopDistinct
       /\ PushScanning   /\ PopScanning
       /\ LastHeadSound  /\ LastTailSound
       /\ ConsumerCleared
       /\ WithinOneRound
       /\ ConsumerWaits

------------------------------------------------------------------------------
(* The queue its callers see.                                               *)

\* The item of a ticket that some producer has taken: in its argument until it
\* is copied, then in the slot.
ItemOf(k) == IF \E p \in Producers : PushUnwritten(p) /\ PushTicket(p) = k
             THEN item[CHOOSE p \in Producers :
                           PushUnwritten(p) /\ PushTicket(p) = k]
             ELSE ptr_array_[Slot(k)]

\* c is served once its ticket was given to a producer as well: which item it
\* will return is settled then, even if the producer has yet to write it.
Served(c) == PopHolds(c) /\ PopTicket(c) < head_

\* What a caller can tell of its own operation.  A push takes effect when it
\* takes its ticket, and so does a pop unless it has to wait: then it takes
\* effect with the push that gets the same ticket.
Pushing == [p \in Producers |-> IF push_pc[p] = "idle" THEN "idle"
                                ELSE IF PushHolds(p) THEN "done" ELSE "called"]
Popping == [c \in Consumers |-> IF pop_pc[c] = "idle" THEN "idle"
                                ELSE IF Served(c) THEN "done" ELSE "called"]
Given   == [c \in Consumers |-> IF Served(c) /\ PopUnread(c)
                                THEN ItemOf(PopTicket(c)) ELSE buffer[c]]

\* The items of the tickets no consumer has taken.
Contents == [n \in 1 .. (IF tail_ < head_ THEN head_ - tail_ ELSE 0)
                |-> ItemOf(tail_ + n - 1)]

Fifo == INSTANCE FifoQueue WITH queue <- Contents, pushing <- Pushing,
                                popping <- Popping, buffer <- Given

\* push() and pop() implement a first-in first-out queue: no item is lost,
\* duplicated, reordered or made up, however the threads interleave.
ImplementsFifo == Fifo!Spec
==============================================================================
