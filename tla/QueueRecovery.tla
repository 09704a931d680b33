---------------------------- MODULE QueueRecovery ----------------------------
(***************************************************************************)
(* The persistent mode of p_rb_q_eadr.cc: crashes of the process at any    *)
(* moment, and LockFreeQueue::recover(), which the constructor runs on the *)
(* mapped file before any thread is started.                               *)
(*                                                                         *)
(* With eADR the caches belong to the persistence domain: what a crash     *)
(* leaves in the file is what the last stores left in memory.  recover()   *)
(* runs alone, one action per store it makes, and can itself be cut short  *)
(* by another crash.  (The loops that collect pushed_elems and popped_elems *)
(* also reset positions: they are one action each, for a crash inside one  *)
(* leaves nothing that the next recover() would not reset in the same way.) *)
(***************************************************************************)
EXTENDS LockFreeQueue, Sequences, SequencesExt, FiniteSetsExt

CONSTANT NoThread

VARIABLES
    rec_pc,        \* "up" while push() and pop() run, "down" after a crash,
                   \* else where recover() is
    elems,         \* the list it iterates over: pushed_elems or unpopped_elems
    popped,        \* popped_elems
    n_pushed,      \* pushed_elems.size()
    it, i,         \* its iterator and its count of copies
    before         \* history: the queue as it was at the crash

recVars == <<rec_pc, elems, popped, n_pushed, it, i, before>>
allVars == <<vars, recVars>>

RecInit == /\ Init
           /\ rec_pc = "up" /\ elems = << >> /\ popped = << >> /\ n_pushed = 0
           /\ it = 1 /\ i = 0 /\ before = << >>

------------------------------------------------------------------------------
(* The queue, as the log of DurableFifo.                                    *)

\* Tickets given to a push() and not returned from pop().
Live == {k \in 0 .. head_ - 1 :
            tail_ <= k \/ \E c \in Consumers : PopHolds(c) /\ PopTicket(c) = k}

Pusher(k) == LET P == {p \in Producers : PushHolds(p) /\ PushTicket(p) = k}
             IN  IF P = {} THEN NoThread ELSE CHOOSE p \in P : TRUE
Popper(k) == LET C == {c \in Consumers : PopHolds(c) /\ PopTicket(c) = k}
             IN  IF C = {} THEN NoThread ELSE CHOOSE c \in C : TRUE

LiveLog == LET tickets == SetToSortSeq(Live, <)
           IN  [n \in DOMAIN tickets |-> [item |-> ItemOf(tickets[n]),
                                          by   |-> Pusher(tickets[n]),
                                          to   |-> Popper(tickets[n])]]

------------------------------------------------------------------------------
(* Crash and recovery.                                                      *)

RunStep == /\ rec_pc = "up"
           /\ Next
           /\ UNCHANGED recVars

\* The threads' locals are lost.  "log" is the queue they had made.
LocalsLost(log) ==
    /\ rec_pc' = "down"
    /\ before' = IF rec_pc = "up" THEN log ELSE before
    /\ push_pc' = [p \in Producers |-> "idle"]
    /\ pop_pc' = [c \in Consumers |-> "idle"]
    /\ push_reg' = [p \in Producers |-> 0]
    /\ pop_reg' = [c \in Consumers |-> 0]
    /\ push_min' = [p \in Producers |-> 0]
    /\ pop_min' = [c \in Consumers |-> 0]
    /\ push_i' = [p \in Producers |-> 0]
    /\ pop_i' = [c \in Consumers |-> 0]
    /\ item' = [p \in Producers |-> NoItem]
    /\ buffer' = [c \in Consumers |-> NoItem]
    /\ elems' = << >> /\ popped' = << >> /\ n_pushed' = 0
    /\ it' = 1 /\ i' = 0

\* The mapped file is not.
Crash == LocalsLost(LiveLog) /\ UNCHANGED shared

RecGoto(from, to) == rec_pc = from /\ rec_pc' = to

locals == <<pushLocal, popLocal>>

\* Mutant of RecLastHead: the cached bound is believed.
RecLastHeadStale ==
    /\ RecGoto("down", "last_tail")
    /\ UNCHANGED <<vars, elems, popped, n_pushed, it, i, before>>

\* Mutant of RecLastTail: announced pops count as finished.
RecLastTailUnscanned ==
    /\ RecGoto("last_tail", "pushed")
    /\ last_tail_' = tail_
    /\ UNCHANGED <<head_, tail_, last_head_, thr_head, pos_push, thr_tail,
                   pos_pop, ptr_array_, locals, elems, popped, n_pushed, it, i,
                   before>>

\* "last_head_ = find_last_head()".
RecLastHead ==
    /\ RecGoto("down", "last_tail")
    /\ last_head_' = Min({head_} \cup {thr_head[p] : p \in Producers})
    /\ UNCHANGED <<head_, tail_, last_tail_, thr_head, pos_push, thr_tail,
                   pos_pop, ptr_array_, locals, elems, popped, n_pushed, it, i,
                   before>>

\* "last_tail_ = find_last_tail()".
RecLastTail ==
    /\ RecGoto("last_tail", "pushed")
    /\ last_tail_' = Min({tail_} \cup {thr_tail[c] : c \in Consumers})
    /\ UNCHANGED <<head_, tail_, last_head_, thr_head, pos_push, thr_tail,
                   pos_pop, ptr_array_, locals, elems, popped, n_pushed, it, i,
                   before>>

\* Pairs of a position and a thread id, compared as std::pair does.
PairLess(a, b) == a[1] < b[1] \/ (a[1] = b[1] /\ a[2] < b[2])

\* The pairs of a set as std::list::sort() leaves them.
Sorted(S) == CHOOSE s \in [1 .. Cardinality(S) -> S] :
                \A m, n \in 1 .. Cardinality(S) : m < n => PairLess(s[m], s[n])

\* Pushes above last_head_ that finished: the last one of each thread.
RecPushed ==
    LET done == {p \in Producers : /\ thr_head[p] = ULONG_MAX
                                   /\ pos_push[p] > last_head_
                                   /\ pos_push[p] # ULONG_MAX}
    IN  /\ RecGoto("pushed", "push_copy")
        /\ elems' = Sorted({<<pos_push[p], p>> : p \in done})
        /\ n_pushed' = Cardinality(done)
        /\ pos_push' = [p \in Producers |-> IF p \in done THEN pos_push[p]
                                                         ELSE ULONG_MAX]
        /\ UNCHANGED <<head_, tail_, last_head_, last_tail_, thr_head, thr_tail,
                       pos_pop, ptr_array_, locals, popped, it, i, before>>

\* Mutant of RecPushCopy: the item is not copied.
RecPushSkip ==
    /\ rec_pc = "push_copy" /\ it <= Len(elems)
    /\ IF last_head_ + i < elems[it][1] THEN rec_pc' = "push_pos" /\ UNCHANGED it
                                        ELSE it' = it + 1 /\ UNCHANGED rec_pc
    /\ UNCHANGED <<vars, elems, popped, n_pushed, i, before>>

\* Move the next of them down to the i'th position from last_head_.
RecPushCopy ==
    LET dst == last_head_ + i
        src == elems[it][1]
    IN  /\ rec_pc = "push_copy" /\ it <= Len(elems)
        /\ IF dst < src
           THEN /\ rec_pc' = "push_pos"
                /\ ptr_array_' = [ptr_array_ EXCEPT ![Slot(dst)] =
                                                        ptr_array_[Slot(src)]]
                /\ UNCHANGED it
           ELSE /\ it' = it + 1
                /\ UNCHANGED <<rec_pc, ptr_array_>>
        /\ UNCHANGED <<head_, tail_, last_head_, last_tail_, thr_head, pos_push,
                       thr_tail, pos_pop, locals, elems, popped, n_pushed, i,
                       before>>

\* Mutant of RecPushPos: the position is not updated.
RecPushPosKept ==
    /\ RecGoto("push_pos", "push_copy")
    /\ it' = it + 1 /\ i' = i + 1
    /\ UNCHANGED <<vars, elems, popped, n_pushed, before>>

\* "thr_p_[...].pos_push = dst; ++i".
RecPushPos ==
    /\ RecGoto("push_pos", "push_copy")
    /\ pos_push' = [pos_push EXCEPT ![elems[it][2]] = last_head_ + i]
    /\ it' = it + 1 /\ i' = i + 1
    /\ UNCHANGED <<head_, tail_, last_head_, last_tail_, thr_head, thr_tail,
                   pos_pop, ptr_array_, locals, elems, popped, n_pushed, before>>

\* Pops above last_tail_ that finished, and what is to be moved over them: for
\* two of them in a row, the positions from the first to below the second,
\* each with the thread of the second, in descending order.
RecPopped ==
    LET done == {c \in Consumers : /\ thr_tail[c] = ULONG_MAX
                                   /\ pos_pop[c] > last_tail_
                                   /\ pos_pop[c] < last_head_}
        list == Sorted({<<pos_pop[c], c>> : c \in done})
        unpopped == UNION {{<<k, list[n][2]>> : k \in list[n - 1][1] .. list[n][1] - 1}
                              : n \in 2 .. Len(list)}
    IN  /\ RecGoto("push_copy", "pop_copy")
        /\ it > Len(elems)
        /\ popped' = list
        /\ elems' = Reverse(Sorted(unpopped))
        /\ it' = 1 /\ i' = 0
        /\ pos_pop' = [c \in Consumers |-> IF c \in done THEN pos_pop[c]
                                                         ELSE ULONG_MAX]
        /\ UNCHANGED <<head_, tail_, last_head_, last_tail_, thr_head, pos_push,
                       thr_tail, ptr_array_, locals, n_pushed, before>>

\* Move the next of them up to the i'th position below the last pop.
RecPopCopy ==
    LET dst == popped[Len(popped)][1] - i
        src == elems[it][1]
    IN  /\ rec_pc = "pop_copy" /\ it <= Len(elems)
        /\ IF dst > src
           THEN /\ rec_pc' = "pop_pos"
                /\ ptr_array_' = [ptr_array_ EXCEPT ![Slot(dst)] =
                                                        ptr_array_[Slot(src)]]
                /\ UNCHANGED it
           ELSE /\ it' = it + 1
                /\ UNCHANGED <<rec_pc, ptr_array_>>
        /\ UNCHANGED <<head_, tail_, last_head_, last_tail_, thr_head, pos_push,
                       thr_tail, pos_pop, locals, elems, popped, n_pushed, i,
                       before>>

RecPopPos ==
    /\ RecGoto("pop_pos", "pop_copy")
    /\ pos_pop' = [pos_pop EXCEPT ![elems[it][2]] = popped[Len(popped)][1] - i]
    /\ it' = it + 1 /\ i' = i + 1
    /\ UNCHANGED <<head_, tail_, last_head_, last_tail_, thr_head, pos_push,
                   thr_tail, ptr_array_, locals, elems, popped, n_pushed, before>>

\* The four counters, one store each.
RecAddHead ==
    /\ RecGoto("pop_copy", "set_head")
    /\ it > Len(elems)
    /\ last_head_' = last_head_ + n_pushed
    /\ UNCHANGED <<head_, tail_, last_tail_, thr_head, pos_push, thr_tail,
                   pos_pop, ptr_array_, locals, elems, popped, n_pushed, it, i,
                   before>>

RecSetHead ==
    /\ RecGoto("set_head", "add_tail")
    /\ head_' = last_head_
    /\ UNCHANGED <<tail_, last_head_, last_tail_, thr_head, pos_push, thr_tail,
                   pos_pop, ptr_array_, locals, elems, popped, n_pushed, it, i,
                   before>>

RecAddTail ==
    /\ RecGoto("add_tail", "set_tail")
    /\ last_tail_' = last_tail_ + Len(popped)
    /\ UNCHANGED <<head_, tail_, last_head_, thr_head, pos_push, thr_tail,
                   pos_pop, ptr_array_, locals, elems, popped, n_pushed, it, i,
                   before>>

RecSetTail ==
    /\ RecGoto("set_tail", "heads")
    /\ tail_' = last_tail_
    /\ i' = 0
    /\ UNCHANGED <<head_, last_head_, last_tail_, thr_head, pos_push, thr_tail,
                   pos_pop, ptr_array_, locals, elems, popped, n_pushed, it,
                   before>>

\* The announcements are withdrawn one by one, heads first ...
RecHeads ==
    /\ rec_pc = "heads"
    /\ IF i < NProducers
       THEN /\ thr_head' = [thr_head EXCEPT ![i] = ULONG_MAX]
            /\ i' = i + 1
            /\ UNCHANGED rec_pc
       ELSE /\ rec_pc' = "tails" /\ i' = 0
            /\ UNCHANGED thr_head
    /\ UNCHANGED <<head_, tail_, last_head_, last_tail_, pos_push, thr_tail,
                   pos_pop, ptr_array_, locals, elems, popped, n_pushed, it,
                   before>>

\* ... and then the tails; the constructor returns and threads are started.
RecTails ==
    /\ rec_pc = "tails"
    /\ IF i < NConsumers
       THEN /\ thr_tail' = [thr_tail EXCEPT ![i] = ULONG_MAX]
            /\ i' = i + 1
            /\ UNCHANGED <<rec_pc, elems, popped, n_pushed, it, before>>
       ELSE /\ rec_pc' = "up" /\ elems' = << >> /\ popped' = << >>
            /\ n_pushed' = 0 /\ it' = 1 /\ i' = 0 /\ before' = << >>
            /\ UNCHANGED thr_tail
    /\ UNCHANGED <<head_, tail_, last_head_, last_tail_, thr_head, pos_push,
                   pos_pop, ptr_array_, locals>>

RecStep == \/ RecLastHead \/ RecLastTail \/ RecPushed  \/ RecPushCopy
           \/ RecPushPos  \/ RecPopped   \/ RecPopCopy \/ RecPopPos
           \/ RecAddHead  \/ RecSetHead  \/ RecAddTail \/ RecSetTail
           \/ RecHeads    \/ RecTails

RecNext == RunStep \/ Crash \/ RecStep

RecSpec == RecInit /\ [][RecNext]_allVars

------------------------------------------------------------------------------
(* What must survive.                                                       *)

Durable == INSTANCE DurableFifo WITH
    log <- IF rec_pc = "up" THEN LiveLog ELSE before,
    pushing <- Pushing, popping <- Popping, buffer <- Given,
    up <- (rec_pc = "up")

\* Completed operations survive every crash in their order, and an operation
\* that was cut short takes effect or does not: recover() (lines 184-305)
\* restores the queue its callers saw.
ImplementsDurableFifo == Durable!Spec

\* When recover() starts the threads again the counters are those of a queue:
\* no more tickets popped than pushed, and no more items than slots.
RecoveredCounters ==
    rec_pc \in {"heads", "tails"} =>
        /\ head_ = last_head_ /\ tail_ = last_tail_
        /\ tail_ <= head_ /\ head_ <= tail_ + Q_SIZE

\* Whatever recover() drops, it closes the gaps: no ticket that can be popped
\* afterwards leads to a slot which its producer had not filled yet.  (Precise
\* in the first round of the ring, where such a slot was never written.)
NoHoles ==
    rec_pc \in {"heads", "tails"} =>
        \A k \in Positions : tail_ <= k /\ k < head_ => ptr_array_[Slot(k)] # NoItem

\* recover() gives tickets back and never hands one out: head_ does not go up,
\* also when recover() is cut short and starts again on what it left.
NoPushMadeUp == [][rec_pc # "up" => head_' <= head_]_allVars

\* recover() changes nothing in a file that no operation was cut short in: it
\* "recovers internal state" (comment in line 183) once, and an exit between
\* two operations and a restart, any number of times, lose and add nothing.
CleanRestart ==
    [][ /\ rec_pc # "up"
        /\ \A p \in Producers : thr_head[p] = ULONG_MAX
        /\ \A c \in Consumers : thr_tail[c] = ULONG_MAX
        => UNCHANGED <<head_, tail_, ptr_array_>> ]_allVars
==============================================================================
