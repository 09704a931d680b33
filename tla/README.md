# Models and proofs of the PMIdioBench data structures

PMIdioBench (VLDB'21, "Understanding the Idiosyncrasies of Real Persistent
Memory") holds micro-benchmarks for persistent memory and two families of
concurrent persistent data structures: ring buffers and linked lists. The
benchmarks are straight-line measurements. What can be wrong in ways a test
would not show is in the data structures: they synchronise with plain loads and
stores, and they claim to survive a crash at any instruction.

## 1. Inventory

| Part | State | Operations | Hard behaviour | What makes it correct |
|---|---|---|---|---|
| Ring buffer, TX-free for eADR (`ring-buffer/p_rb_q_eadr.cc`) | four counters `head_`, `tail_`, `last_head_`, `last_tail_`; per thread two announcements (`head`, `tail`) and two positions (`pos_push`, `pos_pop`); the slots | `push()`, `pop()`, scans `find_last_head()`, `find_last_tail()`, `init()` | any number of producers and consumers, no lock; scans run over announcements that change; slower scans overwrite faster ones | slot copies never overlap; callers see one FIFO queue; everybody finishes |
| its crash recovery (same file) | the mapped file | crash, `recover()` | crash between any two stores, several operations cut short, crash inside `recover()` | durable linearizability: what returned survives, in order |
| Test driver (`ring-buffer/include/test_common.h`) | `x`, `y`, `n`, the threads | `run_test()`, `Producer`, `Consumer`, the check | threads start while others run; a shared counter decides who pops | each element is popped exactly once; termination |
| Ring buffer, TX for ADR (`p_rb_q_adr.cc`) | the same, in a libpmemobj pool | the same, in transactions | an undo log restores memory other threads have moved on | as above |
| Ring buffer, TX-free for ADR (`p_rb_q_exp.cc`) | the same | the same, with flushes | stores become durable in another order than they were made | `scripts/run_tests.sh:119` renounces linearizability |
| Linked list (`linkedlist/linkedlist.c`) | nodes in an array, `next` is an index with a mark | `p_list_add`, `p_list_remove`, `p_list_contains`, `p_list_search` | Harris' algorithm: marking, unlinking by any thread | a linearizable set; a node is retired once |
| TLog and list recovery (same file) | a log entry per thread | `set_tlog`, `clear_tlog`, `recover()` | redo of operations that took effect already | the set after a restart |
| Reclamation (`linkedlist/include/ebr.h`) | `epoch`, `reservations`, lists of retired nodes | `start_op`, `end_op`, `retire`, `empty` | a node reused while traversed | no index is handed out while a thread can reach it |
| Node bitmap (`linkedlist/include/bitmap.h`) | one bit per node | find, claim, release | claims race; 64-bit words and a 32-bit builtin | an index has one owner; all of them can be used |
| List driver (`linkedlist/main.c`) | barrier, counters | barrier, `test()`, `main()` | condition wait without a loop | threads start together; sizes add up |
| Benchmarks, timers, scripts (`Bench/`, `Scripts/`, `*/scripts/`) | none | measure | none | not modelled |

Interaction: the drivers start threads, and each thread carries an id used as
index into `thr_p_` (a producer and a consumer can share one) or into
`reservations` and `tlog`. All communication is through shared memory. The
list calls the reclamation (`start_op`, `end_op`, `retire`), which gives
indices back to the bitmap the list allocates from. Persistence is external:
libpmem and libpmemobj are known only by the calls this code makes.

## 2. Modules

| Module | What it is |
|---|---|
| `FifoQueue` | abstract: a FIFO queue on which each operation takes effect at one instant; a `pop()` waits |
| `LockFreeQueue`, `MCLockFreeQueue` | `push()` and `pop()` of the ring buffer, one action per access to shared memory |
| `LockFreeQueueProofs` | its inductive invariant, proved |
| `LockFreeQueueRefinement` | it implements `FifoQueue`, proved |
| `QueueTest` | extends `LockFreeQueue` with `run_test()` of the driver |
| `QueueTestProofs` | each element is popped exactly once, proved |
| `DurableFifo` | abstract: a FIFO queue that survives crashes |
| `QueueRecovery`, `MCQueueRecovery` | extends `LockFreeQueue` with the crash and `recover()` of the eADR build |
| `QueueRecoveryInv` | why `recover()` leaves no gap: its inductive invariant |
| `QueueRecoveryProofs` | that invariant holds, proved |
| `AdrQueue`, `MCAdrQueue` | extends `QueueRecovery` to all three persistent builds: transactions, flushes, stores that have not reached memory |
| `LinearSet` | abstract: a linearizable set |
| `Ebr` | the epochs, the retired nodes and the bitmap, for any structure |
| `EbrProofs` | its inductive invariant, proved |
| `HarrisList`, `MCHarrisList` | extends `Ebr` with the linked list |
| `HarrisListInv` | the inductive invariant of the list |
| `HarrisListProofs` | the list uses its nodes as `Ebr` expects, proved; what can be reached in a list in order |
| `HarrisListInvProofs` | the invariant holds, and the list implements `LinearSet`, proved |
| `DurableSet` | abstract: a linearizable set that survives crashes |
| `ListRecovery`, `MCListRecovery` | extends `HarrisList` with the logs, the flushes, the crash and `recover()` |
| `ListRecoveryInv` | why `recover()` finds a list it can go through: the inductive invariant |
| `ListRecoveryProofs` | that invariant holds, proved |

The `MC` modules hold the instances for TLC: symmetry of the items (which the
queue only copies), the requests and their number, and how many calls may be
under way at a time. In every module "Mutant of X" marks a variant that a bug
would make of X; the specifications do not use them.

### LockFreeQueue

The variables `head_` ... `ptr_array_` are the fields of `QInfo`, `ThrPos` and
the slots. `thr_head`, `thr_tail`, `pos_push`, `pos_pop` are indexed by thread.
The others are locals: `push_pc`, `pop_pc` say where a thread is, `*_reg` is a
value loaded and not yet stored, `*_min` and `*_i` belong to the scan.

A `push()` is, in order: `PushCall`, `PushLoad`/`PushAnnounce` (line 412),
`PushTake`/`PushRecord` (413), `PushCheck` (420 and 424), and as long as it
fails `PushFind`, `PushScan` per consumer, `PushUpdate` (422); then `PushCopy`
(430-434), `PushPos` (435), `PushRelease` (439). `pop()` mirrors it.

Abstractions, and why they lose nothing:

- Tickets are natural numbers below `ULONG_MAX`: 2^64 operations are out of
  reach. `MaxTicket` bounds them per side, in the guards of `PushTake` and
  `PopTake`; in `QueueTest` it equals the number of operations the program makes
  and blocks nothing. The proofs hold for every `MaxTicket`.
- Memory is sequentially consistent. On x86 a store may be delayed, past later
  loads only. The announcement (412) is followed by a locked instruction, so it
  is visible before the ticket is taken. A delayed store of the ticket (413)
  leaves the announcement lower, a delayed withdrawal (439) leaves it in place,
  a delayed bound (422) leaves it older: each is the state before the store, in
  which other threads are held back more. Stores are not reordered with each
  other, so an item is visible before its announcement is withdrawn.
- A copy of a slot is one step at its end and "under way" while the thread is at
  `copy`. `SlotExclusion` is what makes that sound: no other copy of the same
  slot overlaps.
- A failed second test (424) has no effect but to lead to the first (420), so
  both are `PushCheck`.

### QueueTest

`ProducerLoop` is one turn of the loop of `Producer` up to the call,
`ConsumerTest` the `fetch_add` with the call or the end of the loop,
`ConsumerUse` the assertion and the mark in the consumer's copy, `StartThread`
and `CheckData` are `run_test()`; joining is the guard of `CheckData`.
`received` is a history variable. The model is of the `CHECK_DATA` build; the
other build pushes the same number of times without marks.

### QueueRecovery

`Crash` can happen at any step of any thread and of `recover()`: locals are
lost, the file keeps every store (this is what eADR means, and `push()` and
`pop()` of that build rely on it). `recover()` then runs alone, one action per
store. The printed positions, the magic number and the mapping are left out.
`int src, dst` are modelled as unbounded (see section 5). `Sorted` is
`std::list::sort()`, said by its result.

`DurableFifo` keeps a log of entries with the producer (`by`) and the consumer
(`to`) whose operation on it has not returned. `Recover` may drop an entry only
if its `push()` or `pop()` was cut short.

### AdrQueue

`push()`, `pop()` and `recover()` of `p_rb_q_adr.cc` ("tx") and `p_rb_q_exp.cc`
("exp") do the same loads and stores as the eADR build. What differs is what a
crash leaves of them, so `AdrQueue` takes the actions of `LockFreeQueue` and
`QueueRecovery` and adds the persistence. Each word has a cache line of its own,
and `file[w]` is the set of values a crash may leave of word `w`:

- `Persisted(W)`: the words of `W` are in memory, and other stores are not to
  survive a crash (eADR: all words; tx: what commits);
- `Cached(W)`: the words of `W` are in memory, any other store may be (exp, and
  in tx the announcements, which are made outside transactions).

A crash picks one value of each set, independently: every order in which stores
leave the caches. A flush with its fence is invisible to other threads and is
part of the next store of the thread; where it is the last thing `push()` does,
`push_pm` says that the thread is still in it. In tx, `undo_head` and
`undo_tail` are what the undo log holds of the shared counters; opening the pool
after a crash rolls open transactions back in no particular order. The
`recover()` of tx is one transaction, except for the slots, which it copies
without logging them. `AdrLog` maps the state to the log of `DurableFifo`; it
counts operations that have withdrawn their ticket and not returned as
interrupted.

### Ebr

One action for each access to shared memory of `start_op()`, `end_op()`,
`retire()`, `get_min()` and `empty()`; in particular the epoch is loaded and
reserved in two steps, and `get_min()` reads one reservation at a time. The
order of a thread's list of retired blocks decides nothing, so it is a set. The
counter is kept modulo `EPOCH_FREQ`, all that the code looks at.

The structure that uses the nodes is left open: it may `Claim`, `Publish`,
`Discard` and `Detach` any node at any time. `linked`, `reach`, `detached` and
`owned` record the use: `reach[t]` holds the nodes `t` can have met since it
reserved its epoch. `EbrSpec` is what the proofs are about; `HarrisList`
conjoins these actions with its own.

### HarrisList

One action per load or locked instruction of `p_list_search()`, `p_list_add()`,
`p_list_remove()`, `p_list_contains()` and `new_p_node()`, for example `Walk`
(one turn of the search), `Unlink` (the compare-and-swap that takes a run of
marked nodes out) with `ReclaimNode`/`ReclaimNext` (the loop that retires them),
`Insert`, `Mark`, `Delete` (the compare-and-swaps of `add()` and `remove()`),
each with its failing counterpart. An index with a mark is `i + MARK`. `data[i]`
of a node a thread holds does not change while it does (`HeldReached` with
`Protected`), so it is read together with `next[i]`. `FindBit` and
`FindNextWord` are the scan of the bitmap with the `FFS` bits of a word that
`__builtin_ffs()` sees, `OutOfMemory` is the `exit(1)`.

`seen` is a history variable: where the value of a call has been since the call
began. `LinearSet` allows a call that changes nothing to answer anything that
was true in between.

### ListRecovery

`build` is "eadr" (`EADR_AVAILABLE`: nothing is logged, all stores survive) or
"adr". `file[i]` is the set of contents a crash may leave of node `i` (one cache
line), `logFile[t]` that of a log entry; `todo` and `todoLog` are what the
thread must see in memory before its next step (`Persist` is the flush with the
drain). `mode` follows `recover()`: "recover" walks the list (`RecoverNode`) and
fills the bitmap, "redo" goes over the logs, "redoing" one request with
`p_list_add()` or `p_list_remove()` itself, run by thread 0. `SegFault` is the
end of a redone `remove()` that retires a node while the list of retired nodes
is NULL; the process starts again, with that `remove()` half done.
`UnfailingSpec` is the specification without `SegFault`.

The calls take every step they take in `HarrisList`, those of the reclamation
included, so that nodes are given back and reused while a store to their
predecessor may still be in the caches. Only the `exit(1)` of `new_p_node()` is
left out: a thread that finds no node waits for the machine to stop. `Crash` is a
crash of the machine; `MaxCrashes` bounds how many there are, `MaxStops` how many
of the first may come while the program is at work (the others come during
`recover()`).

`DurableSet` lets the interrupted calls happen or not, and nothing else change;
with `Lossy` it also lets values go that lie directly above that of an
interrupted `remove()`.

## 3. Properties and runs

| Run | Instance | Checks |
|---|---|---|
| `queue` | 2 producers, 2 consumers, 1 slot, 2 tickets a side, 2 items | `TypeOK`, `SlotExclusion`, `CachedBoundsSound`, `Inv`, refinement of `FifoQueue` |
| `queue_test` | the same, the program run to its end | `ExactlyOnce`, `PoppedIsMissed`, `Termination` |
| `recovery` | 1 producer, 1 consumer, 2 slots, 6 tickets, all three builds; both threads at work with eADR, else one at a time | `RecoveredCounters`, `CleanRestart`, refinement of `DurableFifo` |
| `recovery_many` | 2 producers, 3 consumers of which 2 are active, 4 slots, 3 tickets, eADR | `NoHoles`, `NoPushMadeUp`, `RecInv` |
| `list` | 2 threads, 12 nodes, values 1 to 3 all present; one thread makes 3 calls, the other 1, of `remove(1)`, `remove(2)`, `add(2)`, `contains(2)` | `ListTypeOK`, `Linked`, `HeldReached`, `Protected`, `NodeOwners`, `EbrInv`, `ListInv`, refinement of `LinearSet`, `CallsReturn` |
| `list_recovery` | both builds; two threads (adr: one call at a time), 6 nodes that are given back and reused, 2 and 1 calls; two crashes, eADR: both anywhere, adr: the second one during `recover()` | `RecoveryTypeOK`, `RecoveredWell`, `EadrInv`, `LogsApplied`, `RecoveryEnds`, refinement of `DurableSet` with `Lossy` |
| `queue_lock_free` | 2 slots; producer 0 may stop | `PushedIsPopped` is violated |
| `recovery_push_lost` | 2 producers, 1 consumer, eADR | refinement of `DurableFifo` is violated |
| `recovery_twice` | 1 producer, 2 consumers, 2 of them active, eADR | `CleanRestart` is violated |
| `recovery_tx` | as `recovery`, build tx, both threads at work | refinement of `DurableFifo` is violated |
| `list_recovery_lost` | as `list_recovery`, eADR | refinement of the strict `DurableSet` is violated |
| `list_recovery_circle` | build adr, two calls at a time, the requests `remove(2)`, `remove(3)` and `add(1)` and so two logs; a crash anywhere and a second one during `recover()` | `RecoveryEnds` is violated |

The largest runs are `queue` and `recovery_many` (1.9 million distinct states each),
`list_recovery` (560 thousand) and `list` (260 thousand, with liveness): 40
seconds to 3 minutes each.

Why the bounds are enough for the interesting cases.

- `queue`: with one slot and two tickets the second item needs the slot of the
  first, so producers wait for consumers and consumers for producers, both scan,
  and scans of two threads overwrite each other. Two threads a side give every
  race between threads of one side. Checked by hand, larger: 2 producers, 1
  consumer, 2 slots, 4 tickets (2.8 million states) and 2 and 2 with 1 slot and
  3 tickets (6 million). The proofs hold for every instance.
- `recovery` goes three times around the ring. `recovery_many` has what each
  loop of `recover()` needs: a stalled producer below a finished one, and a
  stalled consumer below two finished ones. It does not go around the ring,
  where an unwritten slot could not be told from an old one.
- `list`: `EPOCH_FREQ` and `EMPTY_FREQ` are 1 (in the code 64 and 128), so each
  retirement begins an epoch and tries to give nodes back; `MaxEpoch` 4 is no
  less than the retirements the calls can make. A word of the bitmap has 4 bits
  of which 2 are seen, so 6 of 12 nodes can be used, five are in use at the
  start and the next `add()` needs the last free one or one given back: nodes
  are reused while the other thread is anywhere in its call. Neighbouring values
  give the hard cases of the algorithm: insertion behind a node that is being
  deleted, two deletions side by side, a search that unlinks two nodes.
- `list_recovery`: an epoch begins with each retirement and every second one of
  a thread tries to give nodes back, so that a node is reused before the machine
  stops; two nodes are free at the start, and all bits of the bitmap are seen.
  With eADR two calls are under way at a time and both crashes may come while
  the program is at work, or during `recover()`; without it there is one call at
  a time, and the second crash comes only during `recover()`, where it is
  interrupted and repeated. The reason is `SegFault`: with a second crash of the
  program at work after it, `ImplementsLossy` is violated (violation 6).
  `RecoveryInv` without eADR, which is what the proofs are about, was checked by
  hand, of `UnfailingSpec`: on the instance of `list_recovery_circle` with the
  frequencies of the code (60 thousand states) and with 1 for both (93
  thousand), which has what `list_recovery` leaves out, an unlinking store in
  the caches of one thread while another claims, links and flushes nodes, and
  two requests in the logs; and on a larger one, with two calls at a time of
  `remove(1)`, `remove(2)` and `add(1)`, three calls of one thread and one of
  the other, and both frequencies 1 (2.3 million states), where nodes are reused
  under such a store of another thread.
- `list_recovery_lost` and `list_recovery_circle` keep the frequencies of the
  code, so that nothing is given back in so few calls: neither violation needs
  it.

Deadlock is not checked where the model itself stops: the queue has no more
tickets at `MaxTicket`, and a consumer of a queue nobody pushes to waits for
ever. `queue_test`, `queue_lock_free` and the runs of the list do
check it: only `main()` having returned, or all calls of the bound having been
made, is allowed to stop.

Fairness. `TestSpec` gives every thread weak fairness: threads of the operating
system that spin without holding a lock are scheduled again and again.
`StalledSpec` takes it away from producer 0 and nobody else, which is the
situation "lock-free" is about. `FairSpec` gives each thread of the list weak
fairness of its steps inside a call; nothing obliges it to make a call.
`RecoveryFairSpec` says only that `recover()` gets on. Safety runs assume none.

### What the violations show

1. The queue is not lock-free in the usual sense: a producer that stops inside
   `push()` keeps consumers from items whose `push()` has returned.
2. `recover()` of the queue can lose a `push()` that returned, when another
   producer had only announced itself: its position equals the recomputed
   `last_head_`, and the comparison is strict. (The mirror image on the pop
   side, line 236, brings a popped item back: the same instance with 1 producer
   and 2 consumers.)
3. `recover()` of the queue is not idempotent on the pop side: `pos_pop` of a
   counted pop stays, and the next start counts it again.
4. In the transactional queue a `push()` withdraws its ticket before its
   transaction commits. A `pop()` in between takes the item, commits and
   returns; a crash then undoes the push and not the pop, the counters have
   crossed, and the next item pushed is lost.
5. `recover()` of the list steps over the node after a marked one and unmarks
   the marked one: after a crash inside `remove()` the removed value is back and
   a live value is gone. `ImplementsLossy`, which holds, says what remains true:
   only values directly above that of an interrupted `remove()` can go.
6. `remove()` retires the node it has unlinked before it flushes the store that
   did so (`linkedlist.c:557-558`). In a `remove()` that `recover()` redoes,
   `retire()` ends the process there. The next start takes the node for free,
   and a redone `add()` gets it, fills it and flushes it; in memory its
   predecessor still points to it. After one more crash the list has a node with
   the next index of another place, and `recover()` goes around in a circle, at
   every start. It takes two logs, one of a `remove()` and one of an `add()`;
   with one call at a time `list_recovery` does not find it, and with eADR it
   cannot happen (`RecoveredWithEadr`). With one call at a time the same order of
   lines has another consequence, after a second crash of the program at work: of
   the set {1, 2, 3} a `remove(1)` is interrupted, its redo dies in `retire()`, and
   the next `recover()` ends with {2, 3}; the store that unlinked 1 is still in the
   caches. When the machine stops again, with no call under way, memory has the
   marked node of 1 in the list, and `recover()` makes {1, 3} of it (violation 5).
   `MaxStops` 2 without eADR shows it, as a violation of `ImplementsLossy`.

With one producer and one consumer none of 2 and 3 occurs (`recovery`); nor does
any with two of each that operate one at a time (`QueueRecovery` with
`NProducers`, `NConsumers` 2 and `MaxActive` 1: 123 thousand states).

## 4. Proofs

All proofs are for every value of the constants, from the assumptions named in
the modules that declare them. Three are about a specification narrower than the
full one, `UnfailingSpec`; the end of this section says what that leaves out.

| Module | Theorem | Statement |
|---|---|---|
| `LockFreeQueueProofs` | `TypeCorrect` | `Spec => []TypeOK` |
| | `Invariance` | `Spec => []Inv` |
| | `BoundsSound` | `Spec => []CachedBoundsSound` |
| | `Exclusion` | `Spec => []SlotExclusion` |
| `LockFreeQueueRefinement` | `Refinement` | `Spec => ImplementsFifo` |
| `QueueTestProofs` | `PoppedOnce` | `TestSafe => []ExactlyOnce` |
| | `AssertionHolds` | `TestSafe => []PoppedIsMissed` |
| `QueueRecoveryProofs` | `RecoveryInvariance` | `RecSpec => []RecInv` |
| | `NothingUnwritten` | `RecSpec => []NoHoles` |
| | `NoTicketMadeUp` | `RecSpec => NoPushMadeUp` |
| `EbrProofs` | `EbrTypeCorrect` | `EbrSpec => []EbrTypeOK` |
| | `EbrInvariance` | `EbrSpec => []EbrInv` |
| | `NeverReusedUnderAThread` | `EbrSpec => []Protected` |
| | `OneOwner` | `EbrSpec => []NodeOwners` |
| `HarrisListProofs` | `ListUsesEbr` | `Spec => EbrSpec` |
| | `ListNodesSafe` | `Spec => [](EbrInv /\ Protected /\ NodeOwners)` |
| `HarrisListInvProofs` | `ListInvariance` | `Spec => []ListInv` |
| | `ListTypeCorrect` | `Spec => []ListTypeOK` |
| | `AlwaysLinked` | `Spec => []Linked` |
| | `OnlyHeldNodes` | `Spec => []HeldReached` |
| | `ListRefinement` | `Spec => ImplementsSet` |
| `ListRecoveryProofs` | `RecoveryInvariance` | `UnfailingSpec => []RecoveryInv` |
| | `RecoveryTypeCorrect` | `UnfailingSpec => []RecoveryTypeOK` |
| | `RecoveredAlways` | `UnfailingSpec => []RecoveredWell` |
| | `EadrInvariance` | `RecoverySpec => []EadrInv` |
| | `RecoveredWithEadr` | `RecoverySpec => [](build = "eadr" => RecoveredWell)` |

**The invariant of the queue.** Neither bound nor exclusion is inductive. That
`last_head_` is not above a ticket in use depends on the scan that produced it,
which depends on what the threads had announced when it passed them. `Inv` adds
what is needed, each with its mirror image:

- `PushAnnounced`: an announcement is never above the ticket its thread gets or
  holds. This is the comment at lines 405-407.
- `PopScanning`: whoever holds a ticket below the minimum of a scan is still
  ahead of the scan. A thread behind it had announced a higher value, or takes a
  ticket from a `head_` that is no lower than the minimum.
- `PushDistinct`: tickets are distinct.
- `ConsumerCleared`: a consumer past its check has no producer at or below it.
- `ConsumerWaits`: a consumer does not let go of a ticket before the producer.
- `WithinOneRound`: a ticket whose producer is past its check is less than a
  round ahead of every consumer.

Two threads copying in one slot would hold tickets that are equal modulo
`Q_SIZE`; the last two put them less than a round apart, so the tickets are
equal, and a producer and a consumer of one ticket are kept apart by
`ConsumerCleared`. Push actions, pop actions and stuttering are separate lemmas
(`PushInv`, `PopInv`, `StutterInv`), one step per action.

**The refinement.** The queue of `FifoQueue` is, for each ticket from `tail_` to
`head_`, the item the ticket stands for (`ItemOf`: the argument of the `push()`
that holds it, or the slot). `PushItemKept` and `PopItemKept` show that this
item does not change while the ticket is live: the producer that copies into its
slot is its own, since another would be a round ahead (`FillingMissesLive`).
`PushTake` is then `Enqueue`, or `Handoff` to the consumer that took the ticket
earlier; `PopTake` is `Dequeue`, or invisible when there is no item yet. The
rest changes nothing that the caller sees but the call and the return.

**Exactly once.** `TestInv` says that every element pushed is in exactly one
place: the argument of a `push()`, a ticket, the hand of a consumer, or the
`received` of one. It also counts: `n` counts the calls of `pop()`, and the
positions below `tail_` and the consumers still on the way to theirs (`Asking`)
make up as many. When all threads have ended, `tail_` is the number of elements,
hence not below `head_`, and no ticket holds anything. Which producer pushes
which element is arithmetic modulo the number of producers (`SameRemainder`,
`NextMultiple`). `TestAssumption` asks for at least one producer and one
consumer; `config.h:29-31` sets 14 of each.

**Recovery of the queue.** After `recover()`, `NoHoles` says, each slot from
`tail_` to `head_` has been written. `RecInv` follows the gaps from where they
arise:

- While `push()` runs, a slot below `head_` that was never written is the ticket
  of a producer still inside (`GapsHeld`), who announces it or something lower
  (`HoldersAnnounce`): so at any crash an unwritten slot has an announcement not
  above it (`GapsAnnounced`). Positions in `pos_push` are distinct and written
  (`PositionsWritten`, for which tickets must be distinct from them too).
- `last_head_` is recomputed as the least announcement (`LastHeadFound`); by
  `GapsAnnounced` everything below it is written.
- The elements to move are above `last_head_`, distinct and in ascending order,
  so the m'th is at least at `last_head_ + m` and goes to `last_head_ + m - 1`
  (`Moving`): the comparison `dst < src` of line 221 always succeeds, no source is
  overwritten before it is read, and the stretch without a gap grows by one with
  each (`Moved`). Then it is as long as `last_head_` is made (`Counted`).
- A crash in the middle leaves slots that are written, announcements nobody has
  removed yet, and positions of moved elements that are distinct from the others:
  the same facts `recover()` starts from.

That `Sorted` denotes anything takes an induction over the number of pairs. It is
made with a set in place of a predicate (`NatInductive`), as for the list below.

`RecInv` says next to nothing of `tail_`, and there is nothing more to say: the
positions `recover()` leaves in `pos_pop` may lie above the `tail_` it makes, be
taken again and be counted twice (violation 3). `NoHoles` holds because it
speaks of the slots below `head_` only.
A slot counts as written if it ever was, so what is proved is the precise
property in the first round of the ring, where every gap is visible.

**Reclamation.** `Protected` alone is not inductive: whether a block may be
given back is decided by a minimum computed while reservations changed. `EbrInv`
adds that a node a thread can have met is in the structure or was taken out
since (`MetNodes`), that if it was retired then no earlier than the epoch the
thread reserved (`MetRetired`), and that a scan under way has a minimum low
enough for every thread it has passed (`ScanSound`). A thread that starts behind
the scan reserves an epoch that may be old, which does no harm: a traversal that
begins after the blocks were retired cannot meet them. `HarrisListProofs` shows
that each step of the list is a step of `Ebr` or leaves the nodes alone. With
that, `Protected` and `NodeOwners` hold of the list for any number of threads
and nodes.

**The list.** `Linked` says what can be reached from the head, which a step
changes in ways that cannot be seen from the step, and the answers of a search
depend on nodes that left the list long ago. `ListInv` replaces both by facts
about single nodes:

- `InOrder`: the set `linked`, which the reclamation keeps anyhow, is a list in
  order. From each node but the tail the next one is in the set, has a greater
  key, and no node of the set has a key in between. Inserting behind a node
  (`LinkIn`) and cutting out what lies between two nodes (`CutOut`) keep that,
  and so do marks (`SortedKept`).
- `Traversable`: whatever a thread can have met (`reach`) is unmarked only if it
  is in the list, and leads to more that it can have met, upwards. This is why a
  search can go on from a node that has been taken out.
- `Witnessed`: a node a thread can have met may say that a value is not there:
  the value lies between its key and the next one, or is its own key and it is
  marked. If it says so of the value of the call, then the value was absent at
  some instant since the call began. Marked nodes do not change any more, so
  what they say was true when they left.
- `Local`: for each point of the code, what the locals of a thread mean. The
  important parts are `Walked` (the nodes from `left_next` up to where the
  search stands are marked, if `left_next` is still in the list: so the
  compare-and-swap of `Unlink` takes out marked nodes only), `Run` (those it has
  taken out are exactly the ones that its loop will come by and retire) and
  `Owning` (the node it is going to insert is nobody else's).

A compare-and-swap succeeds only on an unmarked `next`, and by `Traversable` an
unmarked node is in the list: so what is known of `linked` applies to `left`
although nothing has kept it there. `Others` shows once that the point of view of
a thread does not suffer from a step of another that writes only unmarked nodes
(`Frozen`); then each action has its own lemma (`WalkInv`, `UnlinkInv`, ...,
joined in `StepListInv`).

The nodes of a list in order are those that can be reached (`SortedIsReachable`).
That takes two inductions: along the path, that it stays in the list, and from
the tail down, that every node is on it. The induction theorems of the library
cannot be instantiated here; `Least` gets the principle from the well-founded
order of finite sets by inclusion (the sets `1 .. n`), and `Induction` states it
with a set in place of a predicate.

`ListRefinement` then maps `Insert` and `Mark` to the step of `LinearSet` that
changes the set; the key is not there before the one and is there before the
other. Steps that leave a search or the loop of `contains()` with an answer are
answers of `LinearSet`: "in" because the node is unmarked at that moment, "out"
by `Witnessed`. `Unlink`, `Delete` and whatever happens to nodes that are not in
the list are invisible.

**Recovery of the list.** `ListInv` is about what is visible, a crash about what
memory may hold. `RecoveryInv` says of the memory what `recover()` needs:

- `Sound`: of every node in the list, or that a thread can have met there
  (`Live`), each content that memory may hold has the node's key and leads to
  another such node with a greater key, whichever of them a crash picks. A store
  to a node of the list adds one more content, and that leads upwards because
  everything a thread can have met does (`Traversable`). A node that is linked in
  becomes part of `Live` with what memory holds of it, so it must be flushed
  before (`Working`, last conjunct; without the flushes TLC refutes it).
- `Overwritten`: a content that memory may hold and that is not the visible one
  is of a store which some thread has written over and has yet to flush
  (`Unflushed`), and it leads to nodes which that very thread can have met. This
  is what makes reuse safe: the thread is in its call until it has flushed, so
  the reclamation keeps for it (`Protected`) all the nodes that memory may still
  lead to. When the call ends nothing of its own is left in the caches, and the
  nodes only it could have met go out of `Live`; they are given back and claimed
  for another value, and no line of a node in the list leads to them any more.
  It needs the flush of `remove()` to come before its `end_op()`, not before its
  `retire()` (lines 557-559).
- `Recovering`: there is a set of nodes like that, and those `recover()` has
  taken so far are in it (`Visited`), in order up to the one it stands on.
  `recover()` gives a marked node the next index of the first unmarked one
  behind it; which value that loses does not matter here, it leads upwards
  (`UnmarkedUp`, by induction along the run of marked nodes). So the next node it
  takes is above all it has taken, but for the tail, and what it has taken when
  it gets to the tail is a list in order (`RecoveredListStep`): `ListInv` starts
  again from there.
- `Redoing`, `AllDurable`: only thread 0 is at work on the logs, and there are
  logs and flushes only without eADR.

A crash during `recover()` leaves the set of `Recovering` as it is (`CrashStep`),
so that any number of them can follow each other; after it the program goes on, and
the machine may stop again at any step. What the theorems do not say:

- `RecoveryInvariance`, `RecoveryTypeCorrect` and `RecoveredAlways` are about
  `UnfailingSpec`. Without eADR a `recover()` that redoes a `remove()` as far as
  its `retire()` dies there (`SegFault`), and what follows is outside of them:
  `Overwritten` is then false, as the store that unlinked the node belongs to no
  thread any more, and violation 6 shows what comes of it. With eADR nothing is
  redone and `SegFault` cannot happen: `EadrInvariance` and `RecoveredWithEadr`
  are about `RecoverySpec`, with no such condition.
- A process that ends for another reason (`exit(1)`, a signal) and starts again
  on a machine that goes on leaves stores in the caches just so. `ListRecovery`
  has no such step. With eADR it would be no different from a crash.

**Model-checked only.**

- Liveness (`Termination`, `CallsReturn`, `RecoveryEnds`): the proof system does
  not handle fairness.
- `RecoveredCounters` (`recover()` leaves `tail_` no higher than `head_`): it
  does not hold for every value of the constants. With 2 producers and 1
  consumer, 2 slots and 2 tickets TLC finds a `recover()` that leaves `tail_` = 1
  above `head_` = 0: a producer that loaded `head_` = 0 announces it after the
  `push()` of the other has been popped, and `last_head_` falls back to 0. The
  origin is that of violation 2. `CleanRestart` and the durable refinements
  likewise hold of the instances of `recovery` only, as the violations show.
- `LogsApplied` and the refinement of `DurableSet` (`ImplementsLossy`): what
  `recover()` makes of the values, not only of the nodes. Without eADR they hold
  of one call at a time only (section 5).

## 5. Not modelled

Left out of the modelled parts:

- Widths. `recover()` of the queue keeps 64-bit positions in `int src, dst`
  (`p_rb_q_eadr.cc:212`); past 2^31 operations the comparison is of truncated
  values.
- Store buffers. The queue is argued in section 2. The reclamation is not safe
  on x86 in principle: the reservation (`ebr.h:225`) is a plain store without a
  fence, so it may become visible after the loads of the traversal. It takes a
  store that stays buffered while another thread retires a hundred nodes.
- Overlapping operations of the experimental and the transactional queue with a
  crash: the durable refinement fails (for tx see `recovery_tx`; for exp
  `run_tests.sh:119` renounces it), so the passing run has one at a time there.
- The values of the list without eADR and with two calls at a time, or with one
  at a time and two crashes of the program at work with a `SegFault` between
  them (the proofs are about its nodes): not even `ImplementsLossy` holds.
  The unlinking of a node by the search of one thread need not have reached
  memory when a `remove()` of another returns and clears its log
  (`linkedlist.c:416`).
- A restart of the process without eADR on a machine that goes on, other than
  after `SegFault`: the end by `exit(1)` is an action of `HarrisList` only.
- A crash during `init()` of the list. It flushes the address of the DRAM
  pointer `head` and not the node (`linkedlist.c:283`); until the first `add()`
  flushes that node, `head->next` may be 0 in memory.
- A transaction that aborts without a crash: no statement inside one can throw.
- `p_list_size()`, which only validation builds keep up to date; the magic
  numbers and the mapping of the files.

A remark on capacity: `__builtin_ffs()` takes an `int` (`bitmap.h:37`) and sees
half of each word, so `LL_SIZE / 2 - 2` values fit, not the `LL_SIZE - 2` that
`config.h:23` speaks of. The model has it (`FFS`), no property calls it wrong.
Another on the driver: the `CHECK_DATA` check looks for a mark (`X_MISSED`,
`test_common.h:56`) that consumers overwrite in a copy of their own (lines
110-115), so it reports a missed element even when each was consumed once;
`CheckData` does the same.

Parts not modelled:

- The list driver (`linkedlist/main.c`): measurement around a loop that chooses
  the next call, which is `Call` of `HarrisList`. Its barrier waits on a
  condition variable without a loop, so a spurious wake-up can start a thread
  early; the number of threads is not checked against `MAX_THREADS`.
- The micro-benchmarks, the timers and random numbers, the scripts and the
  workloads: they keep no state to be wrong about. `disable_prefetch` is a
  third-party tool.

What a next step could be: store buffers for `Ebr` and the queue as a variant of
their actions.
