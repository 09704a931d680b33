------------------------------ MODULE QueueTest ------------------------------
(***************************************************************************)
(* The program around the ring buffer: run_test() of test_common.h, built  *)
(* with CHECK_DATA.  Main starts the producers and then the consumers; the *)
(* producers share out the elements of x and push each once, the consumers *)
(* pop until the shared counter n has been raised N * PRODUCERS times; main *)
(* joins them all and looks for elements that were skipped.                *)
(*                                                                         *)
(* Here the number of operations is the program's own: MaxTicket cuts      *)
(* nothing off.                                                            *)
(***************************************************************************)
EXTENDS LockFreeQueue

CONSTANT N                 \* elements pushed by each producer

PRODUCERS == NProducers
CONSUMERS == NConsumers

\* The elements of x, by their index.
ASSUME TestAssumption == /\ N \in Nat
                         /\ CONSUMERS # 0
                         /\ MaxTicket = N * PRODUCERS
                         /\ Items = 0 .. N * PRODUCERS - 1

VARIABLES
    started,     \* threads main has started: producers first
    loop_i,      \* loop_i[p]: the next element producer p pushes
    n,           \* raised by one for each pop() that is to be made
    at,          \* at[c]: where consumer c is in its loop
    x,           \* x[i].d_[0]: "EMPTY", "MISSED"
    received,    \* history: how often element i was popped
    res          \* what main found, "none" before all threads are joined

testVars == <<started, loop_i, n, at, x, received, res>>

TestInit == /\ Init
            /\ started = 0
            /\ loop_i = [p \in Producers |-> p]
            /\ n = 0
            /\ at = [c \in Consumers |-> "test"]
            /\ x = [i \in Items |-> "EMPTY"]
            /\ received = [i \in Items |-> 0]
            /\ res = "none"

ProducerEnded(p) == push_pc[p] = "idle" /\ loop_i[p] >= N * PRODUCERS
ConsumerEnded(c) == at[c] = "end"
AllEnded == /\ \A p \in Producers : ProducerEnded(p)
            /\ \A c \in Consumers : ConsumerEnded(c)

StartThread ==
    /\ started < PRODUCERS + CONSUMERS
    /\ started' = started + 1
    /\ UNCHANGED <<vars, loop_i, n, at, x, received, res>>

\* Marks the next element as pushed and not yet consumed, and pushes it.
ProducerLoop(p) ==
    /\ p < started
    /\ loop_i[p] < N * PRODUCERS
    /\ PushCall(p, loop_i[p])
    /\ x' = [x EXCEPT ![loop_i[p]] = "MISSED"]
    /\ loop_i' = [loop_i EXCEPT ![p] = @ + PRODUCERS]
    /\ UNCHANGED <<started, n, at, received, res>>

ProducerPush(p) == PushStep(p) /\ UNCHANGED testVars

\* "while (n.fetch_add(1) < N * PRODUCERS)".
ConsumerTest(c) ==
    /\ PRODUCERS + c < started
    /\ at[c] = "test"
    /\ n' = n + 1
    /\ IF n < N * PRODUCERS
       THEN /\ PopCall(c)
            /\ at' = [at EXCEPT ![c] = "use"]
       ELSE /\ at' = [at EXCEPT ![c] = "end"]
            /\ UNCHANGED vars
    /\ UNCHANGED <<started, loop_i, x, received, res>>

ConsumerPop(c) == PopStep(c) /\ UNCHANGED testVars

\* pop() has returned: the mark of the popped element is checked and written
\* over, in the consumer's own copy.
ConsumerUse(c) ==
    /\ at[c] = "use" /\ pop_pc[c] = "idle"
    /\ at' = [at EXCEPT ![c] = "test"]
    /\ received' = [i \in Items |-> IF i = buffer[c] THEN received[i] + 1
                                                     ELSE received[i]]
    /\ buffer' = [buffer EXCEPT ![c] = NoItem]
    /\ UNCHANGED <<shared, pushLocal, pop_pc, pop_reg, pop_min, pop_i, started,
                   loop_i, n, x, res>>

\* Main has joined every thread and looks at x up to the first skipped element.
CheckData ==
    /\ res = "none"
    /\ started = PRODUCERS + CONSUMERS
    /\ AllEnded
    /\ LET skipped == {i \in Items : x[i] \in {"EMPTY", "MISSED"}}
       IN  res' = IF skipped = {} THEN "Passed"
                  ELSE x[CHOOSE i \in skipped : \A j \in skipped : i <= j]
    /\ UNCHANGED <<vars, started, loop_i, n, at, x, received>>

Producer(p) == ProducerLoop(p) \/ ProducerPush(p)
Consumer(c) == ConsumerTest(c) \/ ConsumerPop(c) \/ ConsumerUse(c)
Main        == StartThread \/ CheckData

\* main() has returned.
Exited == res # "none" /\ UNCHANGED <<vars, testVars>>

TestNext == \/ Main \/ Exited
            \/ \E p \in Producers : Producer(p)
            \/ \E c \in Consumers : Consumer(c)

TestSafe == TestInit /\ [][TestNext]_<<vars, testVars>>

\* Each thread is a thread of the operating system, which runs every one of
\* them again and again: no lock is held, so none is ever blocked.
TestSpec == /\ TestSafe
            /\ WF_<<vars, testVars>>(Main)
            /\ \A p \in Producers : WF_<<vars, testVars>>(Producer(p))
            /\ \A c \in Consumers : WF_<<vars, testVars>>(Consumer(c))

\* The same, but producer 0 may be suspended for good at any point.
StalledSpec == /\ TestSafe
               /\ WF_<<vars, testVars>>(Main)
               /\ \A p \in Producers \ {0} : WF_<<vars, testVars>>(Producer(p))
               /\ \A c \in Consumers : WF_<<vars, testVars>>(Consumer(c))

------------------------------------------------------------------------------
\* No element is popped twice, and when the threads are joined each has been
\* popped once: the counter n (test_common.h:109) asks for as many pops as there are
\* elements, and the queue loses and repeats none of them.
ExactlyOnce == /\ \A i \in Items : received[i] <= 1
               /\ res # "none" => \A i \in Items : received[i] = 1

\* The assertion of Consumer (test_common.h:114): what pop() leaves in the consumer's
\* buffer is an element a producer has marked, never what was there before and
\* never memory of a slot nobody has written.
PoppedIsMissed == \A c \in Consumers : at[c] = "use" /\ pop_pc[c] = "idle"
                                            => buffer[c] \in Items

\* All threads finish: no pop() waits for an element nobody will push, no
\* push() for a slot nobody will empty, and the cached bounds, which slower
\* threads set back, catch up.
Termination == <>(res # "none")

\* The "lock-free" queue (p_rb_q_eadr.cc:61): a consumer is not kept from an
\* element whose push() has returned by a thread that does not run.
PushedIsPopped ==
    \A c \in Consumers : \A k \in Positions :
        /\ PopHolds(c) /\ PopTicket(c) = k
        /\ k < head_ /\ ~(\E p \in Producers : PushHolds(p) /\ PushTicket(p) = k)
        ~> pop_pc[c] = "idle"
==============================================================================
