------------------------------ MODULE AdrQueue -------------------------------
(***************************************************************************)
(* The other two persistent builds of the ring buffer, for machines whose  *)
(* caches are lost in a crash (ADR): p_rb_q_adr.cc ("tx"), where push(),    *)
(* pop() and recover() run in libpmemobj transactions, and p_rb_q_exp.cc   *)
(* ("exp"), which flushes its stores one by one.  Apart from that their    *)
(* push(), pop() and recover() are line by line those of the eADR build,    *)
(* so the actions here are those of LockFreeQueue and QueueRecovery with   *)
(* what each step makes durable.                                           *)
(*                                                                         *)
(* A store may leave the cache at any time, and has left it when a flush   *)
(* of its line is followed by a fence.  Flush and fence do nothing other   *)
(* threads can see: they are part of the next store of the thread.         *)
(***************************************************************************)
EXTENDS QueueRecovery

CONSTANT Builds  \* those of "eadr", "tx" and "exp" an instance looks at

VARIABLES
    build,                \* the program that runs
    file,                 \* file[w]: the values word w may have after a crash
    push_pm, pop_pm,      \* exp: "drain" before the fence that follows a new
                          \* ticket, "return" before the last one, else "no"
    undo_head, undo_tail  \* tx: the head_ (tail_) in the undo log of the
                          \* thread's transaction, ULONG_MAX if none is open

pmVars  == <<push_pm, pop_pm, undo_head, undo_tail>>
adrVars == <<allVars, build, file, pmVars>>

------------------------------------------------------------------------------
(* Memory.  Every word here has a cache line of its own (QInfo, ThrPos); the *)
(* cached bounds are left out, recover() overwrites them before it reads.   *)

HEAD == <<"head_", 0>>
TAIL == <<"tail_", 0>>
SlotWords == {"slot"} \X Slots
Words == {HEAD, TAIL} \cup ({"head", "pos_push"} \X Producers)
                      \cup ({"tail", "pos_pop"} \X Consumers) \cup SlotWords

Value(w) == CASE w = HEAD -> head_
              [] w = TAIL -> tail_
              [] w[1] = "head" -> thr_head[w[2]]
              [] w[1] = "pos_push" -> pos_push[w[2]]
              [] w[1] = "tail" -> thr_tail[w[2]]
              [] w[1] = "pos_pop" -> pos_pop[w[2]]
              [] w[1] = "slot" -> ptr_array_[w[2]]

\* The words of W are in memory after this step; every other store may be.
Cached(W) == file' = [w \in Words |-> IF w \in W THEN {Value(w)'}
                                      ELSE file[w] \cup {Value(w)'}]

\* The words of W are in memory, and no other store is to survive a crash.
Persisted(W) == file' = [w \in Words |-> IF w \in W THEN {Value(w)'}
                                                    ELSE file[w]]

PushOpen(p) == undo_head[p] # ULONG_MAX
PopOpen(c)  == undo_tail[c] # ULONG_MAX

\* Opening the pool rolls open transactions back, in no particular order.
AfterCrash(w) ==
    CASE w = HEAD /\ (\E p \in Producers : PushOpen(p)) ->
            {undo_head[p] : p \in {p \in Producers : PushOpen(p)}}
      [] w = TAIL /\ (\E c \in Consumers : PopOpen(c)) ->
            {undo_tail[c] : c \in {c \in Consumers : PopOpen(c)}}
      [] OTHER -> file[w]

\* The constructors: a new queue, all of it written to memory.
AdrInit == /\ RecInit
           /\ build \in Builds
           /\ file = [w \in Words |-> {Value(w)}]
           /\ push_pm = [p \in Producers |-> "no"]
           /\ pop_pm = [c \in Consumers |-> "no"]
           /\ undo_head = [p \in Producers |-> ULONG_MAX]
           /\ undo_tail = [c \in Consumers |-> ULONG_MAX]

------------------------------------------------------------------------------
(* push() and pop(), without and with the scan.                             *)

\* The ticket is withdrawn, but what comes after that is not done yet.
PushReturning(p) ==
    push_pc[p] = "idle" /\ (PushOpen(p) \/ push_pm[p] = "return")
PopReturning(c) ==
    pop_pc[c] = "idle" /\ (PopOpen(c) \/ pop_pm[c] = "return")

FindLastTail(p) == PushFind(p) \/ PushScan(p)
PushOwn(p) == \/ PushLoad(p)  \/ PushAnnounce(p) \/ PushTake(p)
              \/ PushRecord(p) \/ PushCheck(p)   \/ PushUpdate(p)
              \/ PushCopy(p)  \/ PushPos(p)      \/ PushRelease(p)

FindLastHead(c) == PopFind(c) \/ PopScan(c)
PopOwn(c) == \/ PopLoad(c)  \/ PopAnnounce(c) \/ PopTake(c)
             \/ PopRecord(c) \/ PopCheck(c)   \/ PopUpdate(c)
             \/ PopCopy(c)  \/ PopPos(c)      \/ PopRelease(c)

Up(b) == rec_pc = "up" /\ build = b /\ UNCHANGED <<recVars, build>>

Call == /\ rec_pc = "up"
        /\ \/ \E p \in Producers, x \in Items :
                 PushCall(p, x) /\ ~ PushReturning(p)
           \/ \E c \in Consumers : PopCall(c) /\ ~ PopReturning(c)
        /\ UNCHANGED <<recVars, build, file, pmVars>>

\* eADR: a store is durable when it is made.
EadrPush(p) == Up("eadr") /\ PushStep(p) /\ Persisted(Words) /\ UNCHANGED pmVars
EadrPop(c)  == Up("eadr") /\ PopStep(c)  /\ Persisted(Words) /\ UNCHANGED pmVars

------------------------------------------------------------------------------
(* p_rb_q_exp.cc.                                                           *)

ExpFindLastTail(p) == /\ Up("exp")
                      /\ FindLastTail(p)
                      /\ UNCHANGED <<file, pmVars>>

ExpFindLastHead(c) == /\ Up("exp")
                      /\ FindLastHead(c)
                      /\ UNCHANGED <<file, pmVars>>

\* Mutant of ExpPushFenced: the announcement is not made durable first.
ExpPushUnfenced(p) ==
    IF push_pc[p] = "release"
    THEN {<<"slot", Slot(thr_head[p])>>, <<"pos_push", p>>} ELSE {}

\* What the fences before the next store of p have put in memory.
ExpPushFenced(p) ==
    CASE push_pc[p] = "take" -> {<<"head", p>>}
      [] push_pc[p] = "release" -> {<<"slot", Slot(thr_head[p])>>, <<"pos_push", p>>}
      [] OTHER -> {}

\* push(): a step of it other than the fences below.
ExpPush(p) ==
    /\ Up("exp")
    /\ push_pm[p] = "no"
    /\ PushOwn(p)
    /\ Cached(ExpPushFenced(p))
    /\ push_pm' = [push_pm EXCEPT ![p] = CASE push_pc[p] = "record" -> "drain"
                                           [] push_pc[p] = "release" -> "return"
                                           [] OTHER -> "no"]
    /\ UNCHANGED <<pop_pm, undo_head, undo_tail>>

\* "pmem_drain()" after the ticket, and the last "pmem_persist()".
ExpPushFence(p) ==
    /\ Up("exp")
    /\ push_pm[p] # "no"
    /\ UNCHANGED vars
    /\ Cached(IF push_pm[p] = "drain" THEN {HEAD, <<"head", p>>} ELSE {<<"head", p>>})
    /\ push_pm' = [push_pm EXCEPT ![p] = "no"]
    /\ UNCHANGED <<pop_pm, undo_head, undo_tail>>

ExpPopFenced(c) ==
    CASE pop_pc[c] = "take" -> {<<"tail", c>>}
      [] pop_pc[c] = "release" -> {<<"pos_pop", c>>}
      [] OTHER -> {}

ExpPop(c) ==
    /\ Up("exp")
    /\ pop_pm[c] = "no"
    /\ PopOwn(c)
    /\ Cached(ExpPopFenced(c))
    /\ pop_pm' = [pop_pm EXCEPT ![c] = CASE pop_pc[c] = "record" -> "drain"
                                         [] pop_pc[c] = "release" -> "return"
                                         [] OTHER -> "no"]
    /\ UNCHANGED <<push_pm, undo_head, undo_tail>>

ExpPopFence(c) ==
    /\ Up("exp")
    /\ pop_pm[c] # "no"
    /\ UNCHANGED vars
    /\ Cached(IF pop_pm[c] = "drain" THEN {TAIL, <<"tail", c>>} ELSE {<<"tail", c>>})
    /\ pop_pm' = [pop_pm EXCEPT ![c] = "no"]
    /\ UNCHANGED <<push_pm, undo_head, undo_tail>>

\* recover(): positions and slots are written through one by one, the counters
\* together, and the announcements at the end.
ExpRecFenced ==
    CASE rec_pc \in {"push_copy", "pop_copy"} -> SlotWords
      [] rec_pc = "push_pos" -> {<<"pos_push", elems[it][2]>>}
      [] rec_pc = "pop_pos" -> {<<"pos_pop", elems[it][2]>>}
      [] rec_pc = "heads" -> {HEAD, TAIL}
      [] rec_pc = "tails" /\ i = NConsumers -> Words
      [] OTHER -> {}

ExpRecover == /\ build = "exp"
              /\ RecStep
              /\ Cached(ExpRecFenced)
              /\ UNCHANGED <<build, pmVars>>

------------------------------------------------------------------------------
(* p_rb_q_adr.cc.  The fields are of type p<>: what a transaction stores in  *)
(* them is visible at once and undone by a crash before the transaction     *)
(* commits.  Slots are copied without the undo log.                         *)

TxFindLastTail(p) == Up("tx") /\ FindLastTail(p) /\ UNCHANGED <<file, pmVars>>
TxFindLastHead(c) == Up("tx") /\ FindLastHead(c) /\ UNCHANGED <<file, pmVars>>

\* "tp.head = qi_->head_" before the transaction, flushed but not fenced.
TxPushAnnounce(p) == /\ Up("tx")
                     /\ push_pc[p] \in {"load", "announce"}
                     /\ PushOwn(p)
                     /\ Cached({})
                     /\ UNCHANGED pmVars

\* The transaction starts: "qi_->head_.get_rw()" writes head_ to its undo log.
TxPushBegin(p) ==
    /\ Up("tx")
    /\ push_pc[p] = "take" /\ ~ PushOpen(p)
    /\ undo_head' = [undo_head EXCEPT ![p] = head_]
    /\ UNCHANGED vars
    /\ Persisted({<<"head", p>>})
    /\ UNCHANGED <<push_pm, pop_pm, undo_tail>>

\* The body of the transaction.
TxPush(p) == /\ Up("tx")
             /\ PushOpen(p)
             /\ PushOwn(p)
             /\ Persisted(IF push_pc[p] = "copy" THEN {<<"slot", Slot(thr_head[p])>>}
                                                 ELSE {})
             /\ UNCHANGED pmVars

\* It commits, and push() returns.
TxPushCommit(p) ==
    /\ Up("tx")
    /\ PushReturning(p)
    /\ undo_head' = [undo_head EXCEPT ![p] = ULONG_MAX]
    /\ UNCHANGED vars
    /\ Persisted({HEAD, <<"head", p>>, <<"pos_push", p>>})
    /\ UNCHANGED <<push_pm, pop_pm, undo_tail>>

TxPopAnnounce(c) == /\ Up("tx")
                    /\ pop_pc[c] \in {"load", "announce"}
                    /\ PopOwn(c)
                    /\ Cached({})
                    /\ UNCHANGED pmVars

TxPopBegin(c) ==
    /\ Up("tx")
    /\ pop_pc[c] = "take" /\ ~ PopOpen(c)
    /\ undo_tail' = [undo_tail EXCEPT ![c] = tail_]
    /\ UNCHANGED vars
    /\ Persisted({<<"tail", c>>})
    /\ UNCHANGED <<push_pm, pop_pm, undo_head>>

TxPop(c) == /\ Up("tx")
            /\ PopOpen(c)
            /\ PopOwn(c)
            /\ Persisted({})
            /\ UNCHANGED pmVars

TxPopCommit(c) ==
    /\ Up("tx")
    /\ PopReturning(c)
    /\ undo_tail' = [undo_tail EXCEPT ![c] = ULONG_MAX]
    /\ UNCHANGED vars
    /\ Persisted({TAIL, <<"tail", c>>, <<"pos_pop", c>>})
    /\ UNCHANGED <<push_pm, pop_pm, undo_head>>

\* recover() is one transaction, which init() starts and commits.
TxRecover == /\ build = "tx"
             /\ RecStep
             /\ Persisted(IF rec_pc = "tails" /\ i = NConsumers THEN Words
                                                                ELSE SlotWords)
             /\ UNCHANGED <<build, pmVars>>

------------------------------------------------------------------------------
(* A crash: of each word, one of the values it may have.                    *)

\* LiveLog, with the tickets of threads that have yet to return.
AdrPusher(k) == LET P == {p \in Producers : PushReturning(p) /\ pos_push[p] = k}
                IN  IF P = {} THEN Pusher(k) ELSE CHOOSE p \in P : TRUE
AdrPopper(k) == LET C == {c \in Consumers : PopReturning(c) /\ pos_pop[c] = k}
                IN  IF C = {} THEN Popper(k) ELSE CHOOSE c \in C : TRUE

AdrLog ==
    LET leaving == {c \in Consumers : PopReturning(c)}
        tickets == SetToSortSeq(Live \cup {pos_pop[c] : c \in leaving}, <)
        Entry(k) == [item |-> IF AdrPopper(k) \in leaving THEN buffer[AdrPopper(k)]
                                                          ELSE ItemOf(k),
                     by   |-> AdrPusher(k),
                     to   |-> AdrPopper(k)]
    IN  [n \in DOMAIN tickets |-> Entry(tickets[n])]

Survivors(field, S) ==
    {f \in [S -> UNION {AfterCrash(<<field, s>>) : s \in S}] :
        \A s \in S : f[s] \in AfterCrash(<<field, s>>)}

PowerFailure ==
    /\ LocalsLost(AdrLog)
    /\ head_' \in AfterCrash(HEAD)
    /\ tail_' \in AfterCrash(TAIL)
    /\ thr_head' \in Survivors("head", Producers)
    /\ pos_push' \in Survivors("pos_push", Producers)
    /\ thr_tail' \in Survivors("tail", Consumers)
    /\ pos_pop' \in Survivors("pos_pop", Consumers)
    /\ ptr_array_' \in Survivors("slot", Slots)
    /\ Persisted(Words)
    /\ push_pm' = [p \in Producers |-> "no"]
    /\ pop_pm' = [c \in Consumers |-> "no"]
    /\ undo_head' = [p \in Producers |-> ULONG_MAX]
    /\ undo_tail' = [c \in Consumers |-> ULONG_MAX]
    /\ UNCHANGED <<last_head_, last_tail_, build>>

EadrRecover == /\ build = "eadr"
               /\ RecStep
               /\ Persisted(Words)
               /\ UNCHANGED <<build, pmVars>>

AdrPushStep(p) == \/ EadrPush(p) \/ ExpFindLastTail(p) \/ ExpPush(p)
                  \/ ExpPushFence(p) \/ TxFindLastTail(p) \/ TxPushAnnounce(p)
                  \/ TxPushBegin(p) \/ TxPush(p) \/ TxPushCommit(p)

AdrPopStep(c) == \/ EadrPop(c) \/ ExpFindLastHead(c) \/ ExpPop(c)
                 \/ ExpPopFence(c) \/ TxFindLastHead(c) \/ TxPopAnnounce(c)
                 \/ TxPopBegin(c) \/ TxPop(c) \/ TxPopCommit(c)

AdrRun == \/ \E p \in Producers : AdrPushStep(p)
          \/ \E c \in Consumers : AdrPopStep(c)

AdrNext == Call \/ AdrRun \/ PowerFailure \/ EadrRecover \/ ExpRecover \/ TxRecover

AdrSpec == AdrInit /\ [][AdrNext]_adrVars

------------------------------------------------------------------------------
AdrDurable == INSTANCE DurableFifo WITH
    log <- IF rec_pc = "up" THEN AdrLog ELSE before,
    pushing <- [p \in Producers |-> IF PushReturning(p) THEN "done" ELSE Pushing[p]],
    popping <- [c \in Consumers |-> IF PopReturning(c) THEN "done" ELSE Popping[c]],
    buffer <- Given,
    up <- (rec_pc = "up")

\* What a crash leaves in memory is enough for recover(): each of the three
\* persistent builds restores the queue that the calls which had returned made,
\* in order, with or without the one that was cut short.
AdrImplementsDurableFifo == AdrDurable!Spec
==============================================================================
