----------------------------- MODULE ListRecovery -----------------------------
(***************************************************************************)
(* HarrisList with the machine stopping at any time, and recover() of      *)
(* linkedlist.c, in the two builds of the code.                            *)
(*                                                                         *)
(* With EADR_AVAILABLE what is visible is durable, and nothing is logged.  *)
(* Without it, a node (one cache line) that was written may or may not     *)
(* have reached memory until it is flushed and the thread has drained its  *)
(* flushes: file[l] is the set of contents that a crash may leave of line  *)
(* l.  add() and remove() log their request in a line of the thread, and   *)
(* recover() carries out the requests it finds.                            *)
(*                                                                         *)
(* The bitmap, the epochs and the lists of retired nodes are not durable.  *)
(***************************************************************************)
EXTENDS HarrisList

CONSTANTS Builds,      \* a subset of {"eadr", "adr"}
          MaxActive,   \* MaxActive[b]: bound of the model: calls at one time
          MaxCrashes,  \* MaxCrashes[b]: bound of the model: crashes
          MaxStops     \* MaxStops[b]: how many of the first may come while the
                       \* program runs (all may come in recover())

ASSUME RecoveryAssumption == /\ Builds \subseteq {"eadr", "adr"}
                             /\ MaxActive \in [Builds -> Nat]
                             /\ MaxCrashes \in [Builds -> Nat]
                             /\ MaxStops \in [Builds -> Nat]
                             /\ MAX_THREADS # 0  \* recover() has the id 0

VARIABLES
    build,    \* the build
    tlog,     \* tlog[t]: the request that is in_flight there, or Idle
    file,     \* file[i]: what memory may hold of node i
    logFile,  \* logFile[t]: what memory may hold of tlog[t]
    todo,     \* todo[t]: nodes t must see in memory before its next step
    todoLog,  \* todoLog[t]: and its log
    mode,     \* "run", "recover" (the list), "redo" (the logs), "redoing" (one)
    it,       \* iterator of recover(), then its i
    before,   \* history: the set when the program stopped
    pending,  \* history: the requests that were interrupted
    logged    \* history: those the logs held when recover() began

durVars == <<build, tlog, file, logFile, todo, todoLog>>
recVars == <<mode, it, before, pending, logged>>
VARIABLE crashes  \* so far

rvars == <<vars, durVars, recVars, crashes>>

adr == build = "adr"
Line(i) == <<data[i], next[i]>>

RecoveryInit ==
    /\ Init
    /\ build \in Builds
    /\ tlog = [t \in Threads |-> Idle]
    /\ file = [i \in Nodes |-> {Line(i)}]
    /\ logFile = [t \in Threads |-> {Idle}]
    /\ todo = [t \in Threads |-> {}]
    /\ todoLog = [t \in Threads |-> FALSE]
    /\ mode = "run"
    /\ it = 0
    /\ before = {}
    /\ pending = {}
    /\ logged = {}
    /\ crashes = 0

------------------------------------------------------------------------------
(* What steps leave in memory.                                              *)

Ready(t) == todo[t] = {} /\ ~ todoLog[t]

\* A store adds a content that memory may hold; with eADR it replaces it.
StoreNodes ==
    file' = [i \in Nodes |-> IF adr THEN file[i] \cup {Line(i)'} ELSE {Line(i)'}]

\* set_tlog_no_drain() and clear_tlog(): nothing with eADR.
StoreLog(t, r) ==
    /\ tlog' = [tlog EXCEPT ![t] = IF adr THEN r ELSE @]
    /\ logFile' = [logFile EXCEPT ![t] = IF adr THEN @ \cup {r} ELSE @]

\* Mutant of MustPersist: no node is flushed.
MustPersistLog(t, S, log) ==
    /\ todo' = [todo EXCEPT ![t] = {}]
    /\ todoLog' = [todoLog EXCEPT ![t] = adr /\ log]

\* persist() and persist_adr(): nothing that matters with eADR.
MustPersist(t, S, log) ==
    /\ todo' = [todo EXCEPT ![t] = IF adr THEN S ELSE @]
    /\ todoLog' = [todoLog EXCEPT ![t] = adr /\ log]

\* The flush and the drain; that of a remove() waits for its retire().
Persist(t) ==
    /\ ~ Ready(t) /\ ebr_pc[t] \in {"out", "in"}
    /\ file' = [i \in Nodes |-> IF i \in todo[t] THEN {Line(i)} ELSE file[i]]
    /\ logFile' = [logFile EXCEPT ![t] = IF todoLog[t] THEN {tlog[t]} ELSE @]
    /\ todo' = [todo EXCEPT ![t] = {}]
    /\ todoLog' = [todoLog EXCEPT ![t] = FALSE]
    /\ UNCHANGED <<vars, build, tlog, recVars, crashes>>

Keep == UNCHANGED <<build, recVars, crashes>>

\* A step of t that writes nodes, the nodes it flushes then, and no log.
Writes(t, S) == /\ Ready(t)
                /\ StoreNodes
                /\ MustPersist(t, S, FALSE)
                /\ UNCHANGED <<tlog, logFile>> /\ Keep

\* A step of t that writes nothing durable.
Reads(t) == Ready(t) /\ UNCHANGED durVars /\ Keep

------------------------------------------------------------------------------
(* The operations.                                                          *)

RCall(t) ==
    /\ mode = "run"
    /\ Cardinality({u \in Threads : pc[u] # "idle"}) < MaxActive[build]
    /\ Call(t) /\ Reads(t)

\* remove() logs its request, and waits until it is durable.
RStart(t) ==
    /\ Start(t) /\ Ready(t)
    /\ IF call[t].op = "remove"
       THEN StoreLog(t, call[t]) /\ MustPersist(t, {}, TRUE) /\ UNCHANGED file
       ELSE UNCHANGED <<tlog, file, logFile, todo, todoLog>>
    /\ Keep

\* add() logs its request when it has not found its value; new_p_node() drains.
LogAdd(t) ==
    /\ Ready(t)
    /\ IF pc'[t] = "find" THEN StoreLog(t, call[t]) ELSE UNCHANGED <<tlog, logFile>>
    /\ UNCHANGED <<file, todo, todoLog>> /\ Keep

RClaimBit(t) ==
    /\ ClaimBit(t) /\ Ready(t)
    /\ StoreNodes
    /\ MustPersist(t, {new_elem[t]}, TRUE)
    /\ UNCHANGED <<tlog, logFile>> /\ Keep

\* clear_tlog() before the return, if something was logged.
REnd(t) ==
    /\ End(t) /\ Ready(t)
    /\ IF call[t].op = "remove" \/ new_elem[t] # 0
       THEN StoreLog(t, Idle) /\ MustPersist(t, {}, TRUE) /\ UNCHANGED file
       ELSE UNCHANGED <<tlog, file, logFile, todo, todoLog>>
    /\ Keep

\* exit(1) is left to HarrisList: a thread that finds no node waits here for the
\* machine to stop.  recover() runs in a thread that has no list of retired
\* nodes: retire() fails there (SegFault).
RStep(t) ==
    \/ Persist(t) \/ RStart(t) \/ RClaimBit(t) \/ REnd(t)
    \/ Adjacent(t) /\ LogAdd(t)
    \/ Check(t) /\ LogAdd(t)
    \/ Unlink(t) /\ Writes(t, {left[t]})
    \/ Insert(t) /\ Writes(t, {left[t]})
    \/ Relink(t) /\ Writes(t, {new_elem[t]})
    \/ Mark(t) /\ Writes(t, {cur[t]})
    \/ Delete(t) /\ Writes(t, {})
    \/ ReclaimNode(t) /\ mode = "run" /\ Reads(t)
    \/ RetireRight(t) /\ mode = "run" /\ Writes(t, {left[t]})
    \/ EbrStep(t) /\ UNCHANGED durVars /\ Keep
    \/ Return(t) /\ Reads(t)
    \/ SearchHead(t) /\ Reads(t)
    \/ Walk(t) /\ Reads(t)
    \/ UnlinkFailed(t) /\ Reads(t)
    \/ ReclaimNext(t) /\ Reads(t)
    \/ FindBit(t) /\ Reads(t)
    \/ FindNextWord(t) /\ Reads(t)
    \/ ClaimFailed(t) /\ Reads(t)
    \/ InsertFailed(t) /\ Reads(t)
    \/ ReadNext(t) /\ Reads(t)
    \/ MarkFailed(t) /\ Reads(t)
    \/ DeleteFailed(t) /\ Reads(t)
    \/ Iterate(t) /\ Reads(t)

------------------------------------------------------------------------------
(* The end of the process, and p_list_new().                                *)

\* All that is in DRAM is lost; recover() starts with the head, and the bits of
\* the head and of the tail cleared.
Restart ==
    /\ mode' = "recover"
    /\ it' = HEAD
    /\ bm' = Nodes \ {HEAD, TAIL}
    /\ epoch' = 0
    /\ reservations' = [t \in Threads |-> UINT64_MAX]
    /\ counter' = [t \in Threads |-> 0]
    /\ retired' = [t \in Threads |-> {}]
    /\ ebr_pc' = [t \in Threads |-> "out"]
    /\ ebr_reg' = [t \in Threads |-> 0]
    /\ ebr_min' = [t \in Threads |-> 0]
    /\ ebr_i' = [t \in Threads |-> 0]
    /\ linked' = {}
    /\ reach' = [t \in Threads |-> {}]
    /\ detached' = [t \in Threads |-> {}]
    /\ owned' = [t \in Threads |-> {}]
    /\ pc' = [t \in Threads |-> "idle"]
    /\ call' = [t \in Threads |-> Idle]
    /\ result' = [t \in Threads |-> "none"]
    /\ cur' = [t \in Threads |-> 0]
    /\ cur_next' = [t \in Threads |-> 0]
    /\ left' = [t \in Threads |-> 0]
    /\ left_next' = [t \in Threads |-> 0]
    /\ right_idx' = [t \in Threads |-> 0]
    /\ new_elem' = [t \in Threads |-> 0]
    /\ word' = [t \in Threads |-> 0]
    /\ seen' = [t \in Threads |-> {}]
    /\ todo' = [t \in Threads |-> {}]
    /\ todoLog' = [t \in Threads |-> FALSE]
    /\ UNCHANGED <<calls, build>>

\* The machine stops: memory keeps one of the contents it may hold.
Torn == {i \in Nodes : Cardinality(file[i]) > 1}
Crash ==
    /\ crashes < MaxCrashes[build]
    /\ mode = "run" => crashes < MaxStops[build]
    /\ crashes' = crashes + 1
    /\ \E f \in [Torn -> UNION {file[i] : i \in Torn}] :
          /\ \A i \in Torn : f[i] \in file[i]
          /\ data' = [i \in Nodes |-> IF i \in Torn THEN f[i][1] ELSE data[i]]
          /\ next' = [i \in Nodes |-> IF i \in Torn THEN f[i][2] ELSE next[i]]
    /\ file' = [i \in Nodes |-> {Line(i)'}]
    /\ \E l \in [Threads -> Requests \cup {Idle}] :
          /\ \A t \in Threads : l[t] \in logFile[t]
          /\ tlog' = l
    /\ logFile' = [t \in Threads |-> {tlog'[t]}]
    /\ before' = IF mode = "run" THEN Set ELSE before
    /\ pending' = IF mode = "run" THEN {call[t] : t \in Threads} \ {Idle} ELSE pending
    /\ logged' = {tlog'[t] : t \in Threads} \ {Idle}
    /\ Restart

\* retire() of recover(): "retired" is NULL in a thread without set_thr_id().
\* The process dies, the machine goes on: what was visible is in the file.
SegFault ==
    /\ mode = "redoing"
    /\ pc[0] \in {"reclaim", "retire"} /\ Ready(0)
    /\ UNCHANGED <<data, next, tlog, file, logFile, before, pending, logged, crashes>>
    /\ Restart

------------------------------------------------------------------------------
(* recover(): the list.                                                     *)

\* The node that ends the run of marked nodes which begins at n.
Unmarked(n) ==
    LET at[k \in Nodes] == IF k = 0 THEN n
                           ELSE IF IsMarked(next[at[k - 1]]) THEN Unmark(next[at[k - 1]])
                           ELSE at[k - 1]
    IN  at[LL_SIZE - 1]

\* Mutant of RecoverNode: the nodes stay free.
RecoverNodeFree ==
    /\ mode = "recover" /\ it # TAIL /\ Ready(0)
    /\ LET n == Unmarked(it) IN
       IF IsMarked(next[it]) /\ n # TAIL
       THEN /\ next' = [next EXCEPT ![it] = next[n]]
            /\ MustPersist(0, {it}, FALSE)
       ELSE UNCHANGED <<next, todo, todoLog>>
    /\ it' = Unmark(next'[it])
    /\ UNCHANGED <<data, pc, call, result, searchVars, right_idx, new_elem, word,
                   calls, seen, nodeVars, build, tlog, logFile, mode,
                   before, pending, logged, crashes>>
    /\ StoreNodes

\* Mutant of RecoverNode: no way around the marked nodes before the tail.
RecoverNodeStuck ==
    /\ mode = "recover" /\ it # TAIL /\ Ready(0)
    /\ ~ (IsMarked(next[it]) /\ Unmarked(it) = TAIL)
    /\ bm' = bm \ {Unmark(next[it])}
    /\ it' = Unmark(next[it])
    /\ UNCHANGED <<listVars, ebrVars, useVars, build, tlog, file, logFile, todo,
                   todoLog, mode, before, pending, logged, crashes>>

\* A marked node gets the next of the first unmarked one.
RecoverNode ==
    /\ mode = "recover" /\ it # TAIL /\ Ready(0)
    /\ LET n == Unmarked(it) IN
       IF IsMarked(next[it]) /\ n # TAIL
       THEN /\ next' = [next EXCEPT ![it] = next[n]]
            /\ MustPersist(0, {it}, FALSE)
       ELSE UNCHANGED <<next, todo, todoLog>>
    /\ bm' = bm \ {Unmark(next'[it])}
    /\ it' = Unmark(next'[it])
    /\ UNCHANGED <<data, pc, call, result, searchVars, right_idx, new_elem, word,
                   calls, seen, ebrVars, useVars, build, tlog, logFile, mode,
                   before, pending, logged, crashes>>
    /\ StoreNodes

RecoveredList ==
    /\ mode = "recover" /\ it = TAIL /\ Ready(0)
    /\ mode' = IF adr THEN "redo" ELSE "run"
    /\ it' = 0
    /\ linked' = Reachable
    /\ UNCHANGED <<listVars, bm, ebrVars, reach, detached, owned, durVars, before,
                   pending, logged, crashes>>

------------------------------------------------------------------------------
(* recover(): the logs, without eADR.  The main thread has the id 0.         *)

\* Mutant of RedoCall: every request is taken for an add().
RedoAdds ==
    /\ mode = "redo" /\ it < MAX_THREADS
    /\ tlog[it] # Idle
    /\ \A t \in Threads : Ready(t)
    /\ mode' = "redoing"
    /\ pc' = [pc EXCEPT ![0] = "start"]
    /\ call' = [call EXCEPT ![0] = [op |-> "add", val |-> tlog[it].val]]
    /\ seen' = [seen EXCEPT ![0] = {Where(tlog[it].val, Set)}]
    /\ StartLoad(0)
    /\ UNCHANGED <<data, next, result, searchVars, right_idx, new_elem, word, calls,
                   durVars, it, before, pending, logged, crashes>>

RedoCall ==
    /\ mode = "redo" /\ it < MAX_THREADS
    /\ tlog[it] # Idle
    /\ \A t \in Threads : Ready(t)
    /\ mode' = "redoing"
    /\ pc' = [pc EXCEPT ![0] = "start"]
    /\ call' = [call EXCEPT ![0] = tlog[it]]
    /\ seen' = [seen EXCEPT ![0] = {Where(tlog[it].val, Set)}]
    /\ StartLoad(0)
    /\ UNCHANGED <<data, next, result, searchVars, right_idx, new_elem, word, calls,
                   durVars, it, before, pending, logged, crashes>>

\* "Clear it from the log", and the next one.
RedoClear ==
    /\ mode = "redoing" /\ pc[0] = "idle" /\ Ready(0)
    /\ mode' = "redo"
    /\ it' = it + 1
    /\ StoreLog(it, Idle)
    /\ todoLog' = [todoLog EXCEPT ![it] = TRUE]
    /\ UNCHANGED <<vars, build, file, todo, before, pending, logged, crashes>>

RedoSkip ==
    /\ mode = "redo" /\ it < MAX_THREADS /\ tlog[it] = Idle
    /\ \A t \in Threads : Ready(t)
    /\ it' = it + 1
    /\ UNCHANGED <<vars, durVars, mode, before, pending, logged, crashes>>

RedoDone ==
    /\ mode = "redo" /\ it = MAX_THREADS
    /\ \A t \in Threads : Ready(t)
    /\ mode' = "run"
    /\ it' = 0
    /\ UNCHANGED <<vars, durVars, before, pending, logged, crashes>>

Recovery == \/ SegFault \/ RecoverNode \/ RecoveredList
            \/ RedoCall \/ RedoClear \/ RedoSkip \/ RedoDone

\* Nothing is left to do within the bounds.
RFinished == /\ mode = "run"
             /\ \A t \in Threads : pc[t] = "idle" /\ calls[t] = MaxCalls[t] /\ Ready(t)
             /\ UNCHANGED rvars

\* While recover() is at work all threads are idle, but for thread 0 when it
\* carries out a request of the logs.
RecoveryNext == \/ Crash \/ Recovery \/ RFinished
                \/ \E t \in Threads : RCall(t) \/ RStep(t)

RecoverySpec == RecoveryInit /\ [][RecoveryNext]_rvars

\* As long as recover() does not come to retire() in what it carries out.
UnfailingSpec == RecoveryInit /\ [][RecoveryNext /\ ~ SegFault]_rvars

\* recover() gets on, as any program does.
RecoveryFairSpec ==
    RecoverySpec /\ WF_rvars(mode # "run" /\ (Recovery \/ \E t \in Threads : RStep(t)))

------------------------------------------------------------------------------
RecoveryTypeOK ==
    /\ ListTypeOK
    /\ build \in Builds
    /\ tlog \in [Threads -> Requests \cup {Idle}]
    /\ file \in [Nodes -> SUBSET ((Values \cup {0, INT_MIN, INT_MAX}) \X MarkedIndexes)]
    /\ logFile \in [Threads -> SUBSET (Requests \cup {Idle})]
    /\ \A i \in Nodes : Line(i) \in file[i]
    /\ \A t \in Threads : tlog[t] \in logFile[t]
    /\ todo \in [Threads -> SUBSET Nodes]
    /\ todoLog \in [Threads -> BOOLEAN]
    /\ mode \in {"run", "recover", "redo", "redoing"}
    /\ it \in IF mode = "recover" THEN Nodes ELSE 0 .. MAX_THREADS
    /\ before \subseteq Values
    /\ pending \subseteq Requests
    /\ logged \subseteq Requests
    /\ crashes \in Nat

\* Whatever a crash leaves of the nodes, recover() makes a sorted list of it
\* that ends, and a bitmap in which the nodes of that list, and no others, are
\* taken; and so it stays.
RecoveredWell == mode = "run" => Linked /\ NodeOwners

\* What the threads see of the list, and of a crash.
Hidden(f, x) == IF mode = "run" THEN f ELSE [t \in Threads |-> x]
Stopped(f, x) == IF mode = "run" THEN f ELSE x
Strict == INSTANCE DurableSet WITH
            Lossy <- FALSE, Callers <- Threads, up <- mode = "run",
            set <- Stopped(Set, before), pending <- Stopped({}, pending),
            call <- Hidden(call, Idle), seen <- Hidden(seen, {}),
            result <- Hidden(result, "none")
Loose == INSTANCE DurableSet WITH
            Lossy <- TRUE, Callers <- Threads, up <- mode = "run",
            set <- Stopped(Set, before), pending <- Stopped({}, pending),
            call <- Hidden(call, Idle), seen <- Hidden(seen, {}),
            result <- Hidden(result, "none")

\* "Iterate over entire list and garbage collect deleted nodes"
\* (linkedlist.c:234): after a crash the set is what it was, but for the values
\* of interrupted calls.
ImplementsDurable == Strict!DurableSetSpec

\* What is true of it: values above that of an interrupted remove() may be lost.
ImplementsLossy == Loose!DurableSetSpec

\* "Apply in-flight updates from per-thread logs" (linkedlist.c:257): a request
\* whose log was durable has been carried out when recover() returns, whether
\* or not it had been before and however often recover() itself is stopped.
LogsApplied ==
    [][mode # "run" /\ mode' = "run" =>
          \A r \in logged : r.val \in Set' <=> r.op = "add"]_rvars

\* recover() ends: no crash leaves it a list that runs in a circle, or a log it
\* fails on for ever.
RecoveryEnds == mode # "run" ~> mode = "run"
==============================================================================
