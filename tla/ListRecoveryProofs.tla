-------------------------- MODULE ListRecoveryProofs --------------------------
(***************************************************************************)
(* ListRecovery for any number of threads, nodes, values, calls and        *)
(* crashes, of the program at work and of recover(), with nodes that are   *)
(* given back and reused in between: whatever the machine leaves in memory *)
(* when it stops, recover() makes a list in order of it and a bitmap that  *)
(* fits.                                                                   *)
(*                                                                         *)
(* That is so as long as recover() does not die in retire() (UnfailingSpec *)
(* leaves SegFault out), which with eADR it cannot.  A process that ends   *)
(* by exit(1), and starts again on a machine that goes on, is left out of  *)
(* ListRecovery altogether.                                                *)
(***************************************************************************)
EXTENDS ListRecoveryInv, HarrisListInvProofs

------------------------------------------------------------------------------
(* The list in these steps.                                                 *)

\* What HarrisListInvProofs and EbrProofs say of a step.
LEMMA ListStep ==
    ASSUME ListInv, EbrInv, [Next]_vars
    PROVE  ListInv' /\ EbrInv'
<1>1. EbrTypeOK
  BY DEF EbrInv
<1>2. [EbrNext]_nodeVars
  BY <1>1, StepIsEbr DEF Next, Finished, vars
<1>3. EbrInv'
  BY <1>2, StepEbrInv
<1> QED BY <1>3, StepListInv

LEMMA RStepIs ==
    ASSUME NEW t \in Threads, RStep(t) \/ RCall(t)
    PROVE  [Next]_vars
<1>1. CASE RCall(t)
  BY <1>1 DEF RCall, Next
<1>2. CASE Persist(t)
  BY <1>2 DEF Persist
<1>3. CASE RStep(t) /\ ~ Persist(t)
  <2>1. Step(t)
    BY <1>3 DEF RStep, RStart, RClaimBit, REnd, Step, EbrStep
  <2> QED BY <2>1 DEF Next
<1> QED BY <1>1, <1>2, <1>3

LEMMA MainThread == 0 \in Threads /\ MAX_THREADS \in Nat
BY EbrAssumption, RecoveryAssumption DEF Threads

------------------------------------------------------------------------------
(* The nodes in the list, and those a thread can have met there.            *)

LEMMA InLive ==
    /\ linked \subseteq Live /\ \A t \in Threads : reach[t] \subseteq Live
    /\ linked' \subseteq Live' /\ \A t \in Threads : reach'[t] \subseteq Live'
BY DEF Live

LEMMA LiveKept ==
    ASSUME UNCHANGED <<linked, reach>>
    PROVE  Live' = Live
BY DEF Live

\* They are taken, nobody's own, and lead on upwards.
LiveFits ==
    /\ HEAD \in linked /\ TAIL \in linked /\ Live \subseteq Nodes
    /\ data[HEAD] = INT_MIN /\ data[TAIL] = INT_MAX
    /\ next[TAIL] = LL_SIZE /\ ~ IsMarked(next[HEAD])
    /\ \A n \in Live : n \notin bm /\ \A u \in Threads : n \notin owned[u]
    /\ \A i \in Live \ {TAIL} : Succ(i) \in Live /\ data[i] < data[Succ(i)]

LEMMA LiveNow == ListInv /\ EbrInv => LiveFits
<1> SUFFICES ASSUME ListInv, EbrInv PROVE LiveFits
  OBVIOUS
<1>1. /\ HEAD \in linked /\ TAIL \in linked /\ linked \subseteq Nodes
      /\ data[HEAD] = INT_MIN /\ data[TAIL] = INT_MAX
      /\ next[TAIL] = LL_SIZE /\ ~ IsMarked(next[HEAD])
      /\ \A i \in linked \ {TAIL} : Succ(i) \in linked /\ data[i] < data[Succ(i)]
  BY DEF ListInv, InOrder, SortedList, Succ, EbrInv, EbrTypeOK
<1>2. ASSUME NEW n \in Live
      PROVE  /\ n \in Nodes /\ n \notin bm /\ \A u \in Threads : n \notin owned[u]
             /\ n # TAIL => Succ(n) \in Live /\ data[n] < data[Succ(n)]
  <2>1. n \in linked \/ \E t \in Threads : n \in reach[t]
    BY <1>2 DEF Live
  <2>2. n \in Nodes
    BY <1>1, <2>1 DEF EbrInv, EbrTypeOK
  <2>3. n \in linked \/ \E u \in Threads : n \in detached[u] \cup RetiredIdx(u)
    BY <2>1 DEF EbrInv, MetNodes
  <2>4. n \notin bm /\ \A u \in Threads : n \notin owned[u]
    BY <2>2, <2>3 DEF EbrInv, NodeOwners
  <2>5. CASE n \in linked
    BY <1>1, <2>2, <2>4, <2>5, InLive
  <2>6. ASSUME NEW t \in Threads, n \in reach[t]
        PROVE  n # TAIL => Succ(n) \in Live /\ data[n] < data[Succ(n)]
    <3>1. InOp(t)
      BY <2>6 DEF EbrInv, EpochsPast
    <3>2. n # TAIL => Succ(n) \in reach[t] /\ data[n] < data[Succ(n)]
      BY <2>6, <3>1 DEF ListInv, Traversable
    <3> QED BY <3>2, InLive
  <2> QED BY <2>1, <2>2, <2>4, <2>5, <2>6
<1> QED BY <1>1, <1>2 DEF LiveFits

LEMMA LiveNext == ListInv' /\ EbrInv' => LiveFits'
<1>1. (ListInv /\ EbrInv => LiveFits)'
  BY LiveNow, PTL
<1> QED BY <1>1

------------------------------------------------------------------------------
(* The kinds of steps.                                                      *)

\* What t leaves alone of the others.
OthersKeep(t) == \A u \in Threads \ {t} : pc'[u] = pc[u] /\ left'[u] = left[u]

\* A step of t that may log a request r and stores no node.
Logs(t) ==
    /\ Ready(t) /\ pc[t] # "retire"
    /\ UNCHANGED <<data, next, linked, file>> /\ Keep /\ OthersKeep(t)
    /\ \A u \in Threads \ {t} : reach'[u] = reach[u]
    /\ reach'[t] \subseteq linked \cup reach[t]
    /\ \A u \in Threads : owned'[u] \subseteq owned[u]
    /\ \/ UNCHANGED <<tlog, logFile, todo, todoLog>>
       \/ \E r \in Requests \cup {Idle} :
             /\ StoreLog(t, r)
             /\ MustPersist(t, {}, TRUE) \/ UNCHANGED <<todo, todoLog>>

\* A step of t inside retire().
Counts(t) == EbrStep(t) /\ UNCHANGED durVars /\ Keep

\* A step of t that writes the node x and has to flush S.
Stores(t, x, S) ==
    /\ Ready(t)
    /\ x \in Nodes /\ S \subseteq Nodes
    /\ StoreNodes
    /\ \E log \in BOOLEAN : MustPersist(t, S, log)
    /\ UNCHANGED <<tlog, logFile>> /\ Keep /\ OthersKeep(t)
    /\ \A i \in Nodes \ {x} : Line(i)' = Line(i)
    /\ InOp(t)'

\* A node it has met in the list; it is going to flush it.
StoresPublic(t, x, S) ==
    /\ Stores(t, x, S)
    /\ x \in reach[t] /\ data'[x] = data[x]
    /\ \A u \in Threads : reach[u] \subseteq reach'[u] /\ owned'[u] \subseteq owned[u]
    /\ Live \subseteq Live' /\ Live' \ Live \subseteq owned[t] \cap reach'[t]
    /\ Unflushed(t) \subseteq {x}
    /\ adr => x \in Unflushed(t)'

\* Its own.
StoresPrivate(t, x, S) ==
    /\ Stores(t, x, S) /\ pc[t] # "retire"
    /\ UNCHANGED <<linked, reach>>
    /\ x \notin Live /\ x \in S
    /\ \A u \in Threads \ {t} : x \notin owned[u] /\ owned'[u] \subseteq owned[u]
    /\ owned'[t] \subseteq owned[t] \cup {x}

\* A step of t is of a thread with a call, and does not move the others.
LEMMA OthersStay ==
    ASSUME ListTypeOK, NEW t \in Threads, pc[t] = "idle" => ebr_pc[t] = "out",
           RStep(t), ~ Persist(t)
    PROVE  pc[t] # "idle" /\ OthersKeep(t)
<1> DEFINE Lefts == \A u \in Threads \ {t} : left'[u] = left[u]
           Pcs == \A u \in Threads \ {t} : pc'[u] = pc[u]
<1>0. pc = [u \in Threads |-> pc[u]] /\ left = [u \in Threads |-> left[u]]
  BY DEF ListTypeOK
<1>1. \A from, to : Goto(t, from, to) => pc[t] = from /\ Pcs
  BY <1>0 DEF Goto
<1>2. \A from : SearchAgain(t, from) \/ Exit(t, from) => pc[t] = from /\ Pcs /\ Lefts
  BY <1>0, <1>1 DEF SearchAgain, Exit
<1>3. UNCHANGED searchVars \/ UNCHANGED left => Lefts
  BY DEF searchVars
<1>4. Pcs /\ Lefts => OthersKeep(t)
  BY DEF OthersKeep
<1> HIDE DEF SearchAgain, Exit, Pcs, Lefts
<1>5. CASE Start(t) \/ Return(t) \/ ReclaimNode(t) \/ RetireRight(t)
  BY <1>1, <1>3, <1>4, <1>5 DEF Start, Return, ReclaimNode, RetireRight
<1>6. CASE End(t)
  <2>1. Lefts
    BY <1>0, <1>6 DEF End, Lefts
  <2> QED BY <1>1, <1>4, <1>6, <2>1 DEF End
<1>7. CASE EbrStep(t)
  <2>1. ebr_pc[t] # "out" /\ UNCHANGED listVars
    BY <1>7 DEF EbrStep, RetireCount, GetMin, GotMin, Empty, RetireDone, EbrGoto, Retiring
  <2>2. Pcs /\ Lefts
    BY <2>1 DEF listVars, searchVars, Pcs, Lefts
  <2> QED BY <1>4, <2>1, <2>2
<1>8. CASE SearchHead(t) \/ FindBit(t) \/ ClaimBit(t) \/ ClaimFailed(t) \/ Insert(t)
  BY <1>1, <1>3, <1>4, <1>8 DEF SearchHead, FindBit, ClaimBit, ClaimFailed, Insert
<1>9. CASE Relink(t) \/ Mark(t) \/ Delete(t)
  BY <1>1, <1>3, <1>4, <1>9 DEF Relink, Mark, Delete
<1>10. CASE UnlinkFailed(t) \/ InsertFailed(t) \/ MarkFailed(t) \/ DeleteFailed(t)
  BY <1>2, <1>4, <1>10 DEF UnlinkFailed, InsertFailed, MarkFailed, DeleteFailed, Apart
<1>11. CASE Adjacent(t) \/ Check(t)
  BY <1>2, <1>4, <1>11 DEF Adjacent, Check
<1>12. CASE ReadNext(t)
  BY <1>1, <1>2, <1>3, <1>4, <1>12 DEF ReadNext
<1>13. CASE Walk(t)
  <2>1. Pcs /\ Lefts
    BY <1>0, <1>13 DEF Walk, Pcs, Lefts
  <2> QED BY <1>4, <1>13, <2>1 DEF Walk
<1>14. CASE Unlink(t) \/ ReclaimNext(t) \/ FindNextWord(t)
  <2>1. Pcs
    BY <1>0, <1>14 DEF Unlink, ReclaimNext, FindNextWord, Pcs
  <2> QED BY <1>3, <1>4, <1>14, <2>1 DEF Unlink, Apart, ReclaimNext, FindNextWord
<1>15. CASE Iterate(t)
  <2>1. pc[t] # "idle" /\ (\E to : pc' = [pc EXCEPT ![t] = to]) /\ UNCHANGED left
    BY <1>15 DEF Iterate
  <2>2. Pcs
    BY <1>0, <2>1 DEF Pcs
  <2> QED BY <1>3, <1>4, <2>1, <2>2
<1> QED
  BY <1>5, <1>6, <1>7, <1>8, <1>9, <1>10, <1>11, <1>12, <1>13, <1>14, <1>15, Zenon
  DEF RStep, RStart, REnd, RClaimBit

LEMMA OthersKept ==
    ASSUME ListInv, NEW t \in Threads, RStep(t) \/ RCall(t), ~ Persist(t)
    PROVE  OthersKeep(t)
<1>1. ListTypeOK /\ (pc[t] = "idle" => ebr_pc[t] = "out")
  BY DEF ListInv, Local, Phase
<1>2. CASE RStep(t)
  BY <1>1, <1>2, OthersStay
<1>3. CASE RCall(t)
  BY <1>1, <1>3 DEF RCall, Call, Goto, searchVars, OthersKeep, ListTypeOK
<1> QED BY <1>2, <1>3

LEMMA RequestLogged ==
    ASSUME ListTypeOK, NEW t \in Threads
    PROVE  call[t] \in Requests \cup {Idle}
BY DEF ListTypeOK

\* The steps that store no node.
LEMMA LogsStep ==
    ASSUME ListInv, EbrInv, NEW t \in Threads, RStep(t) \/ RCall(t)
    PROVE  \/ Persist(t) \/ Logs(t) \/ Counts(t) \/ RClaimBit(t)
           \/ Unlink(t) /\ Writes(t, {left[t]})
           \/ Insert(t) /\ Writes(t, {left[t]})
           \/ Relink(t) /\ Writes(t, {new_elem[t]})
           \/ Mark(t) /\ Writes(t, {cur[t]})
           \/ Delete(t) /\ Writes(t, {})
           \/ RetireRight(t) /\ Writes(t, {left[t]})
<1> DEFINE NoNodes == /\ UNCHANGED <<data, next, linked>> /\ pc[t] # "retire"
                      /\ \A u \in Threads \ {t} : reach'[u] = reach[u]
                      /\ reach'[t] \subseteq linked \cup reach[t]
                      /\ \A u \in Threads : owned'[u] \subseteq owned[u]
           SomeLog == /\ Ready(t) /\ UNCHANGED file /\ Keep
                      /\ \/ UNCHANGED <<tlog, logFile, todo, todoLog>>
                         \/ \E r \in Requests \cup {Idle} :
                               /\ StoreLog(t, r)
                               /\ MustPersist(t, {}, TRUE) \/ UNCHANGED <<todo, todoLog>>
<1>0. ~ Persist(t) => OthersKeep(t)
  BY OthersKept
<1>1. NoNodes /\ SomeLog /\ ~ Persist(t) => Logs(t)
  BY <1>0 DEF Logs
<1>2. Reads(t) => SomeLog
  BY DEF Reads, durVars, Keep
<1>3. call[t] \in Requests \cup {Idle}
  BY RequestLogged DEF ListInv
<1>4. LogAdd(t) => SomeLog
  BY <1>3 DEF LogAdd
<1>5. CASE RCall(t)
  BY <1>1, <1>2, <1>5 DEF RCall, Call, Goto, StartLoad, useVars
<1>6. CASE RStart(t)
  <2>1. NoNodes
    BY <1>6 DEF RStart, Start, Goto, StartStore, EbrInv, EbrTypeOK
  <2>2. SomeLog
    BY <1>3, <1>6 DEF RStart
  <2> QED BY <1>1, <2>1, <2>2
<1>7. CASE REnd(t)
  <2>1. NoNodes
    BY <1>7 DEF REnd, End, Goto, EndOp, EbrInv, EbrTypeOK
  <2>2. SomeLog
    BY <1>7 DEF REnd
  <2> QED BY <1>1, <2>1, <2>2
<1>8. CASE (Adjacent(t) \/ Check(t)) /\ LogAdd(t)
  <2>1. UNCHANGED <<data, next, nodeVars>> /\ pc[t] # "retire"
    BY <1>8 DEF Adjacent, Check, SearchAgain, Exit, Goto
  <2>2. NoNodes
    BY <2>1 DEF nodeVars, useVars
  <2> QED BY <1>1, <1>4, <1>8, <2>2
<1>9. CASE ReclaimNode(t) /\ Reads(t)
  <2>1. NoNodes
    BY <1>9 DEF ReclaimNode, Goto, Retire
  <2> QED BY <1>1, <1>2, <1>9, <2>1
<1>10. CASE Return(t) /\ Reads(t)
  <2>1. UNCHANGED <<data, next>> /\ pc[t] # "retire"
    BY <1>10 DEF Return, Goto
  <2>2. CASE Discard(t, new_elem[t])
    <3>1. NoNodes
      BY <2>1, <2>2 DEF Discard, EbrInv, EbrTypeOK
    <3> QED BY <1>1, <1>2, <1>10, <3>1
  <2>3. CASE UNCHANGED nodeVars
    <3>1. NoNodes
      BY <2>1, <2>3 DEF nodeVars, useVars
    <3> QED BY <1>1, <1>2, <1>10, <3>1
  <2> QED BY <1>10, <2>2, <2>3 DEF Return
<1>11. CASE /\ \/ SearchHead(t) \/ Walk(t) \/ UnlinkFailed(t) \/ ReclaimNext(t)
               \/ FindBit(t) \/ FindNextWord(t) \/ ClaimFailed(t)
            /\ Reads(t)
  <2>1. UNCHANGED <<data, next, nodeVars>> /\ pc[t] # "retire"
    BY <1>11
    DEF SearchHead, Walk, UnlinkFailed, Apart, ReclaimNext, FindBit, FindNextWord,
        ClaimFailed, Goto
  <2>2. NoNodes
    BY <2>1 DEF nodeVars, useVars
  <2> QED BY <1>1, <1>2, <1>11, <2>2
<1>12. CASE /\ \/ InsertFailed(t) \/ ReadNext(t) \/ MarkFailed(t)
               \/ DeleteFailed(t) \/ Iterate(t)
            /\ Reads(t)
  <2>1. UNCHANGED <<data, next, nodeVars>> /\ pc[t] # "retire"
    BY <1>12
    DEF InsertFailed, ReadNext, MarkFailed, DeleteFailed, Iterate, SearchAgain, Goto
  <2>2. NoNodes
    BY <2>1 DEF nodeVars, useVars
  <2> QED BY <1>1, <1>2, <1>12, <2>2
<1> HIDE DEF NoNodes, SomeLog
<1>13. CASE RStep(t)
  BY <1>6, <1>7, <1>8, <1>9, <1>10, <1>11, <1>12, <1>13, Zenon DEF RStep, Counts
<1> QED BY <1>5, <1>13

------------------------------------------------------------------------------
(* What stores do to the memory while the threads are at work.              *)

\* A store adds what it stores to what memory may hold.
LEMMA StoreAdds ==
    ASSUME RecoveryTypeOK, AllDurable, StoreNodes, NEW i \in Nodes
    PROVE  /\ Line(i) \in file[i] /\ Line(i)' \in file'[i]
           /\ file'[i] \subseteq file[i] \cup {Line(i)'}
           /\ Line(i)' = Line(i) => file'[i] = file[i]
<1>1. Line(i) \in file[i]
  BY DEF RecoveryTypeOK
<1>2. file'[i] = IF adr THEN file[i] \cup {Line(i)'} ELSE {Line(i)'}
  BY DEF StoreNodes
<1>3. ~ adr => file[i] = {Line(i)}
  BY DEF AllDurable, Durable
<1> QED BY <1>1, <1>2, <1>3

\* What it leaves to flush.
LEMMA OthersUnflushed ==
    ASSUME NEW t \in Threads, OthersKeep(t), \A u \in Threads \ {t} : todo'[u] = todo[u]
    PROVE  \A u \in Threads \ {t} : Unflushed(u)' = Unflushed(u)
BY DEF OthersKeep, Unflushed

LEMMA MustPersistOthers ==
    ASSUME RecoveryTypeOK, NEW t \in Threads, NEW S, NEW log, MustPersist(t, S, log)
    PROVE  /\ \A u \in Threads \ {t} : todo'[u] = todo[u]
           /\ adr => todo'[t] = S
BY DEF MustPersist, RecoveryTypeOK

\* The written node leads to nodes of the list, upwards.
LEMMA PublicStore ==
    ASSUME RecoveryTypeOK, Working, AllDurable, ListInv', EbrInv',
           NEW t \in Threads, NEW x, NEW S, StoresPublic(t, x, S)
    PROVE  Working'
<1> USE DEF StoresPublic, Stores
<1>0. /\ \A i \in Nodes : Line(i) \in file[i] /\ Line(i)' \in file'[i]
      /\ \A i \in Nodes : file'[i] \subseteq file[i] \cup {Line(i)'}
      /\ \A i \in Nodes \ {x} : file'[i] = file[i]
  BY StoreAdds
<1>1. /\ reach[t] \subseteq Live /\ reach'[t] \subseteq Live'
      /\ HEAD \in Live /\ TAIL \in Live
      /\ Live \subseteq Nodes /\ Live' \subseteq Nodes
      /\ \A i \in Live : \A u \in Threads : i \notin owned[u]
  BY InLive, LiveNow, LiveNext DEF Working, LiveFits
<1>2. /\ data'[HEAD] = INT_MIN /\ data'[TAIL] = INT_MAX
      /\ next'[TAIL] = LL_SIZE /\ ~ IsMarked(next'[HEAD])
  BY LiveNext DEF LiveFits
<1>3. \A i \in reach'[t] \ {TAIL} :
          Unmark(next'[i]) \in reach'[t] /\ data'[i] < data'[Unmark(next'[i])]
  BY DEF ListInv, Traversable, Succ
<1>4. \A i \in Live : data'[i] = data[i]
  BY <1>1 DEF Line
<1>5. file'[TAIL] = {<<INT_MAX, LL_SIZE>>} /\ Line(TAIL)' = Line(TAIL)
  <2>1. /\ file[TAIL] = {<<INT_MAX, LL_SIZE>>} /\ Line(TAIL)' = <<INT_MAX, LL_SIZE>>
    BY <1>2 DEF Working, Sound, Line
  <2>2. TAIL \in Nodes
    BY Numbers
  <2> QED BY <1>0, <2>1, <2>2
<1>6. \A i \in owned[t] : Durable(i)
  BY DEF Working, Ready
<1>7. ASSUME NEW i \in Live' \ Live PROVE file'[i] = {Line(i)'}
  <2>1. i \in owned[t] /\ i # x /\ i \in Nodes
    BY <1>1, <1>7
  <2> QED BY <1>0, <1>6, <2>1 DEF Durable
<1>8. ASSUME NEW i \in Live' \ {TAIL}, NEW c \in file'[i]
      PROVE  /\ c[1] = data'[i]
             /\ Unmark(c[2]) \in Live' /\ data'[i] < data'[Unmark(c[2])]
             /\ i = HEAD => ~ IsMarked(c[2])
  <2>1. CASE i \in Live /\ c \in file[i]
    <3>1. /\ c[1] = data[i]
          /\ Unmark(c[2]) \in Live /\ data[i] < data[Unmark(c[2])]
          /\ i = HEAD => ~ IsMarked(c[2])
      BY <1>8, <2>1 DEF Working, Sound
    <3> QED BY <1>4, <2>1, <3>1
  <2>2. CASE i \in reach'[t] /\ c = Line(i)'
    BY <1>1, <1>2, <1>3, <1>8, <2>2 DEF Line
  <2>3. CASE i \notin Live
    BY <1>7, <1>8, <2>2, <2>3
  <2> QED BY <1>0, <1>1, <1>8, <2>1, <2>2, <2>3
<1>9. Sound(Live)'
  BY <1>1, <1>2, <1>5, <1>8 DEF Sound
<1>10. \A u \in Threads \ {t} : Unflushed(u)' = Unflushed(u)
  BY MustPersistOthers, OthersUnflushed
<1>11. ASSUME NEW i \in Live', NEW c \in file'[i] \ {Line(i)'}
       PROVE  \E u \in Threads : i \in Unflushed(u)' /\ Unmark(c[2]) \in reach'[u]
  <2>1. i \in Live /\ i \in Nodes
    BY <1>1, <1>7, <1>11
  <2>2. adr /\ c \in file[i]
    BY <1>0, <1>11, <2>1 DEF StoreNodes
  <2>3. CASE c = Line(i)
    <3>1. i = x /\ x # TAIL
      BY <1>5, <1>11, <2>1, <2>3
    <3>2. Succ(x) \in reach[t]
      <4>1. InOp(t)
        BY DEF Working, EbrInv, EpochsPast
      <4> QED BY <3>1, <4>1 DEF Working, ListInv, Traversable
    <3>3. Unmark(c[2]) = Succ(x)
      BY <2>3, <3>1 DEF Line, Succ
    <3> QED BY <2>2, <3>1, <3>2, <3>3
  <2>4. CASE c # Line(i)
    <3>1. PICK u \in Threads : i \in Unflushed(u) /\ Unmark(c[2]) \in reach[u]
      BY <2>1, <2>2, <2>4 DEF Working, Overwritten
    <3>2. i \in Unflushed(u)'
      BY <1>10, <2>2, <3>1
    <3> QED BY <3>1, <3>2
  <2> QED BY <2>3, <2>4
<1>12. \A i \in Live' : Overwritten(i)'
  BY <1>11 DEF Overwritten
<1>13. ASSUME NEW u \in Threads, NEW n \in owned'[u]
       PROVE  Durable(n)' \/ n \in todo'[u]
  <2>1. n \in owned[u] /\ n \in Nodes /\ n # x
    BY <1>1, <1>13 DEF Working, EbrInv, EbrTypeOK
  <2>2. Durable(n)' <=> Durable(n)
    BY <1>0, <2>1 DEF Durable
  <2>3. u # t => todo'[u] = todo[u]
    BY MustPersistOthers
  <2> QED BY <1>6, <2>1, <2>2, <2>3 DEF Working
<1> QED BY <1>9, <1>12, <1>13 DEF Working

\* The written node is in nobody's way.
LEMMA PrivateStore ==
    ASSUME RecoveryTypeOK, Working, AllDurable, ListInv', EbrInv',
           NEW t \in Threads, NEW x, NEW S, StoresPrivate(t, x, S)
    PROVE  Working'
<1> USE DEF StoresPrivate, Stores
<1>0. \A i \in Nodes \ {x} : file'[i] = file[i] /\ Line(i)' = Line(i)
  BY StoreAdds
<1>1. /\ \A i \in Live : file'[i] = file[i] /\ data'[i] = data[i] /\ Line(i)' = Line(i)
      /\ Live' = Live
  <2>1. Live \subseteq Nodes
    BY LiveNow DEF Working, LiveFits
  <2>2. \A i \in Live : file'[i] = file[i] /\ Line(i)' = Line(i)
    BY <1>0, <2>1
  <2> QED BY <2>2, LiveKept DEF Line
<1>2. Sound(Live)'
  <2>1. Sound(Live)
    BY DEF Working
  <2> QED BY <1>1, <2>1 DEF Sound
<1>3. \A i \in Live' : Overwritten(i)'
  <2>1. \A u \in Threads \ {t} : Unflushed(u)' = Unflushed(u)
    BY MustPersistOthers, OthersUnflushed
  <2>2. Unflushed(t) = {}
    BY DEF Unflushed, Ready
  <2> QED BY <1>1, <2>1, <2>2 DEF Working, Overwritten
<1>4. ASSUME NEW u \in Threads, NEW n \in owned'[u]
      PROVE  Durable(n)' \/ n \in todo'[u]
  <2>1. n \in Nodes
    BY <1>4 DEF EbrInv, EbrTypeOK
  <2>2. CASE n = x
    <3>1. u = t
      BY <1>4, <2>2
    <3>2. adr => n \in todo'[u]
      BY <2>2, <3>1, MustPersistOthers
    <3>3. ~ adr => Durable(n)'
      BY <2>1 DEF StoreNodes, Durable
    <3> QED BY <3>2, <3>3
  <2>3. CASE n # x
    <3>1. n \in owned[u] /\ (Durable(n)' <=> Durable(n))
      BY <1>0, <1>4, <2>1, <2>3 DEF Durable
    <3>2. u # t => todo'[u] = todo[u]
      BY MustPersistOthers
    <3> QED BY <3>1, <3>2 DEF Working, Ready
  <2> QED BY <2>2, <2>3
<1> QED BY <1>2, <1>3, <1>4 DEF Working

\* No store.
LEMMA NoStore ==
    ASSUME RecoveryTypeOK, Working, ListInv', EbrInv', NEW t \in Threads, Logs(t)
    PROVE  Working'
<1>1. /\ UNCHANGED <<data, next, linked, file>> /\ Ready(t) /\ pc[t] # "retire"
      /\ \A u \in Threads \ {t} : reach'[u] = reach[u]
      /\ \A u \in Threads : owned'[u] \subseteq owned[u]
  BY DEF Logs
<1>2. \A u \in Threads \ {t} : todo'[u] = todo[u]
  BY MustPersistOthers DEF Logs
<1>3. \A n : (Durable(n)' <=> Durable(n)) /\ Line(n)' = Line(n)
  BY <1>1 DEF Durable, Line
<1>4. \A u \in Threads : \A n \in owned'[u] : Durable(n)' \/ n \in todo'[u]
  BY <1>1, <1>2, <1>3 DEF Working, Ready
<1>5. Live' \subseteq Live
  BY <1>1 DEF Logs, Live
<1>6. Unflushed(t) = {} /\ \A u \in Threads \ {t} : Unflushed(u)' = Unflushed(u)
  BY <1>1, <1>2, OthersUnflushed DEF Logs, Unflushed, Ready
<1>7. ASSUME NEW i \in Live, NEW c \in file[i] \ {Line(i)}
      PROVE  \E u \in Threads \ {t} : i \in Unflushed(u) /\ Unmark(c[2]) \in reach[u]
  BY <1>6, <1>7 DEF Working, Overwritten
<1>8. \A i \in Live' : Overwritten(i)'
  BY <1>1, <1>3, <1>5, <1>6, <1>7 DEF Overwritten
<1>9. ASSUME NEW i \in Live' \ {TAIL}, NEW c \in file'[i]
      PROVE  /\ c[1] = data'[i]
             /\ Unmark(c[2]) \in Live' /\ data'[i] < data'[Unmark(c[2])]
             /\ i = HEAD => ~ IsMarked(c[2])
  <2>1. /\ c[1] = data'[i] /\ data'[i] < data'[Unmark(c[2])]
        /\ i = HEAD => ~ IsMarked(c[2])
    BY <1>1, <1>5, <1>9 DEF Working, Sound
  <2>2. CASE c = Line(i)
    <3>1. Succ(i)' \in Live'
      BY <1>9, LiveNext DEF LiveFits
    <3> QED BY <1>1, <2>1, <2>2, <3>1 DEF Line, Succ
  <2>3. CASE c # Line(i)
    <3>1. PICK u \in Threads \ {t} : Unmark(c[2]) \in reach[u]
      BY <1>1, <1>5, <1>7, <1>9, <2>3
    <3>2. Unmark(c[2]) \in Live'
      BY <1>1, <3>1, InLive
    <3> QED BY <2>1, <3>2
  <2> QED BY <2>2, <2>3
<1>10. Sound(Live)'
  <2>1. /\ {HEAD, TAIL} \subseteq Live' /\ Live' \subseteq Nodes
        /\ data'[HEAD] = INT_MIN /\ data'[TAIL] = INT_MAX
    BY LiveNext, InLive DEF LiveFits
  <2>2. file'[TAIL] = {<<INT_MAX, LL_SIZE>>}
    BY <1>1 DEF Working, Sound
  <2> QED BY <1>9, <2>1, <2>2 DEF Sound
<1> QED BY <1>4, <1>8, <1>10 DEF Working

\* Nothing that matters here changes.
LEMMA KeptWorking ==
    ASSUME Working, ListInv', EbrInv',
           UNCHANGED <<data, next, file, todo, linked, reach, owned>>,
           \A t \in Threads : Unflushed(t)' = Unflushed(t)
    PROVE  Working'
<1>1. Live' = Live /\ \A i : Line(i)' = Line(i)
  BY LiveKept DEF Line
<1>2. Sound(Live)'
  <2>1. Sound(Live)
    BY DEF Working
  <2> QED BY <1>1, <2>1 DEF Sound
<1>3. \A i \in Live' : Overwritten(i)'
  BY <1>1 DEF Working, Overwritten
<1>4. \A t \in Threads : \A n \in owned'[t] : Durable(n)' \/ n \in todo'[t]
  BY DEF Working, Durable, Line
<1> QED BY <1>2, <1>3, <1>4 DEF Working

LEMMA CountsWorking ==
    ASSUME Working, ListInv', EbrInv', NEW t \in Threads, Counts(t)
    PROVE  Working'
<1>1. /\ UNCHANGED <<data, next, file, todo, linked, reach, owned>>
      /\ UNCHANGED <<pc, left>>
  BY DEF Counts, EbrStep, RetireCount, GetMin, GotMin, Empty, RetireDone, Retiring,
         listVars, searchVars, useVars, durVars
<1>2. \A u \in Threads : Unflushed(u)' = Unflushed(u)
  BY <1>1 DEF Unflushed
<1> QED BY <1>1, <1>2, KeptWorking

\* What is flushed is what was visible.
LEMMA PersistSound ==
    ASSUME RecoveryTypeOK, NEW t \in Threads, Persist(t), NEW S, Sound(S)
    PROVE  Sound(S)'
<1>1. /\ UNCHANGED <<data, next>> /\ TAIL \in Nodes /\ S \subseteq Nodes
      /\ \A i \in Nodes : Line(i) \in file[i] /\ file'[i] \in {file[i], {Line(i)}}
  BY Numbers DEF Persist, RecoveryTypeOK, vars, listVars, Sound
<1>2. \A i \in S : file'[i] \subseteq file[i]
  BY <1>1
<1>3. file'[TAIL] = file[TAIL]
  BY <1>1 DEF Sound
<1> QED BY <1>1, <1>2, <1>3 DEF Sound

LEMMA PersistDurable ==
    ASSUME RecoveryTypeOK, NEW t \in Threads, Persist(t), NEW u \in Threads,
           NEW n \in Nodes, Durable(n) \/ n \in todo[u]
    PROVE  Durable(n)' \/ n \in todo'[u]
<1>1. /\ Line(n)' = Line(n) /\ Line(n) \in file[n]
      /\ file'[n] = IF n \in todo[t] THEN {Line(n)} ELSE file[n]
      /\ u # t => todo'[u] = todo[u]
  BY DEF Persist, RecoveryTypeOK, vars, listVars, Line
<1> QED BY <1>1 DEF Durable

LEMMA PersistWorking ==
    ASSUME RecoveryTypeOK, Working, NEW t \in Threads, Persist(t)
    PROVE  Working'
<1>1. ListInv' /\ EbrInv'
  BY ListStep DEF Working, Persist
<1>2. UNCHANGED <<data, next, linked, reach, owned, pc, left>> /\ Live' = Live
  BY LiveKept DEF Persist, vars, listVars, searchVars, nodeVars, useVars
<1>3. PICK K : K = Live
  OBVIOUS
<1>4. Sound(K)'
  <2>1. Sound(K)
    BY <1>3 DEF Working
  <2> QED BY <2>1, PersistSound
<1>5. Sound(Live)'
  BY <1>2, <1>3, <1>4 DEF Sound
<1>6. \A u \in Threads : \A n \in owned'[u] : n \in Nodes /\ (Durable(n) \/ n \in todo[u])
  BY <1>2 DEF Working, EbrInv, EbrTypeOK
<1>7. ASSUME NEW i \in Live', NEW c \in file'[i] \ {Line(i)'}
      PROVE  \E u \in Threads : i \in Unflushed(u)' /\ Unmark(c[2]) \in reach'[u]
  <2>1. Line(i)' = Line(i) /\ i \in Live /\ i \in Nodes
    BY <1>2, LiveNow DEF Line, Working, LiveFits
  <2>2. i \notin todo[t] /\ c \in file[i] \ {Line(i)}
    BY <1>7, <2>1 DEF Persist
  <2>3. PICK u \in Threads : i \in Unflushed(u) /\ Unmark(c[2]) \in reach[u]
    BY <2>1, <2>2 DEF Working, Overwritten
  <2>4. u # t => todo'[u] = todo[u]
    BY DEF Persist, RecoveryTypeOK
  <2>5. i \in Unflushed(u)'
    BY <1>2, <2>2, <2>3, <2>4 DEF Unflushed
  <2> QED BY <1>2, <2>3, <2>5
<1>8. \A i \in Live' : Overwritten(i)'
  BY <1>7 DEF Overwritten
<1> QED BY <1>1, <1>5, <1>6, <1>8, PersistDurable DEF Working

------------------------------------------------------------------------------
(* The steps of the threads.                                                *)

\* Which store is of which kind.
LEMMA PrivateWrites ==
    ASSUME ListInv, EbrInv, NEW t \in Threads,
           RClaimBit(t) \/ (Relink(t) /\ Writes(t, {new_elem[t]})),
           OthersKeep(t)
    PROVE  StoresPrivate(t, new_elem[t], {new_elem[t]})
<1> DEFINE x == new_elem[t]
<1>1. /\ owned \in [Threads -> SUBSET Nodes] /\ bm \subseteq Nodes
      /\ \A n \in Nodes : \A u \in Threads :
             n \in owned[u] => n \notin bm /\ \A v \in Threads \ {u} : n \notin owned[v]
      /\ \A n \in Live : n \notin bm /\ n \notin owned[t]
  BY LiveNow DEF EbrInv, EbrTypeOK, NodeOwners, LiveFits
<1>2. Local(t) /\ ebr_pc[t] = "in" => InOp(t)
  BY DEF ListInv, InOp
<1>3. CASE RClaimBit(t)
  <2>1. /\ x \in bm /\ bm' = bm \ {x} /\ owned' = [owned EXCEPT ![t] = @ \cup {x}]
        /\ InOp(t)' /\ UNCHANGED <<linked, reach>> /\ pc[t] # "retire"
        /\ data' = [data EXCEPT ![x] = call[t].val] /\ next' = [next EXCEPT ![x] = cur[t]]
    BY <1>3 DEF RClaimBit, ClaimBit, Claim, Goto, ebrVars, InOp
  <2>2. \A i \in Nodes \ {x} : Line(i)' = Line(i)
    <3>1. data \in [Nodes -> Values \cup {0, INT_MIN, INT_MAX}] /\ next \in [Nodes -> MarkedIndexes]
      BY DEF ListInv, ListTypeOK
    <3> QED BY <2>1, <3>1 DEF Line
  <2>3. /\ \A u \in Threads \ {t} : x \notin owned[u] /\ owned'[u] \subseteq owned[u]
        /\ owned'[t] \subseteq owned[t] \cup {x}
    BY <1>1, <2>1
  <2>4. Stores(t, x, {x})
    BY <1>1, <1>3, <2>1, <2>2 DEF RClaimBit, Stores
  <2>5. x \notin Live
    BY <1>1, <2>1
  <2> QED BY <2>1, <2>3, <2>4, <2>5 DEF StoresPrivate
<1>4. CASE Relink(t) /\ Writes(t, {new_elem[t]})
  <2>1. /\ x \in owned[t] /\ UNCHANGED nodeVars /\ next' = [next EXCEPT ![x] = cur[t]]
        /\ UNCHANGED data /\ Local(t) /\ pc[t] = "relink"
    BY <1>4 DEF ListInv, Local, Owning, Decided, Adding, Relink, Goto
  <2>2. InOp(t)'
    BY <2>1 DEF Local, Phase, Adding, InOp, nodeVars, ebrVars
  <2>3. /\ UNCHANGED <<linked, reach>> /\ x \notin Live
        /\ \A u \in Threads : owned'[u] \subseteq owned[u]
    BY <1>1, <2>1 DEF nodeVars, useVars
  <2>4. \A i \in Nodes \ {x} : Line(i)' = Line(i)
    <3>1. next \in [Nodes -> MarkedIndexes]
      BY DEF ListInv, ListTypeOK
    <3> QED BY <2>1, <3>1 DEF Line
  <2>5. x \in Nodes
    BY <1>1, <2>1
  <2>6. Stores(t, x, {x})
    BY <1>4, <2>2, <2>4, <2>5 DEF Writes, Stores
  <2> QED BY <1>1, <2>1, <2>3, <2>5, <2>6 DEF StoresPrivate
<1> QED BY <1>3, <1>4

\* What t is going to flush.
LEMMA WritesUnflushed ==
    ASSUME RecoveryTypeOK, NEW t \in Threads, NEW x, NEW S, Writes(t, S),
           x \in S \/ (pc'[t] = "retire" /\ left'[t] = x),
           pc[t] = "retire" => x = left[t]
    PROVE  Unflushed(t) \subseteq {x} /\ (adr => x \in Unflushed(t)')
<1>1. adr => todo'[t] = S
  BY MustPersistOthers DEF Writes
<1>2. todo[t] = {}
  BY DEF Writes, Ready
<1> QED BY <1>1, <1>2 DEF Unflushed

LEMMA PublicWrites ==
    ASSUME RecoveryTypeOK, ListInv, EbrInv, NEW t \in Threads, NEW S,
           \/ Unlink(t) /\ S = {left[t]}
           \/ Insert(t) /\ S = {left[t]}
           \/ Mark(t) /\ S = {cur[t]}
           \/ Delete(t) /\ S = {}
           \/ RetireRight(t) /\ S = {left[t]},
           Writes(t, S), OthersKeep(t)
    PROVE  \E x \in Nodes : StoresPublic(t, x, S)
<1>0. /\ data \in [Nodes -> Values \cup {0, INT_MIN, INT_MAX}]
      /\ next \in [Nodes -> MarkedIndexes]
      /\ pc = [u \in Threads |-> pc[u]] /\ left \in [Threads -> Nodes]
  BY DEF ListInv, ListTypeOK
<1>1. /\ ebr_pc[t] = "in" /\ InOp(t)
      /\ left[t] \in reach[t] /\ cur[t] \in reach[t]
      /\ reach[t] \subseteq Nodes /\ linked \subseteq reach[t]
  <2>1. ebr_pc[t] = "in"
    BY DEF ListInv, Local, Phase, Searching, Adding, Removing, Unlink, Apart, Insert,
           Mark, Delete, RetireRight, Goto
  <2>2. InOp(t)
    BY <2>1 DEF InOp
  <2> QED BY <2>1, <2>2, Stand
<1>2. ASSUME NEW x \in {left[t], cur[t]}, NEW y, next' = [next EXCEPT ![x] = y],
             UNCHANGED data, UNCHANGED <<owned, reach>>, linked' \subseteq linked,
             InOp(t)', x \in S \/ (pc'[t] = "retire" /\ left'[t] = x),
             pc[t] = "retire" => x = left[t], S \subseteq Nodes
      PROVE  StoresPublic(t, x, S)
  <2>1. Live' = Live
    BY <1>1, <1>2 DEF Live
  <2>2. x \in Nodes /\ x \in reach[t]
    BY <1>1, <1>2
  <2>3. \A i \in Nodes \ {x} : Line(i)' = Line(i)
    BY <1>0, <1>2 DEF Line
  <2>4. Stores(t, x, S)
    BY <1>2, <2>2, <2>3 DEF Writes, Stores
  <2>5. Unflushed(t) \subseteq {x} /\ (adr => x \in Unflushed(t)')
    BY <1>2, WritesUnflushed
  <2> QED BY <1>2, <2>1, <2>2, <2>4, <2>5 DEF StoresPublic
<1>3. CASE (Unlink(t) /\ S = {left[t]}) \/ (Delete(t) /\ S = {})
  <2>1. /\ UNCHANGED <<data, owned, reach, ebr_pc>> /\ linked' \subseteq linked
        /\ \E y : next' = [next EXCEPT ![left[t]] = y]
    BY <1>3 DEF Unlink, Delete, Detach, ebrVars
  <2>2. InOp(t)'
    BY <1>1, <2>1 DEF InOp
  <2>3. /\ pc[t] # "retire"
        /\ left[t] \in S \/ (pc'[t] = "retire" /\ left'[t] = left[t])
    BY <1>0, <1>3 DEF Unlink, Apart, Delete, Goto, searchVars
  <2>4. S \subseteq Nodes
    BY <1>0, <1>3
  <2>5. StoresPublic(t, left[t], S)
    BY <1>2, <2>1, <2>2, <2>3, <2>4
  <2> QED BY <1>1, <2>5
<1>4. CASE Mark(t) /\ S = {cur[t]}
  <2>1. /\ UNCHANGED <<data, linked, owned, reach, ebr_pc>>
        /\ next' = [next EXCEPT ![cur[t]] = right_idx[t] + MARK]
        /\ pc[t] # "retire" /\ cur[t] \in S /\ S \subseteq Nodes
    BY <1>1, <1>4 DEF Mark, Goto, nodeVars, useVars, ebrVars
  <2>2. InOp(t)'
    BY <1>1, <2>1 DEF InOp
  <2>3. StoresPublic(t, cur[t], S)
    BY <1>2, <2>1, <2>2
  <2> QED BY <1>1, <2>3
<1>5. CASE RetireRight(t) /\ S = {left[t]}
  <2>1. /\ UNCHANGED <<data, next, linked, owned, reach>>
        /\ ebr_pc' = [ebr_pc EXCEPT ![t] = "count"]
        /\ left[t] \in S /\ S \subseteq Nodes
    BY <1>0, <1>5 DEF RetireRight, Retire, EbrGoto
  <2>2. InOp(t)'
    BY <2>1 DEF InOp, EbrInv, EbrTypeOK
  <2>3. next' = [next EXCEPT ![left[t]] = next[left[t]]]
    BY <1>0, <2>1
  <2>4. StoresPublic(t, left[t], S)
    BY <1>2, <2>1, <2>2, <2>3
  <2> QED BY <1>1, <2>4
<1>6. CASE Insert(t) /\ S = {left[t]}
  <2> DEFINE n == new_elem[t]
  <2>1. /\ UNCHANGED <<data, ebr_pc>> /\ pc[t] # "retire"
        /\ next' = [next EXCEPT ![left[t]] = n]
        /\ n \in owned[t] /\ owned' = [owned EXCEPT ![t] = @ \ {n}]
        /\ linked' = linked \cup {n}
        /\ reach' = [u \in Threads |-> IF InOp(u) THEN reach[u] \cup {n} ELSE reach[u]]
    BY <1>6 DEF Insert, Goto, Publish, ebrVars
  <2>2. /\ owned \in [Threads -> SUBSET Nodes] /\ reach \in [Threads -> SUBSET Nodes]
        /\ InOp(t)'
    BY <1>1, <2>1 DEF InOp, EbrInv, EbrTypeOK
  <2>3. \A u \in Threads : owned'[u] \subseteq owned[u] /\ reach[u] \subseteq reach'[u]
    BY <2>1, <2>2
  <2>4. reach'[t] = reach[t] \cup {n} /\ \A u \in Threads : reach'[u] \subseteq reach[u] \cup {n}
    BY <1>1, <2>1
  <2> HIDE DEF n
  <2>5. Live \subseteq Live' /\ Live' \ Live \subseteq {n}
    BY <2>1, <2>3, <2>4 DEF Live
  <2>6. left[t] \in Nodes /\ left[t] \in S /\ S \subseteq Nodes
    BY <1>1, <1>6
  <2>7. \A i \in Nodes \ {left[t]} : Line(i)' = Line(i)
    BY <1>0, <2>1 DEF Line
  <2>8. Stores(t, left[t], S)
    BY <2>2, <2>6, <2>7 DEF Writes, Stores
  <2>9. Unflushed(t) \subseteq {left[t]} /\ (adr => left[t] \in Unflushed(t)')
    BY <2>1, <2>6, WritesUnflushed
  <2>10. StoresPublic(t, left[t], S)
    BY <1>1, <2>1, <2>3, <2>4, <2>5, <2>8, <2>9 DEF StoresPublic
  <2> QED BY <2>6, <2>10
<1> QED BY <1>3, <1>4, <1>5, <1>6

\* Lines and logs keep their types.
Lines == (Values \cup {0, INT_MIN, INT_MAX}) \X MarkedIndexes
MemoryTypes ==
    /\ tlog \in [Threads -> Requests \cup {Idle}]
    /\ file \in [Nodes -> SUBSET Lines]
    /\ logFile \in [Threads -> SUBSET (Requests \cup {Idle})]
    /\ \A i \in Nodes : Line(i) \in file[i]
    /\ \A t \in Threads : tlog[t] \in logFile[t]
    /\ todo \in [Threads -> SUBSET Nodes]
    /\ todoLog \in [Threads -> BOOLEAN]

LEMMA TypesSplit ==
    /\ RecoveryTypeOK => ListTypeOK /\ MemoryTypes
    /\ /\ RecoveryTypeOK /\ ListTypeOK' /\ MemoryTypes'
       /\ UNCHANGED <<build, mode, it, before, pending, logged, crashes>>
       => RecoveryTypeOK'
BY DEF RecoveryTypeOK, MemoryTypes, Lines

LEMMA LineType ==
    /\ ListTypeOK => \A i \in Nodes : Line(i) \in Lines
    /\ ListTypeOK' => \A i \in Nodes : Line(i)' \in Lines
BY DEF ListTypeOK, Lines, Line

LEMMA StoreLogTypes ==
    ASSUME MemoryTypes, NEW u \in Threads, NEW r \in Requests \cup {Idle}, StoreLog(u, r)
    PROVE  /\ tlog' \in [Threads -> Requests \cup {Idle}]
           /\ logFile' \in [Threads -> SUBSET (Requests \cup {Idle})]
           /\ \A t \in Threads : tlog'[t] \in logFile'[t]
BY DEF MemoryTypes, StoreLog

LEMMA MustPersistTypes ==
    ASSUME MemoryTypes, AllDurable, NEW u \in Threads, NEW S \in SUBSET Nodes,
           NEW log \in BOOLEAN, MustPersist(u, S, log)
    PROVE  /\ todo' \in [Threads -> SUBSET Nodes]
           /\ todoLog' \in [Threads -> BOOLEAN]
           /\ ~ adr => \A t \in Threads : todo'[t] = {} /\ ~ todoLog'[t]
<1>1. /\ todo' = [todo EXCEPT ![u] = IF adr THEN S ELSE @]
      /\ todoLog' = [todoLog EXCEPT ![u] = adr /\ log]
      /\ todo \in [Threads -> SUBSET Nodes]
      /\ todoLog \in [Threads -> BOOLEAN]
      /\ ~ adr => \A t \in Threads : todo[t] = {} /\ ~ todoLog[t]
  BY DEF MustPersist, MemoryTypes, AllDurable
<1>2. (adr /\ log) \in BOOLEAN
  OBVIOUS
<1>3. todo' \in [Threads -> SUBSET Nodes] /\ todoLog' \in [Threads -> BOOLEAN]
  BY <1>1, <1>2
<1>4. ASSUME ~ adr, NEW t \in Threads PROVE todo'[t] = {} /\ ~ todoLog'[t]
  BY <1>1, <1>4
<1> QED BY <1>3, <1>4

LEMMA StoreNodesTypes ==
    ASSUME MemoryTypes, ListTypeOK', StoreNodes
    PROVE  /\ file' \in [Nodes -> SUBSET Lines]
           /\ \A i \in Nodes : Line(i)' \in file'[i]
           /\ ~ adr => \A i \in Nodes : file'[i] = {Line(i)'}
<1>1. /\ \A i \in Nodes : file[i] \subseteq Lines /\ Line(i)' \in Lines
      /\ file' = [i \in Nodes |-> IF adr THEN file[i] \cup {Line(i)'} ELSE {Line(i)'}]
  BY LineType DEF MemoryTypes, StoreNodes
<1> HIDE DEF Line
<1>2. \A i \in Nodes : /\ file'[i] \subseteq Lines /\ Line(i)' \in file'[i]
                       /\ ~ adr => file'[i] = {Line(i)'}
  BY <1>1
<1> QED BY <1>1, <1>2

LEMMA PersistTypes ==
    ASSUME MemoryTypes, AllDurable, ListTypeOK', NEW t \in Threads, Persist(t)
    PROVE  MemoryTypes' /\ AllDurable'
<1>1. /\ \A i \in Nodes : Line(i)' = Line(i) /\ file[i] \subseteq Lines /\ Line(i) \in file[i]
      /\ file' = [i \in Nodes |-> IF i \in todo[t] THEN {Line(i)} ELSE file[i]]
  BY DEF Persist, MemoryTypes, Line, vars, listVars
<1>2. file' \in [Nodes -> SUBSET Lines] /\ \A i \in Nodes : Line(i)' \in file'[i]
  <2>1. \A i \in Nodes : file'[i] \subseteq Lines /\ Line(i)' \in file'[i]
    BY <1>1
  <2> QED BY <1>1, <2>1
<1>3. /\ tlog' \in [Threads -> Requests \cup {Idle}]
      /\ logFile' \in [Threads -> SUBSET (Requests \cup {Idle})]
      /\ \A u \in Threads : tlog'[u] \in logFile'[u]
      /\ todo' \in [Threads -> SUBSET Nodes]
      /\ todoLog' \in [Threads -> BOOLEAN]
  BY DEF Persist, MemoryTypes
<1>4. adr /\ adr'
  BY DEF Persist, Ready, AllDurable, adr
<1> QED BY <1>2, <1>3, <1>4 DEF MemoryTypes, AllDurable

LEMMA LogsTypes ==
    ASSUME MemoryTypes, AllDurable, ListTypeOK', NEW t \in Threads, Logs(t)
    PROVE  MemoryTypes' /\ AllDurable'
<1>1. /\ UNCHANGED <<data, next, file>> /\ adr' = adr
      /\ \A i \in Nodes : Line(i)' = Line(i) /\ (Durable(i)' <=> Durable(i))
  BY DEF Logs, Keep, adr, Durable, Line
<1>2. CASE UNCHANGED <<tlog, logFile, todo, todoLog>>
  BY <1>1, <1>2 DEF MemoryTypes, AllDurable
<1>3. ASSUME NEW r \in Requests \cup {Idle}, StoreLog(t, r),
             MustPersist(t, {}, TRUE) \/ UNCHANGED <<todo, todoLog>>
      PROVE  MemoryTypes' /\ AllDurable'
  <2>1. /\ tlog' \in [Threads -> Requests \cup {Idle}]
        /\ logFile' \in [Threads -> SUBSET (Requests \cup {Idle})]
        /\ \A u \in Threads : tlog'[u] \in logFile'[u]
    BY <1>3, StoreLogTypes
  <2>2. /\ todo' \in [Threads -> SUBSET Nodes]
        /\ todoLog' \in [Threads -> BOOLEAN]
        /\ ~ adr => \A u \in Threads : todo'[u] = {} /\ ~ todoLog'[u]
    <3>1. CASE MustPersist(t, {}, TRUE)
      BY <3>1, MustPersistTypes
    <3>2. CASE UNCHANGED <<todo, todoLog>>
      BY <3>2 DEF MemoryTypes, AllDurable
    <3> QED BY <1>3, <3>1, <3>2
  <2> QED BY <1>1, <2>1, <2>2 DEF MemoryTypes, AllDurable
<1> QED BY <1>2, <1>3 DEF Logs

LEMMA StoresTypes ==
    ASSUME MemoryTypes, AllDurable, ListTypeOK', NEW t \in Threads, NEW x, NEW S,
           Stores(t, x, S)
    PROVE  MemoryTypes' /\ AllDurable'
<1>1. /\ StoreNodes /\ S \in SUBSET Nodes /\ adr' = adr
      /\ UNCHANGED <<tlog, logFile>>
  BY DEF Stores, Keep, adr
<1>2. /\ todo' \in [Threads -> SUBSET Nodes]
      /\ todoLog' \in [Threads -> BOOLEAN]
      /\ ~ adr => \A u \in Threads : todo'[u] = {} /\ ~ todoLog'[u]
  BY <1>1, MustPersistTypes DEF Stores
<1>3. /\ file' \in [Nodes -> SUBSET Lines]
      /\ \A i \in Nodes : Line(i)' \in file'[i]
      /\ ~ adr => \A i \in Nodes : file'[i] = {Line(i)'}
  BY <1>1, StoreNodesTypes
<1> QED BY <1>1, <1>2, <1>3 DEF MemoryTypes, AllDurable, Durable

LEMMA CountsTypes ==
    ASSUME MemoryTypes, AllDurable, NEW t \in Threads, Counts(t)
    PROVE  MemoryTypes' /\ AllDurable'
<1>1. UNCHANGED <<data, next, durVars>>
  BY DEF Counts, EbrStep, Retiring, listVars
<1> QED BY <1>1 DEF MemoryTypes, AllDurable, Durable, Line, durVars, adr

LEMMA WorkStep ==
    ASSUME RecoveryInv, mode # "recover", NEW t \in Threads, RStep(t) \/ RCall(t)
    PROVE  RecoveryInv'
<1>1. RecoveryTypeOK /\ Working /\ Redoing /\ AllDurable /\ ListInv /\ EbrInv /\ MemoryTypes
  BY TypesSplit DEF RecoveryInv, Working
<1>2. ListInv' /\ EbrInv' /\ ListTypeOK'
  <2>1. ListInv' /\ EbrInv'
    BY <1>1, RStepIs, ListStep
  <2> QED BY <2>1 DEF ListInv
<1>3. ASSUME NEW x, NEW S, StoresPublic(t, x, S) \/ StoresPrivate(t, x, S)
      PROVE  /\ Working' /\ MemoryTypes' /\ AllDurable'
             /\ UNCHANGED <<build, mode, it, before, pending, logged, crashes>>
  <2>1. Stores(t, x, S)
    BY <1>3 DEF StoresPublic, StoresPrivate
  <2>2. Working'
    BY <1>1, <1>2, <1>3, PublicStore, PrivateStore
  <2> QED BY <1>1, <1>2, <2>1, <2>2, StoresTypes DEF Stores, Keep, recVars
<1>4. /\ Working' /\ MemoryTypes' /\ AllDurable'
      /\ UNCHANGED <<build, mode, it, before, pending, logged, crashes>>
  <2>1. CASE Persist(t)
    BY <1>1, <1>2, <2>1, PersistWorking, PersistTypes DEF Persist, recVars
  <2>2. CASE Logs(t)
    BY <1>1, <1>2, <2>2, NoStore, LogsTypes DEF Logs, Keep, recVars
  <2>3. CASE Counts(t)
    BY <1>1, <1>2, <2>3, CountsWorking, CountsTypes DEF Counts, Keep, recVars, durVars
  <2> SUFFICES ASSUME ~ Persist(t)
               PROVE  /\ Working' /\ MemoryTypes' /\ AllDurable'
                      /\ UNCHANGED <<build, mode, it, before, pending, logged, crashes>>
    BY <2>1
  <2>4. OthersKeep(t)
    BY <1>1, OthersKept
  <2>5. CASE RClaimBit(t) \/ (Relink(t) /\ Writes(t, {new_elem[t]}))
    BY <1>1, <1>3, <2>4, <2>5, PrivateWrites
  <2>6. CASE \/ Unlink(t) /\ Writes(t, {left[t]})
             \/ Insert(t) /\ Writes(t, {left[t]})
             \/ Mark(t) /\ Writes(t, {cur[t]})
             \/ Delete(t) /\ Writes(t, {})
             \/ RetireRight(t) /\ Writes(t, {left[t]})
    <3>1. \E S, x : StoresPublic(t, x, S)
      BY <1>1, <2>4, <2>6, PublicWrites
    <3> QED BY <1>3, <3>1
  <2> QED BY <1>1, <2>2, <2>3, <2>5, <2>6, LogsStep
<1>5. Redoing'
  <2>1. CASE RCall(t)
    BY <1>1, <1>4, <2>1 DEF RCall, Redoing, adr
  <2>2. CASE Persist(t)
    BY <1>1, <1>4, <2>2 DEF Redoing, adr, Persist, vars, listVars
  <2>3. CASE RStep(t) /\ ~ Persist(t)
    <3>1. pc[t] # "idle" /\ \A u \in Threads \ {t} : pc'[u] = pc[u]
      <4>1. pc[t] = "idle" => ebr_pc[t] = "out"
        BY <1>1 DEF ListInv, Local, Phase
      <4> QED BY <1>1, <2>3, <4>1, OthersStay DEF ListInv, OthersKeep
    <3> QED BY <1>1, <1>4, <3>1 DEF Redoing, adr
  <2> QED BY <2>1, <2>2, <2>3
<1>6. RecoveryTypeOK'
  BY <1>1, <1>2, <1>4, TypesSplit
<1> QED BY <1>4, <1>5, <1>6 DEF RecoveryInv

------------------------------------------------------------------------------
(* A crash.                                                                 *)

LEMMA SetValues ==
    ASSUME ListTypeOK, InOrder
    PROVE  Set \subseteq Values
<1> SUFFICES ASSUME NEW i \in linked \ {HEAD, TAIL} PROVE data[i] \in Values
  BY SetIs DEF SetOf
<1>1. /\ i \in Nodes /\ data \in [Nodes -> Nat]
      /\ data[i] \in Values \cup {0, INT_MIN, INT_MAX}
  BY DataNat, LinkedNodes DEF ListTypeOK
<1>2. /\ INT_MIN <= data[i] /\ data[i] # INT_MIN /\ data[i] # INT_MAX
      /\ INT_MIN \in Nat
  BY Numbers DEF InOrder, SortedList
<1> QED BY <1>1, <1>2

\* There is something to go through, wherever a crash comes.
LEMMA SomeSound ==
    ASSUME RecoveryInv
    PROVE  \E S \in SUBSET Nodes : Sound(S)
<1>1. CASE mode = "recover"
  BY <1>1 DEF RecoveryInv, Recovering
<1>2. CASE mode # "recover"
  <2>1. Sound(Live) /\ Live \in SUBSET Nodes
    BY <1>2, LiveNow DEF RecoveryInv, Working, LiveFits
  <2> QED BY <2>1
<1> QED BY <1>1, <1>2

\* Whichever content survives, it is sound.
LEMMA CrashSound ==
    ASSUME NEW S \in SUBSET Nodes, Sound(S),
           \A i \in Nodes : Line(i)' \in file[i] /\ file'[i] = {Line(i)'}
    PROVE  Sound(S)'
<1>1. /\ HEAD \in S /\ TAIL \in S /\ HEAD # TAIL
      /\ Line(TAIL)' = <<INT_MAX, LL_SIZE>>
      /\ file'[TAIL] = {<<INT_MAX, LL_SIZE>>}
  BY Numbers DEF Sound
<1>2. \A i \in S : data'[i] = data[i]
  <2>1. data'[TAIL] = data[TAIL]
    BY <1>1 DEF Sound, Line
  <2>2. \A i \in S \ {TAIL} : data'[i] = data[i]
    BY DEF Sound, Line
  <2> QED BY <2>1, <2>2
<1> QED BY <1>1, <1>2 DEF Sound

LEMMA FreshTypes ==
    ASSUME Fresh', bm' \subseteq Nodes, calls' \in [Threads -> Nat],
           data' \in [Nodes -> Values \cup {0, INT_MIN, INT_MAX}],
           next' \in [Nodes -> MarkedIndexes]
    PROVE  ListTypeOK'
<1>1. /\ 0 \in Nodes /\ 0 \in MarkedIndexes /\ 0 \in Indexes
      /\ 0 \in 0 .. LL_SIZE \div WORD - 1
  BY Numbers, NodeIndex, Words DEF HEAD
<1>2. EbrTypeOK'
  <2>1. 0 \in Epochs /\ 0 \in Marks /\ UINT64_MAX \in Marks /\ 0 \in 0 .. EPOCH_FREQ - 1
        /\ 0 \in 0 .. MAX_THREADS
    BY EbrAssumption DEF Epochs, Marks
  <2> QED BY <2>1 DEF Fresh, EbrTypeOK
<1> QED BY <1>1, <1>2 DEF Fresh, ListTypeOK

LEMMA RestartFresh == Restart => Fresh' /\ bm' = Nodes \ {HEAD, TAIL}
BY DEF Restart, Fresh

LEMMA CrashStep == RecoveryInv /\ Crash => RecoveryInv'
<1> SUFFICES ASSUME RecoveryInv, Crash PROVE RecoveryInv'
  OBVIOUS
<1>1. RecoveryTypeOK /\ MemoryTypes /\ ListTypeOK
  BY TypesSplit DEF RecoveryInv
<1>2. /\ Fresh' /\ bm' = Nodes \ {HEAD, TAIL} /\ mode' = "recover" /\ it' = HEAD
      /\ UNCHANGED <<calls, build>>
      /\ todo' = [t \in Threads |-> {}] /\ todoLog' = [t \in Threads |-> FALSE]
  BY RestartFresh DEF Crash, Restart
<1>3. /\ \A i \in Nodes : Line(i)' \in file[i]
      /\ data' \in [Nodes -> Values \cup {0, INT_MIN, INT_MAX}]
      /\ next' \in [Nodes -> MarkedIndexes]
  <2>1. PICK f : /\ \A i \in Torn : f[i] \in file[i]
                 /\ data' = [i \in Nodes |-> IF i \in Torn THEN f[i][1] ELSE data[i]]
                 /\ next' = [i \in Nodes |-> IF i \in Torn THEN f[i][2] ELSE next[i]]
    BY DEF Crash
  <2>2. ASSUME NEW i \in Nodes
        PROVE  /\ Line(i)' \in file[i]
               /\ data'[i] \in Values \cup {0, INT_MIN, INT_MAX}
               /\ next'[i] \in MarkedIndexes
    <3>0. file[i] \subseteq Lines /\ Line(i) \in file[i]
      BY <1>1 DEF MemoryTypes
    <3>1. CASE i \in Torn
      <4>1. f[i] \in file[i] /\ f[i] \in Lines
        BY <2>1, <3>0, <3>1
      <4>2. f[i] = <<f[i][1], f[i][2]>>
        BY <4>1 DEF Lines
      <4>3. Line(i)' = f[i]
        BY <2>1, <3>1, <4>2 DEF Line
      <4> QED BY <2>1, <3>1, <4>1, <4>3 DEF Lines
    <3>2. CASE i \notin Torn
      <4>1. data'[i] = data[i] /\ next'[i] = next[i]
        BY <2>1, <3>2
      <4> QED BY <1>1, <3>0, <4>1 DEF Line, ListTypeOK
    <3> QED BY <3>1, <3>2
  <2> QED BY <2>1, <2>2
<1>4. file' = [i \in Nodes |-> {Line(i)'}]
  BY DEF Crash
<1>5. ListTypeOK'
  <2>1. calls' \in [Threads -> Nat]
    BY <1>1, <1>2 DEF ListTypeOK
  <2> QED BY <1>2, <1>3, <2>1, FreshTypes
<1>6. PICK S \in SUBSET Nodes : Sound(S)
  BY SomeSound
<1>7. Sound(S)'
  BY <1>3, <1>4, <1>6, CrashSound
<1>8. Nodes \ bm' = {HEAD, TAIL}
  BY <1>2, Numbers
<1>9. Visited(Nodes \ bm)'
  <2>1. /\ data'[HEAD] = INT_MIN /\ data'[TAIL] = INT_MAX
        /\ INT_MIN \in Nat /\ INT_MAX \in Nat /\ INT_MIN < INT_MAX
    BY <1>7, Numbers DEF Sound
  <2>2. /\ {HEAD, TAIL, it'} \subseteq {HEAD, TAIL}
        /\ \A i, j \in {HEAD, TAIL} : data'[i] = data'[j] => i = j
        /\ \A i \in {HEAD, TAIL} :
              INT_MIN <= data'[i] /\ (data'[i] <= data'[it'] \/ i = TAIL)
        /\ {HEAD, TAIL} \ {TAIL, it'} = {}
    BY <1>2, <2>1
  <2> QED BY <1>8, <2>2 DEF Visited
<1>10. Recovering'
  <2>1. \A i \in Nodes : Durable(i)'
    BY <1>4 DEF Durable
  <2>2. Nodes \ bm' \subseteq S
    BY <1>6, <1>8 DEF Sound
  <2> QED BY <1>2, <1>6, <1>7, <1>9, <2>1, <2>2 DEF Recovering
<1>11. AllDurable'
  BY <1>2, <1>4 DEF AllDurable, Durable
<1>12. RecoveryTypeOK'
  <2>1. /\ tlog' \in [Threads -> Requests \cup {Idle}]
        /\ logFile' \in [Threads -> SUBSET (Requests \cup {Idle})]
        /\ \A t \in Threads : tlog'[t] \in logFile'[t]
        /\ logged' \subseteq Requests
    <3>1. /\ tlog' \in [Threads -> Requests \cup {Idle}]
          /\ logFile' = [t \in Threads |-> {tlog'[t]}]
          /\ logged' = {tlog'[t] : t \in Threads} \ {Idle}
      BY DEF Crash
    <3> QED BY <3>1
  <2>2. /\ file' \in [Nodes -> SUBSET Lines]
        /\ \A i \in Nodes : Line(i)' \in file'[i]
    BY <1>4, <1>5, LineType
  <2>3. todo' \in [Threads -> SUBSET Nodes] /\ todoLog' \in [Threads -> BOOLEAN]
    BY <1>2
  <2>4. before' \subseteq Values
    <3>1. mode = "run" => Set \subseteq Values
      BY SetValues DEF RecoveryInv, Working, ListInv
    <3> QED BY <1>1, <3>1 DEF Crash, RecoveryTypeOK
  <2>5. pending' \subseteq Requests
    <3>1. \A t \in Threads : call[t] \in Requests \cup {Idle}
      BY <1>1 DEF ListTypeOK
    <3> QED BY <1>1, <3>1 DEF Crash, RecoveryTypeOK
  <2>6. crashes' \in Nat /\ build' \in Builds
    BY <1>1, <1>2 DEF Crash, RecoveryTypeOK
  <2>7. HEAD \in Nodes
    BY Numbers
  <2> QED BY <1>2, <1>5, <2>1, <2>2, <2>3, <2>4, <2>5, <2>6, <2>7 DEF RecoveryTypeOK, Lines
<1>13. Redoing'
  BY <1>2 DEF Redoing
<1> QED BY <1>2, <1>10, <1>11, <1>12, <1>13 DEF RecoveryInv
------------------------------------------------------------------------------
(* The end of a run of marked nodes.                                        *)

SkipMarked(i) == IF IsMarked(next[i]) THEN Unmark(next[i]) ELSE i
IsSkip(n, f, m) ==
    f = [k \in 0 .. m |-> IF k = 0 THEN n ELSE SkipMarked(f[k - 1])]

LEMMA SkipExists ==
    ASSUME NEW n, NEW m \in Nat
    PROVE  \E f : IsSkip(n, f, m)
<1> DEFINE S == {k \in Nat : \E f : IsSkip(n, f, k)}
<1>1. 0 \in S
  <2> DEFINE f == [k \in 0 .. 0 |-> n]
  <2>1. f = [k \in 0 .. 0 |-> IF k = 0 THEN n ELSE SkipMarked(f[k - 1])]
    OBVIOUS
  <2>2. IsSkip(n, f, 0)
    BY <2>1 DEF IsSkip
  <2> QED BY <2>2
<1>2. ASSUME NEW j \in Nat, j \in S PROVE j + 1 \in S
  <2>1. PICK f : IsSkip(n, f, j)
    BY <1>2
  <2> DEFINE g == [k \in 0 .. j + 1 |-> IF k = j + 1 THEN SkipMarked(f[j]) ELSE f[k]]
  <2>2. f[0] = n /\ \A k \in 1 .. j : f[k] = SkipMarked(f[k - 1])
    BY <2>1 DEF IsSkip
  <2>3. \A k \in 0 .. j + 1 : g[k] = IF k = 0 THEN n ELSE SkipMarked(g[k - 1])
    BY <2>2
  <2>4. g = [k \in 0 .. j + 1 |-> IF k = 0 THEN n ELSE SkipMarked(g[k - 1])]
    BY <2>3
  <2>5. IsSkip(n, g, j + 1)
    BY <2>4 DEF IsSkip
  <2> QED BY <2>5
<1> HIDE DEF S
<1>3. m \in S
  BY <1>1, <1>2, Induction
<1> QED BY <1>3 DEF S

\* The search for an unmarked node leads on, upwards.
LEMMA UnmarkedUp ==
    ASSUME NEW S \in SUBSET Nodes, NEW n \in S, data \in [Nodes -> Nat],
           next[TAIL] = LL_SIZE,
           \A i \in S \ {TAIL} : Succ(i) \in S /\ data[i] < data[Succ(i)]
    PROVE  Unmarked(n) \in S /\ data[n] <= data[Unmarked(n)]
<1> DEFINE m == LL_SIZE - 1
           u == CHOOSE f : IsSkip(n, f, m)
           K == {k \in Nat : k \in 0 .. m => u[k] \in S /\ data[n] <= data[u[k]]}
<1>1. m \in Nat /\ Nodes = 0 .. m
  BY Numbers DEF Nodes
<1>2. \E f : IsSkip(n, f, m)
  BY <1>1, SkipExists
<1>3. IsSkip(n, u, m)
  BY <1>2, Zenon
<1>4. Unmarked(n) = u[m]
  BY DEF Unmarked, IsSkip, Nodes, SkipMarked
<1> HIDE DEF u, m
<1>5. /\ u[0] = n
      /\ \A k \in Nat : k + 1 \in 0 .. m => u[k + 1] = SkipMarked(u[k])
  <2>1. u = [k \in 0 .. m |-> IF k = 0 THEN n ELSE SkipMarked(u[k - 1])]
    BY <1>3 DEF IsSkip
  <2>2. \A k \in Nat : k + 1 # 0 /\ (k + 1) - 1 = k
    OBVIOUS
  <2> QED BY <1>1, <2>1, <2>2
<1>6. 0 \in K
  BY <1>5
<1>7. ASSUME NEW k \in Nat, k \in K PROVE k + 1 \in K
  <2> SUFFICES ASSUME k + 1 \in 0 .. m
               PROVE  u[k + 1] \in S /\ data[n] <= data[u[k + 1]]
    OBVIOUS
  <2>1. u[k] \in S /\ data[n] <= data[u[k]] /\ u[k + 1] = SkipMarked(u[k])
    BY <1>1, <1>5, <1>7
  <2>2. IsMarked(next[u[k]]) => u[k] # TAIL
    BY NoNode
  <2>3. IsMarked(next[u[k]]) => /\ Unmark(next[u[k]]) \in S
                                /\ data[u[k]] < data[Unmark(next[u[k]])]
    BY <2>1, <2>2 DEF Succ
  <2> QED BY <2>1, <2>3 DEF SkipMarked
<1> HIDE DEF K
<1>8. m \in K
  BY <1>1, <1>6, <1>7, Induction
<1> QED BY <1>1, <1>4, <1>8 DEF K

------------------------------------------------------------------------------
(* recover(): the list.                                                     *)

LEMMA SoundNodes ==
    ASSUME RecoveryTypeOK, NEW S \in SUBSET Nodes, Sound(S)
    PROVE  /\ data \in [Nodes -> Nat] /\ next[TAIL] = LL_SIZE
           /\ HEAD \in S /\ TAIL \in S /\ data[HEAD] = INT_MIN /\ data[TAIL] = INT_MAX
           /\ ~ IsMarked(next[HEAD])
           /\ \A i \in S \ {TAIL} : Succ(i) \in S /\ data[i] < data[Succ(i)]
           /\ \A i \in S : data[i] <= INT_MAX /\ (data[i] = INT_MAX => i = TAIL)
<1>1. /\ data \in [Nodes -> Nat] /\ HEAD \in S /\ TAIL \in S /\ HEAD # TAIL
      /\ \A i \in Nodes : Line(i) \in file[i]
      /\ data[HEAD] = INT_MIN /\ data[TAIL] = INT_MAX
  BY DataNat, Numbers DEF RecoveryTypeOK, Sound
<1>2. next[TAIL] = LL_SIZE
  BY <1>1 DEF Sound, Line
<1>3. \A i \in S \ {TAIL} : /\ Succ(i) \in S /\ data[i] < data[Succ(i)]
                            /\ i = HEAD => ~ IsMarked(next[i])
  <2> SUFFICES ASSUME NEW i \in S \ {TAIL}
               PROVE  /\ Succ(i) \in S /\ data[i] < data[Succ(i)]
                      /\ i = HEAD => ~ IsMarked(next[i])
    OBVIOUS
  <2>1. PICK c \in file[i] : c = Line(i)
    BY <1>1
  <2>2. /\ Unmark(c[2]) \in S /\ data[i] < data[Unmark(c[2])]
        /\ i = HEAD => ~ IsMarked(c[2])
    BY DEF Sound
  <2>3. c[2] = next[i]
    BY <2>1 DEF Line
  <2> QED BY <2>2, <2>3 DEF Succ
<1>4. \A i \in S : data[i] <= INT_MAX
  <2>1. \A v \in Values \cup {0, INT_MIN, INT_MAX} : v <= INT_MAX
    <3>1. \A v \in Values : v \in Nat /\ v < INT_MAX
      BY ListAssumption
    <3> QED BY <3>1, Numbers
  <2> QED BY <2>1 DEF RecoveryTypeOK, ListTypeOK
<1>5. \A i \in S \ {TAIL} : data[i] < INT_MAX
  <2> SUFFICES ASSUME NEW i \in S \ {TAIL} PROVE data[i] < INT_MAX
    OBVIOUS
  <2>1. data[i] < data[Succ(i)] /\ data[Succ(i)] <= INT_MAX /\ Succ(i) \in Nodes
    BY <1>3, <1>4
  <2> QED BY <1>1, <2>1, Numbers
<1>6. \A i \in S : data[i] = INT_MAX => i = TAIL
  BY <1>1, <1>5, Numbers
<1> QED BY <1>1, <1>2, <1>3, <1>4, <1>6

\* The node after the one it stands on is taken, too.
LEMMA VisitNext ==
    ASSUME data \in [Nodes -> Nat], NEW V \in SUBSET Nodes, Visited(V), it # TAIL,
           NEW c \in Nodes, it' = c, data' = data,
           data[it] < data[c], data[c] <= data[TAIL], data[c] = data[TAIL] => c = TAIL,
           Unmark(next'[it]) = c, \A i \in Nodes \ {it} : next'[i] = next[i],
           NEW W, W = V \cup {c}
    PROVE  Visited(W)'
<1>1. /\ HEAD \in V /\ TAIL \in V /\ it \in V
      /\ \A i, j \in V : data[i] = data[j] => i = j
      /\ \A i \in V : INT_MIN <= data[i] /\ (data[i] <= data[it] \/ i = TAIL)
      /\ \A i \in V \ {TAIL, it} :
            /\ Unmark(next[i]) \in V /\ data[i] < data[Unmark(next[i])]
            /\ \A j \in V : data[j] <= data[i] \/ data[Unmark(next[i])] <= data[j]
  BY DEF Visited, Succ
<1>2. \A i \in Nodes : data[i] \in Nat
  OBVIOUS
<1>3. \A j \in V : data[j] = data[c] => j = c
  BY <1>1, <1>2
<1>4. \A i, j \in W : data[i] = data[j] => i = j
  BY <1>1, <1>3
<1>5. \A i \in W : INT_MIN <= data[i] /\ (data[i] <= data[c] \/ i = TAIL)
  BY <1>1, <1>2, Numbers
<1>6. ASSUME NEW i \in W \ {TAIL, c}
      PROVE  /\ Unmark(next'[i]) \in W /\ data[i] < data[Unmark(next'[i])]
             /\ \A j \in W : data[j] <= data[i] \/ data[Unmark(next'[i])] <= data[j]
  <2>1. CASE i = it
    <3>1. \A j \in W : data[j] <= data[it] \/ data[c] <= data[j]
      BY <1>1, <1>2
    <3> QED BY <2>1, <3>1
  <2>2. CASE i # it
    <3>1. i \in V /\ next'[i] = next[i]
      BY <1>6, <2>2
    <3>2. /\ Unmark(next[i]) \in V /\ data[i] < data[Unmark(next[i])]
          /\ \A j \in V : data[j] <= data[i] \/ data[Unmark(next[i])] <= data[j]
      BY <1>1, <1>6, <2>2, <3>1
    <3>3. data[Unmark(next[i])] <= data[it]
      <4>1. data[it] <= data[i] \/ data[Unmark(next[i])] <= data[it]
        BY <1>1, <3>2
      <4>2. data[i] <= data[it] /\ data[i] # data[it]
        BY <1>1, <1>6, <2>2, <3>1
      <4> QED BY <1>1, <1>2, <3>1, <4>1, <4>2
    <3>4. data[Unmark(next[i])] <= data[c]
      BY <1>1, <1>2, <3>2, <3>3
    <3> QED BY <3>1, <3>2, <3>4
  <2> QED BY <2>1, <2>2
<1> QED BY <1>1, <1>4, <1>5, <1>6 DEF Visited, Succ

\* What recover() stores: the node it is at leads to another one, further up.
LEMMA RecoverNodeStores ==
    ASSUME RecoveryTypeOK, RecoverNode, NEW S \in SUBSET Nodes, Sound(S), it \in S
    PROVE  /\ Unmark(next'[it]) \in S /\ data[it] < data[Unmark(next'[it])]
           /\ next'[it] \in MarkedIndexes /\ (it = HEAD => ~ IsMarked(next'[it]))
           /\ next' = [next EXCEPT ![it] = next'[it]]
           /\ next'[it] = next[it] \/ MustPersist(0, {it}, FALSE)
           /\ MustPersist(0, {it}, FALSE) \/ UNCHANGED <<todo, todoLog>>
<1> DEFINE n == Unmarked(it)
<1>1. /\ data \in [Nodes -> Nat] /\ next[TAIL] = LL_SIZE /\ ~ IsMarked(next[HEAD])
      /\ \A i \in S \ {TAIL} : Succ(i) \in S /\ data[i] < data[Succ(i)]
  BY SoundNodes
<1>2. n \in S /\ data[it] <= data[n]
  BY <1>1, UnmarkedUp
<1> HIDE DEF n
<1>3. /\ it # TAIL /\ it \in Nodes /\ next \in [Nodes -> MarkedIndexes]
  BY DEF RecoverNode, RecoveryTypeOK, ListTypeOK
<1>4. IF IsMarked(next[it]) /\ n # TAIL
      THEN next' = [next EXCEPT ![it] = next[n]] /\ MustPersist(0, {it}, FALSE)
      ELSE UNCHANGED <<next, todo, todoLog>>
  BY DEF RecoverNode, n
<1>5. CASE IsMarked(next[it]) /\ n # TAIL
  <2>1. /\ next' = [next EXCEPT ![it] = next[n]] /\ next'[it] = next[n]
        /\ MustPersist(0, {it}, FALSE)
    BY <1>3, <1>4, <1>5
  <2>2. Unmark(next[n]) \in S /\ data[n] < data[Unmark(next[n])]
    BY <1>1, <1>2, <1>5 DEF Succ
  <2>3. data[it] < data[Unmark(next[n])]
    <3>1. data[it] \in Nat /\ data[n] \in Nat /\ data[Unmark(next[n])] \in Nat
      BY <1>1, <1>2, <1>3, <2>2
    <3> QED BY <1>2, <2>2, <3>1
  <2>4. it # HEAD /\ n \in Nodes
    BY <1>1, <1>2, <1>5
  <2> QED BY <1>3, <2>1, <2>2, <2>3, <2>4
<1>6. CASE ~ (IsMarked(next[it]) /\ n # TAIL)
  <2>1. next' = next /\ UNCHANGED <<todo, todoLog>>
    BY <1>4, <1>6
  <2>2. Unmark(next[it]) \in S /\ data[it] < data[Unmark(next[it])]
    BY <1>1, <1>3 DEF Succ
  <2>3. it = HEAD => ~ IsMarked(next[it])
    BY <1>1
  <2> QED BY <1>3, <2>1, <2>2, <2>3
<1> QED BY <1>5, <1>6

LEMMA RecoverNodeStep == RecoveryInv /\ RecoverNode => RecoveryInv'
<1> SUFFICES ASSUME RecoveryInv, RecoverNode PROVE RecoveryInv'
  OBVIOUS
<1>1. /\ mode = "recover" /\ it # TAIL /\ Ready(0)
      /\ bm' = bm \ {Unmark(next'[it])} /\ it' = Unmark(next'[it])
      /\ UNCHANGED <<data, pc, call, result, searchVars, right_idx, new_elem, word,
                     calls, seen, ebrVars, useVars, build, tlog, logFile, mode,
                     before, pending, logged, crashes>>
      /\ StoreNodes
  BY DEF RecoverNode
<1>2. /\ RecoveryTypeOK /\ MemoryTypes /\ ListTypeOK /\ Recovering /\ AllDurable
      /\ it \in Nodes /\ bm \subseteq Nodes
  BY <1>1, TypesSplit DEF RecoveryInv, RecoveryTypeOK, ListTypeOK, EbrTypeOK
<1>3. PICK S \in SUBSET Nodes : Sound(S) /\ Nodes \ bm \subseteq S
  BY <1>2 DEF Recovering
<1>4. PICK V : V = Nodes \ bm
  OBVIOUS
<1>5. Visited(V) /\ it \in V /\ V \subseteq S
  BY <1>2, <1>3, <1>4 DEF Recovering, Visited
<1>6. /\ data \in [Nodes -> Nat] /\ HEAD \in S /\ TAIL \in S /\ data[TAIL] = INT_MAX
      /\ \A i \in S : data[i] <= INT_MAX /\ (data[i] = INT_MAX => i = TAIL)
  BY <1>2, <1>3, SoundNodes
<1>7. PICK c : c = Unmark(next'[it])
  OBVIOUS
<1>8. /\ c \in S /\ data[it] < data[c]
      /\ next'[it] \in MarkedIndexes /\ (it = HEAD => ~ IsMarked(next'[it]))
      /\ next' = [next EXCEPT ![it] = next'[it]]
      /\ next'[it] = next[it] \/ MustPersist(0, {it}, FALSE)
      /\ MustPersist(0, {it}, FALSE) \/ UNCHANGED <<todo, todoLog>>
  BY <1>2, <1>3, <1>5, <1>7, RecoverNodeStores
<1>9. \A i \in Nodes \ {it} : next'[i] = next[i] /\ file'[i] = file[i]
  <2>1. \A i \in Nodes \ {it} : next'[i] = next[i]
    BY <1>2, <1>8 DEF ListTypeOK
  <2>2. ASSUME NEW i \in Nodes \ {it} PROVE file'[i] = file[i]
    <3>1. Line(i)' = Line(i)
      BY <1>1, <2>1 DEF Line
    <3> QED BY <1>1, <1>2, <3>1, StoreAdds
  <2> QED BY <2>1, <2>2
<1>10. PICK k : k = it
  OBVIOUS
<1>11a. /\ Line(k)' = <<data[k], next'[k]>> /\ k \in Nodes
      /\ file'[k] \subseteq file[k] \cup {Line(k)'}
  <2>1. k \in Nodes /\ Line(k)' = <<data[k], next'[k]>>
    BY <1>1, <1>2, <1>10 DEF Line
  <2> QED BY <1>1, <1>2, <2>1, StoreAdds
<1>11. Sound(S)'
  <2>1. TAIL \in Nodes \ {it} /\ file'[TAIL] = file[TAIL]
    BY <1>1, <1>6, <1>9
  <2>2. ASSUME NEW i \in S \ {TAIL}, NEW e \in file'[i]
        PROVE  /\ e[1] = data[i]
               /\ Unmark(e[2]) \in S /\ data[i] < data[Unmark(e[2])]
               /\ i = HEAD => ~ IsMarked(e[2])
    <3>1. CASE e \in file[i]
      BY <1>3, <2>2, <3>1 DEF Sound
    <3>2. CASE e \notin file[i]
      <4>1. i = it
        BY <1>9, <2>2, <3>2
      <4>2. e = <<data[it], next'[it]>>
        BY <1>10, <1>11a, <2>2, <3>2, <4>1
      <4> QED BY <1>7, <1>8, <4>1, <4>2
    <3> QED BY <3>1, <3>2
  <2> QED BY <1>1, <1>3, <2>1, <2>2 DEF Sound
<1>12. Visited(Nodes \ bm)'
  <2>1. c \in Nodes /\ data[c] <= data[TAIL] /\ (data[c] = data[TAIL] => c = TAIL)
    BY <1>6, <1>8
  <2>2. PICK W : W = V \cup {c}
    OBVIOUS
  <2>3. Visited(W)'
    BY <1>1, <1>2, <1>4, <1>5, <1>6, <1>7, <1>8, <1>9, <2>1, <2>2, VisitNext
  <2>4. Nodes \ bm' = W
    BY <1>1, <1>4, <1>7, <2>1, <2>2
  <2> QED BY <2>3, <2>4 DEF Visited
<1>13. \A i \in Nodes : Durable(i)' \/ i \in todo'[0]
  <2>1. \A i \in Nodes : Durable(i)
    BY <1>1, <1>2 DEF Recovering, Ready
  <2>2. \A i \in Nodes \ {it} : Durable(i)'
    BY <1>1, <1>9, <2>1 DEF Durable, Line
  <2>3. CASE next'[it] = next[it]
    <3>1. Line(k)' = Line(k)
      BY <1>10, <1>11a, <2>3 DEF Line
    <3>2. file'[k] = file[k]
      BY <1>1, <1>2, <1>11a, <3>1, StoreAdds
    <3>3. Durable(k)'
      BY <1>11a, <2>1, <3>1, <3>2 DEF Durable
    <3> QED BY <1>10, <2>2, <3>3
  <2>4. CASE MustPersist(0, {it}, FALSE)
    <3>1. adr => todo'[0] = {it}
      BY <1>2, <2>4, MainThread DEF MustPersist, MemoryTypes
    <3>2. ~ adr => Durable(k)'
      BY <1>1, <1>11a DEF StoreNodes, Durable
    <3> QED BY <1>10, <2>2, <3>1, <3>2
  <2> QED BY <1>8, <2>3, <2>4
<1>14. ListTypeOK'
  <2>1. bm' \in SUBSET Nodes /\ next' \in [Nodes -> MarkedIndexes]
    BY <1>1, <1>2, <1>8 DEF ListTypeOK
  <2> QED BY <1>1, <1>2, <2>1 DEF ListTypeOK, EbrTypeOK, searchVars, ebrVars, useVars
<1>15. /\ todo' \in [Threads -> SUBSET Nodes] /\ todoLog' \in [Threads -> BOOLEAN]
       /\ ~ adr => \A t \in Threads : todo'[t] = {} /\ ~ todoLog'[t]
  <2>1. CASE MustPersist(0, {it}, FALSE)
    <3>1. {it} \in SUBSET Nodes /\ FALSE \in BOOLEAN
      BY <1>2
    <3> QED BY <1>2, <2>1, <3>1, MainThread, MustPersistTypes
  <2>2. CASE UNCHANGED <<todo, todoLog>>
    BY <1>2, <2>2 DEF MemoryTypes, AllDurable
  <2> QED BY <1>8, <2>1, <2>2
<1>16. /\ file' \in [Nodes -> SUBSET Lines] /\ \A i \in Nodes : Line(i)' \in file'[i]
       /\ ~ adr => \A i \in Nodes : file'[i] = {Line(i)'}
  BY <1>1, <1>2, <1>14, StoreNodesTypes
<1>17. Fresh'
  BY <1>1, <1>2 DEF Recovering, Fresh, ebrVars, useVars, searchVars
<1>18. Recovering'
  BY <1>1, <1>3, <1>4, <1>5, <1>7, <1>8, <1>11, <1>12, <1>13, <1>17 DEF Recovering
<1>19. RecoveryTypeOK'
  <2>1. it' \in Nodes
    BY <1>1, <1>7, <1>8
  <2> QED BY <1>1, <1>2, <1>14, <1>15, <1>16, <2>1 DEF RecoveryTypeOK, MemoryTypes, Lines
<1>20. Redoing' /\ AllDurable'
  BY <1>1, <1>15, <1>16 DEF Redoing, AllDurable, Durable, adr
<1> QED BY <1>1, <1>18, <1>19, <1>20 DEF RecoveryInv

\* Nothing else is going on but the drains.
LEMMA OnlyPersist ==
    ASSUME RecoveryInv, mode = "recover", NEW t \in Threads, RStep(t) \/ RCall(t)
    PROVE  Persist(t)
<1>1. pc[t] = "idle" /\ ebr_pc[t] = "out" /\ ListTypeOK
  BY TypesSplit DEF RecoveryInv, Recovering, Fresh
<1>2. ~ RCall(t)
  BY DEF RCall
<1> QED BY <1>1, <1>2, OthersStay

LEMMA RecoverPersistStep ==
    ASSUME RecoveryInv, mode = "recover", NEW t \in Threads, Persist(t)
    PROVE  RecoveryInv'
<1>1. /\ RecoveryTypeOK /\ MemoryTypes /\ ListTypeOK /\ Recovering /\ AllDurable /\ Redoing
  BY TypesSplit DEF RecoveryInv
<1>2. /\ UNCHANGED <<vars, build, recVars, crashes>>
  BY DEF Persist
<1>3. ListTypeOK'
  BY <1>1, <1>2
  DEF ListTypeOK, EbrTypeOK, vars, listVars, searchVars, nodeVars, ebrVars, useVars
<1>4. MemoryTypes' /\ AllDurable'
  BY <1>1, <1>3, PersistTypes
<1>5. RecoveryTypeOK'
  BY <1>1, <1>2, <1>3, <1>4, TypesSplit DEF recVars
<1>6. PICK S \in SUBSET Nodes : Sound(S) /\ Nodes \ bm \subseteq S
  BY <1>1 DEF Recovering
<1>7. Sound(S)'
  BY <1>1, <1>6, PersistSound
<1>8. \A i \in Nodes : Durable(i)' \/ i \in todo'[0]
  <2>1. \A i \in Nodes : Durable(i) \/ i \in todo[0]
    BY <1>1 DEF Recovering
  <2> QED BY <1>1, <2>1, MainThread, PersistDurable
<1>9. Fresh' /\ Visited(Nodes \ bm)'
  BY <1>1, <1>2
  DEF Recovering, Fresh, Visited, Succ, vars, listVars, searchVars, nodeVars, ebrVars,
      useVars, recVars
<1>10. Recovering'
  BY <1>2, <1>6, <1>7, <1>8, <1>9 DEF Recovering, vars, nodeVars
<1> QED BY <1>1, <1>2, <1>4, <1>5, <1>10 DEF RecoveryInv, Redoing, recVars

------------------------------------------------------------------------------
(* The list is there again.                                                 *)

AllIdle ==
    \A t \in Threads :
        /\ pc[t] = "idle" /\ ebr_pc[t] = "out" /\ call[t] = Idle /\ result[t] = "none"
        /\ cur[t] = 0 /\ cur_next[t] = 0 /\ left[t] = 0 /\ left_next[t] = 0
        /\ right_idx[t] = 0 /\ new_elem[t] = 0
        /\ owned[t] = {} /\ detached[t] = {}

LEMMA IdleListInv == ListTypeOK /\ InOrder /\ AllIdle => ListInv
<1> SUFFICES ASSUME ListTypeOK, InOrder, AllIdle PROVE ListInv
  OBVIOUS
<1>1. HeldReached /\ Traversable /\ Witnessed
  BY DEF AllIdle, InOp, HeldReached, Traversable, Witnessed
<1>2. ASSUME NEW t \in Threads PROVE Local(t)
  BY DEF AllIdle, Local, Phase, Decided, Cleared, Owning, Walked, Found, Reclaiming,
         InOp, Searching, Adding, Removing
<1> QED BY <1>1, <1>2 DEF ListInv

LEMMA IdleListInvNext == ListTypeOK' /\ InOrder' /\ AllIdle' => ListInv'
<1>1. (ListTypeOK /\ InOrder /\ AllIdle => ListInv)'
  BY IdleListInv, PTL
<1> QED BY <1>1

EbrBegins == \E S \in SUBSET Nodes : EbrInit(S)
LEMMA BeginsEbrInv == EbrBegins => EbrInv
BY InitEbrInv DEF EbrBegins

LEMMA InitEbrInvNext ==
    ASSUME NEW S \in SUBSET Nodes, EbrInit(S)'
    PROVE  EbrInv'
<1>1. (EbrBegins => EbrInv)'
  BY BeginsEbrInv, PTL
<1>2. EbrBegins'
  BY DEF EbrBegins
<1> QED BY <1>1, <1>2

\* A list in order of which all is durable is sound.
LEMMA SortedSound ==
    ASSUME NEW V \in SUBSET Nodes, SortedList(next, data, V), next[TAIL] = LL_SIZE,
           ~ IsMarked(next[HEAD]), \A i \in V : file[i] = {Line(i)}
    PROVE  Sound(V)
<1>1. /\ HEAD \in V /\ data[HEAD] = INT_MIN /\ TAIL \in V /\ data[TAIL] = INT_MAX
      /\ \A i \in V \ {TAIL} : Unmark(next[i]) \in V /\ data[i] < data[Unmark(next[i])]
  BY DEF SortedList
<1>2. file[TAIL] = {<<INT_MAX, LL_SIZE>>}
  BY <1>1 DEF Line
<1>3. \A i \in V \ {TAIL} : \A c \in file[i] : c = <<data[i], next[i]>>
  BY DEF Line
<1> QED BY <1>1, <1>2, <1>3 DEF Sound

LEMMA RecoveredListStep == RecoveryInv /\ RecoveredList => RecoveryInv'
<1> SUFFICES ASSUME RecoveryInv, RecoveredList PROVE RecoveryInv'
  OBVIOUS
<1>1. /\ mode = "recover" /\ it = TAIL /\ Ready(0)
      /\ mode' = (IF adr THEN "redo" ELSE "run") /\ it' = 0 /\ linked' = Reachable
      /\ UNCHANGED <<listVars, bm, ebrVars, reach, detached, owned, durVars, before,
                     pending, logged, crashes>>
  BY DEF RecoveredList
<1>2. /\ RecoveryTypeOK /\ MemoryTypes /\ ListTypeOK /\ Recovering /\ AllDurable
      /\ bm \subseteq Nodes
  BY <1>1, TypesSplit DEF RecoveryInv, RecoveryTypeOK, ListTypeOK, EbrTypeOK
<1>3. PICK S \in SUBSET Nodes : Sound(S) /\ Nodes \ bm \subseteq S
  BY <1>2 DEF Recovering
<1>4. PICK V : V = Nodes \ bm
  OBVIOUS
<1>5. Visited(V) /\ V \in SUBSET Nodes /\ V \subseteq S
  BY <1>2, <1>3, <1>4 DEF Recovering, Visited
<1>6. /\ data \in [Nodes -> Nat] /\ next[TAIL] = LL_SIZE /\ ~ IsMarked(next[HEAD])
      /\ data[HEAD] = INT_MIN /\ data[TAIL] = INT_MAX
      /\ \A i \in S : data[i] <= INT_MAX
  BY <1>2, <1>3, SoundNodes
<1>7. SortedList(next, data, V)
  <2>1. /\ HEAD \in V /\ TAIL \in V
        /\ \A i, j \in V : data[i] = data[j] => i = j
        /\ \A i \in V : INT_MIN <= data[i]
        /\ \A i \in V \ {TAIL} :
              /\ Unmark(next[i]) \in V /\ data[i] < data[Unmark(next[i])]
              /\ \A j \in V : data[j] <= data[i] \/ data[Unmark(next[i])] <= data[j]
    BY <1>1, <1>5 DEF Visited, Succ
  <2> QED BY <1>5, <1>6, <2>1 DEF SortedList
<1>8. linked' = V
  BY <1>1, <1>5, <1>6, <1>7, SortedIsReachable DEF Reachable
<1>9. Fresh
  BY <1>2 DEF Recovering
<1>10. EbrInv'
  <2>1. bm = Nodes \ V
    BY <1>2, <1>4
  <2>2. EbrInit(V)'
    BY <1>1, <1>8, <1>9, <2>1 DEF Fresh, EbrInit, ebrVars
  <2> QED BY <1>5, <2>2, InitEbrInvNext
<1>11. ListInv'
  <2>1. ListTypeOK'
    <3>1. EbrTypeOK'
      BY <1>10 DEF EbrInv
    <3> QED BY <1>1, <1>2, <3>1 DEF ListTypeOK, listVars, searchVars
  <2>2. InOrder'
    BY <1>1, <1>6, <1>7, <1>8 DEF InOrder, listVars
  <2>3. AllIdle'
    BY <1>1, <1>9 DEF Fresh, AllIdle, listVars, searchVars, ebrVars
  <2> QED BY <2>1, <2>2, <2>3, IdleListInvNext
<1>12. \A i \in Nodes : file[i] = {Line(i)}
  BY <1>1, <1>2 DEF Recovering, Ready, Durable
<1>13. Live' = V
  <2>1. \A t \in Threads : reach'[t] = {}
    BY <1>1, <1>9 DEF Fresh
  <2> QED BY <1>8, <2>1 DEF Live
<1>14. Working'
  <2>1. Sound(V)
    BY <1>5, <1>6, <1>7, <1>12, SortedSound
  <2>2. Sound(V)'
    BY <1>1, <2>1 DEF Sound, listVars, durVars
  <2>3. Sound(Live)'
    BY <1>13, <2>2 DEF Sound
  <2>4. \A i \in Nodes : file'[i] = {Line(i)'}
    BY <1>1, <1>12 DEF listVars, durVars, Line
  <2>5. \A i \in Live' : Overwritten(i)'
    BY <1>5, <1>13, <2>4 DEF Overwritten
  <2>6. \A t \in Threads : owned'[t] = {}
    BY <1>1, <1>9 DEF Fresh
  <2> QED BY <1>10, <1>11, <2>3, <2>5, <2>6 DEF Working
<1>15. RecoveryTypeOK'
  <2>1. MemoryTypes'
    BY <1>1, <1>2 DEF MemoryTypes, durVars, listVars, Line
  <2>2. ListTypeOK'
    BY <1>11 DEF ListInv
  <2>3. 0 \in 0 .. MAX_THREADS
    BY MainThread
  <2> QED BY <1>1, <1>2, <2>1, <2>2, <2>3 DEF RecoveryTypeOK, MemoryTypes, Lines, durVars
<1>16. Redoing' /\ AllDurable'
  <2>1. adr' = adr /\ \A t \in Threads : pc'[t] = "idle"
    BY <1>1, <1>9 DEF adr, durVars, listVars, Fresh
  <2>2. AllDurable'
    BY <1>1, <1>2 DEF AllDurable, Durable, Line, adr, durVars, listVars
  <2> QED BY <1>1, <2>1, <2>2 DEF Redoing
<1>17. mode' # "recover"
  BY <1>1
<1> QED BY <1>14, <1>15, <1>16, <1>17 DEF RecoveryInv

------------------------------------------------------------------------------
(* recover(): the logs.                                                     *)

\* A request of the logs is carried out like that of a caller.
LEMMA RedoCallStep == RecoveryInv /\ RedoCall => RecoveryInv'
<1> SUFFICES ASSUME RecoveryInv, RedoCall PROVE RecoveryInv'
  OBVIOUS
<1>1. /\ mode = "redo" /\ it < MAX_THREADS /\ tlog[it] # Idle
      /\ mode' = "redoing"
      /\ pc' = [pc EXCEPT ![0] = "start"]
      /\ call' = [call EXCEPT ![0] = tlog[it]]
      /\ seen' = [seen EXCEPT ![0] = {Where(tlog[it].val, Set)}]
      /\ StartLoad(0)
      /\ UNCHANGED <<data, next, result, searchVars, right_idx, new_elem, word, calls,
                     durVars, it, before, pending, logged, crashes>>
  BY DEF RedoCall
<1>2. /\ RecoveryTypeOK /\ MemoryTypes /\ Working /\ Redoing /\ AllDurable
      /\ ListInv /\ EbrInv /\ ListTypeOK /\ EbrTypeOK
  BY <1>1, TypesSplit DEF RecoveryInv, Working, EbrInv
<1>3. 0 \in Threads /\ it \in Threads /\ it # MAX_THREADS
  BY <1>1, <1>2, MainThread DEF RecoveryTypeOK, Threads
<1>4. PICK r \in Requests : r = tlog[it]
  BY <1>1, <1>2, <1>3 DEF MemoryTypes
<1>5. EbrInv'
  <2>1. EbrNext
    BY <1>1, <1>2, <1>3, UseIsEbr
  <2> QED BY <1>2, <2>1, StepEbrInv
<1>6. ListInv'
  <2>1. Goto(0, "idle", "start")
    BY <1>1, <1>2, <1>3 DEF Redoing, Goto
  <2>2. calls' \in [Threads -> Nat]
    BY <1>1, <1>2 DEF ListTypeOK
  <2> QED BY <1>1, <1>2, <1>3, <1>4, <1>5, <2>1, <2>2, EnterInv
<1>7. Working'
  <2>1. UNCHANGED <<data, next, file, todo, linked, reach, owned, left>>
    BY <1>1 DEF StartLoad, useVars, searchVars, durVars
  <2>2. pc[0] = "idle" /\ pc = [t \in Threads |-> pc[t]]
    BY <1>1, <1>2, <1>3 DEF Redoing, ListTypeOK
  <2>3. \A t \in Threads : Unflushed(t)' = Unflushed(t)
    BY <1>1, <2>1, <2>2 DEF Unflushed
  <2> QED BY <1>2, <1>5, <1>6, <2>1, <2>3, KeptWorking
<1>8. RecoveryTypeOK'
  <2>1. MemoryTypes'
    BY <1>1, <1>2 DEF MemoryTypes, durVars, Line
  <2>2. ListTypeOK'
    BY <1>6 DEF ListInv
  <2> QED BY <1>1, <1>2, <1>3, <2>1, <2>2
      DEF RecoveryTypeOK, MemoryTypes, Lines, durVars, Threads
<1>9. Redoing'
  <2>1. \A t \in Threads \ {0} : pc'[t] = "idle"
    BY <1>1, <1>2 DEF Redoing, ListTypeOK
  <2> QED BY <1>1, <1>2, <1>3, <2>1 DEF Redoing, adr, durVars
<1>10. AllDurable'
  BY <1>1, <1>2 DEF AllDurable, Durable, Line, adr, durVars
<1> QED BY <1>1, <1>7, <1>8, <1>9, <1>10 DEF RecoveryInv

\* From one log to the next one.
LEMMA LogsDoneStep ==
    ASSUME RecoveryInv, RedoClear \/ RedoSkip \/ RedoDone
    PROVE  RecoveryInv'
<1>1. /\ mode \in {"redo", "redoing"} /\ mode' \in {"redo", "run"}
      /\ UNCHANGED <<vars, build, file, todo, before, pending, logged, crashes>>
  BY DEF RedoClear, RedoSkip, RedoDone, durVars
<1>2. /\ RecoveryTypeOK /\ MemoryTypes /\ Working /\ Redoing /\ AllDurable
      /\ ListInv /\ EbrInv /\ adr /\ it \in 0 .. MAX_THREADS
  BY <1>1, TypesSplit DEF RecoveryInv, Working, Redoing, RecoveryTypeOK
<1>3. \A t \in Threads : pc[t] = "idle"
  BY <1>2 DEF Redoing, RedoClear, RedoSkip, RedoDone
<1>4. ListInv' /\ EbrInv'
  BY <1>1, <1>2, ListStep
<1>5. Working'
  <2>1. UNCHANGED <<data, next, file, todo, linked, reach, owned, pc, left>>
    BY <1>1 DEF vars, listVars, searchVars, nodeVars, useVars
  <2>2. \A t \in Threads : Unflushed(t)' = Unflushed(t)
    BY <2>1 DEF Unflushed
  <2> QED BY <1>2, <1>4, <2>1, <2>2, KeptWorking
<1>6. it' \in 0 .. MAX_THREADS
  BY <1>2, MainThread DEF Redoing, RedoClear, RedoSkip, RedoDone
<1>7. /\ tlog' \in [Threads -> Requests \cup {Idle}]
      /\ logFile' \in [Threads -> SUBSET (Requests \cup {Idle})]
      /\ \A t \in Threads : tlog'[t] \in logFile'[t]
      /\ todoLog' \in [Threads -> BOOLEAN]
  <2>1. CASE RedoClear
    <3>1. it \in Threads /\ Idle \in Requests \cup {Idle}
      BY <1>2, <2>1, MainThread DEF RedoClear, Redoing, Threads
    <3>2. StoreLog(it, Idle) /\ todoLog' = [todoLog EXCEPT ![it] = TRUE]
      BY <2>1 DEF RedoClear
    <3> QED BY <1>2, <3>1, <3>2, StoreLogTypes DEF MemoryTypes
  <2>2. CASE RedoSkip \/ RedoDone
    BY <1>2, <2>2 DEF RedoSkip, RedoDone, durVars, MemoryTypes
  <2> QED BY <2>1, <2>2
<1>8. RecoveryTypeOK'
  <2>1. \A i \in Nodes : Line(i)' = Line(i)
    BY <1>1 DEF vars, listVars, Line
  <2>2. MemoryTypes'
    BY <1>1, <1>2, <1>7, <2>1 DEF MemoryTypes
  <2>3. ListTypeOK'
    BY <1>4 DEF ListInv
  <2> QED BY <1>1, <1>2, <1>6, <2>2, <2>3 DEF RecoveryTypeOK, MemoryTypes, Lines
<1>9. Redoing' /\ AllDurable'
  BY <1>1, <1>2, <1>3 DEF Redoing, AllDurable, adr, vars, listVars
<1> QED BY <1>1, <1>5, <1>8, <1>9 DEF RecoveryInv

------------------------------------------------------------------------------
(* The invariant holds.                                                     *)

LEMMA StutterRecoveryInv == RecoveryInv /\ UNCHANGED rvars => RecoveryInv'
<1> SUFFICES ASSUME RecoveryInv, UNCHANGED rvars PROVE RecoveryInv'
  OBVIOUS
<1>1. UNCHANGED <<vars, durVars, recVars, crashes>>
  BY DEF rvars
<1>2. /\ UNCHANGED <<data, next, pc, build, tlog, file, logFile, todo, todoLog, mode,
                     it, before, pending, logged, crashes, bm, linked, reach, owned, left>>
  BY <1>1 DEF vars, listVars, searchVars, nodeVars, useVars, durVars, recVars
<1>3. RecoveryTypeOK'
  <2>1. ListTypeOK'
    BY <1>1
    DEF RecoveryInv, RecoveryTypeOK, ListTypeOK, EbrTypeOK, vars, listVars, searchVars,
        nodeVars, ebrVars, useVars
  <2> QED BY <1>2, <2>1 DEF RecoveryInv, RecoveryTypeOK, Line
<1>4. Redoing' /\ AllDurable'
  BY <1>2 DEF RecoveryInv, Redoing, AllDurable, Durable, Line, adr
<1>5. CASE mode = "recover"
  <2>1. Recovering
    BY <1>5 DEF RecoveryInv
  <2>2. Fresh' /\ Visited(Nodes \ bm)'
    BY <1>1, <2>1
    DEF Recovering, Fresh, Visited, Succ, vars, listVars, searchVars, nodeVars, ebrVars,
        useVars, recVars
  <2>3. PICK S \in SUBSET Nodes : Sound(S) /\ Nodes \ bm \subseteq S
    BY <2>1 DEF Recovering
  <2>4. Sound(S)'
    BY <1>2, <2>3 DEF Sound
  <2>5. \A i \in Nodes : Durable(i)' \/ i \in todo'[0]
    BY <1>2, <2>1 DEF Recovering, Durable, Line
  <2>6. Recovering'
    BY <1>2, <2>2, <2>3, <2>4, <2>5 DEF Recovering
  <2> QED BY <1>2, <1>3, <1>4, <1>5, <2>6 DEF RecoveryInv
<1>6. CASE mode # "recover"
  <2>1. Working
    BY <1>6 DEF RecoveryInv
  <2>2. ListInv' /\ EbrInv'
    BY <1>1, <2>1, ListStep DEF Working
  <2>3. \A t \in Threads : Unflushed(t)' = Unflushed(t)
    BY <1>2 DEF Unflushed
  <2>4. Working'
    BY <1>2, <2>1, <2>2, <2>3, KeptWorking
  <2> QED BY <1>2, <1>3, <1>4, <1>6, <2>4 DEF RecoveryInv
<1> QED BY <1>5, <1>6

LEMMA RecoveryStep == RecoveryInv /\ [RecoveryNext /\ ~ SegFault]_rvars => RecoveryInv'
<1> SUFFICES ASSUME RecoveryInv, [RecoveryNext /\ ~ SegFault]_rvars PROVE RecoveryInv'
  OBVIOUS
<1>1. CASE UNCHANGED rvars \/ RFinished
  BY <1>1, StutterRecoveryInv DEF RFinished
<1>2. CASE Crash
  BY <1>2, CrashStep
<1>3. CASE RecoverNode \/ RecoveredList
  BY <1>3, RecoverNodeStep, RecoveredListStep
<1>4. CASE RedoCall \/ RedoClear \/ RedoSkip \/ RedoDone
  BY <1>4, RedoCallStep, LogsDoneStep
<1>5. ASSUME NEW t \in Threads, RStep(t) \/ RCall(t) PROVE RecoveryInv'
  <2>1. CASE mode = "recover"
    BY <1>5, <2>1, OnlyPersist, RecoverPersistStep
  <2>2. CASE mode # "recover"
    BY <1>5, <2>2, WorkStep
  <2> QED BY <2>1, <2>2
<1> QED BY <1>1, <1>2, <1>3, <1>4, <1>5 DEF RecoveryNext, Recovery

LEMMA InitRecoveryInv == RecoveryInit => RecoveryInv
<1> SUFFICES ASSUME RecoveryInit PROVE RecoveryInv
  OBVIOUS
<1>1. /\ Init /\ build \in Builds
      /\ tlog = [t \in Threads |-> Idle]
      /\ file = [i \in Nodes |-> {Line(i)}]
      /\ logFile = [t \in Threads |-> {Idle}]
      /\ todo = [t \in Threads |-> {}]
      /\ todoLog = [t \in Threads |-> FALSE]
      /\ mode = "run" /\ it = 0 /\ before = {} /\ pending = {} /\ logged = {}
      /\ crashes = 0
  BY DEF RecoveryInit
<1>2. ListInv /\ ListTypeOK /\ InOrder
  BY <1>1, InitListInv DEF ListInv
<1>3. InitialNodes \in SUBSET Nodes /\ EbrInit(InitialNodes)
  BY <1>1, InitialFits DEF Init
<1>4. EbrInv
  BY <1>3, InitEbrInv
<1>5. \A t \in Threads : owned[t] = {}
  BY <1>3 DEF EbrInit
<1>6. Live = InitialNodes /\ linked = InitialNodes
  <2>1. \A t \in Threads : reach[t] = {}
    BY <1>3 DEF EbrInit
  <2> QED BY <1>3, <2>1 DEF Live, EbrInit
<1>7. \A i \in Nodes : file[i] = {Line(i)}
  BY <1>1
<1>8. Sound(InitialNodes)
  <2>1. /\ SortedList(next, data, InitialNodes) /\ next[TAIL] = LL_SIZE
        /\ ~ IsMarked(next[HEAD])
    BY <1>2, <1>6 DEF InOrder
  <2> QED BY <1>3, <1>7, <2>1, SortedSound
<1>9. Working
  <2>1. \A i \in Live : Overwritten(i)
    BY <1>3, <1>6, <1>7 DEF Overwritten
  <2> QED BY <1>2, <1>4, <1>5, <1>6, <1>8, <2>1 DEF Working
<1>10. RecoveryTypeOK
  <2>1. \A i \in Nodes : Line(i) \in Lines
    BY <1>2, LineType
  <2>2. file \in [Nodes -> SUBSET Lines]
    BY <1>1, <2>1
  <2>3. 0 \in 0 .. MAX_THREADS
    BY MainThread
  <2> QED BY <1>1, <1>2, <1>7, <2>2, <2>3 DEF RecoveryTypeOK, Lines
<1>11. Redoing /\ AllDurable
  BY <1>1, <1>7 DEF Redoing, AllDurable, Durable
<1> QED BY <1>1, <1>9, <1>10, <1>11 DEF RecoveryInv

LEMMA WellRecovered == RecoveryInv => RecoveredWell
<1> SUFFICES ASSUME RecoveryInv, mode = "run" PROVE Linked /\ NodeOwners
  BY DEF RecoveredWell
<1>1. ListInv /\ EbrInv
  BY DEF RecoveryInv, Working
<1> QED BY <1>1, InOrderLinked DEF ListInv, EbrInv

\* Whatever a crash leaves is a list recover() can go through: a node is flushed
\* before it is linked in, no store makes a list run back, what memory may still
\* hold of a store written over belongs to a thread that has yet to flush it, so
\* that no node is reused before, and of the nodes that recover() has come by it
\* makes a list in order again.  In both builds, with crashes of the machine at
\* any step of the calls and of recover(), as long as recover() does not die in
\* retire().
THEOREM RecoveryInvariance == UnfailingSpec => []RecoveryInv
BY InitRecoveryInv, RecoveryStep, PTL DEF UnfailingSpec

\* Every variable keeps its type, the contents that memory may hold of a node
\* and the iterator of recover() included, as long as recover() does not die in
\* retire().
THEOREM RecoveryTypeCorrect == UnfailingSpec => []RecoveryTypeOK
<1>1. RecoveryInv => RecoveryTypeOK
  BY DEF RecoveryInv
<1> QED BY <1>1, RecoveryInvariance, PTL

\* When recover() is through, the list is in order, ends, and has exactly the
\* nodes that the bitmap has taken; and so it stays, wherever the machine stops
\* and however often, as long as recover() does not die in retire(): what then
\* becomes of it is not said here (with two logs, a circle).
THEOREM RecoveredAlways == UnfailingSpec => []RecoveredWell
BY WellRecovered, RecoveryInvariance, PTL

------------------------------------------------------------------------------
(* With eADR nothing is logged, so that recover() carries out nothing.       *)

\* The program is not built again.
LEMMA BuildStays == [RecoveryNext]_rvars => build' = build
<1> SUFFICES ASSUME [RecoveryNext]_rvars PROVE build' = build
  OBVIOUS
<1>1. CASE UNCHANGED rvars \/ RFinished
  BY <1>1 DEF RFinished, rvars, durVars
<1>2. CASE Crash \/ SegFault
  BY <1>2 DEF Crash, SegFault, Restart
<1>3. CASE RecoverNode \/ RecoveredList \/ RedoCall \/ RedoClear \/ RedoSkip \/ RedoDone
  BY <1>3 DEF RecoverNode, RecoveredList, RedoCall, RedoClear, RedoSkip, RedoDone, durVars
<1>4. ASSUME NEW t \in Threads, RStep(t) \/ RCall(t) PROVE build' = build
  <2>1. \A S : Writes(t, S) \/ Reads(t) \/ LogAdd(t) => build' = build
    BY DEF Writes, Reads, LogAdd, Keep, durVars
  <2>2. RStart(t) \/ RClaimBit(t) \/ REnd(t) \/ Persist(t) => build' = build
    BY DEF RStart, RClaimBit, REnd, Persist, Keep
  <2>3. EbrStep(t) /\ UNCHANGED durVars /\ Keep => build' = build
    BY DEF Keep
  <2> QED BY <1>4, <2>1, <2>2, <2>3, Zenon DEF RStep, RCall
<1> QED BY <1>1, <1>2, <1>3, <1>4 DEF RecoveryNext, Recovery

LEMMA EadrStep == EadrInv /\ [RecoveryNext]_rvars => EadrInv'
<1> SUFFICES ASSUME EadrInv, [RecoveryNext]_rvars, ~ adr' PROVE RecoveryInv'
  BY DEF EadrInv
<1>1. ~ adr /\ RecoveryInv
  BY BuildStays DEF EadrInv, adr
<1>2. ~ SegFault
  BY <1>1 DEF RecoveryInv, Redoing, SegFault
<1> QED BY <1>1, <1>2, RecoveryStep

\* The invariant without the exception: with EADR_AVAILABLE recover() never
\* comes to retire(), so that the process does not end there.
THEOREM EadrInvariance == RecoverySpec => []EadrInv
<1>1. RecoveryInit => EadrInv
  BY InitRecoveryInv DEF EadrInv
<1> QED BY <1>1, EadrStep, PTL DEF RecoverySpec

\* So with EADR_AVAILABLE, however often the machine stops, in calls and in
\* recover(), the list that recover() leaves is in order, ends, and has exactly
\* the nodes that the bitmap has taken.
THEOREM RecoveredWithEadr == RecoverySpec => [](build = "eadr" => RecoveredWell)
<1>1. EadrInv => (build = "eadr" => RecoveredWell)
  BY WellRecovered DEF EadrInv, adr
<1> QED BY <1>1, EadrInvariance, PTL
===============================================================================
