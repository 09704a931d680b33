------------------------------ MODULE EbrProofs ------------------------------
(***************************************************************************)
(* Ebr for any number of threads, nodes and epochs, whatever structure     *)
(* uses it: its inductive invariant, and what follows.                     *)
(***************************************************************************)
EXTENDS Ebr, TLAPS

LEMMA Ids ==
    /\ \A t : t \in Threads <=> t \in Nat /\ t < MAX_THREADS
    /\ \A e : e \in Epochs <=> e \in Nat /\ e <= MaxEpoch
    /\ \A e : e \in Marks <=> e \in Epochs \/ e = UINT64_MAX
    /\ Marks \subseteq Nat
BY EbrAssumption DEF Threads, Epochs, Marks

------------------------------------------------------------------------------
(* Type correctness.                                                        *)

LEMMA InitTypeOK == (\E S \in SUBSET Nodes : EbrInit(S)) => EbrTypeOK
BY EbrAssumption, Ids DEF EbrInit, EbrTypeOK

LEMMA StepTypeOK == EbrTypeOK /\ [EbrNext]_nodeVars => EbrTypeOK'
<1> SUFFICES ASSUME EbrTypeOK, [EbrNext]_nodeVars PROVE EbrTypeOK'
  OBVIOUS
<1> USE EbrAssumption, Ids DEF EbrTypeOK, EbrGoto, ebrVars, useVars
<1>1. CASE UNCHANGED nodeVars
  BY <1>1 DEF nodeVars
<1>2. ASSUME NEW t \in Threads, StartLoad(t) PROVE EbrTypeOK'
  BY <1>2 DEF StartLoad
<1>3. ASSUME NEW t \in Threads, StartStore(t) PROVE EbrTypeOK'
  BY <1>3 DEF StartStore
<1>4. ASSUME NEW t \in Threads, EndOp(t) PROVE EbrTypeOK'
  BY <1>4 DEF EndOp
<1>5. ASSUME NEW t \in Threads, NEW n \in Nodes, Retire(t, n) PROVE EbrTypeOK'
  <2>1. [idx |-> n, retire_epoch |-> epoch] \in Block
    BY DEF Block
  <2> QED BY <1>5, <2>1 DEF Retire
<1>6. ASSUME NEW t \in Threads, RetireCount(t) PROVE EbrTypeOK'
  <2>1. (counter[t] + 1) % EPOCH_FREQ \in 0 .. EPOCH_FREQ - 1
    OBVIOUS
  <2>2. counter' \in [Threads -> 0 .. EPOCH_FREQ - 1]
    BY <1>6, <2>1 DEF RetireCount
  <2>3. epoch' \in Epochs
    BY <1>6 DEF RetireCount
  <2>4. /\ ebr_pc' \in [Threads -> {"out", "reserve", "in", "count", "scan", "empty"}]
        /\ ebr_min' \in [Threads -> Marks]
        /\ ebr_i' \in [Threads -> 0 .. MAX_THREADS]
    BY <1>6 DEF RetireCount
  <2> QED BY <1>6, <2>2, <2>3, <2>4 DEF RetireCount
<1>7. ASSUME NEW t \in Threads, GetMin(t) PROVE EbrTypeOK'
  <2>1. ebr_i[t] \in Threads /\ ebr_i[t] + 1 \in 0 .. MAX_THREADS
    BY <1>7 DEF GetMin
  <2> QED BY <1>7, <2>1 DEF GetMin
<1>8. ASSUME NEW t \in Threads, GotMin(t) PROVE EbrTypeOK'
  BY <1>8 DEF GotMin
<1>9. ASSUME NEW t \in Threads, Empty(t) PROVE EbrTypeOK'
  BY <1>9 DEF Empty, Safe, Block
<1>10. ASSUME NEW t \in Threads, RetireDone(t) PROVE EbrTypeOK'
  BY <1>10 DEF RetireDone
<1>11. ASSUME NEW t \in Threads, NEW n \in Nodes, Claim(t, n) PROVE EbrTypeOK'
  BY <1>11 DEF Claim
<1>12. ASSUME NEW t \in Threads, NEW n \in Nodes, Publish(t, n) PROVE EbrTypeOK'
  BY <1>12 DEF Publish
<1>13. ASSUME NEW t \in Threads, NEW n \in Nodes, Discard(t, n) PROVE EbrTypeOK'
  BY <1>13 DEF Discard
<1>14. ASSUME NEW t \in Threads, NEW S \in SUBSET Nodes, Detach(t, S) PROVE EbrTypeOK'
  BY <1>14 DEF Detach
<1> QED
  BY <1>1, <1>2, <1>3, <1>4, <1>5, <1>6, <1>7, <1>8, <1>9, <1>10, <1>11, <1>12,
     <1>13, <1>14
  DEF EbrNext, RetireStep

\* Every variable keeps its type, for any number of threads, nodes and epochs.
THEOREM EbrTypeCorrect == EbrSpec => []EbrTypeOK
BY InitTypeOK, StepTypeOK, PTL DEF EbrSpec

------------------------------------------------------------------------------
(* Every node has one owner.                                                *)

LEMMA RetiredAre ==
    \A t \in Threads : \A n : n \in RetiredIdx(t) <=> \E b \in retired[t] : b.idx = n
BY DEF RetiredIdx

LEMMA RetiredAreNext ==
    \A t \in Threads : \A n : n \in RetiredIdx(t)' <=> \E b \in retired'[t] : b.idx = n
BY DEF RetiredIdx

\* Steps that move no node.
LEMMA KeptNodeOwners ==
    ASSUME NodeOwners, UNCHANGED <<bm, linked, owned, detached, retired>>
    PROVE  NodeOwners'
BY DEF NodeOwners, RetiredIdx

LEMMA RetireNodeOwners ==
    ASSUME EbrTypeOK, NodeOwners, NEW t \in Threads, NEW n \in Nodes, Retire(t, n)
    PROVE  NodeOwners'
<1> DEFINE new == [idx |-> n, retire_epoch |-> epoch]
<1>1. \A u \in Threads : /\ retired'[u] = IF u = t THEN retired[t] \cup {new} ELSE retired[u]
                         /\ detached'[u] = IF u = t THEN detached[t] \ {n} ELSE detached[u]
  BY DEF EbrTypeOK, Retire
<1>2. new.idx = n
  OBVIOUS
<1>3. UNCHANGED <<bm, linked, owned>> /\ n \in detached[t]
  BY DEF Retire
<1> HIDE DEF new
<1>4. \A u \in Threads, m \in Nodes :
         m \in RetiredIdx(u)' <=> m \in RetiredIdx(u) \/ (u = t /\ m = n)
  BY <1>1, <1>2, RetiredAre, RetiredAreNext
<1>5. \A u \in Threads : \A a, b \in retired'[u] : a.idx = b.idx => a = b
  BY <1>1, <1>2, <1>3, RetiredAre DEF NodeOwners
<1> QED BY <1>1, <1>3, <1>4, <1>5 DEF NodeOwners

LEMMA EmptyNodeOwners ==
    ASSUME EbrTypeOK, NodeOwners, NEW t \in Threads, Empty(t)
    PROVE  NodeOwners'
BY RetiredAre, RetiredAreNext DEF EbrTypeOK, NodeOwners, Empty, Safe, useVars

LEMMA ClaimNodeOwners ==
    ASSUME EbrTypeOK, NodeOwners, NEW t \in Threads, NEW n \in Nodes, Claim(t, n)
    PROVE  NodeOwners'
BY RetiredAre, RetiredAreNext DEF EbrTypeOK, NodeOwners, Claim, ebrVars

LEMMA PublishNodeOwners ==
    ASSUME EbrTypeOK, NodeOwners, NEW t \in Threads, NEW n \in Nodes, Publish(t, n)
    PROVE  NodeOwners'
BY RetiredAre, RetiredAreNext DEF EbrTypeOK, NodeOwners, Publish, ebrVars

LEMMA DiscardNodeOwners ==
    ASSUME EbrTypeOK, NodeOwners, NEW t \in Threads, NEW n \in Nodes, Discard(t, n)
    PROVE  NodeOwners'
BY RetiredAre, RetiredAreNext DEF EbrTypeOK, NodeOwners, Discard, ebrVars

LEMMA DetachNodeOwners ==
    ASSUME EbrTypeOK, NodeOwners, NEW t \in Threads, NEW S \in SUBSET Nodes, Detach(t, S)
    PROVE  NodeOwners'
BY RetiredAre, RetiredAreNext DEF EbrTypeOK, NodeOwners, Detach, ebrVars

------------------------------------------------------------------------------
(* No thread meets a node that is given back.                               *)

Rest == EpochsPast /\ MetNodes /\ MetRetired /\ ScanSound

\* A step that changes no pc but that of t, which is not in an operation.
LEMMA StartLoadInv ==
    ASSUME EbrInv, NEW t \in Threads, StartLoad(t)
    PROVE  Protected' /\ Rest'
BY RetiredAre, RetiredAreNext, Ids
DEF EbrInv, EbrTypeOK, Protected, EpochsPast, MetNodes, MetRetired, ScanSound, Rest,
    StartLoad, EbrGoto, InOp, useVars

LEMMA StartStoreInv ==
    ASSUME EbrInv, NEW t \in Threads, StartStore(t)
    PROVE  Protected' /\ Rest'
BY RetiredAre, RetiredAreNext, Ids
DEF EbrInv, EbrTypeOK, Protected, NodeOwners, EpochsPast, MetNodes, MetRetired, ScanSound, Rest,
    StartStore, EbrGoto, InOp, useVars

LEMMA EndOpInv ==
    ASSUME EbrInv, NEW t \in Threads, EndOp(t)
    PROVE  Protected' /\ Rest'
BY RetiredAre, RetiredAreNext, Ids
DEF EbrInv, EbrTypeOK, Protected, NodeOwners, EpochsPast, MetNodes, MetRetired, ScanSound, Rest,
    EndOp, EbrGoto, InOp, useVars

LEMMA RetireInv ==
    ASSUME EbrInv, NEW t \in Threads, NEW n \in Nodes, Retire(t, n)
    PROVE  Protected' /\ Rest'
<1> DEFINE new == [idx |-> n, retire_epoch |-> epoch]
<1> USE Ids DEF EbrInv, EbrTypeOK
<1>1. \A u \in Threads : /\ retired'[u] = IF u = t THEN retired[t] \cup {new} ELSE retired[u]
                         /\ detached'[u] = IF u = t THEN detached[t] \ {n} ELSE detached[u]
                         /\ ebr_pc'[u] = IF u = t THEN "count" ELSE ebr_pc[u]
  BY DEF Retire, EbrGoto
<1>2. new.idx = n /\ new.retire_epoch = epoch
  OBVIOUS
<1>3. /\ UNCHANGED <<bm, epoch, reservations, ebr_reg, ebr_min, ebr_i, linked, reach>>
      /\ ebr_pc[t] = "in"
  BY DEF Retire, EbrGoto
<1> HIDE DEF new
<1>4. Protected'
  BY <1>3 DEF Protected
<1>5. EpochsPast'
  BY <1>1, <1>3 DEF EpochsPast, InOp
<1>6. MetNodes'
  BY <1>1, <1>2, <1>3, RetiredAre, RetiredAreNext DEF MetNodes
<1>7. MetRetired'
  <2>1. \A u \in Threads : reach[u] # {} => reservations[u] <= epoch
    BY DEF EpochsPast
  <2> QED BY <1>1, <1>2, <1>3, <2>1 DEF MetRetired
<1>8. ScanSound'
  <2>1. ebr_pc'[t] = "count"
    BY <1>1
  <2> QED BY <1>1, <1>3, <2>1 DEF ScanSound
<1> QED BY <1>4, <1>5, <1>6, <1>7, <1>8 DEF Rest

LEMMA RetireCountInv ==
    ASSUME EbrInv, NEW t \in Threads, RetireCount(t)
    PROVE  Protected' /\ Rest'
<1> USE Ids DEF EbrInv, EbrTypeOK
<1>1. UNCHANGED <<bm, reservations, retired, ebr_reg, linked, reach, detached>>
  BY DEF RetireCount, useVars
<1>2. epoch' \in Nat /\ epoch <= epoch'
  BY DEF RetireCount
<1>3. /\ ebr_pc[t] = "count" /\ ebr_pc'[t] \in {"scan", "in"}
      /\ ebr_pc'[t] = "scan" => ebr_i'[t] = 0
      /\ \A u \in Threads \ {t} : /\ ebr_pc'[u] = ebr_pc[u]
                                  /\ ebr_i'[u] = ebr_i[u]
                                  /\ ebr_min'[u] = ebr_min[u]
  BY DEF RetireCount, EbrGoto
<1>4. Protected'
  BY <1>1 DEF Protected
<1>5. EpochsPast'
  <2>1. \A u \in Threads : /\ InOp(u)' <=> InOp(u)
                           /\ ebr_pc'[u] = "reserve" <=> ebr_pc[u] = "reserve"
    BY <1>3 DEF InOp
  <2>2. \A e \in Nat : e <= epoch => e <= epoch'
    BY <1>2
  <2>3. \A u \in Threads : reservations[u] \in Nat /\ ebr_reg[u] \in Nat
    OBVIOUS
  <2> QED BY <1>1, <2>1, <2>2, <2>3 DEF EpochsPast
<1>6. MetNodes'
  BY <1>1, RetiredAre, RetiredAreNext DEF MetNodes
<1>7. MetRetired'
  BY <1>1 DEF MetRetired
<1>8. ScanSound'
  BY <1>1, <1>3 DEF ScanSound
<1> QED BY <1>4, <1>5, <1>6, <1>7, <1>8 DEF Rest

LEMMA GetMinInv ==
    ASSUME EbrInv, NEW t \in Threads, GetMin(t)
    PROVE  Protected' /\ Rest'
<1> USE Ids DEF EbrInv, EbrTypeOK
<1> DEFINE k == ebr_i[t]
<1>1. k \in Threads /\ reservations[k] \in Nat /\ ebr_min[t] \in Nat
  <2>1. k \in 0 .. MAX_THREADS /\ k < MAX_THREADS
    BY DEF GetMin
  <2>2. k \in Threads
    BY <2>1, EbrAssumption
  <2> QED BY <2>2
<1>2. UNCHANGED <<bm, epoch, reservations, retired, ebr_pc, ebr_reg, linked, reach, detached>>
  BY DEF GetMin, useVars
<1>3. /\ ebr_i'[t] = k + 1
      /\ ebr_min'[t] <= ebr_min[t] /\ ebr_min'[t] <= reservations[k]
      /\ ebr_min'[t] \in Nat
      /\ ebr_pc[t] = "scan"
      /\ \A u \in Threads \ {t} : ebr_i'[u] = ebr_i[u] /\ ebr_min'[u] = ebr_min[u]
  BY <1>1 DEF GetMin
<1>4. Protected' /\ EpochsPast' /\ MetRetired'
  BY <1>2 DEF Protected, EpochsPast, InOp, MetRetired
<1>5. MetNodes'
  BY <1>2, RetiredAre, RetiredAreNext DEF MetNodes
<1>6. ScanSound'
  <2> SUFFICES ASSUME NEW v \in Threads, NEW u \in Threads, NEW b \in retired[u],
                      b.idx \in reach[v],
                      (ebr_pc[u] = "scan" /\ v < ebr_i'[u]) \/ ebr_pc[u] = "empty"
               PROVE  ebr_min'[u] <= b.retire_epoch
    BY <1>2 DEF ScanSound
  <2>1. CASE u # t
    BY <1>3, <2>1 DEF ScanSound
  <2>2. CASE u = t /\ v = k
    <3>1. reservations[k] <= b.retire_epoch
      BY <2>2 DEF MetRetired
    <3>2. b.retire_epoch \in Nat
      BY DEF Block
    <3> QED BY <1>1, <1>3, <2>2, <3>1, <3>2
  <2>3. CASE u = t /\ v # k
    <3>1. v < ebr_i[t]
      BY <1>1, <1>3, <2>3
    <3>2. ebr_min[t] <= b.retire_epoch
      BY <1>3, <2>3, <3>1 DEF ScanSound
    <3>3. b.retire_epoch \in Nat
      BY DEF Block
    <3> QED BY <1>1, <1>3, <2>3, <3>2, <3>3
  <2> QED BY <2>1, <2>2, <2>3
<1> QED BY <1>4, <1>5, <1>6 DEF Rest

LEMMA GotMinInv ==
    ASSUME EbrInv, NEW t \in Threads, GotMin(t)
    PROVE  Protected' /\ Rest'
BY RetiredAre, RetiredAreNext, Ids
DEF EbrInv, EbrTypeOK, Protected, NodeOwners, EpochsPast, MetNodes, MetRetired, ScanSound, Rest,
    GotMin, EbrGoto, InOp, useVars

LEMMA EmptyInv ==
    ASSUME EbrInv, NEW t \in Threads, Empty(t)
    PROVE  Protected' /\ Rest'
<1> USE Ids DEF EbrInv, EbrTypeOK
<1>1. PICK b \in retired[t] : /\ b.retire_epoch < ebr_min[t]
                              /\ bm' = bm \cup {b.idx}
                              /\ retired' = [retired EXCEPT ![t] = @ \ {b}]
  BY DEF Empty, Safe
<1>2. /\ UNCHANGED <<epoch, reservations, ebr_pc, ebr_reg, ebr_min, ebr_i, linked,
                     reach, detached>>
      /\ ebr_pc[t] = "empty"
  BY DEF Empty, useVars
<1>3. \A u \in Threads : retired'[u] = IF u = t THEN retired[t] \ {b} ELSE retired[u]
  BY <1>1
<1>4. \A v \in Threads : b.idx \notin reach[v]
  <2>1. b \in Block /\ ebr_min[t] \in Nat
    BY <1>1
  <2>2. b.retire_epoch \in Nat
    BY <2>1 DEF Block
  <2> QED BY <1>1, <1>2, <2>1, <2>2 DEF ScanSound
<1>5. Protected'
  BY <1>1, <1>2, <1>4 DEF Protected
<1>6. EpochsPast'
  BY <1>2 DEF EpochsPast, InOp
<1>7. MetNodes'
  <2>1. \A u \in Threads : \A n : n \in RetiredIdx(u) /\ n # b.idx => n \in RetiredIdx(u)'
    BY <1>3, RetiredAre, RetiredAreNext
  <2> QED BY <1>2, <1>4, <2>1 DEF MetNodes
<1>8. MetRetired' /\ ScanSound'
  BY <1>2, <1>3 DEF MetRetired, ScanSound
<1> QED BY <1>5, <1>6, <1>7, <1>8 DEF Rest

LEMMA RetireDoneInv ==
    ASSUME EbrInv, NEW t \in Threads, RetireDone(t)
    PROVE  Protected' /\ Rest'
BY RetiredAre, RetiredAreNext, Ids
DEF EbrInv, EbrTypeOK, Protected, NodeOwners, EpochsPast, MetNodes, MetRetired, ScanSound, Rest,
    RetireDone, EbrGoto, InOp, useVars

LEMMA ClaimInv ==
    ASSUME EbrInv, NEW t \in Threads, NEW n \in Nodes, Claim(t, n)
    PROVE  Protected' /\ Rest'
BY RetiredAre, RetiredAreNext, Ids
DEF EbrInv, EbrTypeOK, Protected, NodeOwners, EpochsPast, MetNodes, MetRetired, ScanSound, Rest,
    Claim, EbrGoto, InOp, ebrVars

LEMMA PublishInv ==
    ASSUME EbrInv, NEW t \in Threads, NEW n \in Nodes, Publish(t, n)
    PROVE  Protected' /\ Rest'
BY RetiredAre, RetiredAreNext, Ids
DEF EbrInv, EbrTypeOK, Protected, NodeOwners, EpochsPast, MetNodes, MetRetired, ScanSound, Rest,
    Publish, EbrGoto, InOp, ebrVars

LEMMA DiscardInv ==
    ASSUME EbrInv, NEW t \in Threads, NEW n \in Nodes, Discard(t, n)
    PROVE  Protected' /\ Rest'
BY RetiredAre, RetiredAreNext, Ids
DEF EbrInv, EbrTypeOK, Protected, NodeOwners, EpochsPast, MetNodes, MetRetired, ScanSound, Rest,
    Discard, EbrGoto, InOp, ebrVars

LEMMA DetachInv ==
    ASSUME EbrInv, NEW t \in Threads, NEW S \in SUBSET Nodes, Detach(t, S)
    PROVE  Protected' /\ Rest'
BY RetiredAre, RetiredAreNext, Ids
DEF EbrInv, EbrTypeOK, Protected, NodeOwners, EpochsPast, MetNodes, MetRetired, ScanSound, Rest,
    Detach, EbrGoto, InOp, ebrVars

------------------------------------------------------------------------------
(* The theorems.                                                            *)

LEMMA InitEbrInv == (\E S \in SUBSET Nodes : EbrInit(S)) => EbrInv
<1> SUFFICES ASSUME NEW S \in SUBSET Nodes, EbrInit(S) PROVE EbrInv
  OBVIOUS
<1>1. EbrTypeOK
  BY InitTypeOK
<1>2. NodeOwners
  BY RetiredAre DEF EbrInit, NodeOwners
<1>3. Protected /\ EpochsPast /\ MetNodes /\ MetRetired /\ ScanSound
  BY DEF EbrInit, Protected, EpochsPast, MetNodes, MetRetired, ScanSound, InOp
<1> QED BY <1>1, <1>2, <1>3 DEF EbrInv

LEMMA StepEbrInv == EbrInv /\ [EbrNext]_nodeVars => EbrInv'
<1> SUFFICES ASSUME EbrInv, [EbrNext]_nodeVars PROVE EbrInv'
  OBVIOUS
<1>1. EbrTypeOK /\ NodeOwners
  BY DEF EbrInv
<1>2. EbrTypeOK'
  BY <1>1, StepTypeOK
<1>3. SUFFICES NodeOwners' /\ Protected' /\ Rest'
  BY <1>2 DEF EbrInv, Rest
<1>4. CASE UNCHANGED nodeVars
  BY <1>4, KeptNodeOwners, <1>1
  DEF EbrInv, nodeVars, ebrVars, useVars, Protected, Rest, EpochsPast, MetNodes,
      MetRetired, ScanSound, InOp, RetiredIdx
<1> DEFINE Goal == NodeOwners' /\ Protected' /\ Rest'
<1>5. ASSUME NEW t \in Threads, StartLoad(t) PROVE Goal
  BY <1>1, <1>5, KeptNodeOwners, StartLoadInv DEF StartLoad, useVars
<1>6. ASSUME NEW t \in Threads, StartStore(t) PROVE Goal
  BY <1>1, <1>6, KeptNodeOwners, StartStoreInv DEF StartStore
<1>7. ASSUME NEW t \in Threads, EndOp(t) PROVE Goal
  BY <1>1, <1>7, KeptNodeOwners, EndOpInv DEF EndOp
<1>8. ASSUME NEW t \in Threads, RetireCount(t) PROVE Goal
  BY <1>1, <1>8, KeptNodeOwners, RetireCountInv DEF RetireCount, useVars
<1>9. ASSUME NEW t \in Threads, GetMin(t) PROVE Goal
  BY <1>1, <1>9, KeptNodeOwners, GetMinInv DEF GetMin, useVars
<1>10. ASSUME NEW t \in Threads, GotMin(t) PROVE Goal
  BY <1>1, <1>10, KeptNodeOwners, GotMinInv DEF GotMin, useVars
<1>11. ASSUME NEW t \in Threads, Empty(t) PROVE Goal
  BY <1>1, <1>11, EmptyNodeOwners, EmptyInv
<1>12. ASSUME NEW t \in Threads, RetireDone(t) PROVE Goal
  BY <1>1, <1>12, KeptNodeOwners, RetireDoneInv DEF RetireDone, useVars
<1>13. ASSUME NEW t \in Threads, NEW n \in Nodes,
              Retire(t, n) \/ Claim(t, n) \/ Publish(t, n) \/ Discard(t, n)
       PROVE  Goal
  BY <1>1, <1>13, RetireNodeOwners, ClaimNodeOwners, PublishNodeOwners, DiscardNodeOwners,
     RetireInv, ClaimInv, PublishInv, DiscardInv
<1>14. ASSUME NEW t \in Threads, NEW S \in SUBSET Nodes, Detach(t, S) PROVE Goal
  BY <1>1, <1>14, DetachNodeOwners, DetachInv
<1> QED
  BY <1>4, <1>5, <1>6, <1>7, <1>8, <1>9, <1>10, <1>11, <1>12, <1>13, <1>14
  DEF EbrNext, RetireStep

\* The inductive invariant: a node that a thread can have met is still linked,
\* or was retired no earlier than the epoch the thread has reserved, and a scan
\* of the reservations under way has not missed it (ebr.h, get_min(), empty()).
THEOREM EbrInvariance == EbrSpec => []EbrInv
BY InitEbrInv, StepEbrInv, PTL DEF EbrSpec

\* empty() gives back no node that a thread in an operation can have met,
\* however reservations, epochs and scans interleave (ebr.h:182).
THEOREM NeverReusedUnderAThread == EbrSpec => []Protected
<1>1. EbrInv => Protected
  BY DEF EbrInv
<1> QED BY EbrInvariance, <1>1, PTL

\* Every node is free, claimed, linked, taken out or retired, by one thread: none
\* leaks, none is handed out or retired twice (bitmap.h, ebr.h).
THEOREM OneOwner == EbrSpec => []NodeOwners
<1>1. EbrInv => NodeOwners
  BY DEF EbrInv
<1> QED BY EbrInvariance, <1>1, PTL
==============================================================================
