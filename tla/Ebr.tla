--------------------------------- MODULE Ebr ---------------------------------
(***************************************************************************)
(* Epoch-based reclamation (linkedlist/include/ebr.h) of the nodes of an   *)
(* array, whose free indexes are the bits set in a bitmap.                 *)
(*                                                                         *)
(* A thread reserves the epoch it starts an operation in.  A node taken    *)
(* out of the structure is retired: remembered in a list of the thread     *)
(* with the epoch of that moment.  Now and then the thread reads all       *)
(* reservations, one after the other while they change, and gives back the *)
(* nodes that were retired before the least of them.                       *)
(*                                                                         *)
(* The structure is left open here: it may claim, publish, discard and     *)
(* detach any node at any time.  HarrisList says when it does.             *)
(***************************************************************************)
EXTENDS Naturals, FiniteSets

CONSTANTS MAX_THREADS,  \* threads, numbered from 0
          LL_SIZE,      \* nodes of the array
          EPOCH_FREQ,   \* nodes a thread retires for each new epoch
          EMPTY_FREQ,   \* retired nodes for each attempt to give some back
          UINT64_MAX,   \* the reservation of a thread outside operations
          MaxEpoch      \* bound of the model: the last epoch

\* 2^64 epochs are out of reach.
ASSUME EbrAssumption == /\ MAX_THREADS \in Nat
                        /\ LL_SIZE \in Nat
                        /\ EPOCH_FREQ \in Nat \ {0}
                        /\ EMPTY_FREQ \in Nat \ {0}
                        /\ UINT64_MAX \in Nat
                        /\ MaxEpoch \in Nat
                        /\ MaxEpoch < UINT64_MAX

Threads == 0 .. MAX_THREADS - 1
Nodes   == 0 .. LL_SIZE - 1
Epochs  == 0 .. MaxEpoch
Marks   == Epochs \cup {UINT64_MAX}

VARIABLES
    bm,            \* the bitmap: the indexes whose bit is set, which are free
    epoch,         \* the current epoch
    reservations,  \* reservations[t]: the epoch t has reserved
    counter,       \* counter of t, of which only the remainder is looked at
    retired,       \* retired[t]: the blocks t retired, in no particular order
    ebr_pc,        \* where t is: "out" of an operation, "in" one, or inside
                   \* start_op() ("reserve"), retire() ("count"), get_min()
                   \* ("scan") or the loop of empty() ("empty")
    ebr_reg,       \* the epoch t has loaded and not stored yet
    ebr_min,       \* "min" of get_min(), then max_safe_epoch of empty()
    ebr_i          \* "i" of get_min()

ebrVars == <<epoch, reservations, counter, retired, ebr_pc, ebr_reg, ebr_min,
             ebr_i>>

VARIABLES          \* what the structure does with the nodes
    linked,        \* those it holds: a traversal that begins now can meet them
    reach,         \* reach[t]: those t can have met since it reserved its epoch
    detached,      \* detached[t]: those t has taken out and not retired yet
    owned          \* owned[t]: those t has claimed and not published yet

useVars == <<linked, reach, detached, owned>>
nodeVars == <<bm, ebrVars, useVars>>

Block == [idx : Nodes, retire_epoch : Epochs]
RetiredIdx(t) == {b.idx : b \in retired[t]}

EbrTypeOK ==
    /\ bm \subseteq Nodes
    /\ epoch \in Epochs
    /\ reservations \in [Threads -> Marks]
    /\ counter \in [Threads -> 0 .. EPOCH_FREQ - 1]
    /\ retired \in [Threads -> SUBSET Block]
    /\ ebr_pc \in [Threads -> {"out", "reserve", "in", "count", "scan", "empty"}]
    /\ ebr_reg \in [Threads -> Epochs]
    /\ ebr_min \in [Threads -> Marks]
    /\ ebr_i \in [Threads -> 0 .. MAX_THREADS]
    /\ linked \subseteq Nodes
    /\ reach \in [Threads -> SUBSET Nodes]
    /\ detached \in [Threads -> SUBSET Nodes]
    /\ owned \in [Threads -> SUBSET Nodes]

\* The structure starts with the nodes S.
EbrInit(S) ==
    /\ bm = Nodes \ S
    /\ epoch = 0
    /\ reservations = [t \in Threads |-> UINT64_MAX]
    /\ counter = [t \in Threads |-> 0]
    /\ retired = [t \in Threads |-> {}]
    /\ ebr_pc = [t \in Threads |-> "out"]
    /\ ebr_reg = [t \in Threads |-> 0]
    /\ ebr_min = [t \in Threads |-> 0]
    /\ ebr_i = [t \in Threads |-> 0]
    /\ linked = S
    /\ reach = [t \in Threads |-> {}]
    /\ detached = [t \in Threads |-> {}]
    /\ owned = [t \in Threads |-> {}]

EbrGoto(t, from, to) == /\ ebr_pc[t] = from
                        /\ ebr_pc' = [ebr_pc EXCEPT ![t] = to]

InOp(t) == ebr_pc[t] \in {"in", "count", "scan", "empty"}

------------------------------------------------------------------------------
(* start_op() and end_op().                                                 *)

\* "reservations[tid] = epoch": the load ...
StartLoad(t) ==
    /\ EbrGoto(t, "out", "reserve")
    /\ ebr_reg' = [ebr_reg EXCEPT ![t] = epoch]
    /\ UNCHANGED <<bm, epoch, reservations, counter, retired, ebr_min, ebr_i,
                   useVars>>

\* Mutant of StartStore: no epoch is reserved.
StartUnreserved(t) ==
    /\ EbrGoto(t, "reserve", "in")
    /\ ebr_reg' = [ebr_reg EXCEPT ![t] = 0]
    /\ reach' = [reach EXCEPT ![t] = linked]
    /\ UNCHANGED <<bm, epoch, reservations, counter, retired, ebr_min, ebr_i,
                   linked, detached, owned>>

\* ... and the store, however many epochs later.
StartStore(t) ==
    /\ EbrGoto(t, "reserve", "in")
    /\ reservations' = [reservations EXCEPT ![t] = ebr_reg[t]]
    /\ ebr_reg' = [ebr_reg EXCEPT ![t] = 0]
    /\ reach' = [reach EXCEPT ![t] = linked]
    /\ UNCHANGED <<bm, epoch, counter, retired, ebr_min, ebr_i, linked,
                   detached, owned>>

EndOp(t) ==
    /\ EbrGoto(t, "in", "out")
    /\ detached[t] = {}
    /\ reservations' = [reservations EXCEPT ![t] = UINT64_MAX]
    /\ reach' = [reach EXCEPT ![t] = {}]
    /\ UNCHANGED <<bm, epoch, counter, retired, ebr_reg, ebr_min, ebr_i,
                   linked, detached, owned>>

------------------------------------------------------------------------------
(* retire(): list_add(), the new epoch, and empty().                        *)

\* list_add(): the block is put into t's list with the current epoch.
Retire(t, n) ==
    /\ EbrGoto(t, "in", "count")
    /\ n \in detached[t]
    /\ retired' = [retired EXCEPT ![t] =
                       @ \cup {[idx |-> n, retire_epoch |-> epoch]}]
    /\ detached' = [detached EXCEPT ![t] = @ \ {n}]
    /\ UNCHANGED <<bm, epoch, reservations, counter, ebr_reg, ebr_min, ebr_i,
                   linked, reach, owned>>

\* Every EPOCH_FREQ'th time a new epoch begins (an atomic addition), and as
\* often as the length of the list says empty() is called.
RetireCount(t) ==
    /\ counter' = [counter EXCEPT ![t] = (@ + 1) % EPOCH_FREQ]
    /\ IF counter'[t] = 0 THEN epoch < MaxEpoch /\ epoch' = epoch + 1
                          ELSE UNCHANGED epoch
    /\ IF Cardinality(retired[t]) % EMPTY_FREQ = 0
       THEN /\ EbrGoto(t, "count", "scan")
            /\ ebr_min' = [ebr_min EXCEPT ![t] = UINT64_MAX]
            /\ ebr_i' = [ebr_i EXCEPT ![t] = 0]
       ELSE /\ EbrGoto(t, "count", "in")
            /\ UNCHANGED <<ebr_min, ebr_i>>
    /\ UNCHANGED <<bm, reservations, retired, ebr_reg, useVars>>

\* get_min() reads one reservation after the other (the first one is as good
\* as the minimum with UINT64_MAX).
GetMin(t) ==
    /\ ebr_pc[t] = "scan"
    /\ ebr_i[t] < MAX_THREADS
    /\ ebr_min' = [ebr_min EXCEPT ![t] =
                       IF @ > reservations[ebr_i[t]] THEN reservations[ebr_i[t]]
                                                     ELSE @]
    /\ ebr_i' = [ebr_i EXCEPT ![t] = @ + 1]
    /\ UNCHANGED <<bm, epoch, reservations, counter, retired, ebr_pc, ebr_reg,
                   useVars>>

GotMin(t) ==
    /\ EbrGoto(t, "scan", "empty")
    /\ ebr_i[t] = MAX_THREADS
    /\ ebr_i' = [ebr_i EXCEPT ![t] = 0]
    /\ UNCHANGED <<bm, epoch, reservations, counter, retired, ebr_reg, ebr_min,
                   useVars>>

\* The blocks that empty() gives back.
Safe(t) == {b \in retired[t] : b.retire_epoch < ebr_min[t]}

\* Mutant of Empty: the blocks of the reserved epoch itself are not protected.
EmptyOffByOne(t) ==
    /\ ebr_pc[t] = "empty"
    /\ \E b \in retired[t] :
          /\ b.retire_epoch <= ebr_min[t]
          /\ bm' = bm \cup {b.idx}
          /\ retired' = [retired EXCEPT ![t] = @ \ {b}]
    /\ UNCHANGED <<epoch, reservations, counter, ebr_pc, ebr_reg, ebr_min,
                   ebr_i, useVars>>

\* Mutant of Empty: the block stays in the list.
EmptyKept(t) ==
    /\ ebr_pc[t] = "empty"
    /\ \E b \in Safe(t) : bm' = bm \cup {b.idx}
    /\ UNCHANGED <<ebrVars, useVars>>

\* One block: its bit is set, and it leaves the list.
Empty(t) ==
    /\ ebr_pc[t] = "empty"
    /\ \E b \in Safe(t) : /\ bm' = bm \cup {b.idx}
                          /\ retired' = [retired EXCEPT ![t] = @ \ {b}]
    /\ UNCHANGED <<epoch, reservations, counter, ebr_pc, ebr_reg, ebr_min,
                   ebr_i, useVars>>

RetireDone(t) ==
    /\ EbrGoto(t, "empty", "in")
    /\ Safe(t) = {}
    /\ ebr_min' = [ebr_min EXCEPT ![t] = 0]
    /\ UNCHANGED <<bm, epoch, reservations, counter, retired, ebr_reg, ebr_i,
                   useVars>>

RetireStep(t) == \/ RetireCount(t) \/ GetMin(t) \/ GotMin(t)
                 \/ Empty(t)       \/ RetireDone(t)

------------------------------------------------------------------------------
(* What a structure may do with the nodes.                                  *)

\* bm_clear_bit() found the bit set.
Claim(t, n) ==
    /\ ebr_pc[t] = "in"
    /\ n \in bm
    /\ bm' = bm \ {n}
    /\ owned' = [owned EXCEPT ![t] = @ \cup {n}]
    /\ UNCHANGED <<ebrVars, linked, reach, detached>>

\* From now on a traversal under way meets it, too.
Publish(t, n) ==
    /\ ebr_pc[t] = "in"
    /\ n \in owned[t]
    /\ owned' = [owned EXCEPT ![t] = @ \ {n}]
    /\ linked' = linked \cup {n}
    /\ reach' = [u \in Threads |-> IF InOp(u) THEN reach[u] \cup {n} ELSE reach[u]]
    /\ UNCHANGED <<bm, ebrVars, detached>>

\* bm_set_bit() of a node nobody else has seen.
Discard(t, n) ==
    /\ n \in owned[t]
    /\ owned' = [owned EXCEPT ![t] = @ \ {n}]
    /\ bm' = bm \cup {n}
    /\ UNCHANGED <<ebrVars, linked, reach, detached>>

Detach(t, S) ==
    /\ ebr_pc[t] = "in"
    /\ S \subseteq linked
    /\ linked' = linked \ S
    /\ detached' = [detached EXCEPT ![t] = @ \cup S]
    /\ UNCHANGED <<bm, ebrVars, reach, owned>>

EbrNext == \E t \in Threads :
    \/ StartLoad(t) \/ StartStore(t) \/ EndOp(t) \/ RetireStep(t)
    \/ \E n \in Nodes : Retire(t, n) \/ Claim(t, n) \/ Publish(t, n) \/ Discard(t, n)
    \/ \E S \in SUBSET Nodes : Detach(t, S)

EbrSpec == (\E S \in SUBSET Nodes : EbrInit(S)) /\ [][EbrNext]_nodeVars

------------------------------------------------------------------------------
\* "All blocks retired in or after max_safe_epoch will be protected"
\* (ebr.h:182): no node that a thread can have met in its operation is given
\* back, and so none is handed out again, before the operation ends.
Protected == \A t \in Threads : reach[t] \cap bm = {}

\* Every node is somewhere, and in one place only: free, claimed by one thread,
\* in the structure, taken out by one thread or retired by one, once.  So none
\* is lost, retired twice or handed out twice.
NodeOwners ==
    \A n \in Nodes :
        /\ \/ n \in bm \cup linked
           \/ \E t \in Threads : n \in owned[t] \cup detached[t] \cup RetiredIdx(t)
        /\ n \in bm => n \notin linked
        /\ \A t \in Threads :
              /\ n \in owned[t] => n \notin bm \cup linked \cup detached[t] \cup RetiredIdx(t)
              /\ n \in detached[t] => n \notin bm \cup linked \cup RetiredIdx(t)
              /\ n \in RetiredIdx(t) => n \notin bm \cup linked
              /\ \A a, b \in retired[t] : a.idx = b.idx => a = b
              /\ \A u \in Threads \ {t} :
                    n \in owned[t] \cup detached[t] \cup RetiredIdx(t) =>
                        n \notin owned[u] \cup detached[u] \cup RetiredIdx(u)

------------------------------------------------------------------------------
(* Why: the inductive invariant.                                            *)

\* No epoch comes from the future, and a thread has reserved one exactly while
\* it is in an operation.
EpochsPast ==
    \A t \in Threads :
        /\ ebr_pc[t] = "reserve" => ebr_reg[t] <= epoch
        /\ InOp(t) => reservations[t] <= epoch
        /\ ~ InOp(t) => reservations[t] = UINT64_MAX /\ reach[t] = {}

\* A node a thread can have met is in the structure, or left it since.
MetNodes ==
    \A t \in Threads : \A n \in reach[t] :
        n \in linked \/ \E u \in Threads : n \in detached[u] \cup RetiredIdx(u)

\* If it was retired, then in the epoch the thread has reserved or later.
MetRetired ==
    \A t, u \in Threads : \A b \in retired[u] :
        b.idx \in reach[t] => reservations[t] <= b.retire_epoch

\* A scan has accounted for the threads it has looked at: its minimum is low
\* enough for whatever they can have met.
ScanSound ==
    \A t, u \in Threads : \A b \in retired[u] :
        /\ b.idx \in reach[t]
        /\ \/ ebr_pc[u] = "scan" /\ t < ebr_i[u]
           \/ ebr_pc[u] = "empty"
        => ebr_min[u] <= b.retire_epoch

EbrInv == /\ EbrTypeOK
          /\ Protected
          /\ NodeOwners
          /\ EpochsPast
          /\ MetNodes
          /\ MetRetired
          /\ ScanSound
==============================================================================
