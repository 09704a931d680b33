---------------------------- MODULE ListRecoveryInv ----------------------------
(***************************************************************************)
(* Why recover() finds a list it can go through, whatever a crash leaves   *)
(* of the nodes: what holds of the memory between any two steps of         *)
(* ListRecovery, as long as recover() does not die in retire().  Nodes are *)
(* given back and reused meanwhile: a thread that has unlinked a node and  *)
(* not flushed that keeps the node until it has (Overwritten).             *)
(***************************************************************************)
EXTENDS ListRecovery, HarrisListInv

\* The nodes in the list, and those a thread can have met there.
Live == linked \cup UNION {reach[t] : t \in Threads}

\* The nodes t has written and not flushed yet; remove() flushes the left one
\* only after retire().
Unflushed(t) == todo[t] \cup {i \in {left[t]} : pc[t] = "retire"}

\* What memory may still hold of node i, though it is not visible any more, is
\* what a thread has written over and not flushed, and led to what it can have
\* met.
Overwritten(i) ==
    \A c \in file[i] \ {Line(i)} :
        \E t \in Threads : i \in Unflushed(t) /\ Unmark(c[2]) \in reach[t]

\* Whatever memory holds of a node of S has its key and leads to another one of
\* S with a greater key, or is the tail; the head was never marked.
Sound(S) ==
    /\ {HEAD, TAIL} \subseteq S /\ S \subseteq Nodes
    /\ data[HEAD] = INT_MIN /\ data[TAIL] = INT_MAX
    /\ file[TAIL] = {<<INT_MAX, LL_SIZE>>}
    /\ \A i \in S \ {TAIL} : \A c \in file[i] :
          /\ c[1] = data[i]
          /\ Unmark(c[2]) \in S /\ data[i] < data[Unmark(c[2])]
          /\ i = HEAD => ~ IsMarked(c[2])

Durable(i) == file[i] = {Line(i)}

\* While the threads are at work: a node that was claimed is flushed before it
\* is linked in.
Working ==
    /\ ListInv /\ EbrInv
    /\ Sound(Live)
    /\ \A i \in Live : Overwritten(i)
    /\ \A t \in Threads : \A n \in owned[t] : Durable(n) \/ n \in todo[t]

\* The DRAM of a new process.
Fresh ==
    /\ epoch = 0
    /\ reservations = [t \in Threads |-> UINT64_MAX]
    /\ counter = [t \in Threads |-> 0]
    /\ retired = [t \in Threads |-> {}]
    /\ ebr_pc = [t \in Threads |-> "out"]
    /\ ebr_reg = [t \in Threads |-> 0]
    /\ ebr_min = [t \in Threads |-> 0]
    /\ ebr_i = [t \in Threads |-> 0]
    /\ linked = {}
    /\ reach = [t \in Threads |-> {}]
    /\ detached = [t \in Threads |-> {}]
    /\ owned = [t \in Threads |-> {}]
    /\ pc = [t \in Threads |-> "idle"]
    /\ call = [t \in Threads |-> Idle]
    /\ result = [t \in Threads |-> "none"]
    /\ cur = [t \in Threads |-> 0]
    /\ cur_next = [t \in Threads |-> 0]
    /\ left = [t \in Threads |-> 0]
    /\ left_next = [t \in Threads |-> 0]
    /\ right_idx = [t \in Threads |-> 0]
    /\ new_elem = [t \in Threads |-> 0]
    /\ word = [t \in Threads |-> 0]
    /\ seen = [t \in Threads |-> {}]

\* The nodes recover() has marked as taken are the tail and those it came by,
\* up to the one it stands on, in order.
Visited(V) ==
    /\ {HEAD, TAIL, it} \subseteq V
    /\ \A i, j \in V : data[i] = data[j] => i = j
    /\ \A i \in V : INT_MIN <= data[i] /\ (data[i] <= data[it] \/ i = TAIL)
    /\ \A i \in V \ {TAIL, it} :
          /\ Succ(i) \in V /\ data[i] < data[Succ(i)]
          /\ \A j \in V : data[j] <= data[i] \/ data[Succ(i)] <= data[j]

\* While recover() goes through the list.
Recovering ==
    /\ Fresh
    /\ Visited(Nodes \ bm)
    /\ \E S \in SUBSET Nodes : Nodes \ bm \subseteq S /\ Sound(S)
    /\ \A i \in Nodes : Durable(i) \/ i \in todo[0]

\* While it carries out the requests of the logs.
Redoing ==
    /\ mode \in {"redo", "redoing"} => adr
    /\ mode = "redo" => \A t \in Threads : pc[t] = "idle"
    /\ mode = "redoing" => it # MAX_THREADS /\ \A t \in Threads \ {0} : pc[t] = "idle"

\* With eADR what is visible is durable.
AllDurable ==
    ~ adr => /\ \A i \in Nodes : Durable(i)
             /\ \A t \in Threads : todo[t] = {} /\ ~ todoLog[t]

\* The inductive invariant.
RecoveryInv == /\ RecoveryTypeOK
               /\ IF mode = "recover" THEN Recovering ELSE Working
               /\ Redoing
               /\ AllDurable

\* What holds whatever ends the process: with eADR recover() carries out nothing,
\* and so cannot die of it either.
EadrInv == ~ adr => RecoveryInv
==============================================================================
