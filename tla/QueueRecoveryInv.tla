-------------------------- MODULE QueueRecoveryInv ---------------------------
(***************************************************************************)
(* Why recover() of p_rb_q_eadr.cc leaves no gap below head_: what holds   *)
(* between any two steps of push(), at every crash, and at each point of   *)
(* recover(), the first time and when it runs again on what an interrupted *)
(* one has left.                                                           *)
(*                                                                         *)
(* Only the half of the producers is as strict as this.  tail_ has no bound *)
(* here: the positions that recover() leaves in pos_pop can lie above the  *)
(* tail_ it makes, be taken a second time, and be counted twice by the next *)
(* recover().                                                              *)
(***************************************************************************)
EXTENDS QueueRecovery

RecPCs == {"up", "down", "last_tail", "pushed", "push_copy", "push_pos",
           "pop_copy", "pop_pos", "set_head", "add_tail", "set_tail", "heads",
           "tails"}

Pairs == Nat \X Nat

RecTypeOK ==
    /\ head_ \in Positions /\ last_head_ \in Positions
    /\ tail_ \in Nat /\ last_tail_ \in Nat
    /\ thr_head \in [Producers -> Marks] /\ pos_push \in [Producers -> Marks]
    /\ thr_tail \in [Consumers -> Nat] /\ pos_pop \in [Consumers -> Nat]
    /\ ptr_array_ \in [Slots -> Items \cup {NoItem}]
    /\ push_pc \in [Producers -> PCs] /\ pop_pc \in [Consumers -> PCs]
    /\ push_reg \in [Producers -> Positions]
    /\ pop_reg \in [Consumers -> Nat]
    /\ push_min \in [Producers -> Nat]
    /\ pop_min \in [Consumers -> Positions]
    /\ push_i \in [Producers -> 0 .. NConsumers]
    /\ pop_i \in [Consumers -> 0 .. NProducers]
    /\ item \in [Producers -> Items \cup {NoItem}]
    /\ buffer \in [Consumers -> Items \cup {NoItem}]
    /\ rec_pc \in RecPCs
    /\ elems \in Seq(Pairs) /\ popped \in Seq(Pairs)
    /\ n_pushed \in Nat /\ it \in Nat \ {0} /\ i \in Nat

------------------------------------------------------------------------------
(* At every moment.                                                         *)

Written(k) == ptr_array_[Slot(k)] # NoItem

\* A ticket given out whose slot was never written is one some producer still
\* announces, or a ticket above it.
GapsAnnounced ==
    \A k \in 0 .. head_ - 1 : Written(k) \/ \E p \in Producers : thr_head[p] <= k

\* A position says that the slot was filled, and no two threads claim one.
PositionsWritten ==
    \A p \in Producers : pos_push[p] # ULONG_MAX =>
        /\ pos_push[p] < head_ /\ Written(pos_push[p])
        /\ \A q \in Producers \ {p} : pos_push[q] # pos_push[p]

------------------------------------------------------------------------------
(* While push() and pop() run.                                              *)

\* What a producer that holds a ticket announces is not above it.
HoldersAnnounce ==
    \A p \in Producers :
        /\ push_pc[p] = "announce" => push_reg[p] <= head_
        /\ push_pc[p] = "take" => thr_head[p] <= head_
        /\ PushHolds(p) => thr_head[p] <= PushTicket(p) /\ PushTicket(p) < head_
        /\ push_pc[p] \in {"idle", "load", "announce"} => thr_head[p] = ULONG_MAX
        /\ push_pc[p] # "idle" => item[p] \in Items

TicketsDistinct ==
    \A p, q \in Producers : p # q /\ PushHolds(p) =>
        /\ PushHolds(q) => PushTicket(p) # PushTicket(q)
        /\ pos_push[q] # PushTicket(p)

GapsHeld ==
    \A k \in 0 .. head_ - 1 :
        Written(k) \/ \E p \in Producers : PushUnwritten(p) /\ PushTicket(p) = k

Running == HoldersAnnounce /\ TicketsDistinct /\ GapsHeld

------------------------------------------------------------------------------
(* While recover() runs: the stretch of last_head_ slots without a gap grows *)
(* by one with every item that is moved down.                               *)

FilledBelow(n) == \A k \in 0 .. n - 1 : Written(k)

Stopped == \A p \in Producers : push_pc[p] = "idle"

\* last_head_ = find_last_head().
LastHeadFound == /\ last_head_ <= head_
                 /\ \A p \in Producers : last_head_ <= thr_head[p]

\* The elements are in ascending order, all above last_head_; those before the
\* iterator have been moved and their threads' positions with them.
Moving ==
    /\ n_pushed = Len(elems) /\ it <= n_pushed + 1 /\ i = it - 1
    /\ \A m \in DOMAIN elems :
          /\ last_head_ + m <= elems[m][1] /\ elems[m][1] < head_
          /\ elems[m][2] \in Producers
          /\ pos_push[elems[m][2]] = IF m < it THEN last_head_ + m - 1
                                               ELSE elems[m][1]
    /\ \A m, n \in DOMAIN elems : m < n => /\ elems[m][1] < elems[n][1]
                                           /\ elems[m][2] # elems[n][2]
    /\ \A p \in Producers :
          pos_push[p] = ULONG_MAX \/ \E m \in DOMAIN elems : elems[m][2] = p
    /\ rec_pc = "push_pos" => it <= n_pushed /\ Written(last_head_ + i)

\* The pushed elements are in place.  What is moved next is below last_head_.
Moved ==
    /\ last_head_ + n_pushed <= head_ /\ FilledBelow(last_head_ + n_pushed)
    /\ \A p \in Producers : pos_push[p] = ULONG_MAX
                            \/ pos_push[p] < last_head_ + n_pushed
    /\ elems # << >> => popped # << >>
    /\ \A m \in DOMAIN elems : elems[m][1] < last_head_ /\ elems[m][2] \in Consumers
    /\ rec_pc = "pop_pos" => /\ it <= Len(elems)
                             /\ elems[it][1] < popped[Len(popped)][1] - i

Counted ==
    /\ last_head_ <= head_ /\ FilledBelow(last_head_)
    /\ \A p \in Producers : pos_push[p] = ULONG_MAX \/ pos_push[p] < last_head_

Recovering ==
    /\ Stopped
    /\ rec_pc \in {"down", "last_tail", "pushed"} => it = 1 /\ i = 0
    /\ rec_pc \in {"last_tail", "pushed", "push_copy", "push_pos"} => LastHeadFound
    /\ rec_pc \in {"push_copy", "push_pos"} => Moving
    /\ rec_pc \in {"pop_copy", "pop_pos"} => Moved
    /\ rec_pc = "set_head" => Counted
    /\ rec_pc \in {"add_tail", "set_tail", "heads", "tails"} => FilledBelow(head_)
    /\ rec_pc = "heads" => \A p \in Producers : p < i => thr_head[p] = ULONG_MAX
    /\ rec_pc = "tails" => \A p \in Producers : thr_head[p] = ULONG_MAX

\* Inductive.  It holds of push(), pop(), recover() (lines 184-305) and of a
\* crash between any two of their stores, and implies NoHoles and NoPushMadeUp.
RecInv == /\ RecTypeOK /\ GapsAnnounced /\ PositionsWritten
          /\ rec_pc = "up" => Running
          /\ rec_pc # "up" => Recovering
==============================================================================
