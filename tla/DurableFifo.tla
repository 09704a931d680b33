----------------------------- MODULE DurableFifo -----------------------------
(***************************************************************************)
(* What a persistent first-in first-out queue promises across a crash      *)
(* (durable linearizability): every push() that returned before the crash  *)
(* is still in the queue unless a pop() took it, every pop() that returned *)
(* took its item for good, the rest keep their order, and an operation the *)
(* crash cut short took effect entirely or not at all.                     *)
(***************************************************************************)
EXTENDS Naturals, Sequences

CONSTANTS Producers, Consumers, Items, NoItem,
          NoThread    \* no thread: the operation on this entry has returned,
                      \* or has not begun

VARIABLES log,        \* the entries, oldest first: an item, the producer "by"
                      \* whose push() has not returned yet, and the consumer
                      \* "to" which has taken it and not returned yet
          pushing,    \* pushing[p]: "idle", "called" or "done"
          item,       \* item[p]: the argument of p's current or last push()
          popping,    \* popping[c]: "idle", "called" or "done"
          buffer,     \* buffer[c]: the item c's last pop() was given
          up          \* FALSE from a crash to the end of the recovery

vars == <<log, pushing, item, popping, buffer, up>>

Entry == [item : Items, by : Producers \cup {NoThread},
          to : Consumers \cup {NoThread}]

Init == /\ log = << >>
        /\ pushing = [p \in Producers |-> "idle"]
        /\ item = [p \in Producers |-> NoItem]
        /\ popping = [c \in Consumers |-> "idle"]
        /\ buffer = [c \in Consumers |-> NoItem]
        /\ up = TRUE

PushCall(p, x) == /\ up /\ pushing[p] = "idle"
                  /\ pushing' = [pushing EXCEPT ![p] = "called"]
                  /\ item' = [item EXCEPT ![p] = x]
                  /\ UNCHANGED <<log, popping, buffer, up>>

\* Some entry that no pop() has taken yet.
NonEmpty == \E n \in DOMAIN log : log[n].to = NoThread

Enqueue(p) == /\ up /\ pushing[p] = "called"
              /\ pushing' = [pushing EXCEPT ![p] = "done"]
              /\ log' = Append(log, [item |-> item[p], by |-> p, to |-> NoThread])
              /\ UNCHANGED <<item, popping, buffer, up>>

\* The item of p goes to c, which waits at an empty queue.
Handoff(p, c) == /\ up /\ pushing[p] = "called" /\ popping[c] = "called"
                 /\ ~ NonEmpty
                 /\ pushing' = [pushing EXCEPT ![p] = "done"]
                 /\ popping' = [popping EXCEPT ![c] = "done"]
                 /\ log' = Append(log, [item |-> item[p], by |-> p, to |-> c])
                 /\ buffer' = [buffer EXCEPT ![c] = item[p]]
                 /\ UNCHANGED <<item, up>>

PushReturn(p) == /\ up /\ pushing[p] = "done"
                 /\ pushing' = [pushing EXCEPT ![p] = "idle"]
                 /\ log' = [n \in DOMAIN log |->
                               IF log[n].by = p THEN [log[n] EXCEPT !.by = NoThread]
                                                ELSE log[n]]
                 /\ UNCHANGED <<item, popping, buffer, up>>

PopCall(c) == /\ up /\ popping[c] = "idle"
              /\ popping' = [popping EXCEPT ![c] = "called"]
              /\ UNCHANGED <<log, pushing, item, buffer, up>>

Dequeue(c) == /\ up /\ popping[c] = "called"
              /\ \E n \in DOMAIN log :
                   /\ log[n].to = NoThread
                   /\ \A m \in 1 .. n - 1 : log[m].to # NoThread
                   /\ log' = [log EXCEPT ![n].to = c]
                   /\ buffer' = [buffer EXCEPT ![c] = log[n].item]
              /\ popping' = [popping EXCEPT ![c] = "done"]
              /\ UNCHANGED <<pushing, item, up>>

PopReturn(c) == /\ up /\ popping[c] = "done"
                /\ popping' = [popping EXCEPT ![c] = "idle"]
                /\ log' = SelectSeq(log, LAMBDA e : e.to # c)
                /\ UNCHANGED <<pushing, item, buffer, up>>

\* The threads and everything they had in memory are gone.
Crash == /\ up
         /\ up' = FALSE
         /\ pushing' = [p \in Producers |-> "idle"]
         /\ item' = [p \in Producers |-> NoItem]
         /\ popping' = [c \in Consumers |-> "idle"]
         /\ buffer' = [c \in Consumers |-> NoItem]
         /\ UNCHANGED log

\* The entries numbered in S, in their order, as entries of the new start.
Restarted(S) ==
    LET kept == SelectSeq([n \in DOMAIN log |-> n], LAMBDA n : n \in S)
    IN  [k \in DOMAIN kept |->
            [item |-> log[kept[k]].item, by |-> NoThread, to |-> NoThread]]

\* Only an entry whose push() or pop() the crash cut short may be missing.
Recover == /\ ~ up
           /\ up' = TRUE
           /\ \E S \in SUBSET DOMAIN log :
                /\ \A n \in DOMAIN log :
                     log[n].by = NoThread /\ log[n].to = NoThread => n \in S
                /\ log' = Restarted(S)
           /\ UNCHANGED <<pushing, item, popping, buffer>>

Next == \/ \E p \in Producers : \/ \E x \in Items : PushCall(p, x)
                                \/ Enqueue(p)
                                \/ \E c \in Consumers : Handoff(p, c)
                                \/ PushReturn(p)
        \/ \E c \in Consumers : PopCall(c) \/ Dequeue(c) \/ PopReturn(c)
        \/ Crash
        \/ Recover

Spec == Init /\ [][Next]_vars
==============================================================================
