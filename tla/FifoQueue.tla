------------------------------ MODULE FifoQueue ------------------------------
(***************************************************************************)
(* What LockFreeQueue<T>::push() and pop() promise to the threads that     *)
(* call them: one first-in first-out queue of items on which every         *)
(* operation takes effect at one instant between its call and its return.  *)
(* pop() waits when there is nothing to take, so an item pushed to an      *)
(* empty queue may go straight to a consumer that is already waiting.      *)
(* The ring, its tickets and its bound are not visible here.               *)
(***************************************************************************)
EXTENDS Sequences

CONSTANTS Producers,   \* the threads that call push()
          Consumers,   \* the threads that call pop()
          Items,       \* what can be pushed
          NoItem       \* the contents of a buffer that nothing was popped to

VARIABLES queue,       \* the items pushed and not yet taken, oldest first
          pushing,     \* pushing[p]: "idle", "called" or "done"
          item,        \* item[p]: the argument of p's current or last push()
          popping,     \* popping[c]: "idle", "called" or "done"
          buffer       \* buffer[c]: the item c's last pop() was given

vars == <<queue, pushing, item, popping, buffer>>

TypeOK == /\ queue \in Seq(Items)
          /\ pushing \in [Producers -> {"idle", "called", "done"}]
          /\ item \in [Producers -> Items \cup {NoItem}]
          /\ popping \in [Consumers -> {"idle", "called", "done"}]
          /\ buffer \in [Consumers -> Items \cup {NoItem}]

Init == /\ queue = << >>
        /\ pushing = [p \in Producers |-> "idle"]
        /\ item = [p \in Producers |-> NoItem]
        /\ popping = [c \in Consumers |-> "idle"]
        /\ buffer = [c \in Consumers |-> NoItem]

PushCall(p, x) == /\ pushing[p] = "idle"
                  /\ pushing' = [pushing EXCEPT ![p] = "called"]
                  /\ item' = [item EXCEPT ![p] = x]
                  /\ UNCHANGED <<queue, popping, buffer>>

Enqueue(p) == /\ pushing[p] = "called"
              /\ pushing' = [pushing EXCEPT ![p] = "done"]
              /\ queue' = Append(queue, item[p])
              /\ UNCHANGED <<item, popping, buffer>>

\* The item of p goes to c, which waits at an empty queue.
Handoff(p, c) == /\ pushing[p] = "called"
                 /\ popping[c] = "called"
                 /\ queue = << >>
                 /\ pushing' = [pushing EXCEPT ![p] = "done"]
                 /\ popping' = [popping EXCEPT ![c] = "done"]
                 /\ buffer' = [buffer EXCEPT ![c] = item[p]]
                 /\ UNCHANGED <<queue, item>>

PushReturn(p) == /\ pushing[p] = "done"
                 /\ pushing' = [pushing EXCEPT ![p] = "idle"]
                 /\ UNCHANGED <<queue, item, popping, buffer>>

PopCall(c) == /\ popping[c] = "idle"
              /\ popping' = [popping EXCEPT ![c] = "called"]
              /\ UNCHANGED <<queue, pushing, item, buffer>>

Dequeue(c) == /\ popping[c] = "called"
              /\ queue # << >>
              /\ popping' = [popping EXCEPT ![c] = "done"]
              /\ buffer' = [buffer EXCEPT ![c] = Head(queue)]
              /\ queue' = Tail(queue)
              /\ UNCHANGED <<pushing, item>>

PopReturn(c) == /\ popping[c] = "done"
                /\ popping' = [popping EXCEPT ![c] = "idle"]
                /\ UNCHANGED <<queue, pushing, item, buffer>>

Next == \/ \E p \in Producers : \/ \E x \in Items : PushCall(p, x)
                                \/ Enqueue(p)
                                \/ \E c \in Consumers : Handoff(p, c)
                                \/ PushReturn(p)
        \/ \E c \in Consumers : PopCall(c) \/ Dequeue(c) \/ PopReturn(c)

Spec == Init /\ [][Next]_vars
==============================================================================
