------------------------------ MODULE FifoQueue ------------------------------
(***************************************************************************)
(* What the request queue of a node promises its users: a first-in         *)
(* first-out channel that hands every item to exactly one consumer.  The   *)
(* linked list, the mutex and the condition variable of helpers/xqueue.c   *)
(* are shown to implement this in module XQueue.                           *)
(***************************************************************************)
EXTENDS Sequences, Naturals

CONSTANTS
    Items,      \* the pointers that may be enqueued
    Consumers,  \* the threads that dequeue
    NULL

VARIABLES
    queue,      \* the items enqueued and not yet dequeued, oldest first
    output      \* output[c]: the item consumer c was handed and still works on

vars == <<queue, output>>

InQueue(d) == \E i \in 1..Len(queue) : queue[i] = d

Init ==
    /\ queue = <<>>
    /\ output = [c \in Consumers |-> NULL]

(* An item is put by the thread that owns it: it is not queued and no      *)
(* consumer works on it.                                                   *)
Put(d) ==
    /\ ~InQueue(d)
    /\ \A c \in Consumers : output[c] # d
    /\ queue' = Append(queue, d)
    /\ UNCHANGED output

(* A consumer that holds nothing is handed the oldest item.                *)
Take(c) ==
    /\ output[c] = NULL
    /\ queue # <<>>
    /\ output' = [output EXCEPT ![c] = Head(queue)]
    /\ queue' = Tail(queue)

(* A consumer is done with its item.                                       *)
Finish(c) ==
    /\ output[c] # NULL
    /\ output' = [output EXCEPT ![c] = NULL]
    /\ UNCHANGED queue

Next ==
    \/ \E d \in Items : Put(d)
    \/ \E c \in Consumers : Take(c) \/ Finish(c)

Spec == Init /\ [][Next]_vars

(* A queue that is not empty is not left alone for ever.                   *)
FairSpec == Spec /\ WF_vars(\E c \in Consumers : Take(c))

==============================================================================
