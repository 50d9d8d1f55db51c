-------------------------------- MODULE XQueue --------------------------------
(***************************************************************************)
(* helpers/xqueue.c: the queue between the thread that receives datagrams  *)
(* and the worker threads.  A singly linked list that starts at a dummy    *)
(* node, a mutex, and a condition variable on which consumers wait while   *)
(* the list is empty.                                                      *)
(*                                                                         *)
(* The list is modelled at the level of the code: nodes are cells of a     *)
(* heap, malloc picks any free cell, free returns it, and a freed cell     *)
(* keeps its stale contents.  A step of the model is what a thread does    *)
(* between two points where another thread may be scheduled: taking the    *)
(* mutex, the body of the critical section, releasing it.                  *)
(***************************************************************************)
EXTENDS Naturals, Sequences, FiniteSets

CONSTANTS
    Producers,  \* threads that call xqueue_enqueue
    Consumers,  \* threads that call xqueue_dequeue in a loop
    Items,      \* the void* payloads; an item is enqueued by its owner only
    Cells,      \* heap cells for xqueue_node_t, the dummy's included
    Dummy,      \* the cell xqueue_new allocates; queue->head always points to it
    NULL

ASSUME XQueueAssumption ==
    /\ Consumers # {} /\ IsFiniteSet(Consumers)
    /\ Producers \cap Consumers = {}
    /\ Dummy \in Cells
    /\ NULL \notin Cells \cup Items \cup Producers \cup Consumers

Threads == Producers \cup Consumers

VARIABLES
    next,       \* next[n]: the next field of node n
    data,       \* data[n]: the data field of node n
    allocated,  \* the cells malloc has handed out and free has not taken back
    tail,       \* queue->tail
    lock,       \* the owner of queue->lock, NULL when it is free
    cond,       \* the threads blocked on queue->cond
    pc,         \* where each thread is
    node,       \* node[p]: local variable `node' of xqueue_enqueue
    output,     \* output[c]: *output of xqueue_dequeue
    chain       \* history: the nodes enqueued and not yet dequeued, in order

vars == <<next, data, allocated, tail, lock, cond, pc, node, output, chain>>

PCs == {"idle", "enq_lock", "enq_link", "enq_unlock",
        "deq_lock", "deq_test", "deq_wait", "deq_take", "deq_unlock", "busy"}

(* xqueue_new: the list holds the dummy only.  Every consumer is about to  *)
(* call xqueue_dequeue.                                                    *)
Init ==
    /\ next = [n \in Cells |-> NULL]
    /\ data = [n \in Cells |-> NULL]
    /\ allocated = {Dummy}
    /\ tail = Dummy
    /\ lock = NULL
    /\ cond = {}
    /\ pc = [t \in Threads |-> IF t \in Producers THEN "idle" ELSE "deq_lock"]
    /\ node = [p \in Producers |-> NULL]
    /\ output = [c \in Consumers |-> NULL]
    /\ chain = <<>>

Goto(t, from, to) ==
    /\ pc[t] = from
    /\ pc' = [pc EXCEPT ![t] = to]

InChain(n) == \E i \in 1..Len(chain) : chain[i] = n

(* The item is owned by a thread that may enqueue it: it is not in the     *)
(* list, not about to be linked, and no consumer works on it.              *)
Enqueueable(d) ==
    /\ \A i \in 1..Len(chain) : data[chain[i]] # d
    /\ \A p \in Producers : node[p] # NULL => data[node[p]] # d
    /\ \A c \in Consumers : output[c] # d

------------------------------------------------------------------------------
(* xqueue_enqueue *)

(* malloc of the node and the two assignments to it, before the mutex.     *)
EnqueueAlloc(p, d, n) ==
    /\ Goto(p, "idle", "enq_lock")
    /\ Enqueueable(d)
    /\ n \notin allocated
    /\ allocated' = allocated \cup {n}
    /\ data' = [data EXCEPT ![n] = d]
    /\ next' = [next EXCEPT ![n] = NULL]
    /\ node' = [node EXCEPT ![p] = n]
    /\ UNCHANGED <<tail, lock, cond, output, chain>>

EnqueueLock(p) ==
    /\ Goto(p, "enq_lock", "enq_link")
    /\ lock = NULL
    /\ lock' = p
    /\ UNCHANGED <<next, data, allocated, tail, cond, node, output, chain>>

(* Seeded faults: variants with a plausible slip, which the properties     *)
(* below must tell from the code.                                          *)

(* Signalling only when the list was empty.                                *)
SignalIfEmpty ==
    IF cond = {} \/ next[Dummy] # NULL THEN UNCHANGED cond
                                       ELSE \E c \in cond : cond' = cond \ {c}

(* Not signalling at all.                                                  *)
SignalNobody == UNCHANGED cond

(* pthread_cond_signal: one of the blocked threads, if there is one, is    *)
(* unblocked; it still has to take the mutex again.                        *)
Signal ==
    IF cond = {} THEN UNCHANGED cond
                 ELSE \E c \in cond : cond' = cond \ {c}

(* queue->tail->next = node; queue->tail = node; signal.                   *)
EnqueueLink(p) ==
    /\ Goto(p, "enq_link", "enq_unlock")
    /\ next' = [next EXCEPT ![tail] = node[p]]
    /\ tail' = node[p]
    /\ Signal
    /\ chain' = Append(chain, node[p])
    /\ node' = [node EXCEPT ![p] = NULL]
    /\ UNCHANGED <<data, allocated, lock, output>>

EnqueueUnlock(p) ==
    /\ Goto(p, "enq_unlock", "idle")
    /\ lock' = NULL
    /\ UNCHANGED <<next, data, allocated, tail, cond, node, output, chain>>

------------------------------------------------------------------------------
(* xqueue_dequeue *)

DequeueLock(c) ==
    /\ Goto(c, "deq_lock", "deq_test")
    /\ lock = NULL
    /\ lock' = c
    /\ UNCHANGED <<next, data, allocated, tail, cond, node, output, chain>>

(* The condition of the while loop, found false.                           *)
DequeueNonEmpty(c) ==
    /\ Goto(c, "deq_test", "deq_take")
    /\ next[Dummy] # NULL
    /\ UNCHANGED <<next, data, allocated, tail, lock, cond, node, output, chain>>

(* pthread_cond_wait: release the mutex and block, in one step.            *)
DequeueWait(c) ==
    /\ Goto(c, "deq_test", "deq_wait")
    /\ next[Dummy] = NULL
    /\ lock' = NULL
    /\ cond' = cond \cup {c}
    /\ UNCHANGED <<next, data, allocated, tail, node, output, chain>>

(* A blocked thread may wake without a signal.                             *)
SpuriousWakeup(c) ==
    /\ c \in cond
    /\ cond' = cond \ {c}
    /\ UNCHANGED <<next, data, allocated, tail, lock, pc, node, output, chain>>

(* Seeded fault: `if' instead of `while' around pthread_cond_wait.          *)
TakeAtOnce == "deq_take"

(* Where a consumer goes on after pthread_cond_wait: at the loop's test.   *)
AfterWait == "deq_test"

(* pthread_cond_wait returns, with the mutex held.                         *)
DequeueWake(c) ==
    /\ c \notin cond
    /\ Goto(c, "deq_wait", AfterWait)
    /\ lock = NULL
    /\ lock' = c
    /\ UNCHANGED <<next, data, allocated, tail, cond, node, output, chain>>

(* Seeded faults: the tail is left at the freed node, or the node is never *)
(* freed.                                                                  *)
TailLeft(n) == tail

NothingFreed(n) == allocated

(* The tail goes back to the dummy when node n was the last one.           *)
TailWithout(n) == IF tail = n THEN Dummy ELSE tail

Freed(n) == allocated \ {n}

(* Unlink the first node behind the dummy and free it.                     *)
DequeueTake(c) ==
    LET n == next[Dummy] IN
    /\ Goto(c, "deq_take", "deq_unlock")
    /\ output' = [output EXCEPT ![c] = data[n]]
    /\ next' = [next EXCEPT ![Dummy] = next[n]]
    /\ tail' = TailWithout(n)
    /\ allocated' = Freed(n)
    /\ chain' = Tail(chain)
    /\ UNCHANGED <<data, lock, cond, node>>

DequeueUnlock(c) ==
    /\ Goto(c, "deq_unlock", "busy")
    /\ lock' = NULL
    /\ UNCHANGED <<next, data, allocated, tail, cond, node, output, chain>>

(* The caller is done with the item and calls xqueue_dequeue again.        *)
Finish(c) ==
    /\ Goto(c, "busy", "deq_lock")
    /\ output' = [output EXCEPT ![c] = NULL]
    /\ UNCHANGED <<next, data, allocated, tail, lock, cond, node, chain>>

------------------------------------------------------------------------------
Enqueue(p) ==
    \/ \E d \in Items, n \in Cells : EnqueueAlloc(p, d, n)
    \/ EnqueueLock(p)
    \/ EnqueueLink(p)
    \/ EnqueueUnlock(p)

Dequeue(c) ==
    \/ DequeueLock(c)
    \/ DequeueNonEmpty(c)
    \/ DequeueWait(c)
    \/ DequeueWake(c)
    \/ DequeueTake(c)
    \/ DequeueUnlock(c)
    \/ Finish(c)

Next ==
    \/ \E p \in Producers : Enqueue(p)
    \/ \E c \in Consumers : Dequeue(c)
    \/ \E c \in Consumers : SpuriousWakeup(c)

Spec == Init /\ [][Next]_vars

(* A runnable thread is scheduled again.  Nobody has to enqueue, so a      *)
(* producer is fair only once it has begun; wake-ups without a signal are  *)
(* never owed.  The mutex is not assumed to be fair: a thread may lose the *)
(* race for it for ever if others keep taking it.                          *)
Fairness ==
    /\ \A p \in Producers :
          WF_vars(EnqueueLock(p) \/ EnqueueLink(p) \/ EnqueueUnlock(p))
    /\ \A c \in Consumers : WF_vars(Dequeue(c))

FairSpec == Spec /\ Fairness

------------------------------------------------------------------------------
(* Properties *)

TypeOK ==
    /\ next \in [Cells -> Cells \cup {NULL}]
    /\ data \in [Cells -> Items \cup {NULL}]
    /\ allocated \in SUBSET Cells
    /\ tail \in Cells
    /\ lock \in Threads \cup {NULL}
    /\ cond \in SUBSET Consumers
    /\ pc \in [Threads -> PCs]
    /\ node \in [Producers -> Cells \cup {NULL}]
    /\ output \in [Consumers -> Items \cup {NULL}]
    /\ chain \in Seq(Cells)

(* The pointers spell out the nodes in the order in which they were        *)
(* enqueued: the dummy leads to the oldest, each node to its successor,    *)
(* the last to NULL, and queue->tail is the last node, or the dummy again  *)
(* once the last node was taken (the reset in xqueue_dequeue).             *)
ListShape ==
    /\ next[Dummy] = IF chain = <<>> THEN NULL ELSE chain[1]
    /\ \A i \in 1..Len(chain) :
          next[chain[i]] = IF i = Len(chain) THEN NULL ELSE chain[i + 1]
    /\ tail = IF chain = <<>> THEN Dummy ELSE chain[Len(chain)]

(* The heap holds the dummy, the linked nodes and the nodes that producers *)
(* are about to link, all different, and nothing else: xqueue_dequeue      *)
(* frees every node once, and nobody can reach a freed one.                *)
HeapExact ==
    /\ \A i, j \in 1..Len(chain) : chain[i] = chain[j] => i = j
    /\ \A p, q \in Producers : node[p] = node[q] /\ node[p] # NULL => p = q
    /\ \A p \in Producers : ~InChain(node[p]) /\ node[p] # Dummy
    /\ ~InChain(Dummy)
    /\ allocated = {Dummy} \cup {n \in Cells : InChain(n)}
                           \cup {n \in Cells : \E p \in Producers : node[p] = n}

(* A consumer that goes on to unlink a node finds one: xqueue_dequeue      *)
(* tests the list again after every wake-up, so neither a spurious wake-up *)
(* nor a consumer that overtook it makes it dereference NULL.              *)
TakeFindsNode ==
    \A c \in Consumers : pc[c] = "deq_take" => next[Dummy] # NULL

(* Consumers that will test the list before they can sleep.                *)
OnTheWay == {c \in Consumers : /\ c \notin cond
                               /\ pc[c] \in {"deq_lock", "deq_test", "deq_wait", "deq_take"}}

(* As long as a consumer sleeps, every queued item has a consumer of its   *)
(* own on the way to the list: xqueue_enqueue signals for every item, not  *)
(* only for the first one of an empty list.                                *)
WorkConserving ==
    cond # {} => Len(chain) <= Cardinality(OnTheWay)

(* The queue is a FIFO channel: under the mapping that reads the items off *)
(* the linked nodes, every step of the code is a Put, a Take, a Finish, or *)
(* invisible, and items are taken while there are any.                     *)
Fifo == INSTANCE FifoQueue
            WITH queue <- [i \in 1..Len(chain) |-> data[chain[i]]]

FifoSpec == Fifo!Spec

FifoFairSpec == Fifo!FairSpec

==============================================================================
