----------------------------- MODULE XQueueProofs -----------------------------
(***************************************************************************)
(* Proofs that the queue of helpers/xqueue.c keeps its list and its heap   *)
(* intact for any number of producers, consumers, items and cells.         *)
(***************************************************************************)
EXTENDS XQueue, SequenceTheorems, FiniteSetTheorems, TLAPS

Critical == {"enq_link", "enq_unlock", "deq_test", "deq_take", "deq_unlock"}

(* Who is where: the mutex has one owner and it is in a critical section,  *)
(* producers and consumers run their own code, blocked threads are inside  *)
(* pthread_cond_wait, and the local variables are set when they are live.  *)
ControlInv ==
    /\ \A t \in Threads : lock = t <=> pc[t] \in Critical
    /\ \A p \in Producers : pc[p] \in {"idle", "enq_lock", "enq_link", "enq_unlock"}
    /\ \A c \in Consumers : pc[c] \in {"deq_lock", "deq_test", "deq_wait",
                                       "deq_take", "deq_unlock", "busy"}
    /\ \A c \in cond : pc[c] = "deq_wait"
    /\ \A p \in Producers : node[p] # NULL <=> pc[p] \in {"enq_lock", "enq_link"}
    /\ \A c \in Consumers : output[c] # NULL <=> pc[c] \in {"deq_unlock", "busy"}

(* Every node that is linked or about to be linked carries an item, no     *)
(* item is in two places, and a private node ends the list.                *)
ItemInv ==
    /\ \A i \in 1..Len(chain) : data[chain[i]] \in Items
    /\ \A p \in Producers :
          node[p] # NULL => data[node[p]] \in Items /\ next[node[p]] = NULL
    /\ \A i, j \in 1..Len(chain) : data[chain[i]] = data[chain[j]] => i = j
    /\ \A p \in Producers, i \in 1..Len(chain) :
          node[p] # NULL => data[node[p]] # data[chain[i]]
    /\ \A p, q \in Producers :
          node[p] # NULL /\ node[q] # NULL /\ p # q => data[node[p]] # data[node[q]]
    /\ \A c \in Consumers, i \in 1..Len(chain) : output[c] # data[chain[i]]
    /\ \A c \in Consumers, p \in Producers :
          node[p] # NULL => output[c] # data[node[p]]

IInv ==
    /\ TypeOK
    /\ ControlInv
    /\ ListShape
    /\ HeapExact
    /\ TakeFindsNode
    /\ ItemInv

------------------------------------------------------------------------------
(* The initial state: the list is the dummy alone.                         *)
LEMMA IInvInit == Init => IInv
  <1> SUFFICES ASSUME Init PROVE IInv
    OBVIOUS
  <1>1. Len(chain) = 0 /\ chain \in Seq(Cells)
    BY DEF Init
  <1>2. TypeOK
    BY <1>1, XQueueAssumption DEF Init, TypeOK, Threads, PCs
  <1>3. ControlInv
    BY XQueueAssumption DEF Init, ControlInv, Critical, Threads
  <1>4. ListShape /\ TakeFindsNode
    BY <1>1, XQueueAssumption DEF Init, ListShape, TakeFindsNode, Threads
  <1>5. HeapExact /\ ItemInv
    BY <1>1, XQueueAssumption DEF Init, HeapExact, ItemInv, InChain
  <1> QED
    BY <1>2, <1>3, <1>4, <1>5 DEF IInv

(* A fresh node is private to its producer until it is linked.             *)
LEMMA EnqueueAllocStep ==
  ASSUME IInv, NEW p \in Producers, NEW d \in Items, NEW n \in Cells,
         EnqueueAlloc(p, d, n)
  PROVE  IInv'
  <1> USE DEF EnqueueAlloc, Goto
  <1>1. TypeOK'
    BY DEF IInv, TypeOK, Threads, PCs
  <1>2. ControlInv'
    BY XQueueAssumption DEF IInv, TypeOK, ControlInv, Critical, Threads
  <1>3. n # Dummy /\ ~InChain(n) /\ \A q \in Producers : node[q] # n
    BY DEF IInv, HeapExact, TypeOK
  <1>4. Len(chain) \in Nat /\ \A i \in 1..Len(chain) : chain[i] \in Cells
    BY DEF IInv, TypeOK
  <1>5. ListShape'
    BY <1>3, <1>4, XQueueAssumption DEF IInv, TypeOK, ListShape, InChain
  <1>6. HeapExact'
    <2>1. \A m : InChain(m)' <=> InChain(m)
      BY DEF InChain
    <2>2. \A q \in Producers : node'[q] = IF q = p THEN n ELSE node[q]
      BY DEF IInv, TypeOK
    <2>3. allocated' = {Dummy} \cup {m \in Cells : InChain(m)}
                         \cup {m \in Cells : \E q \in Producers : node'[q] = m}
      <3>1. node[p] = NULL
        BY DEF IInv, ControlInv
      <3> QED
        BY <1>3, <2>2, <3>1, XQueueAssumption DEF IInv, HeapExact
    <2> QED
      BY <1>3, <2>1, <2>2, <2>3 DEF IInv, HeapExact
  <1>7. TakeFindsNode'
    BY <1>3, XQueueAssumption DEF IInv, TypeOK, TakeFindsNode, Threads
  <1>8. ItemInv'
    <2>1. \A i \in 1..Len(chain) : chain[i] # n /\ data'[chain[i]] = data[chain[i]]
      BY <1>3, <1>4 DEF IInv, TypeOK, InChain
    <2>2. data'[n] = d /\ next'[n] = NULL /\ node'[p] = n
      BY DEF IInv, TypeOK
    <2>3. \A q \in Producers :
             q # p => /\ node'[q] = node[q]
                      /\ node[q] # NULL => /\ data'[node[q]] = data[node[q]]
                                           /\ next'[node[q]] = next[node[q]]
      BY <1>3 DEF IInv, TypeOK
    <2>4. chain' = chain /\ output' = output /\ Enqueueable(d)
      OBVIOUS
    <2>5. ItemInv
      BY DEF IInv
    <2> HIDE DEF EnqueueAlloc
    <2> QED
      BY <2>1, <2>2, <2>3, <2>4, <2>5 DEF ItemInv, Enqueueable
  <1> QED
    BY <1>1, <1>2, <1>5, <1>6, <1>7, <1>8 DEF IInv

(* Steps that only move a thread and the mutex or the condition variable.  *)
LEMMA ControlStep ==
  ASSUME IInv, UNCHANGED <<next, data, allocated, tail, node, output, chain>>,
         TypeOK', ControlInv', TakeFindsNode'
  PROVE  IInv'
  BY DEF IInv, ListShape, HeapExact, ItemInv, InChain

(* Locking, unlocking, waiting and waking keep the invariant.              *)
LEMMA LockStep ==
  ASSUME IInv,
         \/ \E p \in Producers : EnqueueLock(p) \/ EnqueueUnlock(p)
         \/ \E c \in Consumers : \/ DequeueLock(c) \/ DequeueNonEmpty(c)
                                 \/ DequeueWait(c) \/ DequeueWake(c)
                                 \/ DequeueUnlock(c) \/ SpuriousWakeup(c)
  PROVE  IInv'
  <1> USE XQueueAssumption
          DEF EnqueueLock, EnqueueUnlock, DequeueLock, DequeueNonEmpty, DequeueWait,
              DequeueWake, AfterWait, DequeueUnlock, SpuriousWakeup, Goto
  <1>1. TypeOK'
    <2>1. UNCHANGED <<next, data, allocated, tail, node, output, chain>>
      OBVIOUS
    <2>2. lock' \in Threads \cup {NULL}
      BY DEF IInv, TypeOK, Threads
    <2>3. cond' \in SUBSET Consumers
      BY DEF IInv, TypeOK
    <2>4. pc' \in [Threads -> PCs]
      BY Zenon DEF IInv, TypeOK, Threads, PCs
    <2> HIDE DEF EnqueueLock, EnqueueUnlock, DequeueLock, DequeueNonEmpty, DequeueWait,
                 DequeueWake, DequeueUnlock, SpuriousWakeup
    <2> QED
      BY <2>1, <2>2, <2>3, <2>4 DEF IInv, TypeOK
  <1>2. ControlInv'
    BY DEF IInv, TypeOK, ControlInv, Critical, Threads
  <1>3. TakeFindsNode'
    BY DEF IInv, TypeOK, TakeFindsNode, Threads
  <1> QED
    BY <1>1, <1>2, <1>3, ControlStep

(* Linking: the private node becomes the last one of the list.             *)
LEMMA EnqueueLinkStep ==
  ASSUME IInv, NEW p \in Producers, EnqueueLink(p)
  PROVE  IInv'
  <1> USE DEF EnqueueLink, Goto
  <1> DEFINE n == node[p]
             k == Len(chain)
  <1>1. n \in Cells /\ n # NULL /\ n # Dummy /\ ~InChain(n) /\ data[n] \in Items
    BY XQueueAssumption DEF IInv, TypeOK, ControlInv, HeapExact, ItemInv
  <1>2. /\ k \in Nat
        /\ chain = <<>> <=> k = 0
        /\ \A i \in 1..k : chain[i] \in Cells
    BY EmptySeq DEF IInv, TypeOK
  <1>3. /\ chain' \in Seq(Cells)
        /\ Len(chain') = k + 1
        /\ \A i \in 1..k : chain'[i] = chain[i]
        /\ chain'[k + 1] = n
        /\ chain' # <<>>
    BY <1>1, AppendProperties DEF IInv, TypeOK
  <1>4. \A m : InChain(m)' <=> InChain(m) \/ m = n
    BY <1>2, <1>3 DEF InChain
  <1>5. cond' \subseteq cond
    BY DEF Signal
  <1>6. TypeOK'
    BY <1>1, <1>3, <1>5 DEF IInv, TypeOK, Threads, PCs
  <1>7. ControlInv'
    BY <1>5, XQueueAssumption DEF IInv, TypeOK, ControlInv, Critical, Threads
  <1>8. ListShape'
    <2>1. tail = IF k = 0 THEN Dummy ELSE chain[k]
      BY <1>2 DEF IInv, ListShape
    <2>2. next[n] = NULL
      BY <1>1 DEF IInv, ItemInv
    <2> QED
      BY <1>1, <1>2, <1>3, <2>1, <2>2 DEF IInv, TypeOK, ListShape, HeapExact, InChain
  <1>9. \A q \in Producers : node'[q] = IF q = p THEN NULL ELSE node[q]
    BY DEF IInv, TypeOK
  <1>10. HeapExact'
    <2>1. \A q \in Producers : node'[q] # NULL => node'[q] = node[q] /\ node[q] # n
      BY <1>1, <1>9 DEF IInv, HeapExact
    <2>2. \A i, j \in 1..Len(chain') : chain'[i] = chain'[j] => i = j
      BY <1>1, <1>2, <1>3 DEF IInv, HeapExact, InChain
    <2>3. \A q \in Producers : ~InChain(node[q])' /\ node'[q] # Dummy
      BY <1>1, <1>2, <1>4, <1>9, <2>1, XQueueAssumption DEF IInv, HeapExact, InChain
    <2>4. ~InChain(Dummy)'
      BY <1>1, <1>4 DEF IInv, HeapExact
    <2>5. allocated' = {Dummy} \cup {m \in Cells : InChain(m)'}
                         \cup {m \in Cells : \E q \in Producers : node'[q] = m}
      BY <1>1, <1>4, <1>9, XQueueAssumption DEF IInv, HeapExact
    <2>6. \A q, r \in Producers : node'[q] = node'[r] /\ node'[q] # NULL => q = r
      BY <1>9 DEF IInv, HeapExact
    <2> QED
      BY <2>2, <2>3, <2>4, <2>5, <2>6 DEF HeapExact
  <1>11. TakeFindsNode'
    BY <1>7, XQueueAssumption DEF ControlInv, TakeFindsNode, Critical, Threads, IInv, TypeOK
  <1>12. ItemInv'
    <2>1. \A q \in Producers : node[q] # tail
      BY <1>2 DEF IInv, ListShape, HeapExact, InChain
    <2>2. \A q \in Producers :
            node'[q] # NULL => data'[node'[q]] \in Items /\ next'[node'[q]] = NULL
      BY <1>9, <2>1 DEF IInv, TypeOK, ItemInv
    <2>3. data' = data /\ output' = output /\ ItemInv
      BY DEF IInv
    <2> HIDE DEF EnqueueLink
    <2>4. /\ \A i \in 1..Len(chain') : data'[chain'[i]] \in Items
          /\ \A i, j \in 1..Len(chain') : data'[chain'[i]] = data'[chain'[j]] => i = j
      BY <1>1, <1>2, <1>3, <2>3 DEF ItemInv
    <2>5. \A q \in Producers, i \in 1..Len(chain') :
            node'[q] # NULL => data'[node'[q]] # data'[chain'[i]]
      BY <1>1, <1>2, <1>3, <1>9, <2>3 DEF ItemInv
    <2>6. \A q, r \in Producers :
            node'[q] # NULL /\ node'[r] # NULL /\ q # r => data'[node'[q]] # data'[node'[r]]
      BY <1>9, <2>3 DEF ItemInv
    <2>7. \A c \in Consumers, i \in 1..Len(chain') : output'[c] # data'[chain'[i]]
      BY <1>1, <1>2, <1>3, <2>3 DEF ItemInv
    <2>8. \A c \in Consumers, q \in Producers :
            node'[q] # NULL => output'[c] # data'[node'[q]]
      BY <1>9, <2>3 DEF ItemInv
    <2> QED
      BY <2>2, <2>4, <2>5, <2>6, <2>7, <2>8 DEF ItemInv
  <1> QED
    BY <1>6, <1>7, <1>8, <1>10, <1>11, <1>12 DEF IInv

(* What a consumer about to unlink finds: a list with a first node.        *)
LEMMA TakeFacts ==
  ASSUME IInv, NEW c \in Consumers, pc[c] = "deq_take"
  PROVE  /\ chain # <<>> /\ chain \in Seq(Cells)
         /\ Len(chain) \in Nat \ {0}
         /\ next[Dummy] = chain[1] /\ chain[1] \in Cells /\ chain[1] # Dummy
         /\ data[chain[1]] \in Items
         /\ next[chain[1]] = IF Len(chain) = 1 THEN NULL ELSE chain[2]
         /\ Tail(chain) \in Seq(Cells)
         /\ Len(Tail(chain)) = Len(chain) - 1
         /\ \A i \in 1..Len(Tail(chain)) : Tail(chain)[i] = chain[i + 1]
  <1>1. chain # <<>> /\ chain \in Seq(Cells)
    BY DEF IInv, TypeOK, TakeFindsNode, ListShape
  <1>2. Len(chain) \in Nat \ {0} /\ chain[1] \in Cells
    BY <1>1, EmptySeq, ElementOfSeq
  <1>3. next[Dummy] = chain[1] /\ chain[1] # Dummy
    BY <1>1, <1>2 DEF IInv, ListShape, HeapExact, InChain
  <1>4. next[chain[1]] = IF Len(chain) = 1 THEN NULL ELSE chain[2]
    <2>1. 1 \in 1..Len(chain) /\ 1 + 1 = 2
      BY <1>2
    <2>2. \A i \in 1..Len(chain) :
            next[chain[i]] = IF i = Len(chain) THEN NULL ELSE chain[i + 1]
      BY DEF IInv, ListShape
    <2>3. next[chain[1]] = IF 1 = Len(chain) THEN NULL ELSE chain[1 + 1]
      BY Zenon, <2>1, <2>2
    <2> QED
      BY <2>1, <2>3
  <1>5. data[chain[1]] \in Items
    BY <1>2 DEF IInv, ItemInv
  <1> QED
    BY <1>1, <1>2, <1>3, <1>4, <1>5, HeadTailProperties

(* Unlinking: the oldest node leaves the list and the heap.                *)
LEMMA DequeueTakeStep ==
  ASSUME IInv, NEW c \in Consumers, DequeueTake(c)
  PROVE  IInv'
  <1> USE DEF DequeueTake, TailWithout, Freed, Goto
  <1> DEFINE n == chain[1]
             k == Len(chain)
  <1>1. /\ chain # <<>> /\ k \in Nat \ {0}
        /\ next[Dummy] = n /\ n \in Cells /\ n # Dummy
        /\ data[n] \in Items
        /\ next[n] = IF k = 1 THEN NULL ELSE chain[2]
        /\ chain' \in Seq(Cells)
        /\ Len(chain') = k - 1
        /\ \A i \in 1..(k - 1) : chain'[i] = chain[i + 1]
    BY TakeFacts
  <1>2. \A i \in 1..k : chain[i] \in Cells /\ chain[i] # Dummy
    BY DEF IInv, TypeOK, HeapExact, InChain
  <1>3. \A i, j \in 1..k : chain[i] = chain[j] => i = j
    BY DEF IInv, HeapExact
  <1>4. \A m : InChain(m)' <=> InChain(m) /\ m # n
    <2> SUFFICES ASSUME NEW m PROVE InChain(m)' <=> InChain(m) /\ m # n
      OBVIOUS
    <2>1. InChain(m)' => InChain(m) /\ m # n
      BY <1>1, <1>3 DEF InChain
    <2>2. ASSUME InChain(m), m # n PROVE InChain(m)'
      <3>1. PICK i \in 1..k : chain[i] = m
        BY <2>2 DEF InChain
      <3>2. i # 1 /\ i - 1 \in 1..(k - 1) /\ chain'[i - 1] = m
        BY <1>1, <2>2, <3>1
      <3> QED
        BY <1>1, <3>2 DEF InChain
    <2> QED
      BY <2>1, <2>2
  <1>5. next' = [next EXCEPT ![Dummy] = next[n]] /\ output' = [output EXCEPT ![c] = data[n]]
    BY <1>1
  <1>6. TypeOK'
    BY <1>1, <1>5, XQueueAssumption DEF IInv, TypeOK, Threads, PCs
  <1>7. ControlInv'
    BY <1>1, <1>5, XQueueAssumption DEF IInv, TypeOK, ControlInv, Critical, Threads
  <1>8. ListShape'
    <2>1. chain' = <<>> <=> k = 1
      <3>1. chain' = <<>> => Len(chain') = 0
        BY Zenon, EmptySeq
      <3>2. chain' # <<>> => Len(chain') # 0
        BY <1>1, EmptySeq
      <3> QED
        BY <1>1, <3>1, <3>2
    <2>2. next'[Dummy] = IF chain' = <<>> THEN NULL ELSE chain'[1]
      BY <1>1, <1>5, <2>1, XQueueAssumption DEF IInv, TypeOK
    <2>3. \A i \in 1..Len(chain') :
            next'[chain'[i]] = IF i = Len(chain') THEN NULL ELSE chain'[i + 1]
      <3> SUFFICES ASSUME NEW i \in 1..(k - 1)
                   PROVE  next'[chain'[i]] = IF i = k - 1 THEN NULL ELSE chain'[i + 1]
        BY <1>1
      <3>1. i + 1 \in 1..k /\ chain'[i] = chain[i + 1] /\ chain[i + 1] # Dummy
        BY <1>1, <1>2
      <3>2. next[chain[i + 1]] = IF i + 1 = k THEN NULL ELSE chain[(i + 1) + 1]
        BY <3>1 DEF IInv, ListShape
      <3>3. next'[chain[i + 1]] = next[chain[i + 1]]
        BY <1>2, <1>5, <3>1 DEF IInv, TypeOK
      <3>4. i # k - 1 => chain'[i + 1] = chain[(i + 1) + 1]
        BY <1>1
      <3> QED
        BY <1>1, <3>1, <3>2, <3>3, <3>4
    <2>4. tail' = IF chain' = <<>> THEN Dummy ELSE chain'[Len(chain')]
      <3>1. tail = chain[k]
        BY <1>1 DEF IInv, ListShape
      <3>2. tail = n <=> k = 1
        BY <1>1, <1>3, <3>1
      <3> QED
        BY <1>1, <2>1, <3>1, <3>2
    <2> QED
      BY Zenon, <2>2, <2>3, <2>4 DEF ListShape
  <1>9. HeapExact'
    <2>1. \A i, j \in 1..Len(chain') : chain'[i] = chain'[j] => i = j
      BY <1>1, <1>3
    <2>2. InChain(n)
      BY <1>1 DEF InChain
    <2>3. \A p \in Producers : node[p] # n
      BY <2>2 DEF IInv, HeapExact
    <2>4. allocated' = {Dummy} \cup {m \in Cells : InChain(m)'}
                         \cup {m \in Cells : \E p \in Producers : node'[p] = m}
      BY <1>1, <1>4, <2>3 DEF IInv, HeapExact
    <2> QED
      BY <1>4, <2>1, <2>4 DEF IInv, HeapExact
  <1>10. TakeFindsNode'
    BY <1>7, XQueueAssumption DEF IInv, TypeOK, ControlInv, TakeFindsNode, Critical, Threads
  <1>11. ItemInv'
    <2>1. \A e \in Consumers : output'[e] = IF e = c THEN data[n] ELSE output[e]
      BY <1>5 DEF IInv, TypeOK
    <2>2. \A p \in Producers : node[p] # NULL => next'[node[p]] = NULL
      <3>1. \A p \in Producers : node[p] # Dummy /\ (node[p] # NULL => node[p] \in Cells)
        BY DEF IInv, TypeOK, HeapExact
      <3>2. \A p \in Producers : node[p] # NULL => next[node[p]] = NULL
        BY DEF IInv, ItemInv
      <3>3. \A m \in Cells : m # Dummy => next'[m] = next[m]
        BY <1>5 DEF IInv, TypeOK
      <3> QED
        BY <3>1, <3>2, <3>3
    <2>3. data' = data /\ node' = node /\ ItemInv
      BY DEF IInv
    <2> HIDE DEF DequeueTake
    <2>4. /\ \A i \in 1..Len(chain') : data'[chain'[i]] \in Items
          /\ \A i, j \in 1..Len(chain') : data'[chain'[i]] = data'[chain'[j]] => i = j
      <3>1. \A i \in 1..Len(chain') : i \in Nat /\ i + 1 \in 1..k /\ chain'[i] = chain[i + 1]
        BY <1>1
      <3>2. \A i, j \in 1..k : data[chain[i]] \in Items
                               /\ (data[chain[i]] = data[chain[j]] => i = j)
        BY <2>3 DEF ItemInv
      <3>3. ASSUME NEW i \in 1..Len(chain'), NEW j \in 1..Len(chain')
            PROVE  /\ data'[chain'[i]] \in Items
                   /\ data'[chain'[i]] = data'[chain'[j]] => i + 1 = j + 1
        BY <2>3, <3>1, <3>2
      <3> QED
        BY <3>1, <3>3
    <2>5. /\ \A p \in Producers : node'[p] # NULL => data'[node'[p]] \in Items
          /\ \A p \in Producers, i \in 1..Len(chain') :
                node'[p] # NULL => data'[node'[p]] # data'[chain'[i]]
          /\ \A p, q \in Producers :
                node'[p] # NULL /\ node'[q] # NULL /\ p # q => data'[node'[p]] # data'[node'[q]]
      BY <1>1, <2>3 DEF ItemInv
    <2>6. \A e \in Consumers, i \in 1..Len(chain') : output'[e] # data'[chain'[i]]
      BY <1>1, <2>1, <2>3 DEF ItemInv
    <2>7. \A e \in Consumers, p \in Producers :
            node'[p] # NULL => output'[e] # data'[node'[p]]
      BY <1>1, <2>1, <2>3 DEF ItemInv
    <2> QED
      BY <2>2, <2>3, <2>4, <2>5, <2>6, <2>7 DEF ItemInv
  <1> QED
    BY <1>6, <1>7, <1>8, <1>9, <1>10, <1>11 DEF IInv

(* A consumer that is done with its item keeps the invariant.              *)
LEMMA FinishStep ==
  ASSUME IInv, NEW c \in Consumers, Finish(c)
  PROVE  IInv'
  <1> USE DEF Finish, Goto
  <1>1. TypeOK'
    BY DEF IInv, TypeOK, Threads, PCs
  <1>2. ControlInv'
    BY XQueueAssumption DEF IInv, TypeOK, ControlInv, Critical, Threads
  <1>3. ListShape' /\ HeapExact'
    BY DEF IInv, ListShape, HeapExact, InChain
  <1>4. TakeFindsNode'
    BY DEF IInv, TypeOK, TakeFindsNode, Threads
  <1>5. ItemInv'
    <2>1. \A e \in Consumers : output'[e] = IF e = c THEN NULL ELSE output[e]
      BY DEF IInv, TypeOK
    <2>2. UNCHANGED <<next, data, node, chain>> /\ ItemInv
      BY DEF IInv
    <2> HIDE DEF Finish
    <2>3. \A e \in Consumers, i \in 1..Len(chain') : output'[e] # data'[chain'[i]]
      BY <2>1, <2>2, XQueueAssumption DEF ItemInv
    <2>4. \A e \in Consumers, p \in Producers :
            node'[p] # NULL => output'[e] # data'[node'[p]]
      BY <2>1, <2>2, XQueueAssumption DEF ItemInv
    <2> QED
      BY <2>2, <2>3, <2>4 DEF ItemInv
  <1> QED
    BY <1>1, <1>2, <1>3, <1>4, <1>5 DEF IInv

(* Every step of every thread keeps the invariant.                         *)
LEMMA IInvStep == IInv /\ [Next]_vars => IInv'
  <1> SUFFICES ASSUME IInv, [Next]_vars PROVE IInv'
    OBVIOUS
  <1>1. ASSUME NEW p \in Producers, Enqueue(p) PROVE IInv'
    BY <1>1, EnqueueAllocStep, LockStep, EnqueueLinkStep DEF Enqueue
  <1>2. ASSUME NEW c \in Consumers, Dequeue(c) PROVE IInv'
    BY <1>2, LockStep, DequeueTakeStep, FinishStep DEF Dequeue
  <1>3. ASSUME NEW c \in Consumers, SpuriousWakeup(c) PROVE IInv'
    BY <1>3, LockStep
  <1>4. CASE UNCHANGED vars
    <2>1. UNCHANGED <<next, data, allocated, tail, node, output, chain>>
      BY <1>4 DEF vars
    <2>2. TypeOK' /\ ControlInv' /\ TakeFindsNode'
      BY <1>4 DEF vars, IInv, TypeOK, ControlInv, TakeFindsNode
    <2> QED
      BY <2>1, <2>2, ControlStep
  <1> QED
    BY <1>1, <1>2, <1>3, <1>4 DEF Next

(* The invariant holds in every reachable state.                           *)
LEMMA SpecIInv == Spec => []IInv
  BY IInvInit, IInvStep, PTL DEF Spec

(* The variables keep their types whatever the threads do.                 *)
THEOREM TypeCorrect == Spec => []TypeOK
  <1>1. IInv => TypeOK
    BY DEF IInv
  <1> QED
    BY <1>1, SpecIInv, PTL

(* xqueue.c never loses, duplicates or reorders a node, for any number of  *)
(* producers and consumers.                                                *)
THEOREM ListIntact == Spec => []ListShape
  <1>1. IInv => ListShape
    BY DEF IInv
  <1> QED
    BY <1>1, SpecIInv, PTL

(* It neither leaks a node nor frees one that can still be reached.        *)
THEOREM HeapIntact == Spec => []HeapExact
  <1>1. IInv => HeapExact
    BY DEF IInv
  <1> QED
    BY <1>1, SpecIInv, PTL

(* xqueue_dequeue never unlinks from an empty list.                        *)
THEOREM TakeIsSafe == Spec => []TakeFindsNode
  <1>1. IInv => TakeFindsNode
    BY DEF IInv
  <1> QED
    BY <1>1, SpecIInv, PTL

------------------------------------------------------------------------------
(* No request waits while a worker sleeps.                                 *)

(* The consumers on the way to an item can be counted.                     *)
LEMMA OnTheWayFinite == IsFiniteSet(OnTheWay) /\ Cardinality(OnTheWay) \in Nat
  <1>1. OnTheWay \in SUBSET Consumers
    BY DEF OnTheWay
  <1> QED
    BY <1>1, FS_Subset, FS_CardinalityType, XQueueAssumption

(* No step leaves more items than consumers on the way while one sleeps.   *)
LEMMA WorkConservingStep ==
  IInv /\ IInv' /\ WorkConserving /\ [Next]_vars => WorkConserving'
  <1> SUFFICES ASSUME IInv, IInv', WorkConserving, [Next]_vars, cond' # {}
               PROVE  Len(chain') <= Cardinality(OnTheWay')
    BY DEF WorkConserving
  <1>1. /\ IsFiniteSet(OnTheWay) /\ Cardinality(OnTheWay) \in Nat
        /\ IsFiniteSet(OnTheWay') /\ Cardinality(OnTheWay') \in Nat
        /\ Len(chain) \in Nat /\ Len(chain') \in Nat
    <2>1. OnTheWay' \in SUBSET Consumers
      BY DEF OnTheWay
    <2>2. IsFiniteSet(OnTheWay') /\ Cardinality(OnTheWay') \in Nat
      BY <2>1, FS_Subset, FS_CardinalityType, XQueueAssumption
    <2>3. Len(chain) \in Nat /\ Len(chain') \in Nat
      BY LenProperties DEF IInv, TypeOK
    <2> QED
      BY OnTheWayFinite, <2>2, <2>3
  <1>2. ASSUME UNCHANGED chain, cond # {}, OnTheWay \subseteq OnTheWay'
        PROVE  Len(chain') <= Cardinality(OnTheWay')
    <2>1. Cardinality(OnTheWay) <= Cardinality(OnTheWay')
      BY <1>1, <1>2, FS_Subset
    <2> QED
      BY <1>1, <1>2, <2>1 DEF WorkConserving
  <1>3. ASSUME NEW p \in Producers, Enqueue(p)
        PROVE  Len(chain') <= Cardinality(OnTheWay')
    <2>1. CASE EnqueueLink(p)
      <3>1. PICK c \in cond : cond' = cond \ {c}
        BY <2>1 DEF EnqueueLink, Signal
      <3>2. c \in Consumers /\ pc[c] = "deq_wait" /\ p # c
        BY <3>1, XQueueAssumption DEF IInv, TypeOK, ControlInv
      <3>3. c \notin OnTheWay /\ OnTheWay \cup {c} \subseteq OnTheWay'
        BY <2>1, <3>1, <3>2, XQueueAssumption
           DEF OnTheWay, EnqueueLink, Goto, IInv, TypeOK, Threads
      <3>4. Cardinality(OnTheWay \cup {c}) = Cardinality(OnTheWay) + 1
        BY Zenon, <1>1, <3>3, FS_AddElement
      <3>5. Cardinality(OnTheWay \cup {c}) <= Cardinality(OnTheWay')
        BY <1>1, <3>3, FS_Subset
      <3>6. Len(chain') = Len(chain) + 1
        <4>1. node[p] \in Cells
          BY <2>1, XQueueAssumption DEF EnqueueLink, Goto, IInv, TypeOK, ControlInv
        <4> QED
          BY <2>1, <4>1, AppendProperties DEF EnqueueLink, IInv, TypeOK
      <3> QED
        BY <1>1, <3>1, <3>4, <3>5, <3>6 DEF WorkConserving
    <2>2. CASE ~EnqueueLink(p)
      <3>1. UNCHANGED chain /\ cond' = cond
        BY <1>3, <2>2 DEF Enqueue, EnqueueAlloc, EnqueueLock, EnqueueUnlock
      <3>2. \A c \in Consumers : pc'[c] = pc[c]
        <4>1. \E to : pc' = [pc EXCEPT ![p] = to]
          BY <1>3, <2>2 DEF Enqueue, EnqueueAlloc, EnqueueLock, EnqueueUnlock, Goto
        <4> QED
          BY <4>1, XQueueAssumption DEF IInv, TypeOK, Threads
      <3> QED
        BY <1>2, <3>1, <3>2 DEF OnTheWay
    <2> QED
      BY <2>1, <2>2
  <1>4. ASSUME NEW c \in Consumers, DequeueTake(c)
        PROVE  Len(chain') <= Cardinality(OnTheWay')
    <2>1. c \in OnTheWay
      BY <1>4 DEF DequeueTake, TailWithout, Freed, Goto, OnTheWay, IInv, ControlInv
    <2>2. OnTheWay \ {c} \subseteq OnTheWay'
      BY <1>4 DEF DequeueTake, TailWithout, Freed, Goto, OnTheWay, IInv, TypeOK, Threads
    <2>3. /\ IsFiniteSet(OnTheWay \ {c})
          /\ Cardinality(OnTheWay \ {c}) = Cardinality(OnTheWay) - 1
      BY <1>1, <2>1, FS_RemoveElement
    <2>4. Cardinality(OnTheWay \ {c}) <= Cardinality(OnTheWay')
      BY <1>1, <2>2, FS_Subset
    <2>5. Len(chain') = Len(chain) - 1 /\ cond # {}
      BY <1>4, TakeFacts DEF DequeueTake, TailWithout, Freed, Goto
    <2> QED
      BY <1>1, <2>3, <2>4, <2>5 DEF WorkConserving
  <1>5. ASSUME NEW c \in Consumers, DequeueWait(c)
        PROVE  Len(chain') <= Cardinality(OnTheWay')
    <2>1. Len(chain') = 0
      <3>1. chain = <<>>
        <4>1. chain # <<>> => chain[1] \in Cells
          BY EmptySeq, ElementOfSeq DEF IInv, TypeOK
        <4> QED
          BY <1>5, <4>1, XQueueAssumption DEF DequeueWait, IInv, ListShape
      <3> QED
        BY <1>5, <3>1, EmptySeq DEF DequeueWait
    <2> QED
      BY <1>1, <2>1
  <1>6. ASSUME NEW c \in Consumers,
               \/ DequeueLock(c) \/ DequeueNonEmpty(c) \/ DequeueWake(c)
               \/ DequeueUnlock(c) \/ Finish(c) \/ SpuriousWakeup(c)
        PROVE  Len(chain') <= Cardinality(OnTheWay')
    <2>1. UNCHANGED chain /\ cond' \subseteq cond
      BY <1>6 DEF DequeueLock, DequeueNonEmpty, DequeueWake, AfterWait, DequeueUnlock, Finish,
                  SpuriousWakeup
    <2>2. OnTheWay \subseteq OnTheWay'
      BY <1>6 DEF DequeueLock, DequeueNonEmpty, DequeueWake, AfterWait, DequeueUnlock, Finish,
                  SpuriousWakeup, Goto, OnTheWay, IInv, TypeOK, Threads
    <2> QED
      BY <1>2, <2>1, <2>2
  <1>7. CASE UNCHANGED vars
    BY <1>2, <1>7 DEF vars, OnTheWay
  <1> QED
    BY <1>3, <1>4, <1>5, <1>6, <1>7 DEF Next, Dequeue

(* While a worker sleeps on the condition variable, each queued request    *)
(* has another worker on its way to it: no signal of xqueue_enqueue is     *)
(* lost, for any number of workers.                                        *)
THEOREM NoLostWakeup == Spec => []WorkConserving
  <1>1. Init => WorkConserving
    BY DEF Init, WorkConserving
  <1> QED
    BY <1>1, WorkConservingStep, SpecIInv, PTL DEF Spec

------------------------------------------------------------------------------
(* The code implements the FIFO channel.                                   *)

(* A new xqueue is an empty queue.                                         *)
LEMMA FifoInit == Init => Fifo!Init
  <1> SUFFICES ASSUME Init PROVE Fifo!Init
    OBVIOUS
  <1>1. Len(chain) = 0
    BY DEF Init
  <1>2. [i \in 1..Len(chain) |-> data[chain[i]]] = <<>>
    BY <1>1
  <1> QED
    BY <1>2 DEF Init, Fifo!Init

(* The items read off a list of nodes form a sequence.                     *)
LEMMA ItemsSeq ==
  ASSUME IInv
  PROVE  LET q == [i \in 1..Len(chain) |-> data[chain[i]]]
         IN  /\ q \in Seq(Items)
             /\ Len(q) = Len(chain) /\ Len(chain) \in Nat
             /\ \A i \in 1..Len(chain) : q[i] = data[chain[i]]
  <1>1. Len(chain) \in Nat
    BY LenProperties DEF IInv, TypeOK
  <1>2. \A i \in 1..Len(chain) : data[chain[i]] \in Items
    BY DEF IInv, ItemInv
  <1>3. [i \in 1..Len(chain) |-> data[chain[i]]] \in [1..Len(chain) -> Items]
    BY <1>2
  <1>4. [i \in 1..Len(chain) |-> data[chain[i]]] \in Seq(Items)
    BY <1>1, <1>3, SeqDef
  <1> QED
    BY <1>1, <1>4, LenProperties

(* Linking a node appends its item.                                        *)
LEMMA LinkIsPut ==
  ASSUME IInv, IInv', NEW p \in Producers, EnqueueLink(p)
  PROVE  \E d \in Items : Fifo!Put(d)
  <1> DEFINE q == [i \in 1..Len(chain) |-> data[chain[i]]]
             n == node[p]
  <1>1. n \in Cells /\ data[n] \in Items
    BY XQueueAssumption
       DEF EnqueueLink, Goto, IInv, TypeOK, ControlInv, ItemInv
  <1>2. /\ Len(chain) \in Nat /\ Len(chain') = Len(chain) + 1
        /\ \A i \in 1..Len(chain) : chain'[i] = chain[i]
        /\ chain'[Len(chain) + 1] = n
    BY <1>1, LenProperties, AppendProperties DEF EnqueueLink, IInv, TypeOK
  <1>3. q' = Append(q, data[n])
    <2>1. q \in Seq(Items) /\ Len(q) = Len(chain)
      BY ItemsSeq
    <2>2. q' \in Seq(Items) /\ Len(q') = Len(chain')
      <3>1. \A i \in 1..Len(chain') : data'[chain'[i]] \in Items
        BY DEF IInv, ItemInv
      <3>2. q' \in [1..Len(chain') -> Items]
        BY <3>1
      <3> QED
        BY <1>2, <3>2, SeqDef, LenProperties
    <2>3. /\ Append(q, data[n]) \in Seq(Items)
          /\ Len(Append(q, data[n])) = Len(q) + 1
          /\ \A i \in 1..Len(q) : Append(q, data[n])[i] = q[i]
          /\ Append(q, data[n])[Len(q) + 1] = data[n]
      BY <1>1, <2>1, AppendProperties
    <2>4. \A i \in 1..Len(q') : q'[i] = data[chain'[i]]
      BY <2>2 DEF EnqueueLink
    <2>5. \A i \in 1..Len(q') : q'[i] = Append(q, data[n])[i]
      <3> SUFFICES ASSUME NEW i \in 1..Len(q') PROVE q'[i] = Append(q, data[n])[i]
        BY Zenon
      <3>1. CASE i = Len(chain) + 1
        BY <1>2, <2>1, <2>3, <2>4, <3>1
      <3>2. CASE i \in 1..Len(chain)
        <4>1. q[i] = data[chain[i]]
          BY <3>2
        <4> QED
          BY <1>2, <2>1, <2>3, <2>4, <3>2, <4>1
      <3> QED
        BY <1>2, <2>2, <3>1, <3>2
    <2> HIDE DEF q
    <2> QED
      BY <1>2, <2>1, <2>2, <2>3, <2>5, SeqEqual
  <1>4. \A i \in 1..Len(q) : q[i] # data[n]
    BY Zenon, <1>1, ItemsSeq, XQueueAssumption DEF IInv, ItemInv
  <1>5. \A c \in Consumers : output[c] # data[n]
    BY <1>1, XQueueAssumption DEF IInv, ItemInv
  <1>6. UNCHANGED output
    BY DEF EnqueueLink
  <1> QED
    BY Zenon, <1>1, <1>3, <1>4, <1>5, <1>6 DEF Fifo!Put, Fifo!InQueue

(* Unlinking the first node hands out the oldest item.                     *)
LEMMA TakeIsTake ==
  ASSUME IInv, IInv', NEW c \in Consumers, DequeueTake(c)
  PROVE  Fifo!Take(c)
  <1> DEFINE q == [i \in 1..Len(chain) |-> data[chain[i]]]
  <1>1. /\ q \in Seq(Items) /\ Len(q) = Len(chain) /\ Len(chain) \in Nat
        /\ \A i \in 1..Len(chain) : q[i] = data[chain[i]]
    BY ItemsSeq
  <1>2. Len(chain) # 0 /\ next[Dummy] = chain[1]
    <2>1. chain # <<>>
      BY XQueueAssumption DEF DequeueTake, TailWithout, Freed, Goto, IInv, TakeFindsNode, ListShape
    <2> QED
      BY <2>1, EmptySeq DEF IInv, TypeOK, ListShape
  <1>3. q # <<>> /\ Head(q) = data[next[Dummy]]
    <2>1. q # <<>>
      BY <1>1, <1>2, EmptySeq
    <2>2. Head(q) = q[1]
      BY <1>1, <2>1, HeadTailProperties
    <2> QED
      BY <1>1, <1>2, <2>1, <2>2
  <1>4. /\ Len(chain') = Len(chain) - 1
        /\ \A i \in 1..Len(chain') : chain'[i] = chain[i + 1]
    <2>1. chain \in Seq(Cells) /\ chain' = Tail(chain)
      BY DEF DequeueTake, IInv, TypeOK
    <2>2. chain # <<>>
      BY <1>2, <2>1, EmptySeq
    <2> QED
      BY <2>1, <2>2, HeadTailProperties
  <1>5. q' = Tail(q)
    <2>1. q' \in Seq(Items) /\ Len(q') = Len(chain')
      <3>1. \A i \in 1..Len(chain') : data'[chain'[i]] \in Items
        BY DEF IInv, ItemInv
      <3>2. q' \in [1..Len(chain') -> Items]
        BY <3>1
      <3> QED
        BY <1>1, <1>2, <1>4, <3>2, SeqDef, LenProperties
    <2>2. /\ Tail(q) \in Seq(Items) /\ Len(Tail(q)) = Len(q) - 1
          /\ \A i \in 1..Len(Tail(q)) : Tail(q)[i] = q[i + 1]
      BY <1>1, <1>3, HeadTailProperties
    <2>3. \A i \in 1..Len(q') : q'[i] = Tail(q)[i]
      <3> SUFFICES ASSUME NEW i \in 1..Len(q') PROVE q'[i] = Tail(q)[i]
        BY Zenon
      <3>1. q'[i] = data[chain'[i]]
        BY <2>1 DEF DequeueTake, TailWithout, Freed
      <3>2. i + 1 \in 1..Len(chain) /\ i \in 1..Len(chain') /\ i \in 1..Len(Tail(q))
        BY <1>1, <1>4, <2>1, <2>2
      <3>3. q[i + 1] = data[chain[i + 1]]
        BY <1>1, <3>2
      <3> QED
        BY <1>4, <2>2, <3>1, <3>2, <3>3
    <2> HIDE DEF q
    <2> QED
      BY <1>1, <1>4, <2>1, <2>2, <2>3, SeqEqual
  <1>6. output[c] = NULL /\ output' = [output EXCEPT ![c] = data[next[Dummy]]]
    BY DEF DequeueTake, TailWithout, Freed, Goto, IInv, ControlInv
  <1> QED
    BY Zenon, <1>3, <1>5, <1>6 DEF Fifo!Take

(* Every step of xqueue is a step of the queue, or none.                   *)
LEMMA FifoStep == IInv /\ IInv' /\ [Next]_vars => [Fifo!Next]_(Fifo!vars)
  <1> SUFFICES ASSUME IInv, IInv', [Next]_vars PROVE [Fifo!Next]_(Fifo!vars)
    OBVIOUS
  <1> DEFINE q == [i \in 1..Len(chain) |-> data[chain[i]]]
  <1>1. ASSUME NEW p \in Producers, EnqueueLink(p) PROVE Fifo!Next
    BY <1>1, LinkIsPut DEF Fifo!Next
  <1>2. ASSUME NEW c \in Consumers, DequeueTake(c) PROVE Fifo!Next
    BY <1>2, TakeIsTake DEF Fifo!Next
  <1>3. ASSUME NEW c \in Consumers, Finish(c) PROVE Fifo!Next
    <2>1. Fifo!Finish(c)
      BY <1>3 DEF Finish, Goto, IInv, ControlInv, Fifo!Finish
    <2> QED
      BY <2>1 DEF Fifo!Next
  <1>4. ASSUME NEW p \in Producers, NEW d \in Items, NEW n \in Cells, EnqueueAlloc(p, d, n)
        PROVE  UNCHANGED <<q, output>>
    <2>1. \A i \in 1..Len(chain) : chain[i] # n
      BY Zenon, <1>4 DEF EnqueueAlloc, IInv, HeapExact, InChain
    <2>2. \A i \in 1..Len(chain) : data'[chain[i]] = data[chain[i]]
      BY Zenon, <1>4, <2>1, LenProperties, ElementOfSeq DEF EnqueueAlloc, IInv, TypeOK
    <2> QED
      BY <1>4, <2>2 DEF EnqueueAlloc
  <1>5. ASSUME UNCHANGED <<chain, data, output>> PROVE UNCHANGED <<q, output>>
    BY <1>5
  <1>6. ASSUME NEW p \in Producers, Enqueue(p), ~EnqueueLink(p)
        PROVE  UNCHANGED <<q, output>>
    BY Zenon, <1>4, <1>5, <1>6 DEF Enqueue, EnqueueLock, EnqueueUnlock
  <1>7. ASSUME NEW c \in Consumers,
               \/ DequeueLock(c) \/ DequeueNonEmpty(c) \/ DequeueWait(c)
               \/ DequeueWake(c) \/ DequeueUnlock(c) \/ SpuriousWakeup(c)
        PROVE  UNCHANGED <<q, output>>
    BY Zenon, <1>5, <1>7 DEF DequeueLock, DequeueNonEmpty, DequeueWait, DequeueWake, AfterWait,
                      DequeueUnlock, SpuriousWakeup
  <1>8. CASE UNCHANGED vars
    BY <1>5, <1>8 DEF vars, Fifo!vars
  <1>9. CASE Next
    <2>1. Fifo!Next \/ UNCHANGED <<q, output>>
      BY <1>1, <1>2, <1>3, <1>6, <1>7, <1>9 DEF Next, Dequeue
    <2> QED
      BY <2>1 DEF Fifo!vars
  <1> QED
    BY <1>8, <1>9

(* Every step of xqueue_enqueue and xqueue_dequeue is a step of the        *)
(* abstract FIFO channel or invisible to it.                               *)
THEOREM ImplementsFifo == Spec => FifoSpec
  BY FifoInit, FifoStep, SpecIInv, PTL DEF Spec, FifoSpec, Fifo!Spec

==============================================================================
