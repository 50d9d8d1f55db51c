--------------------------- MODULE LookupTableProofs ---------------------------
(***************************************************************************)
(* Proofs about LookupTable, for any number of threads, cells, hosts,      *)
(* ports and hashes.  They rest on the mutex: what a thread found out      *)
(* about the list under it still holds when it changes the list.           *)
(***************************************************************************)
EXTENDS LookupTable, TableImage, SequenceTheorems, WellFoundedInduction, TLAPS

(* Every host fits into the node that stores it.                           *)
HostsFit == \A h \in Hosts : Stored[h] = h

Inside == {"loop", "insert", "size", "print", "serialize", "serialized_size", "unlock"}

ControlInv ==
    /\ \A t \in Threads : mutex = t <=> pc[t] \in Inside
    /\ \A t \in Threads : pc[t] \in {"lock", "loop"} => op[t] \in Calls
    /\ \A t \in Threads : pc[t] = "insert" => op[t] \in Calls /\ op[t].kind = "add"
    /\ \A t \in Threads : pc[t] # "loop" => current[t] = NULL /\ prev[t] = NULL
    /\ \A t \in Threads : pc[t] = "unlock" /\ Finding(t) => result[t] \in Cells \cup {NULL}

(* A loop is at the i-th node or past the last, and the nodes before it    *)
(* do not match.                                                           *)
LoopAt(t, i) ==
    /\ current[t] = Node(i) /\ prev[t] = Node(i - 1)
    /\ \A j \in 1..(i - 1) : ~Match(list[j], op[t])

LoopInv == \A t \in Threads : pc[t] = "loop" => \E i \in 1..(Len(list) + 1) : LoopAt(t, i)

(* The comparison before an insertion is still true when it is done.       *)
InsertInv ==
    \A t \in Threads : pc[t] = "insert" => \A i \in 1..Len(list) : ~SameAddress(list[i], op[t])

IInv == TypeOK /\ ControlInv /\ TableSound /\ LoopInv /\ InsertInv

(* A pointer is NULL past the end of the list only.                        *)
LEMMA NodeIs ==
    ASSUME TypeOK
    PROVE  /\ Len(list) \in Nat
           /\ \A i \in 1..Len(list) : list[i] \in Cells /\ list[i] # NULL
           /\ \A i \in Int : i \in 1..Len(list) => Node(i) = list[i]
           /\ \A i \in Int : i \notin 1..Len(list) => Node(i) = NULL
           /\ NULL \notin Cells
  <1>1. Len(list) \in Nat /\ \A i \in 1..Len(list) : list[i] \in Cells
    BY LenProperties, ElementOfSeq DEF TypeOK
  <1>2. NULL \notin Cells
    BY TableAssumption
  <1> QED
    BY <1>1, <1>2 DEF Node

(* The node that a loop has found is the first of the list that matches,   *)
(* and what points to it is known.                                         *)
LEMMA FoundIs ==
    ASSUME TypeOK, TableSound, LoopInv, NEW t \in Threads, pc[t] = "loop", Found(t)
    PROVE  \E k \in 1..Len(list) : /\ LoopAt(t, k)
                                   /\ current[t] = list[k]
                                   /\ Position(current[t]) = k
  <1>1. PICK k \in 1..(Len(list) + 1) : LoopAt(t, k)
    BY DEF LoopInv
  <1>2. current[t] = Node(k) /\ current[t] # NULL /\ k \in Int
    BY <1>1, NodeIs DEF LoopAt, Found
  <1>3. k \in 1..Len(list) /\ current[t] = list[k]
    BY <1>2, NodeIs
  <1>4. \A i \in 1..Len(list) : list[i] = list[k] => i = k
    BY <1>3 DEF TableSound
  <1>5. Position(current[t]) = k
    BY <1>3, <1>4 DEF Position
  <1> QED
    BY <1>1, <1>3, <1>5

(* What is left of a sequence without its k-th element.                    *)
LEMMA Removed ==
    ASSUME NEW S, NEW s \in Seq(S), NEW k \in 1..Len(s)
    PROVE  /\ RemoveAt(s, k) \in Seq(S)
           /\ Len(RemoveAt(s, k)) = Len(s) - 1
           /\ \A i \in 1..(Len(s) - 1) : RemoveAt(s, k)[i] = IF i < k THEN s[i] ELSE s[i + 1]
  <1> DEFINE a == SubSeq(s, 1, k - 1)
             b == SubSeq(s, k + 1, Len(s))
  <1>0. Len(s) \in Nat /\ k \in Nat /\ 1 <= k /\ k <= Len(s) /\ \A i \in 1..Len(s) : s[i] \in S
    BY LenProperties, ElementOfSeq
  <1>1. /\ a \in Seq(S) /\ Len(a) = k - 1
        /\ \A i \in 1..(k - 1) : a[i] = s[i]
    <2>1. \A i \in 1..(k - 1) : s[i] \in S
      BY <1>0
    <2>2. k - 1 \in Int /\ 1 \in Int
      BY <1>0
    <2>3. /\ a \in Seq(S) /\ Len(a) = IF 1 <= k - 1 THEN k - 1 - 1 + 1 ELSE 0
          /\ \A i \in 1..(k - 1 - 1 + 1) : a[i] = s[1 + i - 1]
      BY <2>1, <2>2, SubSeqProperties
    <2> QED
      BY <1>0, <2>3
  <1>2. /\ b \in Seq(S) /\ Len(b) = Len(s) - k
        /\ \A i \in 1..(Len(s) - k) : b[i] = s[k + i]
    <2>1. \A i \in (k + 1)..Len(s) : s[i] \in S
      BY <1>0
    <2>2. k + 1 \in Int /\ Len(s) \in Int
      BY <1>0
    <2>3. /\ b \in Seq(S) /\ Len(b) = IF k + 1 <= Len(s) THEN Len(s) - (k + 1) + 1 ELSE 0
          /\ \A i \in 1..(Len(s) - (k + 1) + 1) : b[i] = s[(k + 1) + i - 1]
      BY <2>1, <2>2, SubSeqProperties
    <2> QED
      BY <1>0, <2>3
  <1>3. RemoveAt(s, k) = a \o b
    BY DEF RemoveAt
  <1> HIDE DEF a, b
  <1>4. /\ a \o b \in Seq(S) /\ Len(a \o b) = Len(a) + Len(b)
        /\ \A i \in 1..(Len(a) + Len(b)) : (a \o b)[i] = IF i <= Len(a) THEN a[i] ELSE b[i - Len(a)]
    BY Zenon, <1>1, <1>2, ConcatProperties
  <1>5. ASSUME NEW i \in 1..(Len(s) - 1)
        PROVE  (a \o b)[i] = IF i < k THEN s[i] ELSE s[i + 1]
    <2>1. CASE i < k
      BY <1>0, <1>1, <1>2, <1>4, <2>1
    <2>2. CASE ~(i < k)
      <3>1. i - (k - 1) \in 1..(Len(s) - k) /\ k + (i - (k - 1)) = i + 1
        BY <1>0, <2>2
      <3>2. (a \o b)[i] = b[i - (k - 1)]
        BY <1>0, <1>1, <1>2, <1>4, <2>2
      <3> QED
        BY <1>2, <2>2, <3>1, <3>2
    <2> QED
      BY Zenon, <2>1, <2>2
  <1> QED
    BY <1>0, <1>1, <1>2, <1>3, <1>4, <1>5

(* A sequence with a new element in front of it.                           *)
LEMMA FrontLink ==
    ASSUME NEW S, NEW s \in Seq(S), NEW n \in S
    PROVE  /\ <<n>> \o s \in Seq(S)
           /\ Len(<<n>> \o s) = Len(s) + 1
           /\ \A i \in 1..(Len(s) + 1) : (<<n>> \o s)[i] = IF i = 1 THEN n ELSE s[i - 1]
  <1> DEFINE f == <<n>>
  <1>1. f \in Seq(S) /\ Len(f) = 1 /\ f[1] = n
    OBVIOUS
  <1> HIDE DEF f
  <1>2. Len(s) \in Nat
    BY LenProperties
  <1>3. /\ f \o s \in Seq(S) /\ Len(f \o s) = Len(f) + Len(s)
        /\ \A i \in 1..(Len(f) + Len(s)) : (f \o s)[i] = IF i <= Len(f) THEN f[i] ELSE s[i - Len(f)]
    BY Zenon, <1>1, ConcatProperties
  <1>4. ASSUME NEW i \in 1..(Len(s) + 1)
        PROVE  (f \o s)[i] = IF i = 1 THEN n ELSE s[i - 1]
    BY <1>1, <1>2, <1>3
  <1>5. Len(f \o s) = Len(s) + 1
    BY <1>1, <1>2, <1>3
  <1> QED
    BY <1>3, <1>4, <1>5 DEF f

(* A call names its operation.                                             *)
LEMMA CallKind ==
    ASSUME NEW o \in Calls
    PROVE  o.kind \in AllKinds
  BY TableAssumption DEF Calls, AllKinds

(* What a call to lookup_table_add stores.                                 *)
LEMMA NodeInfo ==
    ASSUME NEW o \in Calls, o.kind = "add"
    PROVE  create_node(o) \in Infos
  <1>1. o.host \in Hosts /\ o.port \in Ports /\ o.hash \in Hashes
    BY DEF Calls
  <1>2. Stored[o.host] \in Hosts
    BY <1>1, TableAssumption
  <1> QED
    BY <1>1, <1>2 DEF create_node, Infos

------------------------------------------------------------------------------
(* Every step keeps the types.                                             *)
LEMMA TypeStep ==
    ASSUME TypeOK, ControlInv, TableSound, LoopInv, [Next]_vars
    PROVE  TypeOK'
  <1> USE DEF TypeOK, table
  <1>1. ASSUME NEW t \in Threads, NEW o \in Calls, Call(t, o)
        PROVE  TypeOK'
    BY <1>1 DEF Call, Goto, Labels
  <1>2. ASSUME NEW t \in Threads, Lock(t)
        PROVE  TypeOK'
    <2>1. op[t].kind \in AllKinds
      BY <1>2, CallKind DEF ControlInv, Lock
    <2>2. (IF op[t].kind \in Looping THEN "loop" ELSE op[t].kind) \in Labels
      BY <2>1 DEF AllKinds, Looping, Labels
    <2> QED
      BY <1>2, <2>2 DEF Lock
  <1>3. ASSUME NEW t \in Threads, Loop(t)
        PROVE  TypeOK'
    <2>1. next[current[t]] \in Cells \cup {NULL}
      BY <1>3 DEF Loop
    <2> QED
      BY <1>3, <2>1 DEF Loop
  <1>4. ASSUME NEW t \in Threads, TableAdd(t)
        PROVE  TypeOK'
    BY <1>4 DEF TableAdd, LoopEnds, Goto, Labels
  <1>5. ASSUME NEW t \in Threads, TableInsert(t)
        PROVE  TypeOK'
    <2>1. create_node(op[t]) \in Infos
      BY <1>5, NodeInfo DEF TableInsert, Goto, ControlInv
    <2>2. pc' \in [Threads -> Labels]
      BY <1>5 DEF TableInsert, Goto, Labels
    <2>3. result' \in [Threads -> Cells \cup Int \cup {NULL}]
      BY <1>5 DEF TableInsert
    <2>4. info' \in [Cells -> Infos \cup {NULL}]
      BY Zenon, <1>5, <2>1 DEF TableInsert
    <2>5. list' \in Seq(Cells)
      <3>1. \A n \in Cells : <<n>> \o list \in Seq(Cells)
        BY FrontLink
      <3> QED
        BY Zenon, <1>5, <3>1 DEF TableInsert
    <2>6. head' \in Cells \cup {NULL} /\ next' \in [Cells -> Cells \cup {NULL}] /\ size' \in Nat
      <3>1. CASE \E n \in Cells : head' = n /\ next' = [next EXCEPT ![n] = head] /\ size' = size + 1
        BY <3>1
      <3>2. CASE UNCHANGED <<head, next, size>>
        BY <3>2
      <3> QED
        BY Zenon, <1>5, <3>1, <3>2 DEF TableInsert
    <2>7. UNCHANGED <<mutex, op, current, prev, held>>
      BY <1>5 DEF TableInsert
    <2> QED
      BY <2>2, <2>3, <2>4, <2>5, <2>6, <2>7
  <1>6. ASSUME NEW t \in Threads, TableRemove(t)
        PROVE  TypeOK'
    <2>1. /\ pc' \in [Threads -> Labels] /\ UNCHANGED <<mutex, op, held>>
          /\ current' \in [Threads -> Cells \cup {NULL}] /\ prev' \in [Threads -> Cells \cup {NULL}]
      BY <1>6 DEF TableRemove, LoopEnds, Goto, Labels
    <2>2. result' \in [Threads -> Cells \cup Int \cup {NULL}]
      BY <1>6 DEF TableRemove
    <2>3. info' \in [Cells -> Infos \cup {NULL}]
      BY <1>6 DEF TableRemove
    <2>4. /\ list' \in Seq(Cells) /\ size' \in Nat
          /\ head' \in Cells \cup {NULL} /\ next' \in [Cells -> Cells \cup {NULL}]
      <3>1. CASE ~Found(t)
        BY <1>6, <3>1 DEF TableRemove
      <3>2. CASE Found(t)
        <4>1. PICK k \in 1..Len(list) : Position(current[t]) = k
          BY <1>6, <3>2, FoundIs DEF TableRemove, LoopEnds, Goto
        <4>2. RemoveAt(list, Position(current[t])) \in Seq(Cells)
          BY <4>1, Removed
        <4>3. size - 1 \in Nat
          BY <4>1, LenProperties DEF TableSound
        <4>4. current[t] \in Cells /\ next[current[t]] \in Cells \cup {NULL}
          BY <3>2 DEF Found
        <4>5. head' \in Cells \cup {NULL} /\ next' \in [Cells -> Cells \cup {NULL}]
          BY <1>6, <3>2, <4>4 DEF TableRemove, Unlink
        <4> QED
          BY <1>6, <3>2, <4>2, <4>3, <4>5 DEF TableRemove
      <3> QED
        BY <3>1, <3>2
    <2> QED
      BY <2>1, <2>2, <2>3, <2>4
  <1>7. ASSUME NEW t \in Threads, TableFind(t)
        PROVE  TypeOK'
    BY <1>7 DEF TableFind, LoopEnds, Goto, Labels
  <1>8. ASSUME NEW t \in Threads, TableSize(t) \/ SerializeSize(t)
        PROVE  TypeOK'
    BY <1>8 DEF TableSize, SerializeSize, Goto, Labels
  <1>9. ASSUME NEW t \in Threads, Unlock(t)
        PROVE  TypeOK'
    <2>1. Finding(t) => result[t] \in Cells \cup {NULL}
      BY <1>9 DEF Unlock, ControlInv
    <2> QED
      BY <1>9, <2>1 DEF Unlock, Unlocked, Labels
  <1>10. ASSUME NEW t \in Threads, Read(t)
         PROVE  TypeOK'
    BY <1>10 DEF Read, Goto, Labels
  <1>11. CASE UNCHANGED vars
    BY <1>11 DEF vars
  <1> QED
    BY Zenon, <1>1, <1>2, <1>3, <1>4, <1>5, <1>6, <1>7, <1>8, <1>9, <1>10, <1>11
       DEF Next, Proceed, Body

(* The mutex is held by the thread that is inside an operation, and every  *)
(* thread has the arguments of the operation that it is in.                *)
LEMMA ControlStep ==
    ASSUME TypeOK, ControlInv, [Next]_vars
    PROVE  ControlInv'
  <1> USE DEF TypeOK, ControlInv, Inside, Finding
  <1>0. NULL \notin Threads
    BY TableAssumption
  <1>1. ASSUME NEW t \in Threads, NEW o \in Calls, Call(t, o)
        PROVE  ControlInv'
    BY <1>1 DEF Call, Goto
  <1>2. ASSUME NEW t \in Threads, Lock(t)
        PROVE  ControlInv'
    <2>1. op[t] \in Calls /\ op[t].kind \in AllKinds
      BY <1>2, CallKind DEF Lock
    <2>2. /\ pc'[t] \in {"loop", "size", "print", "serialize"}
          /\ pc'[t] # "loop" => current'[t] = NULL
      BY <1>2, <2>1 DEF Lock, AllKinds, Looping
    <2>3. \A u \in Threads : u # t => pc'[u] = pc[u] /\ current'[u] = current[u]
      BY <1>2 DEF Lock
    <2>4. mutex = NULL /\ mutex' = t /\ pc[t] = "lock" /\ UNCHANGED <<op, prev, result>>
      BY <1>2 DEF Lock, MutexFree
    <2> QED
      BY <1>0, <2>1, <2>2, <2>3, <2>4
  <1>3. ASSUME NEW t \in Threads, Loop(t)
        PROVE  ControlInv'
    BY <1>3 DEF Loop
  <1>4. ASSUME NEW t \in Threads, TableAdd(t)
        PROVE  ControlInv'
    BY <1>4 DEF TableAdd, LoopEnds, Goto
  <1>5. ASSUME NEW t \in Threads, TableInsert(t)
        PROVE  ControlInv'
    BY <1>5 DEF TableInsert, Goto
  <1>6. ASSUME NEW t \in Threads, TableRemove(t)
        PROVE  ControlInv'
    <2>1. /\ pc[t] = "loop" /\ op[t].kind \in {"remove", "remove_by_hash"}
          /\ pc' = [pc EXCEPT ![t] = "unlock"]
          /\ current' = [current EXCEPT ![t] = NULL] /\ prev' = [prev EXCEPT ![t] = NULL]
          /\ UNCHANGED <<mutex, op>>
          /\ \E r : result' = [result EXCEPT ![t] = r]
      BY <1>6 DEF TableRemove, LoopEnds, Goto
    <2> QED
      BY <2>1
  <1>7. ASSUME NEW t \in Threads, TableFind(t)
        PROVE  ControlInv'
    BY <1>7 DEF TableFind, LoopEnds, Goto
  <1>8. ASSUME NEW t \in Threads, TableSize(t)
        PROVE  ControlInv'
    <2>1. op[t] # NULL /\ op[t] \in Calls => op[t].kind \in AllKinds
      BY CallKind
    <2> QED
      BY <1>8, <2>1 DEF TableSize, Goto
  <1>9. ASSUME NEW t \in Threads, SerializeSize(t)
        PROVE  ControlInv'
    BY <1>9 DEF SerializeSize, Goto
  <1>10. ASSUME NEW t \in Threads, Unlock(t)
        PROVE  ControlInv'
    BY <1>0, <1>10 DEF Unlock, Unlocked
  <1>11. ASSUME NEW t \in Threads, Read(t)
         PROVE  ControlInv'
    BY <1>11 DEF Read, Goto
  <1>12. CASE UNCHANGED vars
    BY <1>12 DEF vars
  <1> QED
    BY Zenon, <1>1, <1>2, <1>3, <1>4, <1>5, <1>6, <1>7, <1>8, <1>9, <1>10, <1>11, <1>12
       DEF Next, Proceed, Body

(* A step other than an insertion or a removal leaves the table alone.     *)
LEMMA ListSteps ==
    ASSUME [Next]_vars
    PROVE  \/ \E t \in Threads : TableInsert(t)
           \/ \E t \in Threads : TableRemove(t) /\ Found(t)
           \/ UNCHANGED table
  BY DEF Next, Proceed, Body, Call, Lock, Loop, TableAdd, TableRemove, TableFind, TableSize,
         SerializeSize, Unlock, Read, vars

(* A removal takes out the k-th node, and what pointed to it points to the *)
(* one after it.                                                           *)
LEMMA RemoveIs ==
    ASSUME TypeOK, TableSound, LoopInv, NEW t \in Threads, TableRemove(t), Found(t)
    PROVE  \E k \in 1..Len(list) :
              /\ list' = RemoveAt(list, k)
              /\ info' = [info EXCEPT ![list[k]] = NULL]
              /\ size' = size - 1
              /\ head' = IF k = 1 THEN Node(2) ELSE Node(1)
              /\ \A i \in 1..Len(list) :
                    i # k => next'[list[i]] = IF i = k - 1 THEN Node(k + 1) ELSE Node(i + 1)
  <1>1. pc[t] = "loop"
    BY DEF TableRemove, LoopEnds, Goto
  <1>2. PICK k \in 1..Len(list) : /\ LoopAt(t, k) /\ current[t] = list[k]
                                 /\ Position(current[t]) = k
    BY <1>1, FoundIs
  <1>3. /\ list' = RemoveAt(list, k) /\ info' = [info EXCEPT ![list[k]] = NULL]
        /\ size' = size - 1 /\ Unlink(t)
    BY <1>2 DEF TableRemove
  <1>4. prev[t] = Node(k - 1) /\ next[list[k]] = Node(k + 1) /\ head = Node(1)
    BY <1>2 DEF LoopAt, TableSound
  <1>5. \A i \in 1..Len(list) : i # k => list[i] # list[k]
    BY DEF TableSound
  <1>6. Len(list) \in Nat /\ \A i \in 1..Len(list) : list[i] \in Cells /\ list[i] # NULL
    BY NodeIs
  <1>7. CASE k = 1
    <2>1. prev[t] = NULL
      BY <1>4, <1>7, NodeIs
    <2>2. head' = Node(2) /\ next' = [next EXCEPT ![list[k]] = NULL]
      BY <1>2, <1>3, <1>4, <1>7, <2>1 DEF Unlink
    <2>3. \A i \in 1..Len(list) : i # k => next'[list[i]] = Node(i + 1) /\ i # k - 1
      BY <1>5, <1>6, <1>7, <2>2 DEF TypeOK, TableSound
    <2> QED
      BY Zenon, <1>3, <1>7, <2>2, <2>3
  <1>8. CASE k # 1
    <2>1. k - 1 \in 1..Len(list) /\ prev[t] = list[k - 1] /\ prev[t] # NULL
      <3>1. k - 1 \in 1..Len(list) /\ k - 1 \in Int
        BY <1>6, <1>8
      <3>2. Node(k - 1) = list[k - 1] /\ list[k - 1] # NULL
        BY Zenon, <3>1, NodeIs
      <3> QED
        BY Zenon, <1>4, <3>1, <3>2
    <2>2. head' = Node(1) /\ next' = [next EXCEPT ![list[k - 1]] = Node(k + 1), ![list[k]] = NULL]
      BY <1>2, <1>3, <1>4, <2>1 DEF Unlink
    <2>3. ASSUME NEW i \in 1..Len(list), i # k
          PROVE  next'[list[i]] = IF i = k - 1 THEN Node(k + 1) ELSE Node(i + 1)
      <3>1. list[i] # list[k] /\ list[i] \in Cells /\ next[list[i]] = Node(i + 1)
        BY <1>5, <1>6, <2>3 DEF TableSound
      <3>2. i = k - 1 <=> list[i] = list[k - 1]
        BY <2>1 DEF TableSound
      <3> QED
        BY <2>2, <3>1, <3>2 DEF TypeOK
    <2> QED
      BY Zenon, <1>3, <1>8, <2>2, <2>3
  <1> QED
    BY Zenon, <1>7, <1>8

(* Every step keeps the count, the pointers and the heap in agreement.     *)
LEMMA SoundStep ==
    ASSUME TypeOK, ControlInv, TableSound, LoopInv, [Next]_vars
    PROVE  TableSound'
  <1>0. NULL \notin Infos /\ Len(list) \in Nat
    BY TableAssumption, LenProperties DEF TypeOK
  <1>1. ASSUME NEW t \in Threads, TableInsert(t), NEW n \in Cells \ Allocated,
               info' = [info EXCEPT ![n] = create_node(op[t])],
               next' = [next EXCEPT ![n] = head], head' = n,
               list' = <<n>> \o list, size' = size + 1
        PROVE  TableSound'
    <2>1. create_node(op[t]) \in Infos
      BY <1>1, NodeInfo DEF TableInsert, Goto, ControlInv
    <2>2. create_node(op[t]) # NULL
      BY <1>0, <2>1
    <2>3. /\ Len(list') = Len(list) + 1
          /\ \A i \in 1..(Len(list) + 1) : list'[i] = IF i = 1 THEN n ELSE list[i - 1]
      BY <1>1, FrontLink DEF TypeOK
    <2>4. \A i \in 1..Len(list) : list[i] # n
      BY DEF TableSound
    <2>5. size' = Len(list')
      BY <1>0, <1>1, <2>3 DEF TableSound
    <2>6. ASSUME NEW i \in 1..Len(list'), NEW j \in 1..Len(list'), list'[i] = list'[j]
          PROVE  i = j
      <3>1. i = 1 <=> j = 1
        BY <1>0, <2>3, <2>4, <2>6
      <3>2. CASE i # 1 /\ j # 1
        <4>1. i - 1 \in 1..Len(list) /\ j - 1 \in 1..Len(list)
          BY <1>0, <2>3, <3>2
        <4>2. list[i - 1] = list[j - 1]
          BY <2>3, <2>6, <3>2
        <4>3. i - 1 = j - 1
          BY <4>1, <4>2 DEF TableSound
        <4> QED
          BY <1>0, <2>3, <4>3
      <3> QED
        BY <3>1, <3>2
    <2>7. \A m \in Cells : info'[m] # NULL <=> m = n \/ info[m] # NULL
      BY <1>1, <2>2 DEF TypeOK
    <2>8. ASSUME NEW m \in Cells
          PROVE  (\E i \in 1..Len(list') : list'[i] = m) <=> m = n \/ \E i \in 1..Len(list) : list[i] = m
      <3>1. list'[1] = n /\ 1 \in 1..Len(list')
        BY <1>0, <2>3
      <3>2. ASSUME NEW i \in 1..Len(list)
            PROVE  i + 1 \in 1..Len(list') /\ list'[i + 1] = list[i]
        BY <1>0, <2>3
      <3>3. ASSUME NEW i \in 1..Len(list'), i # 1
            PROVE  i - 1 \in 1..Len(list) /\ list'[i] = list[i - 1]
        BY <1>0, <2>3, <3>3
      <3>4. ASSUME NEW i \in 1..Len(list'), list'[i] = m
            PROVE  m = n \/ \E k \in 1..Len(list) : list[k] = m
        <4>1. CASE i = 1
          BY Zenon, <3>1, <3>4, <4>1
        <4>2. CASE i # 1
          BY Zenon, <3>3, <3>4, <4>2
        <4> QED
          BY <4>1, <4>2
      <3>5. ASSUME NEW i \in 1..Len(list), list[i] = m
            PROVE  \E k \in 1..Len(list') : list'[k] = m
        BY Zenon, <3>2, <3>5
      <3> QED
        BY Zenon, <3>1, <3>4, <3>5
    <2>9. Allocated' = {m \in Cells : \E i \in 1..Len(list') : list'[i] = m}
      BY <2>7, <2>8 DEF Allocated, TableSound
    <2>10. \A i \in 1..(Len(list) + 1) : Node(i + 1)' = Node(i)
      BY <1>0, <2>3 DEF Node
    <2>11. head' = Node(1)'
      BY <1>0, <1>1, <2>3 DEF Node
    <2>12. ASSUME NEW i \in 1..Len(list')
           PROVE  next'[list'[i]] = Node(i + 1)'
      <3>1. CASE i = 1
        <4>1. next'[list'[i]] = head
          BY <1>0, <1>1, <2>3, <3>1 DEF TypeOK
        <4> QED
          BY <1>0, <2>10, <3>1, <4>1 DEF TableSound
      <3>2. CASE i # 1
        <4>1. i - 1 \in 1..Len(list) /\ list'[i] = list[i - 1] /\ i \in 1..(Len(list) + 1)
              /\ (i - 1) + 1 = i
          BY <1>0, <2>3, <3>2
        <4>2. list[i - 1] \in Cells /\ list[i - 1] # n
          BY <2>4, <4>1, NodeIs
        <4>3. next'[list'[i]] = next[list[i - 1]]
          BY <1>1, <4>1, <4>2 DEF TypeOK
        <4>4. next[list[i - 1]] = Node(i)
          BY <4>1 DEF TableSound
        <4> QED
          BY <2>10, <4>1, <4>3, <4>4
      <3> QED
        BY <3>1, <3>2
    <2> QED
      BY <2>5, <2>6, <2>9, <2>11, <2>12 DEF TableSound
  <1>2. ASSUME NEW t \in Threads, TableRemove(t), Found(t)
        PROVE  TableSound'
    <2>1. PICK k \in 1..Len(list) :
              /\ list' = RemoveAt(list, k)
              /\ info' = [info EXCEPT ![list[k]] = NULL]
              /\ size' = size - 1
              /\ head' = IF k = 1 THEN Node(2) ELSE Node(1)
              /\ \A i \in 1..Len(list) :
                    i # k => next'[list[i]] = IF i = k - 1 THEN Node(k + 1) ELSE Node(i + 1)
      BY <1>2, RemoveIs
    <2>2. list' = RemoveAt(list, k) /\ info' = [info EXCEPT ![list[k]] = NULL] /\ size' = size - 1
      BY <2>1
    <2>0. k \in 1..Len(list)
      BY <2>1
    <2>3. /\ Len(list') = Len(list) - 1
          /\ \A i \in 1..(Len(list) - 1) : list'[i] = IF i < k THEN list[i] ELSE list[i + 1]
      <3>1. list \in Seq(Cells) /\ list' = RemoveAt(list, k)
        BY <2>2 DEF TypeOK
      <3>2. /\ Len(RemoveAt(list, k)) = Len(list) - 1
            /\ \A i \in 1..(Len(list) - 1) :
                  RemoveAt(list, k)[i] = IF i < k THEN list[i] ELSE list[i + 1]
        BY Zenon, <2>0, <3>1, Removed
      <3> QED
        BY Zenon, <3>1, <3>2
    <2>4. size' = Len(list')
      BY <2>2, <2>3 DEF TableSound
    <2> DEFINE from(i) == IF i < k THEN i ELSE i + 1
    <2>5. \A i \in 1..Len(list') : from(i) \in 1..Len(list) /\ from(i) # k /\ list'[i] = list[from(i)]
      <3> SUFFICES ASSUME NEW i \in 1..Len(list')
                   PROVE  from(i) \in 1..Len(list) /\ from(i) # k /\ list'[i] = list[from(i)]
        OBVIOUS
      <3>1. i \in 1..(Len(list) - 1)
        BY <2>3
      <3>2. from(i) \in 1..Len(list) /\ from(i) # k
        BY <1>0, <2>0, <3>1
      <3>3. list'[i] = list[from(i)]
        BY <2>3, <3>1
      <3> QED
        BY <3>2, <3>3
    <2>6. \A i, j \in 1..Len(list') : from(i) = from(j) => i = j
      BY <1>0, <2>0, <2>3
    <2>7. \A j \in 1..Len(list) : j # k => \E i \in 1..Len(list') : from(i) = j
      <3>1. ASSUME NEW j \in 1..Len(list), j < k
            PROVE  j \in 1..Len(list') /\ from(j) = j
        BY <1>0, <2>0, <2>3, <3>1
      <3>2. ASSUME NEW j \in 1..Len(list), j > k
            PROVE  j - 1 \in 1..Len(list') /\ from(j - 1) = j
        BY <1>0, <2>0, <2>3, <3>2
      <3> HIDE DEF from
      <3>3. \A j \in 1..Len(list) : j # k => j < k \/ j > k
        BY <1>0, <2>0
      <3> QED
        BY <3>1, <3>2, <3>3
    <2>12. \A i \in 1..Len(list) : Node(i)' = Node(from(i))
      BY <1>0, <2>0, <2>3 DEF Node
    <2>13. head' = Node(1)'
      <3>1. 1 \in 1..Len(list) /\ Node(1)' = Node(from(1))
        BY <1>0, <2>1, <2>12
      <3> QED
        BY <2>1, <3>1
    <2>14. ASSUME NEW i \in 1..Len(list')
           PROVE  next'[list'[i]] = Node(i + 1)'
      <3>1. from(i) \in 1..Len(list) /\ from(i) # k /\ list'[i] = list[from(i)]
        BY <2>5
      <3>2. /\ i + 1 \in 1..Len(list)
            /\ from(i + 1) = IF from(i) = k - 1 THEN k + 1 ELSE from(i) + 1
        BY <1>0, <2>1, <2>3
      <3> HIDE DEF from
      <3>3. next'[list'[i]] = IF from(i) = k - 1 THEN Node(k + 1) ELSE Node(from(i) + 1)
        BY <2>1, <3>1
      <3>4. Node(i + 1)' = Node(from(i + 1))
        BY <2>12, <3>2
      <3> QED
        BY <3>2, <3>3, <3>4
    <2> HIDE DEF from
    <2>8. \A i, j \in 1..Len(list') : list'[i] = list'[j] => i = j
      BY <2>5, <2>6 DEF TableSound
    <2>9. \A m \in Cells : info'[m] # NULL <=> m # list[k] /\ info[m] # NULL
      BY <2>2 DEF TypeOK
    <2>10. ASSUME NEW m \in Cells
           PROVE  (\E i \in 1..Len(list') : list'[i] = m)
                    <=> m # list[k] /\ \E i \in 1..Len(list) : list[i] = m
      <3>1. ASSUME NEW i \in 1..Len(list'), list'[i] = m
            PROVE  m # list[k] /\ \E j \in 1..Len(list) : list[j] = m
        <4>1. from(i) \in 1..Len(list) /\ from(i) # k /\ list[from(i)] = m
          BY <2>5, <3>1
        <4>2. list[from(i)] # list[k]
          BY <2>0, <4>1 DEF TableSound
        <4> QED
          BY <4>1, <4>2
      <3>2. ASSUME m # list[k], NEW j \in 1..Len(list), list[j] = m
            PROVE  \E i \in 1..Len(list') : list'[i] = m
        <4>1. j # k
          BY <3>2
        <4>2. PICK i \in 1..Len(list') : from(i) = j
          BY <2>7, <4>1
        <4>3. list'[i] = m
          BY <2>5, <3>2, <4>2
        <4> QED
          BY <4>3
      <3> QED
        BY <3>1, <3>2
    <2>11. Allocated' = {m \in Cells : \E i \in 1..Len(list') : list'[i] = m}
      BY <2>9, <2>10 DEF Allocated, TableSound
    <2> QED
      BY <2>4, <2>8, <2>11, <2>13, <2>14 DEF TableSound
  <1>3. CASE UNCHANGED table
    BY <1>3 DEF TableSound, Allocated, Node, table
  <1>4. ASSUME NEW t \in Threads, TableInsert(t)
        PROVE  TableSound'
    BY Zenon, <1>1, <1>3, <1>4 DEF TableInsert
  <1> QED
    BY <1>2, <1>3, <1>4, ListSteps

(* A step is of one thread, and leaves the locals of the others alone.     *)
LEMMA OneThread ==
    ASSUME TypeOK, [Next]_vars
    PROVE  \/ UNCHANGED vars
           \/ \E t \in Threads :
                 /\ (\E o \in Calls : Call(t, o)) \/ Proceed(t)
                 /\ \A u \in Threads : u # t => /\ pc'[u] = pc[u] /\ op'[u] = op[u]
                                               /\ current'[u] = current[u] /\ prev'[u] = prev[u]
  <1> SUFFICES ASSUME NEW t \in Threads, (\E o \in Calls : Call(t, o)) \/ Proceed(t),
                      NEW u \in Threads, u # t
               PROVE  /\ pc'[u] = pc[u] /\ op'[u] = op[u]
                      /\ current'[u] = current[u] /\ prev'[u] = prev[u]
    BY Zenon DEF Next
  <1> USE DEF TypeOK
  <1>1. ASSUME NEW o \in Calls, Call(t, o)
        PROVE  pc'[u] = pc[u] /\ op'[u] = op[u] /\ current'[u] = current[u] /\ prev'[u] = prev[u]
    BY <1>1 DEF Call, Goto
  <1>2. CASE Lock(t) \/ Unlock(t) \/ Read(t)
    BY <1>2 DEF Lock, Unlock, Read, Goto
  <1>3. CASE Loop(t) \/ TableSize(t) \/ SerializeSize(t)
    BY <1>3 DEF Loop, TableSize, SerializeSize, Goto
  <1>4. CASE TableAdd(t) \/ TableFind(t)
    BY <1>4 DEF TableAdd, TableFind, LoopEnds, Goto
  <1>5. CASE TableInsert(t)
    BY <1>5 DEF TableInsert, Goto
  <1>6. CASE TableRemove(t)
    BY <1>6 DEF TableRemove, LoopEnds, Goto
  <1> QED
    BY Zenon, <1>1, <1>2, <1>3, <1>4, <1>5, <1>6 DEF Proceed, Body

(* Only the owner of the mutex changes the list, and it is not in a loop   *)
(* or about to insert afterwards.                                          *)
LEMMA OwnerChanges ==
    ASSUME TypeOK, ControlInv, [Next]_vars,
           NEW u \in Threads, pc'[u] \in {"loop", "insert"}
    PROVE  UNCHANGED table
  <1>1. ASSUME NEW t \in Threads, TableInsert(t) \/ TableRemove(t)
        PROVE  FALSE
    <2>1. pc[t] \in Inside /\ pc' = [pc EXCEPT ![t] = "unlock"]
      BY <1>1 DEF TableInsert, TableRemove, LoopEnds, Goto, Inside
    <2>2. mutex = t
      BY <2>1 DEF ControlInv
    <2>3. u # t /\ pc[u] \in {"loop", "insert"}
      BY <2>1 DEF TypeOK
    <2>4. mutex = u
      BY <2>3 DEF ControlInv, Inside
    <2> QED
      BY <2>2, <2>3, <2>4
  <1> QED
    BY <1>1, ListSteps

(* A loop goes from node to node and passes only nodes that do not match.  *)
LEMMA LoopStep ==
    ASSUME TypeOK, ControlInv, TableSound, LoopInv, [Next]_vars
    PROVE  LoopInv'
  <1> SUFFICES ASSUME NEW u \in Threads, pc'[u] = "loop"
               PROVE  \E i \in 1..(Len(list') + 1) : LoopAt(u, i)'
    BY DEF LoopInv
  <1>0. UNCHANGED table /\ Len(list) \in Nat
    BY OwnerChanges, NodeIs
  <1>1. /\ list' = list /\ info' = info
        /\ \A i \in Int : Node(i)' = Node(i)
    BY <1>0 DEF table, Node
  <1>2. ASSUME pc[u] = "loop", op'[u] = op[u], current'[u] = current[u], prev'[u] = prev[u]
        PROVE  \E i \in 1..(Len(list') + 1) : LoopAt(u, i)'
    <2>1. PICK i \in 1..(Len(list) + 1) : LoopAt(u, i)
      BY <1>2 DEF LoopInv
    <2>2. i \in Int /\ i - 1 \in Int
      BY <1>0
    <2>3. LoopAt(u, i)'
      BY <1>1, <1>2, <2>1, <2>2 DEF LoopAt, Match, SameAddress, SameHash
    <2> QED
      BY <1>1, <2>3
  <1>3. CASE Lock(u)
    <2>1. current'[u] = head /\ prev'[u] = prev[u] /\ pc[u] = "lock"
      BY <1>3, CallKind DEF Lock, TypeOK, ControlInv, AllKinds, Looping
    <2>2. current'[u] = Node(1)' /\ prev'[u] = Node(0)'
      <3>1. prev[u] = NULL
        BY <2>1 DEF ControlInv
      <3>2. Node(0) = NULL /\ head = Node(1)
        BY <1>0, NodeIs DEF TableSound
      <3> QED
        BY <1>1, <2>1, <3>1, <3>2
    <2>3. LoopAt(u, 1)'
      BY <2>2 DEF LoopAt
    <2> QED
      BY <1>0, <1>1, <2>3
  <1>4. CASE Loop(u)
    <2>1. PICK i \in 1..(Len(list) + 1) : LoopAt(u, i)
      BY <1>4 DEF Loop, LoopInv
    <2>2. /\ current[u] # NULL /\ ~Match(current[u], op[u]) /\ op' = op
          /\ prev'[u] = current[u] /\ current'[u] = next[current[u]]
      BY <1>4 DEF Loop, Found, TypeOK
    <2>3. i \in 1..Len(list) /\ current[u] = list[i] /\ current[u] = Node(i)
      <3>0. i \in Int
        BY <1>0
      <3>1. current[u] = Node(i) /\ Node(i) # NULL /\ i \in Int
        BY Zenon, <2>1, <2>2, <3>0 DEF LoopAt
      <3> QED
        BY Zenon, <3>1, NodeIs
    <2>4. next[list[i]] = Node(i + 1)
      BY Zenon, <2>3 DEF TableSound
    <2>5. \A j \in 1..i : ~Match(list[j], op[u])
      <3>1. \A j \in 1..i : j = i \/ j \in 1..(i - 1)
        BY <1>0, <2>3
      <3>2. \A j \in 1..(i - 1) : ~Match(list[j], op[u])
        BY <2>1 DEF LoopAt
      <3> QED
        BY Zenon, <2>2, <2>3, <3>1, <3>2
    <2>6. i + 1 \in 1..(Len(list) + 1) /\ (i + 1) - 1 = i /\ i \in Int /\ i + 1 \in Int
      BY <1>0, <2>3
    <2>7. \A j \in 1..i : ~Match(list[j], op[u])'
      BY <1>1, <2>2, <2>5 DEF Match, SameAddress, SameHash
    <2>8. LoopAt(u, i + 1)'
      BY <1>1, <2>2, <2>3, <2>4, <2>6, <2>7 DEF LoopAt
    <2> QED
      BY <1>1, <2>6, <2>8
  <1>5. ASSUME (\E o \in Calls : Call(u, o)) \/ Proceed(u)
        PROVE  Lock(u) \/ Loop(u)
    <2>1. \A o \in Calls : ~Call(u, o)
      BY DEF Call, Goto, TypeOK
    <2>2. ~(TableAdd(u) \/ TableFind(u) \/ TableRemove(u) \/ TableInsert(u))
      BY DEF TableAdd, TableFind, TableRemove, TableInsert, LoopEnds, Goto, TypeOK
    <2>3. ~(TableSize(u) \/ SerializeSize(u) \/ Unlock(u) \/ Read(u))
      BY DEF TableSize, SerializeSize, Unlock, Read, Goto, TypeOK
    <2> QED
      BY Zenon, <1>5, <2>1, <2>2, <2>3 DEF Proceed, Body
  <1>6. CASE UNCHANGED vars
    BY <1>2, <1>6 DEF vars
  <1> QED
    BY <1>2, <1>3, <1>4, <1>5, <1>6, OneThread

(* When the loop of lookup_table_add has come to the end, no node has the  *)
(* address, and this stays so until the node is inserted.                  *)
LEMMA InsertStep ==
    ASSUME TypeOK, ControlInv, LoopInv, InsertInv, [Next]_vars
    PROVE  InsertInv'
  <1> SUFFICES ASSUME NEW u \in Threads, pc'[u] = "insert"
               PROVE  \A i \in 1..Len(list') : ~SameAddress(list[i], op[u])'
    BY DEF InsertInv
  <1>1. list' = list /\ info' = info /\ Len(list) \in Nat
    BY OwnerChanges, NodeIs DEF table
  <1>2. ASSUME pc[u] = "insert", op'[u] = op[u]
        PROVE  \A i \in 1..Len(list') : ~SameAddress(list[i], op[u])'
    BY <1>1, <1>2 DEF InsertInv, SameAddress
  <1>3. CASE TableAdd(u) /\ ~Found(u)
    <2>1. pc[u] = "loop" /\ current[u] = NULL /\ op[u].kind = "add" /\ op' = op
      BY <1>3 DEF TableAdd, LoopEnds, Goto
    <2>2. PICK i \in 1..(Len(list) + 1) : LoopAt(u, i)
      BY <2>1 DEF LoopInv
    <2>3. i = Len(list) + 1
      BY <1>1, <2>1, <2>2, NodeIs DEF LoopAt
    <2>4. \A j \in 1..Len(list) : ~SameAddress(list[j], op[u])
      BY <1>1, <2>1, <2>2, <2>3 DEF LoopAt, Match
    <2> QED
      BY <1>1, <2>1, <2>4 DEF SameAddress
  <1>4. ASSUME (\E o \in Calls : Call(u, o)) \/ Proceed(u)
        PROVE  TableAdd(u) /\ ~Found(u)
    <2>1. \A o \in Calls : ~Call(u, o)
      BY DEF Call, Goto, TypeOK
    <2>2. ~Lock(u)
      BY CallKind DEF Lock, ControlInv, AllKinds, Looping, TypeOK
    <2>3. ~Loop(u)
      BY DEF Loop, TypeOK
    <2>4. ~(TableFind(u) \/ TableRemove(u) \/ TableInsert(u))
      BY DEF TableFind, TableRemove, TableInsert, LoopEnds, Goto, TypeOK
    <2>5. ~(TableSize(u) \/ SerializeSize(u) \/ Unlock(u) \/ Read(u))
      BY DEF TableSize, SerializeSize, Unlock, Read, Goto, TypeOK
    <2>6. TableAdd(u)
      BY Zenon, <1>4, <2>1, <2>2, <2>3, <2>4, <2>5 DEF Proceed, Body
    <2> QED
      BY <2>6 DEF TableAdd, LoopEnds, Goto, TypeOK
  <1>5. CASE UNCHANGED vars
    BY <1>2, <1>5 DEF vars
  <1> QED
    BY <1>2, <1>3, <1>4, <1>5, OneThread

(* No step puts an address into the table that is there already.           *)
LEMMA AddressStep ==
    ASSUME HostsFit, TypeOK, ControlInv, TableSound, TableSound', LoopInv, InsertInv, AddressesUnique,
           [Next]_vars
    PROVE  AddressesUnique'
  <1>0. Len(list) \in Nat /\ \A i \in 1..Len(list) : list[i] \in Cells
    BY LenProperties, ElementOfSeq DEF TypeOK
  <1>1. ASSUME NEW t \in Threads, TableInsert(t), NEW n \in Cells \ Allocated,
               info' = [info EXCEPT ![n] = create_node(op[t])], list' = <<n>> \o list
        PROVE  AddressesUnique'
    <2>1. op[t] \in Calls /\ op[t].kind = "add"
      BY <1>1 DEF TableInsert, Goto, ControlInv
    <2>2. op[t].host \in Hosts
      BY <2>1 DEF Calls
    <2>3. info'[n].host = op[t].host /\ info'[n].port = op[t].port
      <3>1. info'[n] = create_node(op[t])
        BY <1>1 DEF TypeOK
      <3>2. Stored[op[t].host] = op[t].host
        BY <2>2 DEF HostsFit
      <3>3. /\ create_node(op[t]).host = Stored[op[t].host]
            /\ create_node(op[t]).port = op[t].port
        BY DEF create_node
      <3> HIDE DEF create_node
      <3> QED
        BY <3>1, <3>2, <3>3, Zenon
    <2>4. \A i \in 1..Len(list) : list[i] # n
      BY DEF TableSound
    <2>5. \A i \in 1..Len(list) : info'[list[i]] = info[list[i]]
      BY <1>0, <1>1, <2>4 DEF TypeOK
    <2>6. \A i \in 1..Len(list) : ~(info[list[i]].host = op[t].host /\ info[list[i]].port = op[t].port)
      BY Zenon, <1>1 DEF InsertInv, SameAddress, TableInsert, Goto
    <2>7. /\ Len(list') = Len(list) + 1
          /\ \A i \in 1..(Len(list) + 1) : list'[i] = IF i = 1 THEN n ELSE list[i - 1]
      BY <1>1, FrontLink DEF TypeOK
    <2>8. \A i \in 1..Len(list') : list'[i] = n \/ \E a \in 1..Len(list) : list'[i] = list[a]
      <3>1. ASSUME NEW i \in 1..Len(list'), i # 1
            PROVE  i - 1 \in 1..Len(list) /\ list'[i] = list[i - 1]
        BY <1>0, <2>7, <3>1
      <3> QED
        BY <1>0, <2>7, <3>1
    <2>9. ASSUME NEW i \in 1..Len(list'), NEW j \in 1..Len(list'),
                 info'[list'[i]].host = info'[list'[j]].host,
                 info'[list'[i]].port = info'[list'[j]].port
          PROVE  list'[i] = list'[j]
      <3>0. ASSUME NEW a \in 1..Len(list'), list'[a] # n
            PROVE  ~(info'[list'[a]].host = info'[n].host /\ info'[list'[a]].port = info'[n].port)
        <4>1. PICK k \in 1..Len(list) : list'[a] = list[k]
          BY Zenon, <2>8, <3>0
        <4>2. info'[list'[a]] = info[list[k]]
          BY <2>5, <4>1
        <4>3. ~(info[list[k]].host = op[t].host /\ info[list[k]].port = op[t].port)
          BY Zenon, <2>6
        <4> QED
          BY Zenon, <2>3, <4>2, <4>3
      <3>1. CASE list'[i] = n \/ list'[j] = n
        <4>1. CASE list'[i] = n
          BY Zenon, <2>9, <3>0, <4>1
        <4>2. CASE list'[j] = n
          <5>1. info'[list'[i]].host = info'[n].host /\ info'[list'[i]].port = info'[n].port
            BY <2>9, <4>2
          <5>2. list'[i] = n
            BY Zenon, <3>0, <5>1
          <5> QED
            BY <4>2, <5>2
        <4> QED
          BY <3>1, <4>1, <4>2
      <3>2. CASE list'[i] # n /\ list'[j] # n
        <4>1. PICK a \in 1..Len(list) : list'[i] = list[a]
          BY Zenon, <2>8, <3>2
        <4>2. PICK b \in 1..Len(list) : list'[j] = list[b]
          BY Zenon, <2>8, <3>2
        <4>3. info'[list'[i]] = info[list[a]] /\ info'[list'[j]] = info[list[b]]
          <5>1. info'[list[a]] = info[list[a]]
            BY Zenon, <2>5
          <5>2. info'[list[b]] = info[list[b]]
            BY Zenon, <2>5
          <5>3. info'[list'[i]] = info[list[a]]
            BY <4>1, <5>1
          <5>4. info'[list'[j]] = info[list[b]]
            BY <4>2, <5>2
          <5> QED
            BY <5>3, <5>4
        <4>4. /\ info[list[a]].host = info[list[b]].host
              /\ info[list[a]].port = info[list[b]].port
          BY Zenon, <2>9, <4>3
        <4>5. a = b
          BY Zenon, <4>4 DEF AddressesUnique
        <4> QED
          BY Zenon, <4>1, <4>2, <4>5
      <3> QED
        BY <3>1, <3>2
    <2> QED
      BY Zenon, <2>9 DEF AddressesUnique, TableSound
  <1>2. ASSUME NEW t \in Threads, TableRemove(t), Found(t)
        PROVE  AddressesUnique'
    <2>1. PICK k \in 1..Len(list) : list' = RemoveAt(list, k) /\ info' = [info EXCEPT ![list[k]] = NULL]
      BY <1>2, RemoveIs
    <2>2. list' = RemoveAt(list, k) /\ info' = [info EXCEPT ![list[k]] = NULL]
      BY <2>1
    <2>3. /\ Len(list') = Len(list) - 1
          /\ \A i \in 1..(Len(list) - 1) : list'[i] = IF i < k THEN list[i] ELSE list[i + 1]
      <3>1. list \in Seq(Cells) /\ list' = RemoveAt(list, k)
        BY <2>2 DEF TypeOK
      <3>2. /\ Len(RemoveAt(list, k)) = Len(list) - 1
            /\ \A i \in 1..(Len(list) - 1) :
                  RemoveAt(list, k)[i] = IF i < k THEN list[i] ELSE list[i + 1]
        BY Zenon, <2>1, <3>1, Removed
      <3> QED
        BY Zenon, <3>1, <3>2
    <2>4. ASSUME NEW i \in 1..Len(list')
          PROVE  \E a \in 1..Len(list) : a # k /\ list'[i] = list[a]
      BY <1>0, <2>1, <2>3
    <2>5. \A a \in 1..Len(list) : a # k => info'[list[a]] = info[list[a]]
      <3>1. \A a \in 1..Len(list) : a # k => list[a] # list[k]
        BY <2>1 DEF TableSound
      <3> QED
        BY <1>0, <2>2, <3>1 DEF TypeOK
    <2>6. ASSUME NEW i \in 1..Len(list'), NEW j \in 1..Len(list'),
                 info'[list'[i]].host = info'[list'[j]].host,
                 info'[list'[i]].port = info'[list'[j]].port
          PROVE  list'[i] = list'[j]
      <3>1. PICK a \in 1..Len(list) : a # k /\ list'[i] = list[a]
        BY <2>4
      <3>2. PICK b \in 1..Len(list) : b # k /\ list'[j] = list[b]
        BY <2>4
      <3>3. info'[list[a]] = info[list[a]] /\ info'[list[b]] = info[list[b]]
        BY <2>5, <3>1, <3>2
      <3>4. /\ info[list[a]].host = info[list[b]].host
            /\ info[list[a]].port = info[list[b]].port
        BY <2>6, <3>1, <3>2, <3>3
      <3>5. a = b
        BY <3>4 DEF AddressesUnique
      <3> QED
        BY <3>1, <3>2, <3>5
    <2> QED
      BY <2>6 DEF AddressesUnique, TableSound
  <1>3. CASE UNCHANGED table
    BY <1>3 DEF AddressesUnique, table
  <1>4. ASSUME NEW t \in Threads, TableInsert(t)
        PROVE  AddressesUnique'
    BY Zenon, <1>1, <1>3, <1>4 DEF TableInsert
  <1> QED
    BY <1>2, <1>3, <1>4, ListSteps

------------------------------------------------------------------------------
(* The inductive invariant holds throughout.                               *)
LEMMA Invariant == Spec => []IInv
  <1>1. Init => IInv
    <2> SUFFICES ASSUME Init
                 PROVE  IInv
      OBVIOUS
    <2>1. TypeOK
      BY EmptySeq DEF Init, TypeOK, Labels
    <2>2. ControlInv
      BY TableAssumption DEF Init, ControlInv, Inside, Finding
    <2>3. TableSound
      BY EmptySeq DEF Init, TableSound, Node, Allocated
    <2>4. LoopInv /\ InsertInv
      BY DEF Init, LoopInv, InsertInv
    <2> QED
      BY <2>1, <2>2, <2>3, <2>4 DEF IInv
  <1>2. IInv /\ [Next]_vars => IInv'
    BY TypeStep, ControlStep, SoundStep, LoopStep, InsertStep DEF IInv
  <1> QED
    BY <1>1, <1>2, PTL DEF Spec

(* Whatever the threads call, the pointers from table->head lead through   *)
(* the nodes that were added and not removed, each once, table->size       *)
(* counts them, and exactly they are allocated.                            *)
THEOREM TableIntact == Spec => []TableSound
  <1>1. IInv => TableSound
    BY DEF IInv
  <1> QED
    BY <1>1, Invariant, PTL

(* As long as every host fits into MAX_HOST_LEN, no address is in the      *)
(* table twice: comparing and inserting are one step to everybody else.    *)
THEOREM AddressOnce ==
    ASSUME HostsFit
    PROVE  Spec => []AddressesUnique
  <1>1. Init => AddressesUnique
    BY EmptySeq DEF Init, AddressesUnique
  <1>2. IInv /\ IInv' /\ AddressesUnique /\ [Next]_vars => AddressesUnique'
    BY AddressStep DEF IInv
  <1> QED
    BY <1>1, <1>2, Invariant, PTL DEF Spec

------------------------------------------------------------------------------
(* The image of a table: the theorems about lookup_table_deserialize, for  *)
(* a table of any number of nodes.                                         *)

(* The mutex of the table is locked inside the loop, and only there.       *)
LockInv == locked \in BOOLEAN /\ (locked <=> at = "read")

(* What has been built is the part of the list that has been read, newest  *)
(* first.  A count that the data is too short for never gets to the loop,  *)
(* so offset stays inside; and as long as the table is not handed back,    *)
(* every block is either the table or one of its nodes.                    *)
BuiltInv ==
    /\ nodes \in Seq(NodeInfos) /\ data_size \in Nat
    /\ built \in Seq(NodeInfos) /\ Len(built) <= Len(nodes)
    /\ \A k \in 1..Len(built) : built[k] = nodes[Len(built) - k + 1]
    /\ at \in {"start", "check", "read", "destroy", "null", "table"}
    /\ offset \in Nat /\ offset <= data_size
    /\ heap = IF at \in {"start", "null"} THEN 0 ELSE Len(built) + 1
    /\ at \in {"start", "check"} => built = <<>>
    /\ at = "check" => offset = SIZE_T
    /\ at = "read" => /\ offset = SIZE_T + Len(built) * RECORD
                      /\ data_size >= SIZE_T + Len(nodes) * RECORD
    /\ at = "table" => Len(built) = Len(nodes)

ImageInv == BuiltInv /\ LockInv

(* A new head of the list: the sequence with one more element in front.    *)
LEMMA NewHead ==
    ASSUME NEW S, NEW s \in Seq(S), NEW e \in S
    PROVE  /\ <<e>> \o s \in Seq(S)
           /\ Len(<<e>> \o s) = Len(s) + 1
           /\ (<<e>> \o s)[1] = e
           /\ \A k \in 2..(Len(s) + 1) : (<<e>> \o s)[k] = s[k - 1]
  <1>1. <<e>> \in Seq(S) /\ Len(<<e>>) = 1 /\ <<e>>[1] = e
    OBVIOUS
  <1>2. Len(s) \in Nat
    BY LenProperties
  <1> QED
    BY <1>1, <1>2, ConcatProperties

(* One turn of the loop reads the record that belongs to the new node.     *)
LEMMA ImageRead == BuiltInv /\ ReadRecord => BuiltInv'
  <1> SUFFICES ASSUME BuiltInv, ReadRecord
               PROVE  BuiltInv'
    OBVIOUS
  <1> USE DEF BuiltInv, ReadRecord, AsHead, RecordAt, node_count,
              SIZE_T, RECORD
  <1>0. Len(built) \in Nat /\ Len(nodes) \in Nat
    BY LenProperties
  <1>1. (offset - 8) \div 70 = Len(built)
    BY <1>0
  <1> DEFINE e == nodes[Len(built) + 1]
  <1>2. e \in NodeInfos
    BY <1>0, ElementOfSeq
  <1>3. built' = <<e>> \o built
    BY <1>1
  <1>4. /\ built' \in Seq(NodeInfos) /\ Len(built') = Len(built) + 1 /\ built'[1] = e
        /\ \A k \in 2..(Len(built) + 1) : built'[k] = built[k - 1]
    BY <1>2, <1>3, NewHead
  <1>5. \A k \in 1..Len(built') : built'[k] = nodes[Len(built') - k + 1]
    <2> TAKE k \in 1..Len(built')
    <2>1. CASE k = 1
      BY <1>0, <1>4, <2>1
    <2>2. CASE k # 1
      <3>1. k - 1 \in 1..Len(built) /\ k \in 2..(Len(built) + 1)
        BY <1>0, <1>4, <2>2
      <3>2. Len(built) - (k - 1) + 1 = Len(built') - k + 1
        BY <1>0, <1>4, <3>1
      <3>3. built'[k] = built[k - 1]
        BY Zenon, <1>4, <3>1
      <3>4. built[k - 1] = nodes[Len(built) - (k - 1) + 1]
        BY Zenon, <3>1
      <3> QED
        BY <3>2, <3>3, <3>4
    <2> QED
      BY <2>1, <2>2
  <1>6. offset' = 8 + (Len(built) + 1) * 70 /\ offset' <= data_size
    BY <1>0
  <1>7. nodes' = nodes /\ data_size' = data_size /\ at' = at
        /\ heap' = heap + 1 /\ at = "read"
    OBVIOUS
  <1> HIDE DEF e
  <1> QED
    BY <1>0, <1>4, <1>5, <1>6, <1>7

(* The inductive invariant of lookup_table_deserialize.                    *)
LEMMA ImageInvariant ==
    ImageSpec => []ImageInv
  <1>1. ImageInit => ImageInv
    <2> SUFFICES ASSUME ImageInit
                 PROVE  ImageInv
      OBVIOUS
    <2>1. nodes \in Seq(NodeInfos) /\ Len(nodes) \in Nat
      <3>1. PICK m \in 0..MaxNodes : nodes \in [1..m -> NodeInfos]
        BY ImageAssumption DEF ImageInit, BoundedSeq, SeqOf
      <3>2. m \in Nat
        BY <3>1, ImageAssumption
      <3> QED
        BY <3>1, <3>2
    <2>2. data_size \in Nat
      BY <2>1 DEF ImageInit, serialized_size, SIZE_T, RECORD
    <2>3. built = <<>> /\ Len(built) = 0 /\ built \in Seq(NodeInfos)
      BY EmptySeq DEF ImageInit
    <2>4. BuiltInv
      BY <2>1, <2>2, <2>3 DEF ImageInit, BuiltInv
    <2>5. LockInv
      BY Zenon DEF ImageInit, LockInv
    <2> QED
      BY <2>4, <2>5 DEF ImageInv
  <1>2. ImageInv /\ [ImageNext]_imageVars => ImageInv'
    <2> SUFFICES ASSUME ImageInv, [ImageNext]_imageVars
                 PROVE  ImageInv'
      OBVIOUS
    <2> USE DEF SIZE_T, RECORD
    <2>0. Len(built) \in Nat /\ Len(nodes) \in Nat /\ Len(<<>>) = 0 /\ <<>> \in Seq(NodeInfos)
      BY LenProperties, EmptySeq DEF ImageInv, BuiltInv
    <2>1. CASE Begin
      <3>1. BuiltInv'
        BY <2>0, <2>1 DEF ImageInv, BuiltInv, Begin
      <3>2. LockInv'
        BY <2>1 DEF ImageInv, LockInv, Begin
      <3> QED
        BY <3>1, <3>2 DEF ImageInv
    <2>2. CASE Check
      <3>1. /\ at = "check" /\ nodes' = nodes /\ data_size' = data_size /\ offset' = offset
            /\ \/ heap' = heap - Len(built) - 1 /\ built' = <<>> /\ at' = "null"
               \/ /\ data_size >= 8 + Len(nodes) * 70 /\ at' = "read"
                  /\ built' = built /\ heap' = heap
        BY <2>2 DEF Check, lookup_table_destroy, expected_size,
                    node_count
      <3>0. BuiltInv /\ LockInv
        BY DEF ImageInv
      <3>2. BuiltInv'
        <4>1. CASE heap' = heap - Len(built) - 1 /\ built' = <<>> /\ at' = "null"
          BY <2>0, <3>0, <3>1, <4>1 DEF BuiltInv
        <4>2. CASE /\ data_size >= 8 + Len(nodes) * 70 /\ at' = "read"
                   /\ built' = built /\ heap' = heap
          <5>1. Len(built) = 0 /\ offset = 8
            BY <2>0, <3>0, <3>1 DEF BuiltInv
          <5> QED
            BY <2>0, <3>0, <3>1, <4>2, <5>1 DEF BuiltInv
        <4> QED
          BY <3>1, <4>1, <4>2
      <3>3. (locked' = locked /\ at' = "null") \/ (locked' = TRUE /\ at' = "read")
        BY <2>2, Zenon DEF Check
      <3>4. LockInv'
        <4>1. CASE locked' = locked /\ at' = "null"
          BY <3>0, <3>1, <4>1 DEF LockInv
        <4>2. CASE locked' = TRUE /\ at' = "read"
          BY <4>2 DEF LockInv
        <4> QED
          BY Zenon, <3>3, <4>1, <4>2
      <3> QED
        BY <3>2, <3>4 DEF ImageInv
    <2>3. CASE ReadRecord
      <3>1. LockInv'
        BY <2>3 DEF ImageInv, LockInv, ReadRecord
      <3> QED
        BY <2>3, <3>1, ImageRead DEF ImageInv
    <2>4. CASE Fail
      <3>1. BuiltInv'
        BY <2>0, <2>4 DEF ImageInv, BuiltInv, Fail, AfterFail, node_count
      <3>2. LockInv'
        BY Zenon, <2>4 DEF LockInv, Fail, AfterFail, Released
      <3> QED
        BY <3>1, <3>2 DEF ImageInv
    <2>5. CASE Destroy
      <3>1. BuiltInv'
        BY <2>0, <2>5 DEF ImageInv, BuiltInv, Destroy, lookup_table_destroy
      <3>2. LockInv'
        BY <2>5 DEF ImageInv, LockInv, Destroy
      <3> QED
        BY <3>1, <3>2 DEF ImageInv
    <2>6. CASE Done
      <3>1. BuiltInv'
        BY <2>0, <2>6 DEF ImageInv, BuiltInv, Done, node_count
      <3>2. LockInv'
        BY Zenon, <2>6 DEF LockInv, Done
      <3> QED
        BY <3>1, <3>2 DEF ImageInv
    <2>7. CASE UNCHANGED imageVars
      BY <2>7 DEF ImageInv, BuiltInv, LockInv, imageVars
    <2> QED
      BY <2>1, <2>2, <2>3, <2>4, <2>5, <2>6, <2>7 DEF ImageNext
  <1> QED
    BY <1>1, <1>2, PTL DEF ImageSpec

(* lookup_table_deserialize reads nothing past the end of the data.        *)
THEOREM ImageReadsInside ==
    ImageSpec => []ReadsInside
  <1>1. ImageInv => ReadsInside
    BY DEF ImageInv, BuiltInv, ReadsInside
  <1> QED
    BY <1>1, ImageInvariant, PTL

(* NULL leaves no block and no locked mutex behind, whichever malloc has   *)
(* failed; a table is one block and one for each node.                     *)
THEOREM ImageNothingLeaks ==
    ImageSpec => []NothingLeaks
  <1>1. ImageInv => NothingLeaks
    BY DEF ImageInv, BuiltInv, LockInv, NothingLeaks
  <1> QED
    BY <1>1, ImageInvariant, PTL

(* The table that is returned is the one that was serialized, backwards.   *)
THEOREM ImageComesBack ==
    ImageSpec => []ComesBackReversed
  <1>1. ImageInv => ComesBackReversed
    <2> SUFFICES ASSUME ImageInv, at = "table"
                 PROVE  built = Reverse(nodes)
      BY DEF ComesBackReversed
    <2>1. /\ built \in Seq(NodeInfos) /\ nodes \in Seq(NodeInfos) /\ Len(built) = Len(nodes)
          /\ \A k \in 1..Len(built) : built[k] = nodes[(Len(nodes) - k) + 1]
      BY DEF ImageInv, BuiltInv
    <2>2. DOMAIN built = 1..Len(nodes) /\ built = [k \in 1..Len(nodes) |-> built[k]]
      BY <2>1, LenProperties
    <2> QED
      BY <2>1, <2>2 DEF Reverse
  <1> QED
    BY <1>1, ImageInvariant, PTL

==============================================================================
