----------------------------- MODULE KvStoreProofs -----------------------------
(***************************************************************************)
(* Proofs about KvStore, for any number of threads, keys, values and       *)
(* buckets and any function from keys to buckets.                          *)
(***************************************************************************)
EXTENDS KvStore, StoreHash, SequenceTheorems, TLAPS

Entries == [key : Keys, data : Values]

PutLabels == {"put_lock", "put_walk", "put_link", "put_unlock"}
GetLabels == {"get_lock", "get_walk", "get_unlock", "get_return"}

(* Between the lock and the unlock of a bucket.                            *)
Critical == {"put_walk", "put_link", "put_unlock", "get_walk", "get_unlock"}

(* A thread in its critical section owns the mutex of its bucket.          *)
LockInv == \A t \in Threads : pc[t] \in Critical => bucket_locks[Bucket(t)] = t

(* The arguments belong to the operation the thread is in.                 *)
KindInv ==
    \A t \in Threads : /\ pc[t] \in PutLabels => op[t] \in PutOps
                       /\ pc[t] \in GetLabels => op[t] \in GetOps

(* Until kv_store_put links its entry, its walk's result stays true.       *)
LinkInv ==
    \A t \in Threads : pc[t] = "put_link" => /\ ent[t] = Len(Chain(t))
                                             /\ Matches(t) = {}

(* The entry that kv_store_get points to keeps the key and the data it had *)
(* when the data was copied, also after the unlock.                        *)
Found(t) ==
    IF ent[t] = 0
    THEN output[t] = NULL
    ELSE Chain(t)[ent[t]] = [key |-> op[t].key, data |-> output[t]]

FoundInv == \A t \in Threads : pc[t] \in {"get_unlock", "get_return"} => Found(t)

(* Outside the steps that use it, ent is reset.                            *)
EntInv ==
    \A t \in Threads :
        pc[t] \notin {"put_link", "get_unlock", "get_return"} => ent[t] = 0

IInv ==
    /\ TypeOK
    /\ LockInv
    /\ KindInv
    /\ LinkInv
    /\ FoundInv
    /\ EntInv
    /\ ChainsSound

(* With empty buckets and no call under way the invariant holds.           *)
LEMMA InitIInv == Init => IInv
<1> SUFFICES ASSUME Init PROVE IInv OBVIOUS
<1> USE StoreAssumption DEF Init
<1>1. TypeOK
    <2>1. <<>> \in Seq([key : Keys, data : Values]) OBVIOUS
    <2> QED BY <2>1 DEF TypeOK, Labels
<1>2. LockInv BY DEF LockInv, Critical
<1>3. KindInv BY DEF KindInv, PutLabels, GetLabels
<1>4. LinkInv BY DEF LinkInv
<1>5. FoundInv BY DEF FoundInv
<1>7. EntInv BY DEF EntInv
<1>6. ChainsSound BY DEF ChainsSound
<1> QED BY <1>1, <1>2, <1>3, <1>4, <1>5, <1>6, <1>7 DEF IInv

(* A thread that is in a call has a key, and its bucket is in the table.   *)
LEMMA InCall ==
    ASSUME TypeOK, NEW t \in Threads, pc[t] # "idle"
    PROVE  /\ op[t] \in PutOps \cup GetOps
           /\ op[t].key \in Keys
           /\ Bucket(t) \in Buckets
           /\ Chain(t) \in Seq(Entries)
           /\ Len(Chain(t)) \in Nat
           /\ ent[t] <= Len(Chain(t))
<1>1. op[t] \in PutOps \cup GetOps BY DEF TypeOK
<1>2. op[t].key \in Keys BY <1>1 DEF PutOps, GetOps
<1>3. Bucket(t) \in Buckets BY <1>2, StoreAssumption DEF Bucket
<1>4. Chain(t) \in Seq(Entries) BY Zenon, <1>3 DEF Chain, TypeOK, Entries
<1>5. op[t] # NULL BY DEF TypeOK
<1> QED BY <1>1, <1>2, <1>3, <1>4, <1>5 DEF TypeOK

(* What a step of t does to the others when it leaves the chains alone.    *)
LEMMA OthersUnmoved ==
    ASSUME IInv, NEW t \in Threads, UNCHANGED buckets,
           op' \in [Threads -> PutOps \cup GetOps \cup {NULL}],
           pc' \in [Threads -> Labels],
           ent' \in [Threads -> Nat],
           output' \in [Threads -> Values \cup {NULL}],
           bucket_locks' \in [Buckets -> Threads \cup {NULL}],
           \A u \in Threads \ {t} : /\ op'[u] = op[u] /\ pc'[u] = pc[u]
                                     /\ ent'[u] = ent[u] /\ output'[u] = output[u],
           \A u \in Threads \ {t} : pc[u] \in Critical =>
               bucket_locks'[Bucket(u)] = bucket_locks[Bucket(u)],
           (op[t] = NULL <=> pc[t] = "idle")',
           (op[t] # NULL => ent[t] <= Len(Chain(t)))',
           (pc[t] \in Critical => bucket_locks[Bucket(t)] = t)',
           (pc[t] \in PutLabels => op[t] \in PutOps)',
           (pc[t] \in GetLabels => op[t] \in GetOps)',
           (pc[t] = "put_link" => ent[t] = Len(Chain(t)) /\ Matches(t) = {})',
           (pc[t] \in {"get_unlock", "get_return"} => Found(t))',
           (pc[t] \notin {"put_link", "get_unlock", "get_return"} => ent[t] = 0)'
    PROVE  IInv'
<1>1. ASSUME NEW u \in Threads, u # t
      PROVE  Bucket(u)' = Bucket(u) /\ Chain(u)' = Chain(u) /\ Matches(u)' = Matches(u)
             /\ Found(u)' = Found(u)
    <2>1. op'[u] = op[u] /\ ent'[u] = ent[u] /\ output'[u] = output[u] BY Zenon, <1>1
    <2>2. Bucket(u)' = Bucket(u) BY Zenon, <2>1 DEF Bucket
    <2>3. Chain(u)' = Chain(u) BY Zenon, <2>2 DEF Chain
    <2>4. Matches(u)' = Matches(u) BY Zenon, <2>1, <2>3 DEF Matches
    <2>5. Found(u)' = Found(u) BY Zenon, <2>1, <2>3 DEF Found
    <2> QED BY Zenon, <2>2, <2>3, <2>4, <2>5
<1>2. TypeOK'
    BY Zenon, <1>1 DEF IInv, TypeOK
<1>3. LockInv'
    BY Zenon, <1>1 DEF IInv, LockInv
<1>4. KindInv'
    BY DEF IInv, KindInv
<1>5. LinkInv'
    BY <1>1 DEF IInv, LinkInv
<1>6. FoundInv'
    BY <1>1 DEF IInv, FoundInv
<1>7. EntInv'
    BY Zenon DEF IInv, EntInv
<1>8. ChainsSound'
    BY DEF IInv, ChainsSound
<1> QED BY <1>2, <1>3, <1>4, <1>5, <1>6, <1>7, <1>8 DEF IInv

(* The steps that leave the chains alone.                                  *)
LEMMA QuietStep ==
    ASSUME IInv, NEW t \in Threads,
           \/ Begin(t) \/ PutLock(t) \/ PutWalk(t) \/ PutUnlock(t)
           \/ GetLock(t) \/ GetWalk(t) \/ GetUnlock(t) \/ GetReturn(t)
    PROVE  IInv' /\ UNCHANGED buckets
<1> USE DEF Goto, Labels, Critical, PutLabels, GetLabels
<1>t. /\ TypeOK /\ LockInv /\ KindInv /\ LinkInv /\ FoundInv /\ EntInv /\ ChainsSound
      /\ op \in [Threads -> PutOps \cup GetOps \cup {NULL}]
      /\ pc \in [Threads -> Labels]
      /\ ent \in [Threads -> Nat]
      /\ output \in [Threads -> Values \cup {NULL}]
      /\ bucket_locks \in [Buckets -> Threads \cup {NULL}]
    BY Zenon DEF IInv, TypeOK
<1>n. NULL \notin Values /\ NULL \notin Threads /\ NULL \notin PutOps /\ NULL \notin GetOps
    BY StoreAssumption
(* A bucket whose mutex t takes or gives back is not that of another      *)
(* thread in its critical section.                                        *)
<1>c. ASSUME NEW u \in Threads, u # t, pc[u] \in Critical, pc[t] \in Critical
      PROVE  Bucket(u) # Bucket(t)
    BY <1>c, <1>t DEF LockInv
<1>1. CASE Begin(t)
    <2>1. ASSUME NEW k \in Keys, NEW v \in Values, PutCall(t, k, v)
          PROVE  IInv' /\ UNCHANGED buckets
        <3>1. [kind |-> "put", key |-> k, data |-> v] \in PutOps BY DEF PutOps
        <3>2. /\ op'[t] \in PutOps /\ pc'[t] = "put_lock" /\ ent'[t] = 0
              /\ pc[t] = "idle" /\ op' \in [Threads -> PutOps \cup GetOps \cup {NULL}]
            BY <2>1, <3>1, <1>t DEF PutCall, EntInv
        <3>3. (Len(Chain(t)) \in Nat)'
            <4>1. op'[t].key \in Keys BY <3>2 DEF PutOps
            <4>2. BucketOf[op'[t].key] \in Buckets BY <4>1, StoreAssumption
            <4> QED BY <4>2, <2>1, <1>t DEF TypeOK, Chain, Bucket, PutCall
        <3>h. /\ op' \in [Threads -> PutOps \cup GetOps \cup {NULL}]
              /\ pc' \in [Threads -> Labels]
              /\ ent' \in [Threads -> Nat]
              /\ output' \in [Threads -> Values \cup {NULL}]
              /\ \A u \in Threads \ {t} : /\ op'[u] = op[u] /\ pc'[u] = pc[u]
                                          /\ ent'[u] = ent[u] /\ output'[u] = output[u]
            BY <2>1, <3>2, <1>t DEF PutCall
        <3>4. op'[t] # NULL /\ UNCHANGED <<buckets, bucket_locks>> BY <2>1, <3>2, <1>n DEF PutCall
        <3>5. (op[t] # NULL => ent[t] <= Len(Chain(t)))' BY <3>2, <3>3
        <3>6. IInv' BY Zenon, <3>2, <3>4, <3>5, <3>h, <1>t, OthersUnmoved
        <3> QED BY <3>4, <3>6
    <2>2. ASSUME NEW k \in Keys, GetCall(t, k)
          PROVE  IInv' /\ UNCHANGED buckets
        <3>1. [kind |-> "get", key |-> k] \in GetOps BY DEF GetOps
        <3>2. /\ op'[t] \in GetOps /\ pc'[t] = "get_lock" /\ ent'[t] = 0
              /\ pc[t] = "idle" /\ op' \in [Threads -> PutOps \cup GetOps \cup {NULL}]
            BY <2>2, <3>1, <1>t DEF GetCall, EntInv
        <3>3. (Len(Chain(t)) \in Nat)'
            <4>1. op'[t].key \in Keys BY <3>2 DEF GetOps
            <4>2. BucketOf[op'[t].key] \in Buckets BY <4>1, StoreAssumption
            <4> QED BY <4>2, <2>2, <1>t DEF TypeOK, Chain, Bucket, GetCall
        <3>h. /\ op' \in [Threads -> PutOps \cup GetOps \cup {NULL}]
              /\ pc' \in [Threads -> Labels]
              /\ ent' \in [Threads -> Nat]
              /\ output' \in [Threads -> Values \cup {NULL}]
              /\ \A u \in Threads \ {t} : /\ op'[u] = op[u] /\ pc'[u] = pc[u]
                                          /\ ent'[u] = ent[u] /\ output'[u] = output[u]
            BY <2>2, <3>2, <1>t DEF GetCall
        <3>4. op'[t] # NULL /\ UNCHANGED <<buckets, bucket_locks>> BY <2>2, <3>2, <1>n DEF GetCall
        <3>5. (op[t] # NULL => ent[t] <= Len(Chain(t)))' BY <3>2, <3>3
        <3>6. IInv' BY Zenon, <3>2, <3>4, <3>5, <3>h, <1>t, OthersUnmoved
        <3> QED BY <3>4, <3>6
    <2> QED BY <1>1, <2>1, <2>2 DEF Begin
<1>2. ASSUME pc[t] # "idle", UNCHANGED <<buckets, op>>
      PROVE  /\ Bucket(t) \in Buckets /\ Bucket(t)' = Bucket(t)
             /\ Chain(t)' = Chain(t) /\ Matches(t)' = Matches(t)
             /\ Len(Chain(t)) \in Nat /\ op[t] # NULL /\ ent[t] <= Len(Chain(t))
    BY <1>2, <1>t, <1>n, InCall DEF Bucket, Chain, Matches
<1>3. CASE PutLock(t) \/ GetLock(t)
    <2>1. pc[t] \in {"put_lock", "get_lock"} /\ UNCHANGED <<buckets, op, ent, output>>
        BY <1>3 DEF PutLock, GetLock, Lock
    <2>2. \A u \in Threads \ {t} : pc[u] \in Critical =>
             bucket_locks'[Bucket(u)] = bucket_locks[Bucket(u)]
        BY <1>3, <1>t, <1>n, <2>1, InCall DEF PutLock, GetLock, Lock, LockInv
    <2>h. /\ op' \in [Threads -> PutOps \cup GetOps \cup {NULL}]
          /\ pc' \in [Threads -> Labels]
          /\ ent' \in [Threads -> Nat]
          /\ output' \in [Threads -> Values \cup {NULL}]
          /\ \A u \in Threads \ {t} : /\ op'[u] = op[u] /\ pc'[u] = pc[u]
                                      /\ ent'[u] = ent[u] /\ output'[u] = output[u]
        BY <1>3, <1>t, <2>1 DEF PutLock, GetLock, Lock
    <2>3. /\ bucket_locks' \in [Buckets -> Threads \cup {NULL}]
          /\ bucket_locks'[Bucket(t)] = t
        BY <1>2, <1>3, <1>t, <2>1 DEF PutLock, GetLock, Lock
    <2>4. /\ pc[t] = "put_lock" => pc'[t] = "put_walk" /\ op'[t] \in PutOps
          /\ pc[t] = "get_lock" => pc'[t] = "get_walk" /\ op'[t] \in GetOps
          /\ ent'[t] = 0
        BY <1>3, <1>t, <2>1 DEF PutLock, GetLock, Lock, KindInv, EntInv
    <2>9. Chain(t)' = Chain(t) /\ Len(Chain(t)) \in Nat BY <1>2, <2>1
    <2>10. (Len(Chain(t)) \in Nat)' BY <2>9
    <2>5. (op[t] # NULL => ent[t] <= Len(Chain(t)))'
        BY <2>4, <2>10
    <2>6. (op[t] # NULL)' BY <2>1, <2>4, <1>n
    <2>7. (bucket_locks[Bucket(t)] = t)' BY <1>2, <2>1, <2>3
    <2>8. IInv' BY <2>1, <2>2, <2>3, <2>4, <2>5, <2>6, <2>7, <2>h, OthersUnmoved
    <2> QED BY <2>1, <2>8
<1>4. CASE PutUnlock(t) \/ GetUnlock(t)
    <2>1. pc[t] \in {"put_unlock", "get_unlock"} /\ UNCHANGED <<buckets, ent, output>>
        BY <1>4 DEF PutUnlock, GetUnlock, Unlock
    <2>2. \A u \in Threads \ {t} : pc[u] \in Critical =>
             bucket_locks'[Bucket(u)] = bucket_locks[Bucket(u)]
        BY <1>4, <1>t, <1>n, <1>c, <2>1, InCall DEF PutUnlock, GetUnlock, Unlock
    <2>3. CASE PutUnlock(t)
        BY Zenon, <2>3, <1>t, <1>n, <2>1, <2>2, InCall, OthersUnmoved DEF PutUnlock, Unlock, EntInv
    <2>4. CASE GetUnlock(t)
        BY Zenon, <1>2, <2>4, <1>t, <1>n, <2>1, <2>2, OthersUnmoved
            DEF GetUnlock, Unlock, KindInv, FoundInv, Found
    <2> QED BY <1>4, <2>3, <2>4
<1>5. CASE PutWalk(t)
    BY <1>2, <1>5, <1>t, <1>n, OthersUnmoved DEF PutWalk, KindInv, EntInv, LockInv
<1>6. CASE GetWalk(t)
    <2>1. pc[t] = "get_walk" /\ pc' = [pc EXCEPT ![t] = "get_unlock"]
          /\ UNCHANGED <<buckets, bucket_locks, op>>
        BY <1>6 DEF GetWalk
    <2>2. ASSUME NEW i \in Matches(t), ent' = [ent EXCEPT ![t] = i],
                 output' = [output EXCEPT ![t] = Chain(t)[i].data]
          PROVE  IInv' /\ UNCHANGED buckets
        <3>1. /\ i \in 1..Len(Chain(t)) /\ Chain(t)[i] \in Entries
              /\ Chain(t)[i].key = op[t].key
            BY <1>2, <2>1, <1>t, InCall DEF Matches
        <3>2. Chain(t)[i] = [key |-> op[t].key, data |-> Chain(t)[i].data]
              /\ Chain(t)[i].data \in Values
            BY <3>1 DEF Entries
        <3>3. Chain(t) \in Seq(Entries) /\ i \in Nat /\ i <= Len(Chain(t)) /\ i # 0
            BY <1>t, <2>1, <3>1, InCall
        <3>h. /\ op' \in [Threads -> PutOps \cup GetOps \cup {NULL}]
              /\ pc' \in [Threads -> Labels]
              /\ ent' \in [Threads -> Nat]
              /\ output' \in [Threads -> Values \cup {NULL}]
              /\ \A u \in Threads \ {t} : /\ op'[u] = op[u] /\ pc'[u] = pc[u]
                                          /\ ent'[u] = ent[u] /\ output'[u] = output[u]
            BY <1>t, <2>1, <2>2, <3>2, <3>3
        <3>4. ent'[t] = i /\ output'[t] = Chain(t)[i].data /\ pc'[t] = "get_unlock"
              /\ op'[t] \in GetOps /\ op'[t] # NULL /\ op'[t] = op[t]
            BY <1>t, <1>n, <2>1, <2>2, <3>h DEF KindInv
        <3>5. Found(t)' BY <1>2, <2>1, <3>2, <3>3, <3>4 DEF Found
        <3>6. (op[t] # NULL => ent[t] <= Len(Chain(t)))' BY <1>2, <2>1, <3>3, <3>4
        <3>7. (bucket_locks[Bucket(t)] = t)' BY <1>2, <1>t, <2>1 DEF LockInv
        <3>8. IInv' BY Zenon, <1>t, <2>1, <3>4, <3>5, <3>6, <3>7, <3>h, OthersUnmoved
        <3> QED BY <2>1, <3>8
    <2>3. ASSUME ent' = [ent EXCEPT ![t] = 0], output' = [output EXCEPT ![t] = NULL]
          PROVE  IInv' /\ UNCHANGED buckets
        <3>h. /\ op' \in [Threads -> PutOps \cup GetOps \cup {NULL}]
              /\ pc' \in [Threads -> Labels]
              /\ ent' \in [Threads -> Nat]
              /\ output' \in [Threads -> Values \cup {NULL}]
              /\ \A u \in Threads \ {t} : /\ op'[u] = op[u] /\ pc'[u] = pc[u]
                                          /\ ent'[u] = ent[u] /\ output'[u] = output[u]
            BY <1>t, <2>1, <2>3
        <3>4. ent'[t] = 0 /\ output'[t] = NULL /\ pc'[t] = "get_unlock"
              /\ op'[t] \in GetOps /\ op'[t] # NULL
            BY <1>t, <1>n, <2>1, <2>3, <3>h DEF KindInv
        <3>5. Found(t)' BY <3>4 DEF Found
        <3>9. Chain(t)' = Chain(t) /\ Len(Chain(t)) \in Nat BY <1>2, <2>1
        <3>10. (Len(Chain(t)) \in Nat)' BY <3>9
        <3>6. (op[t] # NULL => ent[t] <= Len(Chain(t)))' BY <3>4, <3>10
        <3>7. (bucket_locks[Bucket(t)] = t)' BY <1>2, <1>t, <2>1 DEF LockInv
        <3>8. IInv' BY Zenon, <1>t, <2>1, <3>4, <3>5, <3>6, <3>7, <3>h, OthersUnmoved
        <3> QED BY <2>1, <3>8
    <2> QED BY <1>6, <2>2, <2>3 DEF GetWalk
<1>7. CASE GetReturn(t)
    BY <1>7, <1>t, <1>n, OthersUnmoved DEF GetReturn
<1> QED BY <1>1, <1>3, <1>4, <1>5, <1>6, <1>7

(* What kv_store_put does to the table when it links an entry: it appends, *)
(* because the walk's result still holds.                                  *)
LEMMA LinkAppends ==
    ASSUME IInv, NEW t \in Threads, PutLink(t)
    PROVE  LET e == [key |-> op[t].key, data |-> op[t].data]
           IN  /\ e \in Entries
               /\ Bucket(t) \in Buckets
               /\ Chain(t) \in Seq(Entries)
               /\ buckets' = [buckets EXCEPT ![Bucket(t)] = Append(Chain(t), e)]
               /\ buckets'[Bucket(t)] \in Seq(Entries)
               /\ Len(buckets'[Bucket(t)]) = Len(Chain(t)) + 1
               /\ \A i \in 1..Len(Chain(t)) :
                     buckets'[Bucket(t)][i] = Chain(t)[i] /\ Chain(t)[i].key # op[t].key
               /\ buckets'[Bucket(t)][Len(Chain(t)) + 1] = e
<1> DEFINE e == [key |-> op[t].key, data |-> op[t].data]
<1>1. pc[t] = "put_link" BY DEF PutLink, Goto
<1>2. op[t] \in PutOps BY <1>1 DEF IInv, KindInv, PutLabels
<1>3. e \in Entries BY <1>2 DEF PutOps, Entries
<1>4. Bucket(t) \in Buckets /\ Chain(t) \in Seq(Entries) BY <1>1, InCall DEF IInv
<1>5. ent[t] = Len(Chain(t)) /\ Matches(t) = {} BY <1>1 DEF IInv, LinkInv
<1>6. SubSeq(Chain(t), 1, ent[t]) = Chain(t) BY <1>4, <1>5, SubSeqFull
<1>7. buckets' = [buckets EXCEPT ![Bucket(t)] = Append(Chain(t), e)]
    BY Zenon, <1>6 DEF PutLink, Linked, Chain, kv_entry_new
<1>8. buckets'[Bucket(t)] = Append(Chain(t), e)
    BY <1>4, <1>7 DEF IInv, TypeOK
<1>9. \A i \in 1..Len(Chain(t)) : Chain(t)[i].key # op[t].key
    BY <1>5 DEF Matches
<1> HIDE DEF e
<1>10. /\ Append(Chain(t), e) \in Seq(Entries)
       /\ Len(Append(Chain(t), e)) = Len(Chain(t)) + 1
       /\ \A i \in 1..Len(Chain(t)) : Append(Chain(t), e)[i] = Chain(t)[i]
       /\ Append(Chain(t), e)[Len(Chain(t)) + 1] = e
    BY <1>3, <1>4
<1> QED BY <1>3, <1>4, <1>7, <1>8, <1>9, <1>10 DEF e

(* A step leaves every entry where it is.                                  *)
Kept ==
    \A b \in Buckets : \A i \in 1..Len(buckets[b]) :
        i <= Len(buckets[b]') /\ buckets[b][i]' = buckets[b][i]

(* A new entry at the end of its chain, whose key no other entry has.      *)
LEMMA LinkStep ==
    ASSUME IInv, NEW t \in Threads, PutLink(t)
    PROVE  IInv' /\ Kept
<1> DEFINE B == Bucket(t)
           C == Chain(t)
           e == [key |-> op[t].key, data |-> op[t].data]
<1>1. /\ e \in Entries /\ B \in Buckets /\ C \in Seq(Entries) /\ Len(C) \in Nat
      /\ buckets' = [buckets EXCEPT ![B] = Append(C, e)]
      /\ buckets'[B] \in Seq(Entries)
      /\ Len(buckets'[B]) = Len(C) + 1
      /\ \A i \in 1..Len(C) : buckets'[B][i] = C[i] /\ C[i].key # op[t].key
      /\ buckets'[B][Len(C) + 1] = e
    <2>1. C \in Seq(Entries) BY Zenon, LinkAppends
    <2>2. Len(C) \in Nat
        <3> HIDE DEF C
        <3> QED BY <2>1, LenProperties
    <2> QED BY Zenon, <2>2, LinkAppends
<1>2. buckets[B] = C /\ e.key = op[t].key /\ BucketOf[e.key] = B
    BY DEF Chain, Bucket
<1> HIDE DEF e, B, C
<1>3. /\ buckets \in [Buckets -> Seq(Entries)]
      /\ op \in [Threads -> PutOps \cup GetOps \cup {NULL}]
      /\ pc \in [Threads -> Labels]
      /\ ent \in [Threads -> Nat]
      /\ output \in [Threads -> Values \cup {NULL}]
      /\ bucket_locks \in [Buckets -> Threads \cup {NULL}]
    BY Zenon DEF IInv, TypeOK, Entries
<1>4. \A b \in Buckets \ {B} : buckets'[b] = buckets[b]
    BY <1>1, <1>3
<1>5. Kept
    BY <1>1, <1>2, <1>3, <1>4 DEF Kept
<1>6. buckets' \in [Buckets -> Seq(Entries)]
    BY <1>1, <1>3, <1>4
<1>7. \A b \in Buckets : Len(buckets[b]) \in Nat /\ Len(buckets[b]) <= Len(buckets'[b])
    BY <1>1, <1>2, <1>3, <1>4
<1>8. /\ pc[t] = "put_link" /\ pc'[t] = "put_unlock"
      /\ ent'[t] = 0 /\ op' = op /\ output' = output /\ bucket_locks' = bucket_locks
      /\ pc' = [pc EXCEPT ![t] = "put_unlock"] /\ ent' = [ent EXCEPT ![t] = 0]
      /\ \A u \in Threads \ {t} : pc'[u] = pc[u] /\ ent'[u] = ent[u]
    BY <1>3 DEF PutLink, Goto
<1>9. ASSUME NEW u \in Threads, pc[u] # "idle"
      PROVE  /\ Bucket(u) \in Buckets /\ Bucket(u)' = Bucket(u)
             /\ Chain(u) = buckets[Bucket(u)] /\ Chain(u)' = buckets'[Bucket(u)]
             /\ op[u] # NULL /\ ent[u] <= Len(Chain(u))
             /\ Len(Chain(u)) \in Nat /\ Len(Chain(u)) <= Len(Chain(u)')
             /\ Len(Chain(u)') \in Nat
    <2>1. /\ Bucket(u) \in Buckets /\ op[u] # NULL /\ ent[u] <= Len(Chain(u))
        BY Zenon, <1>9, InCall DEF IInv, TypeOK
    <2>2. Bucket(u)' = Bucket(u) BY <1>8 DEF Bucket
    <2>3. Chain(u) = buckets[Bucket(u)] /\ Chain(u)' = buckets'[Bucket(u)]
        BY <2>2 DEF Chain
    <2> QED BY <2>1, <2>2, <2>3, <1>6, <1>7
(* Another thread of the same bucket is outside its critical section.     *)
<1>10. ASSUME NEW u \in Threads, u # t, pc[u] \in Critical
       PROVE  Bucket(u) # B
    BY <1>8, <1>10 DEF IInv, LockInv, Critical, B
<1>11. TypeOK'
    <2>1. pc' \in [Threads -> Labels] /\ ent' \in [Threads -> Nat]
        BY <1>3, <1>8 DEF Labels
    <2>2. ASSUME NEW u \in Threads
          PROVE  (/\ op[u] = NULL <=> pc[u] = "idle"
                  /\ op[u] # NULL => ent[u] <= Len(Chain(u)))'
        <3>1. op[u] = NULL <=> pc[u] = "idle" BY DEF IInv, TypeOK
        <3>2. (op[u] = NULL <=> pc[u] = "idle")' BY <3>1, <1>8
        <3>3. CASE op[u] # NULL
            BY <1>3, <1>8, <1>9, <3>1, <3>2, <3>3
        <3> QED BY <3>2, <3>3, <1>8
    <2> QED BY Zenon, <1>3, <1>6, <1>8, <2>1, <2>2 DEF TypeOK, Entries
<1>12. LockInv'
    <2> SUFFICES ASSUME NEW u \in Threads, pc'[u] \in Critical
                 PROVE  (bucket_locks[Bucket(u)] = u)'
        BY DEF LockInv
    <2>1. pc[u] \in Critical BY <1>8 DEF Critical
    <2>2. pc[u] # "idle" BY <2>1 DEF Critical
    <2> QED BY <2>1, <2>2, <1>8, <1>9 DEF IInv, LockInv
<1>13. KindInv'
    BY <1>8 DEF IInv, KindInv, PutLabels, GetLabels
<1>14. LinkInv'
    <2> SUFFICES ASSUME NEW u \in Threads, pc'[u] = "put_link"
                 PROVE  (ent[u] = Len(Chain(u)) /\ Matches(u) = {})'
        BY DEF LinkInv
    <2>1. u # t /\ pc[u] = "put_link" BY <1>8
    <2>2. Chain(u)' = Chain(u) BY <2>1, <1>4, <1>9, <1>10 DEF Critical
    <2>3. Matches(u)' = Matches(u) BY <2>2, <1>8 DEF Matches
    <2> QED BY <2>1, <2>2, <2>3, <1>8 DEF IInv, LinkInv
<1>15. FoundInv'
    <2> SUFFICES ASSUME NEW u \in Threads, pc'[u] \in {"get_unlock", "get_return"}
                 PROVE  Found(u)'
        BY DEF FoundInv
    <2>1. u # t /\ pc[u] = pc'[u] /\ pc[u] # "idle" BY <1>8
    <2>2. Found(u) /\ ent'[u] = ent[u] BY <2>1, <1>8 DEF IInv, FoundInv
    <2>3. CASE ent[u] = 0 BY <2>2, <2>3, <1>8 DEF Found
    <2>4. CASE ent[u] # 0
        <3>1. ent[u] \in 1..Len(buckets[Bucket(u)]) BY <1>3, <1>9, <2>1, <2>4
        <3>2. buckets'[Bucket(u)][ent[u]] = buckets[Bucket(u)][ent[u]]
            BY <3>1, <1>5, <1>9, <2>1 DEF Kept
        <3>3. /\ op'[u] = op[u] /\ ent'[u] = ent[u] /\ output'[u] = output[u]
              /\ Bucket(u)' = Bucket(u)
            BY <2>1, <1>8, <1>9
        <3>4. Chain(u)'[ent'[u]] = Chain(u)[ent[u]] BY Zenon, <3>2, <3>3 DEF Chain
        <3> QED BY Zenon, <3>3, <3>4, <2>2, <2>4 DEF Found
    <2> QED BY <2>3, <2>4
<1>16. EntInv'
    BY <1>8 DEF IInv, EntInv
<1>17. ChainsSound'
    <2> SUFFICES ASSUME NEW b \in Buckets
                 PROVE  /\ \A i, j \in 1..Len(buckets'[b]) :
                              buckets'[b][i].key = buckets'[b][j].key => i = j
                        /\ \A i \in 1..Len(buckets'[b]) : BucketOf[buckets'[b][i].key] = b
        BY DEF ChainsSound
    <2>1. CASE b # B BY <1>4, <2>1 DEF IInv, ChainsSound
    <2>2. CASE b = B
        <3>1. \A i, j \in 1..Len(C) : C[i].key = C[j].key => i = j
            BY <1>1, <1>2 DEF IInv, ChainsSound
        <3>2. \A i \in 1..Len(C) : BucketOf[C[i].key] = B
            BY <1>1, <1>2 DEF IInv, ChainsSound
        <3>3. \A i \in 1..Len(buckets'[B]) : i \in 1..Len(C) \/ i = Len(C) + 1
            BY <1>1
        <3>4. \A i, j \in 1..Len(buckets'[B]) :
                 buckets'[B][i].key = buckets'[B][j].key => i = j
            BY <1>1, <1>2, <3>1, <3>3
        <3>5. \A i \in 1..Len(buckets'[B]) : BucketOf[buckets'[B][i].key] = B
            BY <1>1, <1>2, <3>2, <3>3
        <3> QED BY <2>2, <3>4, <3>5
    <2> QED BY <2>1, <2>2
<1> QED BY <1>5, <1>11, <1>12, <1>13, <1>14, <1>15, <1>16, <1>17 DEF IInv

(* Every step of a call keeps the invariant and every entry where it is.   *)
LEMMA NextIInv == IInv /\ [Next]_vars => IInv' /\ Kept
<1> SUFFICES ASSUME IInv, [Next]_vars PROVE IInv' /\ Kept OBVIOUS
<1>1. ASSUME UNCHANGED buckets PROVE Kept
    <2>1. \A b \in Buckets : Len(buckets[b]) \in Nat BY DEF IInv, TypeOK
    <2> QED BY <1>1, <2>1 DEF Kept
<1>2. ASSUME NEW t \in Threads, Begin(t) \/ Proceed(t) PROVE IInv' /\ Kept
    BY <1>1, <1>2, QuietStep, LinkStep DEF Proceed
<1>3. CASE UNCHANGED vars
    <2> USE <1>3 DEF vars
    <2>1. \A t \in Threads : Bucket(t)' = Bucket(t) /\ Chain(t)' = Chain(t)
                             /\ Matches(t)' = Matches(t) /\ (Found(t)' <=> Found(t))
        BY DEF Bucket, Chain, Matches, Found
    <2>2. TypeOK' BY Zenon, <2>1 DEF IInv, TypeOK
    <2>3. LockInv' /\ KindInv' BY <2>1 DEF IInv, LockInv, KindInv
    <2>4. LinkInv' BY <2>1 DEF IInv, LinkInv
    <2>5. FoundInv' /\ EntInv' BY <2>1 DEF IInv, FoundInv, EntInv
    <2>6. ChainsSound' BY DEF IInv, ChainsSound
    <2> QED BY <1>1, <2>2, <2>3, <2>4, <2>5, <2>6 DEF IInv
<1> QED BY <1>2, <1>3 DEF Next

(* IInv implies what the runs check: the length read after the unlock is   *)
(* that of the data copied before it.                                      *)
LEMMA FoundFits == IInv => LengthFits
<1> SUFFICES ASSUME IInv, NEW t \in Threads, pc[t] \in {"get_unlock", "get_return"}
             PROVE  ReturnedLength(t) = IF output[t] = NULL THEN 0 ELSE Len(output[t])
    BY DEF LengthFits
<1>1. Found(t) BY DEF IInv, FoundInv
<1>2. CASE ent[t] = 0 BY <1>1, <1>2 DEF Found, ReturnedLength
<1>3. CASE ent[t] # 0
    <2>1. /\ Chain(t) \in Seq(Entries) /\ ent[t] \in 1..Len(Chain(t))
        <3>1. TypeOK /\ pc[t] # "idle" BY DEF IInv
        <3>2. ent[t] \in Nat BY <3>1 DEF TypeOK
        <3>3. Chain(t) \in Seq(Entries) /\ Len(Chain(t)) \in Nat /\ ent[t] <= Len(Chain(t))
            BY <3>1, InCall
        <3> QED BY <1>3, <3>2, <3>3
    <2>2. Chain(t)[ent[t]].data = output[t] /\ output[t] \in Values
        <3>1. Chain(t)[ent[t]] \in Entries BY <2>1, ElementOfSeq
        <3>2. Chain(t)[ent[t]] = [key |-> op[t].key, data |-> output[t]]
            BY <1>1, <1>3 DEF Found
        <3> QED BY <3>1, <3>2 DEF Entries
    <2> QED BY <1>3, <2>2, StoreAssumption DEF ReturnedLength
<1> QED BY <1>2, <1>3

(* The invariant holds in every reachable state.                           *)
LEMMA Invariance == Spec => []IInv
<1> QED BY InitIInv, NextIInv, PTL DEF Spec

(* A thread has arguments exactly while it is in a call, and the entry it  *)
(* points to is in the chain of its bucket, also after the unlock.         *)
THEOREM TypeCorrect == Spec => []TypeOK
<1>1. IInv => TypeOK BY DEF IInv
<1> QED BY <1>1, Invariance, PTL

(* A key is in its bucket's chain at most once, and in no other chain.     *)
THEOREM KeysOnce == Spec => []ChainsSound
<1>1. IInv => ChainsSound BY DEF IInv
<1> QED BY <1>1, Invariance, PTL

(* The length that kv_store_get returns fits the data it copied.           *)
THEOREM LengthCorrect == Spec => []LengthFits
<1> QED BY FoundFits, Invariance, PTL

(* No entry is lost, moved or changed once it is linked.                   *)
THEOREM EntriesStay == Spec => ChainsOnlyGrow
<1>1. IInv /\ [Next]_vars => [Kept]_vars BY NextIInv
<1> QED BY <1>1, Invariance, PTL DEF Spec, ChainsOnlyGrow, Kept

------------------------------------------------------------------------------
(* The refinement of KvMap. *)

Store == [k \in Keys |-> Lookup(k)]
Reply == [t \in Threads |-> ReplyOf(t)]

(* The value under a key is that of the entry with the key.                *)
LookupFact ==
    \A k \in Keys :
        /\ \A i \in 1..Len(buckets[BucketOf[k]]) :
              buckets[BucketOf[k]][i].key = k =>
                  /\ Lookup(k) = buckets[BucketOf[k]][i].data
                  /\ Lookup(k) # NULL
        /\ (\A i \in 1..Len(buckets[BucketOf[k]]) : buckets[BucketOf[k]][i].key # k)
              => Lookup(k) = NULL

(* The entry with a key, if its chain has one, is what the map holds for it.*)
LEMMA LookupIs == IInv => LookupFact
<1> SUFFICES ASSUME IInv, NEW k \in Keys
             PROVE  /\ \A i \in 1..Len(buckets[BucketOf[k]]) :
                          buckets[BucketOf[k]][i].key = k =>
                              /\ Lookup(k) = buckets[BucketOf[k]][i].data
                              /\ Lookup(k) # NULL
                    /\ (\A i \in 1..Len(buckets[BucketOf[k]]) :
                           buckets[BucketOf[k]][i].key # k) => Lookup(k) = NULL
    BY DEF LookupFact
<1> DEFINE chain == buckets[BucketOf[k]]
           found == {i \in 1..Len(chain) : chain[i].key = k}
<1>1. BucketOf[k] \in Buckets BY StoreAssumption
<1>2. chain \in Seq(Entries) BY Zenon, <1>1 DEF IInv, TypeOK, Entries
<1>3. \A i, j \in found : i = j BY <1>1 DEF IInv, ChainsSound
<1>4. ASSUME NEW i \in found
      PROVE  Lookup(k) = chain[i].data /\ Lookup(k) # NULL
    <2>1. (CHOOSE j \in found : TRUE) = i BY <1>3, <1>4
    <2>2. Lookup(k) = chain[i].data BY Zenon, <1>4, <2>1 DEF Lookup
    <2>3. chain[i] \in Entries BY <1>2, <1>4, ElementOfSeq
    <2>4. chain[i].data \in Values BY <2>3 DEF Entries
    <2> QED BY <2>2, <2>4, StoreAssumption
<1>5. ASSUME found = {} PROVE Lookup(k) = NULL BY <1>5 DEF Lookup
<1> QED BY <1>4, <1>5

(* A reply is a function of where the thread is and of what it copied.     *)
ReplyFact ==
    \A t \in Threads :
        /\ pc[t] = "put_unlock" => ReplyOf(t) = Map!Void
        /\ pc[t] \in {"get_unlock", "get_return"} =>
              ReplyOf(t) = IF output[t] = NULL THEN Map!NotFound ELSE Map!Found(output[t])
        /\ pc[t] \notin {"put_unlock", "get_unlock", "get_return"} => ReplyOf(t) = NULL
        /\ pc[t] \in {"put_unlock", "get_unlock", "get_return"} => ReplyOf(t) # NULL

(* What a call is about to return, by its place in the code.               *)
LEMMA ReplyIs == IInv => ReplyFact
<1> SUFFICES ASSUME IInv, NEW t \in Threads
             PROVE  /\ pc[t] = "put_unlock" => ReplyOf(t) = Map!Void
                    /\ pc[t] \in {"get_unlock", "get_return"} =>
                          ReplyOf(t) = IF output[t] = NULL THEN Map!NotFound
                                                           ELSE Map!Found(output[t])
                    /\ pc[t] \notin {"put_unlock", "get_unlock", "get_return"} =>
                          ReplyOf(t) = NULL
                    /\ pc[t] \in {"put_unlock", "get_unlock", "get_return"} =>
                          ReplyOf(t) # NULL
    BY DEF ReplyFact
<1>1. LengthFits BY FoundFits
<1>2. NULL \notin Replies BY StoreAssumption
<1>3. CASE pc[t] = "put_unlock"
    <2>1. ReplyOf(t) = Map!Void BY <1>3 DEF ReplyOf, Map!Void
    <2>2. Map!Void \in Replies BY DEF Map!Void, Replies
    <2> QED BY <1>2, <1>3, <2>1, <2>2
<1>4. CASE pc[t] \in {"get_unlock", "get_return"}
    <2>1. ReplyOf(t) = [output |-> output[t], length |-> ReturnedLength(t)]
        BY <1>4 DEF ReplyOf
    <2>2. ReturnedLength(t) = IF output[t] = NULL THEN 0 ELSE Len(output[t])
        BY <1>1, <1>4 DEF LengthFits
    <2>3. output[t] \in Values \cup {NULL} BY DEF IInv, TypeOK
    <2>4. ReturnedLength(t) \in Nat BY <2>2, <2>3, StoreAssumption
    <2>5. ReplyOf(t) \in Replies BY <2>1, <2>3, <2>4 DEF Replies
    <2> QED BY <1>2, <1>4, <2>1, <2>2, <2>5 DEF Map!NotFound, Map!Found
<1>5. CASE pc[t] \notin {"put_unlock", "get_unlock", "get_return"}
    BY <1>5 DEF ReplyOf
<1> QED BY <1>3, <1>4, <1>5

(* The same, of the state after a step.                                    *)
LEMMA LookupIsNext == (IInv => LookupFact)'
<1> QED BY LookupIs, PTL

(* The same, of the state after a step.                                    *)
LEMMA ReplyIsNext == (IInv => ReplyFact)'
<1> QED BY ReplyIs, PTL

(* A new store is an empty map.                                            *)
LEMMA MapInit == Init => Map!Init
<1> SUFFICES ASSUME Init PROVE Map!Init OBVIOUS
<1>1. ASSUME NEW k \in Keys PROVE Lookup(k) = NULL
    <2>1. buckets[BucketOf[k]] = <<>> BY StoreAssumption DEF Init
    <2> QED BY <2>1 DEF Lookup
<1>2. ASSUME NEW t \in Threads PROVE ReplyOf(t) = NULL
    BY DEF Init, ReplyOf
<1> QED BY <1>1, <1>2 DEF Init, Map!Init

(* Linking an entry puts its data under its key and changes no other key.  *)
LEMMA LinkPuts ==
    ASSUME IInv, NEW t \in Threads, PutLink(t)
    PROVE  /\ Lookup(op[t].key) = NULL
           /\ Store' = [Store EXCEPT ![op[t].key] = op[t].data]
<1> DEFINE B == Bucket(t)
           C == Chain(t)
           e == [key |-> op[t].key, data |-> op[t].data]
<1>1. /\ e \in Entries /\ B \in Buckets /\ C \in Seq(Entries) /\ Len(C) \in Nat
      /\ buckets' = [buckets EXCEPT ![B] = Append(C, e)]
      /\ Len(buckets'[B]) = Len(C) + 1
      /\ \A i \in 1..Len(C) : buckets'[B][i] = C[i] /\ C[i].key # op[t].key
      /\ buckets'[B][Len(C) + 1] = e
    <2>1. C \in Seq(Entries) BY Zenon, LinkAppends
    <2>2. Len(C) \in Nat
        <3> HIDE DEF C
        <3> QED BY <2>1, LenProperties
    <2> QED BY Zenon, <2>2, LinkAppends
<1>2. buckets[B] = C /\ e.key = op[t].key /\ e.data = op[t].data /\ BucketOf[op[t].key] = B
      /\ op[t].key \in Keys
    BY Zenon, <1>1 DEF Chain, Bucket, Entries
<1> HIDE DEF e, B, C
<1>3. LookupFact /\ LookupFact' BY LookupIs, LookupIsNext, LinkStep
<1>7. Lookup(op[t].key) = NULL BY <1>1, <1>2, <1>3 DEF LookupFact
<1>4. ASSUME NEW k \in Keys PROVE Lookup(k)' = IF k = op[t].key THEN op[t].data ELSE Lookup(k)
    <2>0. BucketOf[k] \in Buckets /\ BucketOf' = BucketOf BY StoreAssumption
    <2>1. CASE BucketOf[k] # B
        <3>1. buckets'[BucketOf[k]] = buckets[BucketOf[k]]
            BY <1>1, <2>0, <2>1 DEF IInv, TypeOK
        <3>2. Lookup(k)' = Lookup(k)
            <4> DEFINE at(chain) == LET found == {i \in 1..Len(chain) : chain[i].key = k}
                                    IN  IF found = {} THEN NULL
                                        ELSE chain[CHOOSE i \in found : TRUE].data
            <4>1. Lookup(k) = at(buckets[BucketOf[k]]) BY Zenon DEF Lookup
            <4>2. Lookup(k)' = at(buckets'[BucketOf[k]]) BY Zenon, <2>0 DEF Lookup
            <4> HIDE DEF at
            <4> QED BY Zenon, <3>1, <4>1, <4>2
        <3>3. k # op[t].key BY Zenon, <1>2, <2>1
        <3> QED BY Zenon, <3>2, <3>3
    <2>5. ASSUME BucketOf[k] = B
          PROVE  /\ \A i \in 1..Len(C) : C[i].key = k => Lookup(k) = C[i].data
                 /\ (\A i \in 1..Len(C) : C[i].key # k) => Lookup(k) = NULL
        BY <1>2, <1>3, <2>5 DEF LookupFact
    <2>6. ASSUME BucketOf[k] = B
          PROVE  /\ \A i \in 1..Len(buckets'[B]) :
                        buckets'[B][i].key = k => Lookup(k)' = buckets'[B][i].data
                 /\ (\A i \in 1..Len(buckets'[B]) : buckets'[B][i].key # k)
                        => Lookup(k)' = NULL
        BY <1>3, <2>0, <2>6 DEF LookupFact
    <2>2. CASE BucketOf[k] = B /\ k # op[t].key
        <3>1. \A i \in 1..Len(buckets'[B]) : i \in 1..Len(C) \/ i = Len(C) + 1 BY <1>1
        <3>2. \A i \in 1..Len(C) : i \in 1..Len(buckets'[B]) BY <1>1
        <3>3. CASE \E i \in 1..Len(C) : C[i].key = k
            <4>1. PICK i \in 1..Len(C) : C[i].key = k BY <3>3
            <4>2. i \in 1..Len(buckets'[B]) /\ buckets'[B][i] = C[i] BY <1>1, <3>2
            <4>3. Lookup(k)' = C[i].data BY <2>2, <2>6, <4>1, <4>2
            <4>4. Lookup(k) = C[i].data BY <2>2, <2>5, <4>1
            <4> QED BY <2>2, <4>3, <4>4
        <3>4. CASE \A i \in 1..Len(C) : C[i].key # k
            <4>1. \A i \in 1..Len(buckets'[B]) : buckets'[B][i].key # k
                BY <1>1, <1>2, <2>2, <3>1, <3>4
            <4>2. Lookup(k)' = NULL BY <2>2, <2>6, <4>1
            <4>3. Lookup(k) = NULL BY <2>2, <2>5, <3>4
            <4> QED BY <2>2, <4>2, <4>3
        <3> QED BY <3>3, <3>4
    <2>3. CASE k = op[t].key
        <3>1. Len(C) + 1 \in 1..Len(buckets'[B]) BY <1>1
        <3>2. BucketOf[k] = B /\ buckets'[B][Len(C) + 1].key = k BY <1>1, <1>2, <2>3
        <3>3. Lookup(k)' = buckets'[B][Len(C) + 1].data BY <2>6, <3>1, <3>2
        <3> QED BY <1>1, <1>2, <2>3, <3>3
    <2> QED BY <2>1, <2>2, <2>3, <1>2
<1>5. Store' = [k \in Keys |-> Lookup(k)'] BY DEF Store
<1>6. [Store EXCEPT ![op[t].key] = op[t].data]
         = [k \in Keys |-> IF k = op[t].key THEN op[t].data ELSE Lookup(k)]
    BY Zenon, <1>2 DEF Store
<1> QED BY <1>4, <1>5, <1>6, <1>7

(* Every step of the table is a step of the map, or none at all.           *)
LEMMA MapStep == IInv /\ IInv' /\ [Next]_vars => [Map!Next]_(Map!vars)
<1> SUFFICES ASSUME IInv, IInv', [Next]_vars PROVE [Map!Next]_(Map!vars) OBVIOUS
<1> USE DEF Goto
<1>1. ReplyFact /\ ReplyFact' /\ LookupFact BY ReplyIs, ReplyIsNext, LookupIs
<1>2. /\ op \in [Threads -> PutOps \cup GetOps \cup {NULL}]
      /\ pc \in [Threads -> Labels]
      /\ output \in [Threads -> Values \cup {NULL}]
      /\ KindInv
      /\ \A t \in Threads : op[t] = NULL <=> pc[t] = "idle"
    BY DEF IInv, TypeOK
<1>3. ASSUME UNCHANGED buckets PROVE Store' = Store
    BY <1>3 DEF Store, Lookup
(* The replies of the others do not change, nor does that of t when it    *)
(* was and remains without one.                                           *)
<1>4. ASSUME NEW t \in Threads,
             \A u \in Threads \ {t} : pc'[u] = pc[u] /\ output'[u] = output[u]
      PROVE  Reply' = [Reply EXCEPT ![t] = ReplyOf(t)']
    <2>1. ASSUME NEW u \in Threads, u # t PROVE ReplyOf(u)' = ReplyOf(u)
        BY <1>1, <1>2, <1>4, <2>1 DEF ReplyFact, Labels
    <2> QED BY Zenon, <2>1 DEF Reply
<1>5. ASSUME NEW t \in Threads, ReplyOf(t)' = ReplyOf(t),
             \A u \in Threads \ {t} : pc'[u] = pc[u] /\ output'[u] = output[u]
      PROVE  Reply' = Reply
    BY Zenon, <1>4, <1>5 DEF Reply
<1>6. ASSUME UNCHANGED <<Store, op, Reply>> PROVE UNCHANGED Map!vars
    BY <1>6 DEF Map!vars, Store, Reply
<1>7. ASSUME NEW t \in Threads, Begin(t) PROVE \E o \in Map!Ops : Map!Call(t, o)
    <2>1. PICK o \in Map!Ops : /\ op' = [op EXCEPT ![t] = o] /\ pc[t] = "idle"
                              /\ pc' \in {[pc EXCEPT ![t] = "put_lock"],
                                         [pc EXCEPT ![t] = "get_lock"]}
                              /\ UNCHANGED <<buckets, output>>
        BY Zenon, <1>7 DEF Begin, PutCall, GetCall, Map!Ops
    <2>2. ReplyOf(t)' = ReplyOf(t)
        BY <1>1, <1>2, <2>1 DEF ReplyFact
    <2>3. Reply' = Reply BY <1>2, <1>5, <2>1, <2>2
    <2>4. Store' = Store BY <1>3, <2>1
    <2> QED BY Zenon, <1>2, <2>1, <2>3, <2>4 DEF Map!Call, Store, Reply
<1>8. ASSUME NEW t \in Threads, PutLock(t) \/ GetLock(t) \/ GetUnlock(t)
      PROVE  UNCHANGED Map!vars
    <2>1. /\ pc[t] \in {"put_lock", "get_lock", "get_unlock"}
          /\ pc[t] = "put_lock" => pc' = [pc EXCEPT ![t] = "put_walk"]
          /\ pc[t] = "get_lock" => pc' = [pc EXCEPT ![t] = "get_walk"]
          /\ pc[t] = "get_unlock" => pc' = [pc EXCEPT ![t] = "get_return"]
          /\ UNCHANGED <<buckets, op, output>>
        BY <1>8 DEF PutLock, GetLock, GetUnlock, Lock, Unlock
    <2>2. ReplyOf(t)' = ReplyOf(t)
        BY <1>1, <1>2, <2>1 DEF ReplyFact
    <2>3. Reply' = Reply BY <1>2, <1>5, <2>1, <2>2
    <2> QED BY <1>3, <1>6, <2>1, <2>3
<1>9. ASSUME NEW t \in Threads, PutWalk(t)
      PROVE  Map!Put(t) \/ UNCHANGED Map!vars
    <2>1. pc[t] = "put_walk" /\ UNCHANGED <<buckets, op, output>>
        BY <1>9 DEF PutWalk
    <2>2. CASE Matches(t) = {}
        <3>1. pc' = [pc EXCEPT ![t] = "put_link"] BY <1>9, <2>2 DEF PutWalk
        <3>2. ReplyOf(t)' = ReplyOf(t) BY <1>1, <1>2, <2>1, <3>1 DEF ReplyFact
        <3>3. Reply' = Reply BY <1>2, <1>5, <2>1, <3>1, <3>2
        <3> QED BY <1>3, <1>6, <2>1, <3>3
    <2>3. CASE Matches(t) # {}
        <3>1. pc' = [pc EXCEPT ![t] = "put_unlock"] BY <1>9, <2>3 DEF PutWalk
        <3>2. ReplyOf(t) = NULL /\ ReplyOf(t)' = Map!Void
            BY <1>1, <1>2, <2>1, <3>1 DEF ReplyFact
        <3>3. Reply' = [Reply EXCEPT ![t] = Map!Void] BY <1>2, <1>4, <2>1, <3>1, <3>2
        <3>4. op[t] \in PutOps BY <1>2, <2>1 DEF KindInv, PutLabels
        <3>5. op[t].key \in Keys /\ op[t].kind = "put" /\ op[t] # NULL
            BY <3>4, StoreAssumption DEF PutOps
        <3>6. Lookup(op[t].key) # NULL
            BY <1>1, <2>3, <3>5 DEF LookupFact, Matches, Chain, Bucket
        <3>7. Store' = Store /\ Store[op[t].key] # NULL /\ Reply[t] = NULL
            BY <1>3, <2>1, <3>2, <3>5, <3>6 DEF Store, Reply
        <3> QED BY <2>1, <3>3, <3>5, <3>7 DEF Map!Put, Store, Reply
    <2> QED BY <2>2, <2>3
<1>10. ASSUME NEW t \in Threads, PutLink(t) PROVE Map!Put(t)
    <2>1. pc[t] = "put_link" /\ pc' = [pc EXCEPT ![t] = "put_unlock"] /\ UNCHANGED <<op, output>>
        BY <1>10 DEF PutLink
    <2>2. ReplyOf(t) = NULL /\ ReplyOf(t)' = Map!Void
        BY <1>1, <1>2, <2>1 DEF ReplyFact
    <2>3. Reply' = [Reply EXCEPT ![t] = Map!Void] BY <1>2, <1>4, <2>1, <2>2
    <2>4. op[t] \in PutOps BY <1>2, <2>1 DEF KindInv, PutLabels
    <2>5. op[t].key \in Keys /\ op[t].kind = "put" /\ op[t] # NULL
        BY <2>4, StoreAssumption DEF PutOps
    <2>6. /\ Lookup(op[t].key) = NULL
          /\ Store' = [Store EXCEPT ![op[t].key] = op[t].data]
        BY <1>10, LinkPuts
    <2>7. Store[op[t].key] = NULL /\ Reply[t] = NULL BY <2>2, <2>5, <2>6 DEF Store, Reply
    <2> QED BY <2>1, <2>3, <2>5, <2>6, <2>7 DEF Map!Put, Store, Reply
<1>11. ASSUME NEW t \in Threads, GetWalk(t) PROVE Map!Get(t)
    <2>1. pc[t] = "get_walk" /\ pc' = [pc EXCEPT ![t] = "get_unlock"] /\ UNCHANGED <<buckets, op>>
        BY <1>11 DEF GetWalk
    <2>2. op[t] \in GetOps BY <1>2, <2>1 DEF KindInv, GetLabels
    <2>3. op[t].key \in Keys /\ op[t].kind = "get" /\ op[t] # NULL
        BY <2>2, StoreAssumption DEF GetOps
    <2>4. output' = [output EXCEPT ![t] = Lookup(op[t].key)]
        <3>1. ASSUME NEW i \in Matches(t) PROVE Lookup(op[t].key) = Chain(t)[i].data
            BY <1>1, <2>3, <3>1 DEF LookupFact, Matches, Chain, Bucket
        <3>2. ASSUME Matches(t) = {} PROVE Lookup(op[t].key) = NULL
            BY <1>1, <2>3, <3>2 DEF LookupFact, Matches, Chain, Bucket
        <3> QED BY <1>11, <3>1, <3>2 DEF GetWalk
    <2>5. ReplyOf(t) = NULL /\ ReplyOf(t)' = IF Lookup(op[t].key) = NULL
                                            THEN Map!NotFound
                                            ELSE Map!Found(Lookup(op[t].key))
        <3>1. output'[t] = Lookup(op[t].key) /\ pc'[t] = "get_unlock"
            BY <1>2, <2>1, <2>4
        <3> QED BY <1>1, <2>1, <3>1 DEF ReplyFact
    <2>6. Reply' = [Reply EXCEPT ![t] = IF Lookup(op[t].key) = NULL
                                        THEN Map!NotFound
                                        ELSE Map!Found(Lookup(op[t].key))]
        BY <1>2, <1>4, <2>1, <2>4, <2>5
    <2>7. Store[op[t].key] = Lookup(op[t].key) /\ Store' = Store /\ Reply[t] = NULL
        BY <1>3, <2>1, <2>3, <2>5 DEF Store, Reply
    <2> QED BY Zenon, <2>1, <2>3, <2>6, <2>7 DEF Map!Get, Store, Reply
<1>12. ASSUME NEW t \in Threads, PutUnlock(t) \/ GetReturn(t) PROVE Map!Return(t)
    <2>1. /\ pc[t] \in {"put_unlock", "get_return"} /\ pc' = [pc EXCEPT ![t] = "idle"]
          /\ op' = [op EXCEPT ![t] = NULL] /\ UNCHANGED buckets
          /\ \A u \in Threads \ {t} : output'[u] = output[u]
        BY <1>2, <1>12 DEF PutUnlock, GetReturn, Unlock
    <2>2. ReplyOf(t) # NULL /\ ReplyOf(t)' = NULL
        BY <1>1, <1>2, <2>1 DEF ReplyFact
    <2>3. Reply' = [Reply EXCEPT ![t] = NULL] BY <1>2, <1>4, <2>1, <2>2
    <2>4. Store' = Store /\ Reply[t] # NULL BY <1>3, <2>1, <2>2 DEF Reply
    <2> QED BY <2>1, <2>3, <2>4 DEF Map!Return, Store, Reply
<1>13. CASE UNCHANGED vars
    BY <1>13 DEF vars, Map!vars, Lookup, ReplyOf, ReturnedLength, Chain, Bucket
<1>14. CASE Next
    BY <1>7, <1>8, <1>9, <1>10, <1>11, <1>12, <1>14 DEF Next, Proceed, Map!Next
<1> QED BY <1>13, <1>14

(* The chains and mutexes of store.c implement the atomic, first-write-    *)
(* wins map of KvMap: no put or get is lost, torn or seen half done.       *)
THEOREM ImplementsMap == Spec => MapSpec
<1>1. IInv /\ IInv' /\ [Next]_vars => [Map!Next]_(Map!vars) BY MapStep
<1> QED BY <1>1, MapInit, Invariance, PTL DEF Spec, MapSpec, Map!Spec

------------------------------------------------------------------------------
(* sha1_mod_bucket, for every digest, every admissible bucket count and    *)
(* every width of a size_t of 16 bits or more.                             *)
LoopInv ==
    /\ hash \in [1..20 -> Char]
    /\ folded \in 0..20
    /\ result \in Nat
    /\ folded = 0 => result = 0
    /\ folded = 1 => result = (256 * 0 + hash[1]) % bucket_count
    /\ LastTwoDecide

(* What the chars before the last two contribute is a multiple of 65536.   *)
LEMMA Absorbed ==
    ASSUME NEW n \in {1, 2, 4, 8, 16, 32, 64, 128, 256, 512, 1024},
           NEW a \in Int, NEW b \in Int, NEW c \in Int
    PROVE  (((256 * a + b) % n) * 256 + c) % n = (256 * b + c) % n
<1>1. CASE n = 1 BY <1>1
<1>2. CASE n = 2 BY <1>2
<1>3. CASE n = 4 BY <1>3
<1>4. CASE n = 8 BY <1>4
<1>5. CASE n = 16 BY <1>5
<1>6. CASE n = 32 BY <1>6
<1>7. CASE n = 64 BY <1>7
<1>8. CASE n = 128 BY <1>8
<1>9. CASE n = 256 BY <1>9
<1>10. CASE n = 512 BY <1>10
<1>11. CASE n = 1024 BY <1>11
<1> QED BY <1>1, <1>2, <1>3, <1>4, <1>5, <1>6, <1>7, <1>8, <1>9, <1>10, <1>11

(* The bucket count divides the number of values of a size_t.              *)
LEMMA Divides == SIZE % bucket_count = 0
<1> DEFINE S == SIZE
<1>1. S \in Nat /\ S % 65536 = 0 BY HashAssumption
<1> HIDE DEF S
<1>2. ASSUME NEW n \in {1, 2, 4, 8, 16, 32, 64, 128, 256, 512, 1024}
      PROVE  S % n = 0
    BY <1>1
<1> QED BY <1>2, HashAssumption DEF S

(* A multiple of the divisor does not show in the remainder.               *)
LEMMA Shifted ==
    ASSUME NEW n \in {1, 2, 4, 8, 16, 32, 64, 128, 256, 512, 1024}, NEW x \in Int, NEW t \in Int
    PROVE  (x - n * t) % n = x % n
<1>1. CASE n = 1 BY <1>1
<1>2. CASE n = 2 BY <1>2
<1>3. CASE n = 4 BY <1>3
<1>4. CASE n = 8 BY <1>4
<1>5. CASE n = 16 BY <1>5
<1>6. CASE n = 32 BY <1>6
<1>7. CASE n = 64 BY <1>7
<1>8. CASE n = 128 BY <1>8
<1>9. CASE n = 256 BY <1>9
<1>10. CASE n = 512 BY <1>10
<1>11. CASE n = 1024 BY <1>11
<1> QED BY <1>1, <1>2, <1>3, <1>4, <1>5, <1>6, <1>7, <1>8, <1>9, <1>10, <1>11

(* A number and its size_t differ by a multiple of the bucket count.       *)
LEMMA Wrapped ==
    ASSUME NEW x \in Int
    PROVE  \E t \in Int : Unsigned(x) = x - bucket_count * t
<1> DEFINE n == bucket_count
           s == SIZE
           q == x \div s
<1>1. n \in Nat \ {0} /\ s \in Nat \ {0} /\ s % n = 0 BY Divides, HashAssumption
<1> HIDE DEF n, s
<1>2. PICK j \in Int : s = n * j BY <1>1
<1>3. q \in Int /\ x % s = x - s * q BY <1>1
<1> HIDE DEF q
<1>4. (n * j) * q = n * (j * q) BY <1>1, <1>2, <1>3
<1>5. j * q \in Int BY <1>2, <1>3
<1>6. x % s = x - n * (j * q) BY <1>2, <1>3, <1>4
<1> QED BY <1>5, <1>6 DEF Unsigned, n, s

(* An iteration computes as if numbers had no bound.                       *)
LEMMA MixIs ==
    ASSUME NEW r \in Nat, NEW c \in Int
    PROVE  Mix(r, c) = (r * 256 + c) % bucket_count
<1> DEFINE n == bucket_count
           x == r * 256
           y == Unsigned(x) + Unsigned(c)
<1>1. n \in {1, 2, 4, 8, 16, 32, 64, 128, 256, 512, 1024} BY HashAssumption
<1>2. x \in Int OBVIOUS
<1>3. Mix(r, c) = Unsigned(y) % n BY DEF Mix
<1> HIDE DEF n, x
<1>4. PICK t \in Int : Unsigned(x) = x - n * t BY <1>2, Wrapped DEF n
<1>5. PICK u \in Int : Unsigned(c) = c - n * u BY Wrapped DEF n
<1>6. n \in Int BY <1>1
<1>7. y \in Int BY <1>2, <1>4, <1>5, <1>6
<1>8. PICK v \in Int : Unsigned(y) = y - n * v BY <1>7, Wrapped DEF n
<1>9. Unsigned(y) = (x + c) - n * (t + u + v)
    <2> DEFINE a == Unsigned(x)
               b == Unsigned(c)
               d == Unsigned(y)
    <2>1. a = x - n * t /\ b = c - n * u /\ d = (a + b) - n * v BY <1>4, <1>5, <1>8
    <2> HIDE DEF a, b, d
    <2>2. d = (x + c) - n * (t + u + v) BY <2>1, <1>2, <1>6
    <2> QED BY <2>2 DEF d
<1>10. t + u + v \in Int /\ x + c \in Int BY <1>2
<1> HIDE DEF y
<1>11. ((x + c) - n * (t + u + v)) % n = (x + c) % n BY <1>1, <1>10, Shifted
<1> QED BY <1>3, <1>9, <1>11 DEF n, x

(* The invariant of the loop.                                              *)
LEMMA LoopInvariant == IndexSpec => []LoopInv
<1>1. IndexInit => LoopInv
    BY HashAssumption DEF IndexInit, LoopInv, LastTwoDecide
<1>2. LoopInv /\ [IndexStep]_indexVars => LoopInv'
    <2> SUFFICES ASSUME LoopInv, IndexStep PROVE LoopInv'
        BY DEF LoopInv, indexVars, LastTwoDecide
    <2>0. result' = (result * 256 + hash[folded + 1]) % bucket_count
        <3>1. result \in Nat /\ hash[folded + 1] \in Int BY DEF LoopInv, IndexStep, Char
        <3>2. result' = Mix(result, hash[folded + 1]) BY DEF IndexStep
        <3>3. Mix(result, hash[folded + 1]) = (result * 256 + hash[folded + 1]) % bucket_count
            <4> DEFINE r == result
                       c == hash[folded + 1]
            <4>1. r \in Nat /\ c \in Int BY <3>1
            <4> HIDE DEF r, c
            <4>2. Mix(r, c) = (r * 256 + c) % bucket_count BY <4>1, MixIs
            <4> QED BY Zenon, <4>2 DEF r, c
        <3> QED BY Zenon, <3>2, <3>3
    <2> USE DEF LoopInv, IndexStep
    <2>1. /\ folded \in Nat /\ folded < 20 /\ folded + 1 \in 1..20
          /\ hash[folded + 1] \in Int /\ result \in Int
          /\ folded' = folded + 1 /\ hash' = hash
        BY DEF Char
    <2>2. result' \in Nat
        <3> DEFINE s == result * 256 + hash[folded + 1]
        <3>1. bucket_count \in Nat /\ bucket_count > 0 BY HashAssumption
        <3>2. s \in Int BY <2>1
        <3>3. s % bucket_count \in Nat
            <4> HIDE DEF s
            <4> QED BY <3>1, <3>2
        <3> QED BY <2>0, <3>3
    <2>3. (folded = 1 => result = (256 * 0 + hash[1]) % bucket_count)'
        <3>1. CASE folded = 0
            <4>1. result = 0 BY <3>1
            <4>2. result' = hash[1] % bucket_count BY <4>1, <3>1, <2>0, <2>1
            <4>3. hash[1] = 256 * 0 + hash[1] BY <3>1, <2>1
            <4> QED BY <4>2, <4>3, <3>1, <2>1
        <3>2. CASE folded # 0 BY <3>2, <2>1
        <3> QED BY <3>1, <3>2
    <2>4. LastTwoDecide'
        <3>1. CASE folded = 0 BY <3>1, <2>1 DEF LastTwoDecide
        <3>2. CASE folded = 1
            <4>1. hash[1] \in Int /\ hash[2] \in Int BY DEF Char
            <4>2. result' = (256 * hash[1] + hash[2]) % bucket_count
                <5> DEFINE b == hash[1]
                           c == hash[2]
                <5>1. b \in Int /\ c \in Int BY <4>1
                <5>2. result = (256 * 0 + b) % bucket_count BY <3>2
                <5>3. result' = (result * 256 + c) % bucket_count BY <2>0, <3>2
                <5> HIDE DEF b, c, LoopInv, IndexStep
                <5>4. (((256 * 0 + b) % bucket_count) * 256 + c) % bucket_count
                         = (256 * b + c) % bucket_count
                    BY <5>1, Absorbed, HashAssumption
                <5>5. result' = (256 * b + c) % bucket_count
                    BY <5>2, <5>3, <5>4
                <5> QED BY <5>5 DEF b, c
            <4> QED BY <4>2, <3>2, <2>1 DEF LastTwoDecide
        <3>3. CASE folded >= 2
            <4>1. hash[folded - 1] \in Int /\ hash[folded] \in Int BY <3>3, <2>1 DEF Char
            <4>2. result = (256 * hash[folded - 1] + hash[folded]) % bucket_count
                BY <3>3 DEF LastTwoDecide
            <4>3. result' = (256 * hash[folded] + hash[folded + 1]) % bucket_count
                <5>1. result' = (result * 256 + hash[folded + 1]) % bucket_count BY <2>0
                <5> DEFINE a == hash[folded - 1]
                           b == hash[folded]
                           c == hash[folded + 1]
                <5>2. a \in Int /\ b \in Int /\ c \in Int BY <4>1, <2>1
                <5>3. result = (256 * a + b) % bucket_count BY <4>2
                <5>4. result' = (result * 256 + c) % bucket_count BY <5>1
                <5> HIDE DEF a, b, c, LoopInv, IndexStep
                <5>5. (((256 * a + b) % bucket_count) * 256 + c) % bucket_count
                         = (256 * b + c) % bucket_count
                    BY <5>2, Absorbed, HashAssumption
                <5>6. result' = (256 * b + c) % bucket_count
                    BY <5>3, <5>4, <5>5
                <5> QED BY <5>6 DEF b, c
            <4> QED BY <4>3, <3>3, <2>1 DEF LastTwoDecide
        <3> QED BY <3>1, <3>2, <3>3, <2>1
    <2> QED BY <2>1, <2>2, <2>3, <2>4
<1> QED BY <1>1, <1>2, PTL DEF IndexSpec

(* Only the last two chars of a hash decide its bucket.                  *)
THEOREM TwoCharsDecide == IndexSpec => []LastTwoDecide
<1>1. LoopInv => LastTwoDecide
    BY DEF LoopInv
<1> QED BY <1>1, LoopInvariant, PTL

==============================================================================
