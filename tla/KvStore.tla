-------------------------------- MODULE KvStore --------------------------------
(***************************************************************************)
(* database/store.c: the hash table of a node.  Each bucket is a chain of  *)
(* entries with a mutex of its own.                                        *)
(*                                                                         *)
(* A key is represented by its SHA-1 digest, as in the code: kv_entry_t    *)
(* stores the digest only.  Module StoreHash models sha1_mod_bucket.  The  *)
(* steps are: taking the mutex of a bucket, walking its chain, linking a   *)
(* new entry behind the one where the walk ended, releasing the mutex, and *)
(* what kv_store_get reads after releasing it.                             *)
(***************************************************************************)
EXTENDS Naturals, Sequences, FiniteSets

CONSTANTS
    Threads,
    Keys,           \* the digests of the keys in use
    Values,         \* the data that is put: sequences
    Buckets,        \* the indexes of the table
    BucketOf,       \* BucketOf[k]: the bucket that sha1_mod_bucket gives to k
    NULL

(* The calls of kv_store_put and kv_store_get.                             *)
PutOps == [kind : {"put"}, key : Keys, data : Values]
GetOps == [kind : {"get"}, key : Keys]

Replies == [output : Values \cup {NULL}, length : Nat]

ASSUME StoreAssumption ==
    /\ BucketOf \in [Keys -> Buckets]
    /\ \A v \in Values : Len(v) \in Nat
    /\ NULL \notin Values \cup Threads \cup PutOps \cup GetOps \cup Replies

VARIABLES
    buckets,        \* buckets[b]: the chain of bucket b, [key, data] from the first
    bucket_locks,   \* bucket_locks[b]: the owner of the mutex, NULL when it is free
    op,             \* op[t]: the arguments of the call t is in, NULL outside
    pc,             \* where each thread is
    ent,            \* ent[t]: the entry at which t's walk ended, as an index of the
                    \* chain: node of kv_store_put, ent of kv_store_get
    output          \* output[t]: *output of kv_store_get

vars == <<buckets, bucket_locks, op, pc, ent, output>>

Bucket(t) == BucketOf[op[t].key]

Chain(t) == buckets[Bucket(t)]

(* Seeded fault: the walk stops before it compares the last entry.         *)
MatchesButLast(t) == {i \in 1..(Len(Chain(t)) - 1) : Chain(t)[i].key = op[t].key}

(* The positions of t's key in its chain.                                  *)
Matches(t) == {i \in 1..Len(Chain(t)) : Chain(t)[i].key = op[t].key}

(* kv_store_new.                                                           *)
Init ==
    /\ buckets = [b \in Buckets |-> <<>>]
    /\ bucket_locks = [b \in Buckets |-> NULL]
    /\ op = [t \in Threads |-> NULL]
    /\ pc = [t \in Threads |-> "idle"]
    /\ ent = [t \in Threads |-> 0]
    /\ output = [t \in Threads |-> NULL]

Goto(t, from, to) ==
    /\ pc[t] = from
    /\ pc' = [pc EXCEPT ![t] = to]

(* Seeded fault: the mutex is not taken.                                   *)
GoInUnlocked(t, from, to) ==
    /\ Goto(t, from, to)
    /\ UNCHANGED bucket_locks

Lock(t, from, to) ==
    /\ Goto(t, from, to)
    /\ bucket_locks[Bucket(t)] = NULL
    /\ bucket_locks' = [bucket_locks EXCEPT ![Bucket(t)] = t]

(* Seeded fault: the early return of an empty bucket keeps the lock.       *)
UnlockNonEmpty(t, from, to) ==
    /\ Goto(t, from, to)
    /\ bucket_locks' = [bucket_locks EXCEPT ![Bucket(t)] = IF Chain(t) = <<>> THEN @ ELSE NULL]

Unlock(t, from, to) ==
    /\ Goto(t, from, to)
    /\ bucket_locks' = [bucket_locks EXCEPT ![Bucket(t)] = NULL]

------------------------------------------------------------------------------
(* kv_store_put *)

PutCall(t, k, v) ==
    /\ Goto(t, "idle", "put_lock")
    /\ op' = [op EXCEPT ![t] = [kind |-> "put", key |-> k, data |-> v]]
    /\ UNCHANGED <<buckets, bucket_locks, ent, output>>

PutLock(t) ==
    /\ Lock(t, "put_lock", "put_walk")
    /\ UNCHANGED <<buckets, op, ent, output>>

(* A key that is there already is left alone; otherwise the walk ends at   *)
(* the last entry, 0 when the bucket is empty.                             *)
PutWalk(t) ==
    /\ pc[t] = "put_walk"
    /\ \/ /\ Matches(t) # {}
          /\ Goto(t, "put_walk", "put_unlock")
          /\ UNCHANGED ent
       \/ /\ Matches(t) = {}
          /\ Goto(t, "put_walk", "put_link")
          /\ ent' = [ent EXCEPT ![t] = Len(Chain(t))]
    /\ UNCHANGED <<buckets, bucket_locks, op, output>>

kv_entry_new(k, v) == [key |-> k, data |-> v]

(* Seeded fault: the new entry takes the place of the chain.               *)
LinkedAlone(t) == <<kv_entry_new(op[t].key, op[t].data)>>

(* node->next = entry, or the head of the bucket: whatever was linked      *)
(* behind the entry where the walk ended is no longer in the chain.        *)
Linked(t) == Append(SubSeq(Chain(t), 1, ent[t]), kv_entry_new(op[t].key, op[t].data))

PutLink(t) ==
    /\ Goto(t, "put_link", "put_unlock")
    /\ buckets' = [buckets EXCEPT ![Bucket(t)] = Linked(t)]
    /\ ent' = [ent EXCEPT ![t] = 0]
    /\ UNCHANGED <<bucket_locks, op, output>>

PutUnlock(t) ==
    /\ Unlock(t, "put_unlock", "idle")
    /\ op' = [op EXCEPT ![t] = NULL]
    /\ UNCHANGED <<buckets, ent, output>>

------------------------------------------------------------------------------
(* kv_store_get *)

GetCall(t, k) ==
    /\ Goto(t, "idle", "get_lock")
    /\ op' = [op EXCEPT ![t] = [kind |-> "get", key |-> k]]
    /\ UNCHANGED <<buckets, bucket_locks, ent, output>>

GetLock(t) ==
    /\ Lock(t, "get_lock", "get_walk")
    /\ UNCHANGED <<buckets, op, ent, output>>

(* The data of the first match is copied out; without one *output is NULL. *)
GetWalk(t) ==
    /\ Goto(t, "get_walk", "get_unlock")
    /\ \/ \E i \in Matches(t) :
             /\ \A j \in Matches(t) : i <= j
             /\ ent' = [ent EXCEPT ![t] = i]
             /\ output' = [output EXCEPT ![t] = Chain(t)[i].data]
       \/ /\ Matches(t) = {}
          /\ ent' = [ent EXCEPT ![t] = 0]
          /\ output' = [output EXCEPT ![t] = NULL]
    /\ UNCHANGED <<buckets, bucket_locks, op>>

GetUnlock(t) ==
    /\ Unlock(t, "get_unlock", "get_return")
    /\ UNCHANGED <<buckets, op, ent, output>>

(* Seeded fault: the length of the last entry of the chain.                *)
LengthOfLast(t) == IF ent[t] = 0 THEN 0 ELSE Len(Chain(t)[Len(Chain(t))].data)

(* return ent->data_length, read after the mutex was released; 0 without   *)
(* an entry.                                                               *)
ReturnedLength(t) == IF ent[t] = 0 THEN 0 ELSE Len(Chain(t)[ent[t]].data)

GetReturn(t) ==
    /\ Goto(t, "get_return", "idle")
    /\ op' = [op EXCEPT ![t] = NULL]
    /\ ent' = [ent EXCEPT ![t] = 0]
    /\ output' = [output EXCEPT ![t] = NULL]
    /\ UNCHANGED <<buckets, bucket_locks>>

------------------------------------------------------------------------------
Begin(t) ==
    \/ \E k \in Keys, v \in Values : PutCall(t, k, v)
    \/ \E k \in Keys : GetCall(t, k)

Proceed(t) ==
    \/ PutLock(t)
    \/ PutWalk(t)
    \/ PutLink(t)
    \/ PutUnlock(t)
    \/ GetLock(t)
    \/ GetWalk(t)
    \/ GetUnlock(t)
    \/ GetReturn(t)

Next == \E t \in Threads : Begin(t) \/ Proceed(t)

Spec == Init /\ [][Next]_vars

(* Threads that run are scheduled; the mutexes are not assumed to be fair. *)
FairSpec == Spec /\ \A t \in Threads : WF_vars(Proceed(t))

------------------------------------------------------------------------------
(* Properties *)

Labels == {"idle", "put_lock", "put_walk", "put_link", "put_unlock",
           "get_lock", "get_walk", "get_unlock", "get_return"}

(* A thread is in a call exactly while it has arguments, and the entry it  *)
(* has a pointer to is in the chain of its bucket.                         *)
TypeOK ==
    /\ buckets \in [Buckets -> Seq([key : Keys, data : Values])]
    /\ bucket_locks \in [Buckets -> Threads \cup {NULL}]
    /\ op \in [Threads -> PutOps \cup GetOps \cup {NULL}]
    /\ pc \in [Threads -> Labels]
    /\ ent \in [Threads -> Nat]
    /\ output \in [Threads -> Values \cup {NULL}]
    /\ \A t \in Threads :
          /\ op[t] = NULL <=> pc[t] = "idle"
          /\ op[t] # NULL => ent[t] <= Len(Chain(t))

(* A chain holds a key once, however many threads put it, and only keys of *)
(* its bucket.                                                             *)
ChainsSound ==
    \A b \in Buckets :
        /\ \A i, j \in 1..Len(buckets[b]) : buckets[b][i].key = buckets[b][j].key => i = j
        /\ \A i \in 1..Len(buckets[b]) : BucketOf[buckets[b][i].key] = b

(* An entry that is in a chain stays where it is, with the key and the     *)
(* data it was made with: nothing a thread linked is ever lost.            *)
ChainsOnlyGrow ==
    [][\A b \in Buckets : \A i \in 1..Len(buckets[b]) :
           i <= Len(buckets[b]') /\ buckets[b][i]' = buckets[b][i]]_vars

(* The length that kv_store_get returns is the length of the data it       *)
(* copied, although it reads it after releasing the mutex.                 *)
LengthFits ==
    \A t \in Threads :
        pc[t] \in {"get_unlock", "get_return"} =>
            ReturnedLength(t) = IF output[t] = NULL THEN 0 ELSE Len(output[t])

(* No operation leaves kv_store_put or kv_store_get with a mutex held.     *)
LocksReleased ==
    \A b \in Buckets, t \in Threads : bucket_locks[b] = t ~> bucket_locks[b] # t

(* The value under k, if there is one.                                     *)
Lookup(k) ==
    LET chain == buckets[BucketOf[k]]
        found == {i \in 1..Len(chain) : chain[i].key = k}
    IN  IF found = {} THEN NULL ELSE chain[CHOOSE i \in found : TRUE].data

(* What t's call will return, once it has taken effect.                    *)
ReplyOf(t) ==
    CASE pc[t] = "put_unlock" -> [output |-> NULL, length |-> 0]
      [] pc[t] \in {"get_unlock", "get_return"} ->
             [output |-> output[t], length |-> ReturnedLength(t)]
      [] OTHER -> NULL

Map == INSTANCE KvMap WITH
    store <- [k \in Keys |-> Lookup(k)],
    reply <- [t \in Threads |-> ReplyOf(t)]

(* The buckets implement the atomic map: puts and gets of all threads take *)
(* effect one at a time, while they hold the mutex of their bucket, and    *)
(* the first value put under a key stays.                                  *)
MapSpec == Map!Spec

==============================================================================
