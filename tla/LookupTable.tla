------------------------------ MODULE LookupTable ------------------------------
(***************************************************************************)
(* node/lookup_table.c: the table of known peers, a list of nodes newest   *)
(* first, a counter of its length, and one mutex around every operation.   *)
(*                                                                         *)
(* Nodes are heap cells, linked by pointers.  The loops over the list go   *)
(* one node per step, with the local variables that the code has, and      *)
(* lookup_table_find and find_by_hash hand out a pointer into a node that  *)
(* the caller reads after the mutex was released.  When no cell is left    *)
(* malloc returns NULL.  Calls with a NULL argument, which return at once, *)
(* are left out.                                                           *)
(***************************************************************************)
EXTENDS Integers, Sequences, SequencesExt, FiniteSets

CONSTANTS
    Threads,
    Cells,          \* heap cells for TableNode
    Hosts, Ports, Hashes,
    Stored,         \* Stored[h]: what is left of host h in MAX_HOST_LEN - 1 chars
    Kinds,          \* the operations that the threads call
    NULL

AllKinds == {"add", "remove", "remove_by_hash", "find", "find_by_hash",
             "size", "print", "serialize"}

Infos == [host : Hosts, port : Ports, hash : Hashes]

(* The calls, each with the arguments that it takes.                       *)
Calls ==
    [kind : Kinds \cap {"add"}, host : Hosts, port : Ports, hash : Hashes]
    \cup [kind : Kinds \cap {"remove", "find"}, host : Hosts, port : Ports]
    \cup [kind : Kinds \cap {"remove_by_hash", "find_by_hash"}, hash : Hashes]
    \cup [kind : Kinds \cap {"size", "print", "serialize"}]

ASSUME TableAssumption ==
    /\ Stored \in [Hosts -> Hosts]
    /\ \A h \in Hosts : Stored[Stored[h]] = Stored[h]
    /\ Kinds \subseteq AllKinds
    /\ NULL \notin Cells \cup Threads \cup Infos \cup Calls

VARIABLES
    head,           \* table->head
    next,           \* next[n]: the pointer in node n, NULL while the node is free
    info,           \* info[n]: the contents of node n, NULL while it is free
    size,           \* table->size
    mutex,          \* the owner of table->mutex, NULL when it is free
    pc,             \* where each thread is
    op,             \* op[t]: the arguments of the call t is in
    current, prev,  \* current[t], prev[t]: local variables of the loop t is in (add and
                    \* find have no prev, and nothing depends on it there)
    result,         \* result[t]: what it returns
    held,           \* held[t]: the node whose info t still reads
    list            \* history: the nodes that were added and not removed, newest first

table == <<head, next, info, size, list>>
vars == <<table, mutex, pc, op, current, prev, result, held>>

(* lookup_table_create.                                                    *)
Init ==
    /\ head = NULL
    /\ next = [n \in Cells |-> NULL]
    /\ list = <<>>
    /\ info = [n \in Cells |-> NULL]
    /\ size = 0
    /\ mutex = NULL
    /\ pc = [t \in Threads |-> "idle"]
    /\ op = [t \in Threads |-> NULL]
    /\ current = [t \in Threads |-> NULL]
    /\ prev = [t \in Threads |-> NULL]
    /\ result = [t \in Threads |-> NULL]
    /\ held = [t \in Threads |-> NULL]

Goto(t, from, to) ==
    /\ pc[t] = from
    /\ pc' = [pc EXCEPT ![t] = to]

(* The cells malloc has handed out and free has not taken back.            *)
Allocated == {n \in Cells : info[n] # NULL}

(* strcmp of the stored host with the caller's, and the ports.             *)
SameAddress(n, o) == info[n].host = o.host /\ info[n].port = o.port

SameHash(n, o) == info[n].hash = o.hash

(* A node matches the arguments of a call by its hash for the operations   *)
(* that take one, by its address for the others.                           *)
Match(n, o) ==
    IF o.kind \in {"remove_by_hash", "find_by_hash"} THEN SameHash(n, o)
                                                     ELSE SameAddress(n, o)

------------------------------------------------------------------------------
Call(t, o) ==
    /\ Goto(t, "idle", "lock")
    /\ op' = [op EXCEPT ![t] = o]
    /\ UNCHANGED <<table, mutex, current, prev, result, held>>

(* Seeded fault: the mutex is not waited for.                              *)
NoWait == TRUE

MutexFree == mutex = NULL

Looping == {"add", "remove", "remove_by_hash", "find", "find_by_hash"}

(* The operations that look for a node start at the head.                  *)
Lock(t) ==
    /\ pc[t] = "lock" /\ MutexFree
    /\ pc' = [pc EXCEPT ![t] = IF op[t].kind \in Looping THEN "loop" ELSE op[t].kind]
    /\ mutex' = t
    /\ current' = [current EXCEPT ![t] = IF op[t].kind \in Looping THEN head ELSE NULL]
    /\ UNCHANGED <<table, op, prev, result, held>>

Found(t) == current[t] # NULL /\ Match(current[t], op[t])

(* One turn of a loop that has not found its node yet.                     *)
Loop(t) ==
    /\ pc[t] = "loop" /\ current[t] # NULL /\ ~Found(t)
    /\ prev' = [prev EXCEPT ![t] = current[t]]
    /\ current' = [current EXCEPT ![t] = next[current[t]]]
    /\ UNCHANGED <<table, mutex, pc, op, result, held>>

(* The loop is over, with or without a node.                               *)
LoopEnds(t, kinds, to) ==
    /\ Goto(t, "loop", to)
    /\ op[t].kind \in kinds
    /\ Found(t) \/ current[t] = NULL
    /\ current' = [current EXCEPT ![t] = NULL]
    /\ prev' = [prev EXCEPT ![t] = NULL]
    /\ UNCHANGED <<mutex, op, held>>

(* An address that is there already is left alone (0).                     *)
TableAdd(t) ==
    /\ \/ /\ Found(t)
          /\ LoopEnds(t, {"add"}, "unlock")
          /\ result' = [result EXCEPT ![t] = 0]
       \/ /\ ~Found(t)
          /\ LoopEnds(t, {"add"}, "insert")
          /\ UNCHANGED result
    /\ UNCHANGED table

create_node(o) == [host |-> Stored[o.host], port |-> o.port, hash |-> o.hash]

(* A new node goes to the front (1), unless malloc fails (-1).             *)
TableInsert(t) ==
    /\ Goto(t, "insert", "unlock")
    /\ \/ /\ \E n \in Cells \ Allocated :
                /\ info' = [info EXCEPT ![n] = create_node(op[t])]
                /\ next' = [next EXCEPT ![n] = head]
                /\ head' = n
                /\ list' = <<n>> \o list
          /\ size' = size + 1
          /\ result' = [result EXCEPT ![t] = 1]
       \/ /\ Allocated = Cells
          /\ result' = [result EXCEPT ![t] = -1]
          /\ UNCHANGED table
    /\ UNCHANGED <<mutex, op, current, prev, held>>

(* Seeded fault: the node is taken for the head.                           *)
UnlinkHead(t) == head' = next[current[t]] /\ next' = [next EXCEPT ![current[t]] = NULL]

(* What pointed to the node now points to the next one; the node is freed. *)
Unlink(t) ==
    IF prev[t] # NULL
    THEN /\ next' = [next EXCEPT ![prev[t]] = next[current[t]], ![current[t]] = NULL]
         /\ UNCHANGED head
    ELSE /\ head' = next[current[t]]
         /\ next' = [next EXCEPT ![current[t]] = NULL]

Position(n) == CHOOSE i \in 1..Len(list) : list[i] = n

(* lookup_table_remove and remove_by_hash: the first match is unlinked and *)
(* freed (1), unless there is none (0).                                    *)
TableRemove(t) ==
    /\ LoopEnds(t, {"remove", "remove_by_hash"}, "unlock")
    /\ \/ /\ ~Found(t)
          /\ result' = [result EXCEPT ![t] = 0]
          /\ UNCHANGED table
       \/ /\ Found(t)
          /\ Unlink(t)
          /\ list' = RemoveAt(list, Position(current[t]))
          /\ info' = [info EXCEPT ![current[t]] = NULL]
          /\ size' = size - 1
          /\ result' = [result EXCEPT ![t] = 1]

(* lookup_table_find and find_by_hash: a pointer into the first match.     *)
TableFind(t) ==
    /\ LoopEnds(t, {"find", "find_by_hash"}, "unlock")
    /\ result' = [result EXCEPT ![t] = current[t]]
    /\ UNCHANGED table

(* lookup_table_size, and lookup_table_serialized_size, which is a         *)
(* function of it; lookup_table_print only reads.                          *)
TableSize(t) ==
    /\ pc[t] \in {"size", "print"}
    /\ Goto(t, pc[t], "unlock")
    /\ result' = [result EXCEPT ![t] = IF op[t].kind = "size" THEN size ELSE NULL]
    /\ UNCHANGED <<table, mutex, op, current, prev, held>>

(* lookup_table_serialize calls lookup_table_serialized_size, which locks  *)
(* the mutex that this thread holds.  What follows is reached only if that *)
(* call returns.                                                           *)
SerializeSize(t) ==
    /\ Goto(t, "serialize", "serialized_size")
    /\ UNCHANGED <<table, mutex, op, current, prev, result, held>>

(* Seeded fault: the early return of an address that exists already keeps  *)
(* the mutex.                                                              *)
KeptIfKnown(t) == IF op[t].kind = "add" /\ result[t] = 0 THEN mutex ELSE NULL

Unlocked(t) == NULL

Finding(t) == op[t] # NULL /\ op[t].kind \in {"find", "find_by_hash"}

(* Unlock and return; a caller of find goes on to read what it got.        *)
Unlock(t) ==
    /\ pc[t] = "unlock"
    /\ mutex' = Unlocked(t)
    /\ pc' = [pc EXCEPT ![t] = IF Finding(t) /\ result[t] # NULL THEN "read" ELSE "idle"]
    /\ held' = [held EXCEPT ![t] = IF Finding(t) THEN result[t] ELSE NULL]
    /\ op' = [op EXCEPT ![t] = NULL]
    /\ result' = [result EXCEPT ![t] = NULL]
    /\ UNCHANGED <<table, current, prev>>

(* The caller reads host, port or hash through the pointer.                *)
Read(t) ==
    /\ Goto(t, "read", "idle")
    /\ held' = [held EXCEPT ![t] = NULL]
    /\ UNCHANGED <<table, mutex, op, current, prev, result>>

------------------------------------------------------------------------------
Body(t) ==
    \/ Loop(t) \/ TableAdd(t) \/ TableInsert(t) \/ TableRemove(t)
    \/ TableFind(t) \/ TableSize(t) \/ SerializeSize(t)

Proceed(t) == Lock(t) \/ Body(t) \/ Unlock(t) \/ Read(t)

Next == \E t \in Threads : (\E o \in Calls : Call(t, o)) \/ Proceed(t)

Spec == Init /\ [][Next]_vars

(* Threads that run are scheduled; the mutex is not assumed to be fair.    *)
FairSpec == Spec /\ \A t \in Threads : WF_vars(Proceed(t))

------------------------------------------------------------------------------
(* Properties *)

Labels == {"idle", "lock", "loop", "insert", "size", "print", "serialize", "serialized_size",
           "unlock", "read"}

TypeOK ==
    /\ head \in Cells \cup {NULL}
    /\ next \in [Cells -> Cells \cup {NULL}]
    /\ list \in Seq(Cells)
    /\ info \in [Cells -> Infos \cup {NULL}]
    /\ size \in Nat
    /\ mutex \in Threads \cup {NULL}
    /\ pc \in [Threads -> Labels]
    /\ op \in [Threads -> Calls \cup {NULL}]
    /\ current \in [Threads -> Cells \cup {NULL}]
    /\ prev \in [Threads -> Cells \cup {NULL}]
    /\ result \in [Threads -> Cells \cup Int \cup {NULL}]
    /\ held \in [Threads -> Cells \cup {NULL}]

(* The i-th node of the list, NULL past its end.                           *)
Node(i) == IF i \in 1..Len(list) THEN list[i] ELSE NULL

(* The pointers lead from table->head through the nodes that were added    *)
(* and not removed, newest first, each once, and end with NULL; table->size*)
(* counts them; and the heap holds them and no others.  So remove takes    *)
(* out one node, at the head, inside or at the end, and frees it, and      *)
(* nothing that is still linked.                                           *)
TableSound ==
    /\ head = Node(1)
    /\ \A i \in 1..Len(list) : next[list[i]] = Node(i + 1)
    /\ \A i, j \in 1..Len(list) : list[i] = list[j] => i = j
    /\ size = Len(list)
    /\ Allocated = {n \in Cells : \E i \in 1..Len(list) : list[i] = n}

(* No two nodes of the table have the same address, however many threads   *)
(* add it ("Check if node already exists" in lookup_table_add).            *)
AddressesUnique ==
    \A i, j \in 1..Len(list) :
        info[list[i]].host = info[list[j]].host /\ info[list[i]].port = info[list[j]].port
            => i = j

(* Whoever takes the mutex gives it back, on every path through every      *)
(* operation except lookup_table_serialize.                                *)
MutexReleased ==
    \A t \in Threads :
        mutex = t /\ pc[t] \notin {"serialize", "serialized_size"} ~> mutex # t

(* lookup_table_serialize goes on to "Write number of nodes" and "Write    *)
(* each node", as its comments say, and returns.                           *)
SerializeReturns == \A t \in Threads : pc[t] = "serialize" ~> pc[t] = "idle"

(* lookup_table.h lists find among its "Thread-safe operations": what its  *)
(* caller reads through the returned pointer is still a node of the table. *)
FindStaysValid == \A t \in Threads : pc[t] = "read" => held[t] \in Allocated

==============================================================================
