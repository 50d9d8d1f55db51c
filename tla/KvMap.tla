--------------------------------- MODULE KvMap ---------------------------------
(***************************************************************************)
(* What the storage engine promises its callers: a map in which the first  *)
(* value put under a key stays, and in which every put and get takes       *)
(* effect at one instant between its call and its return.                  *)
(***************************************************************************)
EXTENDS Naturals, Sequences

CONSTANTS Threads, Keys, Values, NULL

VARIABLES
    store,      \* store[k]: the value under k, NULL when there is none
    op,         \* op[t]: the operation t has called, NULL when it has returned
    reply       \* reply[t]: what t's operation will return, NULL before it took effect

vars == <<store, op, reply>>

Ops == [kind : {"put"}, key : Keys, data : Values] \cup [kind : {"get"}, key : Keys]

(* What a get returns for a value: a copy of it and its length.            *)
Found(v) == [output |-> v, length |-> Len(v)]

NotFound == [output |-> NULL, length |-> 0]

(* A put returns nothing.                                                  *)
Void == [output |-> NULL, length |-> 0]

Init ==
    /\ store = [k \in Keys |-> NULL]
    /\ op = [t \in Threads |-> NULL]
    /\ reply = [t \in Threads |-> NULL]

Call(t, o) ==
    /\ op[t] = NULL
    /\ op' = [op EXCEPT ![t] = o]
    /\ UNCHANGED <<store, reply>>

Put(t) ==
    /\ op[t] # NULL /\ reply[t] = NULL
    /\ op[t].kind = "put"
    /\ store' = IF store[op[t].key] = NULL
                THEN [store EXCEPT ![op[t].key] = op[t].data]
                ELSE store
    /\ reply' = [reply EXCEPT ![t] = Void]
    /\ UNCHANGED op

Get(t) ==
    /\ op[t] # NULL /\ reply[t] = NULL
    /\ op[t].kind = "get"
    /\ reply' = [reply EXCEPT ![t] = IF store[op[t].key] = NULL
                                     THEN NotFound
                                     ELSE Found(store[op[t].key])]
    /\ UNCHANGED <<store, op>>

Return(t) ==
    /\ reply[t] # NULL
    /\ op' = [op EXCEPT ![t] = NULL]
    /\ reply' = [reply EXCEPT ![t] = NULL]
    /\ UNCHANGED store

Next ==
    \E t \in Threads :
        \/ \E o \in Ops : Call(t, o)
        \/ Put(t)
        \/ Get(t)
        \/ Return(t)

Spec == Init /\ [][Next]_vars

==============================================================================
