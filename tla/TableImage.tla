------------------------------ MODULE TableImage -------------------------------
(***************************************************************************)
(* The serialized form of a lookup table (node/lookup_table.c): a count,   *)
(* then one record of fixed size per node, and lookup_table_deserialize,   *)
(* which builds a table from it.                                           *)
(*                                                                         *)
(* An image is what lookup_table_serialize writes once it has the size of  *)
(* the table (module LookupTable shows that it never gets that far), cut   *)
(* anywhere, or with a byte appended, which stands for any number of them. *)
(* The contents of the fields are left alone.  Counts are small enough for *)
(* the product with the record size not to wrap.  Any malloc may fail.     *)
(***************************************************************************)
EXTENDS Integers, Sequences, SequencesExt

CONSTANTS
    NodeInfos,      \* the node_info_t of nodes
    MaxNodes        \* bound: the number of nodes

SIZE_T == 8
RECORD == 70        \* MAX_HOST_LEN + sizeof(int) + HASH_SIZE

ASSUME ImageAssumption == MaxNodes \in Nat

VARIABLES
    nodes,          \* the list of the table that was serialized
    data_size,      \* the length of the data
    at,
    built,          \* the list of the table built so far, newest first
    offset,         \* the number of bytes read
    locked,         \* whether table->mutex is locked
    heap            \* how many blocks are allocated: the table and its nodes

imageVars == <<nodes, data_size, at, built, offset, locked, heap>>

serialized_size(s) == SIZE_T + Len(s) * RECORD

(* lookup_table_serialize walks the list from its head: the count is at    *)
(* the start and record i is the i-th node of the list.                    *)
node_count == Len(nodes)

RecordAt(o) == nodes[(o - SIZE_T) \div RECORD + 1]

ImageInit ==
    /\ nodes \in BoundedSeq(NodeInfos, MaxNodes)
    /\ data_size \in 0..(serialized_size(nodes) + 1)
    /\ at = "start"
    /\ built = <<>>
    /\ offset = 0
    /\ locked = FALSE
    /\ heap = 0

(* Too short for a count, or lookup_table_create fails; otherwise there is *)
(* an empty table and the count is read.                                   *)
Begin ==
    /\ at = "start"
    /\ \/ /\ at' = "null"
          /\ UNCHANGED <<offset, heap>>
       \/ /\ data_size >= SIZE_T
          /\ at' = "check"
          /\ offset' = SIZE_T
          /\ heap' = heap + 1
    /\ UNCHANGED <<nodes, data_size, built, locked>>

(* lookup_table_destroy takes the mutex, frees the nodes and the table.    *)
lookup_table_destroy ==
    /\ ~locked
    /\ heap' = heap - Len(built) - 1
    /\ built' = <<>>

(* Seeded fault: the size of the count is forgotten.                       *)
RecordsOnly == node_count * RECORD

(* The size that the count calls for.                                      *)
expected_size == SIZE_T + node_count * RECORD

Check ==
    /\ at = "check"
    /\ \/ /\ data_size < expected_size
          /\ lookup_table_destroy
          /\ at' = "null"
          /\ UNCHANGED locked
       \/ /\ data_size >= expected_size
          /\ locked' = TRUE
          /\ at' = "read"
          /\ UNCHANGED <<built, heap>>
    /\ UNCHANGED <<nodes, data_size, offset>>

(* Seeded fault: records are appended.                                     *)
AsLast(node) == Append(built, node)

(* node->next = table->head; table->head = node.                           *)
AsHead(node) == <<node>> \o built

(* One turn of the loop: a record becomes the new head of the list.        *)
ReadRecord ==
    /\ at = "read"
    /\ Len(built) < node_count
    /\ built' = AsHead(RecordAt(offset))
    /\ offset' = offset + RECORD
    /\ heap' = heap + 1
    /\ UNCHANGED <<nodes, data_size, at, locked>>

(* Seeded faults: only the mutex is released, or the table is destroyed    *)
(* with its mutex still locked.                                            *)
ReturnAtOnce == "null"
StillLocked == locked

AfterFail == "destroy"

Released == FALSE

(* The record is read, but create_node fails: the mutex is released, and   *)
(* the table destroyed.                                                    *)
Fail ==
    /\ at = "read"
    /\ Len(built) < node_count
    /\ offset' = offset + RECORD
    /\ locked' = Released
    /\ at' = AfterFail
    /\ UNCHANGED <<nodes, data_size, built, heap>>

Destroy ==
    /\ at = "destroy"
    /\ lookup_table_destroy
    /\ at' = "null"
    /\ UNCHANGED <<nodes, data_size, offset, locked>>

Done ==
    /\ at = "read"
    /\ Len(built) = node_count
    /\ locked' = FALSE
    /\ at' = "table"
    /\ UNCHANGED <<nodes, data_size, built, offset, heap>>

ImageNext == Begin \/ Check \/ ReadRecord \/ Fail \/ Destroy \/ Done

ImageSpec == ImageInit /\ [][ImageNext]_imageVars

(* The caller's thread runs on.                                            *)
ImageFairSpec == ImageSpec /\ WF_imageVars(ImageNext)

------------------------------------------------------------------------------
(* Properties *)

(* Wherever the data was cut, lookup_table_deserialize reads nothing past  *)
(* its end.                                                                *)
ReadsInside == offset <= data_size

(* A call that returns NULL, for whatever reason and after however many    *)
(* records, leaves no block behind and no mutex locked; a table that is    *)
(* returned is one block and one per node, with its mutex free.            *)
NothingLeaks ==
    /\ at = "null" => heap = 0
    /\ at = "table" => heap = Len(built) + 1
    /\ at \in {"null", "table"} => ~locked

(* All or nothing: the table that is returned has every node that was      *)
(* serialized.  Each is put in front of the ones before it, so the order   *)
(* of the list is reversed.                                                *)
ComesBackReversed == at = "table" => built = Reverse(nodes)

(* The call returns: lookup_table_destroy, which locks the mutex, is never *)
(* called by the thread that holds it.                                     *)
Returns == <>(at \in {"null", "table"})

==============================================================================
