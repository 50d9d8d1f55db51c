------------------------------- MODULE NodeLife --------------------------------
(***************************************************************************)
(* The life of node processes: main.c with node/node.c up to node_start,   *)
(* the identity that helpers/network.c keeps in node_id.bin, and the       *)
(* signal handler of core/signal.c.  Processes are started, crash at any   *)
(* point, get signals on any thread, and are started again in their        *)
(* directory.                                                              *)
(*                                                                         *)
(* The hash of a node is the SHA-1 of its id and stands for it.  Random    *)
(* ids never repeat: the n-th one that RAND_bytes makes is n.  The content *)
(* of node_id.bin is an id, or TORN when it has less than 20 bytes.        *)
(***************************************************************************)
EXTENDS Integers, Sequences, FiniteSets

CONSTANTS
    Nodes,
    Dir,            \* Dir[n]: the working directory of node n
    Junk,           \* what an array that was not initialised may hold
    NULL, TORN,
    SIGNALS,        \* how many signals main installs the handler for: 1..SIGNALS
    MAX_STARTS,     \* bound: how often a process is started
    MAX_SIGNALS,    \* bound: signals that reach the handler
    MAX_FAILURES    \* bound: calls of the system that fail

Dirs == {Dir[n] : n \in Nodes}
Threads == {"main", "worker"}

ASSUME LifeAssumption ==
    /\ SIGNALS \in Nat \ {0}
    /\ MAX_STARTS \in Nat /\ MAX_SIGNALS \in Nat /\ MAX_FAILURES \in Nat
    /\ Junk # {} /\ Junk \cap Nat = {} /\ NULL \notin Nat /\ TORN \notin Nat /\ NULL # TORN

VARIABLES
    pc,         \* pc[n]: what main does next
    disk,       \* disk[d]: node_id.bin in directory d; NULL if there is none
    id,         \* id[n]: the array node_id, then node->hash; NULL when not initialised
    state,      \* state[n]: global_state
    stack,      \* stack[n][t]: the handlers that thread t is in, the innermost last
    installed,  \* installed[n]: how many of the signals have the handler
    fresh,      \* how many ids RAND_bytes has made
    starts, signals, failures,      \* what the bounds are for
    failed,     \* history: whether a call of the system failed for the node
    served      \* history: the ids under which the node has served

bounds == <<starts, signals, failures>>
vars == <<pc, disk, id, state, stack, installed, fresh, bounds, failed, served>>

Init ==
    /\ pc = [n \in Nodes |-> "off"]
    /\ disk = [d \in Dirs |-> NULL]
    /\ id = [n \in Nodes |-> NULL]
    /\ state = [n \in Nodes |-> "RUNNING"]
    /\ stack = [n \in Nodes |-> [t \in Threads |-> <<>>]]
    /\ installed = [n \in Nodes |-> 0]
    /\ fresh = 0
    /\ starts = 0 /\ signals = 0 /\ failures = 0
    /\ failed = [n \in Nodes |-> FALSE]
    /\ served = [n \in Nodes |-> {}]

------------------------------------------------------------------------------
(* The process ends and a part of its memory is of the past.  exit()       *)
(* writes what the FILE of node_id.bin still buffers, a kill does not.     *)
End(n, flush) ==
    /\ pc' = [pc EXCEPT ![n] = "off"]
    /\ disk' = IF flush /\ pc[n] = "close" THEN [disk EXCEPT ![Dir[n]] = id[n]] ELSE disk
    /\ id' = [id EXCEPT ![n] = NULL]
    /\ state' = [state EXCEPT ![n] = "RUNNING"]
    /\ stack' = [stack EXCEPT ![n] = [t \in Threads |-> <<>>]]
    /\ installed' = [installed EXCEPT ![n] = 0]
    /\ UNCHANGED <<fresh, bounds, failed, served>>

Start(n) ==
    /\ pc[n] = "off" /\ starts < MAX_STARTS
    /\ pc' = [pc EXCEPT ![n] = "args"]
    /\ starts' = starts + 1
    /\ UNCHANGED <<disk, id, state, stack, installed, fresh, signals, failures, failed, served>>

Crash(n) == pc[n] # "off" /\ End(n, FALSE)

------------------------------------------------------------------------------
(* main, which stands still while one of its handlers runs *)

Main(n, from, to) ==
    /\ stack[n]["main"] = <<>>
    /\ pc[n] = from
    /\ pc' = [pc EXCEPT ![n] = to]
    /\ UNCHANGED <<state, stack, signals, starts>>

Fails(n) ==
    /\ failures < MAX_FAILURES
    /\ failures' = failures + 1
    /\ failed' = [failed EXCEPT ![n] = TRUE]

Succeeds == UNCHANGED <<failures, failed>>

(* process_args exits when there is no configuration (see module Config).  *)
ProcessArgs(n) ==
    \/ /\ Main(n, "args", "signals")
       /\ UNCHANGED <<disk, id, installed, fresh, served>> /\ Succeeds
    \/ pc[n] = "args" /\ End(n, TRUE)

(* signal(), once for each signal.                                         *)
InstallHandler(n) ==
    /\ Main(n, "signals", IF installed[n] + 1 = SIGNALS THEN "server" ELSE "signals")
    /\ installed' = [installed EXCEPT ![n] = @ + 1]
    /\ UNCHANGED <<disk, id, fresh, served>> /\ Succeeds

(* lookup_table_create, and node_new up to the id: the workers run now.    *)
NewServer(n) ==
    /\ Main(n, "server", "read")
    /\ UNCHANGED <<disk, id, installed, fresh, served>> /\ Succeeds

(* Seeded faults: a file that is too short is taken for an id, or no file  *)
(* is.                                                                     *)
AnyFile(content) == content # NULL
NoFile(content) == FALSE

(* fread got 20 bytes.                                                     *)
Complete(content) == content \notin {NULL, TORN}

(* load_or_generate_node_id: the id of a complete file is taken.  When the *)
(* file cannot be opened or read this is the same as if there were none.   *)
ReadId(n) ==
    /\ \/ /\ Complete(disk[Dir[n]])
          /\ Main(n, "read", "node")
          /\ id' \in {[id EXCEPT ![n] = i] :
                         i \in IF disk[Dir[n]] = TORN THEN Junk ELSE {disk[Dir[n]]}}
          /\ Succeeds
       \/ /\ ~Complete(disk[Dir[n]])
          /\ Main(n, "read", "generate")
          /\ UNCHANGED id /\ Succeeds
       \/ /\ Main(n, "read", "generate")
          /\ UNCHANGED id /\ Fails(n)
    /\ UNCHANGED <<disk, installed, fresh, served>>

(* RAND_bytes; if it fails the array keeps what it held, nothing is        *)
(* written, and node_new goes on.                                          *)
GenerateId(n) ==
    /\ \/ /\ Main(n, "generate", "open")
          /\ fresh' = fresh + 1
          /\ id' = [id EXCEPT ![n] = fresh + 1]
          /\ Succeeds
       \/ /\ Main(n, "generate", "node")
          /\ \E j \in Junk : id' = [id EXCEPT ![n] = j]
          /\ UNCHANGED fresh /\ Fails(n)
    /\ UNCHANGED <<disk, installed, served>>

(* fopen for writing empties the file; if it fails the id is not saved.    *)
OpenId(n) ==
    /\ \/ /\ Main(n, "open", "write")
          /\ disk' = [disk EXCEPT ![Dir[n]] = TORN]
          /\ Succeeds
       \/ /\ Main(n, "open", "node")
          /\ UNCHANGED disk /\ Fails(n)
    /\ UNCHANGED <<id, installed, fresh, served>>

(* fwrite fills the buffer of the FILE.                                    *)
WriteId(n) ==
    /\ Main(n, "write", "close")
    /\ UNCHANGED <<disk, id, installed, fresh, served>> /\ Succeeds

(* fclose writes the buffer; that this may fail is not looked at.          *)
CloseId(n) ==
    /\ Main(n, "close", "node")
    /\ \/ disk' = [disk EXCEPT ![Dir[n]] = id[n]] /\ Succeeds
       \/ UNCHANGED disk /\ Fails(n)
    /\ UNCHANGED <<id, installed, fresh, served>>

(* The rest of node_new, the handshake (module Handshake) and node_start.  *)
Serve(n) ==
    /\ Main(n, "node", "serve")
    /\ served' = [served EXCEPT ![n] = @ \cup {id[n]}]
    /\ UNCHANGED <<disk, id, installed, fresh>> /\ Succeeds

------------------------------------------------------------------------------
(* core/signal.c *)

HasWorkers(n) == pc[n] \notin {"off", "args", "signals", "server"}

(* The system delivers a signal to a thread that does not handle the same  *)
(* one: with its default action, which ends the process, or by the handler.*)
Signal(n, t, s) ==
    /\ pc[n] # "off" /\ signals < MAX_SIGNALS
    /\ t = "worker" => HasWorkers(n)
    /\ \A k \in 1..Len(stack[n][t]) : stack[n][t][k].sig # s
    /\ IF s > installed[n]
       THEN End(n, FALSE)
       ELSE /\ stack' = [stack EXCEPT ![n][t] = Append(@, [sig |-> s, at |-> "check"])]
            /\ signals' = signals + 1
            /\ UNCHANGED <<pc, disk, id, state, installed, fresh, starts, failures, failed, served>>

Top(n, t) == stack[n][t][Len(stack[n][t])]

InHandler(n, t, at) == stack[n][t] # <<>> /\ Top(n, t).at = at

HandlerGoto(n, t, at) ==
    stack' = [stack EXCEPT ![n][t][Len(stack[n][t])].at = at]

(* Seeded fault: a handler that finds the node stopping waits for it.      *)
StopsForGood(n, t) == stack

(* return: the interrupted code of the thread goes on.                     *)
Returned(n, t) == [stack EXCEPT ![n][t] = SubSeq(@, 1, Len(@) - 1)]

(* A signal that comes while another one is being handled is dropped.      *)
CheckState(n, t) ==
    /\ InHandler(n, t, "check")
    /\ IF state[n] = "STOPPING" THEN stack' = Returned(n, t) ELSE HandlerGoto(n, t, "set")
    /\ UNCHANGED <<pc, disk, id, state, installed, fresh, bounds, failed, served>>

SetState(n, t) ==
    /\ InHandler(n, t, "set")
    /\ state' = [state EXCEPT ![n] = "STOPPING"]
    /\ HandlerGoto(n, t, "sleep")
    /\ UNCHANGED <<pc, disk, id, installed, fresh, bounds, failed, served>>

(* The sleep is over: exit.                                                *)
Exit(n, t) == InHandler(n, t, "sleep") /\ End(n, TRUE)

------------------------------------------------------------------------------
MainStep(n) ==
    \/ ProcessArgs(n) \/ InstallHandler(n) \/ NewServer(n) \/ ReadId(n)
    \/ GenerateId(n) \/ OpenId(n) \/ WriteId(n) \/ CloseId(n) \/ Serve(n)

HandlerStep(n, t) == CheckState(n, t) \/ SetState(n, t) \/ Exit(n, t)

Next ==
    \E n \in Nodes :
        \/ Start(n) \/ Crash(n) \/ MainStep(n)
        \/ \E t \in Threads : HandlerStep(n, t)
        \/ \E t \in Threads, s \in 1..SIGNALS : Signal(n, t, s)

Spec == Init /\ [][Next]_vars

(* Threads run on, and sleep returns after a second.                       *)
FairSpec ==
    Spec /\ \A n \in Nodes : WF_vars(MainStep(n)) /\ \A t \in Threads : WF_vars(HandlerStep(n, t))

------------------------------------------------------------------------------
(* Properties *)

(* README.md, "Stability across restarts": as long as no call of the       *)
(* system fails, a node serves under one identity, the one in              *)
(* node_id.bin, wherever it was killed or told to stop before, also        *)
(* between the opening of the file and the write; and every further        *)
(* identity that it ever serves under takes another call that failed.      *)
StableIdentity ==
    \A n \in Nodes :
        /\ ~failed[n] => /\ \A i, j \in served[n] : i = j
                         /\ pc[n] = "serve" => disk[Dir[n]] = id[n]
        /\ Cardinality(served[n]) <= 1 + failures

(* A complete node_id.bin is never written again, by whatever sequence of  *)
(* kills and restarts, unless a call of the system failed.                 *)
SavedStays ==
    [][\A n \in Nodes : ~failed[n] /\ disk[Dir[n]] \in Nat => disk'[Dir[n]] = disk[Dir[n]]]_vars

(* README.md, "Global uniqueness": no two nodes ever serve under the same  *)
(* identity, unless there was none because RAND_bytes failed.              *)
UniqueIdentity ==
    \A m, n \in Nodes : m # n => served[m] \cap served[n] \subseteq Junk

(* A signal that reaches the handler, also one that is dropped because of  *)
(* another, is followed by the end of the process, whatever threads the    *)
(* two run on.                                                             *)
SignalStops ==
    \A n \in Nodes : (\E t \in Threads : stack[n][t] # <<>>) ~> pc[n] = "off"

==============================================================================
