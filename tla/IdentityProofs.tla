---------------------------- MODULE IdentityProofs ----------------------------
(***************************************************************************)
(* Proofs about the identity of a node: about NodeLife, where an id is     *)
(* made, saved and read again, for any number of nodes, each in a          *)
(* directory of its own, and any number of starts, kills, signals and      *)
(* failures; and about Sha1, by which an id becomes the hash of the node,  *)
(* for every message.                                                      *)
(***************************************************************************)
EXTENDS NodeLife, Sha1, FiniteSetTheorems, WellFoundedInduction, TLAPS

------------------------------------------------------------------------------
(* NodeLife *)

(* Each node is started in a directory of its own.                         *)
OwnDirectory == \A m, n \in Nodes : Dir[m] = Dir[n] => m = n

Places == {"off", "args", "signals", "server", "read", "generate", "open", "write", "close",
           "node", "serve"}

TypeInv ==
    /\ pc \in [Nodes -> Places]
    /\ disk \in [Dirs -> Nat \cup {NULL, TORN}]
    /\ id \in [Nodes -> Nat \cup Junk \cup {NULL}]
    /\ failed \in [Nodes -> BOOLEAN]
    /\ served \in [Nodes -> SUBSET (Nat \cup Junk)]
    /\ fresh \in Nat
    /\ \A n \in Nodes : pc[n] \in {"open", "write", "close"} => id[n] \in Nat
    /\ \A n \in Nodes : pc[n] \in {"node", "serve"} => id[n] \in Nat \cup Junk

(* As long as no call failed, node_id.bin is incomplete while an id is     *)
(* generated and saved, and from then on holds the only id of the node.    *)
SavedInv(n) ==
    /\ pc[n] \in {"generate", "open"} => disk[Dir[n]] \in {NULL, TORN}
    /\ pc[n] \in {"write", "close"} => disk[Dir[n]] = TORN
    /\ pc[n] \in {"node", "serve"} => disk[Dir[n]] = id[n] /\ id[n] \in Nat
    /\ \A i \in served[n] : i \in Nat /\ disk[Dir[n]] = i

(* The ids that RAND_bytes made for a node.                                *)
Owned(n) == ({disk[Dir[n]], id[n]} \cup served[n]) \cap Nat

FreshInv ==
    /\ \A n \in Nodes : Owned(n) \subseteq 1..fresh
    /\ \A m, n \in Nodes : m # n => Owned(m) \cap Owned(n) = {}

IInv == TypeInv /\ (\A n \in Nodes : ~failed[n] => SavedInv(n)) /\ FreshInv

(* No node runs yet and no id is on disk.                                  *)
LEMMA IInvInit == Init => IInv
  <1> SUFFICES ASSUME Init PROVE IInv
    OBVIOUS
  <1>1. /\ \A n \in Nodes : Dir[n] \in Dirs
        /\ \A n \in Nodes : pc[n] = "off" /\ disk[Dir[n]] = NULL /\ id[n] = NULL /\ served[n] = {}
    BY DEF Init, Dirs
  <1>2. TypeInv
    BY DEF Init, TypeInv, Places
  <1>3. \A n \in Nodes : SavedInv(n)
    BY <1>1 DEF SavedInv
  <1>4. \A n \in Nodes : Owned(n) = {}
    BY <1>1, LifeAssumption DEF Owned
  <1> QED
    BY <1>2, <1>3, <1>4 DEF IInv, FreshInv

(* What a step of node n leaves alone: all that concerns other nodes.      *)
Others(n) ==
    \A m \in Nodes \ {n} :
        pc'[m] = pc[m] /\ id'[m] = id[m] /\ failed'[m] = failed[m] /\ served'[m] = served[m]

(* A step of one node that keeps the types and its own part of the         *)
(* invariant, and that takes no id but its own and the newest.             *)
LEMMA LocalStep ==
    ASSUME OwnDirectory, IInv, NEW n \in Nodes, TypeInv', Others(n),
           \A d \in Dirs : d # Dir[n] => disk'[d] = disk[d],
           ~failed'[n] => SavedInv(n)',
           \/ fresh' = fresh /\ Owned(n)' \subseteq Owned(n)
           \/ fresh' = fresh + 1 /\ Owned(n)' \subseteq Owned(n) \cup {fresh + 1}
    PROVE  IInv'
  <1>1. \A m \in Nodes : m # n => disk'[Dir[m]] = disk[Dir[m]]
    BY DEF OwnDirectory, Dirs
  <1>2. \A m \in Nodes : m # n => Owned(m)' = Owned(m)
    BY <1>1 DEF Owned, Others
  <1>3. \A m \in Nodes : m # n => (SavedInv(m)' <=> SavedInv(m)) /\ failed'[m] = failed[m]
    BY <1>1 DEF SavedInv, Others
  <1>4. \A m \in Nodes : ~failed'[m] => SavedInv(m)'
    BY <1>3 DEF IInv
  <1>5. fresh \in Nat /\ fresh' \in Nat /\ fresh <= fresh' /\ fresh + 1 \notin 1..fresh
    BY DEF IInv, TypeInv
  <1>6. \A m \in Nodes : Owned(m) \subseteq 1..fresh
    BY DEF IInv, FreshInv
  <1>7. \A m \in Nodes : Owned(m)' \subseteq 1..fresh'
    BY <1>2, <1>5, <1>6
  <1>8. \A m \in Nodes : m # n => Owned(m) \cap Owned(n)' = {}
    BY <1>5, <1>6 DEF IInv, FreshInv
  <1>9. \A l, m \in Nodes : l # m => Owned(l)' \cap Owned(m)' = {}
    BY <1>2, <1>8 DEF IInv, FreshInv
  <1> QED
    BY <1>4, <1>7, <1>9 DEF IInv, FreshInv

(* The process ends.  exit() may complete the file that main has opened.   *)
LEMMA EndStep ==
    ASSUME OwnDirectory, IInv, NEW n \in Nodes, NEW flush \in BOOLEAN, End(n, flush)
    PROVE  IInv'
  <1>1. /\ pc' = [pc EXCEPT ![n] = "off"] /\ id' = [id EXCEPT ![n] = NULL]
        /\ \/ disk' = disk
           \/ disk' = [disk EXCEPT ![Dir[n]] = id[n]] /\ pc[n] = "close"
        /\ UNCHANGED <<fresh, failed, served>>
    BY DEF End
  <1>2. TypeInv /\ Dir[n] \in Dirs
    BY DEF IInv, Dirs
  <1>3. pc'[n] = "off" /\ id'[n] = NULL /\ Others(n)
    BY <1>1, <1>2 DEF TypeInv, Others
  <1>4. /\ disk' \in [Dirs -> Nat \cup {NULL, TORN}]
        /\ \A d \in Dirs : d # Dir[n] => disk'[d] = disk[d]
        /\ disk'[Dir[n]] \in {disk[Dir[n]], id[n]}
    BY <1>1, <1>2 DEF TypeInv
  <1>5. /\ pc' \in [Nodes -> Places] /\ id' \in [Nodes -> Nat \cup Junk \cup {NULL}]
        /\ \A m \in Nodes : pc'[m] # "off" => pc'[m] = pc[m] /\ id'[m] = id[m]
    BY <1>1, <1>2 DEF TypeInv, Places
  <1>6. TypeInv'
    BY <1>1, <1>2, <1>4, <1>5 DEF TypeInv
  <1>7. Owned(n)' \subseteq Owned(n)
    BY <1>1, <1>3, <1>4, LifeAssumption DEF Owned
  <1>8. ASSUME ~failed'[n] PROVE SavedInv(n)'
    <2>1. SavedInv(n) /\ served'[n] = served[n]
      BY <1>1, <1>8 DEF IInv
    <2>2. CASE disk' = disk
      BY <1>3, <2>1, <2>2 DEF SavedInv
    <2>3. CASE pc[n] = "close"
      <3>1. served[n] = {}
        BY <2>1, <2>3, LifeAssumption DEF SavedInv
      <3> QED
        BY <1>3, <2>1, <3>1 DEF SavedInv
    <2> QED
      BY <1>1, <2>2, <2>3
  <1> QED
    BY <1>1, <1>3, <1>4, <1>6, <1>7, <1>8, LocalStep

(* Steps that leave alone what the invariant is about.                     *)
LEMMA Elsewhere ==
    ASSUME IInv, UNCHANGED <<pc, disk, id, fresh, failed, served>>
    PROVE  IInv'
  <1>1. TypeInv'
    BY DEF IInv, TypeInv
  <1>2. \A n \in Nodes : ~failed'[n] => SavedInv(n)'
    BY DEF IInv, SavedInv
  <1>3. FreshInv'
    BY DEF IInv, FreshInv, Owned
  <1> QED
    BY <1>1, <1>2, <1>3 DEF IInv

(* main moves on, before it has come to the id.                            *)
LEMMA EarlyStep ==
    ASSUME OwnDirectory, IInv, NEW n \in Nodes,
           NEW to \in {"args", "signals", "server", "read"},
           pc' = [pc EXCEPT ![n] = to],
           UNCHANGED <<disk, id, fresh, failed, served>>
    PROVE  IInv'
  <1>1. TypeInv /\ pc'[n] = to /\ Others(n) /\ pc' \in [Nodes -> Places]
    BY DEF IInv, TypeInv, Others, Places
  <1>2. \A m \in Nodes : pc'[m] # to => pc'[m] = pc[m]
    BY <1>1 DEF TypeInv
  <1>3. TypeInv'
    BY <1>1, <1>2 DEF TypeInv
  <1>4. ~failed'[n] => SavedInv(n)'
    BY <1>1 DEF IInv, SavedInv
  <1>5. Owned(n)' \subseteq Owned(n)
    BY DEF Owned
  <1> QED
    BY <1>1, <1>3, <1>4, <1>5, LocalStep

(* A node that failed once is out of the reach of SavedInv.                *)
LEMMA FailsStays ==
    ASSUME IInv, NEW n \in Nodes, Fails(n) \/ Succeeds
    PROVE  /\ failed' \in [Nodes -> BOOLEAN]
           /\ \A m \in Nodes : m # n => failed'[m] = failed[m]
           /\ ~failed'[n] => Succeeds /\ ~failed[n]
  BY Zenon DEF IInv, TypeInv, Fails, Succeeds

(* A complete file is read, and anything else leads to a new id.           *)
LEMMA ReadStep ==
    ASSUME OwnDirectory, IInv, NEW n \in Nodes, ReadId(n)
    PROVE  IInv'
  <1> DEFINE D == disk[Dir[n]]
  <1>0. /\ TypeInv /\ D \in Nat \cup {NULL, TORN}
        /\ ~failed[n] => SavedInv(n)
    BY DEF IInv, TypeInv, Dirs
  <1>1. /\ \/ /\ D \in Nat /\ pc' = [pc EXCEPT ![n] = "node"]
              /\ id' = [id EXCEPT ![n] = D] /\ Succeeds
           \/ /\ D \notin Nat /\ pc' = [pc EXCEPT ![n] = "generate"]
              /\ id' = id /\ Succeeds
           \/ pc' = [pc EXCEPT ![n] = "generate"] /\ id' = id /\ Fails(n)
        /\ UNCHANGED <<disk, fresh, served>>
    <2>1. UNCHANGED <<disk, fresh, served>>
      BY DEF ReadId
    <2>2. ASSUME Complete(D), Main(n, "read", "node"), Succeeds,
                 id' \in {[id EXCEPT ![n] = i] : i \in IF D = TORN THEN Junk ELSE {D}}
          PROVE  /\ D \in Nat /\ pc' = [pc EXCEPT ![n] = "node"]
                 /\ id' = [id EXCEPT ![n] = D] /\ Succeeds
      <3>1. D \in Nat /\ D # TORN
        BY <1>0, <2>2 DEF Complete
      <3> QED
        BY <2>2, <3>1 DEF Main
    <2>3. ASSUME ~Complete(D), Main(n, "read", "generate")
          PROVE  D \notin Nat /\ pc' = [pc EXCEPT ![n] = "generate"]
      BY <1>0, <2>3, LifeAssumption DEF Complete, Main
    <2>4. ASSUME Main(n, "read", "generate") PROVE pc' = [pc EXCEPT ![n] = "generate"]
      BY <2>4 DEF Main
    <2> QED
      BY <2>1, <2>2, <2>3, <2>4 DEF ReadId
  <1>2. /\ failed' \in [Nodes -> BOOLEAN]
        /\ \A m \in Nodes : m # n => failed'[m] = failed[m]
        /\ ~failed'[n] => Succeeds /\ ~failed[n]
    BY <1>1, FailsStays
  <1> HIDE DEF D
  <1>3. /\ Others(n)
        /\ \/ D \in Nat /\ pc'[n] = "node" /\ id'[n] = D
           \/ pc'[n] = "generate" /\ id'[n] = id[n]
        /\ pc' \in [Nodes -> Places] /\ id' \in [Nodes -> Nat \cup Junk \cup {NULL}]
    BY <1>0, <1>1, <1>2 DEF TypeInv, Others, Places
  <1>4. TypeInv'
    BY <1>0, <1>1, <1>2, <1>3 DEF TypeInv, Others
  <1>5. ASSUME ~failed'[n] PROVE SavedInv(n)'
    <2>1. \/ D \in Nat /\ pc'[n] = "node" /\ id'[n] = D
          \/ D \in {NULL, TORN} /\ pc'[n] = "generate"
      <3>1. ~Fails(n)
        BY <1>0, <1>5 DEF TypeInv, Fails
      <3>2. pc \in [Nodes -> Places] /\ id \in [Nodes -> Nat \cup Junk \cup {NULL}]
        BY <1>0 DEF TypeInv
      <3>3. CASE D \in Nat /\ pc' = [pc EXCEPT ![n] = "node"] /\ id' = [id EXCEPT ![n] = D]
        BY <3>2, <3>3
      <3>4. CASE D \notin Nat /\ pc' = [pc EXCEPT ![n] = "generate"]
        BY <1>0, <3>2, <3>4
      <3> QED
        BY <1>1, <3>1, <3>3, <3>4
    <2> QED
      BY <1>0, <1>1, <1>2, <1>5, <2>1 DEF SavedInv, D
  <1>6. Owned(n)' \subseteq Owned(n)
    BY <1>1, <1>3 DEF Owned, D
  <1> QED
    BY <1>1, <1>3, <1>4, <1>5, <1>6, LocalStep

(* A new id is the newest, or there is none because RAND_bytes failed.     *)
LEMMA GenerateStep ==
    ASSUME OwnDirectory, IInv, NEW n \in Nodes, GenerateId(n)
    PROVE  IInv'
  <1>0. TypeInv /\ (~failed[n] => SavedInv(n)) /\ Dir[n] \in Dirs /\ fresh \in Nat
    BY DEF IInv, TypeInv, Dirs
  <1>1. /\ pc[n] = "generate" /\ UNCHANGED <<disk, served>>
        /\ \/ /\ pc' = [pc EXCEPT ![n] = "open"] /\ fresh' = fresh + 1
              /\ id' = [id EXCEPT ![n] = fresh + 1] /\ Succeeds
           \/ /\ pc' = [pc EXCEPT ![n] = "node"] /\ fresh' = fresh
              /\ (\E j \in Junk : id' = [id EXCEPT ![n] = j]) /\ Fails(n)
    BY DEF GenerateId, Main
  <1>2. /\ failed' \in [Nodes -> BOOLEAN]
        /\ \A m \in Nodes : m # n => failed'[m] = failed[m]
        /\ ~failed'[n] => Succeeds /\ ~failed[n]
    BY <1>1, FailsStays
  <1>3. pc \in [Nodes -> Places] /\ id \in [Nodes -> Nat \cup Junk \cup {NULL}]
    BY <1>0 DEF TypeInv
  <1>4. /\ \/ pc'[n] = "open" /\ id'[n] = fresh + 1 /\ fresh' = fresh + 1
           \/ pc'[n] = "node" /\ id'[n] \in Junk /\ fresh' = fresh /\ Fails(n)
        /\ \A m \in Nodes : m # n => pc'[m] = pc[m] /\ id'[m] = id[m]
        /\ pc' \in [Nodes -> Places] /\ id' \in [Nodes -> Nat \cup Junk \cup {NULL}]
    BY <1>0, <1>1, <1>3 DEF Places
  <1>5. Others(n)
    BY <1>1, <1>2, <1>4 DEF Others
  <1>6. TypeInv'
    BY <1>0, <1>1, <1>2, <1>4 DEF TypeInv
  <1>7. ASSUME ~failed'[n] PROVE SavedInv(n)'
    <2>1. ~Fails(n)
      BY <1>0, <1>7 DEF TypeInv, Fails
    <2>2. pc'[n] = "open"
      BY <1>4, <2>1
    <2>3. SavedInv(n)
      BY <1>0, <1>2, <1>7
    <2> QED
      BY <1>1, <2>2, <2>3 DEF SavedInv
  <1>8. \/ fresh' = fresh /\ Owned(n)' \subseteq Owned(n)
        \/ fresh' = fresh + 1 /\ Owned(n)' \subseteq Owned(n) \cup {fresh + 1}
    <2>1. CASE id'[n] = fresh + 1 /\ fresh' = fresh + 1
      BY <1>1, <2>1 DEF Owned
    <2>2. CASE id'[n] \in Junk /\ fresh' = fresh
      <3>1. id'[n] \notin Nat
        BY <2>2, LifeAssumption
      <3> QED
        BY <1>1, <2>2, <3>1 DEF Owned
    <2> QED
      BY <1>4, <2>1, <2>2
  <1> QED
    BY <1>1, <1>5, <1>6, <1>7, <1>8, LocalStep

(* The file is emptied, filled and closed, or one of these fails.          *)
LEMMA SaveStep ==
    ASSUME OwnDirectory, IInv, NEW n \in Nodes, OpenId(n) \/ WriteId(n) \/ CloseId(n)
    PROVE  IInv'
  <1>0. TypeInv /\ (~failed[n] => SavedInv(n)) /\ Dir[n] \in Dirs
    BY DEF IInv, Dirs
  <1>1. /\ UNCHANGED <<id, fresh, served>> /\ id[n] \in Nat
        /\ \/ /\ pc[n] = "open" /\ pc' = [pc EXCEPT ![n] = "write"]
              /\ disk' = [disk EXCEPT ![Dir[n]] = TORN] /\ Succeeds
           \/ /\ pc[n] = "write" /\ pc' = [pc EXCEPT ![n] = "close"]
              /\ disk' = disk /\ Succeeds
           \/ /\ pc[n] = "close" /\ pc' = [pc EXCEPT ![n] = "node"]
              /\ disk' = [disk EXCEPT ![Dir[n]] = id[n]] /\ Succeeds
           \/ pc' = [pc EXCEPT ![n] = "node"] /\ disk' = disk /\ Fails(n)
    BY <1>0 DEF OpenId, WriteId, CloseId, Main, TypeInv
  <1>2. /\ failed' \in [Nodes -> BOOLEAN]
        /\ \A m \in Nodes : m # n => failed'[m] = failed[m]
        /\ ~failed'[n] => Succeeds /\ ~failed[n]
    BY <1>1, FailsStays
  <1>3. pc \in [Nodes -> Places] /\ disk \in [Dirs -> Nat \cup {NULL, TORN}]
    BY <1>0 DEF TypeInv
  <1>4. /\ \/ pc[n] = "open" /\ pc'[n] = "write" /\ disk'[Dir[n]] = TORN
           \/ pc[n] = "write" /\ pc'[n] = "close" /\ disk'[Dir[n]] = disk[Dir[n]]
           \/ pc[n] = "close" /\ pc'[n] = "node" /\ disk'[Dir[n]] = id[n]
           \/ pc'[n] = "node" /\ disk'[Dir[n]] = disk[Dir[n]] /\ Fails(n)
        /\ \A m \in Nodes : m # n => pc'[m] = pc[m]
        /\ \A d \in Dirs : d # Dir[n] => disk'[d] = disk[d]
        /\ pc' \in [Nodes -> Places] /\ disk' \in [Dirs -> Nat \cup {NULL, TORN}]
    BY <1>0, <1>1, <1>3 DEF Places
  <1>5. Others(n)
    BY <1>1, <1>2, <1>4 DEF Others
  <1>6. TypeInv'
    BY <1>0, <1>1, <1>2, <1>4 DEF TypeInv
  <1>7. ASSUME ~failed'[n] PROVE SavedInv(n)'
    <2>1. ~Fails(n)
      BY <1>0, <1>7 DEF TypeInv, Fails
    <2>2. SavedInv(n)
      BY <1>0, <1>2, <1>7
    <2>3. served[n] = {}
      BY <1>4, <2>1, <2>2, LifeAssumption DEF SavedInv
    <2> QED
      BY <1>1, <1>4, <2>1, <2>2, <2>3 DEF SavedInv
  <1>8. Owned(n)' \subseteq Owned(n)
    <2>1. disk'[Dir[n]] \in {TORN, disk[Dir[n]], id[n]}
      BY <1>4
    <2> QED
      BY <1>1, <2>1, LifeAssumption DEF Owned
  <1> QED
    BY <1>1, <1>4, <1>5, <1>6, <1>7, <1>8, LocalStep

(* The node serves under its id.                                           *)
LEMMA ServeStep ==
    ASSUME OwnDirectory, IInv, NEW n \in Nodes, Serve(n)
    PROVE  IInv'
  <1>0. TypeInv /\ (~failed[n] => SavedInv(n))
    BY DEF IInv
  <1>1. /\ pc[n] = "node" /\ pc' = [pc EXCEPT ![n] = "serve"]
        /\ served' = [served EXCEPT ![n] = @ \cup {id[n]}]
        /\ UNCHANGED <<disk, id, fresh, failed>>
    BY DEF Serve, Main, Succeeds
  <1>2. /\ pc'[n] = "serve" /\ served'[n] = served[n] \cup {id[n]} /\ Others(n)
        /\ \A m \in Nodes : m # n => pc'[m] = pc[m] /\ served'[m] = served[m]
        /\ pc' \in [Nodes -> Places] /\ id[n] \in Nat \cup Junk
    BY <1>0, <1>1 DEF TypeInv, Others, Places
  <1>3. served' \in [Nodes -> SUBSET (Nat \cup Junk)]
    BY <1>0, <1>1, <1>2 DEF TypeInv
  <1>4. TypeInv'
    BY <1>0, <1>1, <1>2, <1>3 DEF TypeInv
  <1>5. ~failed'[n] => SavedInv(n)'
    BY <1>0, <1>1, <1>2 DEF SavedInv
  <1>6. Owned(n)' \subseteq Owned(n)
    BY <1>1, <1>2 DEF Owned
  <1> QED
    BY <1>1, <1>2, <1>4, <1>5, <1>6, LocalStep

(* Every step preserves the invariant.                                     *)
LEMMA IInvNext == ASSUME OwnDirectory PROVE IInv /\ [Next]_vars => IInv'
  <1> SUFFICES ASSUME IInv, [Next]_vars PROVE IInv'
    OBVIOUS
  <1>1. CASE UNCHANGED vars
    BY <1>1, Elsewhere DEF vars
  <1>2. ASSUME NEW n \in Nodes, Start(n) PROVE IInv'
    BY Zenon, <1>2, EarlyStep DEF Start
  <1>3. ASSUME NEW n \in Nodes, Crash(n) PROVE IInv'
    BY Zenon, <1>3, EndStep DEF Crash
  <1>4. ASSUME NEW n \in Nodes, ProcessArgs(n) PROVE IInv'
    <2>1. CASE pc[n] = "args" /\ End(n, TRUE)
      BY Zenon, <2>1, EndStep
    <2>2. CASE Main(n, "args", "signals") /\ UNCHANGED <<disk, id, fresh, served>> /\ Succeeds
      BY Zenon, <2>2, EarlyStep DEF Main, Succeeds
    <2> QED
      BY Zenon, <1>4, <2>1, <2>2 DEF ProcessArgs
  <1>5. ASSUME NEW n \in Nodes, InstallHandler(n) PROVE IInv'
    <2>1. \/ pc' = [pc EXCEPT ![n] = "server"]
          \/ pc' = [pc EXCEPT ![n] = "signals"]
      BY Zenon, <1>5 DEF InstallHandler, Main
    <2>2. UNCHANGED <<disk, id, fresh, failed, served>>
      BY <1>5 DEF InstallHandler, Succeeds
    <2> QED
      BY <2>1, <2>2, EarlyStep
  <1>6. ASSUME NEW n \in Nodes, NewServer(n) PROVE IInv'
    BY Zenon, <1>6, EarlyStep DEF NewServer, Main, Succeeds
  <1>7. ASSUME NEW n \in Nodes, ReadId(n) \/ GenerateId(n) \/ OpenId(n) \/ WriteId(n)
                                  \/ CloseId(n) \/ Serve(n)
        PROVE  IInv'
    BY <1>7, ReadStep, GenerateStep, SaveStep, ServeStep
  <1>8. ASSUME NEW n \in Nodes, NEW t \in Threads, HandlerStep(n, t) PROVE IInv'
    <2>1. CASE End(n, TRUE)
      BY Zenon, <2>1, EndStep
    <2>2. CASE UNCHANGED <<pc, disk, id, fresh, failed, served>>
      BY <2>2, Elsewhere
    <2> QED
      BY Zenon, <1>8, <2>1, <2>2 DEF HandlerStep, CheckState, SetState, Exit
  <1>9. ASSUME NEW n \in Nodes, NEW t \in Threads, NEW s \in 1..SIGNALS, Signal(n, t, s)
        PROVE  IInv'
    <2>1. CASE End(n, FALSE)
      BY Zenon, <2>1, EndStep
    <2>2. CASE UNCHANGED <<pc, disk, id, fresh, failed, served>>
      BY <2>2, Elsewhere
    <2> QED
      BY Zenon, <1>9, <2>1, <2>2 DEF Signal
  <1> QED
    BY <1>1, <1>2, <1>3, <1>4, <1>5, <1>6, <1>7, <1>8, <1>9 DEF Next, MainStep

------------------------------------------------------------------------------
(* How many identities a node serves under, when calls of the system fail. *)

Saving == {"generate", "open", "write", "close"}
Using == {"node", "serve"}

(* The identities that the node has served under or may still serve under  *)
(* without another one being made.                                         *)
Known(n) ==
    served[n] \cup ({disk[Dir[n]]} \cap Nat) \cup (IF pc[n] \in Using THEN {id[n]} ELSE {})

(* One identity, and one more for every call that failed; the last of them *)
(* is still to come while an id is generated, and while none is on disk or *)
(* another than the one in use.                                            *)
Expected(n) ==
    \/ pc[n] \in Saving \/ disk[Dir[n]] \notin Nat
    \/ pc[n] \in Using /\ disk[Dir[n]] # id[n]

Room(n) == IF Expected(n) THEN failures ELSE 1 + failures

CountInv ==
    /\ failures \in Nat
    /\ \A n \in Nodes : IsFiniteSet(Known(n)) /\ Cardinality(Known(n)) <= Room(n)

(* What a step of node n leaves alone.                                     *)
Apart(n) ==
    \A m \in Nodes : m # n => /\ pc'[m] = pc[m] /\ id'[m] = id[m] /\ served'[m] = served[m]
                              /\ disk'[Dir[m]] = disk[Dir[m]]

(* The values of Room, before and after a step.                            *)
LEMMA RoomIs ==
    ASSUME NEW n \in Nodes
    PROVE  /\ Expected(n) => Room(n) = failures
           /\ ~Expected(n) => Room(n) = 1 + failures
           /\ Expected(n)' => Room(n)' = failures'
           /\ ~Expected(n)' => Room(n)' = 1 + failures'
  <1>1. Expected(n) => Room(n) = failures
    BY Zenon DEF Room
  <1>2. ~Expected(n) => Room(n) = 1 + failures
    BY Zenon DEF Room
  <1>3. Expected(n)' => Room(n)' = failures'
    BY Zenon DEF Room
  <1>4. ~Expected(n)' => Room(n)' = 1 + failures'
    BY Zenon DEF Room
  <1> QED
    BY Zenon, <1>1, <1>2, <1>3, <1>4

(* A step that leads to no further identity, or to one that there is room  *)
(* for, keeps the count.                                                   *)
LEMMA Grown ==
    ASSUME CountInv, NEW n \in Nodes, Apart(n), failures' \in {failures, failures + 1}, NEW x,
           \/ Known(n)' \subseteq Known(n) /\ Room(n)' >= Room(n)
           \/ Known(n)' \subseteq Known(n) \cup {x} /\ Room(n)' >= Room(n) + 1
    PROVE  CountInv'
  <1>1. failures \in Nat /\ failures' \in Nat /\ failures' >= failures
    BY DEF CountInv
  <1>2. \A m \in Nodes : Room(m) \in Nat /\ Room(m)' \in Nat
    <2> SUFFICES ASSUME NEW m \in Nodes PROVE Room(m) \in Nat /\ Room(m)' \in Nat
      OBVIOUS
    <2>1. Room(m) \in {failures, 1 + failures} /\ Room(m)' \in {failures', 1 + failures'}
      BY Zenon, RoomIs
    <2> QED
      BY <1>1, <2>1
  <1>3. ASSUME NEW m \in Nodes, m # n
        PROVE  IsFiniteSet(Known(m)') /\ Cardinality(Known(m)') <= Room(m)'
    <2>1. Known(m)' = Known(m)
      BY <1>3 DEF Apart, Known
    <2>2. Room(m)' >= Room(m)
      <3>1. Expected(m)' <=> Expected(m)
        BY Zenon, <1>3 DEF Apart, Expected
      <3> QED
        BY <1>1, <1>3, <3>1, RoomIs
    <2>3. /\ IsFiniteSet(Known(m)) /\ Cardinality(Known(m)) <= Room(m)
          /\ Cardinality(Known(m)) \in Nat
      BY FS_CardinalityType DEF CountInv
    <2>4. Cardinality(Known(m)) <= Room(m)'
      BY <1>2, <2>2, <2>3
    <2> QED
      BY Zenon, <2>1, <2>3, <2>4
  <1>4. IsFiniteSet(Known(n)') /\ Cardinality(Known(n)') <= Room(n)'
    <2>1. /\ IsFiniteSet(Known(n)) /\ Cardinality(Known(n)) <= Room(n)
          /\ Cardinality(Known(n)) \in Nat
      BY FS_CardinalityType DEF CountInv
    <2>2. CASE Known(n)' \subseteq Known(n) /\ Room(n)' >= Room(n)
      <3>1. /\ IsFiniteSet(Known(n)') /\ Cardinality(Known(n)') <= Cardinality(Known(n))
            /\ Cardinality(Known(n)') \in Nat
        BY Zenon, <2>1, <2>2, FS_Subset, FS_CardinalityType
      <3> HIDE DEF Known, Room
      <3> QED
        BY <1>2, <2>1, <2>2, <3>1
    <2>3. CASE Known(n)' \subseteq Known(n) \cup {x} /\ Room(n)' >= Room(n) + 1
      <3> DEFINE More == Known(n) \cup {x}
      <3>1. IsFiniteSet(More) /\ Cardinality(More) \in {Cardinality(Known(n)), Cardinality(Known(n)) + 1}
        BY <2>1, FS_AddElement
      <3>2. /\ IsFiniteSet(Known(n)') /\ Cardinality(Known(n)') <= Cardinality(More)
            /\ Cardinality(Known(n)') \in Nat
        BY Zenon, <2>3, <3>1, FS_Subset, FS_CardinalityType
      <3> HIDE DEF More, Known, Room
      <3> QED
        BY <1>2, <2>1, <2>3, <3>1, <3>2
    <2> QED
      BY <2>2, <2>3
  <1> QED
    BY Zenon, <1>1, <1>3, <1>4 DEF CountInv

(* The steps, as far as the count depends on them.                         *)
Quiet(n) ==
    /\ pc'[n] \notin Saving \cup Using /\ disk'[Dir[n]] = disk[Dir[n]]
    /\ served'[n] = served[n] /\ failures' = failures

Reads(n) ==
    /\ pc[n] = "read" /\ disk'[Dir[n]] = disk[Dir[n]] /\ served'[n] = served[n]
    /\ \/ disk[Dir[n]] \in Nat /\ pc'[n] = "node" /\ id'[n] = disk[Dir[n]] /\ failures' = failures
       \/ disk[Dir[n]] \notin Nat /\ pc'[n] = "generate" /\ failures' = failures
       \/ pc'[n] = "generate" /\ failures' = failures + 1

Saves(n) ==
    /\ pc[n] \in Saving /\ served'[n] = served[n]
    /\ \/ pc'[n] \in Saving /\ disk'[Dir[n]] \in {disk[Dir[n]], TORN} /\ failures' = failures
       \/ pc'[n] = "off" /\ disk'[Dir[n]] = id[n] /\ id[n] \in Nat /\ failures' = failures
       \/ /\ pc'[n] = "node" /\ disk'[Dir[n]] = id[n] /\ id[n] \in Nat /\ id'[n] = id[n]
          /\ failures' = failures
       \/ pc'[n] = "node" /\ disk'[Dir[n]] = disk[Dir[n]] /\ failures' = failures + 1

Serves(n) ==
    /\ pc[n] = "node" /\ pc'[n] = "serve" /\ disk'[Dir[n]] = disk[Dir[n]] /\ id'[n] = id[n]
    /\ served'[n] = served[n] \cup {id[n]} /\ failures' = failures

(* Each of them makes at most one more identity known, and then there is   *)
(* more room.                                                              *)
LEMMA CountStep ==
    ASSUME CountInv, NEW n \in Nodes, Apart(n),
           Quiet(n) \/ Reads(n) \/ Saves(n) \/ Serves(n)
    PROVE  CountInv'
  <1>0. failures \in Nat /\ failures' \in {failures, failures + 1} /\ TORN \notin Nat
    BY LifeAssumption DEF CountInv, Quiet, Reads, Saves, Serves
  <1>1. CASE Quiet(n)
    <2>1. Known(n)' \subseteq Known(n)
      BY <1>1 DEF Quiet, Known, Saving, Using
    <2>2. Room(n)' >= Room(n)
      BY <1>0, <1>1 DEF Quiet, Room, Expected, Saving, Using
    <2> QED
      BY Zenon, <1>0, <2>1, <2>2, Grown
  <1>2. CASE Reads(n)
    <2>1. Known(n)' \subseteq Known(n)
      BY <1>2 DEF Reads, Known, Using
    <2>2. \/ (Expected(n) <=> Expected(n)') /\ failures' = failures
          \/ failures' = failures + 1
      BY <1>2 DEF Reads, Expected, Saving, Using
    <2>3. Room(n)' >= Room(n)
      BY <1>0, <2>2, RoomIs
    <2> QED
      BY Zenon, <1>0, <2>1, <2>3, Grown
  <1>3. CASE Saves(n) /\ pc'[n] \in Saving
    <2>1. Known(n)' \subseteq Known(n)
      BY <1>0, <1>3 DEF Saves, Known, Saving, Using
    <2>2. Room(n)' >= Room(n)
      BY <1>0, <1>3 DEF Saves, Room, Expected, Saving, Using
    <2> QED
      BY Zenon, <1>0, <2>1, <2>2, Grown
  <1>4. CASE Saves(n) /\ pc'[n] = "off"
    <2>1. Known(n)' \subseteq Known(n) \cup {id[n]}
      BY <1>4 DEF Saves, Known, Saving, Using
    <2>2. Room(n)' >= Room(n) + 1
      <3>1. Expected(n) /\ ~Expected(n)' /\ failures' = failures
        BY <1>4 DEF Saves, Expected, Saving, Using
      <3> QED
        BY <1>0, <3>1, RoomIs
    <2> QED
      BY Zenon, <1>0, <2>1, <2>2, Grown
  <1>5. CASE Saves(n) /\ pc'[n] = "node"
    <2>1. Known(n)' \subseteq Known(n) \cup {id'[n]}
      BY <1>5 DEF Saves, Known, Saving, Using
    <2>2. Room(n)' >= Room(n) + 1
      <3>1. /\ Expected(n)
            /\ (~Expected(n)' /\ failures' = failures) \/ failures' = failures + 1
        BY <1>5 DEF Saves, Expected, Saving, Using
      <3> QED
        BY <1>0, <3>1, RoomIs
    <2> QED
      BY Zenon, <1>0, <2>1, <2>2, Grown
  <1>6. CASE Serves(n)
    <2>1. Known(n)' \subseteq Known(n)
      BY <1>6 DEF Serves, Known, Using
    <2>2. Room(n)' >= Room(n)
      BY <1>0, <1>6 DEF Serves, Room, Expected, Saving, Using
    <2> QED
      BY Zenon, <1>0, <2>1, <2>2, Grown
  <1> QED
    BY Zenon, <1>1, <1>2, <1>3, <1>4, <1>5, <1>6 DEF Saves

(* The end of a process is one of these steps.                             *)
LEMMA EndCounts ==
    ASSUME OwnDirectory, IInv, NEW n \in Nodes, NEW flush \in BOOLEAN, End(n, flush)
    PROVE  Apart(n) /\ (Quiet(n) \/ Saves(n))
  <1>1. /\ pc' = [pc EXCEPT ![n] = "off"] /\ id' = [id EXCEPT ![n] = NULL]
        /\ \/ disk' = disk
           \/ disk' = [disk EXCEPT ![Dir[n]] = id[n]] /\ pc[n] = "close"
        /\ UNCHANGED <<failures, served>>
    BY DEF End, bounds
  <1>2. /\ pc \in [Nodes -> Places] /\ disk \in [Dirs -> Nat \cup {NULL, TORN}]
        /\ id \in [Nodes -> Nat \cup Junk \cup {NULL}] /\ (pc[n] = "close" => id[n] \in Nat)
        /\ \A m \in Nodes : Dir[m] \in Dirs
    BY DEF IInv, TypeInv, Dirs
  <1>3. Apart(n)
    BY <1>1, <1>2 DEF Apart, OwnDirectory
  <1>4. CASE disk' = disk
    BY <1>1, <1>2, <1>3, <1>4 DEF Quiet, Saving, Using
  <1>5. CASE disk' = [disk EXCEPT ![Dir[n]] = id[n]] /\ pc[n] = "close"
    BY <1>1, <1>2, <1>3, <1>5 DEF Saves, Saving
  <1> QED
    BY <1>1, <1>4, <1>5

(* A step of main is one of these steps, too.                              *)
LEMMA MainCounts ==
    ASSUME OwnDirectory, IInv, NEW n \in Nodes, Start(n) \/ MainStep(n)
    PROVE  Apart(n) /\ (Quiet(n) \/ Reads(n) \/ Saves(n) \/ Serves(n))
  <1> DEFINE D == disk[Dir[n]]
  <1>0. /\ pc \in [Nodes -> Places] /\ disk \in [Dirs -> Nat \cup {NULL, TORN}]
        /\ id \in [Nodes -> Nat \cup Junk \cup {NULL}]
        /\ served \in [Nodes -> SUBSET (Nat \cup Junk)]
        /\ (pc[n] \in {"open", "write", "close"} => id[n] \in Nat)
        /\ \A m \in Nodes : Dir[m] \in Dirs
        /\ NULL \notin Nat /\ TORN \notin Nat
    BY LifeAssumption DEF IInv, TypeInv, Dirs
  <1>1. ASSUME NEW to \in {"args", "signals", "server", "read"}, pc' = [pc EXCEPT ![n] = to],
               UNCHANGED <<disk, id, served, failures>>
        PROVE  Apart(n) /\ Quiet(n)
    BY <1>0, <1>1 DEF Apart, Quiet, Saving, Using
  <1>2. CASE Start(n)
    BY Zenon, <1>1, <1>2 DEF Start
  <1>3. CASE ProcessArgs(n)
    <2>1. CASE End(n, TRUE)
      BY Zenon, <2>1, EndCounts
    <2>2. CASE Main(n, "args", "signals") /\ UNCHANGED <<disk, id, served>> /\ Succeeds
      BY Zenon, <1>1, <2>2 DEF Main, Succeeds
    <2> QED
      BY Zenon, <1>3, <2>1, <2>2 DEF ProcessArgs
  <1>4. CASE InstallHandler(n)
    <2>1. \/ pc' = [pc EXCEPT ![n] = "server"]
          \/ pc' = [pc EXCEPT ![n] = "signals"]
      BY Zenon, <1>4 DEF InstallHandler, Main
    <2>2. UNCHANGED <<disk, id, served, failures>>
      BY <1>4 DEF InstallHandler, Succeeds
    <2> QED
      BY <1>1, <2>1, <2>2
  <1>5. CASE NewServer(n)
    BY Zenon, <1>1, <1>5 DEF NewServer, Main, Succeeds
  <1>6. CASE ReadId(n)
    <2>1. /\ pc[n] = "read" /\ UNCHANGED <<disk, served>>
          /\ \/ /\ D \in Nat /\ pc' = [pc EXCEPT ![n] = "node"]
                /\ id' = [id EXCEPT ![n] = D] /\ failures' = failures
             \/ /\ D \notin Nat /\ pc' = [pc EXCEPT ![n] = "generate"]
                /\ id' = id /\ failures' = failures
             \/ pc' = [pc EXCEPT ![n] = "generate"] /\ id' = id /\ failures' = failures + 1
      <3>1. D \in Nat \cup {NULL, TORN}
        BY <1>0
      <3>2. Complete(D) <=> D \in Nat
        BY <1>0, <3>1 DEF Complete
      <3>3. D \in Nat => (IF D = TORN THEN Junk ELSE {D}) = {D}
        BY <1>0
      <3> HIDE DEF D
      <3>4. CASE /\ Complete(D) /\ Main(n, "read", "node") /\ Succeeds
                 /\ id' \in {[id EXCEPT ![n] = i] : i \in IF D = TORN THEN Junk ELSE {D}}
                 /\ UNCHANGED <<disk, served>>
        <4>1. id' = [id EXCEPT ![n] = D]
          BY <3>2, <3>3, <3>4
        <4> QED
          BY <3>2, <3>4, <4>1 DEF Main, Succeeds
      <3>5. CASE /\ ~Complete(D) /\ Main(n, "read", "generate") /\ UNCHANGED id /\ Succeeds
                 /\ UNCHANGED <<disk, served>>
        BY <3>2, <3>5 DEF Main, Succeeds
      <3>6. CASE Main(n, "read", "generate") /\ UNCHANGED id /\ Fails(n) /\ UNCHANGED <<disk, served>>
        BY <3>6 DEF Main, Fails
      <3> QED
        BY Zenon, <1>6, <3>4, <3>5, <3>6 DEF ReadId, D
    <2>2. Apart(n)
      BY <1>0, <2>1 DEF Apart
    <2>3. Reads(n)
      BY <1>0, <2>1 DEF Reads
    <2> QED
      BY <2>2, <2>3
  <1>7. CASE GenerateId(n)
    <2>1. /\ pc[n] = "generate" /\ UNCHANGED <<disk, served>>
          /\ \/ pc' = [pc EXCEPT ![n] = "open"] /\ failures' = failures
             \/ pc' = [pc EXCEPT ![n] = "node"] /\ failures' = failures + 1
          /\ \E i : id' = [id EXCEPT ![n] = i]
      BY Zenon, <1>7 DEF GenerateId, Main, Succeeds, Fails
    <2>2. Apart(n)
      BY <1>0, <2>1 DEF Apart
    <2>3. Saves(n)
      BY <1>0, <2>1 DEF Saves, Saving
    <2> QED
      BY <2>2, <2>3
  <1>8. CASE OpenId(n) \/ WriteId(n) \/ CloseId(n)
    <2>1. /\ pc[n] \in {"open", "write", "close"} /\ UNCHANGED <<id, served>>
          /\ \/ /\ pc' = [pc EXCEPT ![n] = "write"] /\ disk' = [disk EXCEPT ![Dir[n]] = TORN]
                /\ failures' = failures
             \/ pc' = [pc EXCEPT ![n] = "close"] /\ disk' = disk /\ failures' = failures
             \/ /\ pc' = [pc EXCEPT ![n] = "node"] /\ disk' = [disk EXCEPT ![Dir[n]] = id[n]]
                /\ failures' = failures
             \/ pc' = [pc EXCEPT ![n] = "node"] /\ disk' = disk /\ failures' = failures + 1
      BY <1>8 DEF OpenId, WriteId, CloseId, Main, Succeeds, Fails
    <2>2. Apart(n)
      BY <1>0, <2>1 DEF Apart, OwnDirectory
    <2>3. Saves(n)
      BY <1>0, <2>1 DEF Saves, Saving
    <2> QED
      BY <2>2, <2>3
  <1>9. CASE Serve(n)
    BY <1>0, <1>9 DEF Serve, Main, Succeeds, Apart, Serves
  <1> QED
    BY Zenon, <1>2, <1>3, <1>4, <1>5, <1>6, <1>7, <1>8, <1>9 DEF MainStep

(* The count holds throughout.                                             *)
LEMMA CountNext == ASSUME OwnDirectory PROVE IInv /\ CountInv /\ [Next]_vars => CountInv'
  <1> SUFFICES ASSUME IInv, CountInv, [Next]_vars PROVE CountInv'
    OBVIOUS
  <1>1. ASSUME UNCHANGED <<pc, disk, id, served, failures>> PROVE CountInv'
    BY <1>1 DEF CountInv, Known, Room, Expected
  <1>2. ASSUME NEW n \in Nodes, NEW flush \in BOOLEAN, End(n, flush) PROVE CountInv'
    BY Zenon, <1>2, EndCounts, CountStep
  <1>3. ASSUME NEW n \in Nodes, Start(n) \/ MainStep(n) PROVE CountInv'
    BY Zenon, <1>3, MainCounts, CountStep
  <1>4. CASE UNCHANGED vars
    BY <1>1, <1>4 DEF vars, bounds
  <1>5. ASSUME NEW n \in Nodes, NEW t \in Threads, HandlerStep(n, t) PROVE CountInv'
    <2>1. End(n, TRUE) \/ UNCHANGED <<pc, disk, id, served, failures>>
      BY Zenon, <1>5 DEF HandlerStep, CheckState, SetState, Exit, bounds
    <2> QED
      BY Zenon, <1>1, <1>2, <2>1
  <1>6. ASSUME NEW n \in Nodes, NEW t \in Threads, NEW k \in 1..SIGNALS, Signal(n, t, k)
        PROVE  CountInv'
    <2>1. End(n, FALSE) \/ UNCHANGED <<pc, disk, id, served, failures>>
      BY Zenon, <1>6 DEF Signal
    <2> QED
      BY Zenon, <1>1, <1>2, <2>1
  <1>7. ASSUME NEW n \in Nodes, Crash(n) PROVE CountInv'
    BY Zenon, <1>2, <1>7 DEF Crash
  <1> QED
    BY Zenon, <1>3, <1>4, <1>5, <1>6, <1>7 DEF Next

------------------------------------------------------------------------------
(* A node in a directory of its own serves under one identity for ever,    *)
(* however often it is killed or told to stop and wherever that happens,   *)
(* unless a call of the system fails, and f calls that fail lead to at     *)
(* most f further identities.                                              *)
THEOREM IdentityStable == ASSUME OwnDirectory PROVE Spec => []StableIdentity
  <1>1. Init => CountInv
    <2> SUFFICES ASSUME Init PROVE CountInv
      OBVIOUS
    <2>1. /\ failures = 0
          /\ \A n \in Nodes : pc[n] = "off" /\ disk[Dir[n]] = NULL /\ served[n] = {}
      BY DEF Init, Dirs
    <2>2. \A n \in Nodes : Known(n) = {} /\ Room(n) = 0
      BY <2>1, LifeAssumption DEF Known, Room, Expected, Using
    <2> QED
      BY <2>1, <2>2, FS_EmptySet DEF CountInv
  <1>2. ASSUME CountInv, NEW n \in Nodes
        PROVE  Cardinality(served[n]) <= 1 + failures
    <2>1. served[n] \subseteq Known(n)
      BY DEF Known
    <2>2. failures \in Nat /\ IsFiniteSet(Known(n)) /\ Cardinality(Known(n)) <= Room(n)
      BY <1>2 DEF CountInv
    <2>3. Room(n) \in Nat /\ Room(n) <= 1 + failures
      BY <2>2 DEF Room
    <2>4. /\ Cardinality(served[n]) <= Cardinality(Known(n))
          /\ Cardinality(served[n]) \in Nat /\ Cardinality(Known(n)) \in Nat
      BY Zenon, <2>1, <2>2, FS_Subset, FS_CardinalityType
    <2> QED
      BY <2>2, <2>3, <2>4
  <1>3. IInv /\ CountInv => StableIdentity
    BY <1>2 DEF IInv, SavedInv, StableIdentity
  <1> QED
    BY <1>1, <1>3, IInvInit, IInvNext, CountNext, PTL DEF Spec

(* A complete node_id.bin is never overwritten, neither by main nor by the *)
(* exit() of the signal handler in the middle of the write.                *)
THEOREM FileStays == ASSUME OwnDirectory PROVE Spec => SavedStays
  <1>1. ASSUME IInv, [Next]_vars, NEW n \in Nodes, ~failed[n], disk[Dir[n]] \in Nat
        PROVE  disk'[Dir[n]] = disk[Dir[n]]
    <2>1. SavedInv(n) /\ pc[n] \notin {"generate", "open", "write", "close"}
      BY <1>1, LifeAssumption DEF IInv, SavedInv
    <2>2. ASSUME disk' # disk
          PROVE  \E m \in Nodes : /\ pc[m] \in {"open", "close"}
                                  /\ \E c : disk' = [disk EXCEPT ![Dir[m]] = c]
      <3>1. ASSUME NEW m \in Nodes, NEW flush, End(m, flush)
            PROVE  pc[m] = "close" /\ disk' = [disk EXCEPT ![Dir[m]] = id[m]]
        BY <2>2, <3>1 DEF End
      <3>2. ASSUME NEW m \in Nodes, MainStep(m)
            PROVE  OpenId(m) \/ CloseId(m) \/ End(m, TRUE)
        BY Zenon, <2>2, <3>2 DEF MainStep, ProcessArgs, InstallHandler, NewServer, ReadId,
           GenerateId,
                          WriteId, Serve
      <3>3. ASSUME NEW m \in Nodes, OpenId(m) \/ CloseId(m)
            PROVE  pc[m] \in {"open", "close"} /\ \E c : disk' = [disk EXCEPT ![Dir[m]] = c]
        BY <2>2, <3>3 DEF OpenId, CloseId, Main
      <3>4. ASSUME NEW m \in Nodes, NEW t \in Threads, HandlerStep(m, t)
            PROVE  End(m, TRUE)
        BY Zenon, <2>2, <3>4 DEF HandlerStep, CheckState, SetState, Exit
      <3>5. ASSUME NEW m \in Nodes, NEW t \in Threads, NEW s \in 1..SIGNALS, Signal(m, t, s)
            PROVE  End(m, FALSE)
        BY Zenon, <2>2, <3>5 DEF Signal
      <3>6. \E m \in Nodes : OpenId(m) \/ CloseId(m) \/ \E flush : End(m, flush)
        <4>1. ASSUME NEW m \in Nodes, Start(m) PROVE FALSE
          BY <2>2, <4>1 DEF Start
        <4>2. ASSUME NEW m \in Nodes, Crash(m) PROVE End(m, FALSE)
          BY Zenon, <4>2 DEF Crash
        <4>3. Next
          BY <1>1, <2>2 DEF vars
        <4> QED
          BY Zenon, <3>2, <3>4, <3>5, <4>1, <4>2, <4>3 DEF Next
      <3> QED
        BY <3>1, <3>3, <3>6
    <2>3. ASSUME NEW m \in Nodes, pc[m] \in {"open", "close"}, NEW c,
                 disk' = [disk EXCEPT ![Dir[m]] = c]
          PROVE  disk'[Dir[n]] = disk[Dir[n]]
      <3>1. Dir[m] # Dir[n]
        BY <2>1, <2>3 DEF OwnDirectory
      <3> QED
        BY <1>1, <2>3, <3>1 DEF IInv, TypeInv, Dirs
    <2>4. CASE disk' # disk
      BY <2>2, <2>3, <2>4
    <2> QED
      BY <2>4
  <1>2. IInv /\ [Next]_vars =>
            [\A n \in Nodes : ~failed[n] /\ disk[Dir[n]] \in Nat => disk'[Dir[n]] = disk[Dir[n]]]_vars
    BY <1>1
  <1> QED
    BY <1>2, IInvInit, IInvNext, PTL DEF Spec, SavedStays

(* Nodes in directories of their own never serve under the same identity,  *)
(* failures of the file system included.  In one directory they may: the   *)
(* file is neither locked nor bound to the node.                           *)
THEOREM IdentityUnique == ASSUME OwnDirectory PROVE Spec => []UniqueIdentity
  <1>1. ASSUME IInv PROVE UniqueIdentity
    <2> SUFFICES ASSUME NEW m \in Nodes, NEW n \in Nodes, m # n,
                        NEW i \in served[m] \cap served[n]
                 PROVE  i \in Junk
      BY DEF UniqueIdentity
    <2>1. i \in Nat => i \in Owned(m) \cap Owned(n)
      BY DEF Owned
    <2>2. i \in Nat \cup Junk
      BY <1>1 DEF IInv, TypeInv
    <2> QED
      BY <1>1, <2>1, <2>2 DEF IInv, FreshInv
  <1> QED
    BY <1>1, IInvInit, IInvNext, PTL DEF Spec

------------------------------------------------------------------------------
(* SHA-1: numbers, sequences and Iterate *)

(* The library's theorems on sequences that are needed here, each of them  *)
(* one step for the provers.                                               *)

(* Two sequences of one length with the same elements are equal.           *)
LEMMA SameSequence ==
    ASSUME NEW S, NEW s \in Seq(S), NEW t \in Seq(S),
           Len(s) = Len(t), \A k \in 1..Len(s) : s[k] = t[k]
    PROVE  s = t
  OBVIOUS

(* One sequence after another.                                             *)
LEMMA JoinIs ==
    ASSUME NEW S, NEW s \in Seq(S), NEW t \in Seq(S)
    PROVE  /\ s \o t \in Seq(S)
           /\ Len(s \o t) = Len(s) + Len(t)
           /\ \A k \in 1..(Len(s) + Len(t)) :
                (s \o t)[k] = IF k <= Len(s) THEN s[k] ELSE t[k - Len(s)]
  OBVIOUS

(* The part of a sequence from one position to another.                    *)
LEMMA PartIs ==
    ASSUME NEW S, NEW s, NEW m \in Int, NEW n \in Int, \A k \in m..n : s[k] \in S
    PROVE  /\ SubSeq(s, m, n) \in Seq(S)
           /\ Len(SubSeq(s, m, n)) = IF m <= n THEN n - m + 1 ELSE 0
           /\ \A k \in 1..(n - m + 1) : SubSeq(s, m, n)[k] = s[m + k - 1]
  OBVIOUS

(* Induction over the naturals, for a set.                                 *)
LEMMA NatInductive ==
    ASSUME NEW S, 0 \in S, \A n \in Nat : n \in S => n + 1 \in S
    PROVE  Nat \subseteq S
  <1> DEFINE T == Nat \ S
  <1> SUFFICES ASSUME T # {}
               PROVE  FALSE
    OBVIOUS
  <1>1. PICK m \in T : \A k \in T : ~(<<k, m>> \in OpToRel(<, Nat))
    <2>1. T \subseteq Nat
      OBVIOUS
    <2> HIDE DEF T
    <2> QED
      BY Zenon, <2>1, WFMin, NatLessThanWellFounded
  <1>2. \A k \in T : ~(k < m)
    BY Zenon, <1>1 DEF OpToRel
  <1>3. m # 0 /\ m - 1 \in Nat
    OBVIOUS
  <1>4. m - 1 \in S
    BY <1>2, <1>3
  <1> QED
    BY <1>3, <1>4

(* The function that Iterate defines by recursion exists.                  *)
LEMMA IterateIs ==
    ASSUME NEW steps, NEW S
    PROVE  \A n \in Nat : Iterate(steps, S, n) =
               [x \in S |-> IF n = 0 THEN x ELSE steps[n][Iterate(steps, S, n - 1)[x]]]
  <1> DEFINE E(g, k) == [x \in S |-> IF k = 0 THEN x ELSE steps[k][g[k - 1][x]]]
             Up(g, m) == g = [k \in 0..m |-> E(g, k)]
             P == {m \in Nat : \E g : Up(g, m)}
             Q == {m \in Nat : \A l \in Nat : \A g, h : m <= l /\ Up(g, m) /\ Up(h, l) => g[m] = h[m]}
  <1>1. 0 \in P
    <2>1. Up([k \in 0..0 |-> [x \in S |-> x]], 0)
      OBVIOUS
    <2> QED
      BY Zenon, <2>1
  <1>2. ASSUME NEW m \in Nat, m \in P
        PROVE  m + 1 \in P
    <2>1. PICK g : Up(g, m)
      BY <1>2
    <2> DEFINE h == [k \in 0..(m + 1) |-> IF k = m + 1 THEN E(g, k) ELSE g[k]]
    <2>2. \A k \in 0..(m + 1) : h[k] = E(h, k)
      <3> TAKE k \in 0..(m + 1)
      <3>1. CASE k = m + 1
        <4>1. h[k - 1] = g[k - 1] /\ h[k] = E(g, k)
          BY <3>1
        <4> QED
          BY Zenon, <4>1
      <3>2. CASE k # m + 1
        <4>1. h[k] = g[k] /\ k \in 0..m
          BY <3>2
        <4>2. g[k] = E(g, k)
          BY Zenon, <2>1, <4>1
        <4>3. k # 0 => h[k - 1] = g[k - 1]
          <5> HIDE DEF E, Up, P, Q
          <5> QED BY <3>2
        <4> QED
          BY Zenon, <4>1, <4>2, <4>3
      <3> QED
        BY Zenon, <3>1, <3>2
    <2>3. h = [k \in 0..(m + 1) |-> h[k]]
      OBVIOUS
    <2>4. Up(h, m + 1)
      <3> HIDE DEF h, E
      <3> QED
        BY <2>2, <2>3
    <2> QED
      <3> HIDE DEF h, Up
      <3> QED
        BY <2>4
  <1>3. Nat \subseteq P
    <2> HIDE DEF P
    <2> QED
      BY <1>1, <1>2, NatInductive
  <1>4. \A l \in Nat : \A g, h : Up(g, l) /\ Up(h, l) => TRUE
    OBVIOUS
  <1>5. ASSUME NEW l \in Nat, NEW g, Up(g, l), NEW k \in 0..l
        PROVE  g[k] = E(g, k)
    <2> HIDE DEF E
    <2> QED
      BY <1>5
  <1>6. 0 \in Q
    <2> SUFFICES ASSUME NEW l \in Nat, NEW g, NEW h, Up(g, 0), Up(h, l)
                 PROVE  g[0] = h[0]
      BY DEF Q
    <2>1. g[0] = E(g, 0)
      <3> HIDE DEF E, Up
      <3> QED BY <1>5
    <2>2. h[0] = E(h, 0)
      <3> HIDE DEF E, Up
      <3> QED BY <1>5
    <2>3. \A a : E(a, 0) = [x \in S |-> x]
      OBVIOUS
    <2> QED
      <3> HIDE DEF E, Up
      <3> QED BY <2>1, <2>2, <2>3
  <1>7. ASSUME NEW m \in Nat, m \in Q
        PROVE  m + 1 \in Q
    <2> SUFFICES ASSUME NEW l \in Nat, NEW g, NEW h, m + 1 <= l, Up(g, m + 1), Up(h, l)
                 PROVE  g[m + 1] = h[m + 1]
      <3> HIDE DEF Up
      <3> QED BY DEF Q
    <2> DEFINE f == [k \in 0..m |-> g[k]]
    <2>1. \A k \in 0..m : f[k] = E(f, k)
      <3> TAKE k \in 0..m
      <3>1. g[k] = E(g, k)
        <4> HIDE DEF E, Up
        <4> QED BY <1>5
      <3>2. k # 0 => f[k - 1] = g[k - 1]
        OBVIOUS
      <3> QED
        BY Zenon, <3>1, <3>2
    <2>2. Up(f, m)
      <3>1. f = [k \in 0..m |-> f[k]]
        OBVIOUS
      <3> HIDE DEF E, f
      <3> QED
        BY <2>1, <3>1
    <2>3. f[m] = h[m]
      <3> HIDE DEF f, Up
      <3> QED
        BY <1>7, <2>2 DEF Q
    <2>4. g[m] = h[m]
      <3> HIDE DEF E, Up, P, Q
      <3>1. f[m] = g[m]
        OBVIOUS
      <3> HIDE DEF f
      <3> QED
        BY <2>3, <3>1
    <2>5. g[m + 1] = E(g, m + 1) /\ h[m + 1] = E(h, m + 1)
      <3> HIDE DEF E, Up
      <3> QED BY <1>5
    <2>6. E(g, m + 1) = E(h, m + 1)
      <3>1. (m + 1) - 1 = m
        OBVIOUS
      <3>2. g[(m + 1) - 1] = h[(m + 1) - 1]
        BY <2>4, <3>1
      <3> QED
        BY Zenon, <3>2
    <2> HIDE DEF E
    <2> QED
      BY <2>5, <2>6
  <1>8. Nat \subseteq Q
    <2> HIDE DEF Q
    <2> QED
      BY <1>6, <1>7, NatInductive
  <1> DEFINE F == [k \in Nat |-> (CHOOSE g : Up(g, k))[k]]
  <1>9. \A k \in Nat : F[k] = E(F, k)
    <2> TAKE k \in Nat
    <2> DEFINE g == CHOOSE g : Up(g, k)
               h == CHOOSE h : Up(h, k - 1)
    <2>1. Up(g, k)
      <3> HIDE DEF Up
      <3> QED BY <1>3
    <2>2. F[k] = g[k]
      OBVIOUS
    <2>3. g[k] = E(g, k)
      <3> HIDE DEF E, Up, g
      <3> QED BY <2>1, <1>5
    <2>4. k # 0 => F[k - 1] = g[k - 1]
      <3> SUFFICES ASSUME k # 0
                   PROVE  F[k - 1] = g[k - 1]
        OBVIOUS
      <3>1. k - 1 \in Nat /\ k - 1 <= k
        OBVIOUS
      <3>2. Up(h, k - 1)
        <4> HIDE DEF Up
        <4> QED BY <1>3, <3>1
      <3>3. F[k - 1] = h[k - 1]
        BY <3>1
      <3>4. h[k - 1] = g[k - 1]
        <4> HIDE DEF Up, g, h, F
        <4> QED BY <3>1, <3>2, <2>1, <1>8
      <3> QED
        BY Zenon, <3>3, <3>4
    <2> QED
      <3> HIDE DEF F, g
      <3> QED BY <2>2, <2>3, <2>4
  <1> DEFINE Rec(f) == f = [k \in Nat |-> E(f, k)]
             C == CHOOSE f : Rec(f)
  <1>10. Rec(F)
    <2>1. F = [k \in Nat |-> F[k]]
      OBVIOUS
    <2> HIDE DEF F, E
    <2> QED
      BY <1>9, <2>1
  <1>11. Rec(C)
    <2> HIDE DEF F, Rec
    <2> QED
      BY <1>10
  <1>12. \A n : Iterate(steps, S, n) = C[n]
    BY DEF Iterate
  <1>13. \A k \in Nat : C[k] = E(C, k)
    <2> HIDE DEF C, E
    <2> QED
      BY <1>11
  <1> HIDE DEF C
  <1> TAKE n \in Nat
  <1>14. C[n] = [x \in S |-> IF n = 0 THEN x ELSE steps[n][C[n - 1][x]]]
    BY <1>13
  <1> QED
    BY <1>12, <1>14

(* Iterate begins with the identity.                                       *)
LEMMA IterateZero ==
    ASSUME NEW steps, NEW S, NEW x \in S
    PROVE  Iterate(steps, S, 0)[x] = x
  <1>1. Iterate(steps, S, 0) =
            [y \in S |-> IF 0 = 0 THEN y ELSE steps[0][Iterate(steps, S, 0 - 1)[y]]]
    BY IterateIs
  <1> QED
    BY <1>1

(* The last of its steps is steps[n + 1].                                  *)
LEMMA IterateNext ==
    ASSUME NEW steps, NEW S, NEW n \in Nat, NEW x \in S
    PROVE  Iterate(steps, S, n + 1)[x] = steps[n + 1][Iterate(steps, S, n)[x]]
  <1>1. Iterate(steps, S, n + 1) =
            [y \in S |-> IF n + 1 = 0 THEN y
                         ELSE steps[n + 1][Iterate(steps, S, (n + 1) - 1)[y]]]
    BY IterateIs
  <1>2. n + 1 # 0 /\ (n + 1) - 1 = n
    OBVIOUS
  <1> QED
    BY <1>1, <1>2

(* Steps that stay in S and agree on it lead from the same start to the    *)
(* same end, and it is in S.                                               *)
LEMMA IterateSame ==
    ASSUME NEW s, NEW t, NEW S, NEW N \in Nat, NEW x \in S,
           \A k \in 1..N : \A y \in S : s[k][y] \in S /\ s[k][y] = t[k][y]
    PROVE  \A n \in 0..N : /\ Iterate(s, S, n)[x] \in S
                           /\ Iterate(s, S, n)[x] = Iterate(t, S, n)[x]
  <1> DEFINE P == {n \in Nat : n <= N => /\ Iterate(s, S, n)[x] \in S
                                         /\ Iterate(s, S, n)[x] = Iterate(t, S, n)[x]}
  <1>1. 0 \in P
    BY IterateZero
  <1>2. ASSUME NEW n \in Nat, n \in P
        PROVE  n + 1 \in P
    <2> SUFFICES ASSUME n + 1 <= N
                 PROVE  /\ Iterate(s, S, n + 1)[x] \in S
                        /\ Iterate(s, S, n + 1)[x] = Iterate(t, S, n + 1)[x]
      OBVIOUS
    <2> DEFINE y == Iterate(s, S, n)[x]
    <2>1. y \in S /\ y = Iterate(t, S, n)[x] /\ n + 1 \in 1..N
      BY <1>2
    <2>2. Iterate(s, S, n + 1)[x] = s[n + 1][y]
      BY IterateNext
    <2> HIDE DEF y
    <2>3. Iterate(t, S, n + 1)[x] = t[n + 1][y]
      <3>1. Iterate(t, S, n + 1)[x] = t[n + 1][Iterate(t, S, n)[x]]
        BY IterateNext
      <3> QED
        BY <2>1, <3>1
    <2> QED
      BY <2>1, <2>2, <2>3
  <1>3. Nat \subseteq P
    <2> HIDE DEF P
    <2> QED
      BY <1>1, <1>2, NatInductive
  <1> QED
    BY <1>3

(* To take the steps sixteen at a time makes no difference.                *)
LEMMA SixteensIs ==
    ASSUME NEW steps, NEW S, NEW N \in Nat, NEW x \in S, NEW M, M = 16 * N,
           \A k \in 0..M : Iterate(steps, S, k)[x] \in S
    PROVE  Sixteens(steps, S, N)[x] = Iterate(steps, S, M)[x]
  <1> DEFINE group(g) == [k \in 1..16 |-> steps[16 * (g - 1) + k]]
             all == [g \in 1..N |-> Iterate(group(g), S, 16)]
             it(k) == Iterate(steps, S, k)[x]
             P == {n \in Nat : n <= N => Iterate(all, S, n)[x] = it(16 * n)}
  <1>1. \A k \in 0..(16 * N) : it(k) \in S
    OBVIOUS
  <1>2. \A k \in Nat : it(k + 1) = steps[k + 1][it(k)]
    BY IterateNext
  <1> HIDE DEF it
  <1>3. ASSUME NEW g \in 1..N
        PROVE  Iterate(group(g), S, 16)[it(16 * (g - 1))] = it(16 * (g - 1) + 16)
    <2> DEFINE b == 16 * (g - 1)
               y == it(b)
               s == group(g)
               Q == {k \in Nat : k <= 16 => Iterate(s, S, k)[y] = it(b + k)}
    <2>1. b \in Nat /\ b + 16 <= 16 * N
      OBVIOUS
    <2>2. \A k \in 1..16 : s[k] = steps[b + k]
      OBVIOUS
    <2> HIDE DEF b, s
    <2>3. y \in S
      BY <1>1, <2>1
    <2> HIDE DEF y
    <2>4. 0 \in Q
      <3>1. Iterate(s, S, 0)[y] = y
        BY <2>3, IterateZero
      <3>2. b + 0 = b
        BY <2>1
      <3> QED
        BY <3>1, <3>2 DEF y
    <2>5. ASSUME NEW k \in Nat, k \in Q
          PROVE  k + 1 \in Q
      <3> SUFFICES ASSUME k + 1 <= 16
                   PROVE  Iterate(s, S, k + 1)[y] = it(b + (k + 1))
        OBVIOUS
      <3>1. Iterate(s, S, k + 1)[y] = s[k + 1][Iterate(s, S, k)[y]]
        <4> HIDE DEF group, all, P, Q
        <4> QED BY <2>3, IterateNext
      <3>2. Iterate(s, S, k)[y] = it(b + k)
        BY <2>5
      <3>3. s[k + 1] = steps[b + (k + 1)]
        BY <2>2
      <3>4. b + k \in Nat /\ b + (k + 1) = (b + k) + 1
        BY <2>1
      <3>5. it((b + k) + 1) = steps[(b + k) + 1][it(b + k)]
        BY <1>2, <3>4
      <3> QED
        BY <3>1, <3>2, <3>3, <3>4, <3>5
    <2>6. Nat \subseteq Q
      <3> HIDE DEF Q
      <3> QED BY <2>4, <2>5, NatInductive
    <2>7. Iterate(s, S, 16)[y] = it(b + 16)
      BY <2>6
    <2> QED
      BY <2>7 DEF b, s, y
  <1>4. \A g \in 1..N : all[g] = Iterate(group(g), S, 16)
    <2> HIDE DEF group
    <2> QED OBVIOUS
  <1>5. Sixteens(steps, S, N) = Iterate(all, S, N)
    BY DEF Sixteens
  <1> HIDE DEF group, all
  <1>6. 0 \in P
    <2>1. Iterate(all, S, 0)[x] = x /\ it(0) = x
      BY IterateZero DEF it
    <2> QED
      BY <2>1
  <1>7. ASSUME NEW n \in Nat, n \in P
        PROVE  n + 1 \in P
    <2> SUFFICES ASSUME n + 1 <= N
                 PROVE  Iterate(all, S, n + 1)[x] = it(16 * (n + 1))
      OBVIOUS
    <2>1. Iterate(all, S, n + 1)[x] = all[n + 1][Iterate(all, S, n)[x]]
      BY IterateNext
    <2>2. Iterate(all, S, n)[x] = it(16 * n)
      BY <1>7
    <2>3. n + 1 \in 1..N /\ 16 * ((n + 1) - 1) = 16 * n /\ 16 * n + 16 = 16 * (n + 1)
      OBVIOUS
    <2>4. all[n + 1] = Iterate(group(n + 1), S, 16)
      BY <1>4, <2>3
    <2>5. Iterate(group(n + 1), S, 16)[it(16 * ((n + 1) - 1))] = it(16 * ((n + 1) - 1) + 16)
      BY <1>3, <2>3
    <2> QED
      BY <2>1, <2>2, <2>3, <2>4, <2>5
  <1>8. Nat \subseteq P
    <2> HIDE DEF P
    <2> QED
      BY <1>6, <1>7, NatInductive
  <1>9. Iterate(all, S, N)[x] = it(16 * N)
    BY <1>8
  <1> QED
    BY <1>5, <1>9 DEF it

------------------------------------------------------------------------------
(* SHA-1: words and the rounds of a block *)

(* Every word has its bits in 0..31.                                       *)
LEMMA WordType ==
    /\ \A high, low : Word(high, low) \in UInt32
    /\ \A bytes, n : blk0(bytes, n) \in UInt32
    /\ \A n : K(n) \in UInt32
  <1>1. \A high, low : Word(high, low) \in UInt32
    BY DEF Word, UInt32
  <1>2. \A n : K(n) \in UInt32
    BY <1>1 DEF K
  <1> QED
    BY <1>1, <1>2 DEF blk0

(* A sum is a word.                                                        *)
LEMMA TotalType ==
    ASSUME NEW words \in Seq(UInt32)
    PROVE  Total[words] \in UInt32
  BY WordType DEF Total

(* The operations on words give words.                                     *)
LEMMA OpTypes ==
    ASSUME NEW v \in UInt32, NEW w \in UInt32
    PROVE  /\ Xor(v, w) \in UInt32
           /\ \A k \in Nat : rol(v, k) \in UInt32
  <1>1. ASSUME NEW k \in Nat, NEW b \in 0..31
        PROVE  (b + k) % 32 \in 0..31
    OBVIOUS
  <1>2. \A k \in Nat : rol(v, k) \in UInt32
    BY <1>1 DEF rol, UInt32
  <1>3. Xor(v, w) \in UInt32
    BY DEF Xor, UInt32
  <1> QED
    BY <1>2, <1>3

(* The functions that sha1.c computes with fewer operations are those of   *)
(* the standard.                                                           *)
LEMMA MixedIs ==
    ASSUME NEW n \in 0..79, NEW w \in UInt32, NEW x \in UInt32, NEW y \in UInt32
    PROVE  /\ Mixed(n, w, x, y) \in UInt32
           /\ Mixed(n, w, x, y) = StandardF(n, w, x, y)
  <1>1. /\ Mix1(w, x, y) = (w \cap x) \cup ((0..31 \ w) \cap y)
        /\ Mix1(w, x, y) \in UInt32
    BY Zenon DEF Mix1, Xor, UInt32
  <1>2. /\ Mix2(w, x, y) = Xor(w, Xor(x, y))
        /\ Mix2(w, x, y) \in UInt32
    BY DEF Mix2, Xor, UInt32
  <1>3. /\ Mix3(w, x, y) = (w \cap x) \cup (w \cap y) \cup (x \cap y)
        /\ Mix3(w, x, y) \in UInt32
    BY DEF Mix3, UInt32
  <1> QED
    BY <1>1, <1>2, <1>3 DEF Mixed, StandardF

(* The eighty words of a block: the first sixteen are the block, and each  *)
(* of the others is made of four before it.                                *)
LEMMA ScheduleIs ==
    ASSUME NEW block
    PROVE  /\ Schedule(block) \in Seq(UInt32)
           /\ Len(Schedule(block)) = 80
           /\ \A t \in 1..16 : Schedule(block)[t] = blk0(block, t - 1)
           /\ \A t \in 17..80 :
                  Schedule(block)[t] =
                      rol(Xor(Xor(Schedule(block)[t - 3], Schedule(block)[t - 8]),
                              Xor(Schedule(block)[t - 14], Schedule(block)[t - 16])), 1)
  <1> DEFINE new(w, t) == rol(Xor(Xor(w[t - 3], w[t - 8]), Xor(w[t - 14], w[t - 16])), 1)
             next == [w \in Seq(UInt32) |-> Append(w, new(w, Len(w) + 1))]
             start == [t \in 1..16 |-> blk0(block, t - 1)]
             steps == [n \in 1..64 |-> next]
             W(n) == Iterate(steps, Seq(UInt32), n)[start]
             Good(w, n) == /\ w \in Seq(UInt32)
                           /\ Len(w) = 16 + n
                           /\ \A t \in 1..16 : w[t] = blk0(block, t - 1)
                           /\ \A t \in 17..(16 + n) : w[t] = new(w, t)
             P == {n \in Nat : n <= 64 => Good(W(n), n)}
  <1>1. start \in Seq(UInt32) /\ Len(start) = 16
    BY WordType
  <1>2. 0 \in P
    <2>1. W(0) = start
      <3> HIDE DEF start, steps
      <3> QED BY <1>1, IterateZero
    <2>2. Good(start, 0)
      BY <1>1
    <2> QED
      BY Zenon, <2>1, <2>2
  <1>3. ASSUME NEW n \in Nat, n < 64, NEW w, Good(w, n)
        PROVE  Good(next[w], n + 1)
    <2> DEFINE a == new(w, n + 17)
    <2>1. w \in Seq(UInt32) /\ Len(w) = 16 + n
      BY <1>3
    <2>2. \A t \in 1..(16 + n) : w[t] \in UInt32
      BY <2>1
    <2>3. a \in UInt32
      <3>1. /\ w[n + 17 - 3] \in UInt32 /\ w[n + 17 - 8] \in UInt32
            /\ w[n + 17 - 14] \in UInt32 /\ w[n + 17 - 16] \in UInt32
        BY <2>2
      <3>2. /\ Xor(w[n + 17 - 3], w[n + 17 - 8]) \in UInt32
            /\ Xor(w[n + 17 - 14], w[n + 17 - 16]) \in UInt32
        BY <3>1, OpTypes
      <3>3. Xor(Xor(w[n + 17 - 3], w[n + 17 - 8]), Xor(w[n + 17 - 14], w[n + 17 - 16])) \in UInt32
        BY <3>2, OpTypes
      <3> QED
        BY <3>3, OpTypes
    <2> DEFINE v == Append(w, a)
    <2>4. next[w] = v
      <3>1. Len(w) + 1 = n + 17
        BY <2>1
      <3> QED
        BY <2>1, <3>1
    <2>5. /\ v \in Seq(UInt32)
          /\ Len(v) = 17 + n
          /\ \A t \in 1..(16 + n) : v[t] = w[t]
          /\ v[17 + n] = a
      <3> HIDE DEF a
      <3> QED BY <2>1, <2>3
    <2>6. \A t \in 17..(17 + n) : new(v, t) = new(w, t)
      <3> HIDE DEF v, a
      <3> TAKE t \in 17..(17 + n)
      <3>1. v[t - 3] = w[t - 3] /\ v[t - 8] = w[t - 8] /\ v[t - 14] = w[t - 14] /\ v[t - 16] = w[t - 16]
        BY <2>5
      <3> QED
        BY <3>1
    <2>7. \A t \in 17..(17 + n) : v[t] = new(v, t)
      <3> TAKE t \in 17..(17 + n)
      <3>1. CASE t = 17 + n
        <4>1. v[t] = new(w, t)
          <5>1. v[t] = a /\ a = new(w, t)
            <6>1. v[17 + n] = a /\ 17 + n = n + 17
              BY <2>5
            <6> QED
              BY Zenon, <3>1, <6>1
          <5> QED
            BY Zenon, <5>1
        <4> HIDE DEF v, new
        <4> QED
          BY <4>1, <2>6
      <3>2. CASE t # 17 + n
        <4>1. t \in 17..(16 + n) /\ t \in 1..(16 + n)
          BY <3>2
        <4>2. w[t] = new(w, t)
          <5> HIDE DEF new
          <5> QED BY <1>3, <4>1
        <4> HIDE DEF v, new
        <4> QED
          BY <4>1, <4>2, <2>5, <2>6
      <3> QED
        BY Zenon, <3>1, <3>2
    <2>8. \A t \in 1..16 : v[t] = blk0(block, t - 1)
      <3>1. \A t \in 1..16 : w[t] = blk0(block, t - 1)
        BY Zenon, <1>3
      <3>2. \A t \in 1..16 : t \in 1..(16 + n)
        OBVIOUS
      <3> HIDE DEF v, new
      <3> QED
        BY Zenon, <2>5, <3>1, <3>2
    <2>9. 16 + (n + 1) = 17 + n
      OBVIOUS
    <2> HIDE DEF v, new, next
    <2> QED
      BY <2>4, <2>5, <2>7, <2>8, <2>9
  <1>4. ASSUME NEW n \in Nat, n \in P
        PROVE  n + 1 \in P
    <2> SUFFICES ASSUME n + 1 <= 64
                 PROVE  Good(W(n + 1), n + 1)
      <3> HIDE DEF Good, W
      <3> QED OBVIOUS
    <2>1. Good(W(n), n)
      <3> HIDE DEF Good, W
      <3> QED BY <1>4
    <2>2. W(n + 1) = steps[n + 1][W(n)]
      <3> HIDE DEF steps, start
      <3>1. start \in Seq(UInt32)
        BY <1>1
      <3> HIDE DEF P, Good
      <3> QED BY <3>1, IterateNext
    <2>3. steps[n + 1] = next
      <3> HIDE DEF next
      <3> QED OBVIOUS
    <2> HIDE DEF W, next, Good, steps
    <2> QED
      BY <1>3, <2>1, <2>2, <2>3
  <1>5. Nat \subseteq P
    <2> HIDE DEF P
    <2> QED
      BY <1>2, <1>4, NatInductive
  <1>6. Good(W(64), 64)
    <2> HIDE DEF Good, W
    <2> QED BY <1>5
  <1>7. Schedule(block) = W(64)
    <2>1. Schedule(block) = Sixteens(steps, Seq(UInt32), 4)[start]
      BY DEF Schedule
    <2>2. \A n \in 0..64 : W(n) \in Seq(UInt32)
      <3> HIDE DEF W
      <3> QED BY <1>5
    <2> HIDE DEF steps, start
    <2>3. Sixteens(steps, Seq(UInt32), 4)[start] = Iterate(steps, Seq(UInt32), 64)[start]
      <3> DEFINE S == Seq(UInt32)
                 N == 4
                 M == 64
      <3>1. N \in Nat /\ M = 16 * N /\ start \in S
        BY <1>1
      <3>2. \A n \in 0..M : Iterate(steps, S, n)[start] \in S
        BY Zenon, <2>2
      <3> HIDE DEF S, N, M
      <3>3. Sixteens(steps, S, N)[start] = Iterate(steps, S, M)[start]
        BY <3>1, <3>2, SixteensIs
      <3> QED
        BY <3>3 DEF S, N, M
    <2> QED
      BY <2>1, <2>3
  <1>8. Good(Schedule(block), 64)
    <2> HIDE DEF Good, W
    <2> QED BY <1>6, <1>7
  <1> HIDE DEF next, start, steps, W, P
  <1>9. 16 + 64 = 80
    OBVIOUS
  <1>10. /\ Schedule(block) \in Seq(UInt32)
         /\ Len(Schedule(block)) = 80
         /\ \A t \in 1..16 : Schedule(block)[t] = blk0(block, t - 1)
         /\ \A t \in 17..80 : Schedule(block)[t] = new(Schedule(block), t)
    <2> HIDE DEF new
    <2> QED BY Zenon, <1>8, <1>9
  <1> QED
    BY Zenon, <1>10

(* Words, as Schedule computes them.                                       *)
Scheduled(w) ==
    /\ w \in Seq(UInt32)
    /\ Len(w) = 80
    /\ \A t \in 17..80 : w[t] = rol(Xor(Xor(w[t - 3], w[t - 8]), Xor(w[t - 14], w[t - 16])), 1)

(* The array block->l before the operation n: of the words whose place it  *)
(* has, the latest that has been computed.                                 *)
Rolled(l, w, n) ==
    \A t \in 0..79 : n <= t + 16 /\ (t < n \/ t < 16) => l[t % 16] = w[t + 1]

(* The word that an operation computes from the sixteen of the array is    *)
(* the next of the eighty, and takes the place of one not needed any more. *)
LEMMA RolledNext ==
    ASSUME NEW w, Scheduled(w), NEW n \in 0..79,
           NEW l \in [0..15 -> UInt32], Rolled(l, w, n)
    PROVE  /\ (IF n < 16 THEN l[n] ELSE blk(l, n)) = w[n + 1]
           /\ w[n + 1] \in UInt32
           /\ [l EXCEPT ![n % 16] = w[n + 1]] \in [0..15 -> UInt32]
           /\ Rolled([l EXCEPT ![n % 16] = w[n + 1]], w, n + 1)
  <1>1. w[n + 1] \in UInt32
    <2>1. w \in Seq(UInt32)
      BY Zenon DEF Scheduled
    <2>2. n + 1 \in 1..Len(w)
      <3>1. Len(w) = 80 /\ n + 1 \in 1..80
        <4>1. n + 1 \in 1..80
          OBVIOUS
        <4> QED BY Zenon, <4>1 DEF Scheduled
      <3> QED BY Zenon, <3>1
    <2> QED
      BY <2>1, <2>2
  <1>2. n < 16 => l[n] = w[n + 1]
    <2> HAVE n < 16
    <2>1. l[n] = w[n + 1]
      <3>1. l[n % 16] = w[n + 1]
        BY DEF Rolled
      <3>2. n % 16 = n
        OBVIOUS
      <3> QED
        BY <3>1, <3>2
    <2> QED
      BY <2>1
  <1>3. n >= 16 => blk(l, n) = w[n + 1]
    <2> HAVE n >= 16
    <2>1. /\ (n - 3) % 16 = (n + 13) % 16
          /\ (n - 8) % 16 = (n + 8) % 16
          /\ (n - 14) % 16 = (n + 2) % 16
          /\ (n - 16) % 16 = n % 16
      OBVIOUS
    <2>2. l[(n - 3) % 16] = w[n - 2]
      <3>1. n - 3 \in 0..79 /\ n <= (n - 3) + 16 /\ n - 3 < n /\ (n - 3) + 1 = n - 2
        OBVIOUS
      <3> QED
        BY <3>1 DEF Rolled
    <2>3. l[(n - 8) % 16] = w[n - 7]
      <3>1. n - 8 \in 0..79 /\ n <= (n - 8) + 16 /\ n - 8 < n /\ (n - 8) + 1 = n - 7
        OBVIOUS
      <3> QED
        BY <3>1 DEF Rolled
    <2>4. l[(n - 14) % 16] = w[n - 13]
      <3>1. n - 14 \in 0..79 /\ n <= (n - 14) + 16 /\ n - 14 < n /\ (n - 14) + 1 = n - 13
        OBVIOUS
      <3> QED
        BY <3>1 DEF Rolled
    <2>5. l[(n - 16) % 16] = w[n - 15]
      <3>1. n - 16 \in 0..79 /\ n <= (n - 16) + 16 /\ n - 16 < n /\ (n - 16) + 1 = n - 15
        OBVIOUS
      <3> QED
        BY <3>1 DEF Rolled
    <2>6. w[n + 1] = rol(Xor(Xor(w[n - 2], w[n - 7]), Xor(w[n - 13], w[n - 15])), 1)
      <3>1. /\ n + 1 \in 17..80 /\ (n + 1) - 3 = n - 2 /\ (n + 1) - 8 = n - 7
            /\ (n + 1) - 14 = n - 13 /\ (n + 1) - 16 = n - 15
        OBVIOUS
      <3>2. w[n + 1] = rol(Xor(Xor(w[(n + 1) - 3], w[(n + 1) - 8]),
                               Xor(w[(n + 1) - 14], w[(n + 1) - 16])), 1)
        BY Zenon, <3>1 DEF Scheduled
      <3> QED
        BY <3>1, <3>2
    <2>7. blk(l, n) = rol(Xor(Xor(w[n - 2], w[n - 7]), Xor(w[n - 13], w[n - 15])), 1)
      BY <2>1, <2>2, <2>3, <2>4, <2>5 DEF blk
    <2> QED
      BY <2>6, <2>7
  <1>4. (IF n < 16 THEN l[n] ELSE blk(l, n)) = w[n + 1]
    BY <1>2, <1>3
  <1>5. [l EXCEPT ![n % 16] = w[n + 1]] \in [0..15 -> UInt32]
    BY <1>1
  <1>6. Rolled([l EXCEPT ![n % 16] = w[n + 1]], w, n + 1)
    <2> SUFFICES ASSUME NEW t \in 0..79, n + 1 <= t + 16, t < n + 1 \/ t < 16
                 PROVE  [l EXCEPT ![n % 16] = w[n + 1]][t % 16] = w[t + 1]
      BY DEF Rolled
    <2>1. t % 16 \in 0..15
      OBVIOUS
    <2>2. CASE t % 16 = n % 16
      <3>1. t = n
        BY <2>2
      <3> QED
        BY <2>1, <3>1
    <2>3. CASE t % 16 # n % 16
      <3>1. l[t % 16] = w[t + 1]
        <4>1. t # n
          BY <2>3
        <4>2. n <= t + 16 /\ (t < n \/ t < 16)
          BY <4>1
        <4> QED
          BY <4>2 DEF Rolled
      <3> QED
        BY <2>1, <2>3, <3>1
    <2> QED
      BY <2>2, <2>3
  <1> QED
    BY <1>1, <1>4, <1>5, <1>6

(* One of the eighty operations is the one of the standard.                *)
LEMMA RoundIs ==
    ASSUME NEW w, Scheduled(w), NEW n \in 0..79,
           NEW r \in Registers, Rolled(r.l, w, n)
    PROVE  /\ R(r, n) \in Registers
           /\ Rolled(R(r, n).l, w, n + 1)
           /\ StandardRounds[w][n + 1][r.v] = R(r, n).v
  <1> DEFINE word == IF n < 16 THEN r.l[n] ELSE blk(r.l, n)
             z == Total[<<r.v[5], Mixed(n, r.v[2], r.v[3], r.v[4]), word, K(n), rol(r.v[1], 5)>>]
             v == <<z, r.v[1], rol(r.v[2], 30), r.v[3], r.v[4]>>
             l == [r.l EXCEPT ![n % 16] = word]
  <1>1. r.v \in State /\ r.l \in [0..15 -> UInt32]
    BY DEF Registers
  <1>2. \A k \in 1..5 : r.v[k] \in UInt32
    BY <1>1 DEF State
  <1>3. /\ word = w[n + 1]
        /\ word \in UInt32
        /\ l \in [0..15 -> UInt32]
        /\ Rolled(l, w, n + 1)
    <2>1. word = w[n + 1]
      BY Zenon, <1>1, RolledNext
    <2>2. l = [r.l EXCEPT ![n % 16] = w[n + 1]]
      BY <2>1
    <2>3. /\ w[n + 1] \in UInt32
          /\ [r.l EXCEPT ![n % 16] = w[n + 1]] \in [0..15 -> UInt32]
          /\ Rolled([r.l EXCEPT ![n % 16] = w[n + 1]], w, n + 1)
      BY Zenon, <1>1, RolledNext
    <2> HIDE DEF word, l
    <2> QED
      BY <2>1, <2>2, <2>3
  <1>4. /\ Mixed(n, r.v[2], r.v[3], r.v[4]) \in UInt32
        /\ Mixed(n, r.v[2], r.v[3], r.v[4]) = StandardF(n, r.v[2], r.v[3], r.v[4])
    <2> DEFINE b == r.v[2]
               c == r.v[3]
               d == r.v[4]
    <2>1. b \in UInt32 /\ c \in UInt32 /\ d \in UInt32
      BY <1>2
    <2> HIDE DEF b, c, d
    <2>2. Mixed(n, b, c, d) \in UInt32 /\ Mixed(n, b, c, d) = StandardF(n, b, c, d)
      BY <2>1, MixedIs
    <2> QED
      BY <2>2 DEF b, c, d
  <1>5. K(n) \in UInt32 /\ rol(r.v[1], 5) \in UInt32 /\ rol(r.v[2], 30) \in UInt32
    <2> HIDE DEF word, z, v, l
    <2>1. 1 \in 1..5 /\ 2 \in 1..5
      OBVIOUS
    <2>2. r.v[1] \in UInt32 /\ r.v[2] \in UInt32
      BY Zenon, <1>2, <2>1
    <2> QED
      BY <2>2, WordType, OpTypes
  <1>6. z \in UInt32
    <2>1. <<r.v[5], Mixed(n, r.v[2], r.v[3], r.v[4]), word, K(n), rol(r.v[1], 5)>> \in Seq(UInt32)
      <3> HIDE DEF word, z, v, l
      <3> QED BY <1>2, <1>3, <1>4, <1>5
    <2> HIDE DEF word
    <2> QED
      BY Zenon, <2>1, TotalType
  <1>7. v \in State
    <2> HIDE DEF z, word, l
    <2> QED
      BY <1>2, <1>5, <1>6 DEF State
  <1>8. R(r, n) = [v |-> v, l |-> l]
    BY DEF R
  <1>9. StandardRounds[w][n + 1][r.v] = v
    <2>1. w \in Seq(UInt32) /\ n + 1 \in 1..80 /\ (n + 1) - 1 = n
      <3>1. w \in Seq(UInt32)
        BY Zenon DEF Scheduled
      <3> QED BY <3>1
    <2>2. StandardRounds[w][n + 1][r.v] =
              <<Total[<<r.v[5], StandardF((n + 1) - 1, r.v[2], r.v[3], r.v[4]), w[n + 1],
                        K((n + 1) - 1), rol(r.v[1], 5)>>],
                r.v[1], rol(r.v[2], 30), r.v[3], r.v[4]>>
      BY Zenon, <1>1, <2>1 DEF StandardRounds
    <2> HIDE DEF word
    <2> QED
      BY <2>1, <2>2, <1>3, <1>4
  <1> HIDE DEF v, l
  <1>10. R(r, n).v = v /\ R(r, n).l = l
    BY <1>8
  <1>11. R(r, n) \in Registers
    BY <1>3, <1>7, <1>8 DEF Registers
  <1> QED
    BY <1>3, <1>9, <1>10, <1>11

(* SHA1Transform, with sixteen words that it overwrites and in the order   *)
(* of the macros R0 to R4, is the compression of the standard.             *)
LEMMA TransformIs ==
    ASSUME NEW h \in State, NEW bytes
    PROVE  /\ SHA1Transform(h, bytes) \in State
           /\ SHA1Transform(h, bytes) = StandardBlock(h, bytes)
  <1> DEFINE w == Schedule(bytes)
             block == [k \in 0..15 |-> blk0(bytes, k)]
             start == [v |-> h, l |-> block]
             r(n) == Iterate(Rounds, Registers, n)[start]
             v(n) == Iterate(StandardRounds[w], State, n)[h]
             P == {n \in Nat : n <= 80 => /\ r(n) \in Registers
                                          /\ Rolled(r(n).l, w, n)
                                          /\ r(n).v = v(n)}
  <1>1. Scheduled(w)
    BY ScheduleIs DEF Scheduled
  <1>2. start \in Registers /\ start.v = h /\ start.l = block
    BY WordType DEF Registers
  <1>3. Rolled(block, w, 0)
    <2> SUFFICES ASSUME NEW t \in 0..15
                 PROVE  block[t % 16] = w[t + 1]
      BY DEF Rolled
    <2>1. t % 16 = t /\ t + 1 \in 1..16 /\ (t + 1) - 1 = t
      OBVIOUS
    <2>2. w[t + 1] = blk0(bytes, (t + 1) - 1)
      <3> HIDE DEF block, start, r, v, P
      <3>1. \A k \in 1..16 : w[k] = blk0(bytes, k - 1)
        BY Zenon, ScheduleIs
      <3> HIDE DEF w
      <3> QED
        BY Zenon, <2>1, <3>1
    <2> HIDE DEF w
    <2> QED
      BY <2>1, <2>2
  <1> HIDE DEF w, start, block
  <1>4. 0 \in P
    <2>1. r(0) = start
      BY <1>2, IterateZero
    <2>2. v(0) = h
      BY IterateZero
    <2> HIDE DEF r, v
    <2> QED
      BY <1>2, <1>3, <2>1, <2>2
  <1>5. ASSUME NEW n \in Nat, n \in P
        PROVE  n + 1 \in P
    <2> SUFFICES ASSUME n + 1 <= 80
                 PROVE  /\ r(n + 1) \in Registers
                        /\ Rolled(r(n + 1).l, w, n + 1)
                        /\ r(n + 1).v = v(n + 1)
      <3> HIDE DEF r, v
      <3> QED OBVIOUS
    <2>1. /\ r(n) \in Registers
          /\ Rolled(r(n).l, w, n)
          /\ r(n).v = v(n)
          /\ n \in 0..79
      <3> HIDE DEF r, v
      <3> QED BY <1>5
    <2>2. r(n + 1) = Rounds[n + 1][r(n)]
      BY <1>2, IterateNext
    <2>3. v(n + 1) = StandardRounds[w][n + 1][v(n)]
      BY IterateNext
    <2> HIDE DEF r, v
    <2>4. Rounds[n + 1][r(n)] = R(r(n), n)
      <3>1. n + 1 \in 1..80 /\ (n + 1) - 1 = n
        BY <2>1
      <3>2. Rounds[n + 1][r(n)] = R(r(n), (n + 1) - 1)
        BY <2>1, <3>1 DEF Rounds
      <3> QED
        BY <3>1, <3>2
    <2> DEFINE s == r(n)
    <2>5. s \in Registers /\ Rolled(s.l, w, n)
      BY <2>1
    <2>6. /\ R(s, n) \in Registers
          /\ Rolled(R(s, n).l, w, n + 1)
          /\ StandardRounds[w][n + 1][s.v] = R(s, n).v
      <3> HIDE DEF s
      <3> QED BY Zenon, <1>1, <2>1, <2>5, RoundIs
    <2> QED
      BY <2>1, <2>2, <2>3, <2>4, <2>6
  <1>6. Nat \subseteq P
    <2> HIDE DEF P
    <2> QED
      BY <1>4, <1>5, NatInductive
  <1>7. r(80) \in Registers /\ r(80).v = v(80)
    <2> HIDE DEF r, v
    <2> QED BY <1>6
  <1>8. v(80) \in State
    <2> HIDE DEF r, v
    <2> QED BY <1>7 DEF Registers
  <1>9. SHA1Transform(h, bytes) = [n \in 1..5 |-> Total[<<h[n], r(80).v[n]>>]]
    <2>1. \A n \in 0..80 : r(n) \in Registers
      <3> HIDE DEF r, v
      <3> QED BY <1>6
    <2> DEFINE N == 5
               M == 80
    <2>2. N \in Nat /\ M = 16 * N /\ \A n \in 0..M : r(n) \in Registers
      <3> HIDE DEF w, block, start, r, v, P
      <3> QED BY <2>1
    <2> HIDE DEF N, M
    <2>3. Sixteens(Rounds, Registers, N)[start] = r(M)
      BY <1>2, <2>2, SixteensIs
    <2>4. SHA1Transform(h, bytes) =
              [n \in 1..5 |-> Total[<<h[n], Sixteens(Rounds, Registers, 5)[start].v[n]>>]]
      BY DEF SHA1Transform, start, block
    <2> HIDE DEF r
    <2> QED
      BY <2>3, <2>4 DEF N, M
  <1>10. StandardBlock(h, bytes) = [n \in 1..5 |-> Total[<<h[n], v(80)[n]>>]]
    <2>1. \A n \in 0..80 : v(n) \in State
      <3> HIDE DEF r, v
      <3> QED BY <1>6 DEF Registers
    <2> DEFINE N == 5
               M == 80
    <2>2. N \in Nat /\ M = 16 * N /\ \A n \in 0..M : v(n) \in State
      <3> HIDE DEF w, block, start, r, v, P
      <3> QED BY <2>1
    <2> HIDE DEF N, M
    <2>3. Sixteens(StandardRounds[w], State, N)[h] = v(M)
      BY <2>2, SixteensIs
    <2>4. StandardBlock(h, bytes) =
              [n \in 1..5 |-> Total[<<h[n], Sixteens(StandardRounds[w], State, 5)[h][n]>>]]
      BY DEF StandardBlock, w
    <2> HIDE DEF v
    <2> QED
      BY <2>3, <2>4 DEF N, M
  <1> HIDE DEF r, v
  <1>11. SHA1Transform(h, bytes) = StandardBlock(h, bytes)
    BY <1>7, <1>9, <1>10
  <1>12. \A n \in 1..5 : Total[<<h[n], v(80)[n]>>] \in UInt32
    <2> TAKE n \in 1..5
    <2>1. <<h[n], v(80)[n]>> \in Seq(UInt32)
      BY <1>8 DEF State
    <2> QED
      BY Zenon, <2>1, TotalType
  <1>13. StandardBlock(h, bytes) \in State
    BY <1>10, <1>12 DEF State
  <1> QED
    BY <1>11, <1>13

------------------------------------------------------------------------------
(* SHA-1: a context and the bytes it has taken in *)

(* The state after the first n blocks of p.                                *)
Upto(p, n) ==
    Iterate([k \in 1..(Len(p) \div 64) |-> [h \in State |->
                StandardBlock(h, SubSeq(p, 64 * k - 63, 64 * k))]], State, n)[SHA1Init(<<>>).state]

(* The initial values of SHA1Init are words.                               *)
LEMMA StartState ==
    SHA1Init(<<>>).state \in State
  <1> DEFINE a == Word(\h6745, \h2301)
             b == Word(\hEFCD, \hAB89)
             c == Word(\h98BA, \hDCFE)
             d == Word(\h1032, \h5476)
             e == Word(\hC3D2, \hE1F0)
  <1>1. SHA1Init(<<>>).state = <<a, b, c, d, e>>
    BY DEF SHA1Init
  <1>2. a \in UInt32 /\ b \in UInt32 /\ c \in UInt32 /\ d \in UInt32 /\ e \in UInt32
    BY WordType
  <1> HIDE DEF a, b, c, d, e
  <1>3. <<a, b, c, d, e>> \in State
    BY <1>2 DEF State
  <1> QED
    BY <1>1, <1>3

(* No block, no change; one block more is one compression more.            *)
LEMMA UptoNext ==
    ASSUME NEW p \in Seq(UInt8), NEW n \in Nat, 64 * (n + 1) <= Len(p), Upto(p, n) \in State
    PROVE  Upto(p, n + 1) = StandardBlock(Upto(p, n), SubSeq(p, 64 * (n + 1) - 63, 64 * (n + 1)))
  <1> DEFINE blocks == 1..(Len(p) \div 64)
             step(k) == [h \in State |-> StandardBlock(h, SubSeq(p, 64 * k - 63, 64 * k))]
             steps == [k \in blocks |-> step(k)]
             s == SHA1Init(<<>>).state
  <1>1. n + 1 \in blocks
    OBVIOUS
  <1>2. steps[n + 1] = step(n + 1)
    <2> HIDE DEF step, blocks
    <2> QED BY <1>1
  <1>3. steps[n + 1][Upto(p, n)] =
            StandardBlock(Upto(p, n), SubSeq(p, 64 * (n + 1) - 63, 64 * (n + 1)))
    <2> HIDE DEF steps
    <2> QED BY <1>2
  <1>4. \A m : Upto(p, m) = Iterate(steps, State, m)[s]
    BY DEF Upto
  <1>5. Iterate(steps, State, n + 1)[s] = steps[n + 1][Iterate(steps, State, n)[s]]
    <2> HIDE DEF steps
    <2>1. s \in State
      BY StartState
    <2> HIDE DEF s
    <2> QED BY <2>1, IterateNext
  <1> HIDE DEF steps, s
  <1> QED
    BY <1>3, <1>4, <1>5

(* The blocks determine the state, which consists of five words.           *)
LEMMA UptoSame ==
    ASSUME NEW p \in Seq(UInt8), NEW q \in Seq(UInt8), NEW N \in Nat,
           64 * N <= Len(p), 64 * N <= Len(q), \A k \in 1..(64 * N) : p[k] = q[k]
    PROVE  \A n \in 0..N : Upto(p, n) \in State /\ Upto(p, n) = Upto(q, n)
  <1> DEFINE P == {n \in Nat : n <= N => Upto(p, n) \in State /\ Upto(p, n) = Upto(q, n)}
  <1>1. 0 \in P
    <2>1. \A a : Upto(a, 0) = SHA1Init(<<>>).state
      <3> TAKE a
      <3> DEFINE steps == [k \in 1..(Len(a) \div 64) |-> [h \in State |->
                              StandardBlock(h, SubSeq(a, 64 * k - 63, 64 * k))]]
      <3>1. Upto(a, 0) = Iterate(steps, State, 0)[SHA1Init(<<>>).state]
        BY DEF Upto
      <3> HIDE DEF steps
      <3> QED
        BY <3>1, StartState, IterateZero
    <2> QED
      BY <2>1, StartState
  <1>2. ASSUME NEW n \in Nat, n \in P
        PROVE  n + 1 \in P
    <2> SUFFICES ASSUME n + 1 <= N
                 PROVE  Upto(p, n + 1) \in State /\ Upto(p, n + 1) = Upto(q, n + 1)
      OBVIOUS
    <2>1. Upto(p, n) \in State /\ Upto(p, n) = Upto(q, n)
      BY <1>2
    <2> DEFINE a == 64 * (n + 1) - 63
               b == 64 * (n + 1)
    <2>2. a \in 1..Len(p) /\ a \in 1..Len(q) /\ b \in 1..Len(p) /\ b \in 1..Len(q) /\ a <= b /\ b <= 64 * N
      OBVIOUS
    <2>3. SubSeq(p, a, b) = SubSeq(q, a, b)
      <3>1. SubSeq(p, a, b) = [k \in 1..(b - a + 1) |-> p[k + a - 1]]
        <4> HIDE DEF a, b
        <4> QED BY <2>2, PartIs
      <3>2. SubSeq(q, a, b) = [k \in 1..(b - a + 1) |-> q[k + a - 1]]
        <4> HIDE DEF a, b
        <4> QED BY <2>2, PartIs
      <3>3. \A k \in 1..(b - a + 1) : p[k + a - 1] = q[k + a - 1]
        OBVIOUS
      <3> HIDE DEF a, b
      <3> QED
        BY <3>1, <3>2, <3>3
    <2>4. Upto(p, n + 1) = StandardBlock(Upto(p, n), SubSeq(p, a, b))
      BY <2>1, <2>2, UptoNext
    <2>5. Upto(q, n + 1) = StandardBlock(Upto(q, n), SubSeq(q, a, b))
      BY <2>1, <2>2, UptoNext
    <2>6. \A x \in State : \A y : StandardBlock(x, y) \in State
      BY TransformIs
    <2> HIDE DEF a, b
    <2> QED
      BY <2>1, <2>3, <2>4, <2>5, <2>6
  <1>3. Nat \subseteq P
    <2> HIDE DEF P
    <2> QED
      BY <1>1, <1>2, NatInductive
  <1> QED
    BY <1>3

(* w is the buffer with data at position j.                                *)
Overwritten(w, L, buffer, j, data) ==
    /\ w \in [1..L -> UInt8]
    /\ \A k \in 1..L : w[k] = IF j < k /\ k <= j + Len(data) THEN data[k - j] ELSE buffer[k]

(* memcpy to position j of the buffer leaves the rest of it alone.         *)
LEMMA WrittenIs ==
    ASSUME NEW L \in Nat, NEW buffer \in [1..L -> UInt8], NEW j \in Nat, NEW data \in Seq(UInt8),
           j + Len(data) <= L
    PROVE  Overwritten(Written(buffer, j, data), L, buffer, j, data)
  <1> USE DEF Overwritten
  <1> DEFINE len == Len(data)
             a == SubSeq(buffer, 1, j)
             b == SubSeq(buffer, j + len + 1, L)
             ab == a \o data
             w == ab \o b
  <1>1. len \in Nat /\ j + len <= L /\ Len(buffer) = L /\ \A k \in 1..L : buffer[k] \in UInt8
    OBVIOUS
  <1>2. a \in Seq(UInt8) /\ Len(a) = j /\ \A k \in 1..j : a[k] = buffer[k]
    <2>1. \A k \in 1..j : buffer[k] \in UInt8
      BY <1>1
    <2>2. /\ a \in Seq(UInt8)
          /\ Len(a) = IF 1 <= j THEN j - 1 + 1 ELSE 0
          /\ \A k \in 1..(j - 1 + 1) : a[k] = buffer[1 + k - 1]
      BY <2>1, PartIs
    <2> HIDE DEF a
    <2> QED
      BY <2>2
  <1>3. b \in Seq(UInt8) /\ Len(b) = L - (j + len) /\ \A k \in 1..(L - (j + len)) : b[k] = buffer[j + len + k]
    <2>1. \A k \in (j + len + 1)..L : buffer[k] \in UInt8
      BY <1>1
    <2> DEFINE m == j + len + 1
    <2>2. m \in Int
      BY <1>1
    <2>3. /\ b \in Seq(UInt8)
          /\ Len(b) = IF m <= L THEN L - m + 1 ELSE 0
          /\ \A k \in 1..(L - m + 1) : b[k] = buffer[m + k - 1]
      <3>1. \A k \in m..L : buffer[k] \in UInt8
        BY <2>1
      <3>2. b = SubSeq(buffer, m, L)
        OBVIOUS
      <3> HIDE DEF a, b, ab, w, len, m
      <3>3. /\ SubSeq(buffer, m, L) \in Seq(UInt8)
            /\ Len(SubSeq(buffer, m, L)) = IF m <= L THEN L - m + 1 ELSE 0
            /\ \A k \in 1..(L - m + 1) : SubSeq(buffer, m, L)[k] = buffer[m + k - 1]
        BY <2>2, <3>1, PartIs
      <3> QED
        BY <3>2, <3>3
    <2> HIDE DEF b, len
    <2> QED
      BY <1>1, <2>3
  <1> HIDE DEF a, b
  <1>4. /\ ab \in Seq(UInt8) /\ Len(ab) = j + len
        /\ \A k \in 1..j : ab[k] = a[k]
        /\ \A k \in (j + 1)..(j + len) : ab[k] = data[k - j]
    BY <1>1, <1>2
  <1> HIDE DEF ab
  <1>5. /\ w \in Seq(UInt8) /\ Len(w) = L
        /\ \A k \in 1..(j + len) : w[k] = ab[k]
        /\ \A k \in (j + len + 1)..L : w[k] = b[k - (j + len)]
    <2> HIDE DEF len
    <2>1. /\ w \in Seq(UInt8) /\ Len(w) = Len(ab) + Len(b)
          /\ \A k \in 1..(Len(ab) + Len(b)) : w[k] = IF k <= Len(ab) THEN ab[k] ELSE b[k - Len(ab)]
      BY <1>3, <1>4, JoinIs
    <2> HIDE DEF w
    <2>2. Len(ab) = j + len /\ Len(b) = L - (j + len)
      BY <1>3, <1>4
    <2>3. Len(w) = L
      BY <1>1, <2>1, <2>2
    <2>4. \A k \in 1..(j + len) : w[k] = ab[k]
      BY <1>1, <2>1, <2>2
    <2>5. \A k \in (j + len + 1)..L : w[k] = b[k - (j + len)]
      BY <1>1, <2>1, <2>2
    <2> QED
      BY Zenon, <2>1, <2>3, <2>4, <2>5
  <1>6. Written(buffer, j, data) = w
    BY <1>1 DEF Written, a, b, ab
  <1> HIDE DEF w, len
  <1>7. w \in [1..L -> UInt8]
    BY <1>5
  <1>8. ASSUME NEW k \in 1..L
        PROVE  w[k] = IF j < k /\ k <= j + len THEN data[k - j] ELSE buffer[k]
    <2>1. CASE k <= j
      BY <2>1, <1>1, <1>2, <1>4, <1>5
    <2>2. CASE j < k /\ k <= j + len
      <3>1. k \in 1..(j + len) /\ k \in (j + 1)..(j + len)
        BY <2>2, <1>1
      <3>2. w[k] = ab[k] /\ ab[k] = data[k - j]
        BY <3>1, <1>4, <1>5
      <3> QED
        BY <2>2, <3>2
    <2>3. CASE j + len < k
      <3>1. w[k] = b[k - (j + len)]
        <4>1. k \in (j + len + 1)..L
          BY <2>3, <1>1
        <4> QED
          BY Zenon, <1>5, <4>1
      <3>2. b[k - (j + len)] = buffer[j + len + (k - (j + len))]
        BY <2>3, <1>1, <1>3
      <3>3. j + len + (k - (j + len)) = k
        BY <1>1
      <3>4. w[k] = buffer[k]
        BY Zenon, <3>1, <3>2, <3>3
      <3>5. ~(k <= j + len)
        BY <2>3, <1>1
      <3> QED
        BY Zenon, <3>4, <3>5
    <2> QED
      BY <1>1, <2>1, <2>2, <2>3
  <1> QED
    BY <1>6, <1>7, <1>8 DEF len

(* What the buffer holds of the bytes of d: those after the last whole      *)
(* block.                                                                  *)
Holds(buffer, d) ==
    /\ buffer \in [1..64 -> UInt8]
    /\ \A k \in 1..(Len(d) % 64) : buffer[k] = d[64 * (Len(d) \div 64) + k]

(* A context that has been given the bytes of d.                           *)
Represents(c, d) ==
    /\ c \in SHA1_CTX
    /\ c.state = Chain(d)
    /\ c.count = Len(d)
    /\ Holds(c.buffer, d)

(* Whole blocks and the rest.                                              *)
LEMMA Divided ==
    ASSUME NEW n \in Nat
    PROVE  /\ n \div 64 \in Nat /\ n % 64 \in 0..63
           /\ n = 64 * (n \div 64) + (n % 64)
  OBVIOUS

(* A quotient and a remainder are determined by each other.                *)
LEMMA Division ==
    ASSUME NEW n \in Nat, NEW q \in Nat, NEW r \in 0..63, n = 64 * q + r
    PROVE  n \div 64 = q /\ (n % 64) = r
  OBVIOUS

(* The concatenation of what was given and the data.                       *)
LEMMA Joined ==
    ASSUME NEW d \in Seq(UInt8), NEW data \in Seq(UInt8)
    PROVE  /\ d \o data \in Seq(UInt8) /\ Len(d \o data) = Len(d) + Len(data)
           /\ \A k \in 1..Len(d) : (d \o data)[k] = d[k]
           /\ \A k \in 1..Len(data) : (d \o data)[Len(d) + k] = data[k]
  OBVIOUS

(* Data that does not fill the buffer is kept there.                       *)
LEMMA ShortHolds ==
    ASSUME NEW d \in Seq(UInt8), NEW buffer, Holds(buffer, d), NEW data \in Seq(UInt8),
           (Len(d) % 64) + Len(data) <= 63
    PROVE  Holds(Written(buffer, Len(d) % 64, data), d \o data) /\ Chain(d \o data) = Chain(d)
  <1> DEFINE ld == Len(d)
             j == ld % 64
             q == ld \div 64
             len == Len(data)
             e == d \o data
             le == Len(e)
             w == Written(buffer, j, data)
  <1>1. ld \in Nat /\ len \in Nat
    OBVIOUS
  <1>2. j + len <= 63 /\ j \in 0..63 /\ q \in Nat /\ ld = 64 * q + j
    BY Zenon, <1>1, Divided
  <1>3. /\ e \in Seq(UInt8) /\ le = ld + len
        /\ \A k \in 1..ld : e[k] = d[k]
        /\ \A k \in 1..len : e[ld + k] = data[k]
    BY Joined
  <1>4. \A k \in 1..j : buffer[k] = d[64 * q + k]
    BY DEF Holds
  <1>5. /\ w \in [1..64 -> UInt8]
        /\ \A k \in 1..64 : w[k] = IF j < k /\ k <= j + len THEN data[k - j] ELSE buffer[k]
    <2>1. buffer \in [1..64 -> UInt8]
      BY DEF Holds
    <2>2. j + len <= 64 /\ j \in Nat /\ 64 \in Nat
      <3> HIDE DEF j, len
      <3> QED BY <1>1, <1>2
    <2> HIDE DEF j
    <2>3. Overwritten(w, 64, buffer, j, data)
      BY Zenon, <2>1, <2>2, WrittenIs
    <2> HIDE DEF w
    <2> QED
      BY <2>3 DEF Overwritten
  <1>6. (le \div 64) = q /\ (le % 64) = j + len
    <2> HIDE DEF j, q, len, le, ld
    <2>1. le \in Nat /\ j + len \in 0..63 /\ le = 64 * q + (j + len)
      BY <1>1, <1>2, <1>3
    <2> QED
      BY Zenon, <1>2, <2>1, Division
  <1>7. Chain(e) = Upto(e, q) /\ Chain(d) = Upto(d, q)
    BY <1>6 DEF Chain, Upto
  <1> HIDE DEF j, q, len, le, ld, e, w
  <1>8. \A k \in 1..(j + len) : w[k] = e[64 * q + k]
    <2> TAKE k \in 1..(j + len)
    <2>1. CASE k <= j
      <3>1. k \in 1..j /\ k \in 1..64 /\ ~(j < k) /\ 64 * q + k \in 1..ld
        BY <2>1, <1>1, <1>2
      <3>2. e[64 * q + k] = d[64 * q + k]
        BY <3>1, <1>3
      <3>3. w[k] = buffer[k]
        BY Zenon, <3>1, <1>5
      <3>4. buffer[k] = d[64 * q + k]
        BY <3>1, <1>4
      <3> QED
        BY <3>2, <3>3, <3>4
    <2>2. CASE j < k
      <3>1. k \in 1..64 /\ k <= j + len /\ k - j \in 1..len /\ 64 * q + k = ld + (k - j)
        BY <2>2, <1>1, <1>2
      <3>2. e[ld + (k - j)] = data[k - j]
        BY <3>1, <1>3
      <3>3. w[k] = data[k - j]
        BY Zenon, <2>2, <3>1, <1>5
      <3> QED
        BY <3>1, <3>2, <3>3
    <2> QED
      BY <1>1, <1>2, <2>1, <2>2
  <1>9. Upto(e, q) = Upto(d, q)
    <2>1. 64 * q <= ld /\ 64 * q <= le /\ (\A k \in 1..(64 * q) : d[k] = e[k]) /\ q \in 0..q
      BY <1>1, <1>2, <1>3
    <2> QED
      BY Zenon, <1>2, <1>3, <2>1, UptoSame DEF ld, le
  <1>10. Holds(w, e)
    BY Zenon, <1>5, <1>6, <1>8 DEF Holds, le
  <1> QED
    BY <1>7, <1>9, <1>10 DEF w, e, j, ld

------------------------------------------------------------------------------
(* SHA-1: SHA1Update *)

(* A part of a sequence, byte by byte.                                     *)
LEMMA SliceIs ==
    ASSUME NEW p \in Seq(UInt8), NEW a \in Nat, NEW b \in Nat, 1 <= a, b <= Len(p), a <= b + 1
    PROVE  /\ SubSeq(p, a, b) \in Seq(UInt8)
           /\ Len(SubSeq(p, a, b)) = b - a + 1
           /\ \A k \in 1..(b - a + 1) : SubSeq(p, a, b)[k] = p[a + k - 1]
  <1>1. \A k \in a..b : p[k] \in UInt8
    OBVIOUS
  <1>2. /\ SubSeq(p, a, b) \in Seq(UInt8)
        /\ Len(SubSeq(p, a, b)) = IF a <= b THEN b - a + 1 ELSE 0
        /\ \A k \in 1..(b - a + 1) : SubSeq(p, a, b)[k] = p[a + k - 1]
    BY <1>1, PartIs
  <1> QED
    BY <1>2

(* An array of L bytes that are those of p from a on is that part of p.    *)
LEMMA SliceWhen ==
    ASSUME NEW p \in Seq(UInt8), NEW a \in Nat, NEW b \in Nat, 1 <= a, b <= Len(p), a <= b + 1,
           NEW L \in Nat, L = b - a + 1, NEW w \in [1..L -> UInt8],
           \A k \in 1..L : w[k] = p[a + k - 1]
    PROVE  w = SubSeq(p, a, b)
  <1> DEFINE s == SubSeq(p, a, b)
  <1>1. s \in Seq(UInt8) /\ Len(s) = L /\ \A k \in 1..L : s[k] = p[a + k - 1]
    BY SliceIs
  <1> HIDE DEF s
  <1>2. s = [k \in 1..L |-> s[k]]
    BY <1>1
  <1>3. w = [k \in 1..L |-> w[k]]
    OBVIOUS
  <1>4. \A k \in 1..L : s[k] = w[k]
    BY Zenon, <1>1
  <1>5. s = w
    BY <1>2, <1>3, <1>4
  <1> QED
    BY <1>5 DEF s

(* A part of the data is a part of what has been given after it.           *)
LEMMA SliceOfData ==
    ASSUME NEW d \in Seq(UInt8), NEW data \in Seq(UInt8),
           NEW a \in Nat, NEW b \in Nat, 1 <= a, b <= Len(data), a <= b + 1
    PROVE  SubSeq(data, a, b) = SubSeq(d \o data, Len(d) + a, Len(d) + b)
  <1> DEFINE ld == Len(d)
             len == Len(data)
             e == d \o data
             L == b - a + 1
             w == SubSeq(data, a, b)
  <1>1. ld \in Nat /\ len \in Nat /\ L \in Nat /\ b <= len
    OBVIOUS
  <1>2. /\ e \in Seq(UInt8) /\ Len(e) = ld + len
        /\ \A k \in 1..len : e[ld + k] = data[k]
    BY Joined
  <1>3. w \in Seq(UInt8) /\ Len(w) = L /\ \A k \in 1..L : w[k] = data[a + k - 1]
    BY SliceIs
  <1> HIDE DEF ld, len, e, w
  <1>4. \A k \in 1..L : w[k] = e[(ld + a) + k - 1]
    <2> TAKE k \in 1..L
    <2>1. a + k - 1 \in 1..len /\ (ld + a) + k - 1 = ld + (a + k - 1)
      BY <1>1
    <2>2. e[ld + (a + k - 1)] = data[a + k - 1]
      BY <2>1, <1>2
    <2>3. w[k] = data[a + k - 1]
      BY <1>3
    <2> QED
      BY <2>1, <2>2, <2>3
  <1>5. w \in [1..L -> UInt8]
    BY <1>1, <1>3
  <1>6. /\ ld + a \in Nat /\ ld + b \in Nat /\ 1 <= ld + a /\ ld + b <= Len(e) /\ ld + a <= ld + b + 1
        /\ L = (ld + b) - (ld + a) + 1
    BY <1>1, <1>2
  <1>7. w = SubSeq(e, ld + a, ld + b)
    <2> DEFINE x == ld + a
               y == ld + b
    <2> HIDE DEF x, y, L
    <2> QED
      BY <1>1, <1>2, <1>4, <1>5, <1>6, SliceWhen DEF x, y
  <1> QED
    BY <1>7 DEF w, ld, e

(* The buffer, filled up with data, is the block that was begun.           *)
LEMMA FirstBlock ==
    ASSUME NEW d \in Seq(UInt8), NEW buffer, Holds(buffer, d), NEW data \in Seq(UInt8),
           64 - (Len(d) % 64) <= Len(data)
    PROVE  LET j == Len(d) % 64
               q == Len(d) \div 64
               first == Written(buffer, j, SubSeq(data, 1, 64 - j))
           IN  /\ first \in [1..64 -> UInt8]
               /\ first = SubSeq(d \o data, 64 * (q + 1) - 63, 64 * (q + 1))
  <1> DEFINE ld == Len(d)
             j == ld % 64
             q == ld \div 64
             len == Len(data)
             e == d \o data
             s == SubSeq(data, 1, 64 - j)
             w == Written(buffer, j, s)
  <1>1. ld \in Nat /\ len \in Nat /\ 64 - j <= len
    OBVIOUS
  <1>2. j \in 0..63 /\ q \in Nat /\ ld = 64 * q + j
    BY Zenon, <1>1, Divided
  <1>3. /\ e \in Seq(UInt8) /\ Len(e) = ld + len
        /\ \A k \in 1..ld : e[k] = d[k]
        /\ \A k \in 1..len : e[ld + k] = data[k]
    BY Joined
  <1>4. \A k \in 1..j : buffer[k] = d[64 * q + k]
    BY DEF Holds
  <1>5. s \in Seq(UInt8) /\ Len(s) = 64 - j /\ \A k \in 1..(64 - j) : s[k] = data[k]
    <2> DEFINE b == 64 - j
    <2>1. b \in Nat /\ 1 \in Nat /\ 1 <= b + 1 /\ b <= Len(data)
      <3> HIDE DEF j
      <3> QED BY <1>1, <1>2 DEF len
    <2> HIDE DEF b
    <2>2. /\ SubSeq(data, 1, b) \in Seq(UInt8) /\ Len(SubSeq(data, 1, b)) = b - 1 + 1
          /\ \A k \in 1..(b - 1 + 1) : SubSeq(data, 1, b)[k] = data[1 + k - 1]
      BY <2>1, SliceIs
    <2> DEFINE t == SubSeq(data, 1, b)
    <2> HIDE DEF t
    <2>3. t \in Seq(UInt8) /\ Len(t) = b /\ \A k \in 1..b : t[k] = data[k]
      BY <2>1, <2>2 DEF t
    <2> QED
      BY Zenon, <2>3 DEF t, b
  <1>6. buffer \in [1..64 -> UInt8]
    BY DEF Holds
  <1> HIDE DEF j, q, len, ld, e, s
  <1>7. /\ w \in [1..64 -> UInt8]
        /\ \A k \in 1..64 : w[k] = IF j < k /\ k <= j + Len(s) THEN s[k - j] ELSE buffer[k]
    <2>1. j + Len(s) <= 64 /\ j \in Nat /\ 64 \in Nat
      BY <1>2, <1>5
    <2>2. Overwritten(w, 64, buffer, j, s)
      BY Zenon, <1>5, <1>6, <2>1, WrittenIs
    <2> HIDE DEF w
    <2> QED
      BY <2>2 DEF Overwritten
  <1> HIDE DEF w
  <1>8. \A k \in 1..64 : w[k] = e[64 * q + k]
    <2> TAKE k \in 1..64
    <2>1. CASE k <= j
      <3>1. k \in 1..j /\ ~(j < k) /\ 64 * q + k \in 1..ld
        BY <2>1, <1>1, <1>2
      <3>2. e[64 * q + k] = d[64 * q + k]
        BY <3>1, <1>3
      <3>3. w[k] = buffer[k]
        BY Zenon, <3>1, <1>7
      <3>4. buffer[k] = d[64 * q + k]
        BY <3>1, <1>4
      <3> QED
        BY <3>2, <3>3, <3>4
    <2>2. CASE j < k
      <3>1. k - j \in 1..(64 - j) /\ k - j \in 1..len /\ 64 * q + k = ld + (k - j) /\ k <= j + (64 - j)
        BY <2>2, <1>1, <1>2
      <3>2. e[ld + (k - j)] = data[k - j]
        BY <3>1, <1>3
      <3>3. s[k - j] = data[k - j]
        BY <3>1, <1>5
      <3>4. w[k] = s[k - j]
        <4>1. j < k /\ k <= j + Len(s)
          BY <2>2, <3>1, <1>5
        <4> QED
          BY Zenon, <4>1, <1>7
      <3> QED
        BY <3>1, <3>2, <3>3, <3>4
    <2> QED
      BY <1>2, <2>1, <2>2
  <1>9. w = SubSeq(e, 64 * (q + 1) - 63, 64 * (q + 1))
    <2> DEFINE a == 64 * (q + 1) - 63
               b == 64 * (q + 1)
               L == 64
    <2>1. /\ a \in Nat /\ b \in Nat /\ 1 <= a /\ b <= Len(e) /\ a <= b + 1 /\ L = b - a + 1 /\ L \in Nat
      BY <1>1, <1>2, <1>3
    <2>2. \A k \in 1..L : w[k] = e[a + k - 1]
      <3> TAKE k \in 1..L
      <3>1. a + k - 1 = 64 * q + k
        BY <1>2
      <3> HIDE DEF a
      <3> QED
        BY Zenon, <3>1, <1>8
    <2>3. w \in [1..L -> UInt8]
      BY <1>7
    <2> HIDE DEF a, b, L
    <2>4. w = SubSeq(e, a, b)
      BY <1>3, <2>1, <2>2, <2>3, SliceWhen
    <2> QED
      BY <2>4 DEF a, b
  <1> QED
    BY Zenon, <1>7, <1>9 DEF w, s, j, q, ld, e

(* The n-th block that SHA1Update makes of a buffer that holds the last     *)
(* bytes of d, and of the data.                                            *)
BlockOf(d, buffer, data, n) ==
    LET j == Len(d) % 64
        first == Written(buffer, j, SubSeq(data, 1, 64 - j))
    IN  IF n = 1 THEN first ELSE SubSeq(data, 64 * (n - 1) - j + 1, 64 * n - j)

(* The n-th block that SHA1Update transforms is the n-th that ends within   *)
(* the data.                                                               *)
LEMMA BlockIs ==
    ASSUME NEW d \in Seq(UInt8), NEW buffer, Holds(buffer, d), NEW data \in Seq(UInt8),
           NEW n \in Nat, 1 <= n, 64 * n <= (Len(d) % 64) + Len(data)
    PROVE  BlockOf(d, buffer, data, n) =
               SubSeq(d \o data, 64 * ((Len(d) \div 64) + n) - 63, 64 * ((Len(d) \div 64) + n))
  <1> DEFINE ld == Len(d)
             j == ld % 64
             q == ld \div 64
             len == Len(data)
             e == d \o data
             first == Written(buffer, j, SubSeq(data, 1, 64 - j))
  <1>1. ld \in Nat /\ len \in Nat /\ 64 * n <= j + len
    OBVIOUS
  <1>2. j \in 0..63 /\ q \in Nat /\ ld = 64 * q + j
    BY Zenon, <1>1, Divided
  <1>3. CASE n = 1
    <2>1. 64 - (Len(d) % 64) <= Len(data)
      <3> HIDE DEF j, len
      <3>1. 64 - j <= len
        BY <1>1, <1>2, <1>3
      <3> QED
        BY <3>1 DEF j, ld, len
    <2>2. first = SubSeq(e, 64 * (q + 1) - 63, 64 * (q + 1))
      BY ZenonT(40), <2>1, FirstBlock
    <2> HIDE DEF first, q, e
    <2> QED
      BY <1>3, <2>2, Zenon DEF q, e, first, BlockOf
  <1>4. CASE n # 1
    <2> DEFINE a == 64 * (n - 1) - j + 1
               b == 64 * n - j
    <2>1. /\ a \in Nat /\ b \in Nat /\ 1 <= a /\ b <= Len(data) /\ a <= b + 1
          /\ ld + a = 64 * (q + n) - 63 /\ ld + b = 64 * (q + n)
      <3> HIDE DEF j, q, len, ld
      <3>1. b <= len
        BY <1>1, <1>2
      <3> QED
        BY <1>1, <1>2, <1>4, <3>1 DEF len
    <2> HIDE DEF a, b
    <2>2. SubSeq(data, a, b) = SubSeq(d \o data, Len(d) + a, Len(d) + b)
      BY <2>1, SliceOfData
    <2>3. SubSeq(data, a, b) = SubSeq(e, 64 * (q + n) - 63, 64 * (q + n))
      <3>1. SubSeq(data, a, b) = SubSeq(e, ld + a, ld + b)
        BY <2>2
      <3> HIDE DEF ld, e, q
      <3> QED
        BY Zenon, <2>1, <3>1
    <2> HIDE DEF first, e, q
    <2> QED
      BY <1>4, <2>3, Zenon DEF a, b, e, q, j, ld, BlockOf
  <1> QED
    BY <1>3, <1>4

(* The state after q blocks is the same whatever follows them.             *)
LEMMA ChainIs ==
    ASSUME NEW d \in Seq(UInt8), NEW data \in Seq(UInt8)
    PROVE  /\ Chain(d) \in State
           /\ Chain(d) = Upto(d \o data, Len(d) \div 64)
           /\ Chain(d) = Upto(d, Len(d) \div 64)
  <1> DEFINE ld == Len(d)
             q == ld \div 64
             len == Len(data)
             e == d \o data
  <1>1. ld \in Nat /\ len \in Nat
    OBVIOUS
  <1>2. q \in Nat /\ 64 * q <= ld
    BY <1>1, Divided
  <1>3. /\ e \in Seq(UInt8) /\ Len(e) = ld + len
        /\ \A k \in 1..ld : e[k] = d[k]
    BY Joined
  <1>4. Chain(d) = Upto(d, q)
    BY DEF Chain, Upto
  <1> HIDE DEF q, len, e, ld
  <1>5. Upto(d, q) \in State /\ Upto(d, q) = Upto(e, q)
    <2>1. 64 * q <= ld /\ 64 * q <= Len(e) /\ (\A k \in 1..(64 * q) : d[k] = e[k]) /\ q \in 0..q
      BY <1>1, <1>2, <1>3
    <2> QED
      BY <1>2, <1>3, <2>1, UptoSame DEF ld
  <1> QED
    BY <1>4, <1>5 DEF q, e, ld

(* The blocks that end within the data.                                    *)
LEMMA BlocksIs ==
    ASSUME NEW j \in 0..63, NEW len \in Nat, j + len > 63
    PROVE  LET blocks == 1 + Blocks(len - (64 - j)) IN
           /\ blocks \in Nat /\ 1 <= blocks
           /\ 64 * blocks <= j + len /\ j + len - 64 * blocks \in 0..63
  <1> DEFINE n == len - (64 - j)
             q == n \div 64
             r == n % 64
  <1>1. n \in Nat
    OBVIOUS
  <1>2. q \in Nat /\ r \in 0..63 /\ n = 64 * q + r
    BY <1>1, Divided
  <1>3. n = len - (64 - j)
    OBVIOUS
  <1>4. Blocks(len - (64 - j)) = q
    BY DEF Blocks
  <1> HIDE DEF n, q, r
  <1> QED
    BY <1>2, <1>3, <1>4

(* The transformations of these blocks.                                    *)
TransformsOf(d, buffer, data, blocks) ==
    [n \in 1..blocks |-> [s \in State |-> SHA1Transform(s, BlockOf(d, buffer, data, n))]]

(* SHA1Update, when the buffer gets full: the state.                       *)
LEMMA FullState ==
    ASSUME NEW d \in Seq(UInt8), NEW buffer, Holds(buffer, d), NEW data \in Seq(UInt8),
           NEW blocks \in Nat, 64 * blocks <= (Len(d) % 64) + Len(data)
    PROVE  Iterate(TransformsOf(d, buffer, data, blocks), State, blocks)[Chain(d)] =
               Upto(d \o data, (Len(d) \div 64) + blocks)
  <1> DEFINE ld == Len(d)
             j == ld % 64
             q == ld \div 64
             len == Len(data)
             e == d \o data
             block(n) == BlockOf(d, buffer, data, n)
             transform(n) == [s \in State |-> SHA1Transform(s, block(n))]
             transforms == [n \in 1..blocks |-> transform(n)]
             h == Chain(d)
             P == {m \in Nat : m <= blocks => /\ Upto(e, q + m) \in State
                                              /\ Iterate(transforms, State, m)[h] = Upto(e, q + m)}
  <1>1. ld \in Nat /\ len \in Nat /\ 64 * blocks <= j + len
    OBVIOUS
  <1>2. j \in 0..63 /\ q \in Nat /\ ld = 64 * q + j
    BY Zenon, <1>1, Divided
  <1>3. e \in Seq(UInt8) /\ Len(e) = ld + len
    BY Joined
  <1>4. h \in State /\ h = Upto(e, q)
    BY ChainIs
  <1>5. ASSUME NEW n \in 1..blocks
        PROVE  block(n) = SubSeq(e, 64 * (q + n) - 63, 64 * (q + n))
    <2>1. n \in Nat /\ 1 <= n /\ 64 * n <= (Len(d) % 64) + Len(data)
      <3> HIDE DEF j, len
      <3>1. n \in Nat /\ 1 <= n /\ 64 * n <= j + len
        BY <1>1, <1>2
      <3> QED
        BY <3>1 DEF j, len, ld
    <2> QED
      BY <2>1, BlockIs
  <1> HIDE DEF j, q, len, ld, e, h, block
  <1>6. 0 \in P
    <2>1. Iterate(transforms, State, 0)[h] = h
      <3> HIDE DEF transforms
      <3> QED BY <1>4, IterateZero
    <2>2. q + 0 = q
      BY <1>2
    <2> HIDE DEF transforms
    <2> QED
      BY <1>4, <2>1, <2>2
  <1>7. ASSUME NEW m \in Nat, m \in P
        PROVE  m + 1 \in P
    <2> DEFINE it(k) == Iterate(transforms, State, k)[h]
    <2> HIDE DEF transforms
    <2> SUFFICES ASSUME m + 1 <= blocks
                 PROVE  Upto(e, q + (m + 1)) \in State /\ it(m + 1) = Upto(e, q + (m + 1))
      OBVIOUS
    <2>1. Upto(e, q + m) \in State /\ it(m) = Upto(e, q + m)
      BY <1>7
    <2>2. it(m + 1) = transforms[m + 1][it(m)]
      <3> HIDE DEF transform, P
      <3>1. h \in State
        BY <1>4
      <3> QED
        BY <3>1, IterateNext
    <2>3. m + 1 \in 1..blocks
      OBVIOUS
    <2>4. transforms[m + 1] = transform(m + 1)
      <3> HIDE DEF transform
      <3> QED BY <2>3 DEF transforms
    <2> DEFINE B == block(m + 1)
               U == Upto(e, q + m)
    <2>5. transform(m + 1)[U] = SHA1Transform(U, B)
      BY <2>1
    <2>6. B = SubSeq(e, 64 * (q + (m + 1)) - 63, 64 * (q + (m + 1)))
      BY <2>3, <1>5
    <2> HIDE DEF it, transform, B
    <2>7. SHA1Transform(U, B) \in State /\ SHA1Transform(U, B) = StandardBlock(U, B)
      BY <2>1, TransformIs
    <2> DEFINE k == q + m
    <2>8. k \in Nat /\ q + (m + 1) = k + 1 /\ 64 * (k + 1) <= Len(e)
      BY <1>1, <1>2, <1>3
    <2>9. Upto(e, k + 1) = StandardBlock(U, SubSeq(e, 64 * (k + 1) - 63, 64 * (k + 1)))
      <3>1. Upto(e, k) \in State
        BY <2>1
      <3> HIDE DEF k
      <3>2. Upto(e, k + 1) = StandardBlock(Upto(e, k), SubSeq(e, 64 * (k + 1) - 63, 64 * (k + 1)))
        BY <1>3, <2>8, <3>1, UptoNext
      <3> QED
        BY <3>2 DEF k
    <2>10. Upto(e, q + (m + 1)) = StandardBlock(U, B)
      <3> HIDE DEF k, U
      <3> QED BY <2>6, <2>8, <2>9
    <2>11. it(m + 1) = SHA1Transform(U, B)
      BY <2>1, <2>2, <2>4, <2>5
    <2> HIDE DEF U
    <2> QED
      BY <2>7, <2>10, <2>11
  <1>8. Nat \subseteq P
    <2> HIDE DEF P
    <2> QED
      BY <1>6, <1>7, NatInductive
  <1>9. Iterate(transforms, State, blocks)[h] = Upto(e, q + blocks)
    <2> HIDE DEF transforms
    <2> QED BY <1>8
  <1> QED
    BY <1>9, Zenon DEF q, ld, e, h, block, TransformsOf

(* What SHA1Update leaves in the buffer then.                              *)
KeptOf(d, first, data, blocks) ==
    Written(first, 0, SubSeq(data, 64 * blocks - (Len(d) % 64) + 1, Len(data)))

(* The same as Holds, of a buffer of any length.                           *)
Kept(L, buffer, d) ==
    /\ buffer \in [1..L -> UInt8]
    /\ \A k \in 1..(Len(d) % 64) : buffer[k] = d[64 * (Len(d) \div 64) + k]

(* SHA1Update, when the buffer gets full: the buffer afterwards, and the    *)
(* number of blocks.                                                       *)
LEMMA FullKeeps ==
    ASSUME NEW d \in Seq(UInt8), NEW data \in Seq(UInt8),
           NEW L \in Nat, 64 <= L, NEW first \in [1..L -> UInt8],
           NEW blocks \in Nat, 1 <= blocks,
           (Len(d) % 64) + Len(data) - 64 * blocks \in 0..63
    PROVE  /\ Kept(L, KeptOf(d, first, data, blocks), d \o data)
           /\ Len(d \o data) \div 64 = (Len(d) \div 64) + blocks
  <1> DEFINE ld == Len(d)
             j == ld % 64
             q == ld \div 64
             len == Len(data)
             e == d \o data
             le == Len(e)
             a == 64 * blocks - j + 1
             r == j + len - 64 * blocks
             s == SubSeq(data, a, len)
             w == Written(first, 0, s)
  <1>1. ld \in Nat /\ len \in Nat /\ r \in 0..63
    OBVIOUS
  <1>2. j \in 0..63 /\ q \in Nat /\ ld = 64 * q + j
    BY Zenon, <1>1, Divided
  <1>3. /\ e \in Seq(UInt8) /\ le = ld + len
        /\ \A k \in 1..len : e[ld + k] = data[k]
    BY Joined
  <1> HIDE DEF ld, j, q, e, le
  <1>4. a \in Nat /\ 1 <= a /\ a <= len + 1 /\ len - a + 1 = r
    <2>1. blocks \in Nat /\ 1 <= blocks
      OBVIOUS
    <2> HIDE DEF len
    <2> QED
      BY <1>1, <1>2, <2>1
  <1>5. s \in Seq(UInt8) /\ Len(s) = r /\ \A k \in 1..r : s[k] = data[a + k - 1]
    <2> HIDE DEF a, r
    <2>1. /\ s \in Seq(UInt8) /\ Len(s) = len - a + 1
          /\ \A k \in 1..(len - a + 1) : s[k] = data[a + k - 1]
      <3> HIDE DEF w
      <3>1. len <= Len(data)
        BY <1>1
      <3>2. s = SubSeq(data, a, len)
        OBVIOUS
      <3> HIDE DEF s, len
      <3>3. /\ SubSeq(data, a, len) \in Seq(UInt8) /\ Len(SubSeq(data, a, len)) = len - a + 1
            /\ \A k \in 1..(len - a + 1) : SubSeq(data, a, len)[k] = data[a + k - 1]
        BY Zenon, <1>1, <1>4, <3>1, SliceIs
      <3> QED
        BY Zenon, <3>2, <3>3
    <2> QED
      BY <1>4, <2>1
  <1> HIDE DEF s, len
  <1>6. (le \div 64) = q + blocks /\ (le % 64) = r
    <2>1. blocks \in Nat /\ le = ld + len
      BY <1>3
    <2>2. le \in Nat /\ q + blocks \in Nat
      BY <1>1, <1>2, <2>1
    <2>3. le = 64 * (q + blocks) + r
      BY <1>1, <1>2, <2>1
    <2> HIDE DEF r
    <2> QED
      BY Zenon, <1>1, <2>2, <2>3, Division
  <1>7. /\ w \in [1..L -> UInt8]
        /\ \A k \in 1..L : w[k] = IF 0 < k /\ k <= 0 + Len(s) THEN s[k - 0] ELSE first[k]
    <2> HIDE DEF r
    <2>1. 0 + Len(s) <= L /\ 0 \in Nat
      BY <1>1, <1>5
    <2>2. Overwritten(w, L, first, 0, s)
      BY Zenon, <1>5, <2>1, WrittenIs
    <2> HIDE DEF w
    <2> QED
      BY <2>2 DEF Overwritten
  <1> HIDE DEF w
  <1>8. \A k \in 1..r : w[k] = e[64 * (q + blocks) + k]
    <2> TAKE k \in 1..r
    <2>1. /\ k \in 1..L /\ 0 < k /\ k <= 0 + Len(s) /\ k - 0 = k
          /\ a + k - 1 \in 1..len /\ 64 * (q + blocks) + k = ld + (a + k - 1)
      <3> HIDE DEF r
      <3>1. k \in Nat /\ 1 <= k /\ k <= r /\ r \in Nat /\ r <= 63 /\ Len(s) = r
        BY <1>1, <1>5
      <3>2. a = 64 * blocks - j + 1
        OBVIOUS
      <3> HIDE DEF a
      <3>3. /\ k \in 1..L /\ 0 < k /\ k <= 0 + Len(s) /\ k - 0 = k
            /\ a + k - 1 \in 1..len
        BY <1>1, <1>4, <3>1
      <3>4. 64 * (q + blocks) + k = ld + (a + k - 1)
        BY <1>2, <3>1, <3>2
      <3> QED
        BY <3>3, <3>4
    <2> HIDE DEF r, a
    <2>2. w[k] = s[k]
      BY <2>1, <1>7
    <2>3. s[k] = data[a + k - 1]
      BY <1>5
    <2>4. e[ld + (a + k - 1)] = data[a + k - 1]
      BY <2>1, <1>3
    <2> QED
      BY <2>1, <2>2, <2>3, <2>4
  <1> HIDE DEF r
  <1>9. Kept(L, w, e)
    BY <1>6, <1>7, <1>8 DEF Kept, le
  <1> QED
    BY <1>6, <1>9, Zenon DEF w, s, a, j, ld, len, e, q, le, KeptOf

(* SHA1Update adds its data to what the context has been given.            *)
LEMMA UpdateRepresents ==
    ASSUME NEW c, NEW d \in Seq(UInt8), Represents(c, d), NEW data \in Seq(UInt8)
    PROVE  Represents(SHA1Update(c, data), d \o data)
  <1> DEFINE ld == Len(d)
             j == ld % 64
             len == Len(data)
             e == d \o data
             buffer == c.buffer
             h == c.state
             u == SHA1Update(c, data)
  <1>1. c \in SHA1_CTX /\ c.count = ld /\ h = Chain(d) /\ Holds(buffer, d)
    BY DEF Represents
  <1>2. ld \in Nat /\ len \in Nat /\ h \in State /\ c.count % 64 = j
    <2>1. ld \in Nat /\ len \in Nat
      OBVIOUS
    <2>2. h \in State
      BY <1>1 DEF SHA1_CTX
    <2> QED
      BY <1>1, <2>1, <2>2
  <1>3. j \in 0..63
    BY Zenon, <1>2, Divided
  <1>4. e \in Seq(UInt8) /\ Len(e) = ld + len
    BY Joined
  <1>5. \A x \in State : \A y \in [1..64 -> UInt8] :
            [state |-> x, count |-> ld + len, buffer |-> y] \in SHA1_CTX
    BY <1>2 DEF SHA1_CTX
  <1>6. CASE ~Full(j, len)
    <2> DEFINE w == Written(buffer, j, data)
    <2>1. u = [c EXCEPT !.count = @ + len, !.buffer = Written(@, j, data)]
      BY <1>1, <1>6 DEF SHA1Update
    <2>2. u = [state |-> h, count |-> ld + len, buffer |-> w]
      <3> HIDE DEF u, j, len, ld
      <3> QED
        BY Zenon, <1>1, <2>1 DEF SHA1_CTX
    <2>3. (Len(d) % 64) + Len(data) <= 63
      <3> HIDE DEF j, len
      <3>1. j + len <= 63
        BY <1>2, <1>3, <1>6 DEF Full
      <3> QED
        BY <3>1 DEF j, len, ld
    <2>4. Holds(w, e) /\ Chain(e) = Chain(d)
      BY <1>1, <2>3, ShortHolds
    <2>5. w \in [1..64 -> UInt8]
      BY <2>4 DEF Holds
    <2> HIDE DEF w, u, e, h, ld, len
    <2>6. u \in SHA1_CTX
      BY Zenon, <1>2, <1>5, <2>2, <2>5
    <2>7. u.state = Chain(e) /\ u.count = Len(e) /\ u.buffer = w
      BY <1>1, <1>4, <2>2, <2>4
    <2>8. Represents(u, e)
      BY <2>4, <2>6, <2>7 DEF Represents
    <2> QED
      BY <2>8 DEF u, e
  <1>7. CASE Full(j, len)
    <2> DEFINE blocks == 1 + Blocks(len - (64 - j))
               first == Written(buffer, j, SubSeq(data, 1, 64 - j))
               block(n) == IF n = 1 THEN first ELSE SubSeq(data, 64 * (n - 1) - j + 1, 64 * n - j)
               transforms == [n \in 1..blocks |-> [s \in State |-> SHA1Transform(s, block(n))]]
               w == Written(first, 0, SubSeq(data, 64 * blocks - j + 1, len))
               it == Iterate(transforms, State, blocks)[h]
               q == ld \div 64
    <2>1. u = [state |-> it, count |-> c.count + len, buffer |-> w]
      BY <1>1, <1>7 DEF SHA1Update
    <2>2. /\ blocks \in Nat /\ 1 <= blocks /\ 64 * blocks <= j + len
          /\ j + len - 64 * blocks \in 0..63
      <3>1. j + len > 63
        BY <1>7 DEF Full
      <3> HIDE DEF j, len, ld, e, h, u, first, block, transforms, w, it, q
      <3> QED
        BY ZenonT(40), <1>2, <1>3, <3>1, BlocksIs
    <2>3. first \in [1..64 -> UInt8]
      <3>1. 64 - (Len(d) % 64) <= Len(data)
        <4> HIDE DEF j, len
        <4>1. 64 - j <= len
          BY <1>2, <1>3, <1>7 DEF Full
        <4> QED
          BY <4>1 DEF j, len, ld
      <3> QED
        BY <1>1, <3>1, FirstBlock
    <2>4. it = Upto(e, q + blocks)
      <3>1. 64 * blocks <= (Len(d) % 64) + Len(data)
        BY <2>2
      <3> HIDE DEF blocks
      <3>2. Iterate(TransformsOf(d, buffer, data, blocks), State, blocks)[Chain(d)] =
                Upto(e, q + blocks)
        <4>1. blocks \in Nat /\ Holds(buffer, d)
          BY Zenon, <1>1, <2>2
        <4> HIDE DEF buffer, ld, j, len, e, h, u, first, block, transforms, w, it, q
        <4>2. Iterate(TransformsOf(d, buffer, data, blocks), State, blocks)[Chain(d)] =
                  Upto(d \o data, (Len(d) \div 64) + blocks)
          BY ZenonT(40), <3>1, <4>1, FullState
        <4> QED
          BY Zenon, <4>2 DEF e, q, ld
      <3>3. TransformsOf(d, buffer, data, blocks) = transforms
        BY Zenon DEF TransformsOf, BlockOf
      <3> QED
        BY Zenon, <1>1, <3>2, <3>3
    <2>5. Holds(w, e) /\ Len(e) \div 64 = q + blocks
      <3> HIDE DEF blocks, first
      <3> DEFINE v == KeptOf(d, first, data, blocks)
      <3>1. 64 \in Nat /\ 64 <= 64 /\ (Len(d) % 64) + Len(data) - 64 * blocks \in 0..63
        BY <2>2
      <3>2. Kept(64, v, d \o data) /\ Len(d \o data) \div 64 = (Len(d) \div 64) + blocks
        <4>1. blocks \in Nat /\ 1 <= blocks
          BY Zenon, <2>2
        <4> HIDE DEF v, ld, j, len, e, h, u, buffer, block, transforms, w, it, q
        <4>2. /\ Kept(64, KeptOf(d, first, data, blocks), d \o data)
              /\ Len(d \o data) \div 64 = (Len(d) \div 64) + blocks
          BY ZenonT(40), <2>3, <3>1, <4>1, FullKeeps
        <4> QED
          BY Zenon, <4>2 DEF v
      <3> HIDE DEF v
      <3>3. Holds(v, e)
        BY Zenon, <3>2 DEF Holds, Kept
      <3> QED
        BY <3>2, <3>3, Zenon DEF KeptOf, v
    <2>6. w \in [1..64 -> UInt8]
      BY <2>5 DEF Holds
    <2>7. Chain(e) = Upto(e, Len(e) \div 64) /\ Chain(e) \in State
      BY Zenon, <1>4, ChainIs
    <2> HIDE DEF w, it, u, e, h, ld, len, blocks, q, j
    <2>8. it = Chain(e)
      BY <2>4, <2>5, <2>7
    <2>9. u = [state |-> it, count |-> ld + len, buffer |-> w]
      BY <1>1, <2>1
    <2>10. u \in SHA1_CTX
      BY Zenon, <1>5, <2>6, <2>7, <2>8, <2>9
    <2>11. u.state = Chain(e) /\ u.count = Len(e) /\ u.buffer = w
      BY <1>4, <2>8, <2>9
    <2>12. Represents(u, e)
      BY <2>5, <2>10, <2>11 DEF Represents
    <2> QED
      BY <2>12 DEF u, e
  <1> QED
    BY <1>6, <1>7

------------------------------------------------------------------------------
(* SHA-1: the padding of SHA1Final *)

(* How many zeros the standard wants after a message of n bytes.           *)
ZerosOf(n) == CHOOSE z \in 0..63 : (n + 9 + z) % 64 = 0

(* There is one such number.                                               *)
LEMMA ZerosIs ==
    ASSUME NEW n \in Nat
    PROVE  /\ ZerosOf(n) \in 0..63
           /\ (n + 9 + ZerosOf(n)) % 64 = 0
           /\ \A k \in 0..63 : (n + 9 + k) % 64 = 0 => k = ZerosOf(n)
  <1> DEFINE z == ZerosOf(n)
             y == (64 - ((n + 9) % 64)) % 64
  <1>1. y \in 0..63 /\ (n + 9 + y) % 64 = 0
    OBVIOUS
  <1> HIDE DEF y
  <1>2. z \in 0..63 /\ (n + 9 + z) % 64 = 0
    BY Zenon, <1>1 DEF ZerosOf
  <1> HIDE DEF z
  <1>3. \A k \in 0..63 : (n + 9 + k) % 64 = 0 => k = z
    BY <1>2
  <1> QED
    BY <1>2, <1>3 DEF z

(* A message, the byte 128 and k zeros: what SHA1Final has given to         *)
(* SHA1Update after k iterations of its loop.                              *)
Given(m, k) == m \o <<128>> \o [n \in 1..k |-> 0]

(* The count in bits of a message, as SHA1Final computes it.               *)
CountOf(m) == [n \in 1..8 |-> IF n <= 4 THEN 0 ELSE Octet(8 * Len(m), 8 - n)]

(* The bytes of Given.                                                     *)
GivenBytes(m, k, g) ==
    /\ g \in Seq(UInt8)
    /\ Len(g) = Len(m) + 1 + k
    /\ \A i \in 1..Len(m) : g[i] = m[i]
    /\ g[Len(m) + 1] = 128
    /\ \A i \in (Len(m) + 2)..(Len(m) + 1 + k) : g[i] = 0

(* They are these.                                                         *)
LEMMA GivenIs ==
    ASSUME NEW m \in Seq(UInt8), NEW k \in Nat
    PROVE  GivenBytes(m, k, Given(m, k))
  <1> DEFINE z == [n \in 1..k |-> 0]
             a == m \o <<128>>
             g == a \o z
             l == Len(m)
  <1>1. z \in Seq(UInt8) /\ Len(z) = k /\ \A i \in 1..k : z[i] = 0
    BY DEF UInt8
  <1>2. <<128>> \in Seq(UInt8)
    BY DEF UInt8
  <1>3. /\ a \in Seq(UInt8) /\ Len(a) = l + 1 /\ l \in Nat
        /\ \A i \in 1..l : a[i] = m[i]
        /\ a[l + 1] = 128
    BY <1>2
  <1> HIDE DEF z, a, l
  <1>4. /\ g \in Seq(UInt8) /\ Len(g) = Len(a) + Len(z)
        /\ \A i \in 1..(Len(a) + Len(z)) : g[i] = IF i <= Len(a) THEN a[i] ELSE z[i - Len(a)]
    <2>1. a \in Seq(UInt8) /\ z \in Seq(UInt8)
      BY <1>1, <1>3
    <2> QED
      BY <2>1, JoinIs
  <1>5. Given(m, k) = g
    BY DEF Given, a, z
  <1> HIDE DEF g
  <1>6. g \in Seq(UInt8) /\ Len(g) = l + 1 + k
    BY <1>1, <1>3, <1>4
  <1>7. \A i \in 1..l : g[i] = m[i]
    BY <1>1, <1>3, <1>4
  <1>8. g[l + 1] = 128
    BY <1>1, <1>3, <1>4
  <1>9. \A i \in (l + 2)..(l + 1 + k) : g[i] = 0
    <2> TAKE i \in (l + 2)..(l + 1 + k)
    <2>1. i \in 1..(Len(a) + Len(z)) /\ ~(i <= Len(a)) /\ i - Len(a) \in 1..k
      BY <1>1, <1>3
    <2> QED
      BY <2>1, <1>1, <1>4
  <1> QED
    BY <1>5, <1>6, <1>7, <1>8, <1>9 DEF l, GivenBytes

(* An iteration of the loop adds one zero.                                 *)
LEMMA GivenNext ==
    ASSUME NEW m \in Seq(UInt8), NEW k \in Nat
    PROVE  Given(m, k) \o <<0>> = Given(m, k + 1)
  <1> DEFINE g == Given(m, k)
             h == Given(m, k + 1)
             e == g \o <<0>>
             l == Len(m)
  <1>1. l \in Nat /\ k + 1 \in Nat
    OBVIOUS
  <1>2. /\ g \in Seq(UInt8) /\ Len(g) = l + 1 + k
        /\ \A i \in 1..l : g[i] = m[i]
        /\ g[l + 1] = 128
        /\ \A i \in (l + 2)..(l + 1 + k) : g[i] = 0
    <2>1. GivenBytes(m, k, g)
      BY GivenIs
    <2> HIDE DEF g
    <2> QED
      BY <2>1, Zenon DEF GivenBytes
  <1>3. /\ h \in Seq(UInt8) /\ Len(h) = l + 1 + (k + 1)
        /\ \A i \in 1..l : h[i] = m[i]
        /\ h[l + 1] = 128
        /\ \A i \in (l + 2)..(l + 1 + (k + 1)) : h[i] = 0
    <2>1. GivenBytes(m, k + 1, h)
      BY <1>1, GivenIs
    <2> HIDE DEF h
    <2> QED
      BY <2>1, Zenon DEF GivenBytes
  <1> HIDE DEF g, h
  <1>4. <<0>> \in Seq(UInt8)
    BY DEF UInt8
  <1>5. /\ e \in Seq(UInt8) /\ Len(e) = Len(g) + 1
        /\ \A i \in 1..Len(g) : e[i] = g[i]
        /\ e[Len(g) + 1] = 0
    <2>1. g \in Seq(UInt8)
      BY <1>2
    <2> QED
      BY <1>4, <2>1
  <1> HIDE DEF l, e
  <1>6. \A i \in 1..(l + 1 + k + 1) : e[i] = h[i]
    <2> TAKE i \in 1..(l + 1 + k + 1)
    <2>1. CASE i <= l
      <3>1. i \in 1..l /\ i \in 1..Len(g)
        BY <1>1, <1>2, <2>1
      <3> QED
        BY <3>1, <1>2, <1>3, <1>5
    <2>2. CASE i = l + 1
      <3>1. l + 1 \in 1..Len(g)
        BY <1>1, <1>2
      <3> QED
        BY <3>1, <2>2, <1>2, <1>3, <1>5
    <2>3. CASE l + 1 < i /\ i < l + 1 + k + 1
      <3>1. i \in (l + 2)..(l + 1 + k) /\ i \in (l + 2)..(l + 1 + (k + 1)) /\ i \in 1..Len(g)
        BY <1>1, <1>2, <2>3
      <3> QED
        BY <3>1, <1>2, <1>3, <1>5
    <2>4. CASE i = l + 1 + k + 1
      <3>1. i \in (l + 2)..(l + 1 + (k + 1)) /\ i = Len(g) + 1
        BY <1>1, <1>2, <2>4
      <3> QED
        BY <3>1, <1>2, <1>3, <1>5
    <2> QED
      BY <1>1, <2>1, <2>2, <2>3, <2>4
  <1>7. Len(e) = Len(h) /\ Len(e) = l + 1 + k + 1
    BY <1>1, <1>2, <1>3, <1>5
  <1>8. e = h
    BY <1>3, <1>5, <1>6, <1>7, SameSequence
  <1> QED
    BY <1>8 DEF e, g, h

(* A byte of a number.                                                     *)
LEMMA OctetType ==
    \A n \in Nat : \A k \in 0..3 : Octet(n, k) \in UInt8
  BY DEF Octet, UInt8

(* The bytes of the count.                                                 *)
LEMMA CountIs ==
    ASSUME NEW m \in Seq(UInt8)
    PROVE  /\ CountOf(m) \in Seq(UInt8) /\ Len(CountOf(m)) = 8
           /\ \A i \in 1..8 : CountOf(m)[i] = IF i <= 4 THEN 0 ELSE Octet(8 * Len(m), 8 - i)
  <1>1. \A i \in 1..8 : (IF i <= 4 THEN 0 ELSE Octet(8 * Len(m), 8 - i)) \in UInt8
    <2>1. 8 * Len(m) \in Nat
      OBVIOUS
    <2>2. 0 \in UInt8 /\ \A i \in 1..8 : i <= 4 \/ 8 - i \in 0..3
      BY DEF UInt8
    <2> QED
      BY <2>1, <2>2, OctetType
  <1> DEFINE o(i) == IF i <= 4 THEN 0 ELSE Octet(8 * Len(m), 8 - i)
             f == [i \in 1..8 |-> o(i)]
  <1>2. CountOf(m) = f
    BY DEF CountOf
  <1>3. \A i \in 1..8 : o(i) \in UInt8
    BY <1>1
  <1> HIDE DEF o
  <1>4. f \in Seq(UInt8) /\ Len(f) = 8 /\ \A i \in 1..8 : f[i] = o(i)
    BY <1>3
  <1> HIDE DEF f
  <1> QED
    BY <1>2, <1>4 DEF o

(* The four lower bytes, as the standard writes them.                      *)
LEMMA LowerIs ==
    ASSUME NEW m \in Seq(UInt8)
    PROVE  LET b == 8 * Len(m)
               s == <<Octet(b, 3), Octet(b, 2), Octet(b, 1), Octet(b, 0)>>
           IN  s \in Seq(UInt8) /\ Len(s) = 4 /\ \A i \in 1..4 : s[i] = CountOf(m)[i + 4]
  <1> DEFINE b == 8 * Len(m)
             c == CountOf(m)
             s == <<Octet(b, 3), Octet(b, 2), Octet(b, 1), Octet(b, 0)>>
  <1>1. c \in Seq(UInt8) /\ Len(c) = 8 /\ \A i \in 1..8 : c[i] = IF i <= 4 THEN 0 ELSE Octet(b, 8 - i)
    BY CountIs
  <1> HIDE DEF c, b
  <1>2. c[5] = Octet(b, 3) /\ c[6] = Octet(b, 2) /\ c[7] = Octet(b, 1) /\ c[8] = Octet(b, 0)
    BY <1>1
  <1>3. c[5] \in UInt8 /\ c[6] \in UInt8 /\ c[7] \in UInt8 /\ c[8] \in UInt8
    <2>1. b \in Nat
      BY DEF b
    <2> QED
      BY <1>2, <2>1, OctetType
  <1>4. s = <<c[5], c[6], c[7], c[8]>>
    BY <1>2
  <1>5. s \in Seq(UInt8) /\ Len(s) = 4
    BY <1>3, <1>4
  <1>6. \A i \in 1..4 : s[i] = c[i + 4]
    BY <1>4
  <1> QED
    BY <1>5, <1>6 DEF b, c

(* What SHA1Final gives to SHA1Update is the padding of the standard.      *)
LEMMA PaddedIs ==
    ASSUME NEW m \in Seq(UInt8)
    PROVE  Given(m, ZerosOf(Len(m))) \o CountOf(m) = Padded(m)
  <1> DEFINE l == Len(m)
             z == ZerosOf(l)
             g == Given(m, z)
             h == Given(m, z + 4)
             c == CountOf(m)
             b == 8 * Len(m)
             s == <<Octet(b, 3), Octet(b, 2), Octet(b, 1), Octet(b, 0)>>
             x == g \o c
             y == h \o s
  <1>1. l \in Nat
    OBVIOUS
  <1>2. z \in Nat /\ z + 4 \in Nat
    <2>1. z \in 0..63
      BY <1>1, ZerosIs
    <2> HIDE DEF z
    <2> QED
      BY <2>1
  <1>3. y = Padded(m)
    BY DEF Padded, Given, ZerosOf
  <1>4. /\ c \in Seq(UInt8) /\ Len(c) = 8
        /\ \A i \in 1..8 : c[i] = IF i <= 4 THEN 0 ELSE Octet(b, 8 - i)
    BY CountIs
  <1>5. s \in Seq(UInt8) /\ Len(s) = 4 /\ \A i \in 1..4 : s[i] = c[i + 4]
    BY LowerIs
  <1> HIDE DEF c, s, z, b
  <1>6. GivenBytes(m, z, g) /\ GivenBytes(m, z + 4, h)
    BY <1>2, GivenIs
  <1> HIDE DEF g, h
  <1>7. /\ g \in Seq(UInt8) /\ Len(g) = l + 1 + z
        /\ \A i \in 1..l : g[i] = m[i]
        /\ g[l + 1] = 128
        /\ \A i \in (l + 2)..(l + 1 + z) : g[i] = 0
    BY <1>6, Zenon DEF GivenBytes
  <1>8. /\ h \in Seq(UInt8) /\ Len(h) = l + 1 + (z + 4)
        /\ \A i \in 1..l : h[i] = m[i]
        /\ h[l + 1] = 128
        /\ \A i \in (l + 2)..(l + 1 + (z + 4)) : h[i] = 0
    BY <1>6, Zenon DEF GivenBytes
  <1> HIDE DEF l
  <1> DEFINE N == l + 1 + z
  <1>9. N \in Nat /\ Len(g) = N /\ Len(h) = N + 4 /\ \A i \in 1..N : g[i] = h[i]
    <2>1. \A i \in 1..N : g[i] = h[i]
      <3> TAKE i \in 1..N
      <3>1. CASE i <= l
        <4>1. i \in 1..l
          BY <1>1, <1>2, <3>1
        <4> QED
          BY <4>1, <1>7, <1>8
      <3>2. CASE i = l + 1
        BY <3>2, <1>7, <1>8
      <3>3. CASE l + 1 < i
        <4>1. i \in (l + 2)..(l + 1 + z) /\ i \in (l + 2)..(l + 1 + (z + 4))
          BY <1>1, <1>2, <3>3
        <4> QED
          BY <4>1, <1>7, <1>8
      <3> QED
        BY <1>1, <1>2, <3>1, <3>2, <3>3
    <2> QED
      BY <1>1, <1>2, <1>7, <1>8, <2>1
  <1>10. \A i \in 1..4 : h[N + i] = 0
    <2> TAKE i \in 1..4
    <2>1. N + i \in (l + 2)..(l + 1 + (z + 4))
      BY <1>1, <1>2
    <2> QED
      BY <2>1, <1>8
  <1> HIDE DEF N
  <1>11. /\ x \in Seq(UInt8) /\ Len(x) = N + 8
         /\ \A i \in 1..N : x[i] = g[i]
         /\ \A i \in 1..8 : x[N + i] = c[i]
    <2>1. g \in Seq(UInt8) /\ c \in Seq(UInt8) /\ Len(g) = N /\ Len(c) = 8
      BY <1>4, <1>7, <1>9
    <2>2. /\ x \in Seq(UInt8) /\ Len(x) = Len(g) + Len(c)
          /\ \A i \in 1..Len(g) : x[i] = g[i]
          /\ \A i \in 1..Len(c) : x[Len(g) + i] = c[i]
      <3>1. g \in Seq(UInt8) /\ c \in Seq(UInt8)
        BY <2>1
      <3> QED
        BY <3>1, Joined
    <2> HIDE DEF x
    <2> QED
      BY <2>1, <2>2
  <1>12. /\ y \in Seq(UInt8) /\ Len(y) = N + 8
         /\ \A i \in 1..(N + 4) : y[i] = h[i]
         /\ \A i \in 1..4 : y[N + 4 + i] = s[i]
    <2>1. h \in Seq(UInt8) /\ s \in Seq(UInt8) /\ Len(h) = N + 4 /\ Len(s) = 4
      BY <1>5, <1>8, <1>9
    <2>2. /\ y \in Seq(UInt8) /\ Len(y) = Len(h) + Len(s)
          /\ \A i \in 1..Len(h) : y[i] = h[i]
          /\ \A i \in 1..Len(s) : y[Len(h) + i] = s[i]
      <3>1. h \in Seq(UInt8) /\ s \in Seq(UInt8)
        BY <2>1
      <3> QED
        BY <3>1, Joined
    <2> HIDE DEF y
    <2> QED
      BY <1>9, <2>1, <2>2
  <1> HIDE DEF x, y
  <1>13. \A i \in 1..(N + 8) : x[i] = y[i]
    <2> TAKE i \in 1..(N + 8)
    <2>1. CASE i <= N
      <3>1. i \in 1..N /\ i \in 1..(N + 4)
        BY <1>9, <2>1
      <3> QED
        BY <3>1, <1>9, <1>11, <1>12
    <2>2. CASE N < i /\ i <= N + 4
      <3> DEFINE k == i - N
      <3>1. k \in 1..4 /\ k \in 1..8 /\ k <= 4 /\ i \in 1..(N + 4) /\ i = N + k
        BY <1>9, <2>2
      <3> HIDE DEF k
      <3>2. x[N + k] = c[k] /\ c[k] = 0
        BY <3>1, <1>4, <1>11
      <3>3. y[i] = h[i] /\ h[N + k] = 0
        BY <3>1, <1>10, <1>12
      <3> QED
        BY <3>1, <3>2, <3>3
    <2>3. CASE N + 4 < i
      <3> DEFINE k == i - (N + 4)
      <3>1. k \in 1..4 /\ k + 4 \in 1..8 /\ i = N + (k + 4) /\ i = N + 4 + k
        BY <1>9, <2>3
      <3> HIDE DEF k
      <3>2. x[N + (k + 4)] = c[k + 4]
        BY <3>1, <1>11
      <3>3. y[N + 4 + k] = s[k] /\ s[k] = c[k + 4]
        BY <3>1, <1>5, <1>12
      <3> QED
        BY <3>1, <3>2, <3>3
    <2> QED
      BY <1>9, <2>1, <2>2, <2>3
  <1>14. x = y
    <2>1. x \in Seq(UInt8) /\ y \in Seq(UInt8) /\ Len(x) = Len(y) /\ \A i \in 1..Len(x) : x[i] = y[i]
      BY <1>11, <1>12, <1>13
    <2> QED
      BY <2>1, SameSequence
  <1> QED
    BY <1>3, <1>14 DEF x, g, z, l, c

------------------------------------------------------------------------------
(* SHA-1: the run of SHA1 *)

(* A context after SHA1Init has been given nothing, whatever the buffer     *)
(* holds.                                                                  *)
LEMMA InitRepresents ==
    ASSUME NEW buffer, buffer \in [1..64 -> UInt8]
    PROVE  Represents(SHA1Init(buffer), <<>>)
  <1> DEFINE s == SHA1Init(<<>>).state
             c == SHA1Init(buffer)
  <1>1. c.state = s /\ c.count = 0 /\ c.buffer = buffer /\ c = [state |-> s, count |-> 0, buffer |-> buffer]
    <2>1. c = [state |-> s, count |-> 0, buffer |-> buffer]
      BY DEF SHA1Init
    <2> HIDE DEF c, s
    <2> QED
      BY <2>1
  <1>2. s \in State
    BY StartState
  <1>3. <<>> \in Seq(UInt8) /\ Len(<<>>) = 0 /\ (0 \div 64) = 0 /\ (0 % 64) = 0
    OBVIOUS
  <1>4. Chain(<<>>) = s
    <2> DEFINE steps == [k \in 1..(Len(<<>>) \div 64) |-> [h \in State |->
                            StandardBlock(h, SubSeq(<<>>, 64 * k - 63, 64 * k))]]
    <2>1. Chain(<<>>) = Iterate(steps, State, 0)[s]
      BY <1>3 DEF Chain
    <2> HIDE DEF steps, s
    <2> QED
      BY Zenon, <1>2, <2>1, IterateZero
  <1> HIDE DEF s, c
  <1>5. c \in SHA1_CTX
    BY <1>1, <1>2 DEF SHA1_CTX
  <1>6. Holds(buffer, <<>>)
    BY <1>3 DEF Holds
  <1> QED
    BY <1>1, <1>3, <1>4, <1>5, <1>6 DEF Represents, c

(* Arrays that agree up to j have the same first j bytes.                  *)
LEMMA FrontSame ==
    ASSUME NEW L \in Nat, NEW a \in [1..L -> UInt8], NEW b \in [1..L -> UInt8],
           NEW j \in 0..L, \A k \in 1..j : a[k] = b[k]
    PROVE  SubSeq(a, 1, j) = SubSeq(b, 1, j)
  <1>1. (\A k \in 1..j : a[k] \in UInt8) /\ (\A k \in 1..j : b[k] \in UInt8) /\ j \in Int
    OBVIOUS
  <1> DEFINE x == SubSeq(a, 1, j)
             y == SubSeq(b, 1, j)
  <1>2. /\ x \in Seq(UInt8) /\ Len(x) = IF 1 <= j THEN j - 1 + 1 ELSE 0
        /\ \A k \in 1..(j - 1 + 1) : x[k] = a[1 + k - 1]
    BY <1>1, PartIs
  <1>3. /\ y \in Seq(UInt8) /\ Len(y) = IF 1 <= j THEN j - 1 + 1 ELSE 0
        /\ \A k \in 1..(j - 1 + 1) : y[k] = b[1 + k - 1]
    BY <1>1, PartIs
  <1> HIDE DEF x, y
  <1>4. Len(x) = j /\ Len(y) = j
    BY <1>2, <1>3
  <1>5. \A k \in 1..j : x[k] = y[k]
    BY <1>2, <1>3
  <1>6. x = y
    <2>1. Len(x) = Len(y) /\ \A k \in 1..Len(x) : x[k] = y[k]
      BY <1>4, <1>5
    <2> QED
      BY <1>2, <1>3, <2>1, SameSequence
  <1> QED
    BY <1>6 DEF x, y

(* Contexts that have been given the same bytes agree.                     *)
LEMMA RepresentsAgree ==
    ASSUME NEW d \in Seq(UInt8), NEW a, NEW b, Represents(a, d), Represents(b, d)
    PROVE  Agree(a, b)
  <1> DEFINE ld == Len(d)
             j == ld % 64
             q == ld \div 64
             x == a.buffer
             y == b.buffer
  <1>1. /\ a.count = ld /\ b.count = ld /\ a.state = b.state
        /\ x \in [1..64 -> UInt8] /\ y \in [1..64 -> UInt8]
        /\ \A k \in 1..j : x[k] = d[64 * q + k]
        /\ \A k \in 1..j : y[k] = d[64 * q + k]
    BY DEF Represents, Holds
  <1>2. j \in 0..63
    <2>1. ld \in Nat
      OBVIOUS
    <2> HIDE DEF ld
    <2> QED
      BY <2>1, Divided
  <1> HIDE DEF ld, j, q, x, y
  <1>3. 64 \in Nat /\ j \in 0..64 /\ \A k \in 1..j : x[k] = y[k]
    <2>1. 64 \in Nat /\ j \in 0..64
      BY <1>2
    <2>2. \A k \in 1..j : x[k] = y[k]
      BY Zenon, <1>1
    <2> QED
      BY <2>1, <2>2
  <1>4. SubSeq(x, 1, j) = SubSeq(y, 1, j)
    <2>1. x \in [1..64 -> UInt8] /\ y \in [1..64 -> UInt8]
      BY <1>1
    <2> QED
      BY Zenon, <1>3, <2>1, FrontSame
  <1> QED
    BY Zenon, <1>1, <1>4 DEF Agree, x, y, j

(* A sequence, cut in two.                                                 *)
LEMMA CutIs ==
    ASSUME NEW m \in Seq(UInt8), NEW i \in 0..Len(m)
    PROVE  /\ SubSeq(m, 1, i) \in Seq(UInt8) /\ SubSeq(m, i + 1, Len(m)) \in Seq(UInt8)
           /\ SubSeq(m, 1, i) \o SubSeq(m, i + 1, Len(m)) = m
  <1> DEFINE l == Len(m)
             a == SubSeq(m, 1, i)
             b == SubSeq(m, i + 1, l)
             c == a \o b
  <1>1. l \in Nat /\ i \in Nat /\ i <= l /\ i + 1 \in Nat
    OBVIOUS
  <1>2. /\ a \in Seq(UInt8) /\ Len(a) = i - 1 + 1
        /\ \A k \in 1..(i - 1 + 1) : a[k] = m[1 + k - 1]
    <2>1. 1 \in Nat /\ i \in Nat /\ 1 <= 1 /\ i <= Len(m) /\ 1 <= i + 1
      BY <1>1
    <2> QED
      BY <2>1, SliceIs
  <1>3. /\ b \in Seq(UInt8) /\ Len(b) = l - (i + 1) + 1
        /\ \A k \in 1..(l - (i + 1) + 1) : b[k] = m[(i + 1) + k - 1]
    <2> DEFINE f == i + 1
    <2>1. f \in Nat /\ l \in Nat /\ 1 <= f /\ l <= Len(m) /\ f <= l + 1
      BY <1>1
    <2> HIDE DEF f
    <2>2. /\ SubSeq(m, f, l) \in Seq(UInt8) /\ Len(SubSeq(m, f, l)) = l - f + 1
          /\ \A k \in 1..(l - f + 1) : SubSeq(m, f, l)[k] = m[f + k - 1]
      BY <2>1, SliceIs
    <2> QED
      BY <2>2, Zenon DEF f
  <1> HIDE DEF l, a, b
  <1>4. /\ c \in Seq(UInt8) /\ Len(c) = Len(a) + Len(b)
        /\ \A k \in 1..Len(a) : c[k] = a[k]
        /\ \A k \in 1..Len(b) : c[Len(a) + k] = b[k]
    <2>1. a \in Seq(UInt8) /\ b \in Seq(UInt8)
      BY <1>2, <1>3
    <2> QED
      BY <2>1, Joined
  <1> HIDE DEF c
  <1>5. Len(a) = i /\ Len(b) = l - i /\ Len(c) = l
    BY <1>1, <1>2, <1>3, <1>4
  <1>6. \A k \in 1..l : c[k] = m[k]
    <2> TAKE k \in 1..l
    <2>1. CASE k <= i
      <3>1. c[k] = a[k]
        BY <2>1, <1>1, <1>4, <1>5
      <3>2. k \in 1..(i - 1 + 1) /\ 1 + k - 1 = k
        BY <2>1, <1>1
      <3>3. a[k] = m[k]
        BY <3>2, <1>2
      <3> QED
        BY <3>1, <3>3
    <2>2. CASE i < k
      <3> DEFINE n == k - i
      <3>1. n \in 1..Len(b) /\ n \in 1..(l - (i + 1) + 1) /\ k = i + n /\ (i + 1) + n - 1 = k
        BY <2>2, <1>1, <1>5
      <3> HIDE DEF n
      <3>2. c[i + n] = b[n]
        BY <3>1, <1>4, <1>5
      <3>3. b[n] = m[(i + 1) + n - 1]
        BY <3>1, <1>3
      <3> QED
        BY <3>1, <3>2, <3>3
    <2> QED
      BY <1>1, <2>1, <2>2
  <1>7. c = m
    <2>1. m \in Seq(UInt8) /\ Len(c) = Len(m) /\ \A k \in 1..Len(c) : c[k] = m[k]
      BY <1>5, <1>6 DEF l
    <2> QED
      BY <1>4, <2>1, SameSequence
  <1> QED
    BY Zenon, <1>2, <1>3, <1>7 DEF a, b, c, l

(* Where SHA1 and SHA1Final stand: in the loop over str, the context has    *)
(* been given the bytes before ii; in the loop of SHA1Final, str, the byte  *)
(* 128 and no more zeros than the standard wants.                          *)
HashInv ==
    /\ str \in Seq(UInt8)
    /\ at \in {"str", "padding", "end"}
    /\ at = "str" => ii \in 0..Len(str) /\ Represents(ctx, SubSeq(str, 1, ii))
    /\ at = "padding" =>
           /\ finalcount = CountOf(str)
           /\ \E k \in 0..ZerosOf(Len(str)) : Represents(ctx, Given(str, k))
    /\ at = "end" => digest = Standard(str)

(* One byte more of a message.                                             *)
LEMMA NextByte ==
    ASSUME NEW m \in Seq(UInt8), NEW i \in Nat, i < Len(m)
    PROVE  /\ <<m[i + 1]>> \in Seq(UInt8) /\ SubSeq(m, 1, i) \in Seq(UInt8)
           /\ SubSeq(m, 1, i) \o <<m[i + 1]>> = SubSeq(m, 1, i + 1)
  <1> DEFINE b == m[i + 1]
             a == SubSeq(m, 1, i)
             c == a \o <<b>>
             e == SubSeq(m, 1, i + 1)
  <1>1. b \in UInt8 /\ <<b>> \in Seq(UInt8) /\ i + 1 \in Nat /\ i + 1 <= Len(m)
    OBVIOUS
  <1>2. /\ a \in Seq(UInt8) /\ Len(a) = i - 1 + 1
        /\ \A k \in 1..(i - 1 + 1) : a[k] = m[1 + k - 1]
    <2>1. 1 \in Nat /\ i \in Nat /\ 1 <= 1 /\ i <= Len(m) /\ 1 <= i + 1
      BY <1>1
    <2> QED
      BY <2>1, SliceIs
  <1>3. /\ e \in Seq(UInt8) /\ Len(e) = i + 1
        /\ \A k \in 1..(i + 1) : e[k] = m[k]
    <2> DEFINE f == i + 1
    <2>1. 1 \in Nat /\ f \in Nat /\ 1 <= 1 /\ f <= Len(m) /\ 1 <= f + 1
      BY <1>1
    <2> HIDE DEF f
    <2> DEFINE t == SubSeq(m, 1, f)
    <2>2. /\ t \in Seq(UInt8) /\ Len(t) = f - 1 + 1
          /\ \A k \in 1..(f - 1 + 1) : t[k] = m[1 + k - 1]
      BY <2>1, SliceIs
    <2> HIDE DEF t
    <2>3. Len(t) = f /\ \A k \in 1..f : t[k] = m[k]
      BY <2>1, <2>2
    <2> QED
      BY <2>2, <2>3, Zenon DEF f, t
  <1> HIDE DEF a, e
  <1>4. Len(a) = i /\ \A k \in 1..i : a[k] = m[k]
    BY <1>2
  <1>5. /\ c \in Seq(UInt8) /\ Len(c) = Len(a) + 1
        /\ (\A k \in 1..Len(a) : c[k] = a[k]) /\ c[Len(a) + 1] = b
    <2> HIDE DEF b
    <2>1. a \in Seq(UInt8)
      BY <1>2
    <2> QED
      BY <1>1, <2>1
  <1> HIDE DEF c
  <1>6. c = e
    <2>1. Len(c) = i + 1
      BY <1>4, <1>5
    <2>2. \A k \in 1..(i + 1) : c[k] = e[k]
      <3> TAKE k \in 1..(i + 1)
      <3>1. CASE k <= i
        BY <3>1, <1>3, <1>4, <1>5
      <3>2. CASE k = i + 1
        BY <3>2, <1>3, <1>4, <1>5
      <3> QED
        BY <3>1, <3>2
    <2> QED
      BY <1>3, <1>5, <2>1, <2>2, SameSequence
  <1> QED
    BY <1>1, <1>2, <1>6 DEF a, c, e

(* The hash of a message that fits the invariant: the four kinds of steps. *)
LEMMA HashInvariant ==
    HashSpec => []HashInv
  <1>1. HashInit => HashInv
    <2> SUFFICES ASSUME HashInit
                 PROVE  HashInv
      OBVIOUS
    <2>1. str \in Seq(UInt8) /\ at = "str" /\ ii = 0
      BY MessagesAssumption DEF HashInit
    <2>2. PICK buffer \in Leftovers : ctx = SHA1Init(buffer)
      BY DEF HashInit
    <2>3. buffer \in [1..64 -> UInt8]
      BY <2>2, MessagesAssumption
    <2>4. Represents(ctx, <<>>)
      BY <2>2, <2>3, InitRepresents
    <2>5. SubSeq(str, 1, ii) = <<>> /\ ii \in 0..Len(str)
      BY <2>1
    <2> QED
      BY Zenon, <2>1, <2>4, <2>5 DEF HashInv
  <1>2. HashInv /\ [HashNext]_hashVars => HashInv'
    <2> SUFFICES ASSUME HashInv, [HashNext]_hashVars
                 PROVE  HashInv'
      OBVIOUS
    <2> USE DEF HashInv
    <2>1. CASE Feed
      <3> DEFINE b == <<str[ii + 1]>>
                 d == SubSeq(str, 1, ii)
      <3>1. /\ at = "str" /\ ii < Len(str) /\ ii \in Nat /\ str \in Seq(UInt8) /\ Represents(ctx, d)
            /\ ctx' = SHA1Update(ctx, b) /\ ii' = ii + 1 /\ str' = str /\ at' = "str"
        BY <2>1 DEF Feed
      <3>2. b \in Seq(UInt8) /\ d \in Seq(UInt8) /\ d \o b = SubSeq(str, 1, ii + 1)
        BY <3>1, NextByte
      <3>3. ii + 1 \in 0..Len(str)
        BY <3>1
      <3> HIDE DEF b, d
      <3>4. Represents(ctx', SubSeq(str, 1, ii + 1))
        BY Zenon, <3>1, <3>2, UpdateRepresents
      <3> QED
        BY <3>1, <3>3, <3>4
    <2>2. CASE FinalStart
      <3>1. /\ at = "str" /\ ii = Len(str) /\ str \in Seq(UInt8) /\ Represents(ctx, SubSeq(str, 1, ii))
            /\ finalcount' = [n \in 1..8 |-> IF n <= 4 THEN 0 ELSE Octet(8 * ctx.count, 8 - n)]
            /\ ctx' = SHA1Update(ctx, <<128>>) /\ str' = str /\ at' = "padding"
        BY <2>2 DEF FinalStart
      <3>2. SubSeq(str, 1, ii) = str
        BY <3>1
      <3>3. Represents(ctx, str)
        BY Zenon, <3>1, <3>2
      <3>4. finalcount' = CountOf(str)
        <4>1. ctx.count = Len(str)
          BY <3>3 DEF Represents
        <4> QED
          BY <3>1, <4>1 DEF CountOf
      <3>5. str \o <<128>> = Given(str, 0) /\ <<128>> \in Seq(UInt8)
        BY <3>1 DEF Given, UInt8
      <3>6. Represents(ctx', Given(str, 0))
        BY Zenon, <3>1, <3>3, <3>5, UpdateRepresents
      <3>7. 0 \in 0..ZerosOf(Len(str))
        <4> DEFINE z == ZerosOf(Len(str))
        <4>1. z \in 0..63
          <5>1. Len(str) \in Nat
            BY <3>1
          <5> QED
            BY Zenon, <5>1, ZerosIs
        <4> HIDE DEF z
        <4>2. 0 \in 0..z
          BY <4>1
        <4> QED
          BY <4>2 DEF z
      <3> QED
        BY <3>1, <3>4, <3>6, <3>7
    <2>3. CASE FinalPad
      <3> DEFINE l == Len(str)
                 z == ZerosOf(l)
      <3>1. /\ at = "padding" /\ (ctx.count % 64) # 56 /\ str \in Seq(UInt8)
            /\ ctx' = SHA1Update(ctx, <<0>>) /\ str' = str /\ at' = "padding"
            /\ finalcount' = finalcount /\ finalcount = CountOf(str)
        BY <2>3 DEF FinalPad
      <3>2. PICK k \in 0..z : Represents(ctx, Given(str, k))
        BY <3>1
      <3>3. l \in Nat
        BY <3>1
      <3>4. z \in 0..63 /\ (l + 9 + z) % 64 = 0
        BY <3>3, ZerosIs
      <3>5. k \in Nat /\ GivenBytes(str, k, Given(str, k))
        <4>1. k \in Nat
          <5> HIDE DEF z
          <5> QED BY <3>4
        <4> QED
          BY <3>1, <4>1, GivenIs
      <3>6. Given(str, k) \in Seq(UInt8) /\ ctx.count = l + 1 + k
        BY <3>2, <3>5 DEF GivenBytes, Represents
      <3> HIDE DEF l, z
      <3>7. k # z
        BY <3>1, <3>3, <3>4, <3>6
      <3>8. k + 1 \in 0..z
        BY <3>4, <3>7
      <3>9. Given(str, k) \o <<0>> = Given(str, k + 1) /\ <<0>> \in Seq(UInt8)
        <4>1. <<0>> \in Seq(UInt8)
          BY DEF UInt8
        <4> QED
          BY Zenon, <3>1, <3>5, <4>1, GivenNext
      <3>10. Represents(ctx', Given(str, k + 1))
        BY Zenon, <3>1, <3>2, <3>6, <3>9, UpdateRepresents
      <3> QED
        BY <3>1, <3>8, <3>10 DEF l, z
    <2>4. CASE FinalEnd
      <3> DEFINE l == Len(str)
                 z == ZerosOf(l)
      <3>1. /\ at = "padding" /\ (ctx.count % 64) = 56 /\ str \in Seq(UInt8)
            /\ digest' = Digest(SHA1Update(ctx, finalcount).state) /\ str' = str /\ at' = "end"
            /\ finalcount = CountOf(str)
        BY <2>4 DEF FinalEnd
      <3>2. PICK k \in 0..z : Represents(ctx, Given(str, k))
        BY <3>1
      <3>3. l \in Nat
        BY <3>1
      <3>4. z \in 0..63 /\ \A n \in 0..63 : (l + 9 + n) % 64 = 0 => n = z
        BY Zenon, <3>3, ZerosIs
      <3>5. k \in Nat /\ k \in 0..63 /\ GivenBytes(str, k, Given(str, k))
        <4>1. k \in Nat /\ k \in 0..63
          <5> HIDE DEF z
          <5> QED BY <3>4
        <4> QED
          BY <3>1, <4>1, GivenIs
      <3>6. Given(str, k) \in Seq(UInt8) /\ ctx.count = l + 1 + k
        BY <3>2, <3>5 DEF GivenBytes, Represents
      <3>7. k = z
        <4> HIDE DEF l, z
        <4>1. (l + 9 + k) % 64 = 0
          BY <3>1, <3>3, <3>5, <3>6
        <4> QED
          BY Zenon, <3>4, <3>5, <4>1
      <3>8. CountOf(str) \in Seq(UInt8)
        BY <3>1, CountIs
      <3>9. Given(str, k) \o CountOf(str) = Padded(str)
        BY Zenon, <3>1, <3>7, PaddedIs
      <3>10. Represents(SHA1Update(ctx, finalcount), Padded(str))
        BY Zenon, <3>1, <3>2, <3>6, <3>8, <3>9, UpdateRepresents
      <3>11. digest' = Standard(str)
        BY <3>1, <3>10 DEF Represents, Standard
      <3> QED
        BY <3>1, <3>11
    <2>5. CASE UNCHANGED hashVars
      BY <2>5 DEF hashVars
    <2> QED
      BY <2>1, <2>2, <2>3, <2>4, <2>5 DEF HashNext
  <1> QED
    BY <1>1, <1>2, PTL DEF HashSpec

(* SHA1 computes the digest of the standard: of every message, and         *)
(* whatever was in the buffer of the context before SHA1Init.              *)
THEOREM DigestIsStandardHolds ==
    HashSpec => []DigestIsStandard
  <1>1. HashInv => DigestIsStandard
    BY DEF HashInv, DigestIsStandard
  <1> QED
    BY <1>1, HashInvariant, PTL

(* However a message is divided among calls of SHA1Update, byte by byte as *)
(* SHA1 does it or in two pieces, the context is the one that a single     *)
(* call with all of it leaves.                                             *)
THEOREM UpdateIsStreamHolds ==
    HashSpec => []UpdateIsStream
  <1>1. HashInv => UpdateIsStream
    <2> SUFFICES ASSUME HashInv, at = "str"
                 PROVE  UpdateIsStream
      BY DEF UpdateIsStream
    <2> DEFINE start == SHA1Init(ctx.buffer)
               fed == SubSeq(str, 1, ii)
               rest == SubSeq(str, ii + 1, Len(str))
               whole == SHA1Update(start, str)
               twice == SHA1Update(SHA1Update(start, fed), rest)
               bytes == SHA1Update(ctx, rest)
    <2>1. str \in Seq(UInt8) /\ ii \in 0..Len(str) /\ Represents(ctx, fed)
      BY DEF HashInv
    <2>2. fed \in Seq(UInt8) /\ rest \in Seq(UInt8) /\ fed \o rest = str
      BY Zenon, <2>1, CutIs
    <2>3. Represents(start, <<>>)
      <3>1. ctx.buffer \in [1..64 -> UInt8]
        BY <2>1 DEF Represents, Holds
      <3> QED
        BY <3>1, InitRepresents
    <2>4. <<>> \in Seq(UInt8) /\ <<>> \o str = str /\ <<>> \o fed = fed
      BY <2>1, <2>2
    <2> HIDE DEF start, fed, rest
    <2>5. Represents(whole, str)
      BY Zenon, <2>1, <2>3, <2>4, UpdateRepresents
    <2>6. Represents(SHA1Update(start, fed), fed)
      BY Zenon, <2>2, <2>3, <2>4, UpdateRepresents
    <2>7. Represents(twice, str)
      BY Zenon, <2>2, <2>6, UpdateRepresents
    <2>8. Represents(bytes, str)
      BY Zenon, <2>1, <2>2, UpdateRepresents
    <2> HIDE DEF whole, twice, bytes
    <2>9. Agree(twice, whole) /\ Agree(bytes, whole)
      BY <2>1, <2>5, <2>7, <2>8, RepresentsAgree
    <2> QED
      BY <2>9 DEF UpdateIsStream, whole, twice, bytes, start, fed, rest
  <1> QED
    BY <1>1, HashInvariant, PTL

==============================================================================
