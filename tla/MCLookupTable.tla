---------------------------- MODULE MCLookupTable -----------------------------
(* Instances of LookupTable for TLC.                                       *)
EXTENDS LookupTable, TLC

CONSTANTS h1, h2

(* Hosts that fit into the node.                                           *)
Short == [h \in {h1, h2} |-> h]

EveryKind == AllKinds

AllButSerialize == AllKinds \ {"serialize"}

==============================================================================
