------------------------------ MODULE MCNodeLife -------------------------------
(* Instances of NodeLife for TLC: every node in a directory of its own, or *)
(* all in one.                                                             *)
EXTENDS NodeLife

CONSTANT d

OwnDirs == [n \in Nodes |-> n]

OneDir == [n \in Nodes |-> d]

==============================================================================
