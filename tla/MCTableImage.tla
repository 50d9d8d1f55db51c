---------------------------- MODULE MCTableImage ------------------------------
(* An instance of TableImage for TLC.                                      *)
EXTENDS TableImage

==============================================================================
