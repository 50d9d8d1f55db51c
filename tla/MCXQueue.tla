------------------------------- MODULE MCXQueue -------------------------------
(* Instances of XQueue for TLC.                                            *)
EXTENDS XQueue

==============================================================================
