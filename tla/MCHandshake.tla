----------------------------- MODULE MCHandshake ------------------------------
(* Instances of Handshake for TLC.                                         *)
EXTENDS Handshake, TLC

CONSTANTS n1, n2, n3, name, p1, p2, p3, p4

(* Three nodes whose seeds form a circle and a pair: n1 has two seeds that *)
(* may answer, n2 is configured with a name that is no address, and n3     *)
(* with itself.  n1 is started twice, so that its first life may be the    *)
(* peer of a node that answers its second.                                 *)
MCNodes == {n1, n2, n3}

MCSeeds == (n1 :> <<n2, n3>>) @@ (n2 :> <<name, n3>>) @@ (n3 :> <<n3, n1>>)

MCLives == (n1 :> 2) @@ (n2 :> 1) @@ (n3 :> 1)

MCHashOf == [n \in MCNodes |-> [i \in 1..HASH_SIZE |->
                CASE n = n1 -> 1 [] n = n2 -> 2 [] n = n3 -> 255]]

(* The ports of a node's sockets are all different.                        *)
FreshPorts == <<<<{p1}, {p2}>>, <<{p3}, {p4}>>>>

(* Something that is not a packet, and a packet that is not a PONG.        *)
MCForeign == {<<>>, packet_to_bytes(packet_new(1, CMD_PING, 1, <<80, 73, 78, 71>>, MCHashOf[n1]))}

==============================================================================
