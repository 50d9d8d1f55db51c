----------------------------- MODULE MCUdpServer ------------------------------
(* Instances of UdpServer for TLC.                                         *)
EXTENDS UdpServer

MCHash == [i \in 1..HASH_SIZE |-> i]

Peer == [i \in 1..HASH_SIZE |-> 200 + i]

Ping(id) == packet_to_bytes(packet_new(1, CMD_PING, id, <<>>, Peer))

Hello == packet_to_bytes(packet_new(1, CMD_HELLO, 7, <<9>>, Peer))

(* A ping, a command the node does not know, a datagram cut short and an   *)
(* empty one.                                                              *)
MCDatagrams == {Ping(258), Hello, SubSeq(Hello, 1, 26), <<>>}

LiveDatagrams == {Ping(258), <<1>>, <<>>}

==============================================================================
