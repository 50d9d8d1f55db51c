------------------------------ MODULE Handshake -------------------------------
(***************************************************************************)
(* The handshake of main.c over transfer/udp_client.c, for a group of      *)
(* nodes that may be seeds of each other.  A node that starts binds its    *)
(* server socket, then sends a PING to one seed after another, each from a *)
(* new client socket and each with a time limit, until one of them answers *)
(* PONG; only then, or after the last seed, does it serve requests itself. *)
(* Nodes are stopped anywhere and started again (see module NodeLife).     *)
(*                                                                         *)
(* Datagrams may be lost, repeated and delayed at will: one that was sent  *)
(* may be received at any time later, any number of times or never.  One   *)
(* that waits in a server socket whose node does not serve yet is still on *)
(* its way.  Answering is one step here: module UdpServer has its parts.   *)
(***************************************************************************)
EXTENDS Packet, FiniteSets

CONSTANTS
    Nodes,          \* the addresses at which nodes may be started
    Unparsable,     \* hosts of the configuration that inet_pton refuses
    Seeds,          \* Seeds[n]: global_config.seed_nodes of node n
    Ports,          \* ephemeral ports
    Ephemeral,      \* Ephemeral[l][i]: the ports that the i-th client socket of a node's
                    \* l-th life may get
    Foreign,        \* answers of other programs that run at the address of a seed
    HashOf,         \* HashOf[n]: the hash of node n
    MaxSeeds,       \* bound: the length of a list of seeds
    MaxLife,        \* bound: how often any node is started
    Lives           \* bound: Lives[n], how often node n is started

ASSUME HandshakeAssumption ==
    /\ MaxSeeds \in Nat
    /\ Nodes \cap Unparsable = {}
    /\ NULL \notin Nodes \cup Unparsable \cup Ports
    /\ \A n \in Nodes : Seeds[n] \in Seq(Nodes \cup Unparsable) /\ Len(Seeds[n]) <= MaxSeeds
    /\ MaxLife \in Nat /\ \A n \in Nodes : Lives[n] \in 0..MaxLife
    /\ NULL \notin [node : Nodes, life : 1..MaxLife]
    /\ \A l \in 1..MaxLife, i \in 1..MaxSeeds :
          Ephemeral[l][i] # {} /\ Ephemeral[l][i] \subseteq Ports
    /\ \A n \in Nodes : HashOf[n] \in Hashes

VARIABLES
    pc,         \* pc[n]: what main does next at node n
    seed,       \* seed[n]: the loop counter of main (from 1)
    port,       \* port[n]: the port of the client socket; NULL without a socket
    peer,       \* peer[n]: the seed whose handshake main logged; NULL if there was none
    pings,      \* requests that were sent: [to, node, port], from a port of a node
    replies,    \* replies that were sent: [from, node, port, data]; from is a life of a node
    life,       \* life[n]: how often node n has been started
    answer      \* history: answer[n] is the life of a node that sent the PONG; NULL

vars == <<pc, seed, port, peer, pings, replies, life, answer>>

Server(n) == INSTANCE RequestHandler WITH Hash <- HashOf[n]

(* The request of main, as udp_client_send_packet serializes it.           *)
Request(n) == packet_to_bytes(packet_new(1, CMD_PING, 1, <<>>, HashOf[n]))

(* A response is accepted for the four bytes at the start of its payload;  *)
(* its sender, type and request id are not looked at, nor its length.      *)
IsPong(n, res) == res # NULL /\ SubSeq(res.payload, 1, 4) = Server(n)!PONG

(* Answers of other programs are not packets or have something else in     *)
(* those four bytes; with fewer bytes memcmp reads past the payload.       *)
ASSUME ForeignAssumption ==
    \A n \in Nodes, data \in Foreign :
        LET res == packet_from_bytes(data)
        IN  (res # NULL => Len(res.payload) >= 4) /\ ~IsPong(n, res)

Current(n) == Seeds[n][seed[n]]

Init ==
    /\ pc = [n \in Nodes |-> "off"]
    /\ seed = [n \in Nodes |-> 1]
    /\ port = [n \in Nodes |-> NULL]
    /\ peer = [n \in Nodes |-> NULL]
    /\ pings = {}
    /\ replies = {}
    /\ life = [n \in Nodes |-> 0]
    /\ answer = [n \in Nodes |-> NULL]

------------------------------------------------------------------------------
(* main up to the handshake: node_new binds the server socket.             *)
Start(n) ==
    /\ pc[n] = "off" /\ life[n] < Lives[n]
    /\ pc' = [pc EXCEPT ![n] = "seed"]
    /\ life' = [life EXCEPT ![n] = @ + 1]
    /\ UNCHANGED <<seed, port, peer, pings, replies, answer>>

(* The process is killed, or ends by a signal, at whatever point it is;    *)
(* the system closes its sockets.                                          *)
Stop(n) ==
    /\ pc[n] # "off"
    /\ pc' = [pc EXCEPT ![n] = "off"]
    /\ seed' = [seed EXCEPT ![n] = 1]
    /\ port' = [port EXCEPT ![n] = NULL]
    /\ peer' = [peer EXCEPT ![n] = NULL]
    /\ answer' = [answer EXCEPT ![n] = NULL]
    /\ UNCHANGED <<pings, replies, life>>

(* No seed is left: node_start.                                            *)
SeedsDone(n) ==
    /\ pc[n] = "seed"
    /\ seed[n] > Len(Seeds[n])
    /\ pc' = [pc EXCEPT ![n] = "serve"]
    /\ UNCHANGED <<seed, port, peer, pings, replies, life, answer>>

(* udp_client_new opens the socket, whose port is fixed once and for all.  *)
OpenSocket(n) ==
    /\ pc[n] = "seed"
    /\ seed[n] <= Len(Seeds[n])
    /\ \E p \in Ephemeral[life[n]][seed[n]] : port' = [port EXCEPT ![n] = p]
    /\ pc' = [pc EXCEPT ![n] = "send"]
    /\ UNCHANGED <<seed, peer, pings, replies, life, answer>>

(* udp_client_send_packet as far as sendto.                                *)
SendPing(n) ==
    /\ pc[n] = "send"
    /\ Current(n) \in Nodes
    /\ pings' = pings \cup {[to |-> Current(n), node |-> n, port |-> port[n]]}
    /\ pc' = [pc EXCEPT ![n] = "select"]
    /\ UNCHANGED <<seed, port, peer, replies, life, answer>>

(* Seeded fault: the socket is left open.                                  *)
LeftOpen(n) == port[n]

(* udp_client_destroy.                                                     *)
Closed(n) == NULL

(* The end of the loop's body: "seed node is offline", the socket is       *)
(* closed, and the next seed is tried.                                     *)
Offline(n) ==
    /\ pc' = [pc EXCEPT ![n] = "seed"]
    /\ seed' = [seed EXCEPT ![n] = @ + 1]
    /\ port' = [port EXCEPT ![n] = Closed(n)]
    /\ UNCHANGED <<peer, life, answer>>

(* inet_pton or sendto fails, and nothing is sent.                         *)
SendFails(n) ==
    /\ pc[n] = "send"
    /\ Offline(n)
    /\ UNCHANGED <<pings, replies>>

(* Seeded fault: no time limit is given to select.                         *)
WaitForever(n) == FALSE /\ UNCHANGED vars

(* select returns 0, or -1, or recvfrom fails, and there is no response.   *)
Timeout(n) ==
    /\ pc[n] = "select"
    /\ Offline(n)
    /\ UNCHANGED <<pings, replies>>

(* Seeded fault: any packet will do.                                       *)
AnyPacket(n, res) == res # NULL

Accepted(n, res) == IsPong(n, res)

(* What recvfrom returns is the response.  A PONG ends the loop, with the  *)
(* current seed as the peer, and the server is started.                    *)
Received(n, data, from) ==
    IF Accepted(n, packet_from_bytes(data))
    THEN /\ peer' = [peer EXCEPT ![n] = Current(n)]
         /\ answer' = [answer EXCEPT ![n] = from]
         /\ pc' = [pc EXCEPT ![n] = "serve"]
         /\ port' = [port EXCEPT ![n] = Closed(n)]
         /\ UNCHANGED <<seed, life>>
    ELSE Offline(n)

(* A reply of a node has reached the port, whatever node that is.          *)
Response(n) ==
    /\ pc[n] = "select"
    /\ \E m \in replies :
          /\ m.node = n /\ m.port = port[n]
          /\ Received(n, m.data, m.from)
    /\ UNCHANGED <<pings, replies>>

(* A program that is no node answers.                                      *)
ForeignResponse(n) ==
    /\ pc[n] = "select"
    /\ \E data \in Foreign : Received(n, data, NULL)
    /\ UNCHANGED <<pings, replies>>

------------------------------------------------------------------------------
(* Seeded fault: a node answers as soon as its socket is bound.            *)
Bound(n) == pc[n] # "off"

Serving(n) == pc[n] = "serve"

(* A node that serves answers a request, to the port it came from.         *)
Answer(n) ==
    /\ Serving(n)
    /\ \E m \in pings :
          /\ m.to = n
          /\ LET result == Server(n)!node_request_handler(Request(m.node))
             IN  replies' = replies \cup {[from |-> [node |-> n, life |-> life[n]],
                                           node |-> m.node, port |-> m.port,
                                           data |-> Server(n)!Reply(result)]}
    /\ UNCHANGED <<pc, seed, port, peer, pings, life, answer>>

Main(n) ==
    SeedsDone(n) \/ OpenSocket(n) \/ SendPing(n) \/ SendFails(n) \/ Timeout(n)

Hears(n) == Response(n) \/ ForeignResponse(n)

Next == \E n \in Nodes : Start(n) \/ Stop(n) \/ Main(n) \/ Hears(n) \/ Answer(n)

Spec == Init /\ [][Next]_vars

(* The main thread of a node that was started runs on; select returns when *)
(* its time is up.  Nothing is asked of the network: a response need never *)
(* come; nor need a node ever be started or stopped.                       *)
FairSpec == Spec /\ \A n \in Nodes : WF_vars(Main(n))

------------------------------------------------------------------------------
(* Properties *)

TypeOK ==
    /\ pc \in [Nodes -> {"off", "seed", "send", "select", "serve"}]
    /\ seed \in [Nodes -> 1..(MaxSeeds + 1)]
    /\ port \in [Nodes -> Ports \cup {NULL}]
    /\ peer \in [Nodes -> Nodes \cup {NULL}]
    /\ pings \subseteq [to : Nodes, node : Nodes, port : Ports]
    /\ \A m \in replies : /\ m.from \in [node : Nodes, life : 1..MaxLife]
                           /\ m.node \in Nodes /\ m.port \in Ports
    /\ life \in [Nodes -> 0..MaxLife]
    /\ answer \in [Nodes -> [node : Nodes, life : 1..MaxLife] \cup {NULL}]

(* Whatever becomes of a seed, main closes the client's socket before it   *)
(* goes on to the next one or to node_start: a node has one open exactly   *)
(* from udp_client_new to the end of the loop's body, also when the seed's *)
(* address cannot be parsed or the PING cannot be sent.                    *)
SocketsClosed == \A n \in Nodes : pc[n] \in {"send", "select"} <=> port[n] # NULL

(* The system never gives one node the same ephemeral port twice, also     *)
(* after the node was started again.                                       *)
PortsFresh ==
    \A k, l \in 1..MaxLife, i, j \in 1..MaxSeeds :
        <<k, i>> # <<l, j>> => Ephemeral[k][i] \cap Ephemeral[l][j] = {}

(* main.c: "communicate with first node respondes to "PING"".  The seed    *)
(* that main takes for its peer is the node that answered, and it serves   *)
(* unless it has stopped since; an answer that comes late, or after a      *)
(* restart of either node, is not taken for one of another seed.  This     *)
(* needs PortsFresh.                                                       *)
PeerServes ==
    \A n \in Nodes : peer[n] # NULL =>
        /\ answer[n] # NULL /\ answer[n].node = peer[n]
        /\ answer[n].life = life[peer[n]] => pc[peer[n]] \in {"serve", "off"}

(* The peer of n still runs as it did when it answered.                    *)
Linked(n) ==
    /\ peer[n] # NULL
    /\ answer[n] = [node |-> peer[n], life |-> life[peer[n]]]
    /\ pc[peer[n]] # "off"

(* Nodes that are seeds of each other never all find a peer among          *)
(* themselves: a node serves only after its own handshake, so following    *)
(* peers ends at a node that came up with none, or whose peer has stopped  *)
(* since it answered.  Only a restart can close a circle.                  *)
PeersAcyclic ==
    \A S \in (SUBSET Nodes) \ {{}} : \E n \in S : ~(Linked(n) /\ peer[n] \in S)

(* A node that is started serves sooner or later unless it is stopped,     *)
(* whatever the network and the other nodes do, also when all wait for     *)
(* each other.                                                             *)
StartedServes == \A n \in Nodes : pc[n] # "off" ~> pc[n] \in {"serve", "off"}

==============================================================================
