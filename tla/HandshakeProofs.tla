--------------------------- MODULE HandshakeProofs ----------------------------
(***************************************************************************)
(* Proofs about Handshake, for any number of nodes, lists of seeds and     *)
(* restarts.                                                               *)
(*                                                                         *)
(* That the peer of a node is the one that answered rests on where         *)
(* datagrams come from: a reply was sent by a node while it served, and    *)
(* from the port it goes to one can tell which seed that was.              *)
(***************************************************************************)
EXTENDS Handshake, TLAPS

(* Node n has sent a PING to node s from port p, in one of its lives.      *)
Asked(n, p, s) ==
    \E l \in 1..MaxLife, i \in 1..Len(Seeds[n]) : p \in Ephemeral[l][i] /\ s = Seeds[n][i]

(* A life of a node that has served: the node serves, or it has stopped.   *)
Served(a) ==
    /\ a.life <= life[a.node]
    /\ a.life = life[a.node] => pc[a.node] \in {"serve", "off"}

SocketInv ==
    \A n \in Nodes :
        /\ pc[n] # "off" => life[n] \in 1..MaxLife
        /\ pc[n] \in {"send", "select"} =>
              seed[n] <= Len(Seeds[n]) /\ port[n] \in Ephemeral[life[n]][seed[n]]
        /\ pc[n] = "select" => Current(n) \in Nodes

PingInv == \A m \in pings : Asked(m.node, m.port, m.to)

ReplyInv == \A m \in replies : Asked(m.node, m.port, m.from.node) /\ Served(m.from)

AnswerInv == \A n \in Nodes : answer[n] # NULL => Served(answer[n])

Types == TypeOK /\ SocketsClosed

IInv == Types /\ SocketInv /\ PingInv /\ ReplyInv /\ AnswerInv

Lifes == [node : Nodes, life : 1..MaxLife]

PeerInv == \A n \in Nodes : peer[n] # NULL => answer[n] # NULL /\ answer[n].node = peer[n]

(* The initial states satisfy the invariant: no node is up, and nothing    *)
(* has been sent.                                                          *)
LEMMA InitIInv == Init => IInv /\ PeerInv
  BY HandshakeAssumption
     DEF Init, IInv, Types, TypeOK, SocketsClosed, SocketInv, PingInv, ReplyInv, AnswerInv, PeerInv

(* How one step changes the state of a node: a life that ends never comes  *)
(* back, and main never leaves node_start.                                 *)
LEMMA NodeStep ==
    ASSUME IInv, Next, NEW n \in Nodes
    PROVE  \/ pc[n] = "off" /\ pc'[n] = "seed" /\ life'[n] = life[n] + 1
           \/ life'[n] = life[n] /\ (pc[n] \in {"serve", "off"} => pc'[n] \in {pc[n], "off"})
  <1> USE DEF IInv, Types, TypeOK
  <1>1. ASSUME NEW m \in Nodes, Start(m)
        PROVE  \/ pc[n] = "off" /\ pc'[n] = "seed" /\ life'[n] = life[n] + 1
               \/ life'[n] = life[n] /\ pc'[n] = pc[n]
    BY <1>1 DEF Start
  <1>2. ASSUME NEW m \in Nodes, Stop(m)
        PROVE  life'[n] = life[n] /\ (pc'[n] = pc[n] \/ pc'[n] = "off")
    BY <1>2 DEF Stop
  <1>3. ASSUME NEW m \in Nodes, Main(m) \/ Hears(m) \/ Answer(m)
        PROVE  life'[n] = life[n] /\ (pc[n] \in {"serve", "off"} => pc'[n] = pc[n])
    BY <1>3 DEF Main, Hears, SeedsDone, OpenSocket, SendPing, SendFails, Timeout, Response,
                ForeignResponse, Received, Offline, Answer
  <1> QED
    BY <1>1, <1>2, <1>3 DEF Next

(* A life that has served stays one that has served.                       *)
LEMMA ServedStays ==
    ASSUME IInv, Next, NEW a \in Lifes, Served(a)
    PROVE  Served(a)'
  <1>1. a.node \in Nodes /\ a.life \in Nat /\ life[a.node] \in Nat
    BY HandshakeAssumption DEF Lifes, IInv, Types, TypeOK
  <1>2. \/ life'[a.node] = life[a.node] + 1
        \/ /\ life'[a.node] = life[a.node]
           /\ pc[a.node] \in {"serve", "off"} => pc'[a.node] \in {"serve", "off"}
    BY <1>1, NodeStep
  <1> QED
    BY <1>1, <1>2 DEF Served

(* Steps that send nothing keep what is known of datagrams and answers.    *)
LEMMA NothingSent ==
    ASSUME IInv, Next, UNCHANGED <<pings, replies>>,
           \A n \in Nodes : answer'[n] = answer[n] \/ answer'[n] = NULL
                               \/ \E m \in replies : answer'[n] = m.from
    PROVE  PingInv' /\ ReplyInv' /\ AnswerInv'
  <1>1. PingInv'
    BY DEF IInv, PingInv, Asked
  <1>2. \A m \in replies : m.from \in Lifes
    BY DEF IInv, Types, TypeOK, Lifes
  <1>3. ReplyInv'
    BY <1>2, ServedStays DEF IInv, ReplyInv, Asked
  <1>4. \A n \in Nodes : answer[n] # NULL => answer[n] \in Lifes
    BY DEF IInv, Types, TypeOK, Lifes
  <1>5. AnswerInv'
    BY <1>2, <1>4, ServedStays DEF IInv, ReplyInv, AnswerInv
  <1> QED
    BY <1>1, <1>3, <1>5

(* The end of the loop's body leaves the node without a socket.            *)
LEMMA OfflineStep ==
    ASSUME IInv, NEW n \in Nodes, pc[n] \in {"send", "select"}, Offline(n),
           UNCHANGED <<pings, replies>>
    PROVE  Types' /\ SocketInv'
  <1>1. Len(Seeds[n]) \in Nat /\ Len(Seeds[n]) <= MaxSeeds /\ MaxSeeds \in Nat
    BY HandshakeAssumption
  <1>2. seed[n] + 1 \in 1..(MaxSeeds + 1)
    BY <1>1 DEF IInv, Types, TypeOK, SocketInv
  <1>3. Types'
    BY <1>2 DEF IInv, Types, TypeOK, SocketsClosed, Offline, Closed
  <1>4. SocketInv'
    BY DEF IInv, Types, TypeOK, SocketInv, Offline, Current
  <1> QED
    BY <1>3, <1>4

(* An answer that is accepted makes the current seed the peer.             *)
LEMMA AcceptedStep ==
    ASSUME IInv, NEW n \in Nodes, pc[n] = "select", NEW from \in Lifes \cup {NULL},
           NEW data, Received(n, data, from), ~Offline(n), UNCHANGED <<pings, replies>>
    PROVE  Types' /\ SocketInv'
  <1>1. /\ peer' = [peer EXCEPT ![n] = Current(n)]
        /\ answer' = [answer EXCEPT ![n] = from]
        /\ pc' = [pc EXCEPT ![n] = "serve"]
        /\ port' = [port EXCEPT ![n] = NULL]
        /\ UNCHANGED <<seed, life>>
    BY Zenon DEF Received, Closed
  <1>2. Current(n) \in Nodes
    BY DEF IInv, SocketInv
  <1>3. Types'
    BY <1>1, <1>2 DEF IInv, Types, TypeOK, SocketsClosed, Lifes
  <1>4. SocketInv'
    BY <1>1 DEF IInv, Types, TypeOK, SocketInv, Current
  <1> QED
    BY <1>3, <1>4

------------------------------------------------------------------------------
(* One step preserves the invariant, action by action.                     *)
LEMMA NextIInv == IInv /\ [Next]_vars => IInv'
  <1> SUFFICES ASSUME IInv, [Next]_vars PROVE IInv'
    OBVIOUS
  <1>1. CASE UNCHANGED vars
    BY <1>1 DEF IInv, Types, TypeOK, SocketsClosed, SocketInv, PingInv, ReplyInv, AnswerInv,
                Asked, Served, Current, vars
  <1>2. ASSUME Next, NEW n \in Nodes, Start(n) PROVE IInv'
    <2>1. life[n] + 1 \in 1..MaxLife
      BY <1>2, HandshakeAssumption DEF IInv, Types, TypeOK, Start
    <2>2. Types'
      BY <1>2, <2>1 DEF IInv, Types, TypeOK, SocketsClosed, Start
    <2>3. SocketInv'
      BY <1>2, <2>1 DEF IInv, Types, TypeOK, SocketInv, Start, Current
    <2> QED
      BY <1>2, <2>2, <2>3, NothingSent DEF IInv, Start
  <1>3. ASSUME Next, NEW n \in Nodes, Stop(n) PROVE IInv'
    <2>1. Types'
      BY <1>3, HandshakeAssumption DEF IInv, Types, TypeOK, SocketsClosed, Stop
    <2>2. SocketInv'
      BY <1>3 DEF IInv, Types, TypeOK, SocketInv, Stop, Current
    <2>3. \A o \in Nodes : answer'[o] = answer[o] \/ answer'[o] = NULL
      BY <1>3 DEF IInv, Types, TypeOK, Stop
    <2> QED
      BY <1>3, <2>1, <2>2, <2>3, NothingSent DEF IInv, Stop
  <1>4. ASSUME Next, NEW n \in Nodes, SeedsDone(n) PROVE IInv'
    <2>1. Types'
      BY <1>4 DEF IInv, Types, TypeOK, SocketsClosed, SeedsDone
    <2>2. SocketInv'
      BY <1>4 DEF IInv, Types, TypeOK, SocketInv, SeedsDone, Current
    <2> QED
      BY <1>4, <2>1, <2>2, NothingSent DEF IInv, SeedsDone
  <1>5. ASSUME Next, NEW n \in Nodes, OpenSocket(n) PROVE IInv'
    <2> PICK p \in Ephemeral[life[n]][seed[n]] : port' = [port EXCEPT ![n] = p]
      BY Zenon, <1>5 DEF OpenSocket
    <2>1. seed[n] \in 1..MaxSeeds /\ life[n] \in 1..MaxLife
      BY <1>5, HandshakeAssumption DEF IInv, Types, TypeOK, SocketInv, OpenSocket
    <2>2. p \in Ports /\ p # NULL
      BY <2>1, HandshakeAssumption
    <2>3. Types'
      BY <1>5, <2>2 DEF IInv, Types, TypeOK, SocketsClosed, OpenSocket
    <2>4. SocketInv'
      BY <1>5 DEF IInv, Types, TypeOK, SocketInv, OpenSocket, Current
    <2> QED
      BY <1>5, <2>3, <2>4, NothingSent DEF IInv, OpenSocket
  <1>6. ASSUME Next, NEW n \in Nodes, SendPing(n) PROVE IInv'
    <2>1. seed[n] \in 1..Len(Seeds[n]) /\ life[n] \in 1..MaxLife
      BY <1>6, HandshakeAssumption DEF IInv, Types, TypeOK, SocketInv, SendPing
    <2>2. port[n] \in Ports /\ port[n] \in Ephemeral[life[n]][seed[n]]
      BY <1>6 DEF IInv, Types, TypeOK, SocketsClosed, SocketInv, SendPing
    <2>3. Asked(n, port[n], Current(n))
      BY <2>1, <2>2 DEF Asked, Current
    <2>4. Types'
      BY <1>6, <2>2 DEF IInv, Types, TypeOK, SocketsClosed, SendPing
    <2>5. SocketInv'
      BY <1>6 DEF IInv, Types, TypeOK, SocketInv, SendPing, Current
    <2>6. PingInv'
      BY <1>6, <2>3 DEF IInv, PingInv, Asked, SendPing
    <2>7. ReplyInv' /\ AnswerInv'
      <3>1. \A m \in replies : m.from \in Lifes
        BY DEF IInv, Types, TypeOK, Lifes
      <3>2. \A o \in Nodes : answer[o] # NULL => answer[o] \in Lifes
        BY DEF IInv, Types, TypeOK, Lifes
      <3>3. UNCHANGED <<replies, answer>>
        BY <1>6 DEF SendPing
      <3> QED
        BY <1>6, <3>1, <3>2, <3>3, ServedStays DEF IInv, ReplyInv, AnswerInv, Asked
    <2> QED
      BY <2>4, <2>5, <2>6, <2>7 DEF IInv
  <1>7. ASSUME Next, NEW n \in Nodes, SendFails(n) \/ Timeout(n) PROVE IInv'
    <2>1. pc[n] \in {"send", "select"} /\ Offline(n) /\ UNCHANGED <<pings, replies>>
      BY <1>7 DEF SendFails, Timeout
    <2>2. UNCHANGED answer
      BY <2>1 DEF Offline
    <2> QED
      BY <1>7, <2>1, <2>2, OfflineStep, NothingSent DEF IInv
  <1>8. ASSUME Next, NEW n \in Nodes, pc[n] = "select", NEW data, NEW from,
               from = NULL \/ \E m \in replies : from = m.from,
               Received(n, data, from), UNCHANGED <<pings, replies>>
        PROVE  IInv'
    <2>1. from \in Lifes \cup {NULL}
      BY <1>8 DEF IInv, Types, TypeOK, Lifes
    <2>2. Types' /\ SocketInv'
      BY <1>8, <2>1, OfflineStep, AcceptedStep
    <2>3. \A o \in Nodes : answer'[o] = answer[o] \/ answer'[o] = from
      BY <1>8 DEF Received, Offline, IInv, Types, TypeOK
    <2> QED
      BY <1>8, <2>2, <2>3, NothingSent DEF IInv
  <1>9. ASSUME Next, NEW n \in Nodes, Hears(n) PROVE IInv'
    BY <1>8, <1>9 DEF Hears, Response, ForeignResponse
  <1>10. ASSUME Next, NEW n \in Nodes, Answer(n) PROVE IInv'
    <2> DEFINE me == [node |-> n, life |-> life[n]]
    <2> PICK m \in pings :
            /\ m.to = n
            /\ \E d : replies' = replies \cup {[from |-> me, node |-> m.node,
                                                port |-> m.port, data |-> d]}
      BY <1>10 DEF Answer
    <2>1. me \in Lifes /\ Served(me)
      <3>1. pc[n] = "serve" /\ life[n] \in Nat /\ life[n] <= MaxLife
        BY <1>10, HandshakeAssumption DEF IInv, Types, TypeOK, Answer, Serving
      <3>2. life[n] >= 1
        BY <3>1 DEF IInv, Types, SocketInv
      <3> QED
        BY <3>1, <3>2, HandshakeAssumption DEF Lifes, Served
    <2>2. Asked(m.node, m.port, me.node) /\ m.node \in Nodes /\ m.port \in Ports
      BY DEF IInv, PingInv, Types, TypeOK
    <2> HIDE DEF me
    <2>3. \A r \in replies' : r \in replies \/ (r.from = me /\ r.node = m.node /\ r.port = m.port)
      OBVIOUS
    <2>4. Types'
      BY <1>10, <2>1, <2>2, <2>3 DEF IInv, Types, TypeOK, SocketsClosed, Answer, Lifes
    <2>5. SocketInv' /\ PingInv' /\ AnswerInv'
      BY <1>10 DEF IInv, SocketInv, PingInv, AnswerInv, Asked, Served, Answer, Current
    <2>6. ReplyInv'
      BY <1>10, <2>1, <2>2, <2>3 DEF IInv, ReplyInv, Served, Answer, Asked
    <2> QED
      BY <2>4, <2>5, <2>6 DEF IInv
  <1> QED
    BY <1>1, <1>2, <1>3, <1>4, <1>5, <1>6, <1>7, <1>9, <1>10 DEF Next, Main

------------------------------------------------------------------------------
(* What a node takes for the response of a seed was sent by that seed: its *)
(* port was never that of another client socket of the node.               *)
LEMMA ResponseFromSeed ==
    ASSUME PortsFresh, IInv, NEW n \in Nodes, pc[n] = "select",
           NEW m \in replies, m.node = n, m.port = port[n]
    PROVE  m.from.node = Current(n)
  <1> PICK l \in 1..MaxLife, i \in 1..Len(Seeds[n]) :
          m.port \in Ephemeral[l][i] /\ m.from.node = Seeds[n][i]
    BY DEF IInv, ReplyInv, Asked
  <1>1. i \in 1..MaxSeeds /\ seed[n] \in 1..MaxSeeds /\ life[n] \in 1..MaxLife
    BY HandshakeAssumption DEF IInv, Types, TypeOK, SocketInv
  <1>2. port[n] \in Ephemeral[life[n]][seed[n]]
    BY DEF IInv, SocketInv
  <1>3. i = seed[n]
    BY <1>1, <1>2 DEF PortsFresh
  <1> QED
    BY <1>3 DEF Current

(* A step leaves peer and answer of a node as they are, forgets them, or   *)
(* is the handshake with the node that has answered.                       *)
LEMMA PeerStep ==
    ASSUME PortsFresh, IInv, Next
    PROVE  \/ \E n \in Nodes : Stop(n)
           \/ UNCHANGED <<peer, answer>>
           \/ \E n \in Nodes, m \in replies :
                 /\ pc[n] = "select"
                 /\ m.from \in Lifes /\ m.from.node = Current(n) /\ Served(m.from)
                 /\ peer' = [peer EXCEPT ![n] = Current(n)]
                 /\ answer' = [answer EXCEPT ![n] = m.from]
                 /\ UNCHANGED life
                 /\ pc' = [pc EXCEPT ![n] = "serve"]
  <1>1. ASSUME NEW n \in Nodes, Start(n) \/ Main(n) \/ Answer(n)
        PROVE  UNCHANGED <<peer, answer>>
    BY <1>1 DEF Start, Main, SeedsDone, OpenSocket, SendPing, SendFails, Timeout, Offline, Answer
  <1>2. ASSUME NEW n \in Nodes, ForeignResponse(n)
        PROVE  UNCHANGED <<peer, answer>>
    BY <1>2, ForeignAssumption DEF ForeignResponse, Received, Accepted, Offline
  <1>3. ASSUME NEW n \in Nodes, Response(n), ~UNCHANGED <<peer, answer>>
        PROVE  \E m \in replies :
                 /\ pc[n] = "select"
                 /\ m.from \in Lifes /\ m.from.node = Current(n) /\ Served(m.from)
                 /\ peer' = [peer EXCEPT ![n] = Current(n)]
                 /\ answer' = [answer EXCEPT ![n] = m.from]
                 /\ UNCHANGED life
                 /\ pc' = [pc EXCEPT ![n] = "serve"]
    <2> PICK m \in replies : m.node = n /\ m.port = port[n] /\ Received(n, m.data, m.from)
      BY Zenon, <1>3 DEF Response
    <2>1. pc[n] = "select"
      BY <1>3 DEF Response
    <2>2. m.from \in Lifes /\ Served(m.from)
      BY DEF IInv, ReplyInv, Types, TypeOK, Lifes
    <2>3. m.from.node = Current(n)
      BY <2>1, ResponseFromSeed
    <2>4. /\ peer' = [peer EXCEPT ![n] = Current(n)]
          /\ answer' = [answer EXCEPT ![n] = m.from]
          /\ UNCHANGED life
          /\ pc' = [pc EXCEPT ![n] = "serve"]
      BY <1>3 DEF Received, Offline
    <2> QED
      BY <2>1, <2>2, <2>3, <2>4
  <1> QED
    BY <1>1, <1>2, <1>3 DEF Next, Hears

(* The peer of a node is the one whose answer it has.                      *)
LEMMA NextPeer ==
    ASSUME PortsFresh, IInv, PeerInv, [Next]_vars
    PROVE  PeerInv'
  <1>1. CASE UNCHANGED vars \/ UNCHANGED <<peer, answer>>
    BY <1>1 DEF PeerInv, vars
  <1>2. ASSUME NEW n \in Nodes, Stop(n) PROVE PeerInv'
    BY <1>2 DEF Stop, PeerInv, IInv, Types, TypeOK
  <1>3. ASSUME NEW n \in Nodes, NEW m \in replies, m.from \in Lifes, m.from.node = Current(n),
               peer' = [peer EXCEPT ![n] = Current(n)], answer' = [answer EXCEPT ![n] = m.from]
        PROVE  PeerInv'
    <2>1. m.from # NULL
      BY <1>3, HandshakeAssumption DEF Lifes
    <2> QED
      BY <1>3, <2>1 DEF PeerInv, IInv, Types, TypeOK
  <1> QED
    BY Zenon, <1>1, <1>2, <1>3, PeerStep

(* Edges that a step takes away close no circle.                           *)
LEMMA FewerEdges ==
    ASSUME PeersAcyclic,
           \A o \in Nodes : Linked(o)' => Linked(o) /\ peer'[o] = peer[o]
    PROVE  PeersAcyclic'
  <1> SUFFICES ASSUME NEW S \in (SUBSET Nodes) \ {{}}
               PROVE  \E o \in S : ~(Linked(o)' /\ peer'[o] \in S)
    BY DEF PeersAcyclic
  <1>1. PICK o \in S : ~(Linked(o) /\ peer[o] \in S)
    BY Zenon DEF PeersAcyclic
  <1>2. o \in Nodes
    OBVIOUS
  <1> QED
    BY Zenon, <1>1, <1>2

(* A life of a node that served is still up only if the node serves.       *)
LEMMA LinkedServes ==
    ASSUME IInv, NEW o \in Nodes, Linked(o)
    PROVE  peer[o] \in Nodes /\ pc[peer[o]] = "serve"
  <1>1. peer[o] \in Nodes
    BY DEF IInv, Types, TypeOK, Linked
  <1>2. answer[o] # NULL /\ answer[o].node = peer[o] /\ answer[o].life = life[peer[o]]
    <2>1. life[peer[o]] \in 1..MaxLife
      BY <1>1 DEF Linked, IInv, SocketInv
    <2> QED
      BY <1>1, <2>1, HandshakeAssumption DEF Linked
  <1>3. Served(answer[o])
    BY <1>2 DEF IInv, AnswerInv
  <1> QED
    BY <1>1, <1>2, <1>3 DEF Served, Linked

(* Before a node has a peer no running node has it for a peer, because it  *)
(* has not served in its present life: the edge to its peer closes no      *)
(* circle.                                                                 *)
LEMMA HandshakeAcyclic ==
    ASSUME IInv, IInv', PeersAcyclic, NEW n \in Nodes, NEW from \in Lifes,
           pc[n] = "select", from.node = Current(n), Served(from),
           peer' = [peer EXCEPT ![n] = Current(n)],
           answer' = [answer EXCEPT ![n] = from],
           UNCHANGED life, pc' = [pc EXCEPT ![n] = "serve"]
    PROVE  PeersAcyclic'
  <1>1. ASSUME NEW o \in Nodes, o # n, Linked(o)'
        PROVE  Linked(o) /\ peer'[o] = peer[o] /\ peer[o] # n
    <2>1. peer'[o] = peer[o] /\ answer'[o] = answer[o] /\ peer[o] \in Nodes
      BY <1>1 DEF IInv, Types, TypeOK, Linked
    <2>2. pc[peer[o]] # "off"
      BY <1>1, <2>1 DEF IInv, Types, TypeOK, Linked
    <2>3. Linked(o)
      BY <1>1, <2>1, <2>2 DEF Linked
    <2>4. pc[peer[o]] = "serve"
      BY <2>3, LinkedServes
    <2> QED
      BY <2>1, <2>3, <2>4
  <1>2. peer'[n] = Current(n) /\ Current(n) \in Nodes
    BY DEF IInv, Types, TypeOK, SocketInv
  <1>3. ~(Linked(n)' /\ peer'[n] = n)
    <2> SUFFICES ASSUME Linked(n)', peer'[n] = n PROVE FALSE
      OBVIOUS
    <2>1. from = [node |-> n, life |-> life[n]]
      BY DEF Linked, IInv, Types, TypeOK
    <2>2. from.life = life[n] /\ from.node = n
      BY <2>1
    <2> QED
      BY <2>2 DEF Served
  <1> SUFFICES ASSUME NEW S \in (SUBSET Nodes) \ {{}}
               PROVE  \E o \in S : ~(Linked(o)' /\ peer'[o] \in S)
    BY DEF PeersAcyclic
  <1>4. CASE S = {n}
    BY <1>3, <1>4
  <1>5. CASE S # {n}
    <2>1. S \ {n} \in (SUBSET Nodes) \ {{}}
      BY <1>5
    <2>2. PICK o \in S \ {n} : ~(Linked(o) /\ peer[o] \in S \ {n})
      BY Zenon, <2>1 DEF PeersAcyclic
    <2> QED
      BY Zenon, <1>1, <2>2
  <1> QED
    BY <1>4, <1>5

(* No step closes a circle of peers that all still run.                    *)
LEMMA NextAcyclic ==
    ASSUME PortsFresh, IInv, IInv', PeersAcyclic, [Next]_vars
    PROVE  PeersAcyclic'
  <1>1. CASE UNCHANGED vars
    BY <1>1 DEF PeersAcyclic, Linked, vars
  <1>2. ASSUME NEW n \in Nodes, Stop(n) PROVE PeersAcyclic'
    <2>1. ASSUME NEW o \in Nodes, Linked(o)' PROVE Linked(o) /\ peer'[o] = peer[o]
      <3>1. o # n /\ peer'[o] = peer[o] /\ answer'[o] = answer[o] /\ peer[o] \in Nodes
        BY <1>2, <2>1 DEF Stop, Linked, IInv, Types, TypeOK
      <3>2. life' = life /\ (pc'[peer[o]] # "off" => pc[peer[o]] # "off")
        BY <1>2, <3>1 DEF Stop, IInv, Types, TypeOK
      <3> QED
        BY <2>1, <3>1, <3>2 DEF Linked
    <2> QED
      BY <2>1, FewerEdges
  <1>3. CASE Next /\ UNCHANGED <<peer, answer>>
    <2>1. ASSUME NEW o \in Nodes, Linked(o)' PROVE Linked(o) /\ peer'[o] = peer[o]
      <3>1. /\ peer[o] \in Nodes /\ pc'[peer[o]] # "off"
            /\ answer[o] = [node |-> peer[o], life |-> life'[peer[o]]]
        BY <1>3, <2>1 DEF Linked, IInv, Types, TypeOK
      <3>2. life'[peer[o]] \in 1..MaxLife /\ life[peer[o]] \in 0..MaxLife
        BY <3>1 DEF IInv, SocketInv, Types, TypeOK
      <3>3. answer[o] # NULL /\ Served(answer[o])
        BY <3>1, <3>2, HandshakeAssumption DEF IInv, AnswerInv
      <3>4. life'[peer[o]] <= life[peer[o]]
        BY <3>1, <3>3 DEF Served
      <3>5. life'[peer[o]] = life[peer[o]] /\ pc[peer[o]] # "off"
        BY <1>3, <3>1, <3>2, <3>4, NodeStep, HandshakeAssumption
      <3> QED
        BY <1>3, <2>1, <3>1, <3>5 DEF Linked
    <2> QED
      BY <2>1, FewerEdges
  <1>4. ASSUME NEW n \in Nodes, NEW m \in replies, pc[n] = "select",
               m.from \in Lifes, m.from.node = Current(n), Served(m.from),
               peer' = [peer EXCEPT ![n] = Current(n)],
               answer' = [answer EXCEPT ![n] = m.from],
               UNCHANGED life, pc' = [pc EXCEPT ![n] = "serve"]
        PROVE  PeersAcyclic'
    BY <1>4, HandshakeAcyclic
  <1> QED
    BY Zenon, <1>1, <1>2, <1>3, <1>4, PeerStep

------------------------------------------------------------------------------
(* On every path through the loop of main.c the client's socket is closed  *)
(* before the next one is opened and before the node serves, wherever      *)
(* nodes are stopped and started again.                                    *)
THEOREM SocketsAreClosed == Spec => []SocketsClosed
  <1>1. IInv => SocketsClosed
    BY DEF IInv, Types
  <1> QED
    BY <1>1, InitIInv, NextIInv, PTL DEF Spec

(* If the system never gives a node the same ephemeral port twice, the     *)
(* seed that main.c logs a handshake with is the node that answered and    *)
(* serves unless it has stopped since, whatever the network loses, repeats *)
(* or delays and whichever nodes are started again.                        *)
THEOREM PeersServe == ASSUME PortsFresh PROVE Spec => []PeerServes
  <1>1. IInv /\ PeerInv => PeerServes
    BY DEF IInv, AnswerInv, PeerInv, PeerServes, Served
  <1>2. IInv /\ PeerInv /\ [Next]_vars => IInv' /\ PeerInv'
    BY NextIInv, NextPeer
  <1> QED
    BY <1>1, <1>2, InitIInv, PTL DEF Spec

(* Under the same assumption no nodes are peers of each other in a circle, *)
(* however many start at once with each other as seeds, unless one of them *)
(* has stopped since it answered.                                          *)
THEOREM NoCircle == ASSUME PortsFresh PROVE Spec => []PeersAcyclic
  <1>1. Init => PeersAcyclic
    <2>1. Init => \A n \in Nodes : ~Linked(n)
      BY DEF Init, Linked
    <2> QED
      BY Zenon, <2>1 DEF PeersAcyclic
  <1>2. IInv /\ PeersAcyclic /\ [Next]_vars => IInv' /\ PeersAcyclic'
    BY NextIInv, NextAcyclic
  <1> QED
    BY <1>1, <1>2, InitIInv, PTL DEF Spec

==============================================================================
