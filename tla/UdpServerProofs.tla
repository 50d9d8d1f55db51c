---------------------------- MODULE UdpServerProofs ----------------------------
(***************************************************************************)
(* Proofs about UdpServer, for any number of workers, clients and request  *)
(* cells, any size of the socket's buffer and any datagrams.               *)
(*                                                                         *)
(* A datagram moves from the socket to a cell, from there to the queue and *)
(* to a worker, and is sent; the invariant says that its id is in one of   *)
(* these places only, and that its cell holds what arrived.                *)
(***************************************************************************)
EXTENDS UdpServer, PacketProofs, SequenceTheorems

Pointers == {"request_handler", "COMMAND_DISPATCHER", "global_node"}

(* What is set up at each point of the start, and that no request exists   *)
(* before the loop; which local variables are live.                        *)
StartInv ==
    /\ main = "set_handler" => ready = {}
    /\ main = "load_commands" => ready = {"request_handler"}
    /\ main = "set_global" => ready = {"request_handler", "COMMAND_DISPATCHER"}
    /\ main \in {"handshake", "recv", "enqueue"} => ready = Pointers
    /\ main \notin {"recv", "enqueue"} => \A r \in Reqs : heap[r] = NULL
    /\ main = "enqueue" <=> req # NULL
    /\ \A w \in Workers : pc[w] = "dequeue" <=> current[w] = NULL

(* A request holds the datagram of its id.                                 *)
CopyInv ==
    \A r \in Reqs : heap[r] # NULL =>
        /\ arrived[heap[r].id].addr = heap[r].addr
        /\ arrived[heap[r].id].data = heap[r].data

OutputInv ==
    \A w \in Workers : pc[w] = "send" =>
        output[w] = node_request_handler(heap[current[w]].data)

(* Where the id of a datagram is: in the socket, in one request or sent;   *)
(* in a request and sent only while a worker is about to free the request. *)
SocketIds == \A i, j \in 1..Len(sockbuf) : sockbuf[i] = sockbuf[j] => i = j

RequestIds ==
    \A r, s \in Reqs : heap[r] # NULL /\ heap[s] # NULL /\ heap[r].id = heap[s].id => r = s

LeftSocket ==
    /\ \A r \in Reqs, i \in 1..Len(sockbuf) : heap[r] # NULL => heap[r].id # sockbuf[i]
    /\ \A k \in 1..Len(sent), i \in 1..Len(sockbuf) : sent[k].id # sockbuf[i]

SentIds ==
    \A r \in Reqs, k \in 1..Len(sent) :
        heap[r] # NULL /\ sent[k].id = heap[r].id
            => \E w \in Workers : current[w] = r /\ pc[w] = "free"

IdInv == SocketIds /\ RequestIds /\ LeftSocket /\ SentIds

IInv ==
    TypeOK /\ StartInv /\ OneOwner /\ CopyInv /\ OutputInv /\ IdInv /\ AnsweredOnce /\ RepliesMatch

------------------------------------------------------------------------------
(* The packets that the node answers with.                                 *)
LEMMA AnswerPackets ==
    /\ ErrorPacket \in Packets
    /\ \A p \in Packets : packet_new(1, CMD_PING, p.req_id, PONG, Hash) \in Packets
  <1>1. PONG \in Payloads /\ <<>> \in Payloads
    BY DEF PONG, Payloads, Byte, UInt16
  <1>2. ErrorPacket \in Packets
    BY <1>1, HashAssumption DEF ErrorPacket, packet_new, Packets, CMD_ERROR, Byte, UInt16
  <1>3. ASSUME NEW p \in Packets PROVE packet_new(1, CMD_PING, p.req_id, PONG, Hash) \in Packets
    <2>1. p.req_id \in UInt16
      BY <1>3 DEF Packets
    <2> QED
      BY <1>1, <2>1, HashAssumption DEF packet_new, Packets, CMD_PING, Byte
  <1> QED
    BY <1>2, <1>3

(* What the handler answers to a packet p.                                 *)
AnswerTo(p) == IF p.type = CMD_PING THEN packet_new(1, CMD_PING, p.req_id, PONG, Hash)
                                    ELSE ErrorPacket

(* The handler returns bytes, all of which are sent, unless the datagram   *)
(* does not parse.                                                         *)
LEMMA HandlerResult ==
    ASSUME NEW d \in Seq(Byte)
    PROVE  LET p == packet_from_bytes(d)
               result == node_request_handler(d)
           IN  /\ result \in [output : Seq(Byte), len : Nat]
               /\ Reply(result) \in Seq(Byte)
               /\ p # NULL => AnswerTo(p) \in Packets /\ Reply(result) = packet_to_bytes(AnswerTo(p))
  <1> DEFINE p == packet_from_bytes(d)
             out == IF p = NULL THEN packet_to_bytes(ErrorPacket) ELSE Dispatch(p)
             n == IF p = NULL THEN 0 ELSE Len(out)
  <1>1. ASSUME p # NULL
        PROVE AnswerTo(p) \in Packets /\ Dispatch(p) = packet_to_bytes(AnswerTo(p))
    <2>1. p \in Packets
      BY <1>1, ParseWellFormed
    <2>2. AnswerTo(p) \in Packets
      BY <2>1, AnswerPackets DEF AnswerTo
    <2>3. Dispatch(p) = packet_to_bytes(AnswerTo(p))
      BY DEF Dispatch, command_ping, empty_command, AnswerTo
    <2> QED
      BY <2>2, <2>3
  <1>2. out \in Seq(Byte)
    <2>1. packet_to_bytes(ErrorPacket) \in Seq(Byte)
      BY AnswerPackets, BytesAt
    <2>2. ASSUME p # NULL PROVE Dispatch(p) \in Seq(Byte)
      BY <1>1, <2>2, BytesAt
    <2> QED
      BY <2>1, <2>2
  <1>3. n \in Nat /\ n <= Len(out)
    BY <1>2
  <1>4. node_request_handler(d) = [output |-> out, len |-> n]
    BY DEF node_request_handler
  <1>5. p # NULL => out = Dispatch(p) /\ n = Len(out)
    OBVIOUS
  <1> HIDE DEF out, n
  <1>6. SubSeq(out, 1, n) \in Seq(Byte)
    <2>1. \A i \in 1..n : out[i] \in Byte
      BY <1>2, <1>3
    <2> QED
      BY <1>3, <2>1, SubSeqProperties
  <1>7. Reply(node_request_handler(d)) = SubSeq(out, 1, n)
    <2>1. node_request_handler(d).output = out /\ node_request_handler(d).len = n
      BY <1>4
    <2> QED
      BY <2>1, Zenon DEF Reply
  <1>8. ASSUME p # NULL PROVE Reply(node_request_handler(d)) = packet_to_bytes(AnswerTo(p))
    <2>1. SubSeq(out, 1, n) = out
      BY <1>2, <1>5, <1>8, SubSeqFull
    <2> QED
      BY <1>1, <1>5, <1>7, <1>8, <2>1
  <1>9. node_request_handler(d) \in [output : Seq(Byte), len : Nat]
    BY <1>2, <1>3, <1>4
  <1>10. Reply(node_request_handler(d)) \in Seq(Byte)
    BY <1>6, <1>7
  <1> QED
    BY <1>1, <1>8, <1>9, <1>10, Zenon

(* The initial state: nothing has arrived.                                 *)
LEMMA IInvInit == Init => IInv
  <1> SUFFICES ASSUME Init PROVE IInv
    OBVIOUS
  <1> USE DEF Init, Queue!Init
  <1>1. TypeOK
    BY ServerAssumption DEF TypeOK, Mains, Ids
  <1>2. StartInv
    BY DEF StartInv
  <1>3. OneOwner
    <2>1. Len(queue) = 0 /\ \A r : ~Queue!InQueue(r)
      BY DEF Queue!InQueue
    <2>2. \A r \in Reqs : heap[r] = NULL /\ r # req
      BY ServerAssumption
    <2>3. \A w \in Workers : current[w] = NULL
      OBVIOUS
    <2>4. \A r \in Reqs, w \in Workers : current[w] # r
      BY <2>3, ServerAssumption
    <2> HIDE DEF Init, Queue!Init
    <2> QED
      BY <2>1, <2>2, <2>3, <2>4 DEF OneOwner
  <1>4. CopyInv /\ OutputInv /\ IdInv /\ AnsweredOnce /\ RepliesMatch
    BY DEF CopyInv, OutputInv, IdInv, SocketIds, RequestIds, LeftSocket, SentIds, AnsweredOnce,
           RepliesMatch
  <1> QED
    BY <1>1, <1>2, <1>3, <1>4 DEF IInv

(* What depends on variables that a step leaves alone.                     *)
LEMMA OwnerKept ==
    ASSUME OneOwner, UNCHANGED <<heap, req, queue, current>> PROVE OneOwner'
  BY DEF OneOwner, Queue!InQueue

(* The copies of datagrams, in a step that changes no request.             *)
LEMMA CopyKept == ASSUME CopyInv, UNCHANGED <<heap, arrived>> PROVE CopyInv'
  BY DEF CopyInv

(* The output of the handler, in a step that changes no request.           *)
LEMMA OutputKept ==
    ASSUME OutputInv, UNCHANGED <<heap, current, pc, output>> PROVE OutputInv'
  BY DEF OutputInv

(* The ids, in a step that changes no request and sends nothing.           *)
LEMMA IdKept ==
    ASSUME IdInv, UNCHANGED <<sockbuf, heap, sent, current, pc>> PROVE IdInv'
  <1>1. SocketIds' /\ RequestIds'
    BY DEF IdInv, SocketIds, RequestIds
  <1>2. LeftSocket'
    BY DEF IdInv, LeftSocket
  <1>3. SentIds'
    BY DEF IdInv, SentIds
  <1> QED
    BY <1>1, <1>2, <1>3 DEF IdInv

(* The replies, in a step that sends nothing.                              *)
LEMMA SentKept ==
    ASSUME AnsweredOnce, RepliesMatch, UNCHANGED <<arrived, sent>>
    PROVE  AnsweredOnce' /\ RepliesMatch'
  <1>1. AnsweredOnce'
    BY DEF AnsweredOnce
  <1>2. RepliesMatch'
    BY DEF RepliesMatch
  <1> QED
    BY <1>1, <1>2

(* The ids in use are those of datagrams that arrived.                     *)
LEMMA KnownIds ==
    ASSUME TypeOK
    PROVE  /\ \A r \in Reqs : heap[r] # NULL => heap[r].id \in Ids
           /\ \A k \in 1..Len(sent) : sent[k].id \in Ids
           /\ \A i \in 1..Len(sockbuf) : sockbuf[i] \in Ids
  <1>1. \A r \in Reqs : heap[r] # NULL => heap[r].id \in Ids
    BY DEF TypeOK
  <1>2. ASSUME NEW k \in 1..Len(sent) PROVE sent[k].id \in Ids
    <2>1. sent[k] \in [id : Ids, to : Clients, data : Seq(Byte)]
      BY Zenon, <1>2, ElementOfSeq DEF TypeOK
    <2> QED
      BY <2>1
  <1>3. \A i \in 1..Len(sockbuf) : sockbuf[i] \in Ids
    BY ElementOfSeq DEF TypeOK
  <1> QED
    BY <1>1, <1>2, <1>3

(* An arrival gets an id that nothing has yet.                             *)
LEMMA ArriveStep ==
    ASSUME IInv, NEW c \in Clients, NEW d \in Datagrams, Arrive(c, d)
    PROVE  IInv'
  <1> DEFINE new == [addr |-> c, data |-> d]
  <1>0. /\ UNCHANGED <<main, ready, heap, req, queue, current, pc, output, sent>>
        /\ arrived' = Append(arrived, new)
    BY DEF Arrive
  <1>1. /\ arrived \in Seq([addr : Clients, data : Datagrams]) /\ Len(arrived) \in Nat
        /\ sockbuf \in Seq(Ids) /\ Len(sockbuf) \in Nat /\ Len(sockbuf) <= RCVBUF
        /\ RCVBUF \in Nat
    BY ServerAssumption DEF IInv, TypeOK
  <1>2. /\ arrived' \in Seq([addr : Clients, data : Datagrams])
        /\ Len(arrived') = Len(arrived) + 1
        /\ \A k \in Ids : arrived'[k] = arrived[k]
    BY <1>0, <1>1 DEF Ids
  <1>3. Ids' = 1..(Len(arrived) + 1) /\ Ids \subseteq Ids'
    BY <1>1, <1>2 DEF Ids
  <1>4. \/ sockbuf' = sockbuf
        \/ sockbuf' = Append(sockbuf, Len(arrived) + 1) /\ Len(sockbuf) < RCVBUF
    BY DEF Arrive
  <1>5. Len(arrived) + 1 \in Ids' /\ Len(arrived) + 1 \notin Ids
    BY <1>1, <1>3 DEF Ids
  <1>6. \A i \in 1..Len(sockbuf) : sockbuf[i] \in Ids
    BY <1>1
  <1>7. sockbuf \in Seq(Ids')
    BY Zenon, <1>1, <1>3, SeqMonotonic
  <1>8. /\ sockbuf' \in Seq(Ids') /\ Len(sockbuf') <= RCVBUF
        /\ \A i \in 1..Len(sockbuf') : \/ i \in 1..Len(sockbuf) /\ sockbuf'[i] = sockbuf[i]
                                       \/ i = Len(sockbuf) + 1 /\ sockbuf'[i] = Len(arrived) + 1
    <2>1. CASE sockbuf' = sockbuf
      BY <1>1, <1>7, <2>1
    <2>2. CASE sockbuf' = Append(sockbuf, Len(arrived) + 1) /\ Len(sockbuf) < RCVBUF
      <3>1. /\ sockbuf' \in Seq(Ids') /\ Len(sockbuf') = Len(sockbuf) + 1
            /\ \A i \in 1..Len(sockbuf) : sockbuf'[i] = sockbuf[i]
            /\ sockbuf'[Len(sockbuf) + 1] = Len(arrived) + 1
        BY <1>5, <1>7, <2>2, AppendProperties
      <3> QED
        BY <1>1, <2>2, <3>1
    <2> QED
      BY <1>4, <2>1, <2>2
  <1>9. TypeOK'
    <2>1. heap' \in [Reqs -> [id : Ids', addr : Clients, data : Datagrams] \cup {NULL}]
      BY <1>0, <1>3 DEF IInv, TypeOK
    <2>2. sent' \in Seq([id : Ids', to : Clients, data : Seq(Byte)])
      <3>1. sent \in Seq([id : Ids, to : Clients, data : Seq(Byte)]) /\ sent' = sent
        BY <1>0 DEF IInv, TypeOK
      <3>2. [id : Ids, to : Clients, data : Seq(Byte)] \subseteq
               [id : Ids', to : Clients, data : Seq(Byte)]
        BY Zenon, <1>3
      <3> QED
        BY Zenon, <3>1, <3>2, SeqMonotonic
    <2> QED
      BY <1>0, <1>2, <1>8, <2>1, <2>2 DEF IInv, TypeOK
  <1>10. /\ \A r \in Reqs : heap[r] # NULL => heap[r].id \in Ids
         /\ \A k \in 1..Len(sent) : sent[k].id \in Ids
    BY KnownIds DEF IInv
  <1>11. StartInv' /\ OneOwner' /\ OutputInv' /\ AnsweredOnce'
    <2>1. StartInv'
      BY <1>0 DEF IInv, StartInv
    <2>2. AnsweredOnce'
      BY <1>0 DEF IInv, AnsweredOnce
    <2> QED
      BY <1>0, <2>1, <2>2, OwnerKept, OutputKept DEF IInv
  <1>12. CopyInv'
    BY Zenon, <1>0, <1>2, <1>10 DEF IInv, CopyInv
  <1>13. RepliesMatch'
    BY Zenon, <1>0, <1>2, <1>10 DEF IInv, RepliesMatch
  <1>14. IdInv'
    <2>1. IdInv /\ UNCHANGED <<heap, current, pc, sent>>
      BY <1>0 DEF IInv
    <2>2. SocketIds'
      BY <1>5, <1>6, <1>8, <2>1 DEF IdInv, SocketIds
    <2>3. \A r \in Reqs, i \in 1..Len(sockbuf') : heap[r] # NULL => heap[r].id # sockbuf'[i]
      BY <1>5, <1>8, <1>10, <2>1 DEF IdInv, LeftSocket
    <2>4. \A k \in 1..Len(sent), i \in 1..Len(sockbuf') : sent[k].id # sockbuf'[i]
      BY <1>5, <1>8, <1>10, <2>1 DEF IdInv, LeftSocket
    <2>5. LeftSocket'
      BY <2>1, <2>3, <2>4 DEF LeftSocket
    <2>6. RequestIds' /\ SentIds'
      BY <2>1 DEF IdInv, RequestIds, SentIds
    <2> QED
      BY <2>2, <2>5, <2>6 DEF IdInv
  <1> QED
    BY <1>9, <1>11, <1>12, <1>13, <1>14 DEF IInv

(* The start only moves the main thread.                                   *)
LEMMA StartUpStep ==
    ASSUME IInv, SetHandler \/ LoadCommands \/ SetGlobal \/ Handshake
    PROVE  IInv'
  <1> USE DEF SetHandler, LoadCommands, SetGlobal, Handshake, StartUp
  <1>0. UNCHANGED <<arrived, sockbuf, heap, req, queue, current, pc, output, sent>>
    OBVIOUS
  <1>1. main' \in Mains /\ ready' \subseteq Pointers
    BY Zenon DEF IInv, TypeOK, Mains, Pointers
  <1>2. StartInv'
    BY DEF IInv, StartInv, Pointers
  <1> HIDE DEF SetHandler, LoadCommands, SetGlobal, Handshake
  <1>3. TypeOK'
    BY <1>0, <1>1 DEF IInv, TypeOK, Ids, Pointers
  <1>4. OneOwner' /\ CopyInv' /\ OutputInv' /\ IdInv' /\ AnsweredOnce' /\ RepliesMatch'
    BY <1>0, OwnerKept, CopyKept, OutputKept, IdKept, SentKept DEF IInv
  <1> QED
    BY <1>2, <1>3, <1>4 DEF IInv

(* The oldest datagram leaves the socket, for a cell that was free.        *)
LEMMA ReceiveStep ==
    ASSUME IInv, NEW r \in Reqs, Receive(r)
    PROVE  IInv'
  <1> DEFINE id == Head(sockbuf)
  <1>0. /\ UNCHANGED <<ready, arrived, queue, current, pc, output, sent>>
        /\ main = "recv" /\ heap[r] = NULL
        /\ sockbuf' = Tail(sockbuf)
    BY DEF Receive
  <1>1. /\ sockbuf \in Seq(Ids) /\ sockbuf # <<>> /\ Len(sockbuf) <= RCVBUF
        /\ RCVBUF \in Nat /\ Len(sockbuf) \in Nat
    BY ServerAssumption DEF IInv, TypeOK, Receive
  <1>2. /\ id \in Ids /\ id = sockbuf[1] /\ Len(sockbuf) >= 1
        /\ sockbuf' \in Seq(Ids) /\ Len(sockbuf') = Len(sockbuf) - 1
        /\ \A i \in 1..Len(sockbuf') : sockbuf'[i] = sockbuf[i + 1]
    <2>1. /\ id \in Ids /\ Len(sockbuf') = Len(sockbuf) - 1
          /\ sockbuf' \in Seq(Ids)
          /\ \A i \in 1..Len(sockbuf') : sockbuf'[i] = sockbuf[i + 1]
      BY <1>0, <1>1, HeadTailProperties
    <2>2. Len(sockbuf) >= 1
      BY <1>1, EmptySeq
    <2> QED
      BY <1>1, <2>1, <2>2
  <1>3. Ids' = Ids
    BY <1>0 DEF Ids
  <1>4. /\ \A i, j \in 1..Len(sockbuf') : sockbuf'[i] = sockbuf'[j] => i = j
        /\ \A i \in 1..Len(sockbuf') : sockbuf'[i] # id /\ \E j \in 1..Len(sockbuf) : sockbuf'[i] = sockbuf[j]
    <2>1. \A i, j \in 1..Len(sockbuf) : sockbuf[i] = sockbuf[j] => i = j
      BY DEF IInv, IdInv, SocketIds
    <2>2. \A i \in 1..Len(sockbuf') : i + 1 \in 1..Len(sockbuf) /\ i + 1 # 1
      BY <1>1, <1>2
    <2>3. 1 \in 1..Len(sockbuf)
      BY <1>1, <1>2
    <2> QED
      BY <1>2, <2>1, <2>2, <2>3
  <1>5. id # 0 /\ \A k \in 1..Len(sent) : sent[k].id # id
    BY <1>1, <1>2 DEF IInv, IdInv, LeftSocket, Ids
  <1>6. \A s \in Reqs : heap[s] # NULL => heap[s].id # id
    BY <1>1, <1>2 DEF IInv, IdInv, LeftSocket
  <1>7. /\ \A s \in Reqs, i \in 1..Len(sockbuf') : heap[s] # NULL => heap[s].id # sockbuf'[i]
        /\ \A k \in 1..Len(sent), i \in 1..Len(sockbuf') : sent[k].id # sockbuf'[i]
    <2>1. \A s \in Reqs, i \in 1..Len(sockbuf) : heap[s] # NULL => heap[s].id # sockbuf[i]
      BY DEF IInv, IdInv, LeftSocket
    <2>2. \A k \in 1..Len(sent), i \in 1..Len(sockbuf) : sent[k].id # sockbuf[i]
      BY DEF IInv, IdInv, LeftSocket
    <2>3. \A i \in 1..Len(sockbuf') : \E j \in 1..Len(sockbuf) : sockbuf'[i] = sockbuf[j]
      BY <1>4
    <2> QED
      BY <2>1, <2>2, <2>3
  <1>8. AnsweredOnce' /\ RepliesMatch'
    BY <1>0, SentKept DEF IInv
  <1>9. CASE main' = AfterEmpty /\ UNCHANGED <<heap, req>>
    <2>1. TypeOK'
      <3>1. sockbuf' \in Seq(Ids') /\ Len(sockbuf') <= RCVBUF /\ main' \in Mains
        BY <1>1, <1>2, <1>3, <1>9 DEF Mains, AfterEmpty
      <3> QED
        BY <1>0, <1>3, <1>9, <3>1 DEF IInv, TypeOK
    <2>2. StartInv'
      BY <1>0, <1>9 DEF IInv, StartInv, AfterEmpty
    <2>3. OneOwner' /\ CopyInv' /\ OutputInv'
      BY <1>0, <1>9, OwnerKept, CopyKept, OutputKept DEF IInv
    <2>4. SocketIds' /\ RequestIds' /\ SentIds'
      BY <1>0, <1>4, <1>9 DEF IInv, IdInv, SocketIds, RequestIds, SentIds
    <2>5. LeftSocket'
      BY <1>0, <1>7, <1>9 DEF LeftSocket
    <2> QED
      BY <1>8, <2>1, <2>2, <2>3, <2>4, <2>5 DEF IInv, IdInv
  <1>10. CASE heap' = Copied(r) /\ req' = r /\ main' = "enqueue"
    <2>1. Received \in [id : Ids, addr : Clients, data : Datagrams] /\ Received # NULL
      <3>1. Received = [id |-> id, addr |-> arrived[id].addr, data |-> arrived[id].data]
        BY DEF Received
      <3>2. arrived[id] \in [addr : Clients, data : Datagrams]
        BY Zenon, <1>2, ElementOfSeq DEF IInv, TypeOK, Ids
      <3>3. Received \in [id : Ids, addr : Clients, data : Datagrams]
        BY <1>2, <3>1, <3>2
      <3>4. Received \in [id : Nat, addr : Clients, data : Datagrams]
        BY <3>3 DEF Ids
      <3> QED
        BY <3>3, <3>4, ServerAssumption
    <2>2. /\ heap \in [Reqs -> [id : Ids, addr : Clients, data : Datagrams] \cup {NULL}]
          /\ heap'[r] = Received /\ \A s \in Reqs : s # r => heap'[s] = heap[s]
          /\ heap' \in [Reqs -> [id : Ids, addr : Clients, data : Datagrams] \cup {NULL}]
      BY <1>10, <2>1 DEF IInv, TypeOK, Copied
    <2>3. Received.id = id /\ Received.addr = arrived[id].addr /\ Received.data = arrived[id].data
      BY DEF Received
    <2>4. TypeOK'
      BY <1>0, <1>1, <1>2, <1>3, <1>10, <2>2 DEF IInv, TypeOK, Mains
    <2>5. req = NULL /\ r # NULL /\ ~Queue!InQueue(r) /\ \A w \in Workers : current[w] # r
      BY <1>0, ServerAssumption DEF IInv, StartInv, OneOwner
    <2>6. StartInv'
      BY <1>0, <1>10, <2>5 DEF IInv, StartInv
    <2>7. OneOwner'
      <3>1. \A s : Queue!InQueue(s)' <=> Queue!InQueue(s)
        BY <1>0 DEF Queue!InQueue
      <3>2. {s \in Reqs : heap'[s] # NULL} = {s \in Reqs : heap[s] # NULL} \cup {r}
        BY <2>1, <2>2
      <3>3. OneOwner /\ req' = r /\ current' = current /\ queue' = queue
        BY <1>0, <1>10 DEF IInv
      <3>4. {s \in Reqs : heap'[s] # NULL} =
               {s \in Reqs : s = r \/ Queue!InQueue(s) \/ \E w \in Workers : current[w] = s}
        BY <2>5, <3>2, <3>3, ServerAssumption DEF OneOwner
      <3>5. ~Queue!InQueue(req)'
        BY <2>5, <3>1, <3>3
      <3>6. (\A w \in Workers : current[w] # NULL => ~Queue!InQueue(current[w]))'
        BY <3>1, <3>3 DEF OneOwner
      <3>7. /\ \A i, j \in 1..Len(queue) : queue[i] = queue[j] => i = j
            /\ \A v, w \in Workers : current[v] = current[w] /\ current[v] # NULL => v = w
        BY <3>3 DEF OneOwner
      <3> QED
        BY <2>5, <3>1, <3>3, <3>4, <3>5, <3>6, <3>7 DEF OneOwner
    <2>8. CopyInv'
      BY <1>0, <2>2, <2>3 DEF IInv, CopyInv
    <2>9. OutputInv'
      BY <1>0, <2>2, <2>5 DEF IInv, OutputInv, StartInv, TypeOK
    <2>10. IdInv'
      <3>1. IdInv /\ UNCHANGED <<sent, current, pc>>
        BY <1>0 DEF IInv
      <3>2. RequestIds'
        BY <1>6, <2>2, <2>3, <3>1 DEF IdInv, RequestIds
      <3>3. \A s \in Reqs, i \in 1..Len(sockbuf') : heap'[s] # NULL => heap'[s].id # sockbuf'[i]
        BY <1>4, <1>7, <2>2, <2>3
      <3>4. SentIds'
        <4> SUFFICES ASSUME NEW s \in Reqs, NEW k \in 1..Len(sent),
                            heap'[s] # NULL, sent[k].id = heap'[s].id
                     PROVE  \E w \in Workers : current[w] = s /\ pc[w] = "free"
          BY <3>1 DEF SentIds
        <4>1. s # r
          BY <1>5, <2>2, <2>3
        <4> QED
          BY <2>2, <3>1, <4>1 DEF IdInv, SentIds
      <3>5. SocketIds'
        BY <1>4 DEF SocketIds
      <3>6. LeftSocket'
        BY <1>7, <3>1, <3>3 DEF LeftSocket
      <3> QED
        BY <3>2, <3>4, <3>5, <3>6 DEF IdInv
    <2> QED
      BY <1>8, <2>4, <2>6, <2>7, <2>8, <2>9, <2>10 DEF IInv
  <1> QED
    BY <1>9, <1>10 DEF Receive

(* What a worker holds is in use, and so the loop has been reached.        *)
LEMMA HeldByWorker ==
    ASSUME IInv, NEW w \in Workers, pc[w] # "dequeue"
    PROVE  /\ current[w] \in Reqs /\ heap[current[w]] # NULL
           /\ heap[current[w]] \in [id : Ids, addr : Clients, data : Datagrams]
           /\ ready = Pointers
  <1>1. current[w] \in Reqs
    BY DEF IInv, TypeOK, StartInv
  <1>2. heap[current[w]] # NULL
    BY <1>1 DEF IInv, OneOwner
  <1>3. main \in {"recv", "enqueue"}
    BY <1>1, <1>2 DEF IInv, StartInv
  <1> QED
    BY <1>1, <1>2, <1>3 DEF IInv, TypeOK, StartInv

(* The request that the main thread owns becomes the queue's.              *)
LEMMA EnqueueStep ==
    ASSUME IInv, Enqueue
    PROVE  IInv'
  <1>0. /\ UNCHANGED <<ready, arrived, sockbuf, heap, current, pc, output, sent>>
        /\ main = "enqueue" /\ main' = "recv" /\ req' = NULL
        /\ queue' = Append(queue, req)
        /\ ~Queue!InQueue(req) /\ \A w \in Workers : current[w] # req
    BY DEF Enqueue, Queue!Put
  <1>1. req \in Reqs /\ queue \in Seq(Reqs) /\ Len(queue) \in Nat
    BY <1>0 DEF IInv, TypeOK, StartInv
  <1>2. /\ queue' \in Seq(Reqs) /\ Len(queue') = Len(queue) + 1
        /\ \A i \in 1..Len(queue) : queue'[i] = queue[i]
        /\ queue'[Len(queue) + 1] = req
    BY <1>0, <1>1, AppendProperties
  <1>3. TypeOK'
    BY <1>0, <1>2 DEF IInv, TypeOK, Ids, Mains
  <1>4. StartInv'
    BY <1>0 DEF IInv, StartInv
  <1>5. OneOwner'
    <2>1. \A s : Queue!InQueue(s)' <=> Queue!InQueue(s) \/ s = req
      <3>1. \A s : Queue!InQueue(s) => Queue!InQueue(s)'
        BY <1>1, <1>2 DEF Queue!InQueue
      <3>2. \A s : s = req => Queue!InQueue(s)'
        BY <1>1, <1>2 DEF Queue!InQueue
      <3>3. \A s : Queue!InQueue(s)' => Queue!InQueue(s) \/ s = req
        BY <1>1, <1>2 DEF Queue!InQueue
      <3> QED
        BY <3>1, <3>2, <3>3
    <2>2. \A i, j \in 1..Len(queue') : queue'[i] = queue'[j] => i = j
      <3>1. \A i \in 1..Len(queue) : queue[i] # req
        BY <1>0 DEF Queue!InQueue
      <3>2. \A i, j \in 1..Len(queue) : queue[i] = queue[j] => i = j
        BY DEF IInv, OneOwner
      <3>3. \A i \in 1..Len(queue') : i \in 1..Len(queue) \/ i = Len(queue) + 1
        BY <1>1, <1>2
      <3> QED
        BY <1>2, <3>1, <3>2, <3>3
    <2>3. OneOwner /\ req' = NULL /\ current' = current /\ heap' = heap
      BY <1>0 DEF IInv
    <2>4. ~Queue!InQueue(NULL)
      BY <1>1, ElementOfSeq, ServerAssumption DEF Queue!InQueue
    <2>5. {s \in Reqs : heap[s] # NULL} =
             {s \in Reqs : s = NULL \/ Queue!InQueue(s)' \/ \E w \in Workers : current[w] = s}
      BY <1>1, <2>1, <2>3, ServerAssumption DEF OneOwner
    <2>6. (\A w \in Workers : current[w] # NULL => ~Queue!InQueue(current[w]))'
      BY <1>0, <2>1, <2>3 DEF OneOwner
    <2>7. ~Queue!InQueue(req)'
      BY <1>1, <2>1, <2>3, <2>4, ServerAssumption
    <2>8. \A v, w \in Workers : current[v] = current[w] /\ current[v] # NULL => v = w
      BY <2>3 DEF OneOwner
    <2> QED
      BY <2>2, <2>3, <2>5, <2>6, <2>7, <2>8 DEF OneOwner
  <1>6. CopyInv' /\ OutputInv' /\ IdInv' /\ AnsweredOnce' /\ RepliesMatch'
    BY <1>0, CopyKept, OutputKept, IdKept, SentKept DEF IInv
  <1> QED
    BY <1>3, <1>4, <1>5, <1>6 DEF IInv

(* The oldest request becomes a worker's.                                  *)
LEMMA DequeueStep ==
    ASSUME IInv, NEW w \in Workers, Dequeue(w)
    PROVE  IInv'
  <1>0. /\ UNCHANGED <<main, ready, arrived, sockbuf, heap, req, output, sent>>
        /\ pc[w] = "dequeue" /\ pc' = [pc EXCEPT ![w] = "handle"]
        /\ current[w] = NULL /\ queue # <<>>
        /\ current' = [current EXCEPT ![w] = Head(queue)]
        /\ queue' = Tail(queue)
    BY DEF Dequeue, Goto, Queue!Take
  <1> DEFINE r == Head(queue)
  <1>1. queue \in Seq(Reqs) /\ Len(queue) \in Nat
    BY DEF IInv, TypeOK
  <1>2. /\ r \in Reqs /\ r = queue[1] /\ Len(queue) >= 1
        /\ queue' \in Seq(Reqs) /\ Len(queue') = Len(queue) - 1
        /\ \A i \in 1..Len(queue') : queue'[i] = queue[i + 1]
    <2>1. /\ r \in Reqs /\ Len(queue') = Len(queue) - 1
          /\ queue' \in Seq(Reqs)
          /\ \A i \in 1..Len(queue') : queue'[i] = queue[i + 1]
      BY <1>0, <1>1, HeadTailProperties
    <2>2. Len(queue) >= 1
      BY <1>0, <1>1, EmptySeq
    <2>3. r = queue[1]
      BY <1>1
    <2> QED
      BY <2>1, <2>2, <2>3
  <1>3. /\ current \in [Workers -> Reqs \cup {NULL}]
        /\ pc \in [Workers -> {"dequeue", "handle", "send", "free"}]
    BY DEF IInv, TypeOK
  <1>4. /\ current'[w] = r /\ \A v \in Workers : v # w => current'[v] = current[v]
        /\ current' \in [Workers -> Reqs \cup {NULL}]
        /\ pc'[w] = "handle" /\ \A v \in Workers : v # w => pc'[v] = pc[v]
        /\ pc' \in [Workers -> {"dequeue", "handle", "send", "free"}]
    BY <1>0, <1>2, <1>3
  <1>5. TypeOK'
    BY <1>0, <1>2, <1>4 DEF IInv, TypeOK, Ids, Mains
  <1>6. r # NULL
    BY <1>2, ServerAssumption
  <1>7. StartInv'
    BY <1>0, <1>4, <1>6 DEF IInv, StartInv
  <1>8. /\ Queue!InQueue(r) /\ 1 \in 1..Len(queue)
        /\ \A i \in 1..Len(queue') : i + 1 \in 1..Len(queue) /\ i + 1 # 1
    BY <1>1, <1>2 DEF Queue!InQueue
  <1>9. OneOwner'
    <2>1. \A i, j \in 1..Len(queue) : queue[i] = queue[j] => i = j
      BY DEF IInv, OneOwner
    <2>2. \A i, j \in 1..Len(queue') : queue'[i] = queue'[j] => i = j
      BY <1>1, <1>2, <1>8, <2>1
    <2>3. \A s : Queue!InQueue(s)' => Queue!InQueue(s) /\ s # r
      BY <1>2, <1>8, <2>1 DEF Queue!InQueue
    <2>4. ASSUME NEW s, Queue!InQueue(s), s # r PROVE Queue!InQueue(s)'
      <3>1. PICK i \in 1..Len(queue) : queue[i] = s
        BY <2>4 DEF Queue!InQueue
      <3>2. i - 1 \in 1..Len(queue') /\ (i - 1) + 1 = i
        BY <1>1, <1>2, <2>4, <3>1
      <3>3. queue'[i - 1] = s
        BY <1>2, <3>1, <3>2
      <3> QED
        BY <3>2, <3>3 DEF Queue!InQueue
    <2>5. OneOwner /\ req' = req /\ heap' = heap
      BY <1>0 DEF IInv
    <2>6. \A v \in Workers : current[v] # r
      BY <1>6, <1>8, <2>5 DEF OneOwner
    <2>7. {s \in Reqs : s = req' \/ Queue!InQueue(s)' \/ \E v \in Workers : current'[v] = s}
            = {s \in Reqs : s = req \/ Queue!InQueue(s) \/ \E v \in Workers : current[v] = s}
      BY <1>0, <1>2, <1>4, <1>6, <1>8, <2>3, <2>4, <2>5, ServerAssumption
    <2>8. \A u, v \in Workers : current'[u] = current'[v] /\ current'[u] # NULL => u = v
      BY <1>4, <2>5, <2>6 DEF OneOwner
    <2>9. (\A v \in Workers : current[v] # NULL => ~Queue!InQueue(current[v]))'
      BY <1>4, <2>3, <2>5 DEF OneOwner
    <2>10. ~Queue!InQueue(req)' /\ \A v \in Workers : current'[v] # NULL => req # current'[v]
      BY <1>4, <1>8, <2>3, <2>5 DEF OneOwner
    <2> QED
      BY <2>2, <2>5, <2>7, <2>8, <2>9, <2>10 DEF OneOwner
  <1>10. CopyInv' /\ AnsweredOnce' /\ RepliesMatch'
    BY <1>0, CopyKept, SentKept DEF IInv
  <1>11. OutputInv'
    BY <1>0, <1>4 DEF IInv, OutputInv
  <1>12. IdInv'
    <2>1. SocketIds' /\ RequestIds'
      BY <1>0 DEF IInv, IdInv, SocketIds, RequestIds
    <2>2. LeftSocket'
      BY <1>0 DEF IInv, IdInv, LeftSocket
    <2>3. \A s, v : v \in Workers /\ current[v] = s /\ pc[v] = "free" => current'[v] = s /\ pc'[v] = "free"
      BY <1>0, <1>4
    <2>4. SentIds'
      BY <1>0, <2>3 DEF IInv, IdInv, SentIds
    <2> QED
      BY <2>1, <2>2, <2>4 DEF IdInv
  <1> QED
    BY <1>5, <1>7, <1>9, <1>10, <1>11, <1>12 DEF IInv

(* The handler is called with the bytes of the worker's request.           *)
LEMMA HandleStep ==
    ASSUME IInv, NEW w \in Workers, Handle(w)
    PROVE  IInv'
  <1> DEFINE d == heap[current[w]].data
  <1>1. /\ pc[w] = "handle" /\ "request_handler" \in ready
        /\ heap[current[w]] \in [id : Ids, addr : Clients, data : Datagrams]
    <2>1. pc[w] = "handle"
      BY DEF Handle, Goto
    <2> QED
      BY <2>1, HeldByWorker DEF Pointers
  <1>2. /\ pc' = [pc EXCEPT ![w] = "send"]
        /\ output' = [output EXCEPT ![w] = node_request_handler(d)]
        /\ UNCHANGED <<main, ready, arrived, sockbuf, heap, req, queue, current, sent>>
    BY <1>1 DEF Handle, Goto
  <1>3. node_request_handler(d) \in [output : Seq(Byte), len : Nat]
    <2>1. d \in Seq(Byte)
      BY <1>1, ServerAssumption
    <2> QED
      BY <2>1, HandlerResult
  <1>4. /\ pc \in [Workers -> {"dequeue", "handle", "send", "free"}]
        /\ output \in [Workers -> [output : Seq(Byte), len : Nat] \cup {NULL}]
    BY DEF IInv, TypeOK
  <1> HIDE DEF d
  <1>5. /\ pc'[w] = "send" /\ \A v \in Workers : v # w => pc'[v] = pc[v]
        /\ pc' \in [Workers -> {"dequeue", "handle", "send", "free"}]
        /\ output'[w] = node_request_handler(d)
        /\ \A v \in Workers : v # w => output'[v] = output[v]
        /\ output' \in [Workers -> [output : Seq(Byte), len : Nat] \cup {NULL}]
    BY <1>2, <1>3, <1>4
  <1>6. TypeOK'
    BY <1>2, <1>5 DEF IInv, TypeOK, Ids
  <1>7. StartInv'
    BY <1>1, <1>2, <1>5 DEF IInv, StartInv
  <1>8. OneOwner' /\ CopyInv' /\ AnsweredOnce' /\ RepliesMatch'
    BY <1>2, OwnerKept, CopyKept, SentKept DEF IInv
  <1>9. OutputInv'
    BY Zenon, <1>2, <1>5 DEF IInv, OutputInv, d
  <1>10. IdInv'
    <2>1. SocketIds' /\ RequestIds'
      BY <1>2 DEF IInv, IdInv, SocketIds, RequestIds
    <2>2. LeftSocket'
      BY <1>2 DEF IInv, IdInv, LeftSocket
    <2>3. \A r, v : v \in Workers /\ current[v] = r /\ pc[v] = "free" => current'[v] = r /\ pc'[v] = "free"
      BY <1>1, <1>5, <1>2
    <2>4. SentIds'
      BY <1>2, <2>3 DEF IInv, IdInv, SentIds
    <2> QED
      BY <2>1, <2>2, <2>4 DEF IdInv
  <1> QED
    BY <1>6, <1>7, <1>8, <1>9, <1>10 DEF IInv

(* A reply is sent for an id that has none, and matches its datagram.      *)
LEMMA SendStep ==
    ASSUME IInv, NEW w \in Workers, Send(w)
    PROVE  IInv'
  <1> DEFINE h == heap[current[w]]
  <1>1. /\ pc[w] = "send" /\ pc' = [pc EXCEPT ![w] = "free"]
        /\ sent' = Append(sent, SendTo(w))
        /\ UNCHANGED <<main, ready, arrived, sockbuf, heap, req, queue, current, output>>
    BY DEF Send, AfterSend, Goto
  <1>2. /\ current[w] \in Reqs /\ h # NULL
        /\ h \in [id : Ids, addr : Clients, data : Datagrams]
    BY <1>1, HeldByWorker
  <1>3. SendTo(w) = [id |-> h.id, to |-> h.addr, data |-> Reply(node_request_handler(h.data))]
    BY <1>1 DEF SendTo, IInv, OutputInv
  <1>4. h.id \in Ids /\ h.addr \in Clients /\ h.data \in Seq(Byte)
    BY <1>2, ServerAssumption
  <1>5. Reply(node_request_handler(h.data)) \in Seq(Byte)
    BY <1>4, HandlerResult
  <1>6. SendTo(w) \in [id : Ids, to : Clients, data : Seq(Byte)]
    <2> HIDE DEF h
    <2> QED
      BY <1>3, <1>4, <1>5
  <1> DEFINE Calls == [id : Ids, to : Clients, data : Seq(Byte)]
             n == Len(sent) + 1
  <1>7. sent \in Seq(Calls) /\ SendTo(w) \in Calls /\ Len(sent) \in Nat
    <2>1. sent \in Seq(Calls) /\ SendTo(w) \in Calls
      BY Zenon, <1>6 DEF IInv, TypeOK
    <2> HIDE DEF Calls
    <2> QED
      BY <2>1, LenProperties
  <1> HIDE DEF Calls
  <1>8. /\ sent' \in Seq(Calls)
        /\ Len(sent') = n /\ sent'[n] = SendTo(w)
        /\ \A i \in 1..Len(sent) : sent'[i] = sent[i]
    BY <1>1, <1>7, AppendProperties
  <1>9. sent'[n].id = h.id /\ sent'[n].to = h.addr
        /\ sent'[n].data = Reply(node_request_handler(h.data))
    <2>1. sent'[n] = [id |-> h.id, to |-> h.addr, data |-> Reply(node_request_handler(h.data))]
      BY <1>3, <1>8
    <2> HIDE DEF h, n
    <2> QED
      BY <2>1
  <1>10. \A i \in 1..Len(sent') : i \in 1..Len(sent) \/ i = n
    BY <1>7, <1>8
  <1>11. /\ pc'[w] = "free" /\ \A v \in Workers : v # w => pc'[v] = pc[v]
         /\ pc' \in [Workers -> {"dequeue", "handle", "send", "free"}]
    BY <1>1 DEF IInv, TypeOK
  <1>12. \A i \in 1..Len(sent) : sent[i].id # h.id
    <2> SUFFICES ASSUME NEW i \in 1..Len(sent), sent[i].id = h.id PROVE FALSE
      OBVIOUS
    <2>1. PICK v \in Workers : current[v] = current[w] /\ pc[v] = "free"
      BY <1>2 DEF IInv, IdInv, SentIds
    <2>2. v = w
      BY Zenon, <1>2, <2>1, ServerAssumption DEF IInv, OneOwner
    <2> QED
      BY Zenon, <1>1, <2>1, <2>2
  <1>13. arrived[h.id].addr = h.addr /\ arrived[h.id].data = h.data
    BY <1>2 DEF IInv, CopyInv
  <1> HIDE DEF h, n
  <1>14. TypeOK'
    BY <1>1, <1>8, <1>11 DEF IInv, TypeOK, Ids, Calls
  <1>15. StartInv'
    BY Zenon, <1>1, <1>11 DEF IInv, StartInv
  <1>16. OneOwner' /\ CopyInv'
    BY <1>1, OwnerKept, CopyKept DEF IInv
  <1>17. OutputInv'
    BY Zenon, <1>1, <1>11 DEF IInv, OutputInv
  <1>18. AnsweredOnce'
    BY <1>8, <1>9, <1>10, <1>12 DEF IInv, AnsweredOnce
  <1>19. RepliesMatch'
    <2>1. \A i \in 1..Len(sent) : /\ sent'[i].to = arrived[sent'[i].id].addr
                                  /\ sent'[i].data = Reply(node_request_handler(arrived[sent'[i].id].data))
      BY <1>8 DEF IInv, RepliesMatch
    <2>2. /\ sent'[n].to = arrived[sent'[n].id].addr
          /\ sent'[n].data = Reply(node_request_handler(arrived[sent'[n].id].data))
      BY <1>9, <1>13
    <2> QED
      BY <1>1, <1>10, <2>1, <2>2 DEF RepliesMatch
  <1>20. IdInv'
    <2>1. IdInv /\ UNCHANGED <<sockbuf, heap, current>>
      BY <1>1 DEF IInv
    <2>2. SocketIds' /\ RequestIds'
      BY <2>1 DEF IdInv, SocketIds, RequestIds
    <2>3. \A i \in 1..Len(sockbuf) : h.id # sockbuf[i]
      BY <1>2, <2>1 DEF IdInv, LeftSocket, h
    <2>4. \A k \in 1..Len(sent'), i \in 1..Len(sockbuf) : sent'[k].id # sockbuf[i]
      <3>1. \A k \in 1..Len(sent), i \in 1..Len(sockbuf) : sent[k].id # sockbuf[i]
        BY <2>1 DEF IdInv, LeftSocket
      <3>2. \A k \in 1..Len(sent), i \in 1..Len(sockbuf) : sent'[k].id # sockbuf[i]
        BY <1>8, <3>1
      <3> QED
        BY <1>9, <1>10, <2>3, <3>2
    <2>5. LeftSocket'
      BY <2>1, <2>4 DEF IdInv, LeftSocket
    <2>6. ASSUME NEW r \in Reqs, NEW k \in 1..Len(sent'), heap[r] # NULL, sent'[k].id = heap[r].id
          PROVE  \E v \in Workers : current[v] = r /\ pc'[v] = "free"
      <3>1. CASE k \in 1..Len(sent)
        <4>1. sent[k].id = heap[r].id
          BY <1>8, <2>6, <3>1
        <4>2. PICK v \in Workers : current[v] = r /\ pc[v] = "free"
          BY <2>1, <2>6, <3>1, <4>1 DEF IdInv, SentIds
        <4>3. pc'[v] = "free"
          BY <1>1, <1>11, <4>2
        <4> QED
          BY <4>2, <4>3
      <3>2. CASE k = n
        <4>1. h.id = heap[r].id
          BY <1>9, <2>6, <3>2
        <4>2. r = current[w]
          BY <1>2, <2>1, <2>6, <4>1 DEF IdInv, RequestIds, h
        <4> QED
          BY <1>11, <4>2
      <3> QED
        BY <1>10, <3>1, <3>2
    <2>7. SentIds'
      BY <2>1, <2>6 DEF SentIds
    <2> QED
      BY <2>2, <2>5, <2>7 DEF IdInv
  <1> QED
    BY <1>14, <1>15, <1>16, <1>17, <1>18, <1>19, <1>20 DEF IInv

(* The worker gives its request back to the heap.                          *)
LEMMA FreeStep ==
    ASSUME IInv, NEW w \in Workers, Free(w)
    PROVE  IInv'
  <1> DEFINE r == current[w]
  <1>1. /\ pc[w] = "free" /\ pc' = [pc EXCEPT ![w] = "dequeue"]
        /\ heap' = [heap EXCEPT ![r] = NULL]
        /\ output' = [output EXCEPT ![w] = NULL]
        /\ current' = [current EXCEPT ![w] = NULL]
        /\ UNCHANGED <<main, ready, arrived, sockbuf, req, queue, sent>>
    BY DEF Free, Freed, Goto, Queue!Finish
  <1>2. r \in Reqs /\ heap[r] # NULL /\ r # NULL
    BY <1>1, HeldByWorker, ServerAssumption
  <1>3. /\ pc'[w] = "dequeue" /\ \A v \in Workers : v # w => pc'[v] = pc[v]
        /\ pc' \in [Workers -> {"dequeue", "handle", "send", "free"}]
        /\ current'[w] = NULL /\ \A v \in Workers : v # w => current'[v] = current[v]
        /\ current' \in [Workers -> Reqs \cup {NULL}]
    BY <1>1 DEF IInv, TypeOK
  <1>4. /\ heap'[r] = NULL /\ \A s \in Reqs : s # r => heap'[s] = heap[s]
        /\ heap' \in [Reqs -> [id : Ids, addr : Clients, data : Datagrams] \cup {NULL}]
    BY <1>1, <1>2 DEF IInv, TypeOK
  <1>5. /\ \A v \in Workers : v # w => output'[v] = output[v]
        /\ output' \in [Workers -> [output : Seq(Byte), len : Nat] \cup {NULL}]
    BY <1>1 DEF IInv, TypeOK
  <1>6. \A v \in Workers : v # w => current[v] # r
    BY <1>2 DEF IInv, OneOwner
  <1>7. ~Queue!InQueue(r) /\ req # r
    BY <1>2 DEF IInv, OneOwner
  <1> HIDE DEF r
  <1>8. TypeOK'
    BY <1>1, <1>3, <1>4, <1>5 DEF IInv, TypeOK, Ids
  <1>9. StartInv'
    BY <1>1, <1>3, <1>4 DEF IInv, StartInv
  <1>10. OneOwner'
    <2>1. \A s : Queue!InQueue(s)' <=> Queue!InQueue(s)
      BY <1>1 DEF Queue!InQueue
    <2>2. OneOwner /\ req' = req /\ queue' = queue
      BY <1>1 DEF IInv
    <2>3. {s \in Reqs : heap'[s] # NULL} = {s \in Reqs : heap[s] # NULL} \ {r}
      BY <1>2, <1>4
    <2>4. {s \in Reqs : s = req' \/ Queue!InQueue(s)' \/ \E v \in Workers : current'[v] = s}
            = {s \in Reqs : s = req \/ Queue!InQueue(s) \/ \E v \in Workers : current[v] = s} \ {r}
      <3>1. \A s \in Reqs : (\E v \in Workers : current'[v] = s)
                               <=> s # r /\ \E v \in Workers : current[v] = s
        <4>1. \A s \in Reqs : s # NULL
          BY ServerAssumption
        <4>2. \A s \in Reqs : (\E v \in Workers : current'[v] = s)
                                 => s # r /\ \E v \in Workers : current[v] = s
          BY <1>3, <1>6, <4>1
        <4>3. \A s \in Reqs : s # r /\ (\E v \in Workers : current[v] = s)
                                 => \E v \in Workers : current'[v] = s
          BY <1>3 DEF r
        <4> QED
          BY <4>2, <4>3
      <3> QED
        BY <1>7, <2>1, <2>2, <3>1
    <2>5. (\A v \in Workers : current[v] # NULL => ~Queue!InQueue(current[v]))'
      BY <1>3, <2>1, <2>2 DEF OneOwner
    <2>6. \A u, v \in Workers : current'[u] = current'[v] /\ current'[u] # NULL => u = v
      BY <1>3, <2>2 DEF OneOwner
    <2>7. ~Queue!InQueue(req)' /\ \A v \in Workers : current'[v] # NULL => req' # current'[v]
      BY <1>3, <2>1, <2>2 DEF OneOwner
    <2> QED
      BY <2>2, <2>3, <2>4, <2>5, <2>6, <2>7 DEF OneOwner
  <1>11. CopyInv'
    BY <1>1, <1>4 DEF IInv, CopyInv
  <1>12. OutputInv'
    <2> SUFFICES ASSUME NEW v \in Workers, pc'[v] = "send"
                 PROVE  output'[v] = node_request_handler(heap'[current'[v]].data)
      BY DEF OutputInv
    <2>1. v # w /\ pc[v] = "send" /\ current'[v] = current[v] /\ output'[v] = output[v]
      BY <1>3, <1>5
    <2>2. current[v] \in Reqs /\ current[v] # r
      BY <1>6, <2>1, HeldByWorker
    <2> QED
      BY <1>4, <2>1, <2>2 DEF IInv, OutputInv
  <1>13. IdInv'
    <2>1. IdInv /\ UNCHANGED <<sockbuf, sent>>
      BY <1>1 DEF IInv
    <2>2. \A s \in Reqs : heap'[s] # NULL => s # r /\ heap'[s] = heap[s]
      BY <1>4
    <2>3. \A s \in Reqs, v \in Workers :
             s # r /\ current[v] = s /\ pc[v] = "free" => current'[v] = s /\ pc'[v] = "free"
      BY <1>3 DEF r
    <2>4. SocketIds' /\ RequestIds'
      BY <2>1, <2>2 DEF IdInv, SocketIds, RequestIds
    <2>5. LeftSocket'
      BY <2>1, <2>2 DEF IdInv, LeftSocket
    <2>6. SentIds'
      BY <2>1, <2>2, <2>3 DEF IdInv, SentIds
    <2> QED
      BY <2>4, <2>5, <2>6 DEF IdInv
  <1>14. AnsweredOnce' /\ RepliesMatch'
    BY <1>1, SentKept DEF IInv
  <1> QED
    BY <1>8, <1>9, <1>10, <1>11, <1>12, <1>13, <1>14 DEF IInv

(* Every step preserves the invariant.                                     *)
LEMMA IInvNext == IInv /\ [Next]_vars => IInv'
  <1> SUFFICES ASSUME IInv, [Next]_vars PROVE IInv'
    OBVIOUS
  <1>1. CASE UNCHANGED vars
    <2>1. UNCHANGED <<main, ready, arrived, sockbuf, heap, req, queue, current, pc, output, sent>>
      BY <1>1 DEF vars
    <2>2. TypeOK'
      BY <2>1 DEF IInv, TypeOK, Ids
    <2>3. StartInv'
      BY <2>1 DEF IInv, StartInv
    <2>4. OneOwner' /\ CopyInv' /\ OutputInv' /\ IdInv' /\ AnsweredOnce' /\ RepliesMatch'
      BY <2>1, OwnerKept, CopyKept, OutputKept, IdKept, SentKept DEF IInv
    <2> QED
      BY <2>2, <2>3, <2>4 DEF IInv
  <1>2. CASE \E c \in Clients, d \in Datagrams : Arrive(c, d)
    BY <1>2, ArriveStep
  <1>3. CASE Main
    BY <1>3, StartUpStep, ReceiveStep, EnqueueStep DEF Main
  <1>4. CASE \E w \in Workers : Dequeue(w) \/ Worker(w)
    BY <1>4, DequeueStep, HandleStep, SendStep, FreeStep DEF Worker
  <1> QED
    BY <1>1, <1>2, <1>3, <1>4 DEF Next

------------------------------------------------------------------------------
(* Type correctness of the server.                                         *)
THEOREM TypeCorrect == Spec => []TypeOK
  <1>1. IInv => TypeOK
    BY DEF IInv
  <1> QED
    BY <1>1, IInvInit, IInvNext, PTL DEF Spec

(* The workers of udp_server_new run before node_new and main have set the *)
(* handler, the commands and global_node, and yet none of them ever reaches*)
(* the handler too early: requests come only from udp_server_run.          *)
THEOREM HandlerIsReady == Spec => []HandlerReady
  <1>1. IInv => HandlerReady
    BY HeldByWorker DEF HandlerReady, Pointers
  <1> QED
    BY <1>1, IInvInit, IInvNext, PTL DEF Spec

(* No request leaks, and none is used by two threads or after its free,    *)
(* from recvfrom through the queue to the free of the worker.              *)
THEOREM RequestsOwned == Spec => []OneOwner
  <1>1. IInv => OneOwner
    BY DEF IInv
  <1> QED
    BY <1>1, IInvInit, IInvNext, PTL DEF Spec

(* However many workers share the queue, a datagram is answered once.      *)
THEOREM OneAnswer == Spec => []AnsweredOnce
  <1>1. IInv => AnsweredOnce
    BY DEF IInv
  <1> QED
    BY <1>1, IInvInit, IInvNext, PTL DEF Spec

(* What a worker sends is the handler's answer to the datagram and goes to *)
(* its sender.                                                             *)
THEOREM AnswersMatch == Spec => []RepliesMatch
  <1>1. IInv => RepliesMatch
    BY DEF IInv
  <1> QED
    BY <1>1, IInvInit, IInvNext, PTL DEF Spec

(* End to end: a client that sent a well-formed PING parses a PONG of this *)
(* node with the id of its request, and any other packet is answered by    *)
(* CMD_ERROR, for all 65,536 ids, all hashes and all payloads.             *)
THEOREM PingIsAnswered == Spec => []PingGetsPong
  <1>1. ASSUME IInv PROVE PingGetsPong
    <2> SUFFICES ASSUME NEW i \in 1..Len(sent),
                        packet_from_bytes(arrived[sent[i].id].data) # NULL
                 PROVE  packet_from_bytes(sent[i].data) =
                            AnswerTo(packet_from_bytes(arrived[sent[i].id].data))
      BY DEF PingGetsPong, AnswerTo, ErrorPacket
    <2> DEFINE d == arrived[sent[i].id].data
    <2>1. d \in Seq(Byte)
      <3>1. sent[i].id \in Ids
        BY <1>1, KnownIds DEF IInv
      <3>2. arrived[sent[i].id] \in [addr : Clients, data : Datagrams]
        BY Zenon, <1>1, <3>1, ElementOfSeq DEF IInv, TypeOK, Ids
      <3> QED
        BY <3>2, ServerAssumption
    <2>2. sent[i].data = Reply(node_request_handler(d))
      BY <1>1 DEF IInv, RepliesMatch
    <2> HIDE DEF d
    <2>3. ASSUME packet_from_bytes(d) # NULL
          PROVE  packet_from_bytes(sent[i].data) = AnswerTo(packet_from_bytes(d))
      <3>1. /\ AnswerTo(packet_from_bytes(d)) \in Packets
            /\ sent[i].data = packet_to_bytes(AnswerTo(packet_from_bytes(d)))
        BY <2>1, <2>2, <2>3, HandlerResult
      <3> QED
        BY <3>1, ParseEncoded
    <2> QED
      BY <2>3 DEF d
  <1> QED
    BY <1>1, IInvInit, IInvNext, PTL DEF Spec

==============================================================================
