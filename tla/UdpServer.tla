------------------------------- MODULE UdpServer -------------------------------
(***************************************************************************)
(* transfer/udp.c, as node.c and main.c start it: the main thread brings   *)
(* the node up and then moves datagrams from the socket to the queue;      *)
(* worker threads, already running by then, take requests from the queue,  *)
(* run the handler and send its reply.                                     *)
(*                                                                         *)
(* The queue is the FIFO channel that module XQueue implements.  Requests  *)
(* live in heap cells that the main thread allocates and a worker frees.   *)
(***************************************************************************)
EXTENDS RequestHandler, FiniteSets

CONSTANTS
    Workers,        \* the threads of udp_server_new
    Clients,        \* source addresses
    Datagrams,      \* the contents of datagrams that may arrive
    Reqs,           \* heap cells for udp_request_t
    RCVBUF,         \* how many datagrams the socket buffers (SO_RCVBUF)
    MAX_ARRIVALS    \* bound: datagrams that arrive in a behaviour

ASSUME ServerAssumption ==
    /\ Datagrams \subseteq Seq(Byte)
    /\ RCVBUF \in Nat /\ MAX_ARRIVALS \in Nat
    /\ NULL \notin Reqs
    /\ NULL \notin [id : Nat, addr : Clients, data : Datagrams]

(* The program has a defined behaviour for the datagrams that arrive.      *)
ASSUME LogAssumption == \A d \in Datagrams : LogFits(d)

VARIABLES
    main,       \* what the main thread does next
    ready,      \* what it has set up: the pointers that a worker will follow
    arrived,    \* history: the datagrams that arrived, [addr, data]; an index is an id
    sockbuf,    \* ids of the datagrams in the socket's receive buffer
    heap,       \* heap[r]: the datagram copied to request r, with its id; NULL when free
    req,        \* local variable of udp_server_run: the request not yet enqueued
    queue,      \* server->queue
    current,    \* current[w]: local variable `req' of __worker_function
    pc,         \* where each worker is
    output,     \* output[w]: what the handler returned to worker w
    sent        \* history: the calls of sendto, in order

vars == <<main, ready, arrived, sockbuf, heap, req, queue, current, pc, output, sent>>

Queue == INSTANCE FifoQueue WITH Items <- Reqs, Consumers <- Workers, output <- current

Ids == 1..Len(arrived)

(* udp_server_new has returned: the socket is bound and the workers run,   *)
(* but there is no handler, no command and no global_node yet.             *)
Init ==
    /\ main = "set_handler"
    /\ ready = {}
    /\ arrived = <<>>
    /\ sockbuf = <<>>
    /\ heap = [r \in Reqs |-> NULL]
    /\ req = NULL
    /\ Queue!Init
    /\ pc = [w \in Workers |-> "dequeue"]
    /\ output = [w \in Workers |-> NULL]
    /\ sent = <<>>

------------------------------------------------------------------------------
(* The network: a datagram reaches the socket, and is dropped when the     *)
(* buffer is full.  Equal datagrams may arrive any number of times.        *)
Arrive(c, d) ==
    /\ Len(arrived) < MAX_ARRIVALS
    /\ arrived' = Append(arrived, [addr |-> c, data |-> d])
    /\ sockbuf' = IF Len(sockbuf) < RCVBUF THEN Append(sockbuf, Len(arrived) + 1)
                                           ELSE sockbuf
    /\ UNCHANGED <<main, ready, heap, req, queue, current, pc, output, sent>>

------------------------------------------------------------------------------
(* The main thread *)

StartUp(from, what, to) ==
    /\ main = from
    /\ main' = to
    /\ ready' = ready \cup what
    /\ UNCHANGED <<arrived, sockbuf, heap, req, queue, current, pc, output, sent>>

(* node_new: udp_server_set_request_handler, and later load_commands.      *)
SetHandler == StartUp("set_handler", {"request_handler"}, "load_commands")

LoadCommands == StartUp("load_commands", {"COMMAND_DISPATCHER"}, "set_global")

(* Seeded fault: the node is started before main assigns global_node.      *)
StartTooEarly == StartUp("set_global", {}, "recv")

(* main: global_node = node, then the handshake with the seeds, which      *)
(* leaves the server alone, then node_start.                               *)
SetGlobal == StartUp("set_global", {"global_node"}, "handshake")

Handshake == StartUp("handshake", {}, "recv")

(* What recvfrom returns for the oldest datagram of the socket.            *)
Received == [id |-> Head(sockbuf), addr |-> arrived[Head(sockbuf)].addr,
             data |-> arrived[Head(sockbuf)].data]

(* Seeded fault: the requests point into the one receive buffer.           *)
SharedBuffer(r) ==
    [x \in Reqs |-> CASE x = r -> Received
                      [] x # r /\ heap[x] # NULL -> [heap[x] EXCEPT !.data = Received.data]
                      [] OTHER -> NULL]

(* The request's own copy of the bytes, its address and their length.      *)
Copied(r) == [heap EXCEPT ![r] = Received]

(* Seeded fault: an empty datagram ends the loop.                          *)
Stop == "stopped"

(* Where the loop goes on after an empty datagram.                         *)
AfterEmpty == "recv"

(* udp_server_run: recvfrom and the copy of what it returned.  An empty    *)
(* datagram is skipped, and so is an empty socket.                         *)
Receive(r) ==
    /\ main = "recv"
    /\ sockbuf # <<>>
    /\ heap[r] = NULL
    /\ sockbuf' = Tail(sockbuf)
    /\ IF Received.data = <<>>
       THEN main' = AfterEmpty /\ UNCHANGED <<heap, req>>
       ELSE /\ heap' = Copied(r)
            /\ req' = r
            /\ main' = "enqueue"
    /\ UNCHANGED <<ready, arrived, queue, current, pc, output, sent>>

(* xqueue_enqueue, and back to the top of the loop.                        *)
Enqueue ==
    /\ main = "enqueue"
    /\ Queue!Put(req)
    /\ main' = "recv"
    /\ req' = NULL
    /\ UNCHANGED <<ready, arrived, sockbuf, heap, pc, output, sent>>

------------------------------------------------------------------------------
(* __worker_function *)

Goto(w, from, to) ==
    /\ pc[w] = from
    /\ pc' = [pc EXCEPT ![w] = to]

Dequeue(w) ==
    /\ Goto(w, "dequeue", "handle")
    /\ Queue!Take(w)
    /\ UNCHANGED <<main, ready, arrived, sockbuf, heap, req, output, sent>>

(* The request handler, if there is one.                                   *)
Handle(w) ==
    /\ IF "request_handler" \in ready
       THEN /\ Goto(w, "handle", "send")
            /\ output' = [output EXCEPT ![w] =
                             node_request_handler(heap[current[w]].data)]
       ELSE /\ Goto(w, "handle", "free")
            /\ UNCHANGED output
    /\ UNCHANGED <<main, ready, arrived, sockbuf, heap, req, queue, current, sent>>

(* What sendto is called with: the bytes of the reply and the address      *)
(* stored with the request.                                                *)
SendTo(w) == [id |-> heap[current[w]].id, to |-> heap[current[w]].addr,
              data |-> Reply(output[w])]

(* Seeded fault: having sent the reply, the worker may send it again.      *)
SendAgain == {"send", "free"}

AfterSend == {"free"}

Send(w) ==
    /\ \E next \in AfterSend : Goto(w, "send", next)
    /\ sent' = Append(sent, SendTo(w))
    /\ UNCHANGED <<main, ready, arrived, sockbuf, heap, req, queue, current, output>>

(* Seeded fault: the request is not freed.                                 *)
NothingFreed(w) == heap

(* free of the data and of the request.                                    *)
Freed(w) == [heap EXCEPT ![current[w]] = NULL]

(* free of the output as well, and back to the top of the loop.            *)
Free(w) ==
    /\ Goto(w, "free", "dequeue")
    /\ heap' = Freed(w)
    /\ output' = [output EXCEPT ![w] = NULL]
    /\ Queue!Finish(w)
    /\ UNCHANGED <<main, ready, arrived, sockbuf, req, sent>>

------------------------------------------------------------------------------
Main ==
    \/ SetHandler
    \/ LoadCommands
    \/ SetGlobal
    \/ Handshake
    \/ \E r \in Reqs : Receive(r)
    \/ Enqueue

Worker(w) == Handle(w) \/ Send(w) \/ Free(w)

Next ==
    \/ \E c \in Clients, d \in Datagrams : Arrive(c, d)
    \/ Main
    \/ \E w \in Workers : Dequeue(w)
    \/ \E w \in Workers : Worker(w)

Spec == Init /\ [][Next]_vars

(* The main thread spins on a socket that does not block and on calls with *)
(* time limits, the queue hands out items while there are any, and a       *)
(* worker that holds a request runs on.                                    *)
Fairness ==
    /\ WF_vars(Main)
    /\ WF_vars(\E w \in Workers : Dequeue(w))
    /\ \A w \in Workers : WF_vars(Worker(w))

FairSpec == Spec /\ Fairness

------------------------------------------------------------------------------
(* Properties *)

Mains == {"set_handler", "load_commands", "set_global", "handshake", "recv", "enqueue"}

TypeOK ==
    /\ main \in Mains
    /\ ready \subseteq {"request_handler", "COMMAND_DISPATCHER", "global_node"}
    /\ arrived \in Seq([addr : Clients, data : Datagrams])
    /\ sockbuf \in Seq(Ids) /\ Len(sockbuf) <= RCVBUF
    /\ heap \in [Reqs -> [id : Ids, addr : Clients, data : Datagrams] \cup {NULL}]
    /\ req \in Reqs \cup {NULL}
    /\ queue \in Seq(Reqs)
    /\ current \in [Workers -> Reqs \cup {NULL}]
    /\ pc \in [Workers -> {"dequeue", "handle", "send", "free"}]
    /\ output \in [Workers -> [output : Seq(Byte), len : Nat] \cup {NULL}]
    /\ sent \in Seq([id : Ids, to : Clients, data : Seq(Byte)])

(* A worker that reaches the handler finds everything the handler uses:    *)
(* server->request_handler, COMMAND_DISPATCHER and global_node, although   *)
(* the workers are started before any of them is set.                      *)
HandlerReady ==
    \A w \in Workers :
        pc[w] = "handle" =>
            ready = {"request_handler", "COMMAND_DISPATCHER", "global_node"}

(* A request is owned by one thread at a time and then freed: the cells in *)
(* use are the one that udp_server_run is about to enqueue, the queued     *)
(* ones and the ones that workers hold, all different.                     *)
OneOwner ==
    /\ {r \in Reqs : heap[r] # NULL} =
          {r \in Reqs : r = req \/ Queue!InQueue(r) \/ \E w \in Workers : current[w] = r}
    /\ \A i, j \in 1..Len(queue) : queue[i] = queue[j] => i = j
    /\ \A v, w \in Workers : current[v] = current[w] /\ current[v] # NULL => v = w
    /\ \A w \in Workers : current[w] # NULL => ~Queue!InQueue(current[w])
    /\ ~Queue!InQueue(req)
    /\ \A w \in Workers : current[w] # NULL => req # current[w]

(* A datagram that was received is answered at most once, however often    *)
(* its cell is freed and reused.                                           *)
AnsweredOnce == \A i, j \in 1..Len(sent) : sent[i].id = sent[j].id => i = j

(* Workers do not mix up requests: what is sent for a datagram goes to the *)
(* address it came from and is the handler's answer to its bytes.          *)
RepliesMatch ==
    \A i \in 1..Len(sent) :
        LET request == arrived[sent[i].id]
        IN  /\ sent[i].to = request.addr
            /\ sent[i].data = Reply(node_request_handler(request.data))

(* End to end: a client that sent a well-formed PING and parses what comes *)
(* back finds a PONG of this node with the id of its request; any other    *)
(* well-formed packet gets CMD_ERROR.                                      *)
PingGetsPong ==
    \A i \in 1..Len(sent) :
        LET asked == packet_from_bytes(arrived[sent[i].id].data)
            answer == packet_from_bytes(sent[i].data)
        IN  asked # NULL =>
                answer = IF asked.type = CMD_PING
                         THEN packet_new(1, CMD_PING, asked.req_id, PONG, Hash)
                         ELSE packet_new(1, CMD_ERROR, 0, <<>>, Hash)

Answered(id) == \E i \in 1..Len(sent) : sent[i].id = id

InSocket(id) == \E i \in 1..Len(sockbuf) : sockbuf[i] = id

(* A datagram that the socket holds and that is not empty is answered      *)
(* sooner or later, also one that arrived while the node was starting.     *)
BufferedIsAnswered ==
    \A id \in 1..MAX_ARRIVALS :
        InSocket(id) /\ arrived[id].data # <<>> ~> Answered(id)

(* README.md: "`CMD_ERROR` - protocol/parsing failure response".  What is  *)
(* sent for a datagram that does not parse is a CMD_ERROR packet.          *)
ParseErrorGetsError ==
    \A i \in 1..Len(sent) :
        packet_from_bytes(arrived[sent[i].id].data) = NULL =>
            LET answer == packet_from_bytes(sent[i].data)
            IN  answer # NULL /\ answer.type = CMD_ERROR

==============================================================================
