---------------------------- MODULE RequestHandler ----------------------------
(***************************************************************************)
(* node/request_handler.c, node/load_commands.c, node/commands/ping: what  *)
(* a node answers to the bytes of a datagram.  The handler leaves a buffer *)
(* and returns the number of bytes of it that are to be sent.              *)
(***************************************************************************)
EXTENDS Packet

CONSTANT Hash           \* global_node->hash, which packet_new stamps on packets

ASSUME HashAssumption == Hash \in Hashes

PONG == <<80, 79, 78, 71>>

ErrorPacket == packet_new(1, CMD_ERROR, 0, <<>>, Hash)

(* Seeded fault: the answer does not carry the request's id.               *)
PingWithoutId(p) == packet_to_bytes(packet_new(1, CMD_PING, 0, PONG, Hash))

command_ping(p) == packet_to_bytes(packet_new(1, CMD_PING, p.req_id, PONG, Hash))

empty_command(p) == packet_to_bytes(ErrorPacket)

(* COMMAND_DISPATCHER as load_commands fills it: every one of the 256      *)
(* types has a command.                                                    *)
Dispatch(p) ==
    IF p.type = CMD_PING THEN command_ping(p) ELSE empty_command(p)

Decimals(n) == CASE n < 10 -> 1 [] n < 100 -> 2 [] n < 1000 -> 3
               [] n < 10000 -> 4 [] OTHER -> 5

(* packet_to_string: the bytes that sprintf writes, the terminator         *)
(* included.  Of the line, 47 characters are text and 40 the sender's      *)
(* hash; a byte of the payload takes four, and one between it and the next.*)
packet_to_string(p) ==
    47 + Decimals(p.version) + Decimals(p.type) + Decimals(p.req_id) + 2 * HASH_SIZE
       + Decimals(Len(p.payload)) + (IF p.payload = <<>> THEN 0 ELSE 5 * Len(p.payload) - 1)
       + 1

(* The block that packet_to_string allocates for the line.                 *)
LOG_SIZE == 512

(* The handler writes the line before it dispatches the packet.  What the  *)
(* program does once the line is longer than its block is undefined, so    *)
(* the handler below stands for the code for these datagrams only.         *)
LogFits(data) ==
    LET packet == packet_from_bytes(data)
    IN  packet # NULL => packet_to_string(packet) <= LOG_SIZE

(* A datagram that does not parse gets an error packet in the buffer, but  *)
(* the returned length stays 0.                                            *)
node_request_handler(data) ==
    LET packet == packet_from_bytes(data)
        output == IF packet = NULL THEN packet_to_bytes(ErrorPacket)
                                   ELSE Dispatch(packet)
    IN  [output |-> output, len |-> IF packet = NULL THEN 0 ELSE Len(output)]

(* What the worker hands to sendto.                                        *)
Reply(result) == SubSeq(result.output, 1, result.len)

==============================================================================
