-------------------------------- MODULE Packet --------------------------------
(***************************************************************************)
(* packet/packet.c: the wire format.  A packet is a header of 26 bytes     *)
(* (version, type, request id, hash of the sender, payload length) and its *)
(* payload; the two 16-bit fields travel in network byte order.            *)
(*                                                                         *)
(* The payload_len field of a packet_t is the length of its payload, and   *)
(* the empty payload stands both for the NULL that packet_from_bytes       *)
(* stores and for the empty block that packet_new allocates.  Nothing that *)
(* a node does with the packets of other nodes tells them apart.           *)
(***************************************************************************)
EXTENDS Naturals, Sequences

CONSTANT NULL

Byte == {n \in Nat : n < 256}
UInt16 == {n \in Nat : n < 65536}
HASH_SIZE == 20
HEADER_SIZE == 26

Hashes == [1..HASH_SIZE -> Byte]

Payloads == {s \in Seq(Byte) : Len(s) \in UInt16}

Packets == [version : Byte, type : Byte, req_id : UInt16,
            sender_node_hash : Hashes, payload : Payloads]

ASSUME NullAssumption == NULL \notin Packets

(* packet_type_t.                                                          *)
CMD_HELLO == 1
CMD_WELCOME == 2
CMD_UPDATE == 3
CMD_ERROR == 4
CMD_PING == 5

(* The two bytes of a 16-bit number in network byte order, and back.       *)
htons(n) == <<n \div 256, n % 256>>

ntohs(high, low) == 256 * high + low

packet_new(version, type, req_id, payload, hash) ==
    [version |-> version, type |-> type, req_id |-> req_id,
     sender_node_hash |-> hash, payload |-> payload]

(* Seeded fault: the length field is written in host byte order.           *)
ToBytesHostOrder(p) ==
    <<p.version, p.type>> \o htons(p.req_id) \o p.sender_node_hash
        \o <<Len(p.payload) % 256, Len(p.payload) \div 256>> \o p.payload

packet_to_bytes(p) ==
    <<p.version, p.type>> \o htons(p.req_id) \o p.sender_node_hash
        \o htons(Len(p.payload)) \o p.payload

(* The packet whose header starts the buffer, with a payload of n bytes.   *)
Parsed(bytes, n) ==
    [version |-> bytes[1], type |-> bytes[2],
     req_id |-> ntohs(bytes[3], bytes[4]),
     sender_node_hash |-> SubSeq(bytes, 5, 4 + HASH_SIZE),
     payload |-> SubSeq(bytes, HEADER_SIZE + 1, HEADER_SIZE + n)]

(* Seeded fault: a payload cut short is taken as far as it goes.           *)
FromBytesLenient(bytes) ==
    IF Len(bytes) < HEADER_SIZE
    THEN NULL
    ELSE LET payload_len == ntohs(bytes[25], bytes[26])
             rest == Len(bytes) - HEADER_SIZE
         IN  Parsed(bytes, IF payload_len < rest THEN payload_len ELSE rest)

(* NULL when the header or the payload it announces is cut short; bytes    *)
(* beyond the payload are ignored.                                         *)
packet_from_bytes(bytes) ==
    IF Len(bytes) < HEADER_SIZE
    THEN NULL
    ELSE LET payload_len == ntohs(bytes[25], bytes[26])
         IN  IF Len(bytes) < HEADER_SIZE + payload_len
             THEN NULL
             ELSE Parsed(bytes, payload_len)

==============================================================================
