------------------------------ MODULE PacketWire ------------------------------
(***************************************************************************)
(* A packet on its way from packet_to_bytes to packet_from_bytes.  The     *)
(* datagram that is parsed holds the encoded packet, a part of it, or the  *)
(* packet followed by other bytes.                                         *)
(***************************************************************************)
EXTENDS Packet

CONSTANTS
    Sent,       \* the packets that are encoded
    Padding     \* what may follow a packet: sequences of bytes

ASSUME WireAssumption == Sent \subseteq Packets /\ Padding \subseteq Seq(Byte)

VARIABLES
    packet,     \* the packet that was sent
    wire        \* the datagram that is parsed

(* What a receiver may find in a datagram for p.                           *)
Arriving(p) ==
    {SubSeq(packet_to_bytes(p), 1, n) : n \in 0..Len(packet_to_bytes(p))}
    \cup {packet_to_bytes(p) \o padding : padding \in Padding}

Delivered == packet \in Sent /\ wire \in Arriving(packet)

(* packet_from_bytes returns the packet that was encoded or nothing: the   *)
(* packet when all its bytes are there, whatever follows them, and NULL    *)
(* when one is missing.  In particular no cut turns one packet into        *)
(* another, and a length of 255, 256 or 65535 survives the byte order.     *)
NoMisparse ==
    Delivered =>
        packet_from_bytes(wire) =
            IF Len(wire) >= HEADER_SIZE + Len(packet.payload) THEN packet ELSE NULL

(* Whatever is parsed encodes to the very bytes it was parsed from, with   *)
(* the bytes beyond the payload left out.                                  *)
Canonical ==
    LET p == packet_from_bytes(wire)
    IN  Delivered /\ p # NULL =>
            packet_to_bytes(p) = SubSeq(wire, 1, HEADER_SIZE + Len(p.payload))

==============================================================================
