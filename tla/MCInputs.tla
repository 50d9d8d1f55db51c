------------------------------- MODULE MCInputs --------------------------------
(* Instances of PacketWire, Config, Sha1 and StoreHash for TLC.  The four  *)
(* have nothing to do with each other: a behaviour parses one datagram,    *)
(* reads one configuration file, hashes one message or runs the loop of    *)
(* sha1_mod_bucket once, and leaves the variables of the others alone.     *)
EXTENDS PacketWire, Config, StoreHash, Sha1, SequencesExt

CONSTANT FileLines      \* bound: the number of lines of a file

Repeat(b, n) == [k \in 1..n |-> b]

(* Packets with numbers on both sides of every byte boundary, and payloads *)
(* around the lengths 0, 1 and 256.                                        *)
MCSent == {packet_new(1, type, req_id, payload, sender) :
              type \in {CMD_PING, 255},
              req_id \in {0, 255, 256, 65535},
              payload \in {<<>>, <<0>>, <<80, 79, 78, 71>>, Repeat(128, 256)},
              sender \in {Repeat(255, HASH_SIZE), [k \in 1..HASH_SIZE |-> k]}}

MCPadding == {<<0>>, <<26, 255>>, Repeat(0, 300)}

(* Digests that differ in the chars that may matter, at the ends of the    *)
(* range of a char.                                                        *)
Edges == {-128, -1, 0, 1, 127}

MCDigests == {[n \in 1..20 |-> CASE n = 1 -> a [] n = 18 -> b [] n = 19 -> c
                                 [] n = 20 -> d [] OTHER -> 77] :
                 a \in {-128, 5}, b \in {-1, 127}, c \in Edges, d \in Edges}

(* "Test Vectors (from FIPS PUB 180-1)" in sha1.c: "abc", and the letters  *)
(* from "abcdbcde" to "mnopnopq".                                          *)
Vectors == { <<<<97, 98, 99>>,
               <<Word(\hA999, \h3E36), Word(\h4706, \h816A), Word(\hBA3E, \h2571),
                 Word(\h7850, \hC26C), Word(\h9CD0, \hD89D)>>>>,
             <<[n \in 1..56 |-> 97 + ((n - 1) \div 4) + ((n - 1) % 4)],
               <<Word(\h8498, \h3E44), Word(\h1C3B, \hD26E), Word(\hBAAE, \h4AA1),
                 Word(\hF951, \h29E5), Word(\hE546, \h70F1)>>>> }

(* The definition of the standard gives these digests.                     *)
ASSUME TestVectors == \A v \in Vectors : Standard(v[1]) = Digest(v[2])

(* Messages that end, or whose padding ends, at the end of a block or next *)
(* to it, an id of a node, and the ones with a known digest.               *)
MCMessages == {[k \in 1..n |-> (37 * k) % 256] : n \in {0, 20, 55, 63, 64, 119, 130}}
                  \cup {v[1] : v \in Vectors}

MCLeftovers == {Repeat(0, 64), Repeat(255, 64)}

(* Lines of every kind: sections that are known, unknown or not closed,    *)
(* several values for each setting, with either sign, indented and with    *)
(* comments, one and several seeds, words that are no seed, a host that    *)
(* does not fit, a list that is too long, lines without a sign.            *)
MCLines ==
    { <<"[", "SERVER", "]">>,
      <<"[", "OTHER", "]", Blank>>,
      <<"[", "OTHER", Blank, Semicolon, "]">>,
      <<"BOM", "[", "SERVER", "]">>,
      <<"PORT", Blank, "=", Blank, "2", "0">>,
      <<"PORT", "=", "-", "5">>,
      <<"BOM", "PORT", ":", "7", "x">>,
      <<"SEEDS", "=", "a", ":", "1", Blank, "b", ":", "2">>,
      <<"SEEDS", "=", "d", ":", "1", Blank, Blank, "b", ":", "2", "3">>,
      <<"SEEDS", "=", "a", ":", "1", Blank, "b", ":", "2", Blank, "c", ":", "3">>,
      <<"SEEDS", ":", "no", Blank, "c", ".", "d", ":", Blank, Semicolon, "e">>,
      <<Blank, "c", ":", "3", Blank, Semicolon, "d", ":", "4">>,
      <<Blank, "PORT", "=", "5">>,
      <<Blank, "[", "OTHER", "]">>,
      <<Semicolon, "PORT", "=", "6">>,
      <<Blank, Blank>>,
      <<"NAME", "=", "8">>,
      <<"PORT", Blank, Semicolon, "=", "9">>,
      <<"PORT", Blank, "9">> }

(* Any lines, also after the header of the section that the code reads.    *)
MCFiles ==
    UNION {{lines, <<<<"[", "SERVER", "]">>>> \o lines} : lines \in BoundedSeq(MCLines, FileLines)}

NoPacket == packet = NULL /\ wire = <<>>
NoFile == file = <<>>
NoBucket == hash = Repeat(77, 20) /\ folded = 0 /\ result = 0
NoMessage ==
    /\ str = <<>> /\ ctx = SHA1Init(Repeat(0, 64)) /\ ii = 0
    /\ finalcount = <<>> /\ digest = <<>> /\ at = "idle"

MCInit ==
    \/ packet \in Sent /\ wire \in Arriving(packet) /\ NoFile /\ NoBucket /\ NoMessage
    \/ NoPacket /\ file \in MCFiles /\ NoBucket /\ NoMessage
    \/ NoPacket /\ NoFile /\ IndexInit /\ NoMessage
    \/ NoPacket /\ NoFile /\ NoBucket /\ HashInit

MCNext ==
    \/ NoPacket /\ NoFile /\ at = "idle" /\ IndexStep /\ UNCHANGED <<packet, wire, file, hashVars>>
    \/ HashNext /\ UNCHANGED <<packet, wire, file, indexVars>>

MCSpec == MCInit /\ [][MCNext]_<<packet, wire, file, indexVars, hashVars>>

==============================================================================
