----------------------------- MODULE PacketProofs -----------------------------
(***************************************************************************)
(* Proofs about the wire format of packet/packet.c, for every packet and   *)
(* every datagram.                                                         *)
(***************************************************************************)
EXTENDS PacketWire, SequenceTheorems, TLAPS

(* Splitting a 16-bit number into bytes, and putting it together again.    *)
LEMMA ByteOrder ==
  ASSUME NEW n \in UInt16
  PROVE  /\ htons(n) \in Seq(Byte) /\ Len(htons(n)) = 2
         /\ ntohs(htons(n)[1], htons(n)[2]) = n
  <1>1. n \in Int /\ n >= 0 /\ n <= 65535
    BY DEF UInt16
  <1>2. n \div 256 \in Int /\ n % 256 \in Int
    BY <1>1
  <1>3. n = 256 * (n \div 256) + (n % 256)
    BY <1>1
  <1>4. n % 256 >= 0 /\ n % 256 <= 255
    BY <1>1
  <1>5. n \div 256 >= 0 /\ n \div 256 <= 255
    <2> DEFINE h == n \div 256
               l == n % 256
    <2>1. h \in Int /\ l \in Int /\ n = 256 * h + l /\ l >= 0 /\ l <= 255
      BY <1>2, <1>3, <1>4
    <2> HIDE DEF h, l
    <2>2. h >= 0 /\ h <= 255
      BY <1>1, <2>1
    <2> QED
      BY <2>2 DEF h
  <1> DEFINE h == n \div 256
             l == n % 256
  <1>6. h \in Byte /\ l \in Byte /\ 256 * h + l = n
    BY <1>2, <1>3, <1>4, <1>5 DEF Byte
  <1>7. htons(n) = <<h, l>>
    BY DEF htons
  <1> HIDE DEF h, l
  <1>8. <<h, l>> \in Seq(Byte) /\ Len(<<h, l>>) = 2
    BY <1>6
  <1> QED
    BY <1>6, <1>7, <1>8 DEF ntohs

(* Two bytes, put together by ntohs and split again by htons.              *)
LEMMA ByteOrderBack ==
  ASSUME NEW h \in Byte, NEW l \in Byte
  PROVE  ntohs(h, l) \in UInt16 /\ htons(ntohs(h, l)) = <<h, l>>
  <1> DEFINE n == 256 * h + l
  <1>1. /\ h \in Int /\ h >= 0 /\ h <= 255
        /\ l \in Int /\ l >= 0 /\ l <= 255
    BY DEF Byte
  <1>2. n \in Int /\ n >= 0 /\ n <= 65535 /\ n = 256 * h + l
    BY <1>1
  <1> HIDE DEF n
  <1>3. n \div 256 \in Int /\ n % 256 \in Int
    BY <1>2
  <1>4. n = 256 * (n \div 256) + (n % 256) /\ n % 256 >= 0 /\ n % 256 <= 255
    BY <1>2
  <1>5. n \div 256 = h /\ n % 256 = l
    <2> DEFINE a == n \div 256
               b == n % 256
    <2>1. a \in Int /\ b \in Int /\ n = 256 * a + b /\ b >= 0 /\ b <= 255
      BY <1>3, <1>4
    <2> HIDE DEF a, b
    <2>2. a = h /\ b = l
      BY <1>1, <1>2, <2>1
    <2> QED
      BY <2>2 DEF a, b
  <1>6. ntohs(h, l) = n
    BY DEF ntohs, n
  <1> QED
    BY <1>2, <1>5, <1>6 DEF htons, UInt16

(* A hash is a sequence of 20 bytes.                                       *)
LEMMA HashIsSeq ==
  ASSUME NEW h
  PROVE  h \in Hashes <=> h \in Seq(Byte) /\ Len(h) = 20
  <1>1. ASSUME h \in Hashes PROVE h \in Seq(Byte) /\ Len(h) = 20
    <2>1. h \in [1..HASH_SIZE -> Byte] /\ HASH_SIZE \in Nat
      BY <1>1 DEF Hashes, HASH_SIZE
    <2>2. h \in Seq(Byte) /\ Len(h) = HASH_SIZE
      BY <2>1, SeqDef, LenProperties
    <2> QED
      BY <2>2 DEF HASH_SIZE
  <1>2. ASSUME h \in Seq(Byte), Len(h) = 20 PROVE h \in Hashes
    <2>1. h \in [1..Len(h) -> Byte] /\ Len(h) = HASH_SIZE
      BY Zenon, <1>2, LenProperties DEF HASH_SIZE
    <2> QED
      BY <2>1 DEF Hashes
  <1> QED
    BY <1>1, <1>2

(* What a concatenation of bytes holds, index by index.                    *)
Cat(s, t) == s \o t

(* One sequence of bytes after another.                                    *)
LEMMA Concat ==
  ASSUME NEW s \in Seq(Byte), NEW t \in Seq(Byte)
  PROVE  /\ Cat(s, t) \in Seq(Byte)
         /\ Len(s) \in Nat /\ Len(t) \in Nat
         /\ Len(Cat(s, t)) = Len(s) + Len(t)
         /\ \A i \in Nat : 1 <= i /\ i <= Len(s) => Cat(s, t)[i] = s[i]
         /\ \A i \in Nat : Len(s) < i /\ i <= Len(s) + Len(t)
               => Cat(s, t)[i] = t[i - Len(s)]
  <1>1. /\ Cat(s, t) \in Seq(Byte) /\ Len(Cat(s, t)) = Len(s) + Len(t)
        /\ \A i \in 1..(Len(s) + Len(t)) :
              Cat(s, t)[i] = IF i <= Len(s) THEN s[i] ELSE t[i - Len(s)]
    BY ConcatProperties DEF Cat
  <1>2. Len(s) \in Nat /\ Len(t) \in Nat
    BY LenProperties
  <1> QED
    BY <1>1, <1>2

(* Where packet_to_bytes puts every field.                                 *)
LEMMA BytesAt ==
  ASSUME NEW p \in Packets
  PROVE  LET B == packet_to_bytes(p)
         IN  /\ B \in Seq(Byte)
             /\ Len(p.payload) \in UInt16
             /\ Len(B) = 26 + Len(p.payload)
             /\ B[1] = p.version /\ B[2] = p.type
             /\ ntohs(B[3], B[4]) = p.req_id
             /\ \A i \in Nat : 1 <= i /\ i <= 20 => B[4 + i] = p.sender_node_hash[i]
             /\ ntohs(B[25], B[26]) = Len(p.payload)
             /\ \A i \in 1..Len(p.payload) : B[26 + i] = p.payload[i]
  <1> DEFINE h == p.sender_node_hash
             r == htons(p.req_id)
             n == htons(Len(p.payload))
             a == <<p.version, p.type>>
             b == a \o r
             c == b \o h
             d == c \o n
             B == d \o p.payload
  <1>1. p.version \in Byte /\ p.type \in Byte /\ p.req_id \in UInt16
        /\ h \in Hashes /\ p.payload \in Seq(Byte) /\ Len(p.payload) \in UInt16
    BY DEF Packets, Payloads
  <1>2. a \in Seq(Byte) /\ Len(a) = 2 /\ a[1] = p.version /\ a[2] = p.type
    BY <1>1
  <1>3. /\ r \in Seq(Byte) /\ Len(r) = 2 /\ ntohs(r[1], r[2]) = p.req_id
        /\ n \in Seq(Byte) /\ Len(n) = 2 /\ ntohs(n[1], n[2]) = Len(p.payload)
    BY <1>1, ByteOrder
  <1>4. h \in Seq(Byte) /\ Len(h) = 20
    BY <1>1, HashIsSeq
  <1>5. /\ b = Cat(a, r) /\ c = Cat(b, h) /\ d = Cat(c, n) /\ B = Cat(d, p.payload)
        /\ B = packet_to_bytes(p)
    BY DEF packet_to_bytes, Cat
  <1> HIDE DEF a, r, n, h, b, c, d, B
  <1>6. /\ b \in Seq(Byte) /\ Len(b) = 4
        /\ b[1] = a[1] /\ b[2] = a[2] /\ b[3] = r[1] /\ b[4] = r[2]
    <2>0. a \in Seq(Byte) /\ r \in Seq(Byte) /\ b = Cat(a, r)
      BY <1>2, <1>3, <1>5
    <2>1. /\ b \in Seq(Byte) /\ Len(b) = Len(a) + Len(r)
          /\ \A i \in Nat : 1 <= i /\ i <= Len(a) => b[i] = a[i]
          /\ \A i \in Nat : Len(a) < i /\ i <= Len(a) + Len(r) => b[i] = r[i - Len(a)]
      BY <2>0, Concat, ZenonT(60)
    <2> QED
      BY <1>2, <1>3, <2>1
  <1>7. /\ c \in Seq(Byte) /\ Len(c) = 24
        /\ c[1] = b[1] /\ c[2] = b[2] /\ c[3] = b[3] /\ c[4] = b[4]
        /\ \A i \in Nat : 1 <= i /\ i <= 20 => c[4 + i] = h[i]
    <2>0. b \in Seq(Byte) /\ h \in Seq(Byte) /\ c = Cat(b, h) /\ Len(b) = 4 /\ Len(h) = 20
      BY <1>4, <1>5, <1>6
    <2>1. /\ c \in Seq(Byte) /\ Len(c) = Len(b) + Len(h)
          /\ \A i \in Nat : 1 <= i /\ i <= Len(b) => c[i] = b[i]
          /\ \A i \in Nat : Len(b) < i /\ i <= Len(b) + Len(h) => c[i] = h[i - Len(b)]
      BY <2>0, Concat, ZenonT(60)
    <2>2. /\ c[1] = b[1] /\ c[2] = b[2] /\ c[3] = b[3] /\ c[4] = b[4]
      <3>1. \A i \in Nat : 1 <= i /\ i <= 4 => c[i] = b[i]
        BY <2>0, <2>1
      <3> QED
        BY <3>1
    <2>3. ASSUME NEW i \in Nat, 1 <= i, i <= 20 PROVE c[4 + i] = h[i]
      <3>1. 4 + i \in Nat /\ Len(b) < 4 + i /\ 4 + i <= Len(b) + Len(h) /\ (4 + i) - Len(b) = i
        BY <2>0, <2>3
      <3> QED
        BY <2>1, <3>1
    <2> QED
      BY <2>0, <2>1, <2>2, <2>3
  <1>8. /\ d \in Seq(Byte) /\ Len(d) = 26
        /\ \A i \in Nat : 1 <= i /\ i <= 24 => d[i] = c[i]
        /\ d[25] = n[1] /\ d[26] = n[2]
    <2>1. c \in Seq(Byte) /\ n \in Seq(Byte) /\ d = Cat(c, n) /\ Len(c) = 24 /\ Len(n) = 2
      BY <1>3, <1>5, <1>7
    <2>2. /\ d \in Seq(Byte) /\ Len(d) = Len(c) + Len(n)
          /\ \A i \in Nat : 1 <= i /\ i <= Len(c) => d[i] = c[i]
          /\ \A i \in Nat : Len(c) < i /\ i <= Len(c) + Len(n) => d[i] = n[i - Len(c)]
      BY <2>1, Concat, ZenonT(60)
    <2> QED
      BY <2>1, <2>2
  <1>9. /\ B \in Seq(Byte) /\ Len(B) = 26 + Len(p.payload)
        /\ \A i \in Nat : 1 <= i /\ i <= 26 => B[i] = d[i]
        /\ \A i \in 1..Len(p.payload) : B[26 + i] = p.payload[i]
    <2> DEFINE s == p.payload
    <2>1. s \in Seq(Byte) /\ Len(s) \in Nat
      BY <1>1 DEF UInt16
    <2>2. d \in Seq(Byte) /\ Len(d) = 26 /\ B = Cat(d, s)
      BY <1>5, <1>8
    <2> HIDE DEF s
    <2>3. /\ B \in Seq(Byte) /\ Len(B) = Len(d) + Len(s)
          /\ \A i \in Nat : 1 <= i /\ i <= Len(d) => B[i] = d[i]
          /\ \A i \in Nat : Len(d) < i /\ i <= Len(d) + Len(s) => B[i] = s[i - Len(d)]
      BY <2>1, <2>2, Concat, ZenonT(60)
    <2>4. ASSUME NEW i \in 1..Len(s) PROVE B[26 + i] = s[i]
      <3>1. /\ 26 + i \in Nat /\ Len(d) < 26 + i /\ 26 + i <= Len(d) + Len(s)
            /\ (26 + i) - Len(d) = i
        BY <2>1, <2>2
      <3> QED
        BY <2>3, <3>1
    <2> QED
      BY <2>1, <2>2, <2>3, <2>4 DEF s
  <1>10. B[1] = p.version /\ B[2] = p.type /\ B[3] = r[1] /\ B[4] = r[2]
    <2>1. B[1] = d[1] /\ B[2] = d[2] /\ B[3] = d[3] /\ B[4] = d[4]
      BY <1>9
    <2>2. d[1] = c[1] /\ d[2] = c[2] /\ d[3] = c[3] /\ d[4] = c[4]
      BY <1>8
    <2> QED
      BY <1>2, <1>6, <1>7, <2>1, <2>2
  <1>11. ASSUME NEW i \in Nat, 1 <= i, i <= 20 PROVE B[4 + i] = h[i]
    <2>1. 4 + i \in Nat /\ 1 <= 4 + i /\ 4 + i <= 24 /\ 4 + i <= 26
      BY <1>11
    <2>2. B[4 + i] = d[4 + i]
      BY <1>9, <2>1
    <2>3. d[4 + i] = c[4 + i]
      BY <1>8, <2>1
    <2>4. c[4 + i] = h[i]
      BY <1>7, <1>11
    <2> QED
      BY <2>2, <2>3, <2>4
  <1>12. B[25] = n[1] /\ B[26] = n[2]
    BY <1>8, <1>9
  <1> QED
    BY <1>1, <1>3, <1>5, <1>9, <1>10, <1>11, <1>12 DEF h

(* A buffer that agrees with the encoding of p as far as both go is parsed *)
(* to p when it is long enough, and refused otherwise.                     *)
LEMMA ParseAgreeing ==
  ASSUME NEW p \in Packets, NEW w \in Seq(Byte),
         \A i \in Nat : 1 <= i /\ i <= Len(w) /\ i <= Len(packet_to_bytes(p))
                           => w[i] = packet_to_bytes(p)[i]
  PROVE  packet_from_bytes(w) =
            IF Len(w) >= 26 + Len(p.payload) THEN p ELSE NULL
  <1> DEFINE B == packet_to_bytes(p)
             n == Len(p.payload)
  <1>1. /\ B \in Seq(Byte) /\ n \in UInt16 /\ Len(B) = 26 + n
        /\ B[1] = p.version /\ B[2] = p.type
        /\ ntohs(B[3], B[4]) = p.req_id
        /\ ntohs(B[25], B[26]) = n
    BY BytesAt
  <1>2. /\ \A i \in Nat : 1 <= i /\ i <= 20 => B[4 + i] = p.sender_node_hash[i]
        /\ \A i \in 1..n : B[26 + i] = p.payload[i]
    BY Zenon, BytesAt
  <1>3. \A i \in Nat : 1 <= i /\ i <= Len(w) /\ i <= Len(B) => w[i] = B[i]
    OBVIOUS
  <1>4. n \in Nat /\ Len(w) \in Nat /\ \A i \in 1..Len(w) : w[i] \in Byte
    BY <1>1, LenProperties, ElementOfSeq DEF UInt16
  <1> HIDE DEF B
  <1>5. CASE Len(w) < 26
    BY <1>4, <1>5 DEF packet_from_bytes, HEADER_SIZE
  <1>6. CASE Len(w) >= 26
    <2>1. ntohs(w[25], w[26]) = n
      <3>1. 25 <= Len(w) /\ 26 <= Len(w) /\ 25 <= Len(B) /\ 26 <= Len(B)
        BY <1>1, <1>4, <1>6
      <3>2. w[25] = B[25] /\ w[26] = B[26]
        BY <1>3, <3>1
      <3> QED
        BY <1>1, <3>2
    <2>2. CASE Len(w) < 26 + n
      BY <1>4, <1>6, <2>1, <2>2 DEF packet_from_bytes, HEADER_SIZE
    <2>3. CASE Len(w) >= 26 + n
      <3>1. packet_from_bytes(w) = Parsed(w, n)
        BY <1>4, <1>6, <2>1, <2>3 DEF packet_from_bytes, HEADER_SIZE
      <3>2. w[1] = p.version /\ w[2] = p.type /\ ntohs(w[3], w[4]) = p.req_id
        <4>1. 4 <= Len(w) /\ 4 <= Len(B) /\ Len(w) \in Nat /\ Len(B) \in Nat
          BY <1>1, <1>4, <1>6
        <4>2. \A i \in Nat : 1 <= i /\ i <= 4 => w[i] = B[i]
          BY <1>3, <4>1
        <4>3. w[1] = B[1] /\ w[2] = B[2] /\ w[3] = B[3] /\ w[4] = B[4]
          BY <4>2
        <4> QED
          BY <1>1, <4>3
      <3>3. SubSeq(w, 5, 24) = p.sender_node_hash
        <4> DEFINE h == p.sender_node_hash
                   s == SubSeq(w, 5, 24)
        <4>1. h \in Seq(Byte) /\ Len(h) = 20
          BY HashIsSeq DEF Packets
        <4>2. \A i \in 5..24 : w[i] \in Byte
          BY <1>4, <1>6
        <4>3. /\ s \in Seq(Byte) /\ Len(s) = 20
              /\ \A i \in 1..20 : s[i] = w[5 + i - 1]
          BY <4>2, SubSeqProperties
        <4> HIDE DEF s, h
        <4>4. ASSUME NEW i \in 1..20 PROVE s[i] = h[i]
          <5>1. /\ i \in Nat /\ 1 <= i /\ i <= 20 /\ 5 + i - 1 = 4 + i
                /\ 4 + i \in Nat /\ 1 <= 4 + i /\ 4 + i <= Len(w) /\ 4 + i <= Len(B)
            BY <1>1, <1>4, <1>6
          <5>2. s[i] = w[4 + i]
            BY Zenon, <4>3, <5>1
          <5>3. w[4 + i] = B[4 + i]
            BY <1>3, <5>1
          <5>4. B[4 + i] = h[i]
            BY <1>2, <5>1 DEF h
          <5> QED
            BY <5>2, <5>3, <5>4
        <4>5. s = h
          BY Zenon, <4>1, <4>3, <4>4, SeqEqual
        <4> QED
          BY <4>5 DEF s, h
      <3>4. SubSeq(w, 27, 26 + n) = p.payload
        <4> DEFINE s == SubSeq(w, 27, 26 + n)
        <4>1. p.payload \in Seq(Byte) /\ Len(p.payload) = n
          BY DEF Packets, Payloads
        <4>2. \A i \in 27..(26 + n) : w[i] \in Byte
          BY <1>4, <2>3
        <4>3. 27 \in Int /\ 26 + n \in Int
          BY <1>4
        <4>4. /\ s \in Seq(Byte)
              /\ Len(s) = IF 27 <= 26 + n THEN (26 + n) - 27 + 1 ELSE 0
              /\ \A i \in 1..((26 + n) - 27 + 1) : s[i] = w[27 + i - 1]
          BY <4>2, <4>3, SubSeqProperties
        <4> HIDE DEF s
        <4>5. Len(s) = n /\ (26 + n) - 27 + 1 = n
          BY <1>4, <4>4
        <4>6. ASSUME NEW i \in 1..n PROVE s[i] = p.payload[i]
          <5>1. /\ 26 + i \in Nat /\ 1 <= 26 + i /\ 26 + i <= Len(w) /\ 26 + i <= Len(B)
                /\ 27 + i - 1 = 26 + i
            BY <1>1, <1>4, <2>3
          <5>2. s[i] = w[26 + i] /\ w[26 + i] = B[26 + i] /\ B[26 + i] = p.payload[i]
            BY <1>2, <1>3, <4>4, <4>5, <5>1
          <5> QED
            BY <5>2
        <4>7. s = p.payload
          BY <4>1, <4>4, <4>5, <4>6, SeqEqual
        <4> QED
          BY <4>7 DEF s
      <3>5. Parsed(w, n) = [version |-> p.version, type |-> p.type, req_id |-> p.req_id,
                            sender_node_hash |-> p.sender_node_hash,
                            payload |-> p.payload]
        <4>1. 4 + HASH_SIZE = 24 /\ HEADER_SIZE + 1 = 27 /\ HEADER_SIZE + n = 26 + n
          BY DEF HEADER_SIZE, HASH_SIZE
        <4> QED
          BY <3>2, <3>3, <3>4, <4>1, Zenon DEF Parsed
      <3>6. Parsed(w, n) = p
        BY <3>5 DEF Packets
      <3> QED
        BY <2>3, <3>1, <3>6
    <2> QED
      BY <1>4, <2>2, <2>3
  <1> QED
    BY <1>4, <1>5, <1>6

(* A packet is parsed back from its encoding.                              *)
LEMMA ParseEncoded ==
  ASSUME NEW p \in Packets
  PROVE  packet_from_bytes(packet_to_bytes(p)) = p
  <1> DEFINE B == packet_to_bytes(p)
  <1>0. B \in Seq(Byte) /\ Len(B) = 26 + Len(p.payload)
    BY Zenon, BytesAt
  <1> HIDE DEF B
  <1>1. B \in Seq(Byte) /\ Len(B) = 26 + Len(p.payload) /\ Len(B) \in Nat
    BY <1>0, LenProperties
  <1>2. \A i \in Nat : 1 <= i /\ i <= Len(B) /\ i <= Len(B) => B[i] = B[i]
    OBVIOUS
  <1>3. Len(B) >= 26 + Len(p.payload)
    BY <1>1
  <1>4. packet_from_bytes(B) = IF Len(B) >= 26 + Len(p.payload) THEN p ELSE NULL
    BY <1>1, <1>2, ParseAgreeing, ZenonT(60) DEF B
  <1> QED
    BY <1>3, <1>4 DEF B

(* What packet_from_bytes accepts is a well-formed packet, whatever the    *)
(* datagram: every field fits its type and the payload has the announced   *)
(* length.                                                                 *)
THEOREM ParseWellFormed ==
  ASSUME NEW w \in Seq(Byte), packet_from_bytes(w) # NULL
  PROVE  /\ packet_from_bytes(w) \in Packets
         /\ Len(w) >= 26 + Len(packet_from_bytes(w).payload)
  <1> DEFINE q == packet_from_bytes(w)
             n == ntohs(w[25], w[26])
             h == SubSeq(w, 5, 24)
             s == SubSeq(w, 27, 26 + n)
  <1>1. Len(w) \in Nat /\ \A i \in 1..Len(w) : w[i] \in Byte
    BY LenProperties, ElementOfSeq
  <1>2. Len(w) >= 26 /\ Len(w) >= 26 + n /\ q = Parsed(w, n)
    <2>1. Len(w) >= 26
      BY <1>1 DEF packet_from_bytes, HEADER_SIZE
    <2>2. w[25] \in Byte /\ w[26] \in Byte
      BY <1>1, <2>1
    <2>3. n \in Nat
      <3>1. n \in UInt16
        BY <2>2, ByteOrderBack
      <3> HIDE DEF n
      <3> QED
        BY <3>1 DEF UInt16
    <2>4. q = IF Len(w) < 26 + n THEN NULL ELSE Parsed(w, n)
      <3>1. ~(Len(w) < HEADER_SIZE) /\ HEADER_SIZE = 26
        BY <1>1, <2>1 DEF HEADER_SIZE
      <3> QED
        BY <3>1, Zenon DEF packet_from_bytes
    <2> HIDE DEF q, n
    <2>5. q # NULL
      BY DEF q
    <2> QED
      BY <1>1, <2>1, <2>3, <2>4, <2>5
  <1>3. /\ w[1] \in Byte /\ w[2] \in Byte /\ w[3] \in Byte /\ w[4] \in Byte
        /\ w[25] \in Byte /\ w[26] \in Byte
    BY <1>1, <1>2
  <1>4. ntohs(w[3], w[4]) \in UInt16 /\ n \in UInt16
    BY <1>3, ByteOrderBack
  <1>5. n \in Nat /\ n < 65536
    BY <1>4 DEF UInt16
  <1> HIDE DEF n
  <1>6. h \in Hashes
    <2>1. \A i \in 5..24 : w[i] \in Byte
      BY <1>1, <1>2
    <2>2. h \in Seq(Byte) /\ Len(h) = 20
      BY <2>1, SubSeqProperties
    <2> QED
      BY Zenon, <2>2, HashIsSeq
  <1>7. s \in Payloads /\ Len(s) = n
    <2>1. \A i \in 27..(26 + n) : w[i] \in Byte
      BY <1>1, <1>2, <1>5
    <2>2. 27 \in Int /\ 26 + n \in Int
      BY <1>5
    <2>3. s \in Seq(Byte) /\ Len(s) = IF 27 <= 26 + n THEN (26 + n) - 27 + 1 ELSE 0
      BY <2>1, <2>2, SubSeqProperties
    <2> HIDE DEF s
    <2>4. Len(s) = n
      BY <1>5, <2>3
    <2> QED
      BY <1>4, <2>3, <2>4 DEF Payloads
  <1>8. q = [version |-> w[1], type |-> w[2], req_id |-> ntohs(w[3], w[4]),
             sender_node_hash |-> h, payload |-> s]
    <2>1. 4 + HASH_SIZE = 24 /\ HEADER_SIZE + 1 = 27 /\ HEADER_SIZE + n = 26 + n
      BY DEF HEADER_SIZE, HASH_SIZE
    <2> QED
      BY <1>2, <2>1, Zenon DEF Parsed
  <1> HIDE DEF q, h, s
  <1>9. q \in Packets /\ q.payload = s
    BY <1>3, <1>4, <1>6, <1>7, <1>8 DEF Packets
  <1> QED
    BY <1>2, <1>7, <1>9 DEF q

------------------------------------------------------------------------------
(* What arrives for p agrees with the encoding of p as far as both go.     *)
LEMMA ArrivingAgrees ==
  ASSUME NEW p \in Packets, NEW w \in Arriving(p)
  PROVE  /\ w \in Seq(Byte)
         /\ \A i \in Nat : 1 <= i /\ i <= Len(w) /\ i <= Len(packet_to_bytes(p))
                            => w[i] = packet_to_bytes(p)[i]
  <1> DEFINE B == packet_to_bytes(p)
  <1>1. B \in Seq(Byte) /\ Len(B) \in Nat /\ \A i \in 1..Len(B) : B[i] \in Byte
    BY BytesAt, LenProperties, ElementOfSeq
  <1>2. \/ \E n \in 0..Len(B) : w = SubSeq(B, 1, n)
        \/ \E s \in Padding : w = B \o s
    BY DEF Arriving
  <1> HIDE DEF B
  <1>3. ASSUME NEW n \in 0..Len(B), w = SubSeq(B, 1, n)
        PROVE  w \in Seq(Byte) /\ \A i \in Nat : 1 <= i /\ i <= Len(w) => w[i] = B[i]
    <2>1. n \in Int /\ n >= 0 /\ \A i \in 1..n : B[i] \in Byte
      BY <1>1
    <2>2. /\ w \in Seq(Byte)
          /\ Len(w) = IF 1 <= n THEN n - 1 + 1 ELSE 0
          /\ \A i \in 1..(n - 1 + 1) : w[i] = B[1 + i - 1]
      BY <1>3, <2>1, SubSeqProperties
    <2>3. Len(w) = n
      BY <2>1, <2>2
    <2>4. ASSUME NEW i \in Nat, 1 <= i, i <= Len(w) PROVE w[i] = B[i]
      <3>1. i \in 1..(n - 1 + 1) /\ 1 + i - 1 = i
        BY <2>1, <2>3, <2>4
      <3> QED
        BY <2>2, <3>1
    <2> QED
      BY <2>2, <2>4
  <1>4. ASSUME NEW s \in Padding, w = B \o s
        PROVE  w \in Seq(Byte) /\ \A i \in Nat : 1 <= i /\ i <= Len(B) => w[i] = B[i]
    <2>1. s \in Seq(Byte) /\ w = Cat(B, s)
      BY <1>4, WireAssumption DEF Cat
    <2> QED
      BY Zenon, <1>1, <2>1, Concat
  <1> QED
    BY <1>2, <1>3, <1>4 DEF B

(* For every packet, every cut and every padding, packet_from_bytes gives  *)
(* back what packet_to_bytes encoded, or refuses a datagram that lacks a   *)
(* byte of it.                                                             *)
THEOREM RoundTrip == NoMisparse
  <1> SUFFICES ASSUME packet \in Sent, wire \in Arriving(packet)
               PROVE  packet_from_bytes(wire) =
                         IF Len(wire) >= HEADER_SIZE + Len(packet.payload)
                         THEN packet ELSE NULL
    BY DEF NoMisparse, Delivered
  <1>1. packet \in Packets /\ HEADER_SIZE = 26
    BY WireAssumption DEF HEADER_SIZE
  <1> QED
    BY <1>1, ArrivingAgrees, ParseAgreeing

(* Encoding what was parsed gives back the bytes it was parsed from, so    *)
(* packet_to_bytes and packet_from_bytes are inverse in both directions.   *)
THEOREM ParseIsCanonical == Canonical
  <1> SUFFICES ASSUME packet \in Sent, wire \in Arriving(packet),
                      packet_from_bytes(wire) # NULL
               PROVE  packet_to_bytes(packet_from_bytes(wire)) =
                         SubSeq(wire, 1, HEADER_SIZE + Len(packet_from_bytes(wire).payload))
    BY DEF Canonical, Delivered
  <1>0. /\ packet \in Packets /\ wire \in Seq(Byte)
        /\ \A i \in Nat : 1 <= i /\ i <= Len(wire) /\ i <= Len(packet_to_bytes(packet))
                           => wire[i] = packet_to_bytes(packet)[i]
    BY WireAssumption, ArrivingAgrees
  <1> DEFINE B == packet_to_bytes(packet)
             n == 26 + Len(packet.payload)
             s == SubSeq(wire, 1, n)
  <1>1. packet_from_bytes(wire) = IF Len(wire) >= n THEN packet ELSE NULL
    BY <1>0, ParseAgreeing
  <1>2. packet_from_bytes(wire) = packet /\ Len(wire) >= n
    BY <1>1
  <1>3. B \in Seq(Byte) /\ Len(packet.payload) \in UInt16 /\ Len(B) = n
    BY <1>0, BytesAt
  <1>4. n \in Nat /\ Len(wire) \in Nat /\ \A i \in 1..Len(wire) : wire[i] \in Byte
    BY <1>0, <1>3, LenProperties, ElementOfSeq DEF UInt16
  <1>5. \A i \in Nat : 1 <= i /\ i <= Len(wire) /\ i <= Len(B) => wire[i] = B[i]
    BY <1>0
  <1> HIDE DEF B, n
  <1>6. \A i \in 1..n : wire[i] \in Byte
    BY <1>2, <1>4
  <1>7. /\ s \in Seq(Byte)
        /\ Len(s) = IF 1 <= n THEN n - 1 + 1 ELSE 0
        /\ \A i \in 1..(n - 1 + 1) : s[i] = wire[1 + i - 1]
    BY <1>4, <1>6, SubSeqProperties
  <1> HIDE DEF s
  <1>8. Len(s) = n /\ \A i \in 1..n : s[i] = wire[i]
    <2>1. n - 1 + 1 = n /\ \A i \in 1..n : 1 + i - 1 = i
      BY <1>4
    <2>2. Len(s) = n
      BY <1>4, <1>7
    <2>3. ASSUME NEW i \in 1..n PROVE s[i] = wire[i]
      <3>1. i \in 1..(n - 1 + 1) /\ 1 + i - 1 = i
        BY <2>1
      <3> QED
        BY <1>7, <3>1
    <2> QED
      BY <2>2, <2>3
  <1>9. \A i \in 1..n : s[i] = B[i]
    BY <1>2, <1>3, <1>4, <1>5, <1>8
  <1>10. s = B
    BY <1>3, <1>7, <1>8, <1>9, SeqEqual
  <1>11. HEADER_SIZE + Len(packet.payload) = n
    BY DEF n, HEADER_SIZE
  <1> QED
    BY <1>2, <1>10, <1>11, Zenon DEF s, B

==============================================================================
