--------------------------------- MODULE Sha1 ----------------------------------
(***************************************************************************)
(* helpers/sha1.c: the digest from which keys get their bucket and nodes   *)
(* their hash.                                                             *)
(*                                                                         *)
(* A uint32_t is the set of its bits, so that ^, & and | are operations on *)
(* sets; a sum is taken modulo 2^32, in two halves of 16 bits.  Messages   *)
(* are shorter than 2^28 bytes: count[1] stays 0 and is left out, and      *)
(* count[0] is counted in bytes.                                           *)
(***************************************************************************)
EXTENDS Integers, Sequences, FiniteSetsExt

CONSTANTS
    Messages,       \* what is hashed
    Leftovers       \* what the array ctx.buffer may hold before the first write to it

UInt8 == 0..255
UInt32 == SUBSET (0..31)

ASSUME MessagesAssumption ==
    /\ Messages \subseteq Seq(UInt8)
    /\ Leftovers \subseteq [1..64 -> UInt8]

ASSUME LengthAssumption == \A m \in Messages : Len(m) < 2^28

VARIABLES
    str,            \* the argument of SHA1
    ctx,
    ii,             \* how many bytes of str have been passed to SHA1Update
    finalcount,
    digest,
    at              \* the loop of SHA1, the one of SHA1Final, or the end

hashVars == <<str, ctx, ii, finalcount, digest, at>>

Word(high, low) ==
    {b \in 0..15 : (low \div 2^b) % 2 = 1} \cup {b \in 16..31 : (high \div 2^(b - 16)) % 2 = 1}

Low(w) == MapThenSumSet(LAMBDA b : 2^b, w \cap 0..15)
High(w) == MapThenSumSet(LAMBDA b : 2^(b - 16), w \cap 16..31)

Total[words \in Seq(UInt32)] ==
    LET low == MapThenSumSet(LAMBDA n : Low(words[n]), DOMAIN words)
        high == MapThenSumSet(LAMBDA n : High(words[n]), DOMAIN words) + (low \div 2^16)
    IN  Word(high % 2^16, low % 2^16)

(* The first n of the functions in steps, one after the other, on S.       *)
Iterate(steps, S, n) ==
    LET first[k \in Nat] == [x \in S |-> IF k = 0 THEN x ELSE steps[k][first[k - 1][x]]]
    IN  first[n]

(* 16 * n functions, sixteen at a time: the nesting stays small.           *)
Sixteens(steps, S, n) ==
    Iterate([g \in 1..n |-> Iterate([k \in 1..16 |-> steps[16 * (g - 1) + k]], S, 16)], S, n)

Xor(v, w) == (v \cup w) \ (v \cap w)

rol(value, bits) == {(b + bits) % 32 : b \in value}

(* blk0: the n-th group of four bytes, the highest first.                  *)
blk0(bytes, n) ==
    Word(bytes[4 * n + 1] * 256 + bytes[4 * n + 2], bytes[4 * n + 3] * 256 + bytes[4 * n + 4])

blk(l, n) ==
    rol(Xor(Xor(l[(n + 13) % 16], l[(n + 8) % 16]), Xor(l[(n + 2) % 16], l[n % 16])), 1)

(* The functions and the constants of R0 and R1, R2, R3 and R4.            *)
Mix1(w, x, y) == Xor(w \cap Xor(x, y), y)
Mix2(w, x, y) == Xor(Xor(w, x), y)
Mix3(w, x, y) == ((w \cup x) \cap y) \cup (w \cap x)

Mixed(n, w, x, y) ==
    CASE n < 20 -> Mix1(w, x, y)
      [] n \in 40..59 -> Mix3(w, x, y)
      [] OTHER -> Mix2(w, x, y)

K(n) ==
    CASE n < 20 -> Word(\h5A82, \h7999)
      [] n \in 20..39 -> Word(\h6ED9, \hEBA1)
      [] n \in 40..59 -> Word(\h8F1B, \hBCDC)
      [] OTHER -> Word(\hCA62, \hC1D6)

(* The n-th operation.  The source renames the five variables from one to  *)
(* the next, here they move on by one place.                               *)
R(r, n) ==
    LET word == IF n < 16 THEN r.l[n] ELSE blk(r.l, n)
        z == Total[<<r.v[5], Mixed(n, r.v[2], r.v[3], r.v[4]), word, K(n), rol(r.v[1], 5)>>]
    IN  [v |-> <<z, r.v[1], rol(r.v[2], 30), r.v[3], r.v[4]>>,
         l |-> [r.l EXCEPT ![n % 16] = word]]

(* The eighty operations, on the five variables and the block.             *)
State == [1..5 -> UInt32]
Registers == [v : State, l : [0..15 -> UInt32]]
Rounds == [n \in 1..80 |-> [r \in Registers |-> R(r, n - 1)]]

SHA1Transform(state, bytes) ==
    LET start == [v |-> state, l |-> [k \in 0..15 |-> blk0(bytes, k)]]
        end == Sixteens(Rounds, Registers, 5)[start]
    IN  [n \in 1..5 |-> Total[<<state[n], end.v[n]>>]]

SHA1_CTX == [state : State, count : Nat, buffer : [1..64 -> UInt8]]

SHA1Init(buffer) ==
    [state |-> <<Word(\h6745, \h2301), Word(\hEFCD, \hAB89), Word(\h98BA, \hDCFE),
                 Word(\h1032, \h5476), Word(\hC3D2, \hE1F0)>>,
     count |-> 0, buffer |-> buffer]

(* memcpy of data to position j of the buffer.                             *)
Written(buffer, j, data) ==
    SubSeq(buffer, 1, j) \o data \o SubSeq(buffer, j + Len(data) + 1, Len(buffer))

(* Seeded faults: a full buffer is not noticed until one byte later; a     *)
(* block that ends with the data is left for the next call.                *)
FullLate(j, len) == j + len > 64
BlocksShort(len) == IF len = 0 THEN 0 ELSE (len - 1) \div 64

(* Whether the buffer, filled up to j, gets full.                          *)
Full(j, len) == j + len > 63

(* How many blocks there are in the len bytes that are left then.          *)
Blocks(len) == len \div 64

SHA1Update(context, data) ==
    LET j == context.count % 64
        len == Len(data)
        blocks == 1 + Blocks(len - (64 - j))        \* when the buffer gets full
        first == Written(context.buffer, j, SubSeq(data, 1, 64 - j))
        block(n) == IF n = 1 THEN first ELSE SubSeq(data, 64 * (n - 1) - j + 1, 64 * n - j)
        transforms == [n \in 1..blocks |-> [s \in State |-> SHA1Transform(s, block(n))]]
    IN  IF Full(j, len)
        THEN [state |-> Iterate(transforms, State, blocks)[context.state],
              count |-> context.count + len,
              buffer |-> Written(first, 0, SubSeq(data, 64 * blocks - j + 1, len))]
        ELSE [context EXCEPT !.count = @ + len, !.buffer = Written(@, j, data)]

BytesOf(w) == <<High(w) \div 256, High(w) % 256, Low(w) \div 256, Low(w) % 256>>

Digest(words) == [n \in 1..20 |-> BytesOf(words[(n + 3) \div 4])[((n - 1) % 4) + 1]]

Octet(n, k) == (n \div 2^(8 * k)) % 256

HashInit ==
    /\ str \in Messages
    /\ ctx \in {SHA1Init(buffer) : buffer \in Leftovers}
    /\ ii = 0
    /\ finalcount = <<>>
    /\ digest = <<>>
    /\ at = "str"

(* One iteration of the loop of SHA1: a call for each byte.                *)
Feed ==
    /\ at = "str"
    /\ ii < Len(str)
    /\ ctx' = SHA1Update(ctx, <<str[ii + 1]>>)
    /\ ii' = ii + 1
    /\ UNCHANGED <<str, finalcount, digest, at>>

(* SHA1Final up to its loop: the count in bits, highest byte first, and    *)
(* the byte 0200.                                                          *)
FinalStart ==
    /\ at = "str"
    /\ ii = Len(str)
    /\ finalcount' = [n \in 1..8 |-> IF n <= 4 THEN 0 ELSE Octet(8 * ctx.count, 8 - n)]
    /\ ctx' = SHA1Update(ctx, <<128>>)
    /\ at' = "padding"
    /\ UNCHANGED <<str, ii, digest>>

(* One iteration of the loop of SHA1Final.                                 *)
FinalPad ==
    /\ at = "padding"
    /\ ctx.count % 64 # 56
    /\ ctx' = SHA1Update(ctx, <<0>>)
    /\ UNCHANGED <<str, ii, finalcount, digest, at>>

(* The rest of SHA1Final, which wipes the context and finalcount.          *)
FinalEnd ==
    /\ at = "padding"
    /\ ctx.count % 64 = 56
    /\ digest' = Digest(SHA1Update(ctx, finalcount).state)
    /\ ctx' = [state |-> [n \in 1..5 |-> {}], count |-> 0, buffer |-> [n \in 1..64 |-> 0]]
    /\ finalcount' = [n \in 1..8 |-> 0]
    /\ at' = "end"
    /\ UNCHANGED <<str, ii>>

HashNext == Feed \/ FinalStart \/ FinalPad \/ FinalEnd

HashSpec == HashInit /\ [][HashNext]_hashVars

------------------------------------------------------------------------------
(* Properties *)

(* The definition of the standard (FIPS PUB 180-1, sections 4 to 7): the   *)
(* padded message, eighty words for each block and none of them reused.    *)
Padded(m) ==
    LET zeros == CHOOSE z \in 0..63 : (Len(m) + 9 + z) % 64 = 0
        bits == 8 * Len(m)
    IN  m \o <<128>> \o [n \in 1..(zeros + 4) |-> 0]
          \o <<Octet(bits, 3), Octet(bits, 2), Octet(bits, 1), Octet(bits, 0)>>

Schedule(block) ==
    LET next == [w \in Seq(UInt32) |->
                    LET t == Len(w) + 1 IN
                    Append(w, rol(Xor(Xor(w[t - 3], w[t - 8]), Xor(w[t - 14], w[t - 16])), 1))]
    IN  Sixteens([n \in 1..64 |-> next], Seq(UInt32), 4)[[t \in 1..16 |-> blk0(block, t - 1)]]

StandardF(t, b, c, d) ==
    CASE t < 20 -> (b \cap c) \cup ((0..31 \ b) \cap d)
      [] t \in 40..59 -> (b \cap c) \cup (b \cap d) \cup (c \cap d)
      [] OTHER -> Xor(b, Xor(c, d))

(* The operations of the standard with the words w.                        *)
StandardRounds[w \in Seq(UInt32)] ==
    [n \in 1..80 |-> [v \in State |->
        <<Total[<<v[5], StandardF(n - 1, v[2], v[3], v[4]), w[n], K(n - 1), rol(v[1], 5)>>],
          v[1], rol(v[2], 30), v[3], v[4]>>]]

StandardBlock(h, block) ==
    LET end == Sixteens(StandardRounds[Schedule(block)], State, 5)[h]
    IN  [n \in 1..5 |-> Total[<<h[n], end[n]>>]]

(* The state after all complete blocks of p.                               *)
Chain(p) ==
    LET blocks == Len(p) \div 64
        steps == [n \in 1..blocks |-> [h \in State |->
                     StandardBlock(h, SubSeq(p, 64 * n - 63, 64 * n))]]
    IN  Iterate(steps, State, blocks)[SHA1Init(<<>>).state]

Standard(m) == Digest(Chain(Padded(m)))

(* SHA1 computes the digest of the standard, on both sides of every length *)
(* at which the padding or the message needs one more block, whatever the  *)
(* buffer held before.                                                     *)
DigestIsStandard == at = "end" => digest = Standard(str)

(* Two contexts that agree on all that the rest of the data will meet: the *)
(* part of the buffer that is not in use is left out.                      *)
Agree(c, d) ==
    /\ c.state = d.state
    /\ c.count = d.count
    /\ SubSeq(c.buffer, 1, c.count % 64) = SubSeq(d.buffer, 1, d.count % 64)

(* It makes no difference to SHA1Update ("Run your data through this") how *)
(* the data is divided among calls.  One call with all of str leaves what  *)
(* two calls leave, wherever it is cut, and what the calls for single      *)
(* bytes so far and one with the rest leave.                               *)
UpdateIsStream ==
    LET start == SHA1Init(ctx.buffer)
        fed == SubSeq(str, 1, ii)
        rest == SubSeq(str, ii + 1, Len(str))
        whole == SHA1Update(start, str)
    IN  at = "str" => /\ Agree(SHA1Update(SHA1Update(start, fed), rest), whole)
                      /\ Agree(SHA1Update(ctx, rest), whole)

==============================================================================
