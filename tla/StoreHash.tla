------------------------------- MODULE StoreHash -------------------------------
(***************************************************************************)
(* sha1_mod_bucket of database/store.c, statement by statement: the loop   *)
(* that turns a SHA-1 digest into the index of a bucket.  The chars of a   *)
(* digest are signed where char is (x86), the index is a size_t.           *)
(***************************************************************************)
EXTENDS Integers

CONSTANTS
    Digests,        \* the digests that are looked up
    bucket_count,
    SIZE            \* how many values a size_t has

Char == {c \in Int : -128 <= c /\ c < 128}

ASSUME HashAssumption ==
    /\ Digests \subseteq [1..20 -> Char]
    /\ bucket_count \in {1, 2, 4, 8, 16, 32, 64, 128, 256, 512, 1024}
    /\ SIZE \in Nat \ {0} /\ SIZE % 65536 = 0

VARIABLES
    hash,       \* the argument
    folded,     \* how many chars have been folded in
    result      \* the local variable that is returned

indexVars == <<hash, folded, result>>

IndexInit ==
    /\ hash \in Digests
    /\ folded = 0
    /\ result = 0

(* A number as a size_t.                                                   *)
Unsigned(n) == n % SIZE

(* Seeded fault: signed arithmetic, where a remainder has the sign of what *)
(* is divided.                                                             *)
MixSigned(r, c) ==
    IF r * 256 + c < 0 THEN -((-(r * 256 + c)) % bucket_count)
                       ELSE (r * 256 + c) % bucket_count

(* The char is converted to a size_t before it is added, and the sum wraps *)
(* around.                                                                 *)
Mix(r, c) == Unsigned(Unsigned(r * 256) + Unsigned(c)) % bucket_count

(* One iteration.                                                          *)
IndexStep ==
    /\ folded < 20
    /\ result' = Mix(result, hash[folded + 1])
    /\ folded' = folded + 1
    /\ UNCHANGED hash

IndexSpec == IndexInit /\ [][IndexStep]_indexVars

------------------------------------------------------------------------------
(* Only the last two chars of the digest decide the bucket, and as signed  *)
(* numbers: the others are multiplied by 65536, of which every admissible  *)
(* bucket count is a divisor, and neither a negative char nor a sum that   *)
(* wraps around as a size_t leads elsewhere.                               *)
LastTwoDecide == folded >= 2 => result = (256 * hash[folded - 1] + hash[folded]) % bucket_count

==============================================================================
