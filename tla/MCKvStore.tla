------------------------------- MODULE MCKvStore -------------------------------
(* Instances of KvStore for TLC.                                           *)
EXTENDS KvStore, Integers, TLC

Digest(high, low) == [n \in 1..20 |-> CASE n = 19 -> high [] n = 20 -> low [] OTHER -> 77]

(* Two keys that share a bucket, one of them with a negative last char,    *)
(* and a key of another bucket.                                            *)
MCKeys == {Digest(3, 5), Digest(-1, -127), Digest(0, 2)}

MCValues == {<<>>, <<2, 2>>}

MCBuckets == 0..3

(* sha1_mod_bucket of the keys for four buckets (LastTwoDecide).           *)
MCBucketOf == [k \in MCKeys |-> (256 * k[19] + k[20]) % 4]

==============================================================================
