----------------------------- MODULE Partitioner -----------------------------
(***************************************************************************)
(* The three partitioners (src/src/partitioner.rs) as operators on their   *)
(* state, on signed integers that wrap as the code's atomics and wrapping  *)
(* operations do.  The code's are i32, for which Half is 2^31.             *)
(*                                                                         *)
(* FNV-1a is any function from keys to unsigned integers of that width:    *)
(* nothing depends on its values but that they are the same every time.    *)
(***************************************************************************)
EXTENDS Integers

CONSTANTS
    Half,           \* integers go from -Half to Half - 1
    Keys,           \* message keys
    Hash            \* the FNV-1a hash of each key

ASSUME HalfAssumption == Half \in Nat \ {0, 1}
ASSUME HashAssumption == Hash \in [Keys -> 0..(2 * Half - 1)]

SignedInt == -Half..(Half - 1)

(* Two's complement: x reduced to an integer there is.                     *)
Wrap(x) == ((x + Half) % (2 * Half)) - Half

(* The % of Rust: the sign is that of the dividend.                        *)
Rem(a, n) == IF a >= 0 THEN a % n ELSE -((-a) % n)

(* A build without overflow checks: -Half has no absolute value.           *)
Abs(a) == IF a >= 0 THEN a ELSE Wrap(-a)

(* fnv1a_32.                                                               *)
fnv1a(key) == Hash[key]

ConsistentPartition(key, n) == IF n <= 0 THEN 0 ELSE fnv1a(key) % n

(* Slip: taking the absolute value of the counter instead.                 *)
RoundRobinPartition_Abs(counter, n) ==
    IF n <= 0 THEN 0 ELSE (IF counter < 0 THEN -counter ELSE counter) % n

RoundRobinPartition(counter, n) ==
    IF n <= 0 THEN 0 ELSE Rem(Wrap(Rem(counter, n) + n), n)

(* Slip: trusting abs to be positive.                                      *)
RandomPartition_Plain(state, n) ==
    IF n <= 0 THEN 0 ELSE Rem(Abs(state), n)

RandomPartition(state, n) ==
    IF n <= 0 THEN 0 ELSE Rem(Wrap(Rem(Abs(state), n) + n), n)

(* Slip: an addition that does not wrap.                                   *)
NextCounter_NoWrap(counter, n) == IF n <= 0 THEN counter ELSE counter + 1

(* fetch_add(1), and the step of the generator; neither is reached when    *)
(* there are no partitions.                                                *)
NextCounter(counter, n) == IF n <= 0 THEN counter ELSE Wrap(counter + 1)

NextRandom(state, n) ==
    IF n <= 0 THEN state
    ELSE Wrap(state * (1103515245 % (2 * Half)) + (12345 % (2 * Half)))

(* RandomPartitioner::new: the clock may give any seed, 0 becomes 1.       *)
Seed(x) == IF x = 0 THEN 1 ELSE x
=============================================================================
