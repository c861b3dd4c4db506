---------------------------- MODULE BucketPromise ---------------------------
(***************************************************************************)
(* What a token bucket promises (the comments of redis.scripts.ts): a      *)
(* level that rises with time up to the capacity, and a request that is    *)
(* let through exactly when the level covers it, and told when it will.    *)
(***************************************************************************)
EXTENDS Integers

CONSTANTS
  Full,  \* the capacity
  Gain,  \* what a tick brings
  Need   \* what a request takes

VARIABLES level, verdict, wait

Least(a, b) == IF a <= b THEN a ELSE b

BucketInit == level = Full /\ verdict = "none" /\ wait = 0

Rises == level' = Least(Full, level + Gain) /\ UNCHANGED <<verdict, wait>>

LetThrough ==
  /\ level >= Need /\ level' = level - Need
  /\ verdict' = "allowed" /\ wait' = 0

\* With wait' ticks the level covers the request, with one less it does not.
Refused ==
  /\ level < Need /\ level' = level
  /\ verdict' = "denied" /\ wait' \in Nat \ {0}
  /\ level + wait' * Gain >= Need /\ level + (wait' - 1) * Gain < Need

BucketSpec ==
  BucketInit /\ [][Rises \/ LetThrough \/ Refused]_<<level, verdict, wait>>
=============================================================================
