----------------------------- MODULE TokenBucket ----------------------------
(***************************************************************************)
(* One token bucket of the rate limiter, kept in Redis (TOKEN_BUCKET_LUA)  *)
(* or in a process (LocalRateLimiter.consumeBucket).  The level is stored  *)
(* at the last grant and computed from the time since; what is stored may  *)
(* be dropped, in Redis by its TTL, in a process by the sweep.  Tokens are *)
(* counted in units of a token over refillIntervalMs, which are whole.     *)
(***************************************************************************)
EXTENDS Integers

CONSTANTS
  Capacity, RefillTokens, RefillInterval, Take,
  IdleTime,  \* IDLE_HORIZON_MS of the sweep
  LastClock  \* bound on the clock

Full == Capacity * RefillInterval
Gain == RefillTokens
Need == Take * RefillInterval

\* validatePolicyCatalogue; and no bucket takes longer than the horizon to fill.
ASSUME BucketCatalogue ==
  /\ Capacity \in Nat \ {0} /\ RefillTokens \in Nat \ {0}
  /\ RefillInterval \in Nat \ {0}
  /\ Take \in Nat \ {0} /\ Take <= Capacity
  /\ IdleTime \in Nat /\ Full <= IdleTime * Gain
ASSUME BucketClock == LastClock \in Nat

VARIABLES
  where,    \* which of the two stores this is
  clock,
  kept,     \* whether the store holds the bucket
  tokens, ts, \* what it holds: the level at the last grant, and its time
  expiry,   \* when Redis drops it
  verdict, wait \* the last answer, and its retryAfterMs

saved == <<kept, tokens, ts>>
bucketVars == <<where, clock, saved, expiry, verdict, wait>>

BucketTypeOK ==
  /\ where \in {"redis", "process"}
  /\ clock \in Nat /\ kept \in BOOLEAN /\ tokens \in 0..Full /\ ts \in 0..clock
  /\ expiry \in Nat /\ verdict \in {"none", "allowed", "denied"}
  /\ wait \in Nat

TokenInit ==
  /\ where \in {"redis", "process"}
  /\ clock = 0 /\ kept = FALSE /\ tokens = 0 /\ ts = 0
  /\ expiry = 0 /\ verdict = "none" /\ wait = 0

-----------------------------------------------------------------------------
Smaller(a, b) == IF a <= b THEN a ELSE b
\* Mutant: rounded down.
FloorDiv(a, b) == a \div b
CeilDiv(a, b) == (a + b - 1) \div b

\* Mutant: the slack alone.
TtlSlack == RefillInterval

\* Time from empty to full, and one interval of slack.
Ttl == CeilDiv(Full, Gain) + RefillInterval

\* Whether the bucket is there at time t: a new caller starts with a full one.
Holds(t) == kept /\ (where = "redis" => t < expiry)

\* The level a request at time t finds.
LevelAt(t) ==
  IF Holds(t) THEN Smaller(Full, tokens + (t - ts) * Gain) ELSE Full

\* PEXPIRE, on both paths.
Touch == expiry' = IF where = "redis" THEN clock + Ttl ELSE expiry

\* Consumed: the balance is saved and the time set to now.
Spend ==
  /\ LevelAt(clock) >= Need
  /\ kept' = TRUE /\ tokens' = LevelAt(clock) - Need /\ ts' = clock
  /\ Touch
  /\ verdict' = "allowed" /\ wait' = 0
  /\ UNCHANGED <<where, clock>>

\* Refused: what is stored stays as it is, and only its TTL is renewed.
Refuse ==
  /\ LevelAt(clock) < Need
  /\ Touch
  /\ verdict' = "denied"
  /\ wait' = CeilDiv(Need - LevelAt(clock), Gain)
  /\ UNCHANGED <<where, clock, saved>>

\* The sweep drops what nobody touched for the horizon.
SweepBucket ==
  /\ where = "process" /\ kept /\ ts <= clock - IdleTime
  /\ kept' = FALSE
  /\ UNCHANGED <<where, clock, tokens, ts, expiry, verdict, wait>>

TimePasses == /\ clock < LastClock /\ clock' = clock + 1
              /\ UNCHANGED <<where, saved, expiry, verdict, wait>>

TokenNext == Spend \/ Refuse \/ SweepBucket \/ TimePasses
TokenSpec == TokenInit /\ [][TokenNext]_bucketVars

-----------------------------------------------------------------------------
\* Whatever is dropped and recomputed, the bucket behaves as if a level were
\* kept and raised with every tick: the TTL and the sweep give nothing away, a
\* refused request takes nothing, and Retry-After is the first tick at which the
\* level would cover the request.
Level == LevelAt(clock)
Ideal == INSTANCE BucketPromise WITH level <- Level
KeepsBucket == Ideal!BucketSpec
=============================================================================
