---------------------------- MODULE Guards_proofs ---------------------------
(***************************************************************************)
(* What is proved of the guards every request passes: the account's state, *)
(* the token bucket and the rate limits.                                   *)
(***************************************************************************)
EXTENDS RateLimit, TokenBucket, AccountState, FiniteSetTheorems, WellFoundedInduction, TLAPS

-----------------------------------------------------------------------------
(* The account's state.                                                    *)

\* What is cached, asked and forgotten is well formed.
LEMMA StateTypeStep == StateTypeOK /\ [StateNext]_stateVars => StateTypeOK'
<1> SUFFICES ASSUME StateTypeOK, [StateNext]_stateVars PROVE StateTypeOK'
  OBVIOUS
<1> USE CacheConstants DEF StateTypeOK
<1>0. /\ Nothing \in Told
      /\ \A d \in BOOLEAN : [Nothing EXCEPT !.denied = d] \in Told
      /\ Absent \in Slot
  <2>1. Nothing \in Told
    BY DEF Told, Nothing
  <2>2. \A t \in Told : \A d \in BOOLEAN : [t EXCEPT !.denied = d] \in Told
    BY DEF Told
  <2> QED BY <2>1, <2>2 DEF Slot, Absent
<1>q. \A r \in Check : asking[r].at # "idle" => asking[r] \in Query
  BY DEF Idle
<1>1. CASE UNCHANGED stateVars
  BY <1>1 DEF stateVars
<1>2. ASSUME NEW r \in Check, Asked(r) PROVE StateTypeOK'
  <2>1. PICK k \in Question : asking' = [asking EXCEPT ![r] =
                 [Idle EXCEPT !.at = "asked", !.key = k, !.now = time]]
    BY <1>2 DEF Asked
  <2>2. [Idle EXCEPT !.at = "asked", !.key = k, !.now = time] \in Query
    BY <1>0 DEF Query, Idle
  <2> QED BY <1>2, <2>1, <2>2 DEF Asked
<1>3. ASSUME NEW r \in Check, DatabaseAnswers(r) PROVE StateTypeOK'
  <2>1. asking[r] \in Query
    BY <1>3, <1>q DEF DatabaseAnswers
  <2>2. ASSUME NEW d \in BOOLEAN
        PROVE  [asking[r] EXCEPT !.at = "read",
                                 !.answer = [Nothing EXCEPT !.denied = d]] \in Query
    BY <1>0, <2>1 DEF Query
  <2>3. denied[asking[r].key] \in BOOLEAN
    BY <2>1 DEF Query
  <2> QED BY <1>3, <2>2, <2>3 DEF DatabaseAnswers
<1>4. ASSUME NEW r \in Check, FailsOpen(r) PROVE StateTypeOK'
  BY <1>4 DEF FailsOpen
<1>5. ASSUME NEW r \in Check, Remember(r) PROVE StateTypeOK'
  <2>1. Entry(r) \in Slot
    BY <1>5, <1>q DEF Remember, Entry, Query, Slot
  <2> QED BY <1>0, <1>5, <2>1 DEF Remember
<1>6. ASSUME NEW S \in SUBSET Question, Changes(S)
      PROVE  /\ denied' \in [Question -> BOOLEAN]
             /\ cache' \in [Question -> Slot]
             /\ asking' \in [Check -> Query \cup {Idle}]
  <2>1. \A t \in Told : \A k : Ends(t, k, S) \in Told
    BY DEF Ends, Told
  <2>2. \A q \in Query : [q EXCEPT !.answer = Ends(@, q.key, S)] \in Query
    BY <2>1 DEF Query
  <2>3. \A k \in Question : [cache[k] EXCEPT !.answer = Ends(@, k, S)] \in Slot
    BY <2>1 DEF Slot
  <2> QED BY <1>0, <1>6, <1>q, <2>2, <2>3 DEF Changes
<1>7. ASSUME NEW x \in Sanction, Commit(x) PROVE StateTypeOK'
  BY <1>6, <1>7 DEF Commit, QuestionsOf
<1>8. ASSUME NEW x \in Sanction, Invalidate(x) PROVE StateTypeOK'
  <2>1. \A q \in Query : [q EXCEPT !.answer.raced = TRUE] \in Query
    BY DEF Query, Told
  <2> QED BY <1>0, <1>8, <1>q, <2>1 DEF Invalidate
<1>9. ASSUME NEW x \in Sanction, AnswerLost(x) PROVE StateTypeOK'
  BY <1>9 DEF AnswerLost
<1>10. CASE ChangedElsewhere
  BY <1>6, <1>10 DEF ChangedElsewhere, QuestionsOf
<1>11. CASE Tick
  BY <1>11 DEF Tick
<1> QED BY <1>1, <1>2, <1>3, <1>4, <1>5, <1>7, <1>8, <1>9, <1>10, <1>11 DEF StateNext

\* For any number of requests, sanctions, accounts and capabilities.
THEOREM StateTypeCorrect == StateSpec => []StateTypeOK
<1>1. StateInit => StateTypeOK
  BY CacheConstants DEF StateInit, StateTypeOK, Told, Slot, Absent, Nothing
<1> QED BY <1>1, StateTypeStep, PTL DEF StateSpec

\* An answer about k that somebody began to ask for at time `from' and that is no
\* longer so has ended since then, and there is one of three reasons to hold it.
Excused(t, k, from) ==
  /\ from <= time
  /\ t.denied # denied[k] => /\ from <= t.ended
                             /\ outside > 0 \/ BeingForgotten(k) \/ t.raced

\* It holds of what is cached and of what is on its way to the cache.
StaleInv ==
  /\ \A k \in Question : cache[k].held =>
       Excused(cache[k].answer, k, cache[k].expires - CacheTime)
  /\ \A r \in Check : asking[r].at = "asked" => asking[r].now <= time
  /\ \A r \in Check : asking[r].at = "read" =>
       Excused(asking[r].answer, asking[r].key, asking[r].now)

\* A change that somebody will forget, or that nobody will, leaves no answer
\* without its excuse.
LEMMA ChangesExcused ==
  ASSUME StateTypeOK, StaleInv, NEW a \in Account, NEW S \in SUBSET QuestionsOf(a),
         Changes(S), time' = time, outside' = outside \/ outside' = outside + 1,
         \A b \in Account : (\E x \in Sanction : acting[x] = b)
                              => \E x \in Sanction : acting'[x] = b,
         outside' > 0 \/ \E x \in Sanction : acting'[x] = a
  PROVE  StaleInv'
<1> USE CacheConstants DEF StateTypeOK
<1>1. ASSUME NEW k \in Question, NEW t \in Told, NEW from \in Int, Excused(t, k, from),
             NEW u, u = Ends(t, k, S)
      PROVE  Excused(u, k, from)'
  <2>1. BeingForgotten(k) => BeingForgotten(k)'
    BY DEF BeingForgotten, Question
  <2>2. k \in S => outside' > 0 \/ BeingForgotten(k)'
    BY DEF BeingForgotten, QuestionsOf
  <2>3. denied'[k] = (denied[k] # (k \in S)) /\ denied[k] \in BOOLEAN /\ t.denied \in BOOLEAN
    BY DEF Changes, Told
  <2>4. CASE k \in S /\ t.denied = denied[k]
    <3>1. u.ended = time
      BY <1>1, <2>4 DEF Ends, Told
    <3> QED BY <1>1, <2>2, <2>4, <3>1 DEF Excused
  <2>5. CASE k \in S /\ t.denied # denied[k]
    BY <1>1, <2>3, <2>5 DEF Excused, Ends
  <2>6. CASE k \notin S
    BY <1>1, <2>1, <2>3, <2>6 DEF Excused, Ends
  <2> QED BY <2>4, <2>5, <2>6
<1>2. ASSUME NEW k \in Question, cache'[k].held
      PROVE  Excused(cache[k].answer, k, cache[k].expires - CacheTime)'
  <2>1. /\ cache[k].held /\ cache[k] \in Slot
        /\ cache'[k] = [cache[k] EXCEPT !.answer = Ends(@, k, S)]
    BY <1>2 DEF Changes, Absent
  <2>2. /\ cache[k].answer \in Told /\ cache[k].expires \in Nat
        /\ cache'[k].answer = Ends(cache[k].answer, k, S)
        /\ cache'[k].expires = cache[k].expires
    BY <2>1 DEF Slot
  <2> QED BY <1>1, <2>1, <2>2 DEF StaleInv
<1>3. ASSUME NEW r \in Check, asking'[r].at = "read"
      PROVE  Excused(asking[r].answer, asking[r].key, asking[r].now)'
  <2>1. /\ asking[r].at = "read" /\ asking[r] \in Query
        /\ asking'[r] = [asking[r] EXCEPT !.answer = Ends(@, asking[r].key, S)]
    BY <1>3 DEF Changes, Idle, Query
  <2>2. /\ asking[r].answer \in Told /\ asking[r].now \in Nat /\ asking[r].key \in Question
        /\ asking'[r].answer = Ends(asking[r].answer, asking[r].key, S)
        /\ asking'[r].now = asking[r].now /\ asking'[r].key = asking[r].key
    BY <2>1 DEF Query
  <2> QED BY <1>1, <2>1, <2>2 DEF StaleInv
<1>4. ASSUME NEW r \in Check, asking'[r].at = "asked" PROVE asking'[r].now <= time'
  <2>1. asking'[r] = asking[r]
    BY <1>4 DEF Changes, Query, Idle
  <2> QED BY <1>4, <2>1 DEF StaleInv
<1> QED BY <1>2, <1>3, <1>4 DEF StaleInv

\* No step breaks it.
LEMMA StaleStep == StateTypeOK /\ StaleInv /\ [StateNext]_stateVars => StaleInv'
<1> SUFFICES ASSUME StateTypeOK, StaleInv, [StateNext]_stateVars PROVE StaleInv'
  OBVIOUS
<1> USE CacheConstants DEF StateTypeOK
<1>1. CASE UNCHANGED stateVars
  BY <1>1 DEF stateVars, StaleInv, Excused, BeingForgotten
<1>q. \A r \in Check : asking[r].at # "idle" => asking[r] \in Query
  BY DEF Idle
<1>2. ASSUME NEW r \in Check, Asked(r) PROVE StaleInv'
  <2>1. PICK k \in Question : asking' = [asking EXCEPT ![r] =
                 [Idle EXCEPT !.at = "asked", !.key = k, !.now = time]]
    BY <1>2 DEF Asked
  <2>2. asking'[r].at = "asked" /\ asking'[r].now = time
    BY <2>1 DEF Idle
  <2> QED BY <1>2, <2>1, <2>2 DEF Asked, StaleInv, Excused, BeingForgotten
<1>3. ASSUME NEW r \in Check, DatabaseAnswers(r) PROVE StaleInv'
  <2>1. asking[r] \in Query /\ asking[r].now <= time
    BY <1>3, <1>q DEF DatabaseAnswers, StaleInv
  <2>2. /\ asking'[r].at = "read" /\ asking'[r].now = asking[r].now
        /\ asking'[r].key = asking[r].key
        /\ asking'[r].answer.denied = denied[asking[r].key]
    BY <1>3, <2>1 DEF DatabaseAnswers, Query, Nothing
  <2>3. \A q \in Check \ {r} : asking'[q] = asking[q]
    BY <1>3 DEF DatabaseAnswers
  <2> QED BY <1>3, <2>1, <2>2, <2>3 DEF DatabaseAnswers, StaleInv, Excused, BeingForgotten
<1>4. ASSUME NEW r \in Check, FailsOpen(r) PROVE StaleInv'
  BY <1>4 DEF FailsOpen, StaleInv, Excused, BeingForgotten, Idle
<1>5. ASSUME NEW r \in Check, Remember(r) PROVE StaleInv'
  <2>1. asking[r] \in Query
    BY <1>5, <1>q DEF Remember
  <2>2. Entry(r).expires - CacheTime = asking[r].now /\ Entry(r).answer = asking[r].answer
    BY <2>1 DEF Entry, Query
  <2> QED BY <1>5, <2>1, <2>2 DEF Remember, StaleInv, Excused, BeingForgotten, Idle, Absent
<1>6. ASSUME NEW x \in Sanction, Commit(x) PROVE StaleInv'
  <2>1. PICK a \in Account : /\ acting' = [acting EXCEPT ![x] = a]
                             /\ \E S \in SUBSET QuestionsOf(a) : Changes(S)
    BY <1>6 DEF Commit
  <2>2. /\ acting'[x] = a /\ acting[x] = Nobody
        /\ \A y \in Sanction : y # x => acting'[y] = acting[y]
    BY <1>6, <2>1 DEF Commit
  <2> QED BY <1>6, <2>1, <2>2, ChangesExcused DEF Commit
<1>7. ASSUME NEW x \in Sanction, Invalidate(x) PROVE StaleInv'
  <2> DEFINE a == acting[x]
  <2>1. /\ a \in Account
        /\ cache' = [k \in Question |-> IF k \in QuestionsOf(a) THEN Absent ELSE cache[k]]
        /\ asking' = [r \in Check |->
             IF asking[r].at = "read" /\ asking[r].key \in QuestionsOf(a)
             THEN [asking[r] EXCEPT !.answer.raced = TRUE] ELSE asking[r]]
        /\ UNCHANGED <<time, denied, outside>>
        /\ \A y \in Sanction : acting'[y] = IF y = x THEN Nobody ELSE acting[y]
    BY <1>7 DEF Invalidate
  <2>2. \A k \in Question \ QuestionsOf(a) : BeingForgotten(k) => BeingForgotten(k)'
    BY <2>1 DEF BeingForgotten, QuestionsOf
  <2>3. ASSUME NEW k \in Question, cache'[k].held
        PROVE  Excused(cache[k].answer, k, cache[k].expires - CacheTime)'
    <3>1. k \notin QuestionsOf(a) /\ cache'[k] = cache[k]
      BY <2>1, <2>3 DEF Absent
    <3> QED BY <2>1, <2>2, <2>3, <3>1 DEF StaleInv, Excused
  <2>4. ASSUME NEW r \in Check, asking'[r].at = "read"
        PROVE  Excused(asking[r].answer, asking[r].key, asking[r].now)'
    <3>1. asking[r].at = "read" /\ asking[r] \in Query
      BY <2>1, <2>4, <1>q DEF Query
    <3>2. CASE asking[r].key \in QuestionsOf(a)
      <4>1. /\ asking'[r].now = asking[r].now /\ asking'[r].key = asking[r].key
            /\ asking'[r].answer.raced /\ asking'[r].answer.ended = asking[r].answer.ended
            /\ asking'[r].answer.denied = asking[r].answer.denied
        BY <2>1, <3>1, <3>2 DEF Query, Told
      <4> QED BY <2>1, <3>1, <4>1 DEF StaleInv, Excused
    <3>3. CASE asking[r].key \notin QuestionsOf(a)
      <4>1. asking'[r] = asking[r] /\ asking[r].key \in Question
        BY <2>1, <3>1, <3>3 DEF Query
      <4> QED BY <2>1, <2>2, <3>1, <3>3, <4>1 DEF StaleInv, Excused
    <3> QED BY <3>2, <3>3
  <2>5. ASSUME NEW r \in Check, asking'[r].at = "asked" PROVE asking'[r].now <= time'
    <3>1. asking'[r] = asking[r]
      BY <2>1, <2>5, <1>q DEF Query
    <3> QED BY <2>1, <2>5, <3>1 DEF StaleInv
  <2> QED BY <2>3, <2>4, <2>5 DEF StaleInv
<1>8. ASSUME NEW x \in Sanction, AnswerLost(x) PROVE StaleInv'
  BY <1>8 DEF AnswerLost, StaleInv, Excused
<1>9. CASE ChangedElsewhere
  BY <1>9, ChangesExcused DEF ChangedElsewhere
<1>10. CASE Tick
  <2>1. \A t, k, from : Excused(t, k, from) /\ from \in Int => Excused(t, k, from)'
    BY <1>10 DEF Tick, Excused, BeingForgotten
  <2>2. \A k \in Question : cache[k].expires - CacheTime \in Int
    BY DEF Slot
  <2>3. \A r \in Check : asking[r].at # "idle" => asking[r].now \in Nat
    BY <1>q DEF Query
  <2> QED BY <1>10, <2>1, <2>2, <2>3 DEF Tick, StaleInv
<1> QED BY <1>1, <1>2, <1>3, <1>4, <1>5, <1>6, <1>7, <1>8, <1>9, <1>10 DEF StateNext

\* What the cache says was so less than the TTL ago, and unless something changed
\* out of this process's sight or a late answer met the forgetting, it is being
\* forgotten; for any number of requests, sanctions, accounts and capabilities.
THEOREM StaleBoundedCorrect == StateSpec => []StaleBounded
<1>1. StateInit => StaleInv
  BY DEF StateInit, StaleInv, Absent, Idle
<1>2. StateTypeOK /\ StaleInv => StaleBounded
  BY CacheConstants DEF StateTypeOK, StaleInv, StaleBounded, Stale, Live, Excused, Slot, Told
<1> QED BY <1>1, <1>2, StateTypeCorrect, StaleStep, PTL DEF StateSpec

-----------------------------------------------------------------------------
(* The token bucket.                                                       *)

\* Rounding a quotient up is the first multiple that covers it.
LEMMA CeilDivCovers ==
  ASSUME NEW a \in Nat, NEW b \in Nat \ {0}
  PROVE  /\ CeilDiv(a, b) \in Nat
         /\ a <= CeilDiv(a, b) * b
         /\ a > 0 => CeilDiv(a, b) > 0 /\ (CeilDiv(a, b) - 1) * b < a
<1> DEFINE q == (a + b - 1) \div b
           m == (a + b - 1) % b
<1>1. q \in Int /\ m \in 0..(b - 1) /\ a + b - 1 = b * q + m
  OBVIOUS
<1> HIDE DEF q, m
<1>2. b * q >= a
  BY <1>1
<1>3. q \in Nat
  <2>1. q < 0 => b * q <= 0
    BY <1>1
  <2>2. q < 0 => b * q + m < 0 \/ m >= b
    BY <1>1
  <2> QED BY <1>1, <2>1, <2>2
<1>4. a > 0 => q > 0
  BY <1>1, <1>2, <1>3
<1>5. (q - 1) * b = b * q - b
  BY <1>1
<1> QED BY <1>1, <1>2, <1>3, <1>4, <1>5 DEF CeilDiv, q

\* Products keep the order of their first factors.
LEMMA ProductMonotone ==
  ASSUME NEW a \in Int, NEW b \in Int, NEW c \in Nat, a <= b
  PROVE  a * c <= b * c
OBVIOUS

\* Redis keeps a bucket until it is full again, at the latest.
BucketInv == BucketTypeOK /\ (kept /\ where = "redis" => ts + Ttl <= expiry)

\* The bucket's numbers, and that its TTL covers the time from empty to full.
LEMMA BucketNumbers ==
  /\ Full \in Nat \ {0} /\ Gain \in Nat \ {0} /\ Need \in Nat \ {0} /\ Need <= Full
  /\ Ttl \in Nat \ {0} /\ Full <= Ttl * Gain
<1> USE BucketCatalogue
<1>1. /\ Full \in Nat \ {0} /\ Gain \in Nat \ {0} /\ Need \in Nat \ {0}
  BY DEF Full, Gain, Need
<1>2. Need <= Full
  BY ProductMonotone DEF Need, Full
<1>3. CeilDiv(Full, Gain) \in Nat /\ Full <= CeilDiv(Full, Gain) * Gain
  BY <1>1, CeilDivCovers
<1>4. Ttl \in Nat \ {0} /\ CeilDiv(Full, Gain) <= Ttl
  BY <1>3 DEF Ttl
<1>5. CeilDiv(Full, Gain) * Gain <= Ttl * Gain
  BY <1>1, <1>3, <1>4, ProductMonotone
<1> HIDE DEF Full, Gain, Need, Ttl
<1> QED BY <1>1, <1>2, <1>3, <1>4, <1>5

\* What a request finds is a level.
LEMMA LevelInRange ==
  ASSUME BucketTypeOK, NEW t \in Nat, t >= clock
  PROVE  LevelAt(t) \in 0..Full
<1>1. (t - ts) * Gain \in Nat
  BY BucketNumbers DEF BucketTypeOK
<1> QED BY <1>1, BucketNumbers DEF BucketTypeOK, LevelAt, Smaller

\* The first bucket is not kept.
LEMMA BucketStarts == TokenInit => BucketInv
<1> SUFFICES ASSUME TokenInit PROVE BucketInv
  OBVIOUS
<1>1. ~ kept /\ kept \in BOOLEAN
  BY DEF TokenInit
<1>2. /\ where \in {"redis", "process"} /\ clock \in Nat /\ tokens \in 0..Full
      /\ ts \in 0..clock /\ expiry \in Nat /\ verdict \in {"none", "allowed", "denied"}
      /\ wait \in Nat
  BY BucketNumbers DEF TokenInit
<1> QED BY <1>1, <1>2 DEF BucketInv, BucketTypeOK

\* Every step keeps the invariant, for any capacity, refill and cost.
LEMMA BucketStep == BucketInv /\ [TokenNext]_bucketVars => BucketInv'
<1> SUFFICES ASSUME BucketInv, [TokenNext]_bucketVars PROVE BucketInv'
  OBVIOUS
<1> USE BucketNumbers DEF BucketInv, BucketTypeOK
<1>0. LevelAt(clock) \in 0..Full
  BY LevelInRange
<1>1. CASE UNCHANGED bucketVars
  BY <1>1 DEF bucketVars, saved
<1>2. CASE Spend
  BY <1>0, <1>2 DEF Spend, Touch
<1>3. CASE Refuse
  <2>1. wait' \in Nat
    BY <1>0, <1>3, CeilDivCovers DEF Refuse
  <2> QED BY <1>3, <2>1 DEF Refuse, Touch, saved
<1>4. CASE SweepBucket
  BY <1>4 DEF SweepBucket
<1>5. CASE TimePasses
  BY <1>5 DEF TimePasses, saved
<1> QED BY <1>1, <1>2, <1>3, <1>4, <1>5 DEF TokenNext

\* The bucket's variables keep their types.
THEOREM BucketTypeCorrect == TokenSpec => []BucketTypeOK
BY BucketStarts, BucketStep, PTL DEF TokenSpec, BucketInv

\* TOKEN_BUCKET_LUA and consumeBucket implement the bucket that is raised with
\* every tick, for any capacity, refill, interval and cost: neither the TTL nor
\* the sweep gives tokens away, and Retry-After is the first tick that will do.
THEOREM KeepsBucketCorrect == TokenSpec => KeepsBucket
<1> USE BucketNumbers
<1>1. TokenInit => Ideal!BucketInit
  BY DEF TokenInit, Ideal!BucketInit, Level, LevelAt, Holds
<1>2. ASSUME BucketInv, [TokenNext]_bucketVars
      PROVE  [Ideal!Rises \/ Ideal!LetThrough \/ Ideal!Refused]_<<Level, verdict, wait>>
  <2> USE DEF BucketTypeOK
  <2>0. BucketTypeOK /\ LevelAt(clock) \in 0..Full
    BY <1>2, LevelInRange DEF BucketInv
  <2>1. CASE UNCHANGED bucketVars
    BY <2>1 DEF bucketVars, saved, Level, LevelAt, Holds
  <2>2. CASE Spend
    <3>1. Level' = Smaller(Full, tokens' + (clock - clock) * Gain)
      BY <2>0, <2>2 DEF Spend, Touch, Level, LevelAt, Holds
    <3>2. Level' = Level - Need
      BY <2>0, <2>2, <3>1 DEF Spend, Level, Smaller
    <3> QED BY <2>2, <3>2 DEF Spend, Level, Ideal!LetThrough
  <2>3. CASE Refuse
    <3>1. Holds(clock)
      BY <2>0, <2>3 DEF Refuse, LevelAt
    <3>2. Level' = Level
      BY <2>0, <2>3, <3>1 DEF Refuse, saved, Touch, Level, LevelAt, Holds
    <3> DEFINE lacks == Need - LevelAt(clock)
    <3>3. lacks \in Nat \ {0} /\ wait' = CeilDiv(lacks, Gain)
      BY <2>0, <2>3 DEF Refuse
    <3> HIDE DEF lacks
    <3>4. wait' \in Nat \ {0} /\ lacks <= wait' * Gain /\ (wait' - 1) * Gain < lacks
      BY <3>3, CeilDivCovers
    <3>5. wait' * Gain \in Int /\ (wait' - 1) * Gain \in Int
      BY <3>4
    <3>6. Level + wait' * Gain >= Need /\ Level + (wait' - 1) * Gain < Need
      BY <2>0, <3>4, <3>5 DEF Level, lacks
    <3> QED BY <2>3, <3>2, <3>4, <3>6 DEF Refuse, Level, Ideal!Refused
  <2>4. CASE SweepBucket
    <3>1. IdleTime * Gain <= (clock - ts) * Gain
      BY <2>0, <2>4, BucketCatalogue, ProductMonotone DEF SweepBucket
    <3>2. (clock - ts) * Gain \in Nat /\ Full <= (clock - ts) * Gain
      BY <2>0, <3>1, BucketCatalogue DEF Full, Gain
    <3>3. Level = Full
      BY <2>0, <2>4, <3>2 DEF Level, LevelAt, Smaller
    <3>4. Level' = Full
      BY <2>4 DEF SweepBucket, Level, LevelAt, Holds
    <3> QED BY <2>4, <3>3, <3>4 DEF SweepBucket
  <2>5. CASE TimePasses
    <3>1. /\ clock' = clock + 1 /\ where' = where /\ kept' = kept /\ tokens' = tokens
          /\ ts' = ts /\ expiry' = expiry /\ verdict' = verdict /\ wait' = wait
      BY <2>5 DEF TimePasses, saved
    <3> DEFINE old == (clock - ts) * Gain
               new == (clock + 1 - ts) * Gain
    <3>2. old \in Nat /\ new = old + Gain
      BY <2>0
    <3> HIDE DEF old, new
    <3>3. Level = IF Holds(clock) THEN Smaller(Full, tokens + old) ELSE Full
      BY DEF Level, LevelAt, old
    <3>4. Level' = IF Holds(clock + 1) THEN Smaller(Full, tokens + new) ELSE Full
      <4>1. Level' = IF Holds(clock)' THEN Smaller(Full, tokens' + (clock' - ts') * Gain)
                     ELSE Full
        BY Zenon DEF Level, LevelAt, Smaller, Full, Gain
      <4>2. Holds(clock)' <=> Holds(clock + 1)
        BY <3>1, Zenon DEF Holds
      <4>3. tokens' + (clock' - ts') * Gain = tokens + new
        BY <2>0, <3>1 DEF new
      <4> QED BY <4>1, <4>2, <4>3, Zenon
    <3>5. CASE Holds(clock) <=> Holds(clock + 1)
      BY <2>0, <3>1, <3>2, <3>3, <3>4, <3>5 DEF Smaller, Ideal!Rises, Ideal!Least
    <3>6. CASE Holds(clock) /\ ~ Holds(clock + 1)
      <4>1. where = "redis" /\ ts + Ttl <= clock + 1
        BY <1>2, <2>0, <3>6 DEF Holds, BucketInv
      <4>2. Ttl * Gain <= new
        BY <2>0, <4>1, ProductMonotone DEF new
      <4>3. Full <= tokens + new
        <5>1. Ttl * Gain \in Int
          OBVIOUS
        <5> QED BY <2>0, <3>2, <4>2, <5>1
      <4>4. Level' = Full
        BY <3>4, <3>6
      <4>5. Level = Full \/ Full <= Level + Gain
        BY <2>0, <3>2, <3>3, <3>6, <4>3 DEF Smaller
      <4> QED BY <2>0, <3>1, <4>4, <4>5 DEF Ideal!Rises, Ideal!Least, Level
    <3>7. ~ (~ Holds(clock) /\ Holds(clock + 1))
      BY <2>0 DEF Holds
    <3> QED BY <3>5, <3>6, <3>7
  <2> QED BY <1>2, <2>1, <2>2, <2>3, <2>4, <2>5 DEF TokenNext
<1> QED BY <1>1, <1>2, BucketStarts, BucketStep, PTL DEF TokenSpec, KeepsBucket, Ideal!BucketSpec

-----------------------------------------------------------------------------
(* The rate limits.                                                        *)

\* A set of entries that takes less space takes no more units, and one entry more
\* takes one request's units more.
LEMMA UnitsOfEntries ==
  ASSUME NEW S, IsFiniteSet(S)
  PROVE  /\ Used(S) \in Nat
         /\ \A T \in SUBSET S : IsFiniteSet(T) /\ Used(T) <= Used(S)
         /\ \A T \in SUBSET S : T # S => Used(T) + Cost <= Used(S)
         /\ \A x : IsFiniteSet(S \cup {x}) /\ Used(S \cup {x}) <= Used(S) + Cost
         /\ Used(S) > 0 => S # {}
<1> USE Catalogue
<1>0. Cardinality(S) \in Nat
  BY FS_CardinalityType
<1>1. \A n \in Nat : Cost * n \in Nat /\ Cost * (n + 1) = Cost * n + Cost
  OBVIOUS
<1>2. \A m, n \in Nat : m <= n => Cost * m <= Cost * n
  BY ProductMonotone
<1>3. ASSUME NEW T \in SUBSET S
      PROVE  /\ IsFiniteSet(T) /\ Used(T) <= Used(S)
             /\ T # S => Used(T) + Cost <= Used(S)
  <2>1. /\ IsFiniteSet(T) /\ Cardinality(T) \in Nat /\ Cardinality(T) <= Cardinality(S)
        /\ T # S => Cardinality(T) # Cardinality(S)
    BY FS_Subset, FS_CardinalityType
  <2>2. T # S => Cardinality(T) + 1 <= Cardinality(S) /\ Cardinality(T) + 1 \in Nat
    BY <1>0, <2>1
  <2> QED BY <1>0, <1>1, <1>2, <2>1, <2>2 DEF Used
<1>4. ASSUME NEW x
      PROVE  IsFiniteSet(S \cup {x}) /\ Used(S \cup {x}) <= Used(S) + Cost
  <2>1. /\ IsFiniteSet(S \cup {x}) /\ Cardinality(S \cup {x}) \in Nat
        /\ Cardinality(S \cup {x}) <= Cardinality(S) + 1
    <3>1. /\ IsFiniteSet(S \cup {x})
          /\ Cardinality(S \cup {x}) = IF x \in S THEN Cardinality(S) ELSE Cardinality(S) + 1
      BY FS_AddElement
    <3> QED BY <1>0, <3>1
  <2>2. Cost * Cardinality(S \cup {x}) <= Cost * (Cardinality(S) + 1)
    BY <1>0, <1>2, <2>1
  <2> QED BY <1>0, <1>1, <2>1, <2>2 DEF Used
<1>5. Used({}) = 0
  BY <1>1, FS_EmptySet DEF Used
<1>6. Used(S) \in Nat
  BY <1>0, <1>1 DEF Used
<1>7. Used(S) > 0 => S # {}
  BY <1>5
<1> QED BY <1>3, <1>4, <1>6, <1>7

\* A set of entries with one in it has an oldest one.
LEMMA OldestIsThere ==
  ASSUME NEW S \in SUBSET Hit, IsFiniteSet(S), S # {}
  PROVE  /\ Oldest(S) \in Nat /\ \E h \in S : h.at = Oldest(S)
         /\ \A h \in S : Oldest(S) <= h.at
<1> DEFINE Before(h) == {x \in S : x.at < h.at}
           T == {Before(h) : h \in S}
<1>1. T \subseteq FiniteSubsetsOf(S) /\ T # {}
  <2>1. FiniteSubsetsOf(S) = SUBSET S
    BY FS_FiniteSubsetsOfFinite
  <2>2. PICK h \in S : TRUE
    OBVIOUS
  <2>3. Before(h) \in T
    OBVIOUS
  <2>4. T \subseteq SUBSET S
    OBVIOUS
  <2> QED BY <2>1, <2>3, <2>4
<1>2. PICK least \in T : \A y \in T : <<y, least>> \notin StrictSubsetOrdering(S)
  BY <1>1, WFMin, FS_StrictSubsetOrderingWellFounded
<1>3. PICK h \in S : least = Before(h)
  OBVIOUS
<1>4. ASSUME NEW x \in Before(h) PROVE FALSE
  <2>1. x \in S /\ x.at < h.at /\ \A y \in S : y.at \in Nat
    BY DEF Hit
  <2>2. Before(x) \subseteq Before(h) /\ x \notin Before(x)
    BY <2>1
  <2>3. Before(x) \in T
    BY <2>1
  <2> QED BY <1>2, <1>3, <1>4, <2>2, <2>3 DEF StrictSubsetOrdering
<1>5. \A y \in S : h.at <= y.at /\ y.at \in Nat
  BY <1>3, <1>4 DEF Hit
<1>6. Oldest(S) = h.at
  BY <1>5 DEF Oldest, Min
<1> QED BY <1>5, <1>6

\* Where a request is, its commands and what it was granted agree.
PlacesInv ==
  /\ \A r \in Request :
       /\ ~ At(r, "new") => check[r].on \in Instance /\ check[r].who \in Subject
       /\ At(r, "new") => \A j \in Rules : wire[r][j].st = "idle"
  /\ \A g \in granted :
       /\ ~ At(g.req, "new")
       /\ IF g.key = Ip THEN At(g.req, "allowed") ELSE check[g.req].rule = 2
  /\ \A f, g \in granted : f.req = g.req /\ f.key = g.key => f = g

\* No store holds more units than the limit, nor any from the future; Redis keeps
\* a key as long as one of them counts, and a process tracks the keys it has.
UnitsInv ==
  /\ \A s \in Store, k \in Key :
       /\ IsFiniteSet(log[s][k]) /\ Used(log[s][k]) <= Limit[k]
       /\ \A h \in log[s][k] : h.at <= now
  /\ \A k \in Key : \A h \in log[Redis][k] : h.at + WindowMs[k] <= expires[k]
  /\ \A i \in Instance, k \in Key : log[i][k] # {} => k \in tracked[i]

\* Store s holds what request r took of key k at time t, unless that counts no more.
Backed(r, s, k, t) ==
  t > now - WindowMs[k] => \E h \in log[s][k] : h.req = r /\ h.at >= t

\* So it is with every grant of the key's era, and with one on its way.
BackedInv ==
  /\ \A r \in Request, j \in Rules :
       wire[r][j].st = "ran" /\ wire[r][j].ok =>
         Backed(r, Redis, KeyOf(r, j), wire[r][j].at)
  /\ \A g \in granted :
       /\ g.era <= era[g.by][g.key]
       /\ g.era = era[g.by][g.key] => Backed(g.req, g.by, g.key, g.at)


\* What a script finds is what still counts, and no more than the limit.
LEMMA FoundCounts ==
  ASSUME LimitTypeOK, UnitsInv, NEW s \in Store, NEW k \in Key
  PROVE  /\ Found(s, k) \in SUBSET Hit /\ IsFiniteSet(Found(s, k))
         /\ Used(Found(s, k)) \in Nat /\ Used(Found(s, k)) <= Limit[k]
         /\ \A h \in Found(s, k) : h \in log[s][k] /\ now - WindowMs[k] < h.at
         /\ \A h \in log[s][k] : now - WindowMs[k] < h.at => h \in Found(s, k)
<1> USE Catalogue
<1>1. /\ log[s][k] \in SUBSET Hit /\ IsFiniteSet(log[s][k]) /\ Used(log[s][k]) \in Nat
      /\ Used(log[s][k]) <= Limit[k] /\ Limit[k] \in Nat
  BY UnitsOfEntries DEF LimitTypeOK, UnitsInv
<1>2. Found(s, k) \subseteq log[s][k]
  BY DEF Found, Within
<1>3. IsFiniteSet(Found(s, k)) /\ Used(Found(s, k)) <= Used(log[s][k])
  BY <1>1, <1>2, UnitsOfEntries
<1>4. Used(Found(s, k)) \in Nat
  BY <1>3, UnitsOfEntries
<1>5. \A h \in Found(s, k) : now - WindowMs[k] < h.at
  BY <1>1, <1>2 DEF Found, Within, Hit, LimitTypeOK
<1>6. ASSUME NEW h \in log[s][k], now - WindowMs[k] < h.at PROVE h \in Found(s, k)
  <2>1. h.at \in Nat /\ now \in Nat /\ WindowMs[k] \in Nat
    BY <1>1 DEF Hit, LimitTypeOK
  <2>2. s = Redis => now < expires[k] /\ expires[k] \in Nat
    BY <1>6, <2>1 DEF UnitsInv, LimitTypeOK
  <2> QED BY <1>6, <2>1, <2>2 DEF Found, Within
<1> QED BY <1>1, <1>2, <1>3, <1>4, <1>5, <1>6

\* What a store has once request r is through: all that counts, or more recent.
LEMMA LoggedCounts ==
  ASSUME LimitTypeOK, UnitsInv, NEW s \in Store, NEW k \in Key, NEW r \in Request,
         Fits(s, k)
  PROVE  /\ Logged(s, k, r) \in SUBSET Hit /\ IsFiniteSet(Logged(s, k, r))
         /\ Used(Logged(s, k, r)) <= Limit[k]
         /\ \A h \in Logged(s, k, r) : now - WindowMs[k] < h.at /\ h.at <= now
         /\ \A h \in log[s][k] : now - WindowMs[k] < h.at =>
              \E g \in Logged(s, k, r) : g.req = h.req /\ h.at <= g.at
         /\ \E h \in Logged(s, k, r) : h.req = r /\ h.at = now
<1> USE Catalogue
<1> DEFINE old == {h \in Found(s, k) : h.req # r}
           hit == [req |-> r, at |-> now]
<1>1. Logged(s, k, r) = old \cup {hit} /\ hit \in Hit /\ hit.req = r /\ hit.at = now
  BY DEF Logged, Hit, LimitTypeOK
<1>2. IsFiniteSet(old) /\ Used(old) \in Nat /\ Used(old) <= Used(Found(s, k))
  BY FoundCounts, UnitsOfEntries
<1>3. /\ IsFiniteSet(old \cup {hit}) /\ Used(old \cup {hit}) \in Nat
      /\ Used(old \cup {hit}) <= Used(old) + Cost
  BY <1>2, UnitsOfEntries
<1>4. Used(Logged(s, k, r)) <= Limit[k]
  BY <1>1, <1>2, <1>3, FoundCounts DEF Fits
<1>5. /\ now \in Nat /\ WindowMs[k] \in Nat \ {0}
      /\ \A h \in log[s][k] : h \in Hit /\ h.at \in Nat /\ h.at <= now
  BY DEF LimitTypeOK, UnitsInv, Hit
<1>6. ASSUME NEW h \in Logged(s, k, r) PROVE now - WindowMs[k] < h.at /\ h.at <= now
  BY <1>1, <1>5, FoundCounts
<1>7. ASSUME NEW h \in log[s][k], now - WindowMs[k] < h.at
      PROVE  \E g \in Logged(s, k, r) : g.req = h.req /\ h.at <= g.at
  <2>1. CASE h.req = r
    BY <1>1, <1>5, <2>1
  <2>2. CASE h.req # r
    BY <1>1, <1>5, <1>7, <2>2, FoundCounts
  <2> QED BY <2>1, <2>2
<1> QED BY <1>1, <1>3, <1>4, <1>6, <1>7, FoundCounts

\* What a refusal leaves is not empty, and ends when its oldest entry leaves.
LEMMA RefusalEnds ==
  ASSUME LimitTypeOK, UnitsInv, NEW s \in Store, NEW k \in Key, ~ Fits(s, k)
  PROVE  LET S == Found(s, k) IN
         /\ Oldest(S) \in Nat /\ \E h \in S : h.at = Oldest(S)
         /\ \A h \in S : Oldest(S) <= h.at
<1>1. Used(Found(s, k)) > 0
  BY FoundCounts, Catalogue DEF Fits
<1> QED BY <1>1, FoundCounts, UnitsOfEntries, OldestIsThere

\* What one script does to the log it runs on.
LEMMA ConsumeCounts ==
  ASSUME LimitTypeOK, UnitsInv, NEW s \in Store, NEW k \in Key, NEW r \in Request,
         Consume(s, k, r)
  PROVE  /\ log' \in [Store -> [Key -> SUBSET Hit]]
         /\ promise' \in [Store -> [Key -> Nat \cup {Never}]]
         /\ \A t \in Store, j \in Key : t # s \/ j # k =>
              log'[t][j] = log[t][j] /\ promise'[t][j] = promise[t][j]
         /\ IsFiniteSet(log'[s][k]) /\ Used(log'[s][k]) <= Limit[k]
         /\ \A h \in log'[s][k] : now - WindowMs[k] < h.at /\ h.at <= now
         /\ \A h \in log[s][k] : now - WindowMs[k] < h.at =>
              \E g \in log'[s][k] : g.req = h.req /\ h.at <= g.at
         /\ IF Fits(s, k) THEN /\ log'[s][k] = Logged(s, k, r)
                               /\ promise'[s][k] = Never
            ELSE /\ log'[s][k] = Found(s, k)
                 /\ promise'[s][k] = Oldest(Found(s, k)) + WindowMs[k]
<1> USE Catalogue DEF LimitTypeOK
<1>1. CASE Fits(s, k)
  <2> DEFINE L == Logged(s, k, r)
  <2>1. /\ log' = [log EXCEPT ![s] = [@ EXCEPT ![k] = L]]
        /\ promise' = [promise EXCEPT ![s] = [@ EXCEPT ![k] = Never]]
    BY <1>1 DEF Consume
  <2>2. L \in SUBSET Hit
    BY <1>1, LoggedCounts
  <2> HIDE DEF L
  <2>3. /\ log' \in [Store -> [Key -> SUBSET Hit]]
        /\ promise' \in [Store -> [Key -> Nat \cup {Never}]]
        /\ \A t \in Store, j \in Key : t # s \/ j # k =>
             log'[t][j] = log[t][j] /\ promise'[t][j] = promise[t][j]
        /\ log'[s][k] = L /\ promise'[s][k] = Never
    BY <2>1, <2>2
  <2> QED BY <1>1, <2>3, LoggedCounts DEF L
<1>2. CASE ~ Fits(s, k)
  <2> DEFINE L == Found(s, k)
             p == Oldest(Found(s, k)) + WindowMs[k]
  <2>1. /\ log' = [log EXCEPT ![s] = [@ EXCEPT ![k] = L]]
        /\ promise' = [promise EXCEPT ![s] = [@ EXCEPT ![k] = p]]
    BY <1>2 DEF Consume
  <2>2. L \in SUBSET Hit /\ p \in Nat
    BY <1>2, FoundCounts, RefusalEnds
  <2>f. \A h \in L : h \in log[s][k] /\ now - WindowMs[k] < h.at
    BY FoundCounts
  <2>g. \A h \in log[s][k] : now - WindowMs[k] < h.at => h \in L
    BY FoundCounts
  <2>h. IsFiniteSet(L) /\ Used(L) <= Limit[k]
    BY FoundCounts
  <2>i. \A h \in log[s][k] : h.at \in Nat /\ h.at <= now
    BY DEF UnitsInv, Hit
  <2>j. L = Found(s, k) /\ p = Oldest(Found(s, k)) + WindowMs[k]
    OBVIOUS
  <2> HIDE DEF L, p
  <2>3. /\ log' \in [Store -> [Key -> SUBSET Hit]]
        /\ promise' \in [Store -> [Key -> Nat \cup {Never}]]
        /\ \A t \in Store, j \in Key : t # s \/ j # k =>
             log'[t][j] = log[t][j] /\ promise'[t][j] = promise[t][j]
        /\ log'[s][k] = L /\ promise'[s][k] = p
    BY <2>1, <2>2
  <2> QED BY <1>2, <2>3, <2>f, <2>g, <2>h, <2>i, <2>j
<1> QED BY <1>1, <1>2

\* Key k of process i, for which `map' was to be written, when `key' was granted.
Written(i, k, key, map) ==
  /\ log'[i][k] \in {map, {}} /\ (log'[i][k] # {} => k \in tracked'[i])
  /\ era'[i][k] \in {era[i][k], era[i][k] + 1}
  /\ era'[i][k] = era[i][k] =>
       \A h \in map : now - WindowMs[k] < h.at => h \in log'[i][k]
  /\ promise'[i][k] # Never => /\ promise'[i][k] = promise[i][k] /\ k # key
                               /\ era'[i][k] = era[i][k]

\* What a sweep forgets that still counts is of a new era.
LEMMA SweepCounts ==
  ASSUME LimitTypeOK, UnitsInv, NEW i \in Instance, NEW key \in Key,
         NEW map \in [Key -> SUBSET Hit], Sweep(i, key, map),
         \A k \in Key \ {key} : map[k] = log[i][k]
  PROVE  /\ log' \in [Store -> [Key -> SUBSET Hit]]
         /\ tracked' \in [Instance -> SUBSET Key]
         /\ era' \in [Store -> [Key -> Nat]]
         /\ promise' \in [Store -> [Key -> Nat \cup {Never}]]
         /\ \A t \in Store \ {i} : /\ log'[t] = log[t] /\ era'[t] = era[t]
                                   /\ promise'[t] = promise[t]
         /\ \A t \in Instance \ {i} : tracked'[t] = tracked[t]
         /\ \A k \in Key : Written(i, k, key, map[k])
<1> USE Catalogue DEF LimitTypeOK
<1> DEFINE keeps == {k \in tracked[i] \cup {key} : \E h \in map[k] : h.at > now - Horizon}
<1>1. PICK gone \in SUBSET keeps :
        /\ log' = [log EXCEPT ![i] = [k \in Key |-> IF k \in keeps \ gone THEN map[k] ELSE {}]]
        /\ tracked' = [tracked EXCEPT ![i] = keeps \ gone]
        /\ era' = [era EXCEPT ![i] = [k \in Key |-> IF k \in gone THEN @[k] + 1 ELSE @[k]]]
        /\ promise' = [promise EXCEPT ![i] =
                         [k \in Key |-> IF k \in gone \cup {key} THEN Never ELSE @[k]]]
  BY DEF Sweep
<1>2. i \in Store /\ keeps \subseteq Key
  BY DEF Store
<1>3. ASSUME NEW k \in Key, k \notin keeps, NEW h \in map[k], now - WindowMs[k] < h.at
      PROVE  FALSE
  <2>1. h.at \in Nat /\ now - Horizon < h.at
    BY <1>3 DEF Hit
  <2>2. k \in tracked[i] \cup {key}
    BY <1>3 DEF UnitsInv
  <2> QED BY <1>3, <2>1, <2>2
<1> HIDE DEF keeps
<1>4. /\ \A t \in Store \ {i} : /\ log'[t] = log[t] /\ era'[t] = era[t]
                                /\ promise'[t] = promise[t]
      /\ \A t \in Instance \ {i} : tracked'[t] = tracked[t]
      /\ tracked'[i] = keeps \ gone
      /\ \A k \in Key :
           /\ log'[i][k] = IF k \in keeps \ gone THEN map[k] ELSE {}
           /\ era'[i][k] = IF k \in gone THEN era[i][k] + 1 ELSE era[i][k]
           /\ promise'[i][k] = IF k \in gone \cup {key} THEN Never ELSE promise[i][k]
  BY <1>1, <1>2
<1>5. log' \in [Store -> [Key -> SUBSET Hit]] /\ tracked' \in [Instance -> SUBSET Key]
  BY <1>1, <1>2
<1>6. /\ era' \in [Store -> [Key -> Nat]]
      /\ promise' \in [Store -> [Key -> Nat \cup {Never}]]
  BY <1>1, <1>2
<1>7. ASSUME NEW k \in Key
      PROVE  Written(i, k, key, map[k])
  <2>1. era[i][k] \in Nat
    BY <1>2
  <2> QED BY <1>3, <1>4, <2>1 DEF Written
<1> QED BY <1>4, <1>5, <1>6, <1>7

\* The key a request is checked against.
LEMMA KeyOfRequest ==
  ASSUME LimitTypeOK, PlacesInv, NEW r \in Request, NEW j \in Rules, ~ At(r, "new")
  PROVE  KeyOf(r, j) \in Key /\ (KeyOf(r, j) = Ip <=> j = 2)
BY StoresDiffer DEF PlacesInv, KeyOf, Key, Rules

\* Checks, commands, counters and histories keep their types.
LEMMA LimitTypeStep ==
  LimitTypeOK /\ PlacesInv /\ UnitsInv /\ [LimitNext]_limitVars => LimitTypeOK'
<1> SUFFICES ASSUME LimitTypeOK, PlacesInv, UnitsInv, [LimitNext]_limitVars
             PROVE  LimitTypeOK'
  OBVIOUS
<1> USE DEF LimitTypeOK, stores, marks
<1>a. \A r \in Request : check[r].on \in Instance => check[r].on \in Store
  BY DEF Store
<1>b. \A p \in Progress, q \in Place : [p EXCEPT !.at = q] \in Progress
  BY DEF Progress
<1>g. ASSUME NEW r \in Request, NEW q \in Place, Goes(r, q) PROVE check' \in [Request -> Progress]
  BY <1>b, <1>g DEF Goes
<1>c. /\ Quiet \in Command /\ [Quiet EXCEPT !.st = "sent"] \in Command
  BY DEF Quiet, Command
<1>d. ASSUME NEW r \in Request, Passes(r) PROVE check' \in [Request -> Progress]
  <2>1. \A p \in Progress : /\ [p EXCEPT !.at = "allowed"] \in Progress
                            /\ [p EXCEPT !.at = "ask", !.rule = 2] \in Progress
    BY DEF Progress, Place, Rules
  <2> QED BY <1>d, <2>1 DEF Passes
<1>e. ASSUME NEW r \in Request, NEW k \in Key, NEW s \in Store, NEW t \in Nat,
             Grants(r, k, s, t)
      PROVE  granted' \subseteq Grant
  BY <1>e DEF Grants, Grant
<1>1. CASE UNCHANGED limitVars
  BY <1>1 DEF limitVars
<1>2. ASSUME NEW r \in Request, Arrive(r) PROVE LimitTypeOK'
  BY <1>2 DEF Arrive, Progress, Place
<1>3. ASSUME NEW r \in Request, Ask(r) PROVE LimitTypeOK'
  <2>1. check[r].rule \in Rules /\ {"wait", "local"} \subseteq Place
    BY DEF Progress, Place
  <2>2. check' \in [Request -> Progress]
    BY <1>3, <1>g, <2>1 DEF Ask
  <2>3. wire' \in [Request -> [Rules -> Command]]
    <3>1. CASE link[check[r].on] = "ready"
      <4> DEFINE j == check[r].rule
                 c == [Quiet EXCEPT !.st = "sent"]
      <4>1. wire' = [wire EXCEPT ![r] = [@ EXCEPT ![j] = c]] /\ c \in Command /\ j \in Rules
        BY <1>3, <1>c, <2>1, <3>1 DEF Ask
      <4> HIDE DEF c, j
      <4> QED BY <4>1
    <3>2. CASE link[check[r].on] # "ready"
      BY <1>3, <3>2 DEF Ask
    <3> QED BY <3>1, <3>2
  <2> QED BY <1>3, <2>2, <2>3 DEF Ask
<1>4. ASSUME NEW r \in Request, NEW j \in Rules, Execute(r, j) PROVE LimitTypeOK'
  <2> DEFINE k == KeyOf(r, j)
  <2>1. k \in Key /\ Redis \in Store
    BY <1>4, KeyOfRequest DEF Execute, PlacesInv, At, Store
  <2>2. /\ log' \in [Store -> [Key -> SUBSET Hit]]
        /\ promise' \in [Store -> [Key -> Nat \cup {Never}]]
    BY <1>4, <2>1, ConsumeCounts DEF Execute
  <2>3. now + WindowMs[k] \in Nat
    BY <2>1, Catalogue
  <2>4. [st |-> "ran", ok |-> Fits(Redis, k), at |-> now] \in Command
    BY DEF Command, Fits
  <2> HIDE DEF k
  <2> QED BY <1>4, <1>c, <2>1, <2>2, <2>3, <2>4 DEF Execute, k
<1>5. ASSUME NEW r \in Request, Answer(r) PROVE LimitTypeOK'
  <2> DEFINE j == check[r].rule
  <2>1. j \in Rules /\ wire[r][j].at \in Nat /\ Redis \in Store /\ "denied" \in Place
    BY DEF Progress, Command, Place, Store
  <2>2. KeyOf(r, j) \in Key
    BY <1>5, <2>1, KeyOfRequest DEF Answer, At
  <2>3. check' \in [Request -> Progress]
    BY <1>5, <1>g, <1>d, <2>1 DEF Answer
  <2>4. granted' \subseteq Grant
    BY <1>5, <1>e, <2>1, <2>2 DEF Answer
  <2> QED BY <1>5, <1>c, <2>1, <2>3, <2>4 DEF Answer
<1>6. ASSUME NEW r \in Request, GiveUp(r) PROVE LimitTypeOK'
  <2>1. check[r].rule \in Rules /\ "local" \in Place
    BY DEF Progress, Place
  <2>2. check' \in [Request -> Progress]
    BY <1>6, <1>g, <2>1 DEF GiveUp
  <2>3. wire' \in [Request -> [Rules -> Command]]
    <3> DEFINE j == check[r].rule
               c == IF wire[r][j].st = "sent" THEN wire[r][j] ELSE Quiet
    <3>1. wire' = [wire EXCEPT ![r] = [@ EXCEPT ![j] = c]]
      BY <1>6 DEF GiveUp, At, Goes
    <3>2. c \in Command /\ j \in Rules
      BY <1>c, <2>1
    <3> HIDE DEF c, j
    <3> QED BY <3>1, <3>2
  <2> QED BY <1>6, <2>2, <2>3 DEF GiveUp
<1>7. ASSUME NEW i \in Instance, LinkDrops(i) PROVE LimitTypeOK'
  <2>1. \A c \in Command : [c EXCEPT !.st = "lost"] \in Command
    BY DEF Command
  <2> QED BY <1>7, <2>1 DEF LinkDrops
<1>8. ASSUME NEW i \in Instance, LinkReady(i) PROVE LimitTypeOK'
  BY <1>8 DEF LinkReady
<1>9. ASSUME NEW r \in Request, Resend(r) PROVE LimitTypeOK'
  <2>1. check[r].rule \in Rules
    BY DEF Progress
  <2> QED BY <1>9, <1>c, <2>1 DEF Resend
<1>10. ASSUME NEW r \in Request, FallbackGrants(r) PROVE LimitTypeOK'
  <2> DEFINE i == check[r].on
             k == KeyOf(r, check[r].rule)
             map == [log[i] EXCEPT ![k] = Logged(i, k, r)]
  <2>1. /\ i \in Instance /\ k \in Key /\ i \in Store /\ now \in Nat
    BY <1>10, <1>a, KeyOfRequest DEF FallbackGrants, PlacesInv, At, Progress
  <2>2. map \in [Key -> SUBSET Hit] /\ \A q \in Key \ {k} : map[q] = log[i][q]
    BY <1>10, <2>1, LoggedCounts DEF FallbackGrants
  <2>3. check' \in [Request -> Progress] /\ granted' \subseteq Grant
    BY <1>10, <1>d, <1>e, <2>1 DEF FallbackGrants
  <2>4. /\ log' \in [Store -> [Key -> SUBSET Hit]]
        /\ promise' \in [Store -> [Key -> Nat \cup {Never}]]
        /\ era' \in [Store -> [Key -> Nat]]
        /\ tracked' \in [Instance -> SUBSET Key] /\ writes' \in [Instance -> Nat]
    <3>1. CASE writes[i] + 1 < SweepInterval
      <4>1. Consume(i, k, r) /\ tracked' = [tracked EXCEPT ![i] = @ \cup {k}]
            /\ writes' = [writes EXCEPT ![i] = @ + 1] /\ era' = era
        BY <1>10, <3>1 DEF FallbackGrants
      <4> HIDE DEF i, k
      <4> QED BY <2>1, <4>1, ConsumeCounts
    <3>2. CASE ~ (writes[i] + 1 < SweepInterval)
      <4>1. Sweep(i, k, map) /\ writes' = [writes EXCEPT ![i] = 0]
        BY <1>10, <3>2 DEF FallbackGrants
      <4> HIDE DEF i, k, map
      <4> QED BY <2>1, <2>2, <4>1, SweepCounts
    <3> QED BY <3>1, <3>2
  <2> QED BY <1>10, <2>3, <2>4 DEF FallbackGrants
<1>11. ASSUME NEW r \in Request, FallbackRefuses(r) PROVE LimitTypeOK'
  <2> DEFINE i == check[r].on
             k == KeyOf(r, check[r].rule)
  <2>1. i \in Store /\ k \in Key /\ "denied" \in Place
    BY <1>11, <1>a, KeyOfRequest DEF FallbackRefuses, PlacesInv, At, Progress, Place
  <2> QED BY <1>11, <1>g, <2>1, ConsumeCounts DEF FallbackRefuses
<1>12. ASSUME NEW i \in Instance, InstanceRestarts(i) PROVE LimitTypeOK'
  <2>1. i \in Store /\ "gone" \in Place
    BY DEF Store, Place
  <2>2. check' \in [Request -> Progress]
    BY <1>12, <1>b, <2>1 DEF InstanceRestarts
  <2> QED BY <1>12, <2>1, <2>2 DEF InstanceRestarts
<1>13. CASE ClockTicks
  BY <1>13 DEF ClockTicks
<1> QED BY <1>1, <1>2, <1>3, <1>4, <1>5, <1>6, <1>7, <1>8, <1>9, <1>10, <1>11, <1>12,
           <1>13 DEF LimitNext, Handles

\* A request keeps its process and its subject, and never goes back.
LEMMA RequestsGoOn ==
  ASSUME LimitTypeOK, [LimitNext]_limitVars, NEW q \in Request, ~ At(q, "new")
  PROVE  /\ check'[q].at # "new"
         /\ check'[q].on = check[q].on /\ check'[q].who = check[q].who
         /\ At(q, "allowed") => check'[q].at = "allowed"
         /\ check[q].rule = 2 => check'[q].rule = 2
<1> USE DEF LimitTypeOK, Progress, At
<1>1. CASE check' = check
  BY <1>1
<1>2. ASSUME NEW r \in Request, Arrive(r) PROVE check'[q] = check[q]
  BY <1>2 DEF Arrive
<1>3. ASSUME NEW r \in Request, NEW p \in {"wait", "local", "denied"},
             Goes(r, p), ~ At(r, "allowed")
      PROVE  /\ check'[q].at # "new" /\ (At(q, "allowed") => check'[q].at = "allowed")
             /\ check'[q].on = check[q].on /\ check'[q].who = check[q].who
             /\ check'[q].rule = check[q].rule
  BY <1>3 DEF Goes
<1>4. ASSUME NEW r \in Request, Passes(r), ~ At(r, "allowed")
      PROVE  /\ check'[q].at # "new" /\ (At(q, "allowed") => check'[q].at = "allowed")
             /\ check'[q].on = check[q].on /\ check'[q].who = check[q].who
             /\ check[q].rule = 2 => check'[q].rule = 2
  BY <1>4 DEF Passes
<1>5. ASSUME NEW i \in Instance, InstanceRestarts(i)
      PROVE  /\ check'[q].at # "new" /\ (At(q, "allowed") => check'[q].at = "allowed")
             /\ check'[q].on = check[q].on /\ check'[q].who = check[q].who
             /\ check'[q].rule = check[q].rule
  BY <1>5 DEF InstanceRestarts
<1>6. ASSUME NEW r \in Request,
             Ask(r) \/ Answer(r) \/ GiveUp(r) \/ FallbackGrants(r) \/ FallbackRefuses(r)
      PROVE  /\ ~ At(r, "allowed")
             /\ Passes(r) \/ \E p \in {"wait", "local", "denied"} : Goes(r, p)
  BY <1>6 DEF Ask, Answer, GiveUp, FallbackGrants, FallbackRefuses
<1>7. ASSUME \/ UNCHANGED limitVars \/ ClockTicks
             \/ \E i \in Instance : LinkDrops(i) \/ LinkReady(i)
             \/ \E r \in Request : Resend(r)
             \/ \E r \in Request, j \in Rules : Execute(r, j)
      PROVE  check' = check
  BY <1>7 DEF limitVars, ClockTicks, LinkDrops, LinkReady, Resend, Execute
<1> QED BY <1>1, <1>2, <1>3, <1>4, <1>5, <1>6, <1>7 DEF LimitNext, Handles

\* What is granted is granted where the request is, and once.
LEMMA GrantsOnce ==
  ASSUME LimitTypeOK, PlacesInv, LimitTypeOK', [LimitNext]_limitVars,
         NEW r \in Request, NEW s \in Store, NEW t \in Nat,
         ~ At(r, "new"), ~ At(r, "allowed"), Passes(r),
         Grants(r, KeyOf(r, check[r].rule), s, t)
  PROVE  /\ \A g \in granted' :
              /\ check'[g.req].at # "new"
              /\ IF g.key = Ip THEN check'[g.req].at = "allowed"
                 ELSE check'[g.req].rule = 2
         /\ \A f, g \in granted' : f.req = g.req /\ f.key = g.key => f = g
<1> DEFINE k == KeyOf(r, check[r].rule)
           new == [req |-> r, key |-> k, by |-> s, era |-> era[s][k], at |-> t]
<1>1. check[r].rule \in Rules /\ granted \subseteq Grant /\ check[r] \in Progress
  BY DEF LimitTypeOK, Progress
<1>2. k \in Key /\ (k = Ip <=> check[r].rule = 2)
  BY <1>1, KeyOfRequest
<1>3. granted' = granted \cup {new} /\ new.req = r /\ new.key = k
  BY DEF Grants
<1>4. check'[r].at # "new" /\ IF k = Ip THEN check'[r].at = "allowed" ELSE check'[r].rule = 2
  BY <1>1, <1>2 DEF Passes, LimitTypeOK, Progress, Rules
<1>5. \A g \in granted : g.req # r \/ g.key # k
  BY <1>1, <1>2 DEF PlacesInv, Rules
<1>6. \A g \in granted : g.req \in Request
  BY <1>1 DEF Grant
<1>7. \A g \in granted :
        /\ check'[g.req].at # "new"
        /\ IF g.key = Ip THEN check'[g.req].at = "allowed" ELSE check'[g.req].rule = 2
  BY <1>6, RequestsGoOn DEF PlacesInv
<1> HIDE DEF k, new
<1>8. \A f, g \in granted : f.req = g.req /\ f.key = g.key => f = g
  BY DEF PlacesInv
<1> QED BY <1>3, <1>4, <1>5, <1>7, <1>8

\* Requests, commands and grants go on agreeing.
LEMMA PlacesStep ==
  LimitTypeOK /\ PlacesInv /\ UnitsInv /\ [LimitNext]_limitVars => PlacesInv'
<1> SUFFICES ASSUME LimitTypeOK, PlacesInv, UnitsInv, [LimitNext]_limitVars
             PROVE  PlacesInv'
  OBVIOUS
<1>t. LimitTypeOK'
  BY LimitTypeStep
<1>1. ASSUME NEW q \in Request
      PROVE  check'[q].at # "new" => check'[q].on \in Instance /\ check'[q].who \in Subject
  <2>1. CASE ~ At(q, "new")
    BY <2>1, RequestsGoOn DEF PlacesInv
  <2>2. CASE At(q, "new") /\ Arrive(q)
    BY <2>2 DEF Arrive, LimitTypeOK
  <2>3. CASE At(q, "new") /\ ~ Arrive(q)
    <3>1. check'[q] = check[q]
      BY <2>3 DEF LimitNext, Handles, limitVars, stores, marks, Arrive, Ask, Answer, GiveUp, FallbackGrants,
         FallbackRefuses, Resend, Execute, LinkDrops, LinkReady, InstanceRestarts,
         ClockTicks, At, Goes, Passes, LimitTypeOK
    <3> QED BY <2>3, <3>1 DEF At
  <2> QED BY <2>1, <2>2, <2>3
<1>2. ASSUME NEW q \in Request, check'[q].at = "new"
      PROVE  \A j \in Rules : wire'[q][j].st = "idle"
  <2>1. At(q, "new") /\ \A j \in Rules : wire[q][j].st = "idle"
    BY <1>2, RequestsGoOn DEF PlacesInv
  <2>2. CASE \E i \in Instance : LinkDrops(i)
    BY <2>1, <2>2 DEF LinkDrops, LimitTypeOK
  <2>3. ASSUME NEW r \in Request, NEW j \in Rules, Execute(r, j) PROVE wire'[q] = wire[q]
    BY <2>1, <2>3 DEF Execute, LimitTypeOK
  <2>4. ASSUME NEW r \in Request,
               Ask(r) \/ Answer(r) \/ GiveUp(r) \/ Resend(r) PROVE wire'[q] = wire[q]
    <3>1. r # q
      BY <2>1, <2>4 DEF Ask, Answer, GiveUp, Resend, At
    <3> QED BY <2>4, <3>1 DEF Ask, Answer, GiveUp, Resend, LimitTypeOK
  <2>5. ASSUME \/ UNCHANGED limitVars \/ ClockTicks
               \/ \E i \in Instance : LinkReady(i) \/ InstanceRestarts(i)
               \/ \E r \in Request : Arrive(r) \/ FallbackGrants(r) \/ FallbackRefuses(r)
        PROVE  wire' = wire
    BY <2>5 DEF limitVars, ClockTicks, LinkReady, InstanceRestarts, Arrive, FallbackGrants,
       FallbackRefuses
  <2> QED BY <2>1, <2>2, <2>3, <2>4, <2>5 DEF LimitNext, Handles
<1>3. CASE granted' = granted
  <2>1. \A g \in granted : g.req \in Request
    BY DEF LimitTypeOK, Grant
  <2>2. \A g \in granted :
          /\ check'[g.req].at # "new"
          /\ IF g.key = Ip THEN check'[g.req].at = "allowed" ELSE check'[g.req].rule = 2
    BY <2>1, RequestsGoOn DEF PlacesInv
  <2> QED BY <1>1, <1>2, <1>3, <2>2 DEF PlacesInv, At
<1>4. ASSUME NEW r \in Request, FallbackGrants(r) PROVE PlacesInv'
  <2>1. /\ ~ At(r, "new") /\ ~ At(r, "allowed") /\ Passes(r) /\ now \in Nat
        /\ Grants(r, KeyOf(r, check[r].rule), check[r].on, now)
    BY <1>4 DEF FallbackGrants, At, LimitTypeOK
  <2>2. check[r].on \in Store
    BY <2>1 DEF PlacesInv, Store
  <2> QED BY <1>t, <1>1, <1>2, <2>1, <2>2, GrantsOnce DEF PlacesInv, At
<1>5. ASSUME NEW r \in Request, Answer(r), granted' # granted PROVE PlacesInv'
  <2> DEFINE t == wire[r][check[r].rule].at
  <2>1. t \in Nat /\ Redis \in Store
    BY DEF LimitTypeOK, Progress, Command, Store
  <2>2. /\ ~ At(r, "new") /\ ~ At(r, "allowed") /\ Passes(r)
        /\ Grants(r, KeyOf(r, check[r].rule), Redis, t)
    BY <1>5 DEF Answer, At
  <2> HIDE DEF t
  <2> QED BY <1>t, <1>1, <1>2, <2>1, <2>2, GrantsOnce DEF PlacesInv, At
<1> QED BY <1>3, <1>4, <1>5 DEF LimitNext, Handles, limitVars, stores, marks, Arrive, Ask, GiveUp,
           FallbackRefuses, Resend, Execute, LinkDrops, LinkReady, InstanceRestarts, ClockTicks

\* The steps that leave every store as it is.
Idles == /\ UNCHANGED <<stores, era>> /\ now' \in {now, now + 1}
         /\ promise' = promise

\* Every step is one of these, a script, the fallback, or a restart.
LEMMA StoresChange ==
  ASSUME LimitTypeOK, PlacesInv, [LimitNext]_limitVars
  PROVE  \/ Idles
         \/ \E r \in Request, j \in Rules :
              /\ Execute(r, j) /\ ~ At(r, "new") /\ KeyOf(r, j) \in Key
         \/ \E r \in Request :
              /\ FallbackGrants(r) \/ FallbackRefuses(r)
              /\ check[r].on \in Instance /\ check[r].rule \in Rules
              /\ KeyOf(r, check[r].rule) \in Key
         \/ \E i \in Instance : InstanceRestarts(i)
<1>1. ASSUME NEW r \in Request, NEW j \in Rules, Execute(r, j)
      PROVE  ~ At(r, "new") /\ KeyOf(r, j) \in Key
  <2>1. ~ At(r, "new")
    BY <1>1 DEF Execute, PlacesInv
  <2> QED BY <2>1, KeyOfRequest
<1>2. ASSUME NEW r \in Request, FallbackGrants(r) \/ FallbackRefuses(r)
      PROVE  /\ check[r].on \in Instance /\ check[r].rule \in Rules
             /\ KeyOf(r, check[r].rule) \in Key
  <2>1. ~ At(r, "new") /\ check[r].rule \in Rules
    BY <1>2 DEF FallbackGrants, FallbackRefuses, At, LimitTypeOK, Progress
  <2> QED BY <2>1, KeyOfRequest DEF PlacesInv
<1>3. ASSUME \/ UNCHANGED limitVars \/ ClockTicks
             \/ \E i \in Instance : LinkDrops(i) \/ LinkReady(i)
             \/ \E r \in Request : Arrive(r) \/ Ask(r) \/ Answer(r) \/ GiveUp(r) \/ Resend(r)
      PROVE  Idles
  BY <1>3 DEF Idles, limitVars, marks, ClockTicks, LinkDrops, LinkReady, Arrive, Ask,
     Answer, GiveUp, Resend
<1> QED BY <1>1, <1>2, <1>3 DEF LimitNext, Handles

\* A process's log, its tracked keys and its histories after a grant of its own.
LEMMA FallbackCounts ==
  ASSUME LimitTypeOK, UnitsInv, NEW r \in Request, FallbackGrants(r),
         NEW i \in Instance, i = check[r].on,
         NEW key \in Key, key = KeyOf(r, check[r].rule)
  PROVE  /\ \A t \in Store \ {i} : log'[t] = log[t] /\ era'[t] = era[t]
                                   /\ promise'[t] = promise[t]
         /\ \A t \in Instance \ {i} : tracked'[t] = tracked[t]
         /\ \A k \in Key : Written(i, k, key, IF k = key THEN Logged(i, key, r) ELSE log[i][k])
<1> DEFINE new == Logged(i, key, r)
           map == [log[i] EXCEPT ![key] = new]
<1>0. i \in Store /\ Fits(i, key)
  BY DEF FallbackGrants, Store
<1>1. new \in SUBSET Hit
  BY <1>0, LoggedCounts
<1>2. /\ map \in [Key -> SUBSET Hit] /\ map[key] = new
      /\ \A k \in Key \ {key} : map[k] = log[i][k]
  BY <1>0, <1>1 DEF LimitTypeOK
<1>3. CASE writes[i] + 1 < SweepInterval
  <2>1. Consume(i, key, r) /\ tracked' = [tracked EXCEPT ![i] = @ \cup {key}] /\ era' = era
    BY <1>3 DEF FallbackGrants
  <2>2. /\ \A t \in Store, j \in Key : t # i \/ j # key =>
             log'[t][j] = log[t][j] /\ promise'[t][j] = promise[t][j]
        /\ log'[i][key] = new /\ promise'[i][key] = Never
        /\ log' \in [Store -> [Key -> SUBSET Hit]]
        /\ promise' \in [Store -> [Key -> Nat \cup {Never}]]
    BY <1>0, <2>1, ConsumeCounts
  <2>3. \A t \in Store \ {i} : log'[t] = log[t] /\ promise'[t] = promise[t]
    <3> TAKE t \in Store \ {i}
    <3>1. log'[t] \in [Key -> SUBSET Hit] /\ log[t] \in [Key -> SUBSET Hit]
      BY <2>2 DEF LimitTypeOK
    <3>2. promise'[t] \in [Key -> Nat \cup {Never}] /\ promise[t] \in [Key -> Nat \cup {Never}]
      BY <2>2 DEF LimitTypeOK
    <3> QED BY <2>2, <3>1, <3>2
  <2>4. \A k \in Key : log'[i][k] # {} => k \in tracked'[i]
    BY <1>0, <2>1, <2>2 DEF UnitsInv, LimitTypeOK
  <2> HIDE DEF new
  <2> QED BY <1>0, <2>1, <2>2, <2>3, <2>4 DEF LimitTypeOK, Written, new
<1>4. CASE ~ (writes[i] + 1 < SweepInterval)
  <2>1. Sweep(i, key, map)
    BY <1>4 DEF FallbackGrants
  <2> HIDE DEF map, new
  <2>2. /\ \A t \in Store \ {i} : log'[t] = log[t] /\ era'[t] = era[t]
                                  /\ promise'[t] = promise[t]
        /\ \A t \in Instance \ {i} : tracked'[t] = tracked[t]
        /\ \A k \in Key : Written(i, k, key, map[k])
    BY <1>2, <2>1, SweepCounts
  <2>3. \A k \in Key : map[k] = IF k = key THEN new ELSE log[i][k]
    BY <1>2
  <2> QED BY <2>2, <2>3 DEF new
<1> QED BY <1>3, <1>4

\* No step puts more into a store than the limit, or lets what counts expire.
LEMMA UnitsStep ==
  LimitTypeOK /\ PlacesInv /\ UnitsInv /\ [LimitNext]_limitVars => UnitsInv'
<1> SUFFICES ASSUME LimitTypeOK, PlacesInv, UnitsInv, [LimitNext]_limitVars
             PROVE  UnitsInv'
  OBVIOUS
<1>s. Redis \in Store /\ Redis \notin Instance /\ Instance \subseteq Store
  BY StoresDiffer DEF Store
<1>u. \A s \in Store, k \in Key : Used(log[s][k])' = Used(log'[s][k])
  BY DEF Used
<1>h. \A s \in Store, k \in Key : \A h \in log[s][k] : h.at \in Nat
  BY DEF LimitTypeOK, Hit
<1>1. CASE Idles
  <2>1. log' = log /\ expires' = expires /\ tracked' = tracked /\ now <= now'
    BY <1>1 DEF Idles, stores, LimitTypeOK
  <2> QED BY <1>h, <1>1, <2>1 DEF UnitsInv, Idles, LimitTypeOK, Used
<1>2. ASSUME NEW r \in Request, NEW j \in Rules, Execute(r, j), KeyOf(r, j) \in Key
      PROVE  UnitsInv'
  <2> DEFINE k == KeyOf(r, j)
  <2>1. /\ Consume(Redis, k, r) /\ UNCHANGED <<now, tracked>>
        /\ expires' = [expires EXCEPT ![k] = now + WindowMs[k]]
    BY <1>2 DEF Execute
  <2> HIDE DEF k
  <2>2. k \in Key
    BY <1>2 DEF k
  <2>3. /\ \A t \in Store, q \in Key : t # Redis \/ q # k => log'[t][q] = log[t][q]
        /\ IsFiniteSet(log'[Redis][k]) /\ Used(log'[Redis][k]) <= Limit[k]
        /\ \A h \in log'[Redis][k] : h.at <= now
        /\ log' \in [Store -> [Key -> SUBSET Hit]]
    BY <1>s, <2>1, <2>2, ConsumeCounts
  <2>4. \A q \in Key : \A h \in log'[Redis][q] : h.at + WindowMs[q] <= expires'[q]
    <3>1. now \in Nat /\ WindowMs[k] \in Nat
      BY <2>2, Catalogue DEF LimitTypeOK
    <3>2. \A h \in log'[Redis][k] : h.at \in Nat
      BY <1>s, <2>2, <2>3 DEF Hit
    <3>3. expires'[k] = now + WindowMs[k] /\ \A q \in Key \ {k} : expires'[q] = expires[q]
      BY <2>1, <2>2 DEF LimitTypeOK
    <3> QED BY <1>s, <2>2, <2>3, <3>1, <3>2, <3>3 DEF UnitsInv
  <2>5. \A s \in Store, q \in Key :
          /\ IsFiniteSet(log'[s][q]) /\ Used(log'[s][q]) <= Limit[q]
          /\ \A h \in log'[s][q] : h.at <= now'
    BY <2>1, <2>3 DEF UnitsInv
  <2> QED BY <1>s, <1>u, <2>1, <2>3, <2>4, <2>5 DEF UnitsInv
<1>3. ASSUME NEW r \in Request, NEW i \in Instance, i = check[r].on,
             NEW k \in Key, k = KeyOf(r, check[r].rule), FallbackGrants(r)
      PROVE  UnitsInv'
  <2>1. /\ \A t \in Store \ {i} : log'[t] = log[t]
        /\ \A t \in Instance \ {i} : tracked'[t] = tracked[t]
        /\ \A q \in Key : /\ \/ log'[i][q] = {}
                             \/ q = k /\ log'[i][q] = Logged(i, k, r)
                             \/ log'[i][q] = log[i][q]
                          /\ log'[i][q] # {} => q \in tracked'[i]
    <3>1. /\ \A t \in Store \ {i} : log'[t] = log[t]
          /\ \A t \in Instance \ {i} : tracked'[t] = tracked[t]
          /\ \A q \in Key : Written(i, q, k, IF q = k THEN Logged(i, k, r) ELSE log[i][q])
      BY <1>3, FallbackCounts
    <3> QED BY <3>1 DEF Written
  <2>2. now' = now /\ expires' = expires /\ Fits(i, k)
    BY <1>3 DEF FallbackGrants
  <2>3. /\ IsFiniteSet(Logged(i, k, r)) /\ Used(Logged(i, k, r)) <= Limit[k]
        /\ \A h \in Logged(i, k, r) : h.at <= now
    BY <1>s, <2>2, LoggedCounts
  <2>4. \A q \in Key : IsFiniteSet({}) /\ Used({}) <= Limit[q]
    <3>1. Used({}) = 0
      BY FS_EmptySet, Catalogue DEF Used
    <3> QED BY <3>1, FS_EmptySet, Catalogue
  <2>5. \A s \in Store, q \in Key :
          /\ IsFiniteSet(log'[s][q]) /\ Used(log'[s][q]) <= Limit[q]
          /\ \A h \in log'[s][q] : h.at <= now'
    <3> TAKE s \in Store, q \in Key
    <3>1. /\ IsFiniteSet(log[s][q]) /\ Used(log[s][q]) <= Limit[q]
          /\ \A h \in log[s][q] : h.at <= now
      BY DEF UnitsInv
    <3>2. CASE s # i
      BY <2>1, <2>2, <3>1, <3>2
    <3>3. CASE s = i
      BY <2>1, <2>2, <2>3, <2>4, <3>1, <3>3
    <3> QED BY <3>2, <3>3
  <2>6. \A q \in Key : \A h \in log'[Redis][q] : h.at + WindowMs[q] <= expires'[q]
    BY <1>s, <2>1, <2>2 DEF UnitsInv
  <2>7. \A t \in Instance, q \in Key : log'[t][q] # {} => q \in tracked'[t]
    BY <1>s, <2>1 DEF UnitsInv
  <2> QED BY <1>u, <2>5, <2>6, <2>7 DEF UnitsInv
<1>4. ASSUME NEW r \in Request, NEW i \in Instance, i = check[r].on,
             NEW k \in Key, k = KeyOf(r, check[r].rule), FallbackRefuses(r)
      PROVE  UnitsInv'
  <2>1. Consume(i, k, r) /\ ~ Fits(i, k) /\ UNCHANGED <<now, expires, tracked>>
    BY <1>4 DEF FallbackRefuses
  <2>2. /\ \A t \in Store, q \in Key : t # i \/ q # k => log'[t][q] = log[t][q]
        /\ IsFiniteSet(log'[i][k]) /\ Used(log'[i][k]) <= Limit[k]
        /\ \A h \in log'[i][k] : h.at <= now
        /\ log'[i][k] = Found(i, k)
    BY <1>s, <2>1, ConsumeCounts
  <2>3. Found(i, k) \subseteq log[i][k]
    BY <1>s, FoundCounts
  <2> QED BY <1>s, <1>u, <2>1, <2>2, <2>3 DEF UnitsInv
<1>5. ASSUME NEW i \in Instance, InstanceRestarts(i) PROVE UnitsInv'
  <2>1. /\ \A t \in Store \ {i} : log'[t] = log[t] /\ \A q \in Key : log'[i][q] = {}
        /\ \A t \in Instance \ {i} : tracked'[t] = tracked[t]
        /\ now' = now /\ expires' = expires
    BY <1>s, <1>5 DEF InstanceRestarts, LimitTypeOK
  <2>2. \A q \in Key : IsFiniteSet({}) /\ Used({}) <= Limit[q]
    <3>1. Used({}) = 0
      BY FS_EmptySet, Catalogue DEF Used
    <3> QED BY <3>1, FS_EmptySet, Catalogue
  <2> QED BY <1>s, <1>u, <2>1, <2>2 DEF UnitsInv
<1> QED BY <1>1, <1>2, <1>3, <1>4, <1>5, StoresChange

\* A store only forgets: eras grow, and Redis's never change.
LEMMA ErasGrow ==
  ASSUME LimitTypeOK, PlacesInv, UnitsInv, [LimitNext]_limitVars,
         NEW s \in Store, NEW k \in Key
  PROVE  era[s][k] \in Nat /\ era'[s][k] >= era[s][k] /\ (s = Redis => era'[s][k] = era[s][k])
<1>s. Redis \notin Instance /\ Instance \subseteq Store /\ era[s][k] \in Nat
  BY StoresDiffer DEF Store, LimitTypeOK
<1>1. ASSUME NEW r \in Request, NEW i \in Instance, i = check[r].on,
             NEW key \in Key, key = KeyOf(r, check[r].rule), FallbackGrants(r)
      PROVE  era'[s][k] >= era[s][k] /\ (s = Redis => era'[s][k] = era[s][k])
  <2>1. /\ \A j \in Store \ {i} : era'[j] = era[j]
        /\ Written(i, k, key, IF k = key THEN Logged(i, key, r) ELSE log[i][k])
    BY <1>1, FallbackCounts
  <2> QED BY <1>s, <2>1 DEF Written
<1>2. ASSUME NEW i \in Instance, InstanceRestarts(i)
      PROVE  era'[s][k] >= era[s][k] /\ (s = Redis => era'[s][k] = era[s][k])
  BY <1>s, <1>2 DEF InstanceRestarts, LimitTypeOK
<1>3. ASSUME \/ Idles \/ \E r \in Request, j \in Rules : Execute(r, j)
             \/ \E r \in Request : FallbackRefuses(r)
      PROVE  era' = era
  BY <1>3 DEF Idles, Execute, FallbackRefuses
<1> QED BY <1>s, <1>1, <1>2, <1>3, StoresChange

\* What a store holds of a request it goes on holding, or it is another era.
LEMMA StaysBacked ==
  ASSUME LimitTypeOK, PlacesInv, UnitsInv, [LimitNext]_limitVars,
         NEW r, NEW s \in Store, NEW k \in Key, NEW t \in Nat, Backed(r, s, k, t)
  PROVE  era'[s][k] = era[s][k] => Backed(r, s, k, t)'
<1>s. Redis \in Store /\ Redis \notin Instance /\ Instance \subseteq Store
  BY StoresDiffer DEF Store
<1>t. now \in Nat /\ WindowMs[k] \in Nat /\ era[s][k] \in Nat
  BY Catalogue DEF LimitTypeOK
<1>h. \A h \in log[s][k] : h.at \in Nat
  BY DEF LimitTypeOK, Hit
<1>1. CASE Idles
  BY <1>t, <1>h, <1>1 DEF Idles, Backed, stores
<1>2. ASSUME NEW i \in Store, NEW key \in Key, NEW q \in Request, Consume(i, key, q),
             now' = now, era' = era
      PROVE  Backed(r, s, k, t)'
  <2>1. CASE s # i \/ k # key
    BY <1>2, <2>1, ConsumeCounts DEF Backed
  <2>2. CASE s = i /\ k = key
    <3>1. ASSUME t > now - WindowMs[k]
          PROVE  \E g \in log'[s][k] : g.req = r /\ g.at >= t
      <4>1. PICK h \in log[s][k] : h.req = r /\ h.at >= t
        BY <3>1 DEF Backed
      <4>2. now - WindowMs[k] < h.at
        BY <1>t, <1>h, <3>1, <4>1
      <4>3. PICK g \in log'[s][k] : g.req = h.req /\ h.at <= g.at
        BY <1>2, <2>2, <4>2, ConsumeCounts
      <4>4. g.at \in Nat /\ h.at \in Nat
        <5>1. log' \in [Store -> [Key -> SUBSET Hit]]
          BY <1>2, ConsumeCounts
        <5> QED BY <1>h, <5>1 DEF Hit
      <4> QED BY <4>1, <4>3, <4>4
    <3> QED BY <1>2, <3>1 DEF Backed
  <2> QED BY <2>1, <2>2
<1>3. ASSUME NEW q \in Request, NEW i \in Instance, i = check[q].on,
             NEW key \in Key, key = KeyOf(q, check[q].rule), FallbackGrants(q)
      PROVE  era'[s][k] = era[s][k] => Backed(r, s, k, t)'
  <2>1. /\ \A j \in Store \ {i} : log'[j] = log[j] /\ era'[j] = era[j]
        /\ Written(i, k, key, IF k = key THEN Logged(i, key, q) ELSE log[i][k])
    BY <1>3, FallbackCounts
  <2>2. now' = now /\ Fits(i, key)
    BY <1>3 DEF FallbackGrants
  <2>3. CASE s # i
    BY <1>t, <2>1, <2>2, <2>3 DEF Backed
  <2>4. CASE s = i
    <3>2. ASSUME era'[s][k] = era[s][k], t > now - WindowMs[k]
          PROVE  \E g \in log'[s][k] : g.req = r /\ g.at >= t
      <4>1. PICK h \in log[s][k] : h.req = r /\ h.at >= t
        BY <3>2 DEF Backed
      <4>2. now - WindowMs[k] < h.at /\ h.at \in Nat
        BY <1>t, <1>h, <3>2, <4>1
      <4>3. CASE k = key
        <5>1. PICK g \in Logged(i, key, q) : g.req = h.req /\ h.at <= g.at
          BY <1>s, <2>2, <2>4, <4>2, <4>3, LoggedCounts
        <5>2. g.at \in Nat
          BY <1>s, <2>2, LoggedCounts DEF Hit
        <5>3. g \in log'[s][k]
          BY <1>t, <2>1, <2>4, <3>2, <4>2, <4>3, <5>1, <5>2 DEF Written
        <5> QED BY <4>1, <4>2, <5>1, <5>2, <5>3
      <4>4. CASE k # key
        BY <2>1, <2>4, <3>2, <4>1, <4>2, <4>4 DEF Written
      <4> QED BY <4>3, <4>4
    <3> QED BY <2>2, <3>2 DEF Backed
  <2> QED BY <2>3, <2>4
<1>4. ASSUME NEW i \in Instance, InstanceRestarts(i)
      PROVE  era'[s][k] = era[s][k] => Backed(r, s, k, t)'
  <2>1. CASE s = i
    BY <1>s, <1>t, <1>4, <2>1 DEF InstanceRestarts, LimitTypeOK
  <2>2. CASE s # i
    BY <1>t, <1>4, <2>2 DEF InstanceRestarts, LimitTypeOK, Backed
  <2> QED BY <2>1, <2>2
<1>5. ASSUME NEW q \in Request, NEW j \in Rules, Execute(q, j), KeyOf(q, j) \in Key
      PROVE  Backed(r, s, k, t)'
  <2>1. Consume(Redis, KeyOf(q, j), q) /\ now' = now /\ era' = era
    BY <1>5 DEF Execute
  <2> QED BY <1>s, <1>2, <1>5, <2>1
<1>6. ASSUME NEW q \in Request, FallbackRefuses(q), check[q].on \in Instance,
             KeyOf(q, check[q].rule) \in Key
      PROVE  Backed(r, s, k, t)'
  <2>1. Consume(check[q].on, KeyOf(q, check[q].rule), q) /\ now' = now /\ era' = era
    BY <1>6 DEF FallbackRefuses
  <2> QED BY <1>s, <1>2, <1>6, <2>1
<1> QED BY <1>1, <1>3, <1>4, <1>5, <1>6, StoresChange

\* Every reply and every grant stays backed.
LEMMA BackedStep ==
  LimitTypeOK /\ PlacesInv /\ UnitsInv /\ BackedInv /\ [LimitNext]_limitVars => BackedInv'
<1> SUFFICES ASSUME LimitTypeOK, PlacesInv, UnitsInv, BackedInv, [LimitNext]_limitVars
             PROVE  BackedInv'
  OBVIOUS
<1>s. Redis \in Store /\ Redis \notin Instance /\ Instance \subseteq Store
  BY StoresDiffer DEF Store
<1>1. ASSUME NEW r \in Request, NEW j \in Rules, wire'[r][j].st = "ran", wire'[r][j].ok
      PROVE  Backed(r, Redis, KeyOf(r, j), wire[r][j].at)'
  <2>1. wire'[r][j] = wire[r][j] \/ Execute(r, j)
    <3>1. CASE \E i \in Instance : LinkDrops(i)
      BY <1>1, <3>1 DEF LinkDrops, LimitTypeOK, Command
    <3>2. ASSUME NEW q \in Request, NEW l \in Rules, Execute(q, l), q # r \/ l # j
          PROVE  wire'[r][j] = wire[r][j]
      BY <3>2 DEF Execute, LimitTypeOK
    <3>3. ASSUME NEW q \in Request, Ask(q) \/ Answer(q) \/ GiveUp(q) \/ Resend(q)
          PROVE  wire'[r][j] = wire[r][j]
      <4>1. check[q].rule \in Rules /\ wire \in [Request -> [Rules -> Command]]
        BY DEF LimitTypeOK, Progress
      <4>2. wire' = wire \/ \E c : /\ wire' = [wire EXCEPT ![q] = [@ EXCEPT ![check[q].rule] = c]]
                                   /\ c = wire[q][check[q].rule] \/ c.st # "ran"
        BY <3>3, <4>1 DEF Ask, Answer, GiveUp, Resend, Quiet
      <4> QED BY <1>1, <4>1, <4>2
    <3>4. ASSUME \/ UNCHANGED limitVars \/ ClockTicks
                 \/ \E i \in Instance : LinkReady(i) \/ InstanceRestarts(i)
                 \/ \E q \in Request : Arrive(q) \/ FallbackGrants(q) \/ FallbackRefuses(q)
          PROVE  wire' = wire
      BY <3>4 DEF limitVars, ClockTicks, LinkReady, InstanceRestarts, Arrive,
         FallbackGrants, FallbackRefuses
    <3> QED BY <3>1, <3>2, <3>3, <3>4 DEF LimitNext, Handles
  <2>2. CASE wire'[r][j] = wire[r][j]
    <3>1. ~ At(r, "new")
      BY <1>1, <2>2 DEF PlacesInv
    <3>2. KeyOf(r, j) \in Key /\ KeyOf(r, j)' = KeyOf(r, j)
      BY <3>1, KeyOfRequest, RequestsGoOn DEF KeyOf
    <3>3. wire[r][j].at \in Nat /\ Backed(r, Redis, KeyOf(r, j), wire[r][j].at)
      BY <1>1, <2>2 DEF BackedInv, LimitTypeOK, Command
    <3> DEFINE k == KeyOf(r, j)
               t == wire[r][j].at
    <3>4. Backed(r, Redis, k, t) /\ k \in Key /\ t \in Nat
      BY <3>2, <3>3
    <3>5. \A key \in Key, at \in Nat : Backed(r, Redis, key, at) => Backed(r, Redis, key, at)'
      BY <1>s, StaysBacked, ErasGrow
    <3> QED BY <2>2, <3>2, <3>4, <3>5 DEF Backed
  <2>3. CASE Execute(r, j)
    <3> DEFINE k == KeyOf(r, j)
    <3>1. ~ At(r, "new")
      BY <2>3 DEF Execute, PlacesInv
    <3>2. k \in Key /\ k' = k
      BY <3>1, KeyOfRequest, RequestsGoOn DEF KeyOf
    <3>3. /\ Consume(Redis, k, r) /\ now' = now /\ now \in Nat
          /\ wire'[r][j].at = now /\ Fits(Redis, k)
      BY <1>1, <2>3 DEF Execute, LimitTypeOK, Quiet
    <3>4. \E h \in log'[Redis][k] : h.req = r /\ h.at = now
      BY <1>s, <3>2, <3>3, ConsumeCounts, LoggedCounts
    <3> QED BY <3>2, <3>3, <3>4 DEF Backed
  <2> QED BY <2>1, <2>2, <2>3
<1>2. ASSUME NEW g \in granted
      PROVE  /\ g.era <= era'[g.by][g.key]
             /\ g.era = era'[g.by][g.key] => Backed(g.req, g.by, g.key, g.at)'
  <2>1. /\ g.by \in Store /\ g.key \in Key /\ g.at \in Nat /\ g.era \in Nat
        /\ era[g.by][g.key] \in Nat
    BY DEF LimitTypeOK, Grant
  <2>2. /\ g.era <= era[g.by][g.key]
        /\ g.era = era[g.by][g.key] => Backed(g.req, g.by, g.key, g.at)
    BY DEF BackedInv
  <2>3. era'[g.by][g.key] \in Nat
    BY <2>1, LimitTypeStep DEF LimitTypeOK
  <2>4. \A q, s, k, t : s \in Store /\ k \in Key /\ t \in Nat /\ Backed(q, s, k, t) =>
          (era'[s][k] = era[s][k] => Backed(q, s, k, t)')
    BY StaysBacked
  <2>5. era'[g.by][g.key] >= era[g.by][g.key]
    BY <2>1, ErasGrow
  <2> QED BY <2>1, <2>2, <2>3, <2>4, <2>5
<1>3. ASSUME NEW r \in Request, FallbackGrants(r), NEW g \in granted' \ granted
      PROVE  /\ g.era <= era'[g.by][g.key]
             /\ g.era = era'[g.by][g.key] => Backed(g.req, g.by, g.key, g.at)'
  <2> DEFINE i == check[r].on
             k == KeyOf(r, check[r].rule)
  <2>0. i \in Instance /\ k \in Key
    <3>1. ~ At(r, "new") /\ check[r].rule \in Rules
      BY <1>3 DEF FallbackGrants, At, LimitTypeOK, Progress
    <3> QED BY <3>1, KeyOfRequest DEF PlacesInv
  <2>1. g = [req |-> r, key |-> k, by |-> i, era |-> era[i][k], at |-> now]
    BY <1>3 DEF FallbackGrants, Grants
  <2>2. Fits(i, k) /\ now' = now /\ now \in Nat /\ WindowMs[k] \in Nat \ {0}
    BY <1>3, <2>0, Catalogue DEF FallbackGrants, LimitTypeOK
  <2>3. Written(i, k, k, IF k = k THEN Logged(i, k, r) ELSE log[i][k])
    BY <1>3, <2>0, FallbackCounts
  <2>4. PICK h \in Logged(i, k, r) : h.req = r /\ h.at = now
    BY <1>s, <2>0, <2>2, LoggedCounts
  <2> HIDE DEF i, k
  <2>5. era[i][k] <= era'[i][k]
    BY <1>s, <2>0, ErasGrow
  <2>6. era[i][k] = era'[i][k] => h \in log'[i][k]
    BY <2>2, <2>3, <2>4 DEF Written
  <2> QED BY <2>1, <2>2, <2>4, <2>5, <2>6 DEF Backed
<1>4. ASSUME NEW r \in Request, Answer(r), NEW g \in granted' \ granted
      PROVE  /\ g.era <= era'[g.by][g.key]
             /\ g.era = era'[g.by][g.key] => Backed(g.req, g.by, g.key, g.at)'
  <2> DEFINE j == check[r].rule
             k == KeyOf(r, j)
  <2>0. j \in Rules /\ k \in Key
    <3>1. ~ At(r, "new") /\ j \in Rules
      BY <1>4 DEF Answer, At, LimitTypeOK, Progress
    <3> QED BY <3>1, KeyOfRequest
  <2>1. /\ g = [req |-> r, key |-> k, by |-> Redis, era |-> era[Redis][k],
                at |-> wire[r][j].at]
        /\ wire[r][j].st = "ran" /\ wire[r][j].ok
        /\ log' = log /\ now' = now /\ era' = era
    BY <1>4 DEF Answer, Grants, stores
  <2>2. Backed(r, Redis, k, wire[r][j].at) /\ era[Redis][k] \in Nat
    BY <1>s, <2>0, <2>1 DEF BackedInv, LimitTypeOK
  <2> HIDE DEF k, j
  <2> QED BY <2>1, <2>2 DEF Backed
<1>5. ASSUME NEW g \in granted', g \notin granted
      PROVE  \E r \in Request : FallbackGrants(r) \/ Answer(r)
  BY <1>5 DEF LimitNext, Handles, limitVars, marks, Arrive, Ask, GiveUp, FallbackRefuses, Resend,
     Execute, LinkDrops, LinkReady, InstanceRestarts, ClockTicks
<1>6. \A g \in granted' :
        /\ g.era <= era'[g.by][g.key]
        /\ g.era = era'[g.by][g.key] => Backed(g.req, g.by, g.key, g.at)'
  BY <1>2, <1>3, <1>4, <1>5
<1> QED BY <1>1, <1>6 DEF BackedInv

\* The limiter's inductive invariant, part by part.
LEMMA LimitInvariant == LimitSpec => [](LimitTypeOK /\ PlacesInv /\ UnitsInv /\ BackedInv)
<1>1. LimitInit => LimitTypeOK /\ PlacesInv /\ UnitsInv /\ BackedInv
  <2> SUFFICES ASSUME LimitInit PROVE LimitTypeOK /\ PlacesInv /\ UnitsInv /\ BackedInv
    OBVIOUS
  <2>1. LimitTypeOK
    BY DEF LimitInit, LimitTypeOK, Progress, Place, Rules, Command, Quiet
  <2>2. PlacesInv
    BY DEF LimitInit, PlacesInv, At, Quiet
  <2>3. IsFiniteSet({}) /\ \A k \in Key : Used({}) <= Limit[k]
    <3>1. Used({}) = 0
      BY FS_EmptySet, Catalogue DEF Used
    <3> QED BY <3>1, FS_EmptySet, Catalogue
  <2>4. UnitsInv
    BY <2>3 DEF LimitInit, UnitsInv, Store
  <2>5. BackedInv
    BY DEF LimitInit, BackedInv, Quiet
  <2> QED BY <2>1, <2>2, <2>4, <2>5
<1>2. LimitTypeOK /\ PlacesInv /\ UnitsInv /\ BackedInv /\ [LimitNext]_limitVars
        => (LimitTypeOK /\ PlacesInv /\ UnitsInv /\ BackedInv)'
  BY LimitTypeStep, PlacesStep, UnitsStep, BackedStep
<1> QED BY <1>1, <1>2, PTL DEF LimitSpec

\* For any number of requests, subjects and processes.
THEOREM LimitTypeCorrect == LimitSpec => []LimitTypeOK
BY LimitInvariant, PTL

\* A rule's limit holds in every window, however commands are repeated, given up,
\* late or lost, connections dropped, and whatever the sweeps of idle keys do.
THEOREM WithinLimitCorrect == LimitSpec => []WithinLimit
<1>1. ASSUME LimitTypeOK, PlacesInv, UnitsInv, BackedInv PROVE WithinLimit
  <2> SUFFICES ASSUME NEW s \in Store, NEW k \in Key
               PROVE  Used(Recent(s, k)) <= Limit[k]
    BY DEF WithinLimit
  <2> DEFINE R == Recent(s, k)
             f == [g \in R |-> CHOOSE h \in log[s][k] : h.req = g.req]
  <2>1. \A g \in R : \E h \in log[s][k] : h.req = g.req
    BY <1>1 DEF Recent, BackedInv, Backed
  <2>2. f \in [R -> log[s][k]] /\ \A g \in R : f[g].req = g.req
    BY <2>1
  <2>3. \A a, b \in R : a.req = b.req => a = b
    BY <1>1 DEF Recent, PlacesInv
  <2> HIDE DEF R, f
  <2>4. f \in Injection(R, log[s][k])
    BY <2>2, <2>3 DEF Injection, IsInjective
  <2>5. IsFiniteSet(log[s][k]) /\ Used(log[s][k]) <= Limit[k]
    BY <1>1 DEF UnitsInv
  <2>6. IsFiniteSet(R) /\ Cardinality(R) <= Cardinality(log[s][k])
    BY <2>4, <2>5, FS_Injection
  <2>7. Used(R) <= Used(log[s][k])
    <3>1. Cardinality(R) \in Nat /\ Cardinality(log[s][k]) \in Nat
      BY <2>5, <2>6, FS_CardinalityType
    <3> QED BY <2>6, <3>1, ProductMonotone, Catalogue DEF Used
  <2>8. Used(R) \in Nat /\ Used(log[s][k]) \in Nat /\ Limit[k] \in Nat
    BY <2>5, <2>6, UnitsOfEntries, Catalogue
  <2> QED BY <2>5, <2>7, <2>8 DEF R
<1> QED BY <1>1, LimitInvariant, PTL

\* What a refusal promises, of the log it leaves.
LEMMA RefusalExact ==
  ASSUME LimitTypeOK, UnitsInv, NEW s \in Store, NEW k \in Key, ~ Fits(s, k),
         NEW p, p = Oldest(Found(s, k)) + WindowMs[k]
  PROVE  /\ p \in Nat /\ p <= now + WindowMs[k]
         /\ Used(Within(Found(s, k), k, p)) + Cost <= Limit[k]
         /\ Used(Within(Found(s, k), k, p - 1)) + Cost > Limit[k]
<1> DEFINE S == Found(s, k)
<1>1. /\ Oldest(S) \in Nat /\ \A h \in S : Oldest(S) <= h.at
      /\ now \in Nat /\ WindowMs[k] \in Nat /\ Limit[k] \in Nat /\ Cost \in Nat
  BY RefusalEnds, Catalogue DEF LimitTypeOK
<1>2. PICK first \in S : first.at = Oldest(S)
  BY RefusalEnds
<1>3. /\ S \in SUBSET Hit /\ IsFiniteSet(S) /\ Used(S) \in Nat /\ Used(S) <= Limit[k]
      /\ \A h \in S : h \in log[s][k]
  BY FoundCounts
<1>4. Oldest(S) <= now
  BY <1>1, <1>2, <1>3 DEF UnitsInv
<1>5. \A h \in S : h.at \in Nat
  BY <1>3 DEF Hit
<1>6. Used(S) + Cost > Limit[k]
  BY <1>1, <1>3 DEF Fits
<1>p. p = Oldest(S) + WindowMs[k]
  OBVIOUS
<1> HIDE DEF S
<1>7. Within(S, k, p - 1) = S
  BY <1>1, <1>5, <1>p DEF Within
<1>8. Within(S, k, p) \in SUBSET S /\ Within(S, k, p) # S
  BY <1>1, <1>2, <1>5, <1>p DEF Within
<1>9. Used(Within(S, k, p)) + Cost <= Used(S)
  BY <1>3, <1>8, UnitsOfEntries
<1>10. Used(Within(S, k, p)) \in Nat
  BY <1>3, <1>8, UnitsOfEntries
<1> QED BY <1>1, <1>3, <1>4, <1>6, <1>7, <1>9, <1>10, <1>p DEF S

\* The promise made for one key of one store.
Exact(s, k) ==
  promise[s][k] # Never =>
    /\ Used(Within(log[s][k], k, promise[s][k])) + Cost <= Limit[k]
    /\ now < promise[s][k] =>
         /\ Used(Within(log[s][k], k, promise[s][k] - 1)) + Cost > Limit[k]
         /\ s = Redis => promise[s][k] <= expires[k]

\* A promise is kept until another request is let through, or its store forgets.
LEMMA RetryStep ==
  LimitTypeOK /\ PlacesInv /\ UnitsInv /\ RetryAfterExact /\ [LimitNext]_limitVars
    => RetryAfterExact'
<1> SUFFICES ASSUME LimitTypeOK, PlacesInv, UnitsInv, [LimitNext]_limitVars,
                    \A s \in Store, k \in Key : Exact(s, k)
             PROVE  \A s \in Store, k \in Key : Exact(s, k)'
  BY DEF RetryAfterExact, Exact
<1>s. Redis \in Store /\ Redis \notin Instance /\ Instance \subseteq Store /\ now \in Nat
  BY StoresDiffer DEF Store, LimitTypeOK
<1>p. \A s \in Store, k \in Key : promise[s][k] # Never => promise[s][k] \in Nat
  BY DEF LimitTypeOK
<1>1. CASE Idles
  <2>1. /\ log' = log /\ expires' = expires /\ promise' = promise /\ now' \in {now, now + 1}
    BY <1>1 DEF Idles, stores
  <2> TAKE s \in Store, k \in Key
  <2>2. promise[s][k] # Never => (now' < promise[s][k] => now < promise[s][k])
    BY <1>s, <1>p, <2>1
  <2> QED BY <2>1, <2>2 DEF Exact, Used, Within
<1>2. ASSUME NEW i \in Store, NEW key \in Key, NEW r \in Request, Consume(i, key, r),
             now' = now, \A k \in Key : (i # Redis \/ k # key) => expires'[k] = expires[k],
             i = Redis => expires'[key] = now + WindowMs[key]
      PROVE  \A s \in Store, k \in Key : Exact(s, k)'
  <2> TAKE s \in Store, k \in Key
  <2>1. CASE s # i \/ k # key
    <3>1. log'[s][k] = log[s][k] /\ promise'[s][k] = promise[s][k]
      BY <1>2, <2>1, ConsumeCounts
    <3>2. s = Redis => expires'[k] = expires[k]
      BY <1>2, <2>1
    <3> QED BY <1>2, <3>1, <3>2 DEF Exact, Used, Within
  <2>2. CASE s = i /\ k = key /\ Fits(i, key)
    BY <1>2, <2>2, ConsumeCounts DEF Exact
  <2>3. CASE s = i /\ k = key /\ ~ Fits(i, key)
    <3> DEFINE p == Oldest(Found(i, key)) + WindowMs[key]
    <3>1. log'[s][k] = Found(i, key) /\ promise'[s][k] = p
      BY <1>2, <2>3, ConsumeCounts
    <3>2. /\ p \in Nat /\ p <= now + WindowMs[key]
          /\ Used(Within(Found(i, key), key, p)) + Cost <= Limit[key]
          /\ Used(Within(Found(i, key), key, p - 1)) + Cost > Limit[key]
      BY <2>3, RefusalExact
    <3> HIDE DEF p
    <3> QED BY <1>2, <2>3, <3>1, <3>2 DEF Exact, Used, Within
  <2> QED BY <2>1, <2>2, <2>3
<1>3. ASSUME NEW r \in Request, NEW j \in Rules, Execute(r, j), KeyOf(r, j) \in Key
      PROVE  \A s \in Store, k \in Key : Exact(s, k)'
  <2>1. /\ Consume(Redis, KeyOf(r, j), r) /\ now' = now
        /\ expires' = [expires EXCEPT ![KeyOf(r, j)] = now + WindowMs[KeyOf(r, j)]]
    BY <1>3 DEF Execute
  <2> QED BY <1>s, <1>2, <1>3, <2>1 DEF LimitTypeOK
<1>4. ASSUME NEW r \in Request, FallbackRefuses(r), check[r].on \in Instance,
             KeyOf(r, check[r].rule) \in Key
      PROVE  \A s \in Store, k \in Key : Exact(s, k)'
  <2>1. Consume(check[r].on, KeyOf(r, check[r].rule), r) /\ now' = now /\ expires' = expires
    BY <1>4 DEF FallbackRefuses
  <2> QED BY <1>s, <1>2, <1>4, <2>1
<1>5. ASSUME NEW r \in Request, NEW i \in Instance, i = check[r].on,
             NEW key \in Key, key = KeyOf(r, check[r].rule), FallbackGrants(r)
      PROVE  \A s \in Store, k \in Key : Exact(s, k)'
  <2> TAKE s \in Store, k \in Key
  <2>1. now' = now /\ expires' = expires
    BY <1>5 DEF FallbackGrants
  <2>2. /\ \A t \in Store \ {i} : log'[t] = log[t] /\ promise'[t] = promise[t]
        /\ Written(i, k, key, IF k = key THEN Logged(i, key, r) ELSE log[i][k])
    BY <1>5, FallbackCounts
  <2>3. CASE s # i
    BY <2>1, <2>2, <2>3 DEF Exact, Used, Within
  <2>4. CASE s = i
    <3> SUFFICES ASSUME promise'[s][k] # Never PROVE Exact(s, k)'
      BY DEF Exact
    <3> DEFINE p == promise[s][k]
               old == log[s][k]
    <3>1. /\ promise'[s][k] = p /\ log'[s][k] \in {old, {}} /\ s # Redis
          /\ \A h \in old : now - WindowMs[k] < h.at => h \in log'[s][k]
      BY <1>s, <2>2, <2>4 DEF Written
    <3>2. /\ p \in Nat /\ Used(Within(old, k, p)) + Cost <= Limit[k]
          /\ now < p => Used(Within(old, k, p - 1)) + Cost > Limit[k]
      BY <1>p, <3>1 DEF Exact
    <3>3. /\ IsFiniteSet(old) /\ \A h \in old : h.at \in Nat
          /\ WindowMs[k] \in Nat /\ Limit[k] \in Nat /\ Cost \in Nat /\ Cost <= Limit[k]
      BY Catalogue DEF UnitsInv, LimitTypeOK, Hit
    <3> HIDE DEF p, old
    <3>4. /\ Within(old, k, p) \in SUBSET old /\ Within(old, k, p - 1) \in SUBSET old
          /\ Within({}, k, p) = {}
      BY DEF Within
    <3>5. /\ IsFiniteSet(Within(old, k, p)) /\ IsFiniteSet(Within(old, k, p - 1))
      BY <3>3, <3>4, UnitsOfEntries
    <3>6. /\ Used({}) <= Used(Within(old, k, p)) /\ Used(Within(old, k, p)) \in Nat
          /\ Used({}) \in Nat /\ Used(Within(old, k, p - 1)) \in Nat
          /\ Used(Within(old, k, p - 1)) > 0 => Within(old, k, p - 1) # {}
      BY <3>5, UnitsOfEntries, FS_EmptySet
    <3>7. Used(Within(log'[s][k], k, p)) + Cost <= Limit[k]
      <4>1. CASE log'[s][k] = old
        BY <3>2, <4>1
      <4>2. CASE log'[s][k] = {}
        <5>1. Used({}) + Cost <= Limit[k]
          BY <3>2, <3>3, <3>6
        <5> QED BY <3>4, <4>2, <5>1
      <4> QED BY <3>1, <4>1, <4>2
    <3>8. ASSUME now < p PROVE log'[s][k] = old
      <4>1. PICK h \in Within(old, k, p - 1) : TRUE
        BY <3>2, <3>3, <3>6, <3>8
      <4>2. h \in old /\ now - WindowMs[k] < h.at
        BY <1>s, <3>2, <3>3, <3>8, <4>1 DEF Within
      <4> QED BY <3>1, <4>2
    <3> QED BY <2>1, <3>1, <3>2, <3>7, <3>8 DEF Exact, Used, Within
  <2> QED BY <2>3, <2>4
<1>6. ASSUME NEW i \in Instance, InstanceRestarts(i)
      PROVE  \A s \in Store, k \in Key : Exact(s, k)'
  <2> TAKE s \in Store, k \in Key
  <2>1. CASE s = i
    BY <1>s, <1>6, <2>1 DEF InstanceRestarts, LimitTypeOK, Exact
  <2>2. CASE s # i
    <3>1. /\ log'[s] = log[s] /\ promise'[s] = promise[s]
          /\ now' = now /\ expires' = expires
      BY <1>s, <1>6, <2>2 DEF InstanceRestarts, LimitTypeOK
    <3> QED BY <3>1 DEF Exact, Used, Within
  <2> QED BY <2>1, <2>2
<1> QED BY <1>1, <1>3, <1>4, <1>5, <1>6, StoresChange

\* Retry-After is exact to the tick, for any windows, limits and costs.
THEOREM RetryAfterExactCorrect == LimitSpec => []RetryAfterExact
<1>1. LimitInit => RetryAfterExact
  BY DEF LimitInit, RetryAfterExact
<1> QED BY <1>1, RetryStep, LimitInvariant, PTL DEF LimitSpec
-----------------------------------------------------------------------------
(* The fallback's memory: every write tracks at most one key more, and the
   write that sweeps leaves at most the cap. *)

MemoryInv ==
  \A i \in Instance : /\ writes[i] < SweepInterval
                      /\ Cardinality(tracked[i]) <= MaxKeys + writes[i]

\* A sweep leaves at most the cap, whichever keys it forgets.
LEMMA SweepTrims ==
  ASSUME LimitTypeOK, NEW i \in Instance, NEW key \in Key, NEW map, Sweep(i, key, map)
  PROVE  Cardinality(tracked'[i]) <= MaxKeys /\ \A x \in Instance \ {i} : tracked'[x] = tracked[x]
<1> DEFINE busy   == {k \in tracked[i] \cup {key} : \E h \in map[k] : h.at > now - Horizon}
           excess == Cardinality(busy) - MaxKeys
<1>1. PICK gone \in SUBSET busy :
        /\ Cardinality(gone) = IF excess > 0 THEN excess ELSE 0
        /\ tracked' = [tracked EXCEPT ![i] = busy \ gone]
  BY DEF Sweep
<1>2. busy \subseteq Key /\ IsFiniteSet(Key) /\ tracked \in [Instance -> SUBSET Key]
  BY LimiterBounds DEF LimitTypeOK
<1> HIDE DEF busy
<1>3. IsFiniteSet(busy) /\ Cardinality(busy) \in Nat /\ MaxKeys \in Nat
  BY <1>2, FS_Subset, FS_CardinalityType, LimiterBounds
<1>4. busy \cap gone = gone
  BY <1>1
<1>5. Cardinality(busy \ gone) = Cardinality(busy) - Cardinality(gone)
  BY <1>3, <1>4, FS_Difference
<1>6. Cardinality(busy \ gone) <= MaxKeys
  BY <1>1, <1>3, <1>5
<1> QED BY <1>1, <1>2, <1>6

\* One key more is at most one entry more.
LEMMA OneMore ==
  ASSUME NEW S, NEW x, IsFiniteSet(S)
  PROVE  /\ Cardinality(S) \in Nat /\ Cardinality(S \cup {x}) \in Nat
         /\ Cardinality(S \cup {x}) <= Cardinality(S) + 1
<1>1. Cardinality(S) \in Nat
  BY FS_CardinalityType
<1> QED BY <1>1, FS_AddElement

LEMMA MemoryStep ==
  ASSUME LimitTypeOK, PlacesInv, MemoryInv, [LimitNext]_limitVars
  PROVE  MemoryInv'
<1> USE LimiterBounds
<1>t. /\ tracked \in [Instance -> SUBSET Key] /\ writes \in [Instance -> Nat]
      /\ \A x \in Instance : IsFiniteSet(tracked[x]) /\ Cardinality(tracked[x]) \in Nat
  <2>1. \A x \in Instance : IsFiniteSet(tracked[x])
    BY FS_Subset DEF LimitTypeOK
  <2> QED BY <2>1, FS_CardinalityType DEF LimitTypeOK
<1>1. ASSUME NEW r \in Request, FallbackGrants(r) PROVE MemoryInv'
  <2> DEFINE i == check[r].on
             k == KeyOf(r, check[r].rule)
             map == [log[i] EXCEPT ![k] = Logged(i, k, r)]
  <2>0. i \in Instance /\ k \in Key
    <3>1. ~ At(r, "new") /\ check[r].rule \in Rules
      BY <1>1 DEF FallbackGrants, At, LimitTypeOK, Progress
    <3> QED BY <3>1, KeyOfRequest DEF PlacesInv
  <2>1. CASE writes[i] + 1 < SweepInterval
    <3>1. /\ tracked' = [tracked EXCEPT ![i] = @ \cup {k}]
          /\ writes' = [writes EXCEPT ![i] = @ + 1]
      BY <1>1, <2>1 DEF FallbackGrants
    <3> HIDE DEF i, k
    <3>2. IsFiniteSet(tracked[i])
      BY <1>t, <2>0
    <3>3. /\ Cardinality(tracked[i] \cup {k}) \in Nat
          /\ Cardinality(tracked[i] \cup {k}) <= Cardinality(tracked[i]) + 1
      BY <3>2, OneMore
    <3>4. tracked'[i] = tracked[i] \cup {k} /\ writes'[i] = writes[i] + 1
      BY <1>t, <2>0, <3>1
    <3>5. \A x \in Instance \ {i} : tracked'[x] = tracked[x] /\ writes'[x] = writes[x]
      BY <1>t, <3>1
    <3>6. writes[i] \in Nat /\ Cardinality(tracked[i]) \in Nat
          /\ Cardinality(tracked[i]) <= MaxKeys + writes[i]
      BY <1>t, <2>0 DEF MemoryInv
    <3>7. /\ writes'[i] < SweepInterval
          /\ Cardinality(tracked'[i]) <= MaxKeys + writes'[i]
      BY <2>1, <3>3, <3>4, <3>6 DEF i
    <3> QED BY <3>5, <3>7 DEF MemoryInv
  <2>2. CASE ~ writes[i] + 1 < SweepInterval
    <3>1. Sweep(i, k, map) /\ writes' = [writes EXCEPT ![i] = 0]
      BY <1>1, <2>2 DEF FallbackGrants
    <3> HIDE DEF i, k, map
    <3>2. /\ Cardinality(tracked'[i]) <= MaxKeys
          /\ \A x \in Instance \ {i} : tracked'[x] = tracked[x]
      BY <2>0, <3>1, SweepTrims
    <3>3. writes'[i] = 0 /\ \A x \in Instance \ {i} : writes'[x] = writes[x]
      BY <1>t, <2>0, <3>1
    <3>4. /\ writes'[i] < SweepInterval
          /\ Cardinality(tracked'[i]) <= MaxKeys + writes'[i]
      BY <3>2, <3>3
    <3> QED BY <3>2, <3>3, <3>4 DEF MemoryInv
  <2> QED BY <2>1, <2>2
<1>2. ASSUME NEW i \in Instance, InstanceRestarts(i) PROVE MemoryInv'
  <2>1. /\ tracked'[i] = {} /\ writes'[i] = 0
        /\ \A x \in Instance \ {i} : tracked'[x] = tracked[x] /\ writes'[x] = writes[x]
    BY <1>2, <1>t DEF InstanceRestarts
  <2>2. SweepInterval > 0 /\ Cardinality(tracked'[i]) = 0
    BY <2>1, FS_EmptySet
  <2>3. /\ writes'[i] < SweepInterval
        /\ Cardinality(tracked'[i]) <= MaxKeys + writes'[i]
    BY <2>1, <2>2
  <2> QED BY <2>1, <2>3 DEF MemoryInv
<1>3. ASSUME UNCHANGED <<tracked, writes>> PROVE MemoryInv'
  BY <1>3 DEF MemoryInv
<1> QED BY <1>1, <1>2, <1>3 DEF LimitNext, Handles, limitVars, stores, Arrive, Ask, GiveUp,
     FallbackRefuses, Answer, Resend, Execute, LinkDrops, LinkReady, ClockTicks

\* However many identities ask, the fallback's map stays within its cap and the
\* writes since the last sweep.
THEOREM MemoryBoundedCorrect == LimitSpec => []MemoryBounded
<1>1. LimitInit => MemoryInv
  BY FS_EmptySet, LimiterBounds DEF LimitInit, MemoryInv
<1>2. MemoryInv /\ LimitTypeOK => MemoryBounded
  <2> SUFFICES ASSUME MemoryInv, LimitTypeOK, NEW i \in Instance
               PROVE  Cardinality(tracked[i]) < MaxKeys + SweepInterval
    BY DEF MemoryBounded
  <2>1. IsFiniteSet(tracked[i])
    BY FS_Subset, LimiterBounds DEF LimitTypeOK
  <2>2. Cardinality(tracked[i]) \in Nat /\ writes[i] \in Nat
    BY <2>1, FS_CardinalityType DEF LimitTypeOK
  <2> QED BY <2>2, LimiterBounds DEF MemoryInv
<1>3. LimitTypeOK /\ PlacesInv /\ MemoryInv /\ [LimitNext]_limitVars => MemoryInv'
  BY MemoryStep
<1> QED BY <1>1, <1>2, <1>3, LimitInvariant, PTL DEF LimitSpec
=============================================================================
