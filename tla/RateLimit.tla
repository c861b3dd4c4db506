------------------------------ MODULE RateLimit -----------------------------
(***************************************************************************)
(* The rate limiter of every endpoint (backend/src/common/rate-limit over  *)
(* backend/src/redis): a request is checked against its policy's rules in  *)
(* order, each by one atomic script in Redis, or by the process's own      *)
(* counters when Redis does not answer.  The rules are sliding windows;    *)
(* TokenBucket has the other algorithm.  Time is a tick, and one clock.    *)
(***************************************************************************)
EXTENDS Integers, FiniteSets, FiniteSetsExt

CONSTANTS
  Instance,      \* backend processes
  Request,       \* requests, each checked once; a request is its UUID
  Subject, Ip,   \* whom the first rule counts, and the address all share
  Redis, None,
  WindowMs,      \* windowMs of each key's rule
  Limit, Cost,   \* its limit, and the units one request takes
  Horizon,       \* IDLE_HORIZON_MS of the local sweep: an hour
  MaxKeys,       \* MAX_KEYS / 2
  SweepInterval, \* SWEEP_INTERVAL, in writes
  LastTick,      \* bound on the clock
  LinkFaults,    \* bound on lost connections
  Restarts       \* bound on restarts of processes

Key    == Subject \cup {Ip}
Store  == {Redis} \cup Instance
Rules  == {1, 2}
Never  == -1

\* validatePolicyCatalogue, and the longest window of the catalogue.
ASSUME Catalogue ==
  /\ WindowMs \in [Key -> Nat \ {0}] /\ Limit \in [Key -> Nat \ {0}]
  /\ Cost \in Nat \ {0} /\ \A k \in Key : Cost <= Limit[k]
  /\ Horizon \in Nat /\ \A k \in Key : WindowMs[k] <= Horizon
ASSUME LimiterBounds ==
  /\ MaxKeys \in Nat \ {0} /\ SweepInterval \in Nat \ {0}
  /\ LastTick \in Nat /\ LinkFaults \in Nat /\ Restarts \in Nat
  /\ IsFiniteSet(Request) /\ IsFiniteSet(Key)
ASSUME StoresDiffer == Redis \notin Instance /\ Ip \notin Subject

VARIABLES
  now,     \* the clock
  log,     \* log[s][k]: the units store s holds against k, by request and time
  expires, \* when Redis drops a key (PEXPIRE)
  tracked, \* the keys a process's map holds
  writes,  \* writesSinceSweep
  link,    \* whether a process's connection to Redis is ready
  check,   \* each request: place, process, subject, rule it is at
  wire,    \* wire[r][j]: the command for its rule j, and Redis's reply
  granted, \* history: grants, by request, key, store, its era and time
  era,     \* history: how often a store has forgotten a key
  promise, \* history: when a refused request was told to come back
  drops, restarts

stores == <<log, expires, tracked, writes>>
marks  == <<granted, promise>>
limitVars == <<now, stores, link, check, wire, marks, era, drops, restarts>>

Hit   == [req : Request, at : Nat]
Grant == [req : Request, key : Key, by : Store, era : Nat, at : Nat]
Place == {"new", "ask", "wait", "local", "allowed", "denied", "gone"}
Quiet == [st |-> "idle", ok |-> FALSE, at |-> 0]
Progress == [at : Place, on : Instance \cup {None}, who : Subject \cup {None},
             rule : Rules]
Command  == [st : {"idle", "sent", "ran", "lost"}, ok : BOOLEAN, at : Nat]

LimitTypeOK ==
  /\ now \in Nat
  /\ log \in [Store -> [Key -> SUBSET Hit]]
  /\ expires \in [Key -> Nat]
  /\ tracked \in [Instance -> SUBSET Key] /\ writes \in [Instance -> Nat]
  /\ link \in [Instance -> {"ready", "down"}]
  /\ check \in [Request -> Progress] /\ wire \in [Request -> [Rules -> Command]]
  /\ granted \subseteq Grant
  /\ era \in [Store -> [Key -> Nat]]
  /\ promise \in [Store -> [Key -> Nat \cup {Never}]]
  /\ drops \in Nat /\ restarts \in Nat

LimitInit ==
  /\ now = 0
  /\ log = [s \in Store |-> [k \in Key |-> {}]]
  /\ expires = [k \in Key |-> 0]
  /\ tracked = [i \in Instance |-> {}] /\ writes = [i \in Instance |-> 0]
  /\ link = [i \in Instance |-> "down"]
  /\ check = [r \in Request |-> [at |-> "new", on |-> None, who |-> None,
                                 rule |-> 1]]
  /\ wire = [r \in Request |-> [j \in Rules |-> Quiet]]
  /\ granted = {}
  /\ era = [s \in Store |-> [k \in Key |-> 0]]
  /\ promise = [s \in Store |-> [k \in Key |-> Never]]
  /\ drops = 0 /\ restarts = 0

-----------------------------------------------------------------------------
(* The algorithm, the same in Redis and in a process.                      *)

At(r, place) == check[r].at = place
Goes(r, place) == check' = [check EXCEPT ![r] = [@ EXCEPT !.at = place]]

\* Subject rules come before IP rules.
KeyOf(r, j) == IF j = 1 THEN check[r].who ELSE Ip

\* Entries still in the window, in a set of entries as it is at time t.
Within(S, k, t) == {h \in S : h.at > t - WindowMs[k]}

\* What a script finds: the entries the trim leaves, none if the key expired.
Found(s, k) == IF s = Redis /\ now >= expires[k] THEN {}
               ELSE Within(log[s][k], k, now)

Used(S) == Cost * Cardinality(S)

Fits(s, k) == Used(Found(s, k)) + Cost <= Limit[k]

\* Mutant: the wrong end of the log.
Newest(S) == Max({h.at : h \in S})

Oldest(S) == Min({h.at : h \in S})

\* Mutant: members that only carry the time.
LoggedByTime(s, k, r) == {h \in Found(s, k) : h.at # now} \cup {[req |-> r, at |-> now]}

\* A repeated command overwrites its members: they carry the request's seed.
Logged(s, k, r) == {h \in Found(s, k) : h.req # r} \cup {[req |-> r, at |-> now]}

\* Consumed, or refused with the time until the oldest entry leaves.
Consume(s, k, r) ==
  IF Fits(s, k)
  THEN /\ log' = [log EXCEPT ![s] = [@ EXCEPT ![k] = Logged(s, k, r)]]
       /\ promise' = [promise EXCEPT ![s] = [@ EXCEPT ![k] = Never]]
  ELSE /\ log' = [log EXCEPT ![s] = [@ EXCEPT ![k] = Found(s, k)]]
       /\ promise' = [promise EXCEPT ![s] = [@ EXCEPT ![k] =
                        Oldest(Found(s, k)) + WindowMs[k]]]

Grants(r, k, s, t) ==
  granted' = granted \cup {[req |-> r, key |-> k, by |-> s,
                            era |-> era[s][k], at |-> t]}

\* On to the next rule, or through.
Passes(r) ==
  check' = [check EXCEPT ![r] =
              IF @.rule = 2 THEN [@ EXCEPT !.at = "allowed"]
              ELSE [@ EXCEPT !.at = "ask", !.rule = 2]]

-----------------------------------------------------------------------------
(* A request and its commands.                                             *)

\* The guard hands a request to a process's limiter.  Its policy has both rules,
\* or only counts the address.
Arrive(r) ==
  /\ At(r, "new")
  /\ \E i \in Instance, u \in Subject, j \in Rules :
       check' = [check EXCEPT ![r] = [at |-> "ask", on |-> i, who |-> u,
                                      rule |-> j]]
  /\ UNCHANGED <<now, stores, link, wire, marks, era, drops, restarts>>

\* evalScript: sent on a ready connection, refused at once on any other.
Ask(r) ==
  /\ At(r, "ask")
  /\ IF link[check[r].on] = "ready"
     THEN /\ Goes(r, "wait")
          /\ wire' = [wire EXCEPT ![r] = [@ EXCEPT ![check[r].rule] =
                        [Quiet EXCEPT !.st = "sent"]]]
     ELSE Goes(r, "local") /\ wire' = wire
  /\ UNCHANGED <<now, stores, link, marks, era, drops, restarts>>

\* Redis runs a script that reached it, whether anyone still waits or not.
Execute(r, j) ==
  LET k == KeyOf(r, j) IN
  /\ wire[r][j].st = "sent"
  /\ Consume(Redis, k, r)
  /\ expires' = [expires EXCEPT ![k] = now + WindowMs[k]]
  /\ wire' = [wire EXCEPT ![r] = [@ EXCEPT ![j] =
                IF At(r, "wait") /\ check[r].rule = j
                THEN [st |-> "ran", ok |-> Fits(Redis, k), at |-> now]
                ELSE Quiet]]
  /\ UNCHANGED <<now, tracked, writes, link, check, granted, era, drops,
                 restarts>>

\* The reply arrives while the request still waits for it.
Answer(r) ==
  LET j == check[r].rule
      reply == wire[r][j] IN
  /\ At(r, "wait") /\ reply.st = "ran"
  /\ wire' = [wire EXCEPT ![r] = [@ EXCEPT ![j] = Quiet]]
  /\ IF reply.ok
     THEN Passes(r) /\ Grants(r, KeyOf(r, j), Redis, reply.at)
     ELSE Goes(r, "denied") /\ granted' = granted
  /\ UNCHANGED <<now, stores, link, promise, era, drops, restarts>>

\* Mutant: only a lost connection ends the wait.
GiveUpDisconnected(r) ==
  /\ At(r, "wait") /\ wire[r][check[r].rule].st = "lost" /\ Goes(r, "local")
  /\ wire' = [wire EXCEPT ![r] = [@ EXCEPT ![check[r].rule] = Quiet]]
  /\ UNCHANGED <<now, stores, link, marks, era, drops, restarts>>

\* commandTimeout, or the client gives the command up.  It may still be run.
GiveUp(r) ==
  LET j == check[r].rule IN
  /\ At(r, "wait") /\ Goes(r, "local")
  /\ wire' = [wire EXCEPT ![r] = [@ EXCEPT ![j] =
                IF wire[r][j].st = "sent" THEN wire[r][j] ELSE Quiet]]
  /\ UNCHANGED <<now, stores, link, marks, era, drops, restarts>>

\* The connection goes; replies on it are lost.
LinkDrops(i) ==
  /\ drops < LinkFaults /\ drops' = drops + 1
  /\ link[i] = "ready" /\ link' = [link EXCEPT ![i] = "down"]
  /\ wire' = [r \in Request |-> [j \in Rules |->
                IF wire[r][j].st = "ran" /\ check[r].on = i
                THEN [wire[r][j] EXCEPT !.st = "lost"] ELSE wire[r][j]]]
  /\ UNCHANGED <<now, stores, check, marks, era, restarts>>

LinkReady(i) ==
  /\ link[i] = "down" /\ link' = [link EXCEPT ![i] = "ready"]
  /\ UNCHANGED <<now, stores, check, wire, marks, era, drops, restarts>>

\* ioredis sends an unanswered command again once it has reconnected.
Resend(r) ==
  LET j == check[r].rule IN
  /\ At(r, "wait") /\ wire[r][j].st = "lost" /\ link[check[r].on] = "ready"
  /\ wire' = [wire EXCEPT ![r] = [@ EXCEPT ![j] = [Quiet EXCEPT !.st = "sent"]]]
  /\ UNCHANGED <<now, stores, link, check, marks, era, drops, restarts>>

-----------------------------------------------------------------------------
(* The fallback.                                                           *)

\* sweep and trimTo, of the map as it was just written: keys idle for the whole
\* horizon go, then as many of the rest as exceed the cap.  Which ones, their
\* order of insertion decides; those are the ones a limit is forgotten for.
Sweep(i, key, map) ==
  LET kept   == {k \in tracked[i] \cup {key} : \E h \in map[k] : h.at > now - Horizon}
      excess == Cardinality(kept) - MaxKeys
  IN \E gone \in SUBSET kept :
       /\ Cardinality(gone) = IF excess > 0 THEN excess ELSE 0
       /\ log' = [log EXCEPT ![i] =
                    [k \in Key |-> IF k \in kept \ gone THEN map[k] ELSE {}]]
       /\ tracked' = [tracked EXCEPT ![i] = kept \ gone]
       /\ era' = [era EXCEPT ![i] =
                    [k \in Key |-> IF k \in gone THEN @[k] + 1 ELSE @[k]]]
       /\ promise' = [promise EXCEPT ![i] =
                        [k \in Key |-> IF k \in gone \cup {key} THEN Never
                                        ELSE @[k]]]

\* LocalRateLimiter.consume on a request that fits; afterWrite sweeps at times.
FallbackGrants(r) ==
  LET i == check[r].on
      k == KeyOf(r, check[r].rule)
      map == [log[i] EXCEPT ![k] = Logged(i, k, r)]
  IN
  /\ At(r, "local") /\ Fits(i, k)
  /\ Passes(r) /\ Grants(r, k, i, now)
  /\ IF writes[i] + 1 < SweepInterval
     THEN /\ Consume(i, k, r)
          /\ tracked' = [tracked EXCEPT ![i] = @ \cup {k}]
          /\ writes' = [writes EXCEPT ![i] = @ + 1] /\ era' = era
     ELSE Sweep(i, k, map) /\ writes' = [writes EXCEPT ![i] = 0]
  /\ UNCHANGED <<now, expires, link, wire, drops, restarts>>

FallbackRefuses(r) ==
  LET i == check[r].on
      k == KeyOf(r, check[r].rule)
  IN
  /\ At(r, "local") /\ ~ Fits(i, k)
  /\ Goes(r, "denied") /\ Consume(i, k, r)
  /\ UNCHANGED <<now, expires, tracked, writes, link, wire, granted, era,
                 drops, restarts>>

\* A process restarts: its counters and its requests are gone.
InstanceRestarts(i) ==
  /\ restarts < Restarts /\ restarts' = restarts + 1
  /\ log' = [log EXCEPT ![i] = [k \in Key |-> {}]]
  /\ tracked' = [tracked EXCEPT ![i] = {}]
  /\ writes' = [writes EXCEPT ![i] = 0]
  /\ era' = [era EXCEPT ![i] = [k \in Key |-> @[k] + 1]]
  /\ promise' = [promise EXCEPT ![i] = [k \in Key |-> Never]]
  /\ link' = [link EXCEPT ![i] = "down"]
  /\ check' = [r \in Request |->
                 IF check[r].on = i /\ check[r].at \in {"ask", "wait", "local"}
                 THEN [check[r] EXCEPT !.at = "gone"] ELSE check[r]]
  /\ UNCHANGED <<now, expires, wire, granted, drops>>

ClockTicks ==
  /\ now < LastTick /\ now' = now + 1
  /\ UNCHANGED <<stores, link, check, wire, marks, era, drops, restarts>>

\* What the process itself does with a request, Redis or no Redis.
Handles(r) == Ask(r) \/ GiveUp(r) \/ FallbackGrants(r) \/ FallbackRefuses(r)

LimitNext ==
  \/ \E r \in Request : Arrive(r) \/ Handles(r) \/ Answer(r) \/ Resend(r)
  \/ \E r \in Request, j \in Rules : Execute(r, j)
  \/ \E i \in Instance : LinkDrops(i) \/ LinkReady(i) \/ InstanceRestarts(i)
  \/ ClockTicks

LimitFair == \A r \in Request : WF_limitVars(Handles(r))
LimitSpec == LimitInit /\ [][LimitNext]_limitVars
LimitLiveSpec == LimitSpec /\ LimitFair

-----------------------------------------------------------------------------
(* Properties.                                                             *)

Recent(s, k) == {g \in granted : /\ g.by = s /\ g.key = k
                                 /\ g.era = era[s][k]
                                 /\ g.at > now - WindowMs[k]}

\* Whatever is repeated, given up or late, a store lets no more through in any
\* window than the rule says, as long as it has not forgotten the key: the key
\* does not expire too soon, the sweep forgets nothing that still counts.
WithinLimit == \A s \in Store, k \in Key : Used(Recent(s, k)) <= Limit[k]

\* Retry-After is honest, to the tick: unless another request was let through
\* meanwhile the limiter lets one through at that time, and not before.
RetryAfterExact ==
  \A s \in Store, k \in Key : promise[s][k] # Never =>
    LET p == promise[s][k] IN
    /\ Used(Within(log[s][k], k, p)) + Cost <= Limit[k]
    /\ now < p => /\ Used(Within(log[s][k], k, p - 1)) + Cost > Limit[k]
                  /\ s = Redis => p <= expires[k]

\* However many identities ask, the fallback's map stays within its cap and the
\* writes since the last sweep.
MemoryBounded ==
  \A i \in Instance : Cardinality(tracked[i]) < MaxKeys + SweepInterval

\* A request that reached the limiter is answered or dies with its process,
\* whatever Redis does: nothing waits for Redis.
ArrivedIsDecided ==
  \A r \in Request :
    At(r, "ask") ~> check[r].at \in {"allowed", "denied", "gone"}
=============================================================================
