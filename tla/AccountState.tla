---------------------------- MODULE AccountState ----------------------------
(***************************************************************************)
(* "May this account do this?" (account-state.service.ts, asked by         *)
(* moderation.guard.ts): the database's answer, kept for 15 seconds in one *)
(* process and forgotten when that process sanctions the account.          *)
(***************************************************************************)
EXTENDS Integers, FiniteSets

CONSTANTS
  Check,               \* requests to restricted routes
  Sanction,            \* sanctions and lifts made by this process
  Account, Capability,
  Nobody,
  CacheTime,                 \* TTL_MS
  MaxEntries,          \* MAX_ENTRIES
  LastTime,            \* bound on the clock
  Outside              \* bound on changes this process does not learn of

Question == Account \X Capability

ASSUME CacheConstants ==
  /\ CacheTime \in Nat \ {0} /\ MaxEntries \in Nat \ {0}
  /\ LastTime \in Nat /\ Outside \in Nat
  /\ Nobody \notin Check \cup Account

VARIABLES
  time,     \* the clock
  denied,   \* what moderation_denial says of each key
  cache,    \* the process's map
  asking,   \* each request's place, key, starting time and answer
  acting,   \* each sanction: the account it has changed and not yet forgotten
  outside   \* changes so far that this process does not learn of

stateVars == <<time, denied, cache, asking, acting, outside>>

\* An answer of the database.  `ended' and `raced' are history: when it stopped
\* being so, and whether its key was forgotten while it was on its way.
Told == [denied : BOOLEAN, ended : Int, raced : BOOLEAN]
Nothing == [denied |-> FALSE, ended |-> 0, raced |-> FALSE]

Absent == [held |-> FALSE, expires |-> 0, answer |-> Nothing]
Idle   == [at |-> "idle", key |-> Nobody, now |-> 0, answer |-> Nothing]

Slot  == [held : BOOLEAN, expires : Nat, answer : Told]
Query == [at : {"asked", "read"}, key : Question, now : Nat, answer : Told]

StateTypeOK ==
  /\ time \in Nat /\ outside \in Nat
  /\ denied \in [Question -> BOOLEAN]
  /\ cache \in [Question -> Slot]
  /\ asking \in [Check -> Query \cup {Idle}]
  /\ acting \in [Sanction -> Account \cup {Nobody}]

StateInit ==
  /\ time = 0 /\ outside = 0
  /\ denied \in [Question -> BOOLEAN]
  /\ cache = [k \in Question |-> Absent]
  /\ asking = [r \in Check |-> Idle]
  /\ acting = [x \in Sanction |-> Nobody]

-----------------------------------------------------------------------------
Live(k) == cache[k].held /\ cache[k].expires > time

QuestionsOf(a) == {k \in Question : k[1] = a}

\* A request with a live entry is answered by it, and nothing changes: that step
\* stutters.  Otherwise the database is asked.
Asked(r) ==
  /\ asking[r].at = "idle"
  /\ \E k \in Question :
       /\ ~ Live(k)
       /\ asking' = [asking EXCEPT ![r] = [Idle EXCEPT !.at = "asked", !.key = k,
                                                       !.now = time]]
  /\ UNCHANGED <<time, denied, cache, acting, outside>>

DatabaseAnswers(r) ==
  /\ asking[r].at = "asked"
  /\ asking' = [asking EXCEPT ![r] = [@ EXCEPT !.at = "read",
                     !.answer = [Nothing EXCEPT !.denied = denied[asking[r].key]]]]
  /\ UNCHANGED <<time, denied, cache, acting, outside>>

\* No answer: the request is allowed, and nothing is remembered.
FailsOpen(r) ==
  /\ asking[r].at # "idle"
  /\ asking' = [asking EXCEPT ![r] = Idle]
  /\ UNCHANGED <<time, denied, cache, acting, outside>>

Held == {k \in Question : cache[k].held}

\* Mutant: an entry that lives from the answer.
EntryFromAnswer(r) == [held |-> TRUE, expires |-> time + CacheTime,
                       answer |-> asking[r].answer]

\* The entry lives from the time the request began, not from the answer.
Entry(r) == [held |-> TRUE, expires |-> asking[r].now + CacheTime,
             answer |-> asking[r].answer]

Remember(r) ==
  /\ asking[r].at = "read"
  /\ cache' = [k \in Question |->
       CASE k = asking[r].key -> Entry(r)
         [] Cardinality(Held) >= MaxEntries -> Absent
         [] OTHER -> cache[k]]
  /\ asking' = [asking EXCEPT ![r] = Idle]
  /\ UNCHANGED <<time, denied, acting, outside>>

\* An answer about key k, when what is denied changes for the keys in S.
Ends(answer, k, S) ==
  IF k \in S /\ answer.denied = denied[k] THEN [answer EXCEPT !.ended = time]
  ELSE answer

Changes(S) ==
  /\ denied' = [k \in Question |-> (denied[k] # (k \in S))]
  /\ cache' = [k \in Question |-> IF cache[k].held
                             THEN [cache[k] EXCEPT !.answer = Ends(@, k, S)]
                             ELSE Absent]
  /\ asking' = [r \in Check |-> IF asking[r].at = "read"
                THEN [asking[r] EXCEPT !.answer = Ends(@, asking[r].key, S)]
                ELSE asking[r]]

\* moderation_apply_sanction or moderation_lift_restriction has committed.
Commit(x) ==
  /\ acting[x] = Nobody
  /\ \E a \in Account : /\ acting' = [acting EXCEPT ![x] = a]
                        /\ \E S \in SUBSET QuestionsOf(a) : Changes(S)
  /\ UNCHANGED <<time, outside>>

\* Mutant: only one of the account's keys is forgotten.
InvalidateOne(x) ==
  LET keys == {CHOOSE k \in QuestionsOf(acting[x]) : TRUE} IN
  /\ acting[x] # Nobody
  /\ acting' = [acting EXCEPT ![x] = Nobody]
  /\ cache' = [k \in Question |-> IF k \in keys THEN Absent ELSE cache[k]]
  /\ UNCHANGED <<time, denied, asking, outside>>

\* It has answered: invalidate.
Invalidate(x) ==
  LET keys == IF acting[x] = Nobody THEN {} ELSE QuestionsOf(acting[x]) IN
  /\ acting[x] # Nobody
  /\ acting' = [acting EXCEPT ![x] = Nobody]
  /\ cache' = [k \in Question |-> IF k \in keys THEN Absent ELSE cache[k]]
  /\ asking' = [r \in Check |->
       IF asking[r].at = "read" /\ asking[r].key \in keys
       THEN [asking[r] EXCEPT !.answer.raced = TRUE] ELSE asking[r]]
  /\ UNCHANGED <<time, denied, outside>>

\* Its answer is lost: the call throws before invalidate.
AnswerLost(x) ==
  /\ outside < Outside /\ outside' = outside + 1
  /\ acting[x] # Nobody /\ acting' = [acting EXCEPT ![x] = Nobody]
  /\ UNCHANGED <<time, denied, cache, asking>>

\* A second process or the SQL editor changes it, or a restriction's term ends.
ChangedElsewhere ==
  /\ outside < Outside /\ outside' = outside + 1
  /\ \E a \in Account : \E S \in SUBSET QuestionsOf(a) : Changes(S)
  /\ UNCHANGED <<time, acting>>

Tick == /\ time < LastTime /\ time' = time + 1
        /\ UNCHANGED <<denied, cache, asking, acting, outside>>

StateNext ==
  \/ \E r \in Check : Asked(r) \/ DatabaseAnswers(r) \/ FailsOpen(r) \/ Remember(r)
  \/ \E x \in Sanction : Commit(x) \/ Invalidate(x) \/ AnswerLost(x)
  \/ ChangedElsewhere \/ Tick

StateSpec == StateInit /\ [][StateNext]_stateVars

-----------------------------------------------------------------------------
(* Properties.                                                             *)

\* Entries that say what is no longer so.
Stale == {k \in Question : Live(k) /\ cache[k].answer.denied # denied[k]}

\* Changed here, and not forgotten yet.
BeingForgotten(k) == \E x \in Sanction : acting[x] = k[1]

\* Whoever changed what, whatever raced or failed: what the cache says was so less
\* than 15 seconds ago.  And "takes effect on the next request.  Only a restriction
\* applied from somewhere else ... waits out the TTL", unless the entry was filled
\* by a request that had read the database before and was on its way when the
\* account was forgotten.
StaleBounded ==
  \A k \in Stale :
    /\ time < cache[k].answer.ended + CacheTime
    /\ outside > 0 \/ BeingForgotten(k) \/ cache[k].answer.raced
=============================================================================
