------------------------------- MODULE MCGuards ------------------------------
(***************************************************************************)
(* What stands between a user and his actions, each part with a state      *)
(* space of its own which the initial state picks.  Rate limits in one     *)
(* process: `address' has three requests that only count the address and   *)
(* one fault of each kind, though not a drop and a restart; `policy' has   *)
(* two that pass both rules and no fault but a command given up; `bucket'  *)
(* is the other algorithm.  `cache' has one sanction and two requests at a *)
(* time, one after a change made elsewhere.  Moderation: `account' has     *)
(* four calls about one account's restrictions, three at a time but for    *)
(* the last, the other parts three calls, two at a time: `report' and      *)
(* `message', and `locks', which has what can deadlock.                    *)
(***************************************************************************)
EXTENDS RateLimit, TokenBucket, AccountState, Moderation, TLC

CONSTANTS r1, r2, r3, i1, s1, ann, bob, sue, hire, chat, Parts

\* The parts share their requests, which keeps the symmetry small.
TwoRequests == {r1, r2}
ThreeRequests == {r1, r2, r3}
OneInstance == {i1}
TwoSubjects == {ann, bob}
OneSanction == {s1}
OneAccount == {ann}
TwoCapabilities == {hire, chat}
Admins == {ann, sue}
Seniors == {sue}

SafeParts == {"address", "policy", "bucket", "cache", "account", "report",
              "message"}
OnlyAccount == {"account"}

\* A tick for a subject and two for the address; five units of two each, and two.
Windows == [k \in Key |-> IF k = Ip THEN 2 ELSE 1]
Limits  == [k \in Key |-> IF k = Ip THEN 5 ELSE 2]

Symmetry == Permutations(ThreeRequests)

VARIABLE part

Limited ==
  /\ LimitNext
  /\ part = "address" => \A r \in Request : check'[r].at # "new" =>
                           check'[r].rule = 2 /\ check'[r].who = ann
  /\ drops' + restarts' <= 1
  /\ part = "policy" => /\ drops' = 0 /\ restarts' = 0 /\ now' <= 1
                        /\ Cardinality({r \in Request : check'[r].at # "new"}) <= 2

Cached ==
  /\ StateNext
  /\ Cardinality({r \in Check : asking'[r].at # "idle"}) + outside' <= 2

Busy == {c \in Call : txn[c].at # "idle"}

\* The calls of each part, the sanctions they are about, and their links.
Made(t) ==
  CASE part = "account" -> /\ t.fn \in {"sanction", "lift"} /\ t.link = "no"
                           /\ t.op \in {"ban", "suspension"}
    [] part = "report"  -> \/ t.fn = "resolve"
                           \/ /\ t.fn = "triage" /\ t.to \in {NoOne, "nobody", t.by}
                              /\ t.op = "work" <=> t.to = NoOne
                           \/ t.fn = "sanction" /\ t.op = "warning" /\ t.link # "no"
    [] part = "message" -> t.fn \in {"content", "resolve"}
    [] part = "locks"   -> t.op \in {"resolved", "ban"} /\ t.link # "link"

Moderated ==
  /\ ModNext
  /\ \A c \in Busy' : Made(txn'[c])
  /\ part = "account" \/ began' < Begins
  /\ part # "account" \/ began' = Begins => Cardinality(Busy') <= 2

GuardsInit ==
  /\ LimitInit /\ TokenInit /\ StateInit /\ ModInit /\ part \in Parts
  /\ part # "bucket" => where = "redis"
  /\ denied = [k \in Question |-> FALSE]

GuardsNext ==
  /\ UNCHANGED part
  /\ \/ /\ part \in {"address", "policy"} /\ Limited
        /\ UNCHANGED <<bucketVars, stateVars, modVars>>
     \/ /\ part = "bucket" /\ TokenNext
        /\ UNCHANGED <<limitVars, stateVars, modVars>>
     \/ /\ part = "cache" /\ Cached
        /\ UNCHANGED <<limitVars, bucketVars, modVars>>
     \/ /\ part \in {"account", "report", "message", "locks"} /\ Moderated
        /\ UNCHANGED <<limitVars, bucketVars, stateVars>>

GuardsSpec ==
  GuardsInit /\ [][GuardsNext]_<<limitVars, bucketVars, stateVars, modVars, part>>
=============================================================================
