----------------------------- MODULE Moderation -----------------------------
(***************************************************************************)
(* The moderation of one account: its restrictions, one report about it,   *)
(* one message of its, and the ledger (moderation.service.ts over the      *)
(* functions of migration 115, each a READ COMMITTED transaction).  A call *)
(* checks ranks and the report's holder on rows read before its            *)
(* transaction, which then waits for row locks and for the lock that       *)
(* numbers the ledger.  What it writes is visible when it commits, and     *)
(* after its last wait nothing can refuse it: that part is one step.       *)
(***************************************************************************)
EXTENDS Integers, FiniteSets

CONSTANTS
  Call,      \* requests in flight
  Moderator, Senior, Super, \* the admins, and those of the two higher ranks
  NoOne,
  Begins     \* bound on transactions

\* A transaction writes one restriction at most.
Row  == 1..Begins
NoEnd == -1
Kind == {"ban", "suspension", "messaging", "marketplace"}
Closed == {"resolved", "dismissed"}

ASSUME ModeratorRanks == Senior \subseteq Moderator /\ Super \subseteq Senior
ASSUME NoOneIsNoCall == NoOne \notin Call \cup Moderator
ASSUME NobodyIsNoAdmin == "nobody" \notin Moderator \cup {NoOne}
ASSUME ModerationBound == Begins \in Nat

VARIABLES
  restriction, \* account_restrictions
  isBanned,    \* users.is_banned
  report,      \* user_reports: status, assigned_admin_id, resolution
  message,     \* chat_messages.deleted_for_everyone, and by whom
  ledger,      \* moderation_actions
  lock,        \* who holds which row, and the ledger's advisory lock
  txn,         \* each call
  began        \* transactions so far: the clock, since now() is when one began

tables == <<restriction, isBanned, report, message, ledger>>
modVars == <<tables, lock, txn, began>>

\* What is locked: rows, and the number of the ledger's next line.
User == <<"user", 0>>
Report == <<"report", 0>>
Message == <<"message", 0>>
Chain == <<"chain", 0>>
RowLock(r) == <<"restriction", r>>
Lockable == {User, Report, Message, Chain} \cup {RowLock(r) : r \in Row}
Step  == {"idle", "user", "report", "terms", "replace", "row", "check", "flag",
          "message", "seal", "key"}
NoTxn == [at |-> "idle", fn |-> "none", by |-> NoOne, op |-> "none", to |-> NoOne,
          row |-> 0, link |-> "no", seen |-> [status |-> "new", holder |-> NoOne],
          now |-> 0, todo |-> {}, lifts |-> {}, seq |-> 0, result |-> "none"]

Seen  == [status : {"new", "under_review"} \cup Closed,
          holder : Moderator \cup {NoOne}]
Fn    == {"none", "sanction", "lift", "resolve", "triage", "content"}
Txn   == [at : Step, fn : Fn, by : Moderator \cup {NoOne},
          op : {"none", "warning", "work", "hide", "show"} \cup Kind \cup Closed,
          to : Moderator \cup {NoOne, "nobody"}, row : 0..Begins,
          link : {"no", "link", "close"}, seen : Seen, now : Nat,
          todo : SUBSET Row, lifts : SUBSET Row, seq : Nat,
          result : {"none", "dismissed", "action_taken", "no_action"}]
LedgerLine == [seq : Nat, what : {"sanction", "lift", "triage", "reopen", "resolve",
                             "hide", "show"},
          row : 0..Begins, linked : BOOLEAN, at : Nat]

ModTypeOK ==
  /\ restriction \in [Row -> [kind : Kind \cup {"none"}, lifted : BOOLEAN,
                              starts : Nat, ends : Nat \cup {NoEnd}]]
  /\ isBanned \in BOOLEAN
  /\ report \in [status : {"new", "under_review"} \cup Closed,
                 holder : Moderator \cup {NoOne},
                 resolution : {"none", "action_taken", "no_action", "dismissed"}]
  /\ message \in {"shown", "moderated", "deleted"}
  /\ ledger \subseteq LedgerLine
  /\ lock \in [Lockable -> Call \cup {NoOne}]
  /\ txn \in [Call -> Txn] /\ \A c \in Call : txn[c].now <= began
  /\ began \in Nat

ModInit ==
  /\ restriction = [r \in Row |-> [kind |-> "none", lifted |-> FALSE, starts |-> 0,
                                   ends |-> NoEnd]]
  /\ isBanned = FALSE
  /\ report = [status |-> "new", holder |-> NoOne, resolution |-> "none"]
  /\ message = "shown" /\ ledger = {}
  /\ lock = [x \in Lockable |-> NoOne]
  /\ txn = [c \in Call |-> NoTxn] /\ began = 0

-----------------------------------------------------------------------------
(* Transactions.                                                           *)

\* moderation_active_kinds, as a transaction that began at t sees it.
Active(r, t) == /\ restriction[r].kind # "none" /\ ~ restriction[r].lifted
                /\ restriction[r].starts <= t
                /\ restriction[r].ends # NoEnd => t <= restriction[r].ends
ActiveFor(c, k) == {r \in Row : restriction[r].kind = k /\ Active(r, txn[c].now)}

\* The restrictions of a kind that are in force.
InForce(k) == {r \in Row : /\ restriction[r].kind = k /\ ~ restriction[r].lifted
                           /\ restriction[r].ends = NoEnd}

ReadNow == [status |-> report.status, holder |-> report.holder]

\* The service's checks have passed: the transaction begins.
Begin(c, t) ==
  /\ txn[c].at = "idle" /\ began < Begins
  /\ began' = began + 1
  /\ txn' = [txn EXCEPT ![c] = [t EXCEPT !.seen = ReadNow, !.now = began + 1]]
  /\ UNCHANGED <<tables, lock>>

MayLock(c, x) == lock[x] \in {NoOne, c}
Locks(c, x) == MayLock(c, x) /\ lock' = [lock EXCEPT ![x] = c]
\* Mutant: pg_advisory_lock, which outlives the transaction.
KeepsChain(c) == [x \in Lockable |-> IF lock[x] = c /\ x # Chain THEN NoOne ELSE lock[x]]
Released(c) == [x \in Lockable |-> IF lock[x] = c THEN NoOne ELSE lock[x]]
GoesTo(c, place) == txn' = [txn EXCEPT ![c] = [@ EXCEPT !.at = place]]

RollsBack(c) ==
  /\ txn' = [txn EXCEPT ![c] = NoTxn] /\ lock' = Released(c)
  /\ UNCHANGED <<tables, began>>

Commits(c) == txn' = [txn EXCEPT ![c] = NoTxn] /\ lock' = Released(c) /\ began' = began

\* The next number of the ledger, as the seal trigger sees it.
NextSeq == Cardinality(ledger) + 1

Line(c, n, what, row) ==
  [seq |-> n, what |-> what, row |-> row, linked |-> txn[c].link # "no",
   at |-> txn[c].now]

-----------------------------------------------------------------------------
(* Sanctions.                                                              *)

\* SANCTION_MIN_ROLE, and LIFT_MIN_ROLE of what can be lifted.
MayApply(a, k) == CASE k = "warning" -> TRUE [] k = "ban" -> a \in Super
                    [] OTHER -> a \in Senior

\* Mutant: no lock on a report somebody else holds.
MayCloseAny(a) == TRUE

\* "Closing a report through a sanction is still closing it": the report's lock.
MayClose(a) == report.holder \in {NoOne, a} \/ a \in Senior

AskSanction(c) ==
  \E a \in Moderator, k \in Kind \cup {"warning"}, l \in {"no", "link", "close"} :
    /\ MayApply(a, k) /\ (l = "close" => MayClose(a))
    /\ Begin(c, [NoTxn EXCEPT !.at = "user", !.fn = "sanction", !.by = a,
                                !.op = k, !.link = l])

\* Mutant: the user's row is read without FOR UPDATE.
ReadUser(c) ==
  /\ txn[c].at = "user"
  /\ GoesTo(c, IF txn[c].link = "no" THEN "terms" ELSE "report")
  /\ UNCHANGED <<tables, lock, began>>

LockUser(c) ==
  /\ txn[c].at = "user" /\ Locks(c, User)
  /\ GoesTo(c, IF txn[c].link = "no" THEN "terms" ELSE "report")
  /\ UNCHANGED <<tables, began>>

LockItsReport(c) ==
  /\ txn[c].at = "report" /\ txn[c].fn = "sanction" /\ Locks(c, Report)
  /\ GoesTo(c, "terms")
  /\ UNCHANGED <<tables, began>>

\* The restrictions a new one of kind k replaces.
Replaces(c, k) == ActiveFor(c, k) \cup
                  (IF k = "ban" THEN ActiveFor(c, "suspension") ELSE {})

\* A second ban is refused.  What is replaced is locked first, row by row.
SanctionTerms(c) ==
  LET rows == IF txn[c].op = "warning" THEN {} ELSE Replaces(c, txn[c].op) IN
  /\ txn[c].at = "terms"
  /\ IF txn[c].op = "ban" /\ ActiveFor(c, "ban") # {}
     THEN RollsBack(c)
     ELSE /\ txn' = [txn EXCEPT ![c] = [@ EXCEPT !.todo = rows,
                       !.at = IF rows = {} THEN "seal" ELSE "replace"]]
          /\ UNCHANGED <<tables, lock, began>>

NextRow(c) == CHOOSE r \in txn[c].todo : \A s \in txn[c].todo : r <= s

\* A locked row is looked at again: lifted meanwhile, it is left alone.
LockReplaced(c) ==
  LET t == txn[c]
      r == NextRow(c)
  IN
  /\ t.at = "replace" /\ Locks(c, RowLock(r))
  /\ txn' = [txn EXCEPT ![c] = [t EXCEPT !.todo = t.todo \ {r},
               !.lifts = IF restriction[r].lifted THEN t.lifts ELSE t.lifts \cup {r},
               !.at = IF t.todo = {r} THEN "seal" ELSE "replace"]]
  /\ UNCHANGED <<tables, began>>

\* The restrictions, the flag, the ledger, and the report if it closes.
SanctionCommits(c) ==
  LET t == txn[c]
      free == {r \in Row : restriction[r].kind = "none"}
      closes == t.link = "close" /\ report.status \notin Closed
      n == NextSeq + Cardinality(t.lifts)
  IN
  /\ t.at = "seal" /\ t.fn = "sanction" /\ MayLock(c, Chain)
  /\ \E new \in (IF t.op = "warning" THEN {0}
                 ELSE {r \in free : \A s \in free : r <= s}) :
       /\ restriction' = [r \in Row |->
            CASE r = new -> [kind |-> t.op, lifted |-> FALSE,
                            starts |-> t.now, ends |-> NoEnd]
              [] r \in t.lifts -> [restriction[r] EXCEPT !.lifted = TRUE]
              [] OTHER -> restriction[r]]
       /\ ledger' = ledger
            \cup {Line(c, NextSeq + Cardinality({s \in t.lifts : s < r}), "lift", r) :
                  r \in t.lifts}
            \cup {Line(c, n, "sanction", new)}
            \cup (IF closes THEN {Line(c, n + 1, "resolve", 0)} ELSE {})
  /\ isBanned' = (isBanned \/ t.op = "ban")
  /\ report' = IF closes
               THEN [status |-> "resolved", resolution |-> "action_taken",
                     holder |-> IF report.holder = NoOne THEN t.by ELSE report.holder]
               ELSE report
  /\ message' = message
  /\ Commits(c)

\* A dated restriction runs out; nothing is written.
TermEnds(r) ==
  /\ restriction[r].kind \notin {"none", "ban"} /\ restriction[r].ends = NoEnd
  /\ ~ restriction[r].lifted
  /\ restriction' = [restriction EXCEPT ![r] = [@ EXCEPT !.ends = began]]
  /\ UNCHANGED <<isBanned, report, message, ledger, lock, txn, began>>

AskLift(c) ==
  \E a \in Moderator, r \in Row :
    /\ restriction[r].kind # "none" /\ MayApply(a, restriction[r].kind)
    /\ Begin(c, [NoTxn EXCEPT !.at = "row", !.fn = "lift", !.by = a, !.row = r,
                                !.op = restriction[r].kind])

\* Mutant: an expiry is checked, a lift is not.
NotEnded(c, r) == restriction[r].ends # NoEnd => txn[c].now <= restriction[r].ends

\* Whether the locked restriction can be lifted.
Liftable(c, r) ==
  /\ ~ restriction[r].lifted
  /\ restriction[r].ends # NoEnd => txn[c].now <= restriction[r].ends

LockLifted(c) ==
  LET r == txn[c].row IN
  /\ txn[c].at = "row" /\ MayLock(c, RowLock(r))
  /\ IF Liftable(c, r)
     THEN /\ Locks(c, RowLock(r)) /\ GoesTo(c, IF txn[c].op = "ban" THEN "check" ELSE "seal")
          /\ UNCHANGED <<tables, began>>
     ELSE RollsBack(c)

\* The flag is cleared only if no other ban is in force.
LiftChecks(c) ==
  /\ txn[c].at = "check"
  /\ GoesTo(c, IF ActiveFor(c, "ban") \subseteq {txn[c].row} THEN "flag" ELSE "seal")
  /\ UNCHANGED <<tables, lock, began>>

\* A flag that is clear already matches no row, and nothing is waited for.
LiftFlag(c) ==
  /\ txn[c].at = "flag" /\ (IF isBanned THEN Locks(c, User) ELSE lock' = lock)
  /\ GoesTo(c, "seal")
  /\ UNCHANGED <<tables, began>>

-----------------------------------------------------------------------------
(* Reports.                                                                *)

AskResolve(c) ==
  \E a \in Moderator, outcome \in Closed :
    /\ MayClose(a)
    /\ Begin(c, [NoTxn EXCEPT !.at = "report", !.fn = "resolve", !.by = a,
                                !.op = outcome])

\* triageReport: claim it, release it, hand it over, and put it under review.
MayTriage(a, to, work) ==
  /\ to \in Moderator => \/ to = a /\ report.holder \in {NoOne, a}
                         \/ a \in Senior
  /\ to = "nobody" => MayClose(a)
  /\ work => MayClose(a) /\ (report.status \in Closed => a \in Senior)

AskTriage(c) ==
  \E a \in Moderator, to \in Moderator \cup {NoOne, "nobody"}, work \in BOOLEAN :
    /\ MayTriage(a, to, work)
    /\ Begin(c, [NoTxn EXCEPT !.at = "report", !.fn = "triage", !.by = a, !.to = to,
                                !.op = IF work THEN "work" ELSE "none"])

\* A sanction or content action of the ledger that names the report.
Acted == \E e \in ledger : e.linked /\ e.what \in {"sanction", "hide"}

\* Mutant: the report is read, and its resolution derived, without FOR UPDATE.
ReadResolved(c) ==
  /\ txn[c].at = "report" /\ txn[c].fn = "resolve"
  /\ IF report.status \in Closed THEN RollsBack(c)
     ELSE /\ txn' = [txn EXCEPT ![c] = [@ EXCEPT !.at = "seal", !.result =
                       CASE txn[c].op = "dismissed" -> "dismissed"
                         [] txn[c].op = "resolved" /\ Acted -> "action_taken"
                         [] OTHER -> "no_action"]]
          /\ UNCHANGED <<tables, lock, began>>

\* Locked, the report must still be open; the resolution is derived here.
LockResolved(c) ==
  /\ txn[c].at = "report" /\ txn[c].fn = "resolve" /\ MayLock(c, Report)
  /\ IF report.status \in Closed THEN RollsBack(c)
     ELSE /\ Locks(c, Report)
          /\ txn' = [txn EXCEPT ![c] = [@ EXCEPT !.at = "seal", !.result =
                       CASE txn[c].op = "dismissed" -> "dismissed"
                         [] txn[c].op = "resolved" /\ Acted -> "action_taken"
                         [] OTHER -> "no_action"]]
          /\ UNCHANGED <<tables, began>>

\* What the triage makes of the locked row.
TriageStatus(c) == IF txn[c].op = "work" THEN "under_review" ELSE report.status
TriageHolder(c) ==
  CASE txn[c].to = NoOne -> report.holder
    [] txn[c].to = "nobody" -> NoOne
    [] OTHER -> txn[c].to

LockTriaged(c) ==
  /\ txn[c].at = "report" /\ txn[c].fn = "triage" /\ MayLock(c, Report)
  /\ IF TriageStatus(c) = report.status /\ TriageHolder(c) = report.holder
     THEN RollsBack(c)
     ELSE Locks(c, Report) /\ GoesTo(c, "seal") /\ UNCHANGED <<tables, began>>

-----------------------------------------------------------------------------
(* The message.                                                            *)

AskContent(c) ==
  \E a \in Moderator, op \in {"hide", "show"}, l \in {"no", "link"} :
    Begin(c, [NoTxn EXCEPT !.at = "message", !.fn = "content", !.by = a,
                             !.op = op, !.link = l])

\* The last content action of the ledger: by created_at, which is when its
\* transaction began, and then by number.
LastIs(what) ==
  \E e \in {d \in ledger : d.what \in {"hide", "show"}} :
    /\ e.what = what
    /\ \A d \in ledger : d.what \in {"hide", "show"} =>
         d.at < e.at \/ (d.at = e.at /\ d.seq <= e.seq)

\* Mutant: whatever is hidden is shown again.
ChangeableAny(op) == (op = "hide") = (message = "shown")

\* Only what is shown is hidden, and only what moderation hid is shown again.
Changeable(op) == IF op = "hide" THEN message = "shown"
                  ELSE message # "shown" /\ LastIs("hide")

LockMessage(c) ==
  /\ txn[c].at = "message" /\ MayLock(c, Message)
  /\ IF Changeable(txn[c].op)
     THEN Locks(c, Message) /\ GoesTo(c, "seal") /\ UNCHANGED <<tables, began>>
     ELSE RollsBack(c)

\* External: the sender deletes a message for everyone, from the app.
SenderDeletes ==
  /\ lock[Message] = NoOne /\ message = "shown" /\ message' = "deleted"
  /\ UNCHANGED <<restriction, isBanned, report, ledger, lock, txn, began>>

-----------------------------------------------------------------------------
(* The ledger.                                                             *)

\* Mutant: no advisory lock.
SealsFree(c) ==
  /\ txn[c].at = "seal" /\ txn[c].fn # "sanction"
  /\ txn' = [txn EXCEPT ![c] = [@ EXCEPT !.at = "key", !.seq = NextSeq]]
  /\ UNCHANGED <<tables, lock, began>>

\* fn_moderation_actions_seal: one call at a time numbers its row.
Seals(c) ==
  /\ txn[c].at = "seal" /\ txn[c].fn # "sanction" /\ Locks(c, Chain)
  /\ txn' = [txn EXCEPT ![c] = [@ EXCEPT !.at = "key", !.seq = NextSeq]]
  /\ UNCHANGED <<tables, began>>

\* The foreign keys of the new row: its user and its report must not be locked
\* FOR UPDATE.  A lift's lock on the user is of the weaker kind.
UserFree(c) == lock[User] \in {NoOne, c} \cup {d \in Call : txn[d].fn = "lift"}
ReportFree(c) == txn[c].link # "no" => MayLock(c, Report)
KeysFree(c) == UserFree(c) /\ ReportFree(c)

Writes(c, what) == ledger' = ledger \cup {Line(c, txn[c].seq, what, txn[c].row)}

LiftCommits(c) ==
  /\ txn[c].at = "key" /\ txn[c].fn = "lift" /\ KeysFree(c)
  /\ restriction' = [restriction EXCEPT ![txn[c].row] = [@ EXCEPT !.lifted = TRUE]]
  /\ isBanned' = (isBanned /\ lock[User] # c)
  /\ Writes(c, "lift") /\ UNCHANGED <<report, message>> /\ Commits(c)

ResolveCommits(c) ==
  /\ txn[c].at = "key" /\ txn[c].fn = "resolve" /\ KeysFree(c)
  /\ report' = [status |-> txn[c].op, resolution |-> txn[c].result,
                holder |-> IF report.holder = NoOne THEN txn[c].by ELSE report.holder]
  /\ Writes(c, "resolve") /\ UNCHANGED <<restriction, isBanned, message>> /\ Commits(c)

TriageCommits(c) ==
  LET reopens == report.status \in Closed /\ TriageStatus(c) \notin Closed IN
  /\ txn[c].at = "key" /\ txn[c].fn = "triage" /\ KeysFree(c)
  /\ report' = [status |-> TriageStatus(c), holder |-> TriageHolder(c),
                resolution |-> IF reopens THEN "none" ELSE report.resolution]
  /\ Writes(c, IF reopens THEN "reopen" ELSE "triage")
  /\ UNCHANGED <<restriction, isBanned, message>> /\ Commits(c)

ContentCommits(c) ==
  /\ txn[c].at = "key" /\ txn[c].fn = "content" /\ KeysFree(c)
  /\ message' = IF txn[c].op = "hide" THEN "moderated" ELSE "shown"
  /\ Writes(c, txn[c].op) /\ UNCHANGED <<restriction, isBanned, report>> /\ Commits(c)

\* Notes are ledger rows and nothing else: no step of theirs is missed here.

\* External: the caller's connection goes, the transaction with it.
Aborts(c) == txn[c].at # "idle" /\ RollsBack(c)

\* What a call waits for now.
Waits(c) ==
  LET at == txn[c].at
      needs == CASE at = "user" -> {User}
                 [] at = "flag" -> IF isBanned THEN {User} ELSE {}
                 [] at = "report" -> {Report}
                 [] at = "replace" -> {RowLock(NextRow(c))}
                 [] at = "row" -> {RowLock(txn[c].row)}
                 [] at = "message" -> {Message}
                 [] at = "seal" -> {Chain}
                 [] OTHER -> {}
  IN {x \in needs : ~ MayLock(c, x)} \cup
     (IF at = "key" /\ ~ UserFree(c) THEN {User} ELSE {}) \cup
     (IF at = "key" /\ ~ ReportFree(c) THEN {Report} ELSE {})

Blockers(c) == {lock[x] : x \in Waits(c)}

\* External: Postgres finds calls that wait for each other and ends one.
DeadlockFound(c) ==
  /\ \E S \in SUBSET Call : c \in S /\ \A d \in S : Blockers(d) \cap S # {}
  /\ RollsBack(c)

TakesLock(c) == \/ LockUser(c) \/ LockItsReport(c) \/ LockReplaced(c)
                \/ LockLifted(c) \/ LiftFlag(c) \/ LockResolved(c)
                \/ LockTriaged(c) \/ LockMessage(c) \/ Seals(c)
TxnCommits(c) == \/ SanctionCommits(c) \/ LiftCommits(c) \/ ResolveCommits(c)
                 \/ TriageCommits(c) \/ ContentCommits(c)
RunsOn(c) == TakesLock(c) \/ SanctionTerms(c) \/ LiftChecks(c) \/ TxnCommits(c)

Asks(c) == \/ AskSanction(c) \/ AskLift(c) \/ AskResolve(c) \/ AskTriage(c)
           \/ AskContent(c)

ModNext ==
  \/ \E c \in Call : Asks(c) \/ RunsOn(c) \/ Aborts(c) \/ DeadlockFound(c)
  \/ \E r \in Row : TermEnds(r)
  \/ SenderDeletes

\* Postgres grants a lock in the order it was asked for.
LocksFair == \A c \in Call : SF_modVars(RunsOn(c)) /\ WF_modVars(DeadlockFound(c))
ModSpec == ModInit /\ [][ModNext]_modVars

-----------------------------------------------------------------------------
(* Properties.                                                             *)

\* "users.is_banned: a mirror that cannot drift" (migration 114).
BanMirrored == isBanned <=> InForce("ban") # {}

\* "A new sanction replaces the one of its kind in force ... one suspension, not
\* two overlapping ones", no account is banned twice, and the flag mirrors the ban.
\* Unless the later of two rows was written by the transaction that began first,
\* to which the other one starts in the future.
RestrictionsAgree ==
  /\ \A k \in Kind : \A r, s \in InForce(k) :
       r < s => restriction[r].starts > restriction[s].starts
  /\ \/ BanMirrored
     \/ \E r, s \in Row : /\ r < s /\ restriction[r].kind = "ban"
                          /\ restriction[s].kind = "ban"
                          /\ restriction[r].starts > restriction[s].starts

\* Every restriction has one line in the ledger for its start and, if it was
\* lifted, one for that, whoever lifted it and whatever met; no two lines have one
\* number, and no number is missing.
LedgerTells ==
  /\ \A r \in Row :
       LET lines(w) == Cardinality({e \in ledger : e.what = w /\ e.row = r}) IN
       /\ lines("sanction") = IF restriction[r].kind = "none" THEN 0 ELSE 1
       /\ lines("lift") = IF restriction[r].lifted THEN 1 ELSE 0
  /\ {e.seq : e \in ledger} = 1..Cardinality(ledger)

\* "The resolution is derived, not claimed": a report closed as acted upon has an
\* action before its closing in the ledger, one closed without action has none.
ResolutionDerived ==
  LET acts == {e \in ledger : e.linked /\ e.what \in {"sanction", "hide"}}
      closings == {e \in ledger : e.what = "resolve"}
      before == {a \in acts : \E e \in closings : a.seq < e.seq}
  IN
  /\ report.resolution = "action_taken" => before # {}
  /\ report.resolution = "no_action" => before = {}

\* Who changes a report had the right to ("reopening ... is a senior call"), unless
\* it changed after he was checked.
ReportRules ==
  [][report' # report =>
       \E c \in Call :
         /\ txn[c].at # "idle" /\ txn'[c].at = "idle"
         /\ \/ txn[c].by \in Senior \/ txn[c].seen # ReadNow
            \/ /\ report.holder \in {NoOne, txn[c].by}
               /\ report.status \in Closed => report'.status \in Closed]_modVars

\* "A message its sender deleted stays deleted", unless a call that began earlier
\* was written later.
DeletedStaysInOrder ==
  [][message = "deleted" /\ message' # "deleted" =>
       \E d, e \in ledger : /\ {d.what, e.what} \subseteq {"hide", "show"}
                            /\ d.seq < e.seq /\ d.at > e.at]_modVars

\* "Moderation history is append-only", and chained: a line once written stays,
\* and comes before every line written later, so what was read of the ledger up to
\* some number is for good all there is up to it.
LedgerAppends ==
  [][ledger' # ledger =>
       /\ ledger \subseteq ledger'
       /\ \A e \in ledger' \ ledger, d \in ledger : d.seq < e.seq]_modVars

\* What moderation may not undo.
ModerationRules == ReportRules /\ DeletedStaysInOrder /\ LedgerAppends

\* Whoever waits for a lock waits for another call in flight, never for one that
\* is over; so when all calls in flight wait, some wait for each other, and
\* Postgres has one to end.
WaitsResolve ==
  LET flying == {c \in Call : txn[c].at # "idle"} IN
  /\ \A c \in Call : Blockers(c) \subseteq flying \ {c}
  /\ flying # {} /\ (\A c \in flying : Blockers(c) # {}) =>
       \E S \in SUBSET Call : S # {} /\ \A d \in S : Blockers(d) \cap S # {}

\* Calls that wait for each other's locks all end.
CallEnds == \A c \in Call : txn[c].at # "idle" ~> txn[c].at = "idle"
=============================================================================
