-------------------------- MODULE Moderation_proofs -------------------------
(***************************************************************************)
(* The properties of Moderation hold for any number of calls, admins and   *)
(* restrictions: what locks a call holds, the numbers of the ledger, its   *)
(* lines, the order of the restrictions, the report and the message, each  *)
(* on top of the one before.                                               *)
(***************************************************************************)
EXTENDS Moderation, FiniteSetTheorems, WellFoundedInduction, TLAPS

-----------------------------------------------------------------------------
(* Places and types.                                                       *)

\* What a call can be at each place of its transaction.
CallAt(t) ==
  /\ t.at = "idle" => t = NoTxn
  /\ t.fn = "none" => t.at = "idle"
  /\ t.fn = "sanction" =>
       /\ t.at \in {"user", "report", "terms", "replace", "seal"}
       /\ t.op \in Kind \cup {"warning"}
  /\ t.fn = "lift" =>
       /\ t.at \in {"row", "check", "flag", "seal", "key"}
       /\ t.op \in Kind /\ t.row \in Row
       /\ t.at \in {"check", "flag"} => t.op = "ban"
  /\ t.fn = "resolve" => t.at \in {"report", "seal", "key"} /\ t.op \in Closed
  /\ t.fn = "triage" => t.at \in {"report", "seal", "key"} /\ t.op \in {"work", "none"}
  /\ t.fn = "content" => t.at \in {"message", "seal", "key"} /\ t.op \in {"hide", "show"}
  /\ t.fn # "sanction" \/ t.at \notin {"replace", "seal"} => t.lifts = {}
  /\ t.at = "replace" <=> t.todo # {}
  /\ t.fn \in {"lift", "resolve", "triage"} => t.link = "no"

CallInv ==
  /\ ModTypeOK /\ IsFiniteSet(ledger)
  /\ \A c \in Call : CallAt(txn[c])
  /\ \A c \in Call : \A r \in txn[c].todo \cup txn[c].lifts :
       restriction[r].kind \notin {"none", "ban"}

\* The lowest of some rows: restrictions are locked, and taken, in order.
LEMMA LowestRow ==
  ASSUME NEW S \in SUBSET Row, S # {}
  PROVE  \E r \in S : \A s \in S : r <= s
<1>1. S \subseteq Nat
  BY ModerationBound DEF Row
<1>2. PICK least \in S : \A s \in S : <<s, least>> \notin OpToRel(<, Nat)
  BY <1>1, NatLessThanWellFounded, WFMin
<1>3. \A s \in S : ~ s < least
  BY <1>1, <1>2 DEF OpToRel
<1> QED BY <1>1, <1>3

\* Only one call moves at a time, and takes no lock from another.
Keeps(c) ==
  \A d \in Call \ {c} : /\ txn'[d] = txn[d]
                        /\ \A x \in Lockable : lock'[x] = d <=> lock[x] = d

Acts(c) == Asks(c) \/ RunsOn(c) \/ Aborts(c) \/ DeadlockFound(c)

LEMMA OthersKept ==
  ASSUME CallInv, NEW c \in Call, Acts(c)
  PROVE  /\ Keeps(c)
         /\ txn' = [txn EXCEPT ![c] = txn'[c]]
<1> USE NoOneIsNoCall DEF CallInv, ModTypeOK, Keeps, MayLock
<1>1. ASSUME RollsBack(c) PROVE Keeps(c) /\ txn' = [txn EXCEPT ![c] = txn'[c]]
  BY <1>1 DEF RollsBack, Released
<1>2. ASSUME Asks(c) PROVE Keeps(c) /\ txn' = [txn EXCEPT ![c] = txn'[c]]
  BY <1>2 DEF Asks, AskSanction, AskLift, AskResolve, AskTriage, AskContent, Begin
<1>3. ASSUME TakesLock(c) PROVE Keeps(c) /\ txn' = [txn EXCEPT ![c] = txn'[c]]
  BY <1>1, <1>3 DEF TakesLock, LockUser, LockItsReport, LockReplaced, LockLifted,
     LiftFlag, LockResolved, LockTriaged, LockMessage, Seals, Locks, GoesTo
<1>4. ASSUME SanctionTerms(c) \/ LiftChecks(c)
      PROVE  Keeps(c) /\ txn' = [txn EXCEPT ![c] = txn'[c]]
  BY <1>1, <1>4 DEF SanctionTerms, LiftChecks, GoesTo
<1>5. ASSUME TxnCommits(c) PROVE Keeps(c) /\ txn' = [txn EXCEPT ![c] = txn'[c]]
  BY <1>5 DEF TxnCommits, SanctionCommits, LiftCommits, ResolveCommits, TriageCommits,
     ContentCommits, Commits, Released
<1> QED BY <1>1, <1>2, <1>3, <1>4, <1>5 DEF Acts, RunsOn, Aborts, DeadlockFound

\* A set of rows is finite; the ledger has a next number.
LEMMA CountsAreNumbers ==
  /\ \A S \in SUBSET Row : IsFiniteSet(S) /\ Cardinality(S) \in Nat
  /\ IsFiniteSet(ledger) => NextSeq \in Nat /\ Cardinality(ledger) \in Nat
<1>1. IsFiniteSet(Row)
  BY FS_Interval, ModerationBound DEF Row
<1> QED BY <1>1, FS_Subset, FS_CardinalityType DEF NextSeq

\* What a call begins with.
LEMMA AskStep ==
  ASSUME CallInv, NEW c \in Call, Asks(c)
  PROVE  /\ txn'[c] \in Txn /\ CallAt(txn'[c]) /\ txn'[c].now <= began' /\ began' \in Nat
         /\ txn'[c].at \in {"user", "row", "report", "message"}
         /\ txn'[c].at = "report" => txn'[c].fn # "sanction"
         /\ txn'[c].fn = "lift" => restriction[txn'[c].row].kind = txn'[c].op
<1> DEFINE First(t) == /\ t.at \in {"user", "row", "report", "message"}
                       /\ t.at = "report" => t.fn # "sanction"
                       /\ t.fn = "lift" => restriction[t.row].kind = t.op
           Goal == /\ txn'[c] \in Txn /\ CallAt(txn'[c])
                   /\ txn'[c].now <= began' /\ began' \in Nat /\ First(txn'[c])
<1>0. NoTxn \in Txn
  BY ModerationBound DEF NoTxn, Txn, Fn, Step, Seen
<1>1. ASSUME NEW t \in Txn, CallAt(t), First(t), Begin(c, t)
      PROVE  Goal
  <2>1. /\ ReadNow \in Seen /\ began + 1 \in Nat /\ began' = began + 1
        /\ txn'[c] = [t EXCEPT !.seen = ReadNow, !.now = began + 1]
    BY <1>1 DEF CallInv, ModTypeOK, Seen, ReadNow, Begin
  <2>2. txn'[c] \in Txn /\ txn'[c].now = began + 1 /\ txn'[c].at = t.at /\ txn'[c].fn = t.fn
        /\ txn'[c].row = t.row /\ txn'[c].op = t.op
    BY <2>1 DEF Txn
  <2>3. CallAt(txn'[c])
    BY <1>1, <2>1 DEF Txn, CallAt
  <2>4. txn'[c].now <= began'
    BY <2>1, <2>2
  <2> QED BY <1>1, <2>1, <2>2, <2>3, <2>4
<1>2. ASSUME NEW a \in Moderator, NEW k \in Kind \cup {"warning"},
             NEW l \in {"no", "link", "close"}, NEW t,
             t = [NoTxn EXCEPT !.at = "user", !.fn = "sanction", !.by = a, !.op = k, !.link = l]
      PROVE  t \in Txn /\ CallAt(t) /\ First(t)
  <2>1. t \in Txn
    BY <1>0, <1>2 DEF Txn, Fn, Step
  <2> QED BY <1>2, <2>1 DEF NoTxn, CallAt
<1>3. ASSUME NEW a \in Moderator, NEW k \in Kind, NEW r \in Row, NEW t, restriction[r].kind = k,
             t = [NoTxn EXCEPT !.at = "row", !.fn = "lift", !.by = a, !.row = r, !.op = k]
      PROVE  t \in Txn /\ CallAt(t) /\ First(t)
  <2>0. r \in 0..Begins
    BY ModerationBound DEF Row
  <2>1. t \in Txn
    BY <1>0, <1>3, <2>0 DEF Txn, Fn, Step
  <2> QED BY <1>3, <2>1 DEF NoTxn, CallAt
<1>4. ASSUME NEW a \in Moderator, NEW k \in Closed, NEW t,
             t = [NoTxn EXCEPT !.at = "report", !.fn = "resolve", !.by = a, !.op = k]
      PROVE  t \in Txn /\ CallAt(t) /\ First(t)
  <2>1. t \in Txn
    BY <1>0, <1>4 DEF Txn, Fn, Step
  <2> QED BY <1>4, <2>1 DEF NoTxn, CallAt
<1>5. ASSUME NEW a \in Moderator, NEW to \in Moderator \cup {NoOne, "nobody"},
             NEW k \in {"work", "none"}, NEW t,
             t = [NoTxn EXCEPT !.at = "report", !.fn = "triage", !.by = a, !.to = to, !.op = k]
      PROVE  t \in Txn /\ CallAt(t) /\ First(t)
  <2>1. t \in Txn
    BY <1>0, <1>5 DEF Txn, Fn, Step
  <2> QED BY <1>5, <2>1 DEF NoTxn, CallAt
<1>6. ASSUME NEW a \in Moderator, NEW k \in {"hide", "show"}, NEW l \in {"no", "link"}, NEW t,
             t = [NoTxn EXCEPT !.at = "message", !.fn = "content", !.by = a, !.op = k, !.link = l]
      PROVE  t \in Txn /\ CallAt(t) /\ First(t)
  <2>1. t \in Txn
    BY <1>0, <1>6 DEF Txn, Fn, Step
  <2> QED BY <1>6, <2>1 DEF NoTxn, CallAt
<1> SUFFICES Goal
  BY DEF Goal
<1> HIDE DEF Goal
<1>7. CASE AskSanction(c)
  BY <1>1, <1>2, <1>7 DEF AskSanction
<1>8. CASE AskLift(c)
  <2>1. \A r \in Row : restriction[r].kind # "none" => restriction[r].kind \in Kind
    BY DEF CallInv, ModTypeOK
  <2> QED BY <1>1, <1>3, <1>8, <2>1 DEF AskLift
<1>9. CASE AskResolve(c)
  BY <1>1, <1>4, <1>9 DEF AskResolve
<1>10. CASE AskTriage(c)
  <2>1. PICK a \in Moderator, to \in Moderator \cup {NoOne, "nobody"}, work \in BOOLEAN :
          Begin(c, [NoTxn EXCEPT !.at = "report", !.fn = "triage", !.by = a, !.to = to,
                                 !.op = IF work THEN "work" ELSE "none"])
    BY <1>10 DEF AskTriage
  <2>2. CASE work
    BY <1>1, <1>5, <2>1, <2>2
  <2>3. CASE ~ work
    BY <1>1, <1>5, <2>1, <2>3
  <2> QED BY <2>2, <2>3
<1>11. CASE AskContent(c)
  BY <1>1, <1>6, <1>11 DEF AskContent
<1> QED BY <1>7, <1>8, <1>9, <1>10, <1>11 DEF Asks

\* What a row-by-row lock takes next is one of the rows to be replaced.
LEMMA NextRowIsThere ==
  ASSUME CallInv, NEW c \in Call, txn[c].todo # {}
  PROVE  NextRow(c) \in txn[c].todo /\ NextRow(c) \in Row
<1>1. txn[c].todo \in SUBSET Row
  BY DEF CallInv, ModTypeOK, Txn
<1>2. \E r \in txn[c].todo : \A s \in txn[c].todo : r <= s
  BY <1>1, LowestRow
<1> QED BY <1>1, <1>2 DEF NextRow

\* A call that runs on or rolls back stays well formed, and starts nothing.
LEMMA RunStep ==
  ASSUME CallInv, NEW c \in Call, RunsOn(c) \/ RollsBack(c)
  PROVE  /\ txn'[c] \in Txn /\ CallAt(txn'[c]) /\ txn'[c].now <= began'
         /\ began' = began
<1> DEFINE Good(t) == t \in Txn /\ CallAt(t) /\ t.now <= began
<1> SUFFICES began' = began /\ Good(txn'[c])
  OBVIOUS
<1>0. /\ txn[c] \in Txn /\ CallAt(txn[c]) /\ txn[c].now <= began /\ began \in Nat
      /\ NextSeq \in Nat
  BY CountsAreNumbers DEF CallInv, ModTypeOK
<1>1. Good(NoTxn)
  <2>1. NoTxn \in Txn
    BY ModerationBound DEF NoTxn, Txn, Fn, Step, Seen
  <2> QED BY <1>0, <2>1 DEF CallAt, NoTxn
<1>2. \A t : txn' = [txn EXCEPT ![c] = t] => txn'[c] = t
  BY DEF CallInv, ModTypeOK
<1>3. \A p \in Step : [txn[c] EXCEPT !.at = p] \in Txn
  BY <1>0 DEF Txn
<1> HIDE DEF Good
<1>4. ASSUME RollsBack(c) PROVE began' = began /\ Good(txn'[c])
  BY <1>1, <1>2, <1>4 DEF RollsBack
<1>5. ASSUME NEW p \in Step, GoesTo(c, p), CallAt([txn[c] EXCEPT !.at = p])
      PROVE  Good(txn'[c])
  <2>1. txn'[c] = [txn[c] EXCEPT !.at = p]
    BY <1>2, <1>5 DEF GoesTo
  <2>2. txn'[c].now <= began
    BY <1>0, <2>1 DEF Txn
  <2> QED BY <1>3, <1>5, <2>1, <2>2 DEF Good
<1>6. CASE LockUser(c)
  <2>1. \A p \in {"terms", "report"} : CallAt([txn[c] EXCEPT !.at = p])
    BY <1>0, <1>6 DEF LockUser, Txn, CallAt
  <2> QED BY <1>5, <1>6, <2>1 DEF LockUser, Step
<1>7. CASE LockItsReport(c)
  <2>1. CallAt([txn[c] EXCEPT !.at = "terms"])
    BY <1>0, <1>7 DEF LockItsReport, Txn, CallAt
  <2> QED BY <1>5, <1>7, <2>1 DEF LockItsReport, Step
<1>8. CASE SanctionTerms(c)
  <2> DEFINE rows == IF txn[c].op = "warning" THEN {} ELSE Replaces(c, txn[c].op)
  <2>1. rows \in SUBSET Row
    BY DEF Replaces, ActiveFor
  <2>2. CASE RollsBack(c)
    BY <1>4, <2>2
  <2>3. CASE ~ RollsBack(c)
    <3> HIDE DEF rows
    <3>1. /\ txn' = [txn EXCEPT ![c] = [txn[c] EXCEPT !.todo = rows,
                       !.at = IF rows = {} THEN "seal" ELSE "replace"]]
          /\ began' = began /\ txn[c].at = "terms"
      BY <1>8, <2>3 DEF SanctionTerms, rows
    <3>2. PICK place \in {"seal", "replace"} :
            /\ place = "replace" <=> rows # {}
            /\ txn' = [txn EXCEPT ![c] = [txn[c] EXCEPT !.todo = rows, !.at = place]]
      BY <3>1
    <3>3. txn'[c] = [txn[c] EXCEPT !.todo = rows, !.at = place]
      BY <1>2, <3>2
    <3>4. txn'[c] \in Txn /\ txn'[c].now <= began
      BY <1>0, <2>1, <3>3 DEF Txn, Step
    <3>5. CallAt(txn'[c])
      BY <1>0, <2>1, <3>1, <3>2, <3>3 DEF Txn, CallAt
    <3> QED BY <3>1, <3>4, <3>5 DEF Good
  <2> QED BY <2>2, <2>3
<1>9. CASE LockReplaced(c)
  <2> DEFINE r == NextRow(c)
             rest == txn[c].todo \ {r}
             lifts == IF restriction[r].lifted THEN txn[c].lifts ELSE txn[c].lifts \cup {r}
             place == IF txn[c].todo = {r} THEN "seal" ELSE "replace"
  <2>1. /\ txn[c].at = "replace" /\ began' = began
        /\ txn' = [txn EXCEPT ![c] = [txn[c] EXCEPT !.todo = rest, !.lifts = lifts,
                                                    !.at = place]]
    BY <1>9 DEF LockReplaced
  <2>2. txn[c].todo # {} /\ r \in txn[c].todo /\ r \in Row
    BY <1>0, <2>1, NextRowIsThere DEF CallAt
  <2>3. rest \in SUBSET Row /\ lifts \in SUBSET Row /\ place \in {"seal", "replace"}
        /\ (place = "replace" <=> rest # {})
    BY <1>0, <2>2 DEF Txn
  <2> HIDE DEF rest, lifts, place
  <2>4. txn'[c] = [txn[c] EXCEPT !.todo = rest, !.lifts = lifts, !.at = place]
    BY <1>2, <2>1
  <2>5. txn'[c] \in Txn /\ txn'[c].now <= began
    BY <1>0, <2>3, <2>4 DEF Txn, Step
  <2>6. txn[c].fn = "sanction"
    BY <1>0, <2>1 DEF Txn, Fn, CallAt
  <2>7. CallAt(txn'[c])
    BY <1>0, <2>1, <2>3, <2>4, <2>6 DEF Txn, CallAt
  <2> QED BY <2>1, <2>5, <2>7 DEF Good
<1>10. CASE LockLifted(c)
  <2>1. ASSUME NEW p \in {"check", "seal"}, txn[c].op = "ban" \/ p = "seal", txn[c].at = "row"
        PROVE  CallAt([txn[c] EXCEPT !.at = p])
    BY <1>0, <2>1 DEF Txn, CallAt
  <2> QED BY <1>4, <1>5, <1>10, <2>1 DEF LockLifted, Step
<1>11. CASE LiftChecks(c)
  <2>1. \A p \in {"flag", "seal"} : CallAt([txn[c] EXCEPT !.at = p])
    BY <1>0, <1>11 DEF LiftChecks, Txn, CallAt
  <2> QED BY <1>5, <1>11, <2>1 DEF LiftChecks, Step
<1>12. CASE LiftFlag(c)
  <2>1. CallAt([txn[c] EXCEPT !.at = "seal"])
    BY <1>0, <1>12 DEF LiftFlag, Txn, CallAt
  <2> QED BY <1>5, <1>12, <2>1 DEF LiftFlag, Step
<1>13. CASE LockResolved(c)
  <2>1. CASE RollsBack(c)
    BY <1>4, <2>1
  <2>2. CASE ~ RollsBack(c)
    <3>1. PICK result \in {"dismissed", "action_taken", "no_action"} :
            /\ txn' = [txn EXCEPT ![c] = [txn[c] EXCEPT !.at = "seal", !.result = result]]
            /\ began' = began /\ txn[c].at = "report"
      BY <1>13, <2>2 DEF LockResolved
    <3>2. txn'[c] = [txn[c] EXCEPT !.at = "seal", !.result = result]
      BY <1>2, <3>1
    <3>3. txn'[c] \in Txn /\ txn'[c].now <= began
      BY <1>0, <3>2 DEF Txn, Step
    <3>4. CallAt(txn'[c])
      BY <1>0, <3>1, <3>2 DEF Txn, CallAt
    <3> QED BY <3>1, <3>3, <3>4 DEF Good
  <2> QED BY <2>1, <2>2
<1>14. CASE LockTriaged(c)
  <2>1. txn[c].at = "report" => CallAt([txn[c] EXCEPT !.at = "seal"])
    BY <1>0, <1>14 DEF LockTriaged, Txn, CallAt
  <2> QED BY <1>4, <1>5, <1>14, <2>1 DEF LockTriaged, Step
<1>15. CASE LockMessage(c)
  <2>1. txn[c].at = "message" => CallAt([txn[c] EXCEPT !.at = "seal"])
    BY <1>0 DEF Txn, CallAt
  <2> QED BY <1>4, <1>5, <1>15, <2>1 DEF LockMessage, Step
<1>16. CASE Seals(c)
  <2>1. /\ txn' = [txn EXCEPT ![c] = [txn[c] EXCEPT !.at = "key", !.seq = NextSeq]]
        /\ began' = began /\ txn[c].at = "seal" /\ txn[c].fn # "sanction"
    BY <1>16 DEF Seals
  <2>2. txn'[c] = [txn[c] EXCEPT !.at = "key", !.seq = NextSeq]
    BY <1>2, <2>1
  <2>3. txn'[c] \in Txn /\ txn'[c].now <= began
    BY <1>0, <2>2 DEF Txn, Step
  <2>4. CallAt(txn'[c])
    BY <1>0, <2>1, <2>2 DEF Txn, CallAt
  <2> QED BY <2>1, <2>3, <2>4 DEF Good
<1>17. CASE TxnCommits(c)
  BY <1>1, <1>2, <1>17 DEF TxnCommits, SanctionCommits, LiftCommits, ResolveCommits,
     TriageCommits, ContentCommits, Commits
<1> QED BY <1>4, <1>6, <1>7, <1>8, <1>9, <1>10, <1>11, <1>12, <1>13, <1>14, <1>15,
           <1>16, <1>17 DEF RunsOn, TakesLock

\* A new line of the ledger.
LEMMA LineTyped ==
  ASSUME CallInv, NEW c \in Call, NEW n \in Nat, NEW row \in 0..Begins,
         NEW what \in {"sanction", "lift", "triage", "reopen", "resolve", "hide", "show"}
  PROVE  Line(c, n, what, row) \in LedgerLine
<1>1. txn[c].now \in Nat
  BY DEF CallInv, ModTypeOK, Txn
<1> QED BY <1>1 DEF Line, LedgerLine

\* The lines of a sanction: a lift for each row it replaces, its own, and the
\* closing of its report.
Lifted(c) == {Line(c, NextSeq + Cardinality({s \in txn[c].lifts : s < r}), "lift", r) :
              r \in txn[c].lifts}
After(c) == NextSeq + Cardinality(txn[c].lifts)
Closes(c) == txn[c].link = "close" /\ report.status \notin Closed
Sanctioned(c, new) ==
  Lifted(c) \cup {Line(c, After(c), "sanction", new)}
    \cup (IF Closes(c) THEN {Line(c, After(c) + 1, "resolve", 0)} ELSE {})

\* They are lines of the ledger, and finitely many.
LEMMA SanctionLines ==
  ASSUME CallInv, NEW c \in Call, NEW new \in 0..Begins
  PROVE  /\ Sanctioned(c, new) \subseteq LedgerLine
         /\ IsFiniteSet(Sanctioned(c, new))
         /\ After(c) \in Nat
<1>1. txn[c].lifts \in SUBSET Row /\ Row \subseteq 0..Begins
  BY ModerationBound DEF CallInv, ModTypeOK, Txn, Row
<1>2. NextSeq \in Nat /\ After(c) \in Nat
  BY <1>1, CountsAreNumbers DEF CallInv, After
<1>3. \A r : NextSeq + Cardinality({s \in txn[c].lifts : s < r}) \in Nat
  <2> TAKE r
  <2>1. {s \in txn[c].lifts : s < r} \in SUBSET Row
    BY <1>1
  <2> QED BY <1>2, <2>1, CountsAreNumbers
<1>4. Lifted(c) \subseteq LedgerLine
  BY <1>1, <1>3, LineTyped DEF Lifted
<1>5. 0 \in 0..Begins /\ After(c) + 1 \in Nat
  BY <1>2, ModerationBound
<1>6. Sanctioned(c, new) \subseteq LedgerLine
  BY <1>2, <1>4, <1>5, LineTyped DEF Sanctioned
<1>7. IsFiniteSet(Lifted(c))
  <2> DEFINE f == [r \in txn[c].lifts |->
                    Line(c, NextSeq + Cardinality({s \in txn[c].lifts : s < r}), "lift", r)]
  <2>1. f \in Surjection(txn[c].lifts, Lifted(c))
    BY DEF Surjection, Lifted
  <2>2. IsFiniteSet(txn[c].lifts)
    BY <1>1, CountsAreNumbers
  <2> QED BY <2>1, <2>2, FS_Surjection
<1>8. \A x : IsFiniteSet(Lifted(c) \cup {x})
  BY <1>7, FS_AddElement
<1>9. \A x, y : IsFiniteSet(Lifted(c) \cup {x} \cup {y})
  BY <1>8, FS_AddElement
<1>10. IsFiniteSet(Sanctioned(c, new))
  <2>1. CASE Closes(c)
    BY <1>9, <2>1 DEF Sanctioned
  <2>2. CASE ~ Closes(c)
    <3>1. Sanctioned(c, new) = Lifted(c) \cup {Line(c, After(c), "sanction", new)}
      BY <2>2 DEF Sanctioned
    <3> QED BY <1>8, <3>1
  <2> QED BY <2>1, <2>2
<1> QED BY <1>2, <1>6, <1>10

\* What a sanction writes: `new' is the row it takes, 0 if it is a warning.
SanctionWrites(c, new) ==
  /\ txn[c].at = "seal" /\ txn[c].fn = "sanction" /\ MayLock(c, Chain)
  /\ IF txn[c].op = "warning" THEN new = 0
     ELSE /\ new \in Row /\ restriction[new].kind = "none"
          /\ \A s \in Row : restriction[s].kind = "none" => new <= s
  /\ restriction' \in [Row -> [kind : Kind \cup {"none"}, lifted : BOOLEAN,
                               starts : Nat, ends : Nat \cup {NoEnd}]]
  /\ \A r \in Row :
       restriction'[r] = IF r = new THEN [kind |-> txn[c].op, lifted |-> FALSE,
                                          starts |-> txn[c].now, ends |-> NoEnd]
                         ELSE IF r \in txn[c].lifts
                         THEN [restriction[r] EXCEPT !.lifted = TRUE]
                         ELSE restriction[r]
  /\ ledger' = ledger \cup Sanctioned(c, new)
  /\ isBanned' = (isBanned \/ txn[c].op = "ban")
  /\ report' = IF Closes(c)
               THEN [status |-> "resolved", resolution |-> "action_taken",
                     holder |-> IF report.holder = NoOne THEN txn[c].by ELSE report.holder]
               ELSE report
  /\ message' = message /\ Commits(c)

\* A sanction that commits writes just that.
LEMMA SanctionWritten ==
  ASSUME CallInv, NEW c \in Call, SanctionCommits(c)
  PROVE  \E new \in 0..Begins : SanctionWrites(c, new)
<1>1. /\ txn[c] \in Txn /\ CallAt(txn[c]) /\ Row \subseteq 0..Begins /\ 0 \in 0..Begins
      /\ 0 \notin Row
  BY ModerationBound DEF CallInv, ModTypeOK, Row
<1>2. txn[c].at = "seal" /\ txn[c].fn = "sanction" /\ MayLock(c, Chain) /\ Commits(c)
  BY DEF SanctionCommits
<1>3. txn[c].now \in Nat /\ txn[c].op \in Kind \cup {"warning"} /\ "warning" \notin Kind
  BY <1>1, <1>2 DEF Txn, CallAt, Kind
<1>4. PICK new \in (IF txn[c].op = "warning" THEN {0}
                    ELSE {r \in {q \in Row : restriction[q].kind = "none"} :
                            \A s \in {q \in Row : restriction[q].kind = "none"} : r <= s}) :
        /\ restriction' = [r \in Row |->
             CASE r = new -> [kind |-> txn[c].op, lifted |-> FALSE,
                             starts |-> txn[c].now, ends |-> NoEnd]
               [] r \in txn[c].lifts -> [restriction[r] EXCEPT !.lifted = TRUE]
               [] OTHER -> restriction[r]]
        /\ ledger' = ledger \cup Sanctioned(c, new)
  BY DEF SanctionCommits, Sanctioned, Lifted, After, Closes
<1>5. /\ new \in 0..Begins
      /\ IF txn[c].op = "warning" THEN new = 0
         ELSE /\ new \in Row /\ restriction[new].kind = "none"
              /\ \A s \in Row : restriction[s].kind = "none" => new <= s
  BY <1>1, <1>4
<1>6. \A r \in Row :
        restriction'[r] = IF r = new THEN [kind |-> txn[c].op, lifted |-> FALSE,
                                          starts |-> txn[c].now, ends |-> NoEnd]
                          ELSE IF r \in txn[c].lifts
                          THEN [restriction[r] EXCEPT !.lifted = TRUE]
                          ELSE restriction[r]
  <2> TAKE r \in Row
  <2>1. CASE r = new
    <3>1. r \notin txn[c].lifts
      BY <1>1, <1>5, <2>1 DEF CallInv
    <3> QED BY <1>4, <2>1, <3>1
  <2>2. CASE r # new /\ r \in txn[c].lifts
    BY <1>4, <2>2
  <2>3. CASE r # new /\ r \notin txn[c].lifts
    BY <1>4, <2>3
  <2> QED BY <2>1, <2>2, <2>3
<1>7. restriction' \in [Row -> [kind : Kind \cup {"none"}, lifted : BOOLEAN,
                                starts : Nat, ends : Nat \cup {NoEnd}]]
  <2> DEFINE Shape == [kind : Kind \cup {"none"}, lifted : BOOLEAN, starts : Nat,
                       ends : Nat \cup {NoEnd}]
  <2>1. /\ \A r \in Row : restriction[r] \in Shape
        /\ \A x \in Shape : [x EXCEPT !.lifted = TRUE] \in Shape
    BY DEF CallInv, ModTypeOK
  <2>2. new \in Row => [kind |-> txn[c].op, lifted |-> FALSE, starts |-> txn[c].now,
                        ends |-> NoEnd] \in Shape
    BY <1>1, <1>3, <1>5
  <2>3. \A r \in Row : restriction'[r] \in Shape
    <3> HIDE DEF Shape
    <3> QED BY <1>6, <2>1, <2>2
  <2> HIDE DEF Shape
  <2>4. restriction' \in [Row -> Shape]
    BY <1>4, <2>3
  <2> QED BY <2>4 DEF Shape
<1>8. /\ isBanned' = (isBanned \/ txn[c].op = "ban") /\ message' = message
      /\ report' = IF Closes(c)
               THEN [status |-> "resolved", resolution |-> "action_taken",
                     holder |-> IF report.holder = NoOne THEN txn[c].by ELSE report.holder]
               ELSE report
  BY DEF SanctionCommits, Closes
<1> QED BY <1>2, <1>4, <1>5, <1>6, <1>7, <1>8 DEF SanctionWrites

\* Until its last step a call writes nothing.
LEMMA OnlyCommitsWrite ==
  ASSUME NEW c \in Call, Acts(c), ~ TxnCommits(c)
  PROVE  UNCHANGED tables
<1>1. RollsBack(c) => UNCHANGED tables
  BY DEF RollsBack
<1>2. Asks(c) => UNCHANGED tables
  BY DEF Asks, AskSanction, AskLift, AskResolve, AskTriage, AskContent, Begin
<1>3. TakesLock(c) \/ SanctionTerms(c) \/ LiftChecks(c) => UNCHANGED tables
  BY <1>1 DEF TakesLock, LockUser, LockItsReport, LockReplaced, LockLifted, LiftFlag,
     LockResolved, LockTriaged, LockMessage, Seals, SanctionTerms, LiftChecks, tables
<1> QED BY <1>1, <1>2, <1>3 DEF Acts, RunsOn, Aborts, DeadlockFound

\* What happens to a restriction, whoever does it: a free row is taken, a row is
\* lifted, or a term runs out.
RowMoves(r) ==
  LET old == restriction[r]
      young == restriction'[r]
  IN  old.kind # "none" =>
        /\ young.kind = old.kind /\ young.starts = old.starts
        /\ old.lifted => young.lifted
        /\ young.ends # old.ends => old.ends = NoEnd /\ old.kind # "ban"

\* The tables stay well formed, and nothing is taken out of the ledger.
LEMMA TablesStep ==
  ASSUME CallInv, ModNext
  PROVE  /\ restriction' \in [Row -> [kind : Kind \cup {"none"}, lifted : BOOLEAN,
                                      starts : Nat, ends : Nat \cup {NoEnd}]]
         /\ isBanned' \in BOOLEAN
         /\ report' \in [status : {"new", "under_review"} \cup Closed,
                         holder : Moderator \cup {NoOne},
                         resolution : {"none", "action_taken", "no_action", "dismissed"}]
         /\ message' \in {"shown", "moderated", "deleted"}
         /\ ledger' \subseteq LedgerLine /\ IsFiniteSet(ledger')
         /\ \A r \in Row : RowMoves(r)
         /\ ledger \subseteq ledger'
<1> DEFINE Shape == [kind : Kind \cup {"none"}, lifted : BOOLEAN, starts : Nat,
                     ends : Nat \cup {NoEnd}]
           Reports == [status : {"new", "under_review"} \cup Closed,
                       holder : Moderator \cup {NoOne},
                       resolution : {"none", "action_taken", "no_action", "dismissed"}]
           Goal == /\ restriction' \in [Row -> Shape] /\ isBanned' \in BOOLEAN
                   /\ report' \in Reports /\ message' \in {"shown", "moderated", "deleted"}
                   /\ ledger' \subseteq LedgerLine /\ IsFiniteSet(ledger')
                   /\ \A r \in Row : RowMoves(r)
                   /\ ledger \subseteq ledger'
<1> SUFFICES Goal
  OBVIOUS
<1>0. /\ restriction \in [Row -> Shape] /\ isBanned \in BOOLEAN /\ report \in Reports
      /\ message \in {"shown", "moderated", "deleted"} /\ ledger \subseteq LedgerLine
      /\ IsFiniteSet(ledger) /\ began \in Nat
      /\ \A x \in Shape : [x EXCEPT !.lifted = TRUE] \in Shape
      /\ \A x \in Shape, n \in Nat : [x EXCEPT !.ends = n] \in Shape
  BY DEF CallInv, ModTypeOK
<1>1. \A c \in Call : txn[c] \in Txn /\ CallAt(txn[c])
  BY DEF CallInv, ModTypeOK
<1>a. \A x \in Shape : x.lifted \in BOOLEAN /\ x = [x EXCEPT !.lifted = x.lifted]
  OBVIOUS
<1>2. ASSUME UNCHANGED tables PROVE Goal
  BY <1>0, <1>2 DEF tables, RowMoves
<1>3. ASSUME NEW r \in Row, TermEnds(r) PROVE Goal
  <2>1. restriction' = [restriction EXCEPT ![r] = [restriction[r] EXCEPT !.ends = began]]
        /\ restriction[r].kind # "ban" /\ restriction[r].ends = NoEnd
        /\ UNCHANGED <<isBanned, report, message, ledger>>
    BY <1>3 DEF TermEnds
  <2>2. restriction' \in [Row -> Shape]
    BY <1>0, <2>1
  <2>3. \A q \in Row : RowMoves(q)
    BY <1>0, <2>1 DEF RowMoves
  <2> QED BY <1>0, <2>1, <2>2, <2>3
<1>4. ASSUME SenderDeletes PROVE Goal
  BY <1>0, <1>4 DEF SenderDeletes, RowMoves
<1>5. ASSUME NEW c \in Call, SanctionCommits(c) PROVE Goal
  <2>1. PICK new \in 0..Begins : SanctionWrites(c, new)
    BY <1>5, SanctionWritten
  <2>2. restriction' \in [Row -> Shape]
    BY <2>1 DEF SanctionWrites
  <2>3. \A r \in Row : RowMoves(r)
    <3> TAKE r \in Row
    <3>1. restriction[r] \in Shape /\ txn[c].op = "warning" => r # new
      BY <1>0, <2>1, ModerationBound DEF SanctionWrites, Row
    <3> QED BY <1>0, <2>1, <3>1 DEF SanctionWrites, RowMoves
  <2>4. report' \in Reports
    <3>1. txn[c].by \in Moderator \cup {NoOne} /\ report.holder \in Moderator \cup {NoOne}
      BY <1>0, <1>1 DEF Txn
    <3> QED BY <1>0, <2>1, <3>1 DEF SanctionWrites, Closed
  <2>5. ledger' \subseteq LedgerLine /\ IsFiniteSet(ledger') /\ ledger \subseteq ledger'
    BY <1>0, <2>1, SanctionLines, FS_Union DEF SanctionWrites
  <2>6. isBanned' \in BOOLEAN /\ message' = message
    BY <2>1 DEF SanctionWrites
  <2> QED BY <1>0, <2>2, <2>3, <2>4, <2>5, <2>6
<1>6. ASSUME NEW c \in Call,
             NEW what \in {"sanction", "lift", "triage", "reopen", "resolve", "hide", "show"},
             Writes(c, what)
      PROVE  ledger' \subseteq LedgerLine /\ IsFiniteSet(ledger') /\ ledger \subseteq ledger'
  <2>1. txn[c].seq \in Nat /\ txn[c].row \in 0..Begins
    BY <1>1 DEF Txn
  <2>2. Line(c, txn[c].seq, what, txn[c].row) \in LedgerLine
    BY <2>1, LineTyped
  <2> QED BY <1>0, <1>6, <2>2, FS_AddElement DEF Writes
<1>7. ASSUME NEW c \in Call, LiftCommits(c) PROVE Goal
  <2>1. /\ txn[c].row \in Row
        /\ restriction' = [restriction EXCEPT ![txn[c].row] =
                             [restriction[txn[c].row] EXCEPT !.lifted = TRUE]]
    BY <1>1, <1>7 DEF LiftCommits, CallAt
  <2>2. restriction' \in [Row -> Shape]
    BY <1>0, <2>1
  <2>3. \A r \in Row : RowMoves(r)
    BY <1>0, <2>1 DEF RowMoves
  <2>4. isBanned' \in BOOLEAN /\ UNCHANGED <<report, message>> /\ Writes(c, "lift")
    BY <1>7 DEF LiftCommits
  <2> QED BY <1>0, <1>6, <2>2, <2>3, <2>4
<1>8. ASSUME NEW c \in Call, ResolveCommits(c) PROVE Goal
  <2>1. /\ txn[c].op \in Closed /\ txn[c].by \in Moderator \cup {NoOne}
        /\ report.holder \in Moderator \cup {NoOne}
        /\ txn[c].result \in {"none", "action_taken", "no_action", "dismissed"}
    BY <1>0, <1>1, <1>8 DEF ResolveCommits, Txn, CallAt
  <2>2. report' \in Reports /\ UNCHANGED <<restriction, isBanned, message>> /\ Writes(c, "resolve")
    BY <1>8, <2>1 DEF ResolveCommits
  <2> QED BY <1>0, <1>6, <2>2 DEF RowMoves
<1>9. ASSUME NEW c \in Call, TriageCommits(c) PROVE Goal
  <2>1. /\ TriageStatus(c) \in {"new", "under_review"} \cup Closed
        /\ TriageHolder(c) \in Moderator \cup {NoOne}
    BY <1>0, <1>1 DEF TriageStatus, TriageHolder, Txn
  <2>2. /\ report' \in Reports /\ UNCHANGED <<restriction, isBanned, message>>
        /\ Writes(c, "reopen") \/ Writes(c, "triage")
    BY <1>0, <1>9, <2>1 DEF TriageCommits
  <2> QED BY <1>0, <1>6, <2>2 DEF RowMoves
<1>10. ASSUME NEW c \in Call, ContentCommits(c) PROVE Goal
  <2>1. txn[c].op \in {"hide", "show"}
    BY <1>1, <1>10 DEF ContentCommits, CallAt
  <2>2. /\ message' \in {"shown", "moderated", "deleted"} /\ Writes(c, txn[c].op)
        /\ UNCHANGED <<restriction, isBanned, report>>
    BY <1>10 DEF ContentCommits
  <2> QED BY <1>0, <1>6, <2>1, <2>2 DEF RowMoves
<1> HIDE DEF Goal
<1>11. ASSUME NEW c \in Call, Acts(c) PROVE Goal
  BY <1>2, <1>5, <1>7, <1>8, <1>9, <1>10, <1>11, OnlyCommitsWrite DEF TxnCommits
<1> QED BY <1>3, <1>4, <1>11 DEF ModNext, Acts

\* Locks are held by calls.
LEMMA LocksStep ==
  ASSUME CallInv, ModNext
  PROVE  lock' \in [Lockable -> Call \cup {NoOne}]
<1> USE DEF CallInv, ModTypeOK
<1>1. ASSUME NEW c \in Call, RollsBack(c) \/ TxnCommits(c)
      PROVE  lock' \in [Lockable -> Call \cup {NoOne}]
  BY <1>1 DEF RollsBack, Released, TxnCommits, SanctionCommits, LiftCommits,
     ResolveCommits, TriageCommits, ContentCommits, Commits
<1>2. ASSUME NEW c \in Call, NEW x \in Lockable, Locks(c, x)
      PROVE  lock' \in [Lockable -> Call \cup {NoOne}]
  BY <1>2 DEF Locks
<1>3. /\ User \in Lockable /\ Report \in Lockable /\ Message \in Lockable
      /\ Chain \in Lockable /\ \A r \in Row : RowLock(r) \in Lockable
  BY DEF Lockable
<1>4. ASSUME NEW c \in Call, TakesLock(c)
      PROVE  lock' \in [Lockable -> Call \cup {NoOne}]
  <2>1. CASE LockReplaced(c)
    <3>1. txn[c].todo # {}
      BY <2>1 DEF LockReplaced, CallAt
    <3>2. NextRow(c) \in Row
      BY <3>1, NextRowIsThere
    <3> QED BY <1>2, <1>3, <2>1, <3>2 DEF LockReplaced
  <2>2. CASE LockLifted(c)
    <3>1. txn[c].row \in Row
      BY <2>2 DEF LockLifted, CallAt, Txn, Fn
    <3> QED BY <1>1, <1>2, <1>3, <2>2, <3>1 DEF LockLifted
  <2>3. CASE LiftFlag(c)
    BY <1>2, <1>3, <2>3 DEF LiftFlag
  <2>4. CASE LockUser(c) \/ LockItsReport(c) \/ LockResolved(c) \/ LockTriaged(c)
             \/ LockMessage(c) \/ Seals(c)
    BY <1>1, <1>2, <1>3, <2>4 DEF LockUser, LockItsReport, LockResolved, LockTriaged,
       LockMessage, Seals
  <2> QED BY <1>4, <2>1, <2>2, <2>3, <2>4 DEF TakesLock
<1>5. ASSUME NEW c \in Call, Asks(c) \/ LiftChecks(c) \/ SanctionTerms(c)
      PROVE  lock' \in [Lockable -> Call \cup {NoOne}]
  BY <1>1, <1>5 DEF Asks, AskSanction, AskLift, AskResolve, AskTriage, AskContent, Begin,
     LiftChecks, SanctionTerms
<1> QED BY <1>1, <1>4, <1>5 DEF ModNext, RunsOn, Aborts, DeadlockFound, TermEnds,
        SenderDeletes

\* The rows a call is about to replace, or has locked to lift, are in use and no bans.
LEMMA ReplacesRowsInUse ==
  ASSUME CallInv, NEW c \in Call, Acts(c), NEW r \in txn'[c].todo \cup txn'[c].lifts
  PROVE  r \in Row /\ restriction[r].kind \notin {"none", "ban"}
<1>1. /\ txn[c] \in Txn /\ CallAt(txn[c])
      /\ \A t : txn' = [txn EXCEPT ![c] = t] => txn'[c] = t
      /\ \A q \in Row : restriction[q].kind \in Kind \cup {"none"}
  BY DEF CallInv, ModTypeOK
<1>2. \A q \in txn[c].todo \cup txn[c].lifts :
        q \in Row /\ restriction[q].kind \notin {"none", "ban"}
  BY <1>1 DEF CallInv, Txn
<1>3. ASSUME txn'[c].todo \cup txn'[c].lifts \subseteq txn[c].todo \cup txn[c].lifts
      PROVE  r \in Row /\ restriction[r].kind \notin {"none", "ban"}
  BY <1>2, <1>3
<1>4. ASSUME RollsBack(c) \/ TxnCommits(c)
      PROVE  r \in Row /\ restriction[r].kind \notin {"none", "ban"}
  <2>1. txn'[c] = NoTxn
    BY <1>1, <1>4 DEF RollsBack, TxnCommits, SanctionCommits, LiftCommits, ResolveCommits,
       TriageCommits, ContentCommits, Commits
  <2> QED BY <2>1 DEF NoTxn
<1>5. ASSUME Asks(c) PROVE r \in Row /\ restriction[r].kind \notin {"none", "ban"}
  <2>1. CallAt(txn'[c]) /\ txn'[c].at \notin {"replace", "seal"}
    BY <1>5, AskStep
  <2> QED BY <2>1 DEF CallAt
<1>6. ASSUME SanctionTerms(c), ~ RollsBack(c)
      PROVE  r \in Row /\ restriction[r].kind \notin {"none", "ban"}
  <2> DEFINE rows == IF txn[c].op = "warning" THEN {} ELSE Replaces(c, txn[c].op)
  <2>1. /\ txn' = [txn EXCEPT ![c] = [txn[c] EXCEPT !.todo = rows,
                       !.at = IF rows = {} THEN "seal" ELSE "replace"]]
        /\ ~ (txn[c].op = "ban" /\ ActiveFor(c, "ban") # {})
        /\ txn[c].at = "terms"
    BY <1>6 DEF SanctionTerms
  <2>2. \A q \in rows : q \in Row /\ restriction[q].kind \notin {"none", "ban"}
    <3>1. txn[c].op \in Kind \cup {"warning"}
      BY <1>1, <2>1 DEF CallAt, Txn, Fn
    <3> QED BY <2>1, <3>1 DEF Replaces, ActiveFor, Kind
  <2> HIDE DEF rows
  <2>3. txn'[c].todo = rows /\ txn'[c].lifts = txn[c].lifts
    <3>1. txn'[c] = [txn[c] EXCEPT !.todo = rows, !.at = IF rows = {} THEN "seal" ELSE "replace"]
      BY <1>1, <2>1
    <3> QED BY <1>1, <3>1 DEF Txn
  <2> QED BY <1>2, <2>2, <2>3
<1>7. ASSUME LockReplaced(c) PROVE r \in Row /\ restriction[r].kind \notin {"none", "ban"}
  <2>1. txn[c].todo # {}
    BY <1>1, <1>7 DEF LockReplaced, CallAt
  <2>2. NextRow(c) \in txn[c].todo
    BY <2>1, NextRowIsThere
  <2>3. txn'[c].todo \cup txn'[c].lifts \subseteq txn[c].todo \cup txn[c].lifts
    <3> DEFINE q == NextRow(c)
               lifts == IF restriction[q].lifted THEN txn[c].lifts ELSE txn[c].lifts \cup {q}
    <3>1. txn'[c] = [txn[c] EXCEPT !.todo = txn[c].todo \ {q}, !.lifts = lifts,
                       !.at = IF txn[c].todo = {q} THEN "seal" ELSE "replace"]
      BY <1>1, <1>7 DEF LockReplaced
    <3>2. txn'[c].todo = txn[c].todo \ {q} /\ txn'[c].lifts = lifts
      BY <1>1, <3>1 DEF Txn
    <3> QED BY <2>2, <3>2
  <2> QED BY <1>3, <2>3
<1>8. ASSUME TakesLock(c) \/ LiftChecks(c), ~ LockReplaced(c), ~ RollsBack(c)
      PROVE  r \in Row /\ restriction[r].kind \notin {"none", "ban"}
  <2>1. \/ \E p : txn' = [txn EXCEPT ![c] = [txn[c] EXCEPT !.at = p]]
        \/ \E result : txn' = [txn EXCEPT ![c] = [txn[c] EXCEPT !.at = "seal", !.result = result]]
        \/ \E n : txn' = [txn EXCEPT ![c] = [txn[c] EXCEPT !.at = "key", !.seq = n]]
    BY <1>8 DEF TakesLock, LockUser, LockItsReport, LockLifted, LiftFlag, LockResolved,
       LockTriaged, LockMessage, Seals, LiftChecks, GoesTo
  <2>2. \/ \E p : txn'[c] = [txn[c] EXCEPT !.at = p]
        \/ \E result : txn'[c] = [txn[c] EXCEPT !.at = "seal", !.result = result]
        \/ \E n : txn'[c] = [txn[c] EXCEPT !.at = "key", !.seq = n]
    BY <1>1, <2>1
  <2>3. txn'[c].todo = txn[c].todo /\ txn'[c].lifts = txn[c].lifts
    BY <1>1, <2>2 DEF Txn
  <2> QED BY <1>2, <2>3
<1> QED BY <1>4, <1>5, <1>6, <1>7, <1>8 DEF Acts, RunsOn, Aborts, DeadlockFound

\* So calls and tables are always well formed.
LEMMA CallStep == CallInv /\ [ModNext]_modVars => CallInv'
<1>1. ASSUME CallInv, UNCHANGED modVars PROVE CallInv'
  BY <1>1 DEF CallInv, ModTypeOK, modVars, tables, CallAt
<1>2. ASSUME CallInv, ModNext PROVE CallInv'
  <2>1. \A r \in Row : restriction[r].kind # "none" => restriction'[r].kind = restriction[r].kind
    BY <1>2, TablesStep DEF RowMoves
  <2>2. /\ began' \in Nat /\ txn' \in [Call -> Txn]
        /\ \A d \in Call : /\ txn'[d].now <= began' /\ CallAt(txn'[d])
                           /\ \A r \in txn'[d].todo \cup txn'[d].lifts :
                                restriction'[r].kind \notin {"none", "ban"}
    <3>0. /\ txn \in [Call -> Txn] /\ began \in Nat
          /\ \A d \in Call : /\ txn[d] \in Txn /\ CallAt(txn[d]) /\ txn[d].now <= began
                             /\ \A r \in txn[d].todo \cup txn[d].lifts :
                                  r \in Row /\ restriction[r].kind \notin {"none", "ban"}
      BY <1>2 DEF CallInv, ModTypeOK, Txn
    <3>1. ASSUME NEW c \in Call, Acts(c)
          PROVE  /\ began' \in Nat /\ txn' \in [Call -> Txn]
                 /\ \A d \in Call : /\ txn'[d].now <= began' /\ CallAt(txn'[d])
                                    /\ \A r \in txn'[d].todo \cup txn'[d].lifts :
                                         restriction'[r].kind \notin {"none", "ban"}
      <4>1. /\ txn'[c] \in Txn /\ CallAt(txn'[c]) /\ txn'[c].now <= began' /\ began' \in Nat
            /\ began' >= began
        <5>1. CASE Asks(c)
          <6>1. began' = began + 1
            BY <5>1 DEF Asks, AskSanction, AskLift, AskResolve, AskTriage, AskContent, Begin
          <6> QED BY <1>2, <3>0, <5>1, <6>1, AskStep
        <5>2. CASE RunsOn(c) \/ RollsBack(c)
          BY <1>2, <3>0, <5>2, RunStep
        <5> QED BY <3>1, <5>1, <5>2 DEF Acts, Aborts, DeadlockFound
      <4>2. Keeps(c) /\ txn' = [txn EXCEPT ![c] = txn'[c]]
        BY <1>2, <3>1, OthersKept
      <4>3. \A r \in txn'[c].todo \cup txn'[c].lifts : restriction'[r].kind \notin {"none", "ban"}
        BY <1>2, <2>1, <3>1, ReplacesRowsInUse
      <4>4. ASSUME NEW d \in Call, d # c
            PROVE  /\ txn'[d].now <= began' /\ CallAt(txn'[d])
                   /\ \A r \in txn'[d].todo \cup txn'[d].lifts :
                        restriction'[r].kind \notin {"none", "ban"}
        <5>1. txn'[d] = txn[d]
          BY <4>2, <4>4 DEF Keeps
        <5>2. txn[d].now <= began'
          BY <3>0, <4>1 DEF Txn
        <5> QED BY <2>1, <3>0, <5>1, <5>2
      <4>5. txn' \in [Call -> Txn]
        BY <3>0, <4>1, <4>2
      <4> QED BY <4>1, <4>3, <4>4, <4>5
    <3>2. ASSUME UNCHANGED <<txn, began>>
          PROVE  /\ began' \in Nat /\ txn' \in [Call -> Txn]
                 /\ \A d \in Call : /\ txn'[d].now <= began' /\ CallAt(txn'[d])
                                    /\ \A r \in txn'[d].todo \cup txn'[d].lifts :
                                         restriction'[r].kind \notin {"none", "ban"}
      BY <2>1, <3>0, <3>2
    <3> QED BY <1>2, <3>1, <3>2 DEF ModNext, Acts, TermEnds, SenderDeletes
  <2> QED BY <1>2, <2>2, TablesStep, LocksStep DEF CallInv, ModTypeOK
<1> QED BY <1>1, <1>2

-----------------------------------------------------------------------------
(* What a call has locked.                                                 *)

\* What a call has locked at each place of its transaction.
HeldBy(c) ==
  /\ txn[c].fn = "sanction" /\ txn[c].at # "user" => lock[User] = c
  /\ txn[c].fn = "sanction" /\ txn[c].link # "no" /\ txn[c].at \notin {"user", "report"} =>
       lock[Report] = c
  /\ txn[c].fn \in {"resolve", "triage"} /\ txn[c].at # "report" => lock[Report] = c
  /\ txn[c].fn = "content" /\ txn[c].at # "message" => lock[Message] = c
  /\ txn[c].fn = "lift" /\ txn[c].at # "row" => lock[RowLock(txn[c].row)] = c
  /\ \A r \in txn[c].lifts : lock[RowLock(r)] = c
  /\ txn[c].at = "key" => lock[Chain] = c

HeldInv == CallInv /\ \A c \in Call : HeldBy(c)

\* What the actions name can be locked.
LEMMA NamedLocks ==
  /\ User \in Lockable /\ Report \in Lockable /\ Message \in Lockable
  /\ Chain \in Lockable /\ \A r \in Row : RowLock(r) \in Lockable
  BY DEF Lockable

\* Locks are held until the transaction ends.
LEMMA HeldStep == HeldInv /\ [ModNext]_modVars => HeldInv'
<1>1. ASSUME HeldInv, UNCHANGED modVars PROVE HeldInv'
  <2>1. CallInv'
    BY <1>1, CallStep DEF HeldInv
  <2> QED BY <1>1, <2>1 DEF HeldInv, HeldBy, modVars
<1>2. ASSUME HeldInv, ModNext PROVE HeldInv'
  <2>0. CallInv /\ CallInv' /\ \A d \in Call : HeldBy(d)
    BY <1>2, CallStep DEF HeldInv
  <2>1. \A d \in Call : txn[d] \in Txn /\ CallAt(txn[d]) /\ (txn[d].fn = "lift" => txn[d].row \in Row)
    BY <2>0 DEF CallInv, ModTypeOK, CallAt
  <2>2. ASSUME NEW c \in Call, Acts(c), NEW d \in Call, d # c
        PROVE  HeldBy(d)'
    <3>1. txn'[d] = txn[d] /\ \A x \in Lockable : lock'[x] = d <=> lock[x] = d
      BY <2>0, <2>2, OthersKept DEF Keeps
    <3>2. txn[d].lifts \subseteq Row
      BY <2>1 DEF Txn
    <3> QED BY <2>0, <2>1, <3>1, <3>2, NamedLocks DEF HeldBy
  <2>3. ASSUME NEW c \in Call, Acts(c) PROVE HeldBy(c)'
    <3>0. /\ txn[c] \in Txn /\ CallAt(txn[c]) /\ HeldBy(c)
          /\ \A t : txn' = [txn EXCEPT ![c] = t] => txn'[c] = t
          /\ txn[c].fn \in Fn /\ txn[c].lifts \subseteq Row
      BY <2>0, <2>1 DEF CallInv, ModTypeOK, Txn
    <3>m. ASSUME NEW x \in Lockable, Locks(c, x)
          PROVE  lock'[x] = c /\ \A y \in Lockable : lock[y] = c => lock'[y] = c
      BY <2>0, <3>m DEF CallInv, ModTypeOK, Locks
    <3>h. /\ \A r \in txn[c].lifts : RowLock(r) \in Lockable
          /\ txn[c].fn = "lift" => RowLock(txn[c].row) \in Lockable
      BY <2>1, <3>0, NamedLocks
    <3>1. ASSUME RollsBack(c) \/ TxnCommits(c) PROVE HeldBy(c)'
      <4>1. txn'[c] = NoTxn
        BY <3>0, <3>1 DEF RollsBack, TxnCommits, SanctionCommits, LiftCommits,
           ResolveCommits, TriageCommits, ContentCommits, Commits
      <4> QED BY <4>1 DEF HeldBy, NoTxn
    <3>2. CASE Asks(c)
      <4>1. /\ txn'[c] \in Txn /\ CallAt(txn'[c])
            /\ txn'[c].at \in {"user", "row", "report", "message"}
            /\ txn'[c].at = "report" => txn'[c].fn # "sanction"
        BY <2>0, <3>2, AskStep
      <4> QED BY <4>1 DEF HeldBy, CallAt
    <3>4. ASSUME NEW p, GoesTo(c, p)
          PROVE  /\ txn'[c].at = p /\ txn'[c].fn = txn[c].fn /\ txn'[c].link = txn[c].link
                 /\ txn'[c].row = txn[c].row /\ txn'[c].lifts = txn[c].lifts
      <4>1. txn'[c] = [txn[c] EXCEPT !.at = p]
        BY <3>0, <3>4 DEF GoesTo
      <4> QED BY <3>0, <4>1 DEF Txn
    <3>5. CASE LockUser(c)
      <4>1. txn[c].fn = "sanction" /\ txn[c].at = "user" /\ Locks(c, User)
        BY <3>0, <3>5 DEF LockUser, CallAt, Fn
      <4>2. lock'[User] = c /\ \A y \in Lockable : lock[y] = c => lock'[y] = c
        BY <3>m, <4>1, NamedLocks
      <4> QED BY <3>0, <3>4, <3>5, <3>h, <4>1, <4>2, NamedLocks DEF LockUser, HeldBy
    <3>6. CASE LockItsReport(c)
      <4>1. lock'[Report] = c /\ \A y \in Lockable : lock[y] = c => lock'[y] = c
        BY <3>m, <3>6, NamedLocks DEF LockItsReport
      <4> QED BY <3>0, <3>4, <3>6, <3>h, <4>1, NamedLocks DEF LockItsReport, HeldBy
    <3>7. CASE SanctionTerms(c)
      <4>1. CASE RollsBack(c)
        BY <3>1, <4>1
      <4>2. CASE ~ RollsBack(c)
        <5>1. PICK rows, place :
                /\ txn' = [txn EXCEPT ![c] = [txn[c] EXCEPT !.todo = rows, !.at = place]]
                /\ txn[c].at = "terms" /\ lock' = lock /\ place \in {"seal", "replace"}
          BY <3>7, <4>2 DEF SanctionTerms
        <5>2. txn'[c] = [txn[c] EXCEPT !.todo = rows, !.at = place]
          BY <3>0, <5>1
        <5>4. /\ txn'[c].at = place /\ txn'[c].fn = txn[c].fn /\ txn'[c].link = txn[c].link
              /\ txn'[c].row = txn[c].row /\ txn'[c].lifts = txn[c].lifts
          BY <3>0, <5>2 DEF Txn
        <5>3. txn[c].fn = "sanction"
          BY <3>0, <5>1 DEF CallAt, Fn
        <5> QED BY <3>0, <5>1, <5>3, <5>4 DEF HeldBy
      <4> QED BY <4>1, <4>2
    <3>8. CASE LockReplaced(c)
      <4> DEFINE r == NextRow(c)
                 lifts == IF restriction[r].lifted THEN txn[c].lifts ELSE txn[c].lifts \cup {r}
      <4>1. txn[c].todo # {} /\ txn[c].fn = "sanction"
        BY <3>0, <3>8, <3>0 DEF LockReplaced, CallAt, Fn
      <4>2. r \in Row
        BY <2>0, <4>1, NextRowIsThere
      <4>3. lock'[RowLock(r)] = c /\ \A y \in Lockable : lock[y] = c => lock'[y] = c
        BY <3>m, <3>8, <4>2, NamedLocks DEF LockReplaced
      <4>4. PICK rest, place :
              /\ txn' = [txn EXCEPT ![c] = [txn[c] EXCEPT !.todo = rest, !.lifts = lifts,
                                                          !.at = place]]
              /\ txn[c].at = "replace" /\ place \in {"seal", "replace"}
        BY <3>8 DEF LockReplaced
      <4>6. \A q \in lifts : lock'[RowLock(q)] = c
        BY <3>0, <3>h, <4>3 DEF HeldBy
      <4> HIDE DEF lifts
      <4>7. /\ txn'[c].at = place /\ txn'[c].fn = txn[c].fn /\ txn'[c].link = txn[c].link
            /\ txn'[c].row = txn[c].row /\ txn'[c].lifts = lifts
        <5>1. txn'[c] = [txn[c] EXCEPT !.todo = rest, !.lifts = lifts, !.at = place]
          BY <3>0, <4>4
        <5> QED BY <3>0, <5>1 DEF Txn
      <4> QED BY <3>0, <4>1, <4>3, <4>4, <4>6, <4>7, NamedLocks DEF HeldBy
    <3>9. CASE LockLifted(c)
      <4>1. CASE RollsBack(c)
        BY <3>1, <4>1
      <4>2. CASE ~ RollsBack(c)
        <5>1. txn[c].fn = "lift" /\ txn[c].row \in Row /\ txn[c].at = "row"
          BY <2>1, <3>0, <3>9 DEF LockLifted, CallAt, Fn
        <5>2. lock'[RowLock(txn[c].row)] = c
          BY <3>9, <3>h, <3>m, <4>2, <5>1 DEF LockLifted
        <5>3. txn'[c].at \in {"check", "seal"} /\ txn'[c].fn = "lift"
              /\ txn'[c].row = txn[c].row /\ txn'[c].lifts = {}
          BY <3>0, <3>4, <3>9, <4>2, <5>1 DEF LockLifted, CallAt
        <5> QED BY <5>2, <5>3 DEF HeldBy
      <4> QED BY <4>1, <4>2
    <3>10. CASE LiftChecks(c)
      <4>1. txn[c].fn = "lift" /\ txn[c].at = "check" /\ lock' = lock
        BY <3>0, <3>10 DEF LiftChecks, CallAt, Fn
      <4>2. txn'[c].at \in {"flag", "seal"} /\ txn'[c].fn = "lift"
            /\ txn'[c].row = txn[c].row /\ txn'[c].lifts = {}
        BY <3>0, <3>4, <3>10, <4>1 DEF LiftChecks, CallAt
      <4> QED BY <3>0, <4>1, <4>2 DEF HeldBy
    <3>11. CASE LiftFlag(c)
      <4>1. txn[c].fn = "lift" /\ txn[c].at = "flag"
        BY <3>0, <3>11 DEF LiftFlag, CallAt, Fn
      <4>2. \A y \in Lockable : lock[y] = c => lock'[y] = c
        BY <3>m, <3>11, NamedLocks DEF LiftFlag
      <4>3. txn'[c].at = "seal" /\ txn'[c].fn = "lift"
            /\ txn'[c].row = txn[c].row /\ txn'[c].lifts = {}
        BY <3>0, <3>4, <3>11, <4>1 DEF LiftFlag, CallAt
      <4> QED BY <3>0, <3>h, <4>1, <4>2, <4>3 DEF HeldBy
    <3>12. CASE LockResolved(c)
      <4>1. CASE RollsBack(c)
        BY <3>1, <4>1
      <4>2. CASE ~ RollsBack(c)
        <5>1. PICK result : txn' = [txn EXCEPT ![c] = [txn[c] EXCEPT !.at = "seal", !.result = result]]
          BY <3>12, <4>2 DEF LockResolved
        <5>2. txn'[c] = [txn[c] EXCEPT !.at = "seal", !.result = result]
          BY <3>0, <5>1
        <5>3. txn'[c].at = "seal" /\ txn'[c].fn = "resolve" /\ txn'[c].lifts = {}
          BY <3>0, <3>12, <5>2 DEF LockResolved, CallAt, Txn
        <5>4. lock'[Report] = c
          BY <3>12, <3>m, <4>2, NamedLocks DEF LockResolved
        <5> QED BY <5>3, <5>4 DEF HeldBy
      <4> QED BY <4>1, <4>2
    <3>13. CASE LockTriaged(c)
      <4>1. CASE RollsBack(c)
        BY <3>1, <4>1
      <4>2. CASE ~ RollsBack(c)
        <5>1. txn'[c].at = "seal" /\ txn'[c].fn = "triage" /\ txn'[c].lifts = {}
          BY <3>0, <3>4, <3>13, <4>2 DEF LockTriaged, CallAt
        <5>2. lock'[Report] = c
          BY <3>13, <3>m, <4>2, NamedLocks DEF LockTriaged
        <5> QED BY <5>1, <5>2 DEF HeldBy
      <4> QED BY <4>1, <4>2
    <3>14. CASE LockMessage(c)
      <4>1. CASE RollsBack(c)
        BY <3>1, <4>1
      <4>2. CASE ~ RollsBack(c)
        <5>1. txn[c].fn = "content"
          BY <3>0, <3>14 DEF LockMessage, CallAt, Fn
        <5>2. txn'[c].at = "seal" /\ txn'[c].fn = "content" /\ txn'[c].lifts = {}
          BY <3>0, <3>4, <3>14, <4>2, <5>1 DEF LockMessage, CallAt
        <5>3. lock'[Message] = c
          BY <3>14, <3>m, <4>2, NamedLocks DEF LockMessage
        <5> QED BY <5>2, <5>3 DEF HeldBy
      <4> QED BY <4>1, <4>2
    <3>15. CASE Seals(c)
      <4>1. txn'[c] = [txn[c] EXCEPT !.at = "key", !.seq = NextSeq]
        BY <3>0, <3>15 DEF Seals
      <4>2. /\ txn'[c].at = "key" /\ txn'[c].fn = txn[c].fn /\ txn'[c].row = txn[c].row
            /\ txn'[c].lifts = {} /\ txn[c].at = "seal" /\ txn[c].fn # "sanction"
        <5>1. txn[c].at = "seal" /\ txn[c].fn # "sanction" /\ txn[c].lifts = {}
          BY <3>0, <3>15 DEF Seals, CallAt
        <5> QED BY <3>0, <4>1, <5>1 DEF Txn
      <4>3. lock'[Chain] = c /\ \A y \in Lockable : lock[y] = c => lock'[y] = c
        BY <3>15, <3>m, NamedLocks DEF Seals
      <4> QED BY <3>0, <3>h, <4>2, <4>3, NamedLocks DEF HeldBy
    <3> QED BY <2>3, <3>1, <3>2, <3>5, <3>6, <3>7, <3>8, <3>9, <3>10, <3>11, <3>12, <3>13,
               <3>14, <3>15 DEF Acts, RunsOn, TakesLock, Aborts, DeadlockFound
  <2>4. ASSUME UNCHANGED <<txn, lock>> PROVE \A d \in Call : HeldBy(d)'
    BY <2>0, <2>4 DEF HeldBy
  <2>5. \A d \in Call : HeldBy(d)'
    BY <1>2, <2>2, <2>3, <2>4 DEF ModNext, Acts, TermEnds, SenderDeletes
  <2> QED BY <2>0, <2>5 DEF HeldInv
<1> QED BY <1>1, <1>2

-----------------------------------------------------------------------------
(* The numbers of the ledger.                                              *)

\* Rows in order have the places 0, 1, 2, ... among themselves.
Rank(S, r) == Cardinality({s \in S : s < r})

\* The ranks of k rows are 0 to k - 1, each once.
LEMMA Ranks ==
  ASSUME NEW S \in SUBSET Row
  PROVE  /\ IsFiniteSet(S) /\ Cardinality(S) \in Nat
         /\ \A r \in S : Rank(S, r) \in 0..(Cardinality(S) - 1)
         /\ \A q, r \in S : q # r => Rank(S, q) # Rank(S, r)
         /\ \A i \in 0..(Cardinality(S) - 1) : \E r \in S : Rank(S, r) = i
<1> DEFINE Below(r) == {s \in S : s < r}
           Places == 0..(Cardinality(S) - 1)
<1>0. S \subseteq Int /\ IsFiniteSet(S) /\ Cardinality(S) \in Nat
  BY CountsAreNumbers, ModerationBound DEF Row
<1>1. \A r : /\ Below(r) \in SUBSET S /\ IsFiniteSet(Below(r))
             /\ Cardinality(Below(r)) \in Nat /\ Cardinality(Below(r)) <= Cardinality(S)
  BY <1>0, FS_Subset, FS_CardinalityType
<1>2. \A r \in S : Cardinality(Below(r)) < Cardinality(S)
  <2> TAKE r \in S
  <2>1. Below(r) # S
    BY <1>0
  <2>2. Cardinality(Below(r)) # Cardinality(S)
    BY <1>0, <1>1, <2>1, FS_Subset
  <2> QED BY <1>0, <1>1, <2>2
<1>3. ASSUME NEW q \in S, NEW r \in S, q < r
      PROVE  Cardinality(Below(q)) # Cardinality(Below(r))
  <2>1. q \in Below(r) /\ q \notin Below(q)
    BY <1>0, <1>3
  <2>2. \A s \in Below(q) : s \in Below(r)
    <3> TAKE s \in Below(q)
    <3>1. s \in Int /\ q \in Int /\ r \in Int /\ s < q
      BY <1>0
    <3> QED BY <1>3, <3>1
  <2> HIDE DEF Below
  <2>3. Below(q) \in SUBSET Below(r) /\ Below(q) # Below(r)
    BY <2>1, <2>2
  <2> QED BY <1>1, <2>3, FS_Subset
<1>4. \A q, r \in S : q # r => Cardinality(Below(q)) # Cardinality(Below(r))
  BY <1>0, <1>3
<1> DEFINE f == [r \in S |-> Cardinality(Below(r))]
<1>5. f \in Injection(S, Places)
  <2>1. f \in [S -> Places]
    BY <1>0, <1>1, <1>2
  <2> QED BY <1>4, <2>1 DEF Injection, IsInjective
<1>6. IsFiniteSet(Places) /\ Cardinality(Places) = Cardinality(S)
  BY <1>0, FS_Interval
<1>7. f \in Surjection(S, Places)
  BY <1>5, <1>6, FS_Injection
<1>8. \A i \in Places : \E r \in S : f[r] = i
  BY <1>7 DEF Surjection
<1> QED BY <1>0, <1>1, <1>2, <1>4, <1>8 DEF Rank

\* Lines numbered 1 to n, each number once, are n lines.
Counted(S, n) == /\ {e.seq : e \in S} = 1..n
                 /\ \A d, e \in S : d.seq = e.seq => d = e

\* Their numbers count them.
LEMMA CountedLines ==
  ASSUME NEW S, NEW n \in Nat, Counted(S, n)
  PROVE  Cardinality(S) = n
<1> DEFINE f == [i \in 1..n |-> CHOOSE e \in S : e.seq = i]
<1>1. \A i \in 1..n : f[i] \in S /\ f[i].seq = i
  <2> TAKE i \in 1..n
  <2>1. \E e \in S : e.seq = i
    BY DEF Counted
  <2> QED BY <2>1
<1>2. \A e \in S : e.seq \in 1..n /\ f[e.seq] = e
  BY <1>1 DEF Counted
<1> HIDE DEF f
<1>3. f \in [1..n -> S]
  <2>1. f = [i \in 1..n |-> f[i]]
    BY DEF f
  <2> QED BY <1>1, <2>1
<1>4. f \in Bijection(1..n, S)
  BY <1>1, <1>2, <1>3 DEF Bijection, Injection, Surjection, IsInjective
<1>5. ExistsBijection(1..n, S)
  BY <1>4 DEF ExistsBijection
<1> QED BY <1>5, FS_CountingElements

\* No number of the ledger is missing or given twice; who has one writes it next.
NumberInv ==
  /\ HeldInv
  /\ Counted(ledger, Cardinality(ledger))
  /\ \A c \in Call : txn[c].at = "key" => txn[c].seq = NextSeq

\* The lines of a sanction have the next numbers.
LEMMA SanctionNumbers ==
  ASSUME NumberInv, NEW c \in Call, NEW new \in 0..Begins
  PROVE  /\ After(c) = NextSeq + Cardinality(txn[c].lifts)
         /\ \A e \in Sanctioned(c, new) : e.seq >= NextSeq
         /\ \A e \in Lifted(c) : e.seq < After(c)
         /\ \E n \in Nat : Counted(ledger \cup Sanctioned(c, new), n)
<1> DEFINE S == txn[c].lifts
           k == Cardinality(S)
           m == Cardinality(ledger)
<1>1. S \in SUBSET Row /\ m \in Nat /\ NextSeq = m + 1 /\ IsFiniteSet(ledger)
  BY CountsAreNumbers DEF NumberInv, HeldInv, CallInv, ModTypeOK, Txn, NextSeq
<1>2. /\ k \in Nat /\ \A r \in S : Rank(S, r) \in 0..(k - 1)
      /\ \A q, r \in S : q # r => Rank(S, q) # Rank(S, r)
      /\ \A i \in 0..(k - 1) : \E r \in S : Rank(S, r) = i
  BY <1>1, Ranks
<1>3. Lifted(c) = {Line(c, m + 1 + Rank(S, r), "lift", r) : r \in S}
  BY <1>1 DEF Lifted, Rank
<1>4. \A n, what, row : Line(c, n, what, row).seq = n /\ Line(c, n, what, row).what = what
  BY DEF Line
<1> HIDE DEF k, m, S
<1>5. \A e \in Lifted(c) : \E r \in S : /\ e = Line(c, m + 1 + Rank(S, r), "lift", r)
                                        /\ e.seq = m + 1 + Rank(S, r)
  BY <1>3, <1>4
<1>6. \A e \in Lifted(c) : e.seq \in (m + 1)..(m + k)
  BY <1>1, <1>2, <1>5
<1>7. \A d, e \in Lifted(c) : d.seq = e.seq => d = e
  <2> TAKE d, e \in Lifted(c)
  <2>1. PICK q \in S : d = Line(c, m + 1 + Rank(S, q), "lift", q) /\ d.seq = m + 1 + Rank(S, q)
    BY <1>5
  <2>2. PICK r \in S : e = Line(c, m + 1 + Rank(S, r), "lift", r) /\ e.seq = m + 1 + Rank(S, r)
    BY <1>5
  <2>3. d.seq = e.seq => Rank(S, q) = Rank(S, r)
    BY <1>1, <1>2, <2>1, <2>2
  <2> QED BY <1>2, <2>1, <2>2, <2>3
<1>8. \A i \in (m + 1)..(m + k) : \E e \in Lifted(c) : e.seq = i
  <2> TAKE i \in (m + 1)..(m + k)
  <2>1. i - (m + 1) \in 0..(k - 1)
    BY <1>1, <1>2
  <2>2. PICK r \in S : Rank(S, r) = i - (m + 1)
    BY <1>2, <2>1
  <2>3. m + 1 + Rank(S, r) = i
    BY <1>1, <2>2
  <2> QED BY <1>3, <1>4, <2>3
<1>9. After(c) = m + 1 + k
  BY <1>1 DEF After, S, k
<1> DEFINE own == Line(c, m + 1 + k, "sanction", new)
           closing == Line(c, m + 2 + k, "resolve", 0)
<1>10. Sanctioned(c, new) = Lifted(c) \cup {own} \cup (IF Closes(c) THEN {closing} ELSE {})
  <2>1. After(c) + 1 = m + 2 + k
    BY <1>1, <1>2, <1>9
  <2> QED BY <1>9, <2>1 DEF Sanctioned
<1>11. own.seq = m + 1 + k /\ closing.seq = m + 2 + k
  BY <1>4
<1> HIDE DEF own, closing
<1>12. /\ \A e \in ledger : e.seq \in 1..m
       /\ \A i \in 1..m : \E e \in ledger : e.seq = i
       /\ \A d, e \in ledger : d.seq = e.seq => d = e
  BY DEF NumberInv, Counted, m
<1> DEFINE U == ledger \cup Sanctioned(c, new)
           n == IF Closes(c) THEN m + 2 + k ELSE m + 1 + k
<1>13. \A d, e \in U : d.seq = e.seq => d = e
  BY <1>1, <1>2, <1>6, <1>7, <1>10, <1>11, <1>12
<1>14. \A e \in U : e.seq \in 1..n
  BY <1>1, <1>2, <1>6, <1>10, <1>11, <1>12
<1>15. \A i \in 1..n : \E e \in U : e.seq = i
  <2> TAKE i \in 1..n
  <2>1. CASE i \in 1..m
    BY <1>12, <2>1
  <2>2. CASE i \in (m + 1)..(m + k)
    BY <1>8, <1>10, <2>2
  <2>3. CASE i = m + 1 + k
    BY <1>10, <1>11, <2>3
  <2>4. CASE i = m + 2 + k /\ Closes(c)
    BY <1>10, <1>11, <2>4
  <2> QED BY <1>1, <1>2, <2>1, <2>2, <2>3, <2>4
<1>16. n \in Nat /\ Counted(U, n)
  BY <1>1, <1>2, <1>13, <1>14, <1>15 DEF Counted
<1>17. \A e \in Sanctioned(c, new) : e.seq >= m + 1
  BY <1>1, <1>2, <1>6, <1>10, <1>11
<1> QED BY <1>1, <1>2, <1>6, <1>9, <1>16, <1>17 DEF S, k

\* One more line with the next number.
LEMMA LineNumbers ==
  ASSUME NumberInv, NEW x, x.seq = NextSeq
  PROVE  Counted(ledger \cup {x}, NextSeq) /\ NextSeq \in Nat
<1>1. Cardinality(ledger) \in Nat /\ NextSeq = Cardinality(ledger) + 1
  BY CountsAreNumbers DEF NumberInv, HeldInv, CallInv, NextSeq
<1>2. /\ \A e \in ledger : e.seq \in 1..Cardinality(ledger)
      /\ \A i \in 1..Cardinality(ledger) : \E e \in ledger : e.seq = i
      /\ \A d, e \in ledger : d.seq = e.seq => d = e
  BY DEF NumberInv, Counted
<1>3. \A d, e \in ledger \cup {x} : d.seq = e.seq => d = e
  BY <1>1, <1>2
<1>4. \A e \in ledger \cup {x} : e.seq \in 1..NextSeq
  BY <1>1, <1>2
<1>5. \A i \in 1..NextSeq : \E e \in ledger \cup {x} : e.seq = i
  <2> TAKE i \in 1..NextSeq
  <2>1. CASE i = NextSeq
    BY <2>1
  <2>2. CASE i \in 1..Cardinality(ledger)
    BY <1>2, <2>2
  <2> QED BY <1>1, <2>1, <2>2
<1> QED BY <1>1, <1>3, <1>4, <1>5 DEF Counted

\* The ledger's lock: who has a number is the only one who has, and the only one
\* who can write.
LEMMA ChainExclusive ==
  ASSUME HeldInv, NEW c \in Call, NEW d \in Call, c # d, txn[d].at = "key"
  PROVE  ~ TxnCommits(c) /\ txn[c].at # "key"
<1>1. lock[Chain] = d /\ d # NoOne
  BY NoOneIsNoCall DEF HeldInv, HeldBy
<1>2. txn[c].at # "key" /\ ~ MayLock(c, Chain)
  BY <1>1 DEF HeldInv, HeldBy, MayLock
<1> QED BY <1>2 DEF TxnCommits, SanctionCommits, LiftCommits, ResolveCommits, TriageCommits,
       ContentCommits

\* Who writes one line writes it with the next number.
OneLine(c, what) == /\ txn[c].at = "key" /\ txn[c].seq = NextSeq
                    /\ ledger' = ledger \cup {Line(c, NextSeq, what, txn[c].row)}

\* What a call that commits writes.
LEMMA LedgerMoves ==
  ASSUME NumberInv, NEW c \in Call, TxnCommits(c)
  PROVE  /\ txn'[c] = NoTxn
         /\ \/ \E new \in 0..Begins : SanctionWrites(c, new)
            \/ LiftCommits(c) /\ OneLine(c, "lift")
            \/ ResolveCommits(c) /\ OneLine(c, "resolve")
            \/ TriageCommits(c) /\ \E what \in {"reopen", "triage"} : OneLine(c, what)
            \/ ContentCommits(c) /\ OneLine(c, txn[c].op)
<1>1. txn'[c] = NoTxn
  BY DEF NumberInv, HeldInv, CallInv, ModTypeOK, TxnCommits, SanctionCommits, LiftCommits,
     ResolveCommits, TriageCommits, ContentCommits, Commits
<1>2. txn[c].at = "key" => txn[c].seq = NextSeq
  BY DEF NumberInv
<1>3. SanctionCommits(c) => \E new \in 0..Begins : SanctionWrites(c, new)
  BY SanctionWritten DEF NumberInv, HeldInv
<1>4. LiftCommits(c) => OneLine(c, "lift")
  BY <1>2 DEF LiftCommits, Writes, OneLine
<1>5. ResolveCommits(c) => OneLine(c, "resolve")
  BY <1>2 DEF ResolveCommits, Writes, OneLine
<1>6. TriageCommits(c) => \E what \in {"reopen", "triage"} : OneLine(c, what)
  BY <1>2 DEF TriageCommits, Writes, OneLine
<1>7. ContentCommits(c) => OneLine(c, txn[c].op)
  BY <1>2 DEF ContentCommits, Writes, OneLine
<1> QED BY <1>1, <1>3, <1>4, <1>5, <1>6, <1>7 DEF TxnCommits

\* A step that neither ends nor rolls back a transaction changes its place, and
\* what else that step is about.
SameCall(t, u) ==
  /\ t.fn = u.fn /\ t.by = u.by /\ t.op = u.op /\ t.to = u.to /\ t.row = u.row
  /\ t.link = u.link /\ t.seen = u.seen /\ t.now = u.now

\* What a call that runs on without committing changes of itself.
LEMMA Moves ==
  ASSUME CallInv, NEW c \in Call, RunsOn(c), ~ TxnCommits(c), ~ RollsBack(c)
  PROVE  /\ SameCall(txn[c], txn'[c])
         /\ txn'[c].at = "key" => Seals(c)
         /\ Seals(c) => txn'[c].at = "key" /\ txn'[c].seq = NextSeq
         /\ txn'[c].result = txn[c].result \/ LockResolved(c)
         /\ \/ txn'[c].todo = txn[c].todo /\ txn'[c].lifts = txn[c].lifts
            \/ SanctionTerms(c) \/ LockReplaced(c)
<1> DEFINE Goal == /\ SameCall(txn[c], txn'[c])
                   /\ txn'[c].at = "key" => Seals(c)
                   /\ Seals(c) => txn'[c].at = "key" /\ txn'[c].seq = NextSeq
                   /\ txn'[c].result = txn[c].result \/ LockResolved(c)
                   /\ \/ txn'[c].todo = txn[c].todo /\ txn'[c].lifts = txn[c].lifts
                      \/ SanctionTerms(c) \/ LockReplaced(c)
<1> SUFFICES Goal
  OBVIOUS
<1>0. txn[c] \in Txn /\ \A t : txn' = [txn EXCEPT ![c] = t] => txn'[c] = t
  BY DEF CallInv, ModTypeOK
<1>1. CASE Seals(c)
  <2>1. txn'[c] = [txn[c] EXCEPT !.at = "key", !.seq = NextSeq]
    BY <1>0, <1>1 DEF Seals
  <2> QED BY <1>0, <1>1, <2>1 DEF Txn, SameCall
<1>2. CASE ~ Seals(c) /\ SanctionTerms(c)
  <2>1. PICK rows, p : /\ p \in {"seal", "replace"}
                       /\ txn' = [txn EXCEPT ![c] = [txn[c] EXCEPT !.todo = rows, !.at = p]]
    BY <1>2 DEF SanctionTerms
  <2>2. txn'[c] = [txn[c] EXCEPT !.todo = rows, !.at = p]
    BY <1>0, <2>1
  <2>3. SameCall(txn[c], txn'[c]) /\ txn'[c].result = txn[c].result /\ txn'[c].at = p
    BY <1>0, <2>2 DEF Txn, SameCall
  <2> QED BY <1>2, <2>1, <2>3
<1>3. CASE ~ Seals(c) /\ LockReplaced(c)
  <2>1. PICK rows, lifts, p :
          /\ p \in {"seal", "replace"}
          /\ txn' = [txn EXCEPT ![c] = [txn[c] EXCEPT !.todo = rows, !.lifts = lifts, !.at = p]]
    BY <1>3 DEF LockReplaced
  <2>2. txn'[c] = [txn[c] EXCEPT !.todo = rows, !.lifts = lifts, !.at = p]
    BY <1>0, <2>1
  <2>3. SameCall(txn[c], txn'[c]) /\ txn'[c].result = txn[c].result /\ txn'[c].at = p
    BY <1>0, <2>2 DEF Txn, SameCall
  <2> QED BY <1>3, <2>1, <2>3
<1>4. CASE ~ Seals(c) /\ LockResolved(c)
  <2>1. PICK result : txn' = [txn EXCEPT ![c] = [txn[c] EXCEPT !.at = "seal", !.result = result]]
    BY <1>4 DEF LockResolved
  <2>2. txn'[c] = [txn[c] EXCEPT !.at = "seal", !.result = result]
    BY <1>0, <2>1
  <2> QED BY <1>0, <1>4, <2>2 DEF Txn, SameCall
<1>5. ASSUME ~ Seals(c), NEW p \in Step \ {"key"}, GoesTo(c, p) PROVE Goal
  <2>1. txn'[c] = [txn[c] EXCEPT !.at = p]
    BY <1>0, <1>5 DEF GoesTo
  <2> QED BY <1>0, <1>5, <2>1 DEF Txn, SameCall
<1>6. CASE ~ Seals(c) /\ (LockUser(c) \/ LockItsReport(c) \/ LockLifted(c) \/ LiftFlag(c)
             \/ LockTriaged(c) \/ LockMessage(c) \/ LiftChecks(c))
  <2>1. \E p \in Step \ {"key"} : GoesTo(c, p)
    BY <1>6 DEF LockUser, LockItsReport, LockLifted, LiftFlag, LockTriaged,
       LockMessage, LiftChecks, Step
  <2> QED BY <1>5, <1>6, <2>1
<1> QED BY <1>1, <1>2, <1>3, <1>4, <1>6 DEF RunsOn, TakesLock

\* The ledger stays counted.
LEMMA NumberStep == NumberInv /\ [ModNext]_modVars => NumberInv'
<1>1. ASSUME NumberInv, UNCHANGED modVars PROVE NumberInv'
  <2>1. HeldInv'
    BY <1>1, HeldStep DEF NumberInv
  <2> QED BY <1>1, <2>1 DEF NumberInv, NextSeq, modVars, tables
<1>2. ASSUME NumberInv, ModNext PROVE NumberInv'
  <2>0. HeldInv /\ HeldInv' /\ CallInv
    BY <1>2, HeldStep DEF NumberInv, HeldInv
  <2>1. ASSUME NEW c \in Call, TxnCommits(c)
        PROVE  /\ \E n \in Nat : Counted(ledger', n)
               /\ \A d \in Call : txn'[d].at # "key"
    <3>1. /\ txn'[c] = NoTxn
          /\ \/ \E new \in 0..Begins : SanctionWrites(c, new)
             \/ \E what : OneLine(c, what)
      BY <1>2, <2>1, LedgerMoves
    <3>2. Keeps(c)
      BY <2>0, <2>1, OthersKept DEF Acts, RunsOn
    <3>3. \A d \in Call : txn'[d].at # "key"
      <4> TAKE d \in Call
      <4>1. CASE d = c
        BY <3>1, <4>1 DEF NoTxn
      <4>2. CASE d # c
        <5>1. txn[d].at # "key"
          BY <2>0, <2>1, <4>2, ChainExclusive
        <5> QED BY <3>2, <4>2, <5>1 DEF Keeps
      <4> QED BY <4>1, <4>2
    <3>4. ASSUME NEW new \in 0..Begins, SanctionWrites(c, new)
          PROVE  \E n \in Nat : Counted(ledger', n)
      BY <1>2, <3>4, SanctionNumbers DEF SanctionWrites
    <3>5. ASSUME NEW what, OneLine(c, what) PROVE \E n \in Nat : Counted(ledger', n)
      <4>1. Line(c, NextSeq, what, txn[c].row).seq = NextSeq
        BY DEF Line
      <4> QED BY <1>2, <3>5, <4>1, LineNumbers DEF OneLine
    <3> QED BY <3>1, <3>3, <3>4, <3>5
  <2>2. ASSUME NEW c \in Call, Acts(c), ~ TxnCommits(c)
        PROVE  /\ ledger' = ledger
               /\ \A d \in Call : txn'[d].at = "key" => txn'[d].seq = NextSeq
    <3>1. ledger' = ledger
      BY <2>2, OnlyCommitsWrite DEF tables
    <3>2. Keeps(c)
      BY <2>0, <2>2, OthersKept
    <3>3. txn'[c].at = "key" => txn'[c].seq = NextSeq
      <4>0. /\ txn[c] \in Txn /\ \A t : txn' = [txn EXCEPT ![c] = t] => txn'[c] = t
        BY <2>0 DEF CallInv, ModTypeOK
      <4>1. CASE Asks(c)
        BY <2>0, <4>1, AskStep
      <4>2. CASE RollsBack(c)
        BY <4>0, <4>2 DEF RollsBack, NoTxn
      <4>3. CASE RunsOn(c) /\ ~ RollsBack(c)
        BY <2>0, <2>2, <4>3, Moves
      <4> QED BY <2>2, <4>1, <4>2, <4>3 DEF Acts, Aborts, DeadlockFound
    <3> QED BY <1>2, <3>1, <3>2, <3>3 DEF Keeps, NumberInv
  <2>3. CASE \E c \in Call : TxnCommits(c)
    <3>1. PICK n \in Nat : Counted(ledger', n)
      BY <2>1, <2>3
    <3>2. Counted(ledger', Cardinality(ledger'))
      BY <3>1, CountedLines
    <3> QED BY <2>0, <2>1, <2>3, <3>2 DEF NumberInv
  <2>4. CASE \E c \in Call : Acts(c) /\ ~ TxnCommits(c)
    <3>1. ledger' = ledger /\ \A d \in Call : txn'[d].at = "key" => txn'[d].seq = NextSeq
      BY <2>2, <2>4
    <3> QED BY <1>2, <2>0, <3>1 DEF NumberInv, NextSeq
  <2>5. CASE UNCHANGED <<txn, ledger>>
    BY <1>2, <2>0, <2>5 DEF NumberInv, NextSeq
  <2> QED BY <1>2, <2>3, <2>4, <2>5 DEF ModNext, Acts, TermEnds, SenderDeletes
<1> QED BY <1>1, <1>2

-----------------------------------------------------------------------------
(* The lines of the ledger.                                                *)

\* Every restriction has its lines, every lift is of a row its call has locked.
RowInv ==
  /\ NumberInv
  /\ \A r \in Row :
       /\ restriction[r].kind # "none" <=> \E e \in ledger : e.what = "sanction" /\ e.row = r
       /\ restriction[r].lifted <=> \E e \in ledger : e.what = "lift" /\ e.row = r
       /\ restriction[r].kind = "none" => ~ restriction[r].lifted
       /\ restriction[r].kind = "ban" => restriction[r].ends = NoEnd
       /\ restriction[r].kind # "none" => \A s \in Row : s < r => restriction[s].kind # "none"
  /\ \A d, e \in ledger :
       d.what = e.what /\ d.row = e.row /\ d.what \in {"sanction", "lift"} /\ d.row \in Row =>
         d = e
  /\ \A c \in Call :
       /\ txn[c].fn = "lift" => restriction[txn[c].row].kind = txn[c].op
       /\ txn[c].fn = "lift" /\ txn[c].at # "row" => ~ restriction[txn[c].row].lifted
       /\ \A r \in txn[c].lifts : ~ restriction[r].lifted

\* Which lines a sanction writes: its own, and one for each row it lifts.
LEMMA SanctionedLines ==
  ASSUME NEW c \in Call, NEW new \in 0..Begins
  PROVE  /\ \A e \in Sanctioned(c, new) :
              \/ e.what = "sanction" /\ e.row = new /\ e = Line(c, After(c), "sanction", new)
              \/ e.what = "lift" /\ e.row \in txn[c].lifts /\ e \in Lifted(c)
              \/ e.what = "resolve"
         /\ \E e \in Sanctioned(c, new) : e.what = "sanction" /\ e.row = new
         /\ \A e \in Lifted(c) : e.what = "lift"
         /\ \A r \in txn[c].lifts : \E e \in Sanctioned(c, new) : e.what = "lift" /\ e.row = r
         /\ \A d, e \in Sanctioned(c, new) :
              d.what = e.what /\ d.row = e.row /\ d.what \in {"sanction", "lift"} => d = e
<1> DEFINE N(r) == NextSeq + Cardinality({s \in txn[c].lifts : s < r})
<1>1. \A n, what, row : Line(c, n, what, row).what = what /\ Line(c, n, what, row).row = row
  BY DEF Line
<1>0. Lifted(c) = {Line(c, N(r), "lift", r) : r \in txn[c].lifts}
  BY DEF Lifted
<1> HIDE DEF N
<1>2. \A e \in Lifted(c) : e.what = "lift" /\ e.row \in txn[c].lifts /\ e = Line(c, N(e.row), "lift", e.row)
  <2> TAKE e \in Lifted(c)
  <2>1. PICK r \in txn[c].lifts : e = Line(c, N(r), "lift", r)
    BY <1>0
  <2>2. e.what = "lift" /\ e.row = r
    BY <1>1, <2>1
  <2> QED BY <2>1, <2>2
<1>3. \A r \in txn[c].lifts : \E e \in Lifted(c) : e.what = "lift" /\ e.row = r
  <2> TAKE r \in txn[c].lifts
  <2>1. Line(c, N(r), "lift", r) \in Lifted(c)
    BY <1>0
  <2> QED BY <1>1, <2>1
<1>4. \A e \in Sanctioned(c, new) :
        \/ e.what = "sanction" /\ e.row = new /\ e = Line(c, After(c), "sanction", new)
        \/ e.what = "lift" /\ e.row \in txn[c].lifts /\ e \in Lifted(c)
        \/ e.what = "resolve"
  <2> TAKE e \in Sanctioned(c, new)
  <2>1. e \in Lifted(c) \/ e = Line(c, After(c), "sanction", new) \/ e = Line(c, After(c) + 1, "resolve", 0)
    BY DEF Sanctioned
  <2> QED BY <1>1, <1>2, <2>1
<1>5. \E e \in Sanctioned(c, new) : e.what = "sanction" /\ e.row = new
  BY <1>1 DEF Sanctioned
<1>6. \A d, e \in Lifted(c) : d.row = e.row => d = e
  BY <1>2
<1>7. Lifted(c) \subseteq Sanctioned(c, new)
  BY DEF Sanctioned
<1>8. \A d, e \in Sanctioned(c, new) :
        d.what = e.what /\ d.row = e.row /\ d.what \in {"sanction", "lift"} => d = e
  BY <1>4, <1>6
<1> QED BY <1>2, <1>3, <1>4, <1>5, <1>7, <1>8

\* A step that changes the restrictions.
RowsKept == UNCHANGED <<restriction, isBanned>>
\* Who writes restrictions, and which lines go with it.
LEMMA WhoMovesRows ==
  ASSUME NumberInv, ModNext
  PROVE  \/ \E c \in Call : \E new \in 0..Begins : TxnCommits(c) /\ SanctionWrites(c, new)
         \/ \E c \in Call : TxnCommits(c) /\ LiftCommits(c) /\ OneLine(c, "lift")
         \/ \E c \in Call : TxnCommits(c) /\ RowsKept /\ txn[c].fn # "lift" /\
              \E what \in {"triage", "reopen", "resolve", "hide", "show"} : OneLine(c, what)
         \/ \E r \in Row : TermEnds(r)
         \/ SenderDeletes
         \/ \E c \in Call : Acts(c) /\ ~ TxnCommits(c) /\ UNCHANGED tables
<1>1. ASSUME NEW c \in Call, ContentCommits(c) PROVE txn[c].op \in {"hide", "show"}
  BY <1>1 DEF NumberInv, HeldInv, CallInv, CallAt, ContentCommits
<1>2. ASSUME NEW c \in Call, TxnCommits(c)
      PROVE  \/ \E new \in 0..Begins : SanctionWrites(c, new)
             \/ LiftCommits(c) /\ OneLine(c, "lift")
             \/ RowsKept /\ txn[c].fn # "lift" /\
                \E what \in {"triage", "reopen", "resolve", "hide", "show"} : OneLine(c, what)
  <2>1. ResolveCommits(c) \/ TriageCommits(c) \/ ContentCommits(c) => RowsKept /\ txn[c].fn # "lift"
    BY DEF ResolveCommits, TriageCommits, ContentCommits, RowsKept
  <2> QED BY <1>1, <1>2, <2>1, LedgerMoves
<1>3. ASSUME NEW c \in Call, Acts(c), ~ TxnCommits(c) PROVE UNCHANGED tables
  BY <1>3, OnlyCommitsWrite
<1> QED BY <1>2, <1>3 DEF ModNext, Acts, RunsOn

\* Restrictions and lines stay in step.
LEMMA RowStep == RowInv /\ [ModNext]_modVars => RowInv'
<1> DEFINE RowOK(r) ==
             /\ restriction[r].kind # "none" <=> \E e \in ledger : e.what = "sanction" /\ e.row = r
             /\ restriction[r].lifted <=> \E e \in ledger : e.what = "lift" /\ e.row = r
             /\ restriction[r].kind = "none" => ~ restriction[r].lifted
             /\ restriction[r].kind = "ban" => restriction[r].ends = NoEnd
             /\ restriction[r].kind # "none" =>
                  \A s \in Row : s < r => restriction[s].kind # "none"
           Once == \A d, e \in ledger :
             d.what = e.what /\ d.row = e.row /\ d.what \in {"sanction", "lift"} /\ d.row \in Row =>
               d = e
           CallOK(c) ==
             /\ txn[c].fn = "lift" => restriction[txn[c].row].kind = txn[c].op
             /\ txn[c].fn = "lift" /\ txn[c].at # "row" => ~ restriction[txn[c].row].lifted
             /\ \A r \in txn[c].lifts : ~ restriction[r].lifted
<1>1. ASSUME RowInv, UNCHANGED modVars PROVE RowInv'
  <2>1. NumberInv'
    BY <1>1, NumberStep DEF RowInv
  <2> QED BY <1>1, <2>1 DEF RowInv, modVars, tables
<1>2. ASSUME RowInv, ModNext PROVE RowInv'
  <2>0. /\ NumberInv /\ NumberInv' /\ HeldInv /\ CallInv /\ CallInv'
        /\ \A r \in Row : RowOK(r) /\ RowMoves(r)
        /\ Once /\ \A c \in Call : CallOK(c)
    BY <1>2, NumberStep, TablesStep DEF RowInv, NumberInv, HeldInv
  <2>t. /\ \A c \in Call : /\ txn[c] \in Txn /\ CallAt(txn[c]) /\ HeldBy(c)
                           /\ txn[c].lifts \subseteq Row
                           /\ \A r \in txn[c].lifts : restriction[r].kind # "none"
                           /\ txn[c].fn = "lift" => txn[c].row \in Row /\ txn[c].op \in Kind
        /\ \A r \in Row : /\ restriction[r].lifted \in BOOLEAN /\ r \in 0..Begins /\ r # 0 /\ r \in Int
                          /\ restriction[r] \in [kind : Kind \cup {"none"}, lifted : BOOLEAN,
                                                 starts : Nat, ends : Nat \cup {NoEnd}]
        /\ "none" \notin Kind
    <3>1. Row \subseteq (0..Begins) \cap Int /\ 0 \notin Row
      BY ModerationBound DEF Row
    <3> QED BY <2>0, <3>1 DEF HeldInv, CallInv, ModTypeOK, Txn, CallAt, Kind
  <2>l. \A n, what, row : \A c \in Call :
          LET e == Line(c, n, what, row) IN e.what = what /\ e.row = row
    BY DEF Line
  \* What the other calls have locked stays as it was.
  <2>k. ASSUME NEW c \in Call, Acts(c), NEW d \in Call, d # c,
               \A r \in Row : restriction'[r].lifted /\ restriction[r].kind # "none" =>
                                restriction[r].lifted \/ lock[RowLock(r)] = c
        PROVE  CallOK(d)'
    <3>1. txn'[d] = txn[d]
      BY <2>0, <2>k, OthersKept DEF Keeps
    <3>2. ASSUME NEW r \in txn[d].lifts PROVE ~ restriction'[r].lifted
      <4>1. r \in Row /\ lock[RowLock(r)] = d /\ restriction[r].kind # "none" /\ ~ restriction[r].lifted
        BY <2>0, <2>t, <3>2 DEF HeldBy
      <4> QED BY <2>k, <4>1
    <3>3. ASSUME txn[d].fn = "lift"
          PROVE  /\ restriction'[txn[d].row].kind = txn[d].op
                 /\ txn[d].at # "row" => ~ restriction'[txn[d].row].lifted
      <4>1. /\ txn[d].row \in Row /\ restriction[txn[d].row].kind = txn[d].op
            /\ restriction[txn[d].row].kind # "none"
        BY <2>0, <2>t, <3>3
      <4>2. restriction'[txn[d].row].kind = txn[d].op
        BY <2>0, <4>1 DEF RowMoves
      <4>3. ASSUME txn[d].at # "row" PROVE ~ restriction'[txn[d].row].lifted
        <5>1. lock[RowLock(txn[d].row)] = d /\ ~ restriction[txn[d].row].lifted
          BY <2>0, <2>t, <3>3, <4>3 DEF HeldBy
        <5> QED BY <2>k, <4>1, <5>1
      <4> QED BY <4>2, <4>3
    <3> QED BY <3>1, <3>2, <3>3
  <2>e. ASSUME NEW c \in Call, txn'[c] = NoTxn PROVE CallOK(c)'
    BY <2>e DEF NoTxn
  <2>3. ASSUME NEW c \in Call, NEW new \in 0..Begins, TxnCommits(c), SanctionWrites(c, new)
        PROVE  (\A r \in Row : RowOK(r)') /\ Once' /\ (\A d \in Call : CallOK(d)')
    <3>1. /\ txn'[c] = NoTxn /\ Acts(c)
          /\ ledger' = ledger \cup Sanctioned(c, new)
          /\ txn[c].op \in Kind \cup {"warning"} /\ txn[c].fn = "sanction" /\ txn[c].at = "seal"
      BY <2>0, <2>3, <2>t, LedgerMoves DEF SanctionWrites, CallAt, Acts, RunsOn
    <3>2. /\ \A r \in Row : r # new =>
               /\ restriction'[r].kind = restriction[r].kind
               /\ restriction'[r].ends = restriction[r].ends
               /\ restriction'[r].lifted <=> (r \in txn[c].lifts \/ restriction[r].lifted)
          /\ new \in Row =>
               /\ restriction'[new].kind = txn[c].op /\ txn[c].op # "none"
               /\ restriction'[new].ends = NoEnd /\ ~ restriction'[new].lifted
               /\ restriction[new].kind = "none"
               /\ \A s \in Row : restriction[s].kind = "none" => new <= s
      BY <2>3, <2>t, <3>1, ModerationBound DEF SanctionWrites, Kind
    <3>3. /\ \A e \in Sanctioned(c, new) :
               \/ e.what = "sanction" /\ e.row = new
               \/ e.what = "lift" /\ e.row \in txn[c].lifts
               \/ e.what = "resolve"
          /\ \E e \in Sanctioned(c, new) : e.what = "sanction" /\ e.row = new
          /\ \A r \in txn[c].lifts : \E e \in Sanctioned(c, new) : e.what = "lift" /\ e.row = r
          /\ \A d, e \in Sanctioned(c, new) :
               d.what = e.what /\ d.row = e.row /\ d.what \in {"sanction", "lift"} => d = e
      BY SanctionedLines
    <3>4. \A r \in txn[c].lifts : r \in Row /\ r # new /\ ~ restriction[r].lifted
      BY <2>0, <2>t, <3>2
    <3>5. ASSUME NEW r \in Row PROVE RowOK(r)'
      <4>1. CASE r = new
        <5>1. restriction[r].kind = "none" /\ ~ restriction[r].lifted
          BY <2>0, <3>2, <4>1
        <5>2. ~ \E e \in ledger' : e.what = "lift" /\ e.row = r
          BY <2>0, <3>1, <3>3, <3>4, <4>1, <5>1
        <5>3. \E e \in ledger' : e.what = "sanction" /\ e.row = r
          BY <3>1, <3>3, <4>1
        <5>4. \A s \in Row : s < r => restriction'[s].kind # "none"
          <6> TAKE s \in Row
          <6>1. s \in Int /\ r \in Int
            BY <2>t
          <6>2. ASSUME s < r PROVE restriction'[s].kind # "none"
            <7>1. s # new /\ ~ new <= s
              BY <4>1, <6>1, <6>2
            <7> QED BY <3>2, <4>1, <7>1
          <6> QED BY <6>2
        <5> QED BY <3>2, <4>1, <5>2, <5>3, <5>4
      <4>2. CASE r # new
        <5>1. restriction'[r].kind # "none" <=> \E e \in ledger' : e.what = "sanction" /\ e.row = r
          BY <2>0, <3>1, <3>2, <3>3, <4>2
        <5>2. restriction'[r].lifted <=> \E e \in ledger' : e.what = "lift" /\ e.row = r
          BY <2>0, <2>t, <3>1, <3>2, <3>3, <4>2
        <5>3. restriction'[r].kind # "none" => \A s \in Row : s < r => restriction'[s].kind # "none"
          BY <2>0, <3>2, <4>2
        <5>4. restriction'[r].kind = "none" => ~ restriction'[r].lifted
          BY <2>0, <2>t, <3>2, <4>2
        <5> QED BY <2>0, <3>2, <4>2, <5>1, <5>2, <5>3, <5>4
      <4> QED BY <4>1, <4>2
    <3>6. Once'
      <4>1. ASSUME NEW d \in ledger, NEW e \in Sanctioned(c, new),
                   d.what = e.what, d.row = e.row, d.what \in {"sanction", "lift"}, d.row \in Row
            PROVE  FALSE
        BY <2>0, <3>2, <3>3, <3>4, <4>1
      <4> QED BY <2>0, <3>1, <3>3, <4>1
    <3>7. \A d \in Call : CallOK(d)'
      <4>1. \A r \in Row : restriction'[r].lifted /\ restriction[r].kind # "none" =>
                             restriction[r].lifted \/ lock[RowLock(r)] = c
        BY <2>t, <3>2 DEF HeldBy
      <4> HIDE DEF CallOK
      <4> QED BY <2>e, <2>k, <3>1, <4>1
    <3> QED BY <3>5, <3>6, <3>7
  <2>4. ASSUME NEW c \in Call, TxnCommits(c), LiftCommits(c), OneLine(c, "lift")
        PROVE  (\A r \in Row : RowOK(r)') /\ Once' /\ (\A d \in Call : CallOK(d)')
    <3> DEFINE q == txn[c].row
               x == Line(c, NextSeq, "lift", q)
    <3>1. /\ txn'[c] = NoTxn /\ Acts(c) /\ txn[c].fn = "lift" /\ txn[c].at = "key"
          /\ ledger' = ledger \cup {x} /\ x.what = "lift" /\ x.row = q /\ q \in Row
          /\ lock[RowLock(q)] = c /\ ~ restriction[q].lifted /\ restriction[q].kind # "none"
      BY <2>0, <2>4, <2>l, <2>t, LedgerMoves DEF LiftCommits, OneLine, Acts, RunsOn, HeldBy
    <3>2. restriction' = [restriction EXCEPT ![q] = [restriction[q] EXCEPT !.lifted = TRUE]]
      BY <2>4 DEF LiftCommits
    <3>3. \A r \in Row : /\ restriction'[r].kind = restriction[r].kind
                         /\ restriction'[r].ends = restriction[r].ends
                         /\ restriction'[r].lifted <=> (r = q \/ restriction[r].lifted)
      BY <2>0, <2>t, <3>1, <3>2 DEF CallInv, ModTypeOK
    <3> HIDE DEF q, x
    <3>4. ASSUME NEW r \in Row PROVE RowOK(r)'
      <4>1. restriction'[r].kind # "none" <=> \E e \in ledger' : e.what = "sanction" /\ e.row = r
        BY <2>0, <3>1, <3>3
      <4>2. restriction'[r].lifted <=> \E e \in ledger' : e.what = "lift" /\ e.row = r
        BY <2>0, <3>1, <3>3
      <4>3. restriction'[r].kind # "none" => \A s \in Row : s < r => restriction'[s].kind # "none"
        BY <2>0, <3>3
      <4> QED BY <2>0, <3>1, <3>3, <4>1, <4>2, <4>3
    <3>5. Once'
      <4>1. \A e \in ledger : ~ (e.what = "lift" /\ e.row = q)
        BY <2>0, <3>1
      <4> QED BY <2>0, <3>1, <4>1
    <3>6. \A d \in Call : CallOK(d)'
      <4>1. \A r \in Row : restriction'[r].lifted /\ restriction[r].kind # "none" =>
                             restriction[r].lifted \/ lock[RowLock(r)] = c
        BY <2>t, <3>1, <3>3
      <4> HIDE DEF CallOK
      <4> QED BY <2>e, <2>k, <3>1, <4>1
    <3> QED BY <3>4, <3>5, <3>6
  <2>5. ASSUME NEW c \in Call, TxnCommits(c), RowsKept, txn[c].fn # "lift",
               NEW what \in {"triage", "reopen", "resolve", "hide", "show"}, OneLine(c, what)
        PROVE  (\A r \in Row : RowOK(r)') /\ Once' /\ (\A d \in Call : CallOK(d)')
    <3>1. /\ txn'[c] = NoTxn /\ Acts(c) /\ restriction' = restriction
      BY <2>0, <2>5, LedgerMoves DEF Acts, RunsOn, RowsKept
    <3>2. PICK x : ledger' = ledger \cup {x} /\ x.what = what
      BY <2>5, <2>l DEF OneLine
    <3>3. \A w \in {"sanction", "lift"} : \A r : (\E e \in ledger' : e.what = w /\ e.row = r)
                                               <=> (\E e \in ledger : e.what = w /\ e.row = r)
      BY <3>2
    <3>4. \A r \in Row : RowOK(r)'
      BY <2>0, <3>1, <3>3
    <3>5. Once'
      BY <2>0, <3>2
    <3>6. \A d \in Call : CallOK(d)'
      <4> HIDE DEF CallOK
      <4> QED BY <2>e, <2>k, <3>1
    <3> QED BY <3>4, <3>5, <3>6
  <2>6. ASSUME NEW q \in Row, TermEnds(q)
        PROVE  (\A r \in Row : RowOK(r)') /\ Once' /\ (\A d \in Call : CallOK(d)')
    <3>1. \A r \in Row : /\ restriction'[r].kind = restriction[r].kind
                         /\ restriction'[r].lifted = restriction[r].lifted
                         /\ r # q => restriction'[r].ends = restriction[r].ends
      BY <2>0, <2>6 DEF TermEnds, CallInv, ModTypeOK
    <3>2. restriction[q].kind # "ban" /\ ledger' = ledger /\ txn' = txn
      BY <2>6 DEF TermEnds
    <3> QED BY <2>0, <2>t, <3>1, <3>2
  <2>7. ASSUME SenderDeletes
        PROVE  (\A r \in Row : RowOK(r)') /\ Once' /\ (\A d \in Call : CallOK(d)')
    BY <2>0, <2>7 DEF SenderDeletes
  <2>8. ASSUME NEW c \in Call, Acts(c), ~ TxnCommits(c), UNCHANGED tables
        PROVE  (\A r \in Row : RowOK(r)') /\ Once' /\ (\A d \in Call : CallOK(d)')
    <3>0. restriction' = restriction /\ ledger' = ledger
      BY <2>8 DEF tables
    <3>1. (\A r \in Row : RowOK(r)') /\ Once'
      BY <2>0, <3>0
    <3>2. CallOK(c)'
      <4>0. /\ txn[c] \in Txn /\ \A t : txn' = [txn EXCEPT ![c] = t] => txn'[c] = t
        BY <2>0 DEF CallInv, ModTypeOK
      <4>1. CASE RollsBack(c)
        BY <2>e, <4>0, <4>1 DEF RollsBack
      <4>2. CASE Asks(c)
        <5>1. CallAt(txn'[c]) /\ txn'[c].at \in {"user", "row", "report", "message"}
          BY <2>0, <4>2, AskStep
        <5>2. txn'[c].lifts = {} /\ (txn'[c].fn = "lift" => txn'[c].at = "row")
          BY <5>1 DEF CallAt
        <5>3. txn'[c].fn = "lift" => restriction[txn'[c].row].kind = txn'[c].op
          BY <2>0, <4>2, AskStep
        <5> QED BY <3>0, <5>2, <5>3
      <4>3. CASE RunsOn(c) /\ ~ RollsBack(c)
        <5>1. SameCall(txn[c], txn'[c])
          BY <2>0, <2>8, <4>3, Moves
        <5>2. \A r \in txn'[c].lifts : ~ restriction'[r].lifted
          <6>1. CASE txn'[c].lifts = txn[c].lifts
            BY <2>0, <3>0, <6>1
          <6>2. CASE SanctionTerms(c)
            <7>1. PICK rows, p : txn' = [txn EXCEPT ![c] = [txn[c] EXCEPT !.todo = rows, !.at = p]]
              BY <4>3, <6>2 DEF SanctionTerms
            <7>2. txn'[c] = [txn[c] EXCEPT !.todo = rows, !.at = p]
              BY <4>0, <7>1
            <7>3. txn'[c].lifts = txn[c].lifts
              BY <4>0, <7>2 DEF Txn
            <7> QED BY <6>1, <7>3
          <6>3. CASE LockReplaced(c)
            <7> DEFINE r == NextRow(c)
                       lifts == IF restriction[r].lifted THEN txn[c].lifts ELSE txn[c].lifts \cup {r}
            <7>1. PICK rows, p : txn' = [txn EXCEPT ![c] = [txn[c] EXCEPT !.todo = rows,
                                                            !.lifts = lifts, !.at = p]]
              BY <6>3 DEF LockReplaced
            <7>2. \A s \in lifts : ~ restriction[s].lifted
              BY <2>0
            <7> HIDE DEF lifts
            <7>3. txn'[c] = [txn[c] EXCEPT !.todo = rows, !.lifts = lifts, !.at = p]
              BY <4>0, <7>1
            <7>4. txn'[c].lifts = lifts
              BY <4>0, <7>3 DEF Txn
            <7> QED BY <3>0, <7>2, <7>4
          <6> QED BY <2>0, <2>8, <4>3, <6>1, <6>2, <6>3, Moves
        <5>3. ASSUME txn[c].fn = "lift", txn'[c].at # "row" PROVE ~ restriction[txn[c].row].lifted
          <6>1. CASE txn[c].at # "row"
            BY <2>0, <5>3, <6>1
          <6>2. CASE txn[c].at = "row"
            <7>1. LockLifted(c)
              BY <2>8, <4>3, <5>3, <6>2 DEF RunsOn, TakesLock, LockUser, LockItsReport, LockReplaced,
                 LiftFlag, LockResolved, LockTriaged, LockMessage, Seals, SanctionTerms, LiftChecks
            <7> QED BY <4>3, <7>1 DEF LockLifted, Liftable
          <6> QED BY <6>1, <6>2
        <5> QED BY <2>0, <3>0, <5>1, <5>2, <5>3 DEF SameCall
      <4> QED BY <2>8, <4>1, <4>2, <4>3 DEF Acts, Aborts, DeadlockFound
    <3>3. \A d \in Call \ {c} : CallOK(d)'
      <4> HIDE DEF CallOK
      <4> QED BY <2>8, <2>k, <3>0
    <3> QED BY <3>1, <3>2, <3>3
  <2>9. (\A r \in Row : RowOK(r)') /\ Once' /\ (\A d \in Call : CallOK(d)')
    <3> HIDE DEF RowOK, Once, CallOK
    <3> QED BY <1>2, <2>0, <2>3, <2>4, <2>5, <2>6, <2>7, <2>8, WhoMovesRows
  <2> QED BY <2>0, <2>9 DEF RowInv
<1> QED BY <1>1, <1>2

-----------------------------------------------------------------------------
(* The order of the restrictions, and the ban flag.                        *)

\* A row that is in use and in force was so before.
LEMMA StillInForce ==
  ASSUME CallInv, ModNext, NEW k \in Kind, NEW r \in Row, r \in InForce(k)',
         restriction[r].kind # "none"
  PROVE  r \in InForce(k) /\ restriction'[r].starts = restriction[r].starts
<1>1. RowMoves(r)
  BY TablesStep
<1> QED BY <1>1 DEF RowMoves, InForce

Inverted == \E r, s \in Row : /\ r < s /\ restriction[r].kind = "ban"
                              /\ restriction[s].kind = "ban"
                              /\ restriction[r].starts > restriction[s].starts

\* Of two restrictions in force of a kind the earlier row's began later; a sanction
\* about to be written has locked all those it must replace; and who lifts the only
\* ban has the user's row, unless two bans crossed.
OrderInv ==
  /\ RowInv
  /\ \A k \in Kind : \A r, s \in InForce(k) :
       r < s => restriction[r].starts > restriction[s].starts
  /\ Inverted \/ BanMirrored
  /\ \A c \in Call :
       /\ txn[c].fn = "sanction" /\ txn[c].at \in {"replace", "seal"} =>
            \A r \in InForce(txn[c].op) :
              restriction[r].starts <= txn[c].now => r \in txn[c].todo \cup txn[c].lifts
       /\ lock[User] = c => \/ txn[c].fn = "sanction"
                            \/ txn[c].fn = "lift" /\ txn[c].op = "ban"
       /\ txn[c].fn = "lift" /\ txn[c].op = "ban" /\ txn[c].at \in {"seal", "key"} =>
            lock[User] = c \/ Inverted

\* What the step of a call about restrictions that commits nothing looks like.
LEMMA OrderOfCall ==
  ASSUME OrderInv, ModNext, NEW c \in Call, Acts(c), ~ TxnCommits(c)
  PROVE  /\ txn'[c].fn = "sanction" /\ txn'[c].at \in {"replace", "seal"} =>
              \A r \in InForce(txn'[c].op) :
                restriction[r].starts <= txn'[c].now => r \in txn'[c].todo \cup txn'[c].lifts
         /\ lock'[User] = c => \/ txn'[c].fn = "sanction"
                               \/ txn'[c].fn = "lift" /\ txn'[c].op = "ban"
         /\ txn'[c].fn = "lift" /\ txn'[c].op = "ban" /\ txn'[c].at \in {"seal", "key"} =>
              lock'[User] = c \/ Inverted
<1> DEFINE Replacing ==
             txn'[c].fn = "sanction" /\ txn'[c].at \in {"replace", "seal"} =>
               \A r \in InForce(txn'[c].op) :
                 restriction[r].starts <= txn'[c].now => r \in txn'[c].todo \cup txn'[c].lifts
           Owns == lock'[User] = c => \/ txn'[c].fn = "sanction"
                                      \/ txn'[c].fn = "lift" /\ txn'[c].op = "ban"
           Flags == txn'[c].fn = "lift" /\ txn'[c].op = "ban" /\ txn'[c].at \in {"seal", "key"} =>
                      lock'[User] = c \/ Inverted
<1> SUFFICES Replacing /\ Owns /\ Flags
  OBVIOUS
<1>0. /\ txn[c] \in Txn /\ CallAt(txn[c]) /\ HeldBy(c) /\ txn[c].fn \in Fn
      /\ \A t : txn' = [txn EXCEPT ![c] = t] => txn'[c] = t
      /\ lock \in [Lockable -> Call \cup {NoOne}] /\ User \in Lockable /\ CallInv
      /\ txn[c].fn = "lift" => txn[c].row \in Row
  BY NamedLocks DEF OrderInv, RowInv, NumberInv, HeldInv, CallInv, ModTypeOK, CallAt, Txn
<1>1. CASE RollsBack(c)
  <2>1. txn'[c] = NoTxn /\ lock'[User] # c
    BY <1>0, <1>1, NoOneIsNoCall DEF RollsBack, Released
  <2> QED BY <2>1 DEF NoTxn
<1>2. CASE Asks(c)
  <2>1. /\ txn[c].at = "idle" /\ lock' = lock
    BY <1>2 DEF Asks, AskSanction, AskLift, AskResolve, AskTriage, AskContent, Begin
  <2>2. txn[c].fn = "none"
    BY <1>0, <2>1 DEF CallAt, NoTxn
  <2>3. txn'[c].at \notin {"replace", "seal", "key"}
    BY <1>0, <1>2, AskStep
  <2> QED BY <2>1, <2>2, <2>3 DEF OrderInv
<1>3. CASE RunsOn(c) /\ ~ RollsBack(c)
  <2>1. /\ SameCall(txn[c], txn'[c])
        /\ txn'[c].at = "key" => Seals(c)
        /\ \/ txn'[c].todo = txn[c].todo /\ txn'[c].lifts = txn[c].lifts
           \/ SanctionTerms(c) \/ LockReplaced(c)
    BY <1>0, <1>3, Moves
  <2>2. Keeps(c) /\ CallAt(txn'[c])
    BY <1>0, <1>3, OthersKept, RunStep
  <2>3. LockUser(c) => txn[c].fn = "sanction"
    BY <1>0 DEF LockUser, CallAt, Fn
  <2>4. LiftFlag(c) => txn[c].fn = "lift" /\ txn[c].op = "ban"
    BY <1>0 DEF LiftFlag, CallAt, Fn
  <2>l. /\ User # Report /\ User # Message /\ User # Chain /\ \A r : User # RowLock(r)
    BY DEF User, Report, Message, Chain, RowLock
  <2>5. ~ LockUser(c) /\ ~ LiftFlag(c) => (lock'[User] = c <=> lock[User] = c)
    <3>1. ~ LockUser(c) /\ ~ LiftFlag(c) =>
            \/ lock' = lock
            \/ \E x : x # User /\ lock' = [lock EXCEPT ![x] = c]
      BY <1>3, <2>l DEF RunsOn, TakesLock, TxnCommits, LockItsReport, LockReplaced, LockLifted,
         LockResolved, LockTriaged, LockMessage, Seals, SanctionTerms, LiftChecks, Locks
    <3> QED BY <1>0, <3>1
  <2>6. Owns
    BY <2>1, <2>3, <2>4, <2>5 DEF SameCall, OrderInv
  <2>7. lock[User] = c => lock'[User] = c
    <3>1. LockUser(c) \/ (LiftFlag(c) /\ lock' # lock) => lock'[User] = c
      BY <1>0 DEF LockUser, LiftFlag, Locks
    <3> QED BY <2>5, <3>1
  <2>8. Flags
    <3> SUFFICES ASSUME txn'[c].fn = "lift", txn'[c].op = "ban", txn'[c].at \in {"seal", "key"}
                 PROVE  lock'[User] = c \/ Inverted
      OBVIOUS
    <3>1. txn[c].fn = "lift" /\ txn[c].op = "ban"
      BY <2>1 DEF SameCall
    <3>2. CASE txn[c].at \in {"seal", "key"}
      BY <2>7, <3>1, <3>2 DEF OrderInv
    <3>3. CASE LiftChecks(c) \/ LiftFlag(c)
      <4> DEFINE q == txn[c].row
      <4>1. /\ q \in Row /\ restriction[q].kind = "ban" /\ ~ restriction[q].lifted
            /\ restriction[q].ends = NoEnd
        <5>1. txn[c].at # "row"
          BY <3>3 DEF LiftChecks, LiftFlag
        <5> QED BY <1>0, <3>1, <5>1 DEF OrderInv, RowInv
      <4>2. q \in InForce("ban")
        BY <4>1 DEF InForce
      <4>3. CASE LiftFlag(c)
        <5>1. CASE isBanned
          BY <1>0, <4>3, <5>1 DEF LiftFlag, Locks
        <5>2. CASE ~ isBanned
          BY <4>2, <5>2 DEF OrderInv, BanMirrored
        <5> QED BY <5>1, <5>2
      <4>4. CASE LiftChecks(c)
        <5>1. ~ ActiveFor(c, "ban") \subseteq {q}
          <6>1. ActiveFor(c, "ban") \subseteq {q} => txn' = [txn EXCEPT ![c] = [txn[c] EXCEPT !.at = "flag"]]
            BY <4>4 DEF LiftChecks, GoesTo
          <6>2. ActiveFor(c, "ban") \subseteq {q} => txn'[c].at = "flag"
            BY <1>0, <6>1 DEF Txn
          <6> QED BY <6>2
        <5>2. PICK r \in Row : r # q /\ restriction[r].kind = "ban" /\ ~ restriction[r].lifted
          BY <5>1 DEF ActiveFor, Active
        <5>3. r \in InForce("ban") /\ "ban" \in Kind
          BY <5>2 DEF InForce, OrderInv, RowInv, Kind
        <5>4. r < q \/ q < r
          BY <4>1, <5>2, ModerationBound DEF Row
        <5> QED BY <4>1, <4>2, <5>2, <5>3, <5>4 DEF OrderInv, Inverted
      <4> QED BY <3>3, <4>3, <4>4
    <3>4. CASE LockLifted(c)
      <4>1. txn' = [txn EXCEPT ![c] = [txn[c] EXCEPT !.at = "check"]]
        BY <1>3, <3>1, <3>4 DEF LockLifted, GoesTo
      <4>2. txn'[c] = [txn[c] EXCEPT !.at = "check"]
        BY <1>0, <4>1
      <4>3. txn'[c].at = "check"
        BY <1>0, <4>2 DEF Txn
      <4> QED BY <4>3
    <3>5. txn[c].at \in {"row", "check", "flag", "seal", "key"}
      BY <1>0, <3>1 DEF CallAt
    <3> QED BY <1>3, <3>1, <3>2, <3>3, <3>4, <3>5 DEF RunsOn, TakesLock, LockUser, LockItsReport,
            LockReplaced, LockResolved, LockTriaged, LockMessage, Seals, SanctionTerms
  <2>9. Replacing
    <3> SUFFICES ASSUME txn'[c].fn = "sanction", txn'[c].at \in {"replace", "seal"},
                        NEW r \in InForce(txn'[c].op), restriction[r].starts <= txn'[c].now
                 PROVE  r \in txn'[c].todo \cup txn'[c].lifts
      OBVIOUS
    <3>1. txn[c].fn = "sanction" /\ txn[c].op = txn'[c].op /\ txn[c].now = txn'[c].now
      BY <2>1 DEF SameCall
    <3>2. /\ r \in Row /\ restriction[r].kind = txn[c].op /\ ~ restriction[r].lifted
          /\ restriction[r].ends = NoEnd
      BY <3>1 DEF InForce
    <3>3. CASE SanctionTerms(c)
      <4> DEFINE rows == IF txn[c].op = "warning" THEN {} ELSE Replaces(c, txn[c].op)
      <4>1. txn[c].op \in Kind
        <5>1. restriction[r].kind \in Kind \cup {"none"} /\ txn[c].op \in Kind \cup {"warning"}
          BY <1>0, <3>1, <3>2 DEF CallInv, ModTypeOK, CallAt
        <5> QED BY <3>2, <5>1 DEF Kind
      <4>2. r \in rows
        BY <3>1, <3>2, <4>1 DEF Replaces, ActiveFor, Active, Kind
      <4>3. PICK p : txn' = [txn EXCEPT ![c] = [txn[c] EXCEPT !.todo = rows, !.at = p]]
        BY <1>3, <3>3 DEF SanctionTerms
      <4> HIDE DEF rows
      <4>4. txn'[c] = [txn[c] EXCEPT !.todo = rows, !.at = p]
        BY <1>0, <4>3
      <4>5. txn'[c].todo = rows
        BY <1>0, <4>4 DEF Txn
      <4> QED BY <4>2, <4>5
    <3>4. CASE LockReplaced(c)
      <4> DEFINE q == NextRow(c)
                 rest == txn[c].todo \ {q}
                 lifts == IF restriction[q].lifted THEN txn[c].lifts ELSE txn[c].lifts \cup {q}
      <4>1. r \in txn[c].todo \cup txn[c].lifts
        BY <3>1, <3>4 DEF LockReplaced, OrderInv
      <4>2. r \in rest \cup lifts
        BY <3>2, <4>1
      <4>3. PICK p : txn' = [txn EXCEPT ![c] = [txn[c] EXCEPT !.todo = rest, !.lifts = lifts, !.at = p]]
        BY <3>4 DEF LockReplaced
      <4> HIDE DEF rest, lifts
      <4>4. txn'[c] = [txn[c] EXCEPT !.todo = rest, !.lifts = lifts, !.at = p]
        BY <1>0, <4>3
      <4>5. txn'[c].todo = rest /\ txn'[c].lifts = lifts
        BY <1>0, <4>4 DEF Txn
      <4> QED BY <4>2, <4>5
    <3>5. CASE ~ SanctionTerms(c) /\ ~ LockReplaced(c)
      <4>1. LockUser(c) \/ LockItsReport(c)
        BY <1>0, <1>3, <3>1, <3>5 DEF RunsOn, TakesLock, TxnCommits, LockLifted, LiftFlag,
           LockResolved, LockTriaged, LockMessage, Seals, LiftChecks, CallAt
      <4>2. txn' = [txn EXCEPT ![c] = [txn[c] EXCEPT !.at = "terms"]] \/
            txn' = [txn EXCEPT ![c] = [txn[c] EXCEPT !.at = "report"]]
        BY <4>1 DEF LockUser, LockItsReport, GoesTo
      <4>3. txn'[c].at \in {"terms", "report"}
        BY <1>0, <4>2 DEF Txn
      <4> QED BY <4>3
    <3> QED BY <3>3, <3>4, <3>5
  <2> QED BY <2>6, <2>8, <2>9
<1> QED BY <1>1, <1>2, <1>3 DEF Acts, Aborts, DeadlockFound

\* Two bans once crossed stay crossed.
LEMMA InvertedKept == CallInv /\ ModNext /\ Inverted => Inverted'
<1> SUFFICES ASSUME CallInv, ModNext,
                    NEW r \in Row, NEW s \in Row, r < s, restriction[r].kind = "ban",
                    restriction[s].kind = "ban", restriction[r].starts > restriction[s].starts
             PROVE  Inverted'
  BY DEF Inverted
<1>1. RowMoves(r) /\ RowMoves(s)
  BY TablesStep
<1> QED BY <1>1 DEF RowMoves, Inverted

\* A sanction's row comes after all that are in use, and what it has not lifted
\* of its kind it cannot have seen.
LEMMA SanctionOrder ==
  ASSUME OrderInv, ModNext, NEW c \in Call, NEW new \in 0..Begins, TxnCommits(c),
         SanctionWrites(c, new), RowInv'
  PROVE  /\ \A k \in Kind : \A r, s \in InForce(k)' :
              r < s => restriction'[r].starts > restriction'[s].starts
         /\ Inverted' \/ BanMirrored'
<1>0. /\ CallInv /\ txn[c] \in Txn /\ CallAt(txn[c]) /\ HeldBy(c)
      /\ \A r \in Row : restriction[r].starts \in Nat /\ restriction[r].lifted \in BOOLEAN
      /\ Row \subseteq Nat /\ 0 \notin Row
  <2>1. Row \subseteq Nat /\ 0 \notin Row
    BY ModerationBound DEF Row
  <2> QED BY <2>1 DEF OrderInv, RowInv, NumberInv, HeldInv, CallInv, ModTypeOK
<1>1. txn[c].todo = {} /\ txn[c].now \in Nat
  BY <1>0 DEF CallAt, SanctionWrites, Txn
<1>2. \A r \in Row : r # new /\ restriction'[r].kind # "none" => restriction[r].kind # "none"
  BY <1>0 DEF SanctionWrites, OrderInv, RowInv
<1>3. \A k \in Kind : \A r \in InForce(k)' :
        r # new => r \in InForce(k) /\ restriction'[r].starts = restriction[r].starts
  <2> TAKE k \in Kind
  <2> TAKE r \in InForce(k)'
  <2> HAVE r # new
  <2>1. r \in Row /\ restriction'[r].kind # "none"
    BY DEF InForce, Kind
  <2> QED BY <1>0, <1>2, <2>1, StillInForce
<1>4. \A k \in Kind : \A r, s \in InForce(k)' :
        r < s => restriction'[r].starts > restriction'[s].starts
  <2> SUFFICES ASSUME NEW k \in Kind, NEW r \in InForce(k)', NEW s \in InForce(k)', r < s
               PROVE  restriction'[r].starts > restriction'[s].starts
    OBVIOUS
  <2>0. r \in Row /\ s \in Row
    BY DEF InForce
  <2>1. CASE r # new /\ s # new
    BY <1>3, <2>1 DEF OrderInv
  <2>2. CASE r = new
    <3>1. restriction[r].kind = "none" /\ restriction[s].kind # "none"
      <4>1. txn[c].op # "warning"
        BY <1>0, <2>0, <2>2 DEF SanctionWrites
      <4>2. s # new
        BY <1>0, <2>0, <2>2
      <4>3. restriction'[s].kind # "none"
        BY DEF InForce, Kind
      <4> QED BY <1>2, <2>0, <2>2, <4>1, <4>2, <4>3 DEF SanctionWrites
    <3>2. restriction[r].kind # "none"
      BY <2>0, <3>1 DEF OrderInv, RowInv
    <3> QED BY <3>1, <3>2
  <2>3. CASE s = new /\ r # new
    <3>1. restriction'[s] = [kind |-> txn[c].op, lifted |-> FALSE, starts |-> txn[c].now, ends |-> NoEnd]
      BY <2>0, <2>3 DEF SanctionWrites
    <3>2. k = txn[c].op /\ restriction'[s].starts = txn[c].now
      BY <3>1 DEF InForce
    <3>3. r \in InForce(k) /\ restriction'[r].starts = restriction[r].starts
      BY <1>3, <2>3
    <3>4. r \notin txn[c].lifts
      <4>1. ~ restriction'[r].lifted
        BY DEF InForce
      <4>2. r \in txn[c].lifts => restriction'[r] = [restriction[r] EXCEPT !.lifted = TRUE]
        BY <2>0, <2>3 DEF SanctionWrites
      <4>3. restriction[r] \in [kind : Kind \cup {"none"}, lifted : BOOLEAN, starts : Nat, ends : Nat \cup {NoEnd}]
        BY <1>0, <2>0 DEF CallInv, ModTypeOK
      <4> QED BY <4>1, <4>2, <4>3
    <3>5. ~ restriction[r].starts <= txn[c].now
      BY <1>1, <3>2, <3>3, <3>4 DEF OrderInv, SanctionWrites
    <3>6. restriction[r].starts \in Nat
      BY <1>0, <2>0
    <3> QED BY <1>1, <3>2, <3>3, <3>5, <3>6
  <2> QED BY <2>1, <2>2, <2>3
<1>5. CASE Inverted
  BY <1>0, <1>4, <1>5, InvertedKept
<1>6. CASE ~ Inverted /\ txn[c].op = "ban"
  <2>1. isBanned' /\ new \in Row
    BY <1>6 DEF SanctionWrites
  <2>2. restriction'[new] = [kind |-> "ban", lifted |-> FALSE, starts |-> txn[c].now, ends |-> NoEnd]
    BY <1>6, <2>1 DEF SanctionWrites
  <2>3. new \in InForce("ban")'
    BY <2>1, <2>2 DEF InForce
  <2> QED BY <1>4, <2>1, <2>3 DEF BanMirrored
<1>7. CASE ~ Inverted /\ txn[c].op # "ban"
  <2>1. BanMirrored /\ (isBanned' <=> isBanned)
    BY <1>7 DEF SanctionWrites, OrderInv
  <2>2. \A r \in Row : restriction[r].kind = "ban" => restriction'[r] = restriction[r]
    <3> SUFFICES ASSUME NEW r \in Row, restriction[r].kind = "ban"
                 PROVE  restriction'[r] = restriction[r]
      OBVIOUS
    <3>1. r \notin txn[c].lifts
      BY <1>0 DEF CallInv
    <3>2. r # new
      BY <1>0 DEF SanctionWrites
    <3> QED BY <3>1, <3>2 DEF SanctionWrites
  <2>3. \A r \in InForce("ban")' : r # new
    <3> SUFFICES ASSUME NEW r \in InForce("ban")', r = new PROVE FALSE
      OBVIOUS
    <3>1. r \in Row /\ restriction'[r].kind = "ban"
      BY DEF InForce
    <3>2. restriction'[r] = [kind |-> txn[c].op, lifted |-> FALSE, starts |-> txn[c].now, ends |-> NoEnd]
      BY <3>1 DEF SanctionWrites
    <3> QED BY <1>7, <3>1, <3>2
  <2>4. InForce("ban")' \subseteq InForce("ban") /\ InForce("ban") \subseteq InForce("ban")'
    BY <1>3, <2>2, <2>3 DEF InForce, Kind
  <2> QED BY <1>4, <2>1, <2>4 DEF BanMirrored
<1> QED BY <1>4, <1>5, <1>6, <1>7

\* The order of the restrictions and the mirror of the bans hold on.
LEMMA OrderStep == OrderInv /\ [ModNext]_modVars => OrderInv'
<1> DEFINE InOrder == \A k \in Kind : \A r, s \in InForce(k) :
                        r < s => restriction[r].starts > restriction[s].starts
           Mirror == Inverted \/ BanMirrored
           CallOrder(d) ==
             /\ txn[d].fn = "sanction" /\ txn[d].at \in {"replace", "seal"} =>
                  \A r \in InForce(txn[d].op) :
                    restriction[r].starts <= txn[d].now => r \in txn[d].todo \cup txn[d].lifts
             /\ lock[User] = d => \/ txn[d].fn = "sanction"
                                  \/ txn[d].fn = "lift" /\ txn[d].op = "ban"
             /\ txn[d].fn = "lift" /\ txn[d].op = "ban" /\ txn[d].at \in {"seal", "key"} =>
                  lock[User] = d \/ Inverted
<1>1. ASSUME OrderInv, UNCHANGED modVars PROVE OrderInv'
  <2>1. RowInv'
    BY <1>1, RowStep DEF OrderInv
  <2> QED BY <1>1, <2>1 DEF OrderInv, InForce, Inverted, BanMirrored, modVars, tables
<1>2. ASSUME OrderInv, ModNext PROVE OrderInv'
  <2>0. /\ RowInv /\ RowInv' /\ NumberInv /\ HeldInv /\ CallInv
        /\ InOrder /\ Mirror /\ \A d \in Call : CallOrder(d)
    BY <1>2, RowStep DEF OrderInv, RowInv, NumberInv, HeldInv
  <2>t. /\ \A d \in Call : txn[d] \in Txn /\ CallAt(txn[d]) /\ HeldBy(d)
        /\ restriction \in [Row -> [kind : Kind \cup {"none"}, lifted : BOOLEAN,
                                    starts : Nat, ends : Nat \cup {NoEnd}]]
        /\ "none" \notin Kind /\ "ban" \in Kind /\ User \in Lockable
    BY <2>0, NamedLocks DEF HeldInv, CallInv, ModTypeOK, Kind, InForce
  \* The other calls: no row they must lift is added.
  <2>k. ASSUME NEW c \in Call, Acts(c), NEW d \in Call, d # c,
               \/ \A r \in Row : restriction'[r].kind # "none" => restriction[r].kind # "none"
               \/ lock[User] = c
        PROVE  CallOrder(d)'
    <3>1. txn'[d] = txn[d] /\ (lock'[User] = d <=> lock[User] = d)
      BY <2>0, <2>k, <2>t, OthersKept DEF Keeps
    <3>2. Inverted => Inverted'
      BY <1>2, <2>0, InvertedKept
    <3>3. ASSUME txn[d].fn = "sanction", txn[d].at \in {"replace", "seal"},
                 NEW r \in InForce(txn[d].op)', restriction'[r].starts <= txn[d].now
          PROVE  r \in txn[d].todo \cup txn[d].lifts
      <4>1. lock[User] = d
        BY <2>t, <3>3 DEF HeldBy
      <4>2. r \in Row /\ restriction'[r].kind = txn[d].op
        BY <3>1 DEF InForce
      <4>3. txn[d].op \in Kind
        <5>1. restriction'[r].kind \in Kind \cup {"none"} /\ txn[d].op \in Kind \cup {"warning"}
          BY <1>2, <2>0, <2>t, <3>3, <4>2, TablesStep DEF CallAt
        <5> QED BY <4>2, <5>1 DEF Kind
      <4>4. restriction[r].kind # "none"
        BY <2>k, <2>t, <4>1, <4>2, <4>3
      <4>5. r \in InForce(txn[d].op) /\ restriction'[r].starts = restriction[r].starts
        <5>1. PICK k \in Kind : k = txn[d].op
          BY <4>3
        <5>2. r \in InForce(k)'
          BY <3>1, <5>1 DEF InForce
        <5> QED BY <1>2, <2>0, <4>2, <4>4, <5>1, <5>2, StillInForce
      <4> QED BY <2>0, <3>3, <4>5
    <3> QED BY <2>0, <3>1, <3>2, <3>3
  <2>e. ASSUME NEW c \in Call, TxnCommits(c) PROVE CallOrder(c)'
    <3>1. txn'[c] = NoTxn
      BY <2>0, <2>e, LedgerMoves
    <3>2. lock'[User] # c
      BY <2>0, <2>e, <2>t, NoOneIsNoCall DEF CallInv, ModTypeOK, TxnCommits, SanctionCommits,
         LiftCommits, ResolveCommits, TriageCommits, ContentCommits, Commits, Released
    <3> QED BY <3>1, <3>2 DEF NoTxn
  \* A step that takes no row.
  <2>o. ASSUME \A r \in Row : restriction'[r].kind # "none" => restriction[r].kind # "none"
        PROVE  InOrder'
    <3> SUFFICES ASSUME NEW k \in Kind, NEW r \in InForce(k)', NEW s \in InForce(k)', r < s
                 PROVE  restriction'[r].starts > restriction'[s].starts
      OBVIOUS
    <3>1. r \in Row /\ s \in Row /\ restriction'[r].kind # "none" /\ restriction'[s].kind # "none"
      BY <2>t DEF InForce
    <3>2. /\ r \in InForce(k) /\ restriction'[r].starts = restriction[r].starts
          /\ s \in InForce(k) /\ restriction'[s].starts = restriction[s].starts
      BY <1>2, <2>0, <2>o, <3>1, StillInForce
    <3> QED BY <2>0, <3>2
  <2>m. ASSUME \A r \in Row : restriction[r].kind = "ban" \/ restriction'[r].kind = "ban" =>
                                restriction'[r] = restriction[r],
               isBanned' <=> isBanned
        PROVE  Mirror'
    <3>1. InForce("ban")' \subseteq InForce("ban") /\ InForce("ban") \subseteq InForce("ban")'
      BY <2>m DEF InForce
    <3>2. Inverted => Inverted'
      BY <1>2, <2>0, InvertedKept
    <3> QED BY <2>0, <2>m, <3>1, <3>2 DEF BanMirrored
  <2> DEFINE Goal == InOrder' /\ Mirror' /\ \A d \in Call : CallOrder(d)'
  <2>3. ASSUME NEW c \in Call, NEW new \in 0..Begins, TxnCommits(c), SanctionWrites(c, new)
        PROVE  Goal
    <3>1. lock[User] = c /\ Acts(c)
      BY <2>3, <2>t DEF HeldBy, SanctionWrites, Acts, RunsOn
    <3>2. InOrder' /\ Mirror'
      BY <1>2, <2>0, <2>3, SanctionOrder
    <3>3. \A d \in Call : CallOrder(d)'
      <4> HIDE DEF CallOrder
      <4> QED BY <2>3, <2>e, <2>k, <3>1
    <3> HIDE DEF InOrder, Mirror, CallOrder
    <3> QED BY <3>2, <3>3
  <2>4. ASSUME NEW c \in Call, TxnCommits(c), LiftCommits(c) PROVE Goal
    <3> DEFINE q == txn[c].row
    <3>1. /\ q \in Row /\ txn[c].op \in Kind /\ restriction[q].kind = txn[c].op
          /\ ~ restriction[q].lifted /\ txn[c].fn = "lift" /\ txn[c].at = "key"
      BY <2>0, <2>4, <2>t DEF LiftCommits, CallAt, RowInv
    <3>2. /\ restriction'[q] = [restriction[q] EXCEPT !.lifted = TRUE]
          /\ \A r \in Row \ {q} : restriction'[r] = restriction[r]
      BY <2>4, <2>t, <3>1 DEF LiftCommits
    <3>3. /\ \A r \in Row : restriction'[r].kind = restriction[r].kind
          /\ restriction'[q].lifted
      BY <2>t, <3>1, <3>2
    <3>4. InOrder'
      BY <2>o, <3>3
    <3>5. \A d \in Call : CallOrder(d)'
      <4>1. Acts(c)
        BY <2>4 DEF Acts, RunsOn
      <4> HIDE DEF CallOrder
      <4> QED BY <2>4, <2>e, <2>k, <3>3, <4>1
    <3>6. Mirror'
      <4>1. CASE txn[c].op # "ban"
        <5>1. lock[User] # c
          BY <2>0, <3>1, <4>1
        <5>2. isBanned' <=> isBanned
          BY <2>4, <5>1 DEF LiftCommits
        <5> QED BY <2>m, <3>1, <3>2, <3>3, <4>1, <5>2
      <4>2. CASE txn[c].op = "ban" /\ Inverted
        BY <1>2, <2>0, <4>2, InvertedKept
      <4>3. CASE txn[c].op = "ban" /\ ~ Inverted
        <5>1. lock[User] = c
          BY <2>0, <3>1, <4>3
        <5>2. ~ isBanned'
          BY <2>4, <5>1 DEF LiftCommits
        <5>3. q \in InForce("ban")
          BY <2>0, <3>1, <4>3 DEF InForce, RowInv
        <5>4. ASSUME NEW r \in InForce("ban")' PROVE FALSE
          <6>1. r \in Row /\ restriction'[r].kind = "ban" /\ ~ restriction'[r].lifted
            BY DEF InForce
          <6>2. r # q /\ r \in InForce("ban")
            BY <3>2, <3>3, <6>1 DEF InForce
          <6>3. r < q \/ q < r
            BY <3>1, <6>1, <6>2, ModerationBound DEF Row
          <6>4. restriction[r].kind = "ban" /\ restriction[q].kind = "ban"
            BY <3>1, <3>3, <4>3, <6>1
          <6> QED BY <2>0, <2>t, <3>1, <4>3, <5>3, <6>1, <6>2, <6>3, <6>4 DEF Inverted
        <5> QED BY <5>2, <5>4 DEF BanMirrored
      <4> QED BY <4>1, <4>2, <4>3
    <3> HIDE DEF InOrder, Mirror, CallOrder
    <3> QED BY <3>4, <3>5, <3>6
  <2>5. ASSUME RowsKept PROVE InOrder' /\ Mirror'
    <3>1. InOrder'
      BY <2>5, <2>o DEF RowsKept
    <3>2. Mirror'
      BY <2>5, <2>m DEF RowsKept
    <3> HIDE DEF InOrder, Mirror
    <3> QED BY <3>1, <3>2
  <2>6. ASSUME NEW c \in Call, TxnCommits(c), RowsKept PROVE Goal
    <3>1. Acts(c) /\ \A r \in Row : restriction'[r].kind # "none" => restriction[r].kind # "none"
      BY <2>6 DEF Acts, RunsOn, RowsKept
    <3> HIDE DEF InOrder, Mirror, CallOrder
    <3> QED BY <2>5, <2>6, <2>e, <2>k, <3>1
  <2>7. ASSUME NEW q \in Row, TermEnds(q) PROVE Goal
    <3>1. restriction[q].kind \notin {"none", "ban"} /\ UNCHANGED <<isBanned, txn, lock>>
          /\ restriction'[q] = [restriction[q] EXCEPT !.ends = began]
          /\ \A r \in Row \ {q} : restriction'[r] = restriction[r]
      BY <2>7, <2>t DEF TermEnds
    <3>2. \A r \in Row : restriction'[r].kind = restriction[r].kind
      BY <2>t, <3>1
    <3>3. InOrder'
      BY <2>o, <3>2
    <3>4. Mirror'
      BY <2>m, <3>1, <3>2
    <3>5. ASSUME NEW d \in Call PROVE CallOrder(d)'
      <4>1. \A r \in InForce(txn[d].op)' :
              txn[d].op \in Kind => r \in InForce(txn[d].op) /\ restriction'[r].starts = restriction[r].starts
        <5> TAKE r \in InForce(txn[d].op)'
        <5> HAVE txn[d].op \in Kind
        <5>1. r \in Row /\ restriction[r].kind # "none"
          BY <2>t, <3>1, <3>2 DEF InForce
        <5>2. PICK k \in Kind : k = txn[d].op
          OBVIOUS
        <5>3. r \in InForce(k)'
          BY <3>1, <5>2 DEF InForce
        <5> QED BY <1>2, <2>0, <5>1, <5>2, <5>3, StillInForce
      <4>2. ASSUME txn[d].fn = "sanction", txn[d].at \in {"replace", "seal"},
                   NEW r \in InForce(txn[d].op)', restriction'[r].starts <= txn[d].now
            PROVE  r \in txn[d].todo \cup txn[d].lifts
        <5>1. r \in Row /\ restriction[r].kind = txn[d].op
          BY <3>1, <3>2 DEF InForce
        <5>2. txn[d].op \in Kind
          <6>1. restriction[r].kind \in Kind \cup {"none"} /\ txn[d].op \in Kind \cup {"warning"}
            BY <2>t, <4>2, <5>1 DEF CallAt
          <6> QED BY <5>1, <6>1 DEF Kind
        <5> QED BY <2>0, <4>1, <4>2, <5>2
      <4>3. Inverted => Inverted'
        BY <1>2, <2>0, InvertedKept
      <4> QED BY <2>0, <3>1, <4>2, <4>3
    <3> HIDE DEF InOrder, Mirror, CallOrder
    <3> QED BY <3>3, <3>4, <3>5
  <2>8. ASSUME SenderDeletes PROVE Goal
    BY <2>0, <2>8 DEF SenderDeletes, InForce, Inverted, BanMirrored
  <2>9. ASSUME NEW c \in Call, Acts(c), ~ TxnCommits(c), UNCHANGED tables PROVE Goal
    <3>1. /\ RowsKept
          /\ \A r \in Row : restriction'[r].kind # "none" => restriction[r].kind # "none"
          /\ \A k : InForce(k)' = InForce(k)
          /\ Inverted' <=> Inverted
      BY <2>9 DEF tables, RowsKept, InForce, Inverted
    <3>2. InOrder' /\ Mirror'
      <4> HIDE DEF InOrder, Mirror
      <4> QED BY <2>5, <3>1
    <3>3. CallOrder(c)'
      BY <1>2, <2>9, <3>1, OrderOfCall DEF tables, InForce, Inverted
    <3> HIDE DEF InOrder, Mirror, CallOrder
    <3> QED BY <2>9, <2>k, <3>1, <3>2, <3>3
  <2>10. Goal
    <3> HIDE DEF Goal
    <3> QED BY <1>2, <2>0, <2>3, <2>4, <2>6, <2>7, <2>8, <2>9, WhoMovesRows
  <2> QED BY <2>0, <2>10 DEF OrderInv
<1> QED BY <1>1, <1>2

-----------------------------------------------------------------------------
(* The report and its resolution.                                          *)

\* What a step of one call leaves of it: it begins, it is over, or it is the same
\* call elsewhere.
LEMMA CallGoesOn ==
  ASSUME NumberInv, NEW c \in Call, Acts(c)
  PROVE  \/ Asks(c) /\ ~ TxnCommits(c)
         \/ txn'[c] = NoTxn
         \/ /\ RunsOn(c) /\ ~ TxnCommits(c) /\ ~ RollsBack(c)
            /\ SameCall(txn[c], txn'[c])
            /\ txn'[c].result = txn[c].result \/ LockResolved(c)
<1>0. CallInv /\ \A t : txn' = [txn EXCEPT ![c] = t] => txn'[c] = t
  BY DEF NumberInv, HeldInv, CallInv, ModTypeOK
<1>1. RollsBack(c) => txn'[c] = NoTxn
  BY <1>0 DEF RollsBack
<1>2. TxnCommits(c) => txn'[c] = NoTxn
  BY LedgerMoves
<1>3. RunsOn(c) /\ ~ TxnCommits(c) /\ ~ RollsBack(c) =>
        SameCall(txn[c], txn'[c]) /\ (txn'[c].result = txn[c].result \/ LockResolved(c))
  BY <1>0, Moves
<1> QED BY <1>1, <1>2, <1>3 DEF Acts, Aborts, DeadlockFound

\* The numbers in use are below the next one.
LEMMA LedgerSeqs ==
  ASSUME NumberInv
  PROVE  /\ NextSeq \in Nat
         /\ \A e \in ledger : e.seq \in Nat /\ e.seq < NextSeq
<1>1. Cardinality(ledger) \in Nat /\ NextSeq = Cardinality(ledger) + 1
  BY CountsAreNumbers DEF NumberInv, HeldInv, CallInv, NextSeq
<1>2. \A e \in ledger : e.seq \in 1..Cardinality(ledger)
  BY DEF NumberInv, Counted
<1> QED BY <1>1, <1>2

\* What is written to the ledger comes after all that is in it.
LEMMA NewLines ==
  ASSUME NumberInv, NEW c \in Call, TxnCommits(c)
  PROVE  /\ ledger \subseteq ledger'
         /\ \A e \in ledger' \ ledger : e.seq \in Nat /\ e.seq >= NextSeq
<1>0. CallInv /\ NextSeq \in Nat
  BY LedgerSeqs DEF NumberInv, HeldInv
<1>1. ASSUME NEW new \in 0..Begins, SanctionWrites(c, new)
      PROVE  /\ ledger \subseteq ledger'
             /\ \A e \in ledger' \ ledger : e.seq \in Nat /\ e.seq >= NextSeq
  <2>1. ledger' = ledger \cup Sanctioned(c, new)
    BY <1>1 DEF SanctionWrites
  <2>2. \A e \in Sanctioned(c, new) : e.seq >= NextSeq
    BY SanctionNumbers
  <2>3. Sanctioned(c, new) \subseteq LedgerLine
    BY <1>0, <1>1, SanctionLines DEF SanctionWrites
  <2>4. \A e \in LedgerLine : e.seq \in Nat
    BY DEF LedgerLine
  <2> QED BY <2>1, <2>2, <2>3, <2>4
<1>2. ASSUME NEW what, OneLine(c, what)
      PROVE  /\ ledger \subseteq ledger'
             /\ \A e \in ledger' \ ledger : e.seq \in Nat /\ e.seq >= NextSeq
  BY <1>0, <1>2 DEF OneLine, Line
<1> QED BY <1>1, <1>2, LedgerMoves

\* A resolution under way says of the ledger what is true of it.
ResolvesTruly(c) ==
  txn[c].fn = "resolve" /\ txn[c].at # "report" =>
    /\ txn[c].result = "no_action" => ~ Acted
    /\ txn[c].result = "action_taken" => Acted

ResolutionInv == NumberInv /\ ResolutionDerived /\ \A c \in Call : ResolvesTruly(c)

Act(e) == e.linked /\ e.what \in {"sanction", "hide"}

\* An action is written under the report's lock.
LEMMA ActsUnderLock ==
  ASSUME NumberInv, NEW c \in Call, TxnCommits(c), NEW a \in ledger' \ ledger, Act(a)
  PROVE  MayLock(c, Report)
<1>0. HeldBy(c) /\ txn[c] \in Txn /\ CallAt(txn[c])
  BY DEF NumberInv, HeldInv, CallInv, ModTypeOK
<1>1. ASSUME NEW new \in 0..Begins, SanctionWrites(c, new) PROVE MayLock(c, Report)
  <2>1. a \in Sanctioned(c, new) /\ a.what \in {"sanction", "hide"} /\ a.linked
    BY <1>1 DEF SanctionWrites, Act
  <2>2. a = Line(c, After(c), "sanction", new)
    BY <2>1, SanctionedLines
  <2>3. txn[c].link # "no"
    BY <2>1, <2>2 DEF Line
  <2> QED BY <1>0, <1>1, <2>3 DEF HeldBy, SanctionWrites, MayLock
<1>2. ASSUME NEW what, OneLine(c, what), ContentCommits(c) PROVE MayLock(c, Report)
  <2>1. a = Line(c, NextSeq, what, txn[c].row)
    BY <1>2 DEF OneLine
  <2>2. txn[c].link # "no"
    BY <2>1 DEF Line, Act
  <2> QED BY <1>2, <2>2 DEF ContentCommits, KeysFree, ReportFree
<1>3. ASSUME NEW what \in {"lift", "resolve", "reopen", "triage"}, OneLine(c, what)
      PROVE  FALSE
  <2>1. a = Line(c, NextSeq, what, txn[c].row)
    BY <1>3 DEF OneLine
  <2> QED BY <2>1 DEF Line, Act
<1> QED BY <1>1, <1>2, <1>3, LedgerMoves

\* A resolution under way stays true: no action is written while it is.
LEMMA ResolvesStep ==
  ASSUME ResolutionInv, NumberInv', ModNext
  PROVE  \A c \in Call : ResolvesTruly(c)'
<1>0. NumberInv /\ CallInv /\ HeldInv /\ \A c \in Call : HeldBy(c) /\ ResolvesTruly(c)
  BY DEF ResolutionInv, NumberInv, HeldInv
<1>1. ASSUME NEW d \in Call, txn'[d] = txn[d],
             lock[Report] = d => (Acted' <=> Acted)
      PROVE  ResolvesTruly(d)'
  BY <1>0, <1>1 DEF ResolvesTruly, HeldBy
<1>2. ASSUME NEW c \in Call, TxnCommits(c), NEW d \in Call PROVE ResolvesTruly(d)'
  <2>1. CASE d = c
    <3>1. txn'[c] = NoTxn
      BY <1>0, <1>2, LedgerMoves
    <3> QED BY <2>1, <3>1 DEF ResolvesTruly, NoTxn
  <2>2. CASE d # c
    <3>1. txn'[d] = txn[d]
      BY <1>0, <1>2, <2>2, OthersKept DEF Keeps, Acts, RunsOn
    <3>2. ASSUME lock[Report] = d PROVE Acted' <=> Acted
      <4>1. ~ MayLock(c, Report)
        BY <2>2, <3>2, NoOneIsNoCall DEF MayLock
      <4>2. \A a \in ledger' \ ledger : ~ Act(a)
        BY <1>0, <1>2, <4>1, ActsUnderLock
      <4>3. ledger \subseteq ledger'
        BY <1>0, <1>2, NewLines
      <4> QED BY <4>2, <4>3 DEF Acted, Act
    <3> QED BY <1>1, <3>1, <3>2
  <2> QED BY <2>1, <2>2
<1>3. ASSUME NEW c \in Call, Acts(c), ~ TxnCommits(c), NEW d \in Call PROVE ResolvesTruly(d)'
  <2>1. Acted' <=> Acted
    BY <1>3, OnlyCommitsWrite DEF tables, Acted
  <2>2. CASE d # c
    <3>1. txn'[d] = txn[d]
      BY <1>0, <1>3, <2>2, OthersKept DEF Keeps
    <3> QED BY <1>1, <2>1, <3>1
  <2>3. CASE txn'[c] = NoTxn /\ d = c
    BY <2>3 DEF ResolvesTruly, NoTxn
  <2>4. CASE Asks(c) /\ d = c
    <3>1. txn'[c].fn = "resolve" => txn'[c].at = "report"
      <4>1. CallAt(txn'[c]) /\ txn'[c].at \in {"user", "row", "report", "message"}
        BY <1>0, <2>4, AskStep
      <4> QED BY <4>1 DEF CallAt
    <3> QED BY <2>4, <3>1 DEF ResolvesTruly
  <2>5. CASE RunsOn(c) /\ ~ RollsBack(c) /\ d = c /\ LockResolved(c)
    <3>0. txn[c] \in Txn /\ \A t : txn' = [txn EXCEPT ![c] = t] => txn'[c] = t
      BY <1>0 DEF CallInv, ModTypeOK
    <3>1. PICK result : /\ result = CASE txn[c].op = "dismissed" -> "dismissed"
                                      [] txn[c].op = "resolved" /\ Acted -> "action_taken"
                                      [] OTHER -> "no_action"
                        /\ txn' = [txn EXCEPT ![c] = [txn[c] EXCEPT !.at = "seal", !.result = result]]
      BY <2>5 DEF LockResolved
    <3>2. txn'[c] = [txn[c] EXCEPT !.at = "seal", !.result = result]
      BY <3>0, <3>1
    <3>3. txn'[c].result = result /\ txn[c].op \in Closed
      <4>1. txn[c].op \in Closed
        BY <1>0, <2>5 DEF CallInv, CallAt, LockResolved
      <4> QED BY <3>0, <3>2, <4>1 DEF Txn
    <3>4. /\ result = "no_action" => ~ Acted
          /\ result = "action_taken" => Acted
      BY <3>1, <3>3 DEF Closed
    <3> QED BY <2>1, <2>5, <3>3, <3>4 DEF ResolvesTruly
  <2>6. CASE RunsOn(c) /\ ~ RollsBack(c) /\ d = c /\ ~ LockResolved(c) /\ SameCall(txn[c], txn'[c])
             /\ txn'[c].result = txn[c].result
    <3>1. txn[c].fn = "resolve" => txn[c].at # "report"
      BY <1>3, <2>6 DEF RunsOn, TakesLock, LockUser, LockItsReport, LockReplaced, LockLifted,
         LiftFlag, LockTriaged, LockMessage, Seals, SanctionTerms, LiftChecks
    <3> QED BY <1>0, <2>1, <2>6, <3>1 DEF ResolvesTruly, SameCall
  <2> QED BY <1>0, <1>3, <2>2, <2>3, <2>4, <2>5, <2>6, CallGoesOn
<1>4. ASSUME UNCHANGED <<txn, ledger>>, NEW d \in Call PROVE ResolvesTruly(d)'
  BY <1>0, <1>4 DEF ResolvesTruly, Acted
<1> QED BY <1>2, <1>3, <1>4 DEF ModNext, Acts, TermEnds, SenderDeletes

\* An action before a closing.
ActedBefore == \E a, e \in ledger : Act(a) /\ e.what = "resolve" /\ a.seq < e.seq

\* ResolutionDerived, said of the two lines.
LEMMA DerivedMeans ==
  ResolutionDerived <=> /\ report.resolution = "action_taken" => ActedBefore
                        /\ report.resolution = "no_action" => ~ ActedBefore
  BY DEF ResolutionDerived, ActedBefore, Act

\* Until the next closing is written nothing can come before one.
LEMMA NoClosingWritten ==
  ASSUME NumberInv, NEW c \in Call, TxnCommits(c),
         \A e \in ledger' \ ledger : e.what # "resolve"
  PROVE  ActedBefore' <=> ActedBefore
<1>1. /\ ledger \subseteq ledger' /\ NextSeq \in Nat
      /\ \A e \in ledger' \ ledger : e.seq \in Nat /\ e.seq >= NextSeq
      /\ \A e \in ledger : e.seq \in Nat /\ e.seq < NextSeq
  BY NewLines, LedgerSeqs
<1>2. ActedBefore => ActedBefore'
  BY <1>1 DEF ActedBefore, Act
<1>3. ASSUME NEW a \in ledger', NEW e \in ledger', Act(a), e.what = "resolve", a.seq < e.seq
      PROVE  ActedBefore
  <2>1. e \in ledger
    BY <1>3
  <2>2. a \in ledger
    BY <1>1, <1>3, <2>1
  <2> QED BY <1>3, <2>1, <2>2 DEF ActedBefore
<1>4. ActedBefore' => ActedBefore
  BY <1>3 DEF ActedBefore, Act
<1> QED BY <1>2, <1>4

\* A resolution stays what the ledger says.
LEMMA ResolutionStep == ResolutionInv /\ [ModNext]_modVars => ResolutionInv'
<1>1. ASSUME ResolutionInv, UNCHANGED modVars PROVE ResolutionInv'
  <2>1. NumberInv'
    BY <1>1, NumberStep DEF ResolutionInv
  <2> QED BY <1>1, <2>1 DEF ResolutionInv, ResolutionDerived, ResolvesTruly, Acted, modVars, tables
<1>2. ASSUME ResolutionInv, ModNext PROVE ResolutionInv'
  <2>0. NumberInv /\ NumberInv' /\ CallInv /\ ResolutionDerived
    BY <1>2, NumberStep DEF ResolutionInv, NumberInv, HeldInv
  <2>1. \A c \in Call : ResolvesTruly(c)'
    BY <1>2, <2>0, ResolvesStep
  <2>l. \A c \in Call : \A n, what, row :
          LET e == Line(c, n, what, row) IN
          e.what = what /\ e.seq = n /\ (e.linked <=> txn[c].link # "no")
    BY DEF Line
  <2>2. ASSUME NEW c \in Call, NEW new \in 0..Begins, TxnCommits(c), SanctionWrites(c, new)
        PROVE  ResolutionDerived'
    <3>1. CASE Closes(c)
      <4> DEFINE a == Line(c, After(c), "sanction", new)
                 e == Line(c, After(c) + 1, "resolve", 0)
      <4>1. a \in ledger' /\ e \in ledger'
        BY <2>2, <3>1 DEF SanctionWrites, Sanctioned
      <4>2. After(c) \in Int
        <5>1. txn[c].lifts \in SUBSET Row
          BY <2>0 DEF CallInv, ModTypeOK, Txn
        <5> QED BY <2>0, <5>1, CountsAreNumbers, LedgerSeqs DEF After
      <4>3. Act(a) /\ e.what = "resolve" /\ a.seq < e.seq
        BY <2>l, <3>1, <4>2 DEF Act, Closes
      <4>4. ActedBefore'
        BY <4>1, <4>3 DEF ActedBefore, Act
      <4>5. report'.resolution = "action_taken"
        BY <2>2, <3>1 DEF SanctionWrites
      <4> QED BY <4>4, <4>5, DerivedMeans DEF ResolutionDerived, ActedBefore, Act
    <3>2. CASE ~ Closes(c)
      <4>1. ledger' = ledger \cup Sanctioned(c, new) /\ report' = report
        BY <2>2, <3>2 DEF SanctionWrites
      <4>2. \A e \in Sanctioned(c, new) : e.what # "resolve"
        <5>1. \A e \in Lifted(c) : e.what # "resolve"
          BY SanctionedLines
        <5>2. Line(c, After(c), "sanction", new).what # "resolve"
          BY <2>l
        <5>3. Sanctioned(c, new) = Lifted(c) \cup {Line(c, After(c), "sanction", new)}
          BY <3>2 DEF Sanctioned
        <5> QED BY <5>1, <5>2, <5>3
      <4>3. ActedBefore' <=> ActedBefore
        BY <2>0, <2>2, <4>1, <4>2, NoClosingWritten
      <4> QED BY <2>0, <4>1, <4>3, DerivedMeans DEF ResolutionDerived, ActedBefore, Act
    <3> QED BY <3>1, <3>2
  <2>3. ASSUME NEW c \in Call, TxnCommits(c), NEW what, what # "resolve", OneLine(c, what),
               report'.resolution = "none" \/ report'.resolution = report.resolution
        PROVE  ResolutionDerived'
    <3>1. \A e \in ledger' \ ledger : e.what # "resolve"
      BY <2>3, <2>l DEF OneLine
    <3>2. ActedBefore' <=> ActedBefore
      BY <2>0, <2>3, <3>1, NoClosingWritten
    <3> QED BY <2>0, <2>3, <3>2, DerivedMeans DEF ResolutionDerived, ActedBefore, Act
  <2>4. ASSUME NEW c \in Call, TxnCommits(c), ResolveCommits(c), OneLine(c, "resolve")
        PROVE  ResolutionDerived'
    <3> DEFINE x == Line(c, NextSeq, "resolve", txn[c].row)
    <3>1. ledger' = ledger \cup {x} /\ x.what = "resolve" /\ x.seq = NextSeq
      BY <2>4, <2>l DEF OneLine
    <3>2. /\ NextSeq \in Nat /\ \A e \in ledger : e.seq \in Nat /\ e.seq < NextSeq
      BY <2>0, LedgerSeqs
    <3> HIDE DEF x
    <3>3. ActedBefore' <=> Acted
      <4>1. \A a \in ledger' : Act(a) => a \in ledger
        BY <3>1 DEF Act
      <4> QED BY <3>1, <3>2, <4>1 DEF ActedBefore, Acted, Act
    <3>4. /\ report'.resolution = txn[c].result
          /\ txn[c].result = "no_action" => ~ Acted
          /\ txn[c].result = "action_taken" => Acted
      BY <1>2, <2>4 DEF ResolveCommits, ResolutionInv, ResolvesTruly
    <3> QED BY <3>3, <3>4, DerivedMeans DEF ResolutionDerived, ActedBefore, Act
  <2>5. ASSUME NEW c \in Call, TxnCommits(c) PROVE ResolutionDerived'
    <3>1. LiftCommits(c) \/ ContentCommits(c) => report' = report
      BY DEF LiftCommits, ContentCommits
    <3>2. TriageCommits(c) => report'.resolution = "none" \/ report'.resolution = report.resolution
      BY DEF TriageCommits
    <3>3. ContentCommits(c) => txn[c].op # "resolve"
      BY <2>0 DEF CallInv, CallAt, ContentCommits
    <3> QED BY <2>0, <2>2, <2>3, <2>4, <2>5, <3>1, <3>2, <3>3, LedgerMoves
  <2>6. ASSUME NEW c \in Call, Acts(c), ~ TxnCommits(c) PROVE ResolutionDerived'
    BY <2>0, <2>6, OnlyCommitsWrite DEF tables, ResolutionDerived
  <2>7. ASSUME UNCHANGED <<report, ledger>> PROVE ResolutionDerived'
    BY <2>0, <2>7 DEF ResolutionDerived
  <2> QED BY <1>2, <2>0, <2>1, <2>5, <2>6, <2>7 DEF ModNext, Acts, TermEnds, SenderDeletes, ResolutionInv
<1> QED BY <1>1, <1>2

-----------------------------------------------------------------------------
(* The message.                                                            *)

\* A message that moderation does not hide was shown after each of its hidings; and
\* a change of it under way is still to be made.
MessageInv ==
  /\ NumberInv
  /\ \A c \in Call : txn[c].fn = "content" /\ txn[c].at # "message" => Changeable(txn[c].op)
  /\ message # "moderated" =>
       \A h \in ledger : h.what = "hide" => \E s \in ledger : s.what = "show" /\ s.seq > h.seq

\* Only content calls write that a message was hidden or shown.
LEMMA ContentLines ==
  ASSUME NumberInv, NEW c \in Call, TxnCommits(c), ~ ContentCommits(c)
  PROVE  \A e \in ledger' \ ledger : e.what \notin {"hide", "show"}
<1>1. ASSUME NEW new \in 0..Begins, SanctionWrites(c, new)
      PROVE  \A e \in ledger' \ ledger : e.what \notin {"hide", "show"}
  BY <1>1, SanctionedLines DEF SanctionWrites
<1>2. ASSUME NEW what \in {"lift", "resolve", "reopen", "triage"}, OneLine(c, what)
      PROVE  \A e \in ledger' \ ledger : e.what \notin {"hide", "show"}
  BY <1>2 DEF OneLine, Line
<1> QED BY <1>1, <1>2, LedgerMoves

\* Only the holder of the message changes what a change of it rests on.
LEMMA MessageStep == MessageInv /\ [ModNext]_modVars => MessageInv'
<1> DEFINE Content(c) == txn[c].fn = "content" /\ txn[c].at # "message" => Changeable(txn[c].op)
           Shown == message # "moderated" =>
                      \A h \in ledger : h.what = "hide" =>
                        \E s \in ledger : s.what = "show" /\ s.seq > h.seq
<1>1. ASSUME MessageInv, UNCHANGED modVars PROVE MessageInv'
  <2>1. NumberInv'
    BY <1>1, NumberStep DEF MessageInv
  <2> QED BY <1>1, <2>1 DEF MessageInv, Changeable, LastIs, modVars, tables
<1>2. ASSUME MessageInv, ModNext PROVE MessageInv'
  <2>0. /\ NumberInv /\ NumberInv' /\ CallInv /\ Shown
        /\ \A c \in Call : Content(c) /\ HeldBy(c) /\ CallAt(txn[c]) /\ txn[c] \in Txn
        /\ Message \in Lockable
    BY <1>2, NumberStep, NamedLocks DEF MessageInv, NumberInv, HeldInv, CallInv, ModTypeOK
  \* Of the ledger only the hidings and showings count.
  <2>1. ASSUME message' = message, ledger \subseteq ledger',
               \A e \in ledger' \ ledger : e.what \notin {"hide", "show"}
        PROVE  /\ \A op : Changeable(op) => Changeable(op)'
               /\ Shown'
    <3>1. LastIs("hide") => LastIs("hide")'
      BY <2>1 DEF LastIs
    <3>2. \A op : Changeable(op) => Changeable(op)'
      BY <2>1, <3>1 DEF Changeable
    <3>3. Shown'
      <4> SUFFICES ASSUME message' # "moderated", NEW h \in ledger', h.what = "hide"
                   PROVE  \E s \in ledger' : s.what = "show" /\ s.seq > h.seq
        OBVIOUS
      <4>1. h \in ledger
        BY <2>1
      <4> QED BY <2>0, <2>1, <4>1
    <3> QED BY <3>2, <3>3
  <2>2. ASSUME NEW c \in Call, TxnCommits(c), ~ ContentCommits(c)
        PROVE  Shown' /\ \A d \in Call : Content(d)'
    <3>1. /\ message' = message
      BY <2>0, <2>2, LedgerMoves DEF LiftCommits, ResolveCommits, TriageCommits, SanctionWrites
    <3>2. /\ ledger \subseteq ledger' /\ \A e \in ledger' \ ledger : e.what \notin {"hide", "show"}
      BY <2>0, <2>2, NewLines, ContentLines
    <3>3. \A d \in Call : txn'[d] = txn[d] \/ txn'[d] = NoTxn
      BY <2>0, <2>2, LedgerMoves, OthersKept DEF Keeps, Acts, RunsOn
    <3> HIDE DEF Shown
    <3>4. Shown' /\ \A op : Changeable(op) => Changeable(op)'
      BY <2>1, <3>1, <3>2
    <3> QED BY <2>0, <3>3, <3>4 DEF NoTxn
  <2>3. ASSUME NEW c \in Call, TxnCommits(c), ContentCommits(c)
        PROVE  Shown' /\ \A d \in Call : Content(d)'
    <3>0. txn[c].op \in {"hide", "show"} /\ lock[Message] = c
      BY <2>0, <2>3 DEF ContentCommits, CallAt, HeldBy
    <3>1. ASSUME NEW d \in Call PROVE Content(d)'
      <4>1. CASE d = c
        <5>1. txn'[c] = NoTxn
          BY <2>0, <2>3, LedgerMoves
        <5> QED BY <4>1, <5>1 DEF NoTxn
      <4>2. CASE d # c
        <5>1. txn'[d] = txn[d]
          BY <2>0, <2>3, <4>2, OthersKept DEF Keeps, Acts, RunsOn
        <5>2. lock[Message] # d
          BY <3>0, <4>2
        <5> QED BY <2>0, <5>1, <5>2 DEF HeldBy
      <4> QED BY <4>1, <4>2
    <3>2. /\ NextSeq \in Nat /\ \A e \in ledger : e.seq \in Nat /\ e.seq < NextSeq
      BY <2>0, LedgerSeqs
    <3>3. Shown'
      <4>1. CASE txn[c].op = "hide"
        <5>1. message' = "moderated"
          BY <2>3, <4>1 DEF ContentCommits
        <5> QED BY <5>1
      <4>2. CASE txn[c].op = "show"
        <5> DEFINE x == Line(c, NextSeq, "show", txn[c].row)
        <5>1. OneLine(c, "show")
          BY <2>3, <4>2, <2>0 DEF ContentCommits, Writes, OneLine, NumberInv
        <5>2. ledger' = ledger \cup {x} /\ x.what = "show" /\ x.seq = NextSeq
          BY <5>1 DEF OneLine, Line
        <5> HIDE DEF x
        <5> QED BY <3>2, <5>2
      <4> QED BY <3>0, <4>1, <4>2
    <3> HIDE DEF Shown, Content
    <3> QED BY <3>1, <3>3
  <2>4. ASSUME NEW c \in Call, Acts(c), ~ TxnCommits(c)
        PROVE  Shown' /\ \A d \in Call : Content(d)'
    <3>1. message' = message /\ ledger' = ledger
      BY <2>4, OnlyCommitsWrite DEF tables
    <3>2. Shown' /\ \A op : Changeable(op) => Changeable(op)'
      <4> HIDE DEF Shown
      <4> QED BY <2>1, <3>1
    <3>3. ASSUME NEW d \in Call PROVE Content(d)'
      <4>1. CASE d # c
        <5>1. txn'[d] = txn[d]
          BY <2>0, <2>4, <4>1, OthersKept DEF Keeps
        <5> QED BY <2>0, <3>2, <5>1
      <4>2. CASE d = c /\ txn'[c] = NoTxn
        BY <4>2 DEF NoTxn
      <4>3. CASE d = c /\ Asks(c)
        <5>1. CallAt(txn'[c]) /\ txn'[c].at \in {"user", "row", "report", "message"}
          BY <2>0, <4>3, AskStep
        <5> QED BY <4>3, <5>1 DEF CallAt
      <4>4. CASE d = c /\ RunsOn(c) /\ ~ RollsBack(c) /\ SameCall(txn[c], txn'[c])
        <5>1. ASSUME txn[c].fn = "content", txn[c].at = "message" PROVE Changeable(txn[c].op)
          <6>1. LockMessage(c)
            BY <2>4, <4>4, <5>1 DEF RunsOn, TakesLock, LockUser, LockItsReport, LockReplaced, LockLifted,
               LiftFlag, LockResolved, LockTriaged, Seals, SanctionTerms, LiftChecks
          <6> QED BY <4>4, <6>1 DEF LockMessage
        <5> QED BY <2>0, <3>2, <4>4, <5>1 DEF SameCall
      <4> QED BY <2>0, <2>4, <4>1, <4>2, <4>3, <4>4, CallGoesOn
    <3> HIDE DEF Shown, Content
    <3> QED BY <3>2, <3>3
  <2>5. ASSUME SenderDeletes PROVE Shown' /\ \A d \in Call : Content(d)'
    <3>1. /\ lock[Message] = NoOne /\ message = "shown" /\ UNCHANGED <<ledger, txn>>
      BY <2>5 DEF SenderDeletes
    <3>2. \A d \in Call : txn[d].fn = "content" => txn[d].at = "message"
      BY <2>0, <3>1, NoOneIsNoCall DEF HeldBy
    <3> QED BY <2>0, <3>1, <3>2
  <2>6. ASSUME UNCHANGED <<txn, message, ledger>> PROVE Shown' /\ \A d \in Call : Content(d)'
    BY <2>0, <2>6 DEF Changeable, LastIs
  <2>7. Shown' /\ \A d \in Call : Content(d)'
    <3> HIDE DEF Shown, Content
    <3> QED BY <1>2, <2>2, <2>3, <2>4, <2>5, <2>6 DEF ModNext, Acts, RunsOn, TermEnds
  <2> QED BY <2>0, <2>7 DEF MessageInv
<1> QED BY <1>1, <1>2

-----------------------------------------------------------------------------
(* Who may change the report; the theorems.                                *)

\* Who asked for a change of the report could ask for it of the report he saw.
Entitled(t) ==
  t.by \notin Senior =>
    /\ \/ t.fn = "sanction" /\ t.link = "close"
       \/ t.fn = "resolve"
       \/ t.fn = "triage" /\ (t.op = "work" \/ t.to # NoOne)
       => t.seen.holder \in {NoOne, t.by}
    /\ t.fn = "triage" /\ t.op = "work" => t.seen.status \notin Closed

EntitledInv == NumberInv /\ \A c \in Call : Entitled(txn[c])

\* The checks before the transaction.
LEMMA AsksEntitled ==
  ASSUME CallInv, NEW c \in Call, Asks(c)
  PROVE  Entitled(txn'[c])
<1>0. NoTxn \in Txn
  BY ModerationBound DEF NoTxn, Txn, Fn, Step, Seen
<1>1. ASSUME NEW t \in Txn, Begin(c, t)
      PROVE  /\ txn'[c].by = t.by /\ txn'[c].fn = t.fn /\ txn'[c].link = t.link
             /\ txn'[c].op = t.op /\ txn'[c].to = t.to
             /\ txn'[c].seen.holder = report.holder /\ txn'[c].seen.status = report.status
  <2>1. txn'[c] = [t EXCEPT !.seen = ReadNow, !.now = began + 1]
    BY <1>1 DEF CallInv, ModTypeOK, Begin
  <2>2. txn'[c].seen = ReadNow
    BY <2>1 DEF Txn
  <2> QED BY <2>1, <2>2 DEF Txn, ReadNow
<1>2. ASSUME NEW a \in Moderator, NEW k \in Kind \cup {"warning"},
             NEW l \in {"no", "link", "close"}, NEW t, l = "close" => MayClose(a), Begin(c, t),
             t = [NoTxn EXCEPT !.at = "user", !.fn = "sanction", !.by = a, !.op = k, !.link = l]
      PROVE  Entitled(txn'[c])
  <2>1. t \in Txn /\ t.by = a /\ t.fn = "sanction" /\ t.link = l
    BY <1>0, <1>2 DEF Txn, Fn, Step
  <2> QED BY <1>1, <1>2, <2>1 DEF Entitled, MayClose
<1>3. ASSUME NEW a \in Moderator, NEW k \in Kind, NEW r \in Row, NEW t, Begin(c, t),
             t = [NoTxn EXCEPT !.at = "row", !.fn = "lift", !.by = a, !.row = r, !.op = k]
      PROVE  Entitled(txn'[c])
  <2>0. r \in 0..Begins
    BY ModerationBound DEF Row
  <2>1. t \in Txn /\ t.fn = "lift"
    BY <1>0, <1>3, <2>0 DEF Txn, Fn, Step
  <2> QED BY <1>1, <1>3, <2>1 DEF Entitled
<1>4. ASSUME NEW a \in Moderator, NEW k \in Closed, NEW t, MayClose(a), Begin(c, t),
             t = [NoTxn EXCEPT !.at = "report", !.fn = "resolve", !.by = a, !.op = k]
      PROVE  Entitled(txn'[c])
  <2>1. t \in Txn /\ t.by = a /\ t.fn = "resolve"
    BY <1>0, <1>4 DEF Txn, Fn, Step
  <2> QED BY <1>1, <1>4, <2>1 DEF Entitled, MayClose
<1>5. ASSUME NEW a \in Moderator, NEW to \in Moderator \cup {NoOne, "nobody"},
             NEW work \in BOOLEAN, NEW k \in {"work", "none"}, k = "work" <=> work,
             NEW t, MayTriage(a, to, work), Begin(c, t),
             t = [NoTxn EXCEPT !.at = "report", !.fn = "triage", !.by = a, !.to = to, !.op = k]
      PROVE  Entitled(txn'[c])
  <2>1. t \in Txn
    BY <1>0, <1>5 DEF Txn, Fn, Step
  <2>2. t.by = a /\ t.fn = "triage" /\ t.op = k /\ t.to = to
    BY <1>0, <1>5 DEF Txn
  <2> QED BY <1>1, <1>5, <2>1, <2>2 DEF Entitled, MayTriage, MayClose
<1>6. ASSUME NEW a \in Moderator, NEW k \in {"hide", "show"}, NEW l \in {"no", "link"}, NEW t,
             Begin(c, t),
             t = [NoTxn EXCEPT !.at = "message", !.fn = "content", !.by = a, !.op = k, !.link = l]
      PROVE  Entitled(txn'[c])
  <2>1. t \in Txn /\ t.fn = "content"
    BY <1>0, <1>6 DEF Txn, Fn, Step
  <2> QED BY <1>1, <1>6, <2>1 DEF Entitled
<1>7. CASE AskSanction(c)
  BY <1>2, <1>7 DEF AskSanction
<1>8. CASE AskLift(c)
  <2>1. PICK a \in Moderator, r \in Row :
          /\ restriction[r].kind # "none"
          /\ Begin(c, [NoTxn EXCEPT !.at = "row", !.fn = "lift", !.by = a, !.row = r,
                                      !.op = restriction[r].kind])
    BY <1>8 DEF AskLift
  <2>2. restriction[r].kind \in Kind
    BY <2>1 DEF CallInv, ModTypeOK
  <2> QED BY <1>3, <2>1, <2>2
<1>9. CASE AskResolve(c)
  BY <1>4, <1>9 DEF AskResolve
<1>10. CASE AskTriage(c)
  <2>1. PICK a \in Moderator, to \in Moderator \cup {NoOne, "nobody"}, work \in BOOLEAN :
          /\ MayTriage(a, to, work)
          /\ Begin(c, [NoTxn EXCEPT !.at = "report", !.fn = "triage", !.by = a, !.to = to,
                                      !.op = IF work THEN "work" ELSE "none"])
    BY <1>10 DEF AskTriage
  <2>2. PICK k \in {"work", "none"} : k = (IF work THEN "work" ELSE "none")
    OBVIOUS
  <2>3. k = "work" <=> work
    BY <2>2
  <2> QED BY <1>5, <2>1, <2>2, <2>3
<1>11. CASE AskContent(c)
  BY <1>6, <1>11 DEF AskContent
<1> QED BY <1>7, <1>8, <1>9, <1>10, <1>11 DEF Asks

\* A call stays entitled to what it asked for.
LEMMA EntitledStep == EntitledInv /\ [ModNext]_modVars => EntitledInv'
<1>1. ASSUME EntitledInv, UNCHANGED modVars PROVE EntitledInv'
  <2>1. NumberInv'
    BY <1>1, NumberStep DEF EntitledInv
  <2> QED BY <1>1, <2>1 DEF EntitledInv, modVars
<1>2. ASSUME EntitledInv, ModNext PROVE EntitledInv'
  <2>0. NumberInv /\ NumberInv' /\ CallInv /\ \A c \in Call : Entitled(txn[c])
    BY <1>2, NumberStep DEF EntitledInv, NumberInv, HeldInv
  <2>1. ASSUME NEW c \in Call, Acts(c), NEW d \in Call PROVE Entitled(txn'[d])
    <3>1. CASE d # c
      <4>1. txn'[d] = txn[d]
        BY <2>0, <2>1, <3>1, OthersKept DEF Keeps
      <4> QED BY <2>0, <4>1
    <3>2. CASE d = c /\ txn'[c] = NoTxn
      BY <3>2 DEF Entitled, NoTxn
    <3>3. CASE d = c /\ Asks(c)
      BY <2>0, <3>3, AsksEntitled
    <3>4. CASE d = c /\ SameCall(txn[c], txn'[c])
      BY <2>0, <3>4 DEF SameCall, Entitled
    <3> QED BY <2>0, <2>1, <3>1, <3>2, <3>3, <3>4, CallGoesOn
  <2>2. ASSUME UNCHANGED txn PROVE \A d \in Call : Entitled(txn'[d])
    BY <2>0, <2>2
  <2> QED BY <1>2, <2>0, <2>1, <2>2 DEF ModNext, Acts, TermEnds, SenderDeletes, EntitledInv
<1> QED BY <1>1, <1>2

\* All of this holds of empty tables.
LEMMA ModInitInv == ModInit => OrderInv /\ ResolutionInv /\ MessageInv /\ EntitledInv
<1> SUFFICES ASSUME ModInit PROVE OrderInv /\ ResolutionInv /\ MessageInv /\ EntitledInv
  OBVIOUS
<1>0. NoTxn \in Txn /\ CallAt(NoTxn) /\ NoTxn.now = 0
  <2>1. NoTxn \in Txn
    BY ModerationBound DEF NoTxn, Txn, Fn, Step, Seen
  <2> QED BY <2>1 DEF NoTxn, CallAt
<1>1. ModTypeOK
  <2>1. txn \in [Call -> Txn] /\ (\A c \in Call : txn[c].now <= began) /\ began \in Nat
    BY <1>0 DEF ModInit
  <2>2. restriction \in [Row -> [kind : Kind \cup {"none"}, lifted : BOOLEAN, starts : Nat,
                                 ends : Nat \cup {NoEnd}]]
    BY DEF ModInit
  <2>3. report \in [status : {"new", "under_review"} \cup Closed,
                    holder : Moderator \cup {NoOne},
                    resolution : {"none", "action_taken", "no_action", "dismissed"}]
    BY DEF ModInit
  <2> QED BY <2>1, <2>2, <2>3 DEF ModInit, ModTypeOK
<1>2. /\ ledger = {} /\ IsFiniteSet(ledger) /\ Cardinality(ledger) = 0
  BY FS_EmptySet DEF ModInit
<1>3. \A c \in Call : txn[c] = NoTxn
  BY DEF ModInit
<1>4. HeldInv
  BY <1>0, <1>1, <1>2, <1>3 DEF HeldInv, HeldBy, CallInv, NoTxn
<1>5. NumberInv
  BY <1>2, <1>3, <1>4 DEF NumberInv, Counted, NoTxn
<1>6. \A r \in Row : restriction[r] = [kind |-> "none", lifted |-> FALSE, starts |-> 0,
                                         ends |-> NoEnd]
  BY DEF ModInit
<1>7. RowInv
  BY <1>2, <1>3, <1>5, <1>6 DEF RowInv, NoTxn
<1>8. \A k \in Kind : InForce(k) = {}
  BY <1>6 DEF InForce, Kind
<1>9. BanMirrored
  BY <1>8 DEF BanMirrored, ModInit, Kind
<1>10. lock[User] = NoOne
  BY NamedLocks DEF ModInit
<1>11. OrderInv
  BY <1>3, <1>7, <1>8, <1>9, <1>10, NoOneIsNoCall DEF OrderInv, NoTxn
<1>12. ResolutionInv
  BY <1>3, <1>5 DEF ResolutionInv, ResolutionDerived, ResolvesTruly, NoTxn, ModInit
<1>13. MessageInv
  BY <1>2, <1>3, <1>5 DEF MessageInv, NoTxn
<1>14. EntitledInv
  BY <1>3, <1>5 DEF EntitledInv, Entitled, NoTxn
<1> QED BY <1>11, <1>12, <1>13, <1>14

\* Every variable of the moderation tables, their locks and calls has its type.
THEOREM ModTypeCorrect == ModSpec => []ModTypeOK
<1>1. OrderInv => ModTypeOK
  BY DEF OrderInv, RowInv, NumberInv, HeldInv, CallInv
<1> QED BY <1>1, ModInitInv, OrderStep, PTL DEF ModSpec

\* No two restrictions of a kind overlap and the ban flag mirrors the bans, unless
\* transactions wrote in another order than they began.
THEOREM RestrictionsAgreeCorrect == ModSpec => []RestrictionsAgree
<1>1. OrderInv => RestrictionsAgree
  BY DEF OrderInv, RestrictionsAgree, Inverted
<1> QED BY <1>1, ModInitInv, OrderStep, PTL DEF ModSpec

\* The ledger tells each restriction's start and its lift exactly once, and its
\* numbers have no gap and no double.
THEOREM LedgerTellsCorrect == ModSpec => []LedgerTells
<1>1. ASSUME RowInv PROVE LedgerTells
  <2>0. /\ NumberInv /\ \A r \in Row : restriction[r].lifted \in BOOLEAN
    BY <1>1 DEF RowInv, NumberInv, HeldInv, CallInv, ModTypeOK
  <2>1. {e.seq : e \in ledger} = 1..Cardinality(ledger)
    BY <2>0 DEF NumberInv, Counted
  <2>2. ASSUME NEW r \in Row, NEW w \in {"sanction", "lift"}
        PROVE  Cardinality({e \in ledger : e.what = w /\ e.row = r}) =
                 IF \E e \in ledger : e.what = w /\ e.row = r THEN 1 ELSE 0
    <3> DEFINE S == {e \in ledger : e.what = w /\ e.row = r}
    <3>1. CASE \E e \in ledger : e.what = w /\ e.row = r
      <4>1. PICK e \in ledger : e.what = w /\ e.row = r
        BY <3>1
      <4>2. S = {e}
        BY <1>1, <4>1 DEF RowInv
      <4>3. Cardinality(S) = 1
        BY <4>2, FS_Singleton
      <4> QED BY <3>1, <4>3
    <3>2. CASE ~ \E e \in ledger : e.what = w /\ e.row = r
      <4>1. S = {}
        BY <3>2
      <4>2. Cardinality(S) = 0
        BY <4>1, FS_EmptySet
      <4> QED BY <3>2, <4>2
    <3> QED BY <3>1, <3>2
  <2>3. ASSUME NEW r \in Row
        PROVE  /\ Cardinality({e \in ledger : e.what = "sanction" /\ e.row = r}) =
                    IF restriction[r].kind = "none" THEN 0 ELSE 1
               /\ Cardinality({e \in ledger : e.what = "lift" /\ e.row = r}) =
                    IF restriction[r].lifted THEN 1 ELSE 0
    <3>1. /\ restriction[r].kind # "none" <=> \E e \in ledger : e.what = "sanction" /\ e.row = r
          /\ restriction[r].lifted <=> \E e \in ledger : e.what = "lift" /\ e.row = r
      BY <1>1 DEF RowInv
    <3> QED BY <2>2, <3>1
  <2> QED BY <2>1, <2>3 DEF LedgerTells
<1>2. OrderInv => LedgerTells
  BY <1>1 DEF OrderInv
<1> QED BY <1>2, ModInitInv, OrderStep, PTL DEF ModSpec

\* A report's resolution is what the ledger says was done about it.
THEOREM ResolutionDerivedCorrect == ModSpec => []ResolutionDerived
<1>1. ResolutionInv => ResolutionDerived
  BY DEF ResolutionInv
<1> QED BY <1>1, ModInitInv, ResolutionStep, PTL DEF ModSpec

\* A step that changes the report is the last of a call entitled to it.
LEMMA EntitledChange ==
  ASSUME EntitledInv, ModNext, report' # report
  PROVE  \E c \in Call :
           /\ txn[c].at # "idle" /\ txn'[c].at = "idle"
           /\ \/ txn[c].by \in Senior \/ txn[c].seen # ReadNow
              \/ /\ report.holder \in {NoOne, txn[c].by}
                 /\ report.status \in Closed => report'.status \in Closed
<1>0. NumberInv /\ CallInv /\ \A c \in Call : Entitled(txn[c]) /\ CallAt(txn[c]) /\ txn[c] \in Txn
  BY DEF EntitledInv, NumberInv, HeldInv, CallInv, ModTypeOK
<1>1. PICK c \in Call : TxnCommits(c)
  <2>1. ASSUME NEW c \in Call, Acts(c), ~ TxnCommits(c) PROVE FALSE
    BY <2>1, OnlyCommitsWrite DEF tables
  <2> QED BY <2>1 DEF ModNext, Acts, TermEnds, SenderDeletes
<1>2. txn'[c].at = "idle"
  BY <1>0, <1>1, LedgerMoves DEF NoTxn
<1> SUFFICES ASSUME txn[c].by \notin Senior, txn[c].seen = ReadNow
             PROVE  /\ txn[c].at # "idle" /\ report.holder \in {NoOne, txn[c].by}
                    /\ report.status \in Closed => report'.status \in Closed
  BY <1>2, <1>0, <1>1, LedgerMoves DEF SanctionWrites, LiftCommits, ResolveCommits, TriageCommits, ContentCommits
<1>3. txn[c].seen.holder = report.holder /\ txn[c].seen.status = report.status
  BY DEF ReadNow
<1>4. ASSUME NEW new \in 0..Begins, SanctionWrites(c, new)
      PROVE  /\ txn[c].at # "idle" /\ report.holder \in {NoOne, txn[c].by}
             /\ report.status \in Closed => report'.status \in Closed
  <2>1. Closes(c) /\ txn[c].fn = "sanction" /\ txn[c].at = "seal"
    BY <1>4 DEF SanctionWrites
  <2> QED BY <1>0, <1>3, <2>1 DEF Closes, Entitled
<1>5. ASSUME ResolveCommits(c)
      PROVE  /\ txn[c].at # "idle" /\ report.holder \in {NoOne, txn[c].by}
             /\ report.status \in Closed => report'.status \in Closed
  <2>1. report'.status = txn[c].op /\ txn[c].op \in Closed
    BY <1>0, <1>5 DEF ResolveCommits, CallAt
  <2> QED BY <1>0, <1>3, <1>5, <2>1 DEF ResolveCommits, Entitled
<1>6. ASSUME TriageCommits(c)
      PROVE  /\ txn[c].at # "idle" /\ report.holder \in {NoOne, txn[c].by}
             /\ report.status \in Closed => report'.status \in Closed
  <2>1. CASE txn[c].op # "work" /\ txn[c].to = NoOne
    <3>1. /\ report' = [status |-> report.status, holder |-> report.holder,
                        resolution |-> report.resolution]
      <4>1. TriageStatus(c) = report.status /\ TriageHolder(c) = report.holder
        BY <2>1, NobodyIsNoAdmin DEF TriageStatus, TriageHolder
      <4> QED BY <1>6, <4>1 DEF TriageCommits
    <3>2. report' = report
      BY <1>0, <3>1 DEF CallInv, ModTypeOK
    <3> QED BY <3>2
  <2>2. CASE txn[c].op = "work" \/ txn[c].to # NoOne
    <3>1. txn[c].fn = "triage" /\ txn[c].at = "key"
      BY <1>6 DEF TriageCommits
    <3>2. report.holder \in {NoOne, txn[c].by}
      BY <1>0, <1>3, <2>2, <3>1 DEF Entitled
    <3>3. txn[c].op = "work" => report.status \notin Closed
      BY <1>0, <1>3, <3>1 DEF Entitled
    <3>4. txn[c].op # "work" => report'.status = report.status
      BY <1>6 DEF TriageCommits, TriageStatus
    <3> QED BY <3>1, <3>2, <3>3, <3>4
  <2> QED BY <2>1, <2>2
<1>7. ~ LiftCommits(c) /\ ~ ContentCommits(c)
  BY DEF LiftCommits, ContentCommits
<1> QED BY <1>0, <1>1, <1>4, <1>5, <1>6, <1>7, LedgerMoves

\* What shows a message its sender deleted was written in another order than begun.
LEMMA ShownAgain ==
  ASSUME MessageInv, ModNext, message = "deleted", message' # "deleted"
  PROVE  \E d, e \in ledger : /\ {d.what, e.what} \subseteq {"hide", "show"}
                              /\ d.seq < e.seq /\ d.at > e.at
<1>0. /\ NumberInv /\ CallInv /\ \A c \in Call : CallAt(txn[c])
      /\ ledger \subseteq LedgerLine
  BY DEF MessageInv, NumberInv, HeldInv, CallInv, ModTypeOK
<1>1. PICK c \in Call : TxnCommits(c)
  <2>1. ASSUME NEW c \in Call, Acts(c), ~ TxnCommits(c) PROVE FALSE
    BY <2>1, OnlyCommitsWrite DEF tables
  <2> QED BY <2>1 DEF ModNext, Acts, TermEnds, SenderDeletes
<1>2. ContentCommits(c)
  BY <1>0, <1>1, LedgerMoves DEF SanctionWrites, LiftCommits, ResolveCommits, TriageCommits
<1>3. Changeable(txn[c].op)
  BY <1>2 DEF ContentCommits, MessageInv
<1>4. LastIs("hide")
  BY <1>3 DEF Changeable
<1>5. PICK h \in ledger : /\ h.what = "hide"
                          /\ \A d \in ledger : d.what \in {"hide", "show"} =>
                               d.at < h.at \/ (d.at = h.at /\ d.seq <= h.seq)
  BY <1>4 DEF LastIs
<1>6. PICK s \in ledger : s.what = "show" /\ s.seq > h.seq
  BY <1>5 DEF MessageInv
<1>7. s.at < h.at \/ (s.at = h.at /\ s.seq <= h.seq)
  BY <1>5, <1>6
<1>8. h.seq \in Nat /\ s.seq \in Nat /\ h.at \in Nat /\ s.at \in Nat
  BY <1>0, <1>5, <1>6 DEF LedgerLine
<1> QED BY <1>5, <1>6, <1>7, <1>8

\* What is written to the ledger stays, and has a higher number than all before.
LEMMA LaterLines ==
  ASSUME NumberInv, ModNext, ledger' # ledger
  PROVE  /\ ledger \subseteq ledger'
         /\ \A e \in ledger' \ ledger, d \in ledger : d.seq < e.seq
<1>1. ASSUME NEW r \in Row, TermEnds(r) PROVE UNCHANGED ledger
  BY <1>1 DEF TermEnds
<1>2. SenderDeletes => UNCHANGED ledger
  BY DEF SenderDeletes
<1>3. PICK c \in Call : Acts(c)
  BY <1>1, <1>2 DEF ModNext, Acts
<1>4. TxnCommits(c)
  BY <1>3, OnlyCommitsWrite DEF tables
<1>5. \A d \in ledger : d.seq \in Nat /\ d.seq < NextSeq
  BY LedgerSeqs
<1>6. NextSeq \in Nat /\ ledger \subseteq ledger'
      /\ \A e \in ledger' \ ledger : e.seq \in Nat /\ e.seq >= NextSeq
  BY <1>4, LedgerSeqs, NewLines
<1>7. ASSUME NEW e \in ledger' \ ledger, NEW d \in ledger PROVE d.seq < e.seq
  BY <1>5, <1>6
<1> QED BY <1>6, <1>7

\* Only who was entitled to it, of the report he saw, changes a report; a message
\* its sender deleted stays deleted, unless content calls were written in another
\* order than they began; and the ledger only grows, at its end.
THEOREM ModerationRulesCorrect == ModSpec => ModerationRules
<1> DEFINE Told == report' # report =>
                     \E c \in Call :
                       /\ txn[c].at # "idle" /\ txn'[c].at = "idle"
                       /\ \/ txn[c].by \in Senior \/ txn[c].seen # ReadNow
                          \/ /\ report.holder \in {NoOne, txn[c].by}
                             /\ report.status \in Closed => report'.status \in Closed
           Stays == message = "deleted" /\ message' # "deleted" =>
                      \E d, e \in ledger : /\ {d.what, e.what} \subseteq {"hide", "show"}
                                           /\ d.seq < e.seq /\ d.at > e.at
<1>1. EntitledInv /\ [ModNext]_modVars => Told
  <2>1. UNCHANGED modVars => Told
    BY DEF modVars, tables
  <2> QED BY <2>1, EntitledChange
<1>2. MessageInv /\ [ModNext]_modVars => Stays
  <2>1. UNCHANGED modVars => Stays
    BY DEF modVars, tables
  <2> QED BY <2>1, ShownAgain
<1>3. ModSpec => [][Told]_modVars
  <2> HIDE DEF Told
  <2> QED BY <1>1, ModInitInv, EntitledStep, PTL DEF ModSpec
<1>4. ModSpec => [][Stays]_modVars
  <2> HIDE DEF Stays
  <2> QED BY <1>2, ModInitInv, MessageStep, PTL DEF ModSpec
<1> DEFINE Appends == ledger' # ledger =>
                        /\ ledger \subseteq ledger'
                        /\ \A e \in ledger' \ ledger, d \in ledger : d.seq < e.seq
<1>5. NumberInv /\ [ModNext]_modVars => Appends
  <2>1. UNCHANGED modVars => Appends
    BY DEF modVars, tables
  <2> QED BY <2>1, LaterLines
<1>6. ModSpec => [][Appends]_modVars
  <2> HIDE DEF Appends
  <2>1. EntitledInv => NumberInv
    BY DEF EntitledInv
  <2> QED BY <1>5, <2>1, ModInitInv, EntitledStep, PTL DEF ModSpec
<1> QED BY <1>3, <1>4, <1>6
        DEF ModerationRules, ReportRules, DeletedStaysInOrder, LedgerAppends

-----------------------------------------------------------------------------
(* Who waits for whom.                                                     *)

\* A call that is over has released all its locks.
IdleHoldsNone ==
  \A c \in Call : txn[c].at = "idle" => \A x \in Lockable : lock[x] # c
FlightInv == HeldInv /\ IdleHoldsNone

LEMMA FlightStep == FlightInv /\ [ModNext]_modVars => FlightInv'
<1> SUFFICES ASSUME FlightInv, [ModNext]_modVars PROVE FlightInv'
  OBVIOUS
<1>1. HeldInv /\ HeldInv' /\ CallInv /\ CallInv' /\ IdleHoldsNone
  BY HeldStep DEF FlightInv, HeldInv
<1>2. CASE UNCHANGED <<txn, lock>>
  BY <1>1, <1>2 DEF FlightInv, IdleHoldsNone
<1>3. ASSUME NEW c \in Call, Acts(c) PROVE IdleHoldsNone'
  <2>1. ASSUME NEW d \in Call, d # c, txn'[d].at = "idle", NEW x \in Lockable
        PROVE  lock'[x] # d
    <3>1. Keeps(c)
      BY <1>1, <1>3, OthersKept
    <3> QED BY <1>1, <2>1, <3>1 DEF Keeps, IdleHoldsNone
  <2>2. ASSUME lock' = Released(c), NEW x \in Lockable PROVE lock'[x] # c
    BY <2>2, NoOneIsNoCall DEF Released
  <2>3. CASE RollsBack(c) \/ TxnCommits(c)
    <3>1. lock' = Released(c)
      BY <2>3 DEF RollsBack, TxnCommits, SanctionCommits, LiftCommits, ResolveCommits,
         TriageCommits, ContentCommits, Commits
    <3> QED BY <2>1, <2>2, <3>1 DEF IdleHoldsNone
  <2>4. CASE Asks(c)
    <3>1. txn'[c].at # "idle"
      BY <1>1, <2>4, AskStep
    <3> QED BY <2>1, <3>1 DEF IdleHoldsNone
  <2>5. CASE RunsOn(c) /\ ~ RollsBack(c) /\ ~ TxnCommits(c)
    <3>1. txn[c].at # "idle"
      BY <2>5 DEF RunsOn, TakesLock, LockUser, LockItsReport, LockReplaced, LockLifted,
         LiftFlag, LockResolved, LockTriaged, LockMessage, Seals, SanctionTerms, LiftChecks
    <3>2. txn[c].fn # "none"
      BY <1>1, <3>1 DEF CallInv, CallAt
    <3>3. txn'[c].fn = txn[c].fn
      BY <1>1, <2>5, Moves DEF SameCall
    <3>4. txn'[c].at # "idle"
      BY <1>1, <3>2, <3>3 DEF CallInv, CallAt, NoTxn
    <3> QED BY <2>1, <3>4 DEF IdleHoldsNone
  <2> QED BY <1>3, <2>3, <2>4, <2>5 DEF Acts, Aborts, DeadlockFound
<1>4. ASSUME NEW r \in Row, TermEnds(r) PROVE UNCHANGED <<txn, lock>>
  BY <1>4 DEF TermEnds
<1>5. SenderDeletes => UNCHANGED <<txn, lock>>
  BY DEF SenderDeletes
<1>6. CASE UNCHANGED modVars
  BY <1>2, <1>6 DEF modVars
<1> QED BY <1>1, <1>2, <1>3, <1>4, <1>5, <1>6 DEF ModNext, Acts, FlightInv

\* Whoever waits waits for another call in flight: no lock outlives its
\* transaction, no call waits for itself, and when all wait there is a deadlock
\* for Postgres to break, for any number of calls, moderators and restrictions.
THEOREM WaitsResolveCorrect == ModSpec => []WaitsResolve
<1>1. ASSUME FlightInv PROVE WaitsResolve
  <2> DEFINE flying == {c \in Call : txn[c].at # "idle"}
  <2>1. CallInv /\ IdleHoldsNone
    BY <1>1 DEF FlightInv, HeldInv
  <2>2. ASSUME NEW c \in Call, NEW x \in Waits(c)
        PROVE  x \in Lockable /\ lock[x] \notin {NoOne, c}
    <3>1. CallAt(txn[c]) /\ txn[c] \in Txn
      BY <2>1 DEF CallInv, ModTypeOK
    <3>2. txn[c].at = "replace" => RowLock(NextRow(c)) \in Lockable
      BY <2>1, <3>1, NextRowIsThere, NamedLocks DEF CallAt
    <3>3. txn[c].at = "row" => RowLock(txn[c].row) \in Lockable
      BY <3>1, NamedLocks DEF CallAt, Txn, Fn
    <3> QED BY <2>2, <3>2, <3>3, NamedLocks DEF Waits, MayLock, UserFree, ReportFree
  <2>3. ASSUME NEW c \in Call PROVE Blockers(c) \subseteq flying \ {c}
    <3> SUFFICES ASSUME NEW x \in Waits(c) PROVE lock[x] \in flying \ {c}
      BY DEF Blockers
    <3>1. x \in Lockable /\ lock[x] \in Call \ {c}
      BY <2>1, <2>2 DEF CallInv, ModTypeOK
    <3> QED BY <2>1, <3>1 DEF IdleHoldsNone
  <2>4. ASSUME flying # {}, \A c \in flying : Blockers(c) # {}
        PROVE  \E S \in SUBSET Call : S # {} /\ \A d \in S : Blockers(d) \cap S # {}
    <3>1. flying \in SUBSET Call /\ \A d \in flying : Blockers(d) \cap flying # {}
      BY <2>3, <2>4
    <3> QED BY <2>4, <3>1
  <2> QED BY <2>3, <2>4 DEF WaitsResolve
<1>2. ModInit => FlightInv
  <2>1. ModInit => HeldInv
    BY ModInitInv DEF OrderInv, RowInv, NumberInv
  <2>2. ModInit => IdleHoldsNone
    BY NoOneIsNoCall DEF ModInit, IdleHoldsNone
  <2> QED BY <2>1, <2>2 DEF FlightInv
<1> QED BY <1>1, <1>2, FlightStep, PTL DEF ModSpec
=============================================================================
