--------------------------- MODULE Casework_proofs --------------------------
(***************************************************************************)
(* The invariants of DisputeCase hold for any number of admins, requests   *)
(* and sweeps, and any number of faults, and what the repairs of           *)
(* FinanceRepairs do to them, with the repairs' own; those of JobLifecycle *)
(* for any number of applicants, requests and completions.                 *)
(***************************************************************************)
EXTENDS FinanceRepairs, JobLifecycle, FiniteSetTheorems, TLAPS

-----------------------------------------------------------------------------
(* What a call holds in its locals.                                        *)

\* A claim knows its admin and the status it read, a ruling its admin and its
\* decision, which is the one its branch of decide stands for; a sweep is
\* nowhere but in a sweep.
Sound(c, v) ==
  /\ v.at \in {"claim", "ask"} \cup Ruling /\ c \in Desk => v.admin \in Admin
  /\ v.at = "claim" => v.seen \in NonTerminal
  /\ v.at \in Ruling => v.kind \in Decision
  /\ v.at = "escalate" => v.kind = "ESCALATE"
  /\ v.at = "pay" => v.kind = "FULL_RELEASE"
  /\ v.at = "refund" => v.kind = "REFUND"
  /\ v.at \in {"resolve", "close_job"} => v.kind \in Financial
  /\ v.at \in {"found", "sla_record"} => c \in Sweeper /\ v.kind = "ESCALATE"
  /\ c \in Sweeper => v.at \in {"idle"} \cup Sweeping

LocalsInv == \A c \in Calls : Sound(c, call[c])

\* One call's locals change, and no other's.
Touches(c) ==
  /\ call' \in [Calls -> Local]
  /\ \A d \in Calls \ {c} : call'[d] = call[d]

Keeps(c) == Touches(c) /\ Sound(c, call'[c])

\* Going on in a handler changes where the call is.
LEMMA GotoEffect ==
  ASSUME call \in [Calls -> Local], NEW c \in Calls, NEW place \in Place,
         Goto(c, place)
  PROVE  /\ Touches(c)
         /\ call'[c].at = place /\ call'[c].admin = call[c].admin
         /\ call'[c].seen = call[c].seen /\ call'[c].kind = call[c].kind
<1> DEFINE v == [at |-> place, admin |-> call[c].admin,
                 seen |-> call[c].seen, kind |-> call[c].kind]
<1>1. call[c] \in Local
  OBVIOUS
<1>2. v \in Local /\ [call[c] EXCEPT !.at = place] = v
  BY <1>1 DEF Local
<1>3. call' = [call EXCEPT ![c] = [call[c] EXCEPT !.at = place]]
  BY DEF Goto
<1>4. call' = [call EXCEPT ![c] = v] /\ v \in Local
  BY <1>2, <1>3
<1> HIDE DEF v
<1>5. Touches(c) /\ call'[c] = v
  BY <1>4 DEF Touches
<1> QED BY <1>5 DEF v

\* Leaving a handler clears the call.
LEMMA DoneEffect ==
  ASSUME call \in [Calls -> Local], NEW c \in Calls, Done(c)
  PROVE  Keeps(c) /\ call'[c].at = "idle"
<1>1. Idle \in Local
  BY DEF Idle, Local, Place
<1>2. Touches(c) /\ call'[c] = Idle
  BY <1>1 DEF Done, Touches
<1> QED BY <1>2 DEF Keeps, Sound, Idle, Ruling

\* Entering a handler gives an idle call its locals.
LEMMA EnterEffect ==
  ASSUME call \in [Calls -> Local], NEW c \in Calls, NEW place \in Place,
         NEW a \in Admin \cup {None}, NEW s \in NonTerminal \cup {None},
         NEW k \in Decision \cup {None}, Enter(c, place, a, s, k)
  PROVE  /\ call[c].at = "idle"
         /\ Touches(c)
         /\ call'[c].at = place /\ call'[c].admin = a
         /\ call'[c].seen = s /\ call'[c].kind = k
<1> DEFINE v == [at |-> place, admin |-> a, seen |-> s, kind |-> k]
<1>1. v \in Local
  BY DEF Local
<1>2. call' = [call EXCEPT ![c] = v] /\ call[c].at = "idle"
  BY DEF Enter, At
<1> HIDE DEF v
<1>3. Touches(c) /\ call'[c] = v
  BY <1>1, <1>2 DEF Touches
<1> QED BY <1>2, <1>3 DEF v

\* Every column but the calls' locals has its type.
RowsOK ==
  /\ status \in NonTerminal \cup Terminal
  /\ assignee \in Admin \cup {None}
  /\ ledger \subseteq Decision
  /\ ruling \in Financial \cup {None}
  /\ money \in Money
  /\ post \in {"disputed", "completed"}
  /\ completion \in {"disputed", "approved"}
  /\ holders \subseteq Admin
  /\ overridden \in BOOLEAN
  /\ reruled \in BOOLEAN
  /\ late \subseteq Calls
  /\ faults \in Nat

\* What each of the calls that begin holds.
LEMMA StartEffects ==
  ASSUME RowsOK, call \in [Calls -> Local], NEW c \in Calls
  PROVE  /\ \A a \in Admin : AssignRead(c, a) =>
              Touches(c) /\ call'[c].at = "claim" /\ call'[c].admin = a
              /\ call'[c].seen = status /\ status \in NonTerminal
         /\ \A a \in Admin : AskRead(c, a) =>
              Touches(c) /\ call'[c].at = "ask" /\ call'[c].admin = a
         /\ \A a \in Admin, k \in Decision : DecideRead(c, a, k) =>
              Touches(c) /\ call'[c].at = "validate" /\ call'[c].admin = a
              /\ call'[c].kind = k
         /\ SubmitRead(c) => Touches(c) /\ call'[c].at = "advance"
         /\ SweepFind(c) =>
              Touches(c) /\ call'[c].at = "found" /\ call'[c].kind = "ESCALATE"
<1>1. {"claim", "ask", "validate", "advance", "found"} \subseteq Place
  BY DEF Place, Reopening, Ruling, Sweeping
<1>2. "ESCALATE" \in Decision
  BY DEF Decision
<1>3. status \notin Terminal => status \in NonTerminal
  BY DEF RowsOK
<1>4. ASSUME NEW a \in Admin, AssignRead(c, a)
      PROVE  Touches(c) /\ call'[c].at = "claim" /\ call'[c].admin = a
             /\ call'[c].seen = status /\ status \in NonTerminal
  <2>1. status \in NonTerminal /\ Enter(c, "claim", a, status, None)
    BY <1>3, <1>4 DEF AssignRead
  <2> QED BY <1>1, <2>1, EnterEffect
<1>5. ASSUME NEW a \in Admin, AskRead(c, a)
      PROVE  Touches(c) /\ call'[c].at = "ask" /\ call'[c].admin = a
  <2>1. Enter(c, "ask", a, None, None)
    BY <1>5 DEF AskRead
  <2> QED BY <1>1, <2>1, EnterEffect
<1>6. ASSUME NEW a \in Admin, NEW k \in Decision, DecideRead(c, a, k)
      PROVE  Touches(c) /\ call'[c].at = "validate" /\ call'[c].admin = a
             /\ call'[c].kind = k
  <2>1. Enter(c, "validate", a, None, k)
    BY <1>6 DEF DecideRead
  <2> QED BY <1>1, <2>1, EnterEffect
<1>7. ASSUME SubmitRead(c) PROVE Touches(c) /\ call'[c].at = "advance"
  <2>1. status \in NonTerminal /\ Enter(c, "advance", None, status, None)
    BY <1>3, <1>7 DEF SubmitRead
  <2> QED BY <1>1, <2>1, EnterEffect
<1>8. ASSUME SweepFind(c)
      PROVE  Touches(c) /\ call'[c].at = "found" /\ call'[c].kind = "ESCALATE"
  <2>1. Enter(c, "found", None, None, "ESCALATE")
    BY <1>8 DEF SweepFind
  <2> QED BY <1>1, <1>2, <2>1, EnterEffect
<1> QED BY <1>4, <1>5, <1>6, <1>7, <1>8

-----------------------------------------------------------------------------
(* Type correctness.                                                       *)

\* Initially every column has its type and every call is idle.
LEMMA TypeInit == Init => TypeOK /\ LocalsInv
<1> SUFFICES ASSUME Init PROVE TypeOK /\ LocalsInv
  OBVIOUS
<1>1. Idle \in Local
  BY DEF Idle, Local, Place
<1>2. call \in [Calls -> Local]
  BY <1>1 DEF Init
<1>3. TypeOK
  BY <1>2 DEF Init, TypeOK, NonTerminal, Terminal, Money
<1>4. \A c \in Calls : Sound(c, Idle)
  BY DEF Sound, Idle, Ruling
<1>5. LocalsInv
  BY <1>4 DEF Init, LocalsInv
<1> QED BY <1>3, <1>5

\* Every step keeps the rows within their columns and the locals what the
\* handler's own steps made them.
LEMMA TypeStep == TypeOK /\ LocalsInv /\ [Next]_vars => TypeOK' /\ LocalsInv'
<1> SUFFICES ASSUME TypeOK, LocalsInv, [Next]_vars PROVE TypeOK' /\ LocalsInv'
  OBVIOUS
<1>1. call \in [Calls -> Local] /\ RowsOK
  BY DEF TypeOK, RowsOK
<1>2. ASSUME NEW c \in Calls
      PROVE  Sound(c, call[c]) /\ call[c].admin \in Admin \cup {None}
             /\ call[c].seen \in NonTerminal \cup {None}
             /\ call[c].kind \in Decision \cup {None}
  BY <1>1, <1>2 DEF LocalsInv, Local
<1>3. ASSUME NEW c \in Calls, Keeps(c), RowsOK' PROVE TypeOK' /\ LocalsInv'
  BY <1>2, <1>3 DEF Keeps, Touches, TypeOK, LocalsInv, RowsOK
<1>4. ASSUME UNCHANGED call, RowsOK' PROVE TypeOK' /\ LocalsInv'
  BY <1>4 DEF TypeOK, LocalsInv, RowsOK
<1> USE Ranks, NoneIsNull, CallsDisjoint
<1> USE DEF RowsOK, case, job, hist, At, NonTerminal, Terminal, Financial, Decision, Money,
        Becomes, BecomesUnchecked, Fault, Place, Reopening, Ruling, Sweeping, Keeps,
        Sound
<1>5. CASE UNCHANGED vars
  BY <1>1, <1>4, <1>5 DEF vars
<1>6. CASE PayoutResult
  BY <1>1, <1>4, <1>6 DEF PayoutResult
<1>7. ASSUME NEW c \in Desk, AdminStep(c) PROVE RowsOK' /\ Keeps(c)
  <2> c \in Calls /\ c \notin Sweeper
    BY DEF Calls
  <2>1. ASSUME NEW a \in Admin, AssignRead(c, a) PROVE RowsOK' /\ Keeps(c)
    BY <1>1, <2>1, StartEffects DEF AssignRead
  <2>2. ASSUME NEW a \in Admin, AskRead(c, a) PROVE RowsOK' /\ Keeps(c)
    BY <1>1, <2>2, StartEffects DEF AskRead
  <2>3. ASSUME NEW a \in Admin, NEW k \in Decision, DecideRead(c, a, k)
        PROVE  RowsOK' /\ Keeps(c)
    BY <1>1, <2>3, StartEffects DEF DecideRead
  <2>4. CASE AssignWrite(c)
    BY <1>1, <1>2, <2>4, DoneEffect DEF AssignWrite
  <2>5. CASE AssignConflict(c)
    BY <1>1, <2>5, DoneEffect DEF AssignConflict
  <2>6. CASE AskWrite(c)
    BY <1>1, <2>6, DoneEffect DEF AskWrite
  <2> QED BY <1>7, <2>1, <2>2, <2>3, <2>4, <2>5, <2>6 DEF AdminStep
<1>8. ASSUME NEW c \in Desk, RulingStep(c) PROVE RowsOK' /\ Keeps(c)
  <2> c \in Calls /\ c \notin Sweeper
    BY DEF Calls
  <2>1. CASE DecideValidate(c)
    BY <1>1, <1>2, <2>1, DoneEffect, GotoEffect DEF DecideValidate
  <2>2. CASE DecideRecord(c)
    <3>1. call[c].kind \in Decision /\ Goto(c, Branch(call[c].kind))
      BY <1>2, <2>2 DEF DecideRecord
    <3>2. Branch(call[c].kind) \in Place
      BY DEF Branch
    <3>3. /\ Touches(c)
          /\ call'[c].at = Branch(call[c].kind) /\ call'[c].admin = call[c].admin
          /\ call'[c].seen = call[c].seen /\ call'[c].kind = call[c].kind
      BY <1>1, <3>1, <3>2, GotoEffect
    <3>4. call[c].admin \in Admin
      BY <1>2, <2>2 DEF DecideRecord
    <3>5. Keeps(c)
      BY <3>3, <3>4, <3>1 DEF Branch
    <3>6. ledger' = ledger \cup {call[c].kind}
      BY <2>2 DEF DecideRecord
    <3>7. ledger' \subseteq Decision
      BY <1>1, <3>1, <3>6
    <3>8. ruling' \in Financial \cup {None} /\ reruled' \in BOOLEAN
      BY <1>1, <2>2 DEF DecideRecord
    <3> QED BY <1>1, <2>2, <3>5, <3>7, <3>8 DEF DecideRecord
  <2>3. CASE PayProvider(c)
    BY <1>1, <1>2, <2>3, DoneEffect, GotoEffect DEF PayProvider
  <2>4. CASE RefundClient(c)
    BY <1>1, <1>2, <2>4, GotoEffect DEF RefundClient
  <2>5. CASE Resolve(c)
    BY <1>1, <1>2, <2>5, GotoEffect DEF Resolve
  <2>6. CASE CloseJob(c)
    BY <1>1, <2>6, DoneEffect DEF CloseJob
  <2> QED BY <1>8, <2>1, <2>2, <2>3, <2>4, <2>5, <2>6 DEF RulingStep
<1>9. ASSUME NEW c \in Calls, Escalate(c) PROVE RowsOK' /\ Keeps(c)
  BY <1>1, <1>9, DoneEffect DEF Escalate
<1>10. ASSUME NEW c \in Desk, SubmitRead(c) PROVE RowsOK' /\ Keeps(c)
  <2> c \in Calls /\ c \notin Sweeper
    BY DEF Calls
  <2> QED BY <1>1, <1>10, StartEffects DEF SubmitRead
<1>11. ASSUME NEW c \in Desk, AdvanceAfterEvidence(c) PROVE RowsOK' /\ Keeps(c)
  <2> c \in Calls
    BY DEF Calls
  <2> QED BY <1>1, <1>11, DoneEffect DEF AdvanceAfterEvidence
<1>12. ASSUME NEW w \in Sweeper, SweepStep(w) PROVE RowsOK' /\ Keeps(w)
  <2> w \in Calls /\ w \notin Desk
    BY DEF Calls
  <2>1. CASE SweepFind(w)
    BY <1>1, <2>1, StartEffects DEF SweepFind
  <2>2. CASE SystemEscalateRead(w)
    BY <1>1, <1>2, <2>2, DoneEffect, GotoEffect DEF SystemEscalateRead
  <2>3. CASE SystemEscalateRecord(w)
    <3>1. Keeps(w)
      BY <1>1, <1>2, <2>3, GotoEffect DEF SystemEscalateRecord
    <3>2. ledger' = ledger \cup {"ESCALATE"} \/ ledger' = ledger
      BY <2>3 DEF SystemEscalateRecord
    <3>3. ledger' \subseteq Decision
      BY <1>1, <3>2
    <3> QED BY <1>1, <2>3, <3>1, <3>3 DEF SystemEscalateRecord
  <2> QED BY <1>9, <1>12, <2>1, <2>2, <2>3 DEF SweepStep
<1>13. ASSUME NEW c \in Calls, Abort(c) PROVE RowsOK' /\ Keeps(c)
  BY <1>1, <1>13, DoneEffect DEF Abort
<1> HIDE DEF RowsOK, Keeps
<1>14. Desk \subseteq Calls /\ Sweeper \subseteq Calls
  BY DEF Calls
<1> QED BY <1>3, <1>5, <1>6, <1>7, <1>8, <1>9, <1>10, <1>11, <1>12, <1>13, <1>14
       DEF Next

\* Every reachable state of a case is well-typed.
THEOREM TypeCorrect == Spec => []TypeOK
BY TypeInit, TypeStep, PTL DEF Spec

-----------------------------------------------------------------------------
(* Whose case it is.                                                       *)

\* Unless a super_admin took a claimed case, whoever was told that the case is
\* theirs is the assignee; a case that is unassigned was never claimed.
HolderInv ==
  /\ assignee = None => holders = {}
  /\ ~ overridden => holders \subseteq {assignee}
  /\ assignee \in Admin \ Super => assignee \in holders
  /\ \A c \in Desk :
       call[c].at \in Ruling /\ call[c].admin \notin Super
         => call[c].admin \in holders

\* The claim is a conditional update, which only a super_admin goes around; a
\* ruling begins by finding the case its own.
LEMMA HolderStep == TypeOK /\ LocalsInv /\ HolderInv /\ [Next]_vars => HolderInv'
<1> SUFFICES ASSUME TypeOK, LocalsInv, HolderInv, [Next]_vars PROVE HolderInv'
  OBVIOUS
<1>1. call \in [Calls -> Local] /\ RowsOK /\ Desk \subseteq Calls /\ Sweeper \subseteq Calls
  BY DEF TypeOK, RowsOK, Calls
<1>2. \A c \in Calls : Sound(c, call[c])
  BY DEF LocalsInv
<1> USE Ranks, NoneIsNull, CallsDisjoint
<1> USE DEF HolderInv, case, job, hist, At, Place, NonTerminal, Terminal, Financial, Decision, Money,
        Reopening, Ruling, Sweeping, Touches, Keeps, Sound, RowsOK
<1>3. CASE UNCHANGED vars
  BY <1>3 DEF vars
<1>4. CASE PayoutResult
  BY <1>1, <1>4 DEF PayoutResult
<1>5. ASSUME NEW c \in Desk, AdminStep(c) PROVE HolderInv'
  <2>1. ASSUME NEW a \in Admin, AssignRead(c, a) PROVE HolderInv'
    <3>1. Touches(c) /\ call'[c].at = "claim"
      BY <1>1, <2>1, StartEffects DEF AssignRead
    <3> QED BY <1>1, <2>1, <3>1 DEF AssignRead
  <2>2. ASSUME NEW a \in Admin, AskRead(c, a) PROVE HolderInv'
    BY <1>1, <1>2, <2>2, StartEffects DEF AskRead
  <2>3. ASSUME NEW a \in Admin, NEW k \in Decision, DecideRead(c, a, k)
        PROVE  HolderInv'
    <3>1. Touches(c) /\ call'[c].at = "validate" /\ call'[c].admin = a
      BY <1>1, <2>3, StartEffects DEF DecideRead
    <3>2. a \notin Super => a \in holders
      BY <2>3 DEF DecideRead, MayDecide
    <3> QED BY <1>1, <2>3, <3>1, <3>2 DEF DecideRead
  <2>4. CASE AssignWrite(c)
    <3>1. Touches(c) /\ call'[c].at = "idle"
      BY <1>1, <2>4, DoneEffect DEF AssignWrite
    <3>2. call[c].admin \in Admin
      BY <1>1, <1>2, <2>4 DEF AssignWrite
    <3>3. /\ assignee' = call[c].admin
          /\ holders' = holders \cup ({call[c].admin} \ Super)
          /\ call[c].admin \in Super \/ assignee = None
          /\ ~ overridden' =>
               ~ overridden /\ (call[c].admin \in Super => assignee \in {None, call[c].admin})
      BY <1>1, <2>4 DEF AssignWrite
    <3>4. /\ assignee' # None
          /\ ~ overridden' => holders' \subseteq {assignee'}
          /\ assignee' \in Admin \ Super => assignee' \in holders'
      BY <3>2, <3>3
    <3>5. \A d \in Desk : call'[d].at \in Ruling /\ call'[d].admin \notin Super
                          => call'[d].admin \in holders'
      BY <1>1, <3>1, <3>3
    <3> QED BY <3>4, <3>5
  <2>5. CASE AssignConflict(c)
    BY <1>1, <1>2, <2>5, DoneEffect DEF AssignConflict
  <2>6. CASE AskWrite(c)
    BY <1>1, <1>2, <2>6, DoneEffect DEF AskWrite
  <2> QED BY <1>5, <2>1, <2>2, <2>3, <2>4, <2>5, <2>6 DEF AdminStep
<1>6. ASSUME NEW c \in Desk, RulingStep(c) PROVE HolderInv'
  <2>1. CASE DecideValidate(c)
    BY <1>1, <1>2, <2>1, DoneEffect, GotoEffect DEF DecideValidate
  <2>2. CASE DecideRecord(c)
    BY <1>1, <1>2, <2>2, GotoEffect DEF DecideRecord, Branch
  <2>3. CASE PayProvider(c)
    BY <1>1, <1>2, <2>3, DoneEffect, GotoEffect DEF PayProvider
  <2>4. CASE RefundClient(c)
    BY <1>1, <1>2, <2>4, GotoEffect DEF RefundClient
  <2>5. CASE Resolve(c)
    BY <1>1, <1>2, <2>5, GotoEffect DEF Resolve
  <2>6. CASE CloseJob(c)
    BY <1>1, <1>2, <2>6, DoneEffect DEF CloseJob
  <2> QED BY <1>6, <2>1, <2>2, <2>3, <2>4, <2>5, <2>6 DEF RulingStep
<1>7. ASSUME NEW c \in Calls, Escalate(c) PROVE HolderInv'
  BY <1>1, <1>2, <1>7, DoneEffect DEF Escalate
<1>8. ASSUME NEW c \in Desk, SubmitRead(c) PROVE HolderInv'
  <2>1. Touches(c) /\ call'[c].at = "advance"
    BY <1>1, <1>8, StartEffects DEF SubmitRead
  <2> QED BY <1>1, <1>8, <2>1 DEF SubmitRead
<1>9. ASSUME NEW c \in Desk, AdvanceAfterEvidence(c) PROVE HolderInv'
  BY <1>1, <1>2, <1>9, DoneEffect DEF AdvanceAfterEvidence
<1>10. ASSUME NEW w \in Sweeper, SweepStep(w) PROVE HolderInv'
  <2>1. CASE SweepFind(w)
    <3>1. Touches(w) /\ call'[w].at = "found"
      BY <1>1, <2>1, StartEffects DEF SweepFind
    <3> QED BY <1>1, <2>1, <3>1 DEF SweepFind
  <2>2. CASE SystemEscalateRead(w)
    BY <1>1, <1>2, <2>2, DoneEffect, GotoEffect DEF SystemEscalateRead
  <2>3. CASE SystemEscalateRecord(w)
    BY <1>1, <1>2, <2>3, GotoEffect DEF SystemEscalateRecord
  <2> QED BY <1>1, <1>7, <1>10, <2>1, <2>2, <2>3 DEF SweepStep
<1>11. ASSUME NEW c \in Calls, Abort(c) PROVE HolderInv'
  BY <1>1, <1>2, <1>11, DoneEffect DEF Abort
<1> QED BY <1>1, <1>3, <1>4, <1>5, <1>6, <1>7, <1>8, <1>9, <1>10, <1>11 DEF Next

\* The case lock, for any number of admins and requests.
THEOREM CaseLockCorrect == Spec => []CaseLock
<1>1. Init => HolderInv
  <2>1. Init => /\ assignee = None /\ holders = {}
                /\ \A c \in Desk : call[c].at = "idle"
    BY DEF Init, Idle, Calls
  <2> QED BY <2>1, NoneIsNull DEF HolderInv, Ruling
<1>2. TypeOK /\ HolderInv => CaseLock
  BY DEF HolderInv, CaseLock, TypeOK
<1> QED BY <1>1, <1>2, TypeInit, TypeStep, HolderStep, PTL DEF Spec

-----------------------------------------------------------------------------
(* The ledger.                                                             *)

\* Past its record, a ruling's decision is in the ledger, and so is the one
\* the case was last decided by.
LedgerInv ==
  /\ AuditBeforeAction
  /\ ruling # None => ruling \in ledger
  /\ \A c \in Calls :
       /\ call[c].at \in {"pay", "refund", "resolve", "close_job"}
            => call[c].kind \in ledger
       /\ call[c].at = "escalate" /\ (c \in Desk \/ faults = 0)
            => "ESCALATE" \in ledger

\* The decision is recorded before the branch of decide that acts on it, and
\* the ledger only grows.
LEMMA LedgerStep == TypeOK /\ LocalsInv /\ LedgerInv /\ [Next]_vars => LedgerInv'
<1> SUFFICES ASSUME TypeOK, LocalsInv, LedgerInv, [Next]_vars PROVE LedgerInv'
  OBVIOUS
<1>1. call \in [Calls -> Local] /\ RowsOK /\ Desk \subseteq Calls /\ Sweeper \subseteq Calls
  BY DEF TypeOK, RowsOK, Calls
<1>2. \A c \in Calls : Sound(c, call[c])
  BY DEF LocalsInv
<1> USE Ranks, NoneIsNull, CallsDisjoint
<1> USE DEF LedgerInv, AuditBeforeAction, Becomes, BecomesUnchecked, Fault,
        case, job, hist, At, Place, NonTerminal, Terminal, Financial, Decision, Money,
        Reopening, Ruling, Sweeping, Touches, Keeps, Sound, RowsOK
<1>3. CASE UNCHANGED vars
  BY <1>3 DEF vars
<1>4. CASE PayoutResult
  BY <1>1, <1>4 DEF PayoutResult
<1>5. ASSUME NEW c \in Desk, AdminStep(c) PROVE LedgerInv'
  <2>1. ASSUME NEW a \in Admin, AssignRead(c, a) PROVE LedgerInv'
    BY <1>1, <1>2, <2>1, StartEffects DEF AssignRead
  <2>2. ASSUME NEW a \in Admin, AskRead(c, a) PROVE LedgerInv'
    <3>1. Touches(c) /\ call'[c].at = "ask"
      BY <1>1, <2>2, StartEffects DEF AskRead
    <3> QED BY <1>1, <2>2, <3>1 DEF AskRead
  <2>3. ASSUME NEW a \in Admin, NEW k \in Decision, DecideRead(c, a, k)
        PROVE  LedgerInv'
    BY <1>1, <1>2, <2>3, StartEffects DEF DecideRead
  <2>4. CASE AssignWrite(c)
    BY <1>1, <1>2, <2>4, DoneEffect DEF AssignWrite
  <2>5. CASE AssignConflict(c)
    BY <1>1, <1>2, <2>5, DoneEffect DEF AssignConflict
  <2>6. CASE AskWrite(c)
    BY <1>1, <1>2, <2>6, DoneEffect DEF AskWrite
  <2> QED BY <1>5, <2>1, <2>2, <2>3, <2>4, <2>5, <2>6 DEF AdminStep
<1>6. ASSUME NEW c \in Desk, RulingStep(c) PROVE LedgerInv'
  <2>1. CASE DecideValidate(c)
    BY <1>1, <1>2, <2>1, DoneEffect, GotoEffect DEF DecideValidate
  <2>2. CASE DecideRecord(c)
    BY <1>1, <1>2, <2>2, GotoEffect DEF DecideRecord, Branch
  <2>3. CASE PayProvider(c)
    BY <1>1, <1>2, <2>3, DoneEffect, GotoEffect DEF PayProvider
  <2>4. CASE RefundClient(c)
    BY <1>1, <1>2, <2>4, GotoEffect DEF RefundClient
  <2>5. CASE Resolve(c)
    BY <1>1, <1>2, <2>5, GotoEffect DEF Resolve
  <2>6. CASE CloseJob(c)
    BY <1>1, <1>2, <2>6, DoneEffect DEF CloseJob
  <2> QED BY <1>6, <2>1, <2>2, <2>3, <2>4, <2>5, <2>6 DEF RulingStep
<1>7. ASSUME NEW c \in Calls, Escalate(c) PROVE LedgerInv'
  BY <1>1, <1>2, <1>7, DoneEffect DEF Escalate
<1>8. ASSUME NEW c \in Desk, SubmitRead(c) PROVE LedgerInv'
  BY <1>1, <1>2, <1>8, StartEffects DEF SubmitRead
<1>9. ASSUME NEW c \in Desk, AdvanceAfterEvidence(c) PROVE LedgerInv'
  BY <1>1, <1>2, <1>9, DoneEffect DEF AdvanceAfterEvidence
<1>10. ASSUME NEW w \in Sweeper, SweepStep(w) PROVE LedgerInv'
  <2>1. CASE SweepFind(w)
    BY <1>1, <1>2, <2>1, StartEffects DEF SweepFind
  <2>2. CASE SystemEscalateRead(w)
    BY <1>1, <1>2, <2>2, DoneEffect, GotoEffect DEF SystemEscalateRead
  <2>3. CASE SystemEscalateRecord(w)
    BY <1>1, <1>2, <2>3, GotoEffect DEF SystemEscalateRecord
  <2> QED BY <1>1, <1>7, <1>10, <2>1, <2>2, <2>3 DEF SweepStep
<1>11. ASSUME NEW c \in Calls, Abort(c) PROVE LedgerInv'
  BY <1>1, <1>2, <1>11, DoneEffect DEF Abort
<1> QED BY <1>1, <1>3, <1>4, <1>5, <1>6, <1>7, <1>8, <1>9, <1>10, <1>11 DEF Next

\* Audit before action, for any number of requests, sweeps and faults.
THEOREM AuditBeforeActionCorrect == Spec => []AuditBeforeAction
<1>1. Init => LedgerInv
  BY DEF Init, LedgerInv, AuditBeforeAction, Idle
<1>2. LedgerInv => AuditBeforeAction
  BY DEF LedgerInv
<1> QED BY <1>1, <1>2, TypeInit, TypeStep, LedgerStep, PTL DEF Spec

-----------------------------------------------------------------------------
(* What a resolved case leaves behind.                                     *)

\* A ruling past its record is the one on record, unless a second one followed;
\* and past its money step it left none frozen, except by a lost refund.
UnfreezeInv ==
  /\ ResolvedUnfreezes
  /\ status = "resolved" => ruling # None
  /\ \A c \in Calls :
       /\ call[c].at \in {"pay", "refund", "resolve", "close_job"}
            => ruling # None /\ (~ reruled => ruling = call[c].kind)
       /\ call[c].at \in {"resolve", "close_job"} /\ money = "disputed"
            => call[c].kind = "REFUND" /\ faults > 0

\* A release that fails throws, a refund that fails is a fault, and disputed
\* money is never frozen a second time.
LEMMA UnfreezeStep == TypeOK /\ LocalsInv /\ UnfreezeInv /\ [Next]_vars => UnfreezeInv'
<1> SUFFICES ASSUME TypeOK, LocalsInv, UnfreezeInv, [Next]_vars PROVE UnfreezeInv'
  OBVIOUS
<1>1. call \in [Calls -> Local] /\ RowsOK /\ Desk \subseteq Calls /\ Sweeper \subseteq Calls
  BY DEF TypeOK, RowsOK, Calls
<1>2. \A c \in Calls : Sound(c, call[c])
  BY DEF LocalsInv
<1> USE Ranks, NoneIsNull, CallsDisjoint
<1> USE DEF UnfreezeInv, ResolvedUnfreezes, Becomes, BecomesUnchecked, Fault,
        case, job, hist, At, Place, NonTerminal, Terminal, Financial, Decision, Money,
        Reopening, Ruling, Sweeping, Touches, Keeps, Sound, RowsOK
<1>3. CASE UNCHANGED vars
  BY <1>3 DEF vars
<1>4. CASE PayoutResult
  BY <1>1, <1>4 DEF PayoutResult
<1>5. ASSUME NEW c \in Desk, AdminStep(c) PROVE UnfreezeInv'
  <2>1. ASSUME NEW a \in Admin, AssignRead(c, a) PROVE UnfreezeInv'
    BY <1>1, <1>2, <2>1, StartEffects DEF AssignRead
  <2>2. ASSUME NEW a \in Admin, AskRead(c, a) PROVE UnfreezeInv'
    BY <1>1, <1>2, <2>2, StartEffects DEF AskRead
  <2>3. ASSUME NEW a \in Admin, NEW k \in Decision, DecideRead(c, a, k)
        PROVE  UnfreezeInv'
    BY <1>1, <1>2, <2>3, StartEffects DEF DecideRead
  <2>4. CASE AssignWrite(c)
    BY <1>1, <1>2, <2>4, DoneEffect DEF AssignWrite
  <2>5. CASE AssignConflict(c)
    BY <1>1, <1>2, <2>5, DoneEffect DEF AssignConflict
  <2>6. CASE AskWrite(c)
    BY <1>1, <1>2, <2>6, DoneEffect DEF AskWrite
  <2> QED BY <1>5, <2>1, <2>2, <2>3, <2>4, <2>5, <2>6 DEF AdminStep
<1>6. ASSUME NEW c \in Desk, RulingStep(c) PROVE UnfreezeInv'
  <2>1. CASE DecideValidate(c)
    BY <1>1, <1>2, <2>1, DoneEffect, GotoEffect DEF DecideValidate
  <2>2. CASE DecideRecord(c)
    <3>1. Branch(call[c].kind) \in {"escalate", "pay", "refund"}
      BY DEF Branch
    <3>2. /\ Touches(c) /\ call'[c].at \in {"escalate", "pay", "refund"}
          /\ call'[c].kind = call[c].kind
      BY <1>1, <2>2, <3>1, GotoEffect DEF DecideRecord
    <3>3. call'[c].at # "escalate" => call[c].kind \in Financial
      BY <1>1, <1>2, <2>2, GotoEffect DEF DecideRecord, Branch
    <3>4. CASE call[c].kind \in Financial
      <4>1. /\ ruling' = call[c].kind /\ reruled' = (reruled \/ ruling # None)
            /\ UNCHANGED <<status, money, faults>>
        BY <2>2, <3>4 DEF DecideRecord
      <4>2. ruling' # None
        BY <3>4, <4>1
      <4>3. \A d \in Calls \ {c} :
              call[d].at \in {"pay", "refund", "resolve", "close_job"} => reruled'
        BY <1>1, <4>1
      <4>4. status = "resolved" => reruled'
        BY <1>1, <4>1
      <4>5. reruled \in BOOLEAN
        BY <1>1
      <4> QED BY <1>1, <3>2, <4>1, <4>2, <4>3, <4>4, <4>5
    <3>5. CASE call[c].kind \notin Financial
      <4>1. UNCHANGED <<status, money, faults, ruling, reruled>>
        BY <2>2, <3>5 DEF DecideRecord
      <4>2. call'[c].at = "escalate"
        BY <3>2, <3>3, <3>5
      <4> QED BY <1>1, <3>2, <4>1, <4>2
    <3> QED BY <3>4, <3>5
  <2>3. CASE PayProvider(c)
    BY <1>1, <1>2, <2>3, DoneEffect, GotoEffect DEF PayProvider
  <2>4. CASE RefundClient(c)
    BY <1>1, <1>2, <2>4, GotoEffect DEF RefundClient
  <2>5. CASE Resolve(c)
    BY <1>1, <1>2, <2>5, GotoEffect DEF Resolve
  <2>6. CASE CloseJob(c)
    BY <1>1, <1>2, <2>6, DoneEffect DEF CloseJob
  <2> QED BY <1>6, <2>1, <2>2, <2>3, <2>4, <2>5, <2>6 DEF RulingStep
<1>7. ASSUME NEW c \in Calls, Escalate(c) PROVE UnfreezeInv'
  BY <1>1, <1>2, <1>7, DoneEffect DEF Escalate
<1>8. ASSUME NEW c \in Desk, SubmitRead(c) PROVE UnfreezeInv'
  BY <1>1, <1>2, <1>8, StartEffects DEF SubmitRead
<1>9. ASSUME NEW c \in Desk, AdvanceAfterEvidence(c) PROVE UnfreezeInv'
  BY <1>1, <1>2, <1>9, DoneEffect DEF AdvanceAfterEvidence
<1>10. ASSUME NEW w \in Sweeper, SweepStep(w) PROVE UnfreezeInv'
  <2>1. CASE SweepFind(w)
    BY <1>1, <1>2, <2>1, StartEffects DEF SweepFind
  <2>2. CASE SystemEscalateRead(w)
    BY <1>1, <1>2, <2>2, DoneEffect, GotoEffect DEF SystemEscalateRead
  <2>3. CASE SystemEscalateRecord(w)
    BY <1>1, <1>2, <2>3, GotoEffect DEF SystemEscalateRecord
  <2> QED BY <1>1, <1>7, <1>10, <2>1, <2>2, <2>3 DEF SweepStep
<1>11. ASSUME NEW c \in Calls, Abort(c) PROVE UnfreezeInv'
  BY <1>1, <1>2, <1>11, DoneEffect DEF Abort
<1> QED BY <1>1, <1>3, <1>4, <1>5, <1>6, <1>7, <1>8, <1>9, <1>10, <1>11 DEF Next

\* A case resolved by its only ruling left no money frozen behind it.
THEOREM ResolvedUnfreezesCorrect == Spec => []ResolvedUnfreezes
<1>1. Init => UnfreezeInv
  BY DEF Init, UnfreezeInv, ResolvedUnfreezes, Idle
<1>2. UnfreezeInv => ResolvedUnfreezes
  BY DEF UnfreezeInv
<1> QED BY <1>1, <1>2, TypeInit, TypeStep, UnfreezeStep, PTL DEF Spec

-----------------------------------------------------------------------------
(* Closed cases.                                                           *)

\* Of a closed case, the calls that could still write the status are those
\* that were in flight when it closed.
LateInv ==
  status \in Terminal => \A c \in Calls : call[c].at \in Reopening => c \in late

\* No claim, question or upload of a closed case gets as far as its write.
LEMMA LateStep == TypeOK /\ LocalsInv /\ LateInv /\ [Next]_vars => LateInv'
<1> SUFFICES ASSUME TypeOK, LocalsInv, LateInv, [Next]_vars PROVE LateInv'
  OBVIOUS
<1>1. call \in [Calls -> Local] /\ RowsOK /\ Desk \subseteq Calls /\ Sweeper \subseteq Calls
  BY DEF TypeOK, RowsOK, Calls
<1>2. \A c \in Calls : Sound(c, call[c])
  BY DEF LocalsInv
<1> USE Ranks, NoneIsNull, CallsDisjoint
<1> USE DEF LateInv, Becomes, BecomesUnchecked, Fault,
        case, job, hist, At, Place, NonTerminal, Terminal, Financial, Decision, Money,
        Reopening, Ruling, Sweeping, Touches, Keeps, Sound, RowsOK
<1>3. CASE UNCHANGED vars
  BY <1>3 DEF vars
<1>4. CASE PayoutResult
  BY <1>1, <1>4 DEF PayoutResult
<1>5. ASSUME NEW c \in Desk, AdminStep(c) PROVE LateInv'
  <2>1. ASSUME NEW a \in Admin, AssignRead(c, a) PROVE LateInv'
    BY <1>1, <1>2, <2>1, StartEffects DEF AssignRead
  <2>2. ASSUME NEW a \in Admin, AskRead(c, a) PROVE LateInv'
    BY <1>1, <1>2, <2>2, StartEffects DEF AskRead
  <2>3. ASSUME NEW a \in Admin, NEW k \in Decision, DecideRead(c, a, k)
        PROVE  LateInv'
    BY <1>1, <1>2, <2>3, StartEffects DEF DecideRead
  <2>4. CASE AssignWrite(c)
    BY <1>1, <1>2, <2>4, DoneEffect DEF AssignWrite
  <2>5. CASE AssignConflict(c)
    BY <1>1, <1>2, <2>5, DoneEffect DEF AssignConflict
  <2>6. CASE AskWrite(c)
    BY <1>1, <1>2, <2>6, DoneEffect DEF AskWrite
  <2> QED BY <1>5, <2>1, <2>2, <2>3, <2>4, <2>5, <2>6 DEF AdminStep
<1>6. ASSUME NEW c \in Desk, RulingStep(c) PROVE LateInv'
  <2>1. CASE DecideValidate(c)
    BY <1>1, <1>2, <2>1, DoneEffect, GotoEffect DEF DecideValidate
  <2>2. CASE DecideRecord(c)
    BY <1>1, <1>2, <2>2, GotoEffect DEF DecideRecord, Branch
  <2>3. CASE PayProvider(c)
    BY <1>1, <1>2, <2>3, DoneEffect, GotoEffect DEF PayProvider
  <2>4. CASE RefundClient(c)
    BY <1>1, <1>2, <2>4, GotoEffect DEF RefundClient
  <2>5. CASE Resolve(c)
    BY <1>1, <1>2, <2>5, GotoEffect DEF Resolve
  <2>6. CASE CloseJob(c)
    BY <1>1, <1>2, <2>6, DoneEffect DEF CloseJob
  <2> QED BY <1>6, <2>1, <2>2, <2>3, <2>4, <2>5, <2>6 DEF RulingStep
<1>7. ASSUME NEW c \in Calls, Escalate(c) PROVE LateInv'
  BY <1>1, <1>2, <1>7, DoneEffect DEF Escalate
<1>8. ASSUME NEW c \in Desk, SubmitRead(c) PROVE LateInv'
  BY <1>1, <1>2, <1>8, StartEffects DEF SubmitRead
<1>9. ASSUME NEW c \in Desk, AdvanceAfterEvidence(c) PROVE LateInv'
  BY <1>1, <1>2, <1>9, DoneEffect DEF AdvanceAfterEvidence
<1>10. ASSUME NEW w \in Sweeper, SweepStep(w) PROVE LateInv'
  <2>1. CASE SweepFind(w)
    BY <1>1, <1>2, <2>1, StartEffects DEF SweepFind
  <2>2. CASE SystemEscalateRead(w)
    BY <1>1, <1>2, <2>2, DoneEffect, GotoEffect DEF SystemEscalateRead
  <2>3. CASE SystemEscalateRecord(w)
    BY <1>1, <1>2, <2>3, GotoEffect DEF SystemEscalateRecord
  <2> QED BY <1>1, <1>7, <1>10, <2>1, <2>2, <2>3 DEF SweepStep
<1>11. ASSUME NEW c \in Calls, Abort(c) PROVE LateInv'
  BY <1>1, <1>2, <1>11, DoneEffect DEF Abort
<1> QED BY <1>1, <1>3, <1>4, <1>5, <1>6, <1>7, <1>8, <1>9, <1>10, <1>11 DEF Next

\* Only a claim, a question or an upload of an old request brings a closed case back.
LEMMA ReopenStep ==
  ASSUME TypeOK, LocalsInv, LateInv, [Next]_vars
  PROVE  status \in Terminal /\ status' \notin Terminal => \E c \in late : call[c]' # call[c]
<1> SUFFICES ASSUME Next, status \in Terminal, status' \notin Terminal
             PROVE  \E c \in late : call[c]' # call[c]
  BY DEF vars, case
<1>1. call \in [Calls -> Local] /\ Desk \subseteq Calls /\ Sweeper \subseteq Calls
  BY DEF TypeOK, Calls
<1>2. ASSUME NEW c \in Calls, call[c].at \in Reopening, Done(c)
      PROVE  \E d \in late : call[d]' # call[d]
  <2>1. call'[c].at = "idle"
    BY <1>1, <1>2, DoneEffect
  <2>2. c \in late
    BY <1>2 DEF LateInv
  <2> QED BY <1>2, <2>1, <2>2 DEF Reopening
<1> USE <1>1 DEF case, At, Becomes, BecomesUnchecked, Terminal
<1>3. ASSUME NEW c \in Desk, AdminStep(c) PROVE \E d \in late : call[d]' # call[d]
  <2>1. \/ AssignWrite(c) \/ AskWrite(c)
    BY <1>3 DEF AdminStep, AssignRead, AskRead, DecideRead, AssignConflict
  <2>2. call[c].at \in Reopening /\ Done(c)
    BY <2>1 DEF AssignWrite, AskWrite, Reopening
  <2> QED BY <1>2, <2>2
<1>4. ASSUME NEW c \in Desk, AdvanceAfterEvidence(c)
      PROVE  \E d \in late : call[d]' # call[d]
  <2>1. call[c].at \in Reopening /\ Done(c)
    BY <1>4 DEF AdvanceAfterEvidence, Reopening
  <2> QED BY <1>2, <2>1
<1>5. ~ PayoutResult
  BY DEF PayoutResult
<1>6. \A c \in Calls : ~ RulingStep(c) /\ ~ Escalate(c) /\ ~ SubmitRead(c)
                       /\ ~ SweepStep(c) /\ ~ Abort(c)
  BY DEF RulingStep, DecideValidate, DecideRecord, PayProvider, RefundClient,
     Resolve, CloseJob, Escalate, SubmitRead, SweepStep, SweepFind,
     SystemEscalateRead, SystemEscalateRecord, Abort
<1> QED BY <1>3, <1>4, <1>5, <1>6 DEF Next

\* A closed case comes back only by a call that was in flight when it closed.
THEOREM ClosedToNewCallsCorrect == Spec => ClosedToNewCalls
<1>1. Init => LateInv
  BY DEF Init, LateInv, Terminal
<1>2. TypeOK /\ LocalsInv /\ LateInv /\ [Next]_vars
        => [(status \in Terminal /\ status' \notin Terminal)
              => \E c \in late : call[c]' # call[c]]_vars
  BY ReopenStep
<1> QED BY <1>1, <1>2, TypeInit, TypeStep, LateStep, PTL DEF Spec, ClosedToNewCalls

-----------------------------------------------------------------------------
(* Finance repairs.                                                        *)

\* The steps that are finance's.
RepairStep ==
  \/ \E d \in Share : RecordManual(d)
  \/ \E r \in Repair : ApplyRuling(r) \/ RepairRelease(r)

\* Finance writes the money rows only, and only away from 'disputed' and as
\* the recorded ruling says.
LEMMA RepairEffect ==
  ASSUME RepairStep
  PROVE  /\ UNCHANGED <<status, assignee, ledger, ruling, post, completion, call,
                        holders, overridden, reruled, late, faults>>
         /\ money' # money =>
              \/ money' = "paid" /\ ruling = "FULL_RELEASE"
              \/ money' = "refunded" /\ ruling = "REFUND" /\ money = "disputed"
              \/ money = "paid" /\ money' = "payout_pending"
BY DEF RepairStep, RecordManual, ApplyRuling, RepairRelease, CaseUnchanged, case,
   job, hist

\* A step of the composition is one of the case or one of finance's.
LEMMA RepairsSteps ==
  [RepairsNext]_moneyVars =>
    ([Next]_vars /\ UNCHANGED repairs) \/ RepairStep
BY DEF RepairsNext, RepairStep, moneyVars

-----------------------------------------------------------------------------
\* Everything is well-typed with finance at work too.
THEOREM RepairsTypeCorrect == RepairsSpec => [](RepairsTypeOK /\ LocalsInv)
<1>1. RepairsInit => RepairsTypeOK /\ LocalsInv
  BY TypeInit DEF RepairsInit, RepairsTypeOK
<1>2. ASSUME RepairsTypeOK, LocalsInv, [RepairsNext]_moneyVars
      PROVE  RepairsTypeOK' /\ LocalsInv'
  <2>1. CASE [Next]_vars /\ UNCHANGED repairs
    BY <1>2, <2>1, TypeStep DEF RepairsTypeOK, repairs
  <2>2. CASE RepairStep
    <3>1. money' \in Money
      BY <1>2, <2>2, RepairEffect DEF RepairsTypeOK, TypeOK, Money
    <3>2. TypeOK' /\ LocalsInv'
      BY <1>2, <2>2, <3>1, RepairEffect DEF RepairsTypeOK, TypeOK, LocalsInv
    <3>3. /\ paidByHand' \subseteq Share
          /\ applied' \in BOOLEAN /\ releasing' \subseteq Repair
      BY <1>2, <2>2 DEF RepairStep, RepairsTypeOK, RecordManual, ApplyRuling,
         RepairRelease
    <3> QED BY <3>2, <3>3 DEF RepairsTypeOK
  <2> QED BY <1>2, <2>1, <2>2, RepairsSteps
<1> QED BY <1>1, <1>2, PTL DEF RepairsSpec

\* The case lock is none of finance's business.
THEOREM RepairsCaseLock == RepairsSpec => []CaseLock
<1>1. RepairsInit => HolderInv
  <2>1. Init => /\ assignee = None /\ holders = {}
                /\ \A c \in Desk : call[c].at = "idle"
    BY DEF Init, Idle, Calls
  <2> QED BY <2>1, NoneIsNull DEF HolderInv, Ruling, RepairsInit
<1>2. ASSUME RepairsTypeOK, LocalsInv, HolderInv, [RepairsNext]_moneyVars
      PROVE  HolderInv'
  <2>1. CASE [Next]_vars
    BY <1>2, <2>1, HolderStep DEF RepairsTypeOK
  <2>2. CASE RepairStep
    BY <1>2, <2>2, RepairEffect DEF HolderInv
  <2> QED BY <1>2, <2>1, <2>2, RepairsSteps
<1>3. RepairsTypeOK /\ HolderInv => CaseLock
  BY DEF HolderInv, CaseLock, TypeOK, RepairsTypeOK
<1> QED BY <1>1, <1>2, <1>3, RepairsTypeCorrect, PTL DEF RepairsSpec

\* Whatever finance applies is in the ledger already.
THEOREM RepairsAudited == RepairsSpec => []AuditBeforeAction
<1>1. RepairsInit => LedgerInv
  BY DEF RepairsInit, Init, LedgerInv, AuditBeforeAction, Idle
<1>2. ASSUME RepairsTypeOK, LocalsInv, LedgerInv, [RepairsNext]_moneyVars
      PROVE  LedgerInv'
  <2>1. CASE [Next]_vars
    BY <1>2, <2>1, LedgerStep DEF RepairsTypeOK
  <2>2. CASE RepairStep
    <3>1. "FULL_RELEASE" # None /\ "REFUND" # None
      BY NoneIsNull DEF Decision, Financial
    <3> QED BY <1>2, <2>2, <3>1, RepairEffect DEF LedgerInv, AuditBeforeAction
  <2> QED BY <1>2, <2>1, <2>2, RepairsSteps
<1>3. LedgerInv => AuditBeforeAction
  BY DEF LedgerInv
<1> QED BY <1>1, <1>2, <1>3, RepairsTypeCorrect, PTL DEF RepairsSpec

\* Nor does a repair freeze the money of a resolved case again.
THEOREM RepairsUnfreeze == RepairsSpec => []ResolvedUnfreezes
<1>1. RepairsInit => UnfreezeInv
  BY DEF RepairsInit, Init, UnfreezeInv, ResolvedUnfreezes, Idle
<1>2. ASSUME RepairsTypeOK, LocalsInv, UnfreezeInv, [RepairsNext]_moneyVars
      PROVE  UnfreezeInv'
  <2>1. CASE [Next]_vars
    BY <1>2, <2>1, UnfreezeStep DEF RepairsTypeOK
  <2>2. CASE RepairStep
    BY <1>2, <2>2, RepairEffect DEF UnfreezeInv, ResolvedUnfreezes
  <2> QED BY <1>2, <2>1, <2>2, RepairsSteps
<1>3. UnfreezeInv => ResolvedUnfreezes
  BY DEF UnfreezeInv
<1> QED BY <1>1, <1>2, <1>3, RepairsTypeCorrect, PTL DEF RepairsSpec

\* And a closed case is brought back no more easily with finance at work.
THEOREM RepairsClosedToNewCalls == RepairsSpec => ClosedToNewCalls
<1>1. RepairsInit => LateInv
  BY DEF RepairsInit, Init, LateInv, Terminal
<1>2. ASSUME RepairsTypeOK, LocalsInv, LateInv, [RepairsNext]_moneyVars
      PROVE  /\ LateInv'
             /\ [(status \in Terminal /\ status' \notin Terminal)
                  => \E c \in late : call[c]' # call[c]]_vars
  <2>1. CASE [Next]_vars
    BY <1>2, <2>1, LateStep, ReopenStep DEF RepairsTypeOK
  <2>2. CASE RepairStep
    BY <1>2, <2>2, RepairEffect DEF LateInv
  <2> QED BY <1>2, <2>1, <2>2, RepairsSteps
<1> QED BY <1>1, <1>2, RepairsTypeCorrect, PTL DEF RepairsSpec, ClosedToNewCalls

-----------------------------------------------------------------------------
\* Refunded money stays refunded, and a second ruling is not forgotten.
LEMMA RefundIsFinal ==
  ASSUME TypeOK, [Next]_vars
  PROVE  /\ money = "refunded" => money' = "refunded"
         /\ reruled => reruled'
<1> USE DEF case, job, hist
<1>1. CASE UNCHANGED vars
  BY <1>1 DEF vars
<1>2. CASE PayoutResult
  BY <1>2 DEF PayoutResult
<1>3. ASSUME NEW c \in Desk, AdminStep(c)
      PROVE  UNCHANGED <<money, reruled>>
  BY <1>3 DEF AdminStep, AssignRead, AssignWrite, AssignConflict, AskRead, AskWrite,
     DecideRead
<1>4. ASSUME NEW c \in Desk, RulingStep(c)
      PROVE  /\ money = "refunded" => money' = "refunded"
             /\ reruled => reruled'
  <2>1. CASE DecideRecord(c)
    BY <2>1 DEF DecideRecord, TypeOK
  <2>2. CASE ~ DecideRecord(c)
    <3>1. money = "refunded" => money' = "refunded"
      BY <1>4, <2>2 DEF RulingStep, DecideValidate, PayProvider, RefundClient, Resolve,
         CloseJob
    <3>2. reruled' = reruled
      BY <1>4, <2>2 DEF RulingStep, DecideValidate, PayProvider, RefundClient, Resolve,
         CloseJob
    <3> QED BY <3>1, <3>2
  <2> QED BY <2>1, <2>2
<1>5. ASSUME NEW c \in Calls,
             Escalate(c) \/ SubmitRead(c) \/ AdvanceAfterEvidence(c) \/ SweepStep(c)
               \/ Abort(c)
      PROVE  UNCHANGED <<money, reruled>>
  BY <1>5 DEF Escalate, SubmitRead, AdvanceAfterEvidence, SweepStep, SweepFind,
     SystemEscalateRead, SystemEscalateRecord, Abort
<1>6. Desk \subseteq Calls /\ Sweeper \subseteq Calls
  BY DEF Calls
<1> QED BY <1>1, <1>2, <1>3, <1>4, <1>5, <1>6 DEF Next

\* Money that finance paid out by hand was left to it by the ruling, and never
\* goes out through M-Pesa as well.
THEOREM HandPaidNeverSentCorrect == RepairsSpec => []HandPaidNeverSent
<1>1. RepairsInit => HandPaidNeverSent
  BY DEF RepairsInit, HandPaidNeverSent
<1>2. ASSUME RepairsTypeOK, HandPaidNeverSent, [RepairsNext]_moneyVars
      PROVE  HandPaidNeverSent'
  <2>1. CASE [Next]_vars /\ UNCHANGED repairs
    BY <1>2, <2>1, RefundIsFinal DEF HandPaidNeverSent, RepairsTypeOK, repairs
  <2>2. ASSUME NEW d \in Share, RecordManual(d) PROVE HandPaidNeverSent'
    <3>1. paidByHand' = paidByHand \cup {d} /\ d \in Owed /\ money' = "refunded"
          /\ reruled' = reruled
      BY <2>2 DEF RecordManual, CaseUnchanged
    <3> QED BY <1>2, <3>1 DEF HandPaidNeverSent
  <2>3. ASSUME NEW r \in Repair, ApplyRuling(r) \/ RepairRelease(r)
        PROVE  HandPaidNeverSent'
    <3>1. /\ paidByHand' = paidByHand /\ reruled' = reruled
          /\ money = "refunded" => money' = "refunded"
      BY <2>3 DEF ApplyRuling, RepairRelease, CaseUnchanged
    <3> QED BY <1>2, <3>1 DEF HandPaidNeverSent
  <2> QED BY <1>2, <2>1, <2>2, <2>3, RepairsSteps DEF RepairStep
<1> QED BY <1>1, <1>2, RepairsTypeCorrect, PTL DEF RepairsSpec

-----------------------------------------------------------------------------
(* What the steps do to requests and completions.                          *)

Request == [at : JobPlace, about : Provider \cup Completion \cup {Nobody}]
CompletionRow == [status : RowStatus, by : Provider \cup {Nobody}]

\* A request that is about a person is about a provider, one that is about a
\* completion about one there can be.
Apt(v) ==
  /\ v.at \in {"select", "mark", "insert", "review_gate", "review"}
       => v.about \in Provider
  /\ v.at \in {"approve", "close"} => v.about \in Completion

RequestsInv == \A c \in JobCall : Apt(request[c])

\* One request changes, and no other.
Only(c) ==
  /\ request' \in [JobCall -> Request]
  /\ \A d \in JobCall \ {c} : request'[d] = request[d]

\* A request begins at a place, about something.
LEMMA StartsEffect ==
  ASSUME request \in [JobCall -> Request], NEW c \in JobCall, NEW place \in JobPlace,
         NEW x \in Provider \cup Completion \cup {Nobody}, Starts(c, place, x)
  PROVE  /\ request[c].at = "idle" /\ Only(c)
         /\ request'[c].at = place /\ request'[c].about = x
<1> DEFINE v == [at |-> place, about |-> x]
<1>1. v \in Request
  BY DEF Request
<1>2. request' = [request EXCEPT ![c] = v] /\ request[c].at = "idle"
  BY DEF Starts
<1> HIDE DEF v
<1>3. Only(c) /\ request'[c] = v
  BY <1>1, <1>2 DEF Only
<1> QED BY <1>2, <1>3 DEF v

\* A request goes on to its next place.
LEMMA MovesEffect ==
  ASSUME request \in [JobCall -> Request], NEW c \in JobCall, NEW place \in JobPlace,
         NEW from \in JobPlace, Moves(c, from, place)
  PROVE  /\ request[c].at = from /\ Only(c)
         /\ request'[c].at = place /\ request'[c].about = request[c].about
<1> DEFINE v == [at |-> place, about |-> request[c].about]
<1>1. request[c] \in Request
  OBVIOUS
<1>2. v \in Request /\ [request[c] EXCEPT !.at = place] = v
  BY <1>1 DEF Request
<1>3. request' = [request EXCEPT ![c] = [request[c] EXCEPT !.at = place]]
  BY DEF Moves
<1>4. request' = [request EXCEPT ![c] = v] /\ v \in Request
  BY <1>2, <1>3
<1> HIDE DEF v
<1>5. Only(c) /\ request'[c] = v
  BY <1>4 DEF Only
<1>6. request[c].at = from
  BY DEF Moves
<1> QED BY <1>5, <1>6 DEF v

\* A request that rests is about nobody.
LEMMA RestEffect ==
  ASSUME request \in [JobCall -> Request], NEW c \in JobCall,
         request' = [request EXCEPT ![c] = Resting]
  PROVE  Only(c) /\ request'[c].at = "idle"
<1>1. Resting \in Request
  BY DEF Resting, Request, JobPlace
<1>2. Only(c) /\ request'[c] = Resting
  BY <1>1 DEF Only
<1> QED BY <1>2 DEF Resting

\* A request ends.
LEMMA EndsEffect ==
  ASSUME request \in [JobCall -> Request], NEW c \in JobCall, NEW from \in JobPlace,
         Ends(c, from)
  PROVE  request[c].at = from /\ Only(c) /\ request'[c].at = "idle"
BY RestEffect DEF Ends

\* One completion changes, and no other.
OnlyRow(k) ==
  /\ rows' \in [Completion -> CompletionRow]
  /\ \A j \in Completion \ {k} : rows'[j] = rows[j]

\* A row is filled.
LEMMA InsertEffect ==
  ASSUME rows \in [Completion -> CompletionRow], NEW k \in Completion,
         NEW p \in Provider,
         rows' = [rows EXCEPT ![k] = [status |-> "pending_approval", by |-> p]]
  PROVE  OnlyRow(k) /\ rows'[k].status = "pending_approval" /\ rows'[k].by = p
<1> DEFINE v == [status |-> "pending_approval", by |-> p]
<1>1. v \in CompletionRow
  BY DEF CompletionRow, RowStatus
<1> HIDE DEF v
<1>2. OnlyRow(k) /\ rows'[k] = v
  BY <1>1 DEF OnlyRow, v
<1> QED BY <1>2 DEF v

\* A completion is approved.
LEMMA ApproveEffect ==
  ASSUME rows \in [Completion -> CompletionRow], NEW k \in Completion,
         rows' = [rows EXCEPT ![k] = [@ EXCEPT !.status = "approved"]]
  PROVE  OnlyRow(k) /\ rows'[k].status = "approved" /\ rows'[k].by = rows[k].by
<1> DEFINE v == [status |-> "approved", by |-> rows[k].by]
<1>1. rows[k] \in CompletionRow
  OBVIOUS
<1>2. v \in CompletionRow /\ [rows[k] EXCEPT !.status = "approved"] = v
  BY <1>1 DEF CompletionRow, RowStatus
<1>3. rows' = [rows EXCEPT ![k] = v]
  BY <1>2
<1> HIDE DEF v
<1>4. OnlyRow(k) /\ rows'[k] = v
  BY <1>2, <1>3 DEF OnlyRow
<1> QED BY <1>4 DEF v

\* All rows of one status get another.
LEMMA BecomeEffect ==
  ASSUME rows \in [Completion -> CompletionRow], NEW s \in RowStatus,
         NEW t \in RowStatus, RowsBecome(s, t)
  PROVE  /\ rows' \in [Completion -> CompletionRow]
         /\ \A k \in Completion :
              /\ rows'[k].by = rows[k].by
              /\ rows[k].status = s => rows'[k].status = t
              /\ rows[k].status # s => rows'[k].status = rows[k].status
<1>1. ASSUME NEW k \in Completion
      PROVE  /\ [rows[k] EXCEPT !.status = t] \in CompletionRow
             /\ [rows[k] EXCEPT !.status = t].by = rows[k].by
             /\ [rows[k] EXCEPT !.status = t].status = t
  <2>1. rows[k] \in CompletionRow
    OBVIOUS
  <2>2. [rows[k] EXCEPT !.status = t] = [status |-> t, by |-> rows[k].by]
    BY <2>1 DEF CompletionRow
  <2> QED BY <2>1, <2>2 DEF CompletionRow
<1>2. rows' = [k \in Completion |-> IF rows[k].status = s
                 THEN [rows[k] EXCEPT !.status = t] ELSE rows[k]]
  BY DEF RowsBecome
<1>3. ASSUME NEW k \in Completion
      PROVE  /\ rows'[k] \in CompletionRow
             /\ rows'[k].by = rows[k].by
             /\ rows[k].status = s => rows'[k].status = t
             /\ rows[k].status # s => rows'[k].status = rows[k].status
  <2>1. CASE rows[k].status = s
    BY <1>1, <1>2, <2>1
  <2>2. CASE rows[k].status # s
    BY <1>2, <2>2
  <2> QED BY <2>1, <2>2
<1> QED BY <1>2, <1>3

\* Any request may be cut short.
LEMMA AbortEffect ==
  ASSUME request \in [JobCall -> Request], NEW c \in JobCall, JobAbort(c)
  PROVE  request[c].at # "idle" /\ Only(c) /\ request'[c].at = "idle"
BY RestEffect DEF JobAbort

\* The places there are.
LEMMA Places ==
  {"idle", "select", "mark", "insert", "approve", "close", "archive", "cancel",
   "freeze", "freeze_post", "freeze_rows", "open_case", "review_gate", "review"}
    \subseteq JobPlace
BY DEF JobPlace

\* The statuses there are.
LEMMA RowStatuses ==
  {"none", "pending_approval", "approved", "disputed"} \subseteq RowStatus
BY DEF RowStatus

-----------------------------------------------------------------------------
(* Type correctness.                                                       *)

\* The columns that are neither requests nor completions.
ColumnsOK ==
  /\ jobStatus \in JobStatus
  /\ provider \in Provider \cup {Nobody}
  /\ archivedBy \in {"nobody", "author", "moderation"}
  /\ funds \in Funds
  /\ dispute \in {"none", "open", "resolved"}
  /\ payee \in Provider \cup {Nobody}
  /\ review \in Provider \cup {Nobody}
  /\ approvals \in BOOLEAN
  /\ crossings \subseteq Crossing
  /\ rows \in [Completion -> CompletionRow]

JobKeeps(c) == Only(c) /\ Apt(request'[c])

\* A new job has its types.
LEMMA JobTypeInit == JobInit => JobTypeOK /\ RequestsInv
<1> SUFFICES ASSUME JobInit PROVE JobTypeOK /\ RequestsInv
  OBVIOUS
<1>1. Resting \in Request /\ [status |-> "none", by |-> Nobody] \in CompletionRow
  BY DEF Resting, Request, JobPlace, CompletionRow, RowStatus
<1>2. request \in [JobCall -> Request] /\ rows \in [Completion -> CompletionRow]
  BY <1>1 DEF JobInit
<1>3. JobTypeOK
  BY <1>2 DEF JobInit, JobTypeOK, JobStatus, Funds, Request, CompletionRow
<1>4. RequestsInv
  BY DEF JobInit, RequestsInv, Apt, Resting
<1> QED BY <1>3, <1>4

\* Every step keeps the types, and what the requests are about.
LEMMA JobTypeStep ==
  JobTypeOK /\ RequestsInv /\ [JobNext]_jobVars => JobTypeOK' /\ RequestsInv'
<1> SUFFICES ASSUME JobTypeOK, RequestsInv, [JobNext]_jobVars
             PROVE  JobTypeOK' /\ RequestsInv'
  OBVIOUS
<1>1. request \in [JobCall -> Request] /\ rows \in [Completion -> CompletionRow]
      /\ ColumnsOK
  BY DEF JobTypeOK, Request, CompletionRow, ColumnsOK
<1>2. \A c \in JobCall : Apt(request[c])
  BY DEF RequestsInv
<1>3. ASSUME NEW c \in JobCall, JobKeeps(c), ColumnsOK'
      PROVE  JobTypeOK' /\ RequestsInv'
  BY <1>2, <1>3 DEF JobKeeps, Only, JobTypeOK, RequestsInv, ColumnsOK, Request,
     CompletionRow
<1>4. ASSUME UNCHANGED request, ColumnsOK' PROVE JobTypeOK' /\ RequestsInv'
  BY <1>4 DEF JobTypeOK, RequestsInv, ColumnsOK, CompletionRow
<1>5. ASSUME NEW w \in Crossing, NEW cond, Crosses(cond, w)
      PROVE  crossings' \subseteq Crossing
  BY <1>1, <1>5 DEF Crosses, ColumnsOK
<1> USE NobodyIsNull, Places, RowStatuses
<1> USE DEF ColumnsOK, jobRow, JobStatus, Funds, JobKeeps, Apt, Crossing
<1>6. CASE UNCHANGED jobVars
  BY <1>1, <1>4, <1>6 DEF jobVars
<1>7. ASSUME NEW c \in JobCall, JobStep(c) PROVE JobKeeps(c) /\ ColumnsOK'
  <2>1. ASSUME NEW p \in Provider, SelectRead(c, p) PROVE JobKeeps(c) /\ ColumnsOK'
    BY <1>1, <1>2, <2>1, StartsEffect, <1>5 DEF SelectRead
  <2>2. CASE SelectWrite(c)
    BY <1>1, <1>2, <2>2, EndsEffect DEF SelectWrite
  <2>3. CASE MarkRead(c)
    BY <1>1, <1>2, <2>3, StartsEffect DEF MarkRead
  <2>4. CASE MarkCheck(c)
    BY <1>1, <1>2, <2>4, MovesEffect, EndsEffect DEF MarkCheck
  <2>5. CASE MarkInsert(c)
    <3>1. JobKeeps(c) /\ request[c].about \in Provider
      BY <1>1, <1>2, <2>5, EndsEffect DEF MarkInsert
    <3>2. rows' \in [Completion -> CompletionRow]
      BY <1>1, <2>5, <3>1, InsertEffect DEF MarkInsert, OnlyRow, RowsIn
    <3> QED BY <1>1, <2>5, <3>1, <3>2 DEF MarkInsert
  <2>6. CASE ApproveRead(c)
    <3>1. PICK k \in Completion : Starts(c, "approve", k)
      BY <2>6 DEF ApproveRead, RowsIn
    <3>2. JobKeeps(c)
      BY <1>1, <3>1, StartsEffect
    <3>3. crossings' \subseteq Crossing
      BY <1>1, <2>6 DEF ApproveRead
    <3> QED BY <1>1, <2>6, <3>2, <3>3 DEF ApproveRead
  <2>7. CASE ApproveRow(c)
    <3>1. JobKeeps(c) /\ request[c].about \in Completion
      BY <1>1, <1>2, <2>7, MovesEffect DEF ApproveRow
    <3>2. rows' \in [Completion -> CompletionRow]
      BY <1>1, <2>7, <3>1, ApproveEffect DEF ApproveRow, OnlyRow
    <3> QED BY <1>1, <2>7, <3>1, <3>2 DEF ApproveRow
  <2>8. CASE ApproveClose(c)
    BY <1>1, <1>2, <2>8, EndsEffect DEF ApproveClose
  <2>9. CASE ArchiveRead(c)
    BY <1>1, <1>2, <2>9, StartsEffect, <1>5 DEF ArchiveRead
  <2>10. CASE ArchiveWrite(c)
    BY <1>1, <1>2, <2>10, EndsEffect DEF ArchiveWrite
  <2>11. CASE DisputeRead(c)
    BY <1>1, <1>2, <2>11, StartsEffect, <1>5 DEF DisputeRead
  <2>12. CASE FreezePost(c)
    BY <1>1, <1>2, <2>12, MovesEffect DEF FreezePost
  <2>13. CASE FreezeRows(c)
    BY <1>1, <1>2, <2>13, MovesEffect, BecomeEffect DEF FreezeRows
  <2>14. CASE InsertCase(c)
    BY <1>1, <1>2, <2>14, EndsEffect DEF InsertCase
  <2>15. CASE ReviewRead(c)
    BY <1>1, <1>2, <2>15, StartsEffect DEF ReviewRead
  <2>16. CASE ReviewGate(c)
    BY <1>1, <1>2, <2>16, MovesEffect, EndsEffect DEF ReviewGate
  <2>17. CASE ReviewInsert(c)
    BY <1>1, <1>2, <2>17, EndsEffect DEF ReviewInsert
  <2>18. CASE JobAbort(c)
    <3>1. JobKeeps(c)
      BY <1>1, <2>18, AbortEffect
    <3>2. crossings' \subseteq Crossing
      BY <1>5, <2>18 DEF JobAbort
    <3> QED BY <1>1, <2>18, <3>1, <3>2 DEF JobAbort
  <2> QED BY <1>7, <2>1, <2>2, <2>3, <2>4, <2>5, <2>6, <2>7, <2>8, <2>9,
            <2>10, <2>11, <2>12, <2>13, <2>14, <2>15, <2>16, <2>17, <2>18 DEF JobStep
<1>8. CASE RulingEnds
  BY <1>1, <1>4, <1>5, <1>8, BecomeEffect DEF RulingEnds
<1>9. CASE PaymentArrives
  BY <1>1, <1>4, <1>5, <1>9 DEF PaymentArrives
<1>10. CASE ApprovedPayout
  BY <1>1, <1>4, <1>5, <1>10 DEF ApprovedPayout
<1>11. CASE ApprovedPayoutEnds
  BY <1>1, <1>4, <1>5, <1>11 DEF ApprovedPayoutEnds
<1>12. CASE Moderation
  BY <1>1, <1>4, <1>5, <1>12 DEF Moderation
<1> HIDE DEF ColumnsOK, JobKeeps
<1> QED BY <1>3, <1>6, <1>7, <1>8, <1>9, <1>10, <1>11, <1>12 DEF JobNext

\* Every reachable state of a job is well-typed.
THEOREM JobTypeCorrect == JobSpec => []JobTypeOK
BY JobTypeInit, JobTypeStep, PTL DEF JobSpec

-----------------------------------------------------------------------------
(* One provider.                                                           *)

\* Unless two selections overlapped: while somebody is being chosen nobody is
\* chosen yet, and everything that names a provider names the chosen one.
ProviderInv ==
  /\ \A c \in JobCall : request[c].at \in {"approve", "close"}
                          => rows[request[c].about].status # "none"
  /\ "two_choices" \notin crossings =>
       /\ \A c, d \in JobCall :
            request[c].at = "select" /\ request[d].at = "select" => c = d
       /\ \A c \in JobCall :
            /\ request[c].at = "select" => provider = Nobody
            /\ request[c].at \in {"mark", "insert", "review_gate", "review"}
                 => request[c].about = provider
       /\ jobStatus = "open" => provider = Nobody
       /\ \A k \in Completion :
            rows[k].status # "none" => rows[k].by = provider /\ provider # Nobody
       /\ payee \in {Nobody, provider}
       /\ review \in {Nobody, provider}

\* Only a selection that no other one meets writes the provider, and it meets
\* nothing that names one.
LEMMA ProviderStep ==
  JobTypeOK /\ RequestsInv /\ ProviderInv /\ [JobNext]_jobVars => ProviderInv'
<1> SUFFICES ASSUME JobTypeOK, RequestsInv, ProviderInv, [JobNext]_jobVars
             PROVE  ProviderInv'
  OBVIOUS
<1>1. request \in [JobCall -> Request] /\ rows \in [Completion -> CompletionRow]
      /\ provider \in Provider \cup {Nobody}
  BY DEF JobTypeOK, Request, CompletionRow
<1>2. \A c \in JobCall : Apt(request[c])
  BY DEF RequestsInv
<1> USE NobodyIsNull, Places, RowStatuses
<1> USE DEF ProviderInv, jobRow, Only, OnlyRow, RowsIn, InFlight, Crosses, Apt
<1>3. CASE UNCHANGED jobVars
  BY <1>3 DEF jobVars
<1>4. ASSUME NEW c \in JobCall, JobStep(c) PROVE ProviderInv'
  <2>1. ASSUME NEW p \in Provider, SelectRead(c, p) PROVE ProviderInv'
    BY <1>1, <1>2, <2>1, StartsEffect DEF SelectRead
  <2>2. CASE SelectWrite(c)
    BY <1>1, <1>2, <2>2, EndsEffect DEF SelectWrite
  <2>3. CASE MarkRead(c)
    BY <1>1, <1>2, <2>3, StartsEffect DEF MarkRead
  <2>4. CASE MarkCheck(c)
    BY <1>1, <1>2, <2>4, MovesEffect, EndsEffect DEF MarkCheck
  <2>5. CASE MarkInsert(c)
    BY <1>1, <1>2, <2>5, EndsEffect, InsertEffect DEF MarkInsert
  <2>6. CASE ApproveRead(c)
    BY <1>1, <1>2, <2>6, StartsEffect DEF ApproveRead
  <2>7. CASE ApproveRow(c)
    BY <1>1, <1>2, <2>7, MovesEffect, ApproveEffect DEF ApproveRow
  <2>8. CASE ApproveClose(c)
    BY <1>1, <1>2, <2>8, EndsEffect DEF ApproveClose
  <2>9. CASE ArchiveRead(c)
    BY <1>1, <1>2, <2>9, StartsEffect DEF ArchiveRead
  <2>10. CASE ArchiveWrite(c)
    BY <1>1, <1>2, <2>10, EndsEffect DEF ArchiveWrite
  <2>11. CASE DisputeRead(c)
    BY <1>1, <1>2, <2>11, StartsEffect DEF DisputeRead
  <2>12. CASE FreezePost(c)
    BY <1>1, <1>2, <2>12, MovesEffect DEF FreezePost
  <2>13. CASE FreezeRows(c)
    BY <1>1, <1>2, <2>13, MovesEffect, BecomeEffect DEF FreezeRows
  <2>14. CASE InsertCase(c)
    BY <1>1, <1>2, <2>14, EndsEffect DEF InsertCase
  <2>15. CASE ReviewRead(c)
    BY <1>1, <1>2, <2>15, StartsEffect DEF ReviewRead
  <2>16. CASE ReviewGate(c)
    BY <1>1, <1>2, <2>16, MovesEffect, EndsEffect DEF ReviewGate
  <2>17. CASE ReviewInsert(c)
    BY <1>1, <1>2, <2>17, EndsEffect DEF ReviewInsert
  <2>18. CASE JobAbort(c)
    BY <1>1, <1>2, <2>18, AbortEffect DEF JobAbort
  <2> QED BY <1>4, <2>1, <2>2, <2>3, <2>4, <2>5, <2>6, <2>7, <2>8, <2>9,
            <2>10, <2>11, <2>12, <2>13, <2>14, <2>15, <2>16, <2>17, <2>18 DEF JobStep
<1>5. CASE RulingEnds
  BY <1>1, <1>2, <1>5, BecomeEffect DEF RulingEnds
<1>6. CASE PaymentArrives
  BY <1>1, <1>2, <1>6 DEF PaymentArrives
<1>7. CASE ApprovedPayout
  BY <1>1, <1>2, <1>7 DEF ApprovedPayout
<1>8. CASE ApprovedPayoutEnds
  BY <1>1, <1>2, <1>8 DEF ApprovedPayoutEnds
<1>9. CASE Moderation
  BY <1>1, <1>2, <1>9 DEF Moderation
<1> QED BY <1>3, <1>4, <1>5, <1>6, <1>7, <1>8, <1>9 DEF JobNext

\* One provider throughout, for any number of requests.
THEOREM OneProviderThroughoutCorrect == JobSpec => []OneProviderThroughout
<1>1. JobInit => ProviderInv
  BY DEF JobInit, ProviderInv, Resting
<1>2. ProviderInv => OneProviderThroughout
  BY DEF ProviderInv, OneProviderThroughout
<1> QED BY <1>1, <1>2, JobTypeInit, JobTypeStep, ProviderStep, PTL DEF JobSpec

-----------------------------------------------------------------------------
(* Completions, money and disputes.                                        *)

Closed == {"completed", "disputed"}

\* There is one completion, and once it is no longer pending the post says so
\* or the request that changed it is about to say so.
RowsInv ==
  /\ \A j, k \in Completion :
       rows[j].status # "none" /\ rows[k].status # "none" => j = k
  /\ \A k \in Completion :
       /\ rows[k].status = "approved"
            => jobStatus \in Closed \/ \E c \in JobCall : request[c].at = "close"
       /\ rows[k].status = "disputed"
            => jobStatus \in Closed \/ \E c \in JobCall : request[c].at = "freeze_post"
  /\ \A c \in JobCall : request[c].at \in {"mark", "insert"} =>
       /\ \A k \in Completion : rows[k].status \in {"none", "pending_approval"}
       /\ \A d \in JobCall : request[d].at \notin {"approve", "close"}

\* Nothing but a selection and a report of the work goes on before the payment,
\* and the money leaves only a job that is closed.
FundsInv ==
  /\ funds = "none" =>
       /\ \A k \in Completion : rows[k].status = "none"
       /\ \A c \in JobCall :
            request[c].at \notin {"insert", "approve", "close"} \cup Freezing
       /\ ~ approvals
  /\ \A c \in JobCall : request[c].at = "cancel" => funds = "none"
  /\ funds \in {"payout_pending", "released", "disputed", "refunded"} \/ approvals
       => jobStatus \in Closed

\* A freeze is alone with the job, and an open dispute has frozen it.
FreezeInv ==
  /\ \A c, d \in JobCall : request[c].at \in Freezing =>
       /\ request[d].at \notin Committed
       /\ request[d].at \in Freezing => c = d
  /\ dispute = "open" =>
       /\ jobStatus = "disputed"
       /\ \A k \in Completion : rows[k].status # "pending_approval"
       /\ \A c \in JobCall : request[c].at \notin Committed \cup Freezing
  /\ \A c \in JobCall :
       /\ request[c].at \in {"freeze_rows", "open_case"} => jobStatus = "disputed"
       /\ request[c].at \in {"freeze_post", "open_case"}
            => \A k \in Completion : rows[k].status # "pending_approval"

\* Before a provider is chosen there is nothing to pay and nothing to dispute.
PaidInv ==
  provider = Nobody =>
    /\ funds = "none" /\ dispute = "none"
    /\ \A c \in JobCall : request[c].at \notin Freezing

\* Unless a race was gone through, all of that.
JobInv ==
  /\ PaidInv
  /\ crossings = {} => RowsInv /\ FundsInv /\ FreezeInv

\* A request that would disturb this meets the one it disturbs, which is one of
\* the races.
LEMMA JobInvStep ==
  JobTypeOK /\ RequestsInv /\ ProviderInv /\ JobInv /\ [JobNext]_jobVars => JobInv'
<1> SUFFICES ASSUME JobTypeOK, RequestsInv, ProviderInv, JobInv, [JobNext]_jobVars
             PROVE  JobInv'
  OBVIOUS
<1>1. request \in [JobCall -> Request] /\ rows \in [Completion -> CompletionRow]
      /\ provider \in Provider \cup {Nobody}
  BY DEF JobTypeOK, Request, CompletionRow
<1>2. \A c \in JobCall : Apt(request[c])
  BY DEF RequestsInv
<1> USE NobodyIsNull, Places, RowStatuses
<1> USE DEF JobInv, PaidInv, RowsInv, FundsInv, FreezeInv, ProviderInv,
        jobRow, Only, OnlyRow, RowsIn, InFlight, Crosses, Apt, Freezing, Committed,
        Closed, Unsettled
<1>3. CASE UNCHANGED jobVars
  BY <1>3 DEF jobVars
<1>4. ASSUME NEW c \in JobCall, JobStep(c) PROVE JobInv'
  <2>1. ASSUME NEW p \in Provider, SelectRead(c, p) PROVE JobInv'
    BY <1>1, <1>2, <2>1, StartsEffect DEF SelectRead
  <2>2. CASE SelectWrite(c)
    BY <1>1, <1>2, <2>2, EndsEffect DEF SelectWrite
  <2>3. CASE MarkRead(c)
    <3>1. Only(c) /\ request[c].at = "idle" /\ request'[c].at = "mark"
      BY <1>1, <2>3, StartsEffect DEF MarkRead
    <3>2. /\ provider # Nobody /\ jobStatus \notin {"completed", "disputed"}
          /\ UNCHANGED <<jobRow, funds, rows, dispute, payee, review, approvals>>
      BY <2>3 DEF MarkRead
    <3>3. crossings' = {} => /\ crossings = {}
                             /\ ~ InFlight(Freezing, c)
                             /\ ~ InFlight({"approve", "close"}, c)
      BY <2>3 DEF MarkRead
    <3>4. crossings' = {} => \A k \in Completion :
                               rows[k].status \in {"none", "pending_approval"}
      <4>1. \A k \in Completion :
              rows[k].status \in {"none", "pending_approval", "approved", "disputed"}
        BY <1>1 DEF CompletionRow, RowStatus
      <4> QED BY <3>1, <3>2, <3>3, <4>1
    <3>5. crossings' = {} => RowsInv' /\ FundsInv'
      BY <1>1, <3>1, <3>2, <3>3, <3>4
    <3>6. crossings' = {} => FreezeInv'
      BY <1>1, <3>1, <3>2, <3>3
    <3>7. PaidInv'
      BY <1>1, <3>1, <3>2
    <3> QED BY <3>5, <3>6, <3>7 DEF JobInv
  <2>4. CASE MarkCheck(c)
    BY <1>1, <1>2, <2>4, MovesEffect, EndsEffect DEF MarkCheck
  <2>5. CASE MarkInsert(c)
    BY <1>1, <1>2, <2>5, EndsEffect, InsertEffect DEF MarkInsert
  <2>6. CASE ApproveRead(c)
    <3>1. PICK k \in Completion :
            rows[k].status = "pending_approval" /\ Starts(c, "approve", k)
      BY <2>6 DEF ApproveRead
    <3>2. Only(c) /\ request[c].at = "idle" /\ request'[c].at = "approve"
      BY <1>1, <3>1, StartsEffect
    <3>3. UNCHANGED <<jobRow, funds, rows, dispute, payee, review, approvals>>
      BY <2>6 DEF ApproveRead
    <3>4. crossings' = {} => /\ crossings = {}
                             /\ ~ InFlight(Freezing, c)
                             /\ ~ InFlight({"mark", "insert"}, c)
      BY <2>6 DEF ApproveRead
    <3>5. crossings' = {} => RowsInv' /\ FundsInv'
      BY <1>1, <3>1, <3>2, <3>3, <3>4
    <3>6. crossings' = {} => FreezeInv'
      BY <1>1, <3>1, <3>2, <3>3, <3>4
    <3>7. PaidInv'
      BY <1>1, <3>2, <3>3
    <3> QED BY <3>5, <3>6, <3>7 DEF JobInv
  <2>7. CASE ApproveRow(c)
    <3>1. /\ Only(c) /\ request[c].at = "approve" /\ request'[c].at = "close"
          /\ request'[c].about = request[c].about /\ request[c].about \in Completion
      BY <1>1, <1>2, <2>7, MovesEffect DEF ApproveRow
    <3>2. /\ OnlyRow(request[c].about)
          /\ rows'[request[c].about].status = "approved"
      BY <1>1, <2>7, <3>1, ApproveEffect DEF ApproveRow
    <3>3. UNCHANGED <<jobRow, funds, dispute, approvals, crossings>>
      BY <2>7 DEF ApproveRow
    <3>4. rows[request[c].about].status # "none"
      BY <3>1
    <3>5. crossings' = {} => RowsInv'
      BY <1>1, <3>1, <3>2, <3>3, <3>4
    <3>6. crossings' = {} => FundsInv'
      BY <1>1, <3>1, <3>2, <3>3, <3>4
    <3>7. crossings' = {} => FreezeInv'
      BY <1>1, <3>1, <3>2, <3>3
    <3>8. PaidInv'
      BY <1>1, <3>1, <3>3
    <3> QED BY <3>5, <3>6, <3>7, <3>8 DEF JobInv
  <2>8. CASE ApproveClose(c)
    BY <1>1, <1>2, <2>8, EndsEffect DEF ApproveClose
  <2>9. CASE ArchiveRead(c)
    <3>1. /\ Only(c) /\ request[c].at = "idle"
          /\ request'[c].at = IF jobStatus = "assigned" THEN "cancel" ELSE "archive"
      BY <1>1, <2>9, StartsEffect DEF ArchiveRead
    <3>2. /\ dispute # "open" /\ funds \notin {"paid", "payout_pending"}
          /\ UNCHANGED <<jobRow, funds, rows, dispute, payee, review, approvals>>
      BY <2>9 DEF ArchiveRead
    <3>3. crossings' = {} => crossings = {} /\ ~ InFlight(Freezing, c)
      BY <2>9 DEF ArchiveRead
    <3>4. funds \in {"none", "paid", "payout_pending", "released", "disputed", "refunded"}
      BY DEF JobTypeOK, Funds
    <3>5. crossings' = {} => RowsInv' /\ FundsInv'
      BY <1>1, <3>1, <3>2, <3>3, <3>4
    <3>6. crossings' = {} => FreezeInv'
      BY <1>1, <3>1, <3>2, <3>3
    <3>7. PaidInv'
      BY <1>1, <3>1, <3>2
    <3> QED BY <3>5, <3>6, <3>7 DEF JobInv
  <2>10. CASE ArchiveWrite(c)
    BY <1>1, <1>2, <2>10, EndsEffect DEF ArchiveWrite
  <2>11. CASE DisputeRead(c)
    <3>1. Only(c) /\ request[c].at = "idle" /\ request'[c].at = "freeze"
      BY <1>1, <2>11, StartsEffect DEF DisputeRead
    <3>2. /\ dispute # "open" /\ funds # "none"
          /\ provider # Nobody
          /\ UNCHANGED <<jobRow, funds, rows, dispute, payee, review, approvals>>
      BY <2>11 DEF DisputeRead
    <3>3. crossings' = {} => /\ crossings = {}
                             /\ ~ InFlight(Freezing, c) /\ ~ InFlight(Committed, c)
      BY <2>11 DEF DisputeRead
    <3>4. crossings' = {} => RowsInv' /\ FundsInv'
      BY <1>1, <3>1, <3>2, <3>3
    <3>5. crossings' = {} => FreezeInv'
      BY <1>1, <3>1, <3>2, <3>3
    <3>6. PaidInv'
      BY <1>1, <3>1, <3>2
    <3> QED BY <3>4, <3>5, <3>6 DEF JobInv
  <2>12. CASE FreezePost(c)
    <3>1. /\ Only(c)
          /\ \/ request[c].at = "freeze" /\ request'[c].at = "freeze_rows"
             \/ request[c].at = "freeze_post" /\ request'[c].at = "open_case"
      BY <1>1, <2>12, MovesEffect DEF FreezePost
    <3>2. /\ jobStatus' = "disputed" /\ funds' = "disputed"
          /\ UNCHANGED <<provider, rows, dispute, approvals, crossings>>
      BY <2>12 DEF FreezePost
    <3>3. crossings' = {} => RowsInv' /\ FundsInv'
      BY <1>1, <3>1, <3>2
    <3>4. crossings' = {} => FreezeInv'
      BY <1>1, <3>1, <3>2
    <3>5. PaidInv'
      BY <1>1, <3>1, <3>2
    <3> QED BY <3>3, <3>4, <3>5 DEF JobInv
  <2>13. CASE FreezeRows(c)
    BY <1>1, <1>2, <2>13, MovesEffect, BecomeEffect DEF FreezeRows
  <2>14. CASE InsertCase(c)
    BY <1>1, <1>2, <2>14, EndsEffect DEF InsertCase
  <2>15. CASE ReviewRead(c)
    BY <1>1, <1>2, <2>15, StartsEffect DEF ReviewRead
  <2>16. CASE ReviewGate(c)
    BY <1>1, <1>2, <2>16, MovesEffect, EndsEffect DEF ReviewGate
  <2>17. CASE ReviewInsert(c)
    BY <1>1, <1>2, <2>17, EndsEffect DEF ReviewInsert
  <2>18. CASE JobAbort(c)
    <3>1. Only(c) /\ request'[c].at = "idle"
      BY <1>1, <2>18, AbortEffect
    <3>2. UNCHANGED <<jobRow, funds, rows, dispute, payee, review, approvals>>
      BY <2>18 DEF JobAbort
    <3>3. crossings' = {} => /\ crossings = {}
                             /\ request[c].at \notin {"close", "freeze_post"}
      BY <2>18 DEF JobAbort
    <3>4. crossings' = {} => RowsInv' /\ FundsInv'
      BY <1>1, <3>1, <3>2, <3>3
    <3>5. crossings' = {} => FreezeInv'
      BY <1>1, <3>1, <3>2, <3>3
    <3>6. PaidInv'
      BY <1>1, <3>1, <3>2
    <3> QED BY <3>4, <3>5, <3>6 DEF JobInv
  <2> QED BY <1>4, <2>1, <2>2, <2>3, <2>4, <2>5, <2>6, <2>7, <2>8, <2>9,
            <2>10, <2>11, <2>12, <2>13, <2>14, <2>15, <2>16, <2>17, <2>18 DEF JobStep
<1>5. CASE RulingEnds
  <2>1. /\ dispute = "open" /\ dispute' = "resolved" /\ jobStatus' = "completed"
        /\ UNCHANGED <<provider, approvals, request, crossings>>
    BY <1>5 DEF RulingEnds
  <2>2. funds' # "none"
    BY <1>5 DEF RulingEnds
  <2>3. \A k \in Completion :
          /\ rows[k].status = "none" => rows'[k].status = "none"
          /\ rows[k].status # "none" => rows'[k].status # "none"
    BY <1>1, <1>5, BecomeEffect DEF RulingEnds
  <2>4. crossings' = {} => RowsInv' /\ FundsInv' /\ FreezeInv'
    BY <1>1, <2>1, <2>2, <2>3
  <2>5. PaidInv'
    BY <2>1
  <2> QED BY <2>4, <2>5 DEF JobInv
<1>6. CASE PaymentArrives
  BY <1>1, <1>2, <1>6 DEF PaymentArrives
<1>7. CASE ApprovedPayout
  BY <1>1, <1>2, <1>7 DEF ApprovedPayout
<1>8. CASE ApprovedPayoutEnds
  BY <1>1, <1>2, <1>8 DEF ApprovedPayoutEnds
<1>9. CASE Moderation
  BY <1>1, <1>2, <1>9 DEF Moderation
<1> QED BY <1>3, <1>4, <1>5, <1>6, <1>7, <1>8, <1>9 DEF JobNext

\* The work is approved once, for any number of requests and completions.
THEOREM ApprovedOnceCorrect == JobSpec => []ApprovedOnce
<1>1. JobInit => ProviderInv /\ JobInv
  BY DEF JobInit, ProviderInv, JobInv, PaidInv, RowsInv, FundsInv, FreezeInv, Resting,
     Freezing, Committed
<1>2. JobInv => ApprovedOnce
  <2> SUFFICES ASSUME JobInv, crossings = {}
               PROVE  Cardinality(RowsIn("approved")) <= 1
    BY DEF ApprovedOnce
  <2>1. CASE RowsIn("approved") = {}
    BY <2>1, FS_EmptySet
  <2>2. ASSUME NEW k \in RowsIn("approved") PROVE Cardinality(RowsIn("approved")) <= 1
    <3>1. RowsIn("approved") = {k}
      BY <2>2 DEF RowsIn, JobInv, RowsInv
    <3>2. Cardinality({k}) = 1
      BY FS_Singleton
    <3> QED BY <3>1, <3>2
  <2> QED BY <2>1, <2>2
<1> QED BY <1>1, <1>2, JobTypeInit, JobTypeStep, ProviderStep, JobInvStep, PTL DEF JobSpec

\* An open dispute holds the job, for any number of requests and completions.
THEOREM DisputeHoldsJobCorrect == JobSpec => []DisputeHoldsJob
<1>1. JobInit => ProviderInv /\ JobInv
  BY DEF JobInit, ProviderInv, JobInv, PaidInv, RowsInv, FundsInv, FreezeInv, Resting,
     Freezing, Committed
<1>2. JobInv => DisputeHoldsJob
  BY DEF JobInv, FreezeInv, DisputeHoldsJob, RowsIn
<1> QED BY <1>1, <1>2, JobTypeInit, JobTypeStep, ProviderStep, JobInvStep, PTL DEF JobSpec
=============================================================================
