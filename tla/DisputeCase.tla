---------------------------- MODULE DisputeCase -----------------------------
(***************************************************************************)
(* One dispute from the moment createDispute inserted it: its assignment,  *)
(* evidence requests and answers (disputes.service.ts), rulings            *)
(* (decisions.service.ts) and the SLA sweep (sla.service.ts), all of       *)
(* backend/src/admin/disputes.                                             *)
(*                                                                         *)
(* Every handler reads the row, checks it, and writes it one or more       *)
(* awaits later, almost always by id alone: the steps of a call are        *)
(* separate actions and any other call may run between them.  Thread       *)
(* entries, evidence rows, first_response_at and notifications are left    *)
(* out, and so are 'under_review' and 'merged', which no code here writes. *)
(* REFUND stands for FULL_REFUND and PARTIAL_SPLIT, whose steps are one.   *)
(***************************************************************************)
EXTENDS Naturals, FiniteSets

CONSTANTS
  Admin, Senior, Super,  \* the desk's admins, those of senior rank, the supers
  Desk,                  \* requests in flight, of admins and participants
  Sweeper,               \* SLA sweeps, one per process
  None,                  \* SQL NULL
  MaxFaults              \* bound on crashes and on failed unchecked writes

Calls == Desk \cup Sweeper

ASSUME Ranks == Super \subseteq Senior /\ Senior \subseteq Admin
ASSUME CallsDisjoint == Desk \cap Sweeper = {}
ASSUME FaultBound == MaxFaults \in Nat

VARIABLES
  status,     \* disputes.status
  assignee,   \* disputes.assigned_admin_id
  ledger,     \* the kinds of decision in dispute_decisions
  ruling,     \* the latest financial decision on record
  money,      \* status of the disputed transaction, its escrow row following
  post,       \* status of the post
  completion, \* status of the completion the dispute froze
  call,       \* each call: where it is and what it holds in locals
  holders,    \* history: ordinary admins told that the case is theirs
  overridden, \* history: a super_admin took a claimed case
  reruled,    \* history: a second financial decision was recorded
  late,       \* history: calls that could write the status when it closed
  faults      \* how many faults have happened

case == <<status, assignee>>
job  == <<post, completion>>
hist == <<holders, overridden>>
vars == <<case, ledger, ruling, money, job, call, hist, reruled, late,
          faults>>

NonTerminal == {"open", "reviewing", "awaiting_evidence",
                "awaiting_admin_review"}
Terminal    == {"resolved", "escalated"}
Sweepable   == {"open", "reviewing"}
Financial   == {"FULL_RELEASE", "REFUND"}
Decision    == Financial \cup {"ESCALATE"}
Money       == {"disputed", "paid", "payout_pending", "released", "refunded"}

\* Steps after which a call writes the case's status.
Reopening == {"claim", "ask", "advance"}
Ruling    == {"validate", "record", "escalate", "pay", "refund", "resolve",
              "close_job"}
Sweeping  == {"found", "sla_record", "escalate"}
Place     == {"idle"} \cup Reopening \cup Ruling \cup Sweeping

ASSUME NoneIsNull == None \notin Admin \cup NonTerminal \cup Decision

Local == [at : Place, admin : Admin \cup {None},
          seen : NonTerminal \cup {None}, kind : Decision \cup {None}]

TypeOK ==
  /\ status \in NonTerminal \cup Terminal
  /\ assignee \in Admin \cup {None}
  /\ ledger \subseteq Decision
  /\ ruling \in Financial \cup {None}
  /\ money \in Money
  /\ post \in {"disputed", "completed"}
  /\ completion \in {"disputed", "approved"}
  /\ call \in [Calls -> Local]
  /\ holders \subseteq Admin
  /\ overridden \in BOOLEAN
  /\ reruled \in BOOLEAN
  /\ late \subseteq Calls
  /\ faults \in Nat

Idle == [at |-> "idle", admin |-> None, seen |-> None, kind |-> None]

\* createDispute has frozen the escrow, the post and a pending completion.
Init ==
  /\ status = "open" /\ assignee = None
  /\ ledger = {} /\ ruling = None
  /\ money = "disputed" /\ post = "disputed" /\ completion = "disputed"
  /\ call = [c \in Calls |-> Idle]
  /\ holders = {} /\ overridden = FALSE /\ reruled = FALSE /\ late = {}
  /\ faults = 0

-----------------------------------------------------------------------------
(* Helpers.                                                                *)

At(c, place) == call[c].at = place

Enter(c, place, a, s, k) ==
  /\ At(c, "idle")
  /\ call' = [call EXCEPT ![c] =
                [at |-> place, admin |-> a, seen |-> s, kind |-> k]]
Goto(c, place) == call' = [call EXCEPT ![c] = [@ EXCEPT !.at = place]]
Done(c)        == call' = [call EXCEPT ![c] = Idle]

Fault == faults < MaxFaults /\ faults' = faults + 1

Becomes(s) ==
  /\ status' = s
  /\ late' = IF s \in Terminal THEN {c \in Calls : call[c].at \in Reopening}
             ELSE {}

\* An update by id whose error nobody looks at.
BecomesUnchecked(s) ==
  \/ Becomes(s) /\ UNCHANGED faults
  \/ UNCHANGED <<status, late>> /\ Fault

\* "Only they or a super_admin": who may act on the case as it stands.
Owns(a) == assignee = a \/ a \in Super
-----------------------------------------------------------------------------
(* assign: claim the case, as a conditional update unless a super_admin.   *)

AssignRead(c, a) ==
  /\ status \notin Terminal
  /\ assignee = None \/ Owns(a)
  /\ Enter(c, "claim", a, status, None)
  /\ UNCHANGED <<case, ledger, ruling, money, job, hist, reruled, late,
                 faults>>

\* Mutant: the update is no longer conditional.
AssignWriteBlind(c) ==
  LET a == call[c].admin IN
  /\ At(c, "claim")
  /\ assignee' = a
  /\ Becomes(IF call[c].seen = "open" THEN "reviewing" ELSE call[c].seen)
  /\ holders' = holders \cup ({a} \ Super)
  /\ overridden' = (overridden \/ (a \in Super /\ assignee \notin {None, a}))
  /\ Done(c)
  /\ UNCHANGED <<ledger, ruling, money, job, reruled, faults>>

\* The status written back is the one read, 'open' having become 'reviewing'.
AssignWrite(c) ==
  LET a == call[c].admin IN
  /\ At(c, "claim")
  /\ a \in Super \/ assignee = None
  /\ assignee' = a
  /\ Becomes(IF call[c].seen = "open" THEN "reviewing" ELSE call[c].seen)
  /\ holders' = holders \cup ({a} \ Super)
  /\ overridden' = (overridden \/ (a \in Super /\ assignee \notin {None, a}))
  /\ Done(c)
  /\ UNCHANGED <<ledger, ruling, money, job, reruled, faults>>

\* "Case was just claimed by another admin": also an owner claiming again.
AssignConflict(c) ==
  /\ At(c, "claim")
  /\ call[c].admin \notin Super /\ assignee # None
  /\ Done(c)
  /\ UNCHANGED <<case, ledger, ruling, money, job, hist, reruled, late,
                 faults>>

-----------------------------------------------------------------------------
(* requestEvidence and submitEvidence.  awaiting_client_evidence and       *)
(* awaiting_provider_evidence are one status here: nothing tells them      *)
(* apart, and either party's upload hands the case back.                   *)

\* Mutant: a closed case may be asked about too.
AskReadClosed(c, a) ==
  /\ assignee = None \/ Owns(a)
  /\ Enter(c, "ask", a, None, None)
  /\ UNCHANGED <<case, ledger, ruling, money, job, hist, reruled, late,
                 faults>>

AskRead(c, a) ==
  /\ status \notin Terminal
  /\ assignee = None \/ Owns(a)
  /\ Enter(c, "ask", a, None, None)
  /\ UNCHANGED <<case, ledger, ruling, money, job, hist, reruled, late,
                 faults>>

AskWrite(c) ==
  /\ At(c, "ask")
  /\ BecomesUnchecked("awaiting_evidence")
  /\ Done(c)
  /\ UNCHANGED <<assignee, ledger, ruling, money, job, hist, reruled>>

SubmitRead(c) ==
  /\ status \notin Terminal
  /\ Enter(c, "advance", None, status, None)
  /\ UNCHANGED <<case, ledger, ruling, money, job, hist, reruled, late,
                 faults>>

\* advanceAfterEvidence, on the status read before the upload was recorded.
AdvanceAfterEvidence(c) ==
  /\ At(c, "advance")
  /\ \/ /\ call[c].seen = "awaiting_evidence"
        /\ BecomesUnchecked("awaiting_admin_review")
     \/ call[c].seen # "awaiting_evidence" /\ UNCHANGED <<status, late, faults>>
  /\ Done(c)
  /\ UNCHANGED <<assignee, ledger, ruling, money, job, hist,
                 reruled>>

-----------------------------------------------------------------------------
(* decide: authorise on the row, validate on the transaction, record the   *)
(* decision, then execute it.                                              *)

MayDecide(a, k) ==
  /\ status \notin Terminal
  /\ assignee = a \/ a \in Super
  /\ k \in Financial => a \in Senior

\* Mutant: an unassigned case may be ruled on by anyone.
DecideReadUnclaimed(c, a, k) ==
  /\ status \notin Terminal
  /\ assignee = None \/ Owns(a)
  /\ k \in Financial => a \in Senior
  /\ Enter(c, "validate", a, None, k)
  /\ UNCHANGED <<case, ledger, ruling, money, job, hist, reruled, late,
                 faults>>

DecideRead(c, a, k) ==
  /\ MayDecide(a, k)
  /\ Enter(c, "validate", a, None, k)
  /\ UNCHANGED <<case, ledger, ruling, money, job, hist, reruled, late,
                 faults>>

DecideValidate(c) ==
  /\ At(c, "validate")
  /\ IF call[c].kind \in Financial /\ money \in {"released", "refunded"}
     THEN Done(c) ELSE Goto(c, "record")
  /\ UNCHANGED <<case, ledger, ruling, money, job, hist, reruled, late,
                 faults>>

Branch(k) == CASE k = "ESCALATE"     -> "escalate"
               [] k = "FULL_RELEASE" -> "pay"
               [] OTHER              -> "refund"

DecideRecord(c) ==
  LET k == call[c].kind IN
  /\ At(c, "record")
  /\ ledger' = ledger \cup {k}
  /\ IF k \in Financial
     THEN ruling' = k /\ reruled' = (reruled \/ ruling # None)
     ELSE UNCHANGED <<ruling, reruled>>
  /\ Goto(c, Branch(k))
  /\ UNCHANGED <<case, money, job, hist, late, faults>>

\* Mutant: a failed payout is swallowed and the case resolved all the same.
PaySwallowed(c) ==
  /\ At(c, "pay")
  /\ \/ money \in {"paid", "disputed"} /\ money' = "payout_pending"
     \/ UNCHANGED money
  /\ Goto(c, "resolve")
  /\ UNCHANGED <<case, ledger, ruling, job, hist, reruled, late, faults>>

\* releasePayout from 'disputed': the row becomes payout_pending, or it throws
\* and the dispute stays as it is (PayoutSettlement has its steps).
PayProvider(c) ==
  /\ At(c, "pay")
  /\ \/ money \in {"paid", "disputed"} /\ money' = "payout_pending"
        /\ Goto(c, "resolve")
     \/ UNCHANGED money /\ Done(c)
  /\ UNCHANGED <<case, ledger, ruling, job, hist, reruled, late, faults>>

RefundClient(c) ==
  /\ At(c, "refund")
  /\ \/ money' = "refunded" /\ UNCHANGED faults
     \/ UNCHANGED money /\ Fault
  /\ Goto(c, "resolve")
  /\ UNCHANGED <<case, ledger, ruling, job, hist, reruled, late>>

Resolve(c) ==
  /\ At(c, "resolve")
  /\ BecomesUnchecked("resolved")
  /\ Goto(c, "close_job")
  /\ UNCHANGED <<assignee, ledger, ruling, money, job, hist,
                 reruled>>

\* The post, and for a release the completion the dispute had frozen.
CloseJob(c) ==
  /\ At(c, "close_job")
  /\ \/ /\ post' = "completed"
        /\ IF call[c].kind = "FULL_RELEASE"
           THEN completion' = "approved" ELSE UNCHANGED completion
        /\ UNCHANGED faults
     \/ /\ post' \in {post, "completed"}
        /\ UNCHANGED completion
        /\ Fault
  /\ Done(c)
  /\ UNCHANGED <<case, ledger, ruling, money, hist, reruled, late>>

-----------------------------------------------------------------------------
(* The SLA sweep: list the old cases, and escalate each on a fresh read.   *)

SweepFind(w) ==
  /\ status \in Sweepable
  /\ Enter(w, "found", None, None, "ESCALATE")
  /\ UNCHANGED <<case, ledger, ruling, money, job, hist, reruled, late,
                 faults>>

SystemEscalateRead(w) ==
  /\ At(w, "found")
  /\ IF status \in Terminal THEN Done(w) ELSE Goto(w, "sla_record")
  /\ UNCHANGED <<case, ledger, ruling, money, job, hist, reruled, late,
                 faults>>

\* The insert's error is not looked at.
SystemEscalateRecord(w) ==
  /\ At(w, "sla_record")
  /\ \/ ledger' = ledger \cup {"ESCALATE"}
        /\ UNCHANGED faults
     \/ UNCHANGED ledger /\ Fault
  /\ Goto(w, "escalate")
  /\ UNCHANGED <<case, ruling, money, job, hist, reruled, late>>

\* Mutant: only a case nobody has claimed is escalated.
EscalateUnclaimed(c) ==
  /\ At(c, "escalate")
  /\ IF c \in Sweeper /\ assignee # None
     THEN UNCHANGED <<status, late, faults>>
     ELSE BecomesUnchecked("escalated")
  /\ Done(c)
  /\ UNCHANGED <<assignee, ledger, ruling, money, job, hist,
                 reruled>>

\* applyEscalation and the sweep's write: by id, whatever happened meanwhile.
Escalate(c) ==
  /\ At(c, "escalate")
  /\ BecomesUnchecked("escalated")
  /\ Done(c)
  /\ UNCHANGED <<assignee, ledger, ruling, money, job, hist,
                 reruled>>

-----------------------------------------------------------------------------
(* The world around the desk.                                              *)

\* Daraja's answer: paid out, or returned to 'paid' for another attempt.
PayoutResult ==
  /\ money = "payout_pending"
  /\ money' \in {"released", "paid"}
  /\ UNCHANGED <<case, ledger, ruling, job, call, hist, reruled, late,
                 faults>>

\* A crash or a failed await ends the call where it is.
Abort(c) ==
  /\ ~ At(c, "idle")
  /\ Done(c)
  /\ Fault
  /\ UNCHANGED <<case, ledger, ruling, money, job, hist, reruled, late>>

AdminStep(c) ==
  \/ \E a \in Admin : AssignRead(c, a) \/ AskRead(c, a)
  \/ \E a \in Admin, k \in Decision : DecideRead(c, a, k)
  \/ AssignWrite(c) \/ AssignConflict(c) \/ AskWrite(c)

RulingStep(c) ==
  \/ DecideValidate(c) \/ DecideRecord(c) \/ PayProvider(c) \/ RefundClient(c)
  \/ Resolve(c) \/ CloseJob(c)

SweepStep(w) ==
  \/ SweepFind(w) \/ SystemEscalateRead(w) \/ SystemEscalateRecord(w)
  \/ Escalate(w)

Next ==
  \/ PayoutResult
  \/ \E c \in Desk : \/ AdminStep(c) \/ RulingStep(c) \/ Escalate(c)
                     \/ SubmitRead(c) \/ AdvanceAfterEvidence(c)
  \/ \E w \in Sweeper : SweepStep(w)
  \/ \E c \in Calls : Abort(c)

Spec == Init /\ [][Next]_vars

\* The sweep is run every 30 minutes, by a PeriodicTask that skips a tick only
\* while one is in flight.
SweepRuns == \A w \in Sweeper : WF_vars(SweepStep(w))

-----------------------------------------------------------------------------
(* Properties.                                                             *)

\* The case lock (assign's conditional update): unless a super_admin took a
\* claimed case over, at most one ordinary admin was ever told that the case
\* is theirs; and an ordinary admin executing a decision was told so, however
\* claims, rulings and reassignments interleave.
CaseLock ==
  /\ ~ overridden => \A a, b \in holders : a = b
  /\ \A c \in Desk :
       call[c].at \in Ruling /\ call[c].admin \notin Super
         => call[c].admin \in holders

\* "Audit before action": money, post, completion and verdict never show a
\* ruling the immutable ledger does not hold, whatever crashed or raced.
AuditBeforeAction ==
  /\ money \in {"payout_pending", "released", "paid"}
       => "FULL_RELEASE" \in ledger
  /\ money = "refunded" => "REFUND" \in ledger
  /\ status = "resolved" \/ post = "completed" => ledger \cap Financial # {}
  /\ completion = "approved" => "FULL_RELEASE" \in ledger
  /\ status = "escalated" /\ faults = 0 => "ESCALATE" \in ledger

\* The provider is never told "payout approved" while receiving nothing: a
\* case resolved by its only financial ruling no longer has its money frozen,
\* unless the ruling was a refund whose unchecked update was lost.
ResolvedUnfreezes ==
  status = "resolved" /\ ~ reruled /\ money = "disputed"
    => faults > 0 /\ ruling # "FULL_RELEASE"

\* "This dispute is closed": a closed case is brought back only by a call that
\* was already in flight when it closed; none that started later can.
ClosedToNewCalls ==
  [][ (status \in Terminal /\ status' \notin Terminal)
        => \E c \in late : call[c]' # call[c] ]_vars

\* "Nothing rots silently in the queue": a case of three days still open or
\* reviewing leaves these statuses, crashes and lost writes notwithstanding.
SlaEscalates == status \in Sweepable ~> status \notin Sweepable

-----------------------------------------------------------------------------
(* What the code promises and does not keep.                               *)

\* migration 117, admin_apply_recorded_ruling: an escalated dispute "is not
\* closed - decide it in the Disputes centre", and decide answers the parties
\* "escalated to a senior admin for further review".  decide refuses every
\* decision on it: 'escalated' is one of its terminal statuses.
EscalatedCanBeDecided ==
  status = "escalated" /\ money = "disputed"
    => \E a \in Admin, k \in Financial : MayDecide(a, k)
=============================================================================
