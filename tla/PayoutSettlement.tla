-------------------------- MODULE PayoutSettlement --------------------------
(***************************************************************************)
(* Where a funded job's money goes: releasePayout and the B2C settlement   *)
(* engine of backend/src/mpesa/mpesa.service.ts, with the two admin paths  *)
(* that write the same rows (createDispute's freeze and the financial      *)
(* ruling of backend/src/admin/disputes).                                  *)
(*                                                                         *)
(* The module follows one post and its one funded transaction.  Every      *)
(* handler is split where the code awaits the database or Daraja, because  *)
(* no row is locked between a handler's read and its write: any other      *)
(* handler, of this process or of another, may run there.                  *)
(*                                                                         *)
(* A call identity stands for one request, callback or event dispatch in   *)
(* flight; it returns to "idle" and may then stand for the next one, so    *)
(* the size of a set of identities bounds concurrency, not history.        *)
(***************************************************************************)
EXTENDS Naturals

CONSTANTS
  Release,    \* releasePayout calls: job.approved dispatch or replay, admin
  Settle,     \* settleByTransaction calls: B2C callback, status result, reconcile
  Freeze,     \* createDispute calls
  Rule,       \* decide() calls issuing a financial ruling
  Case,       \* rows createDispute may insert into disputes
  Transfer,   \* B2C payouts Daraja may accept, named by ConversationID
  None,       \* SQL NULL
  MaxFaults   \* bound on crashes, failed awaits and failed unchecked writes

Calls == Release \cup Settle \cup Freeze \cup Rule

ASSUME CallsDisjoint ==
  /\ Release \cap (Settle \cup Freeze \cup Rule) = {}
  /\ Settle \cap (Freeze \cup Rule) = {}
  /\ Freeze \cap Rule = {}
ASSUME NoneIsNull == None \notin Transfer \cup Case
ASSUME FaultBound == MaxFaults \in Nat

VARIABLES
  tx,         \* the transactions row: status and conversation_id
  escrow,     \* status of the escrow row bound to tx
  cases,      \* status of each disputes row
  b2c,        \* what Daraja did with each payout it was asked for
  pc,         \* where each call is between two awaits
  conv,       \* the ConversationID a call holds in a local
  docket,     \* the case a ruling is about
  refundOwed, \* history: a ruling handed the money back to the client
  announced,  \* history: how many escrow.released events were emitted
  windows,    \* history: the race windows the run has gone through
  faults      \* how many faults have happened

rows  == <<tx, escrow, cases>>
hist  == <<refundOwed, announced>>
vars  == <<tx, escrow, cases, b2c, pc, conv, docket, hist, windows, faults>>

TxStatus     == {"paid", "payout_pending", "released", "disputed", "refunded"}
EscrowStatus == {"locked", "payout_pending", "released", "disputed", "refunded"}
CaseStatus   == {"none", "open", "resolved"}
B2cStatus    == {"unused", "accepted", "completed", "failed"}

PayoutPc  == {"read", "send", "record", "release_escrow"}
SettlePc  == {"apply", "announce", "unlock", "repair"}
FreezePc  == {"freeze", "freeze_tx", "freeze_escrow", "insert"}
RulingPc  == {"refund_tx", "refund_escrow", "resolve"}
PcValue   == {"idle"} \cup PayoutPc \cup SettlePc \cup FreezePc \cup RulingPc

\* A call is critical from its deciding read of tx to its write of tx.
Critical == {"send", "record", "apply", "freeze", "freeze_tx", "refund_tx"}

(* The windows through which money can go wrong:                           *)
(*   overlap          two calls were critical at the same time             *)
(*   unrecorded       Daraja accepted a payout, the call died before the   *)
(*                    row said so (crash, failed write, lost HTTP answer)  *)
(*   frozen_in_flight a dispute froze a transaction in payout_pending      *)
(*   ruled_in_flight  a refund was ruled on a payout_pending transaction   *)
Window == {"overlap", "unrecorded", "frozen_in_flight", "ruled_in_flight"}

TypeOK ==
  /\ tx \in [status : TxStatus, conv : Transfer \cup {None}]
  /\ escrow \in EscrowStatus
  /\ cases \in [Case -> CaseStatus]
  /\ b2c \in [Transfer -> B2cStatus]
  /\ pc \in [Calls -> PcValue]
  /\ conv \in [Calls -> Transfer \cup {None}]
  /\ docket \in [Rule -> Case \cup {None}]
  /\ refundOwed \in BOOLEAN
  /\ announced \in Nat
  /\ windows \in SUBSET Window
  /\ faults \in Nat

\* The payment has been confirmed and its escrow row is bound to it.
Init ==
  /\ tx = [status |-> "paid", conv |-> None]
  /\ escrow = "locked"
  /\ cases = [k \in Case |-> "none"]
  /\ b2c = [t \in Transfer |-> "unused"]
  /\ pc = [c \in Calls |-> "idle"]
  /\ conv = [c \in Calls |-> None]
  /\ docket = [r \in Rule |-> None]
  /\ refundOwed = FALSE
  /\ announced = 0
  /\ windows = {}
  /\ faults = 0

-----------------------------------------------------------------------------
(* Helpers.                                                                *)

Goto(c, from, to) == pc[c] = from /\ pc' = [pc EXCEPT ![c] = to]

Fault == faults < MaxFaults /\ faults' = faults + 1

\* An update whose error the caller only logs, or does not look at.
TxBecomes(s) ==
  \/ tx' = [tx EXCEPT !.status = s] /\ UNCHANGED faults
  \/ UNCHANGED tx /\ Fault
EscrowBecomes(s) ==
  \/ escrow' = s /\ UNCHANGED faults
  \/ UNCHANGED escrow /\ Fault

When(cond, w) == IF cond THEN {w} ELSE {}

\* Call c makes its deciding read, going through the windows given, if any.
Reads(c, opened) ==
  windows' = windows \cup opened
               \cup When(\E d \in Calls \ {c} : pc[d] \in Critical, "overlap")

-----------------------------------------------------------------------------
(* releasePayout.  The approve flow pays a 'paid' transaction, a ruling    *)
(* also a 'disputed' one.  The row is written only after Daraja answered.  *)

\* Mutant: a retry also takes a payout that is already in progress.
AllowedInProgress(c) ==
  IF c \in Rule THEN {"paid", "disputed"} ELSE {"paid", "payout_pending"}

Allowed(c) == IF c \in Rule THEN {"paid", "disputed"} ELSE {"paid"}
Entry(c)   == IF c \in Rule THEN "read" ELSE "idle"

ReleaseRead(c) ==
  /\ Goto(c, Entry(c), "send")
  /\ tx.status \in Allowed(c)
  /\ Reads(c, {})
  /\ UNCHANGED <<rows, b2c, conv, docket, hist, faults>>

\* "Payout already released", "already in progress", "no releasable payment".
ReleaseRefused(r) ==
  /\ Goto(r, "read", "idle")
  /\ tx.status \notin Allowed(r)
  /\ UNCHANGED <<rows, b2c, conv, docket, hist, windows, faults>>

\* daraja.b2cPayout: accepted, or refused before any money moved.
ReleaseSend(c) ==
  \/ \E t \in Transfer :
       /\ b2c[t] = "unused"
       /\ Goto(c, "send", "record")
       /\ b2c' = [b2c EXCEPT ![t] = "accepted"]
       /\ conv' = [conv EXCEPT ![c] = t]
       /\ UNCHANGED <<rows, docket, hist, windows, faults>>
  \/ /\ Goto(c, "send", "idle")
     /\ UNCHANGED <<rows, b2c, conv, docket, hist, windows, faults>>

\* Mutant: the ConversationID is not persisted.
ReleaseRecordNoId(c) ==
  /\ Goto(c, "record", "release_escrow")
  /\ tx' = [status |-> "payout_pending", conv |-> None]
  /\ UNCHANGED <<escrow, cases, b2c, conv, docket, hist, windows, faults>>

ReleaseRecord(c) ==
  /\ Goto(c, "record", "release_escrow")
  /\ tx' = [status |-> "payout_pending", conv |-> conv[c]]
  /\ UNCHANGED <<escrow, cases, b2c, conv, docket, hist, windows, faults>>

ReleaseEscrow(c) ==
  /\ Goto(c, "release_escrow", IF c \in Rule THEN "resolve" ELSE "idle")
  /\ EscrowBecomes("payout_pending")
  /\ UNCHANGED <<tx, cases, b2c, conv, docket, hist, windows>>

-----------------------------------------------------------------------------
(* Daraja finishes a payout it accepted.  Its answer can be delivered      *)
(* never, late, twice, or before the row knows the ConversationID:         *)
(* SettleRead needs only that the outcome exists and that the row is found.*)

DarajaFinish(t) ==
  /\ b2c[t] = "accepted"
  /\ \E o \in {"completed", "failed"} : b2c' = [b2c EXCEPT ![t] = o]
  /\ UNCHANGED <<rows, pc, conv, docket, hist, windows, faults>>

(* settleByTransaction, reached from the B2C callback and from the status  *)
(* query's result, both found by conversation_id, and from reconcile.  The *)
(* status it acts on is the one its caller read.                           *)

\* Mutant: a failed payout's result is dropped.
SettleReadSuccess(s, t) ==
  /\ Goto(s, "idle", "apply")
  /\ b2c[t] = "completed"
  /\ tx.conv = t
  /\ tx.status = "payout_pending"
  /\ conv' = [conv EXCEPT ![s] = t]
  /\ Reads(s, {})
  /\ UNCHANGED <<rows, b2c, docket, hist, faults>>

SettleRead(s, t) ==
  /\ Goto(s, "idle", "apply")
  /\ b2c[t] \in {"completed", "failed"}
  /\ tx.conv = t
  /\ tx.status = "payout_pending"
  /\ conv' = [conv EXCEPT ![s] = t]
  /\ Reads(s, {})
  /\ UNCHANGED <<rows, b2c, docket, hist, faults>>

\* Mutant: any result releases.
SettleApplyAnyCode(s) ==
  /\ Goto(s, "apply", "announce")
  /\ tx' = [tx EXCEPT !.status = "released"]
  /\ UNCHANGED <<escrow, cases, b2c, conv, docket, hist, windows, faults>>

SettleApply(s) ==
  /\ \/ /\ Goto(s, "apply", "announce")
        /\ b2c[conv[s]] = "completed"
        /\ tx' = [tx EXCEPT !.status = "released"]
     \/ /\ Goto(s, "apply", "unlock")
        /\ b2c[conv[s]] = "failed"
        /\ tx' = [status |-> "paid", conv |-> None]
  /\ UNCHANGED <<escrow, cases, b2c, conv, docket, hist, windows, faults>>

\* escrow follows, and escrow.released tells both parties they were paid.
SettleAnnounce(s) ==
  /\ Goto(s, "announce", "idle")
  /\ EscrowBecomes("released")
  /\ announced' = announced + 1
  /\ UNCHANGED <<tx, cases, b2c, conv, docket, refundOwed, windows>>

SettleUnlock(s) ==
  /\ Goto(s, "unlock", "idle")
  /\ EscrowBecomes("locked")
  /\ UNCHANGED <<tx, cases, b2c, conv, docket, hist, windows>>

\* Mutant: reconcile repairs the escrow of a payout still in flight.
RepairReadEarly(s) ==
  /\ Goto(s, "idle", "repair")
  /\ tx.status \in {"payout_pending", "released"}
  /\ UNCHANGED <<rows, b2c, conv, docket, hist, windows, faults>>

\* A released transaction whose escrow row lags (split-brain): repair it,
\* without announcing again.
RepairRead(s) ==
  /\ Goto(s, "idle", "repair")
  /\ tx.status = "released"
  /\ UNCHANGED <<rows, b2c, conv, docket, hist, windows, faults>>

\* Mutant: the repair tells both parties again.
RepairAnnounces(s) ==
  /\ Goto(s, "repair", "idle")
  /\ EscrowBecomes("released")
  /\ announced' = announced + 1
  /\ UNCHANGED <<tx, cases, b2c, conv, docket, refundOwed, windows>>

\* Mutant: the repair concludes that nothing is to be done.
RepairSkips(s) ==
  /\ Goto(s, "repair", "idle")
  /\ UNCHANGED <<rows, b2c, conv, docket, hist, windows, faults>>

Repair(s) ==
  /\ Goto(s, "repair", "idle")
  /\ EscrowBecomes("released")
  /\ UNCHANGED <<tx, cases, b2c, conv, docket, hist, windows>>

-----------------------------------------------------------------------------
(* createDispute: one open case per post, money not yet settled; then      *)
(* freezeForDispute's updates, which Promise.all issues in no order.       *)

\* Mutant: a dispute may be raised on money that already left.
FreezeReadSettled(f) ==
  /\ Goto(f, "idle", "freeze")
  /\ \A k \in Case : cases[k] # "open"
  /\ \E k \in Case : cases[k] = "none"
  /\ Reads(f, When(tx.status = "payout_pending", "frozen_in_flight"))
  /\ UNCHANGED <<rows, b2c, conv, docket, hist, faults>>

FreezeRead(f) ==
  /\ Goto(f, "idle", "freeze")
  /\ \A k \in Case : cases[k] # "open"
  /\ \E k \in Case : cases[k] = "none"
  /\ tx.status \in {"paid", "payout_pending", "disputed"}
  /\ Reads(f, When(tx.status = "payout_pending", "frozen_in_flight"))
  /\ UNCHANGED <<rows, b2c, conv, docket, hist, faults>>

FreezeTx(f) ==
  /\ \/ Goto(f, "freeze", "freeze_escrow")
     \/ Goto(f, "freeze_tx", "insert")
  /\ TxBecomes("disputed")
  /\ UNCHANGED <<escrow, cases, b2c, conv, docket, hist, windows>>

FreezeEscrow(f) ==
  /\ \/ Goto(f, "freeze", "freeze_tx")
     \/ Goto(f, "freeze_escrow", "insert")
  /\ EscrowBecomes("disputed")
  /\ UNCHANGED <<tx, cases, b2c, conv, docket, hist, windows>>

OpenCase(f) ==
  /\ Goto(f, "insert", "idle")
  /\ \E k \in Case : cases[k] = "none" /\ cases' = [cases EXCEPT ![k] = "open"]
  /\ UNCHANGED <<tx, escrow, b2c, conv, docket, hist, windows, faults>>

-----------------------------------------------------------------------------
(* decide: a financial ruling on an open case.  FULL_RELEASE goes through  *)
(* releasePayout; FULL_REFUND and PARTIAL_SPLIT only mark both rows        *)
(* refunded, and finance pays by hand.                                     *)

RuleRelease(r) ==
  /\ Goto(r, "idle", "read")
  /\ tx.status \notin {"released", "refunded"}
  /\ \E k \in Case : cases[k] = "open" /\ docket' = [docket EXCEPT ![r] = k]
  /\ UNCHANGED <<rows, b2c, conv, hist, windows, faults>>

\* Mutant: the transaction's status is not validated.
RuleRefundUnchecked(r) ==
  /\ Goto(r, "idle", "refund_tx")
  /\ \E k \in Case : cases[k] = "open" /\ docket' = [docket EXCEPT ![r] = k]
  /\ Reads(r, When(tx.status = "payout_pending", "ruled_in_flight"))
  /\ UNCHANGED <<rows, b2c, conv, hist, faults>>

RuleRefund(r) ==
  /\ Goto(r, "idle", "refund_tx")
  /\ tx.status \notin {"released", "refunded"}
  /\ \E k \in Case : cases[k] = "open" /\ docket' = [docket EXCEPT ![r] = k]
  /\ Reads(r, When(tx.status = "payout_pending", "ruled_in_flight"))
  /\ UNCHANGED <<rows, b2c, conv, hist, faults>>

RefundTx(r) ==
  /\ Goto(r, "refund_tx", "refund_escrow")
  /\ TxBecomes("refunded")
  /\ refundOwed' = (refundOwed \/ tx'.status = "refunded")
  /\ UNCHANGED <<escrow, cases, b2c, conv, docket, announced, windows>>

RefundEscrow(r) ==
  /\ Goto(r, "refund_escrow", "resolve")
  /\ EscrowBecomes("refunded")
  /\ UNCHANGED <<tx, cases, b2c, conv, docket, hist, windows>>

RuleResolve(r) ==
  /\ Goto(r, "resolve", "idle")
  /\ \/ cases' = [cases EXCEPT ![docket[r]] = "resolved"] /\ UNCHANGED faults
     \/ UNCHANGED cases /\ Fault
  /\ UNCHANGED <<tx, escrow, b2c, conv, docket, hist, windows>>

-----------------------------------------------------------------------------
\* A crash or a failed await ends the call where it is, its writes kept.
Abort(c) ==
  /\ pc[c] # "idle"
  /\ pc' = [pc EXCEPT ![c] = "idle"]
  /\ Fault
  /\ windows' = windows \cup When(pc[c] = "record", "unrecorded")
  /\ UNCHANGED <<rows, b2c, conv, docket, hist>>

Payout(c) ==
  ReleaseRead(c) \/ ReleaseSend(c) \/ ReleaseRecord(c) \/ ReleaseEscrow(c)
SettleStep(s) ==
  SettleApply(s) \/ SettleAnnounce(s) \/ SettleUnlock(s) \/ Repair(s)
FreezeStep(f) ==
  FreezeRead(f) \/ FreezeTx(f) \/ FreezeEscrow(f) \/ OpenCase(f)
RuleStep(r) ==
  \/ RuleRelease(r) \/ ReleaseRefused(r)
  \/ RuleRefund(r) \/ RefundTx(r) \/ RefundEscrow(r) \/ RuleResolve(r)

Next ==
  \/ \E c \in Release \cup Rule : Payout(c)
  \/ \E t \in Transfer : DarajaFinish(t)
  \/ \E s \in Settle, t \in Transfer : SettleRead(s, t)
  \/ \E s \in Settle : RepairRead(s) \/ SettleStep(s)
  \/ \E f \in Freeze : FreezeStep(f)
  \/ \E r \in Rule : RuleStep(r)
  \/ \E c \in Calls : Abort(c)

Spec == Init /\ [][Next]_vars

\* Daraja ends what it accepted; a call in flight runs on; and an operator
\* keeps reconciling (callback, or status query and its result).
Fairness ==
  /\ \A t \in Transfer : WF_vars(DarajaFinish(t))
  /\ \A s \in Settle :
       /\ WF_vars(SettleStep(s))
       /\ WF_vars(RepairRead(s) \/ \E t \in Transfer : SettleRead(s, t))
  /\ \A c \in Release \cup Rule : WF_vars(ReleaseRecord(c) \/ ReleaseEscrow(c))

FairSpec == Spec /\ Fairness
-----------------------------------------------------------------------------
(* Properties.                                                             *)

Live(t) == b2c[t] \in {"accepted", "completed"}

\* At most one payout of the job is on its way or delivered.
PaidOutOnce == \A t, u \in Transfer : Live(t) /\ Live(u) => t = u

\* The client is not refunded money that went, or is going, to the provider.
NoRefundAfterPayout == refundOwed => \A t \in Transfer : ~ Live(t)

\* The list of windows is complete: as long as the run has gone through none
\* of them, whatever the order of callbacks, duplicates, refusals, reverts,
\* retries, repairs and rulings, the job's money leaves escrow at most once.
MoneyLeavesOnce == windows = {} => PaidOutOnce /\ NoRefundAfterPayout

\* settleByTransaction marks a transaction released only on Daraja's word: in
\* every interleaving, races included, some payout was really delivered.
ReleasedMeansDelivered ==
  tx.status = "released" => \E t \in Transfer : b2c[t] = "completed"

\* A payout in flight always carries the ConversationID of a payout Daraja
\* accepted, so reconcilePayout can always ask about it ("Manual investigation
\* required" is never reached), whatever raced.
PendingCanBeQueried ==
  tx.status = "payout_pending" => tx.conv # None /\ b2c[tx.conv] # "unused"

\* Unless two handlers overlapped, both parties hear "you were paid" once,
\* also across duplicate callbacks, frozen payouts and repairs.
AnnouncedOnce == "overlap" \notin windows => announced <= 1

\* Unless two handlers overlapped, released and refunded are final.
SettledStaysSettled ==
  [][ "overlap" \notin windows' /\ tx.status \in {"released", "refunded"}
        => tx' = tx ]_vars

\* The escrow row, which the client, the provider and the archive gate read,
\* never claims a release the transaction does not: unless two handlers
\* overlapped, no late or repeated escrow write runs ahead of its transaction.
EscrowFollowsTx ==
  "overlap" \notin windows /\ escrow = "released" => tx.status = "released"

\* An operator who keeps reconciling sees every payout in flight settle: the
\* status query finds the row by the ConversationID the row itself holds.
PendingSettles == tx.status = "payout_pending" ~> tx.status # "payout_pending"

\* ... and every split-brain heal: a released transaction's lagging escrow
\* row is brought to released, crash or failed escrow write notwithstanding.
SplitBrainHeals ==
  tx.status = "released" /\ escrow # "released"
    ~> escrow = "released" \/ tx.status # "released"

-----------------------------------------------------------------------------
(* What comments of the code promise and the code does not keep.           *)

\* mpesa.service.ts:500-503: releasePayout selects from releasable states only,
\* so a second call is "treated as a conflict ... rather than being paid out
\* twice".  Two calls that both read 'paid' are both sent, and delivered.
NotPaidOutTwice ==
  \A t, u \in Transfer : b2c[t] = "completed" /\ b2c[u] = "completed" => t = u

\* decisions.service.ts:25-26: a ruling is validated so that there is "no
\* double-payout, no refund after release".  A dispute raised on a payout in
\* flight hides it from the validation, with every handler running alone and
\* nothing failing.
RulingRespectsPayout ==
  windows \cap {"overlap", "unrecorded"} = {} =>
    /\ NotPaidOutTwice
    /\ refundOwed => \A t \in Transfer : b2c[t] # "completed"
=============================================================================
