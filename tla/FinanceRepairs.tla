--------------------------- MODULE FinanceRepairs ---------------------------
(***************************************************************************)
(* What finance does about a dispute's money after the ruling, composed    *)
(* with the dispute itself: the two repairs of FinanceRepairsService       *)
(* (backend/src/admin/finance) and of the database functions of migration  *)
(* 117 they call, which lock the rows they read and so are one step each.  *)
(* The M-Pesa release an applied ruling needs is a step of its own.        *)
(***************************************************************************)
EXTENDS DisputeCase

CONSTANTS
  Repair,  \* applyRecordedRuling calls
  Owed     \* the shares a REFUND owes: PARTIAL_SPLIT owes both, FULL_REFUND one

Share == {"provider_payout", "client_refund"}

ASSUME OwedShares == Owed \subseteq Share

VARIABLES
  paidByHand, \* shares with a completed manual leg in settlements
  applied,    \* admin_finance_actions holds a 'ruling_applied' row
  releasing   \* the applyRecordedRuling calls about to call releasePayout

repairs  == <<paidByHand, applied, releasing>>
moneyVars == <<vars, repairs>>

RepairsTypeOK ==
  /\ TypeOK
  /\ paidByHand \subseteq Share
  /\ applied \in BOOLEAN
  /\ releasing \subseteq Repair

RepairsInit ==
  /\ Init
  /\ paidByHand = {} /\ applied = FALSE /\ releasing = {}

CaseUnchanged ==
  UNCHANGED <<case, ledger, ruling, job, call, hist, reruled, late, faults>>
-----------------------------------------------------------------------------
\* Mutant: the ruling on record is not consulted.
RecordManualUnruled(d) ==
  /\ money \in {"refunded", "released"} /\ ruling # None
  /\ d \notin paidByHand
  /\ paidByHand' = paidByHand \cup {d}
  /\ UNCHANGED <<money, applied, releasing>> /\ CaseUnchanged

\* admin_record_manual_settlement: one live leg per payment and direction.
RecordManual(d) ==
  /\ money = "refunded"
  /\ ruling = "REFUND" /\ d \in Owed
  /\ d \notin paidByHand
  /\ paidByHand' = paidByHand \cup {d}
  /\ UNCHANGED <<money, applied, releasing>> /\ CaseUnchanged

\* admin_apply_recorded_ruling on money a resolved case left frozen.
ApplyRuling(r) ==
  /\ r \notin releasing
  /\ status = "resolved" /\ ruling # None
  /\ \/ /\ money = "disputed" /\ ruling = "FULL_RELEASE"
        /\ money' = "paid" /\ releasing' = releasing \cup {r}
     \/ /\ money = "disputed" /\ ruling = "REFUND"
        /\ money' = "refunded" /\ UNCHANGED releasing
     \/ /\ money = "paid" /\ ruling = "FULL_RELEASE" /\ applied
        /\ UNCHANGED money /\ releasing' = releasing \cup {r}
  /\ applied' = TRUE
  /\ UNCHANGED paidByHand /\ CaseUnchanged

\* releasePayout, from 'paid' only; a refusal is reported and can be retried.
RepairRelease(r) ==
  /\ r \in releasing
  /\ releasing' = releasing \ {r}
  /\ \/ money = "paid" /\ money' = "payout_pending"
     \/ UNCHANGED money
  /\ UNCHANGED <<paidByHand, applied>> /\ CaseUnchanged

RepairsNext ==
  \/ Next /\ UNCHANGED repairs
  \/ \E d \in Share : RecordManual(d)
  \/ \E r \in Repair : ApplyRuling(r) \/ RepairRelease(r)

RepairsSpec == RepairsInit /\ [][RepairsNext]_moneyVars
-----------------------------------------------------------------------------
\* Unless a second financial decision was recorded, finance hands out a share
\* only of money the ruling left to it, and such money never also goes out
\* through M-Pesa, however repairs, retries, lost writes and rulings in
\* flight interleave.
HandPaidNeverSent ==
  ~ reruled /\ paidByHand # {} => money = "refunded" /\ paidByHand \subseteq Owed
=============================================================================
