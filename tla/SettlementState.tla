--------------------------- MODULE SettlementState --------------------------
(***************************************************************************)
(* backend/src/jobs/settlement-state.ts: the one settlement state that the *)
(* mobile app and the dashboard show for a job, and the advisory archive   *)
(* permission, as functions of the two money rows, the dispute and the     *)
(* latest decision.  Labels, amounts and timestamps are left out.          *)
(***************************************************************************)

TxColumn     == {"null", "pending", "failed", "paid", "payout_pending",
                 "released", "disputed", "refunded"}
EscrowColumn == {"null", "locked", "payout_pending", "released", "disputed",
                 "refunded"}
DecisionType == {"null", "FULL_RELEASE", "FULL_REFUND", "PARTIAL_SPLIT",
                 "ESCALATE"}

SettlementInput ==
  [tx : TxColumn, escrow : EscrowColumn, failed : BOOLEAN, dispute : BOOLEAN,
   decision : DecisionType]

Gone == {"released", "refunded"}

Disputed(i) == IF i.tx \in Gone \/ i.escrow \in Gone THEN "inconsistent"
               ELSE "disputed"

\* A locked escrow row: money held, or to be confirmed.
Locked(i) ==
  CASE i.tx = "paid"    -> IF i.failed THEN "settlement_failed" ELSE "in_escrow"
    [] i.tx = "pending" -> "awaiting_payment"
    [] OTHER            -> "inconsistent"

NoEscrow(i) ==
  CASE i.tx = "pending"            -> "awaiting_payment"
    [] i.tx \in {"failed", "null"} -> "no_payment"
    [] OTHER                       -> "inconsistent"

\* The two rows agree on where the money is.
Agreed(i) ==
  CASE i.tx = "released" -> "released"
    [] i.tx = "refunded" -> IF i.decision = "PARTIAL_SPLIT"
                            THEN "split_settled" ELSE "refunded"
    [] i.tx = "payout_pending" -> "payout_processing"
    [] OTHER -> "inconsistent"

CoreState(i) ==
  IF i.dispute THEN Disputed(i)
  ELSE IF i.escrow = "locked" THEN Locked(i)
  ELSE IF i.escrow = "null" THEN NoEscrow(i)
  ELSE IF i.tx = i.escrow THEN Agreed(i)
  ELSE "inconsistent"

\* META[state].terminal and .attention.
IsTerminal(state) ==
  state \in {"no_payment", "released", "refunded", "split_settled"}
NeedsAttention(state) ==
  state \in {"settlement_failed", "split_settled", "inconsistent"}

HeldTx     == {"paid", "payout_pending"}
HeldEscrow == {"locked", "payout_pending"}

\* Mutant: the holding mirror is not looked at.
CanArchiveByTx(i) == ~ i.dispute /\ i.tx \notin HeldTx

CanArchive(i) ==
  ~ i.dispute /\ i.tx \notin HeldTx /\ i.escrow \notin HeldEscrow
=============================================================================
