---------------------------- MODULE EscrowPromise ---------------------------
(***************************************************************************)
(* What the marketplace promises about a funded job's money: it is held    *)
(* until one payout takes it to the provider or one refund back to the     *)
(* client, a failed payout brings it back, and the users are told only     *)
(* what is so.  PayoutSettlement implements this as long as none of its    *)
(* race windows opens; once one has, nothing is promised.                  *)
(***************************************************************************)
VARIABLES
  fate,  \* where the money is
  shown  \* the outcome users are told

promise == <<fate, shown>>

Fate  == {"held", "sent", "delivered", "refunded", "void"}
Shown == {"held", "released", "refunded"}

PromiseInit == fate = "held" /\ shown = "held"

PaySend    == fate = "held" /\ fate' = "sent" /\ UNCHANGED shown
PayBounce  == fate = "sent" /\ fate' = "held" /\ UNCHANGED shown
PayDeliver == fate = "sent" /\ fate' = "delivered" /\ UNCHANGED shown
TellPaid   == fate = "delivered" /\ shown' = "released" /\ UNCHANGED fate
Refund     == /\ fate = "held" /\ fate' = "refunded"
              /\ shown = "held" /\ shown' = "refunded"
Void       == fate' = "void" /\ shown' \in Shown

PromiseNext ==
  PaySend \/ PayBounce \/ PayDeliver \/ TellPaid \/ Refund \/ Void

PromiseSpec == PromiseInit /\ [][PromiseNext]_promise
=============================================================================
