--------------------------- MODULE PayoutPromises ---------------------------
(***************************************************************************)
(* What PayoutSettlement's rows amount to: the abstract promise they keep, *)
(* and the settlement state the users are shown for them.                  *)
(***************************************************************************)
EXTENDS PayoutSettlement, SettlementState

\* The refinement mapping.
Sent(s)  == \E t \in Transfer : b2c[t] = s
MoneyFate ==
  IF windows # {} THEN "void"
  ELSE IF Sent("completed") THEN "delivered"
  ELSE IF Sent("accepted") THEN "sent"
  ELSE IF refundOwed THEN "refunded"
  ELSE "held"
MoneyShown == IF tx.status \in {"released", "refunded"} THEN tx.status
              ELSE "held"

Promise == INSTANCE EscrowPromise WITH fate <- MoneyFate, shown <- MoneyShown

\* The input getLifecycle derives the settlement state from.  Which of the two
\* refunds was ruled, and whether a payout failed before, is not kept here.
Display ==
  [tx |-> tx.status, escrow |-> escrow, failed |-> FALSE,
   dispute |-> \E k \in Case : cases[k] = "open", decision |-> "null"]

-----------------------------------------------------------------------------
\* Until a race window opens, payouts, callbacks, retries, repairs, disputes,
\* rulings and crashes together do to the money only what was promised, in the
\* promised order, and the transaction says released or refunded only then.
KeepsPromise == Promise!PromiseSpec

\* Between requests, and unless something failed or two handlers overlapped,
\* the archive is offered in exactly the states the app calls settled: a job
\* that needs review is never removed, however late escrow writes crossed each
\* other.  And unless a window opened, only a job whose money left is settled.
QuietDisplay ==
  faults = 0 /\ (\A c \in Calls : pc[c] = "idle") =>
    /\ "overlap" \notin windows
         => CanArchive(Display) = IsTerminal(CoreState(Display))
    /\ windows = {} /\ CanArchive(Display)
         => refundOwed \/ (Sent("completed") /\ tx.status = "released")
=============================================================================
