-------------------------------- MODULE MCLive -------------------------------
(***************************************************************************)
(* What must eventually happen, each under its own fairness and in a part  *)
(* of the states of its own: payouts in flight (`payout'), payments whose  *)
(* event was saved (`payment'), requests that ask the rate limiter while   *)
(* Redis comes and goes (`address'), and moderation calls that wait for    *)
(* each other's locks (`locks').  No symmetry: these are temporal.         *)
(***************************************************************************)
EXTENDS MCGuards

CONSTANTS p1, f1, u1, k1, t1, t2, c1, b1, h1, a1, a2

LiveParts == {"payout", "payment", "address", "locks"}

VARIABLES
  txP, escrowP, cases, b2c, pcP, conv, docket, refundOwed, announced, windowsP,
  faultsP,
  txC, stk, escrowC, event, archived, pcC, att, row, held, windowsC, faultsC

payoutVars  == <<txP, escrowP, cases, b2c, pcP, conv, docket, refundOwed, announced,
                 windowsP, faultsP>>
paymentVars == <<txC, stk, escrowC, event, archived, pcC, att, row, held, windowsC,
                 faultsC>>

\* One payout call, one settlement, one dispute, one ruling, one case and two
\* payouts at most; no payout and no dispute begins during another call of the
\* kind or a ruling.
Payout == INSTANCE PayoutSettlement WITH
  Release <- {p1}, Settle <- {r1}, Freeze <- {f1}, Rule <- {u1},
  Case <- {k1}, Transfer <- {t1, t2}, MaxFaults <- 1,
  tx <- txP, escrow <- escrowP, pc <- pcP, windows <- windowsP, faults <- faultsP

\* Two attempts, one of which may be paid out, with one client, one callback and
\* one retry loop.
Payment == INSTANCE PaymentCollection WITH
  Client <- {c1}, Callback <- {b1}, Tick <- {h1}, Replay <- {}, Archiver <- {},
  Attempt <- {a1, a2}, MaxRetries <- 3, MaxFaults <- 1,
  tx <- txC, escrow <- escrowC, pc <- pcC, windows <- windowsC, faults <- faultsC

LiveInit == GuardsInit /\ Payout!Init /\ Payment!Init

LiveNext ==
  \/ /\ GuardsNext /\ UNCHANGED <<payoutVars, paymentVars>>
  \/ /\ part = "payout" /\ Payout!Next
     /\ \A c \in {p1, f1} : pcP[c] = "idle" /\ pcP'[c] # "idle" =>
          pcP[p1] = "idle" /\ pcP[f1] = "idle" /\ pcP[u1] = "idle"
     /\ UNCHANGED <<limitVars, bucketVars, stateVars, modVars, paymentVars, part>>
  \/ /\ part = "payment" /\ Payment!Next
     /\ txC'[a2].status # "payout_pending"
     /\ UNCHANGED <<limitVars, bucketVars, stateVars, modVars, payoutVars, part>>

\* What is left out of a part only begins calls or payouts that need not begin,
\* so that nothing fairness demands is ever refused.  Each part's fairness is
\* vacuous in the others, where its variables are as they began.
LiveFair ==
  /\ \A r \in Request : WF_limitVars(part = "address" /\ Handles(r))
  /\ \A c \in Call : /\ SF_modVars(part = "locks" /\ RunsOn(c))
                     /\ WF_modVars(part = "locks" /\ DeadlockFound(c))
  /\ Payout!Fairness /\ Payment!Fairness

LiveSpec ==
  LiveInit
  /\ [][LiveNext]_<<limitVars, bucketVars, stateVars, modVars, payoutVars,
                    paymentVars, part>>
  /\ LiveFair

\* PayoutSettlement: payouts in flight settle, and split-brains heal.
PayoutsSettle == Payout!PendingSettles /\ Payout!SplitBrainHeals

\* PaymentCollection: a payment whose event was saved gets its escrow row.
QueuedGetsLocked == Payment!QueuedGetsLocked
=============================================================================
