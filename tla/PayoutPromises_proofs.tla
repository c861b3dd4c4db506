------------------------ MODULE PayoutPromises_proofs -----------------------
(***************************************************************************)
(* The invariants of PayoutSettlement hold, and it implements              *)
(* EscrowPromise, for any number of requests, callbacks, cases, payouts    *)
(* and faults; and the archive is offered for every settled state the app  *)
(* can show.                                                               *)
(***************************************************************************)
EXTENDS PayoutPromises, TLAPS

-----------------------------------------------------------------------------
(* Type correctness.                                                       *)

\* Every call is at a known point, and every row and local holds a value of
\* its column, whatever the interleaving.
LEMMA TypeInit == Init => TypeOK
<1> SUFFICES ASSUME Init PROVE TypeOK
  OBVIOUS
<1> USE DEF Init, TypeOK, TxStatus, EscrowStatus, CaseStatus, B2cStatus, PcValue
<1>1. /\ tx \in [status : TxStatus, conv : Transfer \cup {None}]
      /\ escrow \in EscrowStatus
      /\ refundOwed \in BOOLEAN
      /\ announced \in Nat
      /\ windows \in SUBSET Window
      /\ faults \in Nat
  OBVIOUS
<1>2. /\ cases \in [Case -> CaseStatus]
      /\ b2c \in [Transfer -> B2cStatus]
      /\ pc \in [Calls -> PcValue]
      /\ conv \in [Calls -> Transfer \cup {None}]
      /\ docket \in [Rule -> Case \cup {None}]
  OBVIOUS
<1> QED BY <1>1, <1>2

\* Every step of every handler, and every fault, keeps the rows and the locals
\* within their columns.
LEMMA TypeStep == TypeOK /\ [Next]_vars => TypeOK'
<1> SUFFICES ASSUME TypeOK, [Next]_vars PROVE TypeOK'
  OBVIOUS
<1> USE DEF TypeOK, TxStatus, EscrowStatus, CaseStatus, B2cStatus, PcValue,
            PayoutPc, SettlePc, FreezePc, RulingPc, Window, rows, hist, Goto,
            Fault, TxBecomes, EscrowBecomes, When, Reads, Calls
<1>1. CASE UNCHANGED vars
  BY <1>1 DEF vars
<1>2. ASSUME NEW c \in Release \cup Rule, Payout(c) PROVE TypeOK'
  <2>1. CASE ReleaseRead(c)
    BY <2>1 DEF ReleaseRead
  <2>2. CASE ReleaseSend(c)
    <3>1. CASE pc' = [pc EXCEPT ![c] = "idle"] /\ UNCHANGED <<rows, b2c, conv, docket, hist, windows, faults>>
      BY <3>1
    <3>2. ASSUME NEW t \in Transfer,
                 pc' = [pc EXCEPT ![c] = "record"],
                 b2c' = [b2c EXCEPT ![t] = "accepted"],
                 conv' = [conv EXCEPT ![c] = t],
                 UNCHANGED <<rows, docket, hist, windows, faults>>
          PROVE  TypeOK'
      BY <3>2
    <3> QED BY <2>2, <3>1, <3>2 DEF ReleaseSend
  <2>3. CASE ReleaseRecord(c)
    BY <2>3 DEF ReleaseRecord
  <2>4. CASE ReleaseEscrow(c)
    BY <2>4 DEF ReleaseEscrow
  <2> QED BY <1>2, <2>1, <2>2, <2>3, <2>4 DEF Payout
<1>3. ASSUME NEW t \in Transfer, DarajaFinish(t) PROVE TypeOK'
  BY <1>3 DEF DarajaFinish
<1>4. ASSUME NEW s \in Settle, NEW t \in Transfer, SettleRead(s, t) PROVE TypeOK'
  BY <1>4 DEF SettleRead
<1>5. ASSUME NEW s \in Settle, RepairRead(s) PROVE TypeOK'
  BY <1>5 DEF RepairRead
<1>6. ASSUME NEW s \in Settle, SettleStep(s) PROVE TypeOK'
  <2>1. CASE SettleApply(s)
    BY <2>1 DEF SettleApply
  <2>2. CASE SettleAnnounce(s)
    BY <2>2 DEF SettleAnnounce
  <2>3. CASE SettleUnlock(s)
    BY <2>3 DEF SettleUnlock
  <2>4. CASE Repair(s)
    BY <2>4 DEF Repair
  <2> QED BY <1>6, <2>1, <2>2, <2>3, <2>4 DEF SettleStep
<1>7. ASSUME NEW f \in Freeze, FreezeStep(f) PROVE TypeOK'
  <2>1. CASE FreezeRead(f)
    BY <2>1 DEF FreezeRead
  <2>2. CASE FreezeTx(f)
    BY <2>2 DEF FreezeTx
  <2>3. CASE FreezeEscrow(f)
    BY <2>3 DEF FreezeEscrow
  <2>4. CASE OpenCase(f)
    BY <2>4 DEF OpenCase
  <2> QED BY <1>7, <2>1, <2>2, <2>3, <2>4 DEF FreezeStep
<1>8. ASSUME NEW r \in Rule, RuleStep(r) PROVE TypeOK'
  <2>1. CASE RuleRelease(r)
    BY <2>1 DEF RuleRelease
  <2>2. CASE ReleaseRefused(r)
    BY <2>2 DEF ReleaseRefused
  <2>3. CASE RuleRefund(r)
    BY <2>3 DEF RuleRefund
  <2>4. CASE RefundTx(r)
    BY <2>4 DEF RefundTx
  <2>5. CASE RefundEscrow(r)
    BY <2>5 DEF RefundEscrow
  <2>6. CASE RuleResolve(r)
    BY <2>6 DEF RuleResolve
  <2> QED BY <1>8, <2>1, <2>2, <2>3, <2>4, <2>5, <2>6 DEF RuleStep
<1>9. ASSUME NEW c \in Calls, Abort(c) PROVE TypeOK'
  BY <1>9 DEF Abort
<1> QED BY <1>1, <1>2, <1>3, <1>4, <1>5, <1>6, <1>7, <1>8, <1>9 DEF Next

\* Every reachable state of the settlement engine is well-typed.
THEOREM TypeCorrect == Spec => []TypeOK
BY TypeInit, TypeStep, PTL DEF Spec

-----------------------------------------------------------------------------
(* The strengthened invariants.                                            *)

\* Whatever raced: what the rows and the locals say Daraja did, it did.
DeliveryInv ==
  /\ ReleasedMeansDelivered
  /\ PendingCanBeQueried
  /\ tx.conv # None => b2c[tx.conv] # "unused"
  /\ \A c \in Calls :
       /\ pc[c] = "record" => conv[c] \in Transfer /\ b2c[conv[c]] # "unused"
       /\ pc[c] = "apply"
            => conv[c] \in Transfer /\ b2c[conv[c]] \in {"completed", "failed"}

\* While no two calls overlapped: one call at a time is critical, and the
\* status it read is still the status of the row.
OverlapInv ==
  "overlap" \notin windows =>
    /\ \A c, d \in Calls : pc[c] \in Critical /\ pc[d] \in Critical => c = d
    /\ \A c \in Calls :
         /\ pc[c] \in {"send", "record"} => tx.status \in {"paid", "disputed"}
         /\ pc[c] = "apply" => tx.status = "payout_pending"
         /\ pc[c] \in {"freeze", "freeze_tx", "refund_tx"}
              => tx.status \notin {"released", "refunded"}
         /\ pc[c] \in {"announce", "repair"} => tx.status = "released"
         /\ pc[c] = "announce" => announced = 0
    /\ \A c, d \in Calls : pc[c] = "announce" /\ pc[d] = "announce" => c = d
    /\ announced > 0 => tx.status = "released"
    /\ announced <= 1
    /\ escrow = "released" => tx.status = "released"

\* While no window was gone through: a payout that is live is the one the row
\* names, or the one its only critical call is about to record there.
MoneyInv ==
  windows = {} =>
    /\ \A c \in Calls :
         /\ pc[c] = "apply" => tx.conv = conv[c]
         /\ pc[c] \in {"freeze", "freeze_tx", "refund_tx"}
              => tx.status \in {"paid", "disputed"}
    /\ \A t \in Transfer : Live(t) =>
         \/ tx.status \in {"payout_pending", "released"} /\ tx.conv = t
         \/ \E c \in Calls : pc[c] = "record" /\ conv[c] = t
    /\ refundOwed => tx.status = "refunded"

\* No step writes a release Daraja did not deliver, nor a payout in flight
\* without the ConversationID of a payout it accepted.
LEMMA DeliveryStep == TypeOK /\ DeliveryInv /\ [Next]_vars => DeliveryInv'
<1> SUFFICES ASSUME TypeOK, DeliveryInv, [Next]_vars PROVE DeliveryInv'
  OBVIOUS
<1> USE DEF TypeOK, DeliveryInv, ReleasedMeansDelivered, PendingCanBeQueried,
            Goto, Fault, TxBecomes, EscrowBecomes, When, Reads, rows, hist, Calls
<1>1. CASE UNCHANGED vars
  BY <1>1 DEF vars
<1>2. ASSUME NEW c \in Release \cup Rule, Payout(c) PROVE DeliveryInv'
  <2>1. CASE ReleaseRead(c)
    BY <2>1 DEF ReleaseRead
  <2>2. CASE ReleaseSend(c)
    BY <2>2 DEF ReleaseSend
  <2>3. CASE ReleaseRecord(c)
    BY <2>3, NoneIsNull DEF ReleaseRecord
  <2>4. CASE ReleaseEscrow(c)
    BY <2>4 DEF ReleaseEscrow
  <2> QED BY <1>2, <2>1, <2>2, <2>3, <2>4 DEF Payout
<1>3. ASSUME NEW t \in Transfer, DarajaFinish(t) PROVE DeliveryInv'
  BY <1>3 DEF DarajaFinish
<1>4. ASSUME NEW s \in Settle, NEW t \in Transfer, SettleRead(s, t) PROVE DeliveryInv'
  BY <1>4 DEF SettleRead
<1>5. ASSUME NEW s \in Settle, RepairRead(s) PROVE DeliveryInv'
  BY <1>5 DEF RepairRead
<1>6. ASSUME NEW s \in Settle, SettleStep(s) PROVE DeliveryInv'
  <2>1. CASE SettleApply(s)
    BY <2>1 DEF SettleApply
  <2>2. CASE SettleAnnounce(s)
    BY <2>2 DEF SettleAnnounce
  <2>3. CASE SettleUnlock(s)
    BY <2>3 DEF SettleUnlock
  <2>4. CASE Repair(s)
    BY <2>4 DEF Repair
  <2> QED BY <1>6, <2>1, <2>2, <2>3, <2>4 DEF SettleStep
<1>7. ASSUME NEW f \in Freeze, FreezeStep(f) PROVE DeliveryInv'
  <2>1. CASE FreezeRead(f)
    BY <2>1 DEF FreezeRead
  <2>2. CASE FreezeTx(f)
    BY <2>2 DEF FreezeTx
  <2>3. CASE FreezeEscrow(f)
    BY <2>3 DEF FreezeEscrow
  <2>4. CASE OpenCase(f)
    BY <2>4 DEF OpenCase
  <2> QED BY <1>7, <2>1, <2>2, <2>3, <2>4 DEF FreezeStep
<1>8. ASSUME NEW r \in Rule, RuleStep(r) PROVE DeliveryInv'
  <2>1. CASE RuleRelease(r)
    BY <2>1 DEF RuleRelease
  <2>2. CASE ReleaseRefused(r)
    BY <2>2 DEF ReleaseRefused
  <2>3. CASE RuleRefund(r)
    BY <2>3 DEF RuleRefund
  <2>4. CASE RefundTx(r)
    BY <2>4 DEF RefundTx
  <2>5. CASE RefundEscrow(r)
    BY <2>5 DEF RefundEscrow
  <2>6. CASE RuleResolve(r)
    BY <2>6 DEF RuleResolve
  <2> QED BY <1>8, <2>1, <2>2, <2>3, <2>4, <2>5, <2>6 DEF RuleStep
<1>9. ASSUME NEW c \in Calls, Abort(c) PROVE DeliveryInv'
  BY <1>9 DEF Abort
<1> QED BY <1>1, <1>2, <1>3, <1>4, <1>5, <1>6, <1>7, <1>8, <1>9 DEF Next

\* Unless it opens an overlap, no step makes a second call critical or moves
\* the status a critical call relies on.
LEMMA OverlapStep == TypeOK /\ OverlapInv /\ [Next]_vars => OverlapInv'
<1> SUFFICES ASSUME TypeOK, OverlapInv, [Next]_vars PROVE OverlapInv'
  OBVIOUS
<1> USE DEF TypeOK, OverlapInv, Critical,
            Goto, Fault, TxBecomes, EscrowBecomes, When, Reads, rows, hist, Calls
<1>1. CASE UNCHANGED vars
  BY <1>1 DEF vars
<1>2. ASSUME NEW c \in Release \cup Rule, Payout(c) PROVE OverlapInv'
  <2>1. CASE ReleaseRead(c)
    BY <2>1 DEF ReleaseRead, Allowed, Entry
  <2>2. CASE ReleaseSend(c)
    BY <2>2 DEF ReleaseSend
  <2>3. CASE ReleaseRecord(c)
    BY <2>3 DEF ReleaseRecord
  <2>4. CASE ReleaseEscrow(c)
    BY <2>4 DEF ReleaseEscrow
  <2> QED BY <1>2, <2>1, <2>2, <2>3, <2>4 DEF Payout
<1>3. ASSUME NEW t \in Transfer, DarajaFinish(t) PROVE OverlapInv'
  BY <1>3 DEF DarajaFinish
<1>4. ASSUME NEW s \in Settle, NEW t \in Transfer, SettleRead(s, t) PROVE OverlapInv'
  BY <1>4 DEF SettleRead
<1>5. ASSUME NEW s \in Settle, RepairRead(s) PROVE OverlapInv'
  BY <1>5 DEF RepairRead
<1>6. ASSUME NEW s \in Settle, SettleStep(s) PROVE OverlapInv'
  <2>1. CASE SettleApply(s)
    BY <2>1 DEF SettleApply
  <2>2. CASE SettleAnnounce(s)
    BY <2>2 DEF SettleAnnounce
  <2>3. CASE SettleUnlock(s)
    BY <2>3 DEF SettleUnlock
  <2>4. CASE Repair(s)
    BY <2>4 DEF Repair
  <2> QED BY <1>6, <2>1, <2>2, <2>3, <2>4 DEF SettleStep
<1>7. ASSUME NEW f \in Freeze, FreezeStep(f) PROVE OverlapInv'
  <2>1. CASE FreezeRead(f)
    BY <2>1 DEF FreezeRead
  <2>2. CASE FreezeTx(f)
    BY <2>2 DEF FreezeTx
  <2>3. CASE FreezeEscrow(f)
    BY <2>3 DEF FreezeEscrow
  <2>4. CASE OpenCase(f)
    BY <2>4 DEF OpenCase
  <2> QED BY <1>7, <2>1, <2>2, <2>3, <2>4 DEF FreezeStep
<1>8. ASSUME NEW r \in Rule, RuleStep(r) PROVE OverlapInv'
  <2>1. CASE RuleRelease(r)
    BY <2>1 DEF RuleRelease
  <2>2. CASE ReleaseRefused(r)
    BY <2>2 DEF ReleaseRefused
  <2>3. CASE RuleRefund(r)
    BY <2>3 DEF RuleRefund
  <2>4. CASE RefundTx(r)
    BY <2>4 DEF RefundTx
  <2>5. CASE RefundEscrow(r)
    BY <2>5 DEF RefundEscrow
  <2>6. CASE RuleResolve(r)
    BY <2>6 DEF RuleResolve
  <2> QED BY <1>8, <2>1, <2>2, <2>3, <2>4, <2>5, <2>6 DEF RuleStep
<1>9. ASSUME NEW c \in Calls, Abort(c) PROVE OverlapInv'
  BY <1>9 DEF Abort
<1> QED BY <1>1, <1>2, <1>3, <1>4, <1>5, <1>6, <1>7, <1>8, <1>9 DEF Next

\* Unless it opens a window, no step makes a payout live that the row, or the
\* call about to write the row, does not know of.
LEMMA MoneyStep == TypeOK /\ DeliveryInv /\ OverlapInv /\ MoneyInv /\ [Next]_vars => MoneyInv'
<1> SUFFICES ASSUME TypeOK, DeliveryInv, OverlapInv, MoneyInv, [Next]_vars PROVE MoneyInv'
  OBVIOUS
<1> USE DEF TypeOK, TxStatus, DeliveryInv, OverlapInv, MoneyInv, Live, Critical,
            Goto, Fault, TxBecomes, EscrowBecomes, When, Reads, rows, hist, Calls
<1>1. CASE UNCHANGED vars
  BY <1>1 DEF vars
<1>2. ASSUME NEW c \in Release \cup Rule, Payout(c) PROVE MoneyInv'
  <2>1. CASE ReleaseRead(c)
    BY <2>1 DEF ReleaseRead, Allowed, Entry
  <2>2. CASE ReleaseSend(c)
    BY <2>2 DEF ReleaseSend
  <2>3. CASE ReleaseRecord(c)
    BY <2>3 DEF ReleaseRecord
  <2>4. CASE ReleaseEscrow(c)
    BY <2>4 DEF ReleaseEscrow
  <2> QED BY <1>2, <2>1, <2>2, <2>3, <2>4 DEF Payout
<1>3. ASSUME NEW t \in Transfer, DarajaFinish(t) PROVE MoneyInv'
  BY <1>3 DEF DarajaFinish
<1>4. ASSUME NEW s \in Settle, NEW t \in Transfer, SettleRead(s, t) PROVE MoneyInv'
  BY <1>4 DEF SettleRead
<1>5. ASSUME NEW s \in Settle, RepairRead(s) PROVE MoneyInv'
  BY <1>5 DEF RepairRead
<1>6. ASSUME NEW s \in Settle, SettleStep(s) PROVE MoneyInv'
  <2>1. CASE SettleApply(s)
    BY <2>1 DEF SettleApply
  <2>2. CASE SettleAnnounce(s)
    BY <2>2 DEF SettleAnnounce
  <2>3. CASE SettleUnlock(s)
    BY <2>3 DEF SettleUnlock
  <2>4. CASE Repair(s)
    BY <2>4 DEF Repair
  <2> QED BY <1>6, <2>1, <2>2, <2>3, <2>4 DEF SettleStep
<1>7. ASSUME NEW f \in Freeze, FreezeStep(f) PROVE MoneyInv'
  <2>1. CASE FreezeRead(f)
    BY <2>1 DEF FreezeRead
  <2>2. CASE FreezeTx(f)
    BY <2>2, SMTT(30) DEF FreezeTx
  <2>3. CASE FreezeEscrow(f)
    BY <2>3 DEF FreezeEscrow
  <2>4. CASE OpenCase(f)
    BY <2>4 DEF OpenCase
  <2> QED BY <1>7, <2>1, <2>2, <2>3, <2>4 DEF FreezeStep
<1>8. ASSUME NEW r \in Rule, RuleStep(r) PROVE MoneyInv'
  <2>1. CASE RuleRelease(r)
    BY <2>1 DEF RuleRelease
  <2>2. CASE ReleaseRefused(r)
    BY <2>2 DEF ReleaseRefused
  <2>3. CASE RuleRefund(r)
    BY <2>3 DEF RuleRefund
  <2>4. CASE RefundTx(r)
    BY <2>4 DEF RefundTx
  <2>5. CASE RefundEscrow(r)
    BY <2>5 DEF RefundEscrow
  <2>6. CASE RuleResolve(r)
    BY <2>6 DEF RuleResolve
  <2> QED BY <1>8, <2>1, <2>2, <2>3, <2>4, <2>5, <2>6 DEF RuleStep
<1>9. ASSUME NEW c \in Calls, Abort(c) PROVE MoneyInv'
  BY <1>9 DEF Abort
<1> QED BY <1>1, <1>2, <1>3, <1>4, <1>5, <1>6, <1>7, <1>8, <1>9 DEF Next


-----------------------------------------------------------------------------
(* The invariants hold initially, and with them the properties of Spec.    *)

\* A freshly funded job satisfies the strengthened invariants.
LEMMA InvInit == Init => DeliveryInv /\ OverlapInv /\ MoneyInv
BY DEF Init, DeliveryInv, OverlapInv, MoneyInv, ReleasedMeansDelivered,
       PendingCanBeQueried, Live, Critical

\* The four invariants together are inductive.
LEMMA Invariants == Spec => [](TypeOK /\ DeliveryInv /\ OverlapInv /\ MoneyInv)
<1>1. Init => TypeOK /\ DeliveryInv /\ OverlapInv /\ MoneyInv
  BY TypeInit, InvInit
<1>2. TypeOK /\ DeliveryInv /\ OverlapInv /\ MoneyInv /\ [Next]_vars
        => (TypeOK /\ DeliveryInv /\ OverlapInv /\ MoneyInv)'
  BY TypeStep, DeliveryStep, OverlapStep, MoneyStep
<1> QED BY <1>1, <1>2, PTL DEF Spec

\* As long as the run has gone through none of the named windows, a job's
\* money leaves escrow at most once: no two live payouts, no refund of money
\* that is paid out.  For every number of calls, payouts, cases and faults.
THEOREM MoneyLeavesOnceCorrect == Spec => []MoneyLeavesOnce
<1>1. TypeOK /\ OverlapInv /\ MoneyInv => MoneyLeavesOnce
  <2> SUFFICES ASSUME TypeOK, OverlapInv, MoneyInv, windows = {}
               PROVE  PaidOutOnce /\ NoRefundAfterPayout
    BY DEF MoneyLeavesOnce
  <2>1. PaidOutOnce
    BY DEF PaidOutOnce, MoneyInv, OverlapInv, Critical
  <2>2. NoRefundAfterPayout
    BY DEF NoRefundAfterPayout, MoneyInv, OverlapInv, Critical
  <2> QED BY <2>1, <2>2
<1> QED BY <1>1, Invariants, PTL

\* A transaction reads released only when Daraja delivered a payout of the
\* job, in every interleaving.
THEOREM ReleasedMeansDeliveredCorrect == Spec => []ReleasedMeansDelivered
BY Invariants, PTL DEF DeliveryInv

\* A payout in flight can always be queried for, in every interleaving.
THEOREM PendingCanBeQueriedCorrect == Spec => []PendingCanBeQueried
BY Invariants, PTL DEF DeliveryInv

\* Without an overlap, the parties are told of the release at most once.
THEOREM AnnouncedOnceCorrect == Spec => []AnnouncedOnce
<1>1. OverlapInv => AnnouncedOnce
  BY DEF OverlapInv, AnnouncedOnce
<1> QED BY <1>1, Invariants, PTL

\* Without an overlap, the escrow row never claims a release ahead of the
\* transaction.
THEOREM EscrowFollowsTxCorrect == Spec => []EscrowFollowsTx
<1>1. OverlapInv => EscrowFollowsTx
  BY DEF OverlapInv, EscrowFollowsTx
<1> QED BY <1>1, Invariants, PTL

\* Without an overlap, a released or refunded transaction is never written
\* again: no late freeze, settlement, revert or ruling reaches it.
THEOREM SettledStaysSettledCorrect == Spec => SettledStaysSettled
<1>1. TypeOK /\ OverlapInv /\ [Next]_vars
        => [ "overlap" \notin windows' /\ tx.status \in {"released", "refunded"}
               => tx' = tx ]_vars
  <2> SUFFICES ASSUME TypeOK, OverlapInv, [Next]_vars,
                      "overlap" \notin windows', tx.status \in {"released", "refunded"}
               PROVE  tx' = tx
    OBVIOUS
  <2>1. "overlap" \notin windows
    BY DEF Next, vars, hist, Payout, SettleStep, FreezeStep, RuleStep, Reads,
           ReleaseRead, ReleaseSend, ReleaseRecord, ReleaseEscrow, DarajaFinish,
           SettleRead, SettleApply, SettleAnnounce, SettleUnlock, RepairRead,
           Repair, FreezeRead, FreezeTx, FreezeEscrow, OpenCase, RuleRelease,
           ReleaseRefused, RuleRefund, RefundTx, RefundEscrow, RuleResolve, Abort
  <2>2. \A c \in Calls : pc[c] \notin
          {"record", "apply", "freeze", "freeze_tx", "refund_tx"}
    BY <2>1 DEF OverlapInv
  <2> QED
    BY <2>2 DEF Next, vars, rows, hist, Goto, Calls, Payout, SettleStep, FreezeStep,
           RuleStep, ReleaseRead, ReleaseSend, ReleaseRecord, ReleaseEscrow,
           DarajaFinish, SettleRead, SettleApply, SettleAnnounce, SettleUnlock,
           RepairRead, Repair, FreezeRead, FreezeTx, FreezeEscrow, OpenCase,
           RuleRelease, ReleaseRefused, RuleRefund, RefundTx, RefundEscrow,
           RuleResolve, Abort
<1> QED BY <1>1, Invariants, PTL DEF Spec, SettledStaysSettled

-----------------------------------------------------------------------------
(* The refinement.                                                         *)

\* A window that was gone through is never forgotten.
LEMMA WindowsGrow == ASSUME [Next]_vars PROVE windows \subseteq windows'
<1> USE DEF hist, Reads
<1>1. CASE UNCHANGED vars
  BY <1>1 DEF vars
<1>2. ASSUME NEW c \in Release \cup Rule, Payout(c) PROVE windows \subseteq windows'
  BY <1>2 DEF Payout, ReleaseRead, ReleaseSend, ReleaseRecord, ReleaseEscrow
<1>3. ASSUME NEW t \in Transfer, DarajaFinish(t) PROVE windows \subseteq windows'
  BY <1>3 DEF DarajaFinish
<1>4. ASSUME NEW s \in Settle, NEW t \in Transfer, SettleRead(s, t)
      PROVE  windows \subseteq windows'
  BY <1>4 DEF SettleRead
<1>5. ASSUME NEW s \in Settle, RepairRead(s) \/ SettleStep(s)
      PROVE  windows \subseteq windows'
  BY <1>5 DEF RepairRead, SettleStep, SettleApply, SettleAnnounce, SettleUnlock, Repair
<1>6. ASSUME NEW f \in Freeze, FreezeStep(f) PROVE windows \subseteq windows'
  BY <1>6 DEF FreezeStep, FreezeRead, FreezeTx, FreezeEscrow, OpenCase
<1>7. ASSUME NEW r \in Rule, RuleStep(r) PROVE windows \subseteq windows'
  BY <1>7 DEF RuleStep, RuleRelease, ReleaseRefused, RuleRefund, RefundTx,
     RefundEscrow, RuleResolve
<1>8. ASSUME NEW c \in Calls, Abort(c) PROVE windows \subseteq windows'
  BY <1>8 DEF Abort
<1> QED BY <1>1, <1>2, <1>3, <1>4, <1>5, <1>6, <1>7, <1>8 DEF Next

\* The initial state is a promise just made: money held.
LEMMA PromiseStarts == Init => Promise!PromiseInit
BY DEF Init, Promise!PromiseInit, MoneyFate, MoneyShown, Sent

\* What the money and the users' view of it are made of.
SameMoney == UNCHANGED <<b2c, refundOwed>> /\ tx'.status = tx.status

\* Before a window opens, every step of the settlement engine is a step of the
\* promise or leaves its variables alone.
LEMMA StepKeepsPromise ==
  ASSUME TypeOK, TypeOK', DeliveryInv, OverlapInv, MoneyInv, [Next]_vars,
         windows = {}, windows' = {}
  PROVE  [Promise!PromiseNext]_Promise!promise
<1>1. /\ tx.status \in TxStatus
      /\ b2c \in [Transfer -> B2cStatus] /\ refundOwed \in BOOLEAN
  BY DEF TypeOK
<1>2. \A t, u \in Transfer : Live(t) /\ Live(u) => t = u
  BY DEF OverlapInv, MoneyInv, Critical
<1>3. refundOwed => \A t \in Transfer : ~ Live(t)
  BY DEF OverlapInv, MoneyInv, Critical
<1>4. ASSUME NEW c \in Calls, pc[c] \in {"send", "refund_tx"}
      PROVE  /\ \A t \in Transfer : ~ Live(t)
             /\ ~ refundOwed /\ tx.status \in {"paid", "disputed"}
  BY <1>4 DEF OverlapInv, MoneyInv, Critical
<1>5. ASSUME SameMoney PROVE [Promise!PromiseNext]_Promise!promise
  <2>1. MoneyFate' = MoneyFate /\ MoneyShown' = MoneyShown
    BY <1>5 DEF SameMoney, MoneyFate, MoneyShown, Sent
  <2> QED BY <2>1 DEF Promise!promise
<1>6. ASSUME UNCHANGED <<b2c, refundOwed>>, tx.status \notin {"released", "refunded"},
             tx'.status \notin {"released", "refunded"}
      PROVE  [Promise!PromiseNext]_Promise!promise
  <2>1. MoneyFate' = MoneyFate /\ MoneyShown' = MoneyShown
    BY <1>6 DEF MoneyFate, MoneyShown, Sent
  <2> QED BY <2>1 DEF Promise!promise
<1> USE DEF rows, hist
<1>7. CASE UNCHANGED vars
  BY <1>5, <1>7 DEF vars, SameMoney
<1>8. ASSUME NEW c \in Release \cup Rule, Payout(c)
      PROVE  [Promise!PromiseNext]_Promise!promise
  <2>1. CASE ReleaseRead(c) \/ ReleaseEscrow(c)
    BY <1>5, <2>1 DEF ReleaseRead, ReleaseEscrow, SameMoney
  <2>2. CASE ReleaseRecord(c)
    <3>1. tx.status \in {"paid", "disputed"} /\ tx'.status = "payout_pending"
          /\ UNCHANGED <<b2c, refundOwed>>
      BY <2>2 DEF ReleaseRecord, OverlapInv, Goto, Calls
    <3> QED BY <1>6, <3>1
  <2>3. CASE ReleaseSend(c)
    <3>1. CASE UNCHANGED <<rows, b2c, hist>>
      BY <1>5, <3>1 DEF SameMoney
    <3>2. ASSUME NEW t \in Transfer, pc[c] = "send", UNCHANGED <<rows, hist>>,
                 b2c' = [b2c EXCEPT ![t] = "accepted"]
          PROVE  [Promise!PromiseNext]_Promise!promise
      <4>1. /\ \A u \in Transfer : b2c[u] \notin {"accepted", "completed"}
            /\ ~ refundOwed /\ tx.status \in {"paid", "disputed"}
        BY <1>4, <3>2 DEF Live, Calls
      <4>2. b2c'[t] = "accepted" /\ \A u \in Transfer : b2c'[u] # "completed"
        BY <1>1, <3>2, <4>1
      <4>3. MoneyFate = "held"
        BY <4>1 DEF MoneyFate, Sent
      <4>4. MoneyFate' = "sent"
        BY <4>2 DEF MoneyFate, Sent
      <4>5. MoneyShown' = MoneyShown
        BY <3>2 DEF MoneyShown
      <4> QED BY <4>3, <4>4, <4>5 DEF Promise!PromiseNext, Promise!PaySend
    <3> QED BY <2>3, <3>1, <3>2 DEF ReleaseSend, Goto
  <2> QED BY <1>8, <2>1, <2>2, <2>3 DEF Payout
<1>9. ASSUME NEW t \in Transfer, DarajaFinish(t)
      PROVE  [Promise!PromiseNext]_Promise!promise
  <2>1. PICK o \in {"completed", "failed"} :
          b2c[t] = "accepted" /\ b2c' = [b2c EXCEPT ![t] = o] /\ UNCHANGED <<rows, hist>>
    BY <1>9 DEF DarajaFinish
  <2>2. /\ \A u \in Transfer : b2c[u] # "completed"
        /\ \A u \in Transfer \ {t} : b2c[u] # "accepted"
        /\ ~ refundOwed
    BY <1>2, <1>3, <2>1 DEF Live
  <2>3. MoneyFate = "sent"
    BY <2>1, <2>2 DEF MoneyFate, Sent
  <2>4. MoneyShown' = MoneyShown
    BY <2>1 DEF MoneyShown
  <2>5. CASE o = "completed"
    <3>1. MoneyFate' = "delivered"
      BY <1>1, <2>1, <2>5 DEF MoneyFate, Sent
    <3> QED BY <2>3, <2>4, <3>1 DEF Promise!PromiseNext, Promise!PayDeliver
  <2>6. CASE o = "failed"
    <3>1. \A u \in Transfer : b2c'[u] \notin {"accepted", "completed"}
      BY <1>1, <2>1, <2>2, <2>6
    <3>2. MoneyFate' = "held"
      BY <2>1, <2>2, <3>1 DEF MoneyFate, Sent
    <3> QED BY <2>3, <2>4, <3>2 DEF Promise!PromiseNext, Promise!PayBounce
  <2> QED BY <2>5, <2>6
<1>10. ASSUME NEW s \in Settle, NEW t \in Transfer, SettleRead(s, t)
       PROVE  [Promise!PromiseNext]_Promise!promise
  BY <1>5, <1>10 DEF SettleRead, SameMoney
<1>11. ASSUME NEW s \in Settle, RepairRead(s)
       PROVE  [Promise!PromiseNext]_Promise!promise
  BY <1>5, <1>11 DEF RepairRead, SameMoney
<1>12. ASSUME NEW s \in Settle, SettleStep(s)
       PROVE  [Promise!PromiseNext]_Promise!promise
  <2>1. CASE SettleAnnounce(s) \/ SettleUnlock(s) \/ Repair(s)
    BY <1>5, <2>1 DEF SettleAnnounce, SettleUnlock, Repair, SameMoney
  <2>2. CASE SettleApply(s)
    <3>1. /\ tx.status = "payout_pending" /\ conv[s] \in Transfer
          /\ UNCHANGED <<b2c, refundOwed>>
      BY <2>2 DEF SettleApply, OverlapInv, DeliveryInv, Goto, Calls
    <3>2. CASE b2c[conv[s]] = "completed" /\ tx' = [tx EXCEPT !.status = "released"]
      <4>1. tx'.status = "released"
        BY <3>2 DEF TypeOK
      <4>2. MoneyFate = "delivered" /\ MoneyFate' = "delivered"
        BY <3>1, <3>2 DEF MoneyFate, Sent
      <4>3. MoneyShown' = "released"
        BY <4>1 DEF MoneyShown
      <4> QED BY <4>2, <4>3 DEF Promise!PromiseNext, Promise!TellPaid
    <3>3. CASE tx' = [status |-> "paid", conv |-> None]
      BY <1>6, <3>1, <3>3
    <3> QED BY <2>2, <3>2, <3>3 DEF SettleApply
  <2> QED BY <1>12, <2>1, <2>2 DEF SettleStep
<1>13. ASSUME NEW f \in Freeze, FreezeStep(f)
       PROVE  [Promise!PromiseNext]_Promise!promise
  <2>1. CASE FreezeRead(f) \/ FreezeEscrow(f) \/ OpenCase(f)
    BY <1>5, <2>1 DEF FreezeRead, FreezeEscrow, OpenCase, SameMoney
  <2>2. CASE FreezeTx(f)
    <3>1. /\ tx.status \in {"paid", "disputed"} /\ UNCHANGED <<b2c, refundOwed>>
          /\ tx'.status \in {tx.status, "disputed"}
      BY <2>2 DEF FreezeTx, TxBecomes, MoneyInv, TypeOK, Goto, Calls
    <3> QED BY <1>6, <3>1
  <2> QED BY <1>13, <2>1, <2>2 DEF FreezeStep
<1>14. ASSUME NEW r \in Rule, RuleStep(r)
       PROVE  [Promise!PromiseNext]_Promise!promise
  <2>1. CASE RuleRelease(r) \/ ReleaseRefused(r) \/ RuleRefund(r) \/ RefundEscrow(r)
             \/ RuleResolve(r)
    BY <1>5, <2>1 DEF RuleRelease, ReleaseRefused, RuleRefund, RefundEscrow,
       RuleResolve, SameMoney
  <2>2. CASE RefundTx(r)
    <3>1. /\ \A t \in Transfer : b2c[t] \notin {"accepted", "completed"}
          /\ ~ refundOwed /\ tx.status \in {"paid", "disputed"}
          /\ UNCHANGED b2c
      BY <1>4, <2>2 DEF RefundTx, Goto, Calls, Live
    <3>2. CASE tx' = tx
      <4>1. refundOwed' = refundOwed
        BY <1>1, <2>2, <3>1, <3>2 DEF RefundTx
      <4> QED BY <1>5, <3>1, <3>2, <4>1 DEF SameMoney
    <3>3. CASE tx' = [tx EXCEPT !.status = "refunded"]
      <4>1. tx'.status = "refunded" /\ refundOwed'
        BY <2>2, <3>3 DEF RefundTx, TypeOK
      <4>2. MoneyFate = "held" /\ MoneyFate' = "refunded"
        BY <3>1, <4>1 DEF MoneyFate, Sent
      <4>3. MoneyShown = "held" /\ MoneyShown' = "refunded"
        BY <3>1, <4>1 DEF MoneyShown
      <4> QED BY <4>2, <4>3 DEF Promise!PromiseNext, Promise!Refund
    <3> QED BY <2>2, <3>2, <3>3 DEF RefundTx, TxBecomes
  <2> QED BY <1>14, <2>1, <2>2 DEF RuleStep
<1>15. ASSUME NEW c \in Calls, Abort(c) PROVE [Promise!PromiseNext]_Promise!promise
  BY <1>5, <1>15 DEF Abort, SameMoney
<1> QED BY <1>7, <1>8, <1>9, <1>10, <1>11, <1>12, <1>13, <1>14, <1>15 DEF Next

\* Payouts, callbacks, retries, repairs, disputes, rulings and crashes keep the
\* promise of EscrowPromise until one of the named windows opens.
THEOREM KeepsPromiseCorrect == Spec => KeepsPromise
<1>1. ASSUME TypeOK, TypeOK', DeliveryInv, OverlapInv, MoneyInv, [Next]_vars
      PROVE  [Promise!PromiseNext]_Promise!promise
  <2>1. CASE windows' = {}
    <3>1. windows = {}
      BY <1>1, <2>1, WindowsGrow
    <3> QED BY <1>1, <2>1, <3>1, StepKeepsPromise
  <2>2. CASE windows' # {}
    <3>1. MoneyFate' = "void"
      BY <2>2 DEF MoneyFate
    <3>2. MoneyShown' \in Promise!Shown
      BY DEF MoneyShown, Promise!Shown
    <3> QED BY <3>1, <3>2 DEF Promise!PromiseNext, Promise!Void
  <2> QED BY <2>1, <2>2
<1> QED BY <1>1, Invariants, PromiseStarts, PTL DEF Spec, KeepsPromise,
        Promise!PromiseSpec

\* What the promise says of where the money is and what is told of it.
FateTold ==
  /\ MoneyFate \in Promise!Fate
  /\ MoneyFate # "void" =>
       /\ MoneyShown = "released" => MoneyFate = "delivered"
       /\ MoneyShown = "refunded" <=> MoneyFate = "refunded"

\* Every step of the promise keeps it.
LEMMA PromiseTells == FateTold /\ [Promise!PromiseNext]_Promise!promise => FateTold'
BY DEF FateTold, Promise!PromiseNext, Promise!promise, Promise!Fate, Promise!PaySend,
       Promise!PayBounce, Promise!PayDeliver, Promise!TellPaid, Promise!Refund,
       Promise!Void

\* Users are told what is so, and all of it that is a refund: until a race
\* window opens a transaction reads released only with a payout Daraja
\* completed and no refund ruled, reads refunded exactly when a refund was ruled,
\* and then no payout is on its way or through.
THEOREM ToldWhatIsSo ==
  Spec => [](windows = {} =>
               /\ tx.status = "released" => Sent("completed")
               /\ tx.status = "refunded" <=>
                    refundOwed /\ ~ Sent("completed") /\ ~ Sent("accepted"))
<1>1. Promise!PromiseInit => FateTold
  BY DEF Promise!PromiseInit, FateTold, Promise!Fate
<1>2. FateTold => (windows = {} =>
                     /\ tx.status = "released" => Sent("completed")
                     /\ tx.status = "refunded" <=>
                          refundOwed /\ ~ Sent("completed") /\ ~ Sent("accepted"))
  BY DEF FateTold, MoneyFate, MoneyShown
<1> QED BY <1>1, <1>2, PromiseTells, KeepsPromiseCorrect, PTL
        DEF KeepsPromise, Promise!PromiseSpec

\* Money that reached the provider, or was ruled back to the client, stays
\* there: no retry, callback, repair, ruling or crash moves it again until a
\* race window opens.
THEOREM SettledForGood ==
  Spec => [][(MoneyFate \in {"delivered", "refunded"}) => MoneyFate' = "void"]_MoneyFate
<1>1. [Promise!PromiseNext]_Promise!promise =>
        [(MoneyFate \in {"delivered", "refunded"}) => MoneyFate' = "void"]_MoneyFate
  BY DEF Promise!PromiseNext, Promise!promise, Promise!PaySend, Promise!PayBounce,
         Promise!PayDeliver, Promise!TellPaid, Promise!Refund, Promise!Void
<1> QED BY <1>1, KeepsPromiseCorrect, PTL DEF KeepsPromise, Promise!PromiseSpec

-----------------------------------------------------------------------------
(* The settlement state shown for the rows.                                *)

\* Someone answers for frozen money: an open case that no ruling has already
\* moved the money of, or a dispute about to be recorded.
Contested ==
  \/ \E k \in Case : cases[k] = "open" /\ \A r \in Rule :
       pc[r] \in {"release_escrow", "refund_escrow", "resolve"} => docket[r] # k
  \/ \E f \in Freeze : pc[f] \in {"freeze_escrow", "insert"}

\* A ruling is about a case; refunded money is owed; and while nothing failed
\* and no two calls overlapped, rows that were frozen or that contradict each
\* other belong to a contested job, or to a call about to write the second one.
DisplayInv ==
  /\ \A r \in Rule : pc[r] # "idle" => docket[r] \in Case /\ cases[docket[r]] # "none"
  /\ tx.status = "refunded" => refundOwed
  /\ faults = 0 /\ tx.status = "disputed" => Contested
  /\ faults = 0 /\ "overlap" \notin windows =>
       /\ escrow = "refunded" => tx.status = "refunded"
       /\ \A r \in Rule : pc[r] = "refund_escrow" => tx.status = "refunded"
       /\ tx.status = "released" /\ escrow = "disputed"
            => Contested \/ \E s \in Settle : pc[s] = "announce"
       /\ tx.status = "refunded" /\ escrow = "disputed"
            => Contested \/ \E r \in Rule : pc[r] = "refund_escrow"

\* No step leaves frozen or contradicting rows to nobody.
LEMMA DisplayStep == TypeOK /\ OverlapInv /\ DisplayInv /\ [Next]_vars => DisplayInv'
<1> SUFFICES ASSUME TypeOK, OverlapInv, DisplayInv, [Next]_vars PROVE DisplayInv'
  OBVIOUS
<1> USE DEF TypeOK, OverlapInv, DisplayInv, Contested, Critical,
            Goto, Fault, TxBecomes, EscrowBecomes, When, Reads, rows, hist, Calls
<1>1. CASE UNCHANGED vars
  BY <1>1 DEF vars
<1>2. ASSUME NEW c \in Release \cup Rule, Payout(c) PROVE DisplayInv'
  <2>1. CASE ReleaseRead(c)
    BY <2>1, CallsDisjoint DEF ReleaseRead, Allowed, Entry
  <2>2. CASE ReleaseSend(c)
    BY <2>2, CallsDisjoint DEF ReleaseSend
  <2>3. CASE ReleaseRecord(c)
    BY <2>3, CallsDisjoint DEF ReleaseRecord
  <2>4. CASE ReleaseEscrow(c)
    BY <2>4, CallsDisjoint DEF ReleaseEscrow
  <2> QED BY <1>2, <2>1, <2>2, <2>3, <2>4 DEF Payout
<1>3. ASSUME NEW t \in Transfer, DarajaFinish(t) PROVE DisplayInv'
  BY <1>3 DEF DarajaFinish
<1>4. ASSUME NEW s \in Settle, NEW t \in Transfer, SettleRead(s, t) PROVE DisplayInv'
  BY <1>4, CallsDisjoint DEF SettleRead
<1>5. ASSUME NEW s \in Settle, RepairRead(s) PROVE DisplayInv'
  BY <1>5, CallsDisjoint DEF RepairRead
<1>6. ASSUME NEW s \in Settle, SettleStep(s) PROVE DisplayInv'
  <2>1. CASE SettleApply(s)
    BY <2>1, CallsDisjoint DEF SettleApply
  <2>2. CASE SettleAnnounce(s)
    BY <2>2, CallsDisjoint DEF SettleAnnounce
  <2>3. CASE SettleUnlock(s)
    BY <2>3, CallsDisjoint DEF SettleUnlock
  <2>4. CASE Repair(s)
    BY <2>4, CallsDisjoint DEF Repair
  <2> QED BY <1>6, <2>1, <2>2, <2>3, <2>4 DEF SettleStep
<1>7. ASSUME NEW f \in Freeze, FreezeStep(f) PROVE DisplayInv'
  <2>1. CASE FreezeRead(f)
    BY <2>1, CallsDisjoint DEF FreezeRead
  <2>2. CASE FreezeTx(f)
    BY <2>2, CallsDisjoint DEF FreezeTx
  <2>3. CASE FreezeEscrow(f)
    BY <2>3, CallsDisjoint DEF FreezeEscrow
  <2>4. CASE OpenCase(f)
    BY <2>4, CallsDisjoint DEF OpenCase
  <2> QED BY <1>7, <2>1, <2>2, <2>3, <2>4 DEF FreezeStep
<1>8. ASSUME NEW r \in Rule, RuleStep(r) PROVE DisplayInv'
  <2>1. CASE RuleRelease(r)
    BY <2>1, CallsDisjoint DEF RuleRelease
  <2>2. CASE ReleaseRefused(r)
    BY <2>2, CallsDisjoint DEF ReleaseRefused
  <2>3. CASE RuleRefund(r)
    BY <2>3, CallsDisjoint DEF RuleRefund
  <2>4. CASE RefundTx(r)
    <3>1. /\ pc[r] = "refund_tx" /\ pc' = [pc EXCEPT ![r] = "refund_escrow"]
          /\ UNCHANGED <<escrow, cases, docket, windows>>
          /\ refundOwed' = (refundOwed \/ tx'.status = "refunded")
          /\ \/ tx'.status = "refunded" /\ faults' = faults
             \/ tx' = tx /\ faults' = faults + 1
      BY <2>4 DEF RefundTx
    <3>3. CASE tx' = tx /\ faults' = faults + 1
      BY <3>1, <3>3, CallsDisjoint
    <3>4. CASE tx'.status = "refunded" /\ faults' = faults
      <4>1. pc'[r] = "refund_escrow" /\ docket'[r] \in Case /\ cases'[docket'[r]] # "none"
        BY <3>1
      <4> QED BY <3>1, <3>4, <4>1, CallsDisjoint
    <3> QED BY <3>1, <3>3, <3>4
  <2>5. CASE RefundEscrow(r)
    BY <2>5, CallsDisjoint DEF RefundEscrow
  <2>6. CASE RuleResolve(r)
    BY <2>6, CallsDisjoint DEF RuleResolve
  <2> QED BY <1>8, <2>1, <2>2, <2>3, <2>4, <2>5, <2>6 DEF RuleStep
<1>9. ASSUME NEW c \in Calls, Abort(c) PROVE DisplayInv'
  BY <1>9, FaultBound DEF Abort
<1> QED BY <1>1, <1>2, <1>3, <1>4, <1>5, <1>6, <1>7, <1>8, <1>9 DEF Next

\* Between requests, and unless something failed or two handlers overlapped,
\* the archive is offered in exactly the states the app calls settled, and only
\* for money that left; for any number of calls, cases, rulings and payouts.
THEOREM QuietDisplayCorrect == Spec => []QuietDisplay
<1>1. ASSUME TypeOK, DeliveryInv, OverlapInv, DisplayInv PROVE QuietDisplay
  <2> SUFFICES ASSUME faults = 0, \A c \in Calls : pc[c] = "idle"
               PROVE  /\ "overlap" \notin windows
                           => CanArchive(Display) = IsTerminal(CoreState(Display))
                      /\ windows = {} /\ CanArchive(Display)
                           => refundOwed \/ (Sent("completed") /\ tx.status = "released")
    BY DEF QuietDisplay
  <2> DEFINE open == \E k \in Case : cases[k] = "open"
  <2>1. Contested => open
    BY DEF Contested, Calls
  <2>2. /\ Display.tx = tx.status /\ Display.escrow = escrow
        /\ Display.failed = FALSE /\ Display.dispute = open /\ Display.decision = "null"
    BY DEF Display
  <2>3. tx.status \in TxStatus /\ escrow \in EscrowStatus
    BY <1>1 DEF TypeOK
  <2>4. tx.status = "disputed" => open
    BY <1>1, <2>1 DEF DisplayInv
  <2>5. ASSUME "overlap" \notin windows
        PROVE  CanArchive(Display) = IsTerminal(CoreState(Display))
    <3>1. CASE open
      BY <2>2, <3>1 DEF CanArchive, IsTerminal, CoreState, Disputed
    <3>2. CASE ~ open
      <4>1. /\ escrow = "released" => tx.status = "released"
            /\ escrow = "refunded" => tx.status = "refunded"
            /\ escrow = "disputed" => tx.status \notin {"released", "refunded"}
        BY <1>1, <2>1, <2>5, <3>2 DEF OverlapInv, DisplayInv, Calls
      <4>2. CASE escrow = "locked"
        BY <2>2, <2>3, <3>2, <4>2 DEF CanArchive, HeldEscrow, IsTerminal, CoreState, Locked
      <4>3. CASE escrow # "locked" /\ tx.status = escrow
        BY <2>2, <2>3, <2>4, <3>2, <4>3 DEF CanArchive, HeldEscrow, HeldTx, IsTerminal,
           CoreState, Agreed, TxStatus, EscrowStatus
      <4>4. CASE escrow # "locked" /\ tx.status # escrow
        BY <2>2, <2>3, <2>4, <3>2, <4>1, <4>4 DEF CanArchive, HeldEscrow, HeldTx,
           IsTerminal, CoreState, TxStatus, EscrowStatus
      <4> QED BY <4>2, <4>3, <4>4
    <3> QED BY <3>1, <3>2
  <2>6. ASSUME CanArchive(Display)
        PROVE  refundOwed \/ (Sent("completed") /\ tx.status = "released")
    <3>1. tx.status \in {"released", "refunded"}
      BY <2>2, <2>3, <2>4, <2>6 DEF CanArchive, HeldTx, TxStatus
    <3> QED BY <1>1, <3>1 DEF DisplayInv, DeliveryInv, ReleasedMeansDelivered, Sent
  <2> QED BY <2>5, <2>6
<1>2. Init => DisplayInv
  BY DEF Init, DisplayInv, Calls, Contested
<1> QED BY <1>1, <1>2, DisplayStep, Invariants, PTL DEF Spec

\* Whatever the rows hold, a job whose state the app calls settled may be
\* archived; and of the jobs that may be archived, only those whose rows
\* contradict each other are called otherwise.
THEOREM SettledMeansArchivable ==
  \A i \in SettlementInput :
    /\ IsTerminal(CoreState(i)) => CanArchive(i)
    /\ CanArchive(i) => IsTerminal(CoreState(i))
                        \/ CoreState(i) \in {"awaiting_payment", "inconsistent"}
<1> SUFFICES ASSUME NEW i \in SettlementInput
             PROVE  /\ IsTerminal(CoreState(i)) => CanArchive(i)
                    /\ CanArchive(i) => IsTerminal(CoreState(i))
                         \/ CoreState(i) \in {"awaiting_payment", "inconsistent"}
  OBVIOUS
<1>1. i.tx \in TxColumn /\ i.escrow \in EscrowColumn /\ i.dispute \in BOOLEAN
  BY DEF SettlementInput
<1>2. CASE i.dispute
  BY <1>1, <1>2 DEF CoreState, Disputed, IsTerminal, CanArchive
<1>3. CASE ~ i.dispute /\ i.escrow = "locked"
  BY <1>1, <1>3 DEF CoreState, Locked, IsTerminal, CanArchive, HeldEscrow
<1>4. CASE ~ i.dispute /\ i.escrow = "null"
  BY <1>1, <1>4 DEF CoreState, NoEscrow, IsTerminal, CanArchive, HeldEscrow, HeldTx,
     TxColumn
<1>5. CASE ~ i.dispute /\ i.escrow \notin {"locked", "null"} /\ i.tx = i.escrow
  BY <1>1, <1>5 DEF CoreState, Agreed, IsTerminal, CanArchive, HeldEscrow, HeldTx,
     TxColumn, EscrowColumn
<1>6. CASE ~ i.dispute /\ i.escrow \notin {"locked", "null"} /\ i.tx # i.escrow
  BY <1>1, <1>6 DEF CoreState, IsTerminal, CanArchive
<1> QED BY <1>1, <1>2, <1>3, <1>4, <1>5, <1>6
=============================================================================
