-------------------------- MODULE PaymentCollection --------------------------
(***************************************************************************)
(* How a job gets funded: initiatePayment and the STK callback of          *)
(* backend/src/mpesa/mpesa.service.ts, the payment.success handler of      *)
(* backend/src/events/event-processor.service.ts that binds the post's one *)
(* escrow row to the transaction that was paid, and archivePost of         *)
(* backend/src/jobs/jobs.service.ts, which reads both.                     *)
(*                                                                         *)
(* The module follows one post with a selected provider.  Handlers are     *)
(* split where the code awaits; the payout of a paid transaction, which    *)
(* PayoutSettlement has in detail, appears as three atomic steps, and      *)
(* disputes do not appear.                                                 *)
(***************************************************************************)
EXTENDS Naturals

CONSTANTS
  Client,     \* initiatePayment requests in flight
  Callback,   \* STK callback deliveries in flight
  Tick,       \* retry loops of the event processor, one per running process
  Replay,     \* replayById requests in flight
  Archiver,   \* archivePost requests in flight
  Attempt,    \* transactions rows, each with its CheckoutRequestID
  None,       \* SQL NULL
  MaxRetries, \* MAX_RETRIES
  MaxFaults   \* bound on crashes, failed awaits, lost answers and expiries

Handler == Tick \cup Replay
Calls == Client \cup Callback \cup Handler \cup Archiver

ASSUME CallsDisjoint ==
  /\ Client \cap (Callback \cup Handler \cup Archiver) = {}
  /\ Callback \cap (Handler \cup Archiver) = {}
  /\ Handler \cap Archiver = {}
  /\ Tick \cap Replay = {}
ASSUME NoneIsNull == None \notin Attempt
ASSUME Bounds == MaxRetries \in Nat \ {0} /\ MaxFaults \in Nat

VARIABLES
  tx,       \* per attempt: status, and whether checkout_request_id is stored
  stk,      \* per attempt: what the customer's phone did with the prompt
  escrow,   \* the post's escrow row, UNIQUE (post_id): transaction, status
  event,    \* per attempt: its payment.success row in system_events
  archived, \* posts.archived_at is set
  pc,       \* where each call is between two awaits
  att,      \* the attempt a call is about
  row,      \* the escrow.transaction_id a handler read
  held,     \* history: funds were in escrow when an archivePost call began
  windows,  \* history: the race windows the run has gone through
  faults    \* how many faults have happened

locals == <<att, row>>
vars   == <<tx, stk, escrow, event, archived, pc, locals, held, windows, faults>>

TxStatus == {"none", "pending", "paid", "failed", "payout_pending", "released"}
Live     == {"pending", "paid", "payout_pending", "released"}
Funded   == Live \ {"pending"}

EscrowStatus == {"none", "locked", "payout_pending", "released"}
EventState   == {"none", "queued", "processed", "expired"}

PcValue == {"idle",
            "create", "push", "fail", "store", "escrow",
            "confirm", "emit",
            "read", "insert", "incumbent", "repoint", "mark", "retry",
            "held_escrow", "archive"}

(*   contested   two attempts of the post were live at the same time        *)
(*   duplicate   two deliveries of one STK callback were handled at once    *)
(*   unanswered  the prompt went out, the answer to the push was lost       *)
(*   blind_read  a status whose read failed was taken for absent            *)
Window == {"contested", "duplicate", "unanswered", "blind_read"}

TypeOK ==
  /\ tx \in [Attempt -> [status : TxStatus, stored : BOOLEAN]]
  /\ stk \in [Attempt -> {"none", "prompted", "charged", "declined"}]
  /\ escrow \in [tx : Attempt \cup {None}, status : EscrowStatus]
  /\ event \in [Attempt -> [state : EventState, retries : 0 .. MaxRetries]]
  /\ archived \in BOOLEAN
  /\ pc \in [Calls -> PcValue]
  /\ att \in [Calls -> Attempt \cup {None}]
  /\ row \in [Calls -> Attempt \cup {None}]
  /\ held \in [Archiver -> BOOLEAN]
  /\ windows \in SUBSET Window
  /\ faults \in Nat

Init ==
  /\ tx = [a \in Attempt |-> [status |-> "none", stored |-> FALSE]]
  /\ stk = [a \in Attempt |-> "none"]
  /\ escrow = [tx |-> None, status |-> "none"]
  /\ event = [a \in Attempt |-> [state |-> "none", retries |-> 0]]
  /\ archived = FALSE
  /\ pc = [c \in Calls |-> "idle"]
  /\ att = [c \in Calls |-> None]
  /\ row = [c \in Calls |-> None]
  /\ held = [d \in Archiver |-> FALSE]
  /\ windows = {}
  /\ faults = 0

-----------------------------------------------------------------------------
(* Helpers.                                                                *)

Goto(c, from, to) == pc[c] = from /\ pc' = [pc EXCEPT ![c] = to]

\* The call ends, and its locals with it.
Return(c, from) ==
  /\ Goto(c, from, "idle")
  /\ att' = [att EXCEPT ![c] = None]
  /\ row' = [row EXCEPT ![c] = None]

Fault == faults < MaxFaults /\ faults' = faults + 1

When(cond, w) == IF cond THEN {w} ELSE {}

TxBecomes(a, s) == tx' = [tx EXCEPT ![a].status = s]

\* An update of the escrow row of attempt a, if the row is bound to a.
EscrowOf(a, s) ==
  escrow' = IF escrow.tx = a THEN [escrow EXCEPT !.status = s] ELSE escrow

-----------------------------------------------------------------------------
(* initiatePayment.                                                        *)

InProgress == {a \in Attempt : tx[a].status \in {"pending", "paid"}}

\* maybeSingle finds the one payment in progress; several make it fail, and
\* a failed read counts as none found.
OneInProgress == \E a \in InProgress : InProgress = {a}

InitiateRead(c) ==
  /\ Goto(c, "idle", "create")
  /\ (~ OneInProgress /\ UNCHANGED faults) \/ Fault
  /\ UNCHANGED <<tx, stk, escrow, event, archived, locals, held, windows>>

CreateTx(c) ==
  /\ Goto(c, "create", "push")
  /\ \E a \in Attempt :
       /\ tx[a].status = "none"
       /\ TxBecomes(a, "pending")
       /\ att' = [att EXCEPT ![c] = a]
       /\ windows' = windows
            \cup When(\E b \in Attempt \ {a} : tx[b].status \in Live, "contested")
  /\ UNCHANGED <<stk, escrow, event, archived, row, held, faults>>

\* daraja.stkPush: the prompt is on its way, or the push was refused, or the
\* prompt is on its way and the HTTP answer was lost, which reads as refused.
StkPush(c) ==
  /\ \/ /\ Goto(c, "push", "store")
        /\ stk' = [stk EXCEPT ![att[c]] = "prompted"]
        /\ UNCHANGED <<windows, faults>>
     \/ /\ Goto(c, "push", "fail")
        /\ UNCHANGED <<stk, windows, faults>>
     \/ /\ Goto(c, "push", "fail")
        /\ stk' = [stk EXCEPT ![att[c]] = "prompted"]
        /\ windows' = windows \cup {"unanswered"}
        /\ Fault
  /\ UNCHANGED <<tx, escrow, event, archived, locals, held>>

PushFailed(c) ==
  /\ Return(c, "fail")
  /\ TxBecomes(att[c], "failed")
  /\ UNCHANGED <<stk, escrow, event, archived, held, windows, faults>>

StoreCheckoutId(c) ==
  /\ Goto(c, "store", "escrow")
  /\ tx' = [tx EXCEPT ![att[c]].stored = TRUE]
  /\ UNCHANGED <<stk, escrow, event, archived, locals, held, windows, faults>>

\* The optimistic insert: UNIQUE (post_id) or an error leave it undone.
InsertEscrow(c) ==
  /\ Return(c, "escrow")
  /\ \/ /\ escrow.tx = None
        /\ escrow' = [tx |-> att[c], status |-> "locked"]
        /\ UNCHANGED faults
     \/ escrow.tx # None /\ UNCHANGED <<escrow, faults>>
     \/ UNCHANGED escrow /\ Fault
  /\ UNCHANGED <<tx, stk, event, archived, held, windows>>

-----------------------------------------------------------------------------
(* The customer enters the PIN or not; Daraja reports it never, once or    *)
(* more often.  A report no stored CheckoutRequestID matches is dropped.   *)

CustomerAnswers(a) ==
  /\ stk[a] = "prompted"
  /\ \E o \in {"charged", "declined"} : stk' = [stk EXCEPT ![a] = o]
  /\ UNCHANGED <<tx, escrow, event, archived, pc, locals, held, windows, faults>>

\* Mutant: a repeated callback is applied again.
CallbackReadAgain(b, a) ==
  /\ Goto(b, "idle", "confirm")
  /\ stk[a] \in {"charged", "declined"}
  /\ tx[a].stored
  /\ att' = [att EXCEPT ![b] = a]
  /\ windows' = windows \cup
       When(\E d \in Callback \ {b} : pc[d] = "confirm" /\ att[d] = a, "duplicate")
  /\ UNCHANGED <<tx, stk, escrow, event, archived, row, held, faults>>

CallbackRead(b, a) ==
  /\ Goto(b, "idle", "confirm")
  /\ stk[a] \in {"charged", "declined"}
  /\ tx[a].stored
  /\ tx[a].status = "pending"
  /\ att' = [att EXCEPT ![b] = a]
  /\ windows' = windows \cup
       When(\E d \in Callback \ {b} : pc[d] = "confirm" /\ att[d] = a, "duplicate")
  /\ UNCHANGED <<tx, stk, escrow, event, archived, row, held, faults>>

\* Mutant: the result code is not looked at.
CallbackConfirmAny(b) ==
  /\ Goto(b, "confirm", "emit")
  /\ TxBecomes(att[b], "paid")
  /\ UNCHANGED <<stk, escrow, event, archived, locals, held, windows, faults>>

CallbackConfirm(b) ==
  /\ \/ /\ Goto(b, "confirm", "emit")
        /\ UNCHANGED locals
        /\ stk[att[b]] = "charged"
        /\ TxBecomes(att[b], "paid")
     \/ /\ Return(b, "confirm")
        /\ stk[att[b]] = "declined"
        /\ TxBecomes(att[b], "failed")
  /\ UNCHANGED <<stk, escrow, event, archived, held, windows, faults>>

\* events.emit(payment.success), not awaited: a crash here loses the event.
CallbackEmit(b) ==
  /\ Return(b, "emit")
  /\ event' = [event EXCEPT ![att[b]] = [state |-> "queued", retries |-> 0]]
  /\ UNCHANGED <<tx, stk, escrow, archived, held, windows, faults>>

-----------------------------------------------------------------------------
(* The event processor: payment.success and lockEscrowForPayment.          *)

Dead(a) == event[a].retries = MaxRetries

PickEvent(h, a) ==
  /\ Goto(h, "idle", "read")
  /\ event[a].state = "queued" /\ ~ Dead(a)
  /\ att' = [att EXCEPT ![h] = a]
  /\ UNCHANGED <<tx, stk, escrow, event, archived, row, held, windows, faults>>

\* replayById runs any event again, and first revives a dead one.
ReplayEvent(h, a) ==
  /\ Goto(h, "idle", "read")
  /\ event[a].state # "none"
  /\ att' = [att EXCEPT ![h] = a]
  /\ event' = IF ~ Dead(a) THEN event ELSE
       [event EXCEPT ![a].retries = 0,
                     ![a].state = IF @ = "expired" THEN @ ELSE "queued"]
  /\ UNCHANGED <<tx, stk, escrow, archived, row, held, windows, faults>>

\* fetchUnprocessed looks back 24 hours.
EventExpires(a) ==
  /\ event[a].state = "queued"
  /\ event' = [event EXCEPT ![a].state = "expired"]
  /\ Fault
  /\ UNCHANGED <<tx, stk, escrow, archived, pc, locals, held, windows>>

\* Mutant: any row will do, the orphan of a failed attempt included.
LockReadAnyRow(h) ==
  /\ \/ escrow.tx = None /\ Goto(h, "read", "insert")
     \/ escrow.tx # None /\ Goto(h, "read", "mark")
  /\ row' = [row EXCEPT ![h] = escrow.tx]
  /\ UNCHANGED <<tx, stk, escrow, event, archived, att, held, windows, faults>>

\* No row: insert.  Ours, or settled: nothing to do.  Else ask who holds it.
LockRead(h) ==
  /\ \/ escrow.tx = None /\ Goto(h, "read", "insert")
     \/ /\ escrow.tx # None
        /\ escrow.tx = att[h] \/ escrow.status = "released"
        /\ Goto(h, "read", "mark")
     \/ /\ escrow.tx \notin {None, att[h]}
        /\ escrow.status # "released"
        /\ Goto(h, "read", "incumbent")
  /\ row' = [row EXCEPT ![h] = escrow.tx]
  /\ UNCHANGED <<tx, stk, escrow, event, archived, att, held, windows, faults>>

LockInsert(h) ==
  /\ \/ /\ escrow.tx = None
        /\ escrow' = [tx |-> att[h], status |-> "locked"]
        /\ Goto(h, "insert", "mark")
     \/ /\ escrow.tx # None
        /\ UNCHANGED escrow
        /\ Goto(h, "insert", "retry")
  /\ UNCHANGED <<tx, stk, event, archived, locals, held, windows, faults>>

\* Mutant: every incumbent is replaced.
LockIncumbentAny(h) ==
  /\ Goto(h, "incumbent", "repoint")
  /\ UNCHANGED <<tx, stk, escrow, event, archived, locals, held, windows, faults>>

\* Only a failed incumbent is replaced; one that cannot be read counts as
\* none.
LockIncumbent(h) ==
  /\ \/ /\ Goto(h, "incumbent", "repoint")
        /\ tx[row[h]].status = "failed"
        /\ UNCHANGED <<windows, faults>>
     \/ /\ Goto(h, "incumbent", "mark")
        /\ tx[row[h]].status # "failed"
        /\ UNCHANGED <<windows, faults>>
     \/ /\ Goto(h, "incumbent", "repoint")
        /\ windows' = windows \cup {"blind_read"}
        /\ Fault
  /\ UNCHANGED <<tx, stk, escrow, event, archived, locals, held>>

\* Mutant: the re-point matches nothing.
LockRepointNothing(h) ==
  /\ Goto(h, "repoint", "mark")
  /\ UNCHANGED <<tx, stk, escrow, event, archived, locals, held, windows, faults>>

\* Optimistic concurrency: matches nothing if the row moved.
LockRepoint(h) ==
  /\ Goto(h, "repoint", "mark")
  /\ escrow' = IF escrow.tx = row[h] THEN [tx |-> att[h], status |-> "locked"]
                                     ELSE escrow
  /\ UNCHANGED <<tx, stk, event, archived, locals, held, windows, faults>>

\* The handler throws: a failed query, or a push notification that fails.
HandlerThrows(h) ==
  /\ \E at \in {"read", "insert", "repoint", "mark"} : Goto(h, at, "retry")
  /\ Fault
  /\ UNCHANGED <<tx, stk, escrow, event, archived, locals, held, windows>>

MarkProcessed(h) ==
  /\ Return(h, "mark")
  /\ event' = [event EXCEPT ![att[h]].state = "processed"]
  /\ UNCHANGED <<tx, stk, escrow, archived, held, windows, faults>>

\* markFailed counts the failure; the last one makes the event a dead letter.
MarkFailed(h) ==
  /\ Return(h, "retry")
  /\ event' = [event EXCEPT ![att[h]].retries = IF @ < MaxRetries THEN @ + 1 ELSE @]
  /\ UNCHANGED <<tx, stk, escrow, archived, held, windows, faults>>

-----------------------------------------------------------------------------
(* archivePost: two reads whose errors are ignored, then the write.        *)

HoldsFunds == \E a \in Attempt : tx[a].status \in {"paid", "payout_pending"}

InEscrow == escrow.status \in {"locked", "payout_pending"}

\* A condition that holds goes unnoticed: its read failed.
Missed(cond) == cond /\ windows' = windows \cup {"blind_read"} /\ Fault
NotSeen(cond) == (~ cond /\ UNCHANGED <<windows, faults>>) \/ Missed(cond)

ArchiveReadTx(d) ==
  /\ Goto(d, "idle", "held_escrow")
  /\ ~ archived
  /\ NotSeen(HoldsFunds)
  /\ held' = [held EXCEPT ![d] = InEscrow]
  /\ UNCHANGED <<tx, stk, escrow, event, archived, locals>>

\* Mutant: the gate forgets locked escrow.
ArchiveReadEscrowPending(d) ==
  /\ Goto(d, "held_escrow", "archive")
  /\ escrow.status # "payout_pending"
  /\ UNCHANGED <<tx, stk, escrow, event, archived, locals, held, windows, faults>>

ArchiveReadEscrow(d) ==
  /\ \/ Goto(d, "held_escrow", "archive") /\ NotSeen(InEscrow)
     \/ Goto(d, "held_escrow", "idle") /\ InEscrow /\ UNCHANGED <<windows, faults>>
  /\ UNCHANGED <<tx, stk, escrow, event, archived, locals, held>>

Archive(d) ==
  /\ Goto(d, "archive", "idle")
  /\ archived' = TRUE
  /\ UNCHANGED <<tx, stk, escrow, event, locals, held, windows, faults>>

-----------------------------------------------------------------------------
(* The payout of a paid attempt, as PayoutSettlement leaves it.            *)

PayoutStep(a, from, to, kept) ==
  /\ tx[a].status = from
  /\ TxBecomes(a, to)
  /\ EscrowOf(a, kept)
  /\ UNCHANGED <<stk, event, archived, pc, locals, held, windows, faults>>

PayoutStarts(a)    == PayoutStep(a, "paid", "payout_pending", "payout_pending")
PayoutFails(a)     == PayoutStep(a, "payout_pending", "paid", "locked")
PayoutCompletes(a) == PayoutStep(a, "payout_pending", "released", "released")

\* A crash or a failed await ends the call where it is, its writes kept.
Abort(c) ==
  /\ pc[c] # "idle"
  /\ Return(c, pc[c])
  /\ Fault
  /\ UNCHANGED <<tx, stk, escrow, event, archived, held, windows>>

Initiate(c) ==
  \/ InitiateRead(c) \/ CreateTx(c) \/ StkPush(c)
  \/ PushFailed(c) \/ StoreCheckoutId(c) \/ InsertEscrow(c)
HandlerStep(h) ==
  \/ LockRead(h) \/ LockInsert(h) \/ LockIncumbent(h) \/ LockRepoint(h)
  \/ MarkProcessed(h) \/ MarkFailed(h)
ArchiveStep(d) == ArchiveReadTx(d) \/ ArchiveReadEscrow(d) \/ Archive(d)
PayoutOf(a) == PayoutStarts(a) \/ PayoutFails(a) \/ PayoutCompletes(a)

Next ==
  \/ \E c \in Client : Initiate(c)
  \/ \E a \in Attempt : CustomerAnswers(a) \/ EventExpires(a) \/ PayoutOf(a)
  \/ \E b \in Callback, a \in Attempt : CallbackRead(b, a)
  \/ \E b \in Callback : CallbackConfirm(b) \/ CallbackEmit(b)
  \/ \E h \in Tick, a \in Attempt : PickEvent(h, a)
  \/ \E h \in Replay, a \in Attempt : ReplayEvent(h, a)
  \/ \E h \in Handler : HandlerStep(h) \/ HandlerThrows(h)
  \/ \E d \in Archiver : ArchiveStep(d)
  \/ \E c \in Calls : Abort(c)

Spec == Init /\ [][Next]_vars

\* Every tick takes what is queued, and a handler in flight runs on.
Fairness ==
  /\ \A h \in Tick : WF_vars(\E a \in Attempt : PickEvent(h, a))
  /\ \A h \in Handler : WF_vars(HandlerStep(h))

FairSpec == Spec /\ Fairness
-----------------------------------------------------------------------------
(* Properties.                                                             *)

\* The row and the customer's phone agree: a funded transaction was charged,
\* and a charged customer's transaction is never marked failed, unless the
\* answer to the push was lost.  Late, repeated and racing callbacks included.
RowMatchesPhone ==
  \A a \in Attempt :
    /\ tx[a].status \in Funded => stk[a] = "charged"
    /\ stk[a] = "charged" /\ tx[a].status = "failed" => "unanswered" \in windows

\* lockEscrowForPayment does its job: once the payment.success event of an
\* attempt is processed, the escrow row is that attempt's and stays it, across
\* orphaned rows of failed attempts, racing inserts, retries, crashes and
\* replays, unless the post had two live attempts at once.
ProcessedMeansLocked ==
  "contested" \notin windows =>
    \A a \in Attempt : event[a].state = "processed" => escrow.tx = a

\* The escrow row is taken from a transaction only after it failed, however
\* long ago the handler read the row and the incumbent.
RepointsOnlyFailed ==
  [][ "blind_read" \notin windows' /\ escrow.tx # None /\ escrow'.tx # escrow.tx
        => tx[escrow.tx].status = "failed" ]_vars

\* Settled money is never resurrected: a released transaction and its escrow
\* row are final, whatever is replayed, unless two deliveries of one callback
\* overlapped or an incumbent could not be read.
SettledNeverResurrected ==
  [][ windows' \cap {"duplicate", "blind_read"} = {} =>
        \A a \in Attempt : tx[a].status = "released" =>
          /\ tx'[a] = tx[a]
          /\ escrow.tx = a => escrow' = escrow ]_vars

\* archivePost's two reads, in their order, miss no money: funds in escrow when
\* the call began are still there to block it, or were settled meanwhile,
\* unless a read failed or a repeated callback undid the settlement.
HeldFundsBlockArchive ==
  [][ \A d \in Archiver :
        Archive(d) /\ held[d] /\ windows \cap {"blind_read", "duplicate"} = {}
          => escrow.status = "released" ]_vars

\* A payment whose event was saved gets its escrow: the retry loop brings it
\* there, unless the post is contested or the event is older than a day.
QueuedGetsLocked ==
  \A a \in Attempt :
    event[a].state = "queued"
      ~> \/ escrow.tx = a \/ "contested" \in windows
         \/ event[a].state = "expired"

-----------------------------------------------------------------------------
(* What comments and docs promise and the code does not keep.              *)

\* event-processor.service.ts:347-348: "two funded payments for one post, which
\* initiate is supposed to prevent".
FundedOnce ==
  \A a, b \in Attempt : tx[a].status \in Funded /\ tx[b].status \in Funded => a = b
=============================================================================
