---------------------- MODULE PaymentCollection_proofs ----------------------
(***************************************************************************)
(* Invariants of PaymentCollection for any number of requests, callbacks,  *)
(* ticks, replays, archives, attempts and faults.                          *)
(***************************************************************************)
EXTENDS PaymentCollection, TLAPS

-----------------------------------------------------------------------------
(* Type correctness, with what a call needs to hold in its locals.         *)

AttPc == PcValue \ {"idle", "create", "held_escrow", "archive"}

LocalsInv ==
  \A c \in Calls :
    /\ pc[c] \in AttPc => att[c] \in Attempt
    /\ pc[c] \in {"incumbent", "repoint"} => row[c] \in Attempt

TypeInv == TypeOK /\ LocalsInv

\* Before anything happened every row and local is well-typed.
LEMMA TypeInit == Init => TypeInv
<1> SUFFICES ASSUME Init PROVE TypeInv
  OBVIOUS
<1> USE DEF Init, TypeInv, TypeOK, LocalsInv, AttPc, PcValue, TxStatus, EscrowStatus,
            EventState
<1>1. /\ tx \in [Attempt -> [status : TxStatus, stored : BOOLEAN]]
      /\ stk \in [Attempt -> {"none", "prompted", "charged", "declined"}]
      /\ escrow \in [tx : Attempt \cup {None}, status : EscrowStatus]
      /\ archived \in BOOLEAN
      /\ held \in [Archiver -> BOOLEAN]
      /\ windows \in SUBSET Window
      /\ faults \in Nat
  OBVIOUS
<1>2. event \in [Attempt -> [state : EventState, retries : 0 .. MaxRetries]]
  BY Bounds
<1>3. /\ pc \in [Calls -> PcValue]
      /\ att \in [Calls -> Attempt \cup {None}]
      /\ row \in [Calls -> Attempt \cup {None}]
      /\ LocalsInv
  OBVIOUS
<1> QED BY <1>1, <1>2, <1>3

\* Setting one row's status or stored flag keeps the table well-typed.
LEMMA SetStatus ==
  ASSUME NEW f \in [Attempt -> [status : TxStatus, stored : BOOLEAN]],
         NEW a \in Attempt, NEW s \in TxStatus
  PROVE  [f EXCEPT ![a].status = s] \in [Attempt -> [status : TxStatus, stored : BOOLEAN]]
OBVIOUS

\* Storing a row's checkout_request_id does, too.
LEMMA SetStored ==
  ASSUME NEW f \in [Attempt -> [status : TxStatus, stored : BOOLEAN]],
         NEW a \in Attempt
  PROVE  [f EXCEPT ![a].stored = TRUE] \in [Attempt -> [status : TxStatus, stored : BOOLEAN]]
OBVIOUS

\* A replay leaves the event alone, or revives it with its failures forgotten.
LEMMA ReplayedEvent ==
  ASSUME event \in [Attempt -> [state : EventState, retries : 0 .. MaxRetries]],
         NEW h, NEW a \in Attempt, ReplayEvent(h, a)
  PROVE  \/ event' = event
         \/ \E s \in {"expired", "queued"} :
              event' = [event EXCEPT ![a] = [state |-> s, retries |-> 0]]
<1> USE Bounds DEF EventState
<1>1. event[a] \in [state : EventState, retries : 0 .. MaxRetries]
  OBVIOUS
<1>2. Dead(a) => event' = [event EXCEPT ![a].retries = 0,
                 ![a].state = IF @ = "expired" THEN @ ELSE "queued"]
  BY DEF ReplayEvent
<1>3. CASE event[a].state = "expired"
  <2>1. Dead(a) => event' = [event EXCEPT ![a] = [state |-> "expired", retries |-> 0]]
    BY <1>1, <1>2, <1>3
  <2> QED BY <2>1 DEF ReplayEvent
<1>4. CASE event[a].state # "expired"
  <2>1. Dead(a) => event' = [event EXCEPT ![a] = [state |-> "queued", retries |-> 0]]
    BY <1>1, <1>2, <1>4
  <2> QED BY <2>1 DEF ReplayEvent
<1> QED BY <1>3, <1>4

\* Every step keeps the rows within their columns, and a call past the choice
\* of its attempt keeps one.
LEMMA TypeStep == TypeInv /\ [Next]_vars => TypeInv'
<1> SUFFICES ASSUME TypeInv, [Next]_vars PROVE TypeInv'
  OBVIOUS
<1> USE Bounds DEF TypeInv, TypeOK, LocalsInv, AttPc, PcValue, TxStatus, EscrowStatus,
            EventState, Window, locals, Goto, Return, Fault, When, TxBecomes, Calls, Handler
<1>1. CASE UNCHANGED vars
  BY <1>1 DEF vars
<1>2. ASSUME NEW c \in Client, Initiate(c) PROVE TypeInv'
  <2>1. CASE InitiateRead(c)
    BY <2>1 DEF InitiateRead
  <2>2. CASE CreateTx(c)
    BY <2>2 DEF CreateTx
  <2>3. CASE StkPush(c)
    <3>1. windows' \in SUBSET Window
      <4>1. windows' = windows \/ windows' = windows \cup {"unanswered"}
        BY <2>3 DEF StkPush
      <4> QED BY <4>1
    <3>2. faults' \in Nat
      <4>1. faults' = faults \/ faults' = faults + 1
        BY <2>3 DEF StkPush
      <4> QED BY <4>1
    <3>3. /\ pc[c] = "push"
          /\ pc' = [pc EXCEPT ![c] = "store"] \/ pc' = [pc EXCEPT ![c] = "fail"]
          /\ UNCHANGED <<tx, escrow, event, archived, locals, held>>
      BY <2>3 DEF StkPush
    <3>4. stk' \in [Attempt -> {"none", "prompted", "charged", "declined"}]
      <4>1. stk' = stk \/ stk' = [stk EXCEPT ![att[c]] = "prompted"]
        BY <2>3 DEF StkPush
      <4> QED BY <4>1
    <3>5. pc' \in [Calls -> PcValue] /\ LocalsInv'
      BY <3>3
    <3> QED BY <3>1, <3>2, <3>3, <3>4, <3>5
  <2>4. CASE PushFailed(c)
    BY <2>4 DEF PushFailed
  <2>5. CASE StoreCheckoutId(c)
    <3>1. att[c] \in Attempt /\ tx' = [tx EXCEPT ![att[c]].stored = TRUE]
      BY <2>5 DEF StoreCheckoutId
    <3>2. tx' \in [Attempt -> [status : TxStatus, stored : BOOLEAN]]
      BY <3>1, SetStored
    <3> QED BY <2>5, <3>2 DEF StoreCheckoutId
  <2>6. CASE InsertEscrow(c)
    BY <2>6 DEF InsertEscrow
  <2> QED BY <1>2, <2>1, <2>2, <2>3, <2>4, <2>5, <2>6 DEF Initiate
<1>3. ASSUME NEW a \in Attempt, CustomerAnswers(a) PROVE TypeInv'
  BY <1>3 DEF CustomerAnswers
<1>4. ASSUME NEW a \in Attempt, EventExpires(a) PROVE TypeInv'
  BY <1>4 DEF EventExpires
<1>5. ASSUME NEW a \in Attempt, PayoutOf(a) PROVE TypeInv'
  <2>1. PICK s \in TxStatus, k \in EscrowStatus :
          /\ tx' = [tx EXCEPT ![a].status = s]
          /\ escrow' = IF escrow.tx = a THEN [escrow EXCEPT !.status = k] ELSE escrow
          /\ UNCHANGED <<stk, event, archived, pc, locals, held, windows, faults>>
    <3>1. CASE PayoutStarts(a)
      BY <3>1 DEF PayoutStarts, PayoutStep, EscrowOf
    <3>2. CASE PayoutFails(a)
      BY <3>2 DEF PayoutFails, PayoutStep, EscrowOf
    <3>3. CASE PayoutCompletes(a)
      BY <3>3 DEF PayoutCompletes, PayoutStep, EscrowOf
    <3> QED BY <1>5, <3>1, <3>2, <3>3 DEF PayoutOf
  <2>2. tx' \in [Attempt -> [status : TxStatus, stored : BOOLEAN]]
    BY <2>1, SetStatus
  <2>3. escrow' \in [tx : Attempt \cup {None}, status : EscrowStatus]
    BY <2>1
  <2> QED BY <2>1, <2>2, <2>3
<1>6. ASSUME NEW b \in Callback, NEW a \in Attempt, CallbackRead(b, a) PROVE TypeInv'
  BY <1>6 DEF CallbackRead
<1>7. ASSUME NEW b \in Callback, CallbackConfirm(b) PROVE TypeInv'
  <2>1. att[b] \in Attempt
    BY <1>7 DEF CallbackConfirm
  <2>2. PICK s \in TxStatus : tx' = [tx EXCEPT ![att[b]].status = s]
    BY <1>7 DEF CallbackConfirm
  <2>3. tx' \in [Attempt -> [status : TxStatus, stored : BOOLEAN]]
    BY <2>1, <2>2, SetStatus
  <2>4. UNCHANGED <<stk, escrow, event, archived, held, windows, faults>>
    BY <1>7 DEF CallbackConfirm
  <2>5. CASE pc' = [pc EXCEPT ![b] = "emit"] /\ UNCHANGED locals /\ pc[b] = "confirm"
    BY <2>3, <2>4, <2>5
  <2>6. CASE Return(b, "confirm")
    BY <2>3, <2>4, <2>6
  <2> QED BY <1>7, <2>5, <2>6 DEF CallbackConfirm
<1>8. ASSUME NEW b \in Callback, CallbackEmit(b) PROVE TypeInv'
  <2>1. [state |-> "queued", retries |-> 0] \in [state : EventState, retries : 0 .. MaxRetries]
    OBVIOUS
  <2>2. event' \in [Attempt -> [state : EventState, retries : 0 .. MaxRetries]]
    <3>1. event' = [event EXCEPT ![att[b]] = [state |-> "queued", retries |-> 0]]
      BY <1>8 DEF CallbackEmit
    <3> QED BY <2>1, <3>1
  <2>3. pc' \in [Calls -> PcValue] /\ LocalsInv'
    BY <1>8 DEF CallbackEmit
  <2> QED BY <1>8, <2>2, <2>3 DEF CallbackEmit
<1>9. ASSUME NEW h \in Tick, NEW a \in Attempt, PickEvent(h, a) PROVE TypeInv'
  BY <1>9 DEF PickEvent
<1>10. ASSUME NEW h \in Replay, NEW a \in Attempt, ReplayEvent(h, a) PROVE TypeInv'
  <2>1. event' \in [Attempt -> [state : EventState, retries : 0 .. MaxRetries]]
    <3>1. CASE event' = event
      BY <3>1
    <3>2. PICK s \in {"expired", "queued"} :
            event' # event => event' = [event EXCEPT ![a] = [state |-> s, retries |-> 0]]
      BY <1>10, ReplayedEvent
    <3> QED BY <3>1, <3>2
  <2> QED BY <1>10, <2>1 DEF ReplayEvent
<1>11. ASSUME NEW h \in Handler, HandlerStep(h) PROVE TypeInv'
  <2>1. CASE LockRead(h)
    BY <2>1 DEF LockRead
  <2>2. CASE LockInsert(h)
    BY <2>2 DEF LockInsert
  <2>3. CASE LockIncumbent(h)
    <3>1. windows' \in SUBSET Window
      <4>1. windows' = windows \/ windows' = windows \cup {"blind_read"}
        BY <2>3 DEF LockIncumbent
      <4> QED BY <4>1
    <3>2. faults' \in Nat
      <4>1. faults' = faults \/ faults' = faults + 1
        BY <2>3 DEF LockIncumbent
      <4> QED BY <4>1
    <3>3. /\ pc[h] = "incumbent"
          /\ pc' = [pc EXCEPT ![h] = "repoint"] \/ pc' = [pc EXCEPT ![h] = "mark"]
          /\ UNCHANGED <<tx, stk, escrow, event, archived, locals, held>>
      BY <2>3 DEF LockIncumbent
    <3>4. pc' \in [Calls -> PcValue]
      BY <3>3
    <3>5. LocalsInv'
      BY <3>3
    <3> QED BY <3>1, <3>2, <3>3, <3>4, <3>5
  <2>4. CASE LockRepoint(h)
    BY <2>4 DEF LockRepoint
  <2>5. CASE MarkProcessed(h)
    <3>1. att[h] \in Attempt /\ event' = [event EXCEPT ![att[h]].state = "processed"]
      BY <2>5 DEF MarkProcessed
    <3>2. event' \in [Attempt -> [state : EventState, retries : 0 .. MaxRetries]]
      BY <3>1
    <3>3. pc' \in [Calls -> PcValue] /\ LocalsInv'
      BY <2>5 DEF MarkProcessed
    <3> QED BY <2>5, <3>2, <3>3 DEF MarkProcessed
  <2>6. CASE MarkFailed(h)
    <3>1. att[h] \in Attempt
      BY <2>6 DEF MarkFailed
    <3>2. PICK n \in 0 .. MaxRetries : event' = [event EXCEPT ![att[h]].retries = n]
      <4> DEFINE n == event[att[h]].retries
      <4>1. n \in 0 .. MaxRetries
        BY <3>1
      <4>2. event' = [event EXCEPT ![att[h]].retries = IF n < MaxRetries THEN n + 1 ELSE n]
        BY <2>6, <3>1 DEF MarkFailed
      <4>3. (IF n < MaxRetries THEN n + 1 ELSE n) \in 0 .. MaxRetries
        BY <4>1
      <4> QED BY <4>2, <4>3
    <3>3. event' \in [Attempt -> [state : EventState, retries : 0 .. MaxRetries]]
      <4>1. event[att[h]] \in [state : EventState, retries : 0 .. MaxRetries]
        BY <3>1
      <4>2. [event[att[h]] EXCEPT !.retries = n] \in [state : EventState, retries : 0 .. MaxRetries]
        BY <4>1
      <4> QED BY <3>1, <3>2, <4>2
    <3>4. pc' \in [Calls -> PcValue] /\ LocalsInv'
      BY <2>6 DEF MarkFailed
    <3> QED BY <2>6, <3>3, <3>4 DEF MarkFailed
  <2> QED BY <1>11, <2>1, <2>2, <2>3, <2>4, <2>5, <2>6 DEF HandlerStep
<1>12. ASSUME NEW h \in Handler, HandlerThrows(h) PROVE TypeInv'
  BY <1>12 DEF HandlerThrows
<1>13. ASSUME NEW d \in Archiver, ArchiveStep(d) PROVE TypeInv'
  <2>1. CASE ArchiveReadTx(d)
    <3>1. windows' \in SUBSET Window
      <4>1. windows' = windows \/ windows' = windows \cup {"blind_read"}
        BY <2>1 DEF ArchiveReadTx, NotSeen, Missed
      <4> QED BY <4>1
    <3>2. faults' \in Nat
      <4>1. faults' = faults \/ faults' = faults + 1
        BY <2>1 DEF ArchiveReadTx, NotSeen, Missed
      <4> QED BY <4>1
    <3>3. held' \in [Archiver -> BOOLEAN]
      BY <2>1 DEF ArchiveReadTx, InEscrow
    <3> QED BY <2>1, <3>1, <3>2, <3>3 DEF ArchiveReadTx
  <2>2. CASE ArchiveReadEscrow(d)
    <3>1. windows' \in SUBSET Window
      <4>1. windows' = windows \/ windows' = windows \cup {"blind_read"}
        BY <2>2 DEF ArchiveReadEscrow, NotSeen, Missed
      <4> QED BY <4>1
    <3>2. faults' \in Nat
      <4>1. faults' = faults \/ faults' = faults + 1
        BY <2>2 DEF ArchiveReadEscrow, NotSeen, Missed
      <4> QED BY <4>1
    <3>3. pc' = [pc EXCEPT ![d] = "archive"] \/ pc' = [pc EXCEPT ![d] = "idle"]
      BY <2>2 DEF ArchiveReadEscrow
    <3> QED BY <2>2, <3>1, <3>2, <3>3 DEF ArchiveReadEscrow
  <2>3. CASE Archive(d)
    BY <2>3 DEF Archive
  <2> QED BY <1>13, <2>1, <2>2, <2>3 DEF ArchiveStep
<1>14. ASSUME NEW c \in Calls, Abort(c) PROVE TypeInv'
  BY <1>14 DEF Abort
<1> QED BY <1>1, <1>2, <1>3, <1>4, <1>5, <1>6, <1>7, <1>8, <1>9, <1>10, <1>11,
           <1>12, <1>13, <1>14 DEF Next

\* Every reachable state of the collection side is well-typed.
THEOREM TypeCorrect == Spec => []TypeOK
<1>1. TypeInv => TypeOK
  BY DEF TypeInv
<1> QED BY <1>1, TypeInit, TypeStep, PTL DEF Spec

-----------------------------------------------------------------------------
(* The strengthened invariants.                                            *)

\* A request at one of these points owns its attempt alone: no callback finds
\* the row yet.
Opening == {"push", "fail", "store"}

\* Rows, requests and callbacks on the one side, the customer's phone on the
\* other.
PhoneInv ==
  /\ \A a \in Attempt :
       /\ tx[a].status \in Funded => stk[a] = "charged"
       /\ tx[a].status = "failed" => stk[a] \in {"none", "declined"} \/ "unanswered" \in windows
       /\ tx[a].status = "failed" /\ tx[a].stored => stk[a] = "declined"
       /\ tx[a].status = "none" => stk[a] = "none" /\ ~ tx[a].stored
  /\ \A c \in Calls :
       /\ pc[c] \in Opening => tx[att[c]].status = "pending" /\ ~ tx[att[c]].stored
       /\ pc[c] = "push" => stk[att[c]] = "none"
       /\ pc[c] = "fail" => stk[att[c]] = "none" \/ "unanswered" \in windows
       /\ pc[c] = "escrow" => tx[att[c]].status # "none"
       /\ pc[c] = "confirm" => tx[att[c]].stored /\ stk[att[c]] \in {"charged", "declined"}
  /\ \A c, d \in Calls :
       pc[c] \in Opening /\ pc[d] \in Opening /\ att[c] = att[d] => c = d

\* While no window opened: live attempts, callbacks and re-points do not meet.
WindowInv ==
  /\ "contested" \notin windows =>
       \A a, b \in Attempt : tx[a].status \in Live /\ tx[b].status \in Live => a = b
  /\ "duplicate" \notin windows =>
       /\ \A b \in Calls : pc[b] = "confirm" => tx[att[b]].status = "pending"
       /\ \A b, d \in Calls :
            pc[b] = "confirm" /\ pc[d] = "confirm" /\ att[b] = att[d] => b = d
  /\ "blind_read" \notin windows =>
       \A h \in Calls : pc[h] = "repoint" => tx[row[h]].status = "failed"
  /\ \A b \in Calls : pc[b] = "confirm" => b \in Callback

\* What a handler of the event has in hand, and what it leaves behind.
HandlerPc == {"read", "insert", "incumbent", "repoint", "mark", "retry"}

LockInv ==
  /\ escrow.tx = None <=> escrow.status = "none"
  /\ escrow.tx # None => tx[escrow.tx].status # "none"
  /\ escrow.status = "released" => tx[escrow.tx].status \in Funded
  /\ \A a \in Attempt : event[a].state # "none" => tx[a].status \in Funded
  /\ \A c \in Calls :
       /\ pc[c] = "emit" => tx[att[c]].status \in Funded
       /\ pc[c] \in HandlerPc => event[att[c]].state # "none"
       /\ pc[c] \in {"incumbent", "repoint"} => row[c] # att[c] /\ tx[row[c]].status # "none"
  /\ "contested" \notin windows =>
       /\ \A a \in Attempt : event[a].state = "processed" => escrow.tx = a
       /\ \A c \in Calls :
            /\ pc[c] = "mark" => escrow.tx = att[c]
            /\ pc[c] \in {"incumbent", "repoint"} => escrow.tx \in {row[c], att[c]}

\* While no callback was doubled and no read failed: settled escrow belongs to
\* settled money, and an archive call knows of what it saw.
Unspoiled == windows \cap {"duplicate", "blind_read"} = {}

SettledInv ==
  /\ Unspoiled /\ escrow.status = "released" => tx[escrow.tx].status = "released"
  /\ \A d \in Archiver :
       /\ pc[d] = "held_escrow" /\ held[d] => escrow.status # "none"
       /\ Unspoiled /\ pc[d] = "archive" /\ held[d] => escrow.status = "released"

-----------------------------------------------------------------------------
(* PhoneInv is inductive.                                                  *)

\* One opener per attempt, no answer is applied to a row that is not the
\* answer's, and a row only follows the phone: kept by every step.
LEMMA PhoneStep == TypeInv /\ PhoneInv /\ [Next]_vars => PhoneInv'
<1> SUFFICES ASSUME TypeInv, PhoneInv, [Next]_vars PROVE PhoneInv'
  OBVIOUS
<1> USE DEF TypeInv, TypeOK, LocalsInv, AttPc, PcValue, TxStatus, Window, locals, Goto,
            Return, Fault, When, TxBecomes, Calls, Handler, PhoneInv, Opening, Funded, Live
<1>1. CASE UNCHANGED vars
  BY <1>1 DEF vars
<1>2. ASSUME NEW c \in Client, Initiate(c) PROVE PhoneInv'
  <2>1. CASE InitiateRead(c)
    BY <2>1 DEF InitiateRead
  <2>2. CASE CreateTx(c)
    BY <2>2 DEF CreateTx
  <2>3. CASE StkPush(c)
    <3>1. /\ att[c] \in Attempt /\ pc[c] = "push"
          /\ UNCHANGED <<tx, escrow, event, archived, locals, held>>
      BY <2>3 DEF StkPush
    <3>2. /\ stk[att[c]] = "none" /\ tx[att[c]].status = "pending" /\ ~ tx[att[c]].stored
          /\ \A d \in Calls : d # c /\ pc[d] \in Opening => att[d] # att[c]
      BY <3>1
    <3>3. CASE pc' = [pc EXCEPT ![c] = "store"] /\ stk' = [stk EXCEPT ![att[c]] = "prompted"]
               /\ windows' = windows
      BY <3>1, <3>2, <3>3
    <3>4. CASE pc' = [pc EXCEPT ![c] = "fail"] /\ stk' = stk /\ windows' = windows
      BY <3>1, <3>2, <3>4
    <3>5. CASE pc' = [pc EXCEPT ![c] = "fail"] /\ stk' = [stk EXCEPT ![att[c]] = "prompted"]
               /\ windows' = windows \cup {"unanswered"}
      BY <3>1, <3>2, <3>5
    <3> QED BY <2>3, <3>3, <3>4, <3>5 DEF StkPush
  <2>4. CASE PushFailed(c)
    BY <2>4 DEF PushFailed
  <2>5. CASE StoreCheckoutId(c)
    BY <2>5 DEF StoreCheckoutId
  <2>6. CASE InsertEscrow(c)
    BY <2>6 DEF InsertEscrow
  <2> QED BY <1>2, <2>1, <2>2, <2>3, <2>4, <2>5, <2>6 DEF Initiate
<1>3. ASSUME NEW a \in Attempt, CustomerAnswers(a) PROVE PhoneInv'
  BY <1>3 DEF CustomerAnswers
<1>4. ASSUME NEW a \in Attempt, EventExpires(a) PROVE PhoneInv'
  BY <1>4 DEF EventExpires
<1>5. ASSUME NEW a \in Attempt, PayoutOf(a) PROVE PhoneInv'
  <2>1. PICK s \in Funded : tx' = [tx EXCEPT ![a].status = s]
    BY <1>5 DEF PayoutOf, PayoutStarts, PayoutFails, PayoutCompletes, PayoutStep
  <2>2. /\ tx[a].status \in Funded
        /\ UNCHANGED <<stk, event, archived, pc, locals, held, windows, faults>>
    BY <1>5 DEF PayoutOf, PayoutStarts, PayoutFails, PayoutCompletes, PayoutStep
  <2> QED BY <2>1, <2>2
<1>6. ASSUME NEW b \in Callback, NEW a \in Attempt, CallbackRead(b, a) PROVE PhoneInv'
  BY <1>6 DEF CallbackRead
<1>7. ASSUME NEW b \in Callback, CallbackConfirm(b) PROVE PhoneInv'
  <2>1. /\ att[b] \in Attempt /\ pc[b] = "confirm" /\ tx[att[b]].stored
        /\ UNCHANGED <<stk, escrow, event, archived, held, windows, faults>>
    BY <1>7 DEF CallbackConfirm
  <2>2. \A d \in Calls : pc[d] \in Opening => att[d] # att[b]
    BY <2>1
  <2>3. CASE pc' = [pc EXCEPT ![b] = "emit"] /\ UNCHANGED locals
             /\ stk[att[b]] = "charged" /\ tx' = [tx EXCEPT ![att[b]].status = "paid"]
    BY <2>1, <2>2, <2>3
  <2>4. CASE Return(b, "confirm") /\ stk[att[b]] = "declined"
             /\ tx' = [tx EXCEPT ![att[b]].status = "failed"]
    BY <2>1, <2>2, <2>4
  <2> QED BY <1>7, <2>3, <2>4 DEF CallbackConfirm
<1>8. ASSUME NEW b \in Callback, CallbackEmit(b) PROVE PhoneInv'
  BY <1>8 DEF CallbackEmit
<1>9. ASSUME NEW h \in Tick, NEW a \in Attempt, PickEvent(h, a) PROVE PhoneInv'
  BY <1>9 DEF PickEvent
<1>10. ASSUME NEW h \in Replay, NEW a \in Attempt, ReplayEvent(h, a) PROVE PhoneInv'
  BY <1>10 DEF ReplayEvent
<1>11. ASSUME NEW h \in Handler, HandlerStep(h) PROVE PhoneInv'
  <2>1. CASE LockRead(h)
    BY <2>1 DEF LockRead
  <2>2. CASE LockInsert(h)
    BY <2>2 DEF LockInsert
  <2>3. CASE LockIncumbent(h)
    BY <2>3 DEF LockIncumbent
  <2>4. CASE LockRepoint(h)
    BY <2>4 DEF LockRepoint
  <2>5. CASE MarkProcessed(h)
    BY <2>5 DEF MarkProcessed
  <2>6. CASE MarkFailed(h)
    BY <2>6 DEF MarkFailed
  <2> QED BY <1>11, <2>1, <2>2, <2>3, <2>4, <2>5, <2>6 DEF HandlerStep
<1>12. ASSUME NEW h \in Handler, HandlerThrows(h) PROVE PhoneInv'
  BY <1>12 DEF HandlerThrows
<1>13. ASSUME NEW d \in Archiver, ArchiveStep(d) PROVE PhoneInv'
  <2>1. CASE ArchiveReadTx(d)
    BY <2>1 DEF ArchiveReadTx, NotSeen, Missed
  <2>2. CASE ArchiveReadEscrow(d)
    BY <2>2 DEF ArchiveReadEscrow, NotSeen, Missed
  <2>3. CASE Archive(d)
    BY <2>3 DEF Archive
  <2> QED BY <1>13, <2>1, <2>2, <2>3 DEF ArchiveStep
<1>14. ASSUME NEW c \in Calls, Abort(c) PROVE PhoneInv'
  BY <1>14 DEF Abort
<1> QED BY <1>1, <1>2, <1>3, <1>4, <1>5, <1>6, <1>7, <1>8, <1>9, <1>10, <1>11,
           <1>12, <1>13, <1>14 DEF Next


LEMMA PhoneInit == Init => PhoneInv
BY DEF Init, PhoneInv, Opening, Funded, Live

\* A funded transaction was charged and a charged one is not marked failed,
\* for any number of requests and of late, repeated and racing callbacks.
THEOREM RowMatchesPhoneCorrect == Spec => []RowMatchesPhone
<1>1. TypeInv /\ PhoneInv => RowMatchesPhone
  BY DEF TypeInv, TypeOK, PhoneInv, RowMatchesPhone
<1> QED BY <1>1, TypeInit, TypeStep, PhoneInit, PhoneStep, PTL DEF Spec

-----------------------------------------------------------------------------
(* How a row's status moves, and what a window never does.                 *)

StatusMoves ==
  /\ windows \subseteq windows'
  /\ \A a \in Attempt :
       /\ tx[a].status # "none" => tx'[a].status # "none"
       /\ tx[a].status \in Funded => tx'[a].status \in Funded
       /\ tx[a].status = "failed" => tx'[a].status = "failed"
       /\ tx'[a].status \in Live => tx[a].status \in Live \cup {"none"}

\* Funded and failed are final, and no row comes back to life.
LEMMA StatusStep == TypeInv /\ PhoneInv /\ [Next]_vars => StatusMoves
<1> SUFFICES ASSUME TypeInv, PhoneInv, [Next]_vars PROVE StatusMoves
  OBVIOUS
<1> USE DEF TypeInv, TypeOK, LocalsInv, AttPc, PcValue, TxStatus, Window, locals, Goto,
            Return, Fault, When, TxBecomes, Calls, Handler, Funded, Live, PhoneInv, Opening, StatusMoves
<1>1. CASE UNCHANGED vars
  BY <1>1 DEF vars
<1>2. ASSUME NEW c \in Client, Initiate(c) PROVE StatusMoves
  <2>1. CASE InitiateRead(c)
    BY <2>1 DEF InitiateRead
  <2>2. CASE CreateTx(c)
    BY <2>2 DEF CreateTx
  <2>3. CASE StkPush(c)
    BY <2>3 DEF StkPush
  <2>4. CASE PushFailed(c)
    BY <2>4 DEF PushFailed
  <2>5. CASE StoreCheckoutId(c)
    BY <2>5 DEF StoreCheckoutId
  <2>6. CASE InsertEscrow(c)
    BY <2>6 DEF InsertEscrow
  <2> QED BY <1>2, <2>1, <2>2, <2>3, <2>4, <2>5, <2>6 DEF Initiate
<1>3. ASSUME NEW a \in Attempt, CustomerAnswers(a) PROVE StatusMoves
  BY <1>3 DEF CustomerAnswers
<1>4. ASSUME NEW a \in Attempt, EventExpires(a) PROVE StatusMoves
  BY <1>4 DEF EventExpires
<1>5. ASSUME NEW a \in Attempt, PayoutOf(a) PROVE StatusMoves
  <2>1. CASE PayoutStarts(a)
    BY <2>1 DEF PayoutStarts, PayoutStep, EscrowOf
  <2>2. CASE PayoutFails(a)
    BY <2>2 DEF PayoutFails, PayoutStep, EscrowOf
  <2>3. CASE PayoutCompletes(a)
    BY <2>3 DEF PayoutCompletes, PayoutStep, EscrowOf
  <2> QED BY <1>5, <2>1, <2>2, <2>3 DEF PayoutOf
<1>6. ASSUME NEW b \in Callback, NEW a \in Attempt, CallbackRead(b, a) PROVE StatusMoves
  BY <1>6 DEF CallbackRead
<1>7. ASSUME NEW b \in Callback, CallbackConfirm(b) PROVE StatusMoves
  <2>1. att[b] \in Attempt /\ tx[att[b]].stored /\ windows' = windows
    BY <1>7 DEF CallbackConfirm
  <2>2. CASE stk[att[b]] = "charged" /\ tx' = [tx EXCEPT ![att[b]].status = "paid"]
    BY <2>1, <2>2
  <2>3. CASE stk[att[b]] = "declined" /\ tx' = [tx EXCEPT ![att[b]].status = "failed"]
    BY <2>1, <2>3
  <2> QED BY <1>7, <2>2, <2>3 DEF CallbackConfirm
<1>8. ASSUME NEW b \in Callback, CallbackEmit(b) PROVE StatusMoves
  BY <1>8 DEF CallbackEmit
<1>9. ASSUME NEW h \in Tick, NEW a \in Attempt, PickEvent(h, a) PROVE StatusMoves
  BY <1>9 DEF PickEvent
<1>10. ASSUME NEW h \in Replay, NEW a \in Attempt, ReplayEvent(h, a) PROVE StatusMoves
  BY <1>10 DEF ReplayEvent
<1>11. ASSUME NEW h \in Handler, HandlerStep(h) PROVE StatusMoves
  <2>1. CASE LockRead(h)
    BY <2>1 DEF LockRead
  <2>2. CASE LockInsert(h)
    BY <2>2 DEF LockInsert
  <2>3. CASE LockIncumbent(h)
    BY <2>3 DEF LockIncumbent
  <2>4. CASE LockRepoint(h)
    BY <2>4 DEF LockRepoint
  <2>5. CASE MarkProcessed(h)
    BY <2>5 DEF MarkProcessed
  <2>6. CASE MarkFailed(h)
    BY <2>6 DEF MarkFailed
  <2> QED BY <1>11, <2>1, <2>2, <2>3, <2>4, <2>5, <2>6 DEF HandlerStep
<1>12. ASSUME NEW h \in Handler, HandlerThrows(h) PROVE StatusMoves
  BY <1>12 DEF HandlerThrows
<1>13. ASSUME NEW d \in Archiver, ArchiveStep(d) PROVE StatusMoves
  <2>1. CASE ArchiveReadTx(d)
    BY <2>1 DEF ArchiveReadTx, NotSeen, Missed
  <2>2. CASE ArchiveReadEscrow(d)
    BY <2>2 DEF ArchiveReadEscrow, NotSeen, Missed
  <2>3. CASE Archive(d)
    BY <2>3 DEF Archive
  <2> QED BY <1>13, <2>1, <2>2, <2>3 DEF ArchiveStep
<1>14. ASSUME NEW c \in Calls, Abort(c) PROVE StatusMoves
  BY <1>14 DEF Abort
<1> QED BY <1>1, <1>2, <1>3, <1>4, <1>5, <1>6, <1>7, <1>8, <1>9, <1>10, <1>11,
           <1>12, <1>13, <1>14 DEF Next

-----------------------------------------------------------------------------
(* WindowInv is inductive.                                                 *)

LEMMA WindowStep == TypeInv /\ PhoneInv /\ WindowInv /\ [Next]_vars => WindowInv'
<1> SUFFICES ASSUME TypeInv, PhoneInv, WindowInv, [Next]_vars PROVE WindowInv'
  OBVIOUS
<1> USE StatusStep DEF TypeInv, TypeOK, LocalsInv, AttPc, PcValue, TxStatus, Window, locals, Goto,
            Return, Fault, When, TxBecomes, Calls, Handler, Funded, Live, WindowInv, StatusMoves
<1>1. CASE UNCHANGED vars
  BY <1>1 DEF vars
<1>2. ASSUME NEW c \in Client, Initiate(c) PROVE WindowInv'
  <2>1. CASE InitiateRead(c)
    BY <2>1 DEF InitiateRead
  <2>2. CASE CreateTx(c)
    BY <2>2 DEF CreateTx
  <2>3. CASE StkPush(c)
    BY <2>3 DEF StkPush
  <2>4. CASE PushFailed(c)
    <3>1. /\ att[c] \in Attempt /\ ~ tx[att[c]].stored /\ pc[c] = "fail"
      BY <2>4 DEF PushFailed, PhoneInv, Opening
    <3>2. \A b \in Calls : pc[b] = "confirm" => att[b] # att[c]
      BY <3>1 DEF PhoneInv
    <3>3. /\ windows' = windows /\ pc' = [pc EXCEPT ![c] = "idle"]
          /\ att' = [att EXCEPT ![c] = None] /\ row' = [row EXCEPT ![c] = None]
          /\ tx' = [tx EXCEPT ![att[c]].status = "failed"]
      BY <2>4 DEF PushFailed
    <3>4. \A a \in Attempt : tx'[a].status = IF a = att[c] THEN "failed" ELSE tx[a].status
      BY <3>1, <3>3
    <3>5. ("contested" \notin windows =>
           \A a, b \in Attempt : tx[a].status \in Live /\ tx[b].status \in Live => a = b)'
      BY <3>3, <3>4
    <3>6. ("duplicate" \notin windows =>
           /\ \A b \in Calls : pc[b] = "confirm" => tx[att[b]].status = "pending"
           /\ \A b, d \in Calls :
                pc[b] = "confirm" /\ pc[d] = "confirm" /\ att[b] = att[d] => b = d)'
      BY <3>2, <3>3, <3>4
    <3>7. ("blind_read" \notin windows =>
           \A h \in Calls : pc[h] = "repoint" => tx[row[h]].status = "failed")'
      BY <3>3, <3>4
    <3>8. (\A b \in Calls : pc[b] = "confirm" => b \in Callback)'
      BY <3>3
    <3> QED BY <3>5, <3>6, <3>7, <3>8
  <2>5. CASE StoreCheckoutId(c)
    BY <2>5 DEF StoreCheckoutId
  <2>6. CASE InsertEscrow(c)
    BY <2>6 DEF InsertEscrow
  <2> QED BY <1>2, <2>1, <2>2, <2>3, <2>4, <2>5, <2>6 DEF Initiate
<1>3. ASSUME NEW a \in Attempt, CustomerAnswers(a) PROVE WindowInv'
  BY <1>3 DEF CustomerAnswers
<1>4. ASSUME NEW a \in Attempt, EventExpires(a) PROVE WindowInv'
  BY <1>4 DEF EventExpires
<1>5. ASSUME NEW a \in Attempt, PayoutOf(a) PROVE WindowInv'
  <2>1. CASE PayoutStarts(a)
    BY <2>1 DEF PayoutStarts, PayoutStep, EscrowOf
  <2>2. CASE PayoutFails(a)
    BY <2>2 DEF PayoutFails, PayoutStep, EscrowOf
  <2>3. CASE PayoutCompletes(a)
    BY <2>3 DEF PayoutCompletes, PayoutStep, EscrowOf
  <2> QED BY <1>5, <2>1, <2>2, <2>3 DEF PayoutOf
<1>6. ASSUME NEW b \in Callback, NEW a \in Attempt, CallbackRead(b, a) PROVE WindowInv'
  BY <1>6 DEF CallbackRead
<1>7. ASSUME NEW b \in Callback, CallbackConfirm(b) PROVE WindowInv'
  <2>1. /\ att[b] \in Attempt /\ pc[b] = "confirm" /\ windows' = windows
        /\ pc' = [pc EXCEPT ![b] = "emit"] \/ pc' = [pc EXCEPT ![b] = "idle"]
        /\ att' = att \/ att' = [att EXCEPT ![b] = None]
        /\ row' = row \/ row' = [row EXCEPT ![b] = None]
    BY <1>7 DEF CallbackConfirm
  <2>2. PICK s \in {"paid", "failed"} : tx' = [tx EXCEPT ![att[b]].status = s]
    BY <1>7 DEF CallbackConfirm
  <2>3. \A a \in Attempt : tx'[a].status = IF a = att[b] THEN s ELSE tx[a].status
    BY <2>1, <2>2
  <2>4. ("contested" \notin windows =>
         \A a, c \in Attempt : tx[a].status \in Live /\ tx[c].status \in Live => a = c)'
    <3>1. StatusMoves /\ \A a \in Attempt : a # att[b] => tx'[a] = tx[a]
      BY <2>2, StatusStep
    <3>2. tx[att[b]].status = "failed" => tx'[att[b]].status = "failed"
      BY <3>1, <2>1
    <3> QED BY <2>1, <2>3, <3>1, <3>2, StatusStep DEF PhoneInv
  <2>5. ("duplicate" \notin windows =>
         /\ \A c \in Calls : pc[c] = "confirm" => tx[att[c]].status = "pending"
         /\ \A c, d \in Calls :
              pc[c] = "confirm" /\ pc[d] = "confirm" /\ att[c] = att[d] => c = d)'
    <3>1. \A c \in Calls : pc'[c] = "confirm" =>
            /\ c # b /\ pc[c] = "confirm" /\ att'[c] = att[c] /\ att[c] \in Attempt
            /\ "duplicate" \notin windows => att[c] # att[b]
      BY <2>1
    <3> QED BY <2>1, <2>3, <3>1
  <2>6. ("blind_read" \notin windows =>
         \A h \in Calls : pc[h] = "repoint" => tx[row[h]].status = "failed")'
    BY <2>1, StatusStep
  <2>7. (\A c \in Calls : pc[c] = "confirm" => c \in Callback)'
    BY <2>1
  <2> QED BY <2>4, <2>5, <2>6, <2>7
<1>8. ASSUME NEW b \in Callback, CallbackEmit(b) PROVE WindowInv'
  BY <1>8 DEF CallbackEmit
<1>9. ASSUME NEW h \in Tick, NEW a \in Attempt, PickEvent(h, a) PROVE WindowInv'
  BY <1>9 DEF PickEvent
<1>10. ASSUME NEW h \in Replay, NEW a \in Attempt, ReplayEvent(h, a) PROVE WindowInv'
  BY <1>10 DEF ReplayEvent
<1>11. ASSUME NEW h \in Handler, HandlerStep(h) PROVE WindowInv'
  <2>1. CASE LockRead(h)
    BY <2>1 DEF LockRead
  <2>2. CASE LockInsert(h)
    BY <2>2 DEF LockInsert
  <2>3. CASE LockIncumbent(h)
    BY <2>3 DEF LockIncumbent
  <2>4. CASE LockRepoint(h)
    BY <2>4 DEF LockRepoint
  <2>5. CASE MarkProcessed(h)
    BY <2>5 DEF MarkProcessed
  <2>6. CASE MarkFailed(h)
    BY <2>6 DEF MarkFailed
  <2> QED BY <1>11, <2>1, <2>2, <2>3, <2>4, <2>5, <2>6 DEF HandlerStep
<1>12. ASSUME NEW h \in Handler, HandlerThrows(h) PROVE WindowInv'
  BY <1>12 DEF HandlerThrows
<1>13. ASSUME NEW d \in Archiver, ArchiveStep(d) PROVE WindowInv'
  <2>1. CASE ArchiveReadTx(d)
    BY <2>1 DEF ArchiveReadTx, NotSeen, Missed
  <2>2. CASE ArchiveReadEscrow(d)
    BY <2>2 DEF ArchiveReadEscrow, NotSeen, Missed
  <2>3. CASE Archive(d)
    BY <2>3 DEF Archive
  <2> QED BY <1>13, <2>1, <2>2, <2>3 DEF ArchiveStep
<1>14. ASSUME NEW c \in Calls, Abort(c) PROVE WindowInv'
  BY <1>14 DEF Abort
<1> QED BY <1>1, <1>2, <1>3, <1>4, <1>5, <1>6, <1>7, <1>8, <1>9, <1>10, <1>11,
           <1>12, <1>13, <1>14 DEF Next

LEMMA WindowInit == Init => WindowInv
BY DEF Init, WindowInv, Live, Funded

-----------------------------------------------------------------------------
(* Who writes the escrow row.                                              *)

EscrowWrite ==
  \/ \E c \in Client : InsertEscrow(c)
  \/ \E h \in Handler : LockInsert(h) \/ LockRepoint(h)
  \/ \E a \in Attempt : PayoutOf(a)

\* Nothing but the three inserts and updates of the code and the payout.
LEMMA EscrowWriters == [Next]_vars => EscrowWrite \/ UNCHANGED escrow
<1> SUFFICES ASSUME [Next]_vars PROVE EscrowWrite \/ UNCHANGED escrow
  OBVIOUS
<1> USE DEF EscrowWrite
<1>1. ASSUME NEW c \in Client, Initiate(c) PROVE EscrowWrite \/ UNCHANGED escrow
  BY <1>1 DEF Initiate, InitiateRead, CreateTx, StkPush, PushFailed, StoreCheckoutId
<1>2. ASSUME NEW h \in Handler, HandlerStep(h) PROVE EscrowWrite \/ UNCHANGED escrow
  BY <1>2 DEF HandlerStep, LockRead, LockIncumbent, MarkProcessed, MarkFailed
<1>3. ASSUME NEW d \in Archiver, ArchiveStep(d) PROVE UNCHANGED escrow
  BY <1>3 DEF ArchiveStep, ArchiveReadTx, ArchiveReadEscrow, Archive
<1> QED BY <1>1, <1>2, <1>3 DEF Next, vars, CustomerAnswers, EventExpires, CallbackRead,
           CallbackConfirm, CallbackEmit, PickEvent, ReplayEvent, HandlerThrows, Abort

-----------------------------------------------------------------------------
(* The theorems about re-pointing and about settled money.                 *)

\* "Two funded payments for one post, which initiate is supposed to prevent":
\* initiate does prevent them, for any number of clients, callbacks and handlers,
\* unless an attempt came while another was live, as when two initiates read
\* before either wrote.
THEOREM FundedOnceUncontested == Spec => []("contested" \notin windows => FundedOnce)
<1>1. WindowInv => ("contested" \notin windows => FundedOnce)
  BY DEF WindowInv, FundedOnce, Funded, Live
<1> QED BY <1>1, TypeInit, TypeStep, PhoneInit, PhoneStep, WindowInit, WindowStep,
           PTL DEF Spec

\* A re-point finds its incumbent failed, for any number of handlers, ticks,
\* replays and attempts, unless the incumbent could not be read.
THEOREM RepointsOnlyFailedCorrect == Spec => RepointsOnlyFailed
<1>1. TypeInv /\ PhoneInv /\ WindowInv /\ [Next]_vars =>
        [ "blind_read" \notin windows' /\ escrow.tx # None /\ escrow'.tx # escrow.tx
            => tx[escrow.tx].status = "failed" ]_vars
  <2> SUFFICES ASSUME TypeInv, WindowInv, StatusMoves, EscrowWrite,
                      "blind_read" \notin windows', escrow.tx # None, escrow'.tx # escrow.tx
               PROVE  tx[escrow.tx].status = "failed"
    BY StatusStep, EscrowWriters
  <2>1. "blind_read" \notin windows
    BY DEF StatusMoves
  <2>2. ASSUME NEW c \in Client, InsertEscrow(c) PROVE FALSE
    BY <2>2 DEF InsertEscrow
  <2>3. ASSUME NEW h \in Handler, LockInsert(h) PROVE FALSE
    BY <2>3 DEF LockInsert
  <2>4. ASSUME NEW a \in Attempt, PayoutOf(a) PROVE FALSE
    BY <2>4 DEF PayoutOf, PayoutStarts, PayoutFails, PayoutCompletes, PayoutStep, EscrowOf,
                TypeInv, TypeOK
  <2>5. ASSUME NEW h \in Handler, LockRepoint(h) PROVE tx[escrow.tx].status = "failed"
    BY <2>1, <2>5 DEF LockRepoint, Goto, WindowInv, Calls
  <2> QED BY <2>2, <2>3, <2>4, <2>5 DEF EscrowWrite
<1> QED BY <1>1, TypeInit, TypeStep, PhoneInit, PhoneStep, WindowInit, WindowStep, PTL
        DEF Spec, RepointsOnlyFailed

\* Settled money is final, for any number of calls and faults, unless a
\* callback was doubled or an incumbent could not be read.
THEOREM SettledNeverResurrectedCorrect == Spec => SettledNeverResurrected
<1>1. TypeInv /\ PhoneInv /\ WindowInv /\ [Next]_vars =>
        [ windows' \cap {"duplicate", "blind_read"} = {} =>
            \A a \in Attempt : tx[a].status = "released" =>
              /\ tx'[a] = tx[a]
              /\ escrow.tx = a => escrow' = escrow ]_vars
  <2> SUFFICES ASSUME TypeInv, PhoneInv, WindowInv, [Next]_vars, StatusMoves,
                      "duplicate" \notin windows', "blind_read" \notin windows',
                      NEW r \in Attempt, tx[r].status = "released"
               PROVE  /\ tx'[r] = tx[r]
                      /\ escrow.tx = r => escrow' = escrow
    BY StatusStep
  <2>1. "duplicate" \notin windows /\ "blind_read" \notin windows
    BY DEF StatusMoves
  <2>2. tx'[r] = tx[r]
    <3> USE <2>1 DEF TypeInv, TypeOK, LocalsInv, AttPc, PcValue, Goto, Return, TxBecomes,
             PhoneInv, Opening, WindowInv, Calls
    <3>1. ASSUME NEW c \in Client, Initiate(c) PROVE tx'[r] = tx[r]
      <4>1. CASE InitiateRead(c) \/ StkPush(c) \/ InsertEscrow(c)
        BY <4>1 DEF InitiateRead, StkPush, InsertEscrow
      <4>2. CASE CreateTx(c)
        BY <4>2 DEF CreateTx
      <4>3. CASE PushFailed(c)
        BY <4>3 DEF PushFailed
      <4>4. CASE StoreCheckoutId(c)
        BY <4>4 DEF StoreCheckoutId
      <4> QED BY <3>1, <4>1, <4>2, <4>3, <4>4 DEF Initiate
    <3>2. ASSUME NEW a \in Attempt, PayoutOf(a) PROVE tx'[r] = tx[r]
      BY <3>2 DEF PayoutOf, PayoutStarts, PayoutFails, PayoutCompletes, PayoutStep
    <3>3. ASSUME NEW b \in Callback, CallbackConfirm(b) PROVE tx'[r] = tx[r]
      BY <3>3 DEF CallbackConfirm
    <3>4. ASSUME NEW h \in Handler, HandlerStep(h) PROVE tx' = tx
      BY <3>4 DEF HandlerStep, LockRead, LockInsert, LockIncumbent, LockRepoint,
                  MarkProcessed, MarkFailed
    <3>5. ASSUME NEW d \in Archiver, ArchiveStep(d) PROVE tx' = tx
      BY <3>5 DEF ArchiveStep, ArchiveReadTx, ArchiveReadEscrow, Archive
    <3> QED BY <3>1, <3>2, <3>3, <3>4, <3>5 DEF Next, vars, CustomerAnswers, EventExpires,
               CallbackRead, CallbackEmit, PickEvent, ReplayEvent, HandlerThrows, Abort
  <2>3. ASSUME escrow.tx = r PROVE escrow' = escrow
    <3>1. ASSUME NEW c \in Client, InsertEscrow(c) PROVE escrow' = escrow
      BY <2>3, <3>1, NoneIsNull DEF InsertEscrow
    <3>2. ASSUME NEW h \in Handler, LockInsert(h) PROVE escrow' = escrow
      BY <2>3, <3>2, NoneIsNull DEF LockInsert
    <3>3. ASSUME NEW h \in Handler, LockRepoint(h) PROVE escrow' = escrow
      BY <2>1, <2>3, <3>3 DEF LockRepoint, Goto, WindowInv, Calls
    <3>4. ASSUME NEW a \in Attempt, PayoutOf(a) PROVE escrow' = escrow
      BY <2>3, <3>4 DEF PayoutOf, PayoutStarts, PayoutFails, PayoutCompletes, PayoutStep,
                        EscrowOf
    <3> QED BY <3>1, <3>2, <3>3, <3>4, EscrowWriters DEF EscrowWrite
  <2> QED BY <2>2, <2>3
<1> QED BY <1>1, TypeInit, TypeStep, PhoneInit, PhoneStep, WindowInit, WindowStep, PTL
        DEF Spec, SettledNeverResurrected

-----------------------------------------------------------------------------
(* LockInv is inductive.                                                   *)

LEMMA LockStep == TypeInv /\ PhoneInv /\ WindowInv /\ LockInv /\ [Next]_vars => LockInv'
<1> SUFFICES ASSUME TypeInv, PhoneInv, WindowInv, LockInv, [Next]_vars, StatusMoves
             PROVE  LockInv'
  BY StatusStep
<1> USE NoneIsNull DEF TypeInv, TypeOK, LocalsInv, AttPc, PcValue, TxStatus, Window, locals, Goto,
            Return, Fault, When, TxBecomes, Calls, Handler, Funded, Live, EscrowStatus, EventState, LockInv, HandlerPc,
            StatusMoves
<1>paid. \A c \in Calls : pc[c] \in HandlerPc =>
         att[c] \in Attempt /\ tx[att[c]].status \in Funded
  OBVIOUS
<1>one. "contested" \notin windows =>
         \A a, b \in Attempt :
           tx[a].status \in Funded /\ tx[b].status \in Live => a = b
  BY DEF WindowInv
<1>1. CASE UNCHANGED vars
  BY <1>1 DEF vars
<1>2. ASSUME NEW c \in Client, Initiate(c) PROVE LockInv'
  <2>1. CASE InitiateRead(c)
    BY <2>1 DEF InitiateRead
  <2>2. CASE CreateTx(c)
    BY <2>2 DEF CreateTx
  <2>3. CASE StkPush(c)
    BY <2>3 DEF StkPush
  <2>4. CASE PushFailed(c)
    BY <2>4 DEF PushFailed
  <2>5. CASE StoreCheckoutId(c)
    BY <2>5 DEF StoreCheckoutId
  <2>6. CASE InsertEscrow(c)
    <3>1. /\ att[c] \in Attempt /\ tx[att[c]].status # "none"
          /\ pc' = [pc EXCEPT ![c] = "idle"]
          /\ UNCHANGED <<tx, stk, event, archived, held, windows>>
          /\ att' = [att EXCEPT ![c] = None] /\ row' = [row EXCEPT ![c] = None]
      BY <2>6 DEF InsertEscrow, PhoneInv
    <3>2. CASE escrow.tx = None /\ escrow' = [tx |-> att[c], status |-> "locked"]
      <4>1. /\ escrow'.tx = att[c] /\ escrow'.status = "locked" /\ att[c] # None
            /\ UNCHANGED <<tx, event, windows>>
            /\ \A a \in Attempt : a # None
        BY <3>1, <3>2
      <4> HIDE DEF TypeInv
      <4>2. "contested" \notin windows =>
              /\ \A a \in Attempt : event[a].state # "processed"
              /\ \A d \in Calls : pc[d] \notin {"mark", "incumbent", "repoint"}
        <5>1. \A d \in Calls : pc[d] \in HandlerPc => att[d] # None
          BY <1>paid, NoneIsNull
        <5>2. \A d \in Calls : pc[d] \in {"incumbent", "repoint"} => row[d] # None
          BY NoneIsNull DEF TypeInv
        <5> QED BY <4>1, <3>2, <5>1, <5>2
      <4>3. \A d \in Calls : pc'[d] # "idle" =>
              d # c /\ pc'[d] = pc[d] /\ att'[d] = att[d] /\ row'[d] = row[d]
        BY <3>1 DEF TypeInv
      <4>4. (/\ escrow.tx = None <=> escrow.status = "none"
             /\ escrow.tx # None => tx[escrow.tx].status # "none"
             /\ escrow.status = "released" => tx[escrow.tx].status \in Funded
             /\ \A a \in Attempt : event[a].state # "none" => tx[a].status \in Funded)'
        BY <3>1, <4>1
      <4>5. (\A d \in Calls :
              /\ pc[d] = "emit" => tx[att[d]].status \in Funded
              /\ pc[d] \in HandlerPc => event[att[d]].state # "none"
              /\ pc[d] \in {"incumbent", "repoint"} =>
                   row[d] # att[d] /\ tx[row[d]].status # "none")'
        BY <4>1, <4>3
      <4>6. ("contested" \notin windows =>
              /\ \A a \in Attempt : event[a].state = "processed" => escrow.tx = a
              /\ \A d \in Calls :
                   /\ pc[d] = "mark" => escrow.tx = att[d]
                   /\ pc[d] \in {"incumbent", "repoint"} => escrow.tx \in {row[d], att[d]})'
        BY <4>1, <4>2, <4>3
      <4> QED BY <4>4, <4>5, <4>6
    <3>3. CASE UNCHANGED escrow
      BY <3>1, <3>3
    <3> QED BY <2>6, <3>2, <3>3 DEF InsertEscrow
  <2> QED BY <1>2, <2>1, <2>2, <2>3, <2>4, <2>5, <2>6 DEF Initiate
<1>3. ASSUME NEW a \in Attempt, CustomerAnswers(a) PROVE LockInv'
  BY <1>3 DEF CustomerAnswers
<1>4. ASSUME NEW a \in Attempt, EventExpires(a) PROVE LockInv'
  BY <1>4 DEF EventExpires
<1>5. ASSUME NEW a \in Attempt, PayoutOf(a) PROVE LockInv'
  <2>1. CASE PayoutStarts(a)
    BY <2>1 DEF PayoutStarts, PayoutStep, EscrowOf
  <2>2. CASE PayoutFails(a)
    BY <2>2 DEF PayoutFails, PayoutStep, EscrowOf
  <2>3. CASE PayoutCompletes(a)
    BY <2>3 DEF PayoutCompletes, PayoutStep, EscrowOf
  <2> QED BY <1>5, <2>1, <2>2, <2>3 DEF PayoutOf
<1>6. ASSUME NEW b \in Callback, NEW a \in Attempt, CallbackRead(b, a) PROVE LockInv'
  BY <1>6 DEF CallbackRead
<1>7. ASSUME NEW b \in Callback, CallbackConfirm(b) PROVE LockInv'
  <2>1. /\ att[b] \in Attempt /\ pc[b] = "confirm"
        /\ UNCHANGED <<stk, escrow, event, archived, held, windows, faults>>
    BY <1>7 DEF CallbackConfirm
  <2>2. CASE pc' = [pc EXCEPT ![b] = "emit"] /\ UNCHANGED locals
             /\ tx' = [tx EXCEPT ![att[b]].status = "paid"]
    <3>1. tx'[att[b]].status \in Funded
      BY <2>1, <2>2
    <3>2. /\ pc'[b] = "emit" /\ \A c \in Calls : c # b => pc'[c] = pc[c]
          /\ UNCHANGED <<att, row>>
      BY <2>1, <2>2
    <3>5. (\A c \in Calls :
            /\ pc[c] = "emit" => tx[att[c]].status \in Funded
            /\ pc[c] \in HandlerPc => event[att[c]].state # "none"
            /\ pc[c] \in {"incumbent", "repoint"} =>
                 row[c] # att[c] /\ tx[row[c]].status # "none")'
      <4> SUFFICES ASSUME NEW c \in Calls, c # b
                   PROVE (/\ pc[c] = "emit" => tx[att[c]].status \in Funded
                          /\ pc[c] \in HandlerPc => event[att[c]].state # "none"
                          /\ pc[c] \in {"incumbent", "repoint"} =>
                               row[c] # att[c] /\ tx[row[c]].status # "none")'
        BY <2>1, <3>1, <3>2
      <4>1. /\ pc[c] = "emit" => att[c] \in Attempt /\ tx'[att[c]].status \in Funded
            /\ pc[c] \in {"incumbent", "repoint"} =>
                 row[c] \in Attempt /\ tx'[row[c]].status # "none"
        OBVIOUS
      <4> QED BY <2>1, <3>2, <4>1
    <3>6. (/\ escrow.tx = None <=> escrow.status = "none"
           /\ escrow.tx # None => tx[escrow.tx].status # "none"
           /\ escrow.status = "released" => tx[escrow.tx].status \in Funded
           /\ \A a \in Attempt : event[a].state # "none" => tx[a].status \in Funded)'
      BY <2>1, <3>1, <3>2
    <3>7. ("contested" \notin windows =>
            /\ \A a \in Attempt : event[a].state = "processed" => escrow.tx = a
            /\ \A c \in Calls :
                 /\ pc[c] = "mark" => escrow.tx = att[c]
                 /\ pc[c] \in {"incumbent", "repoint"} => escrow.tx \in {row[c], att[c]})'
      BY <2>1, <3>1, <3>2
    <3> QED BY <3>5, <3>6, <3>7
  <2>3. CASE Return(b, "confirm")
    <3>1. /\ pc'[b] = "idle"
          /\ \A c \in Calls : c # b => pc'[c] = pc[c] /\ att'[c] = att[c] /\ row'[c] = row[c]
      BY <2>1, <2>3
    <3>5. (\A c \in Calls :
            /\ pc[c] = "emit" => tx[att[c]].status \in Funded
            /\ pc[c] \in HandlerPc => event[att[c]].state # "none"
            /\ pc[c] \in {"incumbent", "repoint"} =>
                 row[c] # att[c] /\ tx[row[c]].status # "none")'
      BY <2>1, <3>1
    <3>6. (/\ escrow.tx = None <=> escrow.status = "none"
           /\ escrow.tx # None => tx[escrow.tx].status # "none"
           /\ escrow.status = "released" => tx[escrow.tx].status \in Funded
           /\ \A a \in Attempt : event[a].state # "none" => tx[a].status \in Funded)'
      BY <2>1, <3>1
    <3>7. ("contested" \notin windows =>
            /\ \A a \in Attempt : event[a].state = "processed" => escrow.tx = a
            /\ \A c \in Calls :
                 /\ pc[c] = "mark" => escrow.tx = att[c]
                 /\ pc[c] \in {"incumbent", "repoint"} => escrow.tx \in {row[c], att[c]})'
      BY <2>1, <3>1
    <3> QED BY <3>5, <3>6, <3>7
  <2> QED BY <1>7, <2>2, <2>3 DEF CallbackConfirm
<1>8. ASSUME NEW b \in Callback, CallbackEmit(b) PROVE LockInv'
  BY <1>8 DEF CallbackEmit
<1>9. ASSUME NEW h \in Tick, NEW a \in Attempt, PickEvent(h, a) PROVE LockInv'
  BY <1>9 DEF PickEvent
<1>10. ASSUME NEW h \in Replay, NEW a \in Attempt, ReplayEvent(h, a) PROVE LockInv'
  <2>1. /\ event[a].state # "none" /\ tx[a].status \in Funded
        /\ pc' = [pc EXCEPT ![h] = "read"] /\ att' = [att EXCEPT ![h] = a]
        /\ UNCHANGED <<tx, stk, escrow, archived, row, held, windows, faults>>
    BY <1>10 DEF ReplayEvent
  <2>2. \A b \in Attempt :
          /\ event'[b].state = "none" <=> event[b].state = "none"
          /\ event'[b].state = "processed" => event[b].state = "processed"
    <3>1. CASE event' = event
      BY <3>1
    <3>2. PICK e \in {"expired", "queued"} :
            event' # event => event' = [event EXCEPT ![a] = [state |-> e, retries |-> 0]]
      BY <1>10, ReplayedEvent
    <3>3. CASE event' = [event EXCEPT ![a] = [state |-> e, retries |-> 0]]
      <4>1. \A b \in Attempt : event'[b] = IF b = a THEN [state |-> e, retries |-> 0] ELSE event[b]
        BY <3>3
      <4> QED BY <2>1, <4>1
    <3> QED BY <3>1, <3>2, <3>3
  <2>3. /\ \A b \in Attempt : event[b].state # "none" => tx[b].status \in Funded
        /\ \A c \in Calls : c # h => pc'[c] = pc[c] /\ att'[c] = att[c]
        /\ pc'[h] = "read" /\ att'[h] = a
    BY <2>1
  <2>4. (\A c \in Calls :
          /\ pc[c] = "emit" => tx[att[c]].status \in Funded
          /\ pc[c] \in HandlerPc => event[att[c]].state # "none"
          /\ pc[c] \in {"incumbent", "repoint"} =>
               row[c] # att[c] /\ tx[row[c]].status # "none")'
    BY <2>1, <2>2, <2>3
  <2>5. ("contested" \notin windows =>
          /\ \A b \in Attempt : event[b].state = "processed" => escrow.tx = b
          /\ \A c \in Calls :
               /\ pc[c] = "mark" => escrow.tx = att[c]
               /\ pc[c] \in {"incumbent", "repoint"} => escrow.tx \in {row[c], att[c]})'
    BY <2>1, <2>2, <2>3
  <2> QED BY <2>1, <2>2, <2>3, <2>4, <2>5
<1>11. ASSUME NEW h \in Handler, HandlerStep(h) PROVE LockInv'
  <2>1. CASE LockRead(h)
    <3>1. /\ pc[h] = "read" /\ row' = [row EXCEPT ![h] = escrow.tx]
          /\ UNCHANGED <<tx, stk, escrow, event, archived, att, held, windows, faults>>
      BY <2>1 DEF LockRead
    <3>2. CASE escrow.tx = None /\ pc' = [pc EXCEPT ![h] = "insert"]
      BY <3>1, <3>2
    <3>3. CASE /\ escrow.tx # None
               /\ escrow.tx = att[h] \/ escrow.status = "released"
               /\ pc' = [pc EXCEPT ![h] = "mark"]
      <4>1. "contested" \notin windows => escrow.tx = att[h]
        BY <1>paid, <1>one, <3>1, <3>3
      <4> QED BY <3>1, <3>3, <4>1
    <3>4. CASE escrow.tx \notin {None, att[h]} /\ pc' = [pc EXCEPT ![h] = "incumbent"]
      BY <3>1, <3>4
    <3> QED BY <2>1, <3>2, <3>3, <3>4 DEF LockRead
  <2>2. CASE LockInsert(h)
    <3>1. /\ pc[h] = "insert" /\ att[h] \in Attempt /\ tx[att[h]].status # "none"
          /\ UNCHANGED <<tx, stk, event, archived, att, row, held, windows, faults>>
      BY <1>paid, <2>2 DEF LockInsert
    <3>2. CASE /\ escrow.tx = None /\ escrow' = [tx |-> att[h], status |-> "locked"]
               /\ pc' = [pc EXCEPT ![h] = "mark"]
      <4>1. /\ escrow'.tx = att[h] /\ escrow'.status = "locked" /\ att[h] # None
            /\ UNCHANGED <<tx, event, windows, att, row>>
            /\ \A a \in Attempt : a # None
        BY <3>1, <3>2
      <4> HIDE DEF TypeInv
      <4>2. "contested" \notin windows =>
              /\ \A a \in Attempt : event[a].state # "processed"
              /\ \A d \in Calls : pc[d] \notin {"mark", "incumbent", "repoint"}
        <5>1. \A d \in Calls : pc[d] \in HandlerPc => att[d] # None
          BY <1>paid, NoneIsNull
        <5>2. \A d \in Calls : pc[d] \in {"incumbent", "repoint"} => row[d] # None
          BY NoneIsNull DEF TypeInv
        <5> QED BY <4>1, <3>2, <5>1, <5>2
      <4>3. pc'[h] = "mark" /\ \A d \in Calls : d # h => pc'[d] = pc[d]
        BY <3>2 DEF TypeInv
      <4>4. (/\ escrow.tx = None <=> escrow.status = "none"
             /\ escrow.tx # None => tx[escrow.tx].status # "none"
             /\ escrow.status = "released" => tx[escrow.tx].status \in Funded
             /\ \A a \in Attempt : event[a].state # "none" => tx[a].status \in Funded)'
        BY <3>1, <4>1
      <4>5. (\A d \in Calls :
              /\ pc[d] = "emit" => tx[att[d]].status \in Funded
              /\ pc[d] \in HandlerPc => event[att[d]].state # "none"
              /\ pc[d] \in {"incumbent", "repoint"} =>
                   row[d] # att[d] /\ tx[row[d]].status # "none")'
        BY <3>1, <4>1, <4>3
      <4>6. ("contested" \notin windows =>
              /\ \A a \in Attempt : event[a].state = "processed" => escrow.tx = a
              /\ \A d \in Calls :
                   /\ pc[d] = "mark" => escrow.tx = att[d]
                   /\ pc[d] \in {"incumbent", "repoint"} => escrow.tx \in {row[d], att[d]})'
        BY <4>1, <4>2, <4>3
      <4> QED BY <4>4, <4>5, <4>6
    <3>3. CASE UNCHANGED escrow /\ pc' = [pc EXCEPT ![h] = "retry"]
      BY <3>1, <3>3
    <3> QED BY <2>2, <3>2, <3>3 DEF LockInsert
  <2>3. CASE LockIncumbent(h)
    <3>1. /\ pc[h] = "incumbent"
          /\ UNCHANGED <<tx, stk, escrow, event, archived, att, row, held>>
      BY <2>3 DEF LockIncumbent
    <3>2. CASE pc' = [pc EXCEPT ![h] = "repoint"]
      BY <3>1, <3>2
    <3>3. CASE pc' = [pc EXCEPT ![h] = "mark"] /\ tx[row[h]].status # "failed"
      <4>1. row[h] \in Attempt /\ tx[row[h]].status \in Live
        BY <3>1, <3>3
      <4>2. "contested" \notin windows => escrow.tx = att[h]
        BY <1>paid, <1>one, <3>1, <4>1
      <4> QED BY <3>1, <3>3, <4>2
    <3> QED BY <2>3, <3>2, <3>3 DEF LockIncumbent
  <2>4. CASE LockRepoint(h)
    <3>1. /\ pc[h] = "repoint" /\ pc' = [pc EXCEPT ![h] = "mark"]
          /\ att[h] \in Attempt /\ tx[att[h]].status \in Funded
          /\ UNCHANGED <<tx, stk, event, archived, att, row, held, windows, faults>>
      BY <1>paid, <2>4 DEF LockRepoint
    <3>2. "contested" \notin windows => escrow'.tx = att[h]
      BY <2>4, <3>1 DEF LockRepoint
    <3>3. "contested" \notin windows =>
            /\ \A a \in Attempt : event[a].state = "processed" => a = att[h]
            /\ \A c \in Calls : pc[c] \in HandlerPc => att[c] = att[h]
      BY <1>paid, <1>one, <3>1
    <3>4. escrow' = [tx |-> att[h], status |-> "locked"] \/ escrow' = escrow
      BY <2>4 DEF LockRepoint
    <3>5. /\ escrow'.tx = None <=> escrow'.status = "none"
          /\ escrow'.tx # None => tx[escrow'.tx].status # "none"
          /\ escrow'.status = "released" => tx[escrow'.tx].status \in Funded
      BY <3>1, <3>4
    <3> QED BY <3>1, <3>2, <3>3, <3>5
  <2>5. CASE MarkProcessed(h)
    BY <2>5 DEF MarkProcessed
  <2>6. CASE MarkFailed(h)
    BY <2>6 DEF MarkFailed
  <2> QED BY <1>11, <2>1, <2>2, <2>3, <2>4, <2>5, <2>6 DEF HandlerStep
<1>12. ASSUME NEW h \in Handler, HandlerThrows(h) PROVE LockInv'
  BY <1>12 DEF HandlerThrows
<1>13. ASSUME NEW d \in Archiver, ArchiveStep(d) PROVE LockInv'
  <2>1. CASE ArchiveReadTx(d)
    BY <2>1 DEF ArchiveReadTx, NotSeen, Missed
  <2>2. CASE ArchiveReadEscrow(d)
    BY <2>2 DEF ArchiveReadEscrow, NotSeen, Missed
  <2>3. CASE Archive(d)
    BY <2>3 DEF Archive
  <2> QED BY <1>13, <2>1, <2>2, <2>3 DEF ArchiveStep
<1>14. ASSUME NEW c \in Calls, Abort(c) PROVE LockInv'
  BY <1>14 DEF Abort
<1> QED BY <1>1, <1>2, <1>3, <1>4, <1>5, <1>6, <1>7, <1>8, <1>9, <1>10, <1>11,
           <1>12, <1>13, <1>14 DEF Next

-----------------------------------------------------------------------------
(* SettledInv is inductive.                                                *)

LEMMA SettledStep ==
  TypeInv /\ PhoneInv /\ WindowInv /\ LockInv /\ SettledInv /\ [Next]_vars => SettledInv'
<1> SUFFICES ASSUME TypeInv, PhoneInv, WindowInv, LockInv, SettledInv, [Next]_vars, StatusMoves
             PROVE  SettledInv'
  BY StatusStep
<1> USE NoneIsNull DEF TypeInv, TypeOK, LocalsInv, AttPc, PcValue, TxStatus, Window, locals, Goto,
            Return, Fault, When, TxBecomes, Calls, Handler, Funded, Live, EscrowStatus, EventState, SettledInv, Unspoiled,
            StatusMoves
<1>1. CASE UNCHANGED vars
  BY <1>1 DEF vars
<1>2. ASSUME NEW c \in Client, Initiate(c) PROVE SettledInv'
  <2>1. CASE InitiateRead(c)
    BY <2>1 DEF InitiateRead
  <2>2. CASE CreateTx(c)
    BY <2>2 DEF CreateTx
  <2>3. CASE StkPush(c)
    BY <2>3 DEF StkPush
  <2>4. CASE PushFailed(c)
    BY <2>4 DEF PushFailed
  <2>5. CASE StoreCheckoutId(c)
    BY <2>5 DEF StoreCheckoutId
  <2>6. CASE InsertEscrow(c)
    <3>1. /\ pc' = [pc EXCEPT ![c] = "idle"]
          /\ UNCHANGED <<tx, stk, event, archived, held, windows>>
          /\ escrow' = escrow \/ (escrow.tx = None /\ escrow'.status = "locked")
      BY <2>6 DEF InsertEscrow
    <3> QED BY <3>1 DEF LockInv
  <2> QED BY <1>2, <2>1, <2>2, <2>3, <2>4, <2>5, <2>6 DEF Initiate
<1>3. ASSUME NEW a \in Attempt, CustomerAnswers(a) PROVE SettledInv'
  BY <1>3 DEF CustomerAnswers
<1>4. ASSUME NEW a \in Attempt, EventExpires(a) PROVE SettledInv'
  BY <1>4 DEF EventExpires
<1>5. ASSUME NEW a \in Attempt, PayoutOf(a) PROVE SettledInv'
  <2>1. CASE PayoutStarts(a)
    BY <2>1 DEF PayoutStarts, PayoutStep, EscrowOf
  <2>2. CASE PayoutFails(a)
    BY <2>2 DEF PayoutFails, PayoutStep, EscrowOf
  <2>3. CASE PayoutCompletes(a)
    BY <2>3 DEF PayoutCompletes, PayoutStep, EscrowOf
  <2> QED BY <1>5, <2>1, <2>2, <2>3 DEF PayoutOf
<1>6. ASSUME NEW b \in Callback, NEW a \in Attempt, CallbackRead(b, a) PROVE SettledInv'
  BY <1>6 DEF CallbackRead
<1>7. ASSUME NEW b \in Callback, CallbackConfirm(b) PROVE SettledInv'
  <2>1. /\ UNCHANGED <<stk, escrow, event, archived, held, windows, faults>>
        /\ att[b] \in Attempt /\ pc[b] = "confirm"
        /\ pc' = [pc EXCEPT ![b] = "emit"] \/ pc' = [pc EXCEPT ![b] = "idle"]
    BY <1>7 DEF CallbackConfirm
  <2>2. Unspoiled => tx[att[b]].status = "pending"
    BY <2>1 DEF WindowInv
  <2>3. \A a \in Attempt : a # att[b] => tx'[a] = tx[a]
    BY <1>7 DEF CallbackConfirm
  <2>4. escrow.status = "released" => escrow.tx \in Attempt
    BY DEF LockInv
  <2>5. Unspoiled' => Unspoiled
    BY <2>1
  <2>6. (Unspoiled /\ escrow.status = "released" => tx[escrow.tx].status = "released")'
    BY <2>1, <2>2, <2>3, <2>4, <2>5
  <2>7. (\A d \in Archiver :
          /\ pc[d] = "held_escrow" /\ held[d] => escrow.status # "none"
          /\ Unspoiled /\ pc[d] = "archive" /\ held[d] => escrow.status = "released")'
    BY <2>1, <2>5
  <2> QED BY <2>6, <2>7
<1>8. ASSUME NEW b \in Callback, CallbackEmit(b) PROVE SettledInv'
  BY <1>8 DEF CallbackEmit
<1>9. ASSUME NEW h \in Tick, NEW a \in Attempt, PickEvent(h, a) PROVE SettledInv'
  BY <1>9 DEF PickEvent
<1>10. ASSUME NEW h \in Replay, NEW a \in Attempt, ReplayEvent(h, a) PROVE SettledInv'
  BY <1>10 DEF ReplayEvent
<1>11. ASSUME NEW h \in Handler, HandlerStep(h) PROVE SettledInv'
  <2>1. CASE LockRead(h)
    BY <2>1 DEF LockRead
  <2>2. CASE LockInsert(h)
    <3>1. /\ pc' = [pc EXCEPT ![h] = "mark"] \/ pc' = [pc EXCEPT ![h] = "retry"]
          /\ UNCHANGED <<tx, stk, event, archived, held, windows>>
          /\ escrow' = escrow \/ (escrow.tx = None /\ escrow'.status = "locked")
      BY <2>2 DEF LockInsert
    <3> QED BY <3>1 DEF LockInv
  <2>3. CASE LockIncumbent(h)
    BY <2>3 DEF LockIncumbent
  <2>4. CASE LockRepoint(h)
    <3>1. /\ pc[h] = "repoint" /\ pc' = [pc EXCEPT ![h] = "mark"]
          /\ UNCHANGED <<tx, stk, event, archived, held, windows>>
          /\ escrow' = escrow \/ (escrow.tx = row[h] /\ escrow'.status = "locked")
      BY <2>4 DEF LockRepoint
    <3>2. Unspoiled /\ escrow.status = "released" => escrow' = escrow
      BY <3>1 DEF WindowInv
    <3> QED BY <3>1, <3>2
  <2>5. CASE MarkProcessed(h)
    BY <2>5 DEF MarkProcessed
  <2>6. CASE MarkFailed(h)
    BY <2>6 DEF MarkFailed
  <2> QED BY <1>11, <2>1, <2>2, <2>3, <2>4, <2>5, <2>6 DEF HandlerStep
<1>12. ASSUME NEW h \in Handler, HandlerThrows(h) PROVE SettledInv'
  BY <1>12 DEF HandlerThrows
<1>13. ASSUME NEW d \in Archiver, ArchiveStep(d) PROVE SettledInv'
  <2>1. CASE ArchiveReadTx(d)
    <3>1. /\ pc' = [pc EXCEPT ![d] = "held_escrow"]
          /\ held' = [held EXCEPT ![d] = InEscrow]
          /\ UNCHANGED <<tx, escrow>>
      BY <2>1 DEF ArchiveReadTx
    <3> QED BY <3>1 DEF InEscrow
  <2>2. CASE ArchiveReadEscrow(d)
    <3>1. /\ UNCHANGED <<tx, escrow, held>> /\ pc[d] = "held_escrow"
          /\ pc' = [pc EXCEPT ![d] = "archive"] \/ pc' = [pc EXCEPT ![d] = "idle"]
      BY <2>2 DEF ArchiveReadEscrow
    <3>2. pc'[d] = "archive" => ~ InEscrow \/ "blind_read" \in windows'
      BY <2>2 DEF ArchiveReadEscrow, NotSeen, Missed
    <3> QED BY <3>1, <3>2 DEF InEscrow
  <2>3. CASE Archive(d)
    BY <2>3 DEF Archive
  <2> QED BY <1>13, <2>1, <2>2, <2>3 DEF ArchiveStep
<1>14. ASSUME NEW c \in Calls, Abort(c) PROVE SettledInv'
  BY <1>14 DEF Abort
<1> QED BY <1>1, <1>2, <1>3, <1>4, <1>5, <1>6, <1>7, <1>8, <1>9, <1>10, <1>11,
           <1>12, <1>13, <1>14 DEF Next

LEMMA LockInit == Init => LockInv /\ SettledInv
BY NoneIsNull DEF Init, LockInv, SettledInv, Unspoiled, HandlerPc, Funded, Live, Calls

-----------------------------------------------------------------------------
(* The theorems about the escrow row and about archiving.                  *)

\* A processed payment.success event means the escrow row is bound to that
\* attempt for good, whatever handlers, retries, crashes and replays do,
\* unless the post had two live attempts.
THEOREM ProcessedMeansLockedCorrect == Spec => []ProcessedMeansLocked
<1>1. LockInv => ProcessedMeansLocked
  BY DEF LockInv, ProcessedMeansLocked
<1> QED BY <1>1, TypeInit, TypeStep, PhoneInit, PhoneStep, WindowInit, WindowStep,
           LockInit, LockStep, PTL DEF Spec

\* No archivePost call writes over funds that were in escrow when it began,
\* for any number of calls, unless a read failed or a callback was doubled.
THEOREM HeldFundsBlockArchiveCorrect == Spec => HeldFundsBlockArchive
<1>1. TypeInv /\ SettledInv =>
        [ \A d \in Archiver :
            Archive(d) /\ held[d] /\ windows \cap {"blind_read", "duplicate"} = {}
              => escrow.status = "released" ]_vars
  <2> SUFFICES ASSUME TypeInv, SettledInv, NEW d \in Archiver, Archive(d), held[d],
                      windows \cap {"blind_read", "duplicate"} = {}
               PROVE  escrow.status = "released"
    OBVIOUS
  <2>1. Unspoiled
    BY DEF Unspoiled
  <2> QED BY <2>1 DEF Archive, Goto, SettledInv
<1> QED BY <1>1, TypeInit, TypeStep, PhoneInit, PhoneStep, WindowInit, WindowStep,
           LockInit, LockStep, SettledStep, PTL DEF Spec, HeldFundsBlockArchive
=============================================================================
