-------------------------- MODULE PayoutDestination --------------------------
(***************************************************************************)
(* Where one provider is paid: the numbers on file and the codes that      *)
(* prove them (backend/src/payouts, with the functions and triggers of     *)
(* migrations 104 and 106), the number frozen on the escrow row of one job *)
(* when its payment starts, and the number its payout goes to              *)
(* (MpesaService).                                                         *)
(*                                                                         *)
(* The feature is on, with the default flags: snapshotless escrows still   *)
(* settle to the current default, and a migrated number may be paid.       *)
(* Audit rows and list are left out; a code is right or wrong as the       *)
(* caller pleases.                                                         *)
(***************************************************************************)
EXTENDS Naturals, FiniteSets

CONSTANTS
  Number,    \* Safaricom numbers
  Rows,      \* bound on payout_destinations rows, numbered as they are created
  Codes,     \* bound on verification rows, numbered as they are issued
  Tries,     \* max_attempts of a code: 5 in the schema
  Asker,     \* the provider's requests in flight
  Payments,  \* bound on payment attempts of the job
  LostWrites \* bound on requests cut short and failed unchecked inserts

ASSUME DestinationBounds ==
  /\ Number # {} /\ Rows \in Nat \ {0}
  /\ Codes \in Nat /\ Tries \in Nat \ {0}
  /\ Payments \in Nat /\ LostWrites \in Nat

Row     == 1..Rows
Code    == 1..Codes
Payment == 1..Payments

VARIABLES
  dest,    \* payout_destinations: number, status, verification_method and _id
  dflt,    \* the row with is_default, 0 if none
  code,    \* payout_destination_verifications
  ask,     \* each request: its next step, the rows it read
  pay,     \* each payment attempt: its state, what it froze, where it was sent
  escrow,  \* the job's escrow row: its transaction and snapshot, 0 if none
  known,   \* history: rows on file when the snapshot was written
  lost     \* how many faults have happened

owner == <<dest, dflt>>
destVars == <<owner, code, ask, pay, escrow, known, lost>>

RequestStep == {"idle", "retire", "insert", "live", "supersede", "issue",
                "check", "consume"}

DestTypeOK ==
  /\ dest \in [Row -> [number : Number, proof : 0..Codes,
                       method : {"none", "otp", "migration"},
                       status : {"none", "pending", "active", "retired"}]]
  /\ dflt \in 0..Rows
  /\ code \in [Code -> [row : 0..Rows, tries : 0..Tries,
                        state : {"none", "live", "consumed", "failed"},
                        fresh : BOOLEAN, expired : BOOLEAN]]
  /\ ask \in [Asker -> [at : RequestStep, row : 0..Rows,
                              number : Number, code : 0..Codes,
                              right : BOOLEAN, choose : BOOLEAN]]
  /\ pay \in [Payment -> [state : {"none", "capture", "sent", "failed",
                                   "funded", "released"},
                          inserted : BOOLEAN, frozen : 0..Rows, to : 0..Rows]]
  /\ escrow \in [tx : 0..Payments, snap : 0..Rows]
  /\ known \in 0..Rows
  /\ lost \in 0..LostWrites

SomeNumber == CHOOSE n \in Number : TRUE
Quiet == [at |-> "idle", row |-> 0, number |-> SomeNumber, code |-> 0,
          right |-> FALSE, choose |-> FALSE]
Unproven(n, s) == [number |-> n, status |-> s, method |-> "none", proof |-> 0]
NoDest == Unproven(SomeNumber, "none")

\* Nothing on file, or the number migration 108 copied from the profile.
DestInit ==
  /\ \/ dest = [r \in Row |-> NoDest] /\ dflt = 0
     \/ \E n \in Number :
          /\ dest = [r \in Row |-> IF r = 1
                       THEN [Unproven(n, "active") EXCEPT !.method = "migration"]
                       ELSE NoDest]
          /\ dflt = 1
  /\ code = [c \in Code |-> [row |-> 0, tries |-> 0, state |-> "none",
                             fresh |-> FALSE, expired |-> FALSE]]
  /\ ask = [q \in Asker |-> Quiet]
  /\ pay = [t \in Payment |-> [state |-> "none", inserted |-> FALSE,
                               frozen |-> 0, to |-> 0]]
  /\ escrow = [tx |-> 0, snap |-> 0]
  /\ known = 0 /\ lost = 0

-----------------------------------------------------------------------------
(* Helpers.                                                                *)

With(status)  == {r \in Row : dest[r].status = status}
LiveCode(r)   == {c \in Code : code[c].row = r /\ code[c].state = "live"}
NextRow       == 1 + Cardinality({r \in Row : dest[r].status # "none"})
NextCode      == 1 + Cardinality({c \in Code : code[c].state # "none"})

Asks(q, place)  == ask[q].at = place
Answers(q)      == ask' = [ask EXCEPT ![q] = Quiet]
Begins(q, place, r, n) ==
  ask' = [ask EXCEPT ![q] = [Quiet EXCEPT !.at = place, !.row = r,
                                                  !.number = n]]
OnRow(q, place, r) == Begins(q, place, r, SomeNumber)
Holds(q, place, c) ==
  ask' = [ask EXCEPT ![q] = [@ EXCEPT !.at = place, !.code = c]]
Loses == lost < LostWrites /\ lost' = lost + 1

SetCode(c, s) == code' = [code EXCEPT ![c] = [@ EXCEPT !.state = s]]

\* The trigger takes the default away from a row on its way out.
RetireRow(r) ==
  /\ dest' = [dest EXCEPT ![r] = [@ EXCEPT !.status = "retired"]]
  /\ dflt' = IF dflt = r THEN 0 ELSE dflt

-----------------------------------------------------------------------------
(* add and requestChallenge, up to the code.                               *)

\* A verified number is refused, a pending one gets a new code, and another
\* pending one makes way.
AddRead(q, n) ==
  /\ Asks(q, "idle")
  /\ \A r \in With("active") : dest[r].number # n
  /\ IF With("pending") = {} THEN Begins(q, "insert", 0, n)
     ELSE \E r \in With("pending") :
            IF dest[r].number = n THEN OnRow(q, "live", r)
            ELSE Begins(q, "retire", r, n)
  /\ UNCHANGED <<owner, code, pay, escrow, known, lost>>

AddRetire(q) ==
  LET r == ask[q].row IN
  /\ Asks(q, "retire")
  /\ IF dest[r].status # "retired"
     THEN RetireRow(r) /\ Begins(q, "insert", 0, ask[q].number)
     ELSE UNCHANGED owner /\ Answers(q)
  /\ UNCHANGED <<code, pay, escrow, known, lost>>

\* At most one pending row: the index refuses a second.
AddInsert(q) ==
  /\ Asks(q, "insert")
  /\ IF With("pending") = {}
     THEN /\ NextRow \in Row
          /\ dest' = [dest EXCEPT ![NextRow] =
                        Unproven(ask[q].number, "pending")]
          /\ OnRow(q, "live", NextRow)
     ELSE UNCHANGED dest /\ Answers(q)
  /\ UNCHANGED <<dflt, code, pay, escrow, known, lost>>

RequestChallenge(q, r) ==
  /\ Asks(q, "idle")
  /\ dest[r].status = "pending"
  /\ OnRow(q, "live", r)
  /\ UNCHANGED <<owner, code, pay, escrow, known, lost>>

-----------------------------------------------------------------------------
(* issue: one live code for a row, at most one a minute.                   *)

IssueRead(q) ==
  LET r == ask[q].row IN
  /\ Asks(q, "live")
  /\ \/ LiveCode(r) = {} /\ OnRow(q, "issue", r)
     \/ \E c \in LiveCode(r) :
          IF code[c].fresh THEN Answers(q) ELSE Holds(q, "supersede", c)
  /\ UNCHANGED <<owner, code, pay, escrow, known, lost>>

Supersede(q) ==
  LET c == ask[q].code IN
  /\ Asks(q, "supersede")
  /\ IF code[c].state = "live" THEN SetCode(c, "failed") ELSE UNCHANGED code
  /\ OnRow(q, "issue", ask[q].row)
  /\ UNCHANGED <<owner, pay, escrow, known, lost>>

Issue(q) ==
  LET r == ask[q].row IN
  /\ Asks(q, "issue")
  /\ IF LiveCode(r) = {}
     THEN /\ NextCode \in Code
          /\ code' = [code EXCEPT ![NextCode] =
                        [row |-> r, tries |-> 0, state |-> "live",
                         fresh |-> TRUE, expired |-> FALSE]]
     ELSE UNCHANGED code
  /\ Answers(q)
  /\ UNCHANGED <<owner, pay, escrow, known, lost>>

-----------------------------------------------------------------------------
(* verify.                                                                 *)

\* The row is read, ...
VerifyRead(q, r, right, choose) ==
  /\ Asks(q, "idle")
  /\ dest[r].status = "pending"
  /\ ask' = [ask EXCEPT ![q] =
                   [Quiet EXCEPT !.at = "check", !.row = r, !.right = right,
                                 !.choose = choose]]
  /\ UNCHANGED <<owner, code, pay, escrow, known, lost>>

\* ... then its live code, ...
VerifyLive(q) ==
  LET live == LiveCode(ask[q].row) IN
  /\ Asks(q, "check")
  /\ \/ live = {} /\ Answers(q)
     \/ \E c \in live : Holds(q, "consume", c)
  /\ UNCHANGED <<owner, code, pay, escrow, known, lost>>

\* Mutant: one attempt too many.
AfterWrongLate(tries) == IF tries > Tries THEN "failed" ELSE "live"

AfterWrong(tries) == IF tries >= Tries THEN "failed" ELSE "live"

\* The row cannot take this proof: it has one, which is immutable, or another
\* active row has its number.
ProofRefused(r) ==
  \/ dest[r].status = "active"
  \/ \E s \in With("active") : dest[s].number = dest[r].number

Activate(r, c, choose) ==
  /\ dest' = [dest EXCEPT ![r] = [@ EXCEPT !.status = "active", !.proof = c,
                                           !.method = "otp"]]
  /\ dflt' = IF choose THEN r ELSE dflt

\* Mutant: the code is spent in a transaction of its own.
ConsumeTwoParts(q) ==
  LET c == ask[q].code
      r == code[c].row IN
  /\ Asks(q, "consume")
  /\ \/ /\ code[c].state # "live"
        /\ UNCHANGED <<owner, code>>
     \/ /\ code[c].state = "live"
        /\ SetCode(c, "consumed")
        /\ IF ProofRefused(r) \/ dest[r].status = "retired"
           THEN UNCHANGED owner
           ELSE Activate(r, c, ask[q].choose)
  /\ Answers(q)
  /\ UNCHANGED <<pay, escrow, known, lost>>

\* ... and fn_consume_payout_verification judges it under the row's lock.
Consume(q) ==
  LET c == ask[q].code
      r == code[c].row
      wrong == code[c].tries + 1 IN
  /\ Asks(q, "consume")
  /\ \/ /\ code[c].state # "live"
        /\ UNCHANGED <<owner, code>>
     \/ /\ code[c].state = "live" /\ code[c].expired
        /\ SetCode(c, "failed") /\ UNCHANGED owner
     \/ /\ code[c].state = "live" /\ ~ code[c].expired /\ ~ ask[q].right
        /\ code' = [code EXCEPT ![c] =
                      [@ EXCEPT !.tries = wrong, !.state = AfterWrong(wrong)]]
        /\ UNCHANGED owner
     \/ /\ code[c].state = "live" /\ ~ code[c].expired /\ ask[q].right
        /\ dest[r].status = "retired"
        /\ SetCode(c, "failed") /\ UNCHANGED owner
     \/ /\ code[c].state = "live" /\ ~ code[c].expired /\ ask[q].right
        /\ dest[r].status # "retired"
        /\ IF ProofRefused(r) THEN UNCHANGED <<owner, code>>
           ELSE SetCode(c, "consumed") /\ Activate(r, c, ask[q].choose)
  /\ Answers(q)
  /\ UNCHANGED <<pay, escrow, known, lost>>

CodeCools(c) ==
  /\ code[c].state = "live" /\ code[c].fresh
  /\ code' = [code EXCEPT ![c] = [@ EXCEPT !.fresh = FALSE]]
  /\ UNCHANGED <<owner, ask, pay, escrow, known, lost>>

CodeExpires(c) ==
  /\ code[c].state = "live" /\ ~ code[c].fresh /\ ~ code[c].expired
  /\ code' = [code EXCEPT ![c] = [@ EXCEPT !.expired = TRUE]]
  /\ UNCHANGED <<owner, ask, pay, escrow, known, lost>>

-----------------------------------------------------------------------------
(* setDefault and retire: one statement under the row's lock decides.      *)

SetDefault(r) ==
  /\ dest[r].status = "active"
  /\ dflt' = r
  /\ UNCHANGED <<dest, code, ask, pay, escrow, known, lost>>

Retire(r) ==
  /\ dest[r].status \in {"pending", "active"}
  /\ RetireRow(r)
  /\ UNCHANGED <<code, ask, pay, escrow, known, lost>>

RequestCut(q) ==
  /\ ~ Asks(q, "idle") /\ Answers(q) /\ Loses
  /\ UNCHANGED <<owner, code, pay, escrow, known>>

-----------------------------------------------------------------------------
(* The money: initiatePayment's snapshot, the escrow row, the payout.      *)

SetPay(t, s) == pay' = [pay EXCEPT ![t] = [@ EXCEPT !.state = s]]

\* getPayable: the default, if it is active; buildSnapshot freezes it, and a
\* failed lookup freezes nothing.
Payable == IF dflt # 0 /\ dest[dflt].status = "active" THEN dflt ELSE 0

Initiate(t) ==
  /\ pay[t].state = "none"
  /\ \A u \in Payment : u < t => pay[u].state = "failed"
  /\ \/ /\ pay' = [pay EXCEPT ![t] = [@ EXCEPT !.state = "sent",
                                               !.frozen = Payable]]
        /\ UNCHANGED lost
     \/ Loses /\ SetPay(t, "sent")
  /\ UNCHANGED <<owner, code, ask, escrow, known>>

\* The optimistic insert: one row for the post, and an error is only logged.
InsertEscrow(t) ==
  /\ pay[t].state # "none" /\ ~ pay[t].inserted
  /\ pay' = [pay EXCEPT ![t] = [@ EXCEPT !.inserted = TRUE]]
  /\ \/ /\ escrow.tx = 0
        /\ escrow' = [tx |-> t, snap |-> pay[t].frozen]
        /\ known' = NextRow - 1
        /\ UNCHANGED lost
     \/ escrow.tx # 0 /\ UNCHANGED <<escrow, known, lost>>
     \/ Loses /\ UNCHANGED <<escrow, known>>
  /\ UNCHANGED <<owner, code, ask>>

PaymentFails(t) ==
  /\ pay[t].state = "sent" /\ SetPay(t, "failed")
  /\ UNCHANGED <<owner, code, ask, escrow, known, lost>>

\* Paid, and lockEscrowForPayment: a row of its own has no snapshot, and a
\* failed attempt's row keeps the one it has (PaymentCollection has the steps).
PaymentFunds(t) ==
  /\ pay[t].state = "sent" /\ SetPay(t, "funded")
  /\ escrow' = [escrow EXCEPT !.tx = t]
  /\ UNCHANGED <<owner, code, ask, known, lost>>

\* Mutant: the current number is preferred to the frozen one.
ResolvedCurrent == IF Payable # 0 THEN Payable ELSE escrow.snap

\* resolvePayoutDestination: the snapshot ends the question; without one it is
\* the default of the moment, and nothing is sent if there is none.
Resolved == IF escrow.snap # 0 THEN escrow.snap ELSE Payable

ReleasePayout(t) ==
  /\ pay[t].state = "funded"
  /\ Resolved # 0
  /\ pay' = [pay EXCEPT ![t] = [@ EXCEPT !.state = "released", !.to = Resolved]]
  /\ UNCHANGED <<owner, code, ask, escrow, known, lost>>

OnboardStep(q) ==
  \/ \E n \in Number : AddRead(q, n)
  \/ \E r \in Row : \/ RequestChallenge(q, r)
                    \/ \E right, choose \in BOOLEAN :
                         VerifyRead(q, r, right, choose)
  \/ AddRetire(q) \/ AddInsert(q) \/ IssueRead(q) \/ Supersede(q) \/ Issue(q)
  \/ VerifyLive(q) \/ Consume(q) \/ RequestCut(q)

DestNext ==
  \/ \E q \in Asker : OnboardStep(q)
  \/ \E c \in Code : CodeCools(c) \/ CodeExpires(c)
  \/ \E r \in Row : SetDefault(r) \/ Retire(r)
  \/ \E t \in Payment : \/ Initiate(t) \/ InsertEscrow(t) \/ PaymentFails(t)
                        \/ PaymentFunds(t) \/ ReleasePayout(t)

DestSpec == DestInit /\ [][DestNext]_destVars

-----------------------------------------------------------------------------
(* Properties.                                                             *)

\* "A code is never both spent and unused", whatever verifications, resends
\* and retirements overlap: spent codes and the rows that became active by one
\* match one to one; only an active row is the default; and no code can be tried
\* once more than max_attempts, however many wrong answers arrive together.
SpentCodeActivates ==
  /\ \A c \in Code : code[c].state = "consumed" =>
       dest[code[c].row].proof = c
  /\ \A r \in With("active") : dest[r].method # "migration" =>
       \E c \in Code : /\ dest[r].proof = c /\ code[c].row = r
                      /\ code[c].state = "consumed"
  /\ dflt # 0 => dest[dflt].status = "active"
  /\ \A c \in Code : code[c].state = "live" => code[c].tries < Tries

\* Money reaches proven numbers only, and "silently re-routing to a newly added
\* number" does not happen: what was put on file after the escrow row froze a
\* number is not paid from it.
PaidWhereProven ==
  \A t \in Payment : pay[t].to # 0 =>
    /\ \/ dest[pay[t].to].method = "migration"
       \/ \E c \in Code : code[c].row = pay[t].to /\ code[c].state = "consumed"
    /\ escrow.snap # 0 => pay[t].to <= known

\* The triggers of migration 104 promise that "a destination changing WHERE
\* money goes, or a trust record being un-made" never happens.  They have nothing
\* to refuse: whatever requests cross, a row on file keeps its number and, once
\* proven, how; it never goes back to pending, a retired one stays as it is; a
\* spent or failed code stays so, for the row it was issued for; and the number
\* frozen on the escrow row is written once.
AppendOnly ==
  [][ /\ \A r \in Row : dest[r].status # "none" =>
          /\ dest'[r].number = dest[r].number
          /\ dest[r].method # "none" =>
               dest'[r].method = dest[r].method /\ dest'[r].proof = dest[r].proof
          /\ dest'[r].status = "pending" => dest[r].status = "pending"
          /\ dest[r].status = "retired" => dest'[r] = dest[r]
      /\ \A c \in Code :
          /\ code[c].state # "none" => code'[c].row = code[c].row
          /\ code[c].state \in {"consumed", "failed"} => code'[c] = code[c]
      /\ escrow.snap # 0 => escrow'.snap = escrow.snap ]_destVars

-----------------------------------------------------------------------------
(* What the code promises and does not keep.                               *)

\* The column's comment, "the destination frozen when this escrow was funded":
\* a payout that follows the snapshot goes to what its own payment froze.  When
\* a first attempt fails, the row the second one funds keeps the first's.
FrozenWhenFunded ==
  \A t \in Payment :
    pay[t].to # 0 /\ pay[t].frozen # 0 /\ escrow.snap # 0
      => pay[t].to = pay[t].frozen
=============================================================================
