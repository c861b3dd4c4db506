---------------------- MODULE PayoutDestination_proofs ----------------------
(***************************************************************************)
(* The invariants of PayoutDestination hold for any number of numbers,     *)
(* codes, requests and payments.                                           *)
(***************************************************************************)
EXTENDS PayoutDestination, FiniteSetTheorems, TLAPS

-----------------------------------------------------------------------------
(* What the steps do to rows, codes, requests and payments.                *)

DestRow == [number : Number, proof : 0..Codes,
            method : {"none", "otp", "migration"},
            status : {"none", "pending", "active", "retired"}]
CodeRow == [row : 0..Rows, tries : 0..Tries,
            state : {"none", "live", "consumed", "failed"},
            fresh : BOOLEAN, expired : BOOLEAN]
Request == [at : RequestStep, row : 0..Rows, number : Number, code : 0..Codes,
            right : BOOLEAN, choose : BOOLEAN]
PayRow == [state : {"none", "capture", "sent", "failed", "funded", "released"},
           inserted : BOOLEAN, frozen : 0..Rows, to : 0..Rows]

OnlyDest(r) ==
  /\ dest' \in [Row -> DestRow]
  /\ \A s \in Row \ {r} : dest'[s] = dest[s]
OnlyCode(c) ==
  /\ code' \in [Code -> CodeRow]
  /\ \A d \in Code \ {c} : code'[d] = code[d]
OnlyAsk(q) ==
  /\ ask' \in [Asker -> Request]
  /\ \A p \in Asker \ {q} : ask'[p] = ask[p]
OnlyPay(t) ==
  /\ pay' \in [Payment -> PayRow]
  /\ \A u \in Payment \ {t} : pay'[u] = pay[u]

\* There is a number to stand for any, and small numbers are in their ranges.
LEMMA Small == SomeNumber \in Number /\ 0 \in 0..Rows /\ 0 \in 0..Codes /\ 0 \in 0..Tries
<1>1. \E n \in Number : TRUE
  BY DestinationBounds
<1>2. SomeNumber \in Number
  BY <1>1 DEF SomeNumber
<1> QED BY <1>2, DestinationBounds

\* A row of the table leaves its status, and takes nothing else from it.
LEMMA RetireEffect ==
  ASSUME dest \in [Row -> DestRow], NEW r \in Row, RetireRow(r)
  PROVE  /\ OnlyDest(r)
         /\ dest'[r].status = "retired"
         /\ dest'[r].method = dest[r].method /\ dest'[r].proof = dest[r].proof
         /\ dest'[r].number = dest[r].number
         /\ dflt' = (IF dflt = r THEN 0 ELSE dflt)
<1> DEFINE v == [number |-> dest[r].number, proof |-> dest[r].proof,
                 method |-> dest[r].method, status |-> "retired"]
<1>1. dest[r] \in DestRow
  OBVIOUS
<1>2. v \in DestRow /\ [dest[r] EXCEPT !.status = "retired"] = v
  BY <1>1 DEF DestRow
<1>3. dest' = [dest EXCEPT ![r] = v] /\ dflt' = (IF dflt = r THEN 0 ELSE dflt)
  BY <1>2 DEF RetireRow
<1> HIDE DEF v
<1>4. OnlyDest(r) /\ dest'[r] = v
  BY <1>2, <1>3 DEF OnlyDest
<1> QED BY <1>3, <1>4 DEF v

\* A number is put on file.
LEMMA InsertEffect ==
  ASSUME dest \in [Row -> DestRow], NEW r \in Row, NEW n \in Number,
         dest' = [dest EXCEPT ![r] = Unproven(n, "pending")]
  PROVE  OnlyDest(r) /\ dest'[r].status = "pending" /\ dest'[r].method = "none"
<1> DEFINE v == Unproven(n, "pending")
<1>1. v \in DestRow /\ v.status = "pending" /\ v.method = "none"
  BY Small DEF Unproven, DestRow
<1> HIDE DEF v
<1>2. OnlyDest(r) /\ dest'[r] = v
  BY <1>1 DEF OnlyDest, v
<1> QED BY <1>1, <1>2

\* A number is proven by a code.
LEMMA ActivateEffect ==
  ASSUME dest \in [Row -> DestRow], NEW r \in Row, NEW c \in Code, NEW choose,
         Activate(r, c, choose)
  PROVE  /\ OnlyDest(r)
         /\ dest'[r].status = "active" /\ dest'[r].method = "otp"
         /\ dest'[r].proof = c /\ dest'[r].number = dest[r].number
         /\ dflt' = (IF choose THEN r ELSE dflt)
<1> DEFINE v == [dest[r] EXCEPT !.status = "active", !.proof = c, !.method = "otp"]
<1>1. dest[r] \in DestRow /\ c \in 0..Codes
  BY DestinationBounds DEF Code
<1>2. /\ v \in DestRow /\ v.status = "active" /\ v.method = "otp" /\ v.proof = c
      /\ v.number = dest[r].number
  BY <1>1 DEF DestRow
<1>3. dest' = [dest EXCEPT ![r] = v] /\ dflt' = (IF choose THEN r ELSE dflt)
  BY <1>2 DEF Activate
<1> HIDE DEF v
<1>4. OnlyDest(r) /\ dest'[r] = v
  BY <1>2, <1>3 DEF OnlyDest
<1> QED BY <1>3, <1>4 DEF v

\* A code is judged: its row is the one it was issued for.
LEMMA JudgeEffect ==
  ASSUME code \in [Code -> CodeRow], NEW c \in Code, NEW n \in 0..Tries,
         NEW s \in {"live", "consumed", "failed"},
         code' = [code EXCEPT ![c] = [@ EXCEPT !.tries = n, !.state = s]]
  PROVE  /\ OnlyCode(c) /\ code'[c].state = s /\ code'[c].row = code[c].row
         /\ code'[c].tries = n
<1> DEFINE v == [code[c] EXCEPT !.tries = n, !.state = s]
<1>1. code[c] \in CodeRow
  OBVIOUS
<1>2. v \in CodeRow /\ v.state = s /\ v.row = code[c].row /\ v.tries = n
  BY <1>1 DEF CodeRow
<1>3. code' = [code EXCEPT ![c] = v]
  OBVIOUS
<1> HIDE DEF v
<1>4. OnlyCode(c) /\ code'[c] = v
  BY <1>2, <1>3 DEF OnlyCode
<1> QED BY <1>2, <1>4

\* A code's state alone is written.
LEMMA SetCodeEffect ==
  ASSUME code \in [Code -> CodeRow], NEW c \in Code,
         NEW s \in {"consumed", "failed"}, SetCode(c, s)
  PROVE  OnlyCode(c) /\ code'[c].state = s /\ code'[c].row = code[c].row
<1> DEFINE n == code[c].tries
<1>1. code[c] \in CodeRow
  OBVIOUS
<1>2. n \in 0..Tries /\ [code[c] EXCEPT !.state = s] = [code[c] EXCEPT !.tries = n, !.state = s]
  BY <1>1 DEF CodeRow
<1>3. code' = [code EXCEPT ![c] = [@ EXCEPT !.tries = n, !.state = s]]
  BY <1>2 DEF SetCode
<1> HIDE DEF n
<1> QED BY <1>2, <1>3, JudgeEffect

\* A code is issued for a row.
LEMMA IssueEffect ==
  ASSUME code \in [Code -> CodeRow], NEW c \in Code, NEW r \in Row,
         code' = [code EXCEPT ![c] = [row |-> r, tries |-> 0, state |-> "live",
                                      fresh |-> TRUE, expired |-> FALSE]]
  PROVE  /\ OnlyCode(c) /\ code'[c].state = "live" /\ code'[c].row = r
         /\ code'[c].tries = 0
<1> DEFINE v == [row |-> r, tries |-> 0, state |-> "live",
                 fresh |-> TRUE, expired |-> FALSE]
<1>1. v \in CodeRow
  BY Small, DestinationBounds DEF CodeRow, Row
<1> HIDE DEF v
<1>2. OnlyCode(c) /\ code'[c] = v
  BY <1>1 DEF OnlyCode, v
<1> QED BY <1>2 DEF v

\* Time passes for a code.
LEMMA TimeEffect ==
  ASSUME code \in [Code -> CodeRow], NEW c \in Code, CodeCools(c) \/ CodeExpires(c)
  PROVE  /\ OnlyCode(c) /\ code'[c].state = code[c].state
         /\ code'[c].row = code[c].row /\ code'[c].tries = code[c].tries
<1>1. code[c] \in CodeRow
  OBVIOUS
<1>2. PICK v \in CodeRow :
        /\ v.row = code[c].row /\ v.state = code[c].state /\ v.tries = code[c].tries
        /\ code' = [code EXCEPT ![c] = v]
  <2>1. CASE CodeCools(c)
    <3> DEFINE v == [code[c] EXCEPT !.fresh = FALSE]
    <3>1. /\ v \in CodeRow /\ v.row = code[c].row /\ v.state = code[c].state
          /\ v.tries = code[c].tries
      BY <1>1 DEF CodeRow
    <3> QED BY <2>1, <3>1 DEF CodeCools
  <2>2. CASE CodeExpires(c)
    <3> DEFINE v == [code[c] EXCEPT !.expired = TRUE]
    <3>1. /\ v \in CodeRow /\ v.row = code[c].row /\ v.state = code[c].state
          /\ v.tries = code[c].tries
      BY <1>1 DEF CodeRow
    <3> QED BY <2>2, <3>1 DEF CodeExpires
  <2> QED BY <2>1, <2>2
<1> QED BY <1>2 DEF OnlyCode

\* A request starts, or goes on, at a place with a row.
LEMMA BeginsEffect ==
  ASSUME ask \in [Asker -> Request], NEW q \in Asker, NEW place \in RequestStep,
         NEW r \in 0..Rows, NEW n \in Number, Begins(q, place, r, n)
  PROVE  OnlyAsk(q) /\ ask'[q].at = place /\ ask'[q].row = r
<1> DEFINE v == [Quiet EXCEPT !.at = place, !.row = r, !.number = n]
<1>1. Quiet \in Request
  BY Small DEF Quiet, Request, RequestStep
<1>2. v \in Request /\ v.at = place /\ v.row = r
  BY <1>1 DEF Request
<1>3. ask' = [ask EXCEPT ![q] = v]
  BY DEF Begins
<1> HIDE DEF v
<1>4. OnlyAsk(q) /\ ask'[q] = v
  BY <1>2, <1>3 DEF OnlyAsk
<1> QED BY <1>2, <1>4

LEMMA OnRowEffect ==
  ASSUME ask \in [Asker -> Request], NEW q \in Asker, NEW place \in RequestStep,
         NEW r \in 0..Rows, OnRow(q, place, r)
  PROVE  OnlyAsk(q) /\ ask'[q].at = place /\ ask'[q].row = r
BY Small, BeginsEffect DEF OnRow

\* A request takes up a code.
LEMMA HoldsEffect ==
  ASSUME ask \in [Asker -> Request], NEW q \in Asker, NEW place \in RequestStep,
         NEW c \in Code, Holds(q, place, c)
  PROVE  /\ OnlyAsk(q) /\ ask'[q].at = place /\ ask'[q].code = c
         /\ ask'[q].row = ask[q].row
<1> DEFINE v == [ask[q] EXCEPT !.at = place, !.code = c]
<1>1. ask[q] \in Request /\ c \in 0..Codes
  BY DestinationBounds DEF Code
<1>2. v \in Request /\ v.at = place /\ v.code = c /\ v.row = ask[q].row
  BY <1>1 DEF Request
<1>3. ask' = [ask EXCEPT ![q] = v]
  BY DEF Holds
<1> HIDE DEF v
<1>4. OnlyAsk(q) /\ ask'[q] = v
  BY <1>2, <1>3 DEF OnlyAsk
<1> QED BY <1>2, <1>4

\* A request ends.
LEMMA AnswersEffect ==
  ASSUME ask \in [Asker -> Request], NEW q \in Asker, Answers(q)
  PROVE  OnlyAsk(q) /\ ask'[q].at = "idle"
<1>1. Quiet \in Request
  BY Small DEF Quiet, Request, RequestStep
<1>2. OnlyAsk(q) /\ ask'[q] = Quiet
  BY <1>1 DEF Answers, OnlyAsk
<1> QED BY <1>2 DEF Quiet

\* A code is handed in.
LEMMA VerifyEffect ==
  ASSUME ask \in [Asker -> Request], NEW q \in Asker, NEW r \in Row,
         NEW right \in BOOLEAN, NEW choose \in BOOLEAN,
         VerifyRead(q, r, right, choose)
  PROVE  OnlyAsk(q) /\ ask'[q].at = "check" /\ ask'[q].row = r
<1> DEFINE v == [Quiet EXCEPT !.at = "check", !.row = r, !.right = right,
                              !.choose = choose]
<1>1. Quiet \in Request /\ r \in 0..Rows
  BY Small, DestinationBounds DEF Quiet, Request, RequestStep, Row
<1>2. v \in Request /\ v.at = "check" /\ v.row = r
  BY <1>1 DEF Request, RequestStep
<1>3. ask' = [ask EXCEPT ![q] = v]
  BY DEF VerifyRead
<1> HIDE DEF v
<1>4. OnlyAsk(q) /\ ask'[q] = v
  BY <1>2, <1>3 DEF OnlyAsk
<1> QED BY <1>2, <1>4

\* A payment starts with a number frozen for it.
LEMMA FreezeEffect ==
  ASSUME pay \in [Payment -> PayRow], NEW t \in Payment, NEW r \in 0..Rows,
         pay' = [pay EXCEPT ![t] = [@ EXCEPT !.state = "sent", !.frozen = r]]
  PROVE  OnlyPay(t) /\ pay'[t].state = "sent" /\ pay'[t].frozen = r /\ pay'[t].to = pay[t].to
<1> DEFINE v == [pay[t] EXCEPT !.state = "sent", !.frozen = r]
<1>1. pay[t] \in PayRow
  OBVIOUS
<1>2. v \in PayRow /\ v.state = "sent" /\ v.frozen = r /\ v.to = pay[t].to
  BY <1>1 DEF PayRow
<1>3. pay' = [pay EXCEPT ![t] = v]
  OBVIOUS
<1> HIDE DEF v
<1>4. OnlyPay(t) /\ pay'[t] = v
  BY <1>2, <1>3 DEF OnlyPay
<1> QED BY <1>2, <1>4

\* A payment moves on.
LEMMA SetPayEffect ==
  ASSUME pay \in [Payment -> PayRow], NEW t \in Payment, NEW s \in {"sent", "failed", "funded"},
         pay' = [pay EXCEPT ![t] = [@ EXCEPT !.state = s]]
  PROVE  OnlyPay(t) /\ pay'[t].state = s /\ pay'[t].frozen = pay[t].frozen /\ pay'[t].to = pay[t].to
<1> DEFINE v == [pay[t] EXCEPT !.state = s]
<1>1. pay[t] \in PayRow
  OBVIOUS
<1>2. v \in PayRow /\ v.state = s /\ v.frozen = pay[t].frozen /\ v.to = pay[t].to
  BY <1>1 DEF PayRow
<1>3. pay' = [pay EXCEPT ![t] = v]
  OBVIOUS
<1> HIDE DEF v
<1>4. OnlyPay(t) /\ pay'[t] = v
  BY <1>2, <1>3 DEF OnlyPay
<1> QED BY <1>2, <1>4

\* Its escrow insert is behind it.
LEMMA InsertedEffect ==
  ASSUME pay \in [Payment -> PayRow], NEW t \in Payment, NEW b \in BOOLEAN,
         pay' = [pay EXCEPT ![t] = [@ EXCEPT !.inserted = b]]
  PROVE  OnlyPay(t) /\ pay'[t].state = pay[t].state /\ pay'[t].frozen = pay[t].frozen /\ pay'[t].to = pay[t].to
<1> DEFINE v == [pay[t] EXCEPT !.inserted = b]
<1>1. pay[t] \in PayRow
  OBVIOUS
<1>2. v \in PayRow /\ v.state = pay[t].state /\ v.frozen = pay[t].frozen /\ v.to = pay[t].to
  BY <1>1 DEF PayRow
<1>3. pay' = [pay EXCEPT ![t] = v]
  OBVIOUS
<1> HIDE DEF v
<1>4. OnlyPay(t) /\ pay'[t] = v
  BY <1>2, <1>3 DEF OnlyPay
<1> QED BY <1>2, <1>4

\* Its payout is sent.
LEMMA ReleaseEffect ==
  ASSUME pay \in [Payment -> PayRow], NEW t \in Payment, NEW r \in 0..Rows,
         pay' = [pay EXCEPT ![t] = [@ EXCEPT !.state = "released", !.to = r]]
  PROVE  OnlyPay(t) /\ pay'[t].state = "released" /\ pay'[t].frozen = pay[t].frozen /\ pay'[t].to = r
<1> DEFINE v == [pay[t] EXCEPT !.state = "released", !.to = r]
<1>1. pay[t] \in PayRow
  OBVIOUS
<1>2. v \in PayRow /\ v.state = "released" /\ v.frozen = pay[t].frozen /\ v.to = r
  BY <1>1 DEF PayRow
<1>3. pay' = [pay EXCEPT ![t] = v]
  OBVIOUS
<1> HIDE DEF v
<1>4. OnlyPay(t) /\ pay'[t] = v
  BY <1>2, <1>3 DEF OnlyPay
<1> QED BY <1>2, <1>4

-----------------------------------------------------------------------------
(* Type correctness, and what refers to what.                              *)

\* Rows and codes are numbered as they are created.
Numbered ==
  /\ \E n \in 0..Rows : \A r \in Row : dest[r].status # "none" <=> r <= n
  /\ \E n \in 0..Codes : \A c \in Code : code[c].state # "none" <=> c <= n

\* A request holds rows that are on file and codes that were issued; ...
Apt(v) ==
  /\ v.at \in {"retire", "live", "supersede", "issue", "check", "consume"}
       => v.row \in Row /\ dest[v.row].status # "none"
  /\ v.at \in {"supersede", "consume"}
       => v.code \in Code /\ code[v.code].state # "none"

\* ... a code was issued for a row on file; an active row is the default; a
\* live code has attempts left.
TriesInv == \A c \in Code : code[c].state = "live" => code[c].tries < Tries
ReferInv ==
  /\ \A q \in Asker : Apt(ask[q])
  /\ \A c \in Code : code[c].state # "none" =>
       code[c].row \in Row /\ dest[code[c].row].status # "none"
  /\ dflt # 0 => dflt \in Row /\ dest[dflt].status = "active"
  /\ TriesInv

\* The next row's number is free, and what is on file is numbered below it.
LEMMA NextRowFree ==
  ASSUME DestTypeOK, Numbered
  PROVE  /\ NextRow - 1 \in 0..Rows
         /\ \A r \in Row : dest[r].status # "none" <=> r <= NextRow - 1
<1>1. PICK n \in 0..Rows : \A r \in Row : dest[r].status # "none" <=> r <= n
  BY DEF Numbered
<1>2. Rows \in Nat /\ n \in Nat
  BY DestinationBounds
<1>3. {r \in Row : dest[r].status # "none"} = 1..n
  BY <1>1, <1>2 DEF Row
<1>4. Cardinality(1..n) = n
  BY <1>2, FS_Interval
<1>5. NextRow = 1 + n
  BY <1>3, <1>4 DEF NextRow
<1> QED BY <1>1, <1>2, <1>5

\* So is the next code's.
LEMMA NextCodeFree ==
  ASSUME DestTypeOK, Numbered
  PROVE  /\ NextCode - 1 \in 0..Codes
         /\ \A c \in Code : code[c].state # "none" <=> c <= NextCode - 1
<1>1. PICK n \in 0..Codes : \A c \in Code : code[c].state # "none" <=> c <= n
  BY DEF Numbered
<1>2. Codes \in Nat /\ n \in Nat
  BY DestinationBounds
<1>3. {c \in Code : code[c].state # "none"} = 1..n
  BY <1>1, <1>2 DEF Code
<1>4. Cardinality(1..n) = n
  BY <1>2, FS_Interval
<1>5. NextCode = 1 + n
  BY <1>3, <1>4 DEF NextCode
<1> QED BY <1>1, <1>2, <1>5

\* The payments' side of the state.
MoneyOK ==
  /\ pay \in [Payment -> PayRow]
  /\ escrow \in [tx : 0..Payments, snap : 0..Rows]
  /\ known \in 0..Rows
  /\ lost \in 0..LostWrites

\* The three tables have their types.
TablesOK ==
  /\ dest \in [Row -> DestRow] /\ dflt \in 0..Rows
  /\ code \in [Code -> CodeRow] /\ ask \in [Asker -> Request]

LEMMA TypeParts == DestTypeOK <=> TablesOK /\ MoneyOK
BY DEF DestTypeOK, TablesOK, MoneyOK, DestRow, CodeRow, Request, PayRow

\* Money is typed whatever the step.
LEMMA MoneyStep ==
  ASSUME DestTypeOK, Numbered, [DestNext]_destVars
  PROVE  MoneyOK'
<1>1. TablesOK /\ MoneyOK
  BY TypeParts
<1>2. lost' = lost \/ Loses => lost' \in 0..LostWrites
  BY <1>1, DestinationBounds DEF Loses, MoneyOK
<1>3. UNCHANGED <<pay, escrow, known>> /\ (lost' = lost \/ Loses) => MoneyOK'
  BY <1>1, <1>2 DEF MoneyOK
<1>4. CASE UNCHANGED destVars
  BY <1>3, <1>4 DEF destVars
<1>5. ASSUME NEW q \in Asker, OnboardStep(q) PROVE MoneyOK'
  BY <1>3, <1>5 DEF OnboardStep, AddRead, RequestChallenge, VerifyRead, AddRetire,
     AddInsert, IssueRead, Supersede, Issue, VerifyLive, Consume, RequestCut
<1>6. ASSUME NEW c \in Code, CodeCools(c) \/ CodeExpires(c) PROVE MoneyOK'
  BY <1>3, <1>6 DEF CodeCools, CodeExpires
<1>7. ASSUME NEW r \in Row, SetDefault(r) \/ Retire(r) PROVE MoneyOK'
  BY <1>3, <1>7 DEF SetDefault, Retire
<1>8. Payable \in 0..Rows /\ Resolved \in 0..Rows
  BY <1>1, Small DEF Payable, Resolved, TablesOK, MoneyOK
<1>9. ASSUME NEW t \in Payment, Initiate(t) PROVE MoneyOK'
  <2>1. pay' \in [Payment -> PayRow]
    BY <1>1, <1>8, <1>9, FreezeEffect, SetPayEffect DEF Initiate, SetPay, OnlyPay, MoneyOK
  <2>2. UNCHANGED <<escrow, known>> /\ (lost' = lost \/ Loses)
    BY <1>9 DEF Initiate
  <2> QED BY <1>1, <1>2, <2>1, <2>2 DEF MoneyOK
<1>10. ASSUME NEW t \in Payment, InsertEscrow(t) PROVE MoneyOK'
  <2>1. pay' \in [Payment -> PayRow] /\ pay[t].frozen \in 0..Rows /\ t \in 0..Payments
    <3>1. pay[t] \in PayRow
      BY <1>1 DEF MoneyOK
    <3>2. pay' \in [Payment -> PayRow]
      BY <1>1, <1>10, InsertedEffect DEF InsertEscrow, OnlyPay, MoneyOK
    <3> QED BY <3>1, <3>2, DestinationBounds DEF PayRow, Payment
  <2>2. escrow' \in [tx : 0..Payments, snap : 0..Rows]
    BY <1>1, <1>10, <2>1 DEF InsertEscrow, MoneyOK
  <2>3. known' \in 0..Rows
    BY <1>1, <1>10, NextRowFree DEF InsertEscrow, MoneyOK
  <2>4. lost' = lost \/ Loses
    BY <1>10 DEF InsertEscrow
  <2> QED BY <1>2, <2>1, <2>2, <2>3, <2>4 DEF MoneyOK
<1>11. ASSUME NEW t \in Payment, PaymentFails(t) PROVE MoneyOK'
  BY <1>1, <1>11, SetPayEffect DEF PaymentFails, SetPay, OnlyPay, MoneyOK
<1>12. ASSUME NEW t \in Payment, PaymentFunds(t) PROVE MoneyOK'
  <2>1. pay' \in [Payment -> PayRow] /\ t \in 0..Payments
    <3>1. pay' \in [Payment -> PayRow]
      BY <1>1, <1>12, SetPayEffect DEF PaymentFunds, SetPay, OnlyPay, MoneyOK
    <3> QED BY <3>1, DestinationBounds DEF Payment
  <2>2. escrow' \in [tx : 0..Payments, snap : 0..Rows]
    BY <1>1, <1>12, <2>1 DEF PaymentFunds, MoneyOK
  <2> QED BY <1>1, <1>12, <2>1, <2>2 DEF PaymentFunds, MoneyOK
<1>13. ASSUME NEW t \in Payment, ReleasePayout(t) PROVE MoneyOK'
  BY <1>1, <1>8, <1>13, ReleaseEffect DEF ReleasePayout, OnlyPay, MoneyOK
<1> QED BY <1>4, <1>5, <1>6, <1>7, <1>9, <1>10, <1>11, <1>12, <1>13 DEF DestNext

\* Nothing that is on file, issued or proven is forgotten.
Stays ==
  /\ \A r \in Row : dest[r].status # "none" => dest'[r].status # "none"
  /\ \A c \in Code : code[c].state # "none" =>
       code'[c].state # "none" /\ code'[c].row = code[c].row

\* What a step must keep: codes are issued for rows on file, and only an
\* active row is the default.
CodesOK ==
  \A c \in Code : code[c].state # "none" =>
    code[c].row \in Row /\ dest[code[c].row].status # "none"
DefaultOK == dflt # 0 => dflt \in Row /\ dest[dflt].status = "active"

LEMMA ReferParts ==
  ReferInv <=> CodesOK /\ DefaultOK /\ TriesInv /\ \A q \in Asker : Apt(ask[q])
BY DEF ReferInv, CodesOK, DefaultOK

\* The requests that do not move hold what they held.
LEMMA OthersApt ==
  ASSUME NEW p \in Asker, Apt(ask[p]), Stays, ask'[p] = ask[p]
  PROVE  Apt(ask[p])'
BY DEF Apt, Stays

\* When neither rows nor codes change, nothing they refer to does.
LEMMA OnlyRequest ==
  ASSUME ReferInv, UNCHANGED <<owner, code>>
  PROVE  Stays /\ CodesOK' /\ DefaultOK' /\ TriesInv'
BY ReferParts DEF Stays, CodesOK, DefaultOK, TriesInv, owner

\* When a code that was issued is judged or ages, neither.
LEMMA OnlyJudged ==
  ASSUME code \in [Code -> CodeRow], ReferInv, UNCHANGED owner, NEW c \in Code,
         OnlyCode(c), code[c].state # "none", code'[c].state # "none",
         code'[c].row = code[c].row,
         code'[c].state = "live" => code'[c].tries < Tries
  PROVE  Stays /\ CodesOK' /\ DefaultOK' /\ TriesInv'
<1>1. Stays
  BY DEF Stays, OnlyCode, owner
<1>2. CodesOK'
  BY ReferParts DEF CodesOK, OnlyCode, owner
<1>3. DefaultOK'
  BY ReferParts DEF DefaultOK, owner
<1>4. TriesInv'
  BY ReferParts DEF TriesInv, OnlyCode
<1> QED BY <1>1, <1>2, <1>3, <1>4

\* A row that leaves the file's active numbers takes the default with it.
LEMMA OnlyRetired ==
  ASSUME dest \in [Row -> DestRow], ReferInv, NEW r \in Row, RetireRow(r),
         UNCHANGED code
  PROVE  Stays /\ CodesOK' /\ DefaultOK' /\ TriesInv'
<1>1. Stays
  BY RetireEffect DEF Stays, OnlyDest
<1>2. CodesOK'
  BY ReferParts, RetireEffect DEF CodesOK, OnlyDest
<1>3. DefaultOK'
  BY ReferParts, RetireEffect DEF DefaultOK, OnlyDest
<1>4. TriesInv'
  BY ReferParts DEF TriesInv
<1> QED BY <1>1, <1>2, <1>3, <1>4

\* A request moves to where it holds what it should.
AskFine(q) == OnlyAsk(q) /\ Apt(ask[q])'
Fine(q) ==
  /\ TablesOK' /\ Stays /\ CodesOK' /\ DefaultOK' /\ TriesInv'
  /\ AskFine(q)

\* What a step of a request does to the tables.
LEMMA ReferOnboard ==
  ASSUME DestTypeOK, Numbered, ReferInv, NEW q \in Asker, OnboardStep(q)
  PROVE  TablesOK' /\ ReferInv' /\ Stays
<1>1. /\ dest \in [Row -> DestRow] /\ dflt \in 0..Rows
      /\ code \in [Code -> CodeRow] /\ ask \in [Asker -> Request]
  BY TypeParts DEF TablesOK
<1>2. Row \subseteq 0..Rows /\ 0 \notin Row /\ 0 \in 0..Rows
  BY DestinationBounds DEF Row
<1>3. {"idle", "retire", "insert", "live", "supersede", "issue", "check", "consume"}
        \subseteq RequestStep
  BY DEF RequestStep
<1>4. Apt(ask[q]) /\ ask[q].number \in Number
  <2>1. ask[q] \in Request
    BY <1>1
  <2> QED BY <2>1 DEF ReferInv, Request
<1>a. SUFFICES Fine(q)
  <2>1. ASSUME Fine(q), NEW p \in Asker PROVE Apt(ask[p])'
    <3>1. CASE p = q
      BY <2>1, <3>1 DEF Fine, AskFine
    <3>2. CASE p # q
      BY <2>1, <3>2, OthersApt DEF Fine, AskFine, OnlyAsk, ReferInv
    <3> QED BY <3>1, <3>2
  <2>2. ASSUME Fine(q) PROVE ReferInv'
    BY <2>1, <2>2 DEF ReferInv, CodesOK, DefaultOK, Fine
  <2> QED BY <2>2 DEF Fine
<1>5. ASSUME AskFine(q), UNCHANGED <<owner, code>> PROVE Fine(q)
  <2>1. TablesOK'
    BY <1>1, <1>5 DEF TablesOK, AskFine, OnlyAsk, owner
  <2> QED BY <1>5, <2>1, OnlyRequest DEF Fine
<1>6. ASSUME NEW r \in Row, dest[r].status # "none", NEW n \in Number,
             UNCHANGED <<owner, code>>,
             \/ Answers(q) \/ OnRow(q, "live", r) \/ OnRow(q, "issue", r)
             \/ Begins(q, "retire", r, n)
      PROVE  AskFine(q)
  BY <1>1, <1>2, <1>3, <1>6, AnswersEffect, OnRowEffect, BeginsEffect DEF AskFine, Apt, owner
<1>7. ASSUME NEW n \in Number, Begins(q, "insert", 0, n) PROVE AskFine(q)
  BY <1>1, <1>2, <1>3, <1>7, BeginsEffect DEF AskFine, Apt
<1>8. ASSUME Answers(q) PROVE AskFine(q)
  BY <1>1, <1>8, AnswersEffect DEF AskFine, Apt
<1>9. ASSUME NEW n \in Number, AddRead(q, n) PROVE Fine(q)
  <2>1. UNCHANGED <<owner, code>>
    BY <1>9 DEF AddRead
  <2>2. CASE Begins(q, "insert", 0, n)
    BY <1>5, <1>7, <2>1, <2>2
  <2>3. ASSUME NEW r \in With("pending"), OnRow(q, "live", r) \/ Begins(q, "retire", r, n)
        PROVE  Fine(q)
    <3>1. r \in Row /\ dest[r].status # "none"
      BY DEF With
    <3> QED BY <1>5, <1>6, <2>1, <2>3, <3>1
  <2> QED BY <1>9, <2>2, <2>3 DEF AddRead
<1>10. ASSUME NEW r \in Row, RequestChallenge(q, r) PROVE Fine(q)
  <2>1. UNCHANGED <<owner, code>> /\ OnRow(q, "live", r) /\ dest[r].status # "none"
    BY <1>10 DEF RequestChallenge
  <2> QED BY <1>4, <1>5, <1>6, <2>1
<1>11. ASSUME NEW r \in Row, NEW right \in BOOLEAN, NEW choose \in BOOLEAN,
              VerifyRead(q, r, right, choose)
       PROVE  Fine(q)
  <2>1. UNCHANGED <<owner, code>> /\ dest[r].status # "none"
    BY <1>11 DEF VerifyRead
  <2>2. AskFine(q)
    BY <1>1, <1>11, <2>1, VerifyEffect DEF AskFine, Apt, owner
  <2> QED BY <1>5, <2>1, <2>2
<1>12. CASE AddRetire(q)
  <2> DEFINE r == ask[q].row
  <2>1. r \in Row /\ UNCHANGED code
    BY <1>4, <1>12 DEF AddRetire, Asks, Apt
  <2>2. CASE UNCHANGED owner /\ Answers(q)
    BY <1>5, <1>8, <2>1, <2>2
  <2>3. CASE RetireRow(r) /\ Begins(q, "insert", 0, ask[q].number)
    <3>1. TablesOK'
      BY <1>1, <1>2, <1>4, <1>7, <2>1, <2>3, RetireEffect DEF TablesOK, OnlyDest, OnlyAsk, AskFine
    <3>2. AskFine(q)
      BY <1>4, <1>7, <2>3
    <3> QED BY <1>1, <2>1, <2>3, <3>1, <3>2, OnlyRetired DEF Fine
  <2> QED BY <1>12, <2>2, <2>3 DEF AddRetire
<1>13. CASE AddInsert(q)
  <2>1. UNCHANGED <<dflt, code>>
    BY <1>13 DEF AddInsert
  <2>2. CASE UNCHANGED dest /\ Answers(q)
    BY <1>5, <1>8, <2>1, <2>2 DEF owner
  <2>3. CASE /\ NextRow \in Row
             /\ dest' = [dest EXCEPT ![NextRow] = Unproven(ask[q].number, "pending")]
             /\ OnRow(q, "live", NextRow)
    <3>1. PICK r \in Row : r = NextRow
      BY <2>3
    <3>2. /\ OnlyDest(r) /\ dest'[r].status = "pending"
      BY <1>1, <1>4, <2>3, <3>1, InsertEffect
    <3>3. dest[r].status = "none"
      BY <3>1, <1>2, NextRowFree
    <3>4. Stays
      BY <2>1, <3>2, <3>3 DEF Stays, OnlyDest
    <3>5. AskFine(q)
      BY <1>1, <1>2, <1>3, <2>3, <3>1, <3>2, OnRowEffect DEF AskFine, Apt
    <3>6. TablesOK'
      BY <1>1, <2>1, <3>2, <3>5 DEF TablesOK, OnlyDest, OnlyAsk, AskFine
    <3>7. CodesOK'
      BY <2>1, <3>4, ReferParts DEF CodesOK, Stays
    <3>8. DefaultOK'
      BY <2>1, <3>2, <3>3, ReferParts DEF DefaultOK, OnlyDest
    <3> QED BY <2>1, <3>4, <3>5, <3>6, <3>7, <3>8, ReferParts DEF Fine, TriesInv
  <2> QED BY <1>13, <2>2, <2>3 DEF AddInsert
<1>14. CASE IssueRead(q)
  <2> DEFINE r == ask[q].row
  <2>1. r \in Row /\ dest[r].status # "none" /\ UNCHANGED <<owner, code>>
    BY <1>4, <1>14 DEF IssueRead, Asks, Apt
  <2>2. CASE OnRow(q, "issue", r)
    BY <1>4, <1>5, <1>6, <2>1, <2>2
  <2>3. CASE Answers(q)
    BY <1>5, <1>8, <2>1, <2>3
  <2>4. ASSUME NEW c \in LiveCode(r), Holds(q, "supersede", c) PROVE Fine(q)
    <3>1. c \in Code /\ code[c].state # "none"
      BY DEF LiveCode
    <3>2. AskFine(q)
      BY <1>1, <1>3, <2>1, <2>4, <3>1, HoldsEffect DEF AskFine, Apt, owner
    <3> QED BY <1>5, <2>1, <3>2
  <2> QED BY <1>14, <2>2, <2>3, <2>4 DEF IssueRead
<1>15. CASE Supersede(q)
  <2> DEFINE c == ask[q].code
  <2>1. /\ c \in Code /\ code[c].state # "none" /\ UNCHANGED owner
        /\ ask[q].row \in Row /\ dest[ask[q].row].status # "none"
    BY <1>4, <1>15 DEF Supersede, Asks, Apt
  <2>2. AskFine(q)
    <3>1. ask[q].row \in 0..Rows /\ OnRow(q, "issue", ask[q].row)
      BY <1>2, <1>15, <2>1 DEF Supersede
    <3>2. OnlyAsk(q) /\ ask'[q].at = "issue" /\ ask'[q].row = ask[q].row
      BY <1>1, <1>3, <3>1, OnRowEffect
    <3> QED BY <2>1, <3>2 DEF AskFine, Apt, owner
  <2>3. CASE UNCHANGED code
    BY <1>5, <2>1, <2>2, <2>3
  <2>4. CASE SetCode(c, "failed")
    <3>1. OnlyCode(c) /\ code'[c].state = "failed" /\ code'[c].row = code[c].row
      BY <1>1, <2>1, <2>4, SetCodeEffect
    <3>2. TablesOK'
      BY <1>1, <2>1, <2>2, <3>1 DEF TablesOK, OnlyCode, OnlyAsk, AskFine, owner
    <3> QED BY <1>1, <2>1, <2>2, <3>1, <3>2, OnlyJudged DEF Fine
  <2> QED BY <1>15, <2>3, <2>4 DEF Supersede
<1>16. CASE Issue(q)
  <2> DEFINE r == ask[q].row
  <2>1. r \in Row /\ dest[r].status # "none" /\ UNCHANGED owner
    BY <1>4, <1>16 DEF Issue, Asks, Apt
  <2>2. AskFine(q)
    BY <1>8, <1>16 DEF Issue
  <2>3. CASE UNCHANGED code
    BY <1>5, <2>1, <2>2, <2>3
  <2>4. CASE /\ NextCode \in Code
             /\ code' = [code EXCEPT ![NextCode] =
                            [row |-> r, tries |-> 0, state |-> "live",
                             fresh |-> TRUE, expired |-> FALSE]]
    <3>1. PICK c \in Code : c = NextCode
      BY <2>4
    <3>2. /\ OnlyCode(c) /\ code'[c].state = "live" /\ code'[c].row = r
          /\ code'[c].tries = 0
      BY <1>1, <2>1, <2>4, <3>1, IssueEffect
    <3>3. code[c].state = "none"
      <4>1. c \in Nat
        BY DestinationBounds DEF Code
      <4> QED BY <3>1, <4>1, NextCodeFree
    <3>4. TablesOK'
      BY <1>1, <2>1, <2>2, <3>2 DEF TablesOK, OnlyCode, OnlyAsk, AskFine, owner
    <3>5. Stays
      BY <2>1, <3>2, <3>3 DEF Stays, OnlyCode, owner
    <3>6. CodesOK'
      BY <2>1, <3>2, ReferParts DEF CodesOK, OnlyCode, owner
    <3>7. DefaultOK'
      BY <2>1, ReferParts DEF DefaultOK, owner
    <3>8. TriesInv'
      BY <3>2, ReferParts, DestinationBounds DEF TriesInv, OnlyCode
    <3> QED BY <2>2, <3>4, <3>5, <3>6, <3>7, <3>8 DEF Fine
  <2> QED BY <1>16, <2>3, <2>4 DEF Issue
<1>17. CASE VerifyLive(q)
  <2>1. ask[q].row \in Row /\ dest[ask[q].row].status # "none" /\ UNCHANGED <<owner, code>>
    BY <1>4, <1>17 DEF VerifyLive, Asks, Apt
  <2>2. CASE Answers(q)
    BY <1>5, <1>8, <2>1, <2>2
  <2>3. ASSUME NEW c \in LiveCode(ask[q].row), Holds(q, "consume", c) PROVE Fine(q)
    <3>1. c \in Code /\ code[c].state # "none"
      BY DEF LiveCode
    <3>2. AskFine(q)
      BY <1>1, <1>3, <2>1, <2>3, <3>1, HoldsEffect DEF AskFine, Apt, owner
    <3> QED BY <1>5, <2>1, <3>2
  <2> QED BY <1>17, <2>2, <2>3 DEF VerifyLive
<1>18. CASE Consume(q)
  <2> DEFINE c == ask[q].code
  <2> DEFINE r == code[c].row
  <2>1. c \in Code /\ code[c].state # "none" /\ AskFine(q)
    BY <1>4, <1>8, <1>18 DEF Consume, Asks, Apt
  <2>2. r \in Row /\ dest[r].status # "none"
    BY <2>1 DEF ReferInv
  <2>3. CASE UNCHANGED <<owner, code>>
    BY <1>5, <2>1, <2>3
  <2>4. CASE SetCode(c, "failed") /\ UNCHANGED owner
    <3>1. OnlyCode(c) /\ code'[c].state = "failed" /\ code'[c].row = code[c].row
      BY <1>1, <2>1, <2>4, SetCodeEffect
    <3>2. TablesOK'
      BY <1>1, <2>1, <2>4, <3>1 DEF TablesOK, OnlyCode, OnlyAsk, AskFine, owner
    <3> QED BY <1>1, <2>1, <2>4, <3>1, <3>2, OnlyJudged DEF Fine
  <2>5. CASE SetCode(c, "consumed") /\ Activate(r, c, ask[q].choose)
    <3>1. OnlyCode(c) /\ code'[c].state = "consumed" /\ code'[c].row = code[c].row
      BY <1>1, <2>1, <2>5, SetCodeEffect
    <3>2. /\ OnlyDest(r) /\ dest'[r].status = "active"
          /\ dflt' = (IF ask[q].choose THEN r ELSE dflt)
      BY <1>1, <2>1, <2>2, <2>5, ActivateEffect
    <3>3. TablesOK'
      BY <1>1, <1>2, <2>1, <2>2, <3>1, <3>2 DEF TablesOK, OnlyDest, OnlyCode, OnlyAsk, AskFine
    <3>4. Stays
      BY <3>1, <3>2 DEF Stays, OnlyCode, OnlyDest
    <3>5. CodesOK'
      BY <2>2, <3>1, <3>2, ReferParts DEF CodesOK, OnlyCode, OnlyDest
    <3>6. DefaultOK'
      BY <2>2, <3>2, ReferParts DEF DefaultOK, OnlyDest
    <3>7. TriesInv'
      BY <3>1, ReferParts DEF TriesInv, OnlyCode
    <3> QED BY <2>1, <3>3, <3>4, <3>5, <3>6, <3>7 DEF Fine
  <2>6. CASE /\ code[c].state = "live" /\ ~ ask[q].right
             /\ code' = [code EXCEPT ![c] =
                           [@ EXCEPT !.tries = code[c].tries + 1,
                                     !.state = AfterWrong(code[c].tries + 1)]]
             /\ UNCHANGED owner
    <3> DEFINE n == code[c].tries + 1
    <3>1. code[c].tries \in 0..Tries /\ code[c].tries < Tries
      <4>1. code[c] \in CodeRow
        BY <1>1, <2>1
      <4> QED BY <2>1, <2>6, <4>1 DEF CodeRow, ReferInv, TriesInv
    <3>2. n \in 0..Tries
      BY <3>1, DestinationBounds
    <3>3. AfterWrong(n) \in {"live", "failed"} /\ (AfterWrong(n) = "live" => n < Tries)
      BY <3>2, DestinationBounds DEF AfterWrong
    <3> HIDE DEF n
    <3>4. code' = [code EXCEPT ![c] = [@ EXCEPT !.tries = n, !.state = AfterWrong(n)]]
      BY <2>6 DEF n
    <3>5. PICK s \in {"live", "consumed", "failed"} : s = AfterWrong(n)
      BY <3>3
    <3>6. /\ OnlyCode(c) /\ code'[c].state = s /\ code'[c].row = code[c].row
          /\ code'[c].tries = n
      BY <1>1, <2>1, <3>2, <3>4, <3>5, JudgeEffect
    <3>7. TablesOK'
      BY <1>1, <2>1, <2>6, <3>6 DEF TablesOK, OnlyCode, OnlyAsk, AskFine, owner
    <3>8. s # "none" /\ (s = "live" => n < Tries)
      BY <3>3, <3>5
    <3> QED BY <1>1, <2>1, <2>6, <3>6, <3>7, <3>8, OnlyJudged DEF Fine
  <2> QED BY <1>18, <2>3, <2>4, <2>5, <2>6, Small DEF Consume
<1>19. CASE RequestCut(q)
  BY <1>5, <1>8, <1>19 DEF RequestCut
<1> QED BY <1>9, <1>10, <1>11, <1>12, <1>13, <1>14, <1>15, <1>16, <1>17, <1>18, <1>19
        DEF OnboardStep

\* What a step does to the tables.
LEMMA ReferStep ==
  ASSUME DestTypeOK, Numbered, ReferInv, [DestNext]_destVars
  PROVE  TablesOK' /\ ReferInv' /\ Stays
<1>1. TablesOK
  BY TypeParts
<1>2. ASSUME UNCHANGED ask, Stays, CodesOK', DefaultOK', TriesInv' PROVE ReferInv'
  <2>1. \A q \in Asker : Apt(ask[q])'
    BY <1>2, OthersApt DEF ReferInv
  <2> QED BY <1>2, <2>1 DEF ReferInv, CodesOK, DefaultOK
<1>3. ASSUME UNCHANGED <<owner, code, ask>> PROVE TablesOK' /\ ReferInv' /\ Stays
  BY <1>1, <1>2, <1>3, OnlyRequest DEF TablesOK, owner
<1>4. CASE UNCHANGED destVars
  BY <1>3, <1>4 DEF destVars
<1>5. ASSUME NEW c \in Code, CodeCools(c) \/ CodeExpires(c)
      PROVE  TablesOK' /\ ReferInv' /\ Stays
  <2>1. UNCHANGED <<owner, ask>> /\ code[c].state = "live"
    BY <1>5 DEF CodeCools, CodeExpires
  <2>2. /\ OnlyCode(c) /\ code'[c].state = "live"
        /\ code'[c].row = code[c].row /\ code'[c].tries = code[c].tries
    BY <1>1, <1>5, <2>1, TimeEffect DEF TablesOK
  <2>3. code[c].tries < Tries
    BY <2>1 DEF ReferInv, TriesInv
  <2>4. Stays /\ CodesOK' /\ DefaultOK' /\ TriesInv'
    BY <1>1, <2>1, <2>2, <2>3, OnlyJudged DEF TablesOK
  <2> QED BY <1>1, <1>2, <2>1, <2>2, <2>4 DEF TablesOK, OnlyCode, owner
<1>6. ASSUME NEW r \in Row, SetDefault(r) PROVE TablesOK' /\ ReferInv' /\ Stays
  <2>1. UNCHANGED <<dest, code, ask>> /\ dflt' = r /\ dest[r].status = "active"
    BY <1>6 DEF SetDefault
  <2>2. TablesOK'
    BY <1>1, <2>1, DestinationBounds DEF TablesOK, Row
  <2>3. Stays /\ CodesOK' /\ DefaultOK' /\ TriesInv'
    BY <2>1, ReferParts DEF Stays, CodesOK, DefaultOK, TriesInv
  <2> QED BY <1>2, <2>1, <2>2, <2>3
<1>7. ASSUME NEW r \in Row, Retire(r) PROVE TablesOK' /\ ReferInv' /\ Stays
  <2>1. UNCHANGED <<code, ask>> /\ RetireRow(r)
    BY <1>7 DEF Retire
  <2>2. OnlyDest(r) /\ dflt' \in {0, dflt}
    BY <1>1, <2>1, RetireEffect DEF TablesOK
  <2>3. TablesOK'
    BY <1>1, <2>1, <2>2, Small DEF TablesOK, OnlyDest
  <2>4. Stays /\ CodesOK' /\ DefaultOK' /\ TriesInv'
    BY <1>1, <2>1, OnlyRetired DEF TablesOK
  <2> QED BY <1>2, <2>1, <2>3, <2>4
<1>8. ASSUME NEW t \in Payment,
             \/ Initiate(t) \/ InsertEscrow(t) \/ PaymentFails(t)
             \/ PaymentFunds(t) \/ ReleasePayout(t)
      PROVE  UNCHANGED <<owner, code, ask>>
  BY <1>8 DEF Initiate, InsertEscrow, PaymentFails, PaymentFunds, ReleasePayout
<1> QED BY <1>3, <1>4, <1>5, <1>6, <1>7, <1>8, ReferOnboard DEF DestNext

\* Rows and codes are created in the order of their numbers.
LEMMA NumberStep ==
  ASSUME DestTypeOK, Numbered, ReferInv, [DestNext]_destVars
  PROVE  Numbered'
<1> DEFINE RowsSame == \A r \in Row : dest'[r].status = "none" <=> dest[r].status = "none"
<1> DEFINE CodesSame == \A c \in Code : code'[c].state = "none" <=> code[c].state = "none"
<1>1. TablesOK /\ Stays
  BY TypeParts, ReferStep
<1>2. ASSUME RowsSame, CodesSame PROVE Numbered'
  BY <1>2 DEF Numbered
<1>3. ASSUME NEW q \in Asker, AddInsert(q), dest' # dest PROVE Numbered'
  <2>1. PICK r \in Row : /\ r = NextRow /\ UNCHANGED code
                         /\ dest' = [dest EXCEPT ![r] = Unproven(ask[q].number, "pending")]
    BY <1>3 DEF AddInsert
  <2>2. ask[q].number \in Number
    <3>1. ask[q] \in Request
      BY <1>1 DEF TablesOK
    <3> QED BY <3>1 DEF Request
  <2>3. OnlyDest(r) /\ dest'[r].status = "pending"
    BY <1>1, <2>1, <2>2, InsertEffect DEF TablesOK
  <2>4. \A s \in Row : dest[s].status # "none" <=> s <= r - 1
    BY <2>1, NextRowFree
  <2>5. r \in 0..Rows /\ Row \subseteq Nat /\ r \in Nat
    BY DestinationBounds DEF Row
  <2>6. \A s \in Row : dest'[s].status # "none" <=> s <= r
    BY <2>3, <2>4, <2>5 DEF OnlyDest
  <2>7. \E n \in 0..Codes : \A c \in Code : code[c].state # "none" <=> c <= n
    BY DEF Numbered
  <2> QED BY <2>1, <2>5, <2>6, <2>7 DEF Numbered
<1>4. ASSUME NEW q \in Asker, Issue(q), code' # code PROVE Numbered'
  <2>1. PICK c \in Code :
          /\ c = NextCode /\ UNCHANGED dest
          /\ code' = [code EXCEPT ![c] = [row |-> ask[q].row, tries |-> 0,
                        state |-> "live", fresh |-> TRUE, expired |-> FALSE]]
    BY <1>4 DEF Issue, owner
  <2>2. ask[q].row \in Row
    BY <1>4 DEF Issue, Asks, ReferInv, Apt
  <2>3. OnlyCode(c) /\ code'[c].state = "live"
    BY <1>1, <2>1, <2>2, IssueEffect DEF TablesOK
  <2>4. \A d \in Code : code[d].state # "none" <=> d <= c - 1
    BY <2>1, NextCodeFree
  <2>5. c \in 0..Codes /\ Code \subseteq Nat /\ c \in Nat
    BY DestinationBounds DEF Code
  <2>6. \A d \in Code : code'[d].state # "none" <=> d <= c
    BY <2>3, <2>4, <2>5 DEF OnlyCode
  <2>7. \E n \in 0..Rows : \A r \in Row : dest[r].status # "none" <=> r <= n
    BY DEF Numbered
  <2> QED BY <2>1, <2>5, <2>6, <2>7 DEF Numbered
<1>5. ASSUME NEW r \in Row, RetireRow(r), dest[r].status # "none" PROVE RowsSame
  BY <1>1, <1>5, RetireEffect DEF TablesOK, OnlyDest
<1>6. ASSUME NEW c \in Code, NEW s \in {"consumed", "failed"}, SetCode(c, s),
             code[c].state # "none"
      PROVE  CodesSame
  BY <1>1, <1>6, SetCodeEffect DEF TablesOK, OnlyCode
<1>7. ASSUME NEW q \in Asker, OnboardStep(q) PROVE Numbered'
  <2>1. Apt(ask[q])
    BY DEF ReferInv
  <2>2. CASE UNCHANGED <<dest, code>>
    BY <1>2, <2>2
  <2>3. CASE AddRetire(q)
    BY <1>2, <1>5, <2>1, <2>2, <2>3 DEF AddRetire, Asks, Apt, owner
  <2>4. CASE AddInsert(q)
    BY <1>3, <2>2, <2>4 DEF AddInsert
  <2>5. CASE Supersede(q)
    BY <1>2, <1>6, <2>1, <2>2, <2>5 DEF Supersede, Asks, Apt, owner
  <2>6. CASE Issue(q)
    BY <1>4, <2>2, <2>6 DEF Issue, owner
  <2>7. CASE Consume(q)
    <3> DEFINE c == ask[q].code
    <3> DEFINE r == code[c].row
    <3>1. c \in Code /\ code[c].state # "none" /\ r \in Row /\ dest[r].status # "none"
      BY <2>1, <2>7 DEF Consume, Asks, Apt, ReferInv
    <3>2. ASSUME Activate(r, c, ask[q].choose) PROVE RowsSame
      BY <1>1, <3>1, <3>2, ActivateEffect DEF TablesOK, OnlyDest
    <3>3. \/ UNCHANGED dest
          \/ Activate(r, c, ask[q].choose)
      BY <2>7 DEF Consume, owner
    <3>4. CodesSame
      <4>1. CASE UNCHANGED code
        BY <4>1
      <4>2. CASE SetCode(c, "failed") \/ SetCode(c, "consumed")
        BY <1>6, <3>1, <4>2
      <4>3. ASSUME NEW n, code' = [code EXCEPT ![c] =
                                     [@ EXCEPT !.tries = n, !.state = AfterWrong(n)]]
            PROVE  CodesSame
        <5>1. code[c] \in CodeRow
          BY <1>1, <3>1 DEF TablesOK
        <5>2. AfterWrong(n) # "none"
          BY DEF AfterWrong
        <5>3. code'[c].state = AfterWrong(n)
          BY <1>1, <3>1, <4>3, <5>1 DEF TablesOK, CodeRow
        <5> QED BY <1>1, <3>1, <4>3, <5>2, <5>3 DEF TablesOK
      <4> QED BY <2>7, <4>1, <4>2, <4>3 DEF Consume
    <3> QED BY <1>2, <3>2, <3>3, <3>4
  <2> QED BY <1>7, <2>2, <2>3, <2>4, <2>5, <2>6, <2>7
          DEF OnboardStep, AddRead, RequestChallenge, VerifyRead, IssueRead,
              VerifyLive, RequestCut, owner
<1>8. ASSUME NEW c \in Code, CodeCools(c) \/ CodeExpires(c) PROVE Numbered'
  <2>1. UNCHANGED dest
    BY <1>8 DEF CodeCools, CodeExpires, owner
  <2>2. CodesSame
    BY <1>1, <1>8, TimeEffect DEF TablesOK, OnlyCode
  <2> QED BY <1>2, <2>1, <2>2
<1>9. ASSUME NEW r \in Row, SetDefault(r) \/ Retire(r) PROVE Numbered'
  BY <1>2, <1>5, <1>9 DEF SetDefault, Retire
<1>10. ASSUME NEW t \in Payment,
              \/ Initiate(t) \/ InsertEscrow(t) \/ PaymentFails(t)
              \/ PaymentFunds(t) \/ ReleasePayout(t)
       PROVE  Numbered'
  BY <1>2, <1>10 DEF Initiate, InsertEscrow, PaymentFails, PaymentFunds, ReleasePayout,
     owner
<1>11. CASE UNCHANGED destVars
  BY <1>2, <1>11 DEF destVars, owner
<1> QED BY <1>7, <1>8, <1>9, <1>10, <1>11 DEF DestNext

\* A provider who begins has the types.
LEMMA TypeInit == DestInit => DestTypeOK /\ Numbered /\ ReferInv
<1> SUFFICES ASSUME DestInit PROVE DestTypeOK /\ Numbered /\ ReferInv
  OBVIOUS
<1>1. /\ 0 \in 0..Rows /\ 1 \in 0..Rows /\ 1 \in Row /\ 0 \in 0..Codes
      /\ 0 \in 0..Payments /\ 0 \in 0..LostWrites
  BY DestinationBounds DEF Row
<1>2. /\ Quiet \in Request /\ NoDest \in DestRow
      /\ NoDest.status = "none" /\ Quiet.at = "idle"
  BY <1>1, Small DEF Quiet, Request, RequestStep, NoDest, Unproven, DestRow
<1>3. ASSUME NEW n \in Number
      PROVE  /\ [Unproven(n, "active") EXCEPT !.method = "migration"] \in DestRow
             /\ [Unproven(n, "active") EXCEPT !.method = "migration"].status = "active"
  BY <1>1 DEF Unproven, DestRow
<1>4. ask \in [Asker -> Request] /\ \A q \in Asker : ask[q].at = "idle"
  BY <1>2 DEF DestInit
<1>5. code \in [Code -> CodeRow] /\ \A c \in Code : code[c].state = "none"
  BY <1>1, Small DEF DestInit, CodeRow
<1>6. MoneyOK
  BY <1>1 DEF DestInit, MoneyOK, PayRow
<1> DEFINE OnFile ==
      /\ dest \in [Row -> DestRow] /\ dflt \in 0..Rows
      /\ dflt # 0 => dflt \in Row /\ dest[dflt].status = "active"
      /\ \E n \in 0..Rows : \A r \in Row : dest[r].status # "none" <=> r <= n
<1>7. OnFile
  <2>1. CASE dest = [r \in Row |-> NoDest] /\ dflt = 0
    <3>1. \A r \in Row : dest[r].status # "none" <=> r <= 0
      BY <1>2, <2>1, DestinationBounds DEF Row
    <3> QED BY <1>1, <1>2, <2>1, <3>1
  <2>2. ASSUME NEW n \in Number,
               dest = [r \in Row |-> IF r = 1
                       THEN [Unproven(n, "active") EXCEPT !.method = "migration"]
                       ELSE NoDest],
               dflt = 1
        PROVE  OnFile
    <3>1. \A r \in Row : dest[r].status # "none" <=> r <= 1
      BY <1>2, <1>3, <2>2, DestinationBounds DEF Row
    <3>2. dest \in [Row -> DestRow] /\ dest[1].status = "active"
      BY <1>1, <1>2, <1>3, <2>2
    <3> QED BY <1>1, <2>2, <3>1, <3>2
  <2>3. \/ dest = [r \in Row |-> NoDest] /\ dflt = 0
        \/ \E n \in Number :
             /\ dest = [r \in Row |-> IF r = 1
                       THEN [Unproven(n, "active") EXCEPT !.method = "migration"]
                       ELSE NoDest]
             /\ dflt = 1
    BY DEF DestInit
  <2> HIDE DEF OnFile
  <2> QED BY <2>1, <2>2, <2>3
<1>8. DestTypeOK
  BY <1>4, <1>5, <1>6, <1>7, TypeParts DEF TablesOK
<1>9. Numbered
  <2>1. \A c \in Code : code[c].state # "none" <=> c <= 0
    BY <1>5, DestinationBounds DEF Code
  <2> QED BY <1>1, <1>7, <2>1 DEF Numbered
<1>10. ReferInv
  BY <1>4, <1>5, <1>7 DEF ReferInv, Apt, TriesInv
<1> QED BY <1>8, <1>9, <1>10

\* All of it is kept.
LEMMA TypeStep ==
  DestTypeOK /\ Numbered /\ ReferInv /\ [DestNext]_destVars
    => DestTypeOK' /\ Numbered' /\ ReferInv'
<1> SUFFICES ASSUME DestTypeOK, Numbered, ReferInv, [DestNext]_destVars
             PROVE  DestTypeOK' /\ Numbered' /\ ReferInv'
  OBVIOUS
<1>1. MoneyOK'
  BY MoneyStep
<1>2. TablesOK' /\ ReferInv'
  BY ReferStep
<1>3. DestTypeOK'
  BY <1>1, <1>2 DEF DestTypeOK, TablesOK, MoneyOK, DestRow, CodeRow, Request, PayRow
<1> QED BY <1>2, <1>3, NumberStep

\* Every reachable state of a provider's numbers and money is well-typed.
THEOREM DestTypeCorrect == DestSpec => []DestTypeOK
BY TypeInit, TypeStep, PTL DEF DestSpec

-----------------------------------------------------------------------------
(* A spent code is one active number.                                      *)

\* A number that is not in use yet has no proof; one that has been proven by a
\* code names it, and the code is spent; a spent code is named by its row.
ProofInv ==
  /\ \A r \in Row : /\ dest[r].status \in {"none", "pending"} => dest[r].method = "none"
                    /\ dest[r].status = "active" => dest[r].method # "none"
                    /\ dest[r].method = "otp" =>
                         /\ dest[r].proof \in Code
                         /\ code[dest[r].proof].row = r
                         /\ code[dest[r].proof].state = "consumed"
  /\ \A c \in Code : code[c].state = "consumed" =>
       code[c].row \in Row /\ dest[code[c].row].method = "otp"
                          /\ dest[code[c].row].proof = c

\* How a row was proven is never taken back.
ProofStays == \A r \in Row : dest[r].method # "none" => dest'[r].method = dest[r].method

\* A code is spent in the step that activates its row, which had no proof.
LEMMA ProofStep ==
  ASSUME DestTypeOK, Numbered, ReferInv, ProofInv, [DestNext]_destVars
  PROVE  ProofInv' /\ ProofStays
<1>1. /\ dest \in [Row -> DestRow] /\ code \in [Code -> CodeRow]
      /\ ask \in [Asker -> Request]
  BY TypeParts DEF TablesOK
<1>2. ASSUME UNCHANGED <<dest, code>> PROVE ProofInv' /\ ProofStays
  BY <1>2 DEF ProofInv, ProofStays
<1>3. ASSUME NEW r \in Row, RetireRow(r), UNCHANGED code,
             dest[r].status # "none"
      PROVE  ProofInv' /\ ProofStays
  BY <1>1, <1>3, RetireEffect DEF ProofInv, ProofStays, OnlyDest
<1>4. ASSUME NEW c \in Code, OnlyCode(c), UNCHANGED dest, code[c].state # "consumed",
             code'[c].state # "consumed"
      PROVE  ProofInv' /\ ProofStays
  BY <1>1, <1>4 DEF ProofInv, ProofStays, OnlyCode
<1>5. ASSUME NEW q \in Asker, OnboardStep(q) PROVE ProofInv' /\ ProofStays
  <2>1. Apt(ask[q]) /\ ask[q] \in Request
    BY <1>1 DEF ReferInv
  <2>2. CASE UNCHANGED <<dest, code>>
    BY <1>2, <2>2
  <2>3. CASE AddRetire(q)
    BY <1>3, <2>1, <2>2, <2>3 DEF AddRetire, Asks, Apt, owner
  <2>4. CASE AddInsert(q)
    <3>1. CASE dest' = dest
      BY <2>2, <2>4, <3>1 DEF AddInsert
    <3>2. CASE dest' # dest
      <4>1. PICK r \in Row :
              /\ r = NextRow /\ UNCHANGED code
              /\ dest' = [dest EXCEPT ![r] = Unproven(ask[q].number, "pending")]
        BY <2>4, <3>2 DEF AddInsert
      <4>2. ask[q].number \in Number
        BY <2>1 DEF Request
      <4>3. OnlyDest(r) /\ dest'[r].status = "pending" /\ dest'[r].method = "none"
        BY <1>1, <4>1, <4>2, InsertEffect
      <4>4. dest[r].status = "none"
        <5>1. r \in Nat
          BY DestinationBounds DEF Row
        <5> QED BY <4>1, <5>1, NextRowFree
      <4>5. dest[r].method = "none"
        BY <4>4 DEF ProofInv
      <4>6. ProofStays
        BY <4>3, <4>5 DEF ProofStays, OnlyDest
      <4>7. ProofInv'
        BY <4>1, <4>3, <4>5 DEF ProofInv, OnlyDest
      <4> QED BY <4>6, <4>7
    <3> QED BY <3>1, <3>2
  <2>5. CASE Supersede(q)
    <3> DEFINE c == ask[q].code
    <3>1. c \in Code /\ UNCHANGED dest
      BY <2>1, <2>5 DEF Supersede, Asks, Apt, owner
    <3>2. CASE code[c].state = "live" /\ SetCode(c, "failed")
      <4>1. OnlyCode(c) /\ code'[c].state = "failed"
        BY <1>1, <3>1, <3>2, SetCodeEffect
      <4> QED BY <1>4, <3>1, <3>2, <4>1
    <3> QED BY <2>2, <2>5, <3>1, <3>2 DEF Supersede
  <2>6. CASE Issue(q)
    <3>1. CASE code' = code
      BY <2>2, <2>6, <3>1 DEF Issue, owner
    <3>2. CASE code' # code
      <4>1. PICK c \in Code :
              /\ c = NextCode /\ UNCHANGED dest
              /\ code' = [code EXCEPT ![c] = [row |-> ask[q].row, tries |-> 0,
                            state |-> "live", fresh |-> TRUE, expired |-> FALSE]]
        BY <2>6, <3>2 DEF Issue, owner
      <4>2. ask[q].row \in Row
        BY <2>1, <2>6 DEF Issue, Asks, Apt
      <4>3. OnlyCode(c) /\ code'[c].state = "live"
        BY <1>1, <4>1, <4>2, IssueEffect
      <4>4. code[c].state = "none"
        <5>1. c \in Nat
          BY DestinationBounds DEF Code
        <5> QED BY <4>1, <5>1, NextCodeFree
      <4> QED BY <1>4, <4>1, <4>3, <4>4
    <3> QED BY <3>1, <3>2
  <2>7. CASE Consume(q)
    <3> DEFINE c == ask[q].code
    <3> DEFINE r == code[c].row
    <3>1. c \in Code /\ code[c].state # "none" /\ r \in Row /\ dest[r].status # "none"
      BY <2>1, <2>7 DEF Consume, Asks, Apt, ReferInv
    <3>2. CASE code[c].state = "live" /\ SetCode(c, "failed") /\ UNCHANGED dest
      <4>1. OnlyCode(c) /\ code'[c].state = "failed"
        BY <1>1, <3>1, <3>2, SetCodeEffect
      <4> QED BY <1>4, <3>1, <3>2, <4>1
    <3>3. ASSUME NEW n, code[c].state = "live", UNCHANGED dest,
                 code' = [code EXCEPT ![c] =
                           [@ EXCEPT !.tries = n, !.state = AfterWrong(n)]]
          PROVE  ProofInv' /\ ProofStays
      <4>1. code[c] \in CodeRow
        BY <1>1, <3>1
      <4>2. AfterWrong(n) # "consumed"
        BY DEF AfterWrong
      <4>3. /\ code'[c].state = AfterWrong(n)
            /\ \A d \in Code \ {c} : code'[d] = code[d]
        BY <1>1, <3>1, <3>3, <4>1 DEF CodeRow
      <4> QED BY <3>1, <3>3, <4>2, <4>3 DEF ProofInv, ProofStays
    <3>4. CASE /\ code[c].state = "live" /\ dest[r].status # "retired"
               /\ ~ ProofRefused(r)
               /\ SetCode(c, "consumed") /\ Activate(r, c, ask[q].choose)
      <4>1. dest[r].status = "pending"
        <5>1. dest[r] \in DestRow
          BY <1>1, <3>1
        <5> QED BY <3>1, <3>4, <5>1 DEF DestRow, ProofRefused
      <4>2. dest[r].method = "none"
        BY <3>1, <4>1 DEF ProofInv
      <4>3. OnlyCode(c) /\ code'[c].state = "consumed" /\ code'[c].row = r
        BY <1>1, <3>1, <3>4, SetCodeEffect
      <4>4. /\ OnlyDest(r) /\ dest'[r].status = "active"
            /\ dest'[r].method = "otp" /\ dest'[r].proof = c
        BY <1>1, <3>1, <3>4, ActivateEffect
      <4>5. ProofStays
        BY <4>2, <4>4 DEF ProofStays, OnlyDest
      <4>6. \A d \in Code : code[d].state = "consumed" => code[d].row # r /\ d # c
        BY <3>4, <4>2 DEF ProofInv
      <4>7. ASSUME NEW d \in Code, code'[d].state = "consumed"
            PROVE  /\ code'[d].row \in Row /\ dest'[code'[d].row].method = "otp"
                   /\ dest'[code'[d].row].proof = d
        BY <3>1, <4>3, <4>4, <4>6, <4>7 DEF ProofInv, OnlyCode, OnlyDest
      <4>8. ASSUME NEW x \in Row
            PROVE  /\ dest'[x].status \in {"none", "pending"} => dest'[x].method = "none"
                   /\ dest'[x].status = "active" => dest'[x].method # "none"
                   /\ dest'[x].method = "otp" =>
                        /\ dest'[x].proof \in Code
                        /\ code'[dest'[x].proof].row = x
                        /\ code'[dest'[x].proof].state = "consumed"
        <5>1. CASE x = r
          BY <3>1, <4>3, <4>4, <5>1
        <5>2. CASE x # r
          BY <3>4, <4>3, <4>4, <5>2 DEF ProofInv, OnlyCode, OnlyDest
        <5> QED BY <5>1, <5>2
      <4> QED BY <4>5, <4>7, <4>8 DEF ProofInv
    <3>5. CASE UNCHANGED <<dest, code>>
      BY <1>2, <3>5
    <3> QED BY <2>7, <3>2, <3>3, <3>4, <3>5 DEF Consume, owner
  <2> QED BY <1>5, <2>2, <2>3, <2>4, <2>5, <2>6, <2>7
          DEF OnboardStep, AddRead, RequestChallenge, VerifyRead, IssueRead,
              VerifyLive, RequestCut, owner
<1>6. ASSUME NEW c \in Code, CodeCools(c) \/ CodeExpires(c) PROVE ProofInv' /\ ProofStays
  <2>1. UNCHANGED dest /\ code[c].state = "live"
    BY <1>6 DEF CodeCools, CodeExpires, owner
  <2>2. OnlyCode(c) /\ code'[c].state = code[c].state
    BY <1>1, <1>6, TimeEffect
  <2> QED BY <1>4, <2>1, <2>2
<1>7. ASSUME NEW r \in Row, SetDefault(r) \/ Retire(r) PROVE ProofInv' /\ ProofStays
  BY <1>2, <1>3, <1>7 DEF SetDefault, Retire
<1>8. ASSUME NEW t \in Payment,
             \/ Initiate(t) \/ InsertEscrow(t) \/ PaymentFails(t)
             \/ PaymentFunds(t) \/ ReleasePayout(t)
      PROVE  ProofInv' /\ ProofStays
  BY <1>2, <1>8 DEF Initiate, InsertEscrow, PaymentFails, PaymentFunds, ReleasePayout,
     owner
<1>9. CASE UNCHANGED destVars
  BY <1>2, <1>9 DEF destVars, owner
<1> QED BY <1>5, <1>6, <1>7, <1>8, <1>9 DEF DestNext

\* To begin with no code is spent.
LEMMA ProofInit == DestInit => ProofInv
<1> SUFFICES ASSUME DestInit PROVE ProofInv
  OBVIOUS
<1>1. \A c \in Code : code[c].state = "none"
  BY DEF DestInit
<1> DEFINE Start(r) == \/ dest[r].status = "none" /\ dest[r].method = "none"
                       \/ dest[r].status = "active" /\ dest[r].method = "migration"
<1>2. \A r \in Row : Start(r)
  <2>1. NoDest.status = "none" /\ NoDest.method = "none"
    BY DEF NoDest, Unproven
  <2>2. ASSUME NEW n \in Number
        PROVE  /\ [Unproven(n, "active") EXCEPT !.method = "migration"].status = "active"
               /\ [Unproven(n, "active") EXCEPT !.method = "migration"].method = "migration"
    BY DEF Unproven
  <2>3. CASE dest = [r \in Row |-> NoDest]
    BY <2>1, <2>3
  <2>4. ASSUME NEW n \in Number,
               dest = [r \in Row |-> IF r = 1
                       THEN [Unproven(n, "active") EXCEPT !.method = "migration"]
                       ELSE NoDest]
        PROVE  \A r \in Row : Start(r)
    BY <2>1, <2>2, <2>4
  <2> QED BY <2>3, <2>4 DEF DestInit
<1> QED BY <1>1, <1>2 DEF ProofInv

\* A code is never both spent and unused, and only an active row is the
\* default, for any number of requests, codes and rows.
THEOREM SpentCodeActivatesCorrect == DestSpec => []SpentCodeActivates
<1>1. ReferInv /\ ProofInv /\ DestTypeOK => SpentCodeActivates
  <2> SUFFICES ASSUME ReferInv, ProofInv, DestTypeOK PROVE SpentCodeActivates
    OBVIOUS
  <2>1. ASSUME NEW r \in With("active"), dest[r].method # "migration"
        PROVE  \E c \in Code : /\ dest[r].proof = c /\ code[c].row = r
                              /\ code[c].state = "consumed"
    <3>1. r \in Row /\ dest[r].status = "active" /\ dest[r] \in DestRow
      BY TypeParts DEF With, TablesOK
    <3>2. dest[r].method = "otp"
      BY <2>1, <3>1 DEF ProofInv, DestRow
    <3> QED BY <3>1, <3>2 DEF ProofInv
  <2> QED BY <2>1 DEF SpentCodeActivates, ProofInv, ReferInv, TriesInv
<1>2. DestTypeOK /\ Numbered /\ ReferInv /\ ProofInv /\ [DestNext]_destVars => ProofInv'
  BY ProofStep
<1> QED BY <1>1, <1>2, TypeInit, TypeStep, ProofInit, PTL DEF DestSpec

-----------------------------------------------------------------------------
(* Money goes where it was proven to go.                                   *)

Shown(r) == r \in Row /\ dest[r].method # "none"

\* What is frozen or paid was proven; a payout and a payment that succeeded
\* have an escrow row, and what the row's snapshot pays was known when it was
\* written.
MoneyInv ==
  /\ \A t \in Payment :
       /\ pay[t].frozen # 0 => Shown(pay[t].frozen)
       /\ pay[t].state \in {"funded", "released"} => escrow.tx # 0
       /\ pay[t].to # 0 => /\ Shown(pay[t].to) /\ pay[t].state = "released"
                           /\ escrow.snap # 0 => pay[t].to <= known
  /\ escrow.snap # 0 => Shown(escrow.snap) /\ escrow.snap <= known

LEMMA MoneyInvStep ==
  ASSUME DestTypeOK, Numbered, ReferInv, ProofInv, MoneyInv, [DestNext]_destVars
  PROVE  MoneyInv'
<1>1. MoneyOK /\ pay \in [Payment -> PayRow]
  BY TypeParts DEF MoneyOK
<1>2. \A r : Shown(r) => Shown(r)'
  BY ProofStep DEF ProofStays, Shown
<1>3. ASSUME UNCHANGED <<pay, escrow, known>> PROVE MoneyInv'
  BY <1>2, <1>3 DEF MoneyInv
<1>4. Payable # 0 => Shown(Payable)
  BY DEF Payable, Shown, ReferInv, ProofInv
<1>5. ASSUME NEW t \in Payment, Initiate(t) PROVE MoneyInv'
  <2>1. UNCHANGED <<escrow, known>> /\ pay[t].state = "none"
    BY <1>5 DEF Initiate
  <2>2. /\ OnlyPay(t) /\ pay'[t].state = "sent" /\ pay'[t].to = pay[t].to
        /\ pay'[t].frozen \in {Payable, pay[t].frozen}
    <3>1. Payable \in 0..Rows
      BY Small, TypeParts DEF Payable, TablesOK
    <3> QED BY <1>1, <1>5, <3>1, FreezeEffect, SetPayEffect DEF Initiate, SetPay
  <2> QED BY <1>2, <1>4, <2>1, <2>2 DEF MoneyInv, OnlyPay
<1>6. ASSUME NEW t \in Payment, InsertEscrow(t) PROVE MoneyInv'
  <2>1. /\ OnlyPay(t) /\ pay'[t].state = pay[t].state
        /\ pay'[t].frozen = pay[t].frozen /\ pay'[t].to = pay[t].to
    BY <1>1, <1>6, InsertedEffect DEF InsertEscrow
  <2>2. \A u \in Payment : /\ pay'[u].state = pay[u].state
                           /\ pay'[u].frozen = pay[u].frozen /\ pay'[u].to = pay[u].to
    BY <2>1 DEF OnlyPay
  <2>3. CASE UNCHANGED <<escrow, known>>
    BY <1>2, <2>2, <2>3 DEF MoneyInv
  <2>4. CASE /\ escrow.tx = 0
             /\ escrow' = [tx |-> t, snap |-> pay[t].frozen]
             /\ known' = NextRow - 1
    <3>1. \A u \in Payment : pay[u].to = 0
      BY <2>4 DEF MoneyInv
    <3>2. escrow'.tx # 0
      BY <2>4, DestinationBounds DEF Payment
    <3>3. escrow'.snap # 0 => Shown(escrow'.snap) /\ escrow'.snap <= known'
      <4>1. ASSUME Shown(pay[t].frozen) PROVE dest[pay[t].frozen].status # "none"
        BY <4>1 DEF Shown, ProofInv
      <4> QED BY <2>4, <4>1, NextRowFree DEF MoneyInv, Shown
    <3> QED BY <1>2, <2>2, <3>1, <3>2, <3>3 DEF MoneyInv
  <2> QED BY <1>6, <2>3, <2>4 DEF InsertEscrow
<1>7. ASSUME NEW t \in Payment, PaymentFails(t) PROVE MoneyInv'
  <2>1. /\ OnlyPay(t) /\ pay'[t].state = "failed" /\ pay[t].state = "sent"
        /\ pay'[t].frozen = pay[t].frozen /\ pay'[t].to = pay[t].to
        /\ UNCHANGED <<escrow, known>>
    BY <1>1, <1>7, SetPayEffect DEF PaymentFails, SetPay
  <2> QED BY <1>2, <2>1 DEF MoneyInv, OnlyPay
<1>8. ASSUME NEW t \in Payment, PaymentFunds(t) PROVE MoneyInv'
  <2>1. /\ OnlyPay(t) /\ pay'[t].state = "funded" /\ pay[t].state = "sent"
        /\ pay'[t].frozen = pay[t].frozen /\ pay'[t].to = pay[t].to
        /\ UNCHANGED known
    BY <1>1, <1>8, SetPayEffect DEF PaymentFunds, SetPay
  <2>2. escrow'.tx = t /\ escrow'.snap = escrow.snap /\ t # 0
    BY <1>1, <1>8, DestinationBounds DEF PaymentFunds, MoneyOK, Payment
  <2> QED BY <1>2, <2>1, <2>2 DEF MoneyInv, OnlyPay
<1>9. ASSUME NEW t \in Payment, ReleasePayout(t) PROVE MoneyInv'
  <2>1. Resolved \in 0..Rows
    BY <1>1, Small, TypeParts DEF Resolved, Payable, TablesOK, MoneyOK
  <2>2. /\ OnlyPay(t) /\ pay'[t].state = "released" /\ pay[t].state = "funded"
        /\ pay'[t].frozen = pay[t].frozen /\ pay'[t].to = Resolved
        /\ UNCHANGED <<escrow, known>>
    BY <1>1, <1>9, <2>1, ReleaseEffect DEF ReleasePayout
  <2>3. Resolved # 0 => Shown(Resolved) /\ (escrow.snap # 0 => Resolved <= known)
    BY <1>4 DEF Resolved, MoneyInv
  <2> QED BY <1>2, <2>2, <2>3 DEF MoneyInv, OnlyPay
<1>10. ASSUME \/ \E q \in Asker : OnboardStep(q)
              \/ \E c \in Code : CodeCools(c) \/ CodeExpires(c)
              \/ \E r \in Row : SetDefault(r) \/ Retire(r)
              \/ UNCHANGED destVars
       PROVE  UNCHANGED <<pay, escrow, known>>
  BY <1>10 DEF OnboardStep, AddRead, RequestChallenge, VerifyRead, AddRetire,
     AddInsert, IssueRead, Supersede, Issue, VerifyLive, Consume, RequestCut,
     CodeCools, CodeExpires, SetDefault, Retire, destVars
<1> QED BY <1>3, <1>5, <1>6, <1>7, <1>8, <1>9, <1>10 DEF DestNext

\* Money reaches proven numbers only, and none that was put on file after the
\* escrow froze one, whatever the provider does meanwhile.
THEOREM PaidWhereProvenCorrect == DestSpec => []PaidWhereProven
<1>1. DestInit => MoneyInv
  BY DEF DestInit, MoneyInv
<1>2. DestTypeOK /\ ProofInv /\ MoneyInv => PaidWhereProven
  <2> SUFFICES ASSUME DestTypeOK, ProofInv, MoneyInv, NEW t \in Payment, pay[t].to # 0
               PROVE  /\ \/ dest[pay[t].to].method = "migration"
                         \/ \E c \in Code : /\ code[c].row = pay[t].to
                                            /\ code[c].state = "consumed"
                      /\ escrow.snap # 0 => pay[t].to <= known
    BY DEF PaidWhereProven
  <2> DEFINE r == pay[t].to
  <2>1. r \in Row /\ dest[r].method # "none" /\ (escrow.snap # 0 => r <= known)
    BY DEF MoneyInv, Shown
  <2>2. dest[r].method \in {"none", "otp", "migration"}
    <3>1. dest[r] \in DestRow
      BY <2>1, TypeParts DEF TablesOK
    <3> QED BY <3>1 DEF DestRow
  <2> QED BY <2>1, <2>2 DEF ProofInv
<1>3. DestTypeOK /\ Numbered /\ ReferInv /\ ProofInv /\ [DestNext]_destVars => ProofInv'
  BY ProofStep
<1>4. DestTypeOK /\ Numbered /\ ReferInv /\ ProofInv /\ MoneyInv /\ [DestNext]_destVars
        => MoneyInv'
  BY MoneyInvStep
<1> QED BY <1>1, <1>2, <1>3, <1>4, TypeInit, TypeStep, ProofInit, PTL DEF DestSpec
-----------------------------------------------------------------------------
(* Rows, codes and the snapshot are written forwards only.                 *)

\* What AppendOnly says of one row, and of one code.
RowKept(r) ==
  dest[r].status # "none" =>
    /\ dest'[r].number = dest[r].number
    /\ dest[r].method # "none" =>
         dest'[r].method = dest[r].method /\ dest'[r].proof = dest[r].proof
    /\ dest'[r].status = "pending" => dest[r].status = "pending"
    /\ dest[r].status = "retired" => dest'[r] = dest[r]
CodeKept(c) ==
  /\ code[c].state # "none" => code'[c].row = code[c].row
  /\ code[c].state \in {"consumed", "failed"} => code'[c] = code[c]

\* Without an escrow row there is no snapshot, so who inserts the row writes it
\* for the first time.
SnapInv == escrow.tx = 0 => escrow.snap = 0

LEMMA SnapStep ==
  ASSUME DestTypeOK, SnapInv, [DestNext]_destVars
  PROVE  SnapInv' /\ (escrow.snap # 0 => escrow'.snap = escrow.snap)
<1>1. escrow \in [tx : 0..Payments, snap : 0..Rows]
  BY DEF DestTypeOK
<1>2. CASE UNCHANGED escrow
  BY <1>2 DEF SnapInv
<1>3. ASSUME NEW t \in Payment, InsertEscrow(t)
      PROVE  SnapInv' /\ (escrow.snap # 0 => escrow'.snap = escrow.snap)
  <2>1. CASE escrow.tx = 0 /\ escrow' = [tx |-> t, snap |-> pay[t].frozen]
    BY <2>1, DestinationBounds DEF SnapInv, Payment
  <2> QED BY <1>2, <1>3, <2>1 DEF InsertEscrow
<1>4. ASSUME NEW t \in Payment, PaymentFunds(t)
      PROVE  SnapInv' /\ (escrow.snap # 0 => escrow'.snap = escrow.snap)
  <2>1. t # 0 /\ escrow' = [escrow EXCEPT !.tx = t]
    BY <1>4, DestinationBounds DEF PaymentFunds, Payment
  <2> QED BY <1>1, <2>1 DEF SnapInv
<1>5. ASSUME NEW q \in Asker, OnboardStep(q) PROVE UNCHANGED escrow
  BY <1>5 DEF OnboardStep, AddRead, RequestChallenge, VerifyRead, AddRetire, AddInsert,
     IssueRead, Supersede, Issue, VerifyLive, Consume, RequestCut
<1>6. ASSUME NEW c \in Code, CodeCools(c) \/ CodeExpires(c) PROVE UNCHANGED escrow
  BY <1>6 DEF CodeCools, CodeExpires
<1>7. ASSUME NEW r \in Row, SetDefault(r) \/ Retire(r) PROVE UNCHANGED escrow
  BY <1>7 DEF SetDefault, Retire
<1>8. ASSUME NEW t \in Payment, Initiate(t) \/ PaymentFails(t) \/ ReleasePayout(t)
      PROVE  UNCHANGED escrow
  BY <1>8 DEF Initiate, PaymentFails, ReleasePayout
<1>9. CASE UNCHANGED destVars
  BY <1>2, <1>9 DEF destVars
<1> QED BY <1>2, <1>3, <1>4, <1>5, <1>6, <1>7, <1>8, <1>9 DEF DestNext

\* Only a new row, one that is retired, and a pending one that is proven change.
LEMMA RowsKept ==
  ASSUME DestTypeOK, Numbered, ReferInv, ProofInv, [DestNext]_destVars
  PROVE  \A r \in Row : RowKept(r)
<1> DEFINE Kept == \A r \in Row : RowKept(r)
<1>1. dest \in [Row -> DestRow] /\ code \in [Code -> CodeRow]
  BY TypeParts DEF TablesOK
<1>2. CASE UNCHANGED dest
  BY <1>2 DEF RowKept
<1>3. ASSUME NEW r \in Row, RetireRow(r), dest[r].status # "retired" PROVE Kept
  BY <1>1, <1>3, RetireEffect DEF RowKept, OnlyDest
<1>4. ASSUME NEW q \in Asker, AddRetire(q) PROVE Kept
  <2>1. Apt(ask[q])
    BY DEF ReferInv
  <2>2. ask[q].row \in Row
    BY <1>4, <2>1 DEF AddRetire, Asks, Apt
  <2> QED BY <1>2, <1>3, <1>4, <2>2 DEF AddRetire, owner
<1>5. ASSUME NEW q \in Asker, AddInsert(q), dest' # dest PROVE Kept
  <2>1. PICK r \in Row :
          /\ r = NextRow
          /\ dest' = [dest EXCEPT ![r] = Unproven(ask[q].number, "pending")]
    BY <1>5 DEF AddInsert
  <2>2. ask[q].number \in Number
    <3>1. ask[q] \in Request
      BY TypeParts DEF TablesOK
    <3> QED BY <3>1 DEF Request
  <2>3. dest[r].status = "none"
    <3>1. r \in Nat
      BY DestinationBounds DEF Row
    <3> QED BY <2>1, <3>1, NextRowFree
  <2>4. OnlyDest(r)
    BY <1>1, <2>1, <2>2, InsertEffect
  <2> QED BY <2>3, <2>4 DEF RowKept, OnlyDest
<1>6. ASSUME NEW q \in Asker, Consume(q), dest' # dest PROVE Kept
  <2> DEFINE c == ask[q].code
  <2> DEFINE r == code[c].row
  <2>1. c \in Code /\ code[c].state # "none"
    <3>1. Apt(ask[q])
      BY DEF ReferInv
    <3> QED BY <1>6, <3>1 DEF Consume, Asks, Apt
  <2>2. r \in Row /\ dest[r].status # "none"
    BY <2>1 DEF ReferInv
  <2>3. /\ Activate(r, c, ask[q].choose)
        /\ dest[r].status # "retired" /\ ~ ProofRefused(r)
    BY <1>6 DEF Consume, owner
  <2>4. dest[r].status \in {"none", "pending", "active", "retired"}
    <3>1. dest[r] \in DestRow
      BY <1>1, <2>2
    <3> QED BY <3>1 DEF DestRow
  <2>5. dest[r].status = "pending" /\ dest[r].method = "none"
    BY <2>2, <2>3, <2>4 DEF ProofRefused, ProofInv
  <2>6. /\ OnlyDest(r) /\ dest'[r].status = "active"
        /\ dest'[r].number = dest[r].number
    BY <1>1, <2>1, <2>2, <2>3, ActivateEffect
  <2> QED BY <2>5, <2>6 DEF RowKept, OnlyDest
<1>7. ASSUME NEW q \in Asker, OnboardStep(q) PROVE Kept
  BY <1>2, <1>4, <1>5, <1>6, <1>7 DEF OnboardStep, AddRead, RequestChallenge, VerifyRead,
     IssueRead, Supersede, Issue, VerifyLive, RequestCut, owner
<1>8. ASSUME NEW c \in Code, CodeCools(c) \/ CodeExpires(c) PROVE Kept
  BY <1>2, <1>8 DEF CodeCools, CodeExpires, owner
<1>9. ASSUME NEW r \in Row, SetDefault(r) \/ Retire(r) PROVE Kept
  BY <1>2, <1>3, <1>9 DEF SetDefault, Retire
<1>10. ASSUME NEW t \in Payment,
              \/ Initiate(t) \/ InsertEscrow(t) \/ PaymentFails(t)
              \/ PaymentFunds(t) \/ ReleasePayout(t)
       PROVE  Kept
  BY <1>2, <1>10 DEF Initiate, InsertEscrow, PaymentFails, PaymentFunds, ReleasePayout,
     owner
<1>11. CASE UNCHANGED destVars
  BY <1>2, <1>11 DEF destVars, owner
<1> QED BY <1>7, <1>8, <1>9, <1>10, <1>11 DEF DestNext

\* Only a new code and a live one change.
LEMMA CodesKept ==
  ASSUME DestTypeOK, Numbered, ReferInv, [DestNext]_destVars
  PROVE  \A c \in Code : CodeKept(c)
<1> DEFINE Kept == \A c \in Code : CodeKept(c)
<1>1. dest \in [Row -> DestRow] /\ code \in [Code -> CodeRow]
  BY TypeParts DEF TablesOK
<1>2. ASSUME NEW c \in Code, OnlyCode(c), code[c].state = "none" \/ code[c].state = "live",
             code[c].state = "live" => code'[c].row = code[c].row
      PROVE  Kept
  BY <1>2 DEF CodeKept, OnlyCode
<1>3. CASE UNCHANGED code
  BY <1>3 DEF CodeKept
<1>4. ASSUME NEW q \in Asker, Supersede(q) PROVE Kept
  <2>1. ask[q].code \in Code
    <3>1. Apt(ask[q])
      BY DEF ReferInv
    <3> QED BY <1>4, <3>1 DEF Supersede, Asks, Apt
  <2> QED BY <1>1, <1>2, <1>3, <1>4, <2>1, SetCodeEffect DEF Supersede
<1>5. ASSUME NEW q \in Asker, Issue(q), code' # code PROVE Kept
  <2>1. PICK c \in Code :
          /\ c = NextCode
          /\ code' = [code EXCEPT ![c] = [row |-> ask[q].row, tries |-> 0,
                        state |-> "live", fresh |-> TRUE, expired |-> FALSE]]
    BY <1>5 DEF Issue
  <2>2. ask[q].row \in Row
    BY <1>5 DEF Issue, Asks, ReferInv, Apt
  <2>3. OnlyCode(c)
    BY <1>1, <2>1, <2>2, IssueEffect
  <2>4. code[c].state = "none"
    <3>1. c \in Nat
      BY DestinationBounds DEF Code
    <3> QED BY <2>1, <3>1, NextCodeFree
  <2> QED BY <1>2, <2>3, <2>4
<1>6. ASSUME NEW q \in Asker, Consume(q), code' # code PROVE Kept
  <2> DEFINE c == ask[q].code
  <2>1. c \in Code /\ code[c].state = "live"
    <3>1. Apt(ask[q])
      BY DEF ReferInv
    <3> QED BY <1>6, <3>1 DEF Consume, Asks, Apt
  <2>2. CASE SetCode(c, "failed") \/ SetCode(c, "consumed")
    BY <1>1, <1>2, <2>1, <2>2, SetCodeEffect
  <2>3. CASE code' = [code EXCEPT ![c] =
                        [@ EXCEPT !.tries = code[c].tries + 1,
                                  !.state = AfterWrong(code[c].tries + 1)]]
    <3> DEFINE n == code[c].tries + 1
    <3>1. n \in 0..Tries
      <4>1. code[c].tries \in 0..Tries /\ code[c].tries < Tries
        <5>1. code[c] \in CodeRow
          BY <1>1, <2>1
        <5> QED BY <2>1, <5>1 DEF CodeRow, ReferInv, TriesInv
      <4> QED BY <4>1, DestinationBounds
    <3>2. PICK s \in {"live", "consumed", "failed"} : s = AfterWrong(n)
      BY DEF AfterWrong
    <3> HIDE DEF n
    <3>3. code' = [code EXCEPT ![c] = [@ EXCEPT !.tries = n, !.state = s]]
      BY <2>3, <3>2 DEF n
    <3>4. OnlyCode(c) /\ code'[c].row = code[c].row
      BY <1>1, <2>1, <3>1, <3>3, JudgeEffect
    <3> QED BY <1>2, <2>1, <3>4
  <2> QED BY <1>6, <2>2, <2>3 DEF Consume
<1>7. ASSUME NEW q \in Asker, OnboardStep(q) PROVE Kept
  BY <1>3, <1>4, <1>5, <1>6, <1>7 DEF OnboardStep, AddRead, RequestChallenge, VerifyRead,
     AddRetire, AddInsert, IssueRead, VerifyLive, RequestCut
<1>8. ASSUME NEW c \in Code, CodeCools(c) \/ CodeExpires(c) PROVE Kept
  <2>1. code[c].state = "live"
    BY <1>8 DEF CodeCools, CodeExpires
  <2> QED BY <1>1, <1>2, <1>8, <2>1, TimeEffect
<1>9. ASSUME NEW r \in Row, SetDefault(r) \/ Retire(r) PROVE Kept
  BY <1>3, <1>9 DEF SetDefault, Retire
<1>10. ASSUME NEW t \in Payment,
              \/ Initiate(t) \/ InsertEscrow(t) \/ PaymentFails(t)
              \/ PaymentFunds(t) \/ ReleasePayout(t)
       PROVE  Kept
  BY <1>3, <1>10 DEF Initiate, InsertEscrow, PaymentFails, PaymentFunds, ReleasePayout
<1>11. CASE UNCHANGED destVars
  BY <1>3, <1>11 DEF destVars
<1> QED BY <1>7, <1>8, <1>9, <1>10, <1>11 DEF DestNext

\* The triggers that guard numbers, proofs, codes and snapshots against being
\* rewritten have nothing to refuse, whatever requests, payments and retirements
\* cross, for any number of each.
THEOREM AppendOnlyCorrect == DestSpec => AppendOnly
<1> DEFINE Forward ==
      /\ \A r \in Row : RowKept(r)
      /\ \A c \in Code : CodeKept(c)
      /\ escrow.snap # 0 => escrow'.snap = escrow.snap
<1>1. DestInit => SnapInv
  BY DEF DestInit, SnapInv
<1>2. DestTypeOK /\ SnapInv /\ [DestNext]_destVars => SnapInv'
  BY SnapStep
<1>3. /\ DestTypeOK /\ Numbered /\ ReferInv /\ ProofInv /\ SnapInv
      /\ [DestNext]_destVars
      => [Forward]_destVars
  BY SnapStep, RowsKept, CodesKept
<1>4. DestTypeOK /\ Numbered /\ ReferInv /\ ProofInv /\ [DestNext]_destVars => ProofInv'
  BY ProofStep
<1>5. DestSpec => [][Forward]_destVars
  <2> HIDE DEF Forward
  <2> QED BY <1>1, <1>2, <1>3, <1>4, TypeInit, TypeStep, ProofInit, PTL DEF DestSpec
<1> QED BY <1>5 DEF AppendOnly, RowKept, CodeKept
=============================================================================
