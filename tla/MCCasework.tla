------------------------------ MODULE MCCasework -----------------------------
(***************************************************************************)
(* What people do by hand around the money of one job, each part with a    *)
(* state space of its own: a dispute case and the repairs of its money,    *)
(* the job it is about, the numbers its provider is paid to, and a payout  *)
(* to them.  The initial state says which part a run is in, so that the    *)
(* state spaces add up instead of multiplying.  `case' has three calls at  *)
(* a time, two once something failed; `job' two, one once a call died half *)
(* way; `numbers' two, one at a time once a second code is out, no faults  *)
(* and no money; `payouts' has the faults, one request at a time, and one  *)
(* code.                                                                   *)
(***************************************************************************)
EXTENDS FinanceRepairs, JobLifecycle, PayoutDestination, TLC

CONSTANTS ann, sue, bob, d1, d2, w1, r1, Parts

Admins == {ann, sue, bob}
Supers == {bob}
TwoRequests == {d1, d2}
OneRequest == {d1}
OneSweep == {w1}
OneRepair == {r1}
NoCall == {}
OneShare == {"client_refund"}
AllParts == {"case", "job", "numbers", "payouts"}
OnlyNumbers == {"numbers"}
OnlyCase == {"case"}
OnlyPayouts == {"payouts"}
\* The parts share their model values, which keeps the symmetry small.
TwoPeople == {ann, sue}
TwoNumbers == {1, 2}

Symmetry == Permutations({ann, sue}) \cup Permutations(TwoRequests)

VARIABLE part

CaseworkInit ==
  /\ RepairsInit /\ JobInit /\ DestInit /\ part \in Parts
  /\ part \in {"case", "job"} => dflt = 0

CaseworkNext ==
  \/ /\ part = "case" /\ RepairsNext
     /\ Cardinality({c \in Calls : call'[c].at # "idle"})
          + Cardinality(releasing') + faults' <= 3
     /\ UNCHANGED <<jobVars, destVars, part>>
  \/ /\ part = "job" /\ JobNext
     /\ "half_done" \in crossings' =>
          Cardinality({c \in JobCall : request'[c].at # "idle"}) <= 1
     /\ UNCHANGED <<moneyVars, destVars, part>>
  \/ /\ part = "numbers" /\ DestNext /\ pay' = pay /\ lost' = lost
     /\ code[2].state # "none" => \A q \in Asker :
          Asks(q, "idle") /\ ask'[q] # ask[q] => \A p \in Asker : Asks(p, "idle")
     /\ UNCHANGED <<moneyVars, jobVars, part>>
  \/ /\ part = "payouts" /\ DestNext
     /\ \A q \in Asker : ask'[q] # ask[q] => \A p \in Asker \ {q} : Asks(p, "idle")
     /\ \A c \in Code : c > 1 => code'[c] = code[c]
     /\ UNCHANGED <<moneyVars, jobVars, part>>

CaseworkSpec ==
  CaseworkInit /\ [][CaseworkNext]_<<moneyVars, jobVars, destVars, part>>
=============================================================================
