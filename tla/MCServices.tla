------------------------------ MODULE MCServices -----------------------------
(***************************************************************************)
(* What periodic tasks work on, each in a part of the states of its own:   *)
(* the event retry loop and the SLA sweep, with their fairness, and a      *)
(* promotion campaign, bought in no time, with two races at most, or one   *)
(* and a fault (`buying'), or by one request at a time with nothing failing*)
(* and served (`serving').                                                 *)
(***************************************************************************)
EXTENDS EventQueue, DisputeCase, Promotions

CONSTANTS ann, bob, d1, w1, p1, r1, e1, e2

Admins == {ann, bob}
Supers == {bob}
OneRequest == {d1}
OneSweep == {w1}
OneProcess == {p1}
TwoTicks == {1, 2}
OneReplay == {r1}
TwoErrands == {e1, e2}
TwoPurchases == {1, 2}

VARIABLE service

ServicesInit ==
  /\ QueueInit /\ Init /\ PromoInit
  /\ service \in {"events", "sla", "buying", "serving"}

\* SlaEscalates, of the runs the sweep is in.
SweepEscalates == service = "sla" => SlaEscalates

Promotion ==
  /\ PromoNext
  /\ service = "buying" =>
       clock' = clock /\ Cardinality(meetings') + upset' <= 2
  /\ service = "serving" =>
       /\ upset' = upset
       /\ \A t \in Purchase : t > 1 => bought'[t] = bought[t]
       /\ campaign.status = Unpaid =>
            \A c, d \in Errand :
              errand'[c].at # "idle" /\ errand'[d].at # "idle" => c = d

ServicesNext ==
  /\ UNCHANGED service
  /\ \/ service = "events" /\ QueueNext /\ UNCHANGED <<vars, promoVars>>
     \/ service = "sla" /\ Next /\ UNCHANGED <<queueVars, promoVars>>
     \/ /\ service \in {"buying", "serving"} /\ Promotion
        /\ UNCHANGED <<queueVars, vars>>

\* What LoopRuns and SweepRuns say, of the service a run is about.
ServicesFair ==
  /\ \A p \in Process :
       /\ SF_queueVars(service = "events" /\ LoopTick(p))
       /\ WF_queueVars(service = "events" /\ \E k \in Slot : RunStep(<<p, k>>))
       /\ WF_queueVars(service = "events" /\ LoopStopped(p))
       /\ WF_queueVars(service = "events" /\ LoopStarts(p))
  /\ \A w \in Sweeper : WF_vars(service = "sla" /\ SweepStep(w))

ServicesVars == <<queueVars, vars, promoVars, service>>
ServicesSpec == ServicesInit /\ [][ServicesNext]_ServicesVars /\ ServicesFair
=============================================================================
