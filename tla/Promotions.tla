----------------------------- MODULE Promotions -----------------------------
(***************************************************************************)
(* One promotion campaign of backend/src/promotions: its payment over      *)
(* M-Pesa, its review, and the days it is served.  Every change of its     *)
(* status is a conditional update ("the ONLY writer of campaign.status");  *)
(* the dates written with it, and the payment rows, are not protected.     *)
(*                                                                         *)
(* The campaign starts in awaiting_payment, where create puts it: nothing  *)
(* makes a draft.  Packages, slots, analytics and messages are left out.   *)
(***************************************************************************)
EXTENDS Naturals, FiniteSets

CONSTANTS
  Errand,   \* requests, callback deliveries and sweeps in flight
  Purchase, \* bound on payment rows, numbered as they are created
  Days,     \* duration_days of the package
  LastDay,  \* bound on the clock
  Upsets    \* bound on crashes, lost answers and failed reads and writes

ASSUME PromotionBounds ==
  Purchase \subseteq Nat \ {0} /\ Days \in Nat \ {0} /\ LastDay \in Nat
  /\ Upsets \in Nat

VARIABLES
  campaign, \* status, ends_at, paused_at; old: past awaiting_payment_ttl_hours
  bought,   \* promotion_payments: status, checkout_request_id known, pending for
            \* three minutes; and what became of the prompt on the phone
  errand,   \* each call: its next step, the payment it is about, and the status
            \* change it has decided on, with its date
  clock,    \* days gone by
  served,   \* history: days the campaign was served
  meetings, \* history: the races the run has gone through
  upset     \* how many faults have happened

promoVars == <<campaign, bought, errand, clock, served, meetings, upset>>

Unpaid  == "awaiting_payment"
Running == {"pending_review", "active", "paused", "rejected", "completed"}
Ended   == {"rejected", "completed", "expired", "cancelled"}
CampaignStatus == {Unpaid, "expired", "cancelled"} \cup Running

\* TRANSITIONS, without the draft.
Legal ==
  {<<Unpaid, s>> : s \in {"pending_review", "active", "expired", "cancelled"}}
  \cup {<<"pending_review", s>> : s \in {"active", "rejected", "cancelled"}}
  \cup {<<"active", s>> : s \in {"paused", "completed", "cancelled"}}
  \cup {<<"paused", s>> : s \in {"active", "completed", "cancelled"}}

Paying == {"pending_read", "give_up", "insert", "push", "push_failed", "store"}
ErrandStep == {"idle", "settle", "hook", "move"} \cup Paying

(* The races:                                                              *)
(*   two_prompts  two requests to pay were past their first read           *)
(*   crossed      a callback met a request that had yet to look for it     *)
(*   gave_up      a prompt was given up after three minutes                *)
(*   unanswered   the prompt went out, the answer or its id was lost       *)
(*   half_done    a callback died between the payment and the campaign     *)
(*   blind_read   the read of the pending payment failed unnoticed         *)
(*   slow_date    a day went by between a date and its write               *)
Meeting == {"two_prompts", "crossed", "gave_up", "unanswered", "half_done",
            "blind_read", "slow_date"}

Day == Nat
PromoTypeOK ==
  /\ campaign \in [status : CampaignStatus, ends : Day, paused : Day,
                   old : BOOLEAN]
  /\ bought \in [Purchase -> [status : {"none", "pending", "paid", "failed"},
                              known : BOOLEAN, stale : BOOLEAN,
                              prompt : {"none", "sent", "charged", "refused"}]]
  /\ errand \in [Errand -> [at : ErrandStep, for : Purchase \cup {0},
                            from : CampaignStatus, to : CampaignStatus,
                            date : Day]]
  /\ clock \in 0..LastDay /\ served \in Day
  /\ meetings \subseteq Meeting
  /\ upset \in 0..Upsets

NoErrand == [at |-> "idle", for |-> 0, from |-> Unpaid, to |-> Unpaid,
             date |-> 0]
NoPurchase == [status |-> "none", known |-> FALSE, stale |-> FALSE,
               prompt |-> "none"]

PromoInit ==
  /\ campaign = [status |-> Unpaid, ends |-> 0, paused |-> 0, old |-> FALSE]
  /\ bought = [t \in Purchase |-> NoPurchase]
  /\ errand = [c \in Errand |-> NoErrand]
  /\ clock = 0 /\ served = 0 /\ meetings = {} /\ upset = 0

-----------------------------------------------------------------------------
(* Helpers.                                                                *)

Doing(c, step) == errand[c].at = step
Sets(c, step, t) ==
  errand' = [errand EXCEPT ![c] = [NoErrand EXCEPT !.at = step, !.for = t]]
Returns(c) == errand' = [errand EXCEPT ![c] = NoErrand]
Others(c, steps) == \E d \in Errand \ {c} : errand[d].at \in steps

Meets(cond, m) == meetings' = meetings \cup IF cond THEN {m} ELSE {}
Upsetting == upset < Upsets /\ upset' = upset + 1

Bought(s) == {t \in Purchase : bought[t].status = s}
Pay(t, s) ==
  bought' = [bought EXCEPT ![t] = [@ EXCEPT !.status = s, !.stale = FALSE]]

SameCampaign == UNCHANGED <<campaign, clock, served>>

-----------------------------------------------------------------------------
(* initiate.                                                               *)

\* Mutant: a campaign paid for already is not refused.
PayReadAny(c) ==
  /\ Doing(c, "idle") /\ campaign.status \notin Ended
  /\ Sets(c, "pending_read", 0)
  /\ meetings' = meetings
       \cup (IF Others(c, Paying) THEN {"two_prompts"} ELSE {})
       \cup (IF Others(c, {"hook", "move"}) THEN {"crossed"} ELSE {})
  /\ UNCHANGED <<bought, upset>> /\ SameCampaign

PayRead(c) ==
  /\ Doing(c, "idle") /\ campaign.status = Unpaid
  /\ Sets(c, "pending_read", 0)
  /\ meetings' = meetings
       \cup (IF Others(c, Paying) THEN {"two_prompts"} ELSE {})
       \cup (IF Others(c, {"hook", "move"}) THEN {"crossed"} ELSE {})
  /\ UNCHANGED <<bought, upset>> /\ SameCampaign

Newest(t) == \A u \in Bought("pending") : u <= t

\* The newest pending payment refuses another until it is three minutes old.
PayPendingRead(c) ==
  /\ Doing(c, "pending_read")
  /\ \/ /\ Bought("pending") = {} /\ Sets(c, "insert", 0)
        /\ UNCHANGED <<meetings, upset>>
     \/ \E t \in Bought("pending") :
          /\ Newest(t)
          /\ IF bought[t].stale THEN Sets(c, "give_up", t) ELSE Returns(c)
          /\ Meets(bought[t].stale, "gave_up")
          /\ UNCHANGED upset
     \/ Sets(c, "insert", 0) /\ Meets(TRUE, "blind_read") /\ Upsetting
  /\ UNCHANGED bought /\ SameCampaign

PayGiveUp(c) ==
  LET t == errand[c].for IN
  /\ Doing(c, "give_up") /\ Sets(c, "insert", 0)
  /\ \/ /\ IF bought[t].status = "pending" THEN Pay(t, "failed")
           ELSE UNCHANGED bought
        /\ UNCHANGED upset
     \/ UNCHANGED bought /\ Upsetting
  /\ UNCHANGED meetings /\ SameCampaign

\* Or refused for want of a phone number.
PayInsert(c) ==
  /\ Doing(c, "insert")
  /\ \/ \E t \in Bought("none") :
          /\ \A u \in Bought("none") : t <= u
          /\ Pay(t, "pending") /\ Sets(c, "push", t)
     \/ Returns(c) /\ UNCHANGED bought
  /\ UNCHANGED <<meetings, upset>> /\ SameCampaign

PromoPush(c) ==
  LET t == errand[c].for IN
  /\ Doing(c, "push")
  /\ \/ /\ bought' = [bought EXCEPT ![t] = [@ EXCEPT !.prompt = "sent"]]
        /\ Sets(c, "store", t) /\ UNCHANGED <<meetings, upset>>
     \/ /\ bought' = [bought EXCEPT ![t] = [@ EXCEPT !.prompt = "sent"]]
        /\ Sets(c, "push_failed", t) /\ Meets(TRUE, "unanswered") /\ Upsetting
     \/ Sets(c, "push_failed", t) /\ UNCHANGED <<bought, meetings, upset>>
  /\ SameCampaign

PromoPushFailed(c) ==
  /\ Doing(c, "push_failed") /\ Returns(c)
  /\ \/ Pay(errand[c].for, "failed") /\ UNCHANGED upset
     \/ UNCHANGED bought /\ Upsetting
  /\ UNCHANGED meetings /\ SameCampaign

PromoStoreId(c) ==
  /\ Doing(c, "store") /\ Returns(c)
  /\ \/ /\ bought' = [bought EXCEPT ![errand[c].for] = [@ EXCEPT !.known = TRUE]]
        /\ UNCHANGED <<meetings, upset>>
     \/ UNCHANGED bought /\ Meets(TRUE, "unanswered") /\ Upsetting
  /\ SameCampaign

-----------------------------------------------------------------------------
(* The customer, and time on a prompt.                                     *)

PayerAnswers(t) ==
  /\ bought[t].prompt = "sent"
  /\ \E a \in {"charged", "refused"} :
       bought' = [bought EXCEPT ![t] = [@ EXCEPT !.prompt = a]]
  /\ UNCHANGED <<errand, meetings, upset>> /\ SameCampaign

PromptStale(t) ==
  /\ bought[t].status = "pending" /\ ~ bought[t].stale
  /\ bought' = [bought EXCEPT ![t] = [@ EXCEPT !.stale = TRUE]]
  /\ UNCHANGED <<errand, meetings, upset>> /\ SameCampaign

-----------------------------------------------------------------------------
(* handleStkCallback and onPaymentSuccess.                                 *)

PaidRead(c, t) ==
  /\ Doing(c, "idle")
  /\ bought[t].known /\ bought[t].prompt \in {"charged", "refused"}
  /\ bought[t].status # "paid"
  /\ Sets(c, "settle", t)
  /\ UNCHANGED <<bought, meetings, upset>> /\ SameCampaign

\* A success is recorded whatever the row says by now, a failure only on a
\* pending row.
PaidSettle(c) ==
  LET t == errand[c].for IN
  /\ Doing(c, "settle")
  /\ \/ /\ bought[t].prompt = "charged"
        /\ Pay(t, "paid") /\ Sets(c, "hook", t)
        /\ Meets(Others(c, {"pending_read"}), "crossed")
     \/ /\ bought[t].prompt = "refused" /\ Returns(c)
        /\ IF bought[t].status = "pending" THEN Pay(t, "failed")
           ELSE UNCHANGED bought
        /\ UNCHANGED meetings
  /\ UNCHANGED upset /\ SameCampaign

\* A call that has loaded the campaign decides what becomes of it.
Decides(c, to, date) ==
  errand' = [errand EXCEPT ![c] = [NoErrand EXCEPT !.at = "move", !.to = to,
                                     !.from = campaign.status, !.date = date]]
Loads(c, to, date) ==
  /\ Doing(c, "idle") /\ <<campaign.status, to>> \in Legal
  /\ Decides(c, to, date)
  /\ UNCHANGED <<bought, meetings, upset>> /\ SameCampaign

\* To review, or live at once when moderation.auto_approve is on.
OnPaymentSuccess(c) ==
  /\ Doing(c, "hook")
  /\ \/ campaign.status # Unpaid /\ Returns(c)
     \/ campaign.status = Unpaid /\ Decides(c, "pending_review", 0)
     \/ campaign.status = Unpaid /\ Decides(c, "active", clock + Days)
  /\ UNCHANGED <<bought, meetings, upset>> /\ SameCampaign

-----------------------------------------------------------------------------
(* What owners and admins decide, and the sweep.                           *)

\* Mutant: the end stays where it was.
ShiftedNot(ends, paused, now) == ends

ShiftedEndOnResume(ends, paused, now) ==
  ends + IF now > paused THEN now - paused ELSE 0

Approve(c) ==
  campaign.status = "pending_review" /\ Loads(c, "active", clock + Days)
Reject(c) == Loads(c, "rejected", 0)
Pause(c)  == Loads(c, "paused", clock)
Resume(c) ==
  /\ campaign.status = "paused"
  /\ Loads(c, "active",
           ShiftedEndOnResume(campaign.ends, campaign.paused, clock))
Cancel(c) == campaign.status \notin Ended /\ Loads(c, "cancelled", 0)

SweepOverdue(c) ==
  /\ campaign.status = "active" /\ campaign.ends <= clock
  /\ Loads(c, "completed", 0)
SweepUnpaid(c) ==
  campaign.status = Unpaid /\ campaign.old /\ Loads(c, "expired", 0)

\* transition: the status must still be the one that was loaded; the dates
\* were computed from the row as it was then.
Transition(c) ==
  LET e == errand[c] IN
  /\ Doing(c, "move") /\ Returns(c)
  /\ IF campaign.status = e.from
     THEN campaign' =
            [campaign EXCEPT
               !.status = e.to,
               !.ends   = IF e.to = "active" THEN e.date ELSE @,
               !.paused = IF e.to = "paused" THEN e.date
                          ELSE IF e.to = "active" THEN 0 ELSE @]
     ELSE UNCHANGED campaign
  /\ UNCHANGED <<bought, clock, served, meetings, upset>>

-----------------------------------------------------------------------------
\* getSlots serves an active campaign until its end.
DayPasses ==
  /\ clock < LastDay /\ clock' = clock + 1
  /\ served' = IF campaign.status = "active" /\ clock < campaign.ends
               THEN served + 1 ELSE served
  /\ Meets(\E c \in Errand : Doing(c, "move")
                             /\ errand[c].to \in {"active", "paused"},
           "slow_date")
  /\ UNCHANGED <<campaign, bought, errand, upset>>

GrowsOld ==
  /\ campaign.status = Unpaid /\ ~ campaign.old
  /\ campaign' = [campaign EXCEPT !.old = TRUE]
  /\ UNCHANGED <<bought, errand, clock, served, meetings, upset>>

\* A crash or a failed await ends the call where it is.
ErrandAborts(c) ==
  /\ ~ Doing(c, "idle") /\ Returns(c) /\ Upsetting
  /\ meetings' = meetings
       \cup (IF \/ Doing(c, "hook")
                \/ /\ Doing(c, "move") /\ errand[c].from = Unpaid
                   /\ errand[c].to \in Running
             THEN {"half_done"} ELSE {})
       \cup (IF Doing(c, "store") THEN {"unanswered"} ELSE {})
  /\ UNCHANGED bought /\ SameCampaign

PaymentStep(c) ==
  \/ PayRead(c) \/ PayPendingRead(c) \/ PayGiveUp(c) \/ PayInsert(c)
  \/ PromoPush(c) \/ PromoPushFailed(c) \/ PromoStoreId(c)
  \/ \E t \in Purchase : PaidRead(c, t)
  \/ PaidSettle(c) \/ OnPaymentSuccess(c)

CampaignStep(c) ==
  \/ Approve(c) \/ Reject(c) \/ Pause(c) \/ Resume(c) \/ Cancel(c)
  \/ SweepOverdue(c) \/ SweepUnpaid(c) \/ Transition(c)

PromoNext ==
  \/ \E c \in Errand : PaymentStep(c) \/ CampaignStep(c) \/ ErrandAborts(c)
  \/ \E t \in Purchase : PayerAnswers(t) \/ PromptStale(t)
  \/ DayPasses \/ GrowsOld

PromoSpec == PromoInit /\ [][PromoNext]_promoVars

-----------------------------------------------------------------------------
(* Properties.                                                             *)

Charged == {t \in Purchase : bought[t].prompt = "charged"}

\* A campaign runs on money that was taken, and the money is taken once unless
\* requests crossed each other or a callback, a prompt was given up or its
\* answer lost, or a callback died half way; and unless it died there, a
\* payment recorded is never left on a campaign that still asks for it.
PaidForOnce ==
  /\ meetings \subseteq {"slow_date"} => Cardinality(Charged) <= 1
  /\ Bought("paid") \subseteq Charged
  /\ campaign.status \in Running => Bought("paid") # {}
  /\ "half_done" \notin meetings /\ (\A c \in Errand : Doing(c, "idle"))
       /\ Bought("paid") # {}
     => campaign.status # Unpaid

\* "An illegal jump is structurally impossible no matter which endpoint or
\* sweep attempts it": each call checks its change on the status it loaded, and
\* still no interleaving of them makes the campaign move as the table forbids,
\* above all out of a status that ended it.
OnlyLegalMoves ==
  [][ campaign'.status # campaign.status
        => <<campaign.status, campaign'.status>> \in Legal ]_promoVars

Left(now) == IF campaign.ends > now THEN campaign.ends - now ELSE 0

\* "The owner never loses purchased days", nor gains any: unless a day went by
\* between a date and its write, the days served and those still to come are
\* the days bought, whatever pauses, resumes, sweeps and retries met on the
\* row; and a campaign is completed when it has had them.
PurchasedDaysKept ==
  "slow_date" \notin meetings =>
    /\ campaign.status = "active" => served + Left(clock) = Days
    /\ campaign.status = "paused" => served + Left(campaign.paused) = Days
    /\ campaign.status = "completed" => served = Days
=============================================================================
