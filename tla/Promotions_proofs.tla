-------------------------- MODULE Promotions_proofs -------------------------
(***************************************************************************)
(* The properties of Promotions hold for any number of calls and payments, *)
(* any package and any number of faults and days.                          *)
(***************************************************************************)
EXTENDS Promotions, FiniteSetTheorems, TLAPS

-----------------------------------------------------------------------------
(* What a call has decided.                                                *)

\* The status change a call is about to write is one of the table.
LegalInv ==
  \A c \in Errand :
    Doing(c, "move") => <<errand[c].from, errand[c].to>> \in Legal

-----------------------------------------------------------------------------
(* The dates.                                                              *)

\* A date decided today, of the row as a call loaded it: what is left until
\* it is what the campaign has still to be served.
RestOf(date) == IF date > clock THEN date - clock ELSE 0
DateInv(c) ==
  LET e == errand[c] IN
  Doing(c, "move") =>
    /\ e.from \in {Unpaid, "pending_review"} /\ e.to = "active"
         => RestOf(e.date) = Days
    /\ e.from = "paused" /\ e.to = "active" => served + RestOf(e.date) = Days
    /\ e.to = "paused" => e.date = clock
    /\ e.to = "completed" => served = Days

DaysInv ==
  "slow_date" \notin meetings =>
    /\ campaign.status \in {Unpaid, "pending_review"} => served = 0
    /\ campaign.status = "active" => served + Left(clock) = Days
    /\ campaign.status = "paused" =>
         campaign.paused <= clock /\ served + Left(campaign.paused) = Days
    /\ campaign.status = "completed" => served = Days
    /\ \A c \in Errand : DateInv(c)

-----------------------------------------------------------------------------
(* The money.                                                              *)

Owning == {"push", "push_failed", "store"}

\* A row is known to one request until it has its checkout_request_id, and to
\* callbacks from then on.
RowInv ==
  /\ \A t \in Purchase :
       /\ bought[t].status = "none"
            => bought[t].prompt = "none" /\ ~ bought[t].known
       /\ bought[t].status = "paid"
            => bought[t].prompt = "charged" /\ bought[t].known
  /\ \A c \in Errand :
       /\ errand[c].at \in Owning =>
            /\ errand[c].for \in Purchase
            /\ ~ bought[errand[c].for].known
            /\ bought[errand[c].for].status \in {"pending", "failed"}
       /\ Doing(c, "push") => bought[errand[c].for].prompt = "none"
       /\ Doing(c, "give_up") => errand[c].for \in Purchase
       /\ errand[c].at \in {"settle", "hook"} =>
            /\ errand[c].for \in Purchase
            /\ bought[errand[c].for].known
            /\ bought[errand[c].for].prompt \in {"charged", "refused"}
       /\ Doing(c, "hook") => bought[errand[c].for].status = "paid"
  /\ \A c, d \in Errand :
       errand[c].at \in Owning /\ errand[d].at \in Owning
         /\ errand[c].for = errand[d].for
       => c = d

\* A call that will take the campaign from awaiting_payment to what was bought.
Progresses(c) ==
  \/ Doing(c, "hook")
  \/ Doing(c, "move") /\ errand[c].from = Unpaid /\ errand[c].to \in Running

\* A campaign progresses because a payment was recorded, and does, unless the
\* call died that was to see to it.
ProgressInv ==
  /\ \A c \in Errand : Progresses(c) => Bought("paid") # {}
  /\ campaign.status \in Running => Bought("paid") # {}
  /\ "half_done" \notin meetings /\ campaign.status = Unpaid
       /\ Bought("paid") # {}
     => \E c \in Errand : Progresses(c)

\* Prompts that the payer may answer, or has paid.
Out == {t \in Purchase : bought[t].prompt \in {"sent", "charged"}}

\* Without a race, the request that is about to prompt the payer is the only
\* one, and nothing is out while it does.
OnceInv ==
  meetings \subseteq {"slow_date"} =>
    /\ \A c, d \in Errand :
         errand[c].at \in Paying /\ errand[d].at \in Paying => c = d
    /\ \A c \in Errand :
         /\ ~ Doing(c, "give_up")
         /\ Doing(c, "pending_read") => Bought("paid") = {}
         /\ Doing(c, "push") => bought[errand[c].for].status = "pending"
         /\ errand[c].at \in {"insert", "push", "push_failed"} => Out = {}
    /\ \A t \in Out :
         \/ bought[t].status = "pending"
         \/ bought[t].status = "paid" /\ bought[t].prompt = "charged"
    /\ \A t, u \in Out : t = u

-----------------------------------------------------------------------------
(* Types.                                                                  *)

LEMMA Sorts ==
  /\ Unpaid \in CampaignStatus /\ Running \subseteq CampaignStatus
  /\ \A p \in Legal : p[1] \in CampaignStatus /\ p[2] \in CampaignStatus
BY DEF Unpaid, Running, CampaignStatus, Legal

LEMMA LegalEnds ==
  ASSUME NEW x, NEW y, <<x, y>> \in Legal
  PROVE  x \in CampaignStatus /\ y \in CampaignStatus
BY Sorts

\* A call, and a payment row with its prompt.
Call == [at : ErrandStep, for : Purchase \cup {0}, from : CampaignStatus,
         to : CampaignStatus, date : Day]
Row == [status : {"none", "pending", "paid", "failed"}, known : BOOLEAN,
        stale : BOOLEAN, prompt : {"none", "sent", "charged", "refused"}]

LEMMA TypeInit == PromoInit => PromoTypeOK
BY Sorts, PromotionBounds DEF PromoInit, PromoTypeOK, Unpaid, NoErrand,
   NoPurchase, ErrandStep, Day

\* What a step does to the place of one call, and that it leaves the others.
LEMMA PlaceEffect ==
  ASSUME PromoTypeOK, NEW c \in Errand
  PROVE  /\ \A s, t : Sets(c, s, t) =>
              /\ \A d \in Errand : d # c => errand'[d] = errand[d]
              /\ errand'[c].at = s /\ errand'[c].for = t
         /\ Returns(c) =>
              /\ \A d \in Errand : d # c => errand'[d] = errand[d]
              /\ errand'[c].at = "idle"
         /\ \A to, date : Decides(c, to, date) =>
              /\ \A d \in Errand : d # c => errand'[d] = errand[d]
              /\ errand'[c].at = "move" /\ errand'[c].from = campaign.status
              /\ errand'[c].to = to /\ errand'[c].date = date
<1>1. errand \in [Errand -> Call]
  BY DEF PromoTypeOK, Call
<1>2. ASSUME NEW s, NEW t, Sets(c, s, t)
      PROVE  /\ \A d \in Errand : d # c => errand'[d] = errand[d]
             /\ errand'[c].at = s /\ errand'[c].for = t
  BY <1>1, <1>2 DEF Sets, NoErrand
<1>3. ASSUME Returns(c)
      PROVE  /\ \A d \in Errand : d # c => errand'[d] = errand[d]
             /\ errand'[c].at = "idle"
  BY <1>1, <1>3 DEF Returns, NoErrand
<1>4. ASSUME NEW to, NEW date, Decides(c, to, date)
      PROVE  /\ \A d \in Errand : d # c => errand'[d] = errand[d]
             /\ errand'[c].at = "move" /\ errand'[c].from = campaign.status
             /\ errand'[c].to = to /\ errand'[c].date = date
  BY <1>1, <1>4 DEF Decides, NoErrand
<1> QED  BY <1>2, <1>3, <1>4

LEMMA PlaceTyped ==
  ASSUME PromoTypeOK, NEW c \in Errand
  PROVE  /\ \A s \in ErrandStep, t \in Purchase \cup {0} :
              Sets(c, s, t) => errand' \in [Errand -> Call]
         /\ Returns(c) => errand' \in [Errand -> Call]
         /\ \A to \in CampaignStatus, date \in Day :
              Decides(c, to, date) => errand' \in [Errand -> Call]
<1>1. errand \in [Errand -> Call]
  BY DEF PromoTypeOK, Call
<1>2. \A x \in Call : [errand EXCEPT ![c] = x] \in [Errand -> Call]
  BY <1>1
<1>3. \A s \in ErrandStep, t \in Purchase \cup {0} :
        [NoErrand EXCEPT !.at = s, !.for = t] \in Call
  BY Sorts DEF NoErrand, Call, Day
<1>4. NoErrand \in Call
  BY Sorts DEF NoErrand, Call, Day, ErrandStep
<1>5. ASSUME NEW to \in CampaignStatus, NEW date \in Day
      PROVE  [NoErrand EXCEPT !.at = "move", !.to = to,
                              !.from = campaign.status, !.date = date] \in Call
  BY Sorts DEF NoErrand, Call, ErrandStep, PromoTypeOK
<1> QED  BY <1>2, <1>3, <1>4, <1>5 DEF Sets, Returns, Decides

\* What a step does to one row, and that it leaves the others.
Prompts(t, p) == bought' = [bought EXCEPT ![t] = [@ EXCEPT !.prompt = p]]
Knows(t) == bought' = [bought EXCEPT ![t] = [@ EXCEPT !.known = TRUE]]

LEMMA RowEffect ==
  ASSUME PromoTypeOK, NEW t \in Purchase
  PROVE  /\ \A s : Pay(t, s) =>
              /\ \A u \in Purchase : u # t => bought'[u] = bought[u]
              /\ bought'[t].status = s /\ bought'[t].known = bought[t].known
              /\ bought'[t].prompt = bought[t].prompt
         /\ \A p : Prompts(t, p) =>
              /\ \A u \in Purchase : u # t => bought'[u] = bought[u]
              /\ bought'[t].status = bought[t].status
              /\ bought'[t].known = bought[t].known
              /\ bought'[t].prompt = p
         /\ Knows(t) =>
              /\ \A u \in Purchase : u # t => bought'[u] = bought[u]
              /\ bought'[t].status = bought[t].status
              /\ bought'[t].known /\ bought'[t].prompt = bought[t].prompt
         /\ PromptStale(t) =>
              /\ \A u \in Purchase : u # t => bought'[u] = bought[u]
              /\ bought'[t].status = bought[t].status
              /\ bought'[t].known = bought[t].known
              /\ bought'[t].prompt = bought[t].prompt
<1> bought \in [Purchase -> Row]
  BY DEF PromoTypeOK, Row
<1> USE DEF Row
<1>1. ASSUME NEW s, Pay(t, s)
      PROVE  /\ \A u \in Purchase : u # t => bought'[u] = bought[u]
             /\ bought'[t].status = s /\ bought'[t].known = bought[t].known
             /\ bought'[t].prompt = bought[t].prompt
  BY <1>1 DEF Pay
<1>2. ASSUME NEW p, Prompts(t, p)
      PROVE  /\ \A u \in Purchase : u # t => bought'[u] = bought[u]
             /\ bought'[t].status = bought[t].status
             /\ bought'[t].known = bought[t].known
             /\ bought'[t].prompt = p
  BY <1>2 DEF Prompts
<1>3. ASSUME Knows(t)
      PROVE  /\ \A u \in Purchase : u # t => bought'[u] = bought[u]
             /\ bought'[t].status = bought[t].status
             /\ bought'[t].known /\ bought'[t].prompt = bought[t].prompt
  BY <1>3 DEF Knows
<1>4. ASSUME PromptStale(t)
      PROVE  /\ \A u \in Purchase : u # t => bought'[u] = bought[u]
             /\ bought'[t].status = bought[t].status
             /\ bought'[t].known = bought[t].known
             /\ bought'[t].prompt = bought[t].prompt
  BY <1>4 DEF PromptStale
<1> QED  BY <1>1, <1>2, <1>3, <1>4

LEMMA RowTyped ==
  ASSUME PromoTypeOK, NEW t \in Purchase
  PROVE  /\ \A s \in {"none", "pending", "paid", "failed"} :
              Pay(t, s) => bought' \in [Purchase -> Row]
         /\ \A p \in {"none", "sent", "charged", "refused"} :
              Prompts(t, p) => bought' \in [Purchase -> Row]
         /\ Knows(t) => bought' \in [Purchase -> Row]
         /\ PromptStale(t) => bought' \in [Purchase -> Row]
<1>1. bought \in [Purchase -> Row] /\ bought[t] \in Row
  BY DEF PromoTypeOK, Row
<1>2. \A x \in Row : [bought EXCEPT ![t] = x] \in [Purchase -> Row]
  BY <1>1
<1>3. \A s \in {"none", "pending", "paid", "failed"} :
        [bought[t] EXCEPT !.status = s, !.stale = FALSE] \in Row
  BY <1>1 DEF Row
<1>4. \A p \in {"none", "sent", "charged", "refused"} :
        [bought[t] EXCEPT !.prompt = p] \in Row
  BY <1>1 DEF Row
<1>5. [bought[t] EXCEPT !.known = TRUE] \in Row
      /\ [bought[t] EXCEPT !.stale = TRUE] \in Row
  BY <1>1 DEF Row
<1> QED  BY <1>1, <1>2, <1>3, <1>4, <1>5 DEF Pay, Prompts, Knows, PromptStale

\* The races are named, and the ones a run has gone through stay.
LEMMA MeetingsGrow ==
  ASSUME PromoTypeOK, [PromoNext]_promoVars
  PROVE  meetings \subseteq meetings' /\ meetings' \subseteq Meeting
<1> USE DEF Meets, PromoTypeOK, Meeting
<1>1. ASSUME NEW c \in Errand, PaymentStep(c)
      PROVE  meetings \subseteq meetings' /\ meetings' \subseteq Meeting
  BY <1>1 DEF PaymentStep, PayRead, PayPendingRead, PayGiveUp, PayInsert, PromoPush,
     PromoPushFailed, PromoStoreId, PaidRead, PaidSettle, OnPaymentSuccess
<1>2. ASSUME NEW c \in Errand, CampaignStep(c) \/ ErrandAborts(c)
      PROVE  meetings \subseteq meetings' /\ meetings' \subseteq Meeting
  BY <1>2 DEF CampaignStep, Approve, Reject, Pause, Resume, Cancel,
     SweepOverdue, SweepUnpaid, Loads, Transition, ErrandAborts
<1>3. ASSUME NEW t \in Purchase, PayerAnswers(t) \/ PromptStale(t)
      PROVE  meetings \subseteq meetings' /\ meetings' \subseteq Meeting
  BY <1>3 DEF PayerAnswers, PromptStale
<1>4. CASE DayPasses \/ GrowsOld \/ UNCHANGED promoVars
  BY <1>4 DEF DayPasses, GrowsOld, promoVars
<1> QED  BY <1>1, <1>2, <1>3, <1>4 DEF PromoNext

LEMMA UpsetBounded ==
  ASSUME PromoTypeOK, [PromoNext]_promoVars
  PROVE  upset' \in 0..Upsets
<1> SUFFICES Upsetting \/ UNCHANGED upset
  BY PromotionBounds DEF Upsetting, PromoTypeOK
<1> USE DEF SameCampaign
<1>1. ASSUME NEW c \in Errand, PaymentStep(c)
      PROVE  Upsetting \/ UNCHANGED upset
  BY <1>1 DEF PaymentStep, PayRead, PayPendingRead, PayGiveUp, PayInsert, PromoPush,
     PromoPushFailed, PromoStoreId, PaidRead, PaidSettle, OnPaymentSuccess
<1>2. ASSUME NEW c \in Errand, CampaignStep(c) \/ ErrandAborts(c)
      PROVE  Upsetting \/ UNCHANGED upset
  BY <1>2 DEF CampaignStep, Approve, Reject, Pause, Resume, Cancel,
     SweepOverdue, SweepUnpaid, Loads, Transition, ErrandAborts
<1>3. ASSUME NEW t \in Purchase, PayerAnswers(t) \/ PromptStale(t)
      PROVE  UNCHANGED upset
  BY <1>3 DEF PayerAnswers, PromptStale
<1>4. CASE DayPasses \/ GrowsOld \/ UNCHANGED promoVars
  BY <1>4 DEF DayPasses, GrowsOld, promoVars
<1> QED  BY <1>1, <1>2, <1>3, <1>4 DEF PromoNext

LEMMA Shifts ==
  ASSUME PromoTypeOK
  PROVE  /\ clock \in Nat /\ campaign.ends \in Nat /\ campaign.paused \in Nat
         /\ clock + Days \in Day
         /\ ShiftedEndOnResume(campaign.ends, campaign.paused, clock) \in Day
BY PromotionBounds DEF PromoTypeOK, Day, ShiftedEndOnResume

\* Whatever a call does, a change it decides on is a legal one, dated with a day.
LEMMA LoadsTyped ==
  ASSUME PromoTypeOK, NEW c \in Errand,
         CampaignStep(c), ~ Transition(c)
  PROVE  \E to \in CampaignStatus, date \in Day :
           Loads(c, to, date)
<1>1. \A to, date : Loads(c, to, date) => to \in CampaignStatus
  BY LegalEnds DEF Loads
<1>2. \E to, date : date \in Day /\ Loads(c, to, date)
  BY Shifts DEF CampaignStep, Approve, Reject, Pause, Resume, Cancel, SweepOverdue,
     SweepUnpaid, Day
<1> QED  BY <1>1, <1>2

LEMMA TypeStep ==
  ASSUME PromoTypeOK, [PromoNext]_promoVars
  PROVE  PromoTypeOK'
<1> DEFINE Kept == /\ errand' \in [Errand -> Call]
                   /\ bought' \in [Purchase -> Row]
                   /\ campaign' \in [status : CampaignStatus, ends : Day,
                                     paused : Day, old : BOOLEAN]
                   /\ clock' \in 0..LastDay /\ served' \in Day
<1> SUFFICES Kept
  BY MeetingsGrow, UpsetBounded DEF PromoTypeOK, Call, Row
<1>0. /\ errand \in [Errand -> Call] /\ bought \in [Purchase -> Row]
      /\ campaign \in [status : CampaignStatus, ends : Day, paused : Day,
                       old : BOOLEAN]
      /\ clock \in 0..LastDay /\ served \in Day
      /\ \A c \in Errand : errand[c].for \in Purchase \cup {0}
  BY DEF PromoTypeOK, Call, Row
<1>steps. ErrandStep = {"idle", "settle", "hook", "move", "pending_read",
                        "give_up", "insert", "push", "push_failed", "store"}
  BY DEF ErrandStep, Paying
<1>unpaid. \A t : t \notin Purchase =>
             /\ \A s : Pay(t, s) => bought' = bought
             /\ \A p : Prompts(t, p) => bought' = bought
             /\ Knows(t) => bought' = bought
  BY <1>0 DEF Pay, Prompts, Knows
<1>rows. \A t : \/ \E s \in {"pending", "paid", "failed"} : Pay(t, s)
                \/ \E p \in {"sent", "charged", "refused"} : Prompts(t, p)
                \/ Knows(t)
                \/ UNCHANGED bought
              => bought' \in [Purchase -> Row]
  BY <1>0, <1>unpaid, RowTyped
<1>places. \A c \in Errand :
             \/ \E s \in ErrandStep, t \in Purchase \cup {0} : Sets(c, s, t)
             \/ Returns(c)
             \/ \E to \in CampaignStatus, date \in Day : Decides(c, to, date)
             => errand' \in [Errand -> Call]
  BY PlaceTyped
<1>1. ASSUME NEW c \in Errand, PaymentStep(c)
      PROVE  Kept
  <2>1. errand' \in [Errand -> Call]
    <3>1. CASE OnPaymentSuccess(c)
      BY <3>1, <1>places, Sorts, Shifts DEF OnPaymentSuccess, Running, Day
    <3>2. CASE ~ OnPaymentSuccess(c)
      BY <3>2, <1>1, <1>0, <1>places, <1>steps DEF PaymentStep, PayRead,
         PayPendingRead, PayGiveUp, PayInsert, PromoPush, PromoPushFailed,
         PromoStoreId, PaidRead, PaidSettle, Bought
    <3> QED  BY <3>1, <3>2
  <2>2. bought' \in [Purchase -> Row]
    BY <1>1, <1>rows DEF PaymentStep, PayRead, PayPendingRead, PayGiveUp,
       PayInsert, PromoPush, PromoPushFailed, PromoStoreId, PaidRead, PaidSettle,
       OnPaymentSuccess, Prompts, Knows
  <2>3. SameCampaign
    BY <1>1 DEF PaymentStep, PayRead, PayPendingRead, PayGiveUp,
       PayInsert, PromoPush, PromoPushFailed, PromoStoreId, PaidRead, PaidSettle,
       OnPaymentSuccess
  <2> QED  BY <2>1, <2>2, <2>3, <1>0 DEF SameCampaign
<1>2. ASSUME NEW c \in Errand, CampaignStep(c), ~ Transition(c)
      PROVE  Kept
  BY <1>2, LoadsTyped, <1>places, <1>0 DEF Loads, SameCampaign
<1>3. ASSUME NEW c \in Errand, Transition(c)
      PROVE  Kept
  <2>1. errand[c].to \in CampaignStatus /\ errand[c].date \in Day /\ 0 \in Day
    BY <1>0 DEF Call, Day
  <2>2. campaign' \in [status : CampaignStatus, ends : Day, paused : Day,
                       old : BOOLEAN]
    BY <1>3, <2>1, <1>0 DEF Transition
  <2>3. errand' \in [Errand -> Call] /\ UNCHANGED <<bought, clock, served>>
    BY <1>3, <1>places DEF Transition
  <2> QED  BY <2>2, <2>3, <1>0
<1>4. ASSUME NEW c \in Errand, ErrandAborts(c)
      PROVE  Kept
  BY <1>4, <1>places, <1>0 DEF ErrandAborts, SameCampaign
<1>5. ASSUME NEW t \in Purchase, PayerAnswers(t)
      PROVE  Kept
  BY <1>5, <1>rows, <1>0 DEF PayerAnswers, Prompts, SameCampaign
<1>6. ASSUME NEW t \in Purchase, PromptStale(t)
      PROVE  Kept
  BY <1>6, RowTyped, <1>0 DEF PromptStale, SameCampaign
<1>7. CASE DayPasses
  BY <1>7, <1>0, PromotionBounds DEF DayPasses, Day
<1>8. CASE GrowsOld
  BY <1>8, <1>0 DEF GrowsOld
<1>9. CASE UNCHANGED promoVars
  BY <1>9, <1>0 DEF promoVars
<1> QED
  BY <1>1, <1>2, <1>3, <1>4, <1>5, <1>6, <1>7, <1>8, <1>9
     DEF PromoNext, CampaignStep

\* The campaign, its payments and every call keep their types.
THEOREM PromoTypeCorrect == PromoSpec => []PromoTypeOK
<1> QED  BY TypeInit, TypeStep, PTL DEF PromoSpec

-----------------------------------------------------------------------------
(* The status.                                                             *)

\* A step that changes no campaign and lets no call decide anything.
Undecided(c) ==
  /\ UNCHANGED <<campaign, clock, served>>
  /\ \A d \in Errand : d # c => errand'[d] = errand[d]
  /\ errand'[c].at # "move"

\* What a call loaded and decided.
Decided(c) ==
  /\ UNCHANGED <<campaign, clock, served>>
  /\ \A d \in Errand : d # c => errand'[d] = errand[d]
  /\ errand'[c].at = "move" /\ errand'[c].from = campaign.status
  /\ <<campaign.status, errand'[c].to>> \in Legal

\* A step of a payment decides nothing until the hook.
LEMMA PaymentUndecided ==
  ASSUME PromoTypeOK, NEW c \in Errand, PaymentStep(c), ~ OnPaymentSuccess(c)
  PROVE  Undecided(c)
<1>1. SameCampaign
  BY DEF PaymentStep, PayRead, PayPendingRead, PayGiveUp, PayInsert, PromoPush,
     PromoPushFailed, PromoStoreId, PaidRead, PaidSettle
<1>2. \/ Returns(c)
      \/ \E s \in {"settle", "hook"} \cup Paying : \E t : Sets(c, s, t)
  BY DEF PaymentStep, PayRead, PayPendingRead, PayGiveUp, PayInsert, PromoPush,
     PromoPushFailed, PromoStoreId, PaidRead, PaidSettle, Paying
<1> QED  BY <1>1, <1>2, PlaceEffect DEF SameCampaign, Undecided, Paying

LEMMA AbortUndecided ==
  ASSUME PromoTypeOK, NEW c \in Errand, ErrandAborts(c)
  PROVE  Undecided(c)
BY PlaceEffect DEF ErrandAborts, SameCampaign, Undecided

LEMMA CallsDecide ==
  ASSUME PromoTypeOK, NEW c \in Errand,
         PaymentStep(c) \/ CampaignStep(c) \/ ErrandAborts(c)
  PROVE  \/ Undecided(c) \/ Decided(c) \/ Transition(c)
<1>1. CASE OnPaymentSuccess(c)
  <2>1. {<<Unpaid, "pending_review">>, <<Unpaid, "active">>} \subseteq Legal
    BY DEF Legal
  <2> QED
    BY <1>1, <2>1, PlaceEffect DEF OnPaymentSuccess, SameCampaign, Undecided,
       Decided
<1>2. CASE CampaignStep(c) /\ ~ Transition(c)
  BY <1>2, LoadsTyped, PlaceEffect DEF Loads, SameCampaign, Decided
<1> QED  BY <1>1, <1>2, PaymentUndecided, AbortUndecided

LEMMA LegalStep ==
  ASSUME PromoTypeOK, LegalInv, [PromoNext]_promoVars
  PROVE  /\ LegalInv'
         /\ campaign'.status # campaign.status
              => <<campaign.status, campaign'.status>> \in Legal
<1> USE DEF LegalInv, Doing
<1>1. ASSUME NEW c \in Errand,
             PaymentStep(c) \/ CampaignStep(c) \/ ErrandAborts(c),
             ~ Transition(c)
      PROVE  LegalInv' /\ UNCHANGED campaign
  BY <1>1, CallsDecide DEF Undecided, Decided
<1>2. ASSUME NEW c \in Errand, Transition(c)
      PROVE  /\ LegalInv'
             /\ campaign'.status # campaign.status
                  => <<campaign.status, campaign'.status>> \in Legal
  <2>1. LegalInv'
    BY <1>2, PlaceEffect DEF Transition
  <2>2. \/ campaign.status = errand[c].from /\ campaign'.status = errand[c].to
        \/ UNCHANGED campaign
    BY <1>2 DEF Transition, PromoTypeOK
  <2> QED  BY <1>2, <2>1, <2>2 DEF Transition
<1>3. CASE \/ \E t \in Purchase : PayerAnswers(t) \/ PromptStale(t)
           \/ DayPasses \/ GrowsOld \/ UNCHANGED promoVars
  <2>1. UNCHANGED errand /\ campaign'.status = campaign.status
    BY <1>3 DEF PayerAnswers, PromptStale, SameCampaign, DayPasses, GrowsOld,
       promoVars, PromoTypeOK
  <2> QED  BY <2>1
<1> QED  BY <1>1, <1>2, <1>3 DEF PromoNext

\* No interleaving of requests, callbacks and sweeps moves the campaign as the
\* table forbids: the status a call decided on is the one it writes over.
THEOREM OnlyLegalMovesCorrect == PromoSpec => OnlyLegalMoves
<1>1. PromoInit => LegalInv
  BY DEF PromoInit, LegalInv, Doing, NoErrand
<1>2. PromoTypeOK /\ LegalInv /\ [PromoNext]_promoVars
        => LegalInv' /\ [campaign'.status # campaign.status
                           => <<campaign.status, campaign'.status>> \in Legal]_promoVars
  BY LegalStep
<1> QED
  BY <1>1, <1>2, PromoTypeCorrect, PTL DEF PromoSpec, OnlyLegalMoves

-----------------------------------------------------------------------------
(* The days.                                                               *)

\* The campaign's dates and the days are numbers.
LEMMA Numbers ==
  ASSUME PromoTypeOK
  PROVE  /\ clock \in Nat /\ served \in Nat /\ Days \in Nat /\ Days > 0
         /\ campaign.ends \in Nat /\ campaign.paused \in Nat
         /\ \A c \in Errand : errand[c].date \in Nat
BY PromotionBounds DEF PromoTypeOK, Day

\* The date a call decides on gives the campaign what it has still to get.
LEMMA DatesDecided ==
  ASSUME PromoTypeOK, DaysInv, NEW c \in Errand, "slow_date" \notin meetings,
         OnPaymentSuccess(c) \/ CampaignStep(c), ~ Transition(c),
         errand'[c].at = "move"
  PROVE  DateInv(c)'
<1> USE DEF DaysInv
<1>0. /\ \A to, date : Decides(c, to, date) =>
           /\ errand'[c].from = campaign.status
           /\ errand'[c].to = to /\ errand'[c].date = date
      /\ \A to, date : Loads(c, to, date) =>
           Decides(c, to, date) /\ UNCHANGED <<clock, served>>
           /\ <<campaign.status, to>> \in Legal
  BY PlaceEffect DEF Loads, SameCampaign
<1>1. CASE OnPaymentSuccess(c)
  <2>1. UNCHANGED <<clock, served>> /\ errand'[c].from = Unpaid
        /\ \/ errand'[c].to = "pending_review"
           \/ errand'[c].to = "active" /\ errand'[c].date = clock + Days
    BY <1>1, <1>0, PlaceEffect DEF OnPaymentSuccess, SameCampaign
  <2> QED
    BY <2>1, Numbers DEF DateInv, RestOf, Unpaid
<1>2. CASE Approve(c)
  <2>1. UNCHANGED <<clock, served>> /\ errand'[c].from = "pending_review"
        /\ errand'[c].to = "active" /\ errand'[c].date = clock + Days
    BY <1>2, <1>0 DEF Approve
  <2> QED
    BY <2>1, Numbers DEF DateInv, RestOf, Unpaid
<1>3. CASE Pause(c)
  <2>1. UNCHANGED <<clock, served>> /\ errand'[c].to = "paused"
        /\ errand'[c].date = clock
    BY <1>3, <1>0 DEF Pause
  <2> QED
    BY <2>1 DEF DateInv
<1>4. CASE Resume(c)
  <2>1. UNCHANGED <<clock, served>> /\ errand'[c].from = "paused"
        /\ errand'[c].to = "active"
        /\ errand'[c].date = ShiftedEndOnResume(campaign.ends, campaign.paused, clock)
        /\ campaign.paused <= clock /\ served + Left(campaign.paused) = Days
    BY <1>4, <1>0 DEF Resume
  <2>2. RestOf(errand[c].date)' = Left(campaign.paused)
    BY <2>1, Numbers DEF RestOf, Left, ShiftedEndOnResume
  <2>3. served' + RestOf(errand[c].date)' = Days
    BY <2>1, <2>2
  <2> QED
    BY <2>1, <2>3 DEF DateInv, Unpaid
<1>5. CASE SweepOverdue(c)
  <2>1. UNCHANGED <<clock, served>> /\ errand'[c].to = "completed"
        /\ campaign.status = "active" /\ campaign.ends <= clock
    BY <1>5, <1>0 DEF SweepOverdue
  <2>2. served = Days
    BY <2>1, Numbers DEF Left
  <2> QED
    BY <2>1, <2>2 DEF DateInv
<1>6. CASE Reject(c) \/ Cancel(c) \/ SweepUnpaid(c)
  <2>1. errand'[c].to \in {"rejected", "cancelled", "expired"}
    BY <1>6, <1>0 DEF Reject, Cancel, SweepUnpaid
  <2> QED
    BY <2>1 DEF DateInv
<1> QED
  BY <1>1, <1>2, <1>3, <1>4, <1>5, <1>6 DEF CampaignStep

LEMMA DaysStep ==
  ASSUME PromoTypeOK, LegalInv, DaysInv, [PromoNext]_promoVars
  PROVE  DaysInv'
<1> SUFFICES ASSUME "slow_date" \notin meetings'
             PROVE  DaysInv'
  BY DEF DaysInv
<1>0. "slow_date" \notin meetings
  BY MeetingsGrow
<1>1. ASSUME NEW c \in Errand, Undecided(c) \/ Decided(c),
             errand'[c].at = "move" => DateInv(c)'
      PROVE  DaysInv'
  <2>1. \A d \in Errand : DateInv(d)'
    BY <1>1, <1>0 DEF DaysInv, DateInv, Undecided, Decided, RestOf, Doing
  <2>2. UNCHANGED <<campaign, clock, served>>
    BY <1>1 DEF Undecided, Decided
  <2> QED  BY <2>1, <2>2, <1>0 DEF DaysInv, Left
<1>2. ASSUME NEW c \in Errand, PaymentStep(c) \/ CampaignStep(c) \/ ErrandAborts(c),
             ~ Transition(c)
      PROVE  DaysInv'
  <2>1. Undecided(c) \/ Decided(c)
    BY <1>2, CallsDecide
  <2>2. CASE OnPaymentSuccess(c) \/ CampaignStep(c)
    BY <2>1, <2>2, <1>0, <1>1, <1>2, DatesDecided
  <2>3. CASE ~ (OnPaymentSuccess(c) \/ CampaignStep(c))
    <3>1. errand'[c].at # "move"
      BY <1>2, <2>3, PaymentUndecided, AbortUndecided DEF Undecided
    <3> QED  BY <2>1, <3>1, <1>1
  <2> QED  BY <2>2, <2>3
<1>3. ASSUME NEW c \in Errand, Transition(c)
      PROVE  DaysInv'
  <2>1. \A d \in Errand : DateInv(d)'
    BY <1>3, <1>0, PlaceEffect DEF DaysInv, DateInv, Transition, RestOf, Doing
  <2>2. CASE UNCHANGED campaign
    BY <1>3, <1>0, <2>1, <2>2 DEF DaysInv, Transition, Left
  <2>3. CASE campaign.status = errand[c].from /\ campaign' # campaign
    <3> DEFINE e == errand[c]
    <3>1. /\ campaign'.status = e.to /\ UNCHANGED <<clock, served>>
          /\ e.to = "active" => campaign'.ends = e.date
          /\ e.to # "active" => campaign'.ends = campaign.ends
          /\ e.to = "paused" => campaign'.paused = e.date
          /\ <<campaign.status, e.to>> \in Legal
      BY <1>3, <2>3 DEF Transition, LegalInv, PromoTypeOK
    <3>2. DateInv(c) /\ Doing(c, "move")
      BY <1>3, <1>0 DEF DaysInv, Transition
    <3>3. CASE e.to = "active"
      <4>1. campaign.status \in {Unpaid, "pending_review", "paused"}
        BY <3>1, <3>3 DEF Legal
      <4>2. served + RestOf(e.date) = Days
        BY <4>1, <3>2, <3>3, <2>3, <1>0, Numbers DEF DateInv, DaysInv
      <4> QED
        BY <3>1, <3>3, <4>2, <2>1 DEF DaysInv, Left, RestOf, Unpaid
    <3>4. CASE e.to = "paused"
      <4>1. campaign.status = "active" /\ e.date = clock
        BY <3>1, <3>2, <3>4 DEF Legal, DateInv, Unpaid
      <4> QED
        BY <3>1, <3>4, <4>1, <2>1, <1>0, Numbers DEF DaysInv, Left, Unpaid
    <3>5. CASE e.to = "completed"
      BY <3>1, <3>2, <3>5, <2>1 DEF DaysInv, DateInv, Unpaid
    <3>6. CASE e.to = "pending_review"
      <4>1. campaign.status = Unpaid
        BY <3>1, <3>6 DEF Legal
      <4> QED
        BY <3>1, <3>6, <4>1, <2>1, <1>0 DEF DaysInv, Unpaid
    <3>7. CASE e.to \in {"expired", "cancelled", "rejected"}
      BY <3>1, <3>7, <2>1 DEF DaysInv, Unpaid
    <3>8. e.to \in {"active", "paused", "completed", "pending_review", "expired",
                   "cancelled", "rejected"}
      BY <3>1 DEF Legal
    <3> QED  BY <3>3, <3>4, <3>5, <3>6, <3>7, <3>8
  <2> QED  BY <2>2, <2>3, <1>3 DEF Transition
<1>4. CASE DayPasses
  <2>1. /\ UNCHANGED <<campaign, errand>> /\ clock' = clock + 1
        /\ served' = IF campaign.status = "active" /\ clock < campaign.ends
                     THEN served + 1 ELSE served
        /\ \A c \in Errand : Doing(c, "move")
                             => errand[c].to \notin {"active", "paused"}
    BY <1>4 DEF DayPasses, Meets
  <2>2. campaign.status = "active" => served' + Left(clock)' = Days
    BY <2>1, <1>0, Numbers DEF DaysInv, Left
  <2>3. served = Days => served' = Days
    <3>1. SUFFICES ASSUME served = Days, campaign.status = "active"
                   PROVE  ~ (clock < campaign.ends)
      BY <2>1
    <3>2. served + Left(clock) = Days
      BY <3>1, <1>0 DEF DaysInv
    <3> QED  BY <3>1, <3>2, Numbers DEF Left
  <2>4. \A c \in Errand : DateInv(c)'
    BY <2>1, <2>3, <1>0 DEF DateInv, DaysInv, Doing
  <2>5. campaign.status # "active" => served' = served
    BY <2>1
  <2>6. campaign.paused <= clock => campaign'.paused <= clock'
    BY <2>1, Numbers
  <2>7. campaign.status \in {Unpaid, "pending_review", "paused", "completed"}
          => campaign.status # "active"
    BY DEF Unpaid
  <2>8. Left(campaign.paused)' = Left(campaign.paused)
    BY <2>1 DEF Left
  <2> QED  BY <2>1, <2>2, <2>4, <2>5, <2>6, <2>7, <2>8, <1>0 DEF DaysInv
<1>5. CASE \/ \E t \in Purchase : PayerAnswers(t) \/ PromptStale(t)
           \/ GrowsOld \/ UNCHANGED promoVars
  <2>1. /\ UNCHANGED <<errand, clock, served>>
        /\ campaign'.status = campaign.status /\ campaign'.ends = campaign.ends
        /\ campaign'.paused = campaign.paused
    BY <1>5 DEF PayerAnswers, PromptStale, SameCampaign, GrowsOld, promoVars,
       PromoTypeOK
  <2> QED  BY <2>1, <1>0 DEF DaysInv, DateInv, RestOf, Left, Doing
<1> QED  BY <1>2, <1>3, <1>4, <1>5 DEF PromoNext

\* The days served and still to come are the days bought, however pauses,
\* resumes and sweeps met on the row.
THEOREM PurchasedDaysKeptCorrect == PromoSpec => []PurchasedDaysKept
<1>1. PromoInit => LegalInv /\ DaysInv
  BY DEF PromoInit, LegalInv, DaysInv, DateInv, Doing, NoErrand, Unpaid
<1>2. PromoTypeOK /\ LegalInv /\ DaysInv /\ [PromoNext]_promoVars
        => LegalInv' /\ DaysInv'
  BY LegalStep, DaysStep
<1>3. DaysInv => PurchasedDaysKept
  BY DEF DaysInv, PurchasedDaysKept
<1> QED  BY <1>1, <1>2, <1>3, PromoTypeCorrect, PTL DEF PromoSpec

-----------------------------------------------------------------------------
(* The money.                                                              *)

\* What a step may do to a row, seen from outside: a row that was paid stays
\* paid, one with a known id keeps it, and a prompt the payer answered stays
\* answered.
RowMoves(t) ==
  /\ bought[t].status = "paid" => bought'[t].status = "paid"
  /\ bought[t].known => bought'[t].known
  /\ bought[t].prompt \in {"charged", "refused"}
       => bought'[t].prompt = bought[t].prompt

LEMMA RowStep ==
  ASSUME PromoTypeOK, RowInv, [PromoNext]_promoVars
  PROVE  RowInv' /\ (\A t \in Purchase : RowMoves(t))
<1> DEFINE Goal == RowInv' /\ (\A t \in Purchase : RowMoves(t))
<1> USE DEF RowInv, RowMoves, Owning, Doing
<1>1. ASSUME UNCHANGED bought, NEW c \in Errand,
             \A d \in Errand : d # c => errand'[d] = errand[d],
             errand'[c].at \in {"idle", "move", "pending_read", "insert"}
      PROVE  Goal
  BY <1>1
<1>2. ASSUME NEW c \in Errand, PayRead(c)  PROVE Goal
  BY <1>1, <1>2, PlaceEffect DEF PayRead
<1>3. ASSUME NEW c \in Errand, PayPendingRead(c)  PROVE Goal
  <2>1. CASE \E t \in Bought("pending") : Sets(c, "give_up", t)
    <3>1. /\ UNCHANGED bought /\ errand'[c].at = "give_up"
          /\ errand'[c].for \in Purchase
          /\ \A d \in Errand : d # c => errand'[d] = errand[d]
      BY <1>3, <2>1, PlaceEffect DEF PayPendingRead, Bought
    <3> QED  BY <3>1
  <2>2. CASE Returns(c) \/ Sets(c, "insert", 0)
    BY <1>1, <1>3, <2>2, PlaceEffect DEF PayPendingRead
  <2> QED  BY <1>3, <2>1, <2>2 DEF PayPendingRead
<1>4. ASSUME NEW c \in Errand, PayGiveUp(c)  PROVE Goal
  <2> DEFINE t == errand[c].for
  <2>1. /\ t \in Purchase /\ errand'[c].at = "insert"
        /\ \A d \in Errand : d # c => errand'[d] = errand[d]
    BY <1>4, PlaceEffect DEF PayGiveUp
  <2>2. CASE Pay(t, "failed") /\ bought[t].status = "pending"
    <3>1. /\ \A u \in Purchase : u # t => bought'[u] = bought[u]
          /\ bought'[t].status = "failed" /\ bought'[t].known = bought[t].known
          /\ bought'[t].prompt = bought[t].prompt
      BY <2>1, <2>2, RowEffect
    <3> QED  BY <2>1, <2>2, <3>1
  <2>3. CASE UNCHANGED bought
    BY <1>1, <2>1, <2>3
  <2> QED  BY <1>4, <2>2, <2>3 DEF PayGiveUp
<1>5. ASSUME NEW c \in Errand, PayInsert(c)  PROVE Goal
  <2>1. CASE Returns(c) /\ UNCHANGED bought
    BY <1>1, <2>1, PlaceEffect
  <2>2. ASSUME NEW t \in Bought("none"), Pay(t, "pending"), Sets(c, "push", t)
        PROVE  Goal
    <3>1. /\ t \in Purchase /\ bought[t].status = "none"
          /\ bought[t].prompt = "none" /\ ~ bought[t].known
      BY DEF Bought
    <3>2. /\ \A u \in Purchase : u # t => bought'[u] = bought[u]
          /\ bought'[t].status = "pending" /\ ~ bought'[t].known
          /\ bought'[t].prompt = "none"
      BY <2>2, <3>1, RowEffect
    <3>3. /\ errand'[c].at = "push" /\ errand'[c].for = t
          /\ \A d \in Errand : d # c => errand'[d] = errand[d]
      BY <2>2, PlaceEffect
    <3>4. \A d \in Errand : errand[d].at \in Owning \cup {"settle", "hook"}
                             => errand[d].for # t
      BY <3>1
    <3> QED  BY <3>1, <3>2, <3>3, <3>4
  <2> QED  BY <1>5, <2>1, <2>2 DEF PayInsert
<1>6. ASSUME NEW c \in Errand, PromoPush(c)  PROVE Goal
  <2> DEFINE t == errand[c].for
  <2>0. \/ Sets(c, "store", t) \/ Sets(c, "push_failed", t)
    BY <1>6 DEF PromoPush
  <2>1. /\ t \in Purchase /\ bought[t].prompt = "none" /\ ~ bought[t].known
        /\ bought[t].status \in {"pending", "failed"}
        /\ errand'[c].at \in {"store", "push_failed"} /\ errand'[c].for = t
        /\ \A d \in Errand : d # c => errand'[d] = errand[d]
    <3>1. /\ t \in Purchase /\ bought[t].prompt = "none" /\ ~ bought[t].known
          /\ bought[t].status \in {"pending", "failed"}
      BY <1>6 DEF PromoPush
    <3>2. /\ errand'[c].at \in {"store", "push_failed"} /\ errand'[c].for = t
          /\ \A d \in Errand : d # c => errand'[d] = errand[d]
      BY <2>0, PlaceEffect
    <3> QED  BY <3>1, <3>2
  <2>others. \A d \in Errand :
               /\ d # c /\ errand[d].at \in Owning => errand[d].for # t
               /\ errand[d].at \in {"settle", "hook"} => errand[d].for # t
    BY <1>6, <2>1 DEF PromoPush
  <2>2. CASE Prompts(t, "sent")
    <3>1. /\ \A u \in Purchase : u # t => bought'[u] = bought[u]
          /\ bought'[t].status = bought[t].status
          /\ bought'[t].known = bought[t].known
          /\ bought'[t].prompt = "sent"
      BY <2>1, <2>2, RowEffect
    <3> QED  BY <2>1, <2>others, <3>1
  <2>3. CASE UNCHANGED bought
    BY <2>1, <2>others, <2>3
  <2> QED  BY <1>6, <2>2, <2>3 DEF PromoPush, Prompts
<1>7. ASSUME NEW c \in Errand, PromoPushFailed(c)  PROVE Goal
  <2> DEFINE t == errand[c].for
  <2>1. /\ t \in Purchase /\ errand'[c].at = "idle"
        /\ \A d \in Errand : d # c => errand'[d] = errand[d]
        /\ bought[t].status \in {"pending", "failed"} /\ ~ bought[t].known
        /\ \A d \in Errand : errand[d].at \in {"settle", "hook"} => errand[d].for # t
        /\ \A d \in Errand : d # c /\ errand[d].at \in Owning => errand[d].for # t
    BY <1>7, PlaceEffect DEF PromoPushFailed
  <2>2. CASE Pay(t, "failed")
    <3>1. /\ \A u \in Purchase : u # t => bought'[u] = bought[u]
          /\ bought'[t].status = "failed" /\ bought'[t].known = bought[t].known
          /\ bought'[t].prompt = bought[t].prompt
      BY <2>1, <2>2, RowEffect
    <3> QED  BY <2>1, <3>1
  <2>3. CASE UNCHANGED bought
    BY <1>1, <2>1, <2>3
  <2> QED  BY <1>7, <2>2, <2>3 DEF PromoPushFailed
<1>8. ASSUME NEW c \in Errand, PromoStoreId(c)  PROVE Goal
  <2> DEFINE t == errand[c].for
  <2>1. /\ t \in Purchase /\ errand'[c].at = "idle"
        /\ \A d \in Errand : d # c => errand'[d] = errand[d]
        /\ bought[t].status \in {"pending", "failed"} /\ ~ bought[t].known
        /\ \A d \in Errand : d # c /\ errand[d].at \in Owning => errand[d].for # t
    BY <1>8, PlaceEffect DEF PromoStoreId
  <2>2. CASE Knows(t)
    <3>1. /\ \A u \in Purchase : u # t => bought'[u] = bought[u]
          /\ bought'[t].status = bought[t].status /\ bought'[t].known
          /\ bought'[t].prompt = bought[t].prompt
      BY <2>1, <2>2, RowEffect
    <3> QED  BY <2>1, <3>1
  <2>3. CASE UNCHANGED bought
    BY <1>1, <2>1, <2>3
  <2> QED  BY <1>8, <2>2, <2>3 DEF PromoStoreId, Knows
<1>9. ASSUME NEW c \in Errand, NEW t \in Purchase, PaidRead(c, t)  PROVE Goal
  <2>1. /\ UNCHANGED bought /\ errand'[c].at = "settle" /\ errand'[c].for = t
        /\ \A d \in Errand : d # c => errand'[d] = errand[d]
        /\ bought[t].known /\ bought[t].prompt \in {"charged", "refused"}
    BY <1>9, PlaceEffect DEF PaidRead
  <2> QED  BY <2>1
<1>10. ASSUME NEW c \in Errand, PaidSettle(c)  PROVE Goal
  <2> DEFINE t == errand[c].for
  <2>1. t \in Purchase /\ bought[t].known
    BY <1>10 DEF PaidSettle
  <2>2. \A d \in Errand : d # c => errand'[d] = errand[d]
    BY <1>10, PlaceEffect DEF PaidSettle
  <2>3. \A d \in Errand : errand[d].at \in Owning => errand[d].for # t
    BY <2>1
  <2>4. ASSUME \A u \in Purchase : u # t => bought'[u] = bought[u],
               bought'[t].known, bought'[t].prompt = bought[t].prompt,
               bought[t].prompt \in {"charged", "refused"},
               bought[t].status = "paid" => bought'[t].status = "paid",
               bought'[t].status = "paid" => bought'[t].prompt = "charged",
               bought'[t].status \in {"paid", "failed"},
               \/ errand'[c].at = "idle"
               \/ errand'[c].at = "hook" /\ errand'[c].for = t
                  /\ bought'[t].status = "paid"
        PROVE  Goal
    <3>1. \A u \in Purchase : RowMoves(u)
      BY <2>1, <2>4
    <3>2. (\A u \in Purchase :
            /\ bought[u].status = "none"
                 => bought[u].prompt = "none" /\ ~ bought[u].known
            /\ bought[u].status = "paid"
                 => bought[u].prompt = "charged" /\ bought[u].known)'
      BY <2>4
    <3>3. ASSUME NEW d \in Errand, errand'[d].at \in Owning
          PROVE  d # c /\ errand'[d] = errand[d] /\ errand[d].for # t
      BY <2>2, <2>3, <2>4, <3>3
    <3>4. ASSUME NEW d \in Errand, errand'[d].at \in {"settle", "hook"}
          PROVE  /\ errand'[d].for \in Purchase /\ bought'[errand'[d].for].known
                 /\ bought'[errand'[d].for].prompt \in {"charged", "refused"}
                 /\ errand'[d].at = "hook" => bought'[errand'[d].for].status = "paid"
      <4>1. CASE d = c
        BY <2>1, <2>4, <3>4, <4>1
      <4>2. CASE d # c
        BY <2>1, <2>2, <2>4, <3>4, <4>2
      <4> QED  BY <4>1, <4>2
    <3>5. ASSUME NEW d \in Errand, errand'[d].at = "give_up"
          PROVE  errand'[d].for \in Purchase
      BY <2>2, <2>4, <3>5
    <3>6. ASSUME NEW d \in Errand, errand'[d].at \in Owning
          PROVE  /\ errand'[d].for \in Purchase
                 /\ ~ bought'[errand'[d].for].known
                 /\ bought'[errand'[d].for].status \in {"pending", "failed"}
                 /\ errand'[d].at = "push" => bought'[errand'[d].for].prompt = "none"
      BY <2>4, <3>3, <3>6
    <3>7. \A d, f \in Errand :
            errand'[d].at \in Owning /\ errand'[f].at \in Owning
              /\ errand'[d].for = errand'[f].for => d = f
      BY <3>3
    <3> QED  BY <3>1, <3>2, <3>4, <3>5, <3>6, <3>7
  <2>5. CASE bought[t].prompt = "charged"
    <3>1. Pay(t, "paid") /\ Sets(c, "hook", t)
      BY <1>10, <2>5 DEF PaidSettle
    <3>2. /\ \A u \in Purchase : u # t => bought'[u] = bought[u]
          /\ bought'[t].status = "paid" /\ bought'[t].known = bought[t].known
          /\ bought'[t].prompt = bought[t].prompt
      BY <2>1, <3>1, RowEffect
    <3>3. errand'[c].at = "hook" /\ errand'[c].for = t
      BY <3>1, PlaceEffect
    <3> QED  BY <2>1, <2>4, <2>5, <3>2, <3>3
  <2>6. CASE bought[t].prompt = "refused"
    <3>1. errand'[c].at = "idle"
      BY <1>10, <2>6, PlaceEffect DEF PaidSettle
    <3>2. CASE Pay(t, "failed") /\ bought[t].status = "pending"
      <4>1. /\ \A u \in Purchase : u # t => bought'[u] = bought[u]
            /\ bought'[t].status = "failed" /\ bought'[t].known = bought[t].known
            /\ bought'[t].prompt = bought[t].prompt
        BY <2>1, <3>2, RowEffect
      <4> QED  BY <2>1, <2>4, <2>6, <3>1, <3>2, <4>1
    <3>3. CASE UNCHANGED bought
      BY <1>1, <2>2, <3>1, <3>3
    <3> QED  BY <1>10, <2>6, <3>2, <3>3 DEF PaidSettle
  <2> QED  BY <1>10, <2>5, <2>6 DEF PaidSettle
<1>11. ASSUME NEW c \in Errand,
              OnPaymentSuccess(c) \/ CampaignStep(c) \/ ErrandAborts(c)
       PROVE  Goal
  <2>1. UNCHANGED bought
    BY <1>11, LoadsTyped DEF OnPaymentSuccess, CampaignStep, Loads, Transition,
       ErrandAborts
  <2>2. /\ \A d \in Errand : d # c => errand'[d] = errand[d]
        /\ errand'[c].at \in {"idle", "move"}
    BY <1>11, LoadsTyped, PlaceEffect DEF OnPaymentSuccess, CampaignStep, Loads,
       Transition, ErrandAborts
  <2> QED  BY <1>1, <2>1, <2>2
<1>12. ASSUME NEW t \in Purchase, PayerAnswers(t)  PROVE Goal
  <2>1. PICK a \in {"charged", "refused"} : Prompts(t, a)
    BY <1>12 DEF PayerAnswers, Prompts
  <2>2. /\ UNCHANGED errand /\ bought[t].prompt = "sent"
        /\ \A u \in Purchase : u # t => bought'[u] = bought[u]
        /\ bought'[t].status = bought[t].status
        /\ bought'[t].known = bought[t].known /\ bought'[t].prompt = a
    BY <1>12, <2>1, RowEffect DEF PayerAnswers
  <2> QED  BY <2>1, <2>2
<1>13. ASSUME NEW t \in Purchase, PromptStale(t)  PROVE Goal
  <2>1. /\ UNCHANGED errand
        /\ \A u \in Purchase : u # t => bought'[u] = bought[u]
        /\ bought'[t].status = bought[t].status
        /\ bought'[t].known = bought[t].known
        /\ bought'[t].prompt = bought[t].prompt
    BY <1>13, RowEffect DEF PromptStale
  <2> QED  BY <2>1
<1>14. CASE DayPasses \/ GrowsOld \/ UNCHANGED promoVars
  <2>1. UNCHANGED <<bought, errand>>
    BY <1>14 DEF DayPasses, GrowsOld, promoVars
  <2> QED  BY <2>1
<1> QED
  BY <1>2, <1>3, <1>4, <1>5, <1>6, <1>7, <1>8, <1>9, <1>10, <1>11, <1>12, <1>13,
     <1>14 DEF PromoNext, PaymentStep

\* A row that was paid stays paid.
LEMMA PaidStays ==
  ASSUME PromoTypeOK, RowInv, [PromoNext]_promoVars
  PROVE  Bought("paid") \subseteq Bought("paid")'
BY RowStep DEF RowMoves, Bought

\* Only a callback settles a row as paid.
LEMMA PaidBySettle ==
  ASSUME PromoTypeOK, RowInv, NEW c \in Errand, PaymentStep(c), ~ PaidSettle(c)
  PROVE  Bought("paid")' \subseteq Bought("paid")
<1> DEFINE t == errand[c].for
<1>0. errand[c].at \in Owning \cup {"give_up"} => t \in Purchase
  BY DEF RowInv, Doing
<1>1. CASE PayGiveUp(c) \/ PromoPushFailed(c)
  <2>1. t \in Purchase /\ (Pay(t, "failed") \/ UNCHANGED bought)
    BY <1>0, <1>1 DEF PayGiveUp, PromoPushFailed, Doing, Owning
  <2> QED  BY <2>1, RowEffect DEF Bought
<1>2. CASE PayInsert(c)
  <2>1. (\E u \in Purchase : Pay(u, "pending")) \/ UNCHANGED bought
    BY <1>2 DEF PayInsert, Bought
  <2> QED  BY <2>1, RowEffect DEF Bought
<1>3. CASE PromoPush(c)
  <2>1. t \in Purchase /\ (Prompts(t, "sent") \/ UNCHANGED bought)
    BY <1>0, <1>3 DEF PromoPush, Prompts, Doing, Owning
  <2> QED  BY <2>1, RowEffect DEF Bought
<1>4. CASE PromoStoreId(c)
  <2>1. t \in Purchase /\ (Knows(t) \/ UNCHANGED bought)
    BY <1>0, <1>4 DEF PromoStoreId, Knows, Doing, Owning
  <2> QED  BY <2>1, RowEffect DEF Bought
<1>5. CASE \/ PayRead(c) \/ PayPendingRead(c) \/ OnPaymentSuccess(c)
           \/ \E u \in Purchase : PaidRead(c, u)
  BY <1>5 DEF PayRead, PayPendingRead, OnPaymentSuccess, PaidRead, Bought
<1> QED  BY <1>1, <1>2, <1>3, <1>4, <1>5 DEF PaymentStep

LEMMA ProgressStep ==
  ASSUME PromoTypeOK, LegalInv, RowInv, ProgressInv, [PromoNext]_promoVars
  PROVE  ProgressInv'
<1> USE DEF Doing
<1>0. /\ Bought("paid") # {} => Bought("paid")' # {}
      /\ "half_done" \notin meetings' => "half_done" \notin meetings
  BY PaidStays, MeetingsGrow
<1>1. ASSUME UNCHANGED campaign, NEW c \in Errand,
             \A d \in Errand : d # c => errand'[d] = errand[d],
             Bought("paid")' \subseteq Bought("paid"),
             Progresses(c)' => Progresses(c),
             Progresses(c) => Progresses(c)' \/ "half_done" \in meetings'
                              \/ campaign.status # Unpaid
      PROVE  ProgressInv'
  <2>1. \A d \in Errand : d # c => (Progresses(d)' <=> Progresses(d))
    BY <1>1 DEF Progresses
  <2> QED  BY <1>0, <1>1, <2>1 DEF ProgressInv
<1>2. ASSUME NEW c \in Errand, PaidSettle(c)  PROVE ProgressInv'
  <2>0. /\ errand[c].at = "settle" /\ ~ Progresses(c) /\ UNCHANGED campaign
        /\ \A d \in Errand : d # c => errand'[d] = errand[d]
    BY <1>2, PlaceEffect DEF PaidSettle, Progresses, SameCampaign
  <2> DEFINE t == errand[c].for
  <2>1. CASE bought[t].prompt = "charged"
    <3>1. t \in Purchase /\ Pay(t, "paid") /\ Sets(c, "hook", t)
      BY <1>2, <2>1 DEF PaidSettle, RowInv
    <3>2. t \in Bought("paid")' /\ Progresses(c)'
      BY <3>1, RowEffect, PlaceEffect DEF Bought, Progresses
    <3> QED  BY <2>0, <3>2 DEF ProgressInv
  <2>2. CASE bought[t].prompt = "refused"
    <3>1. t \in Purchase /\ (Pay(t, "failed") \/ UNCHANGED bought) /\ Returns(c)
      BY <1>2, <2>2 DEF PaidSettle, RowInv
    <3>2. Bought("paid")' \subseteq Bought("paid") /\ ~ Progresses(c)'
      BY <3>1, RowEffect, PlaceEffect DEF Bought, Progresses
    <3> QED  BY <1>1, <2>0, <3>2
  <2> QED  BY <1>2, <2>1, <2>2 DEF PaidSettle
<1>3. ASSUME NEW c \in Errand, OnPaymentSuccess(c)  PROVE ProgressInv'
  <2>1. /\ UNCHANGED campaign /\ Bought("paid")' = Bought("paid")
        /\ Progresses(c)
        /\ \A d \in Errand : d # c => errand'[d] = errand[d]
    BY <1>3, PlaceEffect DEF OnPaymentSuccess, SameCampaign, Progresses, Bought
  <2>2. campaign.status = Unpaid => Progresses(c)'
    BY <1>3, PlaceEffect DEF OnPaymentSuccess, Progresses, Running
  <2> QED  BY <1>1, <2>1, <2>2
<1>4. ASSUME NEW c \in Errand, PaymentStep(c), ~ PaidSettle(c), ~ OnPaymentSuccess(c)
      PROVE  ProgressInv'
  <2>1. Undecided(c) /\ Bought("paid")' \subseteq Bought("paid")
    BY <1>4, PaymentUndecided, PaidBySettle
  <2>2. errand[c].at \notin {"hook", "move"}
    BY <1>4 DEF PaymentStep, PayRead, PayPendingRead, PayGiveUp, PayInsert,
       PromoPush, PromoPushFailed, PromoStoreId, PaidRead
  <2>3. errand'[c].at # "hook"
    <3>1. \/ Returns(c)
          \/ \E s \in {"settle"} \cup Paying : \E t : Sets(c, s, t)
      BY <1>4 DEF PaymentStep, PayRead, PayPendingRead, PayGiveUp, PayInsert,
         PromoPush, PromoPushFailed, PromoStoreId, PaidRead, Paying
    <3> QED  BY <3>1, PlaceEffect DEF Paying
  <2> QED  BY <1>1, <2>1, <2>2, <2>3 DEF Undecided, Progresses
<1>5. ASSUME NEW c \in Errand, CampaignStep(c), ~ Transition(c)
      PROVE  ProgressInv'
  <2>1. PICK to, date : Loads(c, to, date)
    BY <1>5, LoadsTyped
  <2>2. /\ UNCHANGED <<campaign, bought>> /\ errand[c].at = "idle"
        /\ errand'[c].at = "move" /\ errand'[c].from = campaign.status
        /\ errand'[c].to = to /\ <<campaign.status, to>> \in Legal
        /\ \A d \in Errand : d # c => errand'[d] = errand[d]
    BY <2>1, PlaceEffect DEF Loads, SameCampaign
  <2>3. ~ (campaign.status = Unpaid /\ to \in Running)
    <3>1. SUFFICES ASSUME campaign.status = Unpaid, to \in Running
                   PROVE  FALSE
      OBVIOUS
    <3>2. to \in {"pending_review", "active"}
      BY <2>2, <3>1 DEF Legal, Running, Unpaid
    <3>3. \E x : /\ x \notin {"pending_review", "active"}
                 /\ \E date2 : Loads(c, x, date2)
      BY <1>5, <3>1 DEF CampaignStep, Approve, Reject, Pause, Resume, Cancel,
         SweepOverdue, SweepUnpaid, Unpaid
    <3> QED  BY <2>2, <3>2, <3>3, PlaceEffect DEF Loads
  <2>4. ~ Progresses(c) /\ ~ Progresses(c)'
    BY <2>2, <2>3 DEF Progresses
  <2> QED  BY <1>1, <2>2, <2>4 DEF Bought
<1>6. ASSUME NEW c \in Errand, ErrandAborts(c)  PROVE ProgressInv'
  <2>1. /\ UNCHANGED <<campaign, bought>> /\ errand'[c].at = "idle"
        /\ \A d \in Errand : d # c => errand'[d] = errand[d]
    BY <1>6, PlaceEffect DEF ErrandAborts, SameCampaign
  <2>2. Progresses(c) => "half_done" \in meetings'
    BY <1>6 DEF ErrandAborts, Progresses
  <2> QED  BY <1>1, <2>1, <2>2 DEF Progresses, Bought
<1>7. ASSUME NEW c \in Errand, Transition(c)  PROVE ProgressInv'
  <2> DEFINE e == errand[c]
  <2>1. /\ UNCHANGED bought /\ errand[c].at = "move" /\ errand'[c].at = "idle"
        /\ \A d \in Errand : d # c => errand'[d] = errand[d]
        /\ UNCHANGED meetings /\ <<e.from, e.to>> \in Legal
    BY <1>7, PlaceEffect DEF Transition, LegalInv
  <2>2. Bought("paid")' = Bought("paid")
    BY <2>1 DEF Bought
  <2>3. \A d \in Errand : Progresses(d)' => d # c /\ Progresses(d)
    BY <2>1 DEF Progresses
  <2>4. \A d \in Errand : d # c /\ Progresses(d) => Progresses(d)'
    BY <2>1 DEF Progresses
  <2>5. CASE UNCHANGED campaign /\ campaign.status # e.from
    BY <2>1, <2>2, <2>3, <2>4, <2>5 DEF ProgressInv, Progresses
  <2>6. CASE campaign.status = e.from
    <3>1. campaign'.status = e.to
      BY <1>7, <2>6 DEF Transition, PromoTypeOK
    <3>2. e.to # Unpaid
      BY <2>1 DEF Legal, Unpaid
    <3>3. e.to \in Running => e.from = Unpaid \/ e.from \in Running
      BY <2>1 DEF Legal, Unpaid, Running
    <3>4. e.to \in Running => Bought("paid") # {}
      BY <2>1, <2>6, <3>3 DEF ProgressInv, Progresses
    <3> QED  BY <2>2, <2>3, <3>1, <3>2, <3>4 DEF ProgressInv
  <2> QED  BY <1>7, <2>5, <2>6 DEF Transition
<1>8. CASE \/ \E t \in Purchase : PayerAnswers(t) \/ PromptStale(t)
           \/ DayPasses \/ GrowsOld \/ UNCHANGED promoVars
  <2>1. UNCHANGED errand /\ campaign'.status = campaign.status
    BY <1>8 DEF PayerAnswers, PromptStale, SameCampaign, DayPasses, GrowsOld,
       promoVars, PromoTypeOK
  <2>2. \A u \in Purchase : bought'[u].status = bought[u].status
    <3>1. ASSUME NEW t \in Purchase, PayerAnswers(t) \/ PromptStale(t)
          PROVE  \A u \in Purchase : bought'[u].status = bought[u].status
      BY <3>1, RowEffect DEF PayerAnswers, Prompts
    <3>2. CASE DayPasses \/ GrowsOld \/ UNCHANGED promoVars
      BY <3>2 DEF DayPasses, GrowsOld, promoVars
    <3> QED  BY <1>8, <3>1, <3>2
  <2>3. Bought("paid")' = Bought("paid")
    BY <2>2 DEF Bought
  <2>4. \A d \in Errand : Progresses(d)' <=> Progresses(d)
    BY <2>1 DEF Progresses
  <2> QED  BY <1>0, <2>1, <2>3, <2>4 DEF ProgressInv
<1> QED
  BY <1>2, <1>3, <1>4, <1>5, <1>6, <1>7, <1>8 DEF PromoNext, CampaignStep

\* Nothing an unhurried run goes through brings a second prompt out.
LEMMA OnceStep ==
  ASSUME PromoTypeOK, RowInv, ProgressInv, OnceInv, [PromoNext]_promoVars
  PROVE  OnceInv'
<1> SUFFICES ASSUME meetings' \subseteq {"slow_date"}
             PROVE  OnceInv'
  BY DEF OnceInv
<1> USE DEF Doing
<1> DEFINE Asking(c) == errand[c].at \in Paying
<1>0. /\ meetings \subseteq {"slow_date"}
      /\ \A c, d \in Errand : Asking(c) /\ Asking(d) => c = d
      /\ \A c \in Errand :
           /\ errand[c].at # "give_up"
           /\ errand[c].at = "pending_read" => Bought("paid") = {}
           /\ errand[c].at = "push" => bought[errand[c].for].status = "pending"
           /\ errand[c].at \in {"insert", "push", "push_failed"} => Out = {}
      /\ \A t \in Out :
           \/ bought[t].status = "pending"
           \/ bought[t].status = "paid" /\ bought[t].prompt = "charged"
      /\ \A t, u \in Out : t = u
  BY MeetingsGrow DEF OnceInv
<1>1. ASSUME NEW c \in Errand,
             \A d \in Errand : d # c => errand'[d] = errand[d],
             Asking(c)' => Asking(c) \/ \A d \in Errand \ {c} : ~ Asking(d),
             errand'[c].at # "give_up",
             errand'[c].at = "pending_read" => Bought("paid")' = {},
             errand'[c].at = "push" => bought'[errand'[c].for].status = "pending",
             errand'[c].at \in {"insert", "push", "push_failed"} => Out' = {},
             \A d \in Errand : d # c =>
               /\ errand[d].at = "pending_read" => Bought("paid")' = {}
               /\ errand[d].at = "push" => bought'[errand[d].for].status = "pending"
               /\ errand[d].at \in {"insert", "push", "push_failed"} => Out' = {},
             \A t \in Out' :
               \/ bought'[t].status = "pending"
               \/ bought'[t].status = "paid" /\ bought'[t].prompt = "charged",
             \A t, u \in Out' : t = u
      PROVE  OnceInv'
  <2>1. \A d, f \in Errand : Asking(d)' /\ Asking(f)' => d = f
    BY <1>0, <1>1
  <2>2. \A d \in Errand :
          /\ errand'[d].at # "give_up"
          /\ errand'[d].at = "pending_read" => Bought("paid")' = {}
          /\ errand'[d].at = "push" => bought'[errand'[d].for].status = "pending"
          /\ errand'[d].at \in {"insert", "push", "push_failed"} => Out' = {}
    BY <1>0, <1>1
  <2> QED  BY <1>1, <2>1, <2>2 DEF OnceInv
<1>2. ASSUME NEW c \in Errand, UNCHANGED bought,
             \A d \in Errand : d # c => errand'[d] = errand[d],
             errand'[c].at \notin Paying
      PROVE  OnceInv'
  <2>1. Bought("paid")' = Bought("paid") /\ Out' = Out
    BY <1>2 DEF Bought, Out
  <2> QED  BY <1>0, <1>1, <1>2, <2>1 DEF Paying
<1>3. ASSUME NEW c \in Errand, PayRead(c)  PROVE OnceInv'
  <2>1. /\ UNCHANGED bought /\ errand'[c].at = "pending_read"
        /\ errand[c].at = "idle" /\ campaign.status = Unpaid
        /\ \A d \in Errand : d # c => errand'[d] = errand[d]
        /\ \A d \in Errand \ {c} : errand[d].at \notin Paying \cup {"hook", "move"}
    BY <1>3, PlaceEffect DEF PayRead, Others
  <2>2. Bought("paid") = {}
    <3>1. \A d \in Errand : ~ Progresses(d)
      BY <2>1 DEF Progresses
    <3> QED  BY <1>0, <2>1, <3>1 DEF ProgressInv
  <2>3. Bought("paid")' = {} /\ Out' = Out
    BY <2>1, <2>2 DEF Bought, Out
  <2> QED  BY <1>0, <1>1, <2>1, <2>3 DEF Paying
<1>4. ASSUME NEW c \in Errand, PayPendingRead(c)  PROVE OnceInv'
  <2>1. CASE Returns(c)
    BY <1>2, <1>4, <2>1, PlaceEffect DEF PayPendingRead, Paying
  <2>2. CASE Bought("pending") = {} /\ Sets(c, "insert", 0)
    <3>1. /\ UNCHANGED bought /\ errand[c].at = "pending_read"
          /\ errand'[c].at = "insert"
          /\ \A d \in Errand : d # c => errand'[d] = errand[d]
      BY <1>4, <2>2, PlaceEffect DEF PayPendingRead
    <3>2. Out = {}
      BY <1>0, <2>2, <3>1 DEF Bought, Out
    <3>3. Out' = {} /\ Bought("paid")' = Bought("paid")
      BY <3>1, <3>2 DEF Out, Bought
    <3>4. \A d \in Errand : d # c => errand[d].at \notin Paying
      BY <1>0, <3>1 DEF Paying
    <3> QED  BY <1>1, <3>1, <3>3, <3>4 DEF Paying
  <2>3. "gave_up" \notin meetings' /\ "blind_read" \notin meetings'
    OBVIOUS
  <2> QED  BY <1>4, <2>1, <2>2, <2>3 DEF PayPendingRead, Meets
<1>5. ASSUME NEW c \in Errand, PayGiveUp(c)  PROVE OnceInv'
  BY <1>0, <1>5 DEF PayGiveUp
<1>6. ASSUME NEW c \in Errand, PayInsert(c)  PROVE OnceInv'
  <2>1. CASE Returns(c) /\ UNCHANGED bought
    BY <1>2, <2>1, PlaceEffect DEF Paying
  <2>2. ASSUME NEW t \in Bought("none"), Pay(t, "pending"), Sets(c, "push", t)
        PROVE  OnceInv'
    <3>1. /\ t \in Purchase /\ Out = {} /\ bought[t].prompt = "none"
          /\ \A d \in Errand : d # c => errand[d].at \notin Paying
      BY <1>0, <1>6 DEF PayInsert, Bought, RowInv, Paying
    <3>2. /\ \A u \in Purchase : u # t => bought'[u] = bought[u]
          /\ bought'[t].status = "pending" /\ bought'[t].prompt = "none"
      BY <2>2, <3>1, RowEffect
    <3>3. /\ errand'[c].at = "push" /\ errand'[c].for = t
          /\ \A d \in Errand : d # c => errand'[d] = errand[d]
      BY <2>2, PlaceEffect
    <3>4. Out' = {}
      BY <3>1, <3>2 DEF Out
    <3> QED  BY <1>1, <3>1, <3>2, <3>3, <3>4 DEF Paying
  <2> QED  BY <1>6, <2>1, <2>2 DEF PayInsert
<1>7. ASSUME NEW c \in Errand, PromoPush(c)  PROVE OnceInv'
  <2> DEFINE t == errand[c].for
  <2>1. /\ t \in Purchase /\ Out = {} /\ bought[t].status = "pending"
        /\ \A d \in Errand : d # c => errand[d].at \notin Paying
    <3>1. errand[c].at = "push"
      BY <1>7 DEF PromoPush
    <3> QED  BY <1>0, <3>1 DEF RowInv, Owning, Paying
  <2>2. CASE Prompts(t, "sent") /\ Sets(c, "store", t)
    <3>1. /\ \A u \in Purchase : u # t => bought'[u] = bought[u]
          /\ bought'[t].status = "pending"
      BY <2>1, <2>2, RowEffect
    <3>2. /\ errand'[c].at = "store"
          /\ \A d \in Errand : d # c => errand'[d] = errand[d]
      BY <2>2, PlaceEffect
    <3>3. Out' \subseteq {t}
      BY <2>1, <3>1 DEF Out
    <3> QED  BY <1>1, <2>1, <3>1, <3>2, <3>3 DEF Paying
  <2>3. CASE UNCHANGED bought /\ Sets(c, "push_failed", t)
    <3>1. /\ errand'[c].at = "push_failed"
          /\ \A d \in Errand : d # c => errand'[d] = errand[d]
      BY <2>3, PlaceEffect
    <3>2. Out' = {}
      BY <2>1, <2>3 DEF Out
    <3> QED  BY <1>1, <2>1, <3>1, <3>2 DEF Paying
  <2>4. "unanswered" \notin meetings'
    OBVIOUS
  <2> QED  BY <1>7, <2>2, <2>3, <2>4 DEF PromoPush, Prompts, Meets
<1>8. ASSUME NEW c \in Errand, PromoPushFailed(c)  PROVE OnceInv'
  <2> DEFINE t == errand[c].for
  <2>1. /\ errand[c].at = "push_failed" /\ errand'[c].at = "idle"
        /\ \A d \in Errand : d # c => errand'[d] = errand[d]
    BY <1>8, PlaceEffect DEF PromoPushFailed
  <2>2. /\ t \in Purchase /\ Out = {}
        /\ \A d \in Errand : d # c => errand[d].at \notin Paying
    BY <1>0, <2>1 DEF RowInv, Owning, Paying
  <2>3. CASE Pay(t, "failed")
    <3>1. /\ \A u \in Purchase : u # t => bought'[u] = bought[u]
          /\ bought'[t].prompt = bought[t].prompt
      BY <2>2, <2>3, RowEffect
    <3>2. Out' = {}
      BY <2>2, <3>1 DEF Out
    <3> QED  BY <1>1, <2>1, <2>2, <3>2 DEF Paying
  <2>4. CASE UNCHANGED bought
    BY <1>2, <2>1, <2>4 DEF Paying
  <2> QED  BY <1>8, <2>3, <2>4 DEF PromoPushFailed
<1>9. ASSUME NEW c \in Errand, PromoStoreId(c)  PROVE OnceInv'
  <2> DEFINE t == errand[c].for
  <2>1. /\ errand[c].at = "store" /\ errand'[c].at = "idle"
        /\ \A d \in Errand : d # c => errand'[d] = errand[d]
    BY <1>9, PlaceEffect DEF PromoStoreId
  <2>2. t \in Purchase /\ \A d \in Errand : d # c => errand[d].at \notin Paying
    BY <1>0, <2>1 DEF RowInv, Owning, Paying
  <2>3. CASE Knows(t)
    <3>1. /\ \A u \in Purchase : u # t => bought'[u] = bought[u]
          /\ bought'[t].status = bought[t].status
          /\ bought'[t].prompt = bought[t].prompt
      BY <2>2, <2>3, RowEffect
    <3>2. /\ Out' = Out
          /\ \A u \in Out : /\ bought'[u].status = bought[u].status
                            /\ bought'[u].prompt = bought[u].prompt
      BY <3>1 DEF Out
    <3> QED  BY <1>0, <1>1, <2>1, <2>2, <3>2 DEF Paying
  <2>4. CASE UNCHANGED bought
    BY <1>2, <2>1, <2>4 DEF Paying
  <2> QED  BY <1>9, <2>3, <2>4 DEF PromoStoreId, Knows
<1>10. ASSUME NEW c \in Errand, NEW t \in Purchase, PaidRead(c, t)
       PROVE  OnceInv'
  BY <1>2, <1>10, PlaceEffect DEF PaidRead, Paying
<1>11. ASSUME NEW c \in Errand, PaidSettle(c)  PROVE OnceInv'
  <2> DEFINE t == errand[c].for
  <2>1. /\ errand[c].at = "settle" /\ t \in Purchase /\ bought[t].known
        /\ \A d \in Errand : d # c => errand'[d] = errand[d]
    BY <1>11, PlaceEffect DEF PaidSettle, RowInv
  <2>2. \A d \in Errand : errand[d].at = "push"
                         => errand[d].for \in Purchase \ {t}
    BY <2>1 DEF RowInv, Owning
  <2>3. CASE bought[t].prompt = "charged"
    <3>1. /\ Pay(t, "paid") /\ Sets(c, "hook", t)
          /\ \A d \in Errand \ {c} : errand[d].at # "pending_read"
      BY <1>11, <2>3 DEF PaidSettle, Meets, Others
    <3>2. /\ \A u \in Purchase : u # t => bought'[u] = bought[u]
          /\ bought'[t].status = "paid" /\ bought'[t].prompt = "charged"
      BY <2>1, <2>3, <3>1, RowEffect
    <3>3. t \in Out /\ Out' = Out /\ errand'[c].at = "hook"
      BY <2>1, <2>3, <3>1, <3>2, PlaceEffect DEF Out
    <3>4. \A u \in Out' : \/ bought'[u].status = "pending"
                          \/ bought'[u].status = "paid" /\ bought'[u].prompt = "charged"
      BY <1>0, <3>2, <3>3 DEF Out
    <3> QED  BY <1>0, <1>1, <2>1, <2>2, <3>1, <3>2, <3>3, <3>4 DEF Paying
  <2>4. CASE bought[t].prompt = "refused"
    <3>1. /\ errand'[c].at = "idle"
          /\ (Pay(t, "failed") \/ UNCHANGED bought)
      BY <1>11, <2>4, PlaceEffect DEF PaidSettle
    <3>2. CASE Pay(t, "failed")
      <4>1. /\ \A u \in Purchase : u # t => bought'[u] = bought[u]
            /\ bought'[t].status = "failed" /\ bought'[t].prompt = "refused"
        BY <2>1, <2>4, <3>2, RowEffect
      <4>2. Out' = Out /\ t \notin Out /\ Bought("paid")' \subseteq Bought("paid")
        BY <2>4, <4>1 DEF Out, Bought
      <4>3. \A u \in Out' : bought'[u] = bought[u] /\ u \in Out
        BY <4>1, <4>2 DEF Out
      <4> QED  BY <1>0, <1>1, <2>1, <2>2, <3>1, <4>1, <4>2, <4>3 DEF Paying
    <3>3. CASE UNCHANGED bought
      BY <1>2, <2>1, <3>1, <3>3 DEF Paying
    <3> QED  BY <3>1, <3>2, <3>3
  <2> QED  BY <1>11, <2>3, <2>4 DEF PaidSettle
<1>12. ASSUME NEW c \in Errand,
              OnPaymentSuccess(c) \/ CampaignStep(c) \/ ErrandAborts(c)
       PROVE  OnceInv'
  <2>1. UNCHANGED bought
    BY <1>12, LoadsTyped DEF OnPaymentSuccess, CampaignStep, Loads, Transition,
       ErrandAborts
  <2>2. /\ \A d \in Errand : d # c => errand'[d] = errand[d]
        /\ errand'[c].at \in {"idle", "move"}
    BY <1>12, LoadsTyped, PlaceEffect DEF OnPaymentSuccess, CampaignStep, Loads,
       Transition, ErrandAborts
  <2> QED  BY <1>2, <2>1, <2>2 DEF Paying
<1>13. ASSUME UNCHANGED errand, Out' \subseteq Out,
              \A u \in Purchase : bought'[u].status = bought[u].status,
              \A u \in Out' : bought[u].prompt = "charged" => bought'[u].prompt = "charged"
       PROVE  OnceInv'
  <2>1. Bought("paid")' = Bought("paid") /\ Out \subseteq Purchase
    BY <1>13 DEF Bought, Out
  <2>2. \A c \in Errand : errand[c].at = "push" => errand[c].for \in Purchase
    BY DEF RowInv, Owning
  <2> QED  BY <1>0, <1>13, <2>1, <2>2 DEF OnceInv
<1>14. ASSUME NEW t \in Purchase, PayerAnswers(t)  PROVE OnceInv'
  <2>1. PICK a \in {"charged", "refused"} : Prompts(t, a)
    BY <1>14 DEF PayerAnswers, Prompts
  <2>2. /\ UNCHANGED errand /\ bought[t].prompt = "sent"
        /\ \A u \in Purchase : u # t => bought'[u] = bought[u]
        /\ bought'[t].status = bought[t].status /\ bought'[t].prompt = a
    BY <1>14, <2>1, RowEffect DEF PayerAnswers
  <2>3. Out' \subseteq Out
    BY <2>2 DEF Out
  <2> QED  BY <1>13, <2>2, <2>3 DEF Out
<1>15. ASSUME NEW t \in Purchase, PromptStale(t)  PROVE OnceInv'
  <2>1. /\ UNCHANGED errand
        /\ \A u \in Purchase : /\ bought'[u].status = bought[u].status
                                /\ bought'[u].prompt = bought[u].prompt
    BY <1>15, RowEffect DEF PromptStale
  <2> QED  BY <1>13, <2>1 DEF Out
<1>16. CASE DayPasses \/ GrowsOld \/ UNCHANGED promoVars
  BY <1>13, <1>16 DEF DayPasses, GrowsOld, promoVars, Out
<1> QED
  BY <1>3, <1>4, <1>5, <1>6, <1>7, <1>8, <1>9, <1>10, <1>11, <1>12, <1>14, <1>15,
     <1>16 DEF PromoNext, PaymentStep

\* The money is taken once, and for the campaign that runs on it, unless a race
\* that is named took place.
THEOREM PaidForOnceCorrect == PromoSpec => []PaidForOnce
<1>1. PromoInit => LegalInv /\ RowInv /\ ProgressInv /\ OnceInv
  BY DEF PromoInit, LegalInv, RowInv, ProgressInv, OnceInv, Progresses, Bought, Out,
     Doing, NoErrand, NoPurchase, Owning, Paying, Running, Unpaid
<1>2. PromoTypeOK /\ LegalInv /\ RowInv /\ ProgressInv /\ OnceInv
        /\ [PromoNext]_promoVars
      => LegalInv' /\ RowInv' /\ ProgressInv' /\ OnceInv'
  BY LegalStep, RowStep, ProgressStep, OnceStep
<1>3. RowInv /\ ProgressInv /\ OnceInv => PaidForOnce
  <2> SUFFICES ASSUME RowInv, ProgressInv, OnceInv
               PROVE  PaidForOnce
    OBVIOUS
  <2>1. ASSUME meetings \subseteq {"slow_date"}
        PROVE  Cardinality(Charged) <= 1
    <3>1. \A t, u \in Charged : t = u
      BY <2>1 DEF OnceInv, Charged, Out
    <3>2. CASE Charged = {}
      BY <3>2, FS_EmptySet
    <3>3. ASSUME NEW t \in Charged
          PROVE  Cardinality(Charged) = 1
      <4>1. Charged = {t}
        BY <3>1
      <4> QED  BY <4>1, FS_Singleton
    <3> QED  BY <3>2, <3>3
  <2>2. Bought("paid") \subseteq Charged
    BY DEF RowInv, Bought, Charged
  <2>3. campaign.status \in Running => Bought("paid") # {}
    BY DEF ProgressInv
  <2>4. "half_done" \notin meetings /\ (\A c \in Errand : Doing(c, "idle"))
          /\ Bought("paid") # {}
        => campaign.status # Unpaid
    BY DEF ProgressInv, Progresses, Doing
  <2> QED  BY <2>1, <2>2, <2>3, <2>4 DEF PaidForOnce
<1> QED  BY <1>1, <1>2, <1>3, PromoTypeCorrect, PTL DEF PromoSpec
=============================================================================
