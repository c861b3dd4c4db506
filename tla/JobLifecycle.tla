---------------------------- MODULE JobLifecycle ----------------------------
(***************************************************************************)
(* One post from the choice of a provider to the review of the work:       *)
(* selectProvider, markComplete, approve and archivePost of                *)
(* backend/src/jobs/jobs.service.ts and createReview of reviews.service.ts.*)
(* What payments, disputes and moderation write to the same rows comes     *)
(* from their own services and is summarised here.                         *)
(*                                                                         *)
(* No handler locks the post: a write goes by its id, whatever became of   *)
(* it since the read.  A call's steps are its writes and the reads between *)
(* them; reads that follow one another are one step where no other handler *)
(* tells them apart.                                                       *)
(***************************************************************************)
EXTENDS Naturals, FiniteSets

CONSTANTS
  Provider,  \* users who applied to the post (unique per post and applicant)
  JobCall,   \* requests in flight
  MaxRows,   \* bound on the rows markComplete may insert
  Nobody     \* SQL NULL

ASSUME RowBound == MaxRows \in Nat
ASSUME NobodyIsNull == Nobody \notin Provider

Completion == 1..MaxRows

VARIABLES
  jobStatus,   \* posts.status
  provider,    \* posts.selected_provider_id
  archivedBy,  \* posts.archived_by
  funds,       \* status of the post's transaction
  rows,        \* job_completions: status and provider of each row
  dispute,     \* "none", "open" or "resolved"
  payee,       \* who the post's payout was sent to
  review,      \* the provider the post's review is about
  approvals,   \* job.approved was emitted
  request,     \* each call: where it is, and the provider or row it holds
  crossings    \* history: the races the run has gone through

jobRow  == <<jobStatus, provider, archivedBy>>
jobVars == <<jobRow, funds, rows, dispute, payee, review, approvals, request,
             crossings>>

JobStatus == {"open", "assigned", "completed", "disputed", "cancelled"}
Funds     == {"none", "paid", "payout_pending", "released", "disputed",
              "refunded"}
Unsettled == {"paid", "payout_pending", "disputed"}
RowStatus == {"none", "pending_approval", "approved", "disputed"}

JobPlace == {"idle", "select", "mark", "insert", "approve", "close", "archive",
             "cancel", "freeze", "freeze_post", "freeze_rows", "open_case",
             "review_gate", "review"}
\* Places from which a call will write what it read as allowed.
Committed == {"select", "mark", "insert", "approve", "close", "archive",
              "cancel"}
Freezing  == {"freeze", "freeze_post", "freeze_rows", "open_case"}

(* The races:                                                              *)
(*   two_choices   two selections of a provider were in flight             *)
(*   late_mark     a completion was reported while one was being approved  *)
(*   half_done     an approval or a freeze died between two of its writes  *)
(*   late_archive  a payment arrived while the post was being archived     *)
(*   under_freeze  another request met a dispute while it froze the job    *)
Crossing == {"two_choices", "late_mark", "half_done", "late_archive",
             "under_freeze"}

JobTypeOK ==
  /\ jobStatus \in JobStatus
  /\ provider \in Provider \cup {Nobody}
  /\ archivedBy \in {"nobody", "author", "moderation"}
  /\ funds \in Funds
  /\ rows \in [Completion -> [status : RowStatus, by : Provider \cup {Nobody}]]
  /\ dispute \in {"none", "open", "resolved"}
  /\ payee \in Provider \cup {Nobody}
  /\ review \in Provider \cup {Nobody}
  /\ approvals \in BOOLEAN
  /\ request \in [JobCall -> [at : JobPlace,
                              about : Provider \cup Completion \cup {Nobody}]]
  /\ crossings \subseteq Crossing

Resting == [at |-> "idle", about |-> Nobody]

JobInit ==
  /\ jobStatus = "open" /\ provider = Nobody /\ archivedBy = "nobody"
  /\ funds = "none"
  /\ rows = [k \in Completion |-> [status |-> "none", by |-> Nobody]]
  /\ dispute = "none" /\ payee = Nobody /\ review = Nobody
  /\ approvals = FALSE
  /\ request = [c \in JobCall |-> Resting]
  /\ crossings = {}

-----------------------------------------------------------------------------
(* Helpers.                                                                *)

Starts(c, place, x) ==
  /\ request[c].at = "idle"
  /\ request' = [request EXCEPT ![c] = [at |-> place, about |-> x]]
Moves(c, from, place) ==
  /\ request[c].at = from
  /\ request' = [request EXCEPT ![c] = [@ EXCEPT !.at = place]]
Ends(c, from) ==
  /\ request[c].at = from
  /\ request' = [request EXCEPT ![c] = Resting]

InFlight(places, c) == \E d \in JobCall \ {c} : request[d].at \in places

Crosses(cond, w) == crossings' = crossings \cup IF cond THEN {w} ELSE {}

RowsIn(s) == {k \in Completion : rows[k].status = s}

\* Every pending row, or every disputed one, gets another status.
RowsBecome(s, t) ==
  rows' = [k \in Completion |->
             IF rows[k].status = s THEN [rows[k] EXCEPT !.status = t]
             ELSE rows[k]]

-----------------------------------------------------------------------------
(* selectProvider.                                                         *)

\* Mutant: the post need not be open any more.
SelectReadAny(c, p) ==
  /\ archivedBy # "moderation"
  /\ Starts(c, "select", p)
  /\ Crosses(InFlight({"select"}, c), "two_choices")
  /\ UNCHANGED <<jobRow, funds, rows, dispute, payee, review, approvals>>

SelectRead(c, p) ==
  /\ jobStatus = "open" /\ archivedBy # "moderation"
  /\ Starts(c, "select", p)
  /\ Crosses(InFlight({"select"}, c), "two_choices")
  /\ UNCHANGED <<jobRow, funds, rows, dispute, payee, review, approvals>>

SelectWrite(c) ==
  /\ Ends(c, "select")
  /\ jobStatus' = "assigned" /\ provider' = request[c].about
  /\ UNCHANGED <<archivedBy, funds, rows, dispute, payee, review, approvals,
                 crossings>>

-----------------------------------------------------------------------------
(* markComplete, by the selected provider on a paid job.                   *)

\* Mutant: a completed or disputed post is not refused.
MarkReadAny(c) ==
  /\ provider # Nobody
  /\ Starts(c, "mark", provider)
  /\ crossings' = crossings
       \cup (IF InFlight(Freezing, c) THEN {"under_freeze"} ELSE {})
       \cup (IF InFlight({"approve", "close"}, c) THEN {"late_mark"} ELSE {})
  /\ UNCHANGED <<jobRow, funds, rows, dispute, payee, review, approvals>>

MarkRead(c) ==
  /\ provider # Nobody
  /\ jobStatus \notin {"completed", "disputed"}
  /\ Starts(c, "mark", provider)
  /\ crossings' = crossings
       \cup (IF InFlight(Freezing, c) THEN {"under_freeze"} ELSE {})
       \cup (IF InFlight({"approve", "close"}, c) THEN {"late_mark"} ELSE {})
  /\ UNCHANGED <<jobRow, funds, rows, dispute, payee, review, approvals>>

MarkCheck(c) ==
  /\ \/ /\ funds = "paid" /\ RowsIn("pending_approval") = {}
        /\ Moves(c, "mark", "insert")
     \/ /\ ~ (funds = "paid" /\ RowsIn("pending_approval") = {})
        /\ Ends(c, "mark")
  /\ UNCHANGED <<jobRow, funds, rows, dispute, payee, review, approvals,
                 crossings>>

\* uq_job_completions_post_pending refuses a second pending row; the rows are
\* filled in order.
MarkInsert(c) ==
  /\ Ends(c, "insert")
  /\ IF RowsIn("pending_approval") = {}
     THEN \E k \in RowsIn("none") :
            /\ k - 1 \notin RowsIn("none")
            /\ rows' = [rows EXCEPT ![k] = [status |-> "pending_approval",
                                            by |-> request[c].about]]
     ELSE UNCHANGED rows
  /\ UNCHANGED <<jobRow, funds, dispute, payee, review, approvals, crossings>>

-----------------------------------------------------------------------------
(* approve: the pending completion, then the post, each by id; then        *)
(* job.approved, which makes the processor call releasePayout.             *)

ApproveRead(c) ==
  /\ \E k \in RowsIn("pending_approval") : Starts(c, "approve", k)
  /\ crossings' = crossings
       \cup (IF InFlight(Freezing, c) THEN {"under_freeze"} ELSE {})
       \cup (IF InFlight({"mark", "insert"}, c) THEN {"late_mark"} ELSE {})
  /\ UNCHANGED <<jobRow, funds, rows, dispute, payee, review, approvals>>

ApproveRow(c) ==
  /\ Moves(c, "approve", "close")
  /\ rows' = [rows EXCEPT ![request[c].about] = [@ EXCEPT !.status = "approved"]]
  /\ UNCHANGED <<jobRow, funds, dispute, payee, review, approvals, crossings>>

ApproveClose(c) ==
  /\ Ends(c, "close")
  /\ jobStatus' = "completed" /\ approvals' = TRUE
  /\ UNCHANGED <<provider, archivedBy, funds, rows, dispute, payee, review,
                 crossings>>

-----------------------------------------------------------------------------
(* archivePost: refused on an active dispute or held funds; a job that was *)
(* only assigned is cancelled with it.                                     *)

ArchiveRead(c) ==
  /\ archivedBy = "nobody"
  /\ Starts(c, IF jobStatus = "assigned" THEN "cancel" ELSE "archive", Nobody)
  /\ dispute # "open" /\ funds \notin {"paid", "payout_pending"}
  /\ Crosses(InFlight(Freezing, c), "under_freeze")
  /\ UNCHANGED <<jobRow, funds, rows, dispute, payee, review, approvals>>

ArchiveWrite(c) ==
  /\ \/ Ends(c, "archive") /\ UNCHANGED jobStatus
     \/ Ends(c, "cancel") /\ jobStatus' = "cancelled"
  /\ archivedBy' = "author"
  /\ UNCHANGED <<provider, funds, rows, dispute, payee, review, approvals,
                 crossings>>

-----------------------------------------------------------------------------
(* createDispute, as it touches the job (freezeForDispute, in either order)*)
(* and the ruling that ends the dispute (DisputeCase has its steps).       *)

DisputeRead(c) ==
  /\ provider # Nobody
  /\ dispute # "open" /\ funds \in Unsettled
  /\ Starts(c, "freeze", Nobody)
  /\ Crosses(InFlight(Committed, c) \/ InFlight(Freezing, c), "under_freeze")
  /\ UNCHANGED <<jobRow, funds, rows, dispute, payee, review, approvals>>

\* Mutant: the pending completion is left to be approved.
FreezePostOnly(c) ==
  /\ \/ Moves(c, "freeze", "open_case") \/ Moves(c, "freeze_post", "open_case")
  /\ jobStatus' = "disputed" /\ funds' = "disputed"
  /\ UNCHANGED <<provider, archivedBy, rows, dispute, payee, review, approvals,
                 crossings>>

FreezePost(c) ==
  /\ \/ Moves(c, "freeze", "freeze_rows") \/ Moves(c, "freeze_post", "open_case")
  /\ jobStatus' = "disputed" /\ funds' = "disputed"
  /\ UNCHANGED <<provider, archivedBy, rows, dispute, payee, review, approvals,
                 crossings>>

FreezeRows(c) ==
  /\ \/ Moves(c, "freeze", "freeze_post") \/ Moves(c, "freeze_rows", "open_case")
  /\ RowsBecome("pending_approval", "disputed")
  /\ UNCHANGED <<jobRow, funds, dispute, payee, review, approvals, crossings>>

InsertCase(c) ==
  /\ Ends(c, "open_case")
  /\ dispute' = "open"
  /\ UNCHANGED <<jobRow, funds, rows, payee, review, approvals, crossings>>

RulingEnds ==
  /\ dispute = "open" /\ dispute' = "resolved"
  /\ jobStatus' = "completed"
  /\ \/ /\ funds \in {"paid", "disputed"}
        /\ funds' = "payout_pending" /\ payee' = provider
        /\ RowsBecome("disputed", "approved")
     \/ /\ funds \notin {"released", "refunded"}
        /\ funds' = "refunded" /\ UNCHANGED <<payee, rows>>
  /\ UNCHANGED <<provider, archivedBy, review, approvals, request, crossings>>

-----------------------------------------------------------------------------
(* createReview: the gate reads the post and its disputes, then the        *)
(* completion and the payment; UNIQUE (post_id) decides a race.            *)

ReviewRead(c) ==
  /\ provider # Nobody /\ review = Nobody
  /\ jobStatus = "completed" /\ dispute # "open"
  /\ Starts(c, "review_gate", provider)
  /\ UNCHANGED <<jobRow, funds, rows, dispute, payee, review, approvals,
                 crossings>>

ReviewGate(c) ==
  /\ IF /\ Cardinality(RowsIn("approved")) = 1
        /\ funds \in {"paid", "payout_pending", "released"}
     THEN Moves(c, "review_gate", "review") ELSE Ends(c, "review_gate")
  /\ UNCHANGED <<jobRow, funds, rows, dispute, payee, review, approvals,
                 crossings>>

ReviewInsert(c) ==
  /\ Ends(c, "review")
  /\ review' = IF review = Nobody THEN request[c].about ELSE review
  /\ UNCHANGED <<jobRow, funds, rows, dispute, payee, approvals, crossings>>

-----------------------------------------------------------------------------
(* Other services: a payment, the payout of an approved job and its        *)
(* outcome, and moderation hiding and restoring the listing.               *)

PaymentArrives ==
  /\ provider # Nobody /\ funds = "none"
  /\ funds' = "paid"
  /\ Crosses(\E c \in JobCall : request[c].at \in {"archive", "cancel"},
             "late_archive")
  /\ UNCHANGED <<jobRow, rows, dispute, payee, review, approvals, request>>

ApprovedPayout ==
  /\ approvals /\ funds = "paid"
  /\ funds' = "payout_pending" /\ payee' = provider
  /\ UNCHANGED <<jobRow, rows, dispute, review, approvals, request, crossings>>

ApprovedPayoutEnds ==
  /\ funds = "payout_pending"
  /\ funds' \in {"released", "paid"}
  /\ UNCHANGED <<jobRow, rows, dispute, payee, review, approvals, request,
                 crossings>>

Moderation ==
  /\ \/ /\ archivedBy = "nobody" /\ jobStatus = "open"
        /\ archivedBy' = "moderation"
     \/ archivedBy = "moderation" /\ archivedBy' = "nobody"
  /\ UNCHANGED <<jobStatus, provider, funds, rows, dispute, payee, review,
                 approvals, request, crossings>>

JobAbort(c) ==
  /\ request[c].at # "idle"
  /\ request' = [request EXCEPT ![c] = Resting]
  /\ Crosses(request[c].at \in {"close", "freeze_post", "freeze_rows", "open_case"},
             "half_done")
  /\ UNCHANGED <<jobRow, funds, rows, dispute, payee, review, approvals>>

JobStep(c) ==
  \/ \E p \in Provider : SelectRead(c, p)
  \/ SelectWrite(c) \/ MarkRead(c) \/ MarkCheck(c) \/ MarkInsert(c)
  \/ ApproveRead(c) \/ ApproveRow(c) \/ ApproveClose(c)
  \/ ArchiveRead(c) \/ ArchiveWrite(c)
  \/ DisputeRead(c) \/ FreezePost(c) \/ FreezeRows(c) \/ InsertCase(c)
  \/ ReviewRead(c) \/ ReviewGate(c) \/ ReviewInsert(c) \/ JobAbort(c)

JobNext ==
  \/ \E c \in JobCall : JobStep(c)
  \/ RulingEnds \/ PaymentArrives \/ ApprovedPayout \/ ApprovedPayoutEnds
  \/ Moderation

JobSpec == JobInit /\ [][JobNext]_jobVars

-----------------------------------------------------------------------------
(* Properties.                                                             *)

\* Unless two selections of a provider overlapped, the provider who reported
\* the work is the one who is selected, paid and reviewed, whatever disputes,
\* payouts, retries and archives came in between.
OneProviderThroughout ==
  "two_choices" \notin crossings =>
    /\ \A k \in Completion : rows[k].status # "none" => rows[k].by = provider
    /\ payee \in {Nobody, provider}
    /\ review \in {Nobody, provider}

\* Unless a second completion request was on its way, a job's work is approved
\* once: its one job.approved event is all that asks for a payout.
ApprovedOnce ==
  crossings = {}
    => Cardinality(RowsIn("approved")) <= 1

\* "The 'disputed' state has exactly one authoritative writer": while a
\* dispute is open, unless a request was in flight when the job was frozen,
\* the post says so and no completion waits for an approval that would
\* release the money.
DisputeHoldsJob ==
  dispute = "open" /\ crossings = {}
    => jobStatus = "disputed" /\ RowsIn("pending_approval") = {}
=============================================================================
