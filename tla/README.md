# Help24 in TLA+: the money, and what guards it

Help24 is a job marketplace. A client posts a job, selects a provider and pays
through M-Pesa; the money is held in escrow, and when the client approves the
work (or an admin rules on a dispute) it is paid out to the provider or refunded.
The backend (`src/backend`, NestJS) keeps all state in Supabase/PostgreSQL and
talks to Safaricom's Daraja API, whose answers come back as HTTP callbacks.

What makes this hard is that in the NestJS handlers *no row is locked between a
handler's read and its write*: they are `async` functions, every `await` lets any
other request, callback, retry tick or process run, and the writes are plain
`UPDATE ... WHERE id = ...`. Daraja's answers may come late, twice, or never, a
process may die between two awaits, and several steps log an error and go on.
Finance's repairs and moderation are the exception: they are SQL functions that lock
rows, whose callers decide on what they read before, and who can wait for each other.

The project models the handlers split exactly where they await, and the moderation
functions split exactly where they may wait for a lock.

| file | what it is |
| --- | --- |
| `PayoutSettlement.tla` | payout, B2C settlement, dispute freeze and financial ruling on one funded transaction |
| `EscrowPromise.tla` | the abstract specification: what the marketplace promises about a funded job's money |
| `SettlementState.tla` | the pure functions of `jobs/settlement-state.ts`: the state shown to users and the archive permission |
| `PayoutPromises.tla` | `PayoutSettlement` as an implementation of `EscrowPromise`, and as an input of `SettlementState` |
| `PaymentCollection.tla` | payment attempts, STK callbacks, the payment.success handler that binds the escrow row, and the archive gate |
| `DisputeCase.tla` | one dispute after it was opened: claims, evidence, rulings, the SLA sweep |
| `FinanceRepairs.tla` | finance's repairs of a dispute's money, composed with `DisputeCase` |
| `JobLifecycle.tla` | one post: selection, completion, approval, dispute, archive, review |
| `PayoutDestination.tla` | the provider's numbers, the codes that prove them, the snapshot on the escrow row |
| `PeriodicTask.tla` | the background loop of a process: ticks, stop, kill, restart |
| `EventQueue.tla` | the rows of `system_events`, the retry loop on top of `PeriodicTask`, and replays |
| `Promotions.tla` | one promotion campaign: its payment, review, pauses, sweep and days served |
| `RateLimit.tla` | the rate limiter's sliding windows: the shared store, the connection to it, the local fallback with its sweep |
| `TokenBucket.tla`, `BucketPromise.tla` | the limiter's other algorithm, as code that forgets and recomputes, and as the level it stands for |
| `AccountState.tla` | the cached answer to "may this account do this?" |
| `Moderation.tla` | one account's restrictions, one report, one message and the ledger, lock by lock |
| `MCPayoutSettlement`, `MCPaymentCollection`, `MCPaymentScenes`, `MCCasework`, `MCServices`, `MCGuards`, `MCLive` | model values, symmetry and the parts TLC runs |
| `*_proofs.tla` (8) | the TLAPS proofs, one module per component, except: `PayoutPromises_proofs` has those about `PayoutSettlement` too, `Casework_proofs` those about `DisputeCase`, `FinanceRepairs` and `JobLifecycle`, `Guards_proofs` those about `RateLimit`, `TokenBucket` and `AccountState` |
| `*.cfg` | one file per run |
| `PROJECT.json` | components, runs, mutants, map to the source, findings, hazards, theorems |

Paths below are relative to `src/backend/src` unless they start with `src/`.

## 1. Inventory

| component | state | operations | hard behaviour | what makes it correct |
| --- | --- | --- | --- | --- |
| Payment collection (`mpesa/mpesa.service.ts`, `transactions/`) | `transactions` (status, checkout_request_id), optimistic `escrow` row | `initiatePayment`, `handleStkCallback` | double taps, callback before its id is stored, repeated callbacks, lost answer to the push | the row says paid exactly if the customer was charged; one funded payment per post |
| Payout and settlement (`mpesa/mpesa.service.ts`) | `transactions` (status, conversation_id), `escrow.status` | `releasePayout`, `handleB2cCallback`, `handleB2cStatusResult`, `reconcilePayout`, all through `settleByTransaction` | two calls at once, crash after Daraja accepted, duplicate results, two updates that are not one transaction | the money leaves escrow once; released means delivered; a payout in flight can always be queried and settles |
| Event queue (`events/`) | `system_events` (processed, retry_count, dead_letter) | `emit`, retry tick, `replayById`, `markFailed` | emit not awaited, retries, dead letters, 24 h window, manual replay of old events | a saved event is handled; handling it again changes nothing |
| Disputes and rulings (`admin/disputes/`) | `disputes`, `dispute_decisions`, and the money rows | `createDispute`, `assign`, evidence, `decide`, SLA sweep | freeze against a payout in flight, stale status writes, ledger row before the money moves | a ruling moves the money once; an open case blocks everything else |
| Job lifecycle (`jobs/jobs.service.ts`) | `posts`, `job_completions` | `selectProvider`, `markComplete`, `approve`, `archivePost` | check-then-write on posts and completions, archive against payment | a job with money in it cannot be archived; approved and disputed exclude each other |
| Settlement state (`jobs/settlement-state.ts`) | none (pure) | `coreState`, `canArchive` | many row combinations | agrees with the archive gate on every pair of rows the payout code can leave |
| Finance repairs (`admin/finance/`, `src/supabase/migrations/117*`) | money rows, ledger | recorded rulings, manual settlements | a repair racing a ruling that is still in flight | a ruling is applied once, with its own amounts |
| Periodic tasks (`common/periodic-task.ts`) | in-flight tick | `start`, `tick`, `stop` | stop against a tick in flight, slow ticks | ticks never overlap; stop waits for the tick |
| Payout destinations (`payouts/`) | destinations, OTP codes, snapshots | onboarding, verification, snapshot at payment | a destination changed while money is in escrow | a job pays where its escrow froze |
| Promotions (`promotions/`) | `promotion_campaigns` (status, ends_at, paused_at), `promotion_payments` | `initiate`, `handleStkCallback`, `onPaymentSuccess`, review, pause, resume, cancel, sweep | double taps, a prompt given up and then answered, a callback that dies between payment and campaign, dates computed from a row that moves | a campaign runs on money taken once; the owner gets the days bought; the table of transitions holds |
| Rate limits and Redis (`common/rate-limit`, `redis/`) | logs or balances per key, in Redis and in each process; the connection | `check`, two scripts, the local limiters and their sweep | a command given up and run later, resent after a reconnect, the fallback forgetting keys | no window lets more through than its limit; Retry-After is honest; the fallback's memory is bounded; nothing waits for Redis |
| Account state (`moderation/account-state.service.ts`) | a map of answers with a TTL | `denial`, `invalidate` | an answer on its way while the account is sanctioned; several processes | a wrong answer lives less than the TTL, and only for the reasons the code names |
| Moderation (`moderation/`, migrations 114 and 115 of `src/supabase/migrations`) | `account_restrictions`, `users.is_banned`, `user_reports`, `chat_messages`, `moderation_actions` | sanction, lift, resolve, triage, hide and show a message; the ledger's seal | ranks and holders read before the transaction; `now()` is when a transaction began, not when it wrote; row locks and the ledger's lock, which can deadlock | one restriction of a kind; the flag mirrors the bans; the ledger tells everything once, without gaps; a resolution is what the ledger says |
| The rest: notifications, feed, reviews' aggregates, admin accounts, alerts, configuration, health; mobile app, dashboard, marketing, file worker | | | read paths, single-row writes or clients | not modelled (see section 11 and PROJECT.json) |

How they interact: `initiatePayment` creates the transaction and the escrow row;
the STK callback sets it paid and emits `payment.success`; the event processor
binds the escrow row to it; `approve` emits `job.approved`, whose handler calls
`releasePayout`; Daraja's B2C result reaches `settleByTransaction`, which emits
`escrow.released`; `createDispute` freezes both rows from outside, `decide` ends
the freeze by `releasePayout` or by marking a refund; `archivePost` and the
repairs read the same rows. In front of every request stand the rate limiter, and on
restricted routes the account state, which moderation writes.

## 2. Plan

Every module of the plan is written, checked and proved about, in this order:
`PayoutSettlement`, `PaymentCollection`, `DisputeCase`, `SettlementState`,
`FinanceRepairs`, `EventQueue` over `PeriodicTask`, `JobLifecycle`,
`EscrowPromise` with the refinement, `PayoutDestination`, `Promotions`, `RateLimit`
with `TokenBucket` and `BucketPromise`, `AccountState`, `Moderation`. Every safety
property a passing run checks is a theorem. What could come next: the mobile app's
outbox, the intake of reports, a moderation whose ranks and members change.

How the modules compose:

* `PayoutPromises` extends `PayoutSettlement` and `SettlementState`: the settlement
  functions are evaluated on every state the payout code can leave, and
  `EscrowPromise` is instantiated with a refinement mapping.
* `FinanceRepairs` extends `DisputeCase`: its steps interleave with the desk's.
* `EventQueue` extends `PeriodicTask`: a tick of a process's loop is a runner.
* `TokenBucket` instantiates `BucketPromise` with the level it recomputes.
* `MCPaymentScenes`, `MCCasework`, `MCServices` and `MCGuards` put several instances
  into one run. An extra variable says which one a behaviour is about, so that their
  state spaces add up instead of multiplying; the other parts' variables stand still.
* `MCLive` extends `MCGuards` and instantiates `PayoutSettlement` and
  `PaymentCollection` beside it: the liveness properties of four parts, each with its
  own fairness.

Where a component is another one's environment its effect is summarised there and
detailed here: the payout's inner steps are one action in `PaymentCollection`,
`DisputeCase` and `JobLifecycle`, and `PayoutSettlement` has them.

## 3. PayoutSettlement

One post, one funded transaction, its escrow row, its dispute cases, and what
Daraja did with each B2C payout it was asked for. A *call* is a request, callback
or event dispatch in flight; it returns to `idle` and may then stand for the next
one, so the number of calls bounds concurrency and not history.

| code | actions |
| --- | --- |
| `releasePayout` | `ReleaseRead`, `ReleaseSend` (accepted or refused), `ReleaseRecord`, `ReleaseEscrow`; `ReleaseRefused` where its refusal ends a ruling |
| B2C callback, status result | `SettleRead` (row found by `conversation_id`), `SettleApply`, `SettleAnnounce`, `SettleUnlock` |
| `reconcilePayout` and the already-released branch | `RepairRead`, `Repair`; for a payout in flight its answer is a status result |
| `createDispute`, `freezeForDispute` | `FreezeRead`, `FreezeTx` and `FreezeEscrow` in either order (`Promise.all`), `OpenCase` |
| `decide`, `applyFinancial` | `RuleRelease` then the payout actions, or `RuleRefund`, `RefundTx`, `RefundEscrow`; `RuleResolve` |
| Daraja | `DarajaFinish` (external) |
| crash or failed await | `Abort` anywhere; `TxBecomes` and `EscrowBecomes` may fail where the code does not look at the error |

Full refund and partial split both mark the rows `refunded` and leave the cash to
finance, so the history variable `refundOwed` stands for both: from that point
the client is owed money that must not be with the provider.

The code does *not* keep "money leaves escrow at most once" as such. The module
therefore names the windows through which it can fail, and records in `windows`
which of them a run has gone through:

* `overlap`: two calls were between their deciding read of the transaction and
  their write of it at the same time;
* `unrecorded`: Daraja accepted a payout and the call died before the row said so;
* `frozen_in_flight`: a dispute froze a transaction that was in `payout_pending`;
* `ruled_in_flight`: a refund was ruled on a transaction in `payout_pending`.

The main property says that this list is complete: `MoneyLeavesOnce == windows = {}
=> ...`. Two more properties, `ReleasedMeansDelivered` and `PendingCanBeQueried`,
hold in every interleaving, the races included, and `AnnouncedOnce`,
`EscrowFollowsTx` and `SettledStaysSettled` need only that no two calls overlapped.

Abstracted: amounts and phone numbers; the payout destination and its audit rows
(they may refuse a payout before it is sent, which is the refusal of
`ReleaseSend`; `PayoutDestination` has them); the `posts` and `job_completions` rows
(`JobLifecycle`); notifications; the case's life between open and resolved
(`DisputeCase`); the development shortcuts.

**The promise and the refinement.** `EscrowPromise` says in six actions what a client
and a provider are promised: the money is held, one payout sends it, a failed one
brings it back, a delivered one may be told, one refund takes it from 'held', and
nothing is told that is not so. `PayoutPromises` maps the rows to it:

* `fate` is `MoneyFate`, from Daraja's side of the truth (`b2c`) and the history of
  what is owed, not from the rows, and `void` once a window of the list above opened;
* `shown` is `MoneyShown`, what the transaction row tells.

`KeepsPromise == Promise!PromiseSpec` is then a PROPERTY of the run `payout`, and a
theorem.

**The state shown.** `Display` is the input that `getLifecycle` derives from the same
rows. `QuietDisplay` says that between requests the archive is offered in exactly the
states the app calls settled: two functions of one file that were written
separately, on the pairs of rows that really occur.

## 4. PaymentCollection

One post with a selected provider, its payment attempts, the one escrow row that
`UNIQUE (post_id)` allows, and the `payment.success` event of each attempt.

| code | actions |
| --- | --- |
| `initiatePayment` | `InitiateRead`, `CreateTx`, `StkPush` (sent, refused, or sent with the answer lost), `PushFailed`, `StoreCheckoutId`, `InsertEscrow` |
| the customer | `CustomerAnswers` (external) |
| `handleStkCallback` | `CallbackRead`, `CallbackConfirm`, `CallbackEmit` |
| retry tick, `replayById`, `runHandler` | `PickEvent`, `ReplayEvent`, `MarkProcessed`, `MarkFailed`, `HandlerThrows`, `EventExpires` |
| `lockEscrowForPayment` | `LockRead`, `LockInsert`, `LockIncumbent`, `LockRepoint` |
| `archivePost` | `ArchiveReadTx`, `ArchiveReadEscrow`, `Archive` |
| the payout, seen from here | `PayoutStarts`, `PayoutFails`, `PayoutCompletes` |

The windows here are `contested` (two attempts live at once), `duplicate` (two
deliveries of one STK callback handled at once), `unanswered` (the prompt went
out, the answer to the push was lost) and `blind_read` (a read failed and its
error was ignored). `maybeSingle` in `initiatePayment` fails when several rows
match, and the code ignores that error: `OneInProgress` says so. Each property
names the windows that excuse it, and no other: a doubled callback, for one, can
turn a released transaction back into a paid one.

Abstracted: disputes (so escrow is never `disputed` or `refunded` here, and the
gate's dispute test never blocks), promotions payments that share the callback,
`payment.initiated` and similar audit events, the status change of an archived
post. The payout takes three atomic steps; its inner interleavings are the other
module's subject. `markFailed` counts atomically here; `EventQueue` has its read and
its write.

## 5. The desk, the job, the numbers

### DisputeCase and FinanceRepairs

One dispute from the row that `createDispute` inserted. A request or sweep in flight
has a place and the locals it read (`call`).

| code | actions |
| --- | --- |
| `assign` | `AssignRead`, `AssignWrite` (conditional unless a super_admin), `AssignConflict` |
| `requestEvidence` | `AskRead`, `AskWrite` |
| `submitEvidence`, `advanceAfterEvidence` | `SubmitRead`, `AdvanceAfterEvidence` |
| `decide` | `DecideRead`, `DecideValidate`, `DecideRecord`, then `PayProvider`, `RefundClient` or `Escalate`, then `Resolve`, `CloseJob` |
| `sla.service.ts`, `systemEscalate` | `SweepFind`, `SystemEscalateRead`, `SystemEscalateRecord`, `Escalate` |
| Daraja's answer to the ruling's payout | `PayoutResult` |
| crash or failed await; an update nobody checks | `Abort`; `BecomesUnchecked`, `RefundClient`, `CloseJob` |
| `recordManualSettlement` | `RecordManual` |
| `applyRecordedRuling` | `ApplyRuling`, then `RepairRelease` |

History variables say who was told that the case is theirs (`holders`), whether a
super_admin took a claimed case (`overridden`), whether a second ruling was recorded
(`reruled`), and which calls could still write the status when the case closed
(`late`). Finance's database functions lock the row and are one step each.

Abstracted: thread entries and evidence rows, `first_response_at`, notifications;
`awaiting_client_evidence` and `awaiting_provider_evidence` are one status, since
nothing tells them apart; FULL_REFUND and PARTIAL_SPLIT are `REFUND`, and differ in the
shares `Owed`. A case that somebody was already writing to when it was closed can
come back: `ClosedToNewCalls` says that no other can.

### JobLifecycle

| code | actions |
| --- | --- |
| `selectProvider` | `SelectRead`, `SelectWrite` |
| `markComplete` | `MarkRead`, `MarkCheck`, `MarkInsert` (one pending row by the partial unique index) |
| `approve` | `ApproveRead`, `ApproveRow`, `ApproveClose` |
| `archivePost` | `ArchiveRead`, `ArchiveWrite` |
| `createDispute` on the job | `DisputeRead`, `FreezePost` and `FreezeRows` in either order, `InsertCase` |
| `createReview` | `ReviewRead`, `ReviewGate`, `ReviewInsert` |
| payment, payout, ruling, moderation | `PaymentArrives`, `ApprovedPayout`, `ApprovedPayoutEnds`, `RulingEnds`, `Moderation` |

None of these writes is conditional, so the module names the crossings through which
two of them meet, and records them: `two_choices` (two selections in flight),
`late_mark` (a completion reported while one was being approved), `half_done` (an
approval or a freeze died between two writes), `late_archive` (a payment during an
archive), `under_freeze` (any request that met a freeze). The properties say that
these are all there is: one provider reports, is paid and reviewed; the work is
approved once; an open dispute holds the job.

### PayoutDestination

| code | actions |
| --- | --- |
| `add` | `AddRead`, `AddRetire`, `AddInsert` |
| `requestChallenge`, `issue` | `RequestChallenge`, `IssueRead`, `Supersede`, `Issue` |
| `verify`, `fn_consume_payout_verification` | `VerifyRead`, `VerifyLive`, `Consume` (one transaction) |
| `setDefault`, `retire`, the triggers of migrations 104 and 106 | `SetDefault`, `Retire` |
| `initiatePayment`'s snapshot, the escrow insert, `lockEscrowForPayment` | `Initiate`, `InsertEscrow`, `PaymentFunds` |
| `resolvePayoutDestination` in `releasePayout` | `Resolved`, `ReleasePayout` |
| time on a code; a request cut short | `CodeCools`, `CodeExpires`; `RequestCut` |

A code is right or wrong as the caller pleases. The feature flags are the defaults:
escrows without a snapshot settle to the current default, and migrated numbers count.
`known` is the history that makes "re-routed to a newly added number" expressible.
The triggers that refuse to rewrite a number, a proof or a spent code are no guards of
any action: `AppendOnly` says, and is proved, that they have nothing to refuse.

## 6. The background services and promotions

### PeriodicTask and EventQueue

`Tick`, `TickEnds`, `Stop`, `Stopped`, `ProcessKilled`, `TaskStart` are the loop
and the process around it; `Slot` only gives the model room for ticks of one process
that overlap, which the code never lets happen. On top of it:

| code | actions |
| --- | --- |
| `emit` | `Emit` (in the order of the event numbers) |
| `fetchUnprocessed`, `retryUnprocessed` | `Fetch`: `Oldest(Eligible)`, at most `Batch` |
| `runHandler`, `markProcessed` | `Dispatch`, `MarkEventProcessed` |
| `markFailed` | `CountRead`, `CountWrite` |
| `replayById`, `resetForReplay` | `ReplayRead`, `ResetForReplay` |
| 24 hours; kills and restarts | `EventAges`; `LoopStops`, `LoopStopped`, `LoopKilled`, `LoopStarts` |

`markFailed` reads a count and writes it back plus one. `unsure` collects the events
on which two processes, or a process and a replay, did so at once, or whose read
failed: `RetriesCounted` says that every other event's count is exact, which in
particular means that one process's own ticks never disturb it.

### Promotions

One campaign from `awaiting_payment`, where `create` puts it.

| code | actions |
| --- | --- |
| `initiate` | `PayRead`, `PayPendingRead`, `PayGiveUp`, `PayInsert`, `PromoPush`, `PromoPushFailed`, `PromoStoreId` |
| the customer; three minutes on a prompt | `PayerAnswers`; `PromptStale` |
| `handleStkCallback`, `onPaymentSuccess` | `PaidRead`, `PaidSettle`, `OnPaymentSuccess` |
| admin and owner decisions | `Approve`, `Reject`, `Pause`, `Resume`, `Cancel` |
| the sweep | `SweepOverdue`, `SweepUnpaid` |
| `transition` | `Transition`: conditional on the status, with the dates computed earlier |
| `getSlots` and the calendar | `DayPasses`, which serves an active campaign before its end; `GrowsOld` |
| crash or failed await | `ErrandAborts` |

Only the status is protected; the payment rows and the dates are not. The races are
named again: `two_prompts`, `crossed` (a callback met a request that had yet to look
for the payment), `gave_up` (a prompt was given up after three minutes), `unanswered`
(the prompt is out, its answer or id lost), `half_done` (a callback died between
payment and campaign), `blind_read` (a failed read passed for "no payment"),
`slow_date` (a day went by between a date and its write). Each is needed: without it
in the premise, TLC finds the property violated.

Abstracted: packages and their prices, the checks of `create`, slot ranking and caps,
impressions and clicks, notifications. A day is the unit of the clock.

## 7. The guards

### RateLimit

One policy of two rules, counted by subject and by address: a request passes the first
before it is counted by the second. `log[s][k]` is what store `s` (Redis, or a process)
holds against key `k`.

| code | actions |
| --- | --- |
| `RateLimitGuard.canActivate`, `RateLimitService.check` | `Arrive`, which also picks a policy of one rule or two |
| `evalScript` | `Ask`, `Answer`, `GiveUp` (its timeout) |
| the script in Redis | `Execute`, whoever still waits for it; `PEXPIRE` is `expires` |
| the connection (`redis.service.ts`) | `LinkDrops`, `LinkReady`, `Resend` |
| `consumeWindow`, `sweep` and `trimTo` of the local limiter | `FallbackGrants` (with `Sweep` on every `SweepInterval`-th write), `FallbackRefuses` |
| kill and restart; time | `InstanceRestarts`; `ClockTicks` |

A command that was given up stays on the wire and may be run later, or twice: its
members carry the request's id, so it overwrites itself. `granted` and `era` are
history: who was let through by which store, and how often that store has forgotten the
key since, by a sweep over the cap or a restart. `WithinLimit` is about each store and
era, because the code claims no more; `RetryAfterExact` about the last refusal.

### TokenBucket and BucketPromise

`Spend` and `Refuse` are one script or one local call, `SweepBucket` the local sweep of
idle buckets, and a key past its TTL is a full bucket (`Holds`). `BucketPromise` is a
level that rises with every tick; `KeepsBucket` says that nothing of the forgetting and
recomputing can be seen.

### AccountState

| code | actions |
| --- | --- |
| `denial` | `Asked`, `DatabaseAnswers`, `Remember`; `FailsOpen` |
| `applySanction`, `liftRestriction` in this process | `Commit`, then `Invalidate`, or `AnswerLost` |
| another process, the SQL editor, a term's end | `ChangedElsewhere` |
| time | `Tick` |

An answer carries two bits of history: when it stopped being true (`ended`), and whether
its account was forgotten while it was on its way (`raced`). `StaleBounded` names all the
ways to a stale answer; the third, `raced`, is one the file's comment leaves out.

### Moderation

A call is idle or in a transaction, whose place says which lock it asks for next.
Transactions see what is committed (READ COMMITTED), and `now()` is when they began.

| code | actions |
| --- | --- |
| `moderation_apply_sanction` | `AskSanction`, `LockUser`, `LockItsReport`, `SanctionTerms`, `LockReplaced`, `SanctionCommits` |
| `moderation_lift_restriction` | `AskLift`, `LockLifted`, `LiftChecks`, `LiftFlag`, `Seals`, `LiftCommits` |
| `moderation_resolve_report` | `AskResolve`, `LockResolved`, `Seals`, `ResolveCommits` |
| `moderation_update_report` | `AskTriage`, `LockTriaged`, `Seals`, `TriageCommits` |
| `moderation_set_content_state` | `AskContent`, `LockMessage`, `Seals`, `ContentCommits` |
| `fn_moderation_actions_seal` and the ledger's foreign keys | the lock `Chain` and `NextSeq`; `KeysFree` |
| Postgres; time; the sender | `Aborts`, `DeadlockFound`; `TermEnds`; `SenderDeletes` |

The `Ask...` actions carry the service's checks, made on rows read before the transaction
(`seen`). A sanction's last wait is for the ledger, after which nothing can refuse it, and
its writes are one step; the other calls wait for the new line's foreign keys after their
number is drawn. `LockReplaced` looks at a locked row again, as the code does; the proofs
show why its second branch is never needed: a lift waits for the user's row, which the
sanction holds.

The properties that say *unless* name divergences and no more: a row written by the
transaction that began first starts in the other one's future (`RestrictionsAgree`; the
run `moderation_mirror` shows what it does to the flag); a line written later can carry
an earlier time, which is how a deleted message comes back (`DeletedStaysInOrder`); a
report that changed after its reader was checked (`ReportRules`). `LedgerAppends`, the
third part of `ModerationRules`, has no such exception.

## 8. Runs

All runs use the exact code paths above; only the sets and the bounds differ.
"Calls" gives the concurrency.

| run | instance | what it shows |
| --- | --- | --- |
| `payout` | 1 payout call, 2 settlements, 1 dispute, 1 ruling, 2 cases, 2 payouts, 1 fault; 2.4 M states | `MoneyLeavesOnce`, `ReleasedMeansDelivered`, `PendingCanBeQueried`, `AnnouncedOnce`, `EscrowFollowsTx`, `SettledStaysSettled`, `QuietDisplay`, and the refinement `KeepsPromise` |
| `payment` | three scenes: 2 attempts, 2 racing callbacks, 1 fault; 3 attempts, nothing failing, one callback at a time; 2 attempts, an archive call, 1 fault. Each with 1 request, 1 tick, and 1 replay but in the last; 3 retries; 1.2 M states | `RowMatchesPhone`, `ProcessedMeansLocked`, `RepointsOnlyFailed`, `SettledNeverResurrected`, `HeldFundsBlockArchive` |
| `casework` | four parts: a case with 3 admins, 2 requests, 1 sweep, 1 repair, 1 fault; a job with 2 requests, 2 applicants, 2 completions; the numbers with 2 requests, 2 numbers, 2 rows, 2 codes of 2 tries; and a payout to them with 1 fault; 1.8 M states | `CaseLock`, `ResolvedUnfreezes`, `ClosedToNewCalls`, `HandPaidNeverSent`, `OneProviderThroughout`, `ApprovedOnce`, `DisputeHoldsJob`, `SpentCodeActivates`, `PaidWhereProven` |
| `services` | the retry loop of 1 process with 2 events, a batch of 1, 1 replay, 1 fault; the SLA sweep beside 1 request, 1 fault; a campaign of 2 days with 2 calls and 2 payments, bought with 1 fault, or served for 4 days; fairness; 0.6 M states | `RetriesCounted`, `ShutdownCutsNothing`, `EventEnds`, `SweepEscalates`, `PaidForOnce`, `PurchasedDaysKept` |
| `guards` | seven parts: rate limits of 1 process for 3 requests and 2 subjects, with 1 lost connection, 1 restart, windows of 1 and 2 ticks and a clock of 2 (1 where both are at work); a bucket of 3 tokens for 14 ticks; the cache with 2 requests at a time, 1 sanction and 1 change from elsewhere; moderation with 2 admins, 4 transactions about the restrictions, 3 about the report or the message; 0.4 M states | `WithinLimit`, `RetryAfterExact`, `KeepsBucket`, `StaleBounded`, `RestrictionsAgree`, `LedgerTells`, `ResolutionDerived`, `ModerationRules` |
| `live` | four parts: 1 settlement with 1 payout call, 1 dispute, 1 ruling, 1 case, 2 payouts; 1 payment request, 1 callback, 1 tick, 2 attempts; 2 requests at the limiter with a clock of 1; 2 moderation calls that can deadlock; 1 fault each; fairness, no symmetry; 65 k states | `PayoutsSettle`, `QueuedGetsLocked`, `ArrivedIsDecided`, `CallEnds` |
| `payout_twice`, `payout_ruled`, `payment_funded_twice`, `dispute_escalated`, `payout_frozen`, `moderation_mirror` | smallest instance that shows it, no fault | each is a claim of a comment or a doc that the code does not keep; the findings of PROJECT.json quote it |

**Why the bounds are enough.** Two payouts are the fewest that can be paid twice,
two cases the fewest in which a second ruling follows a first one. Two
settlements give every race of two deliveries and of a delivery with a repair;
one payout call together with a ruling (which is a payout call too) gives two
payouts at once, and each call can be taken again and again. Two attempts give an
orphaned row and its repair; the third one gives a row that moves under a handler,
which is why it has a scene of its own. Two requests are the fewest that race, and
a request that has ended stands for the next one. Two admins of one rank and a
super_admin are all the ranks that `assign` and `decide` tell apart in a race. Two
completions are the fewest of which one can be reported twice, two rows and codes
the fewest of which one can supersede the other, two tries the fewest with a wrong
answer that is not the last. A batch of one makes an event wait behind a failing
one, which with the code's 100 would need 101 of them; the order of the rows is the
code's, and the proofs hold for every batch. Two days are the fewest that a pause
can split, and `LastDay` leaves the calendar room for a pause of two more.
Three requests at a limit of two and a half are the fewest of which one is refused and
one forgotten; four transactions are a restriction, what replaces it, and two that race
about both; three, with two in flight, are a claim, a sanction or a closing and what races
with them about one report. `MaxEntries` and `MaxKeys` of one make both maps overflow at once.
The bounds on faults (`MaxFaults`, `QueueFaults`, `LostWrites`, `Upsets`) count
crashes, failed or lost answers and unchecked writes that were lost together: one is
enough to separate any two steps of a handler. `MaxRetries` is the code's own 3.
`Rows`, `Codes`, `MaxRows`, `Purchase`, `Payments` and `Begins` bound rows that are only
ever inserted, `LastTick`, `LastTime` and `LastClock` the clocks. Nothing else is bounded: requests, callbacks and ticks repeat for ever.
`CHECK_DEADLOCK FALSE` is set because the system really stops: a settled job has
nothing left to do once the faults are used up.

**What the scenes restrict**, beyond giving each part a state space of its own:
- `payment`: the three attempts see no fault; they and the archive call see one
  callback at a time; events are replayed among the three attempts, and while there
  is one attempt, and not beside an archive call.
- `casework`: a case has three calls and repairs at a time, or two once something
  failed; the job has one call at a time once a call died half way through its
  writes; the numbers see no fault and no money, and one request at a time once a
  second code is out; the payouts see one request at a time and one code.
- `services`: the purchase takes no time, and goes through two of the races of
  `Promotions`, or one and a fault; the served campaign is bought by one request at a
  time with nothing failing.
- `guards`: a lost connection and a restart do not meet, and requests that pass both
  rules see neither; the cache starts with nothing denied, and has one request at a
  time after a change from elsewhere; three moderation calls are in flight only about
  restrictions, and two when the last one is; the report and the message see the
  calls that meet there (`Made`).
- `live`: in the payout part no payout and no dispute begins during another of these
  calls or a ruling, and one of the two payments only is paid out. What is cut off
  begins something that nothing obliges anyone to begin, so no fair step is refused.

Each restriction is in the scene's next-state
relation by name, and the proofs have none of them.

Symmetry is used in the safety runs only, over sets of which no member is
distinguished by the code.

## 9. Fairness

* `DarajaFinish` is weakly fair: Safaricom ends every payout it accepted. Its
  callback is *not* assumed to arrive.
* A handler in flight runs on (weak fairness of `SettleStep`, `ReleaseRecord`,
  `ReleaseEscrow`, `HandlerStep`, `RunStep`): Node runs every continuation whose
  await has ended. Crashes stay possible, at most as often as the bound says.
* Settlement reads are weakly fair. The code has no timer that does this: the
  assumption is that *an operator keeps reconciling* (`POST /admin/.../reconcile`,
  `reconcilePayout`) until the payout is gone, and the result says that this
  suffices: the row still carries the ConversationID the query needs. Nothing is
  claimed about a payout nobody reconciles.
* `PickEvent` is weakly fair per tick: the processor's interval of 60 s.
* `LoopRuns` (`EventQueue`): `LoopTick` is *strongly* fair, because deploys stop and
  start the process again and again: it is enough that the process is up for a
  minute now and then. Handlers return, `stop()` returns (`LoopStopped`), and the
  platform restarts what stopped (`LoopStarts`).
* `SweepRuns` (`DisputeCase`): each sweep's steps are weakly fair, from its timer of
  30 minutes.
* `Handles(r)` (`RateLimit`) is weakly fair: what the process itself does with a request.
  Redis's answer and its connection are not.
* `RunsOn(c)` (`Moderation`) is *strongly* fair, because Postgres grants a lock to those
  who wait for it in order; `DeadlockFound` is weakly fair, its `deadlock_timeout`.
* In `live` each part's fairness is vacuous in the other parts' behaviours.
* Requests, callbacks, replays, disputes, rulings, archives and repairs are not fair.

`QueuedGetsLocked` says "gets its escrow row, or the post was contested, or the
event grew older than the processor's window". A dead letter does not excuse it
within the bounds: one fault cannot use up three retries, and a replayed event is
queued again. `EventEnds` allows all three ends, and excludes that an event waits for
ever behind others that fail, or is forgotten by a process that died.

## 10. Proofs

All safety properties of the passing runs, the two refinements included, are theorems,
for every value of the constants: any number of calls, rows, processes, days, windows
and faults. The assumptions are the named ones of the modules: bounds are numbers, kinds
of calls are disjoint, `None` and `Nobody` are no id, senior ranks are nested, no rule
costs more than its limit and none has a window beyond the sweep's horizon. Each module
first proves its types (`TypeCorrect`, `JobTypeCorrect`, `DestTypeCorrect`,
`QueueTypeCorrect`, `PromoTypeCorrect`, `RepairsTypeCorrect`, `LimitTypeCorrect`,
`BucketTypeCorrect`, `StateTypeCorrect`, `ModTypeCorrect`), which is why the runs do not
check them again.

Almost no property is inductive as it stands. What is missing is always of the same
kind: what a handler *knows* at each of its awaits.

`PayoutPromises_proofs`, about `PayoutSettlement` (`CallsDisjoint`, `NoneIsNull`):

* `ReleasedMeansDeliveredCorrect` and `PendingCanBeQueriedCorrect`, from `DeliveryInv`:
  what a row or a local says about Daraja is true, because a ConversationID only
  enters a local when Daraja accepted it and a result code only comes from it;
* `MoneyLeavesOnceCorrect`, `AnnouncedOnceCorrect`, `EscrowFollowsTxCorrect` and
  `SettledStaysSettledCorrect`, from `OverlapInv` and `MoneyInv`: `OverlapInv` says that
  one call at a time is critical and that the status it read still holds, with what
  the calls past their critical part still have to write; `MoneyInv` adds that as
  long as no window was opened every live payout is the one in the row or in the one
  critical call.

And about the promise: `KeepsPromiseCorrect`, the refinement. Initial states map to
the promise's initial state, and under those invariants each action maps to one of the
six or to a stutter; the step that opens a window maps to `Void`.
Two theorems draw from it what the promise means for the rows: `ToldWhatIsSo` (a
transaction reads released only with a completed payout, and refunded exactly when a
refund was ruled and no payout is under way or through) and `SettledForGood` (delivered
or refunded money never moves again), both until a window opens.
`SettledMeansArchivable` compares the two functions of `settlement-state.ts` over all
inputs, and `QuietDisplayCorrect` on the rows that occur: `DisplayInv` says who
still has to write the second of two rows that contradict each other.

`PaymentCollection_proofs`, for every `MaxRetries` above zero (`Bounds`); its invariants
build on each other in this order:

* `PhoneInv` gives `RowMatchesPhoneCorrect`. A callback that already read its row may
  confirm it much later, so the invariant says that the phone's answer is final, that a
  request between its insert and its `checkout_request_id` owns the row alone, and that
  no callback finds such a row. `StatusStep` draws from it how statuses move.
* `WindowInv` says what each window's absence buys: one live attempt, one delivery
  per callback, an incumbent that is really failed when the re-point comes. With
  `EscrowWriters` (the four steps that write the row) it gives
  `RepointsOnlyFailedCorrect` and `SettledNeverResurrectedCorrect`. It also says how far
  the claim that `payment_funded_twice` refutes does hold: `FundedOnceUncontested`, a post
  is funded once unless an attempt was made while another was live.
* `LockInv` says what a handler has achieved at each of its awaits. It gives
  `ProcessedMeansLockedCorrect`.
* `SettledInv` ties the escrow's release to the transaction's, and what an archive
  call saw first to what it finds next. It gives `HeldFundsBlockArchiveCorrect`.

`Casework_proofs`, the case: `LocalsInv` (what a call holds at each place), `HolderInv` (an
ordinary holder is the assignee, or was overridden) for `CaseLockCorrect`, `LedgerInv`
(a call past its record has it in the ledger) for `AuditBeforeActionCorrect`,
`UnfreezeInv` (a call about to resolve has moved the money) for
`ResolvedUnfreezesCorrect`, `LateInv` (a call that can reopen a closed case was there
when it closed) for `ClosedToNewCallsCorrect`. These invariants survive
finance's steps (`RepairEffect`, `RepairsSteps`), which gives `RepairsCaseLock`,
`RepairsAudited`, `RepairsUnfreeze` and `RepairsClosedToNewCalls`; and `HandPaidNeverSentCorrect` rests on
`RefundIsFinal`: without a second ruling no call or repair takes refunded money back.

`Casework_proofs`, the job: `RequestsInv` (which requests exclude each other while nothing
has crossed), `ProviderInv` for `OneProviderThroughoutCorrect`, `JobInv` (the freeze,
half done or done, against approvals and reports in flight) for `ApprovedOnceCorrect`
and `DisputeHoldsJobCorrect`.

`PayoutDestination_proofs`: `Numbered` (rows and codes are filled in order), `ReferInv`
(what a request or code refers to exists), `ProofInv` for `SpentCodeActivatesCorrect`,
`MoneyInv` for `PaidWhereProvenCorrect`. With `SnapInv` (no snapshot without an escrow row)
and a lemma on what each step may write of a row (`RowsKept`) and of a code (`CodesKept`)
they give `AppendOnlyCorrect`: the step that activates a row finds it pending and
unproven, because a request that comes late is refused under the row's lock.

`EventQueue_proofs`: the lemma `RankTaken` (a batch is a sequence of distinct events),
`RunnersInv` (a running tick's process is up, and a process has one) for
`ShutdownCutsNothingCorrect`, `CountInv` (a count read inside `markFailed` is still the
row's) for `RetriesCountedCorrect`. `OneTickAtWork` is what `RunnersInv` says of a process
that is stopped and started while a tick of it is slow.

`Promotions_proofs`: `LegalInv` (a call's change is one of the table, on the status it
loaded) for `OnlyLegalMovesCorrect`; `DaysInv` (a date decided today gives the campaign
what it still has to get) for `PurchasedDaysKeptCorrect`; `RowInv` (who owns a payment
row, and that paid is final), `ProgressInv` (a payment recorded on a campaign that still
asks for it has a call that will move it on) and `OnceInv` (the request about to prompt
the payer is the only one, and nothing is out) together for `PaidForOnceCorrect`.

`Guards_proofs`:

* `WithinLimitCorrect`: `PlacesInv` (a request is granted a key once, and only past its
  place), `UnitsInv` (no store holds more than the limit, or keeps a key for less than
  its entries count) and `BackedInv` (every grant of the present era that still counts is
  an entry of the log, and a reply on the wire is backed as well). Grants then inject
  into the log. `Horizon` above every window is what the sweep needs.
* `RetryAfterExactCorrect`: a refusal's promise is the first time at which the log it left
  has room, and only a grant, which withdraws the promise, can add to that log.
* `MemoryBoundedCorrect`: the fallback's map holds at most `MaxKeys` keys and one for every
  write since the last sweep. No run checks it: with the cap of one of `guards` there is
  little to see.
* `StaleBoundedCorrect`, from `StaleInv`: an entry lives from when its request began, so
  what it says was true at most `CacheTime` before its end.
* `KeepsBucketCorrect`, the refinement: a bucket dropped by its TTL or the sweep would have
  refilled (`BucketInv`, and the arithmetic of `CeilDiv`).

`Moderation_proofs` builds its invariants in layers, each on the ones before:

* `CallInv` (what a call is about at each place), `HeldInv` (which locks it holds there,
  and on which rows those still are as it saw them);
* `NumberInv`: lines are numbered from one without a gap. `ChainExclusive` says that no
  call draws a number while another has drawn one and not written it; `Counted` does the
  arithmetic of a step that writes several lines.
* `RowInv` (a row has its lines, and a call about to lift it finds it in force) gives
  `LedgerTellsCorrect`; `OrderInv` (two restrictions of a kind are in force only if they
  were written out of order, and what the flag says of bans) gives
  `RestrictionsAgreeCorrect`.
* `ResolutionInv` (a resolution derived under the report's lock is still what the ledger
  says when it commits, because every line that names the report needs that lock) gives
  `ResolutionDerivedCorrect`.
* `MessageInv` (of the last content action and the message's state) and `EntitledInv` (who
  writes a report was entitled to what he saw) give `ModerationRulesCorrect`, with
  `LaterLines` for its part about the ledger: all lines written are numbered above all
  that are there.
* `FlightInv` adds to `HeldInv` that a call which is over holds no lock, and gives
  `WaitsResolveCorrect`, the safety half of `CallEnds`: who waits, waits for another call
  in flight, and if all do, some of them form the cycle that Postgres looks for.

The proof of each step lemma has one step per action. In `Casework_proofs`,
`Moderation_proofs` and `Promotions_proofs`, lemmas of the form `...Effect` say what
an `EXCEPT` does to the one place or row it touches, and the steps use them instead of
the definitions.

**Proved and in no run's list**: `AuditBeforeAction` (`DisputeCase`), `OnlyLegalMoves`
(`Promotions`), `MemoryBounded` (`RateLimit`), `AppendOnly` (`PayoutDestination`) and
`WaitsResolve` (`Moderation`), which are defined in the modules, and the statements of
`ToldWhatIsSo`, `SettledForGood`, `FundedOnceUncontested` and `OneTickAtWork`, which follow
from what the runs check.

**Only model-checked**: the liveness properties (`PayoutsSettle`, `QueuedGetsLocked`,
`ArrivedIsDecided`, `CallEnds`, `EventEnds`, `SweepEscalates`), which are out of the
prover's reach; and the six claims the code does not keep, which are refuted.

## 11. Not modelled

* **Rate limiting**: the table of policies (a policy here is one rule or two with any
  limits), the choice of a subject and an address, headers, health pings, a policy that
  fails closed, which no policy does.
* **Notifications**. One-way output. A push that fails appears as a handler that throws.
* **Moderation**: listings hidden together with a sanction, notes, the intake and severity
  of reports, and the investigation queries, which write nothing. Admins and their ranks
  do not change. What moderation writes to a post is `Moderation` in `JobLifecycle`.
* **Feed and ranking**: queries and scoring that write nothing.
* **Admin accounts, dashboard, alerts**: authentication and reporting.
  `admin.service.ts`'s older dispute resolver is superseded by `decide`.
* **Authentication, configuration, health**: request plumbing with no shared state.
* **Mobile app, marketing site, file worker**: clients. What they can do is what the
  models let any caller do. The app's chat store has a persistent outbox with retries and
  merges (`src/mobile-app/lib/services/chat_store.dart`), which would be worth a module.
* **In the modelled components**: the review aggregates, promotion packages, settings,
  slot ranking and analytics, the evidence and thread tables, audit rows, wording and
  amounts. None of them decides a step of the rest, except amounts, which the models
  treat as moving as a whole: a PARTIAL_SPLIT is settled by hand, share by share, which
  `FinanceRepairs` has.
