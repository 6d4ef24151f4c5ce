# A verified model of ClaimMate AI

ClaimMate AI is a FastAPI service with a SQL database, Redis and a Next.js operator UI.
It collects claims (cancellations, exchanges, returns, refunds, delays) from a Cafe24 shop,
classifies them, drafts replies and sends them. This directory holds TLA+ models of its
server side, TLC configurations that check them on small instances, and TLAPS proofs of the
safety properties for every instance. `PROJECT.json` lists components, runs, the source lines
behind every definition, the hazards, and the mutations that each property is known to catch.

Run them from this directory: `tlc -config MCJobQueue_single.cfg MCJobQueue` and so on for the
other `.cfg` files; `tlapm M.tla` for each `M` among `JobQueueProofs`, `LiveWebhookProofs`,
`Cafe24ConnectionProofs`, `ClaimTriageProofs`, `ReplyDeliveryProofs`, `DataLifecycleProofs`,
`CircuitBreakerProofs`, `RateLimiterProofs`.

## Inventory

Paths are below `src/api/app/`.

| Component | State | Operations | Hard behaviour | Correct means | Module |
|---|---|---|---|---|---|
| Job queue, `jobs/service.py`, `main.py` | `background_jobs`, a Redis list | enqueue, promote, pop, fallback, process, tick | racing ticks without row locks, crash between commits, Redis down, database errors | attempts are counted, results are final, queued rows are settled | `JobQueue`, `JobLifecycle` |
| Live webhooks, `integrations/cafe24/live_service.py`, `api/routes.py` | `cafe24_webhook_deliveries` | ingest, queue, process, retry, dead letter | redelivery, check-then-insert, retry against own job, half-applied attempts | one acceptance per event, accounted rule applications, every accepted event settles | `LiveWebhook` |
| Live sync and OAuth, `live_service.py`, `oauth_client.py` | `cafe24_connections`, `claims` | connect, refresh token, list orders, upsert, triage | partial sync, concurrent syncs and refreshes, category that moves under the lookup | the stored token is of use, one claim per order and category, every synced claim triaged | `Cafe24Connection` (the connection), `ClaimTriage` (the claims) |
| Mock sync, `sync_service.py` | `cafe24_integration_events` | sync, webhook, status | as the live rules, on the same rows | as the live rules | `Cafe24Connection`, `ClaimTriage` |
| Claims, `services/claim_service.py` | `claims`, messages, audit log, suggested actions | status, note, classify, draft, webhook rule, summary | operators, jobs and syncs write the same row | a decision is not undone unseen, a triaged claim has label and draft | `ClaimTriage`, `ReplyDelivery` |
| Reply delivery, `claim_service.py`, `reply_delivery/` | `reply_deliveries` | send, retry | call to the outside between read and commit | what was sent is recorded, a retry resends what the UI offered | `ReplyDelivery` |
| Circuit breaker, `observability/policies.py` | one record per service | execute, snapshot, reset | calls in flight while the state changes | opens only on enough failures, always probes again | `CircuitBreaker` |
| Rate limiter, `observability/policies.py` | one window per scope and key | check, snapshot, reset | window edge, snapshot that prunes | at most `limit` admissions per window | `RateLimiter` |
| AI and review policy, `ai/` | none (logs) | classify, draft, fall back, review | thresholds | drafts of risky claims are marked for review | in `ClaimTriage` |
| Data lifecycle, `services/data_lifecycle.py`, `seed.py` | all tables | soft delete, purge, demo reset | foreign keys, writes during an erasure, ids used again | only expired claims are purged, nothing of them stays, all or nothing | `DataLifecycle` |
| Session, bootstrap, routes, migrations | – | session options, seeding, handlers, foreign keys | – | – | in the modules above, partly |
| Auth, metrics, UI, deployment | – | – | – | – | not modelled, see below |

How they interact. A request commits rows and enqueues a job; the worker loop and the
process-pending endpoint run ticks over the job table; a job's handler calls the live
service, which calls the claim service, which calls the AI provider through the circuit
breaker. Everything shared is in the database, except the breaker and the limiter, which
live in the process. Sessions do not flush by themselves and do not expire on commit, no
query locks a row, and an UPDATE names only the columns that the session saw change: a
session acts on what it loaded, however old.

## Modules

**`JobQueue`**, `jobs/service.py`. `status`, `retryCount` and `due` (the clock has passed
`available_at`) are the columns of `background_jobs`; `queue`/`redisUp` the Redis list;
`pc`, `promoting`, `popped`, `fallback`, `current`, `seen` the locals of one tick per
runner; `executions`, `failures`, `stranded`, `aborts`, `errors` are history. Every read
and every commit is an action of its own:

| Code | Actions |
|---|---|
| `enqueue_background_job` | `EnqueueCommit`, `EnqueuePush`, `EnqueueAbort` |
| `promote_due_jobs` | `PromoteRead`, `PromoteCommit`, `PushPromoted` |
| `pop_queued_job_ids`, `_fallback_queued_job_ids` | `PopOne`, `FillFromTable` |
| `process_background_job`, try | `ClaimRead`, `ClaimCommit`, `Succeed` |
| its except branch | `FailRead`, `FailCommit`, entered from the handler or by `DatabaseError` |
| `run_background_job_tick`, `background_job_worker_loop` | `TickDone`, `Abort`, fairness |
| clock, Redis | `BecomeDue`, `RedisDown`, `RedisBack` |

Abstractions: the handler and the commit of its result are one action; `available_at` is
the flag `due`, so which of several due rows is promoted first is left open; a row's refresh
after a commit has no effect of its own; all job types share one handler that succeeds or fails.
A batch size override (`limit`) is the same constant for all runners.

**`JobLifecycle`** is the abstract specification of one job: waiting, executing one attempt
at a time, settled by the first success or the `MaxRetries`-th failure. `Mistake` is the one thing
that the errors of the database may add: a job that waits, or that has succeeded, is counted as
failed once more and waits again or is buried. `JobQueue` maps `queued` and `retry_scheduled` to
waiting and `retry_count` to the failures.

**`LiveWebhook`**, the path of a webhook. `row` is `cafe24_webhook_deliveries`, `request`
the position of each HTTP request between its commits, `run` what the runner does and which
values its session has loaded. Delivery jobs are `JobLifecycle` itself, so the interface on
which this module relies is the one `JobQueue` is shown to implement. Requests interleave with
the runner (the tick runs in a thread) and with each other: the endpoint does not yield within
one process, but several API processes can share a database. The limit of ten deliveries per
retry is larger than any instance here and left out, and so are the contents of the rule; its
commit, the later triage commits and the failure between them are kept. What may be lost: a request, a run
(`RunLost`), an attempt with its session (`SessionBroken`), and a job's claim or result (`TakenForFailed`,
the lifecycle's `Mistake`).

**`ReplyDelivery`**, the replies of one claim. `deliveries` is `reply_deliveries` in the order of ids,
`messages` counts the merchant messages, `request` is what each operator's request has read; `received`,
`unrecorded`, `overlapped` and `moved` are history.

| Code | Actions |
|---|---|
| operator look-up at the start of a request | `Begin` |
| `get_claim` in send, retry, status update | `ReadToSend`, `ReadToRetry`, `ReadToSetStatus`, `RetryRefused` |
| provider | `Reach`; failure is `RecordFailed`, before or after the customer was reached |
| commits | `RecordSent`, `RecordFailed`, `CommitStatus` |
| process dies, commit fails | `Lost` |

A retry reads the claim once: its second `get_claim` returns the object that the session holds.
`created_at`, by which attempts are listed, is the start of the transaction in PostgreSQL and the
insertion in SQLite (`createdAt`). Two claim statuses stand for five. Manual handoff is the provider
that always succeeds.

**`CircuitBreaker`**, one circuit of `CircuitBreakerRegistry`. `execute` reads the clock
(`Arrive`), decides under the lock (`Admit`, `Reject`), calls the service without it and records
the outcome under it again (`CallFails`, `CallSucceeds`). Time is counted in ticks and stored as
ages: `openedFor` since `opened_at`, `lag` since a caller read its clock, `quietFor` (history) since
the last failure. As in the code, a half-open circuit admits every call and a late success closes
an open circuit, whichever call it belongs to. Assumed: the clock does not go back, and a callback
ends with a result or an `Exception`. Left out: `reset`, which the application calls only
before its first request, and `snapshot`, which only reads. The first call creates the circuit
and its thresholds stay. What counts as success is the caller's affair: the reply
webhook's HTTP error statuses do.

**`RateLimiter`**, one bucket of `InMemoryRateLimiter`. `check` and `snapshot` read the clock
(`Arrive`) before they take the lock and prune (`Pruned`), so the deque is in the order of the lock.
Outcomes are `Admit`, `Refuse` and `Snapshot`. An entry is the age of its time stamp;
`admitted` (history) holds the ages of the admissions themselves. A limit of 0 (off) is not modelled.

**`ClaimTriage`**, the claims of one order: whatever jobs and requests (`flow`) do to them. A flow
has its session's `copy` of the columns; an UPDATE writes those that it changed (`Merged`), so
that two flows overwrite each other column by column.

| Code | Actions |
|---|---|
| `_upsert_claim_from_live_order` | `SyncLookup`, `SyncInsert` or `SyncUpdate`, `SyncRefresh` (with the decision whether to triage) |
| `apply_mock_webhook_to_claim`, `apply_live_webhook_to_claim` | `WebhookLoad`, `WebhookStore` |
| `classify_claim`, `generate_draft_reply`, the audit log of a triage | `Classify`, `Draft`, `LogTriage`; cut short by `Abandon` |
| the operators' endpoints | `ClassifyLoad`, `DraftLoad`, `DecideLoad`, `Decide`, `Delete` |

Texts are the set of categories that their words name. `Signal` and `Answered` keep the two
orders in which the code tries keywords: that of the sync (cancellation before refund) and that
of the rule-based provider (refund before cancellation). The external model may answer anything in
`Answers`, and falls back on the rules. Of the review policy only the high risk decides, unless the
model is external; then any outcome is possible for the rest. `late` (another flow has written the
claim since this one loaded it) and `raced`, `moved`, `undrafted` are history. `Classify` reads and
commits in one action: between them is the call of the model, on a copy that is held anyway. Left out: the
other columns, notes, and messages beyond the categories they name.

**`Cafe24Connection`**, the `cafe24_connections` row and the token service behind it. Flows are
OAuth callbacks, token refreshes, live syncs, mock syncs and the console page that creates a missing row.

| Code | Actions |
|---|---|
| `get_or_create_connection` | `CallbackLookup`, `MockLookup`, `PageLookup`, `Insert` |
| `exchange_code`, `refresh_access_token` | `RefreshLoad`, `Grant` (the service), `StoreTokens` |
| `run_live_sync` | `SyncLoad`, `ListOrders`, `SyncClaim`, `SyncNextOrder`, `SyncCompletes`, `SyncFails` |
| `run_mock_sync` | `MockMarks` |
| `build_live_status` | `Advice`, the first of its `Guards` that applies |
| the service refuses or is lost, the process dies | `Fails` |

A grant is a number, which is its access and its refresh token. The code does not say whether
Cafe24 replaces refresh tokens, so `service` has all three kinds: one use each, many uses, none given.
`expired` access tokens expire at any time. `batch` stands for the time, the id and the counts of a sync,
which are new with each one, so that they differ from any copy and are always written; the result is a word
that a copy may have already. A sync that stores a claim ends with `expire_all`, after which assignments are
written whatever the row has; `Written` keeps the difference. `latest` (what the syncs that ended last
assigned) and `muddled` (a stale copy has left the result wrong since) are history. What the claims of the
sync become is `ClaimTriage`'s.

**`DataLifecycle`**, soft delete, purge, demo reset and seed on the tables with their foreign keys.
`engine` is PostgreSQL (foreign keys enforced, ids never used again) or SQLite as `session.py` opens it
(neither). Every inserted claim and every seeded merchant is a new generation; rows carry that of the one
they were written for, so that a reused id shows: on SQLite a merchant that is seeded again has the id it had
before. Live merchants are there from the start. A row or claim is `late` if it was written for a merchant, or
a claim, that was gone.

| Code | Actions |
|---|---|
| `soft_delete_claim`, note, draft, reply | `Load`, `CommitNew`, `CommitRefused` |
| clock | `Expire` |
| `purge_soft_deleted_claims`, `reset_demo_data` | `PurgeRead`, `ResetRead`, `DeleteRows`, `EraseCommit`, `EraseFails` |
| `seed_demo_data` | `SeedRead`, `SeedSkipped`, `SeedCommit` |
| syncs, webhooks, jobs | `LoadMerchant`, then `Integrate`, `NewClaim`, `CommitNew` |

Whoever enqueues a job, takes in a webhook or syncs loads the merchant first and commits rows for it later, a
sync each new claim and what it says of it in two more commits; scripts may commit in between.
The DELETEs on the tables that reference claims are one step (`DeleteRows`, recorded in `gone` until
the commit), the DELETE on `claims` is in the commit; requests that commit in between leave rows that
no DELETE has seen (`Escape`). Rows of one table that one request writes for one claim are one row; the
seed has one claim per demo merchant for its dozens. The second of two erasers waits for the
first one's row locks (PostgreSQL) or write lock (SQLite).

**`MCJobQueue`**, **`MCLiveWebhook`**, **`MCReplyDelivery`**, **`MCClaimTriage`**,
**`MCCafe24Connection`** and **`MCDataLifecycle`** give constants their values; `CircuitBreaker` and
`RateLimiter` need none. Definitions marked "Faulty variant" are not part of any specification: each is what
the definition after it would look like with a plausible bug, and every property is known to fail
with one of them.

## Runs

| Run | Instance | Checks |
|---|---|---|
| `job_single` | 1 runner, 2 jobs, batch 2, 2 retries, 1 abort, 1 database error | `RetryBudget`, `TerminalIsFinal`, `EventuallySettled`, `ImplementsLifecycle` |
| `job_two` | 2 runners, 1 job, batch 2, 2 retries, 1 abort, 1 database error | `TypeOK`, `NoEarlyDeadLetter`, `RunningHasExecutor` |
| `webhook_pair` | 3 requests, 2 events, retry limits 2 | `AcceptedOnce`, `JobAndDeliveryAgree` |
| `webhook_lossy` | 2 requests of 1 event, retry limits 3, 1 loss | `TypeOK`, `ApplicationsAccounted`, `RepeatedOnlyByRetry`, `AcceptedSettles` |
| `webhook_pending` | as `webhook_lossy`, operator who keeps retrying | `RetryDrainsPending`, violated |
| `reply` | 2 operators, 4 requests, 1 lost | `TypeOK`, `SendsAccounted`, `NoNumberSkipped`, `NumbersCount`, `RetrySendsWhatIsOffered`, `ClosedUnlessMoved` |
| `reply_closed` | 2 operators, 3 requests | `ClosedAsReported`, violated |
| `breaker` | 3 callers, threshold 2, recovery 3, lag up to 2 | `TypeOK`, `CountMatchesState`, `HalfOpenIsProbing`, `QuietPeriod`, `EventuallyProbed` |
| `limiter` | 3 threads, limit 2, window 3, lag up to 1 | `TypeOK`, `LimitHolds`, `RefusedForAReason` |
| `triage` | 3 flows of any kind, an order cancelled and then refunded, an odd answer of the model | `TypeOK`, `TriageAccounted`, `OneClaimPerSignal`, `RiskyDraftFlagged`, `DecisionUndoneKnowingly` |
| `connection` | 4 flows of any kind, all token services | `TypeOK`, `RefreshTokenUsable`, `OutcomeKept`, `HealthyAfterSync` |
| `lifecycle` | 2 scripts, a request that drafts and one that deletes or syncs, 1 demo and 1 live merchant, 2 claims, both databases | `TypeOK`, `ErasedLeaveNoRows`, `ErasedRightfully`, `EraseAllOrNothing` |

Bounds. Two retries give a first failure that reschedules and a last one that buries. Jobs
share nothing but the list and the batch, so two of them (one popped, one from the table)
meet every case of a single tick, and one is enough for two ticks racing on a row; a batch
of two holds a duplicate id. `MaxExecutions` keeps a single runner from nothing
(`NoExecutionCutOff` below) and cuts an endless re-claiming race with two. One abort and one
error reach every stage, since each may strike anywhere. In `LiveWebhook` a third request
adds only another duplicate.

In `ReplyDelivery` four requests hold a race of two, a third whose number depends on who came first
and a retry; texts of two kinds tell which failed attempt is repeated.

In `CircuitBreaker` three callers are a probe and two old calls that overtake it. `MaxLag` bounds
the wait for the lock; ages stop growing at `Horizon`, where every comparison has been decided,
and `MaxCount` stops the counter above the threshold, where all counts behave alike. In
`RateLimiter` the lag shows in the guarantee: without it the limit would hold for exactly one
window, with it for the window less the lag (`LimitHolds`), and a refusal is justified within the
window plus the lag (`RefusedForAReason`).

In `ClaimTriage` three flows are a sync that stores the claim and two that meet on it, or two syncs
and the operator between them; the two states of the order are the pair on which the two keyword
orders disagree. In `Cafe24Connection` four flows are a connect and three that race on its tokens, or
a connect, a sync, and two that overtake it. In `DataLifecycle` a claim of each kind of merchant, or two
of one, with one request on each or both on one, meet two erasers; the bound of two inserted claims lets
SQLite hand out an id a second time. To keep the run small, one request drafts while the other deletes, or
syncs for a merchant; notes and replies, which write fewer tables, are in the theorems only, as are claims
of a sync that go to a merchant seeded again (they take three claims).

With two runners the single-runner properties fail in the model as in the code: two ticks
can run a job at the same time and one can overwrite the other's result. The README of the
repository lists "multi-node coordination strategy" as missing, so those properties are
stated for one runner. They hold with database errors, and say what those do: `ResultFails`, an
error in the refresh after a committed result, sends a finished job back to `retry_scheduled`, so that
its handler runs again. `TerminalIsFinal` allows that, as one more counted attempt, and nothing else;
`RetryBudget` bounds the runs of a handler by the attempts that were counted, and those by the runs and
the errors; and `RepeatedOnlyByRetry` says what it means for a webhook.

Fairness. `Tick` is weakly fair because the worker loop starts a new tick after every tick,
even one that raised; `BecomeDue` because time passes. Requests, crashes and Redis owe
nothing. In `LiveWebhook`, `Work` is weakly fair (handlers end) and starting a waiting job is
strongly fair (rows are taken in order of age). `OperatorSpec` adds an operator who asks again
and again, and requests that are served unless lost. In `CircuitBreaker` time passes, the lock is
handed on, calls end (each has an HTTP timeout) and the service is asked for again: an
open circuit that nobody asks for stays open. Terminal states and exhausted bounds let most
instances of the other modules stop, so deadlock is checked only in `job_single`, where ticks
never end, `breaker` and `limiter`.

What `webhook_pending` shows. The endpoint commits `queued`, then stores the job. If it dies in
between, the delivery counts as pending (its `processed_at` is empty), but `retry_failed_webhooks`
selects only `failed` and `received`, and Cafe24's redelivery is answered as a duplicate.
The incident runbook (section 2) offers the retry action for exactly that symptom.

What `reply_closed` shows. A reply with `mark_done` on a claim that was read as done writes no status,
so if it is reopened while the provider is called it stays open, while the page reports it as closed.
`ClosedUnlessMoved` is what holds. Two more things the model shows and no document contradicts: racing
requests can share an `attempt_no`, and a retry repeats the latest failure even after a later success.

What the invariants of `triage`, `connection` and `lifecycle` have to except is what the code does:

* A webhook rule's category and urgency are overwritten by the classification that follows, which reads
  older text as well. With the rule-based provider an order that names both cancellation and refund is
  signalled as the one and classified as the other, so its claim moves and the next sync stores another.
* A claim whose triage is cut short between label and draft is not drafted by later syncs, which triage
  only claims without a label. That, and a label that an operator asked for, is `undrafted`.
* An event puts a decided claim back in review if it loaded it as decided, however old the event is.
* If the answer to a refresh is lost and the service replaces tokens, the row keeps a spent one. The console
  goes on advising "Refresh Token", which fails each time; only a new connect helps.
* "Live connection healthy" says (`live_service.py:583`) that a live sync is on record; a failed or a mock
  sync is enough for it.
* A claim with an AI invocation log cannot be purged on PostgreSQL: the purge does not delete that table,
  the foreign key refuses, and one such claim keeps all the others from being purged or the demo data from
  being reset. `DATABASE_RUNBOOK.md:99` says that child rows remain until the retention window expires.
  On SQLite the log stays and, as ids are used again, shows up under a later claim.
* On SQLite, what a request writes for a claim, or a sync, a webhook or an enqueueing for a merchant, that it
  loaded before a purge or reset is stored all the same: it belongs to nobody, or to the claim that has been
  given the id, or to the merchant that has been seeded again.
* A sync whose copy has the result it assigns leaves it out, but writes its time, id and counts: if another sync
  has ended in between, the row has the result of that one beside the batch of this one.
* The marker of a first connect, "connected, not yet synced", is written over the result of a sync that ended
  since the connect read the row.
* On SQLite a purge that has listed an id may erase a younger claim that has been given this id since.

## Proofs

`JobQueueProofs` proves, for every set of jobs and runners, batch size, retry budget and bound:

* `TypeCorrect`: `TypeOK`, directly inductive.
* `DeadLetterIsEarned`: `NoEarlyDeadLetter`, for racing runners and database errors. It is not
  inductive: a stale session may commit an old counter. `FailureInv` adds that no counter
  exceeds the failures that happened, and that a session about to commit has itself failed
  since its read.
* `RunningIsExecuted`: `RunningHasExecutor`, for racing runners. The point of the argument is the
  skipped status write: a runner in its except branch is a witness only if it read `running`.
* `BudgetIsKept` (`RetryBudget`), `ResultsAreFinal` (`TerminalIsFinal`) and `LifecycleImplemented`
  (`ImplementsLifecycle`): assuming only that there is at most one runner (`SingleRunner`), with any number
  of crashes and database errors. What the runner has read is still true when it writes (`Truthful`), except
  that after an error it may hold a job that has been settled; a job is dead exactly when its counter says
  so (`Buried`); and every run of a handler is paid for by the attempt it ended with, the one under way,
  or a crash, every counted attempt by a run or an error (`Funded`).
* `NoExecutionCutOff`: with a single runner the bound `MaxExecutions` is never what stops a claim.
* `OldestFirst`: with any number of runners, a tick leaves a queued row in the table only if its batch is full
  and every row that it took from the table is older. The code limits the query before it drops the ids
  that were popped; `FallbackIsOldest` shows that the limit, which is raised by their number, loses nothing.

`LiveWebhookProofs`, for any requests, events, retry limits and losses: `TypeCorrect`,
`AcceptedAtMostOnce` (`AcceptedOnce`), `RepeatedByRetryOnly` (`RepeatedOnlyByRetry`),
`EveryApplicationAccounted` (`ApplicationsAccounted`) and `DeadTogether` (`JobAndDeliveryAgree`). They rest on
`Running` (the event in work has been loaded with the counter that the row still has) and `Owned`
(one request per event gets past the unique index). `Counted` says which run has
processed an event: its own job, a retry or a repetition after a loss. `Agreed` ties the delivery to its job
while nothing is lost: every failure of the job is one of the delivery, and both end alike. From them come `SettledForGood`, a delivery whose
job has ended is never changed again, by a duplicate, a retry or another job. The jobs in `LiveWebhook` are by
its construction those of `JobLifecycle`, which `JobQueue` is proved to implement with a single runner.

`Cafe24ConnectionProofs`, for any number of flows: `TypeCorrect`, `TokenOfUse` (`RefreshTokenUsable`),
`OutcomeHolds` (`OutcomeKept`) and `HealthyAdvice` (`HealthyAfterSync`). `Held` and `Counted` say what a flow
holds and bound the grants; `Fresh`, that a granted refresh token is nowhere else until it is stored,
which is why nobody else can have spent it; `Exact`, that the copy of a flow which nobody has overtaken is
the row; `Unused`, that nobody has seen the batch of a flow that has not ended, so that a sync always writes its
own. Time and counts are thereby those of the sync that completed last, without exception; only the result
has the two above. `NoTokenComesBack` follows from `Fresh`: the stored refresh token is replaced only by an unspent
one that no session has ever read, so no stale copy and no sync outcome brings an old one back.

`ClaimTriageProofs`, for any number of flows and any texts, answers and decisions: `TypeCorrect`,
`TriageComplete` (`TriageAccounted`), `NoOtherDuplicate` (`OneClaimPerSignal`), `EventSparesDecision`
(`DecisionUndoneKnowingly`) and `RiskyFlagged` (`RiskyDraftFlagged`). The invariant adds that a label is never
taken back, whoever writes an older copy, and that a flow which nobody has overtaken has the claim as it is
(`Held`); that ids have no gaps (`Numbered`, `Counted`); and that a sync which found no claim of its
category would still find none, unless it is `late` (`Unfiled`, `Unmoved`). `TriageStays` states the first for the
reader: no label and no draft is taken back, although sessions with older copies keep writing the claim.

`ReplyDeliveryProofs`, for any number of operators, texts and requests: `TypeCorrect`,
`EverySendAccounted` (`SendsAccounted`), `NumbersHaveNoGap` (`NoNumberSkipped`), `OneByOneTheyCount`
(`NumbersCount`), `OfferIsKept` (`RetrySendsWhatIsOffered`) and `ClosedOrMoved` (`ClosedUnlessMoved`). Counting
requests bounds the rest (`Metered`); no two transactions share their start (`Stamped`), so that "latest"
has one meaning under either time stamp; the number a request holds follows one that is taken
(`Following`); requests that never overlap are stored in the order they began (`Alone`). `SetAsAskedAlone`: without
overlapping requests the claim has the status asked for when the request commits (`Undisturbed`), so what
`reply_closed` finds needs a race.

`DataLifecycleProofs`, for any merchants, scripts, requests and claims, on both databases: `TypeCorrect`,
`NothingLeft` (`ErasedLeaveNoRows`), `OnlyTheErasable` (`ErasedRightfully`) and `AllOrNothing`
(`EraseAllOrNothing`). That no mall is there twice, although scripts seed at once, rests on the unique
`mall_name` alone. Rows and claims have owners that have existed; on PostgreSQL the foreign keys keep those,
on SQLite one whose owner is gone was `late`. Generations only grow (`Dated`) and are the ids on PostgreSQL (`Named`), so what was listed
or loaded there is still the same claim or gone. What a script has listed it may erase (`Listed`,
`RanOut`). On SQLite nobody writes between the DELETEs and the commit, so the DELETEs have caught every row
of the tables and merchants they name (`Caught`); on PostgreSQL the foreign keys check that at the commit.
`ProductionKeepsRecords`: with `Production` no script is ever a reset (`NoReset`), so no merchant is deleted and,
on PostgreSQL, no claim goes before its retention has run out.

`RateLimiterProofs`, for any number of threads, limit, window and lag: `TypeCorrect`, `LimitKept`
(`LimitHolds`) and `RefusedWithReason` (`RefusedForAReason`). The deque is not ordered by time, so nothing
follows from its first entry about the rest. Counted from the newest, though, recent admissions and
entries correspond: every recent admission has an entry that is at most the lag older (`Covered`), and every
entry that some clock may still find valid has an admission that is no older (`Backed`).

`CircuitBreakerProofs` proves, for every number of callers, threshold, recovery time and lag:
`BreakerTypeCorrect`, `CountTellsState` (`CountMatchesState`), `HalfOpenIsDecided`
(`HalfOpenIsProbing`) and `OpenIsLeftAlone` (`QuietPeriod`), all from the single invariant `BreakerInv`.
`HalfOpenIsProbing` needs `CountMatchesState`: the failure of the last probe must open the circuit,
which it does because the count of the open state is still there. `QuietPeriod` needs
`OpenedByLastFailure`: `opened_at` of an open circuit is the time of the last failure by anybody.

The assumptions are the ASSUMEs of the modules on their constants: positive limits, lags shorter than
windows, finite sets of flows and operators, names that are not those of events. TLC evaluates them in every run.

Only model-checked: liveness (`EventuallySettled`, `AcceptedSettles`, `EventuallyProbed`), which is beyond the
prover, and the two properties that are violated.

## Not modelled

* Authentication and tenant scope: each check reads one request and the configuration, and changes nothing.
* Metrics, redaction and logs: written, never read back by the program.
* HTTP routes and schemas beyond the handlers above: listings and the validation of one request.
* The list of integration events (`_append_event`, `clear_activity`): a log for display.
* Order fields, expiry formats, prompt texts, token counts and costs: data on which nothing here depends.
* Column types, indexes and downgrades of the migrations, settings and schema creation: set-up.
* The web UI, Docker files and local scripts: other programs.

## Plan

In this order.

1. The rule step of `LiveWebhook` refined by `ClaimTriage`.
2. Liveness of a triage: a claim that a sync has stored is drafted, if the worker goes on and no
   triage is cut short.

Runs stay at two to four actors and one fault each. Every safety property that a run checks is proved.
