----------------------------- MODULE LiveWebhook -----------------------------
(***************************************************************************)
(* Live Cafe24 webhooks, from the HTTP request to the claim: the endpoint  *)
(* in api/routes.py, ingestion and processing in live_service.py and the   *)
(* two job handlers in jobs/service.py that run them.                      *)
(*                                                                         *)
(* Jobs are composed in through JobLifecycle, the promise that JobQueue    *)
(* implements for a single runner: here one runner executes delivery jobs  *)
(* and operator retries one after the other, while requests of the web     *)
(* server run concurrently with it.  A request and the job it enqueues     *)
(* share an identity.                                                      *)
(***************************************************************************)
EXTENDS Naturals, FiniteSets, Sequences

CONSTANTS
  Requests,          \* HTTP requests from Cafe24, redeliveries included
  Events,            \* webhook events; an event is its dedupe_key
  EventOf,           \* the event that a request carries
  MaxWebhookRetries, \* MAX_WEBHOOK_RETRIES of live_service.py
  MaxJobRetries,     \* max_retries of the delivery jobs
  MaxLost            \* bound: requests that die, runs that are cut short or taken for failed

ASSUME EventOfAssumption == EventOf \in [Requests -> Events]
ASSUME WebhookRetriesAssumption ==
  /\ MaxWebhookRetries \in Nat \ {0} /\ MaxJobRetries \in Nat \ {0}
  /\ MaxWebhookRetries <= MaxJobRetries
ASSUME LostAssumption == MaxLost \in Nat
ASSUME NameAssumption == "none" \notin Events \cup Requests /\ "retry" \notin Requests

VARIABLES
  row,          \* cafe24_webhook_deliveries: status and retry_count per event
  request,      \* where each HTTP request stands
  jobPhase, jobFailed,       \* the delivery jobs, as JobLifecycle sees them
  retryAsked,   \* a retry_failed_webhooks job is waiting
  run,          \* what the runner is doing
  applied,      \* history: times the event's rule was committed on its claim
  completed,    \* history: times the event was processed to the end
  retried,      \* history: events that an operator's retry has processed
  lost          \* history: what died, was cut short or was taken for failed

jobs == <<jobPhase, jobFailed>>
history == <<applied, completed, retried, lost>>
vars == <<row, request, jobs, retryAsked, run, history>>

Job == INSTANCE JobLifecycle WITH
  Jobs <- Requests, MaxRetries <- MaxJobRetries, phase <- jobPhase, failed <- jobFailed,
  ErrorsPossible <- MaxLost > 0

NoRow == [status |-> "absent", count |-> 0]
NotLoaded == [e \in Events |-> NoRow]
Idle == [stage |-> "idle", job |-> "none", event |-> "none", todo |-> {},
         seen |-> NotLoaded]

Init ==
  /\ row = [e \in Events |-> NoRow]
  /\ request = [r \in Requests |-> "arriving"]
  /\ Job!Init
  /\ retryAsked = FALSE
  /\ run = Idle
  /\ applied = [e \in Events |-> 0]
  /\ completed = [e \in Events |-> 0]
  /\ retried = {}
  /\ lost = 0

(***************************************************************************)
(* The request.  ingest_live_webhook looks the dedupe key up and inserts   *)
(* in another step; the unique index turns the loser of a race into an     *)
(* error.  The endpoint then writes "queued" over whatever the row says,   *)
(* and enqueues the job in a commit of its own.                            *)
(***************************************************************************)
LookUp(r) ==
  /\ request[r] = "arriving"
  /\ request' = [request EXCEPT
       ![r] = IF row[EventOf[r]] = NoRow THEN "new" ELSE "duplicate"]
  /\ UNCHANGED <<row, jobs, retryAsked, run, history>>

\* Faulty variant: the dedupe key has no unique index.
InsertNotUnique(r) ==
  /\ request[r] = "new"
  /\ row' = [row EXCEPT ![EventOf[r]] = [status |-> "received", count |-> 0]]
  /\ request' = [request EXCEPT ![r] = "inserted"]
  /\ UNCHANGED <<jobs, retryAsked, run, history>>

Insert(r) ==
  /\ request[r] = "new"
  /\ IF row[EventOf[r]] = NoRow
       THEN /\ row' = [row EXCEPT ![EventOf[r]] = [status |-> "received", count |-> 0]]
            /\ request' = [request EXCEPT ![r] = "inserted"]
       ELSE /\ request' = [request EXCEPT ![r] = "rejected"]
            /\ UNCHANGED row
  /\ UNCHANGED <<jobs, retryAsked, run, history>>

MarkQueued(r) ==
  /\ request[r] = "inserted"
  /\ row' = [row EXCEPT ![EventOf[r]].status = "queued"]
  /\ request' = [request EXCEPT ![r] = "queued"]
  /\ UNCHANGED <<jobs, retryAsked, run, history>>

\* Faulty variant: the response goes out although no job was stored.
EnqueueNothing(r) ==
  /\ request[r] = "queued"
  /\ request' = [request EXCEPT ![r] = "accepted"]
  /\ UNCHANGED <<row, jobs, retryAsked, run, history>>

Enqueue(r) ==
  /\ request[r] = "queued"
  /\ Job!Submit(r)
  /\ request' = [request EXCEPT ![r] = "accepted"]
  /\ UNCHANGED <<row, retryAsked, run, history>>

\* The process stops or the database fails between two commits of the request.
RequestLost(r) ==
  /\ request[r] \in {"arriving", "new", "inserted", "queued"}
  /\ lost < MaxLost
  /\ lost' = lost + 1
  /\ request' = [request EXCEPT ![r] = "died"]
  /\ UNCHANGED <<row, jobs, retryAsked, run, applied, completed, retried>>

(***************************************************************************)
(* The runner.  A delivery job loads its row when it starts, whatever its  *)
(* status; an operator's retry loads all failed and received rows at once  *)
(* and works through them.  run.seen is the row as the session loaded it.  *)
(***************************************************************************)
StartDelivery(r) ==
  /\ run = Idle
  /\ Job!Start(r)
  /\ run' = [stage |-> "rule", job |-> r, event |-> EventOf[r], todo |-> {},
             seen |-> [NotLoaded EXCEPT ![EventOf[r]] = row[EventOf[r]]]]
  /\ UNCHANGED <<row, request, retryAsked, history>>

\* cafe24_retry_failed_live_webhooks enqueues a job whenever a manager asks.
AskRetry ==
  /\ ~retryAsked
  /\ retryAsked' = TRUE
  /\ UNCHANGED <<row, request, jobs, run, history>>

Retryable == {e \in Events : row[e].status \in {"failed", "received"}}

StartRetry ==
  /\ run = Idle /\ retryAsked
  /\ retryAsked' = FALSE
  /\ run' = [stage |-> "pick", job |-> "retry", event |-> "none",
             todo |-> Retryable, seen |-> row]
  /\ UNCHANGED <<row, request, jobs, history>>

\* A row whose loaded values have expired is loaded again when its turn comes.
PickNext ==
  /\ run.stage = "pick"
  /\ \E e \in run.todo :
       run' = [run EXCEPT !.stage = "rule", !.event = e, !.todo = @ \ {e},
                          !.seen[e] = IF @ = NoRow THEN row[e] ELSE @]
  /\ UNCHANGED <<row, request, jobs, retryAsked, history>>

RetryDone ==
  /\ run.stage = "pick" /\ run.todo = {}
  /\ run' = Idle
  /\ UNCHANGED <<row, request, jobs, retryAsked, history>>

(***************************************************************************)
(* process_live_webhook_delivery.  apply_live_webhook_to_claim commits the *)
(* event's rule first, then classification and draft; an exception before  *)
(* or after the rule's commit is a failed attempt.  The status column is   *)
(* written only if it differs from the loaded one, except after a success, *)
(* where the session has expired everything that it loaded.                *)
(***************************************************************************)
ApplyRule ==
  /\ run.stage = "rule"
  /\ applied' = [applied EXCEPT ![run.event] = @ + 1]
  /\ run' = [run EXCEPT !.stage = "triage"]
  /\ UNCHANGED <<row, request, jobs, retryAsked, completed, retried, lost>>

AfterAttempt(outcome) == IF run.job = "retry" THEN "pick" ELSE outcome

Complete ==
  LET e == run.event IN
  /\ run.stage = "triage"
  /\ row' = [row EXCEPT ![e].status = "processed"]
  /\ run' = [run EXCEPT !.stage = AfterAttempt("ok"), !.seen = NotLoaded]
  /\ completed' = [completed EXCEPT ![e] = @ + 1]
  /\ retried' = IF run.job = "retry" THEN retried \cup {e} ELSE retried
  /\ UNCHANGED <<request, jobs, retryAsked, applied, lost>>

\* Faulty variants: one failed attempt too many before the dead letter; the status
\* word of the jobs.
StatusAfterFailureLate(count) ==
  IF count > MaxWebhookRetries THEN "dead_letter" ELSE "failed"

StatusAfterFailureWord(count) ==
  IF count >= MaxWebhookRetries THEN "dead_letter" ELSE "retry_scheduled"

StatusAfterFailure(count) ==
  IF count >= MaxWebhookRetries THEN "dead_letter" ELSE "failed"

\* Faulty variant: the attempt is not counted when the rule was already committed.
FailAttemptUncounted ==
  LET e == run.event
      count == IF run.stage = "rule" THEN run.seen[e].count + 1 ELSE run.seen[e].count
      target == StatusAfterFailure(count)
  IN
  /\ run.stage \in {"rule", "triage"}
  /\ row' = [row EXCEPT ![e] = [status |-> target, count |-> count]]
  /\ run' = [run EXCEPT !.stage = AfterAttempt("failed")]
  /\ UNCHANGED <<request, jobs, retryAsked, history>>

FailAttempt ==
  LET e == run.event
      count == run.seen[e].count + 1
      target == StatusAfterFailure(count)
  IN
  /\ run.stage \in {"rule", "triage"}
  /\ row' = [row EXCEPT ![e] =
       [status |-> IF target = run.seen[e].status THEN @.status ELSE target, count |-> count]]
  /\ run' = [run EXCEPT !.stage = AfterAttempt("failed")]
  /\ UNCHANGED <<request, jobs, retryAsked, history>>

\* Faulty variant: the handler raises whatever came of the delivery.
SettleAlwaysFails ==
  /\ run.stage \in {"ok", "failed"} /\ Job!Fail(run.job)
  /\ run' = Idle
  /\ UNCHANGED <<row, request, retryAsked, history>>

\* _handle_live_webhook_delivery raises after a failed attempt, so that the job
\* fails with its delivery; otherwise the job succeeds.
Settle ==
  /\ \/ run.stage = "ok" /\ Job!Succeed(run.job)
     \/ run.stage = "failed" /\ Job!Fail(run.job)
  /\ run' = Idle
  /\ UNCHANGED <<row, request, retryAsked, history>>

(***************************************************************************)
(* What can go wrong under the handlers.  A stopped process leaves a job   *)
(* executing.  After a database error the except branch commits without a  *)
(* rollback, which fails again: the job fails, its delivery is unchanged.  *)
(***************************************************************************)
RunLost ==
  /\ run # Idle
  /\ lost < MaxLost
  /\ lost' = lost + 1
  /\ run' = Idle
  /\ UNCHANGED <<row, request, jobs, retryAsked, applied, completed, retried>>

SessionBroken ==
  /\ run.stage \in {"rule", "triage"}
  /\ lost < MaxLost
  /\ lost' = lost + 1
  /\ IF run.job = "retry"
       THEN run' = Idle /\ retryAsked' = TRUE
       ELSE run' = [run EXCEPT !.stage = "failed"] /\ UNCHANGED retryAsked
  /\ UNCHANGED <<row, request, jobs, applied, completed, retried>>

\* A database error outside the handler: the commit that claims a waiting job fails, or
\* the refresh after the commit of SUCCEEDED does.  The except branch takes the job for
\* failed either way, and a job whose delivery is processed may run again.
TakenForFailed(r) ==
  /\ lost < MaxLost
  /\ lost' = lost + 1
  /\ Job!Mistake(r)
  /\ \/ run = Idle /\ jobPhase[r] = "waiting"
     \/ run.stage = "ok" /\ run.job = r
  /\ run' = Idle
  /\ UNCHANGED <<row, request, retryAsked, applied, completed, retried>>

Serve(r) == LookUp(r) \/ Insert(r) \/ MarkQueued(r) \/ Enqueue(r)

Work == PickNext \/ RetryDone \/ ApplyRule \/ Complete \/ FailAttempt \/ Settle

Next ==
  \/ \E r \in Requests : Serve(r) \/ RequestLost(r) \/ StartDelivery(r) \/ TakenForFailed(r)
  \/ AskRetry \/ StartRetry
  \/ Work
  \/ RunLost \/ SessionBroken

Spec == Init /\ [][Next]_vars

\* A job handler ends, and the table is scanned in order of age: a waiting job is
\* not overtaken for ever.  Requests and crashes owe nothing.
RunnerFairness ==
  /\ WF_vars(Work)
  /\ \A r \in Requests : SF_vars(StartDelivery(r))
  /\ SF_vars(StartRetry)

FairSpec == Spec /\ RunnerFairness

\* The runbook's operator, who asks for a retry again and again, while requests
\* that are not lost are served.
OperatorSpec ==
  FairSpec /\ WF_vars(AskRetry) /\ \A r \in Requests : WF_vars(Serve(r))

-----------------------------------------------------------------------------
Rows == [status : {"absent", "received", "queued", "processed", "failed", "dead_letter"},
         count : Nat]

TypeOK ==
  /\ row \in [Events -> Rows]
  /\ request \in [Requests -> {"arriving", "duplicate", "new", "rejected", "inserted",
                               "queued", "accepted", "died"}]
  /\ jobPhase \in [Requests -> {"absent", "waiting", "executing", "succeeded", "dead_letter"}]
  /\ jobFailed \in [Requests -> Nat]
  /\ retryAsked \in BOOLEAN
  /\ run \in [stage : {"idle", "pick", "rule", "triage", "ok", "failed"},
              job : Requests \cup {"none", "retry"},
              event : Events \cup {"none"},
              todo : SUBSET Events,
              seen : [Events -> Rows]]
  /\ applied \in [Events -> Nat] /\ completed \in [Events -> Nat]
  /\ retried \subseteq Events
  /\ lost \in Nat

\* Of the requests that carry one event, at most one is accepted and gets a job,
\* however they interleave between the lookup and the insert (ingest_live_webhook).
AcceptedOnce ==
  \A q, r \in Requests :
    q # r /\ EventOf[q] = EventOf[r] => ~(request[q] = "accepted" /\ request[r] = "accepted")

\* An event is processed to the end more than once only if an operator's retry
\* processed it while its own job was still owed, or, once per loss, if an error took
\* the job's success for a failure: the job alone never repeats it.
RepeatedOnlyByRetry ==
  \A e \in Events : completed[e] > 1 + lost => e \in retried

\* Every commit of an event's rule on its claim (a message and an audit entry each)
\* is a completion, a failure that the delivery counts, the attempt under way, or
\* belongs to something that was lost.
ApplicationsAccounted ==
  \A e \in Events :
    applied[e] <= completed[e] + row[e].count + lost
                  + (IF run.event = e /\ run.stage = "triage" THEN 1 ELSE 0)

\* Where nothing was lost, a delivery job ends as its delivery does, so that the status
\* page and the jobs of the diagnostics tell the same story; retries in between, which
\* spend the same counter, do not change that.
JobAndDeliveryAgree ==
  lost = 0 =>
    \A r \in Requests :
      /\ jobPhase[r] = "succeeded" => row[EventOf[r]].status = "processed"
      /\ jobPhase[r] = "dead_letter" => row[EventOf[r]].status = "dead_letter"

\* An accepted event ends processed or dead-lettered for good, unless something was
\* lost on the way.
AcceptedSettles ==
  \A r \in Requests :
    request[r] = "accepted" ~>
      (row[EventOf[r]].status \in {"processed", "dead_letter"} /\ run = Idle) \/ lost > 0

\* What INCIDENT_RESPONSE_RUNBOOK.md promises an operator with growing pending
\* webhooks: that running the retry action works them off.
RetryDrainsPending ==
  \A e \in Events :
    row[e].status = "queued" ~> row[e].status \in {"processed", "dead_letter"}

=============================================================================
