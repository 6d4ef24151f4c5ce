------------------------------ MODULE JobQueue ------------------------------
(***************************************************************************)
(* The background job queue of api/app/jobs/service.py, run by the worker  *)
(* loop of main.py and by POST /jobs/process-pending.                      *)
(*                                                                         *)
(* The table background_jobs is the truth; the Redis list only says which  *)
(* rows to look at first.  A tick of a runner promotes the due retries,    *)
(* pops ids from Redis, fills the batch from the table and processes the   *)
(* batch one job at a time.  The service takes no row lock: every read and *)
(* every commit of a tick is a step of its own, and an UPDATE is keyed by  *)
(* the id alone and writes only the columns that the session saw change.   *)
(***************************************************************************)
EXTENDS Naturals, FiniteSets, Sequences, SequencesExt

CONSTANTS
  Jobs,            \* ids of background_jobs, in the order of creation
  Runners,         \* whoever runs ticks: the worker loop, process-pending requests
  BatchSize,       \* background_job_batch_size
  MaxRetries,      \* BackgroundJob.max_retries
  MaxAborts,       \* bound: ticks cut short by a crash or a lost connection
  MaxErrors,       \* bound: database errors that the except branch outlives
  MaxExecutions    \* bound: handler runs of one job

ASSUME JobsAssumption == Jobs \subseteq Nat \ {0}
ASSUME BatchAssumption == BatchSize \in Nat \ {0}
ASSUME RetriesAssumption == MaxRetries \in Nat \ {0}
ASSUME BoundsAssumption ==
  MaxAborts \in Nat /\ MaxErrors \in Nat /\ MaxExecutions \in Nat

VARIABLES
  status, retryCount, due,       \* the rows; due: available_at has passed
  queue, redisUp,                \* the Redis list and whether Redis answers
  unpushed,                      \* requests between their commit and their rpush
  pc, promoting, popped, fallback, current, seen,     \* local state of a tick
  executions, failures, stranded, aborts, errors      \* history

rows   == <<status, retryCount, due>>
redis  == <<queue, redisUp>>
locals == <<pc, promoting, popped, fallback, current, seen>>
history == <<executions, failures, stranded, aborts, errors>>
vars   == <<rows, redis, unpushed, locals, history>>

NoJob == 0
Terminal == {"succeeded", "dead_letter"}
Statuses == {"absent", "queued", "running", "retry_scheduled"} \cup Terminal
NothingSeen == [status |-> "absent", count |-> 0]
Stages == {"idle", "promote", "fill", "next", "claim", "handle", "error", "fail"}
Executing(w, j) == pc[w] \in {"handle", "fail"} /\ current[w] = j

Init ==
  /\ status = [j \in Jobs |-> "absent"]
  /\ retryCount = [j \in Jobs |-> 0]
  /\ due = [j \in Jobs |-> FALSE]
  /\ queue = <<>> /\ redisUp \in BOOLEAN
  /\ unpushed = {}
  /\ pc = [w \in Runners |-> "idle"]
  /\ promoting = [w \in Runners |-> {}]
  /\ popped = [w \in Runners |-> <<>>]
  /\ fallback = [w \in Runners |-> {}]
  /\ current = [w \in Runners |-> NoJob]
  /\ seen = [w \in Runners |-> NothingSeen]
  /\ executions = [j \in Jobs |-> 0]
  /\ failures = [j \in Jobs |-> 0]
  /\ stranded = {}
  /\ aborts = 0 /\ errors = 0

(***************************************************************************)
(* enqueue_background_job: the row is committed first and pushed second,   *)
(* so a request that dies in between leaves a row that Redis never hears   *)
(* of.                                                                     *)
(***************************************************************************)
EnqueueCommit(j) ==
  /\ status[j] = "absent"
  /\ \A i \in Jobs : i < j => status[i] # "absent"
  /\ status' = [status EXCEPT ![j] = "queued"]
  /\ due' = [due EXCEPT ![j] = TRUE]
  /\ unpushed' = unpushed \cup {j}
  /\ UNCHANGED <<retryCount, redis, locals, history>>

\* push_job_to_queue gives up silently when Redis does not answer.
Pushed(j) == IF redisUp THEN Append(queue, j) ELSE queue

EnqueuePush(j) ==
  /\ j \in unpushed
  /\ unpushed' = unpushed \ {j}
  /\ queue' = Pushed(j)
  /\ UNCHANGED <<rows, redisUp, locals, history>>

EnqueueAbort(j) ==
  /\ j \in unpushed
  /\ unpushed' = unpushed \ {j}
  /\ UNCHANGED <<rows, redis, locals, history>>

(***************************************************************************)
(* promote_due_jobs: read the due retries, commit QUEUED on whatever was   *)
(* read, then push the ids one by one.  Which of them are oldest is left   *)
(* open: available_at is abstracted to the flag due.                       *)
(***************************************************************************)
\* Faulty variant: the query filters on available_at alone.
DueJobsAnyStatus == {j \in Jobs : due[j]}

DueJobs == {j \in Jobs : status[j] = "retry_scheduled" /\ due[j]}

PromoteRead(w) ==
  /\ pc[w] = "idle"
  /\ \E S \in SUBSET DueJobs :
       /\ Cardinality(S) <= BatchSize
       /\ S # DueJobs => Cardinality(S) = BatchSize
       /\ promoting' = [promoting EXCEPT ![w] = S]
  /\ pc' = [pc EXCEPT ![w] = "promote"]
  /\ UNCHANGED <<rows, redis, unpushed, popped, fallback, current, seen, history>>

PromoteCommit(w) ==
  /\ pc[w] = "promote"
  /\ status' = [j \in Jobs |-> IF j \in promoting[w] THEN "queued" ELSE status[j]]
  /\ pc' = [pc EXCEPT ![w] = "fill"]
  /\ UNCHANGED <<retryCount, due, redis, unpushed, promoting, popped, fallback,
                 current, seen, history>>

PushPromoted(w) ==
  /\ pc[w] = "fill"
  /\ \E j \in promoting[w] :
       /\ queue' = Pushed(j)
       /\ promoting' = [promoting EXCEPT ![w] = @ \ {j}]
  /\ UNCHANGED <<rows, redisUp, unpushed, pc, popped, fallback, current, seen, history>>

(***************************************************************************)
(* pop_queued_job_ids pops up to BatchSize ids and stops at the first      *)
(* empty or failed pop; _fallback_queued_job_ids then tops the batch up    *)
(* with the oldest QUEUED rows that were not popped.                       *)
(***************************************************************************)
CanPop(w) == redisUp /\ queue # <<>> /\ Len(popped[w]) < BatchSize

PopOne(w) ==
  /\ pc[w] = "fill" /\ promoting[w] = {}
  /\ CanPop(w)
  /\ popped' = [popped EXCEPT ![w] = Append(@, Head(queue))]
  /\ queue' = Tail(queue)
  /\ UNCHANGED <<rows, redisUp, unpushed, pc, promoting, fallback, current, seen, history>>

\* The n smallest members of S.
Oldest(S, n) == {j \in S : Cardinality({i \in S : i < j}) < n}

\* Faulty variant: no fallback to the table.
FallbackJobsNone(w) == {}

FallbackJobs(w) ==
  LET excluded == ToSet(popped[w])
      room == BatchSize - Len(popped[w])
      candidates == Oldest({j \in Jobs : status[j] = "queued"}, room + Cardinality(excluded))
  IN  Oldest(candidates \ excluded, room)

FillFromTable(w) ==
  /\ pc[w] = "fill" /\ promoting[w] = {}
  /\ ~CanPop(w)
  /\ fallback' = [fallback EXCEPT ![w] = FallbackJobs(w)]
  /\ pc' = [pc EXCEPT ![w] = "next"]
  /\ UNCHANGED <<rows, redis, unpushed, promoting, popped, current, seen, history>>

(***************************************************************************)
(* process_background_job on the batch, popped ids first.  The status read *)
(* is one step and the RUNNING commit another; only QUEUED rows are taken. *)
(* The refresh after the claim is merged into ClaimCommit.                 *)
(***************************************************************************)
NextJob(w, j) ==
  IF popped[w] # <<>> THEN j = Head(popped[w]) ELSE j \in Oldest(fallback[w], 1)

TakeNext(w, j) ==
  /\ NextJob(w, j)
  /\ IF popped[w] # <<>>
       THEN popped' = [popped EXCEPT ![w] = Tail(@)] /\ UNCHANGED fallback
       ELSE fallback' = [fallback EXCEPT ![w] = @ \ {j}] /\ UNCHANGED popped

\* Faulty variant: the status of the row is not checked before the claim.
ClaimReadUnchecked(w) ==
  /\ pc[w] = "next"
  /\ \E j \in Jobs :
       /\ TakeNext(w, j)
       /\ pc' = [pc EXCEPT ![w] = "claim"]
       /\ current' = [current EXCEPT ![w] = j]
  /\ UNCHANGED <<rows, redis, unpushed, promoting, seen, history>>

ClaimRead(w) ==
  /\ pc[w] = "next"
  /\ \E j \in Jobs :
       /\ TakeNext(w, j)
       /\ IF status[j] = "queued"
            THEN /\ pc' = [pc EXCEPT ![w] = "claim"]
                 /\ current' = [current EXCEPT ![w] = j]
            ELSE UNCHANGED <<pc, current>>
  /\ UNCHANGED <<rows, redis, unpushed, promoting, seen, history>>

TickDone(w) ==
  /\ pc[w] = "next" /\ popped[w] = <<>> /\ fallback[w] = {}
  /\ pc' = [pc EXCEPT ![w] = "idle"]
  /\ UNCHANGED <<rows, redis, unpushed, promoting, popped, fallback, current, seen, history>>

ClaimCommit(w) ==
  LET j == current[w] IN
  /\ pc[w] = "claim"
  /\ executions[j] < MaxExecutions
  /\ status' = [status EXCEPT ![j] = "running"]
  /\ executions' = [executions EXCEPT ![j] = @ + 1]
  /\ pc' = [pc EXCEPT ![w] = "handle"]
  /\ UNCHANGED <<retryCount, due, redis, unpushed, promoting, popped, fallback,
                 current, seen, failures, stranded, aborts, errors>>

\* The runner has no job in hand any more and looks for the next one of its batch.
Release(w) ==
  /\ pc' = [pc EXCEPT ![w] = "next"]
  /\ current' = [current EXCEPT ![w] = NoJob]

Succeed(w) ==
  /\ pc[w] = "handle"
  /\ status' = [status EXCEPT ![current[w]] = "succeeded"]
  /\ Release(w)
  /\ UNCHANGED <<retryCount, due, redis, unpushed, promoting, popped, fallback,
                 seen, history>>

(***************************************************************************)
(* A database error around the handler is caught by the same except branch *)
(* as an exception of the handler: the read of a row of any status, the    *)
(* claim, or the refresh that follows the commit of the result.            *)
(***************************************************************************)
ReadFails(w) ==
  /\ pc[w] = "next"
  /\ \E j \in Jobs : TakeNext(w, j) /\ current' = [current EXCEPT ![w] = j]
  /\ UNCHANGED status

ClaimFails(w) ==
  /\ pc[w] = "claim"
  /\ UNCHANGED <<status, current, popped, fallback>>

ResultFails(w) ==
  /\ pc[w] = "handle"
  /\ status' = [status EXCEPT ![current[w]] = "succeeded"]
  /\ UNCHANGED <<current, popped, fallback>>

DatabaseError(w) ==
  /\ errors < MaxErrors
  /\ errors' = errors + 1
  /\ ReadFails(w) \/ ClaimFails(w) \/ ResultFails(w)
  /\ pc' = [pc EXCEPT ![w] = "error"]
  /\ UNCHANGED <<retryCount, due, redis, unpushed, promoting, seen,
                 executions, failures, stranded, aborts>>

(***************************************************************************)
(* The except branch: a new session reads the row, then commits the        *)
(* incremented counter.  The status column is part of the UPDATE only if   *)
(* the new status differs from the one this session read.                  *)
(***************************************************************************)
FailRead(w) ==
  LET j == current[w] IN
  /\ pc[w] \in {"handle", "error"}
  /\ seen' = [seen EXCEPT ![w] = [status |-> status[j], count |-> retryCount[j]]]
  /\ failures' = [failures EXCEPT ![j] = @ + 1]
  /\ pc' = [pc EXCEPT ![w] = "fail"]
  /\ UNCHANGED <<rows, redis, unpushed, promoting, popped, fallback, current,
                 executions, stranded, aborts, errors>>

\* Faulty variants: the status word of webhook deliveries; the comparison made before
\* the increment; one attempt too many.
StatusAfterFailureWord(count) ==
  IF count >= MaxRetries THEN "failed" ELSE "retry_scheduled"
StatusAfterFailureEarly(count) ==
  IF count >= MaxRetries - 1 THEN "dead_letter" ELSE "retry_scheduled"
StatusAfterFailureLate(count) ==
  IF count > MaxRetries THEN "dead_letter" ELSE "retry_scheduled"

StatusAfterFailure(count) ==
  IF count >= MaxRetries THEN "dead_letter" ELSE "retry_scheduled"

\* Faulty variant: the retry is counted and timed but its status is not set.
FailCommitNoReschedule(w) ==
  LET j == current[w]
      count == seen[w].count + 1
  IN
  /\ pc[w] = "fail"
  /\ retryCount' = [retryCount EXCEPT ![j] = count]
  /\ status' = IF count >= MaxRetries THEN [status EXCEPT ![j] = "dead_letter"] ELSE status
  /\ due' = [due EXCEPT ![j] = FALSE]
  /\ seen' = [seen EXCEPT ![w] = NothingSeen]
  /\ Release(w)
  /\ UNCHANGED <<redis, unpushed, promoting, popped, fallback, history>>

FailCommit(w) ==
  LET j == current[w]
      count == seen[w].count + 1
      target == StatusAfterFailure(count)
  IN
  /\ pc[w] = "fail"
  /\ retryCount' = [retryCount EXCEPT ![j] = count]
  /\ status' = IF target = seen[w].status THEN status ELSE [status EXCEPT ![j] = target]
  /\ due' = [due EXCEPT ![j] = FALSE]
  /\ seen' = [seen EXCEPT ![w] = NothingSeen]
  /\ Release(w)
  /\ UNCHANGED <<redis, unpushed, promoting, popped, fallback, history>>

(***************************************************************************)
(* Environment: a tick ends in the middle (process stopped, database       *)
(* connection lost), time passes, Redis fails and comes back with or       *)
(* without its list.  The worker loop logs the exception and ticks again;  *)
(* nothing ever looks at a row that was left RUNNING.                      *)
(***************************************************************************)
Abort(w) ==
  /\ pc[w] # "idle"
  /\ aborts < MaxAborts
  /\ aborts' = aborts + 1
  /\ stranded' = stranded \cup {j \in Jobs : Executing(w, j)}
  /\ pc' = [pc EXCEPT ![w] = "idle"]
  /\ promoting' = [promoting EXCEPT ![w] = {}]
  /\ popped' = [popped EXCEPT ![w] = <<>>]
  /\ fallback' = [fallback EXCEPT ![w] = {}]
  /\ current' = [current EXCEPT ![w] = NoJob]
  /\ seen' = [seen EXCEPT ![w] = NothingSeen]
  /\ UNCHANGED <<rows, redis, unpushed, executions, failures, errors>>

BecomeDue(j) ==
  /\ status[j] = "retry_scheduled" /\ ~due[j]
  /\ due' = [due EXCEPT ![j] = TRUE]
  /\ UNCHANGED <<status, retryCount, redis, unpushed, locals, history>>

RedisDown ==
  /\ redisUp
  /\ redisUp' = FALSE
  /\ queue' \in {queue, <<>>}
  /\ UNCHANGED <<rows, unpushed, locals, history>>

RedisBack ==
  /\ ~redisUp
  /\ redisUp' = TRUE
  /\ UNCHANGED <<rows, queue, unpushed, locals, history>>

Request == \E j \in Jobs : EnqueueCommit(j) \/ EnqueuePush(j) \/ EnqueueAbort(j)

Tick(w) ==
  \/ PromoteRead(w) \/ PromoteCommit(w) \/ PushPromoted(w)
  \/ PopOne(w) \/ FillFromTable(w)
  \/ ClaimRead(w) \/ TickDone(w) \/ ClaimCommit(w)
  \/ Succeed(w) \/ FailRead(w) \/ FailCommit(w)

Next ==
  \/ Request
  \/ \E w \in Runners : Tick(w) \/ DatabaseError(w) \/ Abort(w)
  \/ \E j \in Jobs : BecomeDue(j)
  \/ RedisDown \/ RedisBack

Spec == Init /\ [][Next]_vars

\* main.py starts the loop again after every tick, whatever the tick did, and
\* the clock passes every available_at.  Requests, aborts and Redis owe nothing.
Fairness ==
  /\ \A w \in Runners : WF_vars(Tick(w))
  /\ \A j \in Jobs : WF_vars(BecomeDue(j))

FairSpec == Spec /\ Fairness

-----------------------------------------------------------------------------
TypeOK ==
  /\ status \in [Jobs -> Statuses]
  /\ retryCount \in [Jobs -> Nat]
  /\ due \in [Jobs -> BOOLEAN]
  /\ queue \in Seq(Jobs) /\ redisUp \in BOOLEAN
  /\ unpushed \subseteq Jobs
  /\ pc \in [Runners -> Stages]
  /\ promoting \in [Runners -> SUBSET Jobs]
  /\ popped \in [Runners -> Seq(Jobs)]
  /\ fallback \in [Runners -> SUBSET Jobs]
  /\ current \in [Runners -> Jobs \cup {NoJob}]
  /\ \A w \in Runners : pc[w] \in {"claim", "handle", "error", "fail"} => current[w] \in Jobs
  /\ seen \in [Runners -> [status : Statuses, count : Nat]]
  /\ executions \in [Jobs -> Nat]
  /\ failures \in [Jobs -> Nat]
  /\ stranded \subseteq Jobs
  /\ aborts \in Nat /\ errors \in Nat

(***************************************************************************)
(* Properties that hold for any number of concurrent runners.              *)
(***************************************************************************)

\* A job reaches dead_letter only after at least MaxRetries attempts at it really
\* failed, although concurrent runners overwrite each other's counter
\* (process_background_job lines 283-291).
NoEarlyDeadLetter ==
  \A j \in Jobs : status[j] = "dead_letter" => failures[j] >= MaxRetries

\* A row says running only while some runner is executing that very job and will
\* overwrite the status, or because the tick that executed it was cut short: no
\* interleaving of claims, promotions and skipped status writes leaves it behind.
RunningHasExecutor ==
  \A j \in Jobs :
    status[j] = "running" =>
      \/ j \in stranded
      \/ \E w \in Runners :
           /\ Executing(w, j)
           /\ pc[w] = "fail" => seen[w].status = "running"

(***************************************************************************)
(* Properties of a single runner, the deployment that the README describes *)
(* (no multi-node coordination strategy).  SingleRunner is what the proofs *)
(* assume and what the single-runner configuration satisfies.  Database    *)
(* errors are part of it: one that follows the commit of a result enters   *)
(* the except branch like a failed attempt.                                *)
(***************************************************************************)
SingleRunner == \A v, w \in Runners : v = w

\* Duplicate ids in Redis, ids popped for rows that the table scan also found and
\* promotions never make a settled job run again or change its result.  A dead letter
\* is final whatever happens; a success is taken back only after a database error, and
\* then it costs one of the job's attempts (process_background_job lines 262-291).
TerminalIsFinal ==
  [][\A j \in Jobs :
       status[j] \in Terminal /\ status'[j] # status[j]
         => /\ status[j] = "succeeded" /\ errors > 0
            /\ retryCount'[j] = retryCount[j] + 1]_vars

\* Every handler run of a job is paid for: it failed and was counted, it gave the
\* result, or it is the one under way (or stranded); what is paid beyond that are
\* database errors, one attempt each.  So however often an error sends a finished job
\* back, a handler is started at most MaxRetries times, and the job is dead exactly
\* when the budget is spent.
RetryBudget ==
  \A j \in Jobs :
    LET paid == retryCount[j] + (IF status[j] \in {"running", "succeeded"} THEN 1 ELSE 0)
    IN  /\ executions[j] <= paid /\ paid <= executions[j] + errors
        /\ executions[j] <= MaxRetries
        /\ status[j] = "dead_letter" <=> retryCount[j] >= MaxRetries

\* Whatever Redis loses and wherever a request or a tick dies, a committed QUEUED
\* row is eventually settled, unless a tick died while executing that job: the
\* fallback of the README, "If Redis is unavailable, the app still persists jobs
\* in the database and can process them through the local worker tick".
EventuallySettled ==
  \A j \in Jobs : status[j] = "queued" ~> (status[j] \in Terminal \/ j \in stranded)

\* The queue with a single runner implements the lifecycle of JobLifecycle: queued
\* and retry_scheduled rows are waiting, running rows are executing.  Attempts are lost
\* or results taken back by mistake only where database errors are outlived.
Phase(s) ==
  CASE s \in {"queued", "retry_scheduled"} -> "waiting"
    [] s = "running" -> "executing"
    [] OTHER -> s

Lifecycle == INSTANCE JobLifecycle WITH
  phase <- [j \in Jobs |-> Phase(status[j])], failed <- retryCount,
  ErrorsPossible <- MaxErrors > 0

ImplementsLifecycle == Lifecycle!Spec

=============================================================================
