------------------------- MODULE LiveWebhookProofs -------------------------
(***************************************************************************)
(* The safety of live webhooks for any number of requests and events, any  *)
(* retry limits and any number of losses.  Everything rests on what the    *)
(* runner holds (Running: the event in work has been loaded with the       *)
(* counter that the row still has) and on the one request per event that   *)
(* the unique index lets through (Owned).                                  *)
(***************************************************************************)
EXTENDS LiveWebhook, TLAPS

\* Requests that have stored the row of their event.
Owner(r) == request[r] \in {"inserted", "queued", "accepted"}
Working == run.stage \in {"rule", "triage"}
Live(e) == row[e] # NoRow

\* The runner works on a row as it is, and on one thing at a time.
Running ==
  /\ run.stage = "idle" => run = Idle
  /\ run.stage # "idle" => run.job \in Requests \cup {"retry"}
  /\ run.stage = "pick" => run.job = "retry"
  /\ run.stage \in {"ok", "failed"} => run.job \in Requests
  /\ run.job \in Requests => jobPhase[run.job] = "executing" /\ run.event = EventOf[run.job]
  /\ Working => /\ run.event \in Events \ run.todo
                /\ run.seen[run.event].count = row[run.event].count
  /\ \A e \in run.todo : run.seen[e] = NoRow \/ run.seen[e].count = row[e].count

\* One request at most owns an event, whose row is there; only an accepted one has a job.
Owned ==
  /\ \A r \in Requests : jobPhase[r] # "absent" => request[r] = "accepted"
  /\ \A r \in Requests : Owner(r) => Live(EventOf[r])
  /\ \A q, r \in Requests : q # r /\ EventOf[q] = EventOf[r] => ~(Owner(q) /\ Owner(r))

\* The job of r has processed its event to the end, or died afterwards.
Through(r) ==
  /\ jobPhase[r] \in {"executing", "succeeded"}
  /\ ~(run.job = r /\ run.stage \in {"rule", "triage", "failed"})

\* What no operator's retry has processed has been processed by its own job: once, and once
\* more for every success that was taken for a failure.
Counted ==
  \A e \in Events \ retried :
    \/ completed[e] <= lost
    \/ completed[e] = lost + 1 /\ \E r \in Requests : EventOf[r] = e /\ Through(r)

-----------------------------------------------------------------------------
\* Types

LEMMA StatusType == \A n : StatusAfterFailure(n) \in {"dead_letter", "failed"}
BY DEF StatusAfterFailure

LEMMA InitTyped == Init => TypeOK
<1> SUFFICES ASSUME Init
             PROVE  TypeOK
  OBVIOUS
<1>1. NoRow \in Rows
  BY DEF NoRow, Rows
<1>2. NotLoaded \in [Events -> Rows] /\ row \in [Events -> Rows]
  BY <1>1 DEF Init, NotLoaded
<1>3. run \in [stage : {"idle", "pick", "rule", "triage", "ok", "failed"},
               job : Requests \cup {"none", "retry"}, event : Events \cup {"none"},
               todo : SUBSET Events, seen : [Events -> Rows]]
  BY <1>2 DEF Init, Idle
<1> QED
  BY <1>2, <1>3 DEF Init, Job!Init, TypeOK

\* The requests: none of them touches the runner, the counters or what has been processed.
LEMMA RequestStep ==
  ASSUME TypeOK, NEW r \in Requests, Serve(r) \/ RequestLost(r)
  PROVE  /\ row' \in [Events -> Rows]
         /\ \A e \in Events : row'[e].count = row[e].count
         /\ \A e \in Events : e # EventOf[r] => row'[e] = row[e]
         /\ \A e \in Events : Live(e) => Live(e)'
         /\ UNCHANGED <<run, applied, completed, retried, jobFailed, retryAsked>>
         /\ jobPhase' = jobPhase \/ (request[r] = "queued" /\ jobPhase' = [jobPhase EXCEPT ![r] = "waiting"])
         /\ lost' \in {lost, lost + 1}
         /\ \A q \in Requests : q # r => request'[q] = request[q]
<1> USE EventOfAssumption DEF TypeOK
<1> DEFINE e0 == EventOf[r]
<1>0. e0 \in Events
  OBVIOUS
<1>1. CASE LookUp(r)
  BY <1>1 DEF LookUp, jobs, history, Live
<1>2. CASE Insert(r)
  <2>1. request' \in {[request EXCEPT ![r] = "inserted"], [request EXCEPT ![r] = "rejected"]}
    BY <1>2 DEF Insert
  <2>2. row' = row \/ (row[e0] = NoRow /\ row' = [row EXCEPT ![e0] = [status |-> "received", count |-> 0]])
    BY <1>2 DEF Insert
  <2>3. [status |-> "received", count |-> 0] \in Rows /\ [status |-> "received", count |-> 0] # NoRow
    BY DEF Rows, NoRow
  <2> QED
    BY <1>0, <1>2, <2>1, <2>2, <2>3 DEF Insert, jobs, history, Live, NoRow
<1>3. CASE MarkQueued(r)
  <2>1. row' = [row EXCEPT ![e0].status = "queued"]
    BY <1>3 DEF MarkQueued
  <2>2. row[e0] \in Rows
    BY <1>0
  <2>3. /\ [row[e0] EXCEPT !.status = "queued"] \in Rows
        /\ [row[e0] EXCEPT !.status = "queued"].count = row[e0].count
        /\ [row[e0] EXCEPT !.status = "queued"] # NoRow
    BY <2>2 DEF Rows, NoRow
  <2>4. row' = [row EXCEPT ![e0] = [row[e0] EXCEPT !.status = "queued"]]
    BY <2>1
  <2> QED
    BY <1>0, <1>3, <2>3, <2>4 DEF MarkQueued, jobs, history, Live
<1>4. CASE Enqueue(r)
  BY <1>4 DEF Enqueue, Job!Submit, Job!Move, history, Live
<1>5. CASE RequestLost(r)
  BY <1>5 DEF RequestLost, jobs, Live
<1> QED
  BY <1>1, <1>2, <1>3, <1>4, <1>5 DEF Serve

\* An error outside the handler settles or reopens one job and leaves the rest alone.
LEMMA TakenStep ==
  ASSUME TypeOK, NEW r \in Requests, TakenForFailed(r)
  PROVE  /\ jobPhase' \in [Requests -> {"absent", "waiting", "executing", "succeeded", "dead_letter"}]
         /\ jobFailed' \in [Requests -> Nat]
         /\ jobPhase[r] # "absent" /\ \A q \in Requests : q # r => jobPhase'[q] = jobPhase[q]
         /\ run' = Idle /\ lost' = lost + 1
         /\ UNCHANGED <<row, request, retryAsked, applied, completed, retried>>
BY DEF TakenForFailed, Job!Mistake, TypeOK

RunType == [stage : {"idle", "pick", "rule", "triage", "ok", "failed"},
            job : Requests \cup {"none", "retry"}, event : Events \cup {"none"},
            todo : SUBSET Events, seen : [Events -> Rows]]

\* What FailAttempt writes: a counter one higher, and its status unless that was loaded.
LEMMA FailedRow ==
  ASSUME TypeOK, Running, FailAttempt
  PROVE  /\ run.event \in Events /\ row' \in [Events -> Rows]
         /\ row'[run.event].count = row[run.event].count + 1
         /\ row'[run.event].status =
              (LET target == StatusAfterFailure(row[run.event].count + 1)
               IN  IF target = run.seen[run.event].status THEN row[run.event].status ELSE target)
         /\ \A e \in Events : e # run.event => row'[e] = row[e]
         /\ \A e \in Events : Live(e) => Live(e)'
<1> DEFINE e0 == run.event
           n == run.seen[e0].count + 1
           target == StatusAfterFailure(n)
           st == IF target = run.seen[e0].status THEN row[e0].status ELSE target
<1>1. /\ e0 \in Events /\ run.seen[e0].count = row[e0].count /\ row[e0] \in Rows
      /\ row \in [Events -> Rows]
  BY DEF FailAttempt, Running, Working, TypeOK
<1>2. row' = [row EXCEPT ![e0] = [status |-> st, count |-> n]]
  BY DEF FailAttempt
<1>3. n \in Nat \ {0} /\ n = row[e0].count + 1
  BY <1>1 DEF Rows
<1>4. st \in {"absent", "received", "queued", "processed", "failed", "dead_letter"}
  BY <1>1, StatusType DEF Rows
<1>5. [status |-> st, count |-> n] \in Rows /\ [status |-> st, count |-> n] # NoRow
  BY <1>3, <1>4 DEF Rows, NoRow
<1>6. target = StatusAfterFailure(row[e0].count + 1)
  BY <1>3
<1> HIDE DEF e0, n, target
<1> QED
  BY <1>1, <1>2, <1>3, <1>5, <1>6 DEF Live, e0

LEMMA RunnerTyped ==
  ASSUME TypeOK, Running, Work \/ RunLost \/ SessionBroken \/ StartRetry \/ AskRetry
                          \/ \E r \in Requests : StartDelivery(r) \/ TakenForFailed(r)
  PROVE  TypeOK'
<1>a. run \in RunType /\ row \in [Events -> Rows] /\ run.seen \in [Events -> Rows]
  BY DEF TypeOK, RunType
<1>b. NoRow \in Rows /\ NotLoaded \in [Events -> Rows]
  BY DEF NoRow, Rows, NotLoaded
<1>c. Idle \in RunType
  BY <1>b DEF Idle, RunType
<1>d. ASSUME NEW next, next \in {"idle", "pick", "rule", "triage", "ok", "failed"}
      PROVE  [run EXCEPT !.stage = next] \in RunType
  BY <1>a, <1>d DEF RunType
<1>e. RunType' = RunType
  BY DEF RunType, Rows
<1>1. ASSUME NEW r \in Requests, StartDelivery(r)
      PROVE  TypeOK'
  <2>1. EventOf[r] \in Events
    BY EventOfAssumption
  <2>2. [NotLoaded EXCEPT ![EventOf[r]] = row[EventOf[r]]] \in [Events -> Rows]
    BY <1>a, <1>b, <2>1
  <2>3. run' \in RunType
    BY <1>1, <2>1, <2>2 DEF StartDelivery, RunType
  <2> QED
    BY <1>1, <2>3 DEF StartDelivery, Job!Start, Job!Move, history, TypeOK, RunType
<1>2. CASE AskRetry
  BY <1>2 DEF AskRetry, jobs, history, TypeOK
<1>3. CASE StartRetry
  <2>1. run' \in RunType
    BY <1>3, <1>a DEF StartRetry, RunType, Retryable
  <2> QED
    BY <1>3, <2>1 DEF StartRetry, jobs, history, TypeOK, RunType
<1>4. CASE PickNext
  <2>1. PICK e \in run.todo : run' = [run EXCEPT !.stage = "rule", !.event = e, !.todo = @ \ {e},
                                                !.seen[e] = IF @ = NoRow THEN row[e] ELSE @]
    BY <1>4 DEF PickNext
  <2>2. e \in Events /\ run.todo \ {e} \in SUBSET Events
    BY <1>a DEF RunType
  <2>3. [run.seen EXCEPT ![e] = IF @ = NoRow THEN row[e] ELSE @] \in [Events -> Rows]
    BY <1>a, <2>2
  <2>4. run' \in RunType
    BY <1>a, <2>1, <2>2, <2>3 DEF RunType
  <2> QED
    BY <1>4, <2>4 DEF PickNext, jobs, history, TypeOK, RunType
<1>5. CASE RetryDone \/ RunLost
  BY <1>5, <1>c DEF RetryDone, RunLost, jobs, history, TypeOK, RunType
<1>6. CASE ApplyRule
  <2>1. run' \in RunType
    BY <1>6, <1>d DEF ApplyRule
  <2>2. applied' \in [Events -> Nat]
    BY <1>6 DEF ApplyRule, TypeOK, Running, Working
  <2> QED
    BY <1>6, <2>1, <2>2 DEF ApplyRule, jobs, TypeOK, RunType
<1>7. CASE Complete
  <2>1. run.event \in Events /\ AfterAttempt("ok") \in {"pick", "ok"}
    BY <1>7 DEF Complete, Running, Working, AfterAttempt
  <2>2. run' = [run EXCEPT !.stage = AfterAttempt("ok"), !.seen = NotLoaded]
    BY <1>7 DEF Complete
  <2>3. run' \in RunType
    BY <1>a, <1>b, <2>1, <2>2 DEF RunType
  <2>4. row' = [row EXCEPT ![run.event] = [row[run.event] EXCEPT !.status = "processed"]]
    BY <1>7 DEF Complete
  <2>5. [row[run.event] EXCEPT !.status = "processed"] \in Rows
    BY <1>a, <2>1 DEF Rows
  <2>6. row' \in [Events -> Rows]
    BY <1>a, <2>4, <2>5
  <2>7. completed' \in [Events -> Nat] /\ retried' \subseteq Events
    BY <1>7, <2>1 DEF Complete, TypeOK
  <2> QED
    BY <1>7, <2>3, <2>6, <2>7 DEF Complete, jobs, TypeOK, RunType
<1>8. CASE FailAttempt
  <2>1. run' \in RunType
    BY <1>8, <1>d DEF FailAttempt, AfterAttempt
  <2> QED
    BY <1>8, <2>1, FailedRow DEF FailAttempt, jobs, history, TypeOK, RunType
<1>9. CASE Settle
  <2>1. jobPhase' \in [Requests -> {"absent", "waiting", "executing", "succeeded", "dead_letter"}]
    BY <1>9 DEF Settle, Job!Succeed, Job!Fail, Job!Move, TypeOK
  <2>2. jobFailed' \in [Requests -> Nat]
    BY <1>9 DEF Settle, Job!Succeed, Job!Fail, TypeOK
  <2> QED
    BY <1>9, <1>c, <2>1, <2>2 DEF Settle, history, TypeOK, RunType
<1>10. CASE SessionBroken
  <2>1. run' \in RunType /\ retryAsked' \in BOOLEAN
    BY <1>10, <1>c, <1>d DEF SessionBroken, TypeOK
  <2> QED
    BY <1>10, <2>1 DEF SessionBroken, jobs, TypeOK, RunType
<1>11. ASSUME NEW r \in Requests, TakenForFailed(r)
       PROVE  TypeOK'
  BY <1>c, <1>11, TakenStep DEF TypeOK, RunType
<1> QED
  BY <1>1, <1>2, <1>3, <1>4, <1>5, <1>6, <1>7, <1>8, <1>9, <1>10, <1>11 DEF Work

-----------------------------------------------------------------------------
\* What the runner holds

LEMMA StepRunning ==
  ASSUME TypeOK, Running, Owned, Next
  PROVE  Running'
<1>a. run \in RunType /\ row \in [Events -> Rows] /\ run.seen \in [Events -> Rows]
  BY DEF TypeOK, RunType
<1>b. Idle.stage = "idle" /\ Idle.job = "none" /\ Idle.todo = {}
  BY DEF Idle
<1>c. "none" \notin Requests /\ "retry" \notin Requests
  BY NameAssumption
<1>d. ASSUME run' = Idle
      PROVE  Running'
  BY <1>b, <1>c, <1>d DEF Running, Working
<1>1. ASSUME NEW r \in Requests, Serve(r) \/ RequestLost(r)
      PROVE  Running'
  <2>1. run' = run /\ \A e \in Events : row'[e].count = row[e].count
    BY <1>1, RequestStep
  <2>2. run.job \in Requests => jobPhase'[run.job] = "executing"
    <3>1. SUFFICES ASSUME run.job \in Requests
                   PROVE  jobPhase'[run.job] = "executing"
      OBVIOUS
    <3>2. jobPhase[run.job] = "executing" /\ request[run.job] = "accepted"
      BY <3>1 DEF Running, Owned
    <3> QED
      BY <1>1, <3>1, <3>2, RequestStep DEF TypeOK
  <2> QED
    BY <1>a, <2>1, <2>2 DEF Running, Working, RunType
<1>2. ASSUME NEW r \in Requests, StartDelivery(r)
      PROVE  Running'
  <2>1. EventOf[r] \in Events
    BY EventOfAssumption
  <2>2. /\ run'.stage = "rule" /\ run'.job = r /\ run'.event = EventOf[r] /\ run'.todo = {}
        /\ run'.seen = [NotLoaded EXCEPT ![EventOf[r]] = row[EventOf[r]]] /\ row' = row
    BY <1>2 DEF StartDelivery
  <2>3. run'.seen[EventOf[r]] = row[EventOf[r]]
    BY <2>1, <2>2 DEF NotLoaded
  <2>4. jobPhase'[r] = "executing"
    BY <1>2 DEF StartDelivery, Job!Start, Job!Move, TypeOK
  <2> QED
    BY <1>c, <2>1, <2>2, <2>3, <2>4 DEF Running, Working
<1>3. CASE AskRetry
  BY <1>3 DEF AskRetry, jobs, Running, Working
<1>4. CASE StartRetry
  <2>1. /\ run'.stage = "pick" /\ run'.job = "retry" /\ run'.todo \subseteq Events
        /\ run'.seen = row /\ row' = row
    BY <1>4 DEF StartRetry, Retryable
  <2> QED
    BY <1>c, <2>1 DEF Running, Working
<1>5. CASE PickNext
  <2>1. PICK e \in run.todo : run' = [run EXCEPT !.stage = "rule", !.event = e, !.todo = @ \ {e},
                                                !.seen[e] = IF @ = NoRow THEN row[e] ELSE @]
    BY <1>5 DEF PickNext
  <2>2. e \in Events /\ run.stage = "pick" /\ run.job = "retry" /\ row' = row /\ jobPhase' = jobPhase
    BY <1>5, <1>a DEF RunType, PickNext, Running, jobs
  <2>3. /\ run'.stage = "rule" /\ run'.job = "retry" /\ run'.event = e /\ run'.todo = run.todo \ {e}
        /\ run'.seen = [run.seen EXCEPT ![e] = IF @ = NoRow THEN row[e] ELSE @]
    BY <1>a, <2>1, <2>2 DEF RunType
  <2>4. /\ run'.seen[e].count = row[e].count
        /\ \A g \in run'.todo : run'.seen[g] = run.seen[g]
    BY <1>a, <2>2, <2>3 DEF Running, RunType
  <2> QED
    BY <1>c, <2>2, <2>3, <2>4 DEF Running, Working
<1>6. CASE RetryDone \/ RunLost
  BY <1>6, <1>d DEF RetryDone, RunLost
<1>7. CASE ApplyRule
  <2>1. /\ run'.stage = "triage" /\ run'.job = run.job /\ run'.event = run.event
        /\ run'.todo = run.todo /\ run'.seen = run.seen
        /\ run.stage = "rule" /\ row' = row /\ jobPhase' = jobPhase
    BY <1>7, <1>a DEF ApplyRule, RunType, jobs
  <2> QED
    BY <2>1 DEF Running, Working
<1>8. CASE Complete
  <2>1. /\ run'.stage = AfterAttempt("ok") /\ run'.job = run.job /\ run'.event = run.event
        /\ run'.todo = run.todo /\ run'.seen = NotLoaded
        /\ run.stage = "triage" /\ jobPhase' = jobPhase
    BY <1>8, <1>a DEF Complete, RunType, jobs
  <2>2. \A e \in run.todo : run'.seen[e] = NoRow
    BY <1>a, <2>1 DEF RunType, NotLoaded
  <2> QED
    BY <1>c, <2>1, <2>2 DEF Running, Working, AfterAttempt
<1>9. CASE FailAttempt
  <2>1. /\ run'.stage = AfterAttempt("failed") /\ run'.job = run.job /\ run'.event = run.event
        /\ run'.todo = run.todo /\ run'.seen = run.seen
        /\ run.stage \in {"rule", "triage"} /\ jobPhase' = jobPhase
    BY <1>9, <1>a DEF FailAttempt, RunType, jobs
  <2>2. \A e \in run.todo : row'[e] = row[e]
    BY <1>9, <1>a, <2>1, FailedRow DEF Running, Working, RunType
  <2> QED
    BY <1>c, <2>1, <2>2 DEF Running, Working, AfterAttempt
<1>10. CASE Settle
  BY <1>10, <1>d DEF Settle
<1>11. CASE SessionBroken
  <2>1. CASE run.job = "retry"
    BY <1>11, <1>d, <2>1 DEF SessionBroken
  <2>2. CASE run.job # "retry"
    <3>1. /\ run'.stage = "failed" /\ run'.job = run.job /\ run'.event = run.event
          /\ run'.todo = run.todo /\ run'.seen = run.seen
          /\ run.stage \in {"rule", "triage"} /\ row' = row /\ jobPhase' = jobPhase
      BY <1>11, <1>a, <2>2 DEF SessionBroken, RunType, jobs
    <3> QED
      BY <1>c, <2>2, <3>1 DEF Running, Working
  <2> QED
    BY <2>1, <2>2
<1>12. ASSUME NEW r \in Requests, TakenForFailed(r)
       PROVE  Running'
  BY <1>d, <1>12, TakenStep
<1> QED
  BY <1>1, <1>2, <1>3, <1>4, <1>5, <1>6, <1>7, <1>8, <1>9, <1>10, <1>11, <1>12 DEF Next, Work

-----------------------------------------------------------------------------
\* One request per event

\* The runner leaves the requests alone, moves only jobs that exist, and no row goes away.
LEMMA RunnerStep ==
  ASSUME TypeOK, Running, Work \/ RunLost \/ SessionBroken \/ StartRetry \/ AskRetry
                          \/ \E r \in Requests : StartDelivery(r) \/ TakenForFailed(r)
  PROVE  /\ request' = request
         /\ \A r \in Requests : jobPhase'[r] # "absent" => jobPhase[r] # "absent"
         /\ \A e \in Events : Live(e) => Live(e)'
<1>1. request' = request
  BY DEF Work, TakenForFailed, PickNext, RetryDone, ApplyRule, Complete, FailAttempt, Settle, RunLost,
         SessionBroken, StartRetry, AskRetry, StartDelivery
<1>2. ASSUME NEW r \in Requests, jobPhase'[r] # "absent"
      PROVE  jobPhase[r] # "absent"
  <2>1. CASE \E q \in Requests : StartDelivery(q)
    BY <1>2, <2>1 DEF StartDelivery, Job!Start, Job!Move, TypeOK
  <2>2. CASE Settle
    BY <1>2, <2>2 DEF Settle, Job!Succeed, Job!Fail, Job!Move, TypeOK
  <2>3. CASE \E q \in Requests : TakenForFailed(q)
    BY <1>2, <2>3, TakenStep
  <2> QED
    BY <1>2, <2>1, <2>2, <2>3 DEF Work, PickNext, RetryDone, ApplyRule, Complete, FailAttempt, RunLost,
                           SessionBroken, StartRetry, AskRetry, jobs
<1>3. ASSUME NEW e \in Events, Live(e)
      PROVE  Live(e)'
  <2>1. CASE Complete
    <3>1. row' = [row EXCEPT ![run.event] = [row[run.event] EXCEPT !.status = "processed"]]
      BY <2>1 DEF Complete
    <3>2. [row[e] EXCEPT !.status = "processed"] # NoRow
      BY DEF TypeOK, Rows, NoRow
    <3> QED
      BY <1>3, <3>1, <3>2 DEF Live, TypeOK
  <2>2. CASE FailAttempt
    BY <1>3, <2>2, FailedRow
  <2>3. row' = row \/ Complete \/ FailAttempt
    BY DEF Work, PickNext, RetryDone, ApplyRule, Settle, RunLost, SessionBroken, StartRetry, AskRetry,
           StartDelivery, TakenForFailed
  <2> QED
    BY <1>3, <2>1, <2>2, <2>3 DEF Live
<1> QED
  BY <1>1, <1>2, <1>3

LEMMA StepOwned ==
  ASSUME TypeOK, Running, Owned, Next
  PROVE  Owned'
<1>1. ASSUME NEW r \in Requests, Serve(r) \/ RequestLost(r)
      PROVE  Owned'
  <2> DEFINE e0 == EventOf[r]
  <2>0. e0 \in Events /\ \A q \in Requests : EventOf[q] \in Events
    BY EventOfAssumption
  <2>1. ASSUME Owner(r)', ~Owner(r)
        PROVE  row[e0] = NoRow /\ Live(e0)'
    <3>1. Insert(r) /\ row[e0] = NoRow
      BY <1>1, <2>1 DEF Serve, LookUp, Insert, MarkQueued, Enqueue, RequestLost, Owner, TypeOK
    <3> QED
      BY <2>0, <3>1 DEF Insert, Live, NoRow, TypeOK
  <2>2. \A q \in Requests : q # r => (Owner(q)' <=> Owner(q))
    BY <1>1, RequestStep DEF Owner
  <2>3. \A q \in Requests : Owner(q)' => Live(EventOf[q])'
    BY <1>1, <2>0, <2>1, <2>2, RequestStep DEF Owned
  <2>4. ASSUME NEW p \in Requests, NEW q \in Requests, p # q, EventOf[p] = EventOf[q],
               Owner(p)', Owner(q)'
        PROVE  FALSE
    BY <2>1, <2>2, <2>4 DEF Owned, Live
  <2>5. ASSUME NEW q \in Requests, jobPhase'[q] # "absent"
        PROVE  request'[q] = "accepted"
    <3>1. CASE q # r
      BY <1>1, <2>5, <3>1, RequestStep DEF Owned, TypeOK
    <3>2. CASE q = r
      <4>1. CASE Enqueue(r)
        BY <3>2, <4>1 DEF Enqueue, TypeOK
      <4>2. CASE ~Enqueue(r)
        <5>1. jobPhase' = jobPhase
          BY <1>1, <4>2 DEF Serve, LookUp, Insert, MarkQueued, RequestLost, jobs
        <5>2. request[r] = "accepted"
          BY <2>5, <3>2, <5>1 DEF Owned
        <5> QED
          BY <1>1, <4>2, <5>2 DEF Serve, LookUp, Insert, MarkQueued, RequestLost
      <4> QED
        BY <4>1, <4>2
    <3> QED
      BY <3>1, <3>2
  <2> QED
    BY <2>3, <2>4, <2>5 DEF Owned
<1>2. CASE Work \/ RunLost \/ SessionBroken \/ StartRetry \/ AskRetry
           \/ \E r \in Requests : StartDelivery(r) \/ TakenForFailed(r)
  BY <1>2, RunnerStep, EventOfAssumption DEF Owned, Owner
<1> QED
  BY <1>1, <1>2 DEF Next

-----------------------------------------------------------------------------
\* Applications and completions

LEMMA StepAccounted ==
  ASSUME TypeOK, Running, ApplicationsAccounted, Next
  PROVE  ApplicationsAccounted'
<1> DEFINE Under(e) == IF run.event = e /\ run.stage = "triage" THEN 1 ELSE 0
<1>a. run \in RunType /\ lost \in Nat
      /\ \A e \in Events : row[e].count \in Nat /\ applied[e] \in Nat /\ completed[e] \in Nat
  BY DEF TypeOK, RunType, Rows
<1>b. \A e \in Events : applied[e] <= completed[e] + row[e].count + lost + Under(e)
  BY DEF ApplicationsAccounted
<1>1. ASSUME NEW r \in Requests, Serve(r) \/ RequestLost(r)
      PROVE  ApplicationsAccounted'
  BY <1>a, <1>b, <1>1, RequestStep DEF ApplicationsAccounted
<1>2. CASE ApplyRule
  <2>1. /\ run.event \in Events /\ run.stage = "rule"
        /\ applied' = [applied EXCEPT ![run.event] = @ + 1]
        /\ run'.stage = "triage" /\ run'.event = run.event
        /\ row' = row /\ completed' = completed /\ lost' = lost
    BY <1>2, <1>a DEF ApplyRule, Running, Working, RunType
  <2> QED
    BY <1>a, <1>b, <2>1 DEF ApplicationsAccounted, TypeOK
<1>3. CASE Complete
  <2>1. /\ run.event \in Events /\ run'.stage # "triage"
        /\ completed' = [completed EXCEPT ![run.event] = @ + 1]
        /\ applied' = applied /\ lost' = lost
    BY <1>3, <1>a DEF Complete, Running, Working, RunType, AfterAttempt
  <2>2. \A e \in Events : row'[e].count = row[e].count
    <3>1. row' = [row EXCEPT ![run.event] = [row[run.event] EXCEPT !.status = "processed"]]
      BY <1>3 DEF Complete
    <3>2. \A e \in Events : [row[e] EXCEPT !.status = "processed"].count = row[e].count
      BY DEF TypeOK, Rows
    <3> QED
      BY <3>1, <3>2 DEF TypeOK
  <2> QED
    BY <1>a, <1>b, <2>1, <2>2 DEF ApplicationsAccounted, TypeOK
<1>4. CASE FailAttempt
  <2>1. run'.stage # "triage" /\ applied' = applied /\ completed' = completed /\ lost' = lost
    BY <1>4, <1>a DEF FailAttempt, RunType, AfterAttempt, history
  <2>2. /\ row'[run.event].count = row[run.event].count + 1
        /\ \A e \in Events : e # run.event => row'[e] = row[e]
    BY <1>4, FailedRow
  <2> QED
    BY <1>a, <1>b, <2>1, <2>2 DEF ApplicationsAccounted
<1>5. CASE RunLost \/ SessionBroken \/ \E r \in Requests : TakenForFailed(r)
  <2>1. lost' = lost + 1 /\ row' = row /\ applied' = applied /\ completed' = completed
    BY <1>5 DEF RunLost, SessionBroken, TakenForFailed
  <2> QED
    BY <1>a, <1>b, <2>1 DEF ApplicationsAccounted
<1>6. CASE PickNext \/ RetryDone \/ Settle \/ StartRetry \/ AskRetry
           \/ \E r \in Requests : StartDelivery(r)
  <2>1. row' = row /\ applied' = applied /\ completed' = completed /\ lost' = lost
    BY <1>6 DEF PickNext, RetryDone, Settle, StartRetry, AskRetry, StartDelivery, history
  <2>2. run.stage # "triage" \/ run' = run
    <3>1. CASE AskRetry
      BY <3>1 DEF AskRetry
    <3>2. CASE PickNext \/ RetryDone \/ Settle
      BY <3>2 DEF PickNext, RetryDone, Settle
    <3>3. CASE StartRetry \/ \E r \in Requests : StartDelivery(r)
      BY <3>3 DEF StartRetry, StartDelivery, Idle
    <3> QED
      BY <1>6, <3>1, <3>2, <3>3
  <2> QED
    BY <1>a, <1>b, <2>1, <2>2 DEF ApplicationsAccounted
<1> QED
  BY <1>1, <1>2, <1>3, <1>4, <1>5, <1>6 DEF Next, Work

\* A job that is through remains so, unless an error takes it for failed.
LEMMA StepThrough ==
  ASSUME TypeOK, Running, Owned, Next, NEW w \in Requests, Through(w),
         \A r \in Requests : ~TakenForFailed(r)
  PROVE  Through(w)'
<1>a. run \in RunType /\ w # "none" /\ w # "retry"
  BY NameAssumption DEF TypeOK, RunType
<1>1. ASSUME NEW r \in Requests, Serve(r) \/ RequestLost(r)
      PROVE  Through(w)'
  <2>1. run' = run /\ jobPhase'[w] = jobPhase[w]
    BY <1>1, RequestStep DEF Owned, Through, TypeOK
  <2> QED
    BY <2>1 DEF Through
<1>2. ASSUME NEW r \in Requests, StartDelivery(r)
      PROVE  Through(w)'
  <2>1. r # w /\ jobPhase'[w] = jobPhase[w] /\ run'.job = r
    BY <1>2 DEF StartDelivery, Job!Start, Job!Move, Through, TypeOK
  <2> QED
    BY <2>1 DEF Through
<1>3. CASE Settle
  <2>1. run' = Idle /\ jobPhase'[w] \in {"executing", "succeeded"}
    BY <1>3 DEF Settle, Job!Succeed, Job!Fail, Job!Move, Through, TypeOK
  <2> QED
    BY <1>a, <2>1 DEF Through, Idle
<1>4. CASE RetryDone \/ RunLost \/ StartRetry
  <2>1. run'.job \in {"none", "retry"} /\ jobPhase' = jobPhase
    BY <1>4 DEF RetryDone, RunLost, StartRetry, Idle, jobs
  <2> QED
    BY <1>a, <2>1 DEF Through
<1>5. CASE AskRetry
  BY <1>5 DEF AskRetry, jobs, Through
<1>6. CASE PickNext
  <2>1. run'.job = "retry" /\ jobPhase' = jobPhase
    BY <1>6, <1>a DEF PickNext, Running, jobs, RunType
  <2> QED
    BY <1>a, <2>1 DEF Through
<1>7. CASE ApplyRule \/ Complete \/ FailAttempt
  <2>1. run'.job = run.job /\ run.stage \in {"rule", "triage"} /\ jobPhase' = jobPhase
    BY <1>7, <1>a DEF ApplyRule, Complete, FailAttempt, jobs, RunType
  <2> QED
    BY <2>1 DEF Through
<1>8. CASE SessionBroken
  <2>1. run'.job \in {"none", run.job} /\ run.stage \in {"rule", "triage"} /\ jobPhase' = jobPhase
    BY <1>8, <1>a DEF SessionBroken, Idle, jobs, RunType
  <2> QED
    BY <1>a, <2>1 DEF Through
<1> QED
  BY <1>1, <1>2, <1>3, <1>4, <1>5, <1>6, <1>7, <1>8 DEF Next, Work

LEMMA StepCounted ==
  ASSUME TypeOK, Running, Owned, Counted, Next
  PROVE  Counted'
<1>1. CASE Complete
  <2> DEFINE e0 == run.event
  <2>1. e0 \in Events /\ completed' = [completed EXCEPT ![e0] = @ + 1] /\ completed[e0] \in Nat
    BY <1>1 DEF Complete, Running, Working, TypeOK
  <2>0. lost' = lost /\ lost \in Nat /\ \A r \in Requests : ~TakenForFailed(r)
    BY <1>1 DEF Complete, TakenForFailed, TypeOK
  <2>2. ASSUME NEW e \in Events \ retried'
        PROVE  \/ completed'[e] <= lost
               \/ completed'[e] = lost + 1 /\ \E r \in Requests : EventOf[r] = e /\ Through(r)'
    <3>0. e \in Events \ retried
      BY <1>1, <2>2 DEF Complete
    <3>1. CASE e # e0
      BY <1>1, <2>0, <2>1, <3>0, <3>1, StepThrough DEF Counted, TypeOK
    <3>2. CASE e = e0
      <4>1. PICK j \in Requests : run.job = j /\ EventOf[j] = e0 /\ jobPhase[j] = "executing"
        BY <1>1, <2>2, <3>2 DEF Complete, Running
      <4>2. ~Through(j)
        BY <1>1, <4>1 DEF Complete, Through
      <4>3. completed[e0] <= lost
        <5>1. ASSUME NEW r \in Requests, EventOf[r] = e0, Through(r)
              PROVE  FALSE
          <6>1. request[r] = "accepted" /\ request[j] = "accepted"
            BY <4>1, <5>1 DEF Owned, Through
          <6> QED
            BY <4>1, <4>2, <5>1, <6>1 DEF Owned, Owner
        <5> QED
          BY <3>0, <3>2, <5>1 DEF Counted
      <4>4. Through(j)'
        <5>1. run'.job = run.job /\ run'.stage = "ok" /\ jobPhase' = jobPhase
          BY <1>1, <4>1, NameAssumption DEF Complete, AfterAttempt, jobs, TypeOK
        <5> QED
          BY <4>1, <5>1 DEF Through
      <4>5. completed'[e0] <= lost \/ completed'[e0] = lost + 1
        BY <2>0, <2>1, <4>3 DEF TypeOK
      <4> QED
        BY <3>2, <4>1, <4>4, <4>5
    <3> QED
      BY <3>1, <3>2
  <2> QED
    BY <2>0, <2>2 DEF Counted
<1>2. CASE \E r \in Requests : TakenForFailed(r)
  <2>1. completed' = completed /\ retried' = retried /\ lost' = lost + 1 /\ lost \in Nat
    BY <1>2 DEF TakenForFailed, TypeOK
  <2>2. \A e \in Events \ retried : completed[e] <= lost \/ completed[e] = lost + 1
    BY DEF Counted
  <2> QED
    BY <2>1, <2>2 DEF Counted, TypeOK
<1>3. CASE ~Complete /\ \A r \in Requests : ~TakenForFailed(r)
  <2>1. completed' = completed /\ retried' = retried /\ lost' \in {lost, lost + 1}
    <3>1. CASE \E r \in Requests : Serve(r) \/ RequestLost(r)
      BY <3>1, RequestStep
    <3>2. CASE ~(\E r \in Requests : Serve(r) \/ RequestLost(r))
      BY <1>3, <3>2 DEF Next, Work, PickNext, RetryDone, ApplyRule, FailAttempt, Settle, RunLost,
                        SessionBroken, StartRetry, AskRetry, StartDelivery, history
    <3> QED
      BY <3>1, <3>2
  <2>2. lost \in Nat /\ \A e \in Events : completed[e] \in Nat
    BY DEF TypeOK
  <2>3. ASSUME NEW e \in Events \ retried
        PROVE  \/ completed[e] <= lost'
               \/ completed[e] = lost' + 1 /\ \E r \in Requests : EventOf[r] = e /\ Through(r)'
    <3>1. CASE completed[e] <= lost
      BY <2>1, <2>2, <3>1
    <3>2. CASE completed[e] = lost + 1 /\ \E r \in Requests : EventOf[r] = e /\ Through(r)
      <4>1. PICK r \in Requests : EventOf[r] = e /\ Through(r)
        BY <3>2
      <4>2. Through(r)'
        BY <1>3, <4>1, StepThrough
      <4>3. completed[e] <= lost' \/ completed[e] = lost' + 1
        <5>1. completed[e] = lost + 1
          BY <3>2
        <5>2. CASE lost' = lost
          BY <5>1, <5>2
        <5>3. CASE lost' = lost + 1
          BY <2>2, <5>1, <5>3
        <5> QED
          BY <2>1, <5>2, <5>3
      <4> QED
        BY <4>1, <4>2, <4>3, Zenon
    <3> QED
      BY <3>1, <3>2 DEF Counted
  <2> QED
    BY <2>1, <2>3 DEF Counted
<1> QED
  BY <1>1, <1>2, <1>3

-----------------------------------------------------------------------------
\* Dead letters

\* While nothing is lost, every failure of a job is one of its delivery, the job ends on the
\* status that its last attempt has written, and nothing takes up a delivery whose job has ended.
Ended(r) == jobPhase[r] \in {"succeeded", "dead_letter"}

Agreed ==
  lost = 0 =>
    /\ \A r \in Requests :
         jobFailed[r] + (IF run.job = r /\ run.stage = "failed" THEN 1 ELSE 0)
           <= row[EventOf[r]].count
    /\ run.stage = "failed" =>
         row[run.event].status = StatusAfterFailure(row[run.event].count)
    /\ run.stage = "ok" => row[run.event].status = "processed"
    /\ Working /\ run.job \in Requests => row[run.event].status = run.seen[run.event].status
    /\ \A r \in Requests : Ended(r) =>
         /\ row[EventOf[r]].status = (IF jobPhase[r] = "succeeded" THEN "processed" ELSE "dead_letter")
         /\ EventOf[r] \notin run.todo /\ ~(Working /\ run.event = EventOf[r])

\* No request touches the row of an accepted one.
LEMMA AcceptedRow ==
  ASSUME TypeOK, Owned, NEW q \in Requests, Serve(q) \/ RequestLost(q),
         NEW r \in Requests, request[r] = "accepted"
  PROVE  row'[EventOf[r]] = row[EventOf[r]]
<1>1. EventOf[q] \in Events /\ EventOf[r] \in Events
  BY EventOfAssumption
<1>2. CASE EventOf[q] # EventOf[r]
  BY <1>1, <1>2, RequestStep
<1>3. CASE EventOf[q] = EventOf[r]
  <2>1. request[q] # "inserted"
    BY <1>3 DEF Owned, Owner
  <2>2. row[EventOf[r]] # NoRow
    BY DEF Owned, Owner, Live
  <2> QED
    BY <1>3, <2>1, <2>2 DEF Serve, LookUp, Insert, MarkQueued, Enqueue, RequestLost
<1> QED
  BY <1>2, <1>3

LEMMA StepAgreed ==
  ASSUME TypeOK, Running, Owned, Agreed, Next
  PROVE  Agreed'
<1>a. /\ run \in RunType /\ lost \in Nat
      /\ \A r \in Requests : jobFailed[r] \in Nat /\ EventOf[r] \in Events
      /\ \A e \in Events : row[e].count \in Nat
      /\ "none" \notin Requests /\ "retry" \notin Requests
  BY EventOfAssumption, NameAssumption DEF TypeOK, RunType, Rows
<1>b. CASE lost' # 0
  BY <1>b DEF Agreed
<1>c. CASE lost' = 0 /\ lost # 0
  <2>1. lost' = lost \/ lost' = lost + 1
    <3>1. CASE \E r \in Requests : Serve(r) \/ RequestLost(r)
      BY <3>1, RequestStep
    <3>2. CASE ~(\E r \in Requests : Serve(r) \/ RequestLost(r))
      BY <3>2 DEF Next, Work, PickNext, RetryDone, ApplyRule, Complete, FailAttempt, Settle, RunLost,
                  SessionBroken, StartRetry, AskRetry, StartDelivery, TakenForFailed, history
    <3> QED
      BY <3>1, <3>2
  <2> QED
    BY <1>a, <1>c, <2>1
<1>d. CASE lost' = 0 /\ lost = 0
  <2> DEFINE Behind(r) == jobFailed[r] + (IF run.job = r /\ run.stage = "failed" THEN 1 ELSE 0)
                            <= row[EventOf[r]].count
             Told == /\ run.stage = "failed" =>
                          row[run.event].status = StatusAfterFailure(row[run.event].count)
                     /\ run.stage = "ok" => row[run.event].status = "processed"
             Same == Working /\ run.job \in Requests =>
                       row[run.event].status = run.seen[run.event].status
             Dead(r) == Ended(r) =>
                          /\ row[EventOf[r]].status =
                               (IF jobPhase[r] = "succeeded" THEN "processed" ELSE "dead_letter")
                          /\ EventOf[r] \notin run.todo /\ ~(Working /\ run.event = EventOf[r])
  <2>0. (\A r \in Requests : Behind(r) /\ Dead(r)) /\ Told /\ Same
    BY <1>d DEF Agreed
  <2> USE DEF Ended
  <2> SUFFICES (\A r \in Requests : Behind(r)' /\ Dead(r)') /\ Told' /\ Same'
    BY DEF Agreed
  <2>1. ASSUME NEW q \in Requests, Serve(q) \/ RequestLost(q)
        PROVE  (\A r \in Requests : Behind(r)' /\ Dead(r)') /\ Told' /\ Same'
    <3>1. run' = run /\ jobFailed' = jobFailed /\ \A e \in Events : row'[e].count = row[e].count
      BY <2>1, RequestStep
    <3>2. \A r \in Requests : Behind(r)'
      BY <1>a, <2>0, <3>1
    <3>3. ASSUME NEW r \in Requests
          PROVE  Dead(r)'
      <4>1. Ended(r)' => Ended(r) /\ jobPhase'[r] = jobPhase[r]
        BY <2>1, RequestStep DEF TypeOK, Ended
      <4>2. Ended(r) => row'[EventOf[r]] = row[EventOf[r]]
        BY <2>1, AcceptedRow DEF Owned, Ended
      <4> QED
        BY <2>0, <3>1, <4>1, <4>2 DEF Working
    <3>4. run.job \in Requests => row'[run.event] = row[run.event]
      BY <2>1, AcceptedRow DEF Owned, Running
    <3>5. run.stage \in {"ok", "failed"} => run.job \in Requests
      BY DEF Running
    <3> QED
      BY <2>0, <3>1, <3>2, <3>3, <3>4, <3>5 DEF Working
  <2>2. ASSUME NEW q \in Requests, StartDelivery(q)
        PROVE  (\A r \in Requests : Behind(r)' /\ Dead(r)') /\ Told' /\ Same'
    <3>1. /\ run'.stage = "rule" /\ run'.job = q /\ run'.event = EventOf[q] /\ run'.todo = {}
          /\ run'.seen = [NotLoaded EXCEPT ![EventOf[q]] = row[EventOf[q]]]
          /\ row' = row /\ run.stage = "idle"
      BY <2>2 DEF StartDelivery, Idle
    <3>2. /\ jobFailed' = jobFailed /\ jobPhase[q] = "waiting"
          /\ jobPhase' = [jobPhase EXCEPT ![q] = "executing"]
      BY <2>2 DEF StartDelivery, Job!Start, Job!Move
    <3>3. run'.seen[EventOf[q]] = row[EventOf[q]]
      BY <1>a, <3>1 DEF NotLoaded
    <3>4. ASSUME NEW r \in Requests
          PROVE  Dead(r)'
      <4>1. SUFFICES ASSUME Ended(r)'
                     PROVE  /\ row[EventOf[r]].status =
                                 (IF jobPhase'[r] = "succeeded" THEN "processed" ELSE "dead_letter")
                            /\ EventOf[r] # EventOf[q]
        BY <3>1
      <4>2. Ended(r) /\ r # q /\ jobPhase'[r] = jobPhase[r]
        BY <3>2, <4>1 DEF TypeOK, Ended
      <4> QED
        BY <2>0, <3>2, <4>2 DEF Owned, Owner, Ended
    <3> QED
      BY <1>a, <2>0, <3>1, <3>2, <3>3, <3>4 DEF Working
  <2>3. CASE AskRetry
    BY <1>a, <2>0, <2>3 DEF AskRetry, jobs, Working
  <2>4. CASE StartRetry
    <3>1. /\ run'.stage = "pick" /\ run'.job = "retry" /\ run'.todo = Retryable
          /\ row' = row /\ run.stage = "idle" /\ jobPhase' = jobPhase /\ jobFailed' = jobFailed
      BY <2>4 DEF StartRetry, Idle, jobs
    <3> QED
      BY <1>a, <2>0, <3>1 DEF Working, Retryable
  <2>5. CASE PickNext
    <3>1. PICK e \in run.todo : run' = [run EXCEPT !.stage = "rule", !.event = e, !.todo = @ \ {e},
                                                  !.seen[e] = IF @ = NoRow THEN row[e] ELSE @]
      BY <2>5 DEF PickNext
    <3>2. /\ run'.stage = "rule" /\ run'.job = "retry" /\ run'.event = e
          /\ run'.todo = run.todo \ {e} /\ run.stage = "pick"
          /\ row' = row /\ jobPhase' = jobPhase /\ jobFailed' = jobFailed
      BY <1>a, <2>5, <3>1 DEF PickNext, Running, RunType, jobs
    <3> QED
      BY <1>a, <2>0, <3>1, <3>2 DEF Working
  <2>6. CASE RetryDone
    <3>1. /\ run' = Idle /\ run.stage = "pick"
          /\ row' = row /\ jobPhase' = jobPhase /\ jobFailed' = jobFailed
      BY <2>6 DEF RetryDone, jobs
    <3> QED
      BY <1>a, <2>0, <3>1 DEF Working, Idle
  <2>7. CASE ApplyRule
    <3>1. /\ run'.stage = "triage" /\ run'.job = run.job /\ run'.event = run.event
          /\ run'.todo = run.todo /\ run'.seen = run.seen /\ run.stage = "rule"
          /\ row' = row /\ jobPhase' = jobPhase /\ jobFailed' = jobFailed
      BY <1>a, <2>7 DEF ApplyRule, RunType, jobs
    <3> QED
      BY <1>a, <2>0, <3>1 DEF Working
  <2>8. CASE Complete
    <3>1. /\ run'.stage \in {"pick", "ok"} /\ run'.job = run.job /\ run'.todo = run.todo
          /\ run.stage = "triage" /\ jobPhase' = jobPhase /\ jobFailed' = jobFailed
          /\ row' = [row EXCEPT ![run.event] = [row[run.event] EXCEPT !.status = "processed"]]
      BY <1>a, <2>8 DEF Complete, AfterAttempt, RunType, jobs
    <3>2. \A e \in Events : /\ e # run.event => row'[e] = row[e]
                            /\ row'[e].count = row[e].count
      BY <3>1 DEF TypeOK, Rows
    <3>3. run.event \in Events /\ run'.event = run.event
      BY <1>a, <2>8, <3>1 DEF Complete, Running, Working, RunType
    <3>4. row'[run.event].status = "processed"
      BY <3>1, <3>3 DEF TypeOK, Rows
    <3>5. Told'
      BY <3>1, <3>3, <3>4
    <3>6. \A r \in Requests : Behind(r)'
      BY <1>a, <2>0, <3>1, <3>2
    <3>7. \A r \in Requests : Dead(r)'
      BY <1>a, <2>0, <3>1, <3>2 DEF Working
    <3> QED
      BY <3>1, <3>5, <3>6, <3>7 DEF Working
  <2>9. CASE FailAttempt
    <3>1. /\ run'.stage = AfterAttempt("failed") /\ run'.job = run.job /\ run'.event = run.event
          /\ run'.todo = run.todo /\ run.stage \in {"rule", "triage"}
          /\ jobPhase' = jobPhase /\ jobFailed' = jobFailed
      BY <1>a, <2>9 DEF FailAttempt, RunType, jobs
    <3>2. /\ run.event \in Events /\ row'[run.event].count = row[run.event].count + 1
          /\ \A e \in Events : e # run.event => row'[e] = row[e]
      BY <2>9, FailedRow
    <3>3. ASSUME NEW r \in Requests
          PROVE  Behind(r)'
      <4>1. run.job = r => run.event = EventOf[r]
        BY DEF Running
      <4>2. jobFailed[r] <= row[EventOf[r]].count
        BY <1>a, <2>0, <3>1
      <4> QED
        BY <1>a, <3>1, <3>2, <4>1, <4>2
    <3>4. Told'
      <4>1. CASE run.job = "retry"
        BY <3>1, <4>1 DEF AfterAttempt
      <4>2. CASE run.job # "retry"
        <5>1. run.job \in Requests
          BY <3>1, <4>2 DEF Running
        <5>2. row[run.event].status = run.seen[run.event].status
          BY <2>0, <3>1, <5>1 DEF Working
        <5>3. row'[run.event].status = StatusAfterFailure(row[run.event].count + 1)
          BY <2>9, <5>2, FailedRow
        <5>4. row'[run.event].status = StatusAfterFailure(row'[run.event].count)
          BY <3>2, <5>3
        <5>5. run'.stage = "failed" /\ run'.event = run.event
          BY <3>1, <4>2 DEF AfterAttempt
        <5> QED
          BY <5>4, <5>5 DEF StatusAfterFailure
      <4> QED
        BY <4>1, <4>2
    <3>5. \A r \in Requests : Dead(r)'
      BY <1>a, <2>0, <3>1, <3>2 DEF Working, AfterAttempt
    <3> QED
      BY <3>1, <3>3, <3>4, <3>5 DEF Working, AfterAttempt
  <2>10. CASE Settle
    <3>0. PICK j \in Requests : run.job = j
      BY <2>10 DEF Settle, Running
    <3>1. run' = Idle /\ row' = row
      BY <2>10 DEF Settle
    <3>2. \A r \in Requests : r # j => jobPhase'[r] = jobPhase[r] /\ jobFailed'[r] = jobFailed[r]
      BY <2>10, <3>0 DEF Settle, Job!Succeed, Job!Fail, Job!Move, TypeOK
    <3>3. Behind(j)' /\ Dead(j)'
      <4>1. CASE run.stage = "ok" /\ Job!Succeed(j)
        <5>1. jobPhase'[j] = "succeeded" /\ jobFailed' = jobFailed
          BY <3>0, <3>1, <4>1 DEF Job!Succeed, Job!Move, TypeOK
        <5>2. row[EventOf[j]].status = "processed"
          BY <2>0, <3>0, <4>1 DEF Running
        <5>3. Dead(j)'
          BY <1>a, <3>1, <5>1, <5>2 DEF Idle, Working
        <5>4. Behind(j)'
          BY <1>a, <2>0, <3>0, <3>1, <4>1, <5>1 DEF Idle
        <5> QED
          BY <5>3, <5>4
      <4>2. CASE run.stage = "failed" /\ Job!Fail(j)
        <5>1. jobFailed'[j] = jobFailed[j] + 1
          BY <3>0, <3>1, <4>2 DEF Job!Fail, TypeOK
        <5>2. jobFailed[j] + 1 <= row[EventOf[j]].count
          BY <2>0, <3>0, <3>1, <4>2
        <5>3. jobPhase'[j] = "dead_letter" => jobFailed[j] + 1 = MaxJobRetries
          BY <3>0, <3>1, <4>2 DEF Job!Fail, Job!Move, TypeOK
        <5>4. run.event = EventOf[j]
          BY <3>0 DEF Running
        <5>5. jobPhase'[j] = "dead_letter" => row[EventOf[j]].status = "dead_letter"
          <6>1. row[EventOf[j]].status = StatusAfterFailure(row[EventOf[j]].count)
            BY <2>0, <4>2, <5>4
          <6>2. row[EventOf[j]].count \in Nat /\ jobFailed[j] \in Nat
            BY <1>a
          <6>3. jobFailed[j] + 1 = MaxJobRetries => row[EventOf[j]].count >= MaxWebhookRetries
            BY <5>2, <6>2, WebhookRetriesAssumption
          <6> QED
            BY <5>3, <6>1, <6>3 DEF StatusAfterFailure
        <5>6. jobPhase'[j] # "succeeded"
          BY <3>0, <3>1, <4>2 DEF Job!Fail, Job!Move, TypeOK
        <5> QED
          BY <1>a, <3>0, <3>1, <5>1, <5>2, <5>5, <5>6 DEF Idle, Working
      <4> QED
        BY <2>10, <3>0, <4>1, <4>2 DEF Settle
    <3>4. ASSUME NEW r \in Requests, r # j
          PROVE  Behind(r)' /\ Dead(r)'
      <4>1. jobFailed[r] <= row[EventOf[r]].count
        BY <1>a, <2>0, <3>4
      <4> QED
        BY <1>a, <2>0, <3>0, <3>1, <3>2, <3>4, <4>1 DEF Idle, Working
    <3> QED
      BY <3>0, <3>1, <3>3, <3>4 DEF Idle, Working
  <2>11. CASE RunLost \/ SessionBroken \/ \E r \in Requests : TakenForFailed(r)
    BY <1>a, <1>d, <2>11 DEF RunLost, SessionBroken, TakenForFailed
  <2> HIDE DEF Behind, Told, Same, Dead
  <2> QED
    BY <2>1, <2>2, <2>3, <2>4, <2>5, <2>6, <2>7, <2>8, <2>9, <2>10, <2>11 DEF Next, Work
<1> QED
  BY <1>b, <1>c, <1>d

-----------------------------------------------------------------------------
IInv ==
  TypeOK /\ Running /\ Owned /\ Counted /\ ApplicationsAccounted /\ Agreed

LEMMA InitIInv == Init => IInv
<1> SUFFICES ASSUME Init
             PROVE  IInv
  OBVIOUS
<1>1. TypeOK
  BY InitTyped
<1>2. Running
  BY NameAssumption DEF Init, Idle, Running, Working
<1>3. Owned /\ Counted
  BY DEF Init, Job!Init, Owned, Owner, Counted
<1>4. ApplicationsAccounted
  BY DEF Init, Idle, NoRow, ApplicationsAccounted
<1>5. Agreed
  BY EventOfAssumption DEF Init, Job!Init, Idle, NoRow, Agreed, Ended, Working
<1> QED
  BY <1>1, <1>2, <1>3, <1>4, <1>5 DEF IInv

LEMMA NextIInv == IInv /\ [Next]_vars => IInv'
<1> SUFFICES ASSUME IInv, [Next]_vars
             PROVE  IInv'
  OBVIOUS
<1>1. CASE Next
  <2>1. TypeOK'
    <3>1. ASSUME NEW r \in Requests, Serve(r) \/ RequestLost(r)
          PROVE  TypeOK'
      <4>1. /\ row' \in [Events -> Rows] /\ jobFailed' = jobFailed /\ retryAsked' = retryAsked
            /\ run' = run /\ applied' = applied /\ completed' = completed /\ retried' = retried
            /\ lost' \in {lost, lost + 1}
        BY <3>1, RequestStep DEF IInv
      <4>2. jobPhase' \in [Requests -> {"absent", "waiting", "executing", "succeeded", "dead_letter"}]
        BY <3>1, RequestStep DEF IInv, TypeOK
      <4>3. request' \in [Requests -> {"arriving", "duplicate", "new", "rejected", "inserted",
                                       "queued", "accepted", "died"}]
        BY <3>1 DEF Serve, LookUp, Insert, MarkQueued, Enqueue, RequestLost, IInv, TypeOK
      <4> QED
        BY <4>1, <4>2, <4>3 DEF IInv, TypeOK
    <3> QED
      BY <1>1, <3>1, RunnerTyped DEF Next, IInv
  <2> QED
    BY <1>1, <2>1, StepRunning, StepOwned, StepCounted, StepAccounted, StepAgreed DEF IInv
<1>2. CASE UNCHANGED vars
  <2> USE <1>2 DEF vars, jobs, history, IInv
  <2>1. TypeOK' /\ Running' /\ Owned'
    BY DEF TypeOK, Running, Working, Owned, Owner, Live
  <2>2. Counted' /\ ApplicationsAccounted' /\ Agreed'
    BY DEF Counted, Through, ApplicationsAccounted, Agreed, Ended, Working
  <2> QED
    BY <2>1, <2>2
<1> QED
  BY <1>1, <1>2

LEMMA Invariance == Spec => []IInv
BY InitIInv, NextIInv, PTL DEF Spec

\* The values keep their types: a delivery's status is one of the words of models.py.
THEOREM TypeCorrect == Spec => []TypeOK
<1>1. IInv => TypeOK
  BY DEF IInv
<1> QED
  BY <1>1, Invariance, PTL

\* Of any number of requests that carry one event, at most one gets a job, however they
\* interleave between the look-up and the insert.
THEOREM AcceptedAtMostOnce == Spec => []AcceptedOnce
<1>1. IInv => AcceptedOnce
  BY DEF IInv, Owned, Owner, AcceptedOnce
<1> QED
  BY <1>1, Invariance, PTL

\* Jobs alone, whatever their retries, never process an event twice, except once per loss.
THEOREM RepeatedByRetryOnly == Spec => []RepeatedOnlyByRetry
<1>1. IInv => RepeatedOnlyByRetry
  BY DEF IInv, TypeOK, Counted, RepeatedOnlyByRetry
<1> QED
  BY <1>1, Invariance, PTL

\* Every commit of a rule is a completion, a failure that the delivery counts, under way or lost.
THEOREM EveryApplicationAccounted == Spec => []ApplicationsAccounted
<1>1. IInv => ApplicationsAccounted
  BY DEF IInv
<1> QED
  BY <1>1, Invariance, PTL

\* If nothing is lost, a delivery job ends as its delivery does.
THEOREM DeadTogether == Spec => []JobAndDeliveryAgree
<1>1. IInv => JobAndDeliveryAgree
  BY DEF IInv, Agreed, Ended, JobAndDeliveryAgree
<1> QED
  BY <1>1, Invariance, PTL

\* When the job of an accepted event has ended and nothing has been lost, nobody takes the
\* delivery up again: what the job left, processed or dead, no retry, redelivery or other
\* request changes (retry_failed_webhooks, cafe24_live_webhook).
THEOREM SettledForGood ==
  Spec => [][\A r \in Requests : Ended(r) /\ lost' = 0 => row'[EventOf[r]] = row[EventOf[r]]]_vars
<1>1. IInv /\ [Next]_vars =>
        [\A r \in Requests : Ended(r) /\ lost' = 0 => row'[EventOf[r]] = row[EventOf[r]]]_vars
  <2> SUFFICES ASSUME IInv, Next, NEW r \in Requests, Ended(r), lost' = 0
               PROVE  row'[EventOf[r]] = row[EventOf[r]]
    OBVIOUS
  <2>1. EventOf[r] \in Events /\ request[r] = "accepted" /\ lost \in Nat
    BY EventOfAssumption DEF IInv, Owned, Ended, TypeOK
  <2>2. CASE \E q \in Requests : Serve(q) \/ RequestLost(q)
    BY <2>1, <2>2, AcceptedRow DEF IInv
  <2>3. CASE Complete \/ FailAttempt
    <3>1. lost = 0 /\ Working
      BY <2>3 DEF Complete, FailAttempt, Working, history
    <3>2. run.event # EventOf[r] /\ run.event \in Events
      BY <3>1 DEF IInv, Agreed, Running
    <3>3. CASE Complete
      BY <2>1, <3>2, <3>3 DEF Complete, IInv, TypeOK
    <3>4. CASE FailAttempt
      BY <2>1, <3>2, <3>4, FailedRow DEF IInv
    <3> QED
      BY <2>3, <3>3, <3>4
  <2>4. CASE row' = row
    BY <2>4
  <2> QED
    BY <2>2, <2>3, <2>4 DEF Next, Work, StartDelivery, TakenForFailed, AskRetry, StartRetry, PickNext,
                           RetryDone, ApplyRule, Settle, RunLost, SessionBroken
<1> QED
  BY <1>1, Invariance, PTL DEF Spec
=============================================================================
