--------------------------- MODULE JobQueueProofs ---------------------------
(***************************************************************************)
(* What TLAPS proves about JobQueue, for every set of jobs and runners and *)
(* every batch size, retry budget and bound.                               *)
(***************************************************************************)
EXTENDS JobQueue, FiniteSetTheorems, WellFoundedInduction, TLAPS

-----------------------------------------------------------------------------
(***************************************************************************)
(* Type correctness, for any number of runners.                            *)
(***************************************************************************)

\* A push appends a job id or does nothing (push_job_to_queue).
LEMMA PushedType == ASSUME TypeOK, NEW j \in Jobs PROVE Pushed(j) \in Seq(Jobs)
  BY DEF Pushed, TypeOK

\* The fallback adds rows of the table only.
LEMMA FallbackSubset == ASSUME NEW w PROVE FallbackJobs(w) \subseteq Jobs
  BY DEF FallbackJobs, Oldest

\* What is left of a batch is a batch.
LEMMA TakeNextType ==
  ASSUME TypeOK, NEW w \in Runners, NEW j \in Jobs, TakeNext(w, j)
  PROVE  popped' \in [Runners -> Seq(Jobs)] /\ fallback' \in [Runners -> SUBSET Jobs]
<1>1. CASE popped[w] # <<>>
  <2>1. Tail(popped[w]) \in Seq(Jobs)
    BY <1>1 DEF TypeOK
  <2>2. QED
    BY <1>1, <2>1 DEF TypeOK, TakeNext
<1>2. CASE popped[w] = <<>>
  <2>1. fallback' = [fallback EXCEPT ![w] = @ \ {j}] /\ popped' = popped
    BY <1>2 DEF TakeNext
  <2>2. QED
    BY <2>1 DEF TypeOK
<1>3. QED
  BY <1>1, <1>2

\* Every reachable state has the types of the tables, the Redis list and the locals
\* of the ticks: a popped or scanned id is always the id of a job.
THEOREM TypeCorrect == Spec => []TypeOK
<1>1. Init => TypeOK
  BY DEF Init, TypeOK, Statuses, NoJob, NothingSeen, Terminal, Stages
<1>2. TypeOK /\ [Next]_vars => TypeOK'
  <2> SUFFICES ASSUME TypeOK, [Next]_vars PROVE TypeOK'
    OBVIOUS
  <2> USE DEF rows, redis, locals, history, Stages
  <2>1. ASSUME NEW j \in Jobs, EnqueueCommit(j) PROVE TypeOK'
    BY <2>1 DEF TypeOK, EnqueueCommit, Statuses, Terminal
  <2>2. ASSUME NEW j \in Jobs, EnqueuePush(j) PROVE TypeOK'
    BY <2>2, PushedType DEF TypeOK, EnqueuePush
  <2>3. ASSUME NEW j \in Jobs, EnqueueAbort(j) PROVE TypeOK'
    BY <2>3 DEF TypeOK, EnqueueAbort
  <2>4. ASSUME NEW w \in Runners, PromoteRead(w) PROVE TypeOK'
    BY <2>4 DEF TypeOK, PromoteRead, DueJobs
  <2>5. ASSUME NEW w \in Runners, PromoteCommit(w) PROVE TypeOK'
    BY <2>5 DEF TypeOK, PromoteCommit, Statuses, Terminal
  <2>6. ASSUME NEW w \in Runners, PushPromoted(w) PROVE TypeOK'
    <3>1. PICK j \in promoting[w] : /\ queue' = Pushed(j)
                                    /\ promoting' = [promoting EXCEPT ![w] = @ \ {j}]
      BY <2>6 DEF PushPromoted
    <3>2. j \in Jobs
      BY <3>1 DEF TypeOK
    <3>3. QED
      BY <2>6, <3>1, <3>2, PushedType DEF TypeOK, PushPromoted
  <2>7. ASSUME NEW w \in Runners, PopOne(w) PROVE TypeOK'
    <3>1. Head(queue) \in Jobs /\ Tail(queue) \in Seq(Jobs)
      BY <2>7 DEF TypeOK, PopOne, CanPop
    <3>2. Append(popped[w], Head(queue)) \in Seq(Jobs)
      BY <3>1 DEF TypeOK
    <3>3. QED
      BY <2>7, <3>1, <3>2 DEF TypeOK, PopOne
  <2>8. ASSUME NEW w \in Runners, FillFromTable(w) PROVE TypeOK'
    BY <2>8, FallbackSubset DEF TypeOK, FillFromTable
  <2>9. ASSUME NEW w \in Runners, ClaimRead(w) PROVE TypeOK'
    <3>2. PICK j \in Jobs :
            /\ IF status[j] = "queued"
                 THEN pc' = [pc EXCEPT ![w] = "claim"] /\ current' = [current EXCEPT ![w] = j]
                 ELSE UNCHANGED <<pc, current>>
            /\ TakeNext(w, j)
      BY <2>9 DEF ClaimRead
    <3>3. popped' \in [Runners -> Seq(Jobs)] /\ fallback' \in [Runners -> SUBSET Jobs]
      BY <3>2, TakeNextType
    <3>4. /\ pc' \in [Runners -> Stages]
          /\ current' \in [Runners -> Jobs \cup {NoJob}]
          /\ \A v \in Runners : pc'[v] \in {"claim", "handle", "error", "fail"} => current'[v] \in Jobs
      <4>1. CASE status[j] = "queued"
        <5>1. pc' = [pc EXCEPT ![w] = "claim"] /\ current' = [current EXCEPT ![w] = j]
          BY <3>2, <4>1
        <5>2. QED
          BY <5>1 DEF TypeOK
      <4>2. CASE status[j] # "queued"
        BY <3>2, <4>2 DEF TypeOK
      <4>3. QED
        BY <4>1, <4>2
    <3>5. QED
      BY <2>9, <3>3, <3>4 DEF TypeOK, ClaimRead
  <2>10. ASSUME NEW w \in Runners, TickDone(w) PROVE TypeOK'
    BY <2>10 DEF TypeOK, TickDone
  <2>11. ASSUME NEW w \in Runners, ClaimCommit(w) PROVE TypeOK'
    <3>1. current[w] \in Jobs
      BY <2>11 DEF TypeOK, ClaimCommit
    <3>2. "running" \in Statuses
      BY DEF Statuses
    <3>3. status' \in [Jobs -> Statuses] /\ pc' \in [Runners -> Stages]
      <4>1. /\ status' = [status EXCEPT ![current[w]] = "running"]
            /\ pc' = [pc EXCEPT ![w] = "handle"]
        BY <2>11 DEF ClaimCommit
      <4>2. QED
        BY <3>1, <3>2, <4>1 DEF TypeOK
    <3>4. \A v \in Runners : pc'[v] \in {"claim", "handle", "error", "fail"} => current'[v] \in Jobs
      BY <2>11, <3>1 DEF TypeOK, ClaimCommit
    <3>5. executions' \in [Jobs -> Nat]
      <4>1. executions' = [executions EXCEPT ![current[w]] = @ + 1]
        BY <2>11 DEF ClaimCommit
      <4>2. executions \in [Jobs -> Nat]
        BY DEF TypeOK
      <4>3. QED
        BY <3>1, <4>1, <4>2
    <3>6. QED
      BY <2>11, <3>3, <3>4, <3>5 DEF TypeOK, ClaimCommit
  <2>12. ASSUME NEW w \in Runners, Succeed(w) PROVE TypeOK'
    BY <2>12 DEF TypeOK, Succeed, Release, Statuses, Terminal
  <2>13. ASSUME NEW w \in Runners, FailRead(w) PROVE TypeOK'
    <3>1. current[w] \in Jobs
      BY <2>13 DEF TypeOK, FailRead
    <3>2. [status |-> status[current[w]], count |-> retryCount[current[w]]]
            \in [status : Statuses, count : Nat]
      BY <3>1 DEF TypeOK
    <3>3. seen' \in [Runners -> [status : Statuses, count : Nat]] /\ pc' \in [Runners -> Stages]
      BY <2>13, <3>2 DEF TypeOK, FailRead
    <3>4. \A v \in Runners : pc'[v] \in {"claim", "handle", "error", "fail"} => current'[v] \in Jobs
      BY <2>13, <3>1 DEF TypeOK, FailRead
    <3>5. failures' \in [Jobs -> Nat]
      <4>1. failures' = [failures EXCEPT ![current[w]] = @ + 1]
        BY <2>13 DEF FailRead
      <4>2. failures \in [Jobs -> Nat]
        BY DEF TypeOK
      <4>3. QED
        BY <3>1, <4>1, <4>2
    <3>6. QED
      BY <2>13, <3>3, <3>4, <3>5 DEF TypeOK, FailRead
  <2>14. ASSUME NEW w \in Runners, FailCommit(w) PROVE TypeOK'
    <3>1. StatusAfterFailure(seen[w].count + 1) \in Statuses
      BY DEF StatusAfterFailure, Statuses, Terminal
    <3>2. QED
      BY <2>14, <3>1 DEF TypeOK, FailCommit, Release, NothingSeen, Statuses
  <2>15. ASSUME NEW w \in Runners, Abort(w) PROVE TypeOK'
    <3>1. <<>> \in Seq(Jobs) /\ NothingSeen \in [status : Statuses, count : Nat]
      BY DEF NothingSeen, Statuses
    <3>2. stranded' \subseteq Jobs /\ aborts' \in Nat
      <4>1. /\ stranded' = stranded \cup {j \in Jobs : Executing(w, j)}
            /\ aborts' = aborts + 1
        BY <2>15 DEF Abort
      <4>2. stranded \subseteq Jobs /\ aborts \in Nat
        BY DEF TypeOK
      <4>3. stranded' \subseteq Jobs
        BY <4>1, <4>2
      <4>4. aborts' \in Nat
        BY <4>1, <4>2
      <4>5. QED
        BY <4>3, <4>4
    <3>3. /\ pc' \in [Runners -> Stages]
          /\ promoting' \in [Runners -> SUBSET Jobs]
          /\ popped' \in [Runners -> Seq(Jobs)]
          /\ fallback' \in [Runners -> SUBSET Jobs]
          /\ current' \in [Runners -> Jobs \cup {NoJob}]
          /\ seen' \in [Runners -> [status : Statuses, count : Nat]]
      BY <2>15, <3>1 DEF TypeOK, Abort
    <3>4. \A v \in Runners : pc'[v] \in {"claim", "handle", "error", "fail"} => current'[v] \in Jobs
      BY <2>15 DEF TypeOK, Abort
    <3>5. QED
      BY <2>15, <3>2, <3>3, <3>4 DEF TypeOK, Abort
  <2>16. ASSUME NEW j \in Jobs, BecomeDue(j) PROVE TypeOK'
    BY <2>16 DEF TypeOK, BecomeDue
  <2>17. CASE RedisDown
    <3>1. <<>> \in Seq(Jobs) /\ queue' \in {queue, <<>>}
      BY <2>17 DEF RedisDown
    <3>2. queue' \in Seq(Jobs)
      BY <3>1 DEF TypeOK
    <3>3. QED
      BY <2>17, <3>2 DEF TypeOK, RedisDown
  <2>18. CASE RedisBack
    BY <2>18 DEF TypeOK, RedisBack
  <2>19. ASSUME NEW w \in Runners, DatabaseError(w) PROVE TypeOK'
    <3>1. /\ pc' = [pc EXCEPT ![w] = "error"] /\ errors' = errors + 1
          /\ UNCHANGED <<retryCount, due, redis, unpushed, promoting, seen,
                         executions, failures, stranded, aborts>>
          /\ ReadFails(w) \/ ClaimFails(w) \/ ResultFails(w)
      BY <2>19 DEF DatabaseError
    <3>2. status' \in [Jobs -> Statuses]
      BY <3>1 DEF ReadFails, ClaimFails, ResultFails, TypeOK, Statuses, Terminal
    <3>3. popped' \in [Runners -> Seq(Jobs)] /\ fallback' \in [Runners -> SUBSET Jobs]
      <4>1. CASE ReadFails(w)
        BY <4>1, TakeNextType DEF ReadFails
      <4>2. CASE UNCHANGED <<popped, fallback>>
        BY <4>2 DEF TypeOK
      <4>3. QED
        BY <3>1, <4>1, <4>2 DEF ClaimFails, ResultFails
    <3>4. current' \in [Runners -> Jobs \cup {NoJob}] /\ current'[w] \in Jobs
      BY <3>1 DEF ReadFails, ClaimFails, ResultFails, TypeOK
    <3>5. \A v \in Runners \ {w} : current'[v] = current[v]
      BY <3>1 DEF ReadFails, ClaimFails, ResultFails, TypeOK
    <3>6. \A v \in Runners :
            pc'[v] \in {"claim", "handle", "error", "fail"} => current'[v] \in Jobs
      BY <3>1, <3>4, <3>5 DEF TypeOK
    <3>7. pc' \in [Runners -> Stages] /\ errors' \in Nat
      BY <3>1 DEF TypeOK
    <3>8. /\ retryCount' = retryCount /\ due' = due /\ queue' = queue /\ redisUp' = redisUp
          /\ unpushed' = unpushed /\ promoting' = promoting /\ seen' = seen
          /\ executions' = executions /\ failures' = failures
          /\ stranded' = stranded /\ aborts' = aborts
      BY <3>1
    <3>9. QED
      BY <3>2, <3>3, <3>4, <3>6, <3>7, <3>8 DEF TypeOK
  <2>20. CASE UNCHANGED vars
    BY <2>20 DEF TypeOK, vars
  <2>21. QED
    BY <2>1, <2>2, <2>3, <2>4, <2>5, <2>6, <2>7, <2>8, <2>9, <2>10, <2>11, <2>12,
       <2>13, <2>14, <2>15, <2>16, <2>17, <2>18, <2>19, <2>20 DEF Next, Request, Tick
<1>3. QED
  BY <1>1, <1>2, PTL DEF Spec

-----------------------------------------------------------------------------
(***************************************************************************)
(* Any number of runners: the counter never runs ahead of the failures.    *)
(***************************************************************************)

\* A commit writes at most one more than what its session read, and by then one more
\* failure has happened: that keeps NoEarlyDeadLetter under lost updates.
FailureInv ==
  /\ \A j \in Jobs : retryCount[j] <= failures[j]
  /\ \A w \in Runners : pc[w] = "fail" => seen[w].count + 1 <= failures[current[w]]
  /\ NoEarlyDeadLetter

\* Only EnqueueCommit, FailRead and FailCommit write what FailureInv relates.
LEMMA FailureInvFrame ==
  ASSUME TypeOK, FailureInv, UNCHANGED <<retryCount, failures, seen>>,
         \A j \in Jobs : status'[j] = "dead_letter" => status[j] = "dead_letter",
         \A w \in Runners : pc'[w] = "fail" => pc[w] = "fail" /\ current'[w] = current[w]
  PROVE  FailureInv'
  BY DEF FailureInv, NoEarlyDeadLetter, TypeOK

\* The inductive step of NoEarlyDeadLetter.
LEMMA FailureInvStep == TypeOK /\ FailureInv /\ [Next]_vars => FailureInv'
<1> SUFFICES ASSUME TypeOK, FailureInv, [Next]_vars PROVE FailureInv'
  OBVIOUS
<1> USE DEF rows, redis, locals, history
<1>1. ASSUME NEW j \in Jobs, EnqueueCommit(j) \/ EnqueuePush(j) \/ EnqueueAbort(j)
      PROVE FailureInv'
  BY <1>1, FailureInvFrame DEF EnqueueCommit, EnqueuePush, EnqueueAbort, TypeOK
<1>2. ASSUME NEW w \in Runners, PromoteRead(w) PROVE FailureInv'
  BY <1>2, FailureInvFrame DEF PromoteRead, TypeOK
<1>3. ASSUME NEW w \in Runners, PromoteCommit(w) PROVE FailureInv'
  BY <1>3, FailureInvFrame DEF PromoteCommit, TypeOK
<1>4. ASSUME NEW w \in Runners, PushPromoted(w) \/ PopOne(w) PROVE FailureInv'
  BY <1>4, FailureInvFrame DEF PushPromoted, PopOne, TypeOK
<1>5. ASSUME NEW w \in Runners, FillFromTable(w) \/ TickDone(w) PROVE FailureInv'
  BY <1>5, FailureInvFrame DEF FillFromTable, TickDone, TypeOK
<1>6. ASSUME NEW w \in Runners, ClaimRead(w) PROVE FailureInv'
  <2>1. UNCHANGED <<status, retryCount, failures, seen>>
    BY <1>6 DEF ClaimRead
  <2>2. \A v \in Runners : pc'[v] = "fail" => pc[v] = "fail" /\ current'[v] = current[v]
    BY <1>6 DEF ClaimRead, TypeOK
  <2>3. QED
    BY <2>1, <2>2, FailureInvFrame
<1>7. ASSUME NEW w \in Runners, ClaimCommit(w) PROVE FailureInv'
  BY <1>7, FailureInvFrame DEF ClaimCommit, TypeOK
<1>8. ASSUME NEW w \in Runners, Succeed(w) PROVE FailureInv'
  BY <1>8, FailureInvFrame DEF Succeed, Release, TypeOK
<1>9. ASSUME NEW w \in Runners, FailRead(w) PROVE FailureInv'
  <2> DEFINE j == current[w]
  <2>1. /\ j \in Jobs
        /\ failures' = [failures EXCEPT ![j] = @ + 1]
        /\ seen' = [seen EXCEPT ![w] = [status |-> status[j], count |-> retryCount[j]]]
        /\ pc' = [pc EXCEPT ![w] = "fail"]
        /\ UNCHANGED <<status, retryCount, current>>
    BY <1>9 DEF FailRead, TypeOK
  <2>2. failures \in [Jobs -> Nat] /\ retryCount \in [Jobs -> Nat] /\ MaxRetries \in Nat
    BY RetriesAssumption DEF TypeOK
  <2>3. \A i \in Jobs : failures'[i] \in Nat /\ failures[i] <= failures'[i]
    BY <2>1, <2>2
  <2>4. \A i \in Jobs : retryCount'[i] <= failures'[i]
    BY <2>1, <2>2, <2>3 DEF FailureInv
  <2>5. NoEarlyDeadLetter'
    BY <2>1, <2>2, <2>3 DEF FailureInv, NoEarlyDeadLetter
  <2>6. ASSUME NEW v \in Runners, pc'[v] = "fail"
        PROVE  seen'[v].count + 1 <= failures'[current'[v]]
    <3>1. CASE v = w
      <4>1. seen'[w].count = retryCount[j] /\ failures'[j] = failures[j] + 1
        BY <2>1, <2>2 DEF TypeOK
      <4>2. retryCount[j] <= failures[j]
        BY <2>1 DEF FailureInv
      <4>3. QED
        BY <2>1, <2>2, <3>1, <4>1, <4>2
    <3>2. CASE v # w
      <4>1. pc[v] = "fail" /\ seen'[v] = seen[v] /\ current'[v] = current[v]
        BY <2>1, <2>6, <3>2 DEF TypeOK
      <4>2. current[v] \in Jobs /\ seen[v].count \in Nat
        BY <4>1 DEF TypeOK
      <4>3. seen[v].count + 1 <= failures[current[v]]
        BY <4>1 DEF FailureInv
      <4>4. QED
        BY <2>2, <2>3, <4>1, <4>2, <4>3
    <3>3. QED
      BY <3>1, <3>2
  <2>7. QED
    BY <2>4, <2>5, <2>6 DEF FailureInv
<1>10. ASSUME NEW w \in Runners, FailCommit(w) PROVE FailureInv'
  <2> DEFINE j == current[w]
             count == seen[w].count + 1
             target == StatusAfterFailure(count)
  <2>1. /\ pc[w] = "fail" /\ j \in Jobs
        /\ retryCount' = [retryCount EXCEPT ![j] = count]
        /\ status' = IF target = seen[w].status THEN status ELSE [status EXCEPT ![j] = target]
        /\ seen' = [seen EXCEPT ![w] = NothingSeen]
        /\ pc' = [pc EXCEPT ![w] = "next"]
        /\ current' = [current EXCEPT ![w] = NoJob]
        /\ UNCHANGED failures
    BY <1>10 DEF FailCommit, Release, TypeOK
  <2>2. /\ failures \in [Jobs -> Nat] /\ retryCount \in [Jobs -> Nat]
        /\ MaxRetries \in Nat /\ count \in Nat
    BY RetriesAssumption DEF TypeOK
  <2>3. count <= failures[j]
    BY <2>1 DEF FailureInv
  <2>4. \A i \in Jobs : retryCount'[i] <= failures'[i]
    BY <2>1, <2>2, <2>3 DEF FailureInv
  <2>5. target = "dead_letter" => MaxRetries <= failures[j]
    BY <2>1, <2>2, <2>3 DEF StatusAfterFailure
  <2>6. NoEarlyDeadLetter'
    <3>1. ASSUME NEW i \in Jobs, status'[i] = "dead_letter"
          PROVE  status[i] = "dead_letter" \/ (i = j /\ target = "dead_letter")
      <4>1. CASE target = seen[w].status
        BY <2>1, <3>1, <4>1
      <4>2. CASE target # seen[w].status
        <5>1. status' = [status EXCEPT ![j] = target]
          BY <2>1, <4>2
        <5>2. QED
          BY <2>1, <3>1, <5>1 DEF TypeOK
      <4>3. QED
        BY <4>1, <4>2
    <3>2. QED
      BY <2>1, <2>5, <3>1 DEF FailureInv, NoEarlyDeadLetter
  <2>7. \A v \in Runners : pc'[v] = "fail" =>
           pc[v] = "fail" /\ seen'[v] = seen[v] /\ current'[v] = current[v]
    BY <2>1 DEF TypeOK
  <2>8. QED
    BY <2>1, <2>4, <2>6, <2>7 DEF FailureInv
<1>11. ASSUME NEW w \in Runners, Abort(w) PROVE FailureInv'
  <2>1. /\ UNCHANGED <<status, retryCount, failures>>
        /\ seen' = [seen EXCEPT ![w] = NothingSeen]
        /\ pc' = [pc EXCEPT ![w] = "idle"]
        /\ current' = [current EXCEPT ![w] = NoJob]
    BY <1>11 DEF Abort
  <2>2. \A v \in Runners : pc'[v] = "fail" =>
           pc[v] = "fail" /\ seen'[v] = seen[v] /\ current'[v] = current[v]
    BY <2>1 DEF TypeOK
  <2>3. QED
    BY <2>1, <2>2 DEF FailureInv, NoEarlyDeadLetter
<1>12. ASSUME NEW j \in Jobs, BecomeDue(j) PROVE FailureInv'
  BY <1>12, FailureInvFrame DEF BecomeDue, TypeOK
<1>13. CASE RedisDown \/ RedisBack
  BY <1>13, FailureInvFrame DEF RedisDown, RedisBack, TypeOK
<1>14. ASSUME NEW w \in Runners, DatabaseError(w) PROVE FailureInv'
  <2>1. /\ pc' = [pc EXCEPT ![w] = "error"]
        /\ UNCHANGED <<retryCount, failures, seen>>
    BY <1>14 DEF DatabaseError
  <2>2. \A j \in Jobs : status'[j] = "dead_letter" => status[j] = "dead_letter"
    BY <1>14 DEF DatabaseError, ReadFails, ClaimFails, ResultFails, TypeOK
  <2>3. \A v \in Runners \ {w} : current'[v] = current[v]
    BY <1>14 DEF DatabaseError, ReadFails, ClaimFails, ResultFails, TypeOK
  <2>4. \A v \in Runners : pc'[v] = "fail" => pc[v] = "fail" /\ current'[v] = current[v]
    BY <2>1, <2>3 DEF TypeOK
  <2>5. QED
    BY <2>1, <2>2, <2>4, FailureInvFrame
<1>15. CASE UNCHANGED vars
  BY <1>15, FailureInvFrame DEF vars
<1>16. QED
  BY <1>1, <1>2, <1>3, <1>4, <1>5, <1>6, <1>7, <1>8, <1>9, <1>10, <1>11, <1>12,
     <1>13, <1>14, <1>15 DEF Next, Request, Tick

\* With any number of concurrent runners, a job is dead only after at least
\* MaxRetries attempts at it failed.
THEOREM DeadLetterIsEarned == Spec => []NoEarlyDeadLetter
<1>1. Init => FailureInv
  BY RetriesAssumption DEF Init, FailureInv, NoEarlyDeadLetter
<1>2. FailureInv => NoEarlyDeadLetter
  BY DEF FailureInv
<1>3. QED
  BY <1>1, <1>2, FailureInvStep, TypeCorrect, PTL DEF Spec

-----------------------------------------------------------------------------
(***************************************************************************)
(* Any number of runners: a running row has an executor that will write    *)
(* its status, or its executor was cut short.                              *)
(***************************************************************************)

\* The inductive step: whoever wrote "running" last executes the job until it, or
\* another runner, has written something else.
LEMMA RunningStep == TypeOK /\ RunningHasExecutor /\ [Next]_vars => RunningHasExecutor'
<1> SUFFICES ASSUME TypeOK, RunningHasExecutor, [Next]_vars,
                    NEW j \in Jobs, status'[j] = "running"
             PROVE  \/ j \in stranded'
                    \/ \E w \in Runners :
                         /\ Executing(w, j)'
                         /\ pc'[w] = "fail" => seen'[w].status = "running"
  BY DEF RunningHasExecutor
<1> DEFINE Holds(w) == Executing(w, j) /\ (pc[w] = "fail" => seen[w].status = "running")
<1> USE DEF rows, redis, locals, history
<1>1. status[j] = "running" => j \in stranded \/ \E w \in Runners : Holds(w)
  BY DEF RunningHasExecutor
<1>2. ASSUME status[j] = "running", stranded \subseteq stranded', UNCHANGED <<pc, current, seen>>
      PROVE  j \in stranded' \/ \E w \in Runners : Holds(w)'
  BY <1>1, <1>2 DEF Executing
<1>3. ASSUME status[j] = "running", stranded \subseteq stranded', NEW w \in Runners,
             ~Holds(w), \A v \in Runners \ {w} : /\ pc'[v] = pc[v] /\ current'[v] = current[v]
                                                 /\ seen'[v] = seen[v]
      PROVE  j \in stranded' \/ \E v \in Runners : Holds(v)'
  BY <1>1, <1>3 DEF Executing
<1>4. ASSUME NEW i \in Jobs, EnqueueCommit(i) \/ EnqueuePush(i) \/ EnqueueAbort(i) \/ BecomeDue(i)
      PROVE  j \in stranded' \/ \E w \in Runners : Holds(w)'
  BY <1>2, <1>4 DEF EnqueueCommit, EnqueuePush, EnqueueAbort, BecomeDue, TypeOK
<1>5. ASSUME NEW w \in Runners, PromoteRead(w) \/ PromoteCommit(w) \/ PushPromoted(w)
      PROVE  j \in stranded' \/ \E v \in Runners : Holds(v)'
  <2>1. pc[w] \in {"idle", "promote", "fill"} /\ ~Holds(w)
    BY <1>5 DEF PromoteRead, PromoteCommit, PushPromoted, Executing
  <2>2. status[j] = "running" /\ UNCHANGED <<current, seen, stranded>>
    BY <1>5 DEF PromoteRead, PromoteCommit, PushPromoted
  <2>3. \A v \in Runners \ {w} : pc'[v] = pc[v]
    BY <1>5 DEF PromoteRead, PromoteCommit, PushPromoted, TypeOK
  <2>4. QED
    BY <1>3, <2>1, <2>2, <2>3
<1>6. ASSUME NEW w \in Runners, PopOne(w) \/ FillFromTable(w) \/ TickDone(w) \/ ClaimRead(w)
      PROVE  j \in stranded' \/ \E v \in Runners : Holds(v)'
  <2>1. pc[w] \in {"fill", "next"} /\ ~Holds(w)
    BY <1>6 DEF PopOne, FillFromTable, TickDone, ClaimRead, Executing
  <2>2. status[j] = "running" /\ UNCHANGED <<seen, stranded>>
    BY <1>6 DEF PopOne, FillFromTable, TickDone, ClaimRead
  <2>3. \A v \in Runners \ {w} : pc'[v] = pc[v] /\ current'[v] = current[v]
    BY <1>6 DEF PopOne, FillFromTable, TickDone, ClaimRead, TypeOK
  <2>4. QED
    BY <1>3, <2>1, <2>2, <2>3
<1>7. ASSUME NEW w \in Runners, ClaimCommit(w)
      PROVE  j \in stranded' \/ \E v \in Runners : Holds(v)'
  <2>1. /\ pc[w] = "claim" /\ current[w] \in Jobs
        /\ status' = [status EXCEPT ![current[w]] = "running"]
        /\ pc' = [pc EXCEPT ![w] = "handle"]
        /\ UNCHANGED <<current, seen, stranded>>
    BY <1>7 DEF ClaimCommit, TypeOK
  <2>2. CASE j = current[w]
    BY <2>1, <2>2 DEF TypeOK, Executing
  <2>3. CASE j # current[w]
    <3>1. status[j] = "running" /\ ~Holds(w)
      BY <2>1, <2>3 DEF TypeOK, Executing
    <3>2. \A v \in Runners \ {w} : pc'[v] = pc[v]
      BY <2>1 DEF TypeOK
    <3>3. QED
      BY <1>3, <2>1, <3>1, <3>2
  <2>4. QED
    BY <2>2, <2>3
<1>8. ASSUME NEW w \in Runners, FailRead(w)
      PROVE  j \in stranded' \/ \E v \in Runners : Holds(v)'
  <2>1. /\ pc[w] \in {"handle", "error"} /\ status[j] = "running"
        /\ seen' = [seen EXCEPT ![w] = [status |-> status[current[w]],
                                        count |-> retryCount[current[w]]]]
        /\ pc' = [pc EXCEPT ![w] = "fail"]
        /\ UNCHANGED <<current, stranded>>
    BY <1>8 DEF FailRead
  <2>2. CASE j = current[w]
    BY <2>1, <2>2 DEF TypeOK, Executing
  <2>3. CASE j # current[w]
    <3>1. ~Holds(w)
      BY <2>3 DEF Executing
    <3>2. \A v \in Runners \ {w} : pc'[v] = pc[v] /\ seen'[v] = seen[v]
      BY <2>1 DEF TypeOK
    <3>3. QED
      BY <1>3, <2>1, <3>1, <3>2
  <2>4. QED
    BY <2>2, <2>3
<1>9. ASSUME NEW w \in Runners, Succeed(w)
      PROVE  j \in stranded' \/ \E v \in Runners : Holds(v)'
  <2>1. /\ pc[w] = "handle" /\ current[w] \in Jobs
        /\ status' = [status EXCEPT ![current[w]] = "succeeded"]
        /\ pc' = [pc EXCEPT ![w] = "next"] /\ current' = [current EXCEPT ![w] = NoJob]
        /\ UNCHANGED <<seen, stranded>>
    BY <1>9 DEF Succeed, Release, TypeOK
  <2>2. status[j] = "running" /\ ~Holds(w)
    BY <2>1 DEF TypeOK, Executing
  <2>3. \A v \in Runners \ {w} : pc'[v] = pc[v] /\ current'[v] = current[v]
    BY <2>1 DEF TypeOK
  <2>4. QED
    BY <1>3, <2>1, <2>2, <2>3
<1>10. ASSUME NEW w \in Runners, FailCommit(w)
       PROVE  j \in stranded' \/ \E v \in Runners : Holds(v)'
  <2> DEFINE target == StatusAfterFailure(seen[w].count + 1)
  <2>1. /\ pc[w] = "fail" /\ current[w] \in Jobs
        /\ status' = IF target = seen[w].status THEN status
                     ELSE [status EXCEPT ![current[w]] = target]
        /\ seen' = [seen EXCEPT ![w] = NothingSeen]
        /\ pc' = [pc EXCEPT ![w] = "next"] /\ current' = [current EXCEPT ![w] = NoJob]
        /\ UNCHANGED stranded
    BY <1>10 DEF FailCommit, Release, TypeOK
  <2>2. target # "running"
    BY DEF StatusAfterFailure
  <2>3. status[j] = "running"
    BY <2>1, <2>2 DEF TypeOK
  <2>4. ~Holds(w)
    BY <2>1, <2>2 DEF TypeOK, Executing
  <2>5. \A v \in Runners \ {w} : /\ pc'[v] = pc[v] /\ current'[v] = current[v]
                                 /\ seen'[v] = seen[v]
    BY <2>1 DEF TypeOK
  <2>6. QED
    BY <1>3, <2>1, <2>3, <2>4, <2>5
<1>11. ASSUME NEW w \in Runners, Abort(w)
       PROVE  j \in stranded' \/ \E v \in Runners : Holds(v)'
  <2>1. /\ stranded' = stranded \cup {i \in Jobs : Executing(w, i)}
        /\ pc' = [pc EXCEPT ![w] = "idle"] /\ current' = [current EXCEPT ![w] = NoJob]
        /\ seen' = [seen EXCEPT ![w] = NothingSeen]
        /\ UNCHANGED status
    BY <1>11 DEF Abort
  <2>2. CASE Executing(w, j)
    BY <2>1, <2>2
  <2>3. CASE ~Executing(w, j)
    <3>1. \A v \in Runners \ {w} : /\ pc'[v] = pc[v] /\ current'[v] = current[v]
                                   /\ seen'[v] = seen[v]
      BY <2>1 DEF TypeOK
    <3>2. QED
      BY <1>3, <2>1, <2>3, <3>1
  <2>4. QED
    BY <2>2, <2>3
<1>12. CASE RedisDown \/ RedisBack \/ UNCHANGED vars
  BY <1>2, <1>12 DEF RedisDown, RedisBack, vars
<1>13. ASSUME NEW w \in Runners, DatabaseError(w)
       PROVE  j \in stranded' \/ \E v \in Runners : Holds(v)'
  <2>1. /\ pc' = [pc EXCEPT ![w] = "error"]
        /\ UNCHANGED <<seen, stranded>>
    BY <1>13 DEF DatabaseError
  <2>2. status[j] = "running" /\ ~Holds(w)
    BY <1>13 DEF DatabaseError, ReadFails, ClaimFails, ResultFails, TypeOK, Executing
  <2>3. \A v \in Runners \ {w} : pc'[v] = pc[v] /\ current'[v] = current[v]
    BY <1>13, <2>1 DEF DatabaseError, ReadFails, ClaimFails, ResultFails, TypeOK
  <2>4. QED
    BY <1>3, <2>1, <2>2, <2>3
<1>14. QED
  BY <1>4, <1>5, <1>6, <1>7, <1>8, <1>9, <1>10, <1>11, <1>12, <1>13 DEF Next, Request, Tick

\* With any number of concurrent runners, a row that says running is being executed
\* by a runner that will overwrite the status, or was stranded by an abort.
THEOREM RunningIsExecuted == Spec => []RunningHasExecutor
<1>1. Init => RunningHasExecutor
  BY DEF Init, RunningHasExecutor
<1>2. QED
  BY <1>1, RunningStep, TypeCorrect, PTL DEF Spec

-----------------------------------------------------------------------------
(***************************************************************************)
(* The ids that Redis, the requests and the ticks hold are ids of stored   *)
(* rows: no row ever disappears, and nothing is pushed before its commit.  *)
(***************************************************************************)
StoredJobs == {j \in Jobs : status[j] # "absent"}

KnownJobs ==
  /\ unpushed \subseteq StoredJobs
  /\ queue \in Seq(StoredJobs)
  /\ \A w \in Runners :
       /\ promoting[w] \cup fallback[w] \subseteq StoredJobs
       /\ popped[w] \in Seq(StoredJobs)
       /\ current[w] # NoJob => current[w] \in StoredJobs

\* Whatever writes a status stores the row.
LEMMA StoredStays ==
  ASSUME TypeOK, [Next]_vars PROVE StoredJobs \subseteq StoredJobs'
<1> SUFFICES ASSUME NEW j \in Jobs, status[j] # "absent" PROVE status'[j] # "absent"
  BY DEF StoredJobs
<1> USE DEF rows, redis, locals, history
<1>1. ASSUME NEW i \in Jobs, EnqueueCommit(i) PROVE status'[j] # "absent"
  BY <1>1 DEF EnqueueCommit, TypeOK
<1>2. ASSUME NEW w \in Runners, PromoteCommit(w) PROVE status'[j] # "absent"
  BY <1>2 DEF PromoteCommit
<1>3. ASSUME NEW w \in Runners, ClaimCommit(w) \/ Succeed(w) PROVE status'[j] # "absent"
  BY <1>3 DEF ClaimCommit, Succeed, TypeOK
<1>4. ASSUME NEW w \in Runners, DatabaseError(w) PROVE status'[j] # "absent"
  BY <1>4 DEF DatabaseError, ReadFails, ClaimFails, ResultFails, TypeOK
<1>5. ASSUME NEW w \in Runners, FailCommit(w) PROVE status'[j] # "absent"
  BY <1>5 DEF FailCommit, StatusAfterFailure, TypeOK
<1>6. CASE UNCHANGED status
  BY <1>6
<1> QED
  BY <1>1, <1>2, <1>3, <1>4, <1>5, <1>6
     DEF Next, Request, Tick, vars, EnqueuePush, EnqueueAbort, BecomeDue, RedisDown, RedisBack,
         PromoteRead, PushPromoted, PopOne, FillFromTable, ClaimRead, TickDone, FailRead, Abort

\* Lists and sets of stored rows stay that when more rows are stored.
LEMMA KnownJobsGrow ==
  ASSUME TypeOK, KnownJobs, NEW T, StoredJobs \subseteq T
  PROVE  /\ unpushed \subseteq T /\ queue \in Seq(T)
         /\ \A w \in Runners :
              /\ promoting[w] \cup fallback[w] \subseteq T
              /\ popped[w] \in Seq(T)
              /\ current[w] # NoJob => current[w] \in T
<1>1. \A q : q \in Seq(StoredJobs) => q \in Seq(T)
  OBVIOUS
<1> QED
  BY <1>1 DEF KnownJobs

\* The id that is pushed is that of a stored row.
LEMMA PushedKnown ==
  ASSUME NEW S, queue \in Seq(S), NEW j \in S PROVE Pushed(j) \in Seq(S)
  BY DEF Pushed

\* What is left of a batch of stored rows, and the row that is taken.
LEMMA TakeNextKnown ==
  ASSUME TypeOK, NEW S, NEW w \in Runners, NEW j \in Jobs, TakeNext(w, j),
         popped[w] \in Seq(S), fallback[w] \subseteq S
  PROVE  /\ j \in S /\ popped'[w] \in Seq(S) /\ fallback'[w] \subseteq S
         /\ \A v \in Runners \ {w} : popped'[v] = popped[v] /\ fallback'[v] = fallback[v]
<1>1. CASE popped[w] # <<>>
  <2>1. Head(popped[w]) \in S /\ Tail(popped[w]) \in Seq(S)
    BY <1>1
  <2>2. /\ j = Head(popped[w]) /\ fallback' = fallback
        /\ popped' = [popped EXCEPT ![w] = Tail(popped[w])]
    BY <1>1 DEF TakeNext, NextJob
  <2> QED
    BY <2>1, <2>2 DEF TypeOK
<1>2. CASE popped[w] = <<>>
  BY <1>2 DEF TakeNext, NextJob, Oldest, TypeOK
<1> QED
  BY <1>1, <1>2

\* Ids are ids of stored rows, for any number of runners and whatever fails.
LEMMA KnownStep == TypeOK /\ KnownJobs /\ [Next]_vars => KnownJobs'
<1> SUFFICES ASSUME TypeOK, KnownJobs, [Next]_vars PROVE KnownJobs'
  OBVIOUS
<1> USE DEF rows, redis, locals, history
<1> DEFINE S == StoredJobs'
<1>0. /\ unpushed \subseteq S /\ queue \in Seq(S)
      /\ \A w \in Runners :
           /\ promoting[w] \cup fallback[w] \subseteq S
           /\ popped[w] \in Seq(S)
           /\ current[w] # NoJob => current[w] \in S
  BY StoredStays, KnownJobsGrow
<1>1. StoredJobs \subseteq S /\ StoredJobs = {j \in Jobs : status[j] # "absent"}
  BY StoredStays DEF StoredJobs
<1>2. KnownJobs' = (/\ unpushed' \subseteq S /\ queue' \in Seq(S)
                    /\ \A w \in Runners :
                         /\ promoting'[w] \cup fallback'[w] \subseteq S
                         /\ popped'[w] \in Seq(S)
                         /\ current'[w] # NoJob => current'[w] \in S)
  BY DEF KnownJobs
<1>3. ASSUME NEW j \in Jobs, EnqueueCommit(j) PROVE KnownJobs'
  <2>1. j \in S
    BY <1>3 DEF EnqueueCommit, TypeOK, StoredJobs
  <2> HIDE DEF S
  <2> QED
    BY <1>0, <1>2, <1>3, <2>1 DEF EnqueueCommit
<1>4. ASSUME NEW j \in Jobs, EnqueuePush(j) PROVE KnownJobs'
  <2>1. Pushed(j) \in Seq(S)
    BY <1>0, <1>4, PushedKnown DEF EnqueuePush
  <2> HIDE DEF S
  <2> QED
    BY <1>0, <1>2, <1>4, <2>1 DEF EnqueuePush
<1> HIDE DEF S
<1>5. ASSUME NEW j \in Jobs, EnqueueAbort(j) \/ BecomeDue(j) PROVE KnownJobs'
  BY <1>0, <1>2, <1>5 DEF EnqueueAbort, BecomeDue
<1>6. ASSUME NEW w \in Runners, PromoteRead(w) PROVE KnownJobs'
  <2>1. promoting'[w] \subseteq S /\ \A v \in Runners \ {w} : promoting'[v] = promoting[v]
    BY <1>1, <1>6 DEF PromoteRead, DueJobs, TypeOK
  <2> QED
    BY <1>0, <1>2, <1>6, <2>1 DEF PromoteRead
<1>7. ASSUME NEW w \in Runners,
             PromoteCommit(w) \/ TickDone(w) \/ ClaimCommit(w) \/ FailRead(w)
      PROVE  KnownJobs'
  BY <1>0, <1>2, <1>7 DEF PromoteCommit, TickDone, ClaimCommit, FailRead
<1>8. ASSUME NEW w \in Runners, PushPromoted(w) PROVE KnownJobs'
  <2>1. PICK j \in promoting[w] : /\ queue' = Pushed(j)
                                  /\ promoting' = [promoting EXCEPT ![w] = @ \ {j}]
    BY <1>8 DEF PushPromoted
  <2>2. Pushed(j) \in Seq(S)
    BY <1>0, PushedKnown
  <2>3. \A v \in Runners : promoting'[v] \subseteq promoting[v]
    BY <2>1 DEF TypeOK
  <2> QED
    BY <1>0, <1>2, <1>8, <2>1, <2>2, <2>3 DEF PushPromoted
<1>9. ASSUME NEW w \in Runners, PopOne(w) PROVE KnownJobs'
  <2>1. Head(queue) \in S /\ Tail(queue) \in Seq(S)
    BY <1>0, <1>9 DEF PopOne, CanPop
  <2>2. Append(popped[w], Head(queue)) \in Seq(S)
    BY <1>0, <2>1
  <2>3. \A v \in Runners : popped'[v] \in Seq(S)
    BY <1>0, <1>9, <2>2 DEF PopOne, TypeOK
  <2> QED
    BY <1>0, <1>2, <1>9, <2>1, <2>3 DEF PopOne
<1>10. ASSUME NEW w \in Runners, FillFromTable(w) PROVE KnownJobs'
  <2>1. FallbackJobs(w) \subseteq S
    BY <1>1 DEF FallbackJobs, Oldest
  <2>2. \A v \in Runners : fallback'[v] \subseteq S
    BY <1>0, <1>10, <2>1 DEF FillFromTable, TypeOK
  <2> QED
    BY <1>0, <1>2, <1>10, <2>2 DEF FillFromTable
<1>11. ASSUME NEW w \in Runners, ClaimRead(w) \/ DatabaseError(w) PROVE KnownJobs'
  <2>1. UNCHANGED <<queue, unpushed, promoting>>
    BY <1>11 DEF ClaimRead, DatabaseError
  <2>2. CASE \E j \in Jobs : TakeNext(w, j) /\ current' \in {current, [current EXCEPT ![w] = j]}
    <3>1. PICK j \in Jobs : TakeNext(w, j) /\ current' \in {current, [current EXCEPT ![w] = j]}
      BY <2>2
    <3>2. /\ j \in S /\ popped'[w] \in Seq(S) /\ fallback'[w] \subseteq S
          /\ \A v \in Runners \ {w} : popped'[v] = popped[v] /\ fallback'[v] = fallback[v]
      BY <1>0, <3>1, TakeNextKnown
    <3>3. \A v \in Runners : current'[v] # NoJob => current'[v] \in S
      BY <1>0, <3>1, <3>2 DEF TypeOK
    <3> QED
      BY <1>0, <1>2, <2>1, <3>2, <3>3
  <2>3. CASE UNCHANGED <<current, popped, fallback>>
    BY <1>0, <1>2, <2>1, <2>3
  <2> QED
    BY <1>11, <2>2, <2>3 DEF ClaimRead, DatabaseError, ReadFails, ClaimFails, ResultFails
<1>12. ASSUME NEW w \in Runners, Succeed(w) \/ FailCommit(w) PROVE KnownJobs'
  <2>1. /\ current' = [current EXCEPT ![w] = NoJob]
        /\ UNCHANGED <<unpushed, queue, promoting, fallback, popped>>
    BY <1>12 DEF Succeed, FailCommit, Release
  <2> QED
    BY <1>0, <1>2, <2>1 DEF TypeOK
<1>13. ASSUME NEW w \in Runners, Abort(w) PROVE KnownJobs'
  <2>1. <<>> \in Seq(S)
    OBVIOUS
  <2>2. /\ promoting' = [promoting EXCEPT ![w] = {}]
        /\ popped' = [popped EXCEPT ![w] = <<>>]
        /\ fallback' = [fallback EXCEPT ![w] = {}]
        /\ current' = [current EXCEPT ![w] = NoJob]
        /\ UNCHANGED <<unpushed, queue>>
    BY <1>13 DEF Abort
  <2> QED
    BY <1>0, <1>2, <2>1, <2>2 DEF TypeOK
<1>14. CASE RedisDown \/ RedisBack \/ UNCHANGED vars
  <2>1. <<>> \in Seq(S)
    OBVIOUS
  <2> QED
    BY <1>0, <1>2, <1>14, <2>1 DEF RedisDown, RedisBack, vars
<1> QED
  BY <1>3, <1>4, <1>5, <1>6, <1>7, <1>8, <1>9, <1>10, <1>11, <1>12, <1>13, <1>14
     DEF Next, Request, Tick

-----------------------------------------------------------------------------
(***************************************************************************)
(* A single runner: what it knows of the rows is still true when it uses   *)
(* it, because nobody else writes the row of a job that is not waiting.    *)
(***************************************************************************)

\* The local state of the runner agrees with the rows at every stage of a tick, and a
\* row that it fails without having run it shows that there was a database error.
Truthful ==
  \A w \in Runners :
    /\ pc[w] = "promote" => \A j \in promoting[w] : status[j] = "retry_scheduled"
    /\ pc[w] = "claim" => status[current[w]] = "queued"
    /\ pc[w] = "handle" => status[current[w]] = "running"
    /\ pc[w] = "error" => errors > 0
    /\ pc[w] = "fail" =>
         /\ seen[w] = [status |-> status[current[w]], count |-> retryCount[current[w]]]
         /\ status[current[w]] = "running" \/ errors > 0

\* A job is dead exactly when its attempts are used up.
Buried == \A j \in Jobs : status[j] = "dead_letter" <=> retryCount[j] >= MaxRetries

\* The handler runs that the counter and the status of a row stand for.
Settling(s) == IF s \in {"running", "succeeded"} THEN 1 ELSE 0
Paid(j) == retryCount[j] + Settling(status[j])

\* An error has sent the runner into the except branch, where it will count an attempt
\* at j that nobody has made.
AboutToMistake(j) ==
  /\ \E w \in Runners : pc[w] \in {"error", "fail"} /\ current[w] = j
  /\ Settling(status[j]) = 0

\* The counters account for handler runs and errors, the one about to be counted too.
Funded ==
  \A j \in Jobs :
    /\ executions[j] <= Paid(j) /\ executions[j] <= MaxRetries
    /\ Paid(j) + (IF AboutToMistake(j) THEN 1 ELSE 0) <= executions[j] + errors

SingleInv == KnownJobs /\ Truthful /\ Buried /\ Funded

\* SingleInv implies the property that the runs check.
LEMMA SingleInvGivesBudget == TypeOK /\ SingleInv => RetryBudget
<1> SUFFICES ASSUME TypeOK, SingleInv, NEW j \in Jobs
             PROVE  /\ executions[j] <= Paid(j) /\ Paid(j) <= executions[j] + errors
                    /\ executions[j] <= MaxRetries
                    /\ status[j] = "dead_letter" <=> retryCount[j] >= MaxRetries
  BY DEF RetryBudget, Paid, Settling
<1>1. Paid(j) \in Nat /\ executions[j] \in Nat /\ errors \in Nat
  BY DEF TypeOK, Paid, Settling
<1> QED
  BY <1>1 DEF SingleInv, Funded, Buried

\* Counters, and what the runs of a job stand for.
LEMMA Counters ==
  ASSUME TypeOK
  PROVE  /\ MaxRetries \in Nat \ {0} /\ errors \in Nat
         /\ \A j \in Jobs : retryCount[j] \in Nat /\ executions[j] \in Nat /\ Paid(j) \in Nat
         /\ \A s : Settling(s) \in {0, 1}
  BY RetriesAssumption DEF TypeOK, Paid, Settling

\* A step that changes no status, counter or stage keeps the invariant of the runner.
LEMMA SingleInvFrame ==
  ASSUME Truthful, Buried, Funded,
         UNCHANGED <<status, retryCount, executions, errors, pc, promoting, current, seen>>
  PROVE  Truthful' /\ Buried' /\ Funded'
  BY DEF Truthful, Buried, Funded, Paid, AboutToMistake

\* A step that pays for nothing and prepares no mistake.
LEMMA FundedFrame ==
  ASSUME Funded, TypeOK, UNCHANGED <<executions, errors>>,
         \A j \in Jobs : Paid(j)' = Paid(j) /\ (AboutToMistake(j)' => AboutToMistake(j))
  PROVE  Funded'
<1> SUFFICES ASSUME NEW j \in Jobs
             PROVE  /\ executions'[j] <= Paid(j)' /\ executions'[j] <= MaxRetries
                    /\ Paid(j)' + (IF AboutToMistake(j)' THEN 1 ELSE 0) <= executions'[j] + errors'
  BY DEF Funded
<1>1. /\ executions[j] <= Paid(j) /\ executions[j] <= MaxRetries
      /\ Paid(j) + (IF AboutToMistake(j) THEN 1 ELSE 0) <= executions[j] + errors
  BY DEF Funded
<1> QED
  BY <1>1, Counters

\* The inductive step: the stages of a tick before a job is taken.
LEMMA SingleBatchStep ==
  ASSUME SingleRunner, TypeOK, SingleInv, NEW w \in Runners,
         PromoteRead(w) \/ PromoteCommit(w) \/ PushPromoted(w) \/ PopOne(w) \/ FillFromTable(w)
           \/ ClaimRead(w) \/ TickDone(w)
  PROVE  Truthful' /\ Buried' /\ Funded'
<1> USE DEF rows, redis, locals, history, SingleInv
<1>0. pc \in [Runners -> Stages] /\ \A v \in Runners : v = w
  BY DEF SingleRunner, TypeOK
<1>1. UNCHANGED <<retryCount, executions, errors, seen>>
  BY DEF PromoteRead, PromoteCommit, PushPromoted, PopOne, FillFromTable, ClaimRead, TickDone
<1>2. pc'[w] \notin {"error", "fail", "handle"} \/ UNCHANGED <<pc, current>>
  BY <1>0 DEF PromoteRead, PromoteCommit, PushPromoted, PopOne, FillFromTable, ClaimRead, TickDone
<1>3. \A j \in Jobs : \/ status'[j] = status[j]
                      \/ status[j] = "retry_scheduled" /\ status'[j] = "queued"
  <2>1. CASE PromoteCommit(w)
    BY <2>1 DEF PromoteCommit, Truthful
  <2>2. CASE UNCHANGED status
    BY <2>2
  <2> QED
    BY <2>1, <2>2 DEF PromoteRead, PushPromoted, PopOne, FillFromTable, ClaimRead, TickDone
<1>4. Funded'
  <2>1. \A j \in Jobs : AboutToMistake(j)' => AboutToMistake(j)
    BY <1>0, <1>2, <1>3 DEF AboutToMistake, Settling
  <2>2. \A j \in Jobs : Paid(j)' = Paid(j)
    BY <1>1, <1>3 DEF Paid, Settling
  <2> QED
    BY <1>1, <2>1, <2>2, FundedFrame
<1>5. Buried'
  BY <1>1, <1>3 DEF Buried
<1>6. Truthful'
  <2>1. CASE PromoteRead(w)
    BY <1>0, <2>1 DEF PromoteRead, DueJobs, Truthful, TypeOK
  <2>2. CASE PromoteCommit(w) \/ FillFromTable(w) \/ TickDone(w)
    BY <1>0, <2>2 DEF PromoteCommit, FillFromTable, TickDone, Truthful
  <2>3. CASE PushPromoted(w)
    BY <1>0, <2>3 DEF PushPromoted, Truthful
  <2>4. CASE PopOne(w)
    BY <2>4, SingleInvFrame DEF PopOne
  <2>5. CASE ClaimRead(w)
    <3>1. PICK j \in Jobs :
            IF status[j] = "queued"
              THEN pc' = [pc EXCEPT ![w] = "claim"] /\ current' = [current EXCEPT ![w] = j]
              ELSE UNCHANGED <<pc, current>>
      BY <2>5 DEF ClaimRead
    <3>2. UNCHANGED <<status, retryCount, executions, errors, promoting, seen>>
      BY <2>5 DEF ClaimRead
    <3>3. CASE status[j] = "queued"
      BY <1>0, <3>1, <3>2, <3>3 DEF Truthful, TypeOK
    <3>4. CASE status[j] # "queued"
      BY <3>1, <3>2, <3>4, SingleInvFrame
    <3> QED
      BY <3>3, <3>4
  <2> QED
    BY <2>1, <2>2, <2>3, <2>4, <2>5
<1> QED
  BY <1>4, <1>5, <1>6

\* The inductive step: a job is claimed and succeeds.
LEMMA SingleRunStep ==
  ASSUME SingleRunner, TypeOK, SingleInv, NEW w \in Runners, ClaimCommit(w) \/ Succeed(w),
         NEW j \in Jobs, j = current[w]
  PROVE  Truthful' /\ Buried' /\ Funded'
<1> USE DEF rows, redis, locals, history, SingleInv
<1>0. pc \in [Runners -> Stages] /\ (\A v \in Runners : v = w)
  BY DEF SingleRunner, TypeOK
<1>1. UNCHANGED <<retryCount, errors, seen, promoting>> /\ pc'[w] \in {"handle", "next"}
  BY <1>0 DEF ClaimCommit, Succeed, Release
<1>2. Truthful'
  <2>1. pc'[w] = "handle" => status'[current'[w]] = "running"
    BY <1>0 DEF ClaimCommit, Succeed, Release, TypeOK
  <2> QED
    BY <1>0, <1>1, <2>1 DEF Truthful
<1>3. Buried'
  <2>1. \A i \in Jobs : status'[i] = "dead_letter" <=> status[i] = "dead_letter"
    BY <1>0 DEF ClaimCommit, Succeed, Truthful, TypeOK
  <2> QED
    BY <1>1, <2>1 DEF Buried
<1>4. \A i \in Jobs : ~AboutToMistake(i)'
  BY <1>0, <1>1 DEF AboutToMistake
<1>5. CASE Succeed(w)
  <2>1. \A i \in Jobs : Settling(status'[i]) = Settling(status[i])
    BY <1>0, <1>5 DEF Succeed, Truthful, TypeOK, Settling
  <2>2. UNCHANGED executions /\ \A i \in Jobs : Paid(i)' = Paid(i)
    BY <1>1, <1>5, <2>1 DEF Succeed, Paid
  <2> QED
    BY <1>1, <1>2, <1>3, <1>4, <2>2, FundedFrame
<1>6. CASE ClaimCommit(w)
  <2>1. status[j] = "queued" /\ status' = [status EXCEPT ![j] = "running"]
        /\ executions' = [executions EXCEPT ![j] = executions[j] + 1]
    BY <1>6 DEF ClaimCommit, Truthful
  <2>2. /\ Paid(j)' = Paid(j) + 1 /\ executions'[j] = executions[j] + 1
        /\ Paid(j) = retryCount[j] /\ retryCount[j] < MaxRetries
    <3>1. retryCount'[j] = retryCount[j] /\ status'[j] = "running" /\ executions'[j] = executions[j] + 1
      BY <1>0, <1>1, <2>1 DEF TypeOK
    <3>2. retryCount[j] < MaxRetries
      BY <1>0, <2>1, Counters DEF Buried
    <3> QED
      BY <1>0, <2>1, <3>1, <3>2, Counters DEF Paid, Settling
  <2>3. \A i \in Jobs \ {j} : Paid(i)' = Paid(i) /\ executions'[i] = executions[i]
    BY <1>1, <2>1 DEF Paid, TypeOK
  <2> SUFFICES ASSUME NEW i \in Jobs
               PROVE  /\ executions'[i] <= Paid(i)' /\ executions'[i] <= MaxRetries
                      /\ Paid(i)' <= executions'[i] + errors
    <3>1. ASSUME NEW i \in Jobs,
                 /\ executions'[i] <= Paid(i)' /\ executions'[i] <= MaxRetries
                 /\ Paid(i)' <= executions'[i] + errors
          PROVE  /\ executions'[i] <= Paid(i)' /\ executions'[i] <= MaxRetries
                 /\ Paid(i)' + (IF AboutToMistake(i)' THEN 1 ELSE 0) <= executions'[i] + errors'
      <4>1. retryCount'[i] \in Nat /\ Settling(status'[i]) \in Nat
        BY <1>1, Counters
      <4> QED
        BY <1>1, <1>4, <3>1, <4>1 DEF Paid
    <3> QED
      BY <1>2, <1>3, <3>1 DEF Funded
  <2>4. /\ executions[i] <= Paid(i) /\ executions[i] <= MaxRetries
        /\ Paid(i) <= executions[i] + errors
    BY Counters DEF Funded
  <2>5. CASE i = j
    BY <2>2, <2>4, <2>5, Counters DEF Paid
  <2>6. CASE i # j
    BY <2>3, <2>4, <2>6
  <2> QED
    BY <2>5, <2>6
<1> QED
  BY <1>5, <1>6

\* The inductive step: a database error, whichever of the three places it strikes.
LEMMA SingleErrorStep ==
  ASSUME SingleRunner, TypeOK, SingleInv, NEW w \in Runners, DatabaseError(w)
  PROVE  Truthful' /\ Buried' /\ Funded'
<1> USE DEF SingleInv
<1>0. pc \in [Runners -> Stages] /\ (\A v \in Runners : v = w) /\ errors \in Nat
  BY DEF SingleRunner, TypeOK
<1>1. /\ UNCHANGED <<retryCount, executions, seen, promoting>>
      /\ pc'[w] = "error" /\ errors' = errors + 1
  BY <1>0 DEF DatabaseError
<1>2. Truthful'
  BY <1>0, <1>1 DEF Truthful
<1>3. \A i \in Jobs : \/ status'[i] = status[i]
                      \/ status[i] = "running" /\ status'[i] = "succeeded"
  BY <1>0 DEF DatabaseError, ReadFails, ClaimFails, ResultFails, Truthful, TypeOK
<1>4. Buried'
  BY <1>1, <1>3 DEF Buried
<1>5. Funded'
  <2> SUFFICES ASSUME NEW i \in Jobs
               PROVE  /\ executions'[i] <= Paid(i)' /\ executions'[i] <= MaxRetries
                      /\ Paid(i)' + (IF AboutToMistake(i)' THEN 1 ELSE 0) <= executions'[i] + errors'
    BY DEF Funded
  <2>1. /\ executions[i] <= Paid(i) /\ executions[i] <= MaxRetries
        /\ Paid(i) <= executions[i] + errors
    BY Counters DEF Funded
  <2>2. Paid(i)' = Paid(i) /\ executions'[i] = executions[i]
    BY <1>1, <1>3 DEF Paid, Settling
  <2> QED
    BY <1>1, <2>1, <2>2, Counters
<1> QED
  BY <1>2, <1>4, <1>5

\* The inductive step: the except branch.
LEMMA SingleFailStep ==
  ASSUME SingleRunner, TypeOK, SingleInv, NEW w \in Runners, FailRead(w) \/ FailCommit(w),
         NEW j \in Jobs, j = current[w]
  PROVE  Truthful' /\ Buried' /\ Funded'
<1> USE DEF rows, redis, locals, history, SingleInv
<1>0. pc \in [Runners -> Stages] /\ (\A v \in Runners : v = w)
  BY DEF SingleRunner, TypeOK
<1>1. CASE FailRead(w)
  <2>1. /\ UNCHANGED <<status, retryCount, executions, errors, promoting, current>>
        /\ pc[w] \in {"handle", "error"} /\ pc'[w] = "fail"
        /\ seen'[w] = [status |-> status[j], count |-> retryCount[j]]
    BY <1>0, <1>1 DEF FailRead, TypeOK
  <2>2. Truthful'
    BY <1>0, <2>1 DEF Truthful
  <2>3. Buried'
    BY <2>1 DEF Buried
  <2>4. \A i \in Jobs : Paid(i)' = Paid(i) /\ (AboutToMistake(i)' => AboutToMistake(i))
    <3>1. pc[w] = "handle" => Settling(status[j]) = 1
      BY DEF Truthful, Settling
    <3> QED
      BY <1>0, <2>1, <3>1 DEF Paid, AboutToMistake
  <2> QED
    BY <2>1, <2>2, <2>3, <2>4, FundedFrame
<1>2. CASE FailCommit(w)
  <2> DEFINE target == StatusAfterFailure(retryCount[j] + 1)
  <2>1. seen[w] = [status |-> status[j], count |-> retryCount[j]] /\ pc[w] = "fail"
    BY <1>2 DEF FailCommit, Truthful
  <2>2. /\ status' = [status EXCEPT ![j] = target]
        /\ retryCount' = [retryCount EXCEPT ![j] = retryCount[j] + 1]
        /\ pc'[w] = "next" /\ UNCHANGED <<executions, errors, promoting>>
    <3>1. /\ retryCount' = [retryCount EXCEPT ![j] = retryCount[j] + 1]
          /\ status' = IF target = status[j] THEN status ELSE [status EXCEPT ![j] = target]
          /\ pc' = [pc EXCEPT ![w] = "next"] /\ UNCHANGED <<executions, errors, promoting>>
      BY <1>2, <2>1 DEF FailCommit, Release
    <3>2. status' = [status EXCEPT ![j] = target]
      BY <3>1 DEF TypeOK
    <3> QED
      BY <1>0, <3>1, <3>2
  <2>3. target = IF retryCount[j] + 1 >= MaxRetries THEN "dead_letter" ELSE "retry_scheduled"
    BY DEF StatusAfterFailure
  <2>4. Truthful'
    BY <1>0, <2>2 DEF Truthful
  <2>5. Buried'
    BY <1>0, <2>2, <2>3 DEF Buried, TypeOK
  <2>6. \A i \in Jobs : ~AboutToMistake(i)'
    BY <1>0, <2>2 DEF AboutToMistake
  <2>7. \A i \in Jobs \ {j} : Paid(i)' = Paid(i)
    BY <2>2 DEF Paid, TypeOK
  <2>8. Paid(j)' = retryCount[j] + 1
    <3>1. retryCount'[j] = retryCount[j] + 1 /\ Settling(status'[j]) = 0
      BY <1>0, <2>2, <2>3 DEF Settling, TypeOK
    <3> QED
      BY <1>0, <3>1, Counters DEF Paid
  <2>9. Settling(status[j]) = 0 => AboutToMistake(j)
    BY <1>0, <2>1 DEF AboutToMistake
  <2>10. Paid(j) <= Paid(j)' /\ Paid(j)' <= Paid(j) + (IF AboutToMistake(j) THEN 1 ELSE 0)
    <3>1. Paid(j) = retryCount[j] + Settling(status[j]) /\ Settling(status[j]) \in {0, 1}
      BY Counters DEF Paid
    <3> QED
      BY <1>0, <2>8, <2>9, <3>1, Counters
  <2>11. Funded'
    <3> SUFFICES ASSUME NEW i \in Jobs
                 PROVE  /\ executions'[i] <= Paid(i)' /\ executions'[i] <= MaxRetries
                        /\ Paid(i)' <= executions'[i] + errors'
      <4>1. ASSUME NEW i \in Jobs,
                   /\ executions'[i] <= Paid(i)' /\ executions'[i] <= MaxRetries
                   /\ Paid(i)' <= executions'[i] + errors'
            PROVE  /\ executions'[i] <= Paid(i)' /\ executions'[i] <= MaxRetries
                   /\ Paid(i)' + (IF AboutToMistake(i)' THEN 1 ELSE 0) <= executions'[i] + errors'
        <5>1. retryCount'[i] \in Nat /\ Settling(status'[i]) \in Nat
          <6>1. retryCount'[i] = IF i = j THEN retryCount[j] + 1 ELSE retryCount[i]
            BY <2>2 DEF TypeOK
          <6> QED
            BY <6>1, Counters
        <5> QED
          BY <2>6, <4>1, <5>1 DEF Paid
      <4> QED
        BY <4>1 DEF Funded
    <3>1. /\ executions[i] <= Paid(i) /\ executions[i] <= MaxRetries
          /\ Paid(i) + (IF AboutToMistake(i) THEN 1 ELSE 0) <= executions[i] + errors
      BY DEF Funded
    <3>2. Paid(i) <= Paid(i)' /\ Paid(i)' <= Paid(i) + (IF AboutToMistake(i) THEN 1 ELSE 0)
      BY <2>7, <2>10, Counters DEF Paid
    <3>3. Paid(i)' \in Nat
      BY <2>7, <2>8, Counters DEF Paid
    <3> QED
      BY <2>2, <3>1, <3>2, <3>3, Counters
  <2> QED
    BY <2>4, <2>5, <2>11
<1> QED
  BY <1>1, <1>2

\* The inductive step of SingleInv.
LEMMA SingleInvStep ==
  ASSUME SingleRunner, TypeOK, SingleInv, [Next]_vars PROVE SingleInv'
<1> USE DEF rows, redis, locals, history
<1>0. KnownJobs'
  BY KnownStep DEF SingleInv
<1> SUFFICES Truthful' /\ Buried' /\ Funded'
  BY <1>0 DEF SingleInv
<1>1. ASSUME NEW j \in Jobs, EnqueueCommit(j) PROVE Truthful' /\ Buried' /\ Funded'
  <2>1. /\ status' = [status EXCEPT ![j] = "queued"] /\ status[j] = "absent"
        /\ UNCHANGED <<retryCount, executions, errors, pc, promoting, current, seen>>
    BY <1>1 DEF EnqueueCommit
  <2>2. j \notin StoredJobs /\ j # NoJob
    BY <2>1, JobsAssumption DEF StoredJobs, NoJob
  <2>3. \A i \in StoredJobs : status'[i] = status[i]
    BY <2>1, <2>2 DEF TypeOK, StoredJobs
  <2>4. Truthful'
    <3>1. \A w \in Runners : pc[w] \in {"claim", "handle", "error", "fail"}
            => status'[current[w]] = status[current[w]]
      BY <2>3, JobsAssumption DEF SingleInv, KnownJobs, TypeOK, NoJob
    <3>2. \A w \in Runners : \A i \in promoting[w] : status'[i] = status[i]
      BY <2>3 DEF SingleInv, KnownJobs
    <3> QED
      <4> SUFFICES ASSUME NEW w \in Runners
                   PROVE  /\ pc[w] = "promote" => \A i \in promoting[w] : status'[i] = "retry_scheduled"
                          /\ pc[w] = "claim" => status'[current[w]] = "queued"
                          /\ pc[w] = "handle" => status'[current[w]] = "running"
                          /\ pc[w] = "error" => errors > 0
                          /\ pc[w] = "fail" =>
                               /\ seen[w] = [status |-> status'[current[w]],
                                             count |-> retryCount[current[w]]]
                               /\ status'[current[w]] = "running" \/ errors > 0
        BY <2>1 DEF Truthful
      <4> QED
        BY <3>1, <3>2 DEF SingleInv, Truthful
  <2>5. Buried'
    BY <2>1 DEF SingleInv, Buried, TypeOK
  <2>6. \A i \in Jobs : Settling(status'[i]) = Settling(status[i])
    BY <2>1 DEF Settling, TypeOK
  <2>7. \A i \in Jobs : Paid(i)' = Paid(i) /\ (AboutToMistake(i)' => AboutToMistake(i))
    BY <2>1, <2>6 DEF Paid, AboutToMistake
  <2> QED
    BY <2>1, <2>4, <2>5, <2>7, FundedFrame DEF SingleInv
<1>2. ASSUME NEW j \in Jobs, EnqueuePush(j) \/ EnqueueAbort(j) \/ BecomeDue(j)
      PROVE  Truthful' /\ Buried' /\ Funded'
  BY <1>2, SingleInvFrame DEF EnqueuePush, EnqueueAbort, BecomeDue, SingleInv
<1>3. ASSUME NEW w \in Runners, Tick(w) PROVE Truthful' /\ Buried' /\ Funded'
  <2>1. CASE ClaimCommit(w) \/ Succeed(w) \/ FailRead(w) \/ FailCommit(w)
    <3>1. current[w] \in Jobs
      BY <2>1 DEF ClaimCommit, Succeed, FailRead, FailCommit, TypeOK
    <3>2. PICK j \in Jobs : j = current[w]
      BY <3>1
    <3> QED
      BY <2>1, <3>2, SingleRunStep, SingleFailStep
  <2> QED
    BY <1>3, <2>1, SingleBatchStep DEF Tick
<1>4. ASSUME NEW w \in Runners, Abort(w) PROVE Truthful' /\ Buried' /\ Funded'
  <2>1. /\ UNCHANGED <<status, retryCount, executions, errors>>
        /\ \A v \in Runners : pc'[v] = "idle"
    BY <1>4 DEF Abort, SingleRunner, TypeOK
  <2>2. \A i \in Jobs : Paid(i)' = Paid(i) /\ ~AboutToMistake(i)'
    BY <2>1 DEF Paid, AboutToMistake
  <2>3. Truthful' /\ Buried'
    BY <2>1 DEF Truthful, Buried, SingleInv
  <2> QED
    BY <2>1, <2>2, <2>3, FundedFrame DEF SingleInv
<1>5. CASE RedisDown \/ RedisBack \/ UNCHANGED vars
  BY <1>5, SingleInvFrame DEF RedisDown, RedisBack, vars, SingleInv
<1> QED
  BY <1>1, <1>2, <1>3, <1>4, <1>5, SingleErrorStep DEF Next, Request

\* The invariant of a single runner.
LEMMA SingleInvariant == ASSUME SingleRunner PROVE Spec => []SingleInv
<1>1. Init => SingleInv
  BY RetriesAssumption DEF Init, SingleInv, KnownJobs, StoredJobs, NoJob, Truthful, Buried,
     Funded, Paid, Settling, AboutToMistake
<1>2. TypeOK /\ SingleInv /\ [Next]_vars => SingleInv'
  BY SingleInvStep
<1>3. QED
  BY <1>1, <1>2, TypeCorrect, PTL DEF Spec

\* With a single runner, every handler run is accounted for by the retry counter, by the
\* result or by a database error, and a handler starts at most MaxRetries times, also
\* when errors after its result send it back.
THEOREM BudgetIsKept == ASSUME SingleRunner PROVE Spec => []RetryBudget
  BY SingleInvariant, TypeCorrect, SingleInvGivesBudget, PTL

\* A single runner takes back no result unless an error made it count a mistake.
LEMMA FinalStep ==
  ASSUME SingleRunner, TypeOK, SingleInv, [Next]_vars, NEW j \in Jobs,
         status[j] \in Terminal, status'[j] # status[j]
  PROVE  status[j] = "succeeded" /\ errors > 0 /\ retryCount'[j] = retryCount[j] + 1
<1> USE DEF rows, redis, locals, history, Terminal, SingleInv
<1>1. ~ \E i \in Jobs : EnqueueCommit(i)
  BY DEF EnqueueCommit, TypeOK
<1>2. ASSUME NEW w \in Runners, PromoteCommit(w) PROVE FALSE
  BY <1>2 DEF PromoteCommit, Truthful
<1>3. ASSUME NEW w \in Runners, ClaimCommit(w) \/ Succeed(w) PROVE FALSE
  <2>1. status[current[w]] \in {"queued", "running"}
    BY <1>3 DEF ClaimCommit, Succeed, Truthful
  <2>2. QED
    BY <1>3, <2>1 DEF ClaimCommit, Succeed, TypeOK
<1>4. ASSUME NEW w \in Runners, DatabaseError(w) PROVE FALSE
  BY <1>4 DEF DatabaseError, ReadFails, ClaimFails, ResultFails, Truthful, TypeOK
<1>5. ASSUME NEW w \in Runners, FailCommit(w)
      PROVE  status[j] = "succeeded" /\ errors > 0 /\ retryCount'[j] = retryCount[j] + 1
  <2>1. j = current[w]
    BY <1>5 DEF FailCommit, TypeOK
  <2>2. /\ pc[w] = "fail" /\ errors > 0
        /\ seen[w] = [status |-> status[j], count |-> retryCount[j]]
    BY <1>5, <2>1 DEF FailCommit, Truthful
  <2>3. retryCount'[j] = retryCount[j] + 1
    BY <1>5, <2>1, <2>2 DEF FailCommit, TypeOK
  <2>4. status[j] # "dead_letter"
    <3>1. status[j] = "dead_letter" => retryCount[j] + 1 >= MaxRetries
      BY Counters DEF Buried
    <3> QED
      BY <1>5, <2>1, <2>2, <3>1 DEF FailCommit, StatusAfterFailure
  <2> QED
    BY <2>2, <2>3, <2>4
<1>6. UNCHANGED status => FALSE
  OBVIOUS
<1> QED
  BY <1>1, <1>2, <1>3, <1>4, <1>5, <1>6
     DEF Next, Request, Tick, vars, EnqueuePush, EnqueueAbort, BecomeDue, RedisDown, RedisBack,
         PromoteRead, PushPromoted, PopOne, FillFromTable, ClaimRead, TickDone, FailRead, Abort

\* With a single runner a dead letter is final, and a success is taken back only after a
\* database error and for one of the job's attempts.
THEOREM ResultsAreFinal == ASSUME SingleRunner PROVE Spec => TerminalIsFinal
<1>1. TypeOK /\ SingleInv /\ [Next]_vars
        => [\A j \in Jobs :
              status[j] \in Terminal /\ status'[j] # status[j]
                => /\ status[j] = "succeeded" /\ errors > 0
                   /\ retryCount'[j] = retryCount[j] + 1]_vars
  BY FinalStep
<1>2. QED
  BY <1>1, TypeCorrect, SingleInvariant, PTL DEF Spec, TerminalIsFinal

\* MaxExecutions, which bounds the instances with racing runners, cuts nothing off with a
\* single runner: it never keeps a claim from being committed.
THEOREM NoExecutionCutOff ==
  ASSUME SingleRunner, MaxExecutions >= MaxRetries
  PROVE  Spec => [](\A w \in Runners : pc[w] = "claim" => executions[current[w]] < MaxExecutions)
<1>1. TypeOK /\ SingleInv
        => \A w \in Runners : pc[w] = "claim" => executions[current[w]] < MaxExecutions
  <2> SUFFICES ASSUME TypeOK, SingleInv, NEW w \in Runners, pc[w] = "claim"
               PROVE  executions[current[w]] < MaxExecutions
    OBVIOUS
  <2>1. PICK j \in Jobs : j = current[w] /\ status[j] = "queued"
    BY DEF TypeOK, SingleInv, Truthful
  <2>2. executions[j] <= retryCount[j] /\ ~(retryCount[j] >= MaxRetries)
    BY <2>1, Counters DEF SingleInv, Funded, Buried, Paid, Settling
  <2> QED
    BY <2>1, <2>2, Counters, BoundsAssumption
<1>2. QED
  BY <1>1, TypeCorrect, SingleInvariant, PTL

-----------------------------------------------------------------------------
(***************************************************************************)
(* A single runner implements JobLifecycle.                                *)
(***************************************************************************)

\* There are no more errors than the bound allows, so none if it is 0.
ErrorsBounded == errors <= MaxErrors

LEMMA ErrorsStayBounded == Spec => []ErrorsBounded
<1>1. Init => ErrorsBounded
  BY BoundsAssumption DEF Init, ErrorsBounded
<1>2. TypeOK /\ ErrorsBounded /\ [Next]_vars => ErrorsBounded'
  <2> SUFFICES ASSUME TypeOK, ErrorsBounded, [Next]_vars PROVE ErrorsBounded'
    OBVIOUS
  <2>1. ASSUME NEW w \in Runners, DatabaseError(w) PROVE ErrorsBounded'
    BY <2>1, BoundsAssumption DEF DatabaseError, ErrorsBounded, TypeOK
  <2>2. CASE UNCHANGED errors
    BY <2>2 DEF ErrorsBounded
  <2> QED
    BY <2>1, <2>2
       DEF Next, Request, Tick, vars, history, EnqueueCommit, EnqueuePush, EnqueueAbort, BecomeDue,
           RedisDown, RedisBack, PromoteRead, PromoteCommit, PushPromoted, PopOne, FillFromTable,
           ClaimRead, TickDone, ClaimCommit, Succeed, FailRead, FailCommit, Abort
<1>3. QED
  BY <1>1, <1>2, TypeCorrect, PTL DEF Spec

\* Steps that leave phases and counters alone are stutters of the lifecycle.
LEMMA Stutter ==
  ASSUME UNCHANGED retryCount, \A j \in Jobs : Phase(status'[j]) = Phase(status[j])
  PROVE  UNCHANGED Lifecycle!vars
  BY DEF Lifecycle!vars

\* A step that writes one status and no counter moves one phase.
LEMMA MovesOne ==
  ASSUME TypeOK, NEW j \in Jobs, NEW to, UNCHANGED retryCount,
         status' = [status EXCEPT ![j] = to]
  PROVE  /\ [i \in Jobs |-> Phase(status[i])]' =
              [[i \in Jobs |-> Phase(status[i])] EXCEPT ![j] = Phase(to)]
         /\ UNCHANGED retryCount
  BY DEF TypeOK

\* The commit of the except branch is a failed attempt of a job that was executing, and a
\* mistake about any other.
LEMMA FailOrMistake ==
  ASSUME SingleRunner, TypeOK, SingleInv, ErrorsBounded, NEW w \in Runners, FailCommit(w),
         NEW j \in Jobs, j = current[w]
  PROVE  Lifecycle!Fail(j) \/ Lifecycle!Mistake(j)
<1> USE DEF SingleInv
<1> DEFINE target == StatusAfterFailure(retryCount[j] + 1)
<1>1. /\ pc[w] = "fail" /\ seen[w] = [status |-> status[j], count |-> retryCount[j]]
      /\ status[j] = "running" \/ errors > 0
      /\ status[j] # "absent"
  BY JobsAssumption DEF FailCommit, Truthful, KnownJobs, StoredJobs, NoJob
<1>2. /\ retryCount' = [retryCount EXCEPT ![j] = retryCount[j] + 1]
      /\ status' = IF target = status[j] THEN status ELSE [status EXCEPT ![j] = target]
  BY <1>1 DEF FailCommit
<1>3. status' = [status EXCEPT ![j] = target]
  BY <1>2 DEF TypeOK
<1>4. [i \in Jobs |-> Phase(status[i])]' =
        [[i \in Jobs |-> Phase(status[i])] EXCEPT ![j] = Phase(target)]
  BY <1>3 DEF TypeOK
<1>5. Phase(target) = IF retryCount[j] + 1 >= MaxRetries THEN "dead_letter" ELSE "waiting"
  BY DEF StatusAfterFailure, Phase
<1>6. CASE status[j] = "running"
  <2>1. retryCount[j] < MaxRetries
    BY <1>6, Counters DEF Buried
  <2>2. retryCount[j] + 1 >= MaxRetries <=> retryCount[j] + 1 = MaxRetries
    BY <2>1, Counters
  <2>3. Phase(status[j]) = "executing"
    BY <1>6 DEF Phase
  <2> QED
    BY <1>2, <1>4, <1>5, <2>2, <2>3 DEF Lifecycle!Fail, Lifecycle!Move
<1>7. CASE status[j] # "running"
  <2>1. MaxErrors > 0
    BY <1>1, <1>7, Counters, BoundsAssumption DEF ErrorsBounded
  <2>2. Phase(status[j]) # "absent"
    BY <1>1 DEF Phase
  <2> QED
    BY <1>2, <1>4, <1>5, <2>1, <2>2 DEF Lifecycle!Mistake
<1> QED
  BY <1>6, <1>7

\* Every step of the queue is a step of the lifecycle of one job or a stutter.
LEMMA LifecycleStep ==
  ASSUME SingleRunner, TypeOK, SingleInv, ErrorsBounded, [Next]_vars
  PROVE  [Lifecycle!Next]_Lifecycle!vars
<1> USE DEF rows, redis, locals, history
<1>1. ASSUME NEW j \in Jobs, EnqueueCommit(j) PROVE Lifecycle!Submit(j)
  BY <1>1, MovesOne DEF EnqueueCommit, Lifecycle!Submit, Lifecycle!Move, Phase
<1>2. ASSUME NEW j \in Jobs, EnqueuePush(j) \/ EnqueueAbort(j) \/ BecomeDue(j)
      PROVE  UNCHANGED Lifecycle!vars
  BY <1>2, Stutter DEF EnqueuePush, EnqueueAbort, BecomeDue
<1>3. ASSUME NEW w \in Runners, PromoteCommit(w) PROVE UNCHANGED Lifecycle!vars
  <2>1. \A j \in Jobs : Phase(status'[j]) = Phase(status[j])
    BY <1>3 DEF PromoteCommit, SingleInv, Truthful, Phase
  <2>2. QED
    BY <1>3, <2>1, Stutter DEF PromoteCommit
<1>4. ASSUME NEW w \in Runners,
             PromoteRead(w) \/ PushPromoted(w) \/ PopOne(w) \/ FillFromTable(w)
               \/ ClaimRead(w) \/ TickDone(w) \/ FailRead(w) \/ Abort(w)
      PROVE  UNCHANGED Lifecycle!vars
  <2>1. UNCHANGED <<status, retryCount>>
    BY <1>4 DEF PromoteRead, PushPromoted, PopOne, FillFromTable, ClaimRead, TickDone,
                FailRead, Abort
  <2>2. QED
    BY <2>1, Stutter
<1>5. ASSUME NEW w \in Runners, ClaimCommit(w) PROVE Lifecycle!Start(current[w])
  <2>1. current[w] \in Jobs /\ Phase(status[current[w]]) = "waiting"
    BY <1>5 DEF ClaimCommit, SingleInv, Truthful, TypeOK, Phase
  <2>2. Phase("running") = "executing"
    BY DEF Phase
  <2>3. QED
    BY <1>5, <2>1, <2>2, MovesOne DEF ClaimCommit, Lifecycle!Start, Lifecycle!Move
<1>6. ASSUME NEW w \in Runners, NEW j \in Jobs, j = current[w], status[j] = "running",
             status' = [status EXCEPT ![j] = "succeeded"], UNCHANGED retryCount
      PROVE  Lifecycle!Succeed(j)
  <2>1. Phase(status[j]) = "executing" /\ Phase("succeeded") = "succeeded"
    BY <1>6 DEF Phase
  <2>2. [i \in Jobs |-> Phase(status[i])]' =
          [[i \in Jobs |-> Phase(status[i])] EXCEPT ![j] = Phase("succeeded")]
    BY <1>6, MovesOne
  <2>3. [i \in Jobs |-> Phase(status[i])][j] = Phase(status[j])
    OBVIOUS
  <2>4. QED
    BY <1>6, <2>1, <2>2, <2>3 DEF Lifecycle!Succeed, Lifecycle!Move
<1>7. ASSUME NEW w \in Runners, Succeed(w) PROVE Lifecycle!Succeed(current[w])
  <2>1. PICK j \in Jobs : j = current[w] /\ status[j] = "running"
    BY <1>7 DEF Succeed, SingleInv, Truthful, TypeOK
  <2>2. QED
    BY <1>6, <1>7, <2>1 DEF Succeed
<1>8. ASSUME NEW w \in Runners, DatabaseError(w) PROVE [Lifecycle!Next]_Lifecycle!vars
  <2>1. CASE ResultFails(w)
    <3>1. PICK j \in Jobs : j = current[w] /\ status[j] = "running"
      BY <2>1 DEF ResultFails, SingleInv, Truthful, TypeOK
    <3>2. Lifecycle!Succeed(j)
      BY <1>6, <1>8, <2>1, <3>1 DEF DatabaseError, ResultFails
    <3>3. QED
      BY <3>2 DEF Lifecycle!Next
  <2>2. CASE UNCHANGED status
    BY <1>8, <2>2, Stutter DEF DatabaseError
  <2>3. QED
    BY <1>8, <2>1, <2>2 DEF DatabaseError, ReadFails, ClaimFails
<1>9. CASE RedisDown \/ RedisBack \/ UNCHANGED vars
  BY <1>9, Stutter DEF RedisDown, RedisBack, vars
<1>10. ASSUME NEW w \in Runners, FailCommit(w) PROVE Lifecycle!Next
  <2>1. PICK j \in Jobs : j = current[w]
    BY <1>10 DEF FailCommit, TypeOK
  <2>2. QED
    BY <1>10, <2>1, FailOrMistake DEF Lifecycle!Next
<1>11. ASSUME NEW w \in Runners, Tick(w) PROVE [Lifecycle!Next]_Lifecycle!vars
  <2>1. ClaimCommit(w) \/ Succeed(w) => current[w] \in Jobs
    BY DEF ClaimCommit, Succeed, TypeOK
  <2>2. QED
    BY <1>3, <1>4, <1>5, <1>7, <1>10, <1>11, <2>1 DEF Tick, Lifecycle!Next
<1>12. QED
  BY <1>1, <1>2, <1>4, <1>8, <1>9, <1>11 DEF Next, Request, Lifecycle!Next

\* With a single runner the queue implements JobLifecycle: one attempt at a time, at
\* most MaxRetries of them, and, where no database error is outlived, a result that never
\* changes.
THEOREM LifecycleImplemented == ASSUME SingleRunner PROVE Spec => ImplementsLifecycle
<1>1. Init => Lifecycle!Init
  BY DEF Init, Lifecycle!Init, Phase
<1>2. TypeOK /\ SingleInv /\ ErrorsBounded /\ [Next]_vars => [Lifecycle!Next]_Lifecycle!vars
  BY LifecycleStep
<1>3. QED
  BY <1>1, <1>2, TypeCorrect, SingleInvariant, ErrorsStayBounded, PTL
     DEF Spec, ImplementsLifecycle, Lifecycle!Spec

-----------------------------------------------------------------------------
(***************************************************************************)
(* The fallback: asking the table for as many more rows as were popped,    *)
(* and dropping the popped ones, gives the oldest rows that were not       *)
(* popped, for any duplicates and stale ids among the popped ones.         *)
(***************************************************************************)
Below(S, j) == {i \in S : i < j}

\* The rows older than a given one can be counted.
LEMMA BelowFinite ==
  ASSUME NEW S, S \subseteq Nat, NEW j \in Nat
  PROVE  IsFiniteSet(Below(S, j)) /\ Cardinality(Below(S, j)) \in Nat
<1>1. IsFiniteSet(0..j)
  <2>1. 0 \in Int /\ j \in Int
    OBVIOUS
  <2> QED
    BY <2>1, FS_Interval
<1>2. Below(S, j) \in SUBSET (0..j)
  <2>1. ASSUME NEW x \in S, x < j PROVE x \in 0..j
    <3>1. x \in Nat
      OBVIOUS
    <3> QED
      BY <2>1, <3>1
  <2> QED
    BY <2>1 DEF Below
<1> QED
  BY <1>1, <1>2, FS_Subset, FS_CardinalityType

\* Fewer rows, fewer older ones.
LEMMA BelowMonotone ==
  ASSUME NEW S, S \subseteq Nat, NEW T, T \subseteq S, NEW i \in Nat, NEW j \in Nat, i <= j
  PROVE  Cardinality(Below(T, i)) <= Cardinality(Below(S, j))
<1>1. Below(T, i) \in SUBSET Below(S, j)
  <2>1. ASSUME NEW x \in T, x < i PROVE x \in S /\ x < j
    <3>1. x \in Nat
      OBVIOUS
    <3> QED
      BY <2>1, <3>1
  <2> QED
    BY <2>1 DEF Below
<1> QED
  BY <1>1, BelowFinite, FS_Subset

\* What is older than one of the n oldest is one of them.
LEMMA OldestDownward ==
  ASSUME NEW S, S \subseteq Nat, NEW n \in Int, NEW j \in Oldest(S, n), NEW i \in S, i <= j
  PROVE  i \in Oldest(S, n)
<1>1. j \in S /\ Cardinality(Below(S, j)) < n
  BY DEF Oldest, Below
<1>2. Cardinality(Below(S, i)) <= Cardinality(Below(S, j))
  BY <1>1, BelowMonotone
<1>3. Cardinality(Below(S, i)) \in Nat /\ Cardinality(Below(S, j)) \in Nat
  BY <1>1, BelowFinite
<1> QED
  BY <1>1, <1>2, <1>3 DEF Oldest, Below

\* The n oldest rows without X are among the n + |X| oldest rows, less X.
Without(S, X) == S \ X

LEMMA OldestOfRest ==
  ASSUME NEW S, S \subseteq Nat, NEW X, IsFiniteSet(X), NEW n \in Int
  PROVE  Oldest(Without(Oldest(S, n + Cardinality(X)), X), n) = Oldest(Without(S, X), n)
<1> DEFINE C == Oldest(S, n + Cardinality(X))
<1> DEFINE D == Without(C, X)
<1> DEFINE R == Without(S, X)
<1>0. C = Oldest(S, n + Cardinality(X)) /\ D = C \ X /\ R = S \ X
  BY DEF Without
<1> HIDE DEF C, D, R
<1> USE <1>0
<1>1. C \subseteq S /\ Cardinality(X) \in Nat
  BY FS_CardinalityType DEF Oldest
<1>2. ASSUME NEW j \in C PROVE Below(D, j) = Below(R, j)
  <2>1. ASSUME NEW i \in S, i < j PROVE i \in C
    <3>1. i \in Nat /\ j \in Nat
      BY <1>1
    <3>2. i <= j
      BY <2>1, <3>1
    <3>3. n + Cardinality(X) \in Int
      BY <1>1
    <3> QED
      BY <3>2, <3>3, OldestDownward
  <2> QED
    BY <1>1, <2>1 DEF Below
<1>3. ASSUME NEW j \in R, Cardinality(Below(R, j)) < n PROVE j \in C
  <2> DEFINE A == Below(R, j)
  <2>1. IsFiniteSet(A) /\ Cardinality(A) \in Nat
    BY BelowFinite
  <2>2. /\ IsFiniteSet(A \cup X)
        /\ Cardinality(A \cup X) = Cardinality(A) + Cardinality(X) - Cardinality(A \cap X)
    BY <2>1, FS_Union
  <2>3. Cardinality(A \cap X) \in Nat
    <3>1. A \cap X \in SUBSET X
      OBVIOUS
    <3> QED
      BY <3>1, FS_Subset, FS_CardinalityType
  <2>4. Cardinality(Below(S, j)) <= Cardinality(A \cup X)
    <3>1. Below(S, j) \in SUBSET (A \cup X)
      BY DEF Below
    <3> QED
      BY <2>2, <3>1, FS_Subset
  <2>5. Cardinality(Below(S, j)) \in Nat /\ Cardinality(A \cup X) \in Nat
    BY <2>2, BelowFinite, FS_CardinalityType
  <2>6. Cardinality(Below(S, j)) < n + Cardinality(X)
    BY <1>1, <1>3, <2>1, <2>2, <2>3, <2>4, <2>5
  <2> QED
    BY <2>6 DEF Oldest, Below
<1>4. Oldest(D, n) = {j \in D : Cardinality(Below(D, j)) < n}
  BY DEF Oldest, Below
<1>5. Oldest(R, n) = {j \in R : Cardinality(Below(R, j)) < n}
  BY DEF Oldest, Below
<1>6. Oldest(D, n) \subseteq Oldest(R, n)
  <2>1. D \subseteq R /\ D \subseteq C
    BY <1>1
  <2> QED
    BY <1>2, <1>4, <1>5, <2>1
<1>7. Oldest(R, n) \subseteq Oldest(D, n)
  <2>1. ASSUME NEW j \in R, Cardinality(Below(R, j)) < n PROVE j \in D /\ j \in C
    BY <1>3, <2>1
  <2> QED
    BY <1>2, <1>4, <1>5, <2>1
<1> QED
  BY <1>6, <1>7 DEF C, D, R

\* A non-empty set of naturals has a least element.
LEMMA Least ==
  ASSUME NEW S, S \subseteq Nat, S # {} PROVE \E x \in S : \A y \in S : x <= y
<1>1. PICK x \in S : \A y \in S : ~(<<y, x>> \in OpToRel(<, Nat))
  BY NatLessThanWellFounded, WFMin, Zenon
<1>2. \A a, b \in Nat : a < b => <<a, b>> \in OpToRel(<, Nat)
  <2>1. \A a, b \in Nat : a < b => <<a, b>> \in {ss \in Nat \X Nat : ss[1] < ss[2]}
    OBVIOUS
  <2> QED
    BY <2>1 DEF OpToRel
<1>3. ASSUME NEW y \in S PROVE ~(y < x)
  BY <1>1, <1>2, Zenon
<1>4. ASSUME NEW y \in S PROVE x <= y
  <2>1. x \in Int /\ y \in Int
    OBVIOUS
  <2> QED
    BY <1>3, <2>1, SMT
<1> QED
  BY <1>4

\* Rows are left out of the n oldest only if there are n of them.
LEMMA OldestFill ==
  ASSUME NEW S, S \subseteq Nat, NEW n \in Int, NEW j \in S, j \notin Oldest(S, n)
  PROVE  /\ \A i \in Oldest(S, n) : i < j
         /\ IsFiniteSet(Oldest(S, n)) /\ Cardinality(Oldest(S, n)) >= n
<1>1. PICK k \in S \ Oldest(S, n) : \A i \in S \ Oldest(S, n) : k <= i
  BY Least
<1>2. ASSUME NEW i \in Oldest(S, n), NEW l \in S \ Oldest(S, n) PROVE i < l
  <2>1. i \in S /\ i \in Nat /\ l \in Nat
    BY DEF Oldest
  <2>2. ~(l <= i)
    BY <2>1, OldestDownward
  <2> QED
    BY <2>1, <2>2
<1>3. Below(S, k) = Oldest(S, n)
  <2>1. \A i \in S : i < k => i \in Oldest(S, n)
    BY <1>1
  <2>2. Oldest(S, n) \subseteq S
    BY DEF Oldest
  <2> QED
    BY <1>1, <1>2, <2>1, <2>2 DEF Below
<1>4. IsFiniteSet(Below(S, k)) /\ Cardinality(Below(S, k)) \in Nat
  BY <1>1, BelowFinite
<1>5. ~(Cardinality(Below(S, k)) < n)
  BY <1>1 DEF Oldest, Below
<1> QED
  BY <1>2, <1>3, <1>4, <1>5

\* A batch names finitely many rows.
LEMMA BatchFinite == ASSUME NEW q \in Seq(Jobs) PROVE IsFiniteSet(ToSet(q))
<1>1. q \in [1..Len(q) -> ToSet(q)] /\ Len(q) \in Nat
  BY DEF ToSet
<1>2. \A x \in ToSet(q) : \E i \in 1..Len(q) : q[i] = x
  BY DEF ToSet
<1>3. q \in Surjection(1..Len(q), ToSet(q))
  BY <1>1, <1>2 DEF Surjection
<1>4. IsFiniteSet(1..Len(q))
  BY <1>1, FS_Interval
<1> QED
  BY <1>3, <1>4, FS_Surjection

QueuedRows == {j \in Jobs : status[j] = "queued"}
Room(w) == BatchSize - Len(popped[w])

\* The fallback takes the oldest queued rows that were not popped.
LEMMA FallbackIsOldest ==
  ASSUME TypeOK, NEW w \in Runners
  PROVE  FallbackJobs(w) = Oldest(QueuedRows \ ToSet(popped[w]), Room(w))
<1>0. popped[w] \in Seq(Jobs) /\ Len(popped[w]) \in Nat
  BY DEF TypeOK
<1>1. QueuedRows \subseteq Nat /\ Room(w) \in Int /\ IsFiniteSet(ToSet(popped[w]))
  <2>1. QueuedRows \subseteq Nat
    BY JobsAssumption DEF QueuedRows
  <2>2. IsFiniteSet(ToSet(popped[w]))
    BY <1>0, BatchFinite
  <2> QED
    BY <1>0, <2>1, <2>2, BatchAssumption DEF Room
<1> DEFINE X == ToSet(popped[w])
<1> DEFINE n == Room(w)
<1>2. FallbackJobs(w) = Oldest(Without(Oldest(QueuedRows, n + Cardinality(X)), X), n)
  BY DEF FallbackJobs, QueuedRows, Room, Without
<1>3. Oldest(Without(Oldest(QueuedRows, n + Cardinality(X)), X), n) = Oldest(Without(QueuedRows, X), n)
  <2>1. QueuedRows \subseteq Nat /\ IsFiniteSet(X) /\ n \in Int
    BY <1>1
  <2> HIDE DEF X, n
  <2> QED
    BY <2>1, OldestOfRest
<1> QED
  BY <1>2, <1>3 DEF Without

\* No queued row is overtaken in the table: a tick leaves one out only if its batch is full
\* and all rows that it took from the table are older (_fallback_queued_job_ids, whose
\* query is limited before the popped ids are dropped).
THEOREM OldestFirst ==
  Spec => [][\A w \in Runners, j \in Jobs :
               FillFromTable(w) /\ status[j] = "queued" /\ j \notin ToSet(popped[w]) \cup fallback'[w]
                 => /\ \A i \in fallback'[w] : i < j
                    /\ Len(popped[w]) + Cardinality(fallback'[w]) >= BatchSize]_vars
<1>1. TypeOK /\ [Next]_vars =>
        [\A w \in Runners, j \in Jobs :
           FillFromTable(w) /\ status[j] = "queued" /\ j \notin ToSet(popped[w]) \cup fallback'[w]
             => /\ \A i \in fallback'[w] : i < j
                /\ Len(popped[w]) + Cardinality(fallback'[w]) >= BatchSize]_vars
  <2> SUFFICES ASSUME TypeOK, NEW w \in Runners, NEW j \in Jobs, FillFromTable(w),
                      status[j] = "queued", j \notin ToSet(popped[w]) \cup fallback'[w]
               PROVE  /\ \A i \in fallback'[w] : i < j
                      /\ Len(popped[w]) + Cardinality(fallback'[w]) >= BatchSize
    OBVIOUS
  <2> DEFINE S == QueuedRows \ ToSet(popped[w])
  <2>1. fallback'[w] = Oldest(S, Room(w))
    BY FallbackIsOldest DEF FillFromTable, TypeOK
  <2>2. S \subseteq Nat /\ j \in S /\ j \notin Oldest(S, Room(w)) /\ Room(w) \in Int
    BY <2>1, JobsAssumption, BatchAssumption DEF QueuedRows, Room, TypeOK
  <2> HIDE DEF S
  <2>3. /\ \A i \in Oldest(S, Room(w)) : i < j
        /\ IsFiniteSet(Oldest(S, Room(w))) /\ Cardinality(Oldest(S, Room(w))) >= Room(w)
    BY <2>2, OldestFill
  <2>4. Cardinality(Oldest(S, Room(w))) \in Nat /\ Len(popped[w]) \in Nat
    BY <2>3, FS_CardinalityType DEF TypeOK
  <2> QED
    BY <2>1, <2>3, <2>4, BatchAssumption DEF Room
<1>2. QED
  BY <1>1, TypeCorrect, PTL DEF Spec

=============================================================================
