--------------------------- MODULE ReplyDelivery ---------------------------
(***************************************************************************)
(* Replies to the customer of one claim (services/claim_service.py):       *)
(* operators send, retry and set the status at the same time.  A request   *)
(* reads the claim, calls the provider while its transaction is open, and  *)
(* commits the outcome; it decides by what it read, and writes the status  *)
(* only if that differs from the one it loaded.                            *)
(*                                                                         *)
(* Attempts are listed by created_at, which the database fills in: the     *)
(* start of the transaction in PostgreSQL, the insertion in SQLite.        *)
(***************************************************************************)
EXTENDS Naturals, Sequences, FiniteSets

CONSTANTS
  Operators,
  Bodies,            \* texts of replies
  MaxRequests,       \* bound: requests ever begun
  MaxLost            \* bound: requests that die on the way

ASSUME BoundAssumption == MaxRequests \in Nat /\ MaxLost \in Nat
ASSUME OperatorAssumption == IsFiniteSet(Operators)

VARIABLES
  createdAt,         \* how the database stamps rows: "begin" or "insert"
  deliveries,        \* reply_deliveries, in the order of their ids
  messages,          \* number of merchant messages on the claim
  status,            \* status of the claim
  request,           \* the request of each operator
  clock,             \* requests begun so far
  received,          \* history: texts that went out to the customer
  unrecorded,        \* history: how many of these no attempt shows as sent
  overlapped,        \* history: two requests have been under way at once
  moved,             \* history: another request changed the status since this one read it
  lost

claim == <<deliveries, messages, status>>
history == <<received, unrecorded, overlapped, moved>>
vars == <<createdAt, claim, request, clock, history, lost>>

ClaimStatuses == {"in_review", "done"}
Kinds == {"send", "retry", "status"}
NoText == "none"
Idle == [step |-> "idle", kind |-> "send", began |-> 0, attempt |-> 0, body |-> NoText,
         seen |-> "in_review", target |-> "in_review"]

Init ==
  /\ createdAt \in {"begin", "insert"}
  /\ deliveries = <<>> /\ messages = 0 /\ status = "in_review"
  /\ request = [o \in Operators |-> Idle]
  /\ clock = 0
  /\ received = 0 /\ unrecorded = 0 /\ overlapped = FALSE
  /\ moved = [o \in Operators |-> FALSE]
  /\ lost = 0

-----------------------------------------------------------------------------
\* Which attempt the relationship lists first.
Stamp(i) == IF createdAt = "begin" THEN deliveries[i].began ELSE i
First(S) == CHOOSE i \in S : \A k \in S : Stamp(k) <= Stamp(i)
Failed == {i \in DOMAIN deliveries : deliveries[i].status = "failed"}
Sent == {i \in DOMAIN deliveries : deliveries[i].status = "sent"}

\* Faulty variants: numbers start at 0; the number is the count of attempts; only
\* successful attempts count.
NextAttemptNoFromZero == IF deliveries = <<>> THEN 0 ELSE deliveries[First(DOMAIN deliveries)].attempt + 1
NextAttemptNoByCount == Len(deliveries) + 1
NextAttemptNoOfSent == IF Sent = {} THEN 1 ELSE deliveries[First(Sent)].attempt + 1

NextAttemptNo == IF deliveries = <<>> THEN 1 ELSE deliveries[First(DOMAIN deliveries)].attempt + 1

\* can_retry_delivery of the automation summary
CanRetryDelivery == deliveries # <<>> /\ deliveries[First(DOMAIN deliveries)].status = "failed"

\* The database stamps the transaction when the request looks up its operator; target is
\* the new status, or for a reply "done" if mark_done is set.
Begin(o) ==
  /\ request[o].step = "idle" /\ clock < MaxRequests
  /\ clock' = clock + 1
  /\ \E k \in Kinds, s \in ClaimStatuses :
       request' = [request EXCEPT ![o] = [Idle EXCEPT !.step = "begun", !.kind = k,
                                          !.began = clock', !.target = s]]
  /\ overlapped' = (overlapped \/ \E p \in Operators \ {o} : request[p].step # "idle")
  /\ UNCHANGED <<createdAt, claim, received, unrecorded, moved, lost>>

\* What a request takes from the claim as it finds it.
ReadClaim(o, body) ==
  /\ request[o].step = "begun"
  /\ request' = [request EXCEPT ![o].step = IF request[o].kind = "status" THEN "deciding" ELSE "sending",
                                ![o].body = body, ![o].attempt = NextAttemptNo, ![o].seen = status]
  /\ moved' = [moved EXCEPT ![o] = FALSE]
  /\ UNCHANGED <<createdAt, claim, clock, received, unrecorded, overlapped, lost>>

\* The text is typed or the latest draft; without either the request ends here.
ReadToSend(o) ==
  request[o].kind = "send" /\ \E b \in Bodies : ReadClaim(o, b)

\* Faulty variant: the oldest failed attempt is taken.
FailedToRetryOldest == CHOOSE i \in Failed : \A k \in Failed : Stamp(i) <= Stamp(k)
FailedToRetry == First(Failed)

ReadToRetry(o) ==
  request[o].kind = "retry" /\ Failed # {} /\ ReadClaim(o, deliveries[FailedToRetry].body)

ReadToSetStatus(o) ==
  request[o].kind = "status" /\ ReadClaim(o, NoText)

\* 404: nothing to retry
RetryRefused(o) ==
  /\ request[o].step = "begun" /\ request[o].kind = "retry" /\ Failed = {}
  /\ request' = [request EXCEPT ![o] = Idle]
  /\ UNCHANGED <<createdAt, claim, clock, history, lost>>

Reach(o) ==
  /\ request[o].step = "sending"
  /\ request' = [request EXCEPT ![o].step = "reached"]
  /\ received' = received + 1
  /\ UNCHANGED <<createdAt, claim, clock, unrecorded, overlapped, moved, lost>>

Attempt(o, outcome) ==
  [began |-> request[o].began, attempt |-> request[o].attempt, status |-> outcome,
   body |-> request[o].body]

\* Faulty variant: only a first attempt closes the claim.
StatusWrittenOnce(o) ==
  IF request[o].target # request[o].seen /\ request[o].attempt = 1 THEN request[o].target ELSE status

\* The UPDATE names the status only if the session changed it.
StatusWritten(o) == IF request[o].target # request[o].seen THEN request[o].target ELSE status

WriteStatus(o) ==
  /\ status' = StatusWritten(o)
  /\ moved' = IF status' # status THEN [p \in Operators |-> p # o] ELSE moved

RecordSent(o) ==
  /\ request[o].step = "reached"
  /\ deliveries' = Append(deliveries, Attempt(o, "sent"))
  /\ messages' = messages + 1
  /\ IF request[o].target = "done" THEN WriteStatus(o) ELSE UNCHANGED <<status, moved>>
  /\ request' = [request EXCEPT ![o] = Idle]
  /\ UNCHANGED <<createdAt, clock, received, unrecorded, overlapped, lost>>

\* Faulty variant: the attempt gets the default status of its column.
RecordFailedByDefault(o) ==
  /\ request[o].step \in {"sending", "reached"}
  /\ deliveries' = Append(deliveries, Attempt(o, "sent"))
  /\ unrecorded' = IF request[o].step = "reached" THEN unrecorded + 1 ELSE unrecorded
  /\ request' = [request EXCEPT ![o] = Idle]
  /\ UNCHANGED <<createdAt, messages, status, clock, received, overlapped, moved, lost>>

\* The breaker is open, the provider refuses, or its answer is lost after it acted.
RecordFailed(o) ==
  /\ request[o].step \in {"sending", "reached"}
  /\ deliveries' = Append(deliveries, Attempt(o, "failed"))
  /\ unrecorded' = IF request[o].step = "reached" THEN unrecorded + 1 ELSE unrecorded
  /\ request' = [request EXCEPT ![o] = Idle]
  /\ UNCHANGED <<createdAt, messages, status, clock, received, overlapped, moved, lost>>

CommitStatus(o) ==
  /\ request[o].step = "deciding"
  /\ WriteStatus(o)
  /\ request' = [request EXCEPT ![o] = Idle]
  /\ UNCHANGED <<createdAt, deliveries, messages, clock, received, unrecorded, overlapped, lost>>

\* The process dies, or the commit fails.
Lost(o) ==
  /\ request[o].step # "idle" /\ lost < MaxLost
  /\ lost' = lost + 1
  /\ unrecorded' = IF request[o].step = "reached" THEN unrecorded + 1 ELSE unrecorded
  /\ request' = [request EXCEPT ![o] = Idle]
  /\ UNCHANGED <<createdAt, claim, clock, received, overlapped, moved>>

Next ==
  \E o \in Operators :
    \/ Begin(o) \/ ReadToSend(o) \/ ReadToRetry(o) \/ ReadToSetStatus(o) \/ RetryRefused(o)
    \/ Reach(o) \/ RecordSent(o) \/ RecordFailed(o) \/ CommitStatus(o) \/ Lost(o)

Spec == Init /\ [][Next]_vars

-----------------------------------------------------------------------------
Texts == Bodies \cup {NoText}
Requests ==
  [step : {"idle", "begun", "sending", "reached", "deciding"}, kind : Kinds,
   began : 0..MaxRequests, attempt : 0..MaxRequests, body : Texts,
   seen : ClaimStatuses, target : ClaimStatuses]
Attempts ==
  [began : 1..MaxRequests, attempt : 1..MaxRequests, status : {"sent", "failed"}, body : Bodies]

TypeOK ==
  /\ createdAt \in {"begin", "insert"}
  /\ deliveries \in Seq(Attempts) /\ messages \in 0..MaxRequests /\ status \in ClaimStatuses
  /\ request \in [Operators -> Requests]
  /\ clock \in 0..MaxRequests /\ lost \in 0..MaxLost
  /\ received \in 0..MaxRequests /\ unrecorded \in 0..MaxRequests
  /\ overlapped \in BOOLEAN /\ moved \in [Operators -> BOOLEAN]

\* Every text the customer got is an attempt shown as sent, one that looked like a failure
\* or died after it went out, or one whose request is not finished; nothing is shown as
\* sent that never went out, and the conversation shows as many replies as were sent.
SendsAccounted ==
  /\ received = Cardinality(Sent) + unrecorded
               + Cardinality({o \in Operators : request[o].step = "reached"})
  /\ messages = Cardinality(Sent)

\* Racing operators may use an attempt number twice, but none is skipped: the number before
\* it was taken by an attempt stored earlier.
NoNumberSkipped ==
  \A i \in DOMAIN deliveries :
    deliveries[i].attempt > 1 => \E k \in 1..(i - 1) : deliveries[k].attempt = deliveries[i].attempt - 1

\* As long as no two requests for the claim have overlapped, attempt_no counts the attempts,
\* in spite of failures and of requests that died.
NumbersCount ==
  ~overlapped => \A i \in DOMAIN deliveries : deliveries[i].attempt = i

\* When the summary offers a retry, a retry sends the text of the attempt it shows as the
\* latest, whichever operators and in whatever order have failed before.
RetrySendsWhatIsOffered ==
  [][\A o \in Operators :
       ReadToRetry(o) /\ CanRetryDelivery
         => request'[o].body = deliveries[First(DOMAIN deliveries)].body]_vars

\* A request that closes the claim leaves it closed, or lost to a change that another
\* request made after this one had read the claim.
ClosedUnlessMoved ==
  [][\A o \in Operators :
       RecordSent(o) /\ request[o].target = "done" => status' = "done" \/ moved[o]]_vars

\* The operator's page reports a sent reply with mark_done as a closed claim.
ClosedAsReported ==
  [][\A o \in Operators : RecordSent(o) /\ request[o].target = "done" => status' = "done"]_vars

=============================================================================
