--------------------------- MODULE CircuitBreaker ---------------------------
(***************************************************************************)
(* One circuit of CircuitBreakerRegistry (observability/policies.py), with *)
(* the calls that run through it at the same time.  execute reads the      *)
(* clock, takes the lock to decide, runs the callback without the lock and *)
(* takes the lock again to record the outcome: a call is decided on an old *)
(* clock, and its outcome arrives in whatever state the others have left.  *)
(*                                                                         *)
(* Time is counted in ticks and kept as ages: openedFor is the time since  *)
(* opened_at, lag the time since a caller read its clock.                  *)
(***************************************************************************)
EXTENDS Naturals

CONSTANTS
  Callers,       \* threads that call the service
  Threshold,     \* failure_threshold
  Recovery,      \* recovery_seconds
  MaxLag,        \* bound: ticks between a caller's clock reading and its lock
  MaxCount       \* bound: failure_count is not followed any further

ASSUME ThresholdAssumption == Threshold \in Nat \ {0} /\ MaxCount \in Nat /\ Threshold <= MaxCount
ASSUME TimeAssumption == Recovery \in Nat \ {0} /\ MaxLag \in Nat

VARIABLES
  state, failureCount, openedFor,    \* the _CircuitState
  stage, lag,                        \* of each caller
  quietFor                           \* history: time since a call last failed

circuit == <<state, failureCount, openedFor>>
callers == <<stage, lag>>
vars == <<circuit, callers, quietFor>>

\* Ages beyond the horizon decide nothing any more.
Horizon == Recovery + MaxLag
Older(age) == IF age < Horizon THEN age + 1 ELSE age

\* A circuit is created closed by its first call; with no opened_at its age is the horizon.
Init ==
  /\ state = "closed" /\ failureCount = 0 /\ openedFor = Horizon
  /\ stage = [c \in Callers |-> "idle"]
  /\ lag = [c \in Callers |-> 0]
  /\ quietFor = Horizon

Arrive(c) ==
  /\ stage[c] = "idle"
  /\ stage' = [stage EXCEPT ![c] = "arrived"]
  /\ lag' = [lag EXCEPT ![c] = 0]
  /\ UNCHANGED <<circuit, quietFor>>

\* Faulty variant: the comparison is off by one tick.
RecoveredEarly(c) == openedFor + 1 >= Recovery + lag[c]

\* The caller's clock shows at least opened_at + recovery_seconds.
Recovered(c) == openedFor >= Recovery + lag[c]

\* Faulty variants: the first probe starts a new count; the name of the state is mistyped.
AdmitResetsCount(c) ==
  /\ stage[c] = "arrived"
  /\ state = "open" => Recovered(c)
  /\ state' = IF state = "open" THEN "half_open" ELSE state
  /\ failureCount' = IF state = "open" THEN 0 ELSE failureCount
  /\ stage' = [stage EXCEPT ![c] = "calling"]
  /\ UNCHANGED <<openedFor, lag, quietFor>>
AdmitMistyped(c) ==
  /\ stage[c] = "arrived"
  /\ state = "open" => Recovered(c)
  /\ state' = IF state = "open" THEN "half-open" ELSE state
  /\ stage' = [stage EXCEPT ![c] = "calling"]
  /\ UNCHANGED <<failureCount, openedFor, lag, quietFor>>

Admit(c) ==
  /\ stage[c] = "arrived"
  /\ state = "open" => Recovered(c)
  /\ state' = IF state = "open" THEN "half_open" ELSE state
  /\ stage' = [stage EXCEPT ![c] = "calling"]
  /\ UNCHANGED <<failureCount, openedFor, lag, quietFor>>

\* Faulty variant: a rejected call counts as one more failure of the service.
RejectExtends(c) ==
  /\ stage[c] = "arrived"
  /\ state = "open" /\ ~Recovered(c)
  /\ openedFor' = 0
  /\ stage' = [stage EXCEPT ![c] = "idle"]
  /\ UNCHANGED <<state, failureCount, lag, quietFor>>

Reject(c) ==
  /\ stage[c] = "arrived"
  /\ state = "open" /\ ~Recovered(c)
  /\ stage' = [stage EXCEPT ![c] = "idle"]
  /\ UNCHANGED <<circuit, lag, quietFor>>

\* The failure of a call that was admitted long ago opens the circuit again, or for longer.
CallFails(c) ==
  LET count == IF failureCount < MaxCount THEN failureCount + 1 ELSE failureCount IN
  /\ stage[c] = "calling"
  /\ failureCount' = count
  /\ state' = IF count >= Threshold THEN "open" ELSE state
  /\ openedFor' = IF count >= Threshold THEN 0 ELSE openedFor
  /\ quietFor' = 0
  /\ stage' = [stage EXCEPT ![c] = "idle"]
  /\ UNCHANGED lag

\* Faulty variant: only a probe's success closes the circuit.
CallSucceedsKeepsState(c) ==
  /\ stage[c] = "calling"
  /\ failureCount' = 0
  /\ state' = IF state = "half_open" THEN "closed" ELSE state
  /\ openedFor' = Horizon
  /\ stage' = [stage EXCEPT ![c] = "idle"]
  /\ UNCHANGED <<lag, quietFor>>

CallSucceeds(c) ==
  /\ stage[c] = "calling"
  /\ failureCount' = 0
  /\ state' = "closed"
  /\ openedFor' = Horizon
  /\ stage' = [stage EXCEPT ![c] = "idle"]
  /\ UNCHANGED <<lag, quietFor>>

Tick ==
  /\ \A c \in Callers : stage[c] = "arrived" => lag[c] < MaxLag
  /\ lag' = [c \in Callers |-> IF stage[c] = "arrived" THEN lag[c] + 1 ELSE lag[c]]
  /\ openedFor' = Older(openedFor)
  /\ quietFor' = Older(quietFor)
  /\ UNCHANGED <<state, failureCount, stage>>

Decide(c) == Admit(c) \/ Reject(c)
Finish(c) == CallFails(c) \/ CallSucceeds(c)

Next == Tick \/ \E c \in Callers : Arrive(c) \/ Decide(c) \/ Finish(c)

Spec == Init /\ [][Next]_vars

\* Time passes, the lock is handed on, every call has a timeout, and the service
\* is asked for again and again.
Fairness ==
  /\ WF_vars(Tick)
  /\ \A c \in Callers : WF_vars(Arrive(c)) /\ WF_vars(Decide(c)) /\ WF_vars(Finish(c))

FairSpec == Spec /\ Fairness

-----------------------------------------------------------------------------
TypeOK ==
  /\ state \in {"closed", "open", "half_open"}
  /\ failureCount \in 0..MaxCount
  /\ openedFor \in 0..Horizon
  /\ stage \in [Callers -> {"idle", "arrived", "calling"}]
  /\ lag \in [Callers -> 0..MaxLag]
  /\ quietFor \in 0..Horizon

\* Whatever order outcomes arrive in, the state and the counter tell the same story, so
\* that one failed probe reopens the circuit and one success forgives everything.
CountMatchesState == state = "closed" <=> failureCount < Threshold

\* A half-open circuit always has a call under way that will decide it: it cannot be
\* left half-open by calls that overtook each other.
HalfOpenIsProbing == state = "half_open" => \E c \in Callers : stage[c] = "calling"

\* An open circuit lets a call through only after recovery_seconds without any failure,
\* also when failures of earlier calls came in late and the caller's clock is old.
QuietPeriod ==
  [][\A c \in Callers :
       state = "open" /\ stage[c] = "arrived" /\ stage'[c] = "calling" => quietFor >= Recovery]_vars

\* A service is never given up: as long as it is asked for, an open circuit is probed.
EventuallyProbed == state = "open" ~> state # "open"

=============================================================================
