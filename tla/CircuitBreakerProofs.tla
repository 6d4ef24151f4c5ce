------------------------ MODULE CircuitBreakerProofs ------------------------
(***************************************************************************)
(* The safety properties of CircuitBreaker for any number of callers, any  *)
(* thresholds and any lag.  One invariant carries them all: the counter    *)
(* tells the state, a half-open circuit is being probed, and the time      *)
(* since an open circuit was (re)opened is the time since the last failure.*)
(***************************************************************************)
EXTENDS CircuitBreaker, TLAPS

\* In an open circuit opened_at is the time of the last failure, whoever's it was.
OpenedByLastFailure == state = "open" => openedFor = quietFor

BreakerInv == TypeOK /\ CountMatchesState /\ HalfOpenIsProbing /\ OpenedByLastFailure

\* Ages stay within the horizon and never shrink by the passing of time.
LEMMA OlderType == \A age \in 0..Horizon : Older(age) \in 0..Horizon
  BY TimeAssumption DEF Older, Horizon

\* A new circuit satisfies the invariant.
LEMMA InitBreaker == Init => BreakerInv
  BY ThresholdAssumption, TimeAssumption
  DEF Init, BreakerInv, TypeOK, CountMatchesState, HalfOpenIsProbing, OpenedByLastFailure, Horizon

\* Every step of every caller keeps the invariant, as does the clock.
LEMMA NextBreaker == BreakerInv /\ [Next]_vars => BreakerInv'
<1> SUFFICES ASSUME BreakerInv, [Next]_vars PROVE BreakerInv'
  OBVIOUS
<1> USE DEF BreakerInv, TypeOK, CountMatchesState, HalfOpenIsProbing, OpenedByLastFailure
<1>1. CASE Tick
  <2>1. TypeOK'
    <3>1. openedFor' \in 0..Horizon /\ quietFor' \in 0..Horizon
      BY <1>1, OlderType DEF Tick
    <3>2. lag' \in [Callers -> 0..MaxLag]
      <4>1. \A c \in Callers :
              (IF stage[c] = "arrived" THEN lag[c] + 1 ELSE lag[c]) \in 0..MaxLag
        BY <1>1, TimeAssumption DEF Tick
      <4> QED BY <1>1, <4>1 DEF Tick
    <3> QED BY <1>1, <3>1, <3>2 DEF Tick
  <2>2. CountMatchesState' /\ HalfOpenIsProbing' /\ OpenedByLastFailure'
    BY <1>1 DEF Tick
  <2> QED BY <2>1, <2>2
<1>2. ASSUME NEW c \in Callers, Arrive(c) PROVE BreakerInv'
  BY <1>2, TimeAssumption DEF Arrive, circuit
<1>3. ASSUME NEW c \in Callers, Admit(c) PROVE BreakerInv'
  <2>1. TypeOK' /\ OpenedByLastFailure'
    BY <1>3 DEF Admit
  <2>2. CountMatchesState'
    BY <1>3 DEF Admit
  <2>3. stage'[c] = "calling"
    BY <1>3 DEF Admit
  <2> QED BY <2>1, <2>2, <2>3
<1>4. ASSUME NEW c \in Callers, Reject(c) PROVE BreakerInv'
  BY <1>4 DEF Reject, circuit
<1>5. ASSUME NEW c \in Callers, CallFails(c) PROVE BreakerInv'
  <2> DEFINE count == IF failureCount < MaxCount THEN failureCount + 1 ELSE failureCount
  <2>1. count \in 0..MaxCount /\ (failureCount >= Threshold => count >= Threshold)
    BY ThresholdAssumption
  <2>2. failureCount' = count /\ state' = (IF count >= Threshold THEN "open" ELSE state)
        /\ openedFor' = (IF count >= Threshold THEN 0 ELSE openedFor) /\ quietFor' = 0
        /\ stage' = [stage EXCEPT ![c] = "idle"] /\ lag' = lag
    BY <1>5 DEF CallFails
  <2> HIDE DEF count
  <2>3. TypeOK'
    BY <2>1, <2>2, TimeAssumption DEF Horizon
  <2>4. state # "closed" => state' = "open"
    BY <2>1, <2>2, ThresholdAssumption
  <2>5. CountMatchesState'
    BY <2>1, <2>2, <2>4, ThresholdAssumption
  <2>6. HalfOpenIsProbing' /\ OpenedByLastFailure'
    BY <2>1, <2>2, <2>4, ThresholdAssumption
  <2> QED BY <2>3, <2>5, <2>6
<1>6. ASSUME NEW c \in Callers, CallSucceeds(c) PROVE BreakerInv'
  BY <1>6, ThresholdAssumption, TimeAssumption DEF CallSucceeds, Horizon
<1>7. CASE UNCHANGED vars
  BY <1>7 DEF vars, circuit, callers
<1> QED BY <1>1, <1>2, <1>3, <1>4, <1>5, <1>6, <1>7 DEF Next, Decide, Finish

\* BreakerInv holds in every reachable state.
THEOREM BreakerInvariant == Spec => []BreakerInv
<1>1. Init => BreakerInv
  BY InitBreaker
<1>2. BreakerInv /\ [Next]_vars => BreakerInv'
  BY NextBreaker
<1> QED BY <1>1, <1>2, PTL DEF Spec

\* The circuit and the callers keep their types.
THEOREM BreakerTypeCorrect == Spec => []TypeOK
<1>1. BreakerInv => TypeOK
  BY DEF BreakerInv
<1> QED BY <1>1, BreakerInvariant, PTL

\* The state and the failure counter agree, whatever order outcomes arrive in.
THEOREM CountTellsState == Spec => []CountMatchesState
<1>1. BreakerInv => CountMatchesState
  BY DEF BreakerInv
<1> QED BY <1>1, BreakerInvariant, PTL

\* No order of probes and late outcomes leaves a circuit half-open with nobody probing it.
THEOREM HalfOpenIsDecided == Spec => []HalfOpenIsProbing
<1>1. BreakerInv => HalfOpenIsProbing
  BY DEF BreakerInv
<1> QED BY <1>1, BreakerInvariant, PTL

\* A caller leaves "arrived" for "calling" by its own admission only.
LEMMA OnlyAdmitCalls ==
  ASSUME BreakerInv, [Next]_vars, NEW c \in Callers, stage[c] = "arrived", stage'[c] = "calling"
  PROVE  Admit(c)
<1> USE DEF BreakerInv, TypeOK
<1>1. ~(Tick \/ UNCHANGED vars)
  BY DEF Tick, vars, callers
<1>2. PICK d \in Callers : Arrive(d) \/ Decide(d) \/ Finish(d)
  BY <1>1 DEF Next
<1>3. c = d
  BY <1>2 DEF Arrive, Decide, Admit, Reject, Finish, CallFails, CallSucceeds
<1> QED BY <1>2, <1>3 DEF Arrive, Decide, Reject, Finish, CallFails, CallSucceeds

\* An open circuit is not tried before Recovery ticks without any failure, for any number of
\* calls in flight and any lag of the caller's clock.
THEOREM OpenIsLeftAlone == Spec => QuietPeriod
<1>1. BreakerInv /\ [Next]_vars =>
        [\A c \in Callers :
           state = "open" /\ stage[c] = "arrived" /\ stage'[c] = "calling" => quietFor >= Recovery]_vars
  <2> SUFFICES ASSUME BreakerInv, [Next]_vars,
                      NEW c \in Callers, state = "open", stage[c] = "arrived", stage'[c] = "calling"
               PROVE  quietFor >= Recovery
    OBVIOUS
  <2>1. Recovered(c)
    BY OnlyAdmitCalls DEF Admit
  <2> QED BY <2>1, TimeAssumption DEF Recovered, BreakerInv, TypeOK, OpenedByLastFailure, Horizon
<1> QED BY <1>1, BreakerInvariant, PTL DEF Spec, QuietPeriod

=============================================================================
