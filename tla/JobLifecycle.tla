---------------------------- MODULE JobLifecycle ----------------------------
(***************************************************************************)
(* What the job queue promises about one job, with no queue, no batches    *)
(* and no Redis: a submitted job waits, is executed one attempt at a time, *)
(* and is settled by its first success or by its MaxRetries-th failure.    *)
(* An attempt that never ends (its process died) leaves it executing.      *)
(* Where database errors are possible, one of them may be taken for a      *)
(* failed attempt, whatever the job was doing: a job that waits loses an   *)
(* attempt, and one that has succeeded is run again or buried.             *)
(***************************************************************************)
EXTENDS Naturals

CONSTANTS Jobs, MaxRetries, ErrorsPossible

VARIABLES phase, failed      \* failed[j]: attempts of j that failed

vars == <<phase, failed>>

Init ==
  /\ phase = [j \in Jobs |-> "absent"]
  /\ failed = [j \in Jobs |-> 0]

Move(j, from, to) == phase[j] = from /\ phase' = [phase EXCEPT ![j] = to]

Submit(j)  == Move(j, "absent", "waiting") /\ UNCHANGED failed
Start(j)   == Move(j, "waiting", "executing") /\ UNCHANGED failed
Succeed(j) == Move(j, "executing", "succeeded") /\ UNCHANGED failed

Fail(j) ==
  /\ failed' = [failed EXCEPT ![j] = @ + 1]
  /\ IF failed[j] + 1 = MaxRetries
       THEN Move(j, "executing", "dead_letter")
       ELSE Move(j, "executing", "waiting")

Mistake(j) ==
  /\ ErrorsPossible /\ phase[j] # "absent"
  /\ failed' = [failed EXCEPT ![j] = @ + 1]
  /\ phase' = [phase EXCEPT ![j] = IF failed[j] + 1 >= MaxRetries THEN "dead_letter" ELSE "waiting"]

Next == \E j \in Jobs : Submit(j) \/ Start(j) \/ Succeed(j) \/ Fail(j) \/ Mistake(j)

Spec == Init /\ [][Next]_vars

=============================================================================
