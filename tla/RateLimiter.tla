---------------------------- MODULE RateLimiter ----------------------------
(***************************************************************************)
(* One bucket of InMemoryRateLimiter (observability/policies.py).  check   *)
(* reads the clock before it takes the lock, so entries are appended in    *)
(* the order of the lock and not of their times, and a thread that waited  *)
(* prunes and stamps with an old clock.                                    *)
(*                                                                         *)
(* Time is counted in ticks and kept as ages: an entry of the bucket is    *)
(* the age of its time stamp.                                              *)
(***************************************************************************)
EXTENDS Naturals, FiniteSets, Sequences

CONSTANTS
  Threads,       \* requests that call check, and the diagnostics that call snapshot
  Limit,         \* limit; 0 turns the limiter off and is not modelled
  Window,        \* window_seconds
  MaxLag         \* bound: ticks between a thread's clock reading and its lock

ASSUME LimitAssumption == Limit \in Nat \ {0}
ASSUME WindowAssumption == MaxLag \in Nat /\ Window \in Nat /\ MaxLag < Window

VARIABLES
  bucket,        \* the deque, oldest entry first
  stage, lag,    \* of each thread
  admitted       \* history: ages of the admissions that still matter

vars == <<bucket, stage, lag, admitted>>

Horizon == Window + MaxLag

Init ==
  /\ bucket = <<>>
  /\ stage = [t \in Threads |-> "idle"]
  /\ lag = [t \in Threads |-> 0]
  /\ admitted = <<>>

Arrive(t) ==
  /\ stage[t] = "idle"
  /\ \E s \in {"check", "snapshot"} : stage' = [stage EXCEPT ![t] = s]
  /\ lag' = [lag EXCEPT ![t] = 0]
  /\ UNCHANGED <<bucket, admitted>>

\* Faulty variants: an entry in the last tick of its window is dropped too; an entry is
\* kept for longer than its window.
OutdatedEarly(age, t) == age + 1 >= Window + lag[t]
OutdatedLate(age, t) == age > Horizon + lag[t]

\* time stamp <= cutoff, seen with the clock of t
Outdated(age, t) == age >= Window + lag[t]

Without(seq, gone) == SubSeq(seq, Cardinality(gone) + 1, Len(seq))

\* Entries are dropped from the front, up to the first that is not outdated.
Gone(t) == {i \in DOMAIN bucket : \A k \in 1..i : Outdated(bucket[k], t)}
Pruned(t) == Without(bucket, Gone(t))

Return(t) == stage' = [stage EXCEPT ![t] = "idle"] /\ UNCHANGED lag

\* Faulty variant: one admission more than the limit.
AdmitOneMore(t) ==
  /\ stage[t] = "check" /\ Len(Pruned(t)) <= Limit
  /\ bucket' = Append(Pruned(t), lag[t])
  /\ admitted' = Append(admitted, 0)
  /\ Return(t)

Admit(t) ==
  /\ stage[t] = "check" /\ Len(Pruned(t)) < Limit
  /\ bucket' = Append(Pruned(t), lag[t])
  /\ admitted' = Append(admitted, 0)
  /\ Return(t)

Refuse(t) ==
  /\ stage[t] = "check" /\ Len(Pruned(t)) >= Limit
  /\ bucket' = Pruned(t)
  /\ Return(t)
  /\ UNCHANGED admitted

Snapshot(t) ==
  /\ stage[t] = "snapshot"
  /\ bucket' = Pruned(t)
  /\ Return(t)
  /\ UNCHANGED admitted

Older(age) == IF age < Horizon THEN age + 1 ELSE age
Aged(seq) == [i \in DOMAIN seq |-> Older(seq[i])]

Tick ==
  /\ \A t \in Threads : stage[t] # "idle" => lag[t] < MaxLag
  /\ lag' = [t \in Threads |-> IF stage[t] # "idle" THEN lag[t] + 1 ELSE lag[t]]
  /\ bucket' = Aged(bucket)
  /\ admitted' = LET aged == Aged(admitted)
                 IN  Without(aged, {i \in DOMAIN aged : aged[i] = Horizon})
  /\ UNCHANGED stage

Next == Tick \/ \E t \in Threads : Arrive(t) \/ Admit(t) \/ Refuse(t) \/ Snapshot(t)

Spec == Init /\ [][Next]_vars

-----------------------------------------------------------------------------
TypeOK ==
  /\ bucket \in Seq(0..Horizon) /\ Len(bucket) <= Limit
  /\ stage \in [Threads -> {"idle", "check", "snapshot"}]
  /\ lag \in [Threads -> 0..MaxLag]
  /\ admitted \in Seq(0..Horizon)

AdmittedWithin(n) == Cardinality({i \in DOMAIN admitted : admitted[i] < n})

\* However long threads wait for the lock (MaxLag at most) and however out of order their
\* time stamps are, no interval shorter than the window by that lag sees more admissions
\* than the limit.
LimitHolds == AdmittedWithin(Window - MaxLag) <= Limit

\* A request is refused only if as many requests as the limit allows were admitted within
\* the window, give or take the same lag: an entry stuck behind a later time stamp does
\* not keep anybody out for longer.
RefusedForAReason ==
  [][\A t \in Threads : Refuse(t) => AdmittedWithin(Window + MaxLag) >= Limit]_vars

=============================================================================
