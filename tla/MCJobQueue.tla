----------------------------- MODULE MCJobQueue -----------------------------
(***************************************************************************)
(* Instances of JobQueue for TLC.  Runners are interchangeable model       *)
(* values; jobs are numbers, because their order matters.                  *)
(***************************************************************************)
EXTENDS JobQueue, TLC

RunnerSymmetry == Permutations(Runners)

=============================================================================
