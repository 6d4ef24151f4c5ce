-------------------------- MODULE MCDataLifecycle --------------------------
(***************************************************************************)
(* Values for the constants of DataLifecycle: one request works on a claim *)
(* while the other one deletes it, or syncs.                               *)
(***************************************************************************)
EXTENDS DataLifecycle, TLC

RequestKinds == "agent" :> {"draft"} @@ "admin" :> {"delete", "sync"}

ScriptSymmetry == Permutations(Scripts)
=============================================================================
