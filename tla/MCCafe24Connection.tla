------------------------- MODULE MCCafe24Connection -------------------------
(***************************************************************************)
(* Values for the constants of Cafe24Connection.                           *)
(***************************************************************************)
EXTENDS Cafe24Connection, TLC

FlowSymmetry == Permutations(Flows)
=============================================================================
