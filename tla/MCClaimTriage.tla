--------------------------- MODULE MCClaimTriage ---------------------------
(***************************************************************************)
(* Values for the constants of ClaimTriage: an order that is cancelled and *)
(* then refunded.                                                          *)
(***************************************************************************)
EXTENDS ClaimTriage, TLC

CancelledThenRefunded == {{"cancellation"}, {"cancellation", "refund"}}

OddAnswers == {[cat |-> "refund", urg |-> "medium"]}

FlowSymmetry == Permutations(Flows)
=============================================================================
