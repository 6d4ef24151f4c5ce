-------------------------- MODULE MCReplyDelivery --------------------------
(***************************************************************************)
(* Operators of one claim; what they do differs only by their requests.    *)
(***************************************************************************)
EXTENDS ReplyDelivery, TLC

Symmetry == Permutations(Operators)

=============================================================================
