---------------------------- MODULE MCLiveWebhook ----------------------------
(***************************************************************************)
(* Instances of LiveWebhook for TLC: one event that Cafe24 delivers twice  *)
(* and one that it delivers once.                                          *)
(***************************************************************************)
EXTENDS LiveWebhook, TLC

CONSTANTS first, again, other, cancel, delay

TwiceAndOnce == (first :> cancel) @@ (again :> cancel) @@ (other :> delay)
Twice == (first :> cancel) @@ (again :> cancel)

=============================================================================
