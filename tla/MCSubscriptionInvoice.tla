----------------------- MODULE MCSubscriptionInvoice -----------------------
(***************************************************************************)
(* Small instances of SubscriptionInvoice for TLC.                         *)
(***************************************************************************)
EXTENDS SubscriptionInvoice, TLC

(* Requests to the webhook run the same code. *)
Symmetry == Permutations(Handler)
=============================================================================
