----------------------- MODULE MCConnectSubscription -----------------------
(***************************************************************************)
(* Small instances of ConnectSubscription for TLC.                         *)
(***************************************************************************)
EXTENDS ConnectSubscription, TLC

(* Requests, webhooks and jobs are served by the same code. *)
Symmetry == Permutations(Handler)
=============================================================================
