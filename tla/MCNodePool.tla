----------------------------- MODULE MCNodePool -----------------------------
(***************************************************************************)
(* Small instances of NodePool for TLC.                                    *)
(***************************************************************************)
EXTENDS NodePool, TLC

(* Nodes and channels are interchangeable. *)
Symmetry == Permutations(Node) \cup Permutations(Channel)
=============================================================================
