---------------------------- MODULE MCTaskQueue ----------------------------
(***************************************************************************)
(* Small instances of TaskQueue for TLC.                                   *)
(***************************************************************************)
EXTENDS TaskQueue, TLC

(* Runners run the same code over the same store. *)
Symmetry == Permutations(Runner)
=============================================================================
