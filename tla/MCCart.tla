------------------------------- MODULE MCCart -------------------------------
(***************************************************************************)
(* A small instance of Cart for TLC: a user with two networks to choose    *)
(* from.                                                                   *)
(***************************************************************************)
EXTENDS Cart
=============================================================================
