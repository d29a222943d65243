------------------------- MODULE MCCanonicalInvoice -------------------------
(***************************************************************************)
(* Small instances of CanonicalInvoice for TLC.                            *)
(***************************************************************************)
EXTENDS CanonicalInvoice
=============================================================================
