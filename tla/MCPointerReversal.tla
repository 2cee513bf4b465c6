-------------------------- MODULE MCPointerReversal --------------------------
(***************************************************************************)
(* Small instance of PointerReversal: every heap of three objects with one or *)
(* two pointers each, one of which saves its offset in an extra word.      *)
(***************************************************************************)
EXTENDS PointerReversal

CONSTANTS a, b, c

MCOop == {a, b, c}
MCHuge == {a}
=============================================================================
