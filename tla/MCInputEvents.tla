---------------------------- MODULE MCInputEvents ----------------------------
(***************************************************************************)
(* Small instance of InputEvents: a queue of two words that can grow twice *)
(* before the bound on the pending words, and a signal count that can      *)
(* saturate below that bound.                                              *)
(***************************************************************************)
EXTENDS InputEvents
=============================================================================
