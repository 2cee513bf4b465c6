----------------------------- MODULE MCRefCounts -----------------------------
(***************************************************************************)
(* Small instance of RefCounts: nil, the system dictionary and three other *)
(* entries, which may change places.                                       *)
(***************************************************************************)
EXTENDS RefCounts, TLC

CONSTANTS nil, smalltalk, a, b, c

MCOop == {nil, smalltalk, a, b, c}
MCClasses == {nil}
MCFewOops == {nil, smalltalk, a, b}
Symmetry == Permutations({a, b, c})
FewSymmetry == Permutations({a, b})
=============================================================================
