---------------------------- MODULE MCObjectMemory ----------------------------
(***************************************************************************)
(* Small instances of ObjectMemory: two segments, objects of sizes that    *)
(* have lists of their own and of sizes that share the list of big chunks. *)
(***************************************************************************)
EXTENDS ObjectMemory, TLC

CONSTANTS o1, o2, o3, o4

MCOop == {o1, o2, o3, o4}
Symmetry == Permutations(MCOop)

Words(n) == [size |-> n, pointer |-> FALSE]
Pointers(n) == [size |-> n, pointer |-> TRUE]

MCRequests == {Words(2), Words(3), Pointers(4)}

(* Of all sizes below BigSize, and of the first that is big.               *)
MCRequestsToBig == MCRequests \union {Words(5)}
=============================================================================
