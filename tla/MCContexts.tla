------------------------------ MODULE MCContexts ------------------------------
(***************************************************************************)
(* Small instance of Contexts: four contexts, a class and its subclass,    *)
(* one selector besides doesNotUnderstand: and cannotReturn:.              *)
(***************************************************************************)
EXTENDS Contexts, FiniteSets, TLC

CONSTANTS c1, c2, c3, c4, Sub, Super, do, dnu, cannot

MCContext == {c1, c2, c3, c4}
Symmetry == Permutations(MCContext)
MCsuperclass == Sub :> Super @@ Super :> NilPointer
MCSelector == {do, dnu, cannot}
MCarguments == [s \in MCSelector |-> 1]
MCslotOf == [s \in MCSelector |-> [c \in {Sub, Super} |-> IF s = do /\ c = Sub THEN 1 ELSE 2]]
Always == {<<Super, dnu>>, <<Super, cannot>>}
Full == Always \cup {<<Super, do>>, <<Sub, do>>}
MCDictionaries == {Always, Always \cup {<<Super, do>>}, Full}

(* Bounds: with more than two contexts only blocks and returns vary, of    *)
(* stacks that hold one object besides the operands of a send, and at most *)
(* one method is activated twice.                                          *)
FewThings ==
  \/ Cardinality(Used) <= 2
  \/ /\ dictionary = Full /\ changed = {}
     /\ Cardinality(misled) = Cardinality(twice) /\ Cardinality(twice) <= 1
     /\ spoiled = {}
     /\ \A c \in Context: contexts[c].sp <= 1
     /\ twice = {} => methodCache[1].selector = do
     /\ methodCache[2].selector # dnu
=============================================================================
