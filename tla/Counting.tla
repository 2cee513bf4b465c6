------------------------------ MODULE Counting ------------------------------
(***************************************************************************)
(* Counts of references, and what a count down or a mark comes to: the     *)
(* results that the traversal (PointerReversal) computes step by step and  *)
(* that the routines of the interpreter (RefCounts) rely on.               *)
(*                                                                         *)
(* f is the pointers of each object (the class first, <<>> if there is no  *)
(* object) and n the count of each; a pointer is an Oop or an Immediate.   *)
(***************************************************************************)
EXTENDS Integers, Sequences, FiniteSets

CONSTANTS
  Oop,               \* indices of the object table
  Immediate,         \* any SmallInteger
  Sticky             \* a count that has come this far stays (128)

ASSUME OopAssumption == IsFiniteSet(Oop) /\ Immediate \notin Oop

ASSUME StickyAssumption == Sticky \in Nat /\ Sticky > 1

Objects(f) == {o \in Oop : f[o] # <<>>}

-----------------------------------------------------------------------------
(* countUp, and the decrement of pred0: a count that sticks stays.         *)
oneMore(c) == IF c + 1 < Sticky + 1 THEN c + 1 ELSE c
oneLess(c) == IF c - 1 < Sticky - 1 THEN c - 1 ELSE c

(* The places in the objects of D that refer to x.                         *)
ReferencesIn(f, D, x) ==
  UNION {{o} \X {i \in DOMAIN f[o] : f[o][i] = x} : o \in D}

ReferencesFrom(f, D, x) == Cardinality(ReferencesIn(f, D, x))

(***************************************************************************)
(* Counting down to zero the last reference to root frees the least set D  *)
(* that has root and every object whose references all come from D.        *)
(***************************************************************************)
Dies(f, n, D, x) == n[x] # Sticky /\ n[x] > 0 /\ ReferencesFrom(f, D, x) >= n[x]

FreedWith(f, n, root) ==
  LET Complete == {D \in SUBSET Oop : root \in D /\ \A y \in Oop \ D : ~Dies(f, n, D, y)}
  IN  {x \in Oop : \A D \in Complete : x \in D}

(* More references come from what is freed than were counted.              *)
Undercounted(f, n, root, D) ==
  \E x \in Oop : n[x] # Sticky /\ ReferencesFrom(f, D, x) > (IF x = root THEN 0 ELSE n[x])

CountsWithout(f, n, D) ==
  [x \in Oop |-> IF x \in D THEN 0
                 ELSE IF n[x] = Sticky THEN Sticky
                 ELSE n[x] - ReferencesFrom(f, D, x)]

FieldsWithout(f, D) == [x \in Oop |-> IF x \in D THEN <<>> ELSE f[x]]

(* What can be reached from the objects of R.                              *)
PointersOf(f, o) == {f[o][i] : i \in DOMAIN f[o]} \ {Immediate}

ReachedFrom(f, R) ==
  LET Enclosing == {S \in SUBSET Oop : R \subseteq S /\ \A o \in S : PointersOf(f, o) \subseteq S}
  IN  {x \in Oop : \A S \in Enclosing : x \in S}
=============================================================================
