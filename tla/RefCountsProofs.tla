---------------------------- MODULE RefCountsProofs ----------------------------
(***************************************************************************)
(* Proofs about RefCounts for memories of any number of objects, with any  *)
(* number of pointers, and any number at which counts stick.               *)
(*                                                                         *)
(* First what holds of references, reachability, sequences of calls and    *)
(* what a count down frees, whatever the state; then what a count up, a    *)
(* count down, a store and a change of register do to the invariant in the *)
(* middle of any routine; then the routines, stage by stage; then the      *)
(* collection; then what each step is in the object graph.                 *)
(***************************************************************************)
EXTENDS RefCountsInvariant, FiniteSetTheorems, SequenceTheorems, TLAPS

USE OopAssumption, StickyAssumption, RefCountsAssumption

-----------------------------------------------------------------------------
(***************************************************************************)
(* References are places of the heap, of which there are finitely many.    *)
(***************************************************************************)
LEMMA PlacesFinite ==
  ASSUME NEW f \in Heap
  PROVE  IsFiniteSet(PlacesOf(f))
<1>1. PICK g : g = [o \in Oop |-> {o} \X DOMAIN f[o]]
  OBVIOUS
<1>2. PICK U : U = {g[o] : o \in Oop}
  OBVIOUS
<1>3. IsFiniteSet(U)
  <2>1. g \in Surjection(Oop, U)
    BY <1>1, <1>2 DEF Surjection
  <2> QED  BY <2>1, FS_Surjection
<1>4. ASSUME NEW T \in U  PROVE IsFiniteSet(T)
  <2>1. PICK o \in Oop : T = {o} \X DOMAIN f[o]
    BY <1>1, <1>2
  <2>2. DOMAIN f[o] = 1 .. Len(f[o]) /\ Len(f[o]) \in Int
    BY DEF Heap
  <2>3. IsFiniteSet(DOMAIN f[o])
    BY <2>2, FS_Interval
  <2> QED  BY <2>1, <2>3, FS_Singleton, FS_Product
<1>5. PlacesOf(f) \subseteq UNION U
  <2> SUFFICES ASSUME NEW p \in PlacesOf(f)  PROVE p \in UNION U
    OBVIOUS
  <2>1. p[1] \in Oop /\ p[2] \in Nat \ {0} /\ p[2] <= Len(f[p[1]]) /\ p = <<p[1], p[2]>>
    BY DEF PlacesOf
  <2>2. p \in g[p[1]]
    BY <1>1, <2>1 DEF Heap
  <2> QED  BY <1>2, <2>1, <2>2
<1> QED  BY <1>3, <1>4, <1>5, FS_UNION, FS_Subset

LEMMA ReferencesAre ==
  ASSUME NEW f \in Heap, NEW D \in SUBSET Oop, NEW x
  PROVE  /\ ReferencesIn(f, D, x) = {p \in PlacesOf(f) : p[1] \in D /\ f[p[1]][p[2]] = x}
         /\ IsFiniteSet(ReferencesIn(f, D, x)) /\ ReferencesFrom(f, D, x) \in Nat
<1>1. ASSUME NEW p
      PROVE  p \in ReferencesIn(f, D, x) <=> p \in PlacesOf(f) /\ p[1] \in D /\ f[p[1]][p[2]] = x
  <2>1. ASSUME NEW o \in D, p \in {o} \X {i \in DOMAIN f[o] : f[o][i] = x}
        PROVE  p \in PlacesOf(f) /\ p[1] \in D /\ f[p[1]][p[2]] = x
    BY <2>1 DEF PlacesOf, Heap
  <2>2. ASSUME p \in PlacesOf(f), p[1] \in D, f[p[1]][p[2]] = x
        PROVE  \E o \in D : p \in {o} \X {i \in DOMAIN f[o] : f[o][i] = x}
    BY <2>2 DEF PlacesOf, Heap
  <2> QED  BY <2>1, <2>2 DEF ReferencesIn
<1> QED  BY <1>1, PlacesFinite, FS_Subset, FS_CardinalityType DEF ReferencesFrom

(* A place of an object of D that holds x is a reference to x.             *)
LEMMA PlaceRefers ==
  ASSUME NEW f \in Heap, NEW D \in SUBSET Oop, NEW o \in D, NEW i \in DOMAIN f[o]
  PROVE  <<o, i>> \in ReferencesIn(f, D, f[o][i])
BY DEF ReferencesIn

LEMMA ReferencesMore ==
  ASSUME NEW f \in Heap, NEW E \in SUBSET Oop, NEW D \in SUBSET E, NEW x
  PROVE  ReferencesFrom(f, D, x) <= ReferencesFrom(f, E, x)
<1>1. IsFiniteSet(ReferencesIn(f, E, x))
  BY ReferencesAre
<1> QED  BY <1>1, FS_Subset DEF ReferencesFrom, ReferencesIn

(* References from two sets of objects.                                    *)
LEMMA ReferencesUnion ==
  ASSUME NEW f \in Heap, NEW D \in SUBSET Oop, NEW E \in SUBSET Oop, D \cap E = {}, NEW x
  PROVE  ReferencesFrom(f, D \union E, x) = ReferencesFrom(f, D, x) + ReferencesFrom(f, E, x)
<1>1. PICK A, B, C : /\ A = ReferencesIn(f, D \union E, x)
                     /\ B = ReferencesIn(f, D, x)
                     /\ C = ReferencesIn(f, E, x)
  OBVIOUS
<1>2. /\ A = {p \in PlacesOf(f) : p[1] \in D \union E /\ f[p[1]][p[2]] = x}
      /\ B = {p \in PlacesOf(f) : p[1] \in D /\ f[p[1]][p[2]] = x}
      /\ C = {p \in PlacesOf(f) : p[1] \in E /\ f[p[1]][p[2]] = x}
      /\ IsFiniteSet(A) /\ IsFiniteSet(B) /\ IsFiniteSet(C)
  BY <1>1, ReferencesAre
<1>3. /\ Cardinality(A) = Cardinality(B) + Cardinality(C) - Cardinality({})
      /\ Cardinality(B) \in Nat /\ Cardinality(C) \in Nat
  BY <1>2, FS_Union, FS_CardinalityType
<1> QED  BY <1>1, <1>3, FS_EmptySet DEF ReferencesFrom

LEMMA ReferencesSplit ==
  ASSUME NEW f \in Heap, NEW D \in SUBSET Oop, NEW x
  PROVE  ReferencesFrom(f, Oop, x) = ReferencesFrom(f, D, x) + ReferencesFrom(f, Oop \ D, x)
BY ReferencesUnion

(* A place outside of D makes one reference more than those from D.        *)
LEMMA OneReference ==
  ASSUME NEW f \in Heap, NEW D \in SUBSET Oop, NEW o \in Oop \ D, NEW i \in DOMAIN f[o],
         NEW x, f[o][i] = x
  PROVE  ReferencesFrom(f, D, x) + 1 <= ReferencesFrom(f, Oop, x)
<1>1. ReferencesFrom(f, Oop \ D, x) # 0
  <2>1. <<o, i>> \in ReferencesIn(f, Oop \ D, x) /\ IsFiniteSet(ReferencesIn(f, Oop \ D, x))
    BY PlaceRefers, ReferencesAre
  <2> QED  BY <2>1, FS_EmptySet DEF ReferencesFrom
<1>2. /\ ReferencesFrom(f, Oop \ D, x) \in Nat /\ ReferencesFrom(f, D, x) \in Nat
      /\ ReferencesFrom(f, Oop, x) = ReferencesFrom(f, D, x) + ReferencesFrom(f, Oop \ D, x)
  BY ReferencesAre, ReferencesSplit
<1> QED  BY <1>1, <1>2

(* The same when the place q outside of D is not the one that counts.      *)
LEMMA TwoReferences ==
  ASSUME NEW f \in Heap, NEW o \in Oop, NEW i \in DOMAIN f[o],
         NEW p \in Oop, NEW j \in DOMAIN f[p], <<o, i>> # <<p, j>>,
         NEW x, f[o][i] = x, f[p][j] = x
  PROVE  ReferencesFrom(f, Oop, x) >= 2
<1>1. PICK A : A = ReferencesIn(f, Oop, x)
  OBVIOUS
<1>2. IsFiniteSet(A) /\ <<o, i>> \in A /\ <<p, j>> \in A
  BY <1>1, ReferencesAre, PlaceRefers
<1>3. /\ Cardinality(A) \in Nat /\ IsFiniteSet(A \ {<<o, i>>})
      /\ Cardinality(A \ {<<o, i>>}) = Cardinality(A) - 1
  BY <1>2, FS_CardinalityType, FS_RemoveElement
<1>4. Cardinality(A \ {<<o, i>>}) # 0
  BY <1>2, <1>3, FS_EmptySet
<1> QED  BY <1>1, <1>3, <1>4, FS_CardinalityType DEF ReferencesFrom

(* References depend on the objects they come from alone.                  *)
LEMMA ReferencesSame ==
  ASSUME NEW f, NEW g, NEW D, \A o \in D : g[o] = f[o], NEW x
  PROVE  ReferencesFrom(g, D, x) = ReferencesFrom(f, D, x)
<1>1. ReferencesIn(g, D, x) = ReferencesIn(f, D, x)
  BY DEF ReferencesIn
<1> QED  BY <1>1 DEF ReferencesFrom

LEMMA NoReferences ==
  ASSUME NEW f, NEW D, NEW x, \A o \in D : \A i \in DOMAIN f[o] : f[o][i] # x
  PROVE  ReferencesFrom(f, D, x) = 0
BY FS_EmptySet DEF ReferencesFrom, ReferencesIn

(* What the objects that have gone referred to is referred to by the rest. *)
LEMMA ReferencesLeft ==
  ASSUME NEW f \in Heap, NEW D \in SUBSET Oop, NEW x
  PROVE  /\ FieldsWithout(f, D) \in Heap
         /\ \A o \in Oop : FieldsWithout(f, D)[o] = IF o \in D THEN <<>> ELSE f[o]
         /\ ReferencesFrom(FieldsWithout(f, D), Oop, x)
              = ReferencesFrom(f, Oop, x) - ReferencesFrom(f, D, x)
<1>1. PICK g : g = FieldsWithout(f, D)
  OBVIOUS
<1>2. g \in Heap
  BY <1>1 DEF FieldsWithout, Heap
<1>3. ReferencesFrom(g, D, x) = 0
  BY <1>1, NoReferences DEF FieldsWithout
<1>4. Oop \ D \in SUBSET Oop
  OBVIOUS
<1>5. /\ ReferencesFrom(g, Oop, x) = ReferencesFrom(g, D, x) + ReferencesFrom(g, Oop \ D, x)
      /\ ReferencesFrom(f, Oop, x) = ReferencesFrom(f, D, x) + ReferencesFrom(f, Oop \ D, x)
      /\ ReferencesFrom(f, D, x) \in Nat /\ ReferencesFrom(f, Oop \ D, x) \in Nat
  BY <1>2, <1>4, ReferencesSplit, ReferencesAre
<1> QED  BY <1>1, <1>2, <1>3, <1>5, ReferencesSame DEF FieldsWithout

(* Only objects refer.                                                     *)
LEMMA LiveRefer ==
  ASSUME NEW f \in Heap, NEW x
  PROVE  ReferencesFrom(f, Objects(f), x) = ReferencesFrom(f, Oop, x)
<1>1. ReferencesFrom(f, Oop \ Objects(f), x) = 0
  BY NoReferences DEF Objects
<1> QED  BY <1>1, ReferencesAre, ReferencesSplit DEF Objects

LEMMA ReferencesOfOne ==
  ASSUME NEW f \in Heap, NEW o \in Oop, NEW x
  PROVE  IsFiniteSet(Indices(f[o], x)) /\ ReferencesFrom(f, {o}, x) = Cardinality(Indices(f[o], x))
<1>1. PICK I : I = {i \in DOMAIN f[o] : f[o][i] = x} /\ I = Indices(f[o], x)
  BY DEF Indices
<1>2. IsFiniteSet(I)
  <2>1. PICK k \in Int : DOMAIN f[o] = 1 .. k
    BY DEF Heap
  <2> QED  BY <1>1, <2>1, FS_Interval, FS_Subset
<1>3. PICK J, T : J = {o} /\ T = ReferencesIn(f, {o}, x)
  OBVIOUS
<1>4. IsFiniteSet(J) /\ Cardinality(J) = 1
  BY <1>3, FS_Singleton
<1>5. Cardinality(T) = Cardinality(J) * Cardinality(I)
  BY <1>1, <1>2, <1>3, <1>4, FS_Product DEF ReferencesIn
<1>6. Cardinality(T) = Cardinality(I)
  BY <1>2, <1>4, <1>5, FS_CardinalityType
<1> QED  BY <1>1, <1>2, <1>3, <1>6 DEF ReferencesFrom

(* One object changes: the references from it replace those it made.       *)
LEMMA ReferencesChange ==
  ASSUME NEW f \in Heap, NEW g \in Heap, NEW o \in Oop,
         \A p \in Oop \ {o} : g[p] = f[p], NEW x
  PROVE  /\ ReferencesFrom(g, Oop, x) - ReferencesFrom(g, {o}, x)
              = ReferencesFrom(f, Oop, x) - ReferencesFrom(f, {o}, x)
         /\ ReferencesFrom(f, {o}, x) \in Nat /\ ReferencesFrom(g, {o}, x) \in Nat
         /\ ReferencesFrom(f, Oop, x) \in Nat /\ ReferencesFrom(g, Oop, x) \in Nat
<1>1. {o} \in SUBSET Oop /\ Oop \ {o} \in SUBSET Oop /\ Oop \in SUBSET Oop
  OBVIOUS
<1>2. ReferencesFrom(g, Oop \ {o}, x) = ReferencesFrom(f, Oop \ {o}, x)
  BY ReferencesSame
<1>3. /\ ReferencesFrom(g, Oop, x) = ReferencesFrom(g, {o}, x) + ReferencesFrom(g, Oop \ {o}, x)
      /\ ReferencesFrom(f, Oop, x) = ReferencesFrom(f, {o}, x) + ReferencesFrom(f, Oop \ {o}, x)
  BY <1>1, ReferencesSplit
<1>4. /\ ReferencesFrom(f, {o}, x) \in Nat /\ ReferencesFrom(g, {o}, x) \in Nat
      /\ ReferencesFrom(f, Oop, x) \in Nat /\ ReferencesFrom(g, Oop, x) \in Nat
      /\ ReferencesFrom(f, Oop \ {o}, x) \in Nat
  BY <1>1, ReferencesAre
<1> QED  BY <1>2, <1>3, <1>4

LEMMA WrittenIs ==
  ASSUME NEW f \in Heap, NEW o \in Oop, NEW k \in DOMAIN f[o], NEW v \in Pointer
  PROVE  /\ Written(f, o, k, v) \in Heap
         /\ \A p \in Oop \ {o} : Written(f, o, k, v)[p] = f[p]
         /\ \A p \in Oop : DOMAIN Written(f, o, k, v)[p] = DOMAIN f[p]
         /\ Written(f, o, k, v)[o][k] = v
         /\ \A i \in DOMAIN f[o] \ {k} : Written(f, o, k, v)[o][i] = f[o][i]
         /\ \A p \in Oop : Written(f, o, k, v)[p] = <<>> <=> f[p] = <<>>
<1>1. PICK s : s = [f[o] EXCEPT ![k] = v]
  OBVIOUS
<1>2. f[o] \in Seq(Pointer)
  BY DEF Heap
<1>3. PICK g : g = Written(f, o, k, v)
  OBVIOUS
<1>4. \A p \in Oop : g[p] = <<>> <=> f[p] = <<>>
  <2>1. \A t \in Seq(Pointer) : t = <<>> <=> DOMAIN t = {}
    <3>1. ASSUME NEW t \in Seq(Pointer), DOMAIN t = {}  PROVE t = <<>>
      BY <3>1, EmptySeq
    <3> QED  BY <3>1
  <2> QED  BY <1>1, <1>2, <1>3, <2>1 DEF Heap, Written
<1> QED  BY <1>1, <1>2, <1>3, <1>4 DEF Heap, Written

(* The place o.k refers to v, and no more to what was there.               *)
LEMMA ReferencesWritten ==
  ASSUME NEW f \in Heap, NEW o \in Oop, NEW k \in DOMAIN f[o], NEW v \in Pointer, NEW x \in Oop
  PROVE  ReferencesFrom(Written(f, o, k, v), Oop, x) + Is(f[o][k], x)
           = ReferencesFrom(f, Oop, x) + Is(v, x)
<1>1. PICK g : g = Written(f, o, k, v)
  OBVIOUS
<1>2. /\ g \in Heap /\ \A p \in Oop \ {o} : g[p] = f[p]
      /\ DOMAIN g[o] = DOMAIN f[o] /\ g[o][k] = v
      /\ \A i \in DOMAIN f[o] \ {k} : g[o][i] = f[o][i]
  BY <1>1, WrittenIs
<1>3. PICK A, B, C : /\ A = Indices(f[o], x) /\ B = Indices(g[o], x)
                     /\ C = {i \in DOMAIN f[o] \ {k} : f[o][i] = x}
  OBVIOUS
<1>4. /\ IsFiniteSet(A) /\ ReferencesFrom(f, {o}, x) = Cardinality(A)
      /\ IsFiniteSet(B) /\ ReferencesFrom(g, {o}, x) = Cardinality(B)
  BY <1>2, <1>3, ReferencesOfOne
<1>5. A = (IF f[o][k] = x THEN C \union {k} ELSE C) /\ B = (IF v = x THEN C \union {k} ELSE C) /\ k \notin C
  BY <1>2, <1>3 DEF Indices
<1>6. IsFiniteSet(C)
  BY <1>3, <1>4, FS_Subset DEF Indices
<1>7. Cardinality(C) \in Nat /\ Cardinality(C \union {k}) = Cardinality(C) + 1
  BY <1>5, <1>6, FS_CardinalityType, FS_AddElement
<1> QED  BY <1>1, <1>2, <1>4, <1>5, <1>7, ReferencesChange DEF Is

LEMMA ReferencesNew ==
  ASSUME NEW f \in Heap, NEW o \in Oop, f[o] = <<>>, NEW n \in Nat \ {0}, NEW class \in Oop,
         NEW x \in Oop \ {NilPointer}
  PROVE  /\ NewFields(n, class) \in Seq(Pointer) /\ NewFields(n, class) # <<>>
         /\ WithNew(f, o, n, class) \in Heap
         /\ ReferencesFrom(WithNew(f, o, n, class), Oop, x)
              = ReferencesFrom(f, Oop, x) + Is(class, x)
<1>1. PICK s : s = NewFields(n, class)
  OBVIOUS
<1>2. PICK g : g = [f EXCEPT ![o] = s]
  OBVIOUS
<1>3. g \in Heap /\ g[o] = s /\ \A p \in Oop \ {o} : g[p] = f[p]
  BY <1>1, <1>2 DEF Heap, NewFields, Pointer
<1>4. PICK B : B = Indices(g[o], x)
  OBVIOUS
<1>5. B = IF class = x THEN {1} ELSE {}
  BY <1>1, <1>3, <1>4 DEF Indices, NewFields, Pointer
<1>6. Cardinality(B) = Is(class, x)
  BY <1>5, FS_EmptySet, FS_Singleton DEF Is
<1>7. /\ ReferencesFrom(g, Oop, x) - ReferencesFrom(g, {o}, x)
           = ReferencesFrom(f, Oop, x) - ReferencesFrom(f, {o}, x)
       /\ ReferencesFrom(f, Oop, x) \in Nat /\ ReferencesFrom(g, Oop, x) \in Nat
  <2>1. g \in Heap /\ \A p \in Oop \ {o} : g[p] = f[p]
    BY <1>3
  <2> QED  BY <2>1, ReferencesChange
<1>8. ReferencesFrom(g, Oop, x) = ReferencesFrom(f, Oop, x) + Is(class, x)
  BY <1>3, <1>4, <1>6, <1>7, NoReferences, ReferencesOfOne DEF Is
<1> QED  BY <1>1, <1>2, <1>3, <1>8 DEF WithNew, NewFields, Pointer

LEMMA SwappedIs ==
  ASSUME NEW f \in Heap, NEW a \in Oop, NEW b \in Oop, a # b
  PROVE  /\ Swapped(f, a, b) \in Heap /\ Swapped(f, a, b)[a] = f[b] /\ Swapped(f, a, b)[b] = f[a]
         /\ \A p \in Oop \ {a, b} : Swapped(f, a, b)[p] = f[p]
BY DEF Swapped, Heap

LEMMA ReferencesSwapped ==
  ASSUME NEW f \in Heap, NEW a \in Oop, NEW b \in Oop, a # b, NEW x \in Oop
  PROVE  ReferencesFrom(Swapped(f, a, b), Oop, x) = ReferencesFrom(f, Oop, x)
<1>1. PICK g : g = Swapped(f, a, b)
  OBVIOUS
<1>2. g \in Heap /\ g[a] = f[b] /\ g[b] = f[a] /\ \A p \in Oop \ {a, b} : g[p] = f[p]
  <2>1. /\ Swapped(f, a, b) \in Heap /\ Swapped(f, a, b)[a] = f[b] /\ Swapped(f, a, b)[b] = f[a]
        /\ \A p \in Oop \ {a, b} : Swapped(f, a, b)[p] = f[p]
    BY SwappedIs
  <2> QED  BY <1>1, <2>1
<1>3. /\ ReferencesFrom(g, {a}, x) = ReferencesFrom(f, {b}, x)
      /\ ReferencesFrom(g, {b}, x) = ReferencesFrom(f, {a}, x)
  BY <1>2, ReferencesOfOne
<1>4. ReferencesFrom(g, Oop \ {a, b}, x) = ReferencesFrom(f, Oop \ {a, b}, x)
  BY <1>2, ReferencesSame
<1>5. ASSUME NEW h \in Heap
      PROVE  /\ ReferencesFrom(h, Oop, x) = ReferencesFrom(h, {a}, x) + ReferencesFrom(h, {b}, x)
                                              + ReferencesFrom(h, Oop \ {a, b}, x)
             /\ ReferencesFrom(h, {a}, x) \in Nat /\ ReferencesFrom(h, {b}, x) \in Nat
             /\ ReferencesFrom(h, Oop \ {a, b}, x) \in Nat
  <2>1. ReferencesFrom(h, {a, b}, x) = ReferencesFrom(h, {a}, x) + ReferencesFrom(h, {b}, x)
    BY ReferencesUnion
  <2> QED  BY <2>1, ReferencesSplit, ReferencesAre
<1>6. /\ ReferencesFrom(g, Oop, x) = ReferencesFrom(g, {a}, x) + ReferencesFrom(g, {b}, x)
                                       + ReferencesFrom(g, Oop \ {a, b}, x)
      /\ ReferencesFrom(f, Oop, x) = ReferencesFrom(f, {a}, x) + ReferencesFrom(f, {b}, x)
                                       + ReferencesFrom(f, Oop \ {a, b}, x)
      /\ ReferencesFrom(f, {a}, x) \in Nat /\ ReferencesFrom(f, {b}, x) \in Nat
  <2>1. g \in Heap
    BY <1>2
  <2> QED  BY <1>5, <2>1
<1> QED  BY <1>1, <1>3, <1>4, <1>6

LEMMA PointersAre ==
  ASSUME NEW f \in Heap, NEW o \in Oop
  PROVE  /\ PointersOf(f, o) \subseteq Oop
         /\ \A i \in DOMAIN f[o] : f[o][i] \in Pointer
         /\ \A i \in DOMAIN f[o] : f[o][i] \in Oop => f[o][i] \in PointersOf(f, o)
BY DEF PointersOf, Pointer, Heap

LEMMA ReachedIsLeast ==
  ASSUME NEW f, NEW R, NEW S, Closed(f, S), R \subseteq S
  PROVE  ReachedFrom(f, R) \subseteq S
BY DEF ReachedFrom, Closed

LEMMA ReachedIsClosed ==
  ASSUME NEW f \in Heap, NEW R \in SUBSET Oop
  PROVE  Closed(f, ReachedFrom(f, R)) /\ R \subseteq ReachedFrom(f, R)
<1>1. PICK E : E = {T \in SUBSET Oop : R \subseteq T /\ \A o \in T : PointersOf(f, o) \subseteq T}
  OBVIOUS
<1>2. ReachedFrom(f, R) = {x \in Oop : \A S \in E : x \in S}
  BY <1>1 DEF ReachedFrom
<1>3. ASSUME NEW o \in ReachedFrom(f, R)
      PROVE  PointersOf(f, o) \subseteq ReachedFrom(f, R)
  BY <1>1, <1>2, PointersAre
<1> QED  BY <1>1, <1>2, <1>3 DEF Closed

LEMMA ReachedWithin ==
  ASSUME NEW f \in Heap, NEW R \in SUBSET Oop, NEW Q, Q \subseteq ReachedFrom(f, R)
  PROVE  ReachedFrom(f, Q) \subseteq ReachedFrom(f, R)
BY ReachedIsClosed, ReachedIsLeast

(* Where two heaps agree on what is reached in one, the same is reached.   *)
LEMMA ReachedSame ==
  ASSUME NEW f \in Heap, NEW g \in Heap, NEW R \in SUBSET Oop,
         \A o \in ReachedFrom(f, R) : g[o] = f[o]
  PROVE  ReachedFrom(g, R) = ReachedFrom(f, R)
<1>1. PICK S, T : S = ReachedFrom(f, R) /\ T = ReachedFrom(g, R)
  OBVIOUS
<1>2. Closed(f, S) /\ R \subseteq S /\ Closed(g, T) /\ R \subseteq T
  BY <1>1, ReachedIsClosed
<1>3. Closed(f, T)
  BY <1>1, <1>2, ReachedIsLeast DEF Closed, PointersOf
<1> QED  BY <1>1, <1>2, <1>3, ReachedIsLeast DEF Closed, PointersOf

(* An object is reached without its own pointers.                          *)
LEMMA ReachedAvoids ==
  ASSUME NEW f \in Heap, NEW g \in Heap, NEW R \in SUBSET Oop, NEW o,
         o \in ReachedFrom(f, R), \A p \in Oop \ {o} : g[p] = f[p]
  PROVE  o \in ReachedFrom(g, R)
<1>1. PICK T : T = ReachedFrom(g, R)
  OBVIOUS
<1>2. ASSUME o \notin T  PROVE FALSE
  BY <1>1, <1>2, ReachedIsClosed, ReachedIsLeast DEF Closed, PointersOf
<1> QED  BY <1>1, <1>2

(* Storing what is reached makes nothing reached that was not.             *)
LEMMA ReachedWritten ==
  ASSUME NEW f \in Heap, NEW R \in SUBSET Oop, NEW o \in Oop, NEW k \in DOMAIN f[o],
         NEW v \in Pointer, v \in ReachedFrom(f, R) \union {Immediate},
         NEW Q, Q \subseteq ReachedFrom(f, R)
  PROVE  ReachedFrom(Written(f, o, k, v), Q) \subseteq ReachedFrom(f, R)
<1>1. PICK g, S : g = Written(f, o, k, v) /\ S = ReachedFrom(f, R)
  OBVIOUS
<1>2. Closed(f, S)
  BY <1>1, ReachedIsClosed
<1>3. \A p \in S : PointersOf(g, p) \subseteq S
  <2>1. ASSUME NEW p \in S, p # o  PROVE PointersOf(g, p) \subseteq S
    BY <1>1, <1>2, <2>1, WrittenIs DEF PointersOf, Closed
  <2>2. ASSUME o \in S  PROVE PointersOf(g, o) \subseteq S
    BY <1>1, <1>2, <2>2, WrittenIs DEF PointersOf, Closed
  <2> QED  BY <2>1, <2>2
<1> QED  BY <1>1, <1>2, <1>3, ReachedIsLeast DEF Closed

(* What is reached is in the set one starts from, or is referred to.       *)
LEMMA ReachedHasReference ==
  ASSUME NEW f \in Heap, NEW R \in SUBSET Oop, NEW x \in ReachedFrom(f, R) \ R
  PROVE  \E o \in ReachedFrom(f, R) : x \in PointersOf(f, o)
<1>1. PICK S : S = ReachedFrom(f, R)
  OBVIOUS
<1>2. ASSUME \A o \in S : x \notin PointersOf(f, o)  PROVE FALSE
  <2>1. Closed(f, S \ {x}) /\ R \subseteq S \ {x}
    BY <1>1, <1>2, ReachedIsClosed DEF Closed
  <2> QED  BY <1>1, <2>1, ReachedIsLeast
<1> QED  BY <1>1, <1>2

-----------------------------------------------------------------------------
(***************************************************************************)
(* The calls a routine has still to make: the first, and those after it.   *)
(***************************************************************************)
LEMMA ThenIs ==
  ASSUME NEW c \in CallRecord, NEW s \in Seq(CallRecord)
  PROVE  /\ Then(c, s) \in Seq(CallRecord) /\ Then(c, s) # <<>>
         /\ Head(Then(c, s)) = c /\ Tail(Then(c, s)) = s
         /\ Len(Then(c, s)) = Len(s) + 1
         /\ Then(c, s)[1] = c /\ \A i \in 1 .. Len(s) : Then(c, s)[i + 1] = s[i]
<1>1. PICK t : t = Then(c, s)
  OBVIOUS
<1> QED  BY <1>1, HeadTailProperties, SeqEqual DEF Then

(* Every routine with a call left is that call and the ones after it.      *)
LEMMA IsThen ==
  ASSUME NEW t \in Seq(CallRecord), t # <<>>
  PROVE  Head(t) \in CallRecord /\ Tail(t) \in Seq(CallRecord) /\ t = Then(Head(t), Tail(t))
<1>1. PICK h, r : h = Head(t) /\ r = Tail(t)
  OBVIOUS
<1>2. /\ h \in CallRecord /\ r \in Seq(CallRecord) /\ Len(r) = Len(t) - 1 /\ Len(t) \in Nat /\ h = t[1]
      /\ \A i \in 1 .. Len(r) : r[i] = t[i + 1]
  BY <1>1, HeadTailProperties
<1>3. PICK u : u = Then(h, r)
  OBVIOUS
<1>4. /\ u \in Seq(CallRecord) /\ Len(u) = Len(r) + 1 /\ u[1] = h
      /\ \A i \in 1 .. Len(r) : u[i + 1] = r[i]
  <2>1. h \in CallRecord /\ r \in Seq(CallRecord)
    BY <1>2
  <2>2. /\ Then(h, r) \in Seq(CallRecord) /\ Len(Then(h, r)) = Len(r) + 1 /\ Then(h, r)[1] = h
        /\ \A i \in 1 .. Len(r) : Then(h, r)[i + 1] = r[i]
    BY ONLY <2>1, ThenIs
  <2> QED  BY <1>3, <2>2
<1>5. ASSUME NEW i \in 1 .. Len(u)  PROVE u[i] = t[i]
  <2>1. CASE i = 1
    BY <1>2, <1>4, <2>1
  <2>2. CASE i # 1
    <3>1. PICK j : j = i - 1
      OBVIOUS
    <3>2. j \in 1 .. Len(r) /\ i = j + 1
      BY <1>2, <1>4, <2>2, <3>1
    <3> QED  BY <1>2, <1>4, <3>2
  <2> QED  BY <2>1, <2>2
<1> QED  BY <1>1, <1>2, <1>3, <1>4, <1>5, SeqEqual

LEMMA AfterThen ==
  ASSUME NEW a \in CallRecord, NEW r \in Seq(CallRecord), NEW s \in Seq(CallRecord)
  PROVE  Then(a, r) \o s = Then(a, r \o s)
BY ConcatAssociative DEF Then

LEMMA MovedCounts ==
  ASSUME NEW A \in SUBSET Int, IsFiniteSet(A)
  PROVE  IsFiniteSet(Moved(A)) /\ Cardinality(Moved(A)) = Cardinality(A)
<1>1. PICK B : B = Moved(A)
  OBVIOUS
<1>2. PICK m : m = [i \in A |-> i + 1]
  OBVIOUS
<1>3. m \in Bijection(A, B)
  BY <1>1, <1>2 DEF Bijection, Injection, Surjection, IsInjective, Moved
<1> QED  BY <1>1, <1>3, FS_Bijection DEF ExistsBijection

LEMMA OwingFinite ==
  ASSUME NEW s \in Seq(CallRecord), NEW x, NEW n
  PROVE  /\ Owing(s, x, n) \in SUBSET Int /\ IsFiniteSet(Owing(s, x, n))
         /\ Cardinality(Owing(s, x, n)) \in Nat
<1>1. PICK k \in Int : DOMAIN s = 1 .. k
  OBVIOUS
<1>2. IsFiniteSet(1 .. k)
  BY FS_Interval
<1> QED  BY <1>1, <1>2, FS_Subset, FS_CardinalityType DEF Owing

LEMMA OwingThen ==
  ASSUME NEW c \in CallRecord, NEW s \in Seq(CallRecord), NEW x, NEW n \in Int
  PROVE  Cardinality(Owing(Then(c, s), x, n))
           = Cardinality(Owing(s, x, n)) + (IF OwedBy(c, x) = n THEN 1 ELSE 0)
<1>1. PICK t, A, B, C : /\ t = Then(c, s)
                        /\ A = Owing(s, x, n) /\ B = Owing(t, x, n) /\ C = Moved(A)
  OBVIOUS
<1>2. /\ t \in Seq(CallRecord) /\ Len(t) = Len(s) + 1 /\ t[1] = c
      /\ \A i \in 1 .. Len(s) : t[i + 1] = s[i]
  <2>0. /\ Then(c, s) \in Seq(CallRecord) /\ Len(Then(c, s)) = Len(s) + 1 /\ Then(c, s)[1] = c
        /\ \A i \in 1 .. Len(s) : Then(c, s)[i + 1] = s[i]
    BY ThenIs
  <2> QED  BY ONLY <1>1, <2>0
<1>3. A \in SUBSET Int /\ IsFiniteSet(A) /\ Cardinality(A) \in Nat
  BY <1>1, OwingFinite
<1>4. IsFiniteSet(C) /\ Cardinality(C) = Cardinality(A)
  BY <1>1, <1>3, MovedCounts
<1>5. Len(s) \in Nat /\ DOMAIN s = 1 .. Len(s) /\ DOMAIN t = 1 .. Len(s) + 1
  BY <1>2
<1>6. \A i : i \in C <=> \E j \in A : i = j + 1
  BY <1>1 DEF Moved
<1>7. 1 \notin C
  BY <1>1, <1>5, <1>6 DEF Owing
<1>8. ASSUME NEW i  PROVE i \in B <=> i \in C \/ (i = 1 /\ OwedBy(c, x) = n)
  <2>1. ASSUME i \in B, i # 1  PROVE i \in C
    <3>1. PICK j : j = i - 1
      OBVIOUS
    <3> QED  BY <1>1, <1>2, <1>5, <1>6, <2>1, <3>1 DEF Owing
  <2>2. ASSUME i \in C  PROVE i \in B
    <3>1. PICK j \in A : i = j + 1
      BY <1>6, <2>2
    <3> QED  BY <1>1, <1>2, <1>5, <3>1 DEF Owing
  <2> QED  BY <1>1, <1>2, <1>5, <1>7, <2>1, <2>2 DEF Owing
<1>9. CASE OwedBy(c, x) = n
  <2>1. B = C \union {1}
    BY <1>8, <1>9
  <2>2. Cardinality(C \union {1}) = Cardinality(C) + 1
    BY <1>4, <1>7, FS_AddElement
  <2> QED  BY <1>1, <1>3, <1>4, <1>9, <2>1, <2>2
<1>10. CASE OwedBy(c, x) # n
  <2>1. B = C
    BY <1>8, <1>10
  <2> QED  BY <1>1, <1>3, <1>4, <1>10, <2>1
<1> QED  BY <1>9, <1>10

(* What is owed in all is what the first call owes, and what the rest owes.*)
LEMMA OwedThen ==
  ASSUME NEW c \in CallRecord, NEW s \in Seq(CallRecord), NEW x
  PROVE  /\ Owed(Then(c, s), x) = OwedBy(c, x) + Owed(s, x)
         /\ OwedBy(c, x) \in {0 - 1, 0, 1} /\ Owed(s, x) \in Int
<1>1. PICK p, m, q, r : /\ p = Cardinality(Owing(s, x, 1)) /\ m = Cardinality(Owing(s, x, 0 - 1))
                        /\ q = Cardinality(Owing(Then(c, s), x, 1))
                        /\ r = Cardinality(Owing(Then(c, s), x, 0 - 1))
  OBVIOUS
<1>2. PICK k : k = OwedBy(c, x)
  OBVIOUS
<1>3. q = p + (IF k = 1 THEN 1 ELSE 0)
  BY <1>1, <1>2, OwingThen
<1>4. r = m + (IF k = 0 - 1 THEN 1 ELSE 0)
  BY <1>1, <1>2, OwingThen
<1>5. p \in Nat /\ m \in Nat
  BY <1>1, OwingFinite
<1>6. k \in {0 - 1, 0, 1}
  <2>1. \A v : Is(v, x) = 0 \/ Is(v, x) = 1
    BY DEF Is
  <2> QED  BY <1>2, <2>1 DEF OwedBy
<1>7. Owed(s, x) = p - m /\ Owed(Then(c, s), x) = q - r
  BY <1>1 DEF Owed
<1> QED  BY <1>2, <1>3, <1>4, <1>5, <1>6, <1>7

LEMMA OwedNothing ==
  ASSUME NEW x
  PROVE  Owed(<<>>, x) = 0
BY FS_EmptySet DEF Owed, Owing

LEMMA HeldThen ==
  ASSUME NEW c \in CallRecord, NEW s \in Seq(CallRecord)
  PROVE  HeldIn(Then(c, s)) = ValuesIn(c) \union HeldIn(s)
<1>1. PICK t : t = Then(c, s)
  OBVIOUS
<1>2. /\ t \in Seq(CallRecord) /\ Len(t) = Len(s) + 1 /\ t[1] = c
      /\ \A i \in 1 .. Len(s) : t[i + 1] = s[i]
  <2>0. /\ Then(c, s) \in Seq(CallRecord) /\ Len(Then(c, s)) = Len(s) + 1 /\ Then(c, s)[1] = c
        /\ \A i \in 1 .. Len(s) : Then(c, s)[i + 1] = s[i]
    BY ThenIs
  <2> QED  BY ONLY <1>1, <2>0
<1>3. Len(s) \in Nat /\ DOMAIN s = 1 .. Len(s) /\ DOMAIN t = 1 .. Len(s) + 1
  BY <1>2
<1>4. ASSUME NEW x \in HeldIn(t)  PROVE x \in ValuesIn(c) \union HeldIn(s)
  <2>1. PICK i \in 1 .. Len(s) + 1 : x \in ValuesIn(t[i])
    BY <1>3 DEF HeldIn
  <2>2. CASE i = 1
    BY <1>2, <2>1, <2>2
  <2>3. CASE i # 1
    <3>1. PICK j \in 1 .. Len(s) : i = j + 1
      BY <1>3, <2>3
    <3> QED  BY <1>2, <1>3, <2>1, <3>1 DEF HeldIn
  <2> QED  BY <2>2, <2>3
<1>5. ASSUME NEW x \in ValuesIn(c)  PROVE x \in HeldIn(t)
  BY <1>2, <1>3 DEF HeldIn
<1>6. ASSUME NEW x \in HeldIn(s)  PROVE x \in HeldIn(t)
  <2>1. PICK j \in 1 .. Len(s) : x \in ValuesIn(s[j])
    BY <1>3 DEF HeldIn
  <2> QED  BY <1>2, <1>3, <2>1 DEF HeldIn
<1> QED  BY <1>1, <1>4, <1>5, <1>6

LEMMA RiseThen ==
  ASSUME NEW c \in CallRecord, NEW s \in Seq(CallRecord), NEW x
  PROVE  WillRise(Then(c, s), x) <=> c = countUp(x) \/ WillRise(s, x)
<1>1. PICK t : t = Then(c, s)
  OBVIOUS
<1>2. /\ t \in Seq(CallRecord) /\ Len(t) = Len(s) + 1 /\ t[1] = c
      /\ \A i \in 1 .. Len(s) : t[i + 1] = s[i]
  <2>0. /\ Then(c, s) \in Seq(CallRecord) /\ Len(Then(c, s)) = Len(s) + 1 /\ Then(c, s)[1] = c
        /\ \A i \in 1 .. Len(s) : Then(c, s)[i + 1] = s[i]
    BY ThenIs
  <2> QED  BY ONLY <1>1, <2>0
<1>3. Len(s) \in Nat /\ DOMAIN s = 1 .. Len(s) /\ DOMAIN t = 1 .. Len(s) + 1
  BY <1>2
<1>4. ASSUME WillRise(t, x)  PROVE c = countUp(x) \/ WillRise(s, x)
  <2>1. PICK i \in 1 .. Len(s) + 1 : t[i] = countUp(x)
    BY <1>3, <1>4 DEF WillRise
  <2>2. CASE i = 1
    BY <1>2, <2>1, <2>2
  <2>3. CASE i # 1
    <3>1. PICK j \in 1 .. Len(s) : i = j + 1
      BY <1>3, <2>3
    <3> QED  BY <1>2, <1>3, <2>1, <3>1 DEF WillRise
  <2> QED  BY <2>2, <2>3
<1>5. ASSUME c = countUp(x)  PROVE WillRise(t, x)
  BY <1>2, <1>3, <1>5 DEF WillRise
<1>6. ASSUME WillRise(s, x)  PROVE WillRise(t, x)
  <2>1. PICK j \in 1 .. Len(s) : s[j] = countUp(x)
    BY <1>3, <1>6 DEF WillRise
  <2> QED  BY <1>2, <1>3, <2>1 DEF WillRise
<1> QED  BY <1>1, <1>4, <1>5, <1>6

LEMMA SoundThen ==
  ASSUME NEW f, NEW h, NEW c \in CallRecord, NEW s \in Seq(CallRecord)
  PROVE  Sound(f, h, Then(c, s)) <=> Callable(f, h, c, Upcoming(s)) /\ Sound(f, h, s)
<1>1. PICK t : t = Then(c, s)
  OBVIOUS
<1>2. /\ t \in Seq(CallRecord) /\ Len(t) = Len(s) + 1 /\ t[1] = c
      /\ \A i \in 1 .. Len(s) : t[i + 1] = s[i]
  <2>0. /\ Then(c, s) \in Seq(CallRecord) /\ Len(Then(c, s)) = Len(s) + 1 /\ Then(c, s)[1] = c
        /\ \A i \in 1 .. Len(s) : Then(c, s)[i + 1] = s[i]
    BY ThenIs
  <2> QED  BY ONLY <1>1, <2>0
<1>3. Len(s) \in Nat /\ DOMAIN s = 1 .. Len(s) /\ DOMAIN t = 1 .. Len(s) + 1
  BY <1>2
<1>4. NextOf(t, 1) = Upcoming(s)
  <2>1. CASE s = <<>>
    BY <1>2, <1>3, <2>1 DEF NextOf, Upcoming
  <2>2. CASE s # <<>>
    BY <1>2, <1>3, <2>2, HeadTailProperties, EmptySeq DEF NextOf, Upcoming
  <2> QED  BY <2>1, <2>2
<1>5. \A j \in 1 .. Len(s) : NextOf(t, j + 1) = NextOf(s, j)
  <2> SUFFICES ASSUME NEW j \in 1 .. Len(s)  PROVE NextOf(t, j + 1) = NextOf(s, j)
    OBVIOUS
  <2>1. CASE j < Len(s)
    BY <1>2, <1>3, <2>1 DEF NextOf
  <2>2. CASE ~(j < Len(s))
    BY <1>2, <1>3, <2>2 DEF NextOf
  <2> QED  BY <2>1, <2>2
<1>6. ASSUME Sound(f, h, t)  PROVE Callable(f, h, c, Upcoming(s)) /\ Sound(f, h, s)
  <2>1. ASSUME NEW j \in 1 .. Len(s)  PROVE Callable(f, h, s[j], NextOf(s, j))
    BY <1>2, <1>3, <1>5, <1>6 DEF Sound, NextOf
  <2> QED  BY <1>2, <1>3, <1>4, <1>6, <2>1 DEF Sound, NextOf
<1>7. ASSUME Callable(f, h, c, Upcoming(s)), Sound(f, h, s)  PROVE Sound(f, h, t)
  <2>1. ASSUME NEW i \in 1 .. Len(s) + 1  PROVE Callable(f, h, t[i], NextOf(t, i))
    <3>1. CASE i = 1
      BY <1>2, <1>4, <1>7, <3>1
    <3>2. CASE i # 1
      <4>1. PICK j \in 1 .. Len(s) : i = j + 1
        BY <1>3, <3>2
      <4> QED  BY <1>2, <1>3, <1>5, <1>7, <4>1 DEF Sound, NextOf
    <3> QED  BY <3>1, <3>2
  <2> QED  BY <1>3, <2>1 DEF Sound, NextOf
<1> QED  BY <1>1, <1>6, <1>7

LEMMA NothingHeld ==
  /\ HeldIn(<<>>) = {} /\ (\A f, h : Sound(f, h, <<>>)) /\ Upcoming(<<>>) = abort /\ <<>> \in Seq(CallRecord)
  /\ \A x : ~WillRise(<<>>, x)
BY DEF HeldIn, Sound, Upcoming, WillRise

LEMMA UpcomingThen ==
  ASSUME NEW c \in CallRecord, NEW s \in Seq(CallRecord)
  PROVE  Upcoming(Then(c, s)) = c
BY ThenIs DEF Upcoming

LEMMA FreedAre ==
  ASSUME NEW f \in Heap, NEW n \in Counts, NEW v \in Oop,
         NEW D, D = FreedWith(f, n, v)
  PROVE  /\ D \in SUBSET Oop /\ v \in D
         /\ \A y \in Oop \ D : ~Dies(f, n, D, y)
         /\ \A x \in D \ {v} : Dies(f, n, D, x)
<1>1. PICK C : C = {E \in SUBSET Oop : v \in E /\ \A y \in Oop \ E : ~Dies(f, n, E, y)}
  OBVIOUS
<1>2. D = {x \in Oop : \A E \in C : x \in E}
  BY <1>1 DEF FreedWith
<1>3. ASSUME NEW S \in SUBSET Oop, NEW T \in SUBSET S, NEW y \in Oop, ~Dies(f, n, S, y)
      PROVE  ~Dies(f, n, T, y)
  BY <1>3, ReferencesMore, ReferencesAre DEF Dies, Counts
<1>4. ASSUME NEW y \in Oop \ D
      PROVE  ~Dies(f, n, D, y)
  <2>1. PICK E \in C : y \notin E
    BY <1>2
  <2> QED  BY <1>1, <1>2, <1>3, <2>1
<1>5. ASSUME NEW x \in D \ {v}, ~Dies(f, n, D, x)
      PROVE  FALSE
  <2>1. ASSUME NEW y \in Oop \ (D \ {x})  PROVE ~Dies(f, n, D \ {x}, y)
    BY <1>1, <1>2, <1>3, <1>4, <1>5
  <2>2. D \ {x} \in C
    BY <1>1, <1>2, <2>1
  <2> QED  BY <1>2, <2>2
<1> QED  BY <1>1, <1>2, <1>4, <1>5

LEMMA FreedUnreferenced ==
  ASSUME NEW f \in Heap, NEW n \in Counts, NEW r \in [Oop -> Int], NEW v \in Oop, n[v] = 1,
         Accounts(f, n, r, v), NEW D, D = FreedWith(f, n, v)
  PROVE  Unreferenced(f, n, r, v, D)
<1>1. /\ D \in SUBSET Oop /\ v \in D
      /\ \A y \in Oop \ D : ~Dies(f, n, D, y)
      /\ \A x \in D \ {v} : Dies(f, n, D, x)
  BY FreedAre
<1>2. ASSUME NEW x \in Oop
      PROVE  /\ n[x] \in Nat
             /\ ReferencesFrom(f, D, x) \in Nat /\ ReferencesFrom(f, Oop \ D, x) \in Nat
             /\ ReferencesFrom(f, Oop, x) = ReferencesFrom(f, D, x) + ReferencesFrom(f, Oop \ D, x)
  BY <1>1, ReferencesAre, ReferencesSplit DEF Counts
<1>3. ASSUME NEW x \in D
      PROVE  x # NilPointer /\ n[x] # Sticky /\ n[x] > 0
  BY <1>1 DEF Dies, Accounts
<1>4. ASSUME NEW x \in D \ {v}
      PROVE  r[x] = 0 /\ ReferencesFrom(f, Oop \ D, x) = 0
  <2>1. x \in Oop /\ x # NilPointer /\ n[x] # Sticky /\ ReferencesFrom(f, D, x) >= n[x]
    BY <1>1, <1>3 DEF Dies
  <2>2. n[x] = ReferencesFrom(f, Oop, x) + r[x] /\ r[x] >= 0 /\ r[x] \in Int
    BY <2>1 DEF Accounts
  <2>3. /\ ReferencesFrom(f, D, x) \in Nat /\ ReferencesFrom(f, Oop \ D, x) \in Nat
        /\ ReferencesFrom(f, Oop, x) = ReferencesFrom(f, D, x) + ReferencesFrom(f, Oop \ D, x)
    BY <1>2, <2>1
  <2> QED  BY ONLY <2>1, <2>2, <2>3
<1>5. ASSUME NEW x \in Oop \ D
      PROVE  n[x] = Sticky \/ n[x] = 0 \/ ReferencesFrom(f, D, x) < n[x]
  BY <1>1, <1>2 DEF Dies
<1>6. ASSUME NEW x \in Oop \ {v}, n[x] # Sticky
      PROVE  ReferencesFrom(f, D, x) <= n[x]
  <2>1. n[x] = ReferencesFrom(f, Oop, x) + r[x] /\ r[x] >= 0 /\ r[x] \in Int
    BY <1>6 DEF Accounts
  <2>2. /\ ReferencesFrom(f, D, x) \in Nat /\ ReferencesFrom(f, Oop \ D, x) \in Nat
        /\ ReferencesFrom(f, Oop, x) = ReferencesFrom(f, D, x) + ReferencesFrom(f, Oop \ D, x)
    BY <1>2
  <2> QED  BY ONLY <2>1, <2>2
<1> QED  BY <1>1, <1>3, <1>4, <1>5, <1>6 DEF Unreferenced

LEMMA FreedAfter ==
  ASSUME NEW f \in Heap, NEW n \in Counts, NEW r \in [Oop -> Int], NEW v \in Oop, n[v] = 1,
         Accounts(f, n, r, v), NEW D, D = FreedWith(f, n, v),
         NEW e \in Nat, r[v] = 0, ReferencesFrom(f, Oop, v) = e, ReferencesFrom(f, D, v) = 0,
         NEW g \in Heap, Closed(g, Oop \ D)
  PROVE  FreesSafely(f, n, r, v, e, g, D)
<1>1. /\ D \in SUBSET Oop /\ v \in D
      /\ \A x \in D : x # NilPointer /\ n[x] # Sticky /\ n[x] > 0
      /\ \A x \in D \ {v} : r[x] = 0 /\ ReferencesFrom(f, Oop \ D, x) = 0
      /\ \A x \in Oop \ D : n[x] = Sticky \/ n[x] = 0 \/ ReferencesFrom(f, D, x) < n[x]
      /\ \A x \in Oop \ {v} : n[x] = Sticky \/ ReferencesFrom(f, D, x) <= n[x]
  <2>1. Unreferenced(f, n, r, v, D)
    BY FreedUnreferenced
  <2> QED  BY <2>1 DEF Unreferenced
<1>2. ASSUME NEW x \in Oop
      PROVE  /\ n[x] \in 0 .. Sticky /\ n[x] \in Nat
             /\ ReferencesFrom(f, D, x) \in Nat /\ ReferencesFrom(f, Oop \ D, x) \in Nat
             /\ ReferencesFrom(f, Oop, x) = ReferencesFrom(f, D, x) + ReferencesFrom(f, Oop \ D, x)
             /\ ReferencesFrom(FieldsWithout(f, D), Oop, x)
                  = ReferencesFrom(f, Oop, x) - ReferencesFrom(f, D, x)
  <2>1. n[x] \in 0 .. Sticky /\ n[x] \in Nat
    BY DEF Counts
  <2>2. D \in SUBSET Oop
    BY <1>1
  <2>3. ReferencesFrom(f, Oop, x) = ReferencesFrom(f, D, x) + ReferencesFrom(f, Oop \ D, x)
    BY <2>2, ReferencesSplit
  <2>4. ReferencesFrom(FieldsWithout(f, D), Oop, x)
          = ReferencesFrom(f, Oop, x) - ReferencesFrom(f, D, x)
    BY <2>2, ReferencesLeft
  <2> QED  BY <2>1, <2>2, <2>3, <2>4, ReferencesAre
<1>3. PICK m : m = CountsWithout(f, n, D)
  OBVIOUS
<1>4. \A x \in Oop : m[x] = IF x \in D THEN 0
                            ELSE IF n[x] = Sticky THEN Sticky
                            ELSE n[x] - ReferencesFrom(f, D, x)
  BY <1>3 DEF CountsWithout
<1>5. ASSUME NEW x \in Oop
      PROVE  /\ m[x] \in 0 .. Sticky
             /\ x \in D \/ n[x] = 0 => m[x] = 0
             /\ x \notin D /\ n[x] > 0 => m[x] > 0
             /\ n[x] = Sticky => m[x] = Sticky
  <2>1. CASE x \in D
    BY <1>1, <1>4, <2>1
  <2>2. CASE x \notin D /\ n[x] = Sticky
    BY <1>4, <2>2
  <2>3. CASE x \notin D /\ n[x] # Sticky
    BY <1>1, <1>2, <1>4, <2>3
  <2> QED  BY <2>1, <2>2, <2>3
<1>6. m \in Counts
  BY <1>3, <1>5 DEF Counts, CountsWithout
<1>7. ASSUME NEW x \in Oop \ {NilPointer}, m[x] # Sticky
      PROVE  m[x] + (IF x = v THEN e ELSE 0) = ReferencesFrom(FieldsWithout(f, D), Oop, x) + r[x]
  <2>1. CASE x = v
    BY <1>1, <1>2, <1>4, <2>1
  <2>2. CASE x \in D \ {v}
    <3>1. m[x] = 0 /\ r[x] = 0 /\ ReferencesFrom(f, Oop \ D, x) = 0
      BY <1>1, <1>4, <2>2
    <3> QED  BY <1>2, <2>2, <3>1
  <2>3. CASE x \notin D
    BY <1>1, <1>2, <1>4, <1>7, <2>3 DEF Accounts
  <2> QED  BY <2>1, <2>2, <2>3
<1> QED  BY <1>1, <1>2, <1>3, <1>5, <1>6, <1>7, ReachedIsLeast DEF FreesSafely, Undercounted, SureOf

(* The last reference to v was a register or a variable.                   *)
LEMMA FreeHeld ==
  ASSUME NEW f \in Heap, NEW n \in Counts, NEW r \in [Oop -> Int], NEW v \in Oop, n[v] = 1,
         Accounts(f, n, r, v), n[v] = ReferencesFrom(f, Oop, v) + 1 + r[v]
  PROVE  FreesSafely(f, n, r, v, 0, f, FreedWith(f, n, v))
<1>1. PICK D : D = FreedWith(f, n, v)
  OBVIOUS
<1>2. /\ D \in SUBSET Oop /\ v \in D
      /\ \A x \in D : x # NilPointer
      /\ \A x \in D \ {v} : ReferencesFrom(f, Oop \ D, x) = 0
  BY <1>1, FreedUnreferenced DEF Unreferenced
<1>3. v # NilPointer
  BY <1>2
<1>4. ReferencesFrom(f, Oop, v) = 0 /\ r[v] = 0
  <2>1. Oop \in SUBSET Oop
    OBVIOUS
  <2> QED  BY <1>3, <2>1, ReferencesAre DEF Accounts
<1>5. ReferencesFrom(f, D, v) = 0 /\ ReferencesFrom(f, Oop \ D, v) = 0
  <2>1. /\ ReferencesFrom(f, Oop, v) = ReferencesFrom(f, D, v) + ReferencesFrom(f, Oop \ D, v)
        /\ ReferencesFrom(f, D, v) \in Nat /\ ReferencesFrom(f, Oop \ D, v) \in Nat
    BY <1>2, ReferencesSplit, ReferencesAre
  <2> QED  BY <1>4, <2>1
<1>6. Closed(f, Oop \ D)
  <2> SUFFICES ASSUME NEW y \in Oop \ D, NEW x \in PointersOf(f, y)
               PROVE  x \in Oop \ D
    BY DEF Closed
  <2>1. PICK i \in DOMAIN f[y] : x = f[y][i]
    BY DEF PointersOf
  <2>2. ASSUME x \in D  PROVE FALSE
    <3>1. <<y, i>> \in ReferencesIn(f, Oop \ D, x) /\ IsFiniteSet(ReferencesIn(f, Oop \ D, x))
      BY <2>1, PlaceRefers, ReferencesAre
    <3> QED  BY <1>2, <1>5, <2>2, <3>1, FS_EmptySet DEF ReferencesFrom
  <2> QED  BY <2>2, PointersAre
<1> QED  BY <1>1, <1>4, <1>5, <1>6, FreedAfter

(* The last reference to v was the place o.k, where w is put.              *)
LEMMA FreePlace ==
  ASSUME NEW f \in Heap, NEW n \in Counts, NEW r \in [Oop -> Int], NEW v \in Oop, n[v] = 1,
         Accounts(f, n, r, v), n[v] = ReferencesFrom(f, Oop, v) + r[v],
         NEW o \in Oop, NEW k \in DOMAIN f[o], f[o][k] = v, NEW w \in Pointer,
         w \in {Immediate, NilPointer} \/ r[w] >= 1,
         o \in ReachedFrom(Written(f, o, k, w), SureOf(n, r))
  PROVE  FreesSafely(f, n, r, v, 1, Written(f, o, k, w), FreedWith(f, n, v))
<1>1. PICK D, g : D = FreedWith(f, n, v) /\ g = Written(f, o, k, w)
  OBVIOUS
<1>2. /\ D \in SUBSET Oop /\ v \in D
      /\ \A x \in D : x # NilPointer /\ n[x] # Sticky /\ n[x] > 0
      /\ \A x \in D \ {v} : r[x] = 0 /\ ReferencesFrom(f, Oop \ D, x) = 0
  <2>1. Unreferenced(f, n, r, v, D)
    BY <1>1, FreedUnreferenced
  <2> QED  BY <2>1 DEF Unreferenced
<1>3. ReferencesFrom(f, Oop, v) = 1 /\ r[v] = 0
  <2>1. r[v] >= 0 /\ r[v] \in Int
    BY <1>2 DEF Accounts
  <2>2. {} \in SUBSET Oop /\ Oop \in SUBSET Oop /\ o \in Oop \ {}
    OBVIOUS
  <2>3. ReferencesFrom(f, {}, v) + 1 <= ReferencesFrom(f, Oop, v)
    BY <2>2, OneReference
  <2>4. ReferencesFrom(f, {}, v) \in Nat /\ ReferencesFrom(f, Oop, v) \in Nat
    BY <2>2, ReferencesAre
  <2> QED  BY <2>1, <2>3, <2>4
<1>4. Closed(g, Oop \ D)
  <2> SUFFICES ASSUME NEW y \in Oop \ D, NEW x \in PointersOf(g, y)
               PROVE  x \in Oop \ D
    BY DEF Closed
  <2>1. PICK i \in DOMAIN g[y] : x = g[y][i]
    BY DEF PointersOf
  <2>2. CASE y = o /\ i = k
    BY <1>1, <1>2, <1>3, <2>1, <2>2, WrittenIs, OopAssumption, PointersAre
  <2>3. CASE ~(y = o /\ i = k)
    <3>1. i \in DOMAIN f[y] /\ f[y][i] = x
      BY <1>1, <2>1, <2>3, WrittenIs
    <3>2. x # v
      <4>1. ASSUME x = v  PROVE FALSE
        BY <1>3, <2>3, <3>1, <4>1, TwoReferences
      <4> QED  BY <4>1
    <3>3. ASSUME x \in D  PROVE FALSE
      <4>1. <<y, i>> \in ReferencesIn(f, Oop \ D, x) /\ IsFiniteSet(ReferencesIn(f, Oop \ D, x))
        BY <3>1, PlaceRefers, ReferencesAre
      <4> QED  BY <1>2, <3>2, <3>3, <4>1, FS_EmptySet DEF ReferencesFrom
    <3> QED  BY <1>1, <3>3, WrittenIs, PointersAre
  <2> QED  BY <2>2, <2>3
<1>5. o \notin D
  BY <1>1, <1>2, <1>3, <1>4, ReachedIsLeast DEF SureOf
<1>6. ReferencesFrom(f, D, v) = 0
  <2>1. ReferencesFrom(f, D, v) + 1 <= ReferencesFrom(f, Oop, v)
    BY <1>2, <1>5, OneReference
  <2>2. ReferencesFrom(f, D, v) \in Nat
    BY <1>2, ReferencesAre
  <2> QED  BY <1>3, <2>1, <2>2
<1> QED  BY <1>1, <1>3, <1>4, <1>6, WrittenIs, FreedAfter

LEMMA EndingThen ==
  ASSUME NEW c \in CallRecord, NEW s \in Seq(CallRecord)
  PROVE  EndingOf(Then(c, s)) = IF s # <<>> /\ c.call \in {"countDown", "countDownField"}
                                THEN Upcoming(s) ELSE c
<1>1. PICK t : t = Then(c, s)
  OBVIOUS
<1>2. /\ t # <<>> /\ Head(t) = c /\ Len(t) = Len(s) + 1 /\ Len(s) \in Nat
      /\ \A i \in 1 .. Len(s) : t[i + 1] = s[i]
  <2>0. /\ Then(c, s) # <<>> /\ Head(Then(c, s)) = c /\ Len(Then(c, s)) = Len(s) + 1
        /\ \A i \in 1 .. Len(s) : Then(c, s)[i + 1] = s[i]
    BY ThenIs
  <2>1. /\ t # <<>> /\ Head(t) = c /\ Len(t) = Len(s) + 1
        /\ \A i \in 1 .. Len(s) : t[i + 1] = s[i]
    BY ONLY <1>1, <2>0
  <2> QED  BY <2>1
<1>3. CASE s = <<>>
  BY <1>1, <1>2, <1>3 DEF EndingOf
<1>4. CASE s # <<>>
  BY <1>1, <1>2, <1>4, EmptySeq DEF EndingOf, Upcoming
<1> QED  BY <1>3, <1>4

LEMMA HeldAtThen ==
  ASSUME NEW c \in CallRecord, NEW s \in Seq(CallRecord)
  PROVE  /\ HeldAt(Then(c, s)) = HeldIn(s) \union (IF c.call = "countDown" THEN {} ELSE ValuesIn(c))
         /\ HeldAt(s) \subseteq HeldIn(s) /\ HeldAt(<<>>) = {}
<1>1. PICK t : t = Then(c, s)
  OBVIOUS
<1>2. /\ t # <<>> /\ Head(t) = c /\ Len(t) = Len(s) + 1 /\ Len(s) \in Nat
      /\ \A i \in 1 .. Len(s) : t[i + 1] = s[i]
      /\ DOMAIN s = 1 .. Len(s)
  <2>0. /\ Then(c, s) # <<>> /\ Head(Then(c, s)) = c /\ Len(Then(c, s)) = Len(s) + 1
        /\ \A i \in 1 .. Len(s) : Then(c, s)[i + 1] = s[i]
    BY ThenIs
  <2>1. /\ t # <<>> /\ Head(t) = c /\ Len(t) = Len(s) + 1
        /\ \A i \in 1 .. Len(s) : t[i + 1] = s[i]
    BY ONLY <1>1, <2>0
  <2> QED  BY <2>1
<1>3. ASSUME NEW x
      PROVE  (\E i \in 2 .. Len(t) : x \in ValuesIn(t[i])) <=> x \in HeldIn(s)
  <2>1. ASSUME NEW i \in 2 .. Len(t), x \in ValuesIn(t[i])  PROVE x \in HeldIn(s)
    <3>1. PICK j : j = i - 1
      OBVIOUS
    <3> QED  BY <1>2, <2>1, <3>1 DEF HeldIn
  <2>2. ASSUME x \in HeldIn(s)  PROVE \E i \in 2 .. Len(t) : x \in ValuesIn(t[i])
    <3>1. PICK j \in 1 .. Len(s) : x \in ValuesIn(s[j])
      BY <1>2, <2>2 DEF HeldIn
    <3> QED  BY <1>2, <3>1
  <2> QED  BY <2>1, <2>2
<1>4. HeldAt(s) \subseteq HeldIn(s)
  <2>1. ASSUME NEW x \in HeldAt(s)  PROVE x \in HeldIn(s)
    <3>1. CASE \E i \in 2 .. Len(s) : x \in ValuesIn(s[i])
      <4>1. PICK i \in 2 .. Len(s) : x \in ValuesIn(s[i])
        BY <3>1
      <4> QED  BY <1>2, <4>1 DEF HeldIn
    <3>2. CASE s # <<>> /\ x \in ValuesIn(Head(s))
      BY <1>2, <3>2, EmptySeq DEF HeldIn
    <3> QED  BY <2>1, <3>1, <3>2 DEF HeldAt, HeldNow, HeldLater
  <2> QED  BY <2>1
<1> QED  BY <1>1, <1>2, <1>3, <1>4 DEF HeldAt, HeldLater, HeldNow

LEMMA ViewIdle ==
  ASSUME NEW f, NEW a, NEW p, NEW h
  PROVE  /\ GraphAt(f, <<>>) = f
         /\ RootsAt(<<>>, a, p, h) = {NilPointer, SmalltalkPointer, a, p} \union h
BY DEF GraphAt, RootsAt, RegisterAt, HeldAt, HeldLater, HeldNow

LEMMA ViewThen ==
  ASSUME NEW f, NEW c \in CallRecord, NEW s \in Seq(CallRecord)
  PROVE  /\ c.call = "put" => GraphAt(f, Then(c, s)) = Written(f, c.object, c.index, c.value)
         /\ c.call = "countDownField" /\ Upcoming(s).call = "put" =>
              GraphAt(f, Then(c, s))
                = Written(f, Upcoming(s).object, Upcoming(s).index, Upcoming(s).value)
         /\ c.call \notin {"put", "countDown", "countDownField"} => GraphAt(f, Then(c, s)) = f
         /\ c.call = "countDown" /\ Upcoming(s).call # "put" => GraphAt(f, Then(c, s)) = f
<1>1. PICK t : t = Then(c, s)
  OBVIOUS
<1>2. t # <<>>
  BY <1>1, ThenIs
<1> QED  BY <1>1, <1>2, EndingThen DEF GraphAt, Upcoming, abort, Call

LEMMA RegisterThen ==
  ASSUME NEW r, NEW c \in CallRecord, NEW s \in Seq(CallRecord),
         NEW name \in {"activeContext", "newProcess"}
  PROVE  /\ c.call = name => RegisterAt(Then(c, s), name, r) = c.value
         /\ c.call = "countDown" /\ Upcoming(s).call = name =>
              RegisterAt(Then(c, s), name, r) = Upcoming(s).value
         /\ c.call \notin {name, "countDown", "countDownField"} =>
              RegisterAt(Then(c, s), name, r) = r
         /\ c.call \in {"countDown", "countDownField"} /\ Upcoming(s).call # name =>
              RegisterAt(Then(c, s), name, r) = r
<1>1. PICK t : t = Then(c, s)
  OBVIOUS
<1>2. t # <<>>
  BY <1>1, ThenIs
<1> QED  BY <1>1, <1>2, EndingThen DEF RegisterAt, Upcoming, abort, Call

(* The next call of a sound routine, and the one that it is made for.      *)
LEMMA SoundEnding ==
  ASSUME NEW f, NEW h, NEW t \in Seq(CallRecord), Sound(f, h, t)
  PROVE  \/ t = <<>>
         \/ /\ Upcoming(t) \in CallRecord /\ EndingOf(t) \in CallRecord
            /\ ValuesIn(EndingOf(t)) \subseteq HeldIn(t)
            /\ EndingOf(t).call = "put" => IsPlace(f, EndingOf(t))
            /\ EndingOf(t).call = "put" => Upcoming(t).call \in {"put", "countDownField"}
            /\ EndingOf(t).call \in {"activeContext", "newProcess"} => EndingOf(t).value \in Oop
            /\ Upcoming(t).call \notin {"countDown", "countDownField"} => EndingOf(t) = Upcoming(t)
<1> SUFFICES ASSUME t # <<>>
             PROVE  /\ Upcoming(t) \in CallRecord /\ EndingOf(t) \in CallRecord
                    /\ ValuesIn(EndingOf(t)) \subseteq HeldIn(t)
                    /\ EndingOf(t).call = "put" => IsPlace(f, EndingOf(t))
                    /\ EndingOf(t).call = "put" => Upcoming(t).call \in {"put", "countDownField"}
                    /\ EndingOf(t).call \in {"activeContext", "newProcess"} => EndingOf(t).value \in Oop
                    /\ Upcoming(t).call \notin {"countDown", "countDownField"} =>
                         EndingOf(t) = Upcoming(t)
  OBVIOUS
<1>1. PICK c, s : c = Head(t) /\ s = Tail(t)
  OBVIOUS
<1>2. c \in CallRecord /\ s \in Seq(CallRecord) /\ t = Then(c, s)
  BY <1>1, IsThen
<1>3. Callable(f, h, c, Upcoming(s)) /\ Sound(f, h, s)
  BY <1>2, SoundThen
<1>4. CASE s # <<>> /\ c.call \in {"countDown", "countDownField"}
  <2>1. PICK d, r : d = Head(s) /\ r = Tail(s)
    OBVIOUS
  <2>2. d \in CallRecord /\ r \in Seq(CallRecord) /\ s = Then(d, r)
    BY <1>2, <1>4, <2>1, IsThen
  <2>3. Upcoming(s) = d /\ Callable(f, h, d, Upcoming(r)) /\ HeldIn(s) = ValuesIn(d) \union HeldIn(r)
    BY <1>3, <2>2, UpcomingThen, SoundThen, HeldThen
  <2> QED  BY <1>2, <1>3, <1>4, <2>2, <2>3, UpcomingThen, EndingThen, HeldThen DEF Callable
<1>5. CASE ~(s # <<>> /\ c.call \in {"countDown", "countDownField"})
  BY <1>2, <1>3, <1>5, UpcomingThen, EndingThen, HeldThen DEF Callable
<1> QED  BY <1>4, <1>5

(* The roots of what is left to do are roots already.                      *)
LEMMA RootsShrink ==
  ASSUME NEW f, NEW h, NEW k, NEW c \in CallRecord, NEW s \in Seq(CallRecord),
         Callable(f, h, c, Upcoming(s)), Sound(f, h, s),
         NEW a, NEW b, NEW p, NEW q,
         b = IF c.call = "activeContext" THEN c.value ELSE a,
         q = IF c.call = "newProcess" THEN c.value ELSE p
  PROVE  /\ RootsAt(s, b, q, k) \subseteq RootsAt(Then(c, s), a, p, k)
         /\ HeldIn(s) \subseteq RootsAt(Then(c, s), a, p, k)
         /\ c.call # "countDown" => ValuesIn(c) \subseteq RootsAt(Then(c, s), a, p, k)
<1>1. PICK t : t = Then(c, s)
  OBVIOUS
<1>2. ASSUME NEW name \in {"activeContext", "newProcess"}, NEW r, NEW r2,
             r2 = IF c.call = name THEN c.value ELSE r
      PROVE  RegisterAt(s, name, r2) \in {RegisterAt(t, name, r)} \union HeldIn(s)
  <2>1. CASE s # <<>> /\ EndingOf(s).call = name
    BY <2>1, SoundEnding DEF ValuesIn, RegisterAt
  <2>2. CASE ~(s # <<>> /\ EndingOf(s).call = name)
    <3>1. RegisterAt(t, name, r) = r2
      <4>1. CASE c.call \notin {"countDown", "countDownField"}
        BY <1>1, <1>2, <4>1, RegisterThen
      <4>2. CASE c.call \in {"countDown", "countDownField"}
        BY <1>1, <1>2, <2>2, <4>2, SoundEnding, RegisterThen DEF Upcoming, abort, Call
      <4> QED  BY <4>1, <4>2
    <3> QED  BY <2>2, <3>1 DEF RegisterAt
  <2> QED  BY <2>1, <2>2
<1> QED  BY <1>1, <1>2, HeldAtThen DEF RootsAt

(* What is reached is there, before and after each of them.                *)
LEMMA MovesKeepPresent ==
  ASSUME NEW F \in Heap, NEW R \in SUBSET Oop, NEW F2, NEW R2, Moves(F, R, F2, R2),
         ReachedFrom(F, R) \subseteq Objects(F)
  PROVE  ReachedFrom(F2, R2) \subseteq Objects(F2)
<1>1. PICK S : S = ReachedFrom(F, R)
  OBVIOUS
<1>2. Closed(F, S) /\ R \subseteq S /\ S \subseteq Oop
  BY <1>1, ReachedIsClosed DEF Closed
<1>3. CASE Keeps(F, R, F2, R2)
  BY <1>1, <1>2, <1>3, ReachedIsLeast DEF Keeps
<1>4. CASE Stores(F, R, F2, R2)
  <2>1. PICK o \in S, v \in S \union {Immediate} : \E i \in DOMAIN F[o] : F2 = Written(F, o, i, v)
    BY <1>1, <1>4 DEF Stores
  <2>2. PICK i \in DOMAIN F[o] : F2 = Written(F, o, i, v)
    BY <2>1
  <2>3. Objects(F2) = Objects(F)
    BY <1>2, <2>2, WrittenIs DEF Objects, Pointer
  <2> QED  BY <1>1, <1>2, <1>4, <2>2, <2>3, ReachedWritten DEF Stores, Pointer
<1>5. CASE Reclaims(F, R, F2, R2)
  <2>1. PICK D \in SUBSET (Objects(F) \ S) : F2 = FieldsWithout(F, D)
    BY <1>1, <1>5 DEF Reclaims
  <2> QED
    BY <1>1, <1>2, <1>5, <2>1, ReachedIsLeast DEF Objects, Reclaims, Closed, PointersOf,
       FieldsWithout
<1>6. CASE Renews(F, R, F2, R2)
  <2>1. PICK o \in Oop \ Objects(F), p \in Seq(S \union {Immediate}) :
          p # <<>> /\ F2 = [F EXCEPT ![o] = p] /\ R2 \subseteq S \union {o}
    BY <1>1, <1>6 DEF Renews
  <2>2. F2[o] = p /\ \A x \in Oop \ {o} : F2[x] = F[x]
    BY <2>1 DEF Heap
  <2>3. o \notin S
    BY <1>1, <2>1
  <2>4. Closed(F2, S \union {o})
    BY <1>2, <2>1, <2>2, <2>3 DEF Closed, PointersOf
  <2>5. ReachedFrom(F2, R2) \subseteq S \union {o}
    BY <2>1, <2>4, ReachedIsLeast
  <2> QED  BY <1>1, <1>2, <2>1, <2>2, <2>3, <2>5 DEF Objects
<1>7. CASE Exchanges(F, R, F2, R2)
  <2>1. PICK a \in S, b \in S : F2 = Swapped(F, a, b)
    BY <1>1, <1>7 DEF Exchanges
  <2>2. ASSUME NEW x \in S
        PROVE  PointersOf(F2, x) \subseteq S /\ x \in Objects(F2)
    <3>1. PICK y \in S : F2[x] = F[y]
      BY <1>2, <2>1 DEF Swapped, Heap
    <3> QED  BY <1>1, <1>2, <3>1 DEF Closed, Objects, PointersOf
  <2> QED  BY <1>1, <1>2, <1>7, <2>2, ReachedIsLeast DEF Exchanges, Closed
<1> QED  BY <1>3, <1>4, <1>5, <1>6, <1>7 DEF Moves

(* A pointer about to be put is one the program holds, in a place it holds.*)
LEMMA ViewMoves ==
  ASSUME NEW f, NEW h, NEW F \in Heap, NEW R \in SUBSET Oop, NEW R2 \in SUBSET R,
         \A o \in Oop : DOMAIN F[o] = DOMAIN f[o],
         NEW s \in Seq(CallRecord), Sound(f, h, s), HeldIn(s) \subseteq R
  PROVE  Moves(F, R, GraphAt(F, s), R2)
<1>1. CASE s # <<>> /\ EndingOf(s).call = "put"
  <2>1. PICK o, k, v : o = EndingOf(s).object /\ k = EndingOf(s).index /\ v = EndingOf(s).value
    OBVIOUS
  <2>2. EndingOf(s) \in CallRecord /\ ValuesIn(EndingOf(s)) \subseteq R /\ IsPlace(f, EndingOf(s))
    BY <1>1, SoundEnding
  <2>3. o \in Oop /\ v \in Pointer /\ k \in DOMAIN F[o] /\ o \in R /\ (v \in Oop => v \in R)
    BY <2>1, <2>2 DEF CallRecord, IsPlace, ValuesIn
  <2>4. GraphAt(F, s) = Written(F, o, k, v)
    BY <1>1, <2>1 DEF GraphAt
  <2> QED  BY <2>3, <2>4, ReachedIsClosed DEF Moves, Stores, Pointer
<1>2. CASE ~(s # <<>> /\ EndingOf(s).call = "put")
  BY <1>2, ReachedIsClosed DEF Moves, Keeps, GraphAt
<1> QED  BY <1>1, <1>2

LEMMA ReachedInGraph ==
  G!Reached = ReachedFrom(Graph, Roots) /\ G!Present = Objects(Graph)
<1>1. \A o : G!PointersOf(Graph[o]) = PointersOf(Graph, o)
  BY DEF G!PointersOf, PointersOf
<1> QED  BY <1>1 DEF G!Reached, ReachedFrom, G!Present, Objects, G!Enclosing

LEMMA MovesImplement ==
  Moves(Graph, Roots, Graph', Roots') /\ Graph \in Heap => G!GraphNext
<1> SUFFICES ASSUME Moves(Graph, Roots, Graph', Roots'), Graph \in Heap
             PROVE  G!GraphNext
  OBVIOUS
<1>1. PICK S : S = G!Reached
  OBVIOUS
<1>2. S = ReachedFrom(Graph, Roots) /\ G!Present = Objects(Graph)
  BY <1>1, ReachedInGraph
<1>3. CASE Keeps(Graph, Roots, Graph', Roots')
  BY <1>1, <1>2, <1>3 DEF Keeps, G!GraphNext, G!Hold, G!Holds
<1>4. CASE Stores(Graph, Roots, Graph', Roots')
  <2>0. PICK o \in S, v \in S \union {Immediate} : \E i \in DOMAIN Graph[o] : Graph' = Written(Graph, o, i, v)
    BY <1>2, <1>4 DEF Stores
  <2>1. PICK i \in DOMAIN Graph[o] : Graph' = Written(Graph, o, i, v)
    BY <2>0
  <2>2. Graph' = [Graph EXCEPT ![o][i] = v]
    BY <2>1 DEF Written
  <2>3. Roots' \subseteq S
    BY <1>2, <1>4 DEF Stores
  <2>4. G!Store
    BY <1>1, <2>1, <2>2, <2>3 DEF G!Store, G!Holds
  <2> QED  BY <2>4 DEF G!GraphNext
<1>5. CASE Reclaims(Graph, Roots, Graph', Roots')
  <2>1. PICK D \in SUBSET (G!Present \ S) : Graph' = FieldsWithout(Graph, D)
    BY <1>2, <1>5 DEF Reclaims
  <2>2. Roots' \subseteq S
    BY <1>2, <1>5 DEF Reclaims
  <2>3. G!Reclaim
    BY <1>1, <2>1, <2>2 DEF G!Reclaim, G!Holds, FieldsWithout
  <2> QED  BY <2>3 DEF G!GraphNext
<1>6. CASE Renews(Graph, Roots, Graph', Roots')
  <2>1. PICK o \in Oop \ G!Present, p \in Seq(S \union {Immediate}) :
          p # <<>> /\ Graph' = [Graph EXCEPT ![o] = p] /\ Roots' \subseteq S \union {o}
    BY <1>2, <1>6 DEF Renews
  <2>2. Graph'[o] = p
    BY <2>1 DEF Heap
  <2>3. G!Allocate
    BY <1>1, <2>1, <2>2 DEF G!Allocate, G!Holds
  <2> QED  BY <2>3 DEF G!GraphNext
<1>7. CASE Exchanges(Graph, Roots, Graph', Roots')
  <2>1. PICK a \in S, b \in S : Graph' = Swapped(Graph, a, b)
    BY <1>2, <1>7 DEF Exchanges
  <2>2. Graph' = [Graph EXCEPT ![a] = Graph[b], ![b] = Graph[a]]
    BY <2>1 DEF Swapped
  <2>3. Roots' \subseteq S
    BY <1>2, <1>7 DEF Exchanges
  <2>4. G!Become
    BY <1>1, <2>1, <2>2, <2>3 DEF G!Become, G!Holds
  <2> QED  BY <2>4 DEF G!GraphNext
<1> QED  BY <1>3, <1>4, <1>5, <1>6, <1>7 DEF Moves

-----------------------------------------------------------------------------
(***************************************************************************)
(* Each call leaves the counts balanced.                                   *)
(***************************************************************************)
LEMMA SoundTransfers ==
  ASSUME NEW f, NEW g, NEW h, NEW k, NEW s \in Seq(CallRecord), Sound(f, h, s),
         \A o \in HeldIn(s) : DOMAIN g[o] = DOMAIN f[o],
         \A i \in DOMAIN s : s[i].call = "countUp" => s[i].value \notin k \ h
  PROVE  Sound(g, k, s)
<1> SUFFICES ASSUME NEW i \in DOMAIN s
             PROVE  Callable(g, k, s[i], IF i < Len(s) THEN s[i + 1] ELSE abort)
  BY DEF Sound
<1>1. PICK c, d : c = s[i] /\ d = IF i < Len(s) THEN s[i + 1] ELSE abort
  OBVIOUS
<1>2. c.object \in HeldIn(s)
  <2>1. c \in CallRecord
    BY <1>1
  <2> QED  BY <1>1, <2>1 DEF HeldIn, CallRecord, ValuesIn
<1> QED  BY <1>1, <1>2 DEF Callable, IsPlace, Sound

LEMMA DisplacedIs ==
  ASSUME NEW f, NEW t, NEW x
  PROVE  Displaced(f, t, x) = IF Upcoming(t).call = "put"
                              THEN Is(f[Upcoming(t).object][Upcoming(t).index], x) ELSE 0
BY DEF Displaced, Calling, Upcoming, abort, Call

LEMMA CountedThen ==
  ASSUME NEW f, NEW n, NEW h, NEW a, NEW p, NEW c \in CallRecord, NEW s \in Seq(CallRecord),
         Counted(f, n, Then(c, s), h, a, p)
  PROVE  Tallied(f, n, h, a, p, c, s)
<1>1. ASSUME NEW x \in Oop \ {NilPointer}, n[x] # Sticky
      PROVE  n[x] + (IF c.call = "put" THEN Is(f[c.object][c.index], x) ELSE 0)
               = ReferencesFrom(f, Oop, x) + (OwedBy(c, x) + Owed(s, x)) + Is(a, x) + Is(p, x)
  BY <1>1, UpcomingThen, DisplacedIs, OwedThen DEF Counted, Balanced
<1> QED  BY <1>1, SoundThen, RiseThen DEF Counted, Attended, Tallied

(* What is owed, referred to and displaced are numbers.                    *)
LEMMA Numbers ==
  ASSUME NEW f \in Heap, NEW n \in Counts, NEW c \in CallRecord, NEW s \in Seq(CallRecord), NEW x \in Oop
  PROVE  /\ n[x] \in 0 .. Sticky /\ n[x] \in Nat
         /\ ReferencesFrom(f, Oop, x) \in Nat
         /\ OwedBy(c, x) \in Int /\ Owed(s, x) \in Int
         /\ \A v : Is(v, x) \in {0, 1}
<1>1. Oop \in SUBSET Oop
  OBVIOUS
<1>2. ReferencesFrom(f, Oop, x) \in Nat
  BY <1>1, ReferencesAre
<1>3. OwedBy(c, x) \in Int /\ Owed(s, x) \in Int
  BY OwedThen
<1> QED  BY <1>2, <1>3 DEF Counts, Is

LEMMA CountUpCounts ==
  ASSUME NEW f \in Heap, NEW n \in Counts, NEW h \in SUBSET Oop, NEW a \in Oop, NEW p \in Oop,
         NEW c \in CallRecord, NEW s \in Seq(CallRecord), c.call = "countUp",
         Counted(f, n, Then(c, s), h, a, p), c.value \in Oop => c.value \in Objects(f),
         NEW m, m = CountedUp(n, c.value)
  PROVE  /\ m \in Counts /\ Counted(f, m, s, h, a, p)
         /\ \A x \in Oop : m[x] = 0 => n[x] = 0
         /\ \A x \in Oop : n[x] = 0 => m[x] = 0 \/ x = c.value
<1>0. Tallied(f, n, h, a, p, c, s)
  BY CountedThen
<1>1. c.value \in Pointer /\ c.value \notin h /\ Upcoming(s).call # "put"
  BY <1>0 DEF Callable, CallRecord, Tallied
<1>2. ASSUME NEW x \in Oop
      PROVE  /\ m[x] = IF x = c.value /\ n[x] < Sticky THEN n[x] + 1 ELSE n[x]
             /\ m[x] \in 0 .. Sticky
  BY <1>1 DEF oneMore, CountedUp, Counts, Pointer
<1>3. m \in Counts
  <2>1. m = [x \in Oop |-> m[x]]
    BY DEF CountedUp, Counts
  <2> QED  BY <1>2, <2>1 DEF Counts
<1>4. Balanced(f, m, s, a, p)
  <2> SUFFICES ASSUME NEW x \in Oop \ {NilPointer}, m[x] # Sticky
               PROVE  m[x] + Displaced(f, s, x)
                        = ReferencesFrom(f, Oop, x) + Owed(s, x) + Is(a, x) + Is(p, x)
    BY DEF Balanced
  <2>1. Displaced(f, s, x) = 0
    BY <1>1, DisplacedIs
  <2>2. n[x] # Sticky /\ m[x] = n[x] + Is(c.value, x)
    BY <1>2 DEF Is, Counts
  <2>3. n[x] = ReferencesFrom(f, Oop, x) + ((0 - Is(c.value, x)) + Owed(s, x)) + Is(a, x) + Is(p, x)
    BY <1>0, <2>2 DEF OwedBy, Tallied, Counts
  <2>4. PICK k, r, w, i, j, l, z, d :
          /\ k = n[x] /\ r = ReferencesFrom(f, Oop, x) /\ w = Owed(s, x) /\ i = Is(a, x)
          /\ j = Is(p, x) /\ l = Is(c.value, x) /\ z = m[x] /\ d = Displaced(f, s, x)
    OBVIOUS
  <2>5. x \in Oop
    OBVIOUS
  <2>6. n[x] \in Nat /\ ReferencesFrom(f, Oop, x) \in Nat /\ Owed(s, x) \in Int
    BY <2>5, Numbers
  <2>7. Is(a, x) \in Int /\ Is(p, x) \in Int /\ Is(c.value, x) \in Int
    BY DEF Is
  <2>8. /\ k \in Int /\ r \in Int /\ w \in Int /\ i \in Int /\ j \in Int /\ l \in Int
        /\ d = 0 /\ z = k + l /\ k = r + ((0 - l) + w) + i + j
    BY ONLY <2>1, <2>2, <2>3, <2>4, <2>6, <2>7
  <2>9. z + d = r + w + i + j
    BY ONLY <2>8
  <2> QED  BY ONLY <2>4, <2>9
<1>5. Attended(f, m, s, h)
  <2>1. ASSUME NEW x \in Objects(f) \ h  PROVE m[x] > 0 \/ WillRise(s, x)
    <3>1. CASE c = countUp(x)
      BY <1>2, <3>1 DEF countUp, Call, Objects, Counts
    <3> QED  BY <1>0, <1>2, <3>1 DEF Objects, Counts, Tallied
  <2> QED  BY <1>0, <1>1, <1>2, <2>1 DEF Attended, Tallied
<1> QED  BY <1>0, <1>2, <1>3, <1>4, <1>5 DEF Counted, Tallied, Counts

LEMMA CountDownCounts ==
  ASSUME NEW f \in Heap, NEW n \in Counts, NEW h \in SUBSET Oop, NEW a \in Oop, NEW p \in Oop,
         NEW c \in CallRecord, NEW s \in Seq(CallRecord), c.call \in {"countDown", "countDownField"},
         Counted(f, n, Then(c, s), h, a, p),
         LoweredBy(f, c) = Immediate \/ n[LoweredBy(f, c)] > 1,
         NEW m, m = CountedDown(n, LoweredBy(f, c))
  PROVE  /\ m \in Counts /\ Counted(f, m, s, h, a, p)
         /\ \A x \in Oop : m[x] = 0 <=> n[x] = 0
<1>0. Tallied(f, n, h, a, p, c, s)
  BY CountedThen
<1>1. /\ Callable(f, h, c, Upcoming(s)) /\ Sound(f, h, s) /\ n[NilPointer] = Sticky
      /\ \A x \in Oop \ Objects(f) : n[x] = 0
      /\ \A x \in h : n[x] = 0
      /\ \A x \in Objects(f) \ h : n[x] > 0 \/ WillRise(s, x) \/ c = countUp(x)
  BY <1>0 DEF Tallied
<1>2. PICK v : v = LoweredBy(f, c)
  OBVIOUS
<1>3. v \in Pointer
  <2>1. CASE c.call = "countDown"
    BY <1>2, <2>1 DEF LoweredBy, CallRecord
  <2>2. CASE c.call = "countDownField"
    BY <1>1, <1>2, <2>2, PointersAre DEF LoweredBy, Callable, IsPlace, CallRecord
  <2> QED  BY <2>1, <2>2
<1>4. ASSUME NEW x \in Oop
      PROVE  /\ m[x] = IF x = v /\ n[x] < Sticky THEN n[x] - 1 ELSE n[x]
             /\ m[x] \in 0 .. Sticky /\ (m[x] = 0 <=> n[x] = 0) /\ (x = v => n[x] > 1)
  BY <1>2, <1>3 DEF oneLess, CountedDown, Counts, Pointer
<1>5. m \in Counts
  <2>1. m = [x \in Oop |-> m[x]]
    BY DEF CountedDown, Counts
  <2> QED  BY <1>4, <2>1 DEF Counts
<1>6. Balanced(f, m, s, a, p)
  <2> SUFFICES ASSUME NEW x \in Oop \ {NilPointer}, m[x] # Sticky
               PROVE  m[x] + Displaced(f, s, x)
                        = ReferencesFrom(f, Oop, x) + Owed(s, x) + Is(a, x) + Is(p, x)
    BY DEF Balanced
  <2>1. OwedBy(c, x) + Displaced(f, s, x) = Is(v, x) /\ OwedBy(c, x) \in Int /\ Displaced(f, s, x) \in Int
    <3>1. CASE c.call = "countDown"
      BY <1>1, <1>2, <3>1, DisplacedIs DEF OwedBy, LoweredBy, Callable, Is
    <3>2. CASE c.call = "countDownField"
      BY <1>1, <1>2, <3>2, DisplacedIs DEF OwedBy, LoweredBy, Callable, Is
    <3> QED  BY <3>1, <3>2
  <2>2. /\ n[x] \in Nat /\ ReferencesFrom(f, Oop, x) \in Nat /\ Owed(s, x) \in Int
        /\ Is(a, x) \in Int /\ Is(p, x) \in Int /\ Is(v, x) \in Int
    <3>1. x \in Oop
      OBVIOUS
    <3>2. n[x] \in Nat /\ ReferencesFrom(f, Oop, x) \in Nat /\ Owed(s, x) \in Int
      BY <3>1, Numbers
    <3>3. Is(a, x) \in Int /\ Is(p, x) \in Int /\ Is(v, x) \in Int
      BY DEF Is
    <3> QED  BY ONLY <3>2, <3>3
  <2>3. PICK k, r, o, w, i, j, d, l, z :
          /\ k = n[x] /\ r = ReferencesFrom(f, Oop, x) /\ o = OwedBy(c, x) /\ w = Owed(s, x)
          /\ i = Is(a, x) /\ j = Is(p, x) /\ d = Displaced(f, s, x) /\ l = Is(v, x) /\ z = m[x]
    OBVIOUS
  <2>4. /\ k \in Int /\ r \in Int /\ o \in Int /\ w \in Int /\ i \in Int /\ j \in Int
        /\ d \in Int /\ l \in Int /\ z \in Int
    BY <1>4, <2>1, <2>2, <2>3
  <2>5. k = r + (o + w) + i + j
    BY <1>0, <1>4, <2>3 DEF Is, Counts, Tallied
  <2>6. o + d = l
    BY <2>1, <2>3
  <2>7. z = k - l
    BY <1>4, <2>3 DEF Is, Counts
  <2>8. z + d = r + w + i + j
    BY ONLY <2>4, <2>5, <2>6, <2>7
  <2> QED  BY <2>3, <2>8
<1>7. Attended(f, m, s, h)
  <2>1. ASSUME NEW x \in Objects(f) \ h  PROVE m[x] > 0 \/ WillRise(s, x)
    BY <1>1, <1>4 DEF countUp, Call, Objects, Counts
  <2> QED  BY <1>1, <1>4, <2>1 DEF Attended
<1> QED  BY <1>1, <1>4, <1>5, <1>6, <1>7 DEF Counted

LEMMA RestIs ==
  ASSUME NEW s \in Seq(CallRecord), NEW a, NEW p
  PROVE  /\ RestOf(s, a, p) \in [Oop -> Int]
         /\ \A x \in Oop : RestOf(s, a, p)[x] = Owed(s, x) + Is(a, x) + Is(p, x)
BY OwingFinite DEF RestOf, Owed, Is

LEMMA WrittenWithout ==
  ASSUME NEW f \in Heap, NEW D \in SUBSET Oop, NEW o \in Oop \ D, NEW k, NEW w
  PROVE  Written(FieldsWithout(f, D), o, k, w) = FieldsWithout(Written(f, o, k, w), D)
<1>1. PICK g, u : g = FieldsWithout(f, D) /\ u = [f[o] EXCEPT ![k] = w]
  OBVIOUS
<1>2. g = [x \in Oop |-> IF x \in D THEN <<>> ELSE f[x]]
  BY <1>1 DEF FieldsWithout
<1>3. FieldsWithout([f EXCEPT ![o] = u], D)
        = [x \in Oop |-> IF x \in D THEN <<>> ELSE IF x = o THEN u ELSE f[x]]
  BY DEF FieldsWithout, Heap
<1> QED  BY <1>1, <1>2, <1>3 DEF Written

LEMMA GraphOfDown ==
  ASSUME NEW f \in Heap, NEW h, NEW c \in CallRecord, NEW s \in Seq(CallRecord),
         c.call \in {"countDown", "countDownField"},
         Callable(f, h, c, Upcoming(s)), Sound(f, h, s)
  PROVE  DownView(f, c, s)
<1>1. CASE c.call = "countDown"
  <2>1. \A g : GraphAt(g, s) = g
    BY <1>1, SoundEnding DEF GraphAt, Callable
  <2> QED  BY <1>1, <2>1, ViewThen DEF DownView, Callable
<1>2. CASE c.call = "countDownField"
  <2>1. /\ Upcoming(s).call = "put" /\ Upcoming(s).object = c.object /\ Upcoming(s).index = c.index
        /\ c.object \in Oop \ {NilPointer} /\ c.index \in DOMAIN f[c.object]
    BY <1>2 DEF Callable, IsPlace, CallRecord
  <2>2. Upcoming(s) \in CallRecord /\ EndingOf(s) = Upcoming(s) /\ s # <<>>
    BY <2>1, SoundEnding DEF Upcoming, abort, Call
  <2>3. GraphAt(f, Then(c, s)) = Written(f, c.object, c.index, Upcoming(s).value)
    BY <1>2, <2>1, ViewThen
  <2> QED  BY <1>2, <2>1, <2>2, <2>3, WrittenIs DEF DownView, GraphAt, CallRecord
<1> QED  BY <1>1, <1>2

LEMMA FreesWell ==
  ASSUME NEW f \in Heap, NEW n \in Counts, NEW h \in SUBSET Oop, NEW a \in Oop, NEW p \in Oop,
         NEW c \in CallRecord, NEW s \in Seq(CallRecord), c.call \in {"countDown", "countDownField"},
         Counted(f, n, Then(c, s), h, a, p),
         LoweredBy(f, c) \in Oop, n[LoweredBy(f, c)] = 1,
         NEW R, CanFree(f, n, c, s, a, p, R), HeldIn(s) \subseteq R,
         c.call = "countDownField" => c.object \in R
  PROVE  FreesSafely(f, n, RestOf(s, a, p), LoweredBy(f, c), IF c.call = "countDown" THEN 0 ELSE 1,
                     GraphAt(f, Then(c, s)), Freed(f, n, c))
<1>0. Tallied(f, n, h, a, p, c, s)
  BY CountedThen
<1>1. PICK v, r, F : v = LoweredBy(f, c) /\ r = RestOf(s, a, p) /\ F = GraphAt(f, Then(c, s))
  OBVIOUS
<1>2. r \in [Oop -> Int] /\ \A x \in Oop : r[x] = Owed(s, x) + Is(a, x) + Is(p, x)
  BY <1>1, RestIs
<1>3. ASSUME NEW x \in Oop \ {NilPointer}, n[x] # Sticky
      PROVE  n[x] = ReferencesFrom(f, Oop, x) + OwedBy(c, x) + r[x]
  <2>1. n[x] + 0 = ReferencesFrom(f, Oop, x) + (OwedBy(c, x) + Owed(s, x)) + Is(a, x) + Is(p, x)
    BY <1>0, <1>3 DEF Tallied
  <2>2. /\ n[x] \in Nat /\ ReferencesFrom(f, Oop, x) \in Nat /\ OwedBy(c, x) \in Int /\ Owed(s, x) \in Int
        /\ Is(a, x) \in Int /\ Is(p, x) \in Int
    <3>1. Is(a, x) \in Int /\ Is(p, x) \in Int
      BY DEF Is
    <3> QED  BY <3>1, Numbers
  <2>3. r[x] = Owed(s, x) + Is(a, x) + Is(p, x)
    BY <1>2
  <2> QED  BY ONLY <2>1, <2>2, <2>3
<1>4. n[NilPointer] = Sticky /\ Callable(f, h, c, Upcoming(s)) /\ Sound(f, h, s)
  BY <1>0 DEF Tallied
<1>5. DownView(f, c, s)
  BY <1>4, GraphOfDown
<1>6. v \in Oop /\ n[v] = 1 /\ v # NilPointer /\ n[v] # Sticky
  BY <1>1, <1>4
<1>7. CASE c.call = "countDown"
  <2>1. ASSUME NEW x \in Oop \ {NilPointer, v}, n[x] # Sticky
        PROVE  n[x] = ReferencesFrom(f, Oop, x) + r[x]
    <3>1. ReferencesFrom(f, Oop, x) \in Nat /\ r[x] \in Int
      BY <1>2, Numbers
    <3> QED  BY <1>1, <1>3, <1>7, <2>1, <3>1 DEF Is, LoweredBy, OwedBy
  <2>2. Accounts(f, n, r, v)
    BY <1>1, <1>4, <2>1 DEF Accounts, CanFree
  <2>3. F = f
    BY <1>1, <1>4, <1>5, <1>7 DEF DownView
  <2> QED  BY <1>1, <1>2, <1>3, <1>6, <1>7, <2>2, <2>3, FreeHeld DEF Freed, Is, LoweredBy, OwedBy
<1>8. CASE c.call = "countDownField"
  <2>1. PICK o, k, w : o = c.object /\ k = c.index /\ w = Upcoming(s).value
    OBVIOUS
  <2>2. o \in Oop /\ k \in DOMAIN f[o] /\ w \in Pointer /\ F = Written(f, o, k, w)
    BY <1>1, <1>4, <1>5, <1>8, <2>1 DEF DownView
  <2>3. ASSUME NEW x \in Oop \ {NilPointer}, n[x] # Sticky
        PROVE  n[x] = ReferencesFrom(f, Oop, x) + r[x]
    <3>1. ReferencesFrom(f, Oop, x) \in Nat /\ r[x] \in Int
      BY <1>2, Numbers
    <3> QED  BY <1>1, <1>3, <1>8, <2>1, <2>3, <3>1 DEF LoweredBy, OwedBy
  <2>4. Accounts(f, n, r, v)
    BY <1>1, <1>4, <2>3 DEF Accounts, CanFree
  <2>5. n[v] = ReferencesFrom(f, Oop, v) + r[v]
    BY <1>6, <2>3
  <2>6. w \in {Immediate, NilPointer} \/ r[w] >= 1
    BY <1>1, <1>8, <2>1 DEF CanFree
  <2>7. o \in ReachedFrom(Written(f, o, k, w), SureOf(n, r))
    BY <1>1, <1>8, <2>1, <2>2 DEF CanFree
  <2>8. f[o][k] = v
    BY <1>1, <1>8, <2>1 DEF LoweredBy, OwedBy
  <2>9. FreesSafely(f, n, r, v, 1, Written(f, o, k, w), FreedWith(f, n, v))
    BY <1>2, <1>6, <2>2, <2>4, <2>5, <2>6, <2>7, <2>8, FreePlace
  <2> QED  BY <1>1, <1>8, <2>2, <2>9 DEF Freed
<1> QED  BY <1>7, <1>8

LEMMA FreeCounts ==
  ASSUME NEW f \in Heap, NEW n \in Counts, NEW h \in SUBSET Oop, NEW a \in Oop, NEW p \in Oop,
         NEW c \in CallRecord, NEW s \in Seq(CallRecord), c.call \in {"countDown", "countDownField"},
         Counted(f, n, Then(c, s), h, a, p),
         LoweredBy(f, c) \in Oop, n[LoweredBy(f, c)] = 1,
         NEW R \in SUBSET Oop, CanFree(f, n, c, s, a, p, R), HeldIn(s) \subseteq R,
         c.call = "countDownField" => c.object \in R,
         NEW D, D = Freed(f, n, c)
  PROVE  FreesTo(f, n, h, a, p, c, s, R, D)
<1>0. Tallied(f, n, h, a, p, c, s)
  BY CountedThen
<1>1. PICK v, r, F, e : /\ v = LoweredBy(f, c) /\ r = RestOf(s, a, p) /\ F = GraphAt(f, Then(c, s))
                        /\ e = IF c.call = "countDown" THEN 0 ELSE 1
  OBVIOUS
<1>2. FreesSafely(f, n, r, v, e, F, D)
  BY <1>1, FreesWell
<1>3. PICK g, m : g = FieldsWithout(f, D) /\ m = CountsWithout(f, n, D)
  OBVIOUS
<1>4. /\ D \in SUBSET Oop /\ NilPointer \notin D /\ ~Undercounted(f, n, v, D)
      /\ D \cap ReachedFrom(F, SureOf(n, r)) = {} /\ m \in Counts
      /\ \A x \in D : n[x] # Sticky /\ n[x] > 0
      /\ \A x \in Oop : /\ x \in D \/ n[x] = 0 => m[x] = 0
                        /\ x \notin D /\ n[x] > 0 => m[x] > 0
                        /\ n[x] = Sticky => m[x] = Sticky
      /\ \A x \in Oop \ {NilPointer} :
           m[x] = Sticky \/ m[x] + (IF x = v THEN e ELSE 0) = ReferencesFrom(g, Oop, x) + r[x]
  BY <1>2, <1>3 DEF FreesSafely
<1>5. Callable(f, h, c, Upcoming(s)) /\ Sound(f, h, s) /\ n[NilPointer] = Sticky
  BY <1>0 DEF Tallied
<1>6. DownView(f, c, s)
  BY <1>5, GraphOfDown
<1>7. D \cap ReachedFrom(F, R) = {} /\ R \subseteq ReachedFrom(F, R)
  <2>1. SureOf(n, r) \in SUBSET Oop
    BY DEF SureOf
  <2> QED  BY <1>1, <1>4, <1>5, <1>6, <2>1, ReachedWithin, ReachedIsClosed DEF CanFree, DownView
<1>8. g \in Heap /\ \A o \in Oop : g[o] = IF o \in D THEN <<>> ELSE f[o]
  BY <1>3, <1>4, ReferencesLeft
<1>9. Attended(g, m, s, h)
  <2>1. ASSUME NEW x \in Objects(g) \ h  PROVE m[x] > 0 \/ WillRise(s, x)
    BY <1>0, <1>4, <1>8 DEF countUp, Call, Tallied, Objects
  <2> QED  BY <1>0, <1>4, <1>8, <2>1 DEF Attended, Tallied, Objects
<1>10. Balanced(g, m, s, a, p)
  <2> SUFFICES ASSUME NEW x \in Oop \ {NilPointer}, m[x] # Sticky
               PROVE  m[x] + Displaced(g, s, x)
                        = ReferencesFrom(g, Oop, x) + Owed(s, x) + Is(a, x) + Is(p, x)
    BY DEF Balanced
  <2>1. Displaced(g, s, x) = IF x = v THEN e ELSE 0
    <3>1. CASE c.call = "countDown"
      BY <1>1, <1>5, <1>6, <3>1, DisplacedIs DEF DownView
    <3>2. CASE c.call = "countDownField"
      BY <1>1, <1>5, <1>6, <1>7, <1>8, <3>2, DisplacedIs DEF Is, LoweredBy, DownView, ReachedFrom
    <3> QED  BY <3>1, <3>2
  <2>2. r[x] = Owed(s, x) + Is(a, x) + Is(p, x)
    BY <1>1, RestIs
  <2>3. Owed(s, x) \in Int /\ Is(a, x) \in Int /\ Is(p, x) \in Int /\ ReferencesFrom(g, Oop, x) \in Nat
    BY <1>8, Numbers DEF Is
  <2> QED  BY <1>4, <2>1, <2>2, <2>3
<1>11. Counted(g, m, s, h, a, p)
  BY <1>4, <1>5, <1>7, <1>8, <1>9, <1>10, SoundTransfers DEF Counted, ReachedFrom
<1>12. ASSUME NEW R2 \in SUBSET R  PROVE Moves(F, R, GraphAt(g, s), R2)
  <2>1. GraphAt(g, s) = FieldsWithout(F, D)
    <3>1. CASE c.call = "countDown"
      BY <1>1, <1>3, <1>5, <1>6, <3>1 DEF DownView
    <3>2. CASE c.call = "countDownField"
      <4>1. PICK o, k, w : o = c.object /\ k = c.index /\ w = Upcoming(s).value
        OBVIOUS
      <4>2. GraphAt(g, s) = Written(g, o, k, w) /\ F = Written(f, o, k, w) /\ o \in Oop
        BY <1>1, <1>5, <1>6, <3>2, <4>1 DEF DownView
      <4> QED  BY <1>3, <1>4, <1>7, <3>2, <4>1, <4>2, WrittenWithout
    <3> QED  BY <3>1, <3>2
  <2>2. D \in SUBSET (Objects(F) \ ReachedFrom(F, R))
    <3>1. Objects(F) = Objects(f)
      <4>1. CASE c.call = "countDown"
        BY <1>1, <1>5, <1>6, <4>1 DEF DownView
      <4>2. CASE c.call = "countDownField"
        <5>1. PICK o, k, w : o = c.object /\ k = c.index /\ w = Upcoming(s).value
          OBVIOUS
        <5> QED  BY <1>1, <1>5, <1>6, <4>2, <5>1, WrittenIs DEF Objects, DownView
      <4> QED  BY <4>1, <4>2
    <3> QED  BY <1>0, <1>4, <1>7, <3>1 DEF Tallied
  <2> QED  BY <1>7, <2>1, <2>2 DEF Moves, Reclaims
<1> QED  BY <1>1, <1>3, <1>4, <1>7, <1>8, <1>11, <1>12 DEF FreesTo, ReachedFrom

LEMMA PutCounts ==
  ASSUME NEW f \in Heap, NEW n \in Counts, NEW h \in SUBSET Oop, NEW a \in Oop, NEW p \in Oop,
         NEW c \in CallRecord, NEW s \in Seq(CallRecord), c.call = "put",
         Counted(f, n, Then(c, s), h, a, p),
         NEW g, g = Written(f, c.object, c.index, c.value)
  PROVE  /\ g \in Heap /\ Counted(g, n, s, h, a, p)
         /\ c.object \in Oop \ {NilPointer} /\ c.index \in DOMAIN f[c.object]
<1>0. Tallied(f, n, h, a, p, c, s)
  BY CountedThen
<1>1. PICK o, k, w : o = c.object /\ k = c.index /\ w = c.value
  OBVIOUS
<1>2. /\ o \in Oop \ {NilPointer} /\ k \in DOMAIN f[o] /\ w \in Pointer
      /\ Upcoming(s).call # "put"
  BY <1>0, <1>1 DEF Callable, IsPlace, CallRecord, Tallied
<1>3. /\ g \in Heap /\ \A x \in Oop : DOMAIN g[x] = DOMAIN f[x]
      /\ \A x \in Oop : g[x] = <<>> <=> f[x] = <<>>
  BY <1>1, <1>2, WrittenIs
<1>4. Balanced(g, n, s, a, p)
  <2> SUFFICES ASSUME NEW x \in Oop \ {NilPointer}, n[x] # Sticky
               PROVE  n[x] + Displaced(g, s, x)
                        = ReferencesFrom(g, Oop, x) + Owed(s, x) + Is(a, x) + Is(p, x)
    BY DEF Balanced
  <2>1. n[x] \in Nat /\ ReferencesFrom(f, Oop, x) \in Nat /\ Owed(s, x) \in Int
    BY Numbers
  <2>2. ReferencesFrom(g, Oop, x) \in Nat
    BY <1>3, Numbers
  <2>3. PICK i, r, q, z, b, e, u, v :
          /\ i = n[x] /\ r = ReferencesFrom(f, Oop, x) /\ q = ReferencesFrom(g, Oop, x)
          /\ z = Owed(s, x) /\ b = Is(a, x) /\ e = Is(p, x) /\ u = Is(w, x) /\ v = Is(f[o][k], x)
    OBVIOUS
  <2>4. /\ i \in Int /\ r \in Int /\ q \in Int /\ z \in Int /\ b \in Int /\ e \in Int
        /\ u \in Int /\ v \in Int
    BY <2>1, <2>2, <2>3 DEF Is
  <2>5. i + v = r + (u + z) + b + e
    BY <1>0, <1>1, <2>3 DEF OwedBy, Tallied
  <2>6. q + v = r + u
    BY <1>1, <1>2, <2>3, ReferencesWritten
  <2>7. i + 0 = q + z + b + e
    BY ONLY <2>4, <2>5, <2>6
  <2> QED  BY <1>2, <2>3, <2>7, DisplacedIs
<1>5. Sound(g, h, s)
  BY <1>0, <1>3, SoundTransfers DEF HeldIn, ValuesIn, Tallied
<1> QED
  BY <1>0, <1>1, <1>2, <1>3, <1>4, <1>5 DEF Counted, Tallied, Attended, countUp, Call, Objects

LEMMA RegisterCounts ==
  ASSUME NEW f \in Heap, NEW n \in Counts, NEW h \in SUBSET Oop, NEW a \in Oop, NEW p \in Oop,
         NEW c \in CallRecord, NEW s \in Seq(CallRecord), c.call \in {"activeContext", "newProcess"},
         Counted(f, n, Then(c, s), h, a, p)
  PROVE  Counted(f, n, s, h, a, p) /\ c.value \in Oop
<1>0. Tallied(f, n, h, a, p, c, s)
  BY CountedThen
<1>1. Balanced(f, n, s, a, p)
  <2> SUFFICES ASSUME NEW x \in Oop \ {NilPointer}, n[x] # Sticky
               PROVE  n[x] + Displaced(f, s, x)
                        = ReferencesFrom(f, Oop, x) + Owed(s, x) + Is(a, x) + Is(p, x)
    BY DEF Balanced
  <2>1. Owed(s, x) \in Int
    BY Numbers
  <2> QED  BY <1>0, <2>1, DisplacedIs DEF Tallied, OwedBy, Callable
<1> QED  BY <1>0, <1>1 DEF Counted, Tallied, Callable, countUp, Call, Attended

LEMMA AttemptCounts ==
  ASSUME NEW f \in Heap, NEW n \in Counts, NEW h \in SUBSET Oop, NEW a \in Oop, NEW p \in Oop,
         NEW c \in CallRecord, c.call \in {"attempt", "attemptAgain"},
         Counted(f, n, Then(c, <<>>), h, a, p),
         NEW o \in Oop \ Objects(f),
         NEW g, g = [f EXCEPT ![o] = NewFields(c.index, c.object)]
  PROVE  /\ g \in Heap /\ Counted(g, n, <<>>, h \union {o}, a, p)
         /\ NewFields(c.index, c.object) \in Seq(Pointer) /\ NewFields(c.index, c.object) # <<>>
<1>0. Tallied(f, n, h, a, p, c, <<>>)
  BY CountedThen, NothingHeld
<1>1. Callable(f, h, c, Upcoming(<<>>))
  BY <1>0 DEF Tallied
<1>2. c.index \in Nat \ {0} /\ c.object \in Oop /\ f[o] = <<>> /\ o \in Oop
  BY <1>1 DEF Callable, CallRecord, Objects
<1>3. PICK k, class, F : k = c.index /\ class = c.object /\ F = NewFields(k, class)
  OBVIOUS
<1>4. ASSUME NEW x \in Oop \ {NilPointer}
      PROVE  /\ F \in Seq(Pointer) /\ F # <<>> /\ g \in Heap
             /\ ReferencesFrom(g, Oop, x) = ReferencesFrom(f, Oop, x) + Is(class, x)
  <2>1. k \in Nat \ {0} /\ class \in Oop /\ g = WithNew(f, o, k, class)
    BY <1>2, <1>3 DEF WithNew
  <2>2. /\ NewFields(k, class) \in Seq(Pointer) /\ NewFields(k, class) # <<>>
        /\ WithNew(f, o, k, class) \in Heap
        /\ ReferencesFrom(WithNew(f, o, k, class), Oop, x)
             = ReferencesFrom(f, Oop, x) + Is(class, x)
    BY <1>2, <2>1, ReferencesNew
  <2> QED  BY <1>3, <2>1, <2>2
<1>5. F \in Seq(Pointer) /\ F # <<>> /\ g \in Heap
  BY <1>4
<1>6. Balanced(g, n, <<>>, a, p)
  <2> SUFFICES ASSUME NEW x \in Oop \ {NilPointer}, n[x] # Sticky
               PROVE  n[x] + Displaced(g, <<>>, x)
                        = ReferencesFrom(g, Oop, x) + Owed(<<>>, x) + Is(a, x) + Is(p, x)
    BY DEF Balanced
  <2>1. Displaced(g, <<>>, x) = 0
    BY DEF Displaced, Calling
  <2>2. n[x] + 0 = ReferencesFrom(f, Oop, x) + (OwedBy(c, x) + Owed(<<>>, x)) + Is(a, x) + Is(p, x)
    BY <1>0 DEF Tallied
  <2>3. OwedBy(c, x) = Is(class, x)
    BY <1>3 DEF OwedBy
  <2>4. Owed(<<>>, x) = 0
    BY OwedNothing
  <2>5. Is(a, x) \in Int /\ Is(p, x) \in Int /\ Is(class, x) \in Int
    BY DEF Is
  <2>6. n[x] \in Nat /\ ReferencesFrom(f, Oop, x) \in Nat
    BY Numbers, NothingHeld
  <2>7. ReferencesFrom(g, Oop, x) = ReferencesFrom(f, Oop, x) + Is(class, x)
    BY <1>4
  <2> QED  BY ONLY <2>1, <2>2, <2>3, <2>4, <2>5, <2>6, <2>7
<1>7. Attended(g, n, <<>>, h \union {o})
  BY <1>0, <1>2, <1>3, <1>5 DEF Attended, Tallied, Objects, Heap, countUp, Call
<1> QED  BY <1>0, <1>3, <1>5, <1>6, <1>7, NothingHeld DEF Counted, Tallied

-----------------------------------------------------------------------------
(***************************************************************************)
(* The calls as steps: what any call of a routine brings about.            *)
(***************************************************************************)
LEMMA HeldAreOops ==
  ASSUME NEW s \in Seq(CallRecord)
  PROVE  HeldIn(s) \subseteq Oop /\ HeldAt(s) \subseteq Oop
BY DEF HeldAt, HeldLater, HeldNow, ValuesIn, HeldIn

LEMMA ViewTyped ==
  ASSUME NEW f \in Heap, NEW h \in SUBSET Oop, NEW t \in Seq(CallRecord), Sound(f, h, t),
         NEW a \in Oop, NEW p \in Oop
  PROVE  /\ RootsAt(t, a, p, h) \in SUBSET Oop
         /\ GraphAt(f, t) \in Heap /\ Objects(GraphAt(f, t)) = Objects(f)
         /\ \A o \in Oop : DOMAIN GraphAt(f, t)[o] = DOMAIN f[o]
<1>1. \/ t = <<>>
      \/ /\ EndingOf(t) \in CallRecord
         /\ EndingOf(t).call = "put" => IsPlace(f, EndingOf(t))
         /\ EndingOf(t).call \in {"activeContext", "newProcess"} => EndingOf(t).value \in Oop
  BY SoundEnding
<1>2. RootsAt(t, a, p, h) \in SUBSET Oop
  BY <1>1, HeldAreOops DEF RootsAt, RegisterAt
<1>3. CASE t # <<>> /\ EndingOf(t).call = "put"
  <2>1. PICK o, k, v : o = EndingOf(t).object /\ k = EndingOf(t).index /\ v = EndingOf(t).value
    OBVIOUS
  <2> QED  BY <1>1, <1>2, <1>3, <2>1, WrittenIs DEF Objects, GraphAt, IsPlace, CallRecord
<1>4. CASE ~(t # <<>> /\ EndingOf(t).call = "put")
  BY <1>2, <1>4 DEF GraphAt
<1> QED  BY <1>3, <1>4

LEMMA ViewIs ==
  /\ Graph = GraphAt(field, todo) /\ Roots = RootsAt(todo, activeContext, newProcess, inHand)
  /\ Graph' = GraphAt(field', todo') /\ Roots' = RootsAt(todo', activeContext', newProcess', inHand')
  /\ Live = Objects(field) /\ Live' = Objects(field')
<1>1. Ending = EndingOf(todo) /\ Ending' = EndingOf(todo')
  BY DEF Ending, EndingOf
<1>2. Graph = GraphAt(field, todo) /\ Graph' = GraphAt(field', todo')
  BY <1>1 DEF Graph, EndsIn, GraphAt, Written
<1>3. HeldByCalls = HeldAt(todo) /\ HeldByCalls' = HeldAt(todo')
  BY DEF HeldAt, HeldByCalls, HeldLater, HeldNow
<1> QED  BY <1>1, <1>2, <1>3 DEF Roots, RootsAt, Live, Registers, EndsIn, RegisterAt

(* The roots and what the calls hold are objects.                          *)
LEMMA RootsLive ==
  ASSUME Always, Sound(field, inHand, todo)
  PROVE  /\ Graph \in Heap /\ Roots \in SUBSET Oop
         /\ Objects(Graph) = Objects(field) /\ \A o \in Oop : DOMAIN Graph[o] = DOMAIN field[o]
         /\ ReachedFrom(Graph, Roots) \subseteq Objects(field)
         /\ Roots \subseteq ReachedFrom(Graph, Roots) /\ Roots \subseteq Objects(field)
<1>1. /\ field \in Heap /\ todo \in Seq(CallRecord) /\ inHand \in SUBSET Oop
      /\ activeContext \in Oop /\ newProcess \in Oop
      /\ ReachedFrom(Graph, Roots) \subseteq Objects(field)
  BY DEF Always, Typed, Present, Live
<1>2. /\ Graph \in Heap /\ Roots \in SUBSET Oop /\ Objects(Graph) = Objects(field)
      /\ \A o \in Oop : DOMAIN Graph[o] = DOMAIN field[o]
  BY <1>1, ViewIs, ViewTyped
<1>3. Roots \subseteq ReachedFrom(Graph, Roots)
  BY <1>2, ReachedIsClosed
<1> QED  BY <1>1, <1>2, <1>3

(* The program sees a step of ObjectGraph, and what it reaches stays there.*)
LEMMA PresentStays ==
  ASSUME Always, Sound(field, inHand, todo), Moves(Graph, Roots, Graph', Roots'),
         Typed', Sound(field', inHand', todo')
  PROVE  Present'
<1>1. ReachedFrom(Graph', Roots') \subseteq Objects(Graph')
  BY RootsLive, MovesKeepPresent
<1>2. Objects(Graph') = Objects(field')
  <2>1. /\ field' \in Heap /\ todo' \in Seq(CallRecord) /\ inHand' \in SUBSET Oop
        /\ activeContext' \in Oop /\ newProcess' \in Oop
    BY DEF Typed
  <2> QED  BY <2>1, ViewIs, ViewTyped
<1> QED  BY <1>1, <1>2 DEF Present, Live

(* The first call, and those after it.                                     *)
LEMMA FirstCall ==
  ASSUME Always, NEW fa, NEW fn, Counted(field, count, todo, inHand, fa, fn), todo # <<>>
  PROVE  /\ Head(todo) \in CallRecord /\ Tail(todo) \in Seq(CallRecord)
         /\ todo = Then(Head(todo), Tail(todo))
         /\ Callable(field, inHand, Head(todo), Upcoming(Tail(todo)))
         /\ Sound(field, inHand, Tail(todo)) /\ Sound(field, inHand, todo)
<1>1. PICK c, s : c = Head(todo) /\ s = Tail(todo)
  OBVIOUS
<1>2. c \in CallRecord /\ s \in Seq(CallRecord) /\ Sound(field, inHand, Then(c, s))
  BY <1>1, IsThen DEF Counted, Always, Typed
<1>3. Callable(field, inHand, c, Upcoming(s)) /\ Sound(field, inHand, s)
  BY <1>2, SoundThen
<1> QED  BY <1>1, <1>3, IsThen DEF Counted, Always, Typed

(* When only counts and registers change.                                  *)
LEMMA SameFields ==
  ASSUME Always, NEW fa \in Oop, NEW fn \in Oop,
         Counted(field, count, todo, inHand, fa, fn), todo # <<>>,
         todo' = Tail(todo), inHand' = inHand, pending' = pending, field' = field,
         Head(todo).call \notin {"put", "countDownField"},
         activeContext' = IF Head(todo).call = "activeContext" THEN Head(todo).value ELSE activeContext,
         newProcess' = IF Head(todo).call = "newProcess" THEN Head(todo).value ELSE newProcess,
         activeContext' \in Oop, newProcess' \in Oop,
         count' \in Counts, Counted(field, count', Tail(todo), inHand, fa, fn)
  PROVE  Made(fa, fn)
<1>1. PICK c, s : c = Head(todo) /\ s = Tail(todo)
  OBVIOUS
<1>2. /\ c \in CallRecord /\ s \in Seq(CallRecord) /\ todo = Then(c, s)
      /\ Callable(field, inHand, c, Upcoming(s)) /\ Sound(field, inHand, s)
      /\ Sound(field, inHand, todo)
  BY <1>1, FirstCall
<1>3. Graph = field
  <2>1. c \in CallRecord /\ s \in Seq(CallRecord) /\ c.call \notin {"put", "countDownField"}
    BY <1>1, <1>2
  <2> QED  BY <1>2, <2>1, ViewThen, ViewIs DEF Callable
<1>4. Roots' \subseteq Roots /\ HeldIn(s) \subseteq Roots
  <2>1. PICK a, b, p, q : a = activeContext /\ b = activeContext' /\ p = newProcess /\ q = newProcess'
    OBVIOUS
  <2>2. /\ b = IF c.call = "activeContext" THEN c.value ELSE a
        /\ q = IF c.call = "newProcess" THEN c.value ELSE p
    BY <1>1, <2>1
  <2>3. /\ RootsAt(s, b, q, inHand) \subseteq RootsAt(Then(c, s), a, p, inHand)
        /\ HeldIn(s) \subseteq RootsAt(Then(c, s), a, p, inHand)
    BY <1>2, <2>2, RootsShrink
  <2> QED  BY <1>1, <1>2, <2>1, <2>3, ViewIs
<1>5. Moves(Graph, Roots, Graph', Roots')
  <2>1. Graph' = GraphAt(Graph, s)
    BY <1>1, <1>3, ViewIs
  <2>2. Moves(Graph, Roots, GraphAt(Graph, s), Roots')
    BY <1>2, <1>4, RootsLive, ViewMoves
  <2> QED  BY <2>1, <2>2
<1>6. Typed'
  BY <1>1, <1>2 DEF Always, Typed, Counts
<1>7. Sound(field', inHand', todo')
  BY <1>1, <1>2
<1> QED  BY <1>2, <1>5, <1>6, <1>7, PresentStays DEF Made, Always

-----------------------------------------------------------------------------
(* What the calls hold are roots.                                          *)
LEMMA FirstHolds ==
  ASSUME Always, NEW fa, NEW fn, Counted(field, count, todo, inHand, fa, fn), todo # <<>>
  PROVE  /\ HeldIn(Tail(todo)) \subseteq Roots
         /\ Head(todo).call # "countDown" => ValuesIn(Head(todo)) \subseteq Roots
         /\ Roots \in SUBSET Oop /\ Roots \subseteq Objects(field)
         /\ Graph \in Heap /\ \A o \in Oop : DOMAIN Graph[o] = DOMAIN field[o]
         /\ Roots \subseteq ReachedFrom(Graph, Roots) /\ ReachedFrom(Graph, Roots) \subseteq Objects(field)
<1>1. PICK c, s : c = Head(todo) /\ s = Tail(todo)
  OBVIOUS
<1>2. /\ c \in CallRecord /\ s \in Seq(CallRecord) /\ todo = Then(c, s)
      /\ Sound(field, inHand, todo)
  BY <1>1, FirstCall
<1>3. HeldAt(Then(c, s)) = HeldIn(s) \union (IF c.call = "countDown" THEN {} ELSE ValuesIn(c))
  BY <1>2, HeldAtThen
<1>4. HeldAt(todo) \subseteq Roots
  BY ViewIs DEF RootsAt
<1> QED  BY <1>1, <1>2, <1>3, <1>4, RootsLive

(* A call makes no roots.                                                  *)
LEMMA RootsNext ==
  ASSUME Always, NEW fa, NEW fn, Counted(field, count, todo, inHand, fa, fn), todo # <<>>,
         todo' = Tail(todo), inHand' = inHand,
         activeContext' = IF Head(todo).call = "activeContext" THEN Head(todo).value ELSE activeContext,
         newProcess' = IF Head(todo).call = "newProcess" THEN Head(todo).value ELSE newProcess
  PROVE  Roots' \subseteq Roots
<1>1. PICK c, s : c = Head(todo) /\ s = Tail(todo)
  OBVIOUS
<1>2. /\ c \in CallRecord /\ s \in Seq(CallRecord) /\ todo = Then(c, s)
      /\ Callable(field, inHand, c, Upcoming(s)) /\ Sound(field, inHand, s)
  BY <1>1, FirstCall
<1>3. PICK a, b, p, q : a = activeContext /\ b = activeContext' /\ p = newProcess /\ q = newProcess'
  OBVIOUS
<1>4. /\ b = IF c.call = "activeContext" THEN c.value ELSE a
      /\ q = IF c.call = "newProcess" THEN c.value ELSE p
  BY <1>1, <1>3
<1>5. RootsAt(s, b, q, inHand) \subseteq RootsAt(Then(c, s), a, p, inHand)
  BY <1>2, <1>4, RootsShrink
<1> QED  BY <1>1, <1>2, <1>3, <1>5, ViewIs

LEMMA MadeWhen ==
  ASSUME Always, NEW fa \in Oop, NEW fn \in Oop,
         Counted(field, count, todo, inHand, fa, fn), todo # <<>>,
         todo' = Tail(todo), inHand' = inHand, pending' = pending,
         field' \in Heap, count' \in Counts, activeContext' \in Oop, newProcess' \in Oop,
         field'[NilPointer] = field[NilPointer],
         Counted(field', count', Tail(todo), inHand, fa, fn),
         Moves(Graph, Roots, Graph', Roots')
  PROVE  Made(fa, fn)
<1>1. Tail(todo) \in Seq(CallRecord) /\ Sound(field, inHand, todo)
  BY FirstCall
<1>2. Typed'
  BY <1>1 DEF Always, Typed, Counts
<1>3. Sound(field', inHand', todo')
  BY DEF Counted
<1> QED  BY <1>1, <1>2, <1>3, PresentStays DEF Made, Always

LEMMA CountUpMakes ==
  ASSUME Always, NEW fa \in Oop, NEW fn \in Oop,
         Counted(field, count, todo, inHand, fa, fn), CountUp
  PROVE  /\ Made(fa, fn)
         /\ Zero \subseteq Zero' \union ({Head(todo).value} \intersect Oop)
<1>1. PICK c, s : c = Head(todo) /\ s = Tail(todo)
  OBVIOUS
<1>2. c \in CallRecord /\ s \in Seq(CallRecord) /\ todo = Then(c, s) /\ c.call = "countUp"
  BY <1>1, FirstCall DEF CountUp, Makes, regs
<1>3. /\ field \in Heap /\ count \in Counts /\ inHand \in SUBSET Oop
      /\ activeContext \in Oop /\ newProcess \in Oop
  BY DEF Always, Typed, Counts
<1>4. c.value \in Oop => c.value \in Objects(field)
  BY <1>1, <1>2, FirstHolds DEF ValuesIn, CountUp, Makes, regs
<1>5. PICK m : m = CountedUp(count, c.value)
  OBVIOUS
<1>6. count' = m
  BY <1>1, <1>5 DEF countedUp, CountedUp, CountUp, Makes, regs
<1>7. /\ m \in Counts /\ Counted(field, m, s, inHand, fa, fn)
      /\ \A x \in Oop : count[x] = 0 => m[x] = 0 \/ x = c.value
  BY <1>2, <1>3, <1>4, <1>5, CountUpCounts
<1> QED  BY <1>1, <1>3, <1>6, <1>7, SameFields DEF Zero, CountUp, Makes, regs

LEMMA SetRegisterMakes ==
  ASSUME Always, NEW fa \in Oop, NEW fn \in Oop,
         Counted(field, count, todo, inHand, fa, fn), SetRegister
  PROVE  Made(fa, fn)
<1>1. PICK c, s : c = Head(todo) /\ s = Tail(todo)
  OBVIOUS
<1>2. /\ c \in CallRecord /\ s \in Seq(CallRecord) /\ todo = Then(c, s)
      /\ c.call \in {"activeContext", "newProcess"}
  BY <1>1, FirstCall DEF SetRegister, Makes
<1>3. /\ field \in Heap /\ count \in Counts /\ inHand \in SUBSET Oop
      /\ activeContext \in Oop /\ newProcess \in Oop
  BY DEF Always, Typed, Counts
<1>4. Counted(field, count, s, inHand, fa, fn) /\ c.value \in Oop
  BY <1>2, <1>3, RegisterCounts
<1> QED  BY <1>1, <1>3, <1>4, SameFields DEF SetRegister, Makes

LEMMA PutMakes ==
  ASSUME Always, NEW fa \in Oop, NEW fn \in Oop,
         Counted(field, count, todo, inHand, fa, fn), Put
  PROVE  /\ Made(fa, fn)
         /\ field' = Written(field, Head(todo).object, Head(todo).index, Head(todo).value)
         /\ Head(todo).object \in Oop \ {NilPointer} /\ Head(todo).index \in DOMAIN field[Head(todo).object]
<1>1. /\ todo # <<>> /\ Head(todo).call = "put" /\ count' = count
      /\ todo' = Tail(todo) /\ activeContext' = activeContext
      /\ newProcess' = newProcess /\ inHand' = inHand /\ pending' = pending
      /\ field' = Written(field, Head(todo).object, Head(todo).index, Head(todo).value)
  BY DEF Put, Makes, regs, Written
<1>2. PICK c, s : c = Head(todo) /\ s = Tail(todo)
  OBVIOUS
<1>3. /\ c \in CallRecord /\ s \in Seq(CallRecord) /\ todo = Then(c, s) /\ c.call = "put"
      /\ Sound(field, inHand, s)
  BY <1>1, <1>2, FirstCall
<1>4. /\ field \in Heap /\ count \in Counts /\ inHand \in SUBSET Oop
      /\ activeContext \in Oop /\ newProcess \in Oop
  BY DEF Always, Typed, Counts
<1>5. PICK g : g = Written(field, c.object, c.index, c.value)
  OBVIOUS
<1>6. /\ g \in Heap /\ Counted(g, count, s, inHand, fa, fn)
      /\ c.object \in Oop \ {NilPointer} /\ c.index \in DOMAIN field[c.object]
  BY <1>3, <1>4, <1>5, PutCounts
<1>7. /\ \A p \in Oop \ {c.object} : g[p] = field[p]
      /\ \A p \in Oop : DOMAIN g[p] = DOMAIN field[p]
  BY <1>3, <1>4, <1>5, <1>6, WrittenIs DEF CallRecord
<1>8. Graph = g
  BY <1>3, <1>5, ViewThen, ViewIs
<1>9. Roots' \subseteq Roots /\ HeldIn(s) \subseteq Roots /\ Roots \in SUBSET Oop
  BY <1>1, <1>2, RootsNext, FirstHolds
<1>10. Moves(Graph, Roots, Graph', Roots')
  <2>1. Graph' = GraphAt(g, s)
    BY <1>1, <1>2, <1>5, ViewIs
  <2> QED  BY <1>3, <1>6, <1>7, <1>8, <1>9, <2>1, ViewMoves
<1> QED  BY <1>1, <1>2, <1>4, <1>5, <1>6, <1>7, <1>10, MadeWhen

LEMMA LoweredIs ==
  ASSUME Always, NEW fa, NEW fn, Counted(field, count, todo, inHand, fa, fn), Downs
  PROVE  /\ Lowered = LoweredBy(field, Head(todo)) /\ Lowered \in Pointer
         /\ Head(todo).call = "countDownField" =>
              /\ Head(todo).object \in Oop \ {NilPointer}
              /\ Head(todo).index \in DOMAIN field[Head(todo).object]
<1>1. PICK c, s : c = Head(todo) /\ s = Tail(todo)
  OBVIOUS
<1>2. /\ c \in CallRecord /\ c.call \in {"countDown", "countDownField"}
      /\ Callable(field, inHand, c, Upcoming(s))
  BY <1>1, FirstCall DEF Downs
<1>3. LoweredBy(field, c) \in Pointer
  <2>1. ASSUME c.call = "countDownField"  PROVE field[c.object][c.index] \in Pointer
    BY <1>2, <2>1, PointersAre DEF Always, Typed, Callable, IsPlace, CallRecord
  <2> QED  BY <1>2, <2>1 DEF LoweredBy, CallRecord
<1> QED  BY <1>1, <1>2, <1>3 DEF Lowered, LoweredBy, Callable, IsPlace, CallRecord

(* A count that is not the last goes down, and nothing else happens.       *)
LEMMA LowerMakes ==
  ASSUME Always, NEW fa \in Oop, NEW fn \in Oop,
         Counted(field, count, todo, inHand, fa, fn), Downs, UNCHANGED <<regs, inHand, pending>>,
         todo' = Tail(todo), field' = field, count' = CountedDown(count, Lowered),
         Lowered = Immediate \/ count[Lowered] > 1
  PROVE  Made(fa, fn)
<1>1. PICK c, s : c = Head(todo) /\ s = Tail(todo)
  OBVIOUS
<1>2. /\ c \in CallRecord /\ s \in Seq(CallRecord) /\ todo = Then(c, s) /\ todo # <<>>
      /\ c.call \in {"countDown", "countDownField"}
      /\ Callable(field, inHand, c, Upcoming(s)) /\ Sound(field, inHand, s)
  BY <1>1, FirstCall DEF Downs
<1>3. /\ field \in Heap /\ count \in Counts /\ inHand \in SUBSET Oop
      /\ activeContext \in Oop /\ newProcess \in Oop
      /\ activeContext' = activeContext /\ newProcess' = newProcess
      /\ inHand' = inHand /\ pending' = pending
  BY DEF Always, Typed, Counts, regs
<1>4. Counted(field, count, Then(c, s), inHand, fa, fn)
  BY <1>2
<1>5. PICK m : m = CountedDown(count, LoweredBy(field, c))
  OBVIOUS
<1>6. LoweredBy(field, c) = Immediate \/ count[LoweredBy(field, c)] > 1
  BY <1>1, LoweredIs
<1>7. m \in Counts /\ Counted(field, m, s, inHand, fa, fn)
  BY <1>2, <1>3, <1>4, <1>5, <1>6, CountDownCounts
<1>8. count' = m
  BY <1>1, <1>5, LoweredIs
<1>9. GraphAt(field, s) = GraphAt(field, Then(c, s))
  BY <1>2, <1>3, GraphOfDown DEF DownView
<1>10. Graph' = Graph
  BY <1>1, <1>2, <1>9, ViewIs
<1>11. Roots' \subseteq Roots /\ Roots \subseteq ReachedFrom(Graph, Roots)
  BY <1>1, <1>2, <1>3, RootsNext, FirstHolds
<1> QED  BY <1>1, <1>2, <1>3, <1>7, <1>8, <1>10, <1>11, MadeWhen DEF Moves, Keeps

LEMMA FreeMakes ==
  ASSUME Always, NEW fa \in Oop, NEW fn \in Oop,
         Counted(field, count, todo, inHand, fa, fn), Downs, FreesRightly(fa, fn),
         Lowered # Immediate, count[Lowered] = 1,
         NEW D, D = FreedWith(field, count, Lowered)
  PROVE  /\ ~Undercounted(field, count, Lowered, D)
         /\ UNCHANGED <<regs, inHand, pending>> /\ todo' = Tail(todo)
              /\ field' = FieldsWithout(field, D) /\ count' = CountsWithout(field, count, D)
            => Made(fa, fn) /\ Spares
<1>1. PICK c, s : c = Head(todo) /\ s = Tail(todo)
  OBVIOUS
<1>2. /\ c \in CallRecord /\ s \in Seq(CallRecord) /\ todo = Then(c, s) /\ todo # <<>>
      /\ c.call \in {"countDown", "countDownField"}
  BY <1>1, FirstCall DEF Downs
<1>3. /\ field \in Heap /\ count \in Counts /\ inHand \in SUBSET Oop
      /\ activeContext \in Oop /\ newProcess \in Oop
  BY DEF Always, Typed, Counts
<1>4. Lowered = LoweredBy(field, c) /\ Lowered \in Oop
  BY <1>1, LoweredIs DEF Pointer
<1>5. /\ HeldIn(s) \subseteq Roots /\ Roots \in SUBSET Oop
      /\ c.call = "countDownField" => c.object \in Roots
      /\ NilPointer \in ReachedFrom(Graph, Roots)
  <2>1. NilPointer \in Roots
    BY DEF Roots
  <2> QED  BY <1>1, <1>2, <2>1, FirstHolds DEF CallRecord, ValuesIn
<1>6. CanFree(field, count, c, s, fa, fn, Roots)
  <2>1. count[LoweredBy(field, c)] <= 1 /\ LoweredBy(field, c) # Immediate
    BY <1>4
  <2> QED  BY <1>1, <1>2, <2>1 DEF FreesRightly
<1>7. FreesTo(field, count, inHand, fa, fn, c, s, Roots, D)
  BY <1>2, <1>3, <1>4, <1>5, <1>6, FreeCounts DEF Freed
<1>8. ASSUME UNCHANGED <<regs, inHand, pending>>, todo' = Tail(todo),
              field' = FieldsWithout(field, D), count' = CountsWithout(field, count, D)
       PROVE  Made(fa, fn) /\ Spares
  <2>1. /\ FieldsWithout(field, D) \in Heap /\ CountsWithout(field, count, D) \in Counts
        /\ Counted(FieldsWithout(field, D), CountsWithout(field, count, D), s, inHand, fa, fn)
        /\ \A x \in ReachedFrom(GraphAt(field, Then(c, s)), Roots) : FieldsWithout(field, D)[x] = field[x]
        /\ Moves(GraphAt(field, Then(c, s)), Roots, GraphAt(FieldsWithout(field, D), s), Roots')
    BY <1>1, <1>2, <1>7, <1>8, RootsNext DEF FreesTo, regs
  <2>2. Spares
    BY <1>2, <1>8, <2>1, ViewIs DEF Spares
  <2>3. field'[NilPointer] = field[NilPointer]
    BY <1>5, <2>2 DEF Spares
  <2>4. Moves(Graph, Roots, Graph', Roots')
    <3> QED  BY <1>1, <1>2, <1>8, <2>1, ViewIs
  <2>5. Made(fa, fn)
    BY <1>1, <1>2, <1>3, <1>8, <2>1, <2>3, <2>4, MadeWhen DEF regs
  <2> QED  BY <2>2, <2>5
<1> QED  BY <1>4, <1>7, <1>8 DEF FreesTo

LEMMA CountDownMakes ==
  ASSUME Always, NEW fa \in Oop, NEW fn \in Oop,
         Counted(field, count, todo, inHand, fa, fn), FreesRightly(fa, fn), CountDown
  PROVE  /\ Made(fa, fn) /\ Spares
         /\ activeContext' = activeContext /\ newProcess' = newProcess
<1>1. Downs /\ CountDownOf(Lowered)
  BY DEF CountDown, Makes, Downs
<1>2. CASE /\ field' = field /\ count' = CountedDown(count, Lowered)
           /\ Lowered = Immediate \/ count[Lowered] > 1
  BY <1>1, <1>2, LowerMakes DEF Spares, CountDownOf, regs
<1>3. PICK D : D = FreedWith(field, count, Lowered)
  OBVIOUS
<1>4. CASE /\ Lowered # Immediate /\ count[Lowered] = 1
           /\ field' = FieldsWithout(field, D) /\ count' = CountsWithout(field, count, D)
  BY <1>1, <1>3, <1>4, FreeMakes DEF CountDownOf, regs
<1> QED  BY <1>1, <1>2, <1>3, <1>4 DEF CountedDown, CountDownOf, regs

(* A new object is what the program is given.                              *)
LEMMA AttemptMakes ==
  ASSUME Always, NEW fa \in Oop, NEW fn \in Oop,
         Counted(field, count, todo, inHand, fa, fn), Tail(todo) = <<>>, AttemptToAllocate
  PROVE  /\ todo' = <<>> /\ Always' /\ Counted(field', count', todo', inHand', fa, fn)
         /\ Moves(Graph, Roots, Graph', Roots')
         /\ activeContext' = activeContext /\ newProcess' = newProcess
<1>1. /\ todo # <<>> /\ Head(todo).call \in {"attempt", "attemptAgain"} /\ count' = count
      /\ todo' = <<>> /\ activeContext' = activeContext
      /\ newProcess' = newProcess /\ pending' = pending
  BY DEF AttemptToAllocate, Makes, regs
<1>2. PICK o \in Oop \ Live :
        /\ field' = [field EXCEPT ![o] = NewFields(Head(todo).index, Head(todo).object)]
        /\ inHand' = inHand \union {o}
  BY DEF AttemptToAllocate, NewFields
<1>3. PICK c : c = Head(todo)
  OBVIOUS
<1>4. /\ c \in CallRecord /\ <<>> \in Seq(CallRecord) /\ todo = Then(c, <<>>)
      /\ c.call \in {"attempt", "attemptAgain"} /\ Callable(field, inHand, c, Upcoming(<<>>))
  BY <1>1, <1>3, FirstCall
<1>5. /\ field \in Heap /\ count \in Counts /\ inHand \in SUBSET Oop
      /\ activeContext \in Oop /\ newProcess \in Oop
      /\ field[NilPointer] = <<SmalltalkPointer>>
  BY DEF Always, Typed, Counts
<1>6. Counted(field, count, Then(c, <<>>), inHand, fa, fn)
  BY <1>4
<1>7. PICK g : g = [field EXCEPT ![o] = NewFields(c.index, c.object)]
  OBVIOUS
<1>8. o \in Oop \ Objects(field)
  BY DEF Live
<1>9. /\ g \in Heap /\ Counted(g, count, <<>>, inHand \union {o}, fa, fn)
      /\ NewFields(c.index, c.object) \in Seq(Pointer) /\ NewFields(c.index, c.object) # <<>>
  BY <1>4, <1>5, <1>6, <1>7, <1>8, AttemptCounts
<1>10. field' = g
  BY <1>2, <1>3, <1>7
<1>11. Graph = field
  <2>1. c.call \notin {"put", "countDown", "countDownField"}
    BY <1>4
  <2>2. GraphAt(field, Then(c, <<>>)) = field
    BY <1>4, <2>1, ViewThen
  <2> QED  BY <1>4, <2>2, ViewIs
<1>12. PICK S : S = ReachedFrom(Graph, Roots)
  OBVIOUS
<1>13. c.object \in S /\ NilPointer \in S /\ Roots \subseteq S /\ S \subseteq Oop
  BY <1>1, <1>3, <1>4, <1>12, FirstHolds DEF ReachedFrom, Roots, CallRecord, ValuesIn
<1>14. NewFields(c.index, c.object) \in Seq(S \union {Immediate})
  BY <1>4, <1>13 DEF NewFields, CallRecord
<1>15. Graph' = g
  BY <1>1, <1>10, ViewIs, ViewIdle
<1>16. Roots' \subseteq S \union {o}
  <2>1. c.call \notin {"activeContext", "newProcess", "countDown", "countDownField"}
    BY <1>4
  <2>2. RegisterAt(Then(c, <<>>), "activeContext", activeContext) = activeContext
    BY <1>4, <2>1, RegisterThen
  <2>3. RegisterAt(Then(c, <<>>), "newProcess", newProcess) = newProcess
    BY <1>4, <2>1, RegisterThen
  <2>4. {NilPointer, SmalltalkPointer, activeContext, newProcess} \union inHand \subseteq Roots
    BY <1>4, <2>2, <2>3, ViewIs DEF RootsAt
  <2> QED  BY <1>1, <1>2, <1>13, <2>4, ViewIs, ViewIdle
<1>17. Moves(Graph, Roots, Graph', Roots')
  <2>1. o \in Oop \ Objects(Graph)
    BY <1>8, <1>11
  <2>2. Graph' = [Graph EXCEPT ![o] = NewFields(c.index, c.object)]
    BY <1>7, <1>11, <1>15
  <2>3. Renews(Graph, Roots, Graph', Roots')
    BY <1>9, <1>12, <1>14, <1>16, <2>1, <2>2 DEF Renews
  <2> QED  BY <2>3 DEF Moves
<1>18. Typed'
  BY <1>1, <1>2, <1>5, <1>9, <1>10, NothingHeld DEF Typed, Counts, Always
<1>19. field'[NilPointer] = <<SmalltalkPointer>>
  <2>1. o # NilPointer
    <3>1. field[NilPointer] # <<>>
      BY <1>5
    <3> QED  BY <1>8, <3>1 DEF Objects
  <2> QED  BY <1>2, <1>5, <2>1 DEF Heap
<1>20. Sound(field', inHand', todo') /\ Sound(field, inHand, todo)
  BY <1>1, NothingHeld DEF Counted
<1>21. Present'
  BY <1>17, <1>18, <1>20, PresentStays
<1> QED  BY <1>1, <1>2, <1>9, <1>10, <1>17, <1>18, <1>19, <1>21 DEF Always

-----------------------------------------------------------------------------
(***************************************************************************)
(* A count down that frees frees what it should: what the program holds is *)
(* reached from objects that are counted in another way.                   *)
(***************************************************************************)
LEMMA CountingCalls ==
  ASSUME NEW v \in Pointer
  PROVE  /\ countUp(v) \in CallRecord /\ countUp(v).call = "countUp" /\ countUp(v).value = v
         /\ countUp(v).object = NilPointer
         /\ countDown(v) \in CallRecord /\ countDown(v).call = "countDown" /\ countDown(v).value = v
         /\ countDown(v).object = NilPointer
         /\ \A x : OwedBy(countUp(v), x) = 0 - Is(v, x) /\ OwedBy(countDown(v), x) = Is(v, x)
BY DEF OwedBy, countDown, Call, CallRecord, CallNames, countUp

LEMMA PlaceCalls ==
  ASSUME NEW o \in Oop, NEW i \in Nat, NEW v \in Pointer
  PROVE  /\ put(o, i, v) \in CallRecord /\ put(o, i, v).call = "put" /\ put(o, i, v).object = o
         /\ put(o, i, v).index = i /\ put(o, i, v).value = v
         /\ countDownField(o, i) \in CallRecord /\ countDownField(o, i).call = "countDownField"
         /\ countDownField(o, i).object = o /\ countDownField(o, i).index = i
         /\ countDownField(o, i).value = Immediate
         /\ \A x : OwedBy(put(o, i, v), x) = Is(v, x) /\ OwedBy(countDownField(o, i), x) = 0
<1>1. /\ put(o, i, v) \in CallRecord /\ put(o, i, v).call = "put" /\ put(o, i, v).object = o
      /\ put(o, i, v).index = i /\ put(o, i, v).value = v
  BY DEF put, Call, CallRecord, CallNames
<1> QED  BY <1>1 DEF OwedBy, countDownField, Call, CallRecord, CallNames, Pointer

LEMMA RegisterCalls ==
  ASSUME NEW v \in Oop
  PROVE  /\ setActiveContext(v) \in CallRecord /\ setActiveContext(v).call = "activeContext"
         /\ setActiveContext(v).value = v /\ setActiveContext(v).object = NilPointer
         /\ setNewProcess(v) \in CallRecord /\ setNewProcess(v).call = "newProcess"
         /\ setNewProcess(v).value = v /\ setNewProcess(v).object = NilPointer
         /\ \A x : OwedBy(setActiveContext(v), x) = 0 /\ OwedBy(setNewProcess(v), x) = 0
<1>0. v \in Pointer
  BY DEF Pointer
<1> QED  BY <1>0 DEF OwedBy, setNewProcess, Call, CallRecord, CallNames, setActiveContext

LEMMA AttemptCalls ==
  ASSUME NEW n \in Nat, NEW o \in Oop
  PROVE  /\ attempt(n, o) \in CallRecord /\ attempt(n, o).call = "attempt"
         /\ attempt(n, o).object = o /\ attempt(n, o).index = n /\ attempt(n, o).value = Immediate
         /\ attemptAgain(attempt(n, o)) \in CallRecord
         /\ attemptAgain(attempt(n, o)).call = "attemptAgain"
         /\ attemptAgain(attempt(n, o)).object = o /\ attemptAgain(attempt(n, o)).index = n
         /\ attemptAgain(attempt(n, o)).value = Immediate
         /\ \A x : OwedBy(attempt(n, o), x) = Is(o, x) /\ OwedBy(attemptAgain(attempt(n, o)), x) = Is(o, x)
<1>0. Immediate \in Pointer
  BY DEF Pointer
<1>1. PICK a : a = attempt(n, o)
  OBVIOUS
<1> QED  BY <1>0, <1>1 DEF OwedBy, attempt, attemptAgain, Call, CallRecord, CallNames

LEMMA CollectionCalls ==
  /\ zeroReferenceCounts \in CallRecord /\ zeroReferenceCounts.call = "zero"
  /\ zeroReferenceCounts.value = Immediate /\ zeroReferenceCounts.object = NilPointer
  /\ rectify \in CallRecord /\ rectify.call = "rectify"
  /\ rectify.value = Immediate /\ rectify.object = NilPointer
  /\ abort \in CallRecord /\ abort.call = "abort"
  /\ abort.value = Immediate /\ abort.object = NilPointer
  /\ \A v \in Oop : /\ addRoot(v) \in CallRecord /\ addRoot(v).call = "mark"
                    /\ addRoot(v).value = v /\ addRoot(v).object = NilPointer
<1>0. Immediate \in Pointer /\ Oop \subseteq Pointer
  BY DEF Pointer
<1>1. ASSUME NEW v \in Oop
      PROVE  /\ addRoot(v) \in CallRecord /\ addRoot(v).call = "mark"
             /\ addRoot(v).value = v /\ addRoot(v).object = NilPointer
  BY <1>0 DEF addRoot, Call, CallRecord, CallNames
<1> QED  BY <1>0, <1>1 DEF abort, Call, CallRecord, CallNames, rectify, zeroReferenceCounts

LEMMA AtCall ==
  ASSUME NEW c \in CallRecord, NEW s \in Seq(CallRecord), todo = Then(c, s)
  PROVE  todo # <<>> /\ Head(todo) = c /\ Tail(todo) = s
BY ThenIs

LEMMA SureIs ==
  ASSUME Always, NEW fa \in Oop, NEW fn \in Oop, Counted(field, count, todo, inHand, fa, fn),
         NEW c \in CallRecord, NEW s \in Seq(CallRecord), todo = Then(c, s),
         c.call \in {"countDown", "countDownField"}
  PROVE  /\ Sure(c, s, fa, fn) \subseteq Oop
         /\ NilPointer \in Sure(c, s, fa, fn) /\ SmalltalkPointer \in Sure(c, s, fa, fn)
         /\ inHand \subseteq Sure(c, s, fa, fn) /\ Zero \subseteq Sure(c, s, fa, fn)
         /\ \A x \in Oop : Owed(s, x) + Is(fa, x) + Is(fn, x) >= 1 => x \in Sure(c, s, fa, fn)
         /\ \A x \in Sure(c, s, fa, fn) :
              /\ c.call = "countDown" => PointersOf(field, x) \subseteq Sure(c, s, fa, fn)
              /\ c.call = "countDownField" /\ x # c.object =>
                   PointersOf(field, x) \subseteq Sure(c, s, fa, fn)
<1>1. PICK F, r, S : /\ F = GraphAt(field, Then(c, s)) /\ r = RestOf(s, fa, fn)
                     /\ S = Sure(c, s, fa, fn)
  OBVIOUS
<1>2. /\ field \in Heap /\ count \in Counts /\ inHand \in SUBSET Oop
      /\ field[NilPointer] = <<SmalltalkPointer>>
  BY DEF Always, Typed, Counts
<1>3. /\ Callable(field, inHand, c, Upcoming(s)) /\ Sound(field, inHand, s)
      /\ Sound(field, inHand, todo)
  <2>1. Head(todo) = c /\ Tail(todo) = s /\ todo # <<>>
    BY AtCall
  <2> QED  BY <2>1, FirstCall
<1>4. DownView(field, c, s)
  BY <1>2, <1>3, GraphOfDown
<1>5. /\ F \in Heap
      /\ c.call = "countDown" => F = field
      /\ c.call = "countDownField" => c.object # NilPointer /\ \A x \in Oop \ {c.object} : F[x] = field[x]
  <2>1. ASSUME c.call = "countDownField"
        PROVE  c.object # NilPointer /\ \A x \in Oop \ {c.object} : F[x] = field[x]
    <3>1. PICK o, k, w : o = c.object /\ k = c.index /\ w = Upcoming(s).value
      OBVIOUS
    <3> QED  BY <1>1, <1>2, <1>4, <2>1, <3>1, WrittenIs DEF DownView
  <2> QED  BY <1>1, <1>4, <2>1 DEF DownView
<1>6. Closed(F, S) /\ SureOf(count, r) \subseteq S
  BY <1>1, <1>5, ReachedIsClosed DEF Sure, SureOf
<1>7. \A x \in S :
        /\ c.call = "countDown" => PointersOf(field, x) \subseteq S
        /\ c.call = "countDownField" /\ x # c.object => PointersOf(field, x) \subseteq S
  <2>1. ASSUME NEW x \in S, F[x] = field[x]  PROVE PointersOf(field, x) \subseteq S
    BY <1>6, <2>1 DEF Closed, PointersOf
  <2> QED  BY <1>5, <1>6, <2>1 DEF Closed
<1> QED
  BY <1>1, <1>2, <1>5, <1>6, <1>7, PointersAre, RestIs DEF Closed, Counted, Attended, Zero, SureOf

LEMMA FreesWhen ==
  ASSUME Always, NEW fa \in Oop, NEW fn \in Oop, Counted(field, count, todo, inHand, fa, fn),
         NEW c \in CallRecord, NEW s \in Seq(CallRecord), todo = Then(c, s),
         c.call \in {"countDown", "countDownField"},
         \A x \in Oop \ {NilPointer} : Owed(s, x) + Is(fa, x) + Is(fn, x) >= 0,
         c.call = "countDownField" =>
           /\ c.object \in Sure(c, s, fa, fn) /\ c.value = Immediate
           /\ \/ Upcoming(s).value \in {Immediate, NilPointer}
              \/ /\ Upcoming(s).value \in Oop
                 /\ Owed(s, Upcoming(s).value) + Is(fa, Upcoming(s).value)
                      + Is(fn, Upcoming(s).value) >= 1,
         HeldIn(s) \subseteq Sure(c, s, fa, fn),
         (IF Upcoming(s).call = "activeContext" THEN Upcoming(s).value ELSE activeContext)
           \in Sure(c, s, fa, fn),
         (IF Upcoming(s).call = "newProcess" THEN Upcoming(s).value ELSE newProcess)
           \in Sure(c, s, fa, fn)
  PROVE  FreesRightly(fa, fn)
<1>1. PICK F, r, S : /\ F = GraphAt(field, Then(c, s)) /\ r = RestOf(s, fa, fn)
                     /\ S = Sure(c, s, fa, fn)
  OBVIOUS
<1>2. Head(todo) = c /\ Tail(todo) = s
  BY AtCall
<1>3. Callable(field, inHand, c, Upcoming(s))
  <2>1. todo # <<>>
    BY AtCall
  <2> QED  BY <1>2, <2>1, FirstCall
<1>4. HeldAt(Then(c, s)) \subseteq S
  BY <1>1, HeldAtThen DEF ValuesIn
<1>5. ASSUME NEW name \in {"activeContext", "newProcess"}, NEW x,
             (IF Upcoming(s).call = name THEN Upcoming(s).value ELSE x) \in S
      PROVE  RegisterAt(Then(c, s), name, x) \in S
  BY <1>3, <1>5, RegisterThen DEF Callable
<1>6. CanFree(field, count, c, s, fa, fn, Roots)
  <2>1. \A x \in Oop \ {NilPointer} : r[x] >= 0
    BY <1>1, RestIs
  <2>2. c.call = "countDownField" => Upcoming(s).value \in {Immediate, NilPointer} \/ r[Upcoming(s).value] >= 1
    BY <1>1, RestIs
  <2>3. Roots \subseteq ReachedFrom(F, SureOf(count, r))
    BY <1>1, <1>4, <1>5, SureIs, ViewIs DEF Sure, RootsAt
  <2> QED  BY <1>1, <2>1, <2>2, <2>3 DEF CanFree
<1> QED  BY <1>2, <1>6 DEF FreesRightly

(* No count down frees that finds another reference.                       *)
LEMMA FreesNothing ==
  ASSUME Always, NEW fa \in Oop, NEW fn \in Oop, Counted(field, count, todo, inHand, fa, fn),
         NEW c \in CallRecord, NEW s \in Seq(CallRecord), todo = Then(c, s),
         c.call \in {"countDown", "countDownField"},
         LoweredBy(field, c) \in Oop =>
           ReferencesFrom(field, Oop, LoweredBy(field, c))
             + (OwedBy(c, LoweredBy(field, c)) + Owed(s, LoweredBy(field, c)))
             + Is(fa, LoweredBy(field, c)) + Is(fn, LoweredBy(field, c)) >= 2
  PROVE  FreesRightly(fa, fn)
<1>1. PICK v : v = LoweredBy(field, c)
  OBVIOUS
<1>2. Tallied(field, count, inHand, fa, fn, c, s)
  BY CountedThen
<1>3. v # Immediate => ~(count[v] <= 1)
  <2>1. CASE v = NilPointer
    BY <1>2, <2>1 DEF Tallied
  <2>2. CASE v \in Oop \ {NilPointer} /\ count[v] # Sticky
    BY <1>1, <1>2, <2>2 DEF Always, Typed, Tallied
  <2>3. CASE v \in Oop /\ count[v] = Sticky
    BY <2>3
  <2> QED  BY <1>1, <2>1, <2>2, <2>3, AtCall, LoweredIs DEF Pointer, Downs
<1> QED  BY <1>1, <1>3, AtCall DEF FreesRightly

LEMMA StepMakes ==
  ASSUME Always, NEW fa \in Oop, NEW fn \in Oop, Counted(field, count, todo, inHand, fa, fn),
         FreesRightly(fa, fn), Advances
  PROVE  Made(fa, fn) /\ Went(Head(todo)) /\ todo # <<>>
<1>1. CASE CountUp
  BY <1>1, CountUpMakes DEF Went, CountUp, Makes, regs
<1>2. CASE CountDown
  BY <1>2, CountDownMakes DEF Went, CountDown, Makes
<1>3. CASE Put
  <2>1. /\ todo # <<>> /\ Head(todo).call = "put" /\ count' = count
        /\ activeContext' = activeContext /\ newProcess' = newProcess
    BY <1>3 DEF Put, Makes, regs
  <2> QED  BY <1>3, <2>1, PutMakes DEF Went, Zero
<1>4. CASE SetRegister
  BY <1>4, SetRegisterMakes DEF Went, Zero, SetRegister, Makes
<1> QED  BY <1>1, <1>2, <1>3, <1>4 DEF Advances

LEMMA Prepend ==
  ASSUME NEW c \in CallRecord, NEW s \in Seq(CallRecord)
  PROVE  /\ Then(c, s) \in Seq(CallRecord) /\ Then(c, s) # <<>> /\ Upcoming(Then(c, s)) = c
         /\ \A x : Owed(Then(c, s), x) = OwedBy(c, x) + Owed(s, x) /\ Owed(s, x) \in Int
         /\ HeldIn(Then(c, s)) = ({c.value, c.object} \intersect Oop) \union HeldIn(s)
<1>1. Then(c, s) \in Seq(CallRecord) /\ Then(c, s) # <<>> /\ Upcoming(Then(c, s)) = c
  BY ThenIs, UpcomingThen
<1> QED  BY <1>1, OwedThen, HeldThen DEF ValuesIn

LEMMA IsOne ==
  \A v, x : Is(v, x) \in {0, 1} /\ Is(v, v) = 1 /\ (v # x => Is(v, x) = 0)
BY DEF Is

LEMMA OwedNumber ==
  ASSUME NEW s \in Seq(CallRecord)
  PROVE  \A x : Owed(s, x) \in Int
BY CollectionCalls, OwedThen

LEMMA UpBefore ==
  ASSUME NEW v \in Pointer, NEW s \in Seq(CallRecord)
  PROVE  /\ Then(countUp(v), s) \in Seq(CallRecord) /\ Then(countUp(v), s) # <<>>
         /\ Upcoming(Then(countUp(v), s)) = countUp(v)
         /\ \A x : Owed(Then(countUp(v), s), x) = Owed(s, x) - Is(v, x)
         /\ HeldIn(Then(countUp(v), s)) = ({v, NilPointer} \intersect Oop) \union HeldIn(s)
<1>1. PICK c : c = countUp(v)
  OBVIOUS
<1>2. \A x : OwedBy(c, x) + Owed(s, x) = Owed(s, x) - Is(v, x)
  <2> SUFFICES ASSUME NEW x  PROVE OwedBy(c, x) + Owed(s, x) = Owed(s, x) - Is(v, x)
    OBVIOUS
  <2> QED  BY <1>1, Prepend, CountingCalls DEF Is, Pointer
<1> QED  BY <1>1, <1>2, Prepend, CountingCalls DEF Pointer

LEMMA DownBefore ==
  ASSUME NEW v \in Pointer, NEW s \in Seq(CallRecord)
  PROVE  /\ Then(countDown(v), s) \in Seq(CallRecord) /\ Then(countDown(v), s) # <<>>
         /\ Upcoming(Then(countDown(v), s)) = countDown(v)
         /\ \A x : Owed(Then(countDown(v), s), x) = Owed(s, x) + Is(v, x)
         /\ HeldIn(Then(countDown(v), s)) = ({v, NilPointer} \intersect Oop) \union HeldIn(s)
<1>1. PICK c : c = countDown(v)
  OBVIOUS
<1>2. /\ Then(c, s) \in Seq(CallRecord) /\ Then(c, s) # <<>> /\ Upcoming(Then(c, s)) = c
      /\ \A x : Owed(Then(c, s), x) = OwedBy(c, x) + Owed(s, x) /\ Owed(s, x) \in Int
      /\ HeldIn(Then(c, s)) = ({c.value, c.object} \intersect Oop) \union HeldIn(s)
  BY <1>1, CountingCalls, Prepend DEF Pointer
<1>3. \A x : OwedBy(c, x) + Owed(s, x) = Owed(s, x) + Is(v, x)
  <2> SUFFICES ASSUME NEW x  PROVE OwedBy(c, x) + Owed(s, x) = Owed(s, x) + Is(v, x)
    OBVIOUS
  <2> QED  BY <1>1, <1>2, CountingCalls DEF Is
<1> QED  BY <1>1, <1>2, <1>3, CountingCalls DEF Pointer

LEMMA PutBefore ==
  ASSUME NEW o \in Oop, NEW i \in Nat, NEW v \in Pointer, NEW s \in Seq(CallRecord)
  PROVE  /\ Then(put(o, i, v), s) \in Seq(CallRecord) /\ Then(put(o, i, v), s) # <<>>
         /\ Upcoming(Then(put(o, i, v), s)) = put(o, i, v)
         /\ \A x : Owed(Then(put(o, i, v), s), x) = Owed(s, x) + Is(v, x)
         /\ HeldIn(Then(put(o, i, v), s)) = ({v, o} \intersect Oop) \union HeldIn(s)
<1>1. PICK c : c = put(o, i, v)
  OBVIOUS
<1>2. /\ Then(c, s) \in Seq(CallRecord) /\ Then(c, s) # <<>> /\ Upcoming(Then(c, s)) = c
      /\ \A x : Owed(Then(c, s), x) = OwedBy(c, x) + Owed(s, x) /\ Owed(s, x) \in Int
      /\ HeldIn(Then(c, s)) = ({c.value, c.object} \intersect Oop) \union HeldIn(s)
  BY <1>1, PlaceCalls, Prepend DEF Pointer
<1>3. \A x : OwedBy(c, x) + Owed(s, x) = Owed(s, x) + Is(v, x)
  <2> SUFFICES ASSUME NEW x  PROVE OwedBy(c, x) + Owed(s, x) = Owed(s, x) + Is(v, x)
    OBVIOUS
  <2> QED  BY <1>1, <1>2, PlaceCalls DEF Is, Pointer
<1> QED  BY <1>1, <1>2, <1>3, PlaceCalls DEF Pointer

LEMMA FieldBefore ==
  ASSUME NEW o \in Oop, NEW i \in Nat, NEW s \in Seq(CallRecord)
  PROVE  /\ Then(countDownField(o, i), s) \in Seq(CallRecord) /\ Then(countDownField(o, i), s) # <<>>
         /\ Upcoming(Then(countDownField(o, i), s)) = countDownField(o, i)
         /\ \A x : Owed(Then(countDownField(o, i), s), x) = Owed(s, x)
         /\ HeldIn(Then(countDownField(o, i), s)) = {o} \union HeldIn(s)
<1>1. PICK c : c = countDownField(o, i)
  OBVIOUS
<1>2. /\ Then(c, s) \in Seq(CallRecord) /\ Then(c, s) # <<>> /\ Upcoming(Then(c, s)) = c
      /\ \A x : Owed(Then(c, s), x) = OwedBy(c, x) + Owed(s, x) /\ Owed(s, x) \in Int
      /\ HeldIn(Then(c, s)) = ({c.value, c.object} \intersect Oop) \union HeldIn(s)
  BY <1>1, PlaceCalls, Prepend DEF Pointer
<1>3. \A x : OwedBy(c, x) + Owed(s, x) = Owed(s, x)
  <2> SUFFICES ASSUME NEW x  PROVE OwedBy(c, x) + Owed(s, x) = Owed(s, x)
    OBVIOUS
  <2> QED  BY <1>1, <1>2, PlaceCalls DEF Is, Pointer
<1> QED  BY <1>1, <1>2, <1>3, PlaceCalls DEF Pointer

LEMMA ContextBefore ==
  ASSUME NEW v \in Oop, NEW s \in Seq(CallRecord)
  PROVE  /\ Then(setActiveContext(v), s) \in Seq(CallRecord) /\ Then(setActiveContext(v), s) # <<>>
         /\ Upcoming(Then(setActiveContext(v), s)) = setActiveContext(v)
         /\ \A x : Owed(Then(setActiveContext(v), s), x) = Owed(s, x)
         /\ HeldIn(Then(setActiveContext(v), s)) = {v, NilPointer} \union HeldIn(s)
<1>1. PICK c : c = setActiveContext(v)
  OBVIOUS
<1>2. \A x : OwedBy(c, x) + Owed(s, x) = Owed(s, x)
  <2> SUFFICES ASSUME NEW x  PROVE OwedBy(c, x) + Owed(s, x) = Owed(s, x)
    OBVIOUS
  <2>1. OwedBy(c, x) = 0 /\ Owed(s, x) \in Int
    BY <1>1, Prepend, RegisterCalls DEF Pointer
  <2> QED  BY <2>1 DEF Is
<1> QED  BY <1>1, <1>2, RegisterCalls, Prepend DEF Pointer

LEMMA ProcessBefore ==
  ASSUME NEW v \in Oop, NEW s \in Seq(CallRecord)
  PROVE  /\ Then(setNewProcess(v), s) \in Seq(CallRecord) /\ Then(setNewProcess(v), s) # <<>>
         /\ Upcoming(Then(setNewProcess(v), s)) = setNewProcess(v)
         /\ \A x : Owed(Then(setNewProcess(v), s), x) = Owed(s, x)
         /\ HeldIn(Then(setNewProcess(v), s)) = {v, NilPointer} \union HeldIn(s)
<1>1. PICK c : c = setNewProcess(v)
  OBVIOUS
<1>2. \A x : OwedBy(c, x) + Owed(s, x) = Owed(s, x)
  <2> SUFFICES ASSUME NEW x  PROVE OwedBy(c, x) + Owed(s, x) = Owed(s, x)
    OBVIOUS
  <2>1. OwedBy(c, x) = 0 /\ Owed(s, x) \in Int
    BY <1>1, Prepend, RegisterCalls DEF Pointer
  <2> QED  BY <2>1 DEF Is
<1> QED  BY <1>1, <1>2, RegisterCalls, Prepend DEF Pointer

LEMMA AttemptBefore ==
  ASSUME NEW n \in Nat, NEW o \in Oop, NEW s \in Seq(CallRecord)
  PROVE  /\ Then(attempt(n, o), s) \in Seq(CallRecord) /\ Then(attempt(n, o), s) # <<>>
         /\ Upcoming(Then(attempt(n, o), s)) = attempt(n, o)
         /\ \A x : Owed(Then(attempt(n, o), s), x) = Owed(s, x) + Is(o, x)
         /\ HeldIn(Then(attempt(n, o), s)) = {o} \union HeldIn(s)
<1>1. PICK c : c = attempt(n, o)
  OBVIOUS
<1>2. /\ Then(c, s) \in Seq(CallRecord) /\ Then(c, s) # <<>> /\ Upcoming(Then(c, s)) = c
      /\ \A x : Owed(Then(c, s), x) = OwedBy(c, x) + Owed(s, x) /\ Owed(s, x) \in Int
      /\ HeldIn(Then(c, s)) = ({c.value, c.object} \intersect Oop) \union HeldIn(s)
  BY <1>1, AttemptCalls, Prepend DEF Pointer
<1>3. \A x : OwedBy(c, x) + Owed(s, x) = Owed(s, x) + Is(o, x)
  <2> SUFFICES ASSUME NEW x  PROVE OwedBy(c, x) + Owed(s, x) = Owed(s, x) + Is(o, x)
    OBVIOUS
  <2> QED  BY <1>1, <1>2, AttemptCalls DEF Is
<1> QED  BY <1>1, <1>2, <1>3, AttemptCalls DEF Pointer

LEMMA AgainBefore ==
  ASSUME NEW n \in Nat, NEW o \in Oop, NEW s \in Seq(CallRecord)
  PROVE  /\ Then(attemptAgain(attempt(n, o)), s) \in Seq(CallRecord) /\ Then(attemptAgain(attempt(n, o)), s) # <<>>
         /\ Upcoming(Then(attemptAgain(attempt(n, o)), s)) = attemptAgain(attempt(n, o))
         /\ \A x : Owed(Then(attemptAgain(attempt(n, o)), s), x) = Owed(s, x) + Is(o, x)
         /\ HeldIn(Then(attemptAgain(attempt(n, o)), s)) = {o} \union HeldIn(s)
<1>1. PICK c : c = attemptAgain(attempt(n, o))
  OBVIOUS
<1>2. /\ Then(c, s) \in Seq(CallRecord) /\ Then(c, s) # <<>> /\ Upcoming(Then(c, s)) = c
      /\ \A x : Owed(Then(c, s), x) = OwedBy(c, x) + Owed(s, x) /\ Owed(s, x) \in Int
      /\ HeldIn(Then(c, s)) = ({c.value, c.object} \intersect Oop) \union HeldIn(s)
  BY <1>1, AttemptCalls, Prepend DEF Pointer
<1>3. \A x : OwedBy(c, x) + Owed(s, x) = Owed(s, x) + Is(o, x)
  <2> SUFFICES ASSUME NEW x  PROVE OwedBy(c, x) + Owed(s, x) = Owed(s, x) + Is(o, x)
    OBVIOUS
  <2> QED  BY <1>1, <1>2, AttemptCalls DEF Is
<1> QED  BY <1>1, <1>2, <1>3, AttemptCalls DEF Pointer

LEMMA NoCalls ==
  /\ <<>> \in Seq(CallRecord) /\ HeldIn(<<>>) = {} /\ Upcoming(<<>>).call = "abort"
  /\ \A x : Owed(<<>>, x) = 0
BY NothingHeld, OwedNothing DEF abort, Call

LEMMA Onward ==
  ASSUME Always, NEW fa \in Oop, NEW fn \in Oop, Counted(field, count, todo, inHand, fa, fn),
         FreesRightly(fa, fn), Advances,
         NEW c \in CallRecord, NEW s \in Seq(CallRecord), todo = Then(c, s)
  PROVE  todo' = s /\ Went(c)
BY StepMakes, AtCall DEF Made

LEMMA FreesNo ==
  ASSUME NEW fa, NEW fn, NEW c \in CallRecord, NEW s \in Seq(CallRecord), todo = Then(c, s),
         c.call \notin {"countDown", "countDownField"}
  PROVE  FreesRightly(fa, fn)
BY AtCall DEF FreesRightly

LEMMA SureReaches ==
  ASSUME Always, NEW fa \in Oop, NEW fn \in Oop, Counted(field, count, todo, inHand, fa, fn),
         NEW c \in CallRecord, NEW s \in Seq(CallRecord), todo = Then(c, s),
         c.call \in {"countDown", "countDownField"},
         NEW R \in SUBSET Oop, R \subseteq Sure(c, s, fa, fn), NEW x \in ReachedFrom(field, R),
         c.call = "countDownField" => x = c.object
  PROVE  x \in Sure(c, s, fa, fn)
<1>1. /\ field \in Heap /\ Callable(field, inHand, c, Upcoming(s)) /\ Sound(field, inHand, s)
  <2>1. Head(todo) = c /\ Tail(todo) = s /\ todo # <<>>
    BY AtCall
  <2> QED  BY <2>1, FirstCall DEF Always, Typed
<1>2. DownView(field, c, s)
  BY <1>1, GraphOfDown
<1>3. PICK F, Q : F = GraphAt(field, Then(c, s)) /\ Q = SureOf(count, RestOf(s, fa, fn))
  OBVIOUS
<1>4. x \in ReachedFrom(F, R)
  <2>1. CASE c.call = "countDown"
    BY <1>2, <1>3, <2>1 DEF DownView
  <2>2. CASE c.call = "countDownField"
    <3>1. PICK k, w : k = c.index /\ w = Upcoming(s).value
      OBVIOUS
    <3> QED  BY <1>1, <1>2, <1>3, <2>2, <3>1, WrittenIs, ReachedAvoids DEF DownView, Sure, SureOf
  <2> QED  BY <2>1, <2>2
<1> QED  BY <1>2, <1>3, <1>4, ReachedWithin DEF DownView, Sure, SureOf

-----------------------------------------------------------------------------
(***************************************************************************)
(* What each routine has still to make, from its last call to its first:   *)
(* what is owed for it and what it holds.                                  *)
(***************************************************************************)
LEMMA Store2Is ==
  ASSUME NEW o \in Oop, NEW f \in Nat, NEW v \in Pointer
  PROVE  /\ Store2(o, f, v) \in Seq(CallRecord) /\ Upcoming(Store2(o, f, v)) = put(o, f, v)
         /\ \A x : Owed(Store2(o, f, v), x) = Is(v, x)
         /\ HeldIn(Store2(o, f, v)) = ({v, o} \intersect Oop)
<1>1. PICK s : s = <<>>
  OBVIOUS
<1>2. s \in Seq(CallRecord)
  BY <1>1, NoCalls
<1>3. (\A x : Owed(s, x) = 0) /\ HeldIn(s) = {}
  BY <1>1, NoCalls
<1>4. Store2(o, f, v) = Then(put(o, f, v), s)
  BY <1>1 DEF Store2
<1> QED  BY <1>2, <1>3, <1>4, IsOne, RefCountsAssumption, PutBefore DEF Pointer, Link

LEMMA Store1Is ==
  ASSUME NEW o \in Oop, NEW f \in Nat, NEW v \in Pointer
  PROVE  /\ Store1(o, f, v) \in Seq(CallRecord) /\ Upcoming(Store1(o, f, v)) = countDownField(o, f)
         /\ \A x : Owed(Store1(o, f, v), x) = Is(v, x)
         /\ HeldIn(Store1(o, f, v)) = ({v, o} \intersect Oop)
<1>1. PICK s : s = Store2(o, f, v)
  OBVIOUS
<1>2. s \in Seq(CallRecord)
  BY <1>1, Store2Is
<1>3. (\A x : Owed(s, x) = Is(v, x)) /\ HeldIn(s) = ({v, o} \intersect Oop)
  BY <1>1, Store2Is
<1> QED  BY <1>1, <1>2, <1>3, RefCountsAssumption, FieldBefore, IsOne DEF Store1, Pointer, Link

LEMMA Store0Is ==
  ASSUME NEW o \in Oop, NEW f \in Nat, NEW v \in Pointer
  PROVE  /\ Store0(o, f, v) \in Seq(CallRecord) /\ Upcoming(Store0(o, f, v)) = countUp(v)
         /\ \A x : Owed(Store0(o, f, v), x) = 0
         /\ HeldIn(Store0(o, f, v)) = ({v, o, NilPointer} \intersect Oop)
<1>1. PICK s : s = Store1(o, f, v)
  OBVIOUS
<1>2. s \in Seq(CallRecord)
  BY <1>1, Store1Is
<1>3. (\A x : Owed(s, x) = Is(v, x)) /\ HeldIn(s) = ({v, o} \intersect Oop)
  BY <1>1, Store1Is
<1> QED  BY <1>1, <1>2, <1>3, RefCountsAssumption, UpBefore, IsOne DEF Store0, Pointer, Link

LEMMA Activate5Is ==
  ASSUME NEW c \in Oop
  PROVE  /\ Activate5(c) \in Seq(CallRecord) /\ Upcoming(Activate5(c)) = countUp(c)
         /\ \A x : Owed(Activate5(c), x) = 0 - Is(c, x)
         /\ HeldIn(Activate5(c)) = ({c, NilPointer} \intersect Oop)
<1>1. PICK s : s = <<>>
  OBVIOUS
<1>2. s \in Seq(CallRecord)
  BY <1>1, NoCalls
<1>3. (\A x : Owed(s, x) = 0) /\ HeldIn(s) = {}
  BY <1>1, NoCalls
<1>4. Activate5(c) = Then(countUp(c), s)
  BY <1>1 DEF Activate5
<1> QED  BY <1>2, <1>3, <1>4, IsOne, RefCountsAssumption, UpBefore DEF Pointer, Link

LEMMA Activate4Is ==
  ASSUME NEW c \in Oop
  PROVE  /\ Activate4(c) \in Seq(CallRecord) /\ Upcoming(Activate4(c)) = setActiveContext(c)
         /\ \A x : Owed(Activate4(c), x) = 0 - Is(c, x)
         /\ HeldIn(Activate4(c)) = ({c, NilPointer} \intersect Oop)
<1>1. PICK s : s = Activate5(c)
  OBVIOUS
<1> QED
  BY <1>1, RefCountsAssumption, Activate5Is, ContextBefore, IsOne DEF Activate4, Pointer, Link

LEMMA Activate3Is ==
  ASSUME NEW a \in Oop, NEW c \in Oop
  PROVE  /\ Activate3(a, c) \in Seq(CallRecord) /\ Upcoming(Activate3(a, c)) = countDown(a)
         /\ \A x : Owed(Activate3(a, c), x) = Is(a, x) - Is(c, x)
         /\ HeldIn(Activate3(a, c)) = ({c, NilPointer, a} \intersect Oop)
<1>1. PICK s : s = Activate4(c)
  OBVIOUS
<1>2. (\A x : Owed(s, x) = 0 - Is(c, x)) /\ HeldIn(s) = ({c, NilPointer} \intersect Oop)
  BY <1>1, Activate4Is
<1> QED
  BY <1>1, <1>2, RefCountsAssumption, Activate4Is, DownBefore, IsOne DEF Activate3, Pointer, Link

LEMMA Activate2Is ==
  ASSUME NEW a \in Oop, NEW c \in Oop
  PROVE  /\ Activate2(a, c) \in Seq(CallRecord) /\ Upcoming(Activate2(a, c)) = put(c, Link, a)
         /\ \A x : Owed(Activate2(a, c), x) = Is(a, x) + Is(a, x) - Is(c, x)
         /\ HeldIn(Activate2(a, c)) = ({c, NilPointer, a} \intersect Oop)
<1>1. PICK s : s = Activate3(a, c)
  OBVIOUS
<1>2. s \in Seq(CallRecord)
  BY <1>1, Activate3Is
<1>3. (\A x : Owed(s, x) = Is(a, x) - Is(c, x)) /\ HeldIn(s) = ({c, NilPointer, a} \intersect Oop)
  <2>1. \A x : Owed(s, x) = Is(a, x) - Is(c, x)
    BY <1>1, Activate3Is
  <2>2. HeldIn(s) = ({c, NilPointer, a} \intersect Oop)
    BY <1>1, Activate3Is
  <2> QED  BY <2>1, <2>2
<1> QED  BY <1>1, <1>2, <1>3, RefCountsAssumption, PutBefore, IsOne DEF Activate2, Pointer, Link

LEMMA Activate1Is ==
  ASSUME NEW a \in Oop, NEW c \in Oop
  PROVE  /\ Activate1(a, c) \in Seq(CallRecord) /\ Upcoming(Activate1(a, c)) = countDownField(c, Link)
         /\ \A x : Owed(Activate1(a, c), x) = Is(a, x) + Is(a, x) - Is(c, x)
         /\ HeldIn(Activate1(a, c)) = ({c, NilPointer, a} \intersect Oop)
<1>1. PICK s : s = Activate2(a, c)
  OBVIOUS
<1>2. s \in Seq(CallRecord)
  BY <1>1, Activate2Is
<1>3. (\A x : Owed(s, x) = Is(a, x) + Is(a, x) - Is(c, x)) /\ HeldIn(s) = ({c, NilPointer, a} \intersect Oop)
  BY <1>1, Activate2Is
<1> QED  BY <1>1, <1>2, <1>3, RefCountsAssumption, FieldBefore, IsOne DEF Activate1, Pointer, Link

LEMMA Activate0Is ==
  ASSUME NEW a \in Oop, NEW c \in Oop
  PROVE  /\ Activate0(a, c) \in Seq(CallRecord) /\ Upcoming(Activate0(a, c)) = countUp(a)
         /\ \A x : Owed(Activate0(a, c), x) = Is(a, x) - Is(c, x)
         /\ HeldIn(Activate0(a, c)) = ({c, NilPointer, a} \intersect Oop)
<1>1. PICK s : s = Activate1(a, c)
  OBVIOUS
<1>2. s \in Seq(CallRecord)
  BY <1>1, Activate1Is
<1>3. (\A x : Owed(s, x) = Is(a, x) + Is(a, x) - Is(c, x)) /\ HeldIn(s) = ({c, NilPointer, a} \intersect Oop)
  BY <1>1, Activate1Is
<1> QED  BY <1>1, <1>2, <1>3, RefCountsAssumption, UpBefore, IsOne DEF Activate0, Pointer, Link

LEMMA Return10Is ==
  ASSUME NEW v \in Pointer
  PROVE  /\ Return10(v) \in Seq(CallRecord) /\ Upcoming(Return10(v)) = countDown(v)
         /\ \A x : Owed(Return10(v), x) = Is(v, x)
         /\ HeldIn(Return10(v)) = ({v, NilPointer} \intersect Oop)
<1>1. PICK s : s = <<>>
  OBVIOUS
<1>2. s \in Seq(CallRecord)
  BY <1>1, NoCalls
<1>3. (\A x : Owed(s, x) = 0) /\ HeldIn(s) = {}
  BY <1>1, NoCalls
<1>4. Return10(v) = Then(countDown(v), s)
  BY <1>1 DEF Return10
<1> QED  BY <1>2, <1>3, <1>4, IsOne, RefCountsAssumption, DownBefore DEF Pointer, Link

LEMMA Return9Is ==
  ASSUME NEW c \in Oop, NEW t \in Nat, NEW v \in Pointer
  PROVE  /\ Return9(c, t, v) \in Seq(CallRecord) /\ Upcoming(Return9(c, t, v)) = put(c, t, v)
         /\ \A x : Owed(Return9(c, t, v), x) = Is(v, x) + Is(v, x)
         /\ HeldIn(Return9(c, t, v)) = ({v, NilPointer, c} \intersect Oop)
<1>1. PICK s : s = Return10(v)
  OBVIOUS
<1> QED  BY <1>1, RefCountsAssumption, Return10Is, PutBefore, IsOne DEF Return9, Pointer, Link

LEMMA Return8Is ==
  ASSUME NEW c \in Oop, NEW t \in Nat, NEW v \in Pointer
  PROVE  /\ Return8(c, t, v) \in Seq(CallRecord) /\ Upcoming(Return8(c, t, v)) = countDownField(c, t)
         /\ \A x : Owed(Return8(c, t, v), x) = Is(v, x) + Is(v, x)
         /\ HeldIn(Return8(c, t, v)) = ({v, NilPointer, c} \intersect Oop)
<1>1. PICK s : s = Return9(c, t, v)
  OBVIOUS
<1>2. s \in Seq(CallRecord)
  BY <1>1, Return9Is
<1>3. (\A x : Owed(s, x) = Is(v, x) + Is(v, x)) /\ HeldIn(s) = ({v, NilPointer, c} \intersect Oop)
  BY <1>1, Return9Is
<1> QED  BY <1>1, <1>2, <1>3, RefCountsAssumption, FieldBefore, IsOne DEF Return8, Pointer, Link

LEMMA Return7Is ==
  ASSUME NEW c \in Oop, NEW t \in Nat, NEW v \in Pointer
  PROVE  /\ Return7(c, t, v) \in Seq(CallRecord) /\ Upcoming(Return7(c, t, v)) = countUp(v)
         /\ \A x : Owed(Return7(c, t, v), x) = Is(v, x)
         /\ HeldIn(Return7(c, t, v)) = ({v, NilPointer, c} \intersect Oop)
<1>1. PICK s : s = Return8(c, t, v)
  OBVIOUS
<1>2. s \in Seq(CallRecord)
  BY <1>1, Return8Is
<1>3. (\A x : Owed(s, x) = Is(v, x) + Is(v, x)) /\ HeldIn(s) = ({v, NilPointer, c} \intersect Oop)
  BY <1>1, Return8Is
<1> QED  BY <1>1, <1>2, <1>3, RefCountsAssumption, UpBefore, IsOne DEF Return7, Pointer, Link

LEMMA Return6Is ==
  ASSUME NEW c \in Oop, NEW t \in Nat, NEW v \in Pointer
  PROVE  /\ Return6(c, t, v) \in Seq(CallRecord) /\ Upcoming(Return6(c, t, v)) = setActiveContext(c)
         /\ \A x : Owed(Return6(c, t, v), x) = Is(v, x)
         /\ HeldIn(Return6(c, t, v)) = ({v, NilPointer, c} \intersect Oop)
<1>1. PICK s : s = Return7(c, t, v)
  OBVIOUS
<1>2. s \in Seq(CallRecord)
  BY <1>1, Return7Is
<1>3. (\A x : Owed(s, x) = Is(v, x)) /\ HeldIn(s) = ({v, NilPointer, c} \intersect Oop)
  BY <1>1, Return7Is
<1> QED  BY <1>1, <1>2, <1>3, RefCountsAssumption, ContextBefore, IsOne DEF Return6, Pointer, Link

LEMMA Return5Is ==
  ASSUME NEW a \in Oop, NEW c \in Oop, NEW t \in Nat, NEW v \in Pointer
  PROVE  /\ Return5(a, c, t, v) \in Seq(CallRecord) /\ Upcoming(Return5(a, c, t, v)) = countDown(a)
         /\ \A x : Owed(Return5(a, c, t, v), x) = Is(v, x) + Is(a, x)
         /\ HeldIn(Return5(a, c, t, v)) = ({v, NilPointer, c, a} \intersect Oop)
<1>1. PICK s : s = Return6(c, t, v)
  OBVIOUS
<1>2. s \in Seq(CallRecord)
  BY <1>1, Return6Is
<1>3. (\A x : Owed(s, x) = Is(v, x)) /\ HeldIn(s) = ({v, NilPointer, c} \intersect Oop)
  <2>1. \A x : Owed(s, x) = Is(v, x)
    BY <1>1, Return6Is
  <2>2. HeldIn(s) = ({v, NilPointer, c} \intersect Oop)
    BY <1>1, Return6Is
  <2> QED  BY <2>1, <2>2
<1> QED  BY <1>1, <1>2, <1>3, RefCountsAssumption, DownBefore, IsOne DEF Return5, Pointer, Link

LEMMA Return4Is ==
  ASSUME NEW a \in Oop, NEW c \in Oop, NEW t \in Nat, NEW v \in Pointer
  PROVE  /\ Return4(a, c, t, v) \in Seq(CallRecord) /\ Upcoming(Return4(a, c, t, v)) = put(a, Link, NilPointer)
         /\ \A x : Owed(Return4(a, c, t, v), x) = Is(v, x) + Is(a, x) + Is(NilPointer, x)
         /\ HeldIn(Return4(a, c, t, v)) = ({v, NilPointer, c, a} \intersect Oop)
<1>1. PICK s : s = Return5(a, c, t, v)
  OBVIOUS
<1>2. s \in Seq(CallRecord)
  BY <1>1, Return5Is
<1>3. (\A x : Owed(s, x) = Is(v, x) + Is(a, x)) /\ HeldIn(s) = ({v, NilPointer, c, a} \intersect Oop)
  <2>1. \A x : Owed(s, x) = Is(v, x) + Is(a, x)
    BY <1>1, Return5Is
  <2>2. HeldIn(s) = ({v, NilPointer, c, a} \intersect Oop)
    BY <1>1, Return5Is
  <2> QED  BY <2>1, <2>2
<1> QED  BY <1>1, <1>2, <1>3, RefCountsAssumption, PutBefore, IsOne DEF Return4, Pointer, Link

LEMMA Return3Is ==
  ASSUME NEW a \in Oop, NEW c \in Oop, NEW t \in Nat, NEW v \in Pointer
  PROVE  /\ Return3(a, c, t, v) \in Seq(CallRecord) /\ Upcoming(Return3(a, c, t, v)) = countDownField(a, Link)
         /\ \A x : Owed(Return3(a, c, t, v), x) = Is(v, x) + Is(a, x) + Is(NilPointer, x)
         /\ HeldIn(Return3(a, c, t, v)) = ({v, NilPointer, c, a} \intersect Oop)
<1>1. PICK s : s = Return4(a, c, t, v)
  OBVIOUS
<1>2. s \in Seq(CallRecord)
  BY <1>1, Return4Is
<1>3. (\A x : Owed(s, x) = Is(v, x) + Is(a, x) + Is(NilPointer, x)) /\ HeldIn(s) = ({v, NilPointer, c, a} \intersect Oop)
  <2>1. \A x : Owed(s, x) = Is(v, x) + Is(a, x) + Is(NilPointer, x)
    BY <1>1, Return4Is
  <2>2. HeldIn(s) = ({v, NilPointer, c, a} \intersect Oop)
    BY <1>1, Return4Is
  <2> QED  BY <2>1, <2>2
<1> QED  BY <1>1, <1>2, <1>3, RefCountsAssumption, FieldBefore, IsOne DEF Return3, Pointer, Link

LEMMA Return2Is ==
  ASSUME NEW a \in Oop, NEW c \in Oop, NEW t \in Nat, NEW v \in Pointer
  PROVE  /\ Return2(a, c, t, v) \in Seq(CallRecord) /\ Upcoming(Return2(a, c, t, v)) = countUp(NilPointer)
         /\ \A x : Owed(Return2(a, c, t, v), x) = Is(v, x) + Is(a, x)
         /\ HeldIn(Return2(a, c, t, v)) = ({v, NilPointer, c, a} \intersect Oop)
<1>1. PICK s : s = Return3(a, c, t, v)
  OBVIOUS
<1>2. s \in Seq(CallRecord)
  BY <1>1, Return3Is
<1>3. (\A x : Owed(s, x) = Is(v, x) + Is(a, x) + Is(NilPointer, x)) /\ HeldIn(s) = ({v, NilPointer, c, a} \intersect Oop)
  <2>1. \A x : Owed(s, x) = Is(v, x) + Is(a, x) + Is(NilPointer, x)
    BY <1>1, Return3Is
  <2>2. HeldIn(s) = ({v, NilPointer, c, a} \intersect Oop)
    BY <1>1, Return3Is
  <2> QED  BY <2>1, <2>2
<1> QED  BY <1>1, <1>2, <1>3, RefCountsAssumption, UpBefore, IsOne DEF Return2, Pointer, Link

LEMMA Return1Is ==
  ASSUME NEW a \in Oop, NEW c \in Oop, NEW t \in Nat, NEW v \in Pointer
  PROVE  /\ Return1(a, c, t, v) \in Seq(CallRecord) /\ Upcoming(Return1(a, c, t, v)) = countUp(c)
         /\ \A x : Owed(Return1(a, c, t, v), x) = Is(v, x) + Is(a, x) - Is(c, x)
         /\ HeldIn(Return1(a, c, t, v)) = ({v, NilPointer, c, a} \intersect Oop)
<1>1. PICK s : s = Return2(a, c, t, v)
  OBVIOUS
<1>2. s \in Seq(CallRecord)
  BY <1>1, Return2Is
<1>3. (\A x : Owed(s, x) = Is(v, x) + Is(a, x)) /\ HeldIn(s) = ({v, NilPointer, c, a} \intersect Oop)
  <2>1. \A x : Owed(s, x) = Is(v, x) + Is(a, x)
    BY <1>1, Return2Is
  <2>2. HeldIn(s) = ({v, NilPointer, c, a} \intersect Oop)
    BY <1>1, Return2Is
  <2> QED  BY <2>1, <2>2
<1> QED  BY <1>1, <1>2, <1>3, RefCountsAssumption, UpBefore, IsOne DEF Return1, Pointer, Link

LEMMA Return0Is ==
  ASSUME NEW a \in Oop, NEW c \in Oop, NEW t \in Nat, NEW v \in Pointer
  PROVE  /\ Return0(a, c, t, v) \in Seq(CallRecord) /\ Upcoming(Return0(a, c, t, v)) = countUp(v)
         /\ \A x : Owed(Return0(a, c, t, v), x) = Is(a, x) - Is(c, x)
         /\ HeldIn(Return0(a, c, t, v)) = ({v, NilPointer, c, a} \intersect Oop)
<1>1. PICK s : s = Return1(a, c, t, v)
  OBVIOUS
<1>2. s \in Seq(CallRecord)
  BY <1>1, Return1Is
<1>3. (\A x : Owed(s, x) = Is(v, x) + Is(a, x) - Is(c, x)) /\ HeldIn(s) = ({v, NilPointer, c, a} \intersect Oop)
  <2>1. \A x : Owed(s, x) = Is(v, x) + Is(a, x) - Is(c, x)
    BY <1>1, Return1Is
  <2>2. HeldIn(s) = ({v, NilPointer, c, a} \intersect Oop)
    BY <1>1, Return1Is
  <2> QED  BY <2>1, <2>2
<1> QED  BY <1>1, <1>2, <1>3, RefCountsAssumption, UpBefore, IsOne DEF Return0, Pointer, Link

LEMMA Wake6Is ==
  ASSUME NEW p \in Oop
  PROVE  /\ Wake6(p) \in Seq(CallRecord) /\ Upcoming(Wake6(p)) = countDown(p)
         /\ \A x : Owed(Wake6(p), x) = Is(p, x)
         /\ HeldIn(Wake6(p)) = ({p, NilPointer} \intersect Oop)
<1>1. PICK s : s = <<>>
  OBVIOUS
<1>2. s \in Seq(CallRecord)
  BY <1>1, NoCalls
<1>3. (\A x : Owed(s, x) = 0) /\ HeldIn(s) = {}
  BY <1>1, NoCalls
<1>4. Wake6(p) = Then(countDown(p), s)
  BY <1>1 DEF Wake6
<1> QED  BY <1>2, <1>3, <1>4, IsOne, RefCountsAssumption, DownBefore DEF Pointer, Link

LEMMA Wake5Is ==
  ASSUME NEW p \in Oop
  PROVE  /\ Wake5(p) \in Seq(CallRecord) /\ Upcoming(Wake5(p)) = countUp(p)
         /\ \A x : Owed(Wake5(p), x) = 0
         /\ HeldIn(Wake5(p)) = ({p, NilPointer} \intersect Oop)
<1>1. PICK s : s = Wake6(p)
  OBVIOUS
<1> QED  BY <1>1, RefCountsAssumption, Wake6Is, UpBefore, IsOne DEF Wake5, Pointer, Link

LEMMA Wake4Is ==
  ASSUME NEW p \in Oop
  PROVE  /\ Wake4(p) \in Seq(CallRecord) /\ Upcoming(Wake4(p)) = setNewProcess(p)
         /\ \A x : Owed(Wake4(p), x) = 0
         /\ HeldIn(Wake4(p)) = ({p, NilPointer} \intersect Oop)
<1>1. PICK s : s = Wake5(p)
  OBVIOUS
<1> QED  BY <1>1, RefCountsAssumption, Wake5Is, ProcessBefore, IsOne DEF Wake4, Pointer, Link

LEMMA Transfer2Is ==
  ASSUME NEW p \in Oop
  PROVE  /\ Transfer2(p) \in Seq(CallRecord) /\ Upcoming(Transfer2(p)) = countUp(p)
         /\ \A x : Owed(Transfer2(p), x) = 0 - Is(p, x)
         /\ HeldIn(Transfer2(p)) = ({p, NilPointer} \intersect Oop)
<1>1. PICK s : s = <<>>
  OBVIOUS
<1>2. s \in Seq(CallRecord)
  BY <1>1, NoCalls
<1>3. (\A x : Owed(s, x) = 0) /\ HeldIn(s) = {}
  BY <1>1, NoCalls
<1>4. Transfer2(p) = Then(countUp(p), s)
  BY <1>1 DEF Transfer2
<1> QED  BY <1>2, <1>3, <1>4, IsOne, RefCountsAssumption, UpBefore DEF Pointer, Link

LEMMA Transfer1Is ==
  ASSUME NEW p \in Oop
  PROVE  /\ Transfer1(p) \in Seq(CallRecord) /\ Upcoming(Transfer1(p)) = setNewProcess(p)
         /\ \A x : Owed(Transfer1(p), x) = 0 - Is(p, x)
         /\ HeldIn(Transfer1(p)) = ({p, NilPointer} \intersect Oop)
<1>1. PICK s : s = Transfer2(p)
  OBVIOUS
<1> QED
  BY <1>1, RefCountsAssumption, Transfer2Is, ProcessBefore, IsOne DEF Transfer1, Pointer, Link

LEMMA Transfer0Is ==
  ASSUME NEW q \in Oop, NEW p \in Oop
  PROVE  /\ Transfer0(q, p) \in Seq(CallRecord) /\ Upcoming(Transfer0(q, p)) = countDown(q)
         /\ \A x : Owed(Transfer0(q, p), x) = Is(q, x) - Is(p, x)
         /\ HeldIn(Transfer0(q, p)) = ({p, NilPointer, q} \intersect Oop)
<1>1. PICK s : s = Transfer1(p)
  OBVIOUS
<1>2. s \in Seq(CallRecord)
  BY <1>1, Transfer1Is
<1>3. (\A x : Owed(s, x) = 0 - Is(p, x)) /\ HeldIn(s) = ({p, NilPointer} \intersect Oop)
  BY <1>1, Transfer1Is
<1> QED  BY <1>1, <1>2, <1>3, RefCountsAssumption, DownBefore, IsOne DEF Pointer, Link, Transfer0

LEMMA Switch10Is ==
  /\ Switch10 \in Seq(CallRecord) /\ Upcoming(Switch10) = setNewProcess(NilPointer)
  /\ \A x : Owed(Switch10, x) = 0
  /\ HeldIn(Switch10) = {NilPointer}
<1>1. PICK s : s = <<>>
  OBVIOUS
<1>2. s \in Seq(CallRecord)
  BY <1>1, NoCalls
<1>3. (\A x : Owed(s, x) = 0) /\ HeldIn(s) = {}
  BY <1>1, NoCalls
<1>4. Switch10 = Then(setNewProcess(NilPointer), s)
  BY <1>1 DEF Switch10
<1> QED  BY <1>2, <1>3, <1>4, IsOne, RefCountsAssumption, ProcessBefore DEF Pointer, Link

LEMMA Switch9Is ==
  ASSUME NEW p \in Oop
  PROVE  /\ Switch9(p) \in Seq(CallRecord) /\ Upcoming(Switch9(p)) = countDown(p)
         /\ \A x : Owed(Switch9(p), x) = Is(p, x)
         /\ HeldIn(Switch9(p)) = ({NilPointer, p} \intersect Oop)
<1>1. PICK s : s = Switch10
  OBVIOUS
<1> QED  BY <1>1, RefCountsAssumption, Switch10Is, DownBefore, IsOne DEF Switch9, Pointer, Link

LEMMA Switch8Is ==
  ASSUME NEW p \in Oop, NEW c \in Oop
  PROVE  /\ Switch8(p, c) \in Seq(CallRecord) /\ Upcoming(Switch8(p, c)) = countUp(c)
         /\ \A x : Owed(Switch8(p, c), x) = Is(p, x) - Is(c, x)
         /\ HeldIn(Switch8(p, c)) = ({NilPointer, p, c} \intersect Oop)
<1>1. PICK s : s = Switch9(p)
  OBVIOUS
<1> QED  BY <1>1, RefCountsAssumption, Switch9Is, UpBefore, IsOne DEF Switch8, Pointer, Link

LEMMA Switch7Is ==
  ASSUME NEW p \in Oop, NEW c \in Oop
  PROVE  /\ Switch7(p, c) \in Seq(CallRecord) /\ Upcoming(Switch7(p, c)) = setActiveContext(c)
         /\ \A x : Owed(Switch7(p, c), x) = Is(p, x) - Is(c, x)
         /\ HeldIn(Switch7(p, c)) = ({NilPointer, p, c} \intersect Oop)
<1>1. PICK s : s = Switch8(p, c)
  OBVIOUS
<1>2. s \in Seq(CallRecord)
  BY <1>1, Switch8Is
<1>3. (\A x : Owed(s, x) = Is(p, x) - Is(c, x)) /\ HeldIn(s) = ({NilPointer, p, c} \intersect Oop)
  <2>1. \A x : Owed(s, x) = Is(p, x) - Is(c, x)
    BY <1>1, Switch8Is
  <2>2. HeldIn(s) = ({NilPointer, p, c} \intersect Oop)
    BY <1>1, Switch8Is
  <2> QED  BY <2>1, <2>2
<1> QED  BY <1>1, <1>2, <1>3, RefCountsAssumption, ContextBefore, IsOne DEF Switch7, Pointer, Link

LEMMA Switch6Is ==
  ASSUME NEW a \in Oop, NEW p \in Oop, NEW c \in Oop
  PROVE  /\ Switch6(a, p, c) \in Seq(CallRecord) /\ Upcoming(Switch6(a, p, c)) = countDown(a)
         /\ \A x : Owed(Switch6(a, p, c), x) = Is(p, x) + Is(a, x) - Is(c, x)
         /\ HeldIn(Switch6(a, p, c)) = ({NilPointer, p, c, a} \intersect Oop)
<1>1. PICK s : s = Switch7(p, c)
  OBVIOUS
<1>2. s \in Seq(CallRecord)
  BY <1>1, Switch7Is
<1>3. (\A x : Owed(s, x) = Is(p, x) - Is(c, x)) /\ HeldIn(s) = ({NilPointer, p, c} \intersect Oop)
  <2>1. \A x : Owed(s, x) = Is(p, x) - Is(c, x)
    BY <1>1, Switch7Is
  <2>2. HeldIn(s) = ({NilPointer, p, c} \intersect Oop)
    BY <1>1, Switch7Is
  <2> QED  BY <2>1, <2>2
<1> QED  BY <1>1, <1>2, <1>3, RefCountsAssumption, DownBefore, IsOne DEF Switch6, Pointer, Link

LEMMA Switch5Is ==
  ASSUME NEW a \in Oop, NEW p \in Oop, NEW c \in Oop
  PROVE  /\ Switch5(a, p, c) \in Seq(CallRecord) /\ Upcoming(Switch5(a, p, c)) = put(SmalltalkPointer, Link, p)
         /\ \A x : Owed(Switch5(a, p, c), x) = Is(p, x) + Is(a, x) + Is(p, x) - Is(c, x)
         /\ HeldIn(Switch5(a, p, c)) = ({NilPointer, p, c, a, SmalltalkPointer} \intersect Oop)
<1>1. PICK s : s = Switch6(a, p, c)
  OBVIOUS
<1>2. s \in Seq(CallRecord)
  BY <1>1, Switch6Is
<1>3. (\A x : Owed(s, x) = Is(p, x) + Is(a, x) - Is(c, x)) /\ HeldIn(s) = ({NilPointer, p, c, a} \intersect Oop)
  <2>1. \A x : Owed(s, x) = Is(p, x) + Is(a, x) - Is(c, x)
    BY <1>1, Switch6Is
  <2>2. HeldIn(s) = ({NilPointer, p, c, a} \intersect Oop)
    BY <1>1, Switch6Is
  <2> QED  BY <2>1, <2>2
<1> QED  BY <1>1, <1>2, <1>3, RefCountsAssumption, PutBefore, IsOne DEF Switch5, Pointer, Link

LEMMA Switch4Is ==
  ASSUME NEW a \in Oop, NEW p \in Oop, NEW c \in Oop
  PROVE  /\ Switch4(a, p, c) \in Seq(CallRecord) /\ Upcoming(Switch4(a, p, c)) = countDownField(SmalltalkPointer, Link)
         /\ \A x : Owed(Switch4(a, p, c), x) = Is(p, x) + Is(a, x) + Is(p, x) - Is(c, x)
         /\ HeldIn(Switch4(a, p, c)) = ({NilPointer, p, c, a, SmalltalkPointer} \intersect Oop)
<1>1. PICK s : s = Switch5(a, p, c)
  OBVIOUS
<1>2. s \in Seq(CallRecord)
  BY <1>1, Switch5Is
<1>3. (\A x : Owed(s, x) = Is(p, x) + Is(a, x) + Is(p, x) - Is(c, x)) /\ HeldIn(s) = ({NilPointer, p, c, a, SmalltalkPointer} \intersect Oop)
  <2>1. \A x : Owed(s, x) = Is(p, x) + Is(a, x) + Is(p, x) - Is(c, x)
    BY <1>1, Switch5Is
  <2>2. HeldIn(s) = ({NilPointer, p, c, a, SmalltalkPointer} \intersect Oop)
    BY <1>1, Switch5Is
  <2> QED  BY <2>1, <2>2
<1> QED  BY <1>1, <1>2, <1>3, RefCountsAssumption, FieldBefore, IsOne DEF Switch4, Pointer, Link

LEMMA Switch3Is ==
  ASSUME NEW a \in Oop, NEW p \in Oop, NEW c \in Oop
  PROVE  /\ Switch3(a, p, c) \in Seq(CallRecord) /\ Upcoming(Switch3(a, p, c)) = countUp(p)
         /\ \A x : Owed(Switch3(a, p, c), x) = Is(a, x) + Is(p, x) - Is(c, x)
         /\ HeldIn(Switch3(a, p, c)) = ({NilPointer, p, c, a, SmalltalkPointer} \intersect Oop)
<1>1. PICK s : s = Switch4(a, p, c)
  OBVIOUS
<1>2. s \in Seq(CallRecord)
  BY <1>1, Switch4Is
<1>3. (\A x : Owed(s, x) = Is(p, x) + Is(a, x) + Is(p, x) - Is(c, x)) /\ HeldIn(s) = ({NilPointer, p, c, a, SmalltalkPointer} \intersect Oop)
  <2>1. \A x : Owed(s, x) = Is(p, x) + Is(a, x) + Is(p, x) - Is(c, x)
    BY <1>1, Switch4Is
  <2>2. HeldIn(s) = ({NilPointer, p, c, a, SmalltalkPointer} \intersect Oop)
    BY <1>1, Switch4Is
  <2> QED  BY <2>1, <2>2
<1> QED  BY <1>1, <1>2, <1>3, RefCountsAssumption, UpBefore, IsOne DEF Switch3, Pointer, Link

LEMMA Switch2Is ==
  ASSUME NEW q \in Oop, NEW a \in Oop, NEW p \in Oop, NEW c \in Oop
  PROVE  /\ Switch2(q, a, p, c) \in Seq(CallRecord) /\ Upcoming(Switch2(q, a, p, c)) = put(q, Link, a)
         /\ \A x : Owed(Switch2(q, a, p, c), x) = Is(a, x) + Is(p, x) + Is(a, x) - Is(c, x)
         /\ HeldIn(Switch2(q, a, p, c)) = ({NilPointer, p, c, a, SmalltalkPointer, q} \intersect Oop)
<1>1. PICK s : s = Switch3(a, p, c)
  OBVIOUS
<1>2. s \in Seq(CallRecord)
  BY <1>1, Switch3Is
<1>3. (\A x : Owed(s, x) = Is(a, x) + Is(p, x) - Is(c, x)) /\ HeldIn(s) = ({NilPointer, p, c, a, SmalltalkPointer} \intersect Oop)
  <2>1. \A x : Owed(s, x) = Is(a, x) + Is(p, x) - Is(c, x)
    BY <1>1, Switch3Is
  <2>2. HeldIn(s) = ({NilPointer, p, c, a, SmalltalkPointer} \intersect Oop)
    BY <1>1, Switch3Is
  <2> QED  BY <2>1, <2>2
<1> QED  BY <1>1, <1>2, <1>3, RefCountsAssumption, PutBefore, IsOne DEF Switch2, Pointer, Link

LEMMA Switch1Is ==
  ASSUME NEW q \in Oop, NEW a \in Oop, NEW p \in Oop, NEW c \in Oop
  PROVE  /\ Switch1(q, a, p, c) \in Seq(CallRecord) /\ Upcoming(Switch1(q, a, p, c)) = countDownField(q, Link)
         /\ \A x : Owed(Switch1(q, a, p, c), x) = Is(a, x) + Is(p, x) + Is(a, x) - Is(c, x)
         /\ HeldIn(Switch1(q, a, p, c)) = ({NilPointer, p, c, a, SmalltalkPointer, q} \intersect Oop)
<1>1. PICK s : s = Switch2(q, a, p, c)
  OBVIOUS
<1>2. s \in Seq(CallRecord)
  BY <1>1, Switch2Is
<1>3. (\A x : Owed(s, x) = Is(a, x) + Is(p, x) + Is(a, x) - Is(c, x)) /\ HeldIn(s) = ({NilPointer, p, c, a, SmalltalkPointer, q} \intersect Oop)
  <2>1. \A x : Owed(s, x) = Is(a, x) + Is(p, x) + Is(a, x) - Is(c, x)
    BY <1>1, Switch2Is
  <2>2. HeldIn(s) = ({NilPointer, p, c, a, SmalltalkPointer, q} \intersect Oop)
    BY <1>1, Switch2Is
  <2> QED  BY <2>1, <2>2
<1> QED  BY <1>1, <1>2, <1>3, RefCountsAssumption, FieldBefore, IsOne DEF Switch1, Pointer, Link

LEMMA Switch0Is ==
  ASSUME NEW q \in Oop, NEW a \in Oop, NEW p \in Oop, NEW c \in Oop
  PROVE  /\ Switch0(q, a, p, c) \in Seq(CallRecord) /\ Upcoming(Switch0(q, a, p, c)) = countUp(a)
         /\ \A x : Owed(Switch0(q, a, p, c), x) = Is(p, x) + Is(a, x) - Is(c, x)
         /\ HeldIn(Switch0(q, a, p, c)) = ({NilPointer, p, c, a, SmalltalkPointer, q} \intersect Oop)
<1>1. PICK s : s = Switch1(q, a, p, c)
  OBVIOUS
<1>2. s \in Seq(CallRecord)
  BY <1>1, Switch1Is
<1>3. (\A x : Owed(s, x) = Is(a, x) + Is(p, x) + Is(a, x) - Is(c, x)) /\ HeldIn(s) = ({NilPointer, p, c, a, SmalltalkPointer, q} \intersect Oop)
  <2>1. \A x : Owed(s, x) = Is(a, x) + Is(p, x) + Is(a, x) - Is(c, x)
    BY <1>1, Switch1Is
  <2>2. HeldIn(s) = ({NilPointer, p, c, a, SmalltalkPointer, q} \intersect Oop)
    BY <1>1, Switch1Is
  <2> QED  BY <2>1, <2>2
<1> QED  BY <1>1, <1>2, <1>3, RefCountsAssumption, UpBefore, IsOne DEF Switch0, Pointer, Link

LEMMA Allocate1Is ==
  ASSUME NEW n \in Nat, NEW class \in Oop
  PROVE  /\ Allocate1(n, class) \in Seq(CallRecord) /\ Upcoming(Allocate1(n, class)) = attempt(n, class)
         /\ \A x : Owed(Allocate1(n, class), x) = Is(class, x)
         /\ HeldIn(Allocate1(n, class)) = ({class} \intersect Oop)
<1>1. PICK s : s = <<>>
  OBVIOUS
<1>2. s \in Seq(CallRecord)
  BY <1>1, NoCalls
<1>3. (\A x : Owed(s, x) = 0) /\ HeldIn(s) = {}
  BY <1>1, NoCalls
<1>4. Allocate1(n, class) = Then(attempt(n, class), s)
  BY <1>1 DEF Allocate1
<1> QED  BY <1>2, <1>3, <1>4, IsOne, RefCountsAssumption, AttemptBefore DEF Pointer, Link

LEMMA Allocate0Is ==
  ASSUME NEW n \in Nat, NEW class \in Oop
  PROVE  /\ Allocate0(n, class) \in Seq(CallRecord) /\ Upcoming(Allocate0(n, class)) = countUp(class)
         /\ \A x : Owed(Allocate0(n, class), x) = 0
         /\ HeldIn(Allocate0(n, class)) = ({class, NilPointer} \intersect Oop)
<1>1. PICK s : s = Allocate1(n, class)
  OBVIOUS
<1>2. s \in Seq(CallRecord)
  BY <1>1, Allocate1Is
<1>3. (\A x : Owed(s, x) = Is(class, x)) /\ HeldIn(s) = ({class} \intersect Oop)
  <2>1. \A x : Owed(s, x) = Is(class, x)
    BY <1>1, Allocate1Is
  <2>2. HeldIn(s) = ({class} \intersect Oop)
    BY <1>1, Allocate1Is
  <2> QED  BY <2>1, <2>2
<1> QED  BY <1>1, <1>2, <1>3, RefCountsAssumption, UpBefore, IsOne DEF Allocate0, Pointer, Link

LEMMA AgainIs ==
  ASSUME NEW n \in Nat, NEW class \in Oop
  PROVE  /\ Again(n, class) \in Seq(CallRecord) /\ Upcoming(Again(n, class)) = attemptAgain(attempt(n, class))
         /\ \A x : Owed(Again(n, class), x) = Is(class, x)
         /\ HeldIn(Again(n, class)) = ({class} \intersect Oop)
<1>1. PICK s : s = <<>>
  OBVIOUS
<1>2. s \in Seq(CallRecord)
  BY <1>1, NoCalls
<1>3. (\A x : Owed(s, x) = 0) /\ HeldIn(s) = {}
  BY <1>1, NoCalls
<1>4. Again(n, class) = Then(attemptAgain(attempt(n, class)), s)
  BY <1>1 DEF Again
<1> QED  BY <1>2, <1>3, <1>4, IsOne, RefCountsAssumption, AgainBefore DEF Pointer, Link

-----------------------------------------------------------------------------
(***************************************************************************)
(* What a step comes to when the call to make is known.                    *)
(***************************************************************************)
LEMMA UpPasses ==
  ASSUME Always, NEW fa \in Oop, NEW fn \in Oop, Counted(field, count, todo, inHand, fa, fn),
         NEW v \in Pointer, NEW s \in Seq(CallRecord), todo = Then(countUp(v), s)
  PROVE  /\ FreesRightly(fa, fn)
         /\ Advances => /\ todo' = s /\ field' = field
                        /\ Zero \subseteq Zero' \union ({v} \intersect Oop)
                        /\ activeContext' = activeContext /\ newProcess' = newProcess
BY CountingCalls, FreesNo, Onward DEF Went

LEMMA PutPasses ==
  ASSUME Always, NEW fa \in Oop, NEW fn \in Oop, Counted(field, count, todo, inHand, fa, fn),
         NEW o \in Oop, NEW i \in Nat, NEW v \in Pointer, NEW s \in Seq(CallRecord),
         todo = Then(put(o, i, v), s)
  PROVE  /\ FreesRightly(fa, fn)
         /\ Advances => /\ todo' = s /\ field' = Written(field, o, i, v) /\ Zero' = Zero
                        /\ o # NilPointer /\ i \in DOMAIN field[o]
                        /\ activeContext' = activeContext /\ newProcess' = newProcess
<1>1. PICK c : c = put(o, i, v)
  OBVIOUS
<1> QED  BY <1>1, PlaceCalls, FreesNo, Onward DEF Went

LEMMA RegisterPasses ==
  ASSUME Always, NEW fa \in Oop, NEW fn \in Oop, Counted(field, count, todo, inHand, fa, fn),
         NEW v \in Oop, NEW s \in Seq(CallRecord)
  PROVE  /\ todo = Then(setActiveContext(v), s) =>
              /\ FreesRightly(fa, fn)
              /\ Advances => /\ todo' = s /\ field' = field /\ Zero' = Zero
                             /\ activeContext' = v /\ newProcess' = newProcess
         /\ todo = Then(setNewProcess(v), s) =>
              /\ FreesRightly(fa, fn)
              /\ Advances => /\ todo' = s /\ field' = field /\ Zero' = Zero
                             /\ activeContext' = activeContext /\ newProcess' = v
<1>1. ASSUME todo = Then(setActiveContext(v), s)
      PROVE  /\ FreesRightly(fa, fn)
             /\ Advances => /\ todo' = s /\ field' = field /\ Zero' = Zero
                            /\ activeContext' = v /\ newProcess' = newProcess
  BY <1>1, RegisterCalls, FreesNo, Onward DEF Went
<1>2. ASSUME todo = Then(setNewProcess(v), s)
      PROVE  /\ FreesRightly(fa, fn)
             /\ Advances => /\ todo' = s /\ field' = field /\ Zero' = Zero
                            /\ activeContext' = activeContext /\ newProcess' = v
  BY <1>2, RegisterCalls, FreesNo, Onward DEF Went
<1> QED  BY <1>1, <1>2

LEMMA DownPasses ==
  ASSUME Always, NEW fa \in Oop, NEW fn \in Oop, Counted(field, count, todo, inHand, fa, fn),
         NEW c \in CallRecord, NEW s \in Seq(CallRecord), todo = Then(c, s),
         c.call \in {"countDown", "countDownField"}, FreesRightly(fa, fn), Advances
  PROVE  /\ todo' = s /\ Spares
         /\ activeContext' = activeContext /\ newProcess' = newProcess
BY Onward DEF Went

(* An object among the pointers of another has a reference.                *)
LEMMA HasReference ==
  ASSUME NEW f \in Heap, NEW o \in Oop, NEW x \in PointersOf(f, o)
  PROVE  /\ ReferencesFrom(f, Oop, x) \in Nat /\ ReferencesFrom(f, Oop, x) >= 1
         /\ x \in Oop
<1>1. PICK i \in DOMAIN f[o] : f[o][i] = x
  BY DEF PointersOf
<1>2. ReferencesFrom(f, {}, x) + 1 <= ReferencesFrom(f, Oop, x)
  BY <1>1, OneReference
<1> QED  BY <1>2, PointersAre, ReferencesAre

(* What the base reaches, a larger base reaches.                           *)
LEMMA ReachedMore ==
  ASSUME NEW f \in Heap, NEW R \in SUBSET Oop, NEW Q \in SUBSET R, NEW x \in ReachedFrom(f, Q)
  PROVE  x \in ReachedFrom(f, R)
BY ReachedIsClosed, ReachedWithin

LEMMA BaseStays ==
  ASSUME Always, Always', field' = field, activeContext' = activeContext,
         NEW V \in SUBSET Oop, NEW W \in SUBSET Oop, W \subseteq V,
         Zero \subseteq Zero' \union W,
         NEW x \in ReachedFrom(field, Base \union V)
  PROVE  x \in ReachedFrom(field', Base' \union V)
<1>1. field \in Heap /\ Base \union V \in SUBSET Oop /\ Base' \union V \in SUBSET Oop
  BY RefCountsAssumption DEF Always, Typed, Base, Zero
<1> QED  BY <1>1, ReachedMore DEF Base

-----------------------------------------------------------------------------
(***************************************************************************)
(* The routines, a call at a time: what is counted down can be freed, and  *)
(* the routine comes to its next stage.                                    *)
(***************************************************************************)
LEMMA StoringAdvances ==
  ASSUME Always, NEW fa \in Oop, NEW fn \in Oop, Counted(field, count, todo, inHand, fa, fn),
         fa = activeContext, fn = newProcess,
         NEW o \in Oop, NEW f \in Nat, NEW v \in Pointer, Storing(o, f, v)
  PROVE  /\ FreesRightly(fa, fn)
         /\ Advances /\ Always' => /\ fa = activeContext' /\ fn = newProcess'
                                   /\ todo' = <<>> \/ Storing(o, f, v)'
<1>1. Store2(o, f, v) \in Seq(CallRecord) /\ Upcoming(Store2(o, f, v)) = put(o, f, v)
  BY Store2Is
<1>2. (\A x : Owed(Store2(o, f, v), x) = Is(v, x)) /\ HeldIn(Store2(o, f, v)) = ({v, o} \intersect Oop)
  <2>1. o \in Oop /\ f \in Nat /\ v \in Pointer
    OBVIOUS
  <2> QED  BY ONLY <2>1, Store2Is
<1>3. CASE todo = Store0(o, f, v) /\ o \in ReachedFrom(field, Base \union ({v} \intersect Oop))
  <2>1. /\ FreesRightly(fa, fn)
        /\ Advances => /\ todo' = Store1(o, f, v) /\ field' = field
                       /\ Zero \subseteq Zero' \union ({v} \intersect Oop)
                       /\ activeContext' = activeContext /\ newProcess' = newProcess
    BY <1>3, Store1Is, UpPasses DEF Store0
  <2>2. ASSUME Advances, Always' PROVE o \in ReachedFrom(field', Base' \union ({v} \intersect Oop))
    <3>1. /\ field' = field /\ activeContext' = activeContext
          /\ Zero \subseteq Zero' \union ({v} \intersect Oop)
      BY <2>1, <2>2
    <3>2. {v} \intersect Oop \in SUBSET Oop
      OBVIOUS
    <3> QED  BY <1>3, <2>2, <3>1, <3>2, BaseStays
  <2> QED  BY <2>1, <2>2 DEF Storing
<1>4. CASE todo = Store1(o, f, v) /\ o \in ReachedFrom(field, Base \union ({v} \intersect Oop))
  <2> DEFINE s == Store2(o, f, v)
  <2>1. PICK c : c = countDownField(o, f)
    OBVIOUS
  <2>2. /\ c \in CallRecord /\ c.call = "countDownField" /\ c.object = o /\ c.value = Immediate
    BY <2>1, PlaceCalls
  <2>3. todo = Then(c, s)
    BY <1>4, <2>1 DEF Store1
  <2>4. /\ \A x : Owed(s, x) + Is(fa, x) + Is(fn, x) >= 0
        /\ \A x : x \in {v, fa, fn} => Owed(s, x) + Is(fa, x) + Is(fn, x) >= 1
    BY <1>2, IsOne
  <2>5. fa \in Sure(c, s, fa, fn) /\ fn \in Sure(c, s, fa, fn)
    BY <1>1, <2>2, <2>3, <2>4, SureIs
  <2>6. o \in Sure(c, s, fa, fn)
    BY <1>1, <1>4, <2>2, <2>3, <2>4, <2>5, SureIs, SureReaches DEF Base
  <2>7. FreesRightly(fa, fn)
    <3>1. PICK u : u = put(o, f, v)
      OBVIOUS
    <3>2. Upcoming(s) = u /\ u.call = "put" /\ u.value = v
      BY <1>1, <3>1, PlaceCalls
    <3>3. HeldIn(s) \subseteq Sure(c, s, fa, fn)
      BY <1>1, <1>2, <2>2, <2>3, <2>4, <2>6, SureIs
    <3>4. u.value = Immediate \/ (u.value \in Oop /\ Owed(s, u.value) + Is(fa, u.value) + Is(fn, u.value) >= 1)
      BY <2>4, <3>2 DEF Pointer
    <3> QED  BY <1>1, <2>2, <2>3, <2>4, <2>5, <2>6, <3>2, <3>3, <3>4, FreesWhen
  <2> QED  BY <1>1, <2>2, <2>3, <2>7, DownPasses DEF Storing
<1>5. CASE todo = Store2(o, f, v)
  <2>1. todo = Then(put(o, f, v), <<>>)
    BY <1>5 DEF Store2
  <2>2. <<>> \in Seq(CallRecord)
    BY NoCalls
  <2>3. PICK e \in Seq(CallRecord) : e = <<>>
    BY <2>2
  <2>4. /\ FreesRightly(fa, fn)
        /\ Advances => /\ todo' = e
                       /\ activeContext' = activeContext /\ newProcess' = newProcess
    BY <2>1, <2>3, PutPasses
  <2> QED  BY <2>3, <2>4
<1> QED  BY <1>3, <1>4, <1>5 DEF Storing

LEMMA ActivatingAdvances ==
  ASSUME Always, NEW fa \in Oop, NEW fn \in Oop, Counted(field, count, todo, inHand, fa, fn),
         NEW a \in Oop, NEW c \in Oop, Activating(a, c), fa = c, fn = newProcess
  PROVE  /\ FreesRightly(fa, fn)
         /\ Advances /\ Always' => /\ fa = c /\ fn = newProcess'
                                   /\ \/ Activating(a, c)'
                                      \/ todo' = <<>> /\ fa = activeContext'
<1>0. /\ activeContext \in Oop /\ newProcess \in Oop /\ field \in Heap /\ Oop \subseteq Pointer
      /\ Immediate \in Pointer /\ Link \in Nat /\ NilPointer \in Oop /\ SmalltalkPointer \in Oop
      /\ Immediate \notin Oop /\ fa \in Oop /\ fn \in Oop
  BY RefCountsAssumption, OopAssumption DEF Always, Typed, Pointer, Link
<1>1. PICK e \in Seq(CallRecord) : e = <<>> /\ HeldIn(e) = {} /\ Upcoming(e).call = "abort" /\ \A x : Owed(e, x) = 0
  BY NoCalls
<1>2. CASE todo = Activate0(a, c) /\ a = activeContext /\ c \in ReachedFrom(field, Base)
  <2>1. Activate1(a, c) \in Seq(CallRecord)
    BY Activate1Is
  <2>2. ASSUME Advances, Always' PROVE c \in ReachedFrom(field', Base')
    <3>2. activeContext' = activeContext
      BY <1>0, <1>2, <2>1, <2>2, UpPasses DEF Activate0
    <3>1. Base \union {a} = Base /\ Base' \union {a} = Base'
      BY ONLY <1>2, <3>2 DEF Base
    <3>3. a \in Pointer
      BY <1>0
    <3>4. todo = Then(countUp(a), Activate1(a, c))
      BY <1>2 DEF Activate0
    <3>5. field' = field /\ Zero \subseteq Zero' \union ({a} \intersect Oop)
      BY <2>1, <2>2, <3>3, <3>4, UpPasses
    <3>6. {a} \in SUBSET Oop /\ {a} \intersect Oop \in SUBSET Oop /\ {a} \intersect Oop \subseteq {a}
      OBVIOUS
    <3>7. c \in ReachedFrom(field, Base \union {a})
      BY <1>2, <3>1
    <3> QED  BY <2>2, <3>1, <3>2, <3>5, <3>6, <3>7, BaseStays
  <2> QED  BY <1>0, <1>2, <2>1, <2>2, UpPasses DEF Activating, Activate0
<1>3. CASE todo = Activate1(a, c) /\ a = activeContext /\ c \in ReachedFrom(field, Base)
  <2>1. Activate2(a, c) \in Seq(CallRecord)
    BY Activate2Is
  <2>0. PICK d : d = countDownField(c, Link)
    OBVIOUS
  <2>2. d \in CallRecord /\ d.call = "countDownField" /\ d.object = c /\ d.index = Link /\ d.value = Immediate
    BY <1>0, <2>0, PlaceCalls
  <2>3. todo = Then(d, Activate2(a, c))
    BY <1>3, <2>0 DEF Activate1
  <2>4. \A x : Owed(Activate2(a, c), x) = Is(a, x) + Is(a, x) - Is(c, x)
    BY Activate2Is
  <2>5. \A x : Owed(Activate2(a, c), x) + Is(fa, x) + Is(fn, x) >= 0
    BY <1>3, <2>4, IsOne
  <2>6. ({a, fn, NilPointer, SmalltalkPointer} \intersect Oop) \subseteq Sure(d, Activate2(a, c), fa, fn)
    BY <1>3, <2>1, <2>2, <2>3, <2>4, IsOne, SureIs
  <2>7. c \in Sure(d, Activate2(a, c), fa, fn)
    BY <1>0, <1>3, <2>1, <2>2, <2>3, <2>6, SureIs, SureReaches DEF Base
  <2>8. HeldIn(Activate2(a, c)) \subseteq Sure(d, Activate2(a, c), fa, fn)
    BY <1>0, <2>6, <2>7, Activate2Is
  <2>9. PICK u : u = put(c, Link, a)
    OBVIOUS
  <2>10. Upcoming(Activate2(a, c)) = u
    BY <2>9, Activate2Is
  <2>11. u.call = "put" /\ u.value = a
    BY <1>0, <2>9, PlaceCalls
  <2>12. activeContext \in Sure(d, Activate2(a, c), fa, fn) /\ newProcess \in Sure(d, Activate2(a, c), fa, fn)
    BY <1>0, <1>3, <2>6, <2>7
  <2>13. u.value \in {Immediate, NilPointer} \/ (u.value \in Oop /\ Owed(Activate2(a, c), u.value) + Is(fa, u.value) + Is(fn, u.value) >= 1)
    BY <1>0, <1>3, <2>4, <2>11, IsOne DEF Pointer
  <2>14. d.object \in Sure(d, Activate2(a, c), fa, fn)
    BY <1>0, <2>2, <2>6, <2>7
  <2>15. FreesRightly(fa, fn)
    BY <2>1, <2>2, <2>3, <2>5, <2>8, <2>10, <2>11, <2>12, <2>13, <2>14, FreesWhen
  <2> QED  BY <1>3, <2>1, <2>2, <2>3, <2>15, DownPasses DEF Activating
<1>4. CASE todo = Activate2(a, c) /\ a = activeContext
  <2>1. Activate3(a, c) \in Seq(CallRecord)
    BY Activate3Is
  <2>2. ASSUME Advances PROVE a \in PointersOf(field', c)
    BY <1>0, <1>4, <2>1, <2>2, PutPasses, WrittenIs DEF PointersOf, Activate2
  <2> QED  BY <1>0, <1>4, <2>1, <2>2, PutPasses DEF Activating, Activate2
<1>5. CASE todo = Activate3(a, c) /\ a = activeContext /\ a \in PointersOf(field, c)
  <2>0. PICK d : d = countDown(a)
    OBVIOUS
  <2>1. Owed(Activate4(c), a) = 0 - Is(c, a)
    BY Activate4Is
  <2>2. ReferencesFrom(field, Oop, a) + (OwedBy(d, a) + Owed(Activate4(c), a)) + Is(fa, a) + Is(fn, a) >= 2
    BY <1>0, <1>5, <2>0, <2>1, CountingCalls, HasReference, IsOne
  <2>3. d \in CallRecord /\ d.call = "countDown" /\ LoweredBy(field, d) = a
    BY <1>0, <2>0, CountingCalls DEF LoweredBy
  <2>4. todo = Then(d, Activate4(c)) /\ Activate4(c) \in Seq(CallRecord)
    BY <1>5, <2>0, Activate4Is DEF Activate3
  <2>5. FreesRightly(fa, fn)
    BY <2>2, <2>3, <2>4, FreesNothing
  <2>6. Advances => todo' = Activate4(c) /\ newProcess' = newProcess
    BY <2>3, <2>4, <2>5, DownPasses
  <2> QED  BY <1>0, <2>5, <2>6 DEF Activating
<1>6. CASE todo = Activate4(c)
  BY <1>0, <1>6, Activate5Is, RegisterPasses DEF Activate4, Activating
<1>7. CASE todo = Activate5(c) /\ activeContext = c
  BY <1>0, <1>1, <1>7, UpPasses DEF Activate5, Activating
<1> QED  BY <1>2, <1>3, <1>4, <1>5, <1>6, <1>7 DEF Activating

LEMMA ReturningAdvances ==
  ASSUME Always, NEW fa \in Oop, NEW fn \in Oop, Counted(field, count, todo, inHand, fa, fn),
         NEW a \in Oop, NEW c \in Oop, NEW t \in Nat, NEW v \in Pointer, Returning(a, c, t, v), fa = c, fn = newProcess
  PROVE  /\ FreesRightly(fa, fn)
         /\ Advances /\ Always' => /\ fa = c /\ fn = newProcess'
                                   /\ \/ Returning(a, c, t, v)'
                                      \/ todo' = <<>> /\ fa = activeContext'
<1>0. /\ activeContext \in Oop /\ newProcess \in Oop /\ field \in Heap /\ Oop \subseteq Pointer
      /\ Immediate \in Pointer /\ Link \in Nat /\ NilPointer \in Oop /\ SmalltalkPointer \in Oop
      /\ Immediate \notin Oop /\ fa \in Oop /\ fn \in Oop
  BY RefCountsAssumption, OopAssumption DEF Always, Typed, Pointer, Link
<1>1. PICK e \in Seq(CallRecord) : e = <<>> /\ HeldIn(e) = {} /\ Upcoming(e).call = "abort" /\ \A x : Owed(e, x) = 0
  BY NoCalls
<1>2. CASE todo = Return0(a, c, t, v) /\ a = activeContext /\ field[a][Link] = c
  <2>1. Return1(a, c, t, v) \in Seq(CallRecord)
    BY Return1Is
  <2> QED  BY <1>0, <1>2, <2>1, UpPasses DEF Returning, Return0
<1>3. CASE todo = Return1(a, c, t, v) /\ a = activeContext /\ field[a][Link] = c
  <2>1. Return2(a, c, t, v) \in Seq(CallRecord)
    BY Return2Is
  <2> QED  BY <1>0, <1>3, <2>1, UpPasses DEF Returning, Return1
<1>4. CASE todo = Return2(a, c, t, v) /\ a = activeContext /\ field[a][Link] = c
  <2>1. Return3(a, c, t, v) \in Seq(CallRecord)
    BY Return3Is
  <2> QED  BY <1>0, <1>4, <2>1, UpPasses DEF Returning, Return2
<1>5. CASE todo = Return3(a, c, t, v) /\ a = activeContext /\ field[a][Link] = c
  <2>1. Return4(a, c, t, v) \in Seq(CallRecord)
    BY Return4Is
  <2>0. PICK d : d = countDownField(a, Link)
    OBVIOUS
  <2>2. d \in CallRecord /\ d.call = "countDownField" /\ d.object = a /\ d.index = Link /\ d.value = Immediate
    BY <1>0, <2>0, PlaceCalls
  <2>3. Owed(Return4(a, c, t, v), c) >= 0 /\ Owed(Return4(a, c, t, v), c) \in Int
    <3>1. \A x : Owed(Return4(a, c, t, v), x) = Is(v, x) + Is(a, x) + Is(NilPointer, x)
      BY Return4Is
    <3> QED  BY <3>1, IsOne
  <2>4. OwedBy(d, c) = 0
    BY <1>0, <2>0, PlaceCalls
  <2>5. ReferencesFrom(field, Oop, c) \in Nat /\ ReferencesFrom(field, Oop, c) >= 1
    BY <1>0, <1>5, <2>0, <2>1, <2>2, AtCall, FirstCall, HasReference DEF PointersOf, Callable,
       IsPlace, Return3
  <2>6. ReferencesFrom(field, Oop, c) + (OwedBy(d, c) + Owed(Return4(a, c, t, v), c)) + Is(fa, c) + Is(fn, c) >= 2
    BY <1>5, <2>3, <2>4, <2>5, IsOne
  <2> QED
    BY <1>5, <2>0, <2>1, <2>2, <2>6, FreesNothing, DownPasses DEF Returning, LoweredBy, Return3
<1>6. CASE todo = Return4(a, c, t, v) /\ a = activeContext
  <2>1. Return5(a, c, t, v) \in Seq(CallRecord)
    BY Return5Is
  <2> QED  BY <1>0, <1>6, <2>1, PutPasses DEF Returning, Return4
<1>7. CASE todo = Return5(a, c, t, v) /\ a = activeContext
  <2>1. Return6(c, t, v) \in Seq(CallRecord)
    BY Return6Is
  <2>0. PICK d : d = countDown(a)
    OBVIOUS
  <2>2. d \in CallRecord /\ d.call = "countDown" /\ d.value = a
    BY <1>0, <2>0, CountingCalls
  <2>3. todo = Then(d, Return6(c, t, v))
    BY <1>7, <2>0 DEF Return5
  <2>4. \A x : Owed(Return6(c, t, v), x) = Is(v, x)
    BY Return6Is
  <2>5. \A x : Owed(Return6(c, t, v), x) + Is(fa, x) + Is(fn, x) >= 0
    BY <1>7, <2>4, IsOne
  <2>6. \A x : x \in {v, c, fn} => Owed(Return6(c, t, v), x) + Is(fa, x) + Is(fn, x) >= 1
    BY <1>7, <2>4, IsOne
  <2>7. HeldIn(Return6(c, t, v)) = ({v, NilPointer, c} \intersect Oop)
    BY Return6Is
  <2>8. HeldIn(Return6(c, t, v)) \subseteq Sure(d, Return6(c, t, v), fa, fn)
    BY <1>0, <2>1, <2>2, <2>3, <2>6, <2>7, SureIs
  <2>9. PICK u : u = setActiveContext(c)
    OBVIOUS
  <2>10. Upcoming(Return6(c, t, v)) = u
    BY <2>9, Return6Is
  <2>11. u.call = "activeContext" /\ u.value = c
    BY <1>0, <2>9, RegisterCalls
  <2>12. c \in Sure(d, Return6(c, t, v), fa, fn) /\ newProcess \in Sure(d, Return6(c, t, v), fa, fn)
    BY <1>0, <1>7, <2>1, <2>2, <2>3, <2>6, SureIs
  <2>13. FreesRightly(fa, fn)
    BY <2>1, <2>2, <2>3, <2>5, <2>8, <2>10, <2>11, <2>12, FreesWhen
  <2> QED  BY <1>7, <2>1, <2>2, <2>3, <2>13, DownPasses DEF Returning
<1>8. CASE todo = Return6(c, t, v)
  <2>1. Return7(c, t, v) \in Seq(CallRecord)
    BY Return7Is
  <2> QED  BY <1>0, <1>8, <2>1, RegisterPasses DEF Returning, Return6
<1>9. CASE todo = Return7(c, t, v) /\ activeContext = c
  <2>1. Return8(c, t, v) \in Seq(CallRecord)
    BY Return8Is
  <2> QED  BY <1>0, <1>9, <2>1, UpPasses DEF Returning, Return7
<1>10. CASE todo = Return8(c, t, v) /\ activeContext = c
  <2>1. Return9(c, t, v) \in Seq(CallRecord)
    BY Return9Is
  <2>0. PICK d : d = countDownField(c, t)
    OBVIOUS
  <2>2. d \in CallRecord /\ d.call = "countDownField" /\ d.object = c /\ d.index = t /\ d.value = Immediate
    BY <1>0, <2>0, PlaceCalls
  <2>3. todo = Then(d, Return9(c, t, v))
    BY <1>10, <2>0 DEF Return8
  <2>4. \A x : Owed(Return9(c, t, v), x) = Is(v, x) + Is(v, x)
    BY Return9Is
  <2>5. \A x : Owed(Return9(c, t, v), x) + Is(fa, x) + Is(fn, x) >= 0
    BY <1>10, <2>4, IsOne
  <2>6. \A x : x \in {v, c, fn} => Owed(Return9(c, t, v), x) + Is(fa, x) + Is(fn, x) >= 1
    BY <1>10, <2>4, IsOne
  <2>7. HeldIn(Return9(c, t, v)) = ({v, NilPointer, c} \intersect Oop)
    BY Return9Is
  <2>8. HeldIn(Return9(c, t, v)) \subseteq Sure(d, Return9(c, t, v), fa, fn)
    BY <1>0, <2>1, <2>2, <2>3, <2>6, <2>7, SureIs
  <2>9. PICK u : u = put(c, t, v)
    OBVIOUS
  <2>10. Upcoming(Return9(c, t, v)) = u
    BY <2>9, Return9Is
  <2>11. u.call = "put" /\ u.value = v
    BY <1>0, <2>9, PlaceCalls
  <2>12. activeContext \in Sure(d, Return9(c, t, v), fa, fn) /\ newProcess \in Sure(d, Return9(c, t, v), fa, fn)
    BY <1>0, <1>10, <2>1, <2>2, <2>3, <2>6, SureIs
  <2>13. u.value \in {Immediate, NilPointer} \/ (u.value \in Oop /\ Owed(Return9(c, t, v), u.value) + Is(fa, u.value) + Is(fn, u.value) >= 1)
    BY <1>0, <2>6, <2>11 DEF Pointer
  <2>14. d.object \in Sure(d, Return9(c, t, v), fa, fn)
    BY <1>0, <2>1, <2>2, <2>3, <2>6, SureIs
  <2>15. FreesRightly(fa, fn)
    BY <2>1, <2>2, <2>3, <2>5, <2>8, <2>10, <2>11, <2>12, <2>13, <2>14, FreesWhen
  <2> QED  BY <1>10, <2>1, <2>2, <2>3, <2>15, DownPasses DEF Returning
<1>11. CASE todo = Return9(c, t, v) /\ activeContext = c
  BY <1>0, <1>11, Return10Is, PutPasses DEF Returning, Return9
<1>12. CASE todo = Return10(v) /\ activeContext = c
  <2>1. e \in Seq(CallRecord)
    BY <1>1
  <2>0. PICK d : d = countDown(v)
    OBVIOUS
  <2>2. d \in CallRecord /\ d.call = "countDown" /\ d.value = v
    BY <1>0, <2>0, CountingCalls
  <2>3. todo = Then(d, e)
    BY <1>1, <1>12, <2>0 DEF Return10
  <2>4. \A x : Owed(e, x) = 0
    BY <1>1
  <2>5. \A x : Owed(e, x) + Is(fa, x) + Is(fn, x) >= 0
    BY <1>12, <2>4, IsOne
  <2>6. activeContext \in Sure(d, e, fa, fn) /\ newProcess \in Sure(d, e, fa, fn)
    BY <1>0, <1>12, <2>1, <2>2, <2>3, <2>4, IsOne, SureIs
  <2>7. FreesRightly(fa, fn)
    BY <1>1, <2>1, <2>2, <2>3, <2>5, <2>6, FreesWhen
  <2>8. Advances => /\ todo' = e /\ Spares
                      /\ activeContext' = activeContext /\ newProcess' = newProcess
    BY <2>1, <2>2, <2>3, <2>7, DownPasses
  <2> QED  BY <1>1, <1>12, <2>7, <2>8 DEF Returning
<1> QED  BY <1>2, <1>3, <1>4, <1>5, <1>6, <1>7, <1>8, <1>9, <1>10, <1>11, <1>12 DEF Returning

LEMMA TransferringAdvances ==
  ASSUME Always, NEW fa \in Oop, NEW fn \in Oop, Counted(field, count, todo, inHand, fa, fn),
         NEW q \in Oop, NEW p \in Oop, Transferring(q, p), fa = activeContext, fn = p
  PROVE  /\ FreesRightly(fa, fn)
         /\ Advances /\ Always' => /\ fa = activeContext' /\ fn = p
                                   /\ \/ Transferring(q, p)'
                                      \/ todo' = <<>> /\ fn = newProcess'
<1>0. /\ activeContext \in Oop /\ newProcess \in Oop /\ field \in Heap /\ Oop \subseteq Pointer
      /\ Immediate \in Pointer /\ Link \in Nat /\ NilPointer \in Oop /\ SmalltalkPointer \in Oop
      /\ Immediate \notin Oop /\ fa \in Oop /\ fn \in Oop
  BY RefCountsAssumption, OopAssumption DEF Always, Typed, Pointer, Link
<1>1. PICK e \in Seq(CallRecord) : e = <<>> /\ HeldIn(e) = {} /\ Upcoming(e).call = "abort" /\ \A x : Owed(e, x) = 0
  BY NoCalls
<1>2. CASE todo = Transfer0(q, p) /\ q = newProcess /\ p \in ReachedFrom(field, Base)
  <2>1. Transfer1(p) \in Seq(CallRecord)
    BY Transfer1Is
  <2>0. PICK d : d = countDown(q)
    OBVIOUS
  <2>2. d \in CallRecord /\ d.call = "countDown" /\ d.value = q
    BY <1>0, <2>0, CountingCalls
  <2>3. todo = Then(d, Transfer1(p))
    BY <1>2, <2>0 DEF Transfer0
  <2>4. \A x : Owed(Transfer1(p), x) = 0 - Is(p, x)
    BY Transfer1Is
  <2>5. \A x : Owed(Transfer1(p), x) + Is(fa, x) + Is(fn, x) >= 0
    BY <1>2, <2>4, IsOne
  <2>6. \A x : x \in {activeContext} => Owed(Transfer1(p), x) + Is(fa, x) + Is(fn, x) >= 1
    BY <1>2, <2>4, IsOne
  <2>7. p \in Sure(d, Transfer1(p), fa, fn)
    BY <1>0, <1>2, <2>1, <2>2, <2>3, <2>6, SureIs, SureReaches DEF Base
  <2>8. HeldIn(Transfer1(p)) = ({p, NilPointer} \intersect Oop)
    BY Transfer1Is
  <2>9. HeldIn(Transfer1(p)) \subseteq Sure(d, Transfer1(p), fa, fn)
    BY <1>0, <2>1, <2>2, <2>3, <2>6, <2>7, <2>8, SureIs
  <2>10. PICK u : u = setNewProcess(p)
    OBVIOUS
  <2>11. Upcoming(Transfer1(p)) = u
    BY <2>10, Transfer1Is
  <2>12. u.call = "newProcess" /\ u.value = p
    BY <1>0, <2>10, RegisterCalls
  <2>13. p \in Sure(d, Transfer1(p), fa, fn) /\ activeContext \in Sure(d, Transfer1(p), fa, fn)
    BY <1>0, <1>2, <2>1, <2>2, <2>3, <2>6, <2>7, SureIs
  <2>14. FreesRightly(fa, fn)
    BY <2>1, <2>2, <2>3, <2>5, <2>9, <2>11, <2>12, <2>13, FreesWhen
  <2> QED  BY <1>2, <2>1, <2>2, <2>3, <2>14, DownPasses DEF Transferring
<1>3. CASE todo = Transfer1(p)
  BY <1>0, <1>3, Transfer2Is, RegisterPasses DEF Transferring, Transfer1
<1>4. CASE todo = Transfer2(p) /\ newProcess = p
  <2>1. e \in Seq(CallRecord)
    BY <1>1
  <2>2. todo = Then(countUp(p), e)
    BY <1>1, <1>4 DEF Transfer2
  <2>3. /\ FreesRightly(fa, fn)
        /\ Advances => /\ todo' = e /\ field' = field
                       /\ Zero \subseteq Zero' \union ({p} \intersect Oop)
                       /\ activeContext' = activeContext /\ newProcess' = newProcess
    BY <1>0, <2>1, <2>2, UpPasses
  <2> QED  BY <1>1, <1>4, <2>3 DEF Transferring
<1> QED  BY <1>2, <1>3, <1>4 DEF Transferring

LEMMA WakeAfterIs ==
  ASSUME NEW q \in Oop, NEW p \in Oop
  PROVE  /\ WakeAfter(q, p) \in Seq(CallRecord)
         /\ \A x : Owed(WakeAfter(q, p), x) \in Int /\ Owed(WakeAfter(q, p), x) >= 0
         /\ \A x : x # NilPointer => Owed(WakeAfter(q, p), x) = Is(q, x)
         /\ HeldIn(WakeAfter(q, p)) \subseteq {q, p, NilPointer}
<1>1. PICK s : s = Wake4(p)
  OBVIOUS
<1>2. s \in Seq(CallRecord)
  BY <1>1, Wake4Is
<1>3. (\A x : Owed(s, x) = 0) /\ HeldIn(s) \subseteq {p, NilPointer}
  BY <1>1, Wake4Is
<1>4. CASE q # NilPointer
  BY <1>1, <1>2, <1>3, <1>4, RefCountsAssumption, DownBefore, IsOne DEF Pointer, Link, WakeAfter
<1>5. CASE q = NilPointer
  BY <1>1, <1>2, <1>3, <1>5, IsOne DEF WakeAfter
<1> QED  BY <1>4, <1>5

LEMMA Wake3Is ==
  ASSUME NEW l \in Oop, NEW q \in Oop, NEW p \in Oop
  PROVE  /\ Wake3(l, q, p) \in Seq(CallRecord) /\ Upcoming(Wake3(l, q, p)) = put(l, Link, NilPointer)
         /\ \A x : Owed(Wake3(l, q, p), x) \in Int /\ Owed(Wake3(l, q, p), x) >= 0
         /\ \A x : x # NilPointer => Owed(Wake3(l, q, p), x) = Is(q, x)
         /\ HeldIn(Wake3(l, q, p)) \subseteq {l, q, p, NilPointer}
<1>1. PICK s : s = WakeAfter(q, p)
  OBVIOUS
<1>2. s \in Seq(CallRecord)
  BY <1>1, WakeAfterIs
<1>3. (\A x : x # NilPointer => Owed(s, x) = Is(q, x)) /\ HeldIn(s) \subseteq {l, q, p, NilPointer}
  <2>1. \A x : x # NilPointer => Owed(s, x) = Is(q, x)
    BY <1>1, WakeAfterIs
  <2> QED  BY <1>1, <2>1, WakeAfterIs
<1>4. /\ Wake3(l, q, p) \in Seq(CallRecord) /\ Upcoming(Wake3(l, q, p)) = put(l, Link, NilPointer)
      /\ \A x : Owed(Wake3(l, q, p), x) = Owed(s, x) + Is(NilPointer, x)
      /\ HeldIn(Wake3(l, q, p)) = ({NilPointer, l} \intersect Oop) \union HeldIn(s)
  BY <1>1, <1>2, RefCountsAssumption, PutBefore DEF Wake3, Pointer, Link
<1>5. \A x : Owed(Wake3(l, q, p), x) \in Int /\ Owed(Wake3(l, q, p), x) >= 0
  <2>1. \A x : Owed(s, x) \in Int /\ Owed(s, x) >= 0
    BY <1>1, WakeAfterIs
  <2> QED  BY <1>4, <2>1, IsOne
<1> QED  BY <1>3, <1>4, <1>5, RefCountsAssumption, IsOne DEF Pointer, Link

LEMMA Wake2Is ==
  ASSUME NEW l \in Oop, NEW q \in Oop, NEW p \in Oop
  PROVE  /\ Wake2(l, q, p) \in Seq(CallRecord) /\ Upcoming(Wake2(l, q, p)) = countDownField(l, Link)
         /\ \A x : x # NilPointer => Owed(Wake2(l, q, p), x) = Is(q, x)
         /\ HeldIn(Wake2(l, q, p)) \subseteq {l, q, p, NilPointer}
<1>1. PICK s : s = Wake3(l, q, p)
  OBVIOUS
<1>2. s \in Seq(CallRecord)
  BY <1>1, Wake3Is
<1>3. (\A x : x # NilPointer => Owed(s, x) = Is(q, x)) /\ HeldIn(s) \subseteq {l, q, p, NilPointer}
  <2>1. \A x : x # NilPointer => Owed(s, x) = Is(q, x)
    BY <1>1, Wake3Is
  <2> QED  BY <1>1, <2>1, Wake3Is
<1> QED  BY <1>1, <1>2, <1>3, RefCountsAssumption, FieldBefore, IsOne DEF Wake2, Pointer, Link

LEMMA Wake1Is ==
  ASSUME NEW l \in Oop, NEW q \in Oop, NEW p \in Oop
  PROVE  /\ Wake1(l, q, p) \in Seq(CallRecord) /\ Upcoming(Wake1(l, q, p)) = countUp(NilPointer)
         /\ \A x : x # NilPointer => Owed(Wake1(l, q, p), x) = Is(q, x)
         /\ HeldIn(Wake1(l, q, p)) \subseteq {l, q, p, NilPointer}
<1>1. PICK s : s = Wake2(l, q, p)
  OBVIOUS
<1>2. s \in Seq(CallRecord)
  BY <1>1, Wake2Is
<1>3. (\A x : x # NilPointer => Owed(s, x) = Is(q, x)) /\ HeldIn(s) \subseteq {l, q, p, NilPointer}
  <2>1. \A x : x # NilPointer => Owed(s, x) = Is(q, x)
    BY <1>1, Wake2Is
  <2> QED  BY <1>1, <2>1, Wake2Is
<1> QED  BY <1>1, <1>2, <1>3, RefCountsAssumption, UpBefore, IsOne DEF Wake1, Pointer, Link

LEMMA Wake0Is ==
  ASSUME NEW l \in Oop, NEW q \in Oop, NEW p \in Oop
  PROVE  /\ Wake0(l, q, p) \in Seq(CallRecord) /\ Upcoming(Wake0(l, q, p)) = countUp(p)
         /\ \A x : x # NilPointer => Owed(Wake0(l, q, p), x) = Is(q, x) - Is(p, x)
         /\ HeldIn(Wake0(l, q, p)) \subseteq {l, q, p, NilPointer}
<1>1. PICK s : s = Wake1(l, q, p)
  OBVIOUS
<1>2. s \in Seq(CallRecord)
  BY <1>1, Wake1Is
<1>3. (\A x : x # NilPointer => Owed(s, x) = Is(q, x)) /\ HeldIn(s) \subseteq {l, q, p, NilPointer}
  <2>1. \A x : x # NilPointer => Owed(s, x) = Is(q, x)
    BY <1>1, Wake1Is
  <2> QED  BY <1>1, <2>1, Wake1Is
<1> QED  BY <1>1, <1>2, <1>3, RefCountsAssumption, UpBefore, IsOne DEF Wake0, Pointer, Link

LEMMA WakingAdvances ==
  ASSUME Always, NEW fa \in Oop, NEW fn \in Oop, Counted(field, count, todo, inHand, fa, fn),
         NEW l \in Oop, NEW q \in Oop, NEW p \in Oop, Waking(l, q, p), fn = p, fa = activeContext
  PROVE  /\ FreesRightly(fa, fn)
         /\ Advances /\ Always' => /\ fa = activeContext' /\ fn = p
                                   /\ \/ Waking(l, q, p)'
                                      \/ todo' = <<>> /\ fn = newProcess'
<1>0. /\ activeContext \in Oop /\ newProcess \in Oop /\ field \in Heap /\ Oop \subseteq Pointer
      /\ Immediate \in Pointer /\ Link \in Nat /\ NilPointer \in Oop /\ SmalltalkPointer \in Oop
      /\ Immediate \notin Oop /\ fa \in Oop /\ fn \in Oop
  BY RefCountsAssumption, OopAssumption DEF Always, Typed, Pointer, Link
<1>1. PICK e \in Seq(CallRecord) : e = <<>> /\ HeldIn(e) = {} /\ Upcoming(e).call = "abort" /\ \A x : Owed(e, x) = 0
  BY NoCalls
<1>2. CASE todo = Wake0(l, q, p) /\ q = newProcess /\ field[l][Link] = p
  <2>1. Wake1(l, q, p) \in Seq(CallRecord)
    BY Wake1Is
  <2> QED  BY <1>0, <1>2, <2>1, UpPasses DEF Waking, Wake0
<1>3. CASE todo = Wake1(l, q, p) /\ q = newProcess /\ field[l][Link] = p
  <2>1. Wake2(l, q, p) \in Seq(CallRecord)
    BY Wake2Is
  <2> QED  BY <1>0, <1>3, <2>1, UpPasses DEF Waking, Wake1
<1>4. CASE todo = Wake2(l, q, p) /\ q = newProcess /\ field[l][Link] = p
  <2>1. Wake3(l, q, p) \in Seq(CallRecord)
    BY Wake3Is
  <2>0. PICK d : d = countDownField(l, Link)
    OBVIOUS
  <2>2. d \in CallRecord /\ d.call = "countDownField" /\ d.object = l /\ d.index = Link /\ d.value = Immediate
    BY <1>0, <2>0, PlaceCalls
  <2>3. Owed(Wake3(l, q, p), p) >= 0 /\ Owed(Wake3(l, q, p), p) \in Int
    BY Wake3Is
  <2>4. OwedBy(d, p) = 0
    BY <1>0, <2>0, PlaceCalls
  <2>5. Link \in DOMAIN field[l]
    BY <1>4, <2>0, <2>1, <2>2, AtCall, FirstCall DEF Callable, IsPlace, Wake2
  <2>6. ReferencesFrom(field, Oop, p) + (OwedBy(d, p) + Owed(Wake3(l, q, p), p)) + Is(fa, p) + Is(fn, p) >= 2
    BY <1>0, <1>4, <2>3, <2>4, <2>5, HasReference, IsOne DEF PointersOf
  <2> QED  BY <1>4, <2>0, <2>1, <2>2, <2>6, FreesNothing, DownPasses DEF Waking, LoweredBy, Wake2
<1>5. CASE todo = Wake3(l, q, p) /\ q = newProcess
  <2>1. WakeAfter(q, p) \in Seq(CallRecord)
    BY WakeAfterIs
  <2> QED  BY <1>0, <1>5, <2>1, PutPasses DEF Waking, Wake3
<1>6. CASE todo = WakeAfter(q, p) /\ q = newProcess /\ q # NilPointer
  <2>1. Wake4(p) \in Seq(CallRecord)
    BY Wake4Is
  <2>0. PICK d : d = countDown(q)
    OBVIOUS
  <2>2. d \in CallRecord /\ d.call = "countDown" /\ d.value = q
    BY <1>0, <2>0, CountingCalls
  <2>3. todo = Then(d, Wake4(p))
    BY <1>6, <2>0 DEF WakeAfter
  <2>4. \A x : Owed(Wake4(p), x) = 0
    BY Wake4Is
  <2>5. \A x : Owed(Wake4(p), x) + Is(fa, x) + Is(fn, x) >= 0
    BY <1>6, <2>4, IsOne
  <2>6. \A x : x \in {activeContext, p} => Owed(Wake4(p), x) + Is(fa, x) + Is(fn, x) >= 1
    BY <1>6, <2>4, IsOne
  <2>7. HeldIn(Wake4(p)) \subseteq Sure(d, Wake4(p), fa, fn)
    BY <1>0, <2>1, <2>2, <2>3, <2>6, SureIs, Wake4Is
  <2>8. PICK u : u = setNewProcess(p)
    OBVIOUS
  <2>9. Upcoming(Wake4(p)) = u
    BY <2>8, Wake4Is
  <2>10. u.call = "newProcess" /\ u.value = p
    BY <1>0, <2>8, RegisterCalls
  <2>11. p \in Sure(d, Wake4(p), fa, fn) /\ activeContext \in Sure(d, Wake4(p), fa, fn)
    BY <1>0, <1>6, <2>1, <2>2, <2>3, <2>6, SureIs
  <2>12. FreesRightly(fa, fn)
    BY <2>1, <2>2, <2>3, <2>5, <2>7, <2>9, <2>10, <2>11, FreesWhen
  <2> QED  BY <1>6, <2>1, <2>2, <2>3, <2>12, DownPasses DEF Waking
<1>7. CASE todo = Wake4(p)
  BY <1>0, <1>7, Wake5Is, RegisterPasses DEF Waking, Wake4
<1>8. CASE todo = Wake5(p) /\ newProcess = p
  BY <1>0, <1>8, Wake6Is, UpPasses DEF Wake5, Waking
<1>9. CASE todo = Wake6(p) /\ newProcess = p
  <2>1. e \in Seq(CallRecord)
    BY <1>1
  <2>0. PICK d : d = countDown(p)
    OBVIOUS
  <2>2. todo = Then(d, e)
    BY <1>1, <1>9, <2>0 DEF Wake6
  <2>3. ReferencesFrom(field, Oop, p) \in Nat
    BY <1>0, ReferencesAre
  <2>4. ReferencesFrom(field, Oop, p) + (OwedBy(d, p) + Owed(e, p)) + Is(fa, p) + Is(fn, p) >= 2
    BY <1>0, <1>1, <1>9, <2>0, <2>3, CountingCalls, IsOne
  <2>5. FreesRightly(fa, fn)
    BY <1>0, <2>0, <2>1, <2>2, <2>4, CountingCalls, FreesNothing DEF LoweredBy
  <2>6. Advances => /\ todo' = e /\ Spares
                      /\ activeContext' = activeContext /\ newProcess' = newProcess
    BY <1>0, <2>0, <2>1, <2>2, <2>5, CountingCalls, DownPasses
  <2> QED  BY <1>1, <1>9, <2>5, <2>6 DEF Waking
<1>10. CASE todo = WakeAfter(q, p) /\ q = NilPointer
  BY <1>7, <1>10 DEF WakeAfter
<1> QED  BY <1>2, <1>3, <1>4, <1>5, <1>6, <1>7, <1>8, <1>9, <1>10 DEF Waking

LEMMA SwitchingAdvances ==
  ASSUME Always, NEW fa \in Oop, NEW fn \in Oop, Counted(field, count, todo, inHand, fa, fn),
         NEW q \in Oop, NEW a \in Oop, NEW p \in Oop, NEW c \in Oop, Switching(q, a, p, c), fa = c, fn = NilPointer
  PROVE  /\ FreesRightly(fa, fn)
         /\ Advances /\ Always' => /\ fa = c /\ fn = NilPointer
                                   /\ \/ Switching(q, a, p, c)'
                                      \/ todo' = <<>> /\ fa = activeContext' /\ fn = newProcess'
<1>0. /\ activeContext \in Oop /\ newProcess \in Oop /\ field \in Heap /\ Oop \subseteq Pointer
      /\ Immediate \in Pointer /\ Link \in Nat /\ NilPointer \in Oop /\ SmalltalkPointer \in Oop
      /\ Immediate \notin Oop /\ fa \in Oop /\ fn \in Oop
  BY RefCountsAssumption, OopAssumption DEF Always, Typed, Pointer, Link
<1>1. PICK e \in Seq(CallRecord) : e = <<>> /\ HeldIn(e) = {} /\ Upcoming(e).call = "abort" /\ \A x : Owed(e, x) = 0
  BY NoCalls
<1>2. CASE todo = Switch0(q, a, p, c) /\ a = activeContext /\ p = newProcess /\ p # SmalltalkPointer
               /\ q \in PointersOf(field, SmalltalkPointer)
               /\ (IF p = q THEN c = a ELSE c \in PointersOf(field, p))
  <2>1. Switch1(q, a, p, c) \in Seq(CallRecord)
    BY Switch1Is
  <2> QED  BY <1>0, <1>2, <2>1, UpPasses DEF Switching, Switch0
<1>3. CASE todo = Switch1(q, a, p, c) /\ a = activeContext /\ p = newProcess /\ p # SmalltalkPointer
               /\ q \in PointersOf(field, SmalltalkPointer)
               /\ (IF p = q THEN c = a ELSE c \in PointersOf(field, p))
  <2>1. Switch2(q, a, p, c) \in Seq(CallRecord)
    BY Switch2Is
  <2>0. PICK d : d = countDownField(q, Link)
    OBVIOUS
  <2>2. d \in CallRecord /\ d.call = "countDownField" /\ d.object = q /\ d.index = Link /\ d.value = Immediate
    BY <1>0, <2>0, PlaceCalls
  <2>3. todo = Then(d, Switch2(q, a, p, c))
    BY <1>3, <2>0 DEF Switch1
  <2>4. \A x : Owed(Switch2(q, a, p, c), x) = Is(a, x) + Is(p, x) + Is(a, x) - Is(c, x)
    BY Switch2Is
  <2>5. \A x \in Oop \ {NilPointer} : Owed(Switch2(q, a, p, c), x) + Is(fa, x) + Is(fn, x) >= 0
    BY <1>3, <2>4, IsOne
  <2>6. ({a, p, NilPointer, SmalltalkPointer} \intersect Oop) \subseteq Sure(d, Switch2(q, a, p, c), fa, fn)
    BY <1>3, <2>1, <2>2, <2>3, <2>4, IsOne, SureIs
  <2>7. HeldIn(Switch2(q, a, p, c)) = ({NilPointer, p, c, a, SmalltalkPointer, q} \intersect Oop)
    BY Switch2Is
  <2>8. HeldIn(Switch2(q, a, p, c)) \subseteq Sure(d, Switch2(q, a, p, c), fa, fn)
    BY <1>0, <1>3, <2>1, <2>2, <2>3, <2>6, <2>7, SureIs
  <2>9. PICK u : u = put(q, Link, a)
    OBVIOUS
  <2>10. Upcoming(Switch2(q, a, p, c)) = u
    BY <2>9, Switch2Is
  <2>11. u.call = "put" /\ u.value = a
    BY <1>0, <2>9, PlaceCalls
  <2>12. activeContext \in Sure(d, Switch2(q, a, p, c), fa, fn) /\ newProcess \in Sure(d, Switch2(q, a, p, c), fa, fn)
    BY <1>0, <1>3, <2>1, <2>2, <2>3, <2>6, SureIs
  <2>13. u.value \in {Immediate, NilPointer} \/ (u.value \in Oop /\ Owed(Switch2(q, a, p, c), u.value) + Is(fa, u.value) + Is(fn, u.value) >= 1)
    BY <1>0, <1>3, <2>4, <2>11, IsOne DEF Pointer
  <2>14. d.object \in Sure(d, Switch2(q, a, p, c), fa, fn)
    BY <1>0, <1>3, <2>1, <2>2, <2>3, <2>6, SureIs
  <2>15. FreesRightly(fa, fn)
    BY <2>1, <2>2, <2>3, <2>5, <2>8, <2>10, <2>11, <2>12, <2>13, <2>14, FreesWhen
  <2>16. ASSUME Advances PROVE q \in PointersOf(field', SmalltalkPointer) /\ (IF p = q THEN c = a ELSE c \in PointersOf(field', p))
    <3>1. Spares /\ todo # <<>> /\ Tail(todo) = Switch2(q, a, p, c)
      BY <2>1, <2>2, <2>3, <2>15, <2>16, DownPasses, AtCall
    <3>2. HeldIn(Switch2(q, a, p, c)) \subseteq Roots /\ Roots \subseteq ReachedFrom(Graph, Roots)
      BY <3>1, FirstHolds
    <3>3. field'[p] = field[p] /\ field'[SmalltalkPointer] = field[SmalltalkPointer]
      BY <1>0, <2>7, <3>1, <3>2 DEF Spares
    <3> QED  BY <1>3, <3>3 DEF PointersOf
  <2> QED  BY <1>3, <2>1, <2>2, <2>3, <2>15, <2>16, DownPasses DEF Switching
<1>4. CASE todo = Switch2(q, a, p, c) /\ a = activeContext /\ p = newProcess /\ p # SmalltalkPointer
               /\ q \in PointersOf(field, SmalltalkPointer)
               /\ (IF p = q THEN c = a ELSE c \in PointersOf(field, p))
  <2>1. Switch3(a, p, c) \in Seq(CallRecord)
    BY Switch3Is
  <2>2. ASSUME Advances PROVE c \in PointersOf(field', p)
    <3>1. Link \in DOMAIN field'[q] /\ field'[q][Link] = a /\ \A r \in Oop \ {q} : field'[r] = field[r]
      BY <1>0, <1>4, <2>1, <2>2, PutPasses, WrittenIs DEF Switch2
    <3>2. CASE p = q
      BY <1>0, <1>4, <3>1, <3>2 DEF PointersOf
    <3>3. CASE p # q
      BY <1>0, <1>4, <3>1, <3>3 DEF PointersOf
    <3> QED  BY <3>2, <3>3
  <2> QED  BY <1>0, <1>4, <2>1, <2>2, PutPasses DEF Switching, Switch2
<1>5. CASE todo = Switch3(a, p, c) /\ a = activeContext /\ p = newProcess /\ p # SmalltalkPointer
               /\ c \in PointersOf(field, p)
  <2>1. Switch4(a, p, c) \in Seq(CallRecord)
    BY Switch4Is
  <2> QED  BY <1>0, <1>5, <2>1, UpPasses DEF Switching, Switch3
<1>6. CASE todo = Switch4(a, p, c) /\ a = activeContext /\ p = newProcess /\ p # SmalltalkPointer
               /\ c \in PointersOf(field, p)
  <2>1. Switch5(a, p, c) \in Seq(CallRecord)
    BY Switch5Is
  <2>0. PICK d : d = countDownField(SmalltalkPointer, Link)
    OBVIOUS
  <2>2. d \in CallRecord /\ d.call = "countDownField" /\ d.object = SmalltalkPointer /\ d.index = Link /\ d.value = Immediate
    BY <1>0, <2>0, PlaceCalls
  <2>3. todo = Then(d, Switch5(a, p, c))
    BY <1>6, <2>0 DEF Switch4
  <2>4. \A x : Owed(Switch5(a, p, c), x) = Is(p, x) + Is(a, x) + Is(p, x) - Is(c, x)
    BY Switch5Is
  <2>5. \A x \in Oop \ {NilPointer} : Owed(Switch5(a, p, c), x) + Is(fa, x) + Is(fn, x) >= 0
    BY <1>6, <2>4, IsOne
  <2>6. ({a, p, NilPointer, SmalltalkPointer} \intersect Oop) \subseteq Sure(d, Switch5(a, p, c), fa, fn)
    BY <1>6, <2>1, <2>2, <2>3, <2>4, IsOne, SureIs
  <2>7. c \in Sure(d, Switch5(a, p, c), fa, fn)
    BY <1>0, <1>6, <2>1, <2>2, <2>3, <2>6, SureIs
  <2>8. HeldIn(Switch5(a, p, c)) \subseteq Sure(d, Switch5(a, p, c), fa, fn)
    BY <1>0, <2>6, <2>7, Switch5Is
  <2>9. PICK u : u = put(SmalltalkPointer, Link, p)
    OBVIOUS
  <2>10. Upcoming(Switch5(a, p, c)) = u
    BY <2>9, Switch5Is
  <2>11. u.call = "put" /\ u.value = p
    BY <1>0, <2>9, PlaceCalls
  <2>12. activeContext \in Sure(d, Switch5(a, p, c), fa, fn) /\ newProcess \in Sure(d, Switch5(a, p, c), fa, fn)
    BY <1>0, <1>6, <2>6, <2>7
  <2>13. u.value \in {Immediate, NilPointer} \/ (u.value \in Oop /\ Owed(Switch5(a, p, c), u.value) + Is(fa, u.value) + Is(fn, u.value) >= 1)
    BY <1>0, <1>6, <2>4, <2>11, IsOne DEF Pointer
  <2>14. d.object \in Sure(d, Switch5(a, p, c), fa, fn)
    BY <1>0, <2>2, <2>6, <2>7
  <2>15. FreesRightly(fa, fn)
    BY <2>1, <2>2, <2>3, <2>5, <2>8, <2>10, <2>11, <2>12, <2>13, <2>14, FreesWhen
  <2>16. ASSUME Advances PROVE c \in PointersOf(field', p)
    <3>1. Spares /\ todo # <<>> /\ Tail(todo) = Switch5(a, p, c)
      BY <2>1, <2>2, <2>3, <2>15, <2>16, DownPasses, AtCall
    <3>2. HeldIn(Switch5(a, p, c)) \subseteq Roots /\ Roots \subseteq ReachedFrom(Graph, Roots)
      BY <3>1, FirstHolds
    <3>3. field'[p] = field[p]
      BY <1>0, <3>1, <3>2, Switch5Is DEF Spares
    <3> QED  BY <1>6, <3>3 DEF PointersOf
  <2> QED  BY <1>6, <2>1, <2>2, <2>3, <2>15, <2>16, DownPasses DEF Switching
<1>7. CASE todo = Switch5(a, p, c) /\ a = activeContext /\ p = newProcess /\ p # SmalltalkPointer
               /\ c \in PointersOf(field, p)
  <2>1. Switch6(a, p, c) \in Seq(CallRecord)
    BY Switch6Is
  <2>2. ASSUME Advances PROVE c \in PointersOf(field', p)
    <3>2. PICK m, i : m = SmalltalkPointer /\ i = Link
      OBVIOUS
    <3>3. m \in Oop /\ i \in Nat /\ p \in Pointer
      BY <1>0, <3>2
    <3>4. todo = Then(put(m, i, p), Switch6(a, p, c))
      BY <1>7, <3>2 DEF Switch5
    <3>5. field' = Written(field, m, i, p) /\ i \in DOMAIN field[m]
      BY <2>1, <2>2, <3>3, <3>4, PutPasses
    <3>6. field \in Heap
      BY DEF Always, Typed
    <3>1. \A r \in Oop \ {m} : field'[r] = field[r]
      BY ONLY <3>3, <3>5, <3>6, WrittenIs
    <3> QED  BY <1>0, <1>7, <3>1, <3>2 DEF PointersOf
  <2> QED  BY <1>0, <1>7, <2>1, <2>2, PutPasses DEF Switching, Switch5
<1>8. CASE todo = Switch6(a, p, c) /\ a = activeContext /\ p = newProcess /\ p # SmalltalkPointer
               /\ c \in PointersOf(field, p)
  <2>1. Switch7(p, c) \in Seq(CallRecord)
    BY Switch7Is
  <2>0. PICK d : d = countDown(a)
    OBVIOUS
  <2>2. d \in CallRecord /\ d.call = "countDown" /\ d.value = a
    BY <1>0, <2>0, CountingCalls
  <2>3. todo = Then(d, Switch7(p, c))
    BY <1>8, <2>0 DEF Switch6
  <2>4. \A x : Owed(Switch7(p, c), x) = Is(p, x) - Is(c, x)
    BY Switch7Is
  <2>5. \A x \in Oop \ {NilPointer} : Owed(Switch7(p, c), x) + Is(fa, x) + Is(fn, x) >= 0
    BY <1>8, <2>4, IsOne
  <2>6. ({p, NilPointer, SmalltalkPointer} \intersect Oop) \subseteq Sure(d, Switch7(p, c), fa, fn)
    BY <1>8, <2>1, <2>2, <2>3, <2>4, IsOne, SureIs
  <2>7. c \in Sure(d, Switch7(p, c), fa, fn)
    BY <1>0, <1>8, <2>1, <2>2, <2>3, <2>6, SureIs
  <2>8. HeldIn(Switch7(p, c)) \subseteq Sure(d, Switch7(p, c), fa, fn)
    BY <1>0, <2>6, <2>7, Switch7Is
  <2>9. PICK u : u = setActiveContext(c)
    OBVIOUS
  <2>10. Upcoming(Switch7(p, c)) = u
    BY <2>9, Switch7Is
  <2>11. u.call = "activeContext" /\ u.value = c
    BY <1>0, <2>9, RegisterCalls
  <2>12. c \in Sure(d, Switch7(p, c), fa, fn) /\ newProcess \in Sure(d, Switch7(p, c), fa, fn)
    BY <1>0, <1>8, <2>6, <2>7
  <2>13. FreesRightly(fa, fn)
    BY <2>1, <2>2, <2>3, <2>5, <2>8, <2>10, <2>11, <2>12, FreesWhen
  <2> QED  BY <1>8, <2>1, <2>2, <2>3, <2>13, DownPasses DEF Switching
<1>9. CASE todo = Switch7(p, c) /\ p = newProcess
  BY <1>0, <1>9, Switch8Is, RegisterPasses DEF Switch7, Switching
<1>10. CASE todo = Switch8(p, c) /\ p = newProcess /\ activeContext = c
  BY <1>0, <1>10, Switch9Is, UpPasses DEF Switch8, Switching
<1>11. CASE todo = Switch9(p) /\ p = newProcess /\ activeContext = c
  <2>1. Switch10 \in Seq(CallRecord)
    BY Switch10Is
  <2>0. PICK d : d = countDown(p)
    OBVIOUS
  <2>2. d \in CallRecord /\ d.call = "countDown" /\ d.value = p
    BY <1>0, <2>0, CountingCalls
  <2>3. todo = Then(d, Switch10)
    BY <1>11, <2>0 DEF Switch9
  <2>4. \A x : Owed(Switch10, x) + Is(fa, x) + Is(fn, x) >= 0
    BY <1>11, Switch10Is, IsOne
  <2>5. HeldIn(Switch10) \subseteq Sure(d, Switch10, fa, fn)
    BY <1>0, <1>11, <2>1, <2>2, <2>3, IsOne, SureIs, Switch10Is
  <2>6. PICK u : u = setNewProcess(NilPointer)
    OBVIOUS
  <2>7. Upcoming(Switch10) = u
    BY <2>6, Switch10Is
  <2>8. u.call = "newProcess" /\ u.value = NilPointer
    BY <1>0, <2>6, RegisterCalls
  <2>9. NilPointer \in Sure(d, Switch10, fa, fn) /\ activeContext \in Sure(d, Switch10, fa, fn)
    BY <1>0, <1>11, <2>1, <2>2, <2>3, Switch10Is, IsOne, SureIs
  <2>10. FreesRightly(fa, fn)
    BY <2>1, <2>2, <2>3, <2>4, <2>5, <2>7, <2>8, <2>9, FreesWhen
  <2> QED  BY <1>11, <2>1, <2>2, <2>3, <2>10, DownPasses DEF Switching
<1>12. CASE todo = Switch10 /\ activeContext = c
  <2>1. e \in Seq(CallRecord)
    BY <1>1
  <2>2. todo = Then(setNewProcess(NilPointer), e)
    BY <1>1, <1>12 DEF Switch10
  <2>3. /\ FreesRightly(fa, fn)
        /\ Advances => /\ todo' = e /\ field' = field /\ Zero' = Zero
                       /\ activeContext' = activeContext /\ newProcess' = NilPointer
    BY <1>0, <2>1, <2>2, RegisterPasses
  <2> QED  BY <1>1, <1>12, <2>3 DEF Switching
<1> QED  BY <1>2, <1>3, <1>4, <1>5, <1>6, <1>7, <1>8, <1>9, <1>10, <1>11, <1>12 DEF Switching

LEMMA AllocatingAdvances ==
  ASSUME Always, NEW fa \in Oop, NEW fn \in Oop, Counted(field, count, todo, inHand, fa, fn),
         fa = activeContext, fn = newProcess,
         NEW n \in Nat, NEW class \in Oop, Allocating(n, class)
  PROVE  /\ FreesRightly(fa, fn)
         /\ Advances /\ Always' /\ inHand' = inHand =>
              fa = activeContext' /\ fn = newProcess' /\ Allocating(n, class)'
<1>1. CASE todo = Allocate0(n, class)
  <2>1. /\ FreesRightly(fa, fn)
        /\ Advances => /\ todo' = Allocate1(n, class) /\ field' = field
                       /\ Zero \subseteq Zero' \union ({class} \intersect Oop)
                       /\ activeContext' = activeContext /\ newProcess' = newProcess
    BY <1>1, Allocate1Is, UpPasses DEF Allocate0, Pointer
  <2>2. ASSUME Advances, inHand' = inHand PROVE Known' = Known
    BY <2>1, <2>2 DEF Known
  <2> QED  BY <2>1, <2>2 DEF Allocating
<1>2. CASE todo = Allocate1(n, class)
  <2>1. PICK d : d = attempt(n, class)
    OBVIOUS
  <2>2. PICK e \in Seq(CallRecord) : e = <<>>
    BY NoCalls
  <2>3. todo = Then(d, e)
    BY <1>2, <2>1, <2>2 DEF Allocate1
  <2>4. d \in CallRecord /\ d.call = "attempt"
    BY <2>1, AttemptCalls
  <2>5. FreesRightly(fa, fn)
    BY <2>2, <2>3, <2>4, FreesNo
  <2>6. ASSUME Advances PROVE todo' = e /\ Went(d)
    BY <2>2, <2>3, <2>4, <2>5, <2>6, Onward
  <2> QED  BY <2>1, <2>2, <2>4, <2>5, <2>6 DEF Went
<1> QED  BY <1>1, <1>2 DEF Allocating

LEMMA RecountIs ==
  ASSUME NEW g \in Goals, newProcess \in Oop, activeContext \in Oop
  PROVE  g \in Seq(CallRecord) /\ Recount1(g) \in Seq(CallRecord) /\ Recount0(g) \in Seq(CallRecord)
<1>1. g \in Seq(CallRecord)
  <2>1. CASE g = <<>>
    BY <2>1, NoCalls
  <2>2. CASE g # <<>>
    <3>1. PICK n \in Nat \ {0}, class \in Oop : g = Again(n, class)
      BY <2>2 DEF Goals
    <3> QED  BY <3>1, AgainIs
  <2> QED  BY <2>1, <2>2
<1> QED  BY <1>1, UpBefore DEF Recount0, Pointer, Recount1

LEMMA RecountingAdvances ==
  ASSUME Always, NEW fa \in Oop, NEW fn \in Oop, Counted(field, count, todo, inHand, fa, fn),
         fa = activeContext, fn = newProcess,
         NEW g \in Goals, Recounting(g)
  PROVE  /\ FreesRightly(fa, fn)
         /\ Advances /\ Always' => fa = activeContext' /\ fn = newProcess' /\ Recounting(g)'
<1>1. CASE todo = g
  <2>1. CASE g = <<>>
    BY <1>1, <2>1 DEF FreesRightly, Advances, CountUp, CountDown, Put, SetRegister, Makes
  <2>2. CASE g # <<>>
    <3>1. PICK n \in Nat \ {0}, class \in Oop : g = Again(n, class)
      BY <2>2 DEF Goals
    <3>2. PICK d : d = attemptAgain(attempt(n, class))
      OBVIOUS
    <3>3. d \in CallRecord /\ d.call = "attemptAgain"
      BY <3>2, AttemptCalls
    <3>4. PICK e \in Seq(CallRecord) : e = <<>>
      BY NoCalls
    <3>5. todo = Then(d, e)
      BY <1>1, <3>1, <3>2, <3>4 DEF Again
    <3> QED  BY <3>3, <3>5, FreesNo, Onward DEF Went
  <2> QED  BY <2>1, <2>2
<1>2. ASSUME newProcess # NilPointer, todo = Recount1(g)
      PROVE  /\ FreesRightly(fa, fn)
             /\ Advances /\ Always' => fa = activeContext' /\ fn = newProcess' /\ Recounting(g)'
  BY <1>2, RecountIs, UpPasses DEF Recounting, Recount1, Pointer, Always, Typed
<1>3. CASE todo = Recount1(g)
  BY <1>1, <1>2, <1>3 DEF Recount1
<1>4. CASE todo = Recount0(g)
  BY <1>4, RecountIs, UpPasses DEF Recounting, Recount1, Recount0, Pointer, Always, Typed
<1> QED  BY <1>1, <1>3, <1>4 DEF Recounting

(* Whatever routine is under way, a count down frees what it may, and a    *)
(* step keeps the counts to what the routine owes.                         *)
LEMMA StageAdvances ==
  ASSUME Always, NEW fa \in Oop, NEW fn \in Oop, Counted(field, count, todo, inHand, fa, fn),
         Stage(fa, fn)
  PROVE  /\ FreesRightly(fa, fn)
         /\ Advances => Made(fa, fn) /\ Stage(fa, fn)'
<1>1. FreesRightly(fa, fn) => (Advances => Made(fa, fn) /\ Always' /\ inHand' = inHand)
  BY StepMakes DEF Made
<1>2. (todo' = <<>> /\ fa = activeContext' /\ fn = newProcess') => Stage(fa, fn)'
  BY DEF Stage
<1>3. CASE todo = <<>> /\ fa = activeContext /\ fn = newProcess
  BY <1>3 DEF FreesRightly, Advances, CountUp, CountDown, Put, SetRegister, Makes
<1>4. CASE /\ \E o \in Oop, f \in Nat, v \in Pointer : Storing(o, f, v)
           /\ fa = activeContext /\ fn = newProcess
  <2>1. PICK o \in Oop, f \in Nat, v \in Pointer : Storing(o, f, v)
    BY <1>4
  <2> QED  BY <1>1, <1>2, <1>4, <2>1, StoringAdvances DEF Stage
<1>5. CASE /\ \E n \in Nat, class \in Oop : Allocating(n, class)
           /\ fa = activeContext /\ fn = newProcess
  <2>1. PICK n \in Nat, class \in Oop : Allocating(n, class)
    BY <1>5
  <2> QED  BY <1>1, <1>5, <2>1, AllocatingAdvances DEF Stage
<1>6. CASE /\ \E a, c \in Oop : Activating(a, c) /\ fa = c
           /\ fn = newProcess
  <2>1. PICK a \in Oop, c \in Oop : Activating(a, c) /\ fa = c
    BY <1>6
  <2> QED  BY <1>1, <1>2, <1>6, <2>1, ActivatingAdvances DEF Stage
<1>7. CASE /\ \E a, c \in Oop, t \in Nat, v \in Pointer : Returning(a, c, t, v) /\ fa = c
           /\ fn = newProcess
  <2>1. PICK a \in Oop, c \in Oop, t \in Nat, v \in Pointer : Returning(a, c, t, v) /\ fa = c
    BY <1>7
  <2> QED  BY <1>1, <1>2, <1>7, <2>1, ReturningAdvances DEF Stage
<1>8. CASE /\ \E l, q, p \in Oop : Waking(l, q, p) /\ fn = p
           /\ fa = activeContext
  <2>1. PICK l \in Oop, q \in Oop, p \in Oop : Waking(l, q, p) /\ fn = p
    BY <1>8
  <2> QED  BY <1>1, <1>2, <1>8, <2>1, WakingAdvances DEF Stage
<1>9. CASE /\ \E q, p \in Oop : Transferring(q, p) /\ fn = p
           /\ fa = activeContext
  <2>1. PICK q \in Oop, p \in Oop : Transferring(q, p) /\ fn = p
    BY <1>9
  <2> QED  BY <1>1, <1>2, <1>9, <2>1, TransferringAdvances DEF Stage
<1>10. CASE /\ \E q, a, p, c \in Oop : Switching(q, a, p, c) /\ fa = c
            /\ fn = NilPointer
  <2>1. PICK q \in Oop, a \in Oop, p \in Oop, c \in Oop : Switching(q, a, p, c) /\ fa = c
    BY <1>10
  <2> QED  BY <1>1, <1>2, <1>10, <2>1, SwitchingAdvances DEF Stage
<1>11. CASE /\ \E g \in Goals : Recounting(g)
            /\ fa = activeContext /\ fn = newProcess
  <2>1. PICK g \in Goals : Recounting(g)
    BY <1>11
  <2> QED  BY <1>1, <1>11, <2>1, RecountingAdvances DEF Stage
<1> QED  BY <1>3, <1>4, <1>5, <1>6, <1>7, <1>8, <1>9, <1>10, <1>11 DEF Stage

LEMMA GoesWhen ==
  ASSUME NEW t,
         Upcoming(t).call \in {"countUp", "countDown", "countDownField", "put", "activeContext",
                              "newProcess"}
  PROVE  Goes(t)
BY NoCalls DEF Goes, Upcoming

LEMMA UpGoes ==
  ASSUME NEW v \in Pointer, NEW t, Upcoming(t) = countUp(v)
  PROVE  Goes(t)
BY CountingCalls, GoesWhen

LEMMA DownGoes ==
  ASSUME NEW v \in Pointer, NEW t, Upcoming(t) = countDown(v)
  PROVE  Goes(t)
BY CountingCalls, GoesWhen

LEMMA PutGoes ==
  ASSUME NEW o \in Oop, NEW i \in Nat, NEW v \in Pointer, NEW t, Upcoming(t) = put(o, i, v)
  PROVE  Goes(t)
<1>1. PICK d : d = put(o, i, v)
  OBVIOUS
<1> QED  BY <1>1, PlaceCalls, GoesWhen

LEMMA FieldGoes ==
  ASSUME NEW o \in Oop, NEW i \in Nat, NEW t, Upcoming(t) = countDownField(o, i)
  PROVE  Goes(t)
<1>1. PICK d : d = countDownField(o, i)
  OBVIOUS
<1> QED  BY <1>1, PlaceCalls, GoesWhen DEF Pointer

LEMMA RegisterGoes ==
  ASSUME NEW v \in Oop, NEW t, Upcoming(t) = setActiveContext(v) \/ Upcoming(t) = setNewProcess(v)
  PROVE  Goes(t)
BY RegisterCalls, GoesWhen

LEMMA StoringGoes ==
  ASSUME NEW o \in Oop, NEW f \in Nat, NEW v \in Pointer,
         Storing(o, f, v)
  PROVE  Goes(todo)
<1>0. Oop \subseteq Pointer /\ Immediate \in Pointer /\ NilPointer \in Oop /\ SmalltalkPointer \in Oop /\ Link \in Nat
  BY RefCountsAssumption DEF Pointer, Link
<1>1. Goes(Store0(o, f, v))
  BY <1>0, Store0Is, UpGoes
<1>2. Goes(Store1(o, f, v))
  BY <1>0, Store1Is, FieldGoes
<1>3. Goes(Store2(o, f, v))
  BY <1>0, Store2Is, PutGoes
<1> QED  BY <1>1, <1>2, <1>3 DEF Storing

LEMMA AllocatingGoes ==
  ASSUME NEW n \in Nat, NEW class \in Oop, Allocating(n, class)
  PROVE  Goes(todo) \/ todo = Allocate1(n, class)
BY Allocate0Is, UpGoes DEF Allocating, Pointer

LEMMA ActivatingGoes ==
  ASSUME NEW a \in Oop, NEW c \in Oop,
         Activating(a, c)
  PROVE  Goes(todo)
<1>0. Oop \subseteq Pointer /\ Immediate \in Pointer /\ NilPointer \in Oop /\ SmalltalkPointer \in Oop /\ Link \in Nat
  BY RefCountsAssumption DEF Pointer, Link
<1>1. Goes(Activate0(a, c))
  BY <1>0, Activate0Is, UpGoes
<1>2. Goes(Activate1(a, c))
  BY <1>0, Activate1Is, FieldGoes
<1>3. Goes(Activate2(a, c))
  <2>1. PICK t : t = Activate2(a, c)
    OBVIOUS
  <2>2. Upcoming(t) = put(c, Link, a)
    BY <2>1, Activate2Is
  <2>3. a \in Pointer /\ c \in Oop /\ Link \in Nat
    BY <1>0
  <2> QED  BY ONLY <2>1, <2>2, <2>3, PutGoes
<1>4. Goes(Activate3(a, c))
  BY <1>0, Activate3Is, DownGoes
<1>5. Goes(Activate4(c))
  BY <1>0, Activate4Is, RegisterGoes
<1> QED  BY <1>0, <1>1, <1>2, <1>3, <1>4, <1>5, Activate5Is, UpGoes DEF Activating

LEMMA ReturningGoes ==
  ASSUME NEW a \in Oop, NEW c \in Oop, NEW t \in Nat, NEW v \in Pointer,
         Returning(a, c, t, v)
  PROVE  Goes(todo)
<1>0. Oop \subseteq Pointer /\ Immediate \in Pointer /\ NilPointer \in Oop /\ SmalltalkPointer \in Oop /\ Link \in Nat
  BY RefCountsAssumption DEF Pointer, Link
<1>1. Goes(Return0(a, c, t, v))
  BY <1>0, Return0Is, UpGoes
<1>2. Goes(Return1(a, c, t, v))
  BY <1>0, Return1Is, UpGoes
<1>3. Goes(Return2(a, c, t, v))
  BY <1>0, Return2Is, UpGoes
<1>4. Goes(Return3(a, c, t, v))
  BY <1>0, Return3Is, FieldGoes
<1>5. Goes(Return4(a, c, t, v))
  <2>1. Upcoming(Return4(a, c, t, v)) = put(a, Link, NilPointer)
    BY <1>0, Return4Is
  <2> QED  BY <1>0, <2>1, PutGoes
<1>6. Goes(Return5(a, c, t, v))
  BY <1>0, Return5Is, DownGoes
<1>7. Goes(Return6(c, t, v))
  BY <1>0, Return6Is, RegisterGoes
<1>8. Goes(Return7(c, t, v))
  BY <1>0, Return7Is, UpGoes
<1>9. Goes(Return8(c, t, v))
  BY <1>0, Return8Is, FieldGoes
<1>10. Goes(Return9(c, t, v))
  BY <1>0, Return9Is, PutGoes
<1>11. Goes(Return10(v))
  BY <1>0, Return10Is, DownGoes
<1> QED  BY <1>1, <1>2, <1>3, <1>4, <1>5, <1>6, <1>7, <1>8, <1>9, <1>10, <1>11 DEF Returning

LEMMA WakingGoes ==
  ASSUME NEW l \in Oop, NEW q \in Oop, NEW p \in Oop,
         Waking(l, q, p)
  PROVE  Goes(todo)
<1>0. Oop \subseteq Pointer /\ Immediate \in Pointer /\ NilPointer \in Oop /\ SmalltalkPointer \in Oop /\ Link \in Nat
  BY RefCountsAssumption DEF Pointer, Link
<1>1. Goes(Wake0(l, q, p))
  BY <1>0, Wake0Is, UpGoes
<1>2. Goes(Wake1(l, q, p))
  BY <1>0, Wake1Is, UpGoes
<1>3. Goes(Wake2(l, q, p))
  BY <1>0, Wake2Is, FieldGoes
<1>4. Goes(Wake3(l, q, p))
  <2>1. Upcoming(Wake3(l, q, p)) = put(l, Link, NilPointer)
    BY <1>0, Wake3Is
  <2> QED  BY <1>0, <2>1, PutGoes
<1>5. Goes(Wake4(p))
  BY <1>0, Wake4Is, RegisterGoes
<1>6. Goes(Wake5(p))
  BY <1>0, Wake5Is, UpGoes
<1>7. Goes(Wake6(p))
  BY <1>0, Wake6Is, DownGoes
<1>8. Goes(WakeAfter(q, p))
  BY <1>0, <1>5, Wake4Is, DownBefore, DownGoes DEF WakeAfter
<1> QED  BY <1>1, <1>2, <1>3, <1>4, <1>5, <1>6, <1>7, <1>8 DEF Waking

LEMMA TransferringGoes ==
  ASSUME NEW q \in Oop, NEW p \in Oop,
         Transferring(q, p)
  PROVE  Goes(todo)
<1>1. Goes(Transfer0(q, p))
  BY RefCountsAssumption, Transfer0Is, DownGoes DEF Pointer, Link
<1> QED
  BY <1>1, RefCountsAssumption, Transfer1Is, RegisterGoes, Transfer2Is, UpGoes DEF Transferring,
     Pointer, Link

LEMMA SwitchingGoes ==
  ASSUME NEW q \in Oop, NEW a \in Oop, NEW p \in Oop, NEW c \in Oop,
         Switching(q, a, p, c)
  PROVE  Goes(todo)
<1>0. Oop \subseteq Pointer /\ Immediate \in Pointer /\ NilPointer \in Oop /\ SmalltalkPointer \in Oop /\ Link \in Nat
  BY RefCountsAssumption DEF Pointer, Link
<1>1. Goes(Switch0(q, a, p, c))
  BY <1>0, Switch0Is, UpGoes
<1>2. Goes(Switch1(q, a, p, c))
  <2>1. Upcoming(Switch1(q, a, p, c)) = countDownField(q, Link)
    BY <1>0, Switch1Is
  <2> QED  BY <1>0, <2>1, FieldGoes
<1>3. Goes(Switch2(q, a, p, c))
  <2>1. Upcoming(Switch2(q, a, p, c)) = put(q, Link, a)
    BY <1>0, Switch2Is
  <2> QED  BY <1>0, <2>1, PutGoes
<1>4. Goes(Switch3(a, p, c))
  BY <1>0, Switch3Is, UpGoes
<1>5. Goes(Switch4(a, p, c))
  <2>1. Upcoming(Switch4(a, p, c)) = countDownField(SmalltalkPointer, Link)
    BY <1>0, Switch4Is
  <2> QED  BY <1>0, <2>1, FieldGoes
<1>6. Goes(Switch5(a, p, c))
  <2>1. Upcoming(Switch5(a, p, c)) = put(SmalltalkPointer, Link, p)
    BY <1>0, Switch5Is
  <2> QED  BY <1>0, <2>1, PutGoes
<1>7. Goes(Switch6(a, p, c))
  BY <1>0, Switch6Is, DownGoes
<1>8. Goes(Switch7(p, c))
  BY <1>0, Switch7Is, RegisterGoes
<1>9. Goes(Switch8(p, c))
  BY <1>0, Switch8Is, UpGoes
<1>10. Goes(Switch9(p))
  BY <1>0, Switch9Is, DownGoes
<1>11. Goes(Switch10)
  BY <1>0, Switch10Is, RegisterGoes
<1> QED  BY <1>1, <1>2, <1>3, <1>4, <1>5, <1>6, <1>7, <1>8, <1>9, <1>10, <1>11 DEF Switching

LEMMA RecountingGoes ==
  ASSUME Always, NEW g \in Goals, Recounting(g)
  PROVE  Goes(todo) \/ todo = g
BY RecountIs, UpBefore, UpGoes DEF Recounting, Recount0, Pointer, Always, Typed, Recount1

LEMMA StageGoes ==
  ASSUME Always, NEW fa \in Oop, NEW fn \in Oop, Stage(fa, fn)
  PROVE  \/ Goes(todo)
         \/ (todo = <<>> \/ Attempting) /\ fa = activeContext /\ fn = newProcess
<1>1. CASE todo = <<>> /\ fa = activeContext /\ fn = newProcess
  BY <1>1
<1>2. CASE \E o \in Oop, f \in Nat, v \in Pointer : Storing(o, f, v)
  BY <1>2, StoringGoes
<1>3. CASE /\ \E n \in Nat, class \in Oop : Allocating(n, class)
           /\ fa = activeContext /\ fn = newProcess
  BY <1>3, AllocatingGoes DEF Attempting
<1>4. CASE \E a, c \in Oop : Activating(a, c)
  BY <1>4, ActivatingGoes
<1>5. CASE \E a, c \in Oop, t \in Nat, v \in Pointer : Returning(a, c, t, v)
  BY <1>5, ReturningGoes
<1>6. CASE \E l, q, p \in Oop : Waking(l, q, p)
  BY <1>6, WakingGoes
<1>7. CASE \E q, p \in Oop : Transferring(q, p)
  BY <1>7, TransferringGoes
<1>8. CASE \E q, a, p, c \in Oop : Switching(q, a, p, c)
  BY <1>8, SwitchingGoes
<1>9. CASE /\ \E g \in Goals : Recounting(g)
           /\ fa = activeContext /\ fn = newProcess
  BY <1>9, RecountingGoes DEF Attempting
<1> QED  BY <1>1, <1>2, <1>3, <1>4, <1>5, <1>6, <1>7, <1>8, <1>9 DEF Stage

-----------------------------------------------------------------------------
(***************************************************************************)
(* In a routine, the checks of the count down pass.                        *)
(***************************************************************************)
LEMMA LoweredHasCount ==
  ASSUME Always, NEW fa \in Oop, NEW fn \in Oop, Counted(field, count, todo, inHand, fa, fn),
         Downs, FreesRightly(fa, fn), Lowered # Immediate
  PROVE  Lowered \in Oop /\ count[Lowered] \in Nat /\ count[Lowered] > 0
<1>0. Lowered = LoweredBy(field, Head(todo)) /\ Lowered \in Oop
  BY LoweredIs DEF Pointer
<1> DEFINE c == Head(todo)
           s == Tail(todo)
           x == Lowered
<1>1. /\ c \in CallRecord /\ s \in Seq(CallRecord) /\ todo = Then(c, s)
      /\ c.call \in {"countDown", "countDownField"} /\ todo # <<>>
  BY FirstCall DEF Downs
<1>2. Tallied(field, count, inHand, fa, fn, c, s)
  <2>1. Counted(field, count, Then(c, s), inHand, fa, fn)
    BY <1>1
  <2> QED  BY <1>1, <2>1, CountedThen
<1>3. field \in Heap /\ count \in Counts /\ Sticky > 0 /\ Sticky \in Nat
  BY StickyAssumption DEF Always, Typed, Counts
<1>4. /\ count[x] \in Nat /\ ReferencesFrom(field, Oop, x) \in Nat
      /\ OwedBy(c, x) \in Int /\ Owed(s, x) \in Int /\ \A v : Is(v, x) \in {0, 1}
  BY <1>0, <1>1, <1>3, Numbers
<1>5. CASE x = NilPointer
  BY <1>0, <1>2, <1>3, <1>4, <1>5 DEF Tallied
<1>6. CASE x # NilPointer
  <2> SUFFICES ASSUME count[x] <= 1, count[x] # Sticky  PROVE count[x] > 0
    BY <1>0, <1>3, <1>4
  <2>1. count[x] = ReferencesFrom(field, Oop, x) + (OwedBy(c, x) + Owed(s, x)) + Is(fa, x) + Is(fn, x)
    BY <1>0, <1>1, <1>2, <1>4, <1>6 DEF Tallied
  <2>2. Owed(s, x) + Is(fa, x) + Is(fn, x) >= 0
    BY <1>0, <1>1, <1>6 DEF CanFree, FreesRightly, RestOf
  <2>3. OwedBy(c, x) + ReferencesFrom(field, Oop, x) >= 1
    <3>1. CASE c.call = "countDown"
      BY <1>0, <1>4, <3>1, IsOne DEF LoweredBy, OwedBy
    <3>2. CASE c.call = "countDownField"
      <4>1. ReferencesFrom(field, Oop, x) >= 1
        BY <1>0, <1>3, <3>2, LoweredIs, HasReference DEF PointersOf, LoweredBy
      <4> QED  BY <1>4, <3>2, <4>1 DEF OwedBy
    <3> QED  BY <1>1, <3>1, <3>2
  <2> QED  BY <1>4, <2>1, <2>2, <2>3
<1> QED  BY <1>0, <1>4, <1>5, <1>6

LEMMA StageChecks ==
  ASSUME Always, NEW fa \in Oop, NEW fn \in Oop, Counted(field, count, todo, inHand, fa, fn),
         Stage(fa, fn)
  PROVE  ChecksPass
<1> SUFFICES ASSUME Makes("countDown") \/ Makes("countDownField"), Lowered # Immediate
             PROVE  /\ count[Lowered] > 0
                    /\ count[Lowered] = 1 =>
                         ~Undercounted(field, count, Lowered, FreedWith(field, count, Lowered))
  BY DEF ChecksPass
<1>1. Downs
  BY DEF Downs, Makes
<1>2. ASSUME count[Lowered] = 1
      PROVE  ~Undercounted(field, count, Lowered, FreedWith(field, count, Lowered))
  <2>1. PICK D : D = FreedWith(field, count, Lowered)
    OBVIOUS
  <2> QED  BY <1>1, <1>2, <2>1, StageAdvances, FreeMakes
<1> QED  BY <1>1, <1>2, StageAdvances, LoweredHasCount

-----------------------------------------------------------------------------
(***************************************************************************)
(* The calls of a routine can be called in turn, if it is begun with       *)
(* objects that are not in hand and places that are there.                 *)
(***************************************************************************)
LEMMA UpSound ==
  ASSUME NEW F, NEW H, NEW v \in Pointer, NEW s \in Seq(CallRecord), Sound(F, H, s),
         v \notin H, Upcoming(s).call # "put"
  PROVE  Sound(F, H, Then(countUp(v), s))
<1>1. PICK d : d = countUp(v)
  OBVIOUS
<1>2. Callable(F, H, d, Upcoming(s))
  BY <1>1, CountingCalls DEF Callable
<1> QED  BY <1>1, <1>2, CountingCalls, SoundThen

LEMMA DownSound ==
  ASSUME NEW F, NEW H, NEW v \in Pointer, NEW s \in Seq(CallRecord), Sound(F, H, s),
         Upcoming(s).call \in {"activeContext", "newProcess", "abort"}
  PROVE  Sound(F, H, Then(countDown(v), s))
<1>1. PICK d : d = countDown(v)
  OBVIOUS
<1>2. Callable(F, H, d, Upcoming(s))
  BY <1>1, CountingCalls DEF Callable
<1> QED  BY <1>1, <1>2, CountingCalls, SoundThen

LEMMA FieldSound ==
  ASSUME NEW F, NEW H, NEW o \in Oop, NEW i \in Nat, NEW s \in Seq(CallRecord), Sound(F, H, s),
         o # NilPointer, i \in DOMAIN F[o],
         Upcoming(s).call = "put", Upcoming(s).object = o, Upcoming(s).index = i
  PROVE  Sound(F, H, Then(countDownField(o, i), s))
<1>1. PICK d : d = countDownField(o, i)
  OBVIOUS
<1>2. d \in CallRecord /\ d.call = "countDownField" /\ d.object = o /\ d.index = i
      /\ d.value = Immediate
  BY <1>1, PlaceCalls DEF Pointer
<1>3. Callable(F, H, d, Upcoming(s))
  BY <1>2 DEF Callable, IsPlace
<1>4. Sound(F, H, Then(d, s))
  BY <1>2, <1>3, SoundThen
<1> QED  BY <1>1, <1>4

LEMMA PutSound ==
  ASSUME NEW F, NEW H, NEW o \in Oop, NEW i \in Nat, NEW v \in Pointer, NEW s \in Seq(CallRecord),
         Sound(F, H, s), o # NilPointer, i \in DOMAIN F[o],
         Upcoming(s).call \notin {"put", "countDownField"}
  PROVE  Sound(F, H, Then(put(o, i, v), s))
<1>1. PICK d : d = put(o, i, v)
  OBVIOUS
<1>2. d \in CallRecord /\ d.call = "put" /\ d.object = o /\ d.index = i
  BY <1>1, PlaceCalls
<1>3. Callable(F, H, d, Upcoming(s))
  BY <1>2 DEF Callable, IsPlace
<1>4. Sound(F, H, Then(d, s))
  BY <1>2, <1>3, SoundThen
<1> QED  BY <1>1, <1>4

LEMMA RegisterSound ==
  ASSUME NEW F, NEW H, NEW v \in Oop, NEW s \in Seq(CallRecord),
         Sound(F, H, s), Upcoming(s).call # "put"
  PROVE  Sound(F, H, Then(setActiveContext(v), s)) /\ Sound(F, H, Then(setNewProcess(v), s))
<1>1. PICK d, e : d = setActiveContext(v) /\ e = setNewProcess(v)
  OBVIOUS
<1>2. Callable(F, H, d, Upcoming(s)) /\ Callable(F, H, e, Upcoming(s))
  BY <1>1, RegisterCalls DEF Callable
<1> QED  BY <1>1, <1>2, RegisterCalls, SoundThen

LEMMA AttemptSound ==
  ASSUME NEW F, NEW H, NEW n \in Nat \ {0}, NEW class \in Oop, NEW s \in Seq(CallRecord),
         Sound(F, H, s), Upcoming(s).call = "abort"
  PROVE  /\ Sound(F, H, Then(attempt(n, class), s))
         /\ Sound(F, H, Then(attemptAgain(attempt(n, class)), s))
<1>1. PICK d, e : d = attempt(n, class) /\ e = attemptAgain(attempt(n, class))
  OBVIOUS
<1>2. Callable(F, H, d, Upcoming(s)) /\ Callable(F, H, e, Upcoming(s))
  BY <1>1, AttemptCalls DEF Callable
<1> QED  BY <1>1, <1>2, AttemptCalls, SoundThen

LEMMA StoreSound ==
  ASSUME NEW F, NEW H, NEW o \in Oop, NEW f \in Nat, NEW v \in Pointer,
         o # NilPointer, f \in DOMAIN F[o], v \notin H
  PROVE  Sound(F, H, Store0(o, f, v))
<1>0. /\ Oop \subseteq Pointer /\ Immediate \in Pointer /\ Immediate \notin Oop /\ NilPointer \in Oop
      /\ SmalltalkPointer \in Oop /\ Link \in Nat /\ NilPointer \in Pointer
      /\ NilPointer # SmalltalkPointer
  BY RefCountsAssumption, OopAssumption DEF Pointer, Link
<1>1. Sound(F, H, Store2(o, f, v))
  <2>1. PICK s : s = <<>>
    OBVIOUS
  <2> QED  BY <1>0, <2>1, NothingHeld, NoCalls, PutSound DEF Store2
<1>2. Sound(F, H, Store1(o, f, v))
  <2>1. PICK s, u : s = Store2(o, f, v) /\ u = put(o, f, v)
    OBVIOUS
  <2>2. s \in Seq(CallRecord) /\ Sound(F, H, s) /\ Upcoming(s) = u
    BY <1>0, <1>1, <2>1, Store2Is
  <2> QED  BY <1>0, <2>1, <2>2, PlaceCalls, FieldSound DEF Store1
<1>3. Sound(F, H, Store0(o, f, v))
  <2>1. PICK s, u : s = Store1(o, f, v) /\ u = countDownField(o, f)
    OBVIOUS
  <2>2. s \in Seq(CallRecord) /\ Sound(F, H, s) /\ Upcoming(s) = u
    BY <1>0, <1>2, <2>1, Store1Is
  <2> QED  BY <1>0, <2>1, <2>2, PlaceCalls, UpSound DEF Store0
<1> QED  BY <1>3

LEMMA ActivateSound ==
  ASSUME NEW F, NEW H, NEW a \in Oop, NEW c \in Oop,
         c # NilPointer, Link \in DOMAIN F[c], a \notin H, c \notin H
  PROVE  Sound(F, H, Activate0(a, c))
<1>0. /\ Oop \subseteq Pointer /\ Immediate \in Pointer /\ Immediate \notin Oop /\ NilPointer \in Oop
      /\ SmalltalkPointer \in Oop /\ Link \in Nat /\ NilPointer \in Pointer
      /\ NilPointer # SmalltalkPointer
  BY RefCountsAssumption, OopAssumption DEF Pointer, Link
<1>1. Sound(F, H, Activate5(c))
  <2>1. PICK s : s = <<>>
    OBVIOUS
  <2>2. s \in Seq(CallRecord) /\ Sound(F, H, s) /\ Upcoming(s).call = "abort"
    BY <2>1, NothingHeld, NoCalls
  <2>3. Activate5(c) = Then(countUp(c), s)
    BY <2>1 DEF Activate5
  <2> QED  BY <1>0, <2>2, <2>3, UpSound
<1>2. Sound(F, H, Activate4(c))
  <2>1. PICK s, u : s = Activate5(c) /\ u = countUp(c)
    OBVIOUS
  <2>2. s \in Seq(CallRecord) /\ Sound(F, H, s) /\ Upcoming(s) = u
    BY <1>0, <1>1, <2>1, Activate5Is
  <2> QED  BY <1>0, <2>1, <2>2, CountingCalls, RegisterSound DEF Activate4
<1>3. Sound(F, H, Activate3(a, c))
  <2>1. PICK s, u : s = Activate4(c) /\ u = setActiveContext(c)
    OBVIOUS
  <2> QED  BY <1>0, <1>2, <2>1, Activate4Is, RegisterCalls, DownSound DEF Activate3
<1>4. Sound(F, H, Activate2(a, c))
  <2>1. PICK s, u : s = Activate3(a, c) /\ u = countDown(a)
    OBVIOUS
  <2>2. s \in Seq(CallRecord) /\ Sound(F, H, s) /\ Upcoming(s) = u
    BY <1>0, <1>3, <2>1, Activate3Is
  <2> QED  BY <1>0, <2>1, <2>2, CountingCalls, PutSound DEF Activate2
<1>5. Sound(F, H, Activate1(a, c))
  <2>1. PICK s, u : s = Activate2(a, c) /\ u = put(c, Link, a)
    OBVIOUS
  <2>2. s \in Seq(CallRecord) /\ Sound(F, H, s) /\ Upcoming(s) = u
    BY <1>0, <1>4, <2>1, Activate2Is
  <2>3. u.call = "put" /\ u.object = c /\ u.index = Link
    BY <1>0, <2>1, PlaceCalls
  <2> QED  BY <1>0, <2>1, <2>2, <2>3, FieldSound DEF Activate1
<1>6. Sound(F, H, Activate0(a, c))
  <2>1. PICK s, u : s = Activate1(a, c) /\ u = countDownField(c, Link)
    OBVIOUS
  <2>2. s \in Seq(CallRecord) /\ Sound(F, H, s) /\ Upcoming(s) = u
    BY <1>0, <1>5, <2>1, Activate1Is
  <2> QED  BY <1>0, <2>1, <2>2, PlaceCalls, UpSound DEF Activate0
<1> QED  BY <1>6

LEMMA ReturnSound ==
  ASSUME NEW F, NEW H, NEW a \in Oop, NEW c \in Oop, NEW t \in Nat, NEW v \in Pointer,
         a # NilPointer, Link \in DOMAIN F[a], c # NilPointer, t \in DOMAIN F[c],
         v \notin H, c \notin H, NilPointer \notin H
  PROVE  Sound(F, H, Return0(a, c, t, v))
<1>0. /\ Oop \subseteq Pointer /\ Immediate \in Pointer /\ Immediate \notin Oop /\ NilPointer \in Oop
      /\ SmalltalkPointer \in Oop /\ Link \in Nat /\ NilPointer \in Pointer
      /\ NilPointer # SmalltalkPointer
  BY RefCountsAssumption, OopAssumption DEF Pointer, Link
<1>1. Sound(F, H, Return10(v))
  <2>1. PICK s : s = <<>>
    OBVIOUS
  <2>2. s \in Seq(CallRecord) /\ Sound(F, H, s) /\ Upcoming(s).call = "abort"
    BY <2>1, NothingHeld, NoCalls
  <2>3. Return10(v) = Then(countDown(v), s)
    BY <2>1 DEF Return10
  <2> QED  BY <1>0, <2>2, <2>3, DownSound
<1>2. Sound(F, H, Return9(c, t, v))
  <2>1. PICK s, u : s = Return10(v) /\ u = countDown(v)
    OBVIOUS
  <2>2. s \in Seq(CallRecord) /\ Sound(F, H, s) /\ Upcoming(s) = u
    BY <1>0, <1>1, <2>1, Return10Is
  <2> QED  BY <1>0, <2>1, <2>2, CountingCalls, PutSound DEF Return9
<1>3. Sound(F, H, Return8(c, t, v))
  <2>1. PICK s, u : s = Return9(c, t, v) /\ u = put(c, t, v)
    OBVIOUS
  <2>2. s \in Seq(CallRecord) /\ Sound(F, H, s) /\ Upcoming(s) = u
    BY <1>0, <1>2, <2>1, Return9Is
  <2>3. u.call = "put" /\ u.object = c /\ u.index = t
    BY <1>0, <2>1, PlaceCalls
  <2> QED  BY <1>0, <2>1, <2>2, <2>3, FieldSound DEF Return8
<1>4. Sound(F, H, Return7(c, t, v))
  <2>1. PICK s, u : s = Return8(c, t, v) /\ u = countDownField(c, t)
    OBVIOUS
  <2>2. s \in Seq(CallRecord) /\ Sound(F, H, s) /\ Upcoming(s) = u
    BY <1>0, <1>3, <2>1, Return8Is
  <2>3. u.call = "countDownField"
    BY <1>0, <2>1, PlaceCalls
  <2> QED  BY <1>0, <2>1, <2>2, <2>3, UpSound DEF Return7
<1>5. Sound(F, H, Return6(c, t, v))
  <2>1. PICK s, u : s = Return7(c, t, v) /\ u = countUp(v)
    OBVIOUS
  <2>2. s \in Seq(CallRecord) /\ Sound(F, H, s) /\ Upcoming(s) = u
    BY <1>0, <1>4, <2>1, Return7Is
  <2> QED  BY <1>0, <2>1, <2>2, CountingCalls, RegisterSound DEF Return6
<1>6. Sound(F, H, Return5(a, c, t, v))
  <2>1. PICK s, u : s = Return6(c, t, v) /\ u = setActiveContext(c)
    OBVIOUS
  <2>2. s \in Seq(CallRecord) /\ Sound(F, H, s) /\ Upcoming(s) = u
    BY <1>0, <1>5, <2>1, Return6Is
  <2> QED  BY <1>0, <2>1, <2>2, RegisterCalls, DownSound DEF Return5
<1>7. Sound(F, H, Return4(a, c, t, v))
  <2>1. PICK s, u : s = Return5(a, c, t, v) /\ u = countDown(a)
    OBVIOUS
  <2>2. s \in Seq(CallRecord) /\ Sound(F, H, s) /\ Upcoming(s) = u
    BY <1>0, <1>6, <2>1, Return5Is
  <2> QED  BY <1>0, <2>1, <2>2, CountingCalls, PutSound DEF Return4
<1>8. Sound(F, H, Return3(a, c, t, v))
  <2>1. PICK s, u : s = Return4(a, c, t, v) /\ u = put(a, Link, NilPointer)
    OBVIOUS
  <2>2. s \in Seq(CallRecord) /\ Sound(F, H, s) /\ Upcoming(s) = u
    BY <1>0, <1>7, <2>1, Return4Is
  <2>3. u.call = "put" /\ u.object = a /\ u.index = Link
    BY <1>0, <2>1, PlaceCalls
  <2> QED  BY <1>0, <2>1, <2>2, <2>3, FieldSound DEF Return3
<1>9. Sound(F, H, Return2(a, c, t, v))
  <2>1. PICK s, u : s = Return3(a, c, t, v) /\ u = countDownField(a, Link)
    OBVIOUS
  <2>2. s \in Seq(CallRecord) /\ Sound(F, H, s) /\ Upcoming(s) = u
    BY <1>0, <1>8, <2>1, Return3Is
  <2> QED  BY <1>0, <2>1, <2>2, PlaceCalls, UpSound DEF Return2
<1>10. Sound(F, H, Return1(a, c, t, v))
  <2>1. PICK s, u : s = Return2(a, c, t, v) /\ u = countUp(NilPointer)
    OBVIOUS
  <2>2. s \in Seq(CallRecord) /\ Sound(F, H, s) /\ Upcoming(s) = u
    BY <1>0, <1>9, <2>1, Return2Is
  <2> QED  BY <1>0, <2>1, <2>2, CountingCalls, UpSound DEF Return1
<1>11. Sound(F, H, Return0(a, c, t, v))
  <2>1. PICK s, u : s = Return1(a, c, t, v) /\ u = countUp(c)
    OBVIOUS
  <2>2. s \in Seq(CallRecord) /\ Sound(F, H, s) /\ Upcoming(s) = u
    BY <1>0, <1>10, <2>1, Return1Is
  <2> QED  BY <1>0, <2>1, <2>2, CountingCalls, UpSound DEF Return0
<1> QED  BY <1>11

LEMMA TransferSound ==
  ASSUME NEW F, NEW H, NEW q \in Oop, NEW p \in Oop,
         p \notin H
  PROVE  Sound(F, H, Transfer0(q, p)) /\ Sound(F, H, Transfer1(p))
<1>1. Sound(F, H, Transfer2(p))
  <2>1. PICK s : s = <<>>
    OBVIOUS
  <2>2. s \in Seq(CallRecord) /\ Sound(F, H, s) /\ Upcoming(s).call = "abort"
    BY <2>1, NothingHeld, NoCalls
  <2>3. Transfer2(p) = Then(countUp(p), s)
    BY <2>1 DEF Transfer2
  <2> QED  BY <2>2, <2>3, RefCountsAssumption, OopAssumption, UpSound DEF Pointer, Link
<1>2. Sound(F, H, Transfer1(p))
  <2>1. PICK s, u : s = Transfer2(p) /\ u = countUp(p)
    OBVIOUS
  <2> QED
    BY <1>1, <2>1, Transfer2Is, RefCountsAssumption, OopAssumption, CountingCalls, RegisterSound DEF
       Transfer1, Pointer, Link
<1>3. Sound(F, H, Transfer0(q, p))
  <2>1. PICK s, u : s = Transfer1(p) /\ u = setNewProcess(p)
    OBVIOUS
  <2> QED
    BY <1>2, <2>1, RefCountsAssumption, OopAssumption, Transfer1Is, RegisterCalls, DownSound DEF
       Transfer0, Pointer, Link
<1> QED  BY <1>2, <1>3

LEMMA SwitchSound ==
  ASSUME NEW F, NEW H, NEW q \in Oop, NEW a \in Oop, NEW p \in Oop, NEW c \in Oop,
         q # NilPointer, Link \in DOMAIN F[q], Link \in DOMAIN F[SmalltalkPointer],
         a \notin H, p \notin H, c \notin H
  PROVE  Sound(F, H, Switch0(q, a, p, c))
<1>0. /\ Oop \subseteq Pointer /\ Immediate \in Pointer /\ Immediate \notin Oop /\ NilPointer \in Oop
      /\ SmalltalkPointer \in Oop /\ Link \in Nat /\ NilPointer \in Pointer
      /\ NilPointer # SmalltalkPointer
  BY RefCountsAssumption, OopAssumption DEF Pointer, Link
<1>1. Sound(F, H, Switch10)
  <2>1. PICK s : s = <<>>
    OBVIOUS
  <2>2. s \in Seq(CallRecord) /\ Sound(F, H, s) /\ Upcoming(s).call = "abort"
    BY <2>1, NothingHeld, NoCalls
  <2>3. Switch10 = Then(setNewProcess(NilPointer), s)
    BY <2>1 DEF Switch10
  <2> QED  BY <1>0, <2>2, <2>3, RegisterSound
<1>2. Sound(F, H, Switch9(p))
  <2>1. PICK s, u : s = Switch10 /\ u = setNewProcess(NilPointer)
    OBVIOUS
  <2> QED  BY <1>0, <1>1, <2>1, Switch10Is, RegisterCalls, DownSound DEF Switch9
<1>3. Sound(F, H, Switch8(p, c))
  <2>1. PICK s, u : s = Switch9(p) /\ u = countDown(p)
    OBVIOUS
  <2> QED  BY <1>0, <1>2, <2>1, Switch9Is, CountingCalls, UpSound DEF Switch8
<1>4. Sound(F, H, Switch7(p, c))
  <2>1. PICK s, u : s = Switch8(p, c) /\ u = countUp(c)
    OBVIOUS
  <2>2. s \in Seq(CallRecord) /\ Sound(F, H, s) /\ Upcoming(s) = u
    BY <1>0, <1>3, <2>1, Switch8Is
  <2> QED  BY <1>0, <2>1, <2>2, CountingCalls, RegisterSound DEF Switch7
<1>5. Sound(F, H, Switch6(a, p, c))
  <2>1. PICK s, u : s = Switch7(p, c) /\ u = setActiveContext(c)
    OBVIOUS
  <2>2. s \in Seq(CallRecord) /\ Sound(F, H, s) /\ Upcoming(s) = u
    BY <1>0, <1>4, <2>1, Switch7Is
  <2> QED  BY <1>0, <2>1, <2>2, RegisterCalls, DownSound DEF Switch6
<1>6. Sound(F, H, Switch5(a, p, c))
  <2>1. PICK s, u : s = Switch6(a, p, c) /\ u = countDown(a)
    OBVIOUS
  <2>2. s \in Seq(CallRecord) /\ Sound(F, H, s) /\ Upcoming(s) = u
    BY <1>0, <1>5, <2>1, Switch6Is
  <2> QED  BY <1>0, <2>1, <2>2, CountingCalls, PutSound DEF Switch5
<1>7. Sound(F, H, Switch4(a, p, c))
  <2>1. PICK s, u : s = Switch5(a, p, c) /\ u = put(SmalltalkPointer, Link, p)
    OBVIOUS
  <2>2. s \in Seq(CallRecord) /\ Sound(F, H, s) /\ Upcoming(s) = u
    BY <1>0, <1>6, <2>1, Switch5Is
  <2>3. u.call = "put" /\ u.object = SmalltalkPointer /\ u.index = Link
    BY <1>0, <2>1, PlaceCalls
  <2> QED  BY <1>0, <2>1, <2>2, <2>3, FieldSound DEF Switch4
<1>8. Sound(F, H, Switch3(a, p, c))
  <2>1. PICK s, u : s = Switch4(a, p, c) /\ u = countDownField(SmalltalkPointer, Link)
    OBVIOUS
  <2>2. s \in Seq(CallRecord) /\ Sound(F, H, s) /\ Upcoming(s) = u
    BY <1>0, <1>7, <2>1, Switch4Is
  <2>3. u.call = "countDownField"
    BY <1>0, <2>1, PlaceCalls
  <2> QED  BY <1>0, <2>1, <2>2, <2>3, UpSound DEF Switch3
<1>9. Sound(F, H, Switch2(q, a, p, c))
  <2>1. PICK s, u : s = Switch3(a, p, c) /\ u = countUp(p)
    OBVIOUS
  <2>2. s \in Seq(CallRecord) /\ Sound(F, H, s) /\ Upcoming(s) = u
    BY <1>0, <1>8, <2>1, Switch3Is
  <2> QED  BY <1>0, <2>1, <2>2, CountingCalls, PutSound DEF Switch2
<1>10. Sound(F, H, Switch1(q, a, p, c))
  <2>1. PICK s, u : s = Switch2(q, a, p, c) /\ u = put(q, Link, a)
    OBVIOUS
  <2>2. s \in Seq(CallRecord) /\ Sound(F, H, s) /\ Upcoming(s) = u
    BY <1>0, <1>9, <2>1, Switch2Is
  <2>3. u.call = "put" /\ u.object = q /\ u.index = Link
    BY <1>0, <2>1, PlaceCalls
  <2> QED  BY <1>0, <2>1, <2>2, <2>3, FieldSound DEF Switch1
<1>11. Sound(F, H, Switch0(q, a, p, c))
  <2>1. PICK s, u : s = Switch1(q, a, p, c) /\ u = countDownField(q, Link)
    OBVIOUS
  <2>2. s \in Seq(CallRecord) /\ Sound(F, H, s) /\ Upcoming(s) = u
    BY <1>0, <1>10, <2>1, Switch1Is
  <2>3. u.call = "countDownField"
    BY <1>0, <2>1, PlaceCalls
  <2> QED  BY <1>0, <2>1, <2>2, <2>3, UpSound DEF Switch0
<1> QED  BY <1>11

LEMMA AllocateSound ==
  ASSUME NEW F, NEW H, NEW n \in Nat \ {0}, NEW class \in Oop,
         class \notin H
  PROVE  Sound(F, H, Allocate0(n, class))
<1>1. Sound(F, H, Allocate1(n, class))
  <2>1. PICK s : s = <<>>
    OBVIOUS
  <2>2. s \in Seq(CallRecord) /\ Sound(F, H, s) /\ Upcoming(s).call = "abort"
    BY <2>1, NothingHeld, NoCalls
  <2>3. Allocate1(n, class) = Then(attempt(n, class), s)
    BY <2>1 DEF Allocate1
  <2> QED  BY <2>2, <2>3, RefCountsAssumption, OopAssumption, AttemptSound DEF Pointer, Link
<1>2. Sound(F, H, Allocate0(n, class))
  <2>1. PICK s, u : s = Allocate1(n, class) /\ u = attempt(n, class)
    OBVIOUS
  <2>2. s \in Seq(CallRecord) /\ Sound(F, H, s) /\ Upcoming(s) = u
    BY <1>1, <2>1, RefCountsAssumption, OopAssumption, Allocate1Is DEF Pointer, Link
  <2> QED
    BY <2>1, <2>2, RefCountsAssumption, OopAssumption, AttemptCalls, UpSound DEF Allocate0, Pointer,
       Link
<1> QED  BY <1>2

LEMMA AgainSound ==
  ASSUME NEW F, NEW H, NEW n \in Nat \ {0}, NEW class \in Oop
  PROVE  Sound(F, H, Again(n, class))
<1>1. Sound(F, H, Again(n, class))
  <2>1. PICK s : s = <<>>
    OBVIOUS
  <2>2. s \in Seq(CallRecord) /\ Sound(F, H, s) /\ Upcoming(s).call = "abort"
    BY <2>1, NothingHeld, NoCalls
  <2>3. Again(n, class) = Then(attemptAgain(attempt(n, class)), s)
    BY <2>1 DEF Again
  <2> QED  BY <2>2, <2>3, RefCountsAssumption, OopAssumption, AttemptSound DEF Pointer, Link
<1> QED  BY <1>1

LEMMA WakeEndSound ==
  ASSUME NEW F, NEW H, NEW p \in Oop,
         p \notin H
  PROVE  Sound(F, H, Wake4(p))
<1>1. Sound(F, H, Wake6(p))
  <2>1. PICK s : s = <<>>
    OBVIOUS
  <2>2. s \in Seq(CallRecord) /\ Sound(F, H, s) /\ Upcoming(s).call = "abort"
    BY <2>1, NothingHeld, NoCalls
  <2>3. Wake6(p) = Then(countDown(p), s)
    BY <2>1 DEF Wake6
  <2> QED  BY <2>2, <2>3, RefCountsAssumption, OopAssumption, DownSound DEF Pointer, Link
<1>2. Sound(F, H, Wake5(p))
  <2>1. PICK s, u : s = Wake6(p) /\ u = countDown(p)
    OBVIOUS
  <2> QED
    BY <1>1, <2>1, RefCountsAssumption, OopAssumption, Wake6Is, CountingCalls, UpSound DEF Wake5,
       Pointer, Link
<1>3. Sound(F, H, Wake4(p))
  <2>1. PICK s, u : s = Wake5(p) /\ u = countUp(p)
    OBVIOUS
  <2> QED
    BY <1>2, <2>1, RefCountsAssumption, OopAssumption, Wake5Is, CountingCalls, RegisterSound DEF
       Wake4, Pointer, Link
<1> QED  BY <1>3

LEMMA WakeAfterSound ==
  ASSUME NEW F, NEW H, NEW q \in Oop, NEW p \in Oop, p \notin H
  PROVE  Sound(F, H, WakeAfter(q, p)) /\ Upcoming(WakeAfter(q, p)).call \in {"countDown", "newProcess"}
<1>1. PICK s, u : s = Wake4(p) /\ u = setNewProcess(p)
  OBVIOUS
<1> QED
  BY <1>1, DownBefore, CountingCalls, Wake4Is, WakeEndSound, RegisterCalls, DownSound DEF WakeAfter,
     Pointer

LEMMA WakeSound ==
  ASSUME NEW F, NEW H, NEW l \in Oop, NEW q \in Oop, NEW p \in Oop,
         l # NilPointer, Link \in DOMAIN F[l], p \notin H, NilPointer \notin H
  PROVE  Sound(F, H, Wake0(l, q, p))
<1>0. /\ Oop \subseteq Pointer /\ Immediate \in Pointer /\ Immediate \notin Oop /\ NilPointer \in Oop
      /\ SmalltalkPointer \in Oop /\ Link \in Nat /\ NilPointer \in Pointer
      /\ NilPointer # SmalltalkPointer
  BY RefCountsAssumption, OopAssumption DEF Pointer, Link
<1>1. Sound(F, H, Wake3(l, q, p))
  <2>1. PICK s : s = WakeAfter(q, p)
    OBVIOUS
  <2>2. s \in Seq(CallRecord)
    BY <2>1, WakeAfterIs
  <2>3. Sound(F, H, s) /\ Upcoming(s).call \in {"countDown", "newProcess"}
    BY <2>1, WakeAfterSound
  <2> QED  BY <1>0, <2>1, <2>2, <2>3, PutSound DEF Wake3
<1>2. Sound(F, H, Wake2(l, q, p))
  <2>1. PICK s, u : s = Wake3(l, q, p) /\ u = put(l, Link, NilPointer)
    OBVIOUS
  <2>2. s \in Seq(CallRecord) /\ Sound(F, H, s) /\ Upcoming(s) = u
    BY <1>0, <1>1, <2>1, Wake3Is
  <2>3. u.call = "put" /\ u.object = l /\ u.index = Link
    BY <1>0, <2>1, PlaceCalls
  <2> QED  BY <1>0, <2>1, <2>2, <2>3, FieldSound DEF Wake2
<1>3. Sound(F, H, Wake1(l, q, p))
  <2>1. PICK s, u : s = Wake2(l, q, p) /\ u = countDownField(l, Link)
    OBVIOUS
  <2>2. s \in Seq(CallRecord) /\ Sound(F, H, s) /\ Upcoming(s) = u
    BY <1>0, <1>2, <2>1, Wake2Is
  <2> QED  BY <1>0, <2>1, <2>2, PlaceCalls, UpSound DEF Wake1
<1>4. Sound(F, H, Wake0(l, q, p))
  <2>1. PICK s, u : s = Wake1(l, q, p) /\ u = countUp(NilPointer)
    OBVIOUS
  <2>2. s \in Seq(CallRecord) /\ Sound(F, H, s) /\ Upcoming(s) = u
    BY <1>0, <1>3, <2>1, Wake1Is
  <2> QED  BY <1>0, <2>1, <2>2, CountingCalls, UpSound DEF Wake0
<1> QED  BY <1>4

-----------------------------------------------------------------------------
(***************************************************************************)
(* The sequences the model writes for the routines are these calls.        *)
(***************************************************************************)
LEMMA OneCall ==
  ASSUME NEW a \in CallRecord
  PROVE  <<a>> = Then(a, <<>>) /\ <<a>> \in Seq(CallRecord)
BY ConcatEmptySeq DEF Then

LEMMA TwoCalls ==
  ASSUME NEW a \in CallRecord, NEW b \in CallRecord
  PROVE  <<a, b>> = Then(a, Then(b, <<>>)) /\ <<a, b>> \in Seq(CallRecord)
<1>1. <<b>> \in Seq(CallRecord) /\ <<b>> = Then(b, <<>>)
  BY OneCall
<1>2. <<a, b>> \in Seq(CallRecord) /\ <<a>> \in Seq(CallRecord)
  OBVIOUS
<1>3. <<a>> \o <<b>> = <<a, b>>
  <2>1. PICK u, w : u = <<a>> \o <<b>> /\ w = <<a, b>>
    OBVIOUS
  <2>2. u \in Seq(CallRecord) /\ Len(u) = 2 /\ u[1] = a /\ u[2] = b
    BY ONLY <1>1, <1>2, <2>1
  <2>3. w \in Seq(CallRecord) /\ Len(w) = 2 /\ w[1] = a /\ w[2] = b
    BY <1>2, <2>1
  <2>4. \A i \in 1 .. Len(u) : u[i] = w[i]
    <3>1. TAKE i \in 1 .. Len(u)
    <3> QED  BY ONLY <2>2, <2>3, <3>1
  <2>5. u = w
    BY ONLY <2>2, <2>3, <2>4, SeqEqual
  <2> QED  BY ONLY <2>1, <2>5
<1> QED  BY <1>1, <1>2, <1>3 DEF Then

LEMMA ThreeCalls ==
  ASSUME NEW a \in CallRecord, NEW b \in CallRecord, NEW c \in CallRecord
  PROVE  <<a, b, c>> = Then(a, Then(b, Then(c, <<>>))) /\ <<a, b, c>> \in Seq(CallRecord)
<1>1. <<b, c>> \in Seq(CallRecord) /\ <<b, c>> = Then(b, Then(c, <<>>))
  BY TwoCalls
<1>2. <<a, b, c>> \in Seq(CallRecord) /\ <<a>> \in Seq(CallRecord)
  OBVIOUS
<1>3. <<a>> \o <<b, c>> = <<a, b, c>>
  <2>1. PICK u, w : u = <<a>> \o <<b, c>> /\ w = <<a, b, c>>
    OBVIOUS
  <2>2. u \in Seq(CallRecord) /\ Len(u) = 3 /\ u[1] = a /\ u[2] = b /\ u[3] = c
    BY ONLY <1>1, <1>2, <2>1
  <2>3. w \in Seq(CallRecord) /\ Len(w) = 3 /\ w[1] = a /\ w[2] = b /\ w[3] = c
    BY <1>2, <2>1
  <2>4. \A i \in 1 .. Len(u) : u[i] = w[i]
    <3>1. TAKE i \in 1 .. Len(u)
    <3> QED  BY ONLY <2>2, <2>3, <3>1
  <2>5. u = w
    BY ONLY <2>2, <2>3, <2>4, SeqEqual
  <2> QED  BY ONLY <2>1, <2>5
<1> QED  BY <1>1, <1>2, <1>3 DEF Then

LEMMA ThenEmpty ==
  ASSUME NEW s \in Seq(CallRecord)
  PROVE  <<>> \o s = s /\ s \o <<>> = s
BY ConcatEmptySeq

LEMMA StoreBegins ==
  ASSUME NEW o \in Oop, NEW f \in Nat, NEW v \in Pointer
  PROVE  /\ storePointer(o, f, v) = Store0(o, f, v) /\ storePointer(o, f, v) \in Seq(CallRecord)
         /\ StoreFirst(o, f, v)
<1>1. PICK a, b, c : a = countUp(v) /\ b = countDownField(o, f) /\ c = put(o, f, v)
  OBVIOUS
<1>2. a \in CallRecord /\ b \in CallRecord /\ c \in CallRecord
  BY <1>1, CountingCalls, PlaceCalls
<1>3. PICK r : r = <<a, b, c>>
  OBVIOUS
<1>4. r = Then(a, Then(b, Then(c, <<>>))) /\ r \in Seq(CallRecord) /\ storePointer(o, f, v) = r
  BY <1>1, <1>2, <1>3, ThreeCalls DEF storePointer
<1>5. ASSUME NEW s \in Seq(CallRecord)
      PROVE  r \o s = Then(a, Then(b, Then(c, s)))
  <2>1. PICK e, r1, r2 : e = <<>> /\ r1 = Then(c, e) /\ r2 = Then(b, r1)
    OBVIOUS
  <2>2. e \in Seq(CallRecord) /\ e \o s = s
    BY <2>1, ThenEmpty, NoCalls
  <2>3. r1 \in Seq(CallRecord)
    BY <1>2, <2>1, <2>2, ThenIs
  <2>4. r2 \in Seq(CallRecord)
    BY <1>2, <2>1, <2>3, ThenIs
  <2>5. r = Then(a, r2)
    BY <1>4, <2>1
  <2>6. r \o s = Then(a, r2 \o s)
    BY <1>2, <2>4, <2>5, AfterThen
  <2>7. r2 \o s = Then(b, r1 \o s)
    BY <1>2, <2>1, <2>3, AfterThen
  <2>8. r1 \o s = Then(c, e \o s)
    BY <1>2, <2>1, <2>2, AfterThen
  <2> QED  BY <2>2, <2>6, <2>7, <2>8
<1> QED  BY <1>1, <1>4, <1>5 DEF Store0, Store1, Store2, StoreFirst

LEMMA ActivateBegins ==
  ASSUME NEW c \in Oop, activeContext \in Oop
  PROVE  storePointer(c, Link, activeContext) \o newActiveContext(c) = Activate0(activeContext, c)
<1>1. PICK x, y, z : x = countDown(activeContext) /\ y = setActiveContext(c) /\ z = countUp(c)
  OBVIOUS
<1>2. x \in CallRecord /\ y \in CallRecord /\ z \in CallRecord
  BY <1>1, CountingCalls, RegisterCalls DEF Pointer, Link
<1>3. PICK s : s = <<x, y, z>>
  OBVIOUS
<1>4. s = Then(x, Then(y, Then(z, <<>>))) /\ s \in Seq(CallRecord) /\ newActiveContext(c) = s
  BY <1>1, <1>2, <1>3, ThreeCalls DEF newActiveContext
<1>5. storePointer(c, Link, activeContext) \o s
        = Then(countUp(activeContext), Then(countDownField(c, Link), Then(put(c, Link, activeContext), s)))
  <2>1. PICK v, i : v = activeContext /\ i = Link
    OBVIOUS
  <2>2. storePointer(c, i, v) \o s = Then(countUp(v), Then(countDownField(c, i), Then(put(c, i, v), s)))
    <3>1. v \in Pointer /\ i \in Nat /\ s \in Seq(CallRecord)
      BY <1>4, <2>1 DEF Pointer, Link
    <3>2. StoreFirst(c, i, v)
      BY <3>1, StoreBegins
    <3> QED  BY <3>1, <3>2 DEF StoreFirst
  <2> QED  BY <2>1, <2>2
<1> QED  BY <1>1, <1>4, <1>5 DEF Activate0, Activate1, Activate2, Activate3, Activate4, Activate5

LEMMA Associates ==
  ASSUME NEW r \in Seq(CallRecord), NEW s \in Seq(CallRecord), NEW t \in Seq(CallRecord)
  PROVE  (r \o s) \o t = r \o (s \o t)
<1>1. PICK A : A = CallRecord
  OBVIOUS
<1>2. r \in Seq(A) /\ s \in Seq(A) /\ t \in Seq(A)
  BY <1>1
<1> QED  BY ONLY <1>2, ConcatAssociative

LEMMA Joined ==
  ASSUME NEW r \in Seq(CallRecord), NEW s \in Seq(CallRecord)
  PROVE  r \o s \in Seq(CallRecord)
OBVIOUS

LEMMA OneBefore ==
  ASSUME NEW a \in CallRecord, NEW s \in Seq(CallRecord)
  PROVE  <<a>> \o s = Then(a, s) /\ <<a>> \in Seq(CallRecord)
BY OneCall DEF Then

LEMMA TwoBefore ==
  ASSUME NEW a \in CallRecord, NEW b \in CallRecord, NEW s \in Seq(CallRecord)
  PROVE  <<a, b>> \o s = Then(a, Then(b, s)) /\ <<a, b>> \in Seq(CallRecord)
<1>1. PICK e, r, w : e = <<>> /\ r = Then(b, e) /\ w = <<a, b>>
  OBVIOUS
<1>2. e \in Seq(CallRecord) /\ e \o s = s
  BY <1>1, ThenEmpty, NoCalls
<1>3. r \in Seq(CallRecord)
  BY <1>1, <1>2, ThenIs
<1>4. w = Then(a, r) /\ w \in Seq(CallRecord)
  BY <1>1, TwoCalls
<1>5. w \o s = Then(a, r \o s)
  BY <1>3, <1>4, AfterThen
<1>6. r \o s = Then(b, e \o s)
  BY <1>1, <1>2, AfterThen
<1> QED  BY <1>1, <1>2, <1>4, <1>5, <1>6

LEMMA ReturnBegins ==
  ASSUME NEW c \in Oop, NEW v \in Pointer, activeContext \in Oop, Top(c) \in Nat
  PROVE  returnValue_to(v, c) = Return0(activeContext, c, Top(c), v)
<1>1. PICK u, b, x, y, d : /\ u = countUp(v) /\ b = countUp(c) /\ x = countDown(activeContext)
                           /\ y = setActiveContext(c) /\ d = countDown(v)
  OBVIOUS
<1>2. u \in CallRecord /\ b \in CallRecord /\ x \in CallRecord /\ y \in CallRecord /\ d \in CallRecord
  BY <1>1, RefCountsAssumption, RegisterCalls, CountingCalls DEF Pointer, Link
<1>3. PICK a, nil, i, k, P, S : /\ a = activeContext /\ nil = NilPointer /\ i = Link /\ k = Top(c)
                                /\ P = storePointer(a, i, nil) /\ S = storePointer(c, k, v)
  OBVIOUS
<1>4. StoreFirst(a, i, nil) /\ P \in Seq(CallRecord)
  BY <1>3, RefCountsAssumption, StoreBegins DEF Pointer, Link
<1>5. StoreFirst(c, k, v) /\ S \in Seq(CallRecord)
  BY <1>3, StoreBegins
<1>6. PICK D, w, q, z : D = <<d>> /\ w = S \o D /\ q = <<x, y>> /\ z = q \o w
  OBVIOUS
<1>7. D \in Seq(CallRecord) /\ D = Return10(v)
  BY <1>1, <1>2, <1>6, OneCall DEF Return10
<1>8. w \in Seq(CallRecord) /\ w = Return7(c, k, v)
  <2>1. w \in Seq(CallRecord)
    BY <1>5, <1>6, <1>7
  <2>2. S \o D = Then(countUp(v), Then(countDownField(c, k), Then(put(c, k, v), D)))
    BY <1>3, <1>5, <1>7 DEF StoreFirst
  <2> QED  BY <1>6, <1>7, <2>1, <2>2 DEF Return7, Return8, Return9
<1>9. z \in Seq(CallRecord) /\ q \in Seq(CallRecord) /\ z = Return5(a, c, k, v)
  <2>1. <<x, y>> \o w = Then(x, Then(y, w)) /\ <<x, y>> \in Seq(CallRecord)
    BY <1>2, <1>8, TwoBefore
  <2>2. z \in Seq(CallRecord)
    BY <1>6, <1>8, <2>1
  <2> QED  BY <1>1, <1>3, <1>6, <1>8, <2>1, <2>2 DEF Return5, Return6
<1>10. PICK Q : Q = P \o z
  OBVIOUS
<1>11. Q \in Seq(CallRecord) /\ Q = Return2(a, c, k, v)
  <2>1. Q \in Seq(CallRecord)
    BY <1>4, <1>9, <1>10
  <2>2. P \o z = Then(countUp(nil), Then(countDownField(a, i), Then(put(a, i, nil), z)))
    BY <1>3, <1>4, <1>9 DEF StoreFirst
  <2> QED  BY <1>3, <1>9, <1>10, <2>1, <2>2 DEF Return2, Return3, Return4
<1>12. PICK B, U, M : B = <<b>> /\ U = <<u>> /\ M = (B \o P) \o q
  OBVIOUS
<1>13. B \in Seq(CallRecord) /\ B \o Q = Then(b, Q)
  BY <1>2, <1>11, <1>12, OneBefore
<1>14. U \in Seq(CallRecord) /\ U \o Then(b, Q) = Then(u, Then(b, Q))
  <2>1. Then(b, Q) \in Seq(CallRecord)
    BY <1>2, <1>11, ThenIs
  <2> QED  BY <1>2, <1>12, <2>1, OneBefore
<1>15. returnValue_to(v, c) = ((U \o M) \o S) \o D
  BY <1>1, <1>3, <1>6, <1>12 DEF returnValue_to, returnToActiveContext
<1>16. PICK N, O : N = B \o P /\ O = U \o M
  OBVIOUS
<1>17. N \in Seq(CallRecord) /\ M = N \o q /\ M \in Seq(CallRecord)
  BY <1>4, <1>9, <1>12, <1>13, <1>16
<1>18. M \o w = Then(b, Q)
  <2>1. (N \o q) \o w = N \o (q \o w)
    <3>1. N \in Seq(CallRecord) /\ q \in Seq(CallRecord) /\ w \in Seq(CallRecord)
      BY <1>8, <1>9, <1>17
    <3> QED  BY ONLY <3>1, Associates
  <2>2. (B \o P) \o z = B \o (P \o z)
    <3>1. B \in Seq(CallRecord) /\ P \in Seq(CallRecord) /\ z \in Seq(CallRecord)
      BY <1>4, <1>9, <1>13
    <3> QED  BY ONLY <3>1, Associates
  <2> QED  BY <1>6, <1>10, <1>13, <1>16, <1>17, <2>1, <2>2
<1>19. (O \o S) \o D = U \o (M \o w)
  <2>1. O \in Seq(CallRecord)
    BY <1>14, <1>16, <1>17
  <2>2. (O \o S) \o D = O \o (S \o D)
    <3>1. S \in Seq(CallRecord) /\ D \in Seq(CallRecord)
      BY <1>5, <1>7
    <3> QED  BY ONLY <2>1, <3>1, Associates
  <2>3. (U \o M) \o w = U \o (M \o w)
    <3>1. U \in Seq(CallRecord) /\ M \in Seq(CallRecord) /\ w \in Seq(CallRecord)
      BY <1>8, <1>14, <1>17
    <3> QED  BY ONLY <3>1, Associates
  <2> QED  BY <1>6, <1>16, <2>2, <2>3
<1>20. returnValue_to(v, c) = Then(u, Then(b, Q))
  BY ONLY <1>14, <1>15, <1>16, <1>18, <1>19
<1> QED  BY <1>1, <1>3, <1>11, <1>20 DEF Return0, Return1

LEMMA TransferParts ==
  ASSUME NEW p \in Oop, newProcess \in Oop
  PROVE  TransferFirst(p) /\ transferTo(p) \in Seq(CallRecord)
<1>1. PICK d, x, y, t : /\ d = countDown(newProcess) /\ x = setNewProcess(p) /\ y = countUp(p)
                        /\ t = transferTo(p)
  OBVIOUS
<1>2. d \in CallRecord /\ x \in CallRecord /\ y \in CallRecord
  BY <1>1, RegisterCalls, CountingCalls DEF Pointer
<1>3. PICK D, q : D = <<d>> /\ q = <<x, y>>
  OBVIOUS
<1>4. q \in Seq(CallRecord)
  BY <1>2, <1>3, TwoCalls
<1>5. D \in Seq(CallRecord)
  BY <1>2, <1>3, OneCall
<1>6. t = IF newProcess # NilPointer THEN D \o q ELSE <<>> \o q
  BY <1>1, <1>3 DEF transferTo
<1>7. <<>> \o q = q
  BY <1>4, ThenEmpty
<1>8. ASSUME NEW s \in Seq(CallRecord)
       PROVE  t \o s = IF newProcess # NilPointer THEN Then(d, Then(x, Then(y, s)))
                       ELSE Then(x, Then(y, s))
  <2>1. PICK w : w = q \o s
    OBVIOUS
  <2>2. <<x, y>> \o s = Then(x, Then(y, s))
    BY <1>2, TwoBefore
  <2>3. w \in Seq(CallRecord) /\ w = Then(x, Then(y, s))
    BY <1>3, <1>4, <2>1, <2>2, Joined
  <2>4. (D \o q) \o s = D \o (q \o s)
    <3>1. s \in Seq(CallRecord)
      OBVIOUS
    <3> QED  BY ONLY <1>4, <1>5, <3>1, Associates
  <2>5. <<d>> \o w = Then(d, w)
    BY <1>2, <2>3, OneBefore
  <2> QED  BY <1>3, <1>6, <1>7, <2>1, <2>3, <2>4, <2>5
<1>9. TransferFirst(p)
  <2>1. SUFFICES ASSUME NEW s \in Seq(CallRecord)
                 PROVE  transferTo(p) \o s
                          = IF newProcess # NilPointer
                            THEN Then(countDown(newProcess), Then(setNewProcess(p), Then(countUp(p), s)))
                            ELSE Then(setNewProcess(p), Then(countUp(p), s))
    BY DEF TransferFirst
  <2> QED  BY <1>1, <1>8
<1> QED  BY <1>1, <1>4, <1>5, <1>6, <1>7, <1>9, Joined

LEMMA TransferBegins ==
  ASSUME NEW p \in Oop, newProcess \in Oop
  PROVE  /\ newProcess # NilPointer => transferTo(p) = Transfer0(newProcess, p)
         /\ newProcess = NilPointer => transferTo(p) = Transfer1(p)
<1>1. PICK e, t : e = <<>> /\ t = transferTo(p)
  OBVIOUS
<1>2. e \in Seq(CallRecord) /\ t \in Seq(CallRecord) /\ TransferFirst(p)
  BY <1>1, NoCalls, TransferParts
<1>3. transferTo(p) \o e
        = IF newProcess # NilPointer
          THEN Then(countDown(newProcess), Then(setNewProcess(p), Then(countUp(p), e)))
          ELSE Then(setNewProcess(p), Then(countUp(p), e))
  BY <1>2 DEF TransferFirst
<1> QED  BY <1>1, <1>2, <1>3, ThenEmpty DEF Transfer0, Transfer1, Transfer2

LEMMA WakeBegins ==
  ASSUME NEW l \in Oop, NEW p \in Oop, newProcess \in Oop, p = field[l][Link]
  PROVE  suspendActive(l) = Wake0(l, newProcess, p)
<1>1. PICK u, d, U, D, i, nil, S, t : /\ u = countUp(p) /\ d = countDown(p) /\ U = <<u>> /\ D = <<d>>
                                      /\ i = Link /\ nil = NilPointer /\ S = storePointer(l, i, nil)
                                      /\ t = transferTo(p)
  OBVIOUS
<1>2. u \in CallRecord /\ d \in CallRecord
  BY <1>1, RefCountsAssumption, CountingCalls DEF Pointer, Link
<1>3. D \in Seq(CallRecord) /\ D = Wake6(p)
  BY <1>1, <1>2, OneCall DEF Wake6
<1>4. StoreFirst(l, i, nil) /\ S \in Seq(CallRecord)
  BY <1>1, RefCountsAssumption, StoreBegins DEF Pointer, Link
<1>5. TransferFirst(p) /\ t \in Seq(CallRecord)
  BY <1>1, TransferParts
<1>6. PICK w : w = t \o D
  OBVIOUS
<1>7. w \in Seq(CallRecord) /\ w = WakeAfter(newProcess, p)
  <2>1. w \in Seq(CallRecord)
    BY <1>3, <1>5, <1>6, Joined
  <2>2. transferTo(p) \o D
          = IF newProcess # NilPointer
            THEN Then(countDown(newProcess), Then(setNewProcess(p), Then(countUp(p), D)))
            ELSE Then(setNewProcess(p), Then(countUp(p), D))
    BY <1>3, <1>5 DEF TransferFirst
  <2> QED  BY <1>1, <1>3, <1>6, <2>1, <2>2 DEF WakeAfter, Wake4, Wake5
<1>8. PICK Q : Q = S \o w
  OBVIOUS
<1>9. Q \in Seq(CallRecord) /\ Q = Wake1(l, newProcess, p)
  <2>0. S \in Seq(CallRecord) /\ w \in Seq(CallRecord)
    BY <1>4, <1>7
  <2>1. Q \in Seq(CallRecord)
    BY ONLY <2>0, <1>8, Joined
  <2> QED  BY <1>1, <1>4, <1>7, <1>8, <2>1 DEF Wake1, Wake2, Wake3, StoreFirst
<1>10. U \o Q = Then(u, Q) /\ U \in Seq(CallRecord)
  BY <1>1, <1>2, <1>9, OneBefore
<1>11. suspendActive(l) = ((U \o S) \o t) \o D
  BY <1>1 DEF suspendActive, removeFirstLinkOfList
<1>12. PICK N : N = U \o S
  OBVIOUS
<1>13. /\ U \in Seq(CallRecord) /\ S \in Seq(CallRecord) /\ t \in Seq(CallRecord)
       /\ D \in Seq(CallRecord) /\ w \in Seq(CallRecord)
  BY <1>3, <1>4, <1>5, <1>7, <1>10
<1>17. N \in Seq(CallRecord)
  BY ONLY <1>12, <1>13, Joined
<1>14. (N \o t) \o D = N \o (t \o D)
  <2>1. N \in Seq(CallRecord) /\ t \in Seq(CallRecord) /\ D \in Seq(CallRecord)
    BY ONLY <1>13, <1>17
  <2> QED  BY ONLY <2>1, Associates
<1>15. (U \o S) \o w = U \o (S \o w)
  <2>1. U \in Seq(CallRecord) /\ S \in Seq(CallRecord) /\ w \in Seq(CallRecord)
    BY ONLY <1>13
  <2> QED  BY ONLY <2>1, Associates
<1>16. suspendActive(l) = Then(u, Q)
  BY <1>6, <1>8, <1>10, <1>11, <1>12, <1>14, <1>15
<1> QED  BY <1>1, <1>9, <1>16 DEF Wake0

LEMMA ThreeBefore ==
  ASSUME NEW a \in CallRecord, NEW b \in CallRecord, NEW c \in CallRecord, NEW s \in Seq(CallRecord)
  PROVE  <<a, b, c>> \o s = Then(a, Then(b, Then(c, s))) /\ <<a, b, c>> \in Seq(CallRecord)
<1>1. PICK e, r, q : e = <<>> /\ r = Then(c, e) /\ q = Then(b, r)
  OBVIOUS
<1>2. e \in Seq(CallRecord) /\ e \o s = s
  BY <1>1, ThenEmpty, NoCalls
<1>3. r \in Seq(CallRecord)
  BY <1>1, <1>2, ThenIs
<1>4. q \in Seq(CallRecord)
  BY <1>1, <1>3, ThenIs
<1>5. <<a, b, c>> = Then(a, Then(b, Then(c, <<>>)))
  BY ThreeCalls
<1>6. <<a, b, c>> \in Seq(CallRecord)
  OBVIOUS
<1>7. Then(a, q) \o s = Then(a, q \o s)
  BY <1>4, AfterThen
<1>8. Then(b, r) \o s = Then(b, r \o s)
  BY <1>3, AfterThen
<1>9. Then(c, e) \o s = Then(c, e \o s)
  BY <1>2, AfterThen
<1> QED  BY <1>1, <1>2, <1>5, <1>6, <1>7, <1>8, <1>9

LEMMA SwitchBegins ==
  ASSUME NEW q \in Oop, NEW c \in Oop, activeContext \in Oop, newProcess \in Oop
  PROVE  storePointer(q, Link, activeContext)
           \o storePointer(SmalltalkPointer, Link, newProcess)
           \o newActiveContext(c)
           \o <<countDown(newProcess), setNewProcess(NilPointer)>>
         = Switch0(q, activeContext, newProcess, c)
<1>1. PICK a, p, i, m, x, y, z, d, n :
        /\ a = activeContext /\ p = newProcess /\ i = Link /\ m = SmalltalkPointer
        /\ x = countDown(a) /\ y = setActiveContext(c) /\ z = countUp(c)
        /\ d = countDown(p) /\ n = setNewProcess(NilPointer)
  OBVIOUS
<1>2. x \in CallRecord /\ y \in CallRecord /\ z \in CallRecord /\ d \in CallRecord /\ n \in CallRecord
  BY <1>1, RefCountsAssumption, CountingCalls, RegisterCalls DEF Pointer, Link
<1>3. PICK A, B, C, D : /\ A = storePointer(q, i, a) /\ B = storePointer(m, i, p)
                        /\ C = <<x, y, z>> /\ D = <<d, n>>
  OBVIOUS
<1>4. A \in Seq(CallRecord) /\ StoreFirst(q, i, a)
  BY <1>1, <1>3, RefCountsAssumption, StoreBegins DEF Pointer, Link
<1>5. B \in Seq(CallRecord) /\ StoreFirst(m, i, p)
  BY <1>1, <1>3, RefCountsAssumption, StoreBegins DEF Pointer, Link
<1>6. D \in Seq(CallRecord) /\ D = Switch9(p)
  BY <1>1, <1>2, <1>3, TwoCalls DEF Switch9, Switch10
<1>7. PICK w : w = C \o D
  OBVIOUS
<1>8. C \in Seq(CallRecord) /\ w \in Seq(CallRecord) /\ w = Switch6(a, p, c)
  <2>1. <<x, y, z>> \o D = Then(x, Then(y, Then(z, D))) /\ <<x, y, z>> \in Seq(CallRecord)
    BY <1>2, <1>6, ThreeBefore
  <2>3. C \in Seq(CallRecord) /\ D \in Seq(CallRecord)
    BY <1>3, <1>6, <2>1
  <2>2. w \in Seq(CallRecord)
    BY ONLY <1>7, <2>3, Joined
  <2> QED  BY <1>1, <1>3, <1>6, <1>7, <2>1, <2>2 DEF Switch6, Switch7, Switch8
<1>9. PICK v : v = B \o w
  OBVIOUS
<1>10. v \in Seq(CallRecord) /\ v = Switch3(a, p, c)
  <2>3. B \in Seq(CallRecord) /\ w \in Seq(CallRecord)
    BY <1>5, <1>8
  <2>1. v \in Seq(CallRecord)
    BY ONLY <1>9, <2>3, Joined
  <2>2. storePointer(m, i, p) \o w
          = Then(countUp(p), Then(countDownField(m, i), Then(put(m, i, p), w)))
    BY <1>5, <1>8 DEF StoreFirst
  <2> QED  BY <1>1, <1>3, <1>8, <1>9, <2>1, <2>2 DEF Switch3, Switch4, Switch5
<1>11. A \o v = Switch0(q, a, p, c)
  <2>1. storePointer(q, i, a) \o v
          = Then(countUp(a), Then(countDownField(q, i), Then(put(q, i, a), v)))
    BY <1>4, <1>10 DEF StoreFirst
  <2> QED  BY <1>1, <1>3, <1>10, <2>1 DEF Switch0, Switch1, Switch2
<1>12. PICK N : N = A \o B
  OBVIOUS
<1>16. /\ A \in Seq(CallRecord) /\ B \in Seq(CallRecord) /\ C \in Seq(CallRecord)
       /\ D \in Seq(CallRecord) /\ w \in Seq(CallRecord)
  BY <1>4, <1>5, <1>6, <1>8
<1>17. N \in Seq(CallRecord)
  BY ONLY <1>12, <1>16, Joined
<1>13. N \o w = A \o v
  <2>1. (A \o B) \o w = A \o (B \o w)
    <3>1. A \in Seq(CallRecord) /\ B \in Seq(CallRecord) /\ w \in Seq(CallRecord)
      BY ONLY <1>16
    <3> QED  BY ONLY <3>1, Associates
  <2> QED  BY ONLY <1>9, <1>12, <2>1
<1>14. (N \o C) \o D = N \o (C \o D)
  <2>1. N \in Seq(CallRecord) /\ C \in Seq(CallRecord) /\ D \in Seq(CallRecord)
    BY ONLY <1>16, <1>17
  <2> QED  BY ONLY <2>1, Associates
<1>15. ((A \o B) \o C) \o D = Switch0(q, a, p, c)
  BY <1>7, <1>11, <1>12, <1>13, <1>14
<1> QED  BY <1>1, <1>3, <1>15 DEF newActiveContext

LEMMA AllocateBegins ==
  ASSUME NEW n \in Nat, NEW class \in Oop
  PROVE  <<countUp(class), attempt(n, class)>> = Allocate0(n, class)
<1>1. attempt(n, class) \in CallRecord
  BY AttemptCalls
<1> QED  BY <1>1, CountingCalls, TwoCalls DEF Allocate0, Allocate1, Pointer

LEMMA FourBefore ==
  ASSUME NEW a \in CallRecord, NEW b \in CallRecord, NEW c \in CallRecord, NEW d \in CallRecord,
         NEW s \in Seq(CallRecord)
  PROVE  /\ <<a, b, c, d>> \o s = Then(a, Then(b, Then(c, Then(d, s))))
         /\ <<a, b, c, d>> \in Seq(CallRecord)
<1>1. PICK A, B, w : A = <<a>> /\ B = <<b, c, d>> /\ w = B \o s
  OBVIOUS
<1>2. <<a, b, c, d>> \in Seq(CallRecord)
  OBVIOUS
<1>3. <<b, c, d>> \o s = Then(b, Then(c, Then(d, s))) /\ <<b, c, d>> \in Seq(CallRecord)
  BY ThreeBefore
<1>4. B \in Seq(CallRecord) /\ w \in Seq(CallRecord)
  BY <1>1, <1>3, Joined
<1>5. A \in Seq(CallRecord) /\ A \o w = Then(a, w)
  BY <1>1, <1>4, OneBefore
<1>6. A \o B = <<a, b, c, d>>
  <2>1. PICK u, v : u = A \o B /\ v = <<a, b, c, d>>
    OBVIOUS
  <2>2. u \in Seq(CallRecord) /\ Len(u) = 4 /\ u[1] = a /\ u[2] = b /\ u[3] = c /\ u[4] = d
    BY ONLY <1>1, <2>1
  <2>3. v \in Seq(CallRecord) /\ Len(v) = 4 /\ v[1] = a /\ v[2] = b /\ v[3] = c /\ v[4] = d
    BY <1>2, <2>1
  <2>4. \A i \in 1 .. Len(u) : u[i] = v[i]
    <3>1. TAKE i \in 1 .. Len(u)
    <3> QED  BY ONLY <2>2, <2>3, <3>1
  <2>5. u = v
    BY ONLY <2>2, <2>3, <2>4, SeqEqual
  <2> QED  BY ONLY <2>1, <2>5
<1>7. (A \o B) \o s = A \o (B \o s)
  <2>1. A \in Seq(CallRecord) /\ B \in Seq(CallRecord) /\ s \in Seq(CallRecord)
    BY <1>4, <1>5
  <2> QED  BY ONLY <2>1, Associates
<1> QED  BY <1>1, <1>2, <1>3, <1>5, <1>6, <1>7

(* A call made only if c holds. *)
LEMMA MaybeBefore ==
  ASSUME NEW a \in CallRecord, NEW s \in Seq(CallRecord), NEW c, NEW m,
         m = IF c THEN <<a>> ELSE <<>>
  PROVE  m \in Seq(CallRecord) /\ m \o s = IF c THEN Then(a, s) ELSE s
BY OneBefore, ThenEmpty, NoCalls

LEMMA CollectionBegins ==
  ASSUME NEW g \in Seq(CallRecord), activeContext \in Oop, newProcess \in Oop
  PROVE  reclaimInaccessibleObjects \o g = Mark0(g) /\ Mark0(g) \in Seq(CallRecord)
<1>0. g \in Seq(CallRecord)
  OBVIOUS
<1>1. PICK z, a, b, c, d, r, u, v, w :
        /\ z = zeroReferenceCounts /\ a = addRoot(NilPointer) /\ b = addRoot(SmalltalkPointer)
        /\ c = addRoot(activeContext) /\ d = addRoot(newProcess) /\ r = rectify
        /\ u = countUp(activeContext) /\ v = countUp(newProcess)
        /\ w = (newProcess # NilPointer)
  OBVIOUS
<1>2. z \in CallRecord /\ a \in CallRecord /\ b \in CallRecord /\ c \in CallRecord
      /\ d \in CallRecord /\ r \in CallRecord
  BY <1>1, RefCountsAssumption, CollectionCalls DEF Pointer
<1>3. u \in CallRecord /\ v \in CallRecord
  BY <1>1, RefCountsAssumption, CountingCalls DEF Pointer
<1>4. PICK A, B, C, D : /\ A = <<z, a, b, c>> /\ B = IF w THEN <<d>> ELSE <<>>
                        /\ C = <<r, u>> /\ D = IF w THEN <<v>> ELSE <<>>
  OBVIOUS
<1>5. reclaimInaccessibleObjects = ((A \o B) \o C) \o D
  BY <1>1, <1>4 DEF reclaimInaccessibleObjects
<1>6. PICK g1, g2, g3, g4 : g1 = D \o g /\ g2 = C \o g1 /\ g3 = B \o g2 /\ g4 = A \o g3
  OBVIOUS
<1>7. D \in Seq(CallRecord) /\ g1 \in Seq(CallRecord) /\ g1 = Recount1(g)
  <2>1. D \in Seq(CallRecord) /\ D \o g = IF w THEN Then(v, g) ELSE g
    BY <1>3, <1>4, MaybeBefore
  <2>2. g1 \in Seq(CallRecord)
    BY ONLY <1>0, <1>6, <2>1, Joined
  <2> QED  BY <1>1, <1>6, <2>1, <2>2 DEF Recount1
<1>8. C \in Seq(CallRecord) /\ g2 \in Seq(CallRecord) /\ g2 = Rectify(g)
  <2>3. r \in CallRecord /\ u \in CallRecord /\ g1 \in Seq(CallRecord)
    BY <1>2, <1>3, <1>7
  <2>1. <<r, u>> \o g1 = Then(r, Then(u, g1)) /\ <<r, u>> \in Seq(CallRecord)
    BY ONLY <2>3, TwoBefore
  <2>2. g2 \in Seq(CallRecord)
    BY ONLY <1>4, <1>6, <2>1, <2>3, Joined
  <2> QED  BY <1>1, <1>4, <1>6, <1>7, <2>1, <2>2 DEF Rectify, Recount0
<1>9. B \in Seq(CallRecord) /\ g3 \in Seq(CallRecord) /\ g3 = Mark4(g)
  <2>1. B \in Seq(CallRecord) /\ B \o g2 = IF w THEN Then(d, g2) ELSE g2
    <3>1. d \in CallRecord
      BY <1>2
    <3>2. g2 \in Seq(CallRecord)
      BY <1>8
    <3>3. B = IF w THEN <<d>> ELSE <<>>
      BY <1>4
    <3>4. B \in Seq(CallRecord)
      BY ONLY <3>1, <3>2, <3>3, MaybeBefore
    <3>5. B \o g2 = IF w THEN Then(d, g2) ELSE g2
      BY ONLY <3>1, <3>2, <3>3, MaybeBefore
    <3> QED  BY <3>4, <3>5
  <2>2. g3 \in Seq(CallRecord)
    BY ONLY <1>6, <1>8, <2>1, Joined
  <2> QED  BY <1>1, <1>6, <1>8, <2>1, <2>2 DEF Mark4
<1>10. A \in Seq(CallRecord) /\ g4 \in Seq(CallRecord) /\ g4 = Mark0(g)
  <2>1. <<z, a, b, c>> \o g3 = Then(z, Then(a, Then(b, Then(c, g3)))) /\ <<z, a, b, c>> \in Seq(CallRecord)
    <3>1. z \in CallRecord /\ a \in CallRecord /\ b \in CallRecord /\ c \in CallRecord
      BY <1>2
    <3>2. g3 \in Seq(CallRecord)
      BY <1>9
    <3>3. <<z, a, b, c>> \o g3 = Then(z, Then(a, Then(b, Then(c, g3))))
      BY ONLY <3>1, <3>2, FourBefore
    <3> QED  BY <3>1, <3>3
  <2>2. g4 \in Seq(CallRecord)
    BY ONLY <1>4, <1>6, <1>9, <2>1, Joined
  <2> QED  BY <1>1, <1>4, <1>6, <1>9, <2>1, <2>2 DEF Mark0, Mark1, Mark2, Mark3
<1>11. PICK M, N : M = A \o B /\ N = M \o C
  OBVIOUS
<1>17. /\ A \in Seq(CallRecord) /\ B \in Seq(CallRecord) /\ C \in Seq(CallRecord)
       /\ D \in Seq(CallRecord) /\ g1 \in Seq(CallRecord) /\ g2 \in Seq(CallRecord)
  BY <1>7, <1>8, <1>9, <1>10
<1>12. M \in Seq(CallRecord)
  BY ONLY <1>11, <1>17, Joined
<1>13. N \in Seq(CallRecord)
  BY ONLY <1>11, <1>12, <1>17, Joined
<1>14. (N \o D) \o g = N \o (D \o g)
  <2>1. N \in Seq(CallRecord) /\ D \in Seq(CallRecord) /\ g \in Seq(CallRecord)
    BY ONLY <1>0, <1>13, <1>17
  <2> QED  BY ONLY <2>1, Associates
<1>15. (M \o C) \o g1 = M \o (C \o g1)
  <2>1. M \in Seq(CallRecord) /\ C \in Seq(CallRecord) /\ g1 \in Seq(CallRecord)
    BY ONLY <1>12, <1>17
  <2> QED  BY ONLY <2>1, Associates
<1>16. (A \o B) \o g2 = A \o (B \o g2)
  <2>1. A \in Seq(CallRecord) /\ B \in Seq(CallRecord) /\ g2 \in Seq(CallRecord)
    BY ONLY <1>17
  <2> QED  BY ONLY <2>1, Associates
<1> QED  BY <1>5, <1>6, <1>10, <1>11, <1>14, <1>15, <1>16

LEMMA CollectionAlone ==
  ASSUME activeContext \in Oop, newProcess \in Oop
  PROVE  reclaimInaccessibleObjects = Mark0(<<>>)
<1>1. PICK e, r : e = <<>> /\ r = reclaimInaccessibleObjects
  OBVIOUS
<1>2. e \in Seq(CallRecord)
  BY <1>1, NoCalls
<1>3. reclaimInaccessibleObjects \o e = Mark0(e) /\ Mark0(e) \in Seq(CallRecord)
  BY <1>2, CollectionBegins
<1> QED  BY <1>1, <1>3

LEMMA CollectionForAllocation ==
  ASSUME activeContext \in Oop, newProcess \in Oop, NEW n \in Nat, NEW class \in Oop
  PROVE  /\ reclaimInaccessibleObjects \o <<attemptAgain(attempt(n, class))>> = Mark0(Again(n, class))
         /\ Mark0(Again(n, class)) \in Seq(CallRecord)
<1>1. PICK a, g : a = attemptAgain(attempt(n, class)) /\ g = <<a>>
  OBVIOUS
<1>2. a \in CallRecord
  BY <1>1, AttemptCalls
<1>3. g \in Seq(CallRecord) /\ g = Again(n, class)
  BY <1>1, <1>2, OneCall DEF Again
<1>4. reclaimInaccessibleObjects \o g = Mark0(g) /\ Mark0(g) \in Seq(CallRecord)
  BY <1>3, CollectionBegins
<1> QED  BY <1>1, <1>3, <1>4

LEMMA EvenCounts ==
  ASSUME Even, NEW x \in Oop \ {NilPointer}
  PROVE  \/ count[x] = Sticky
         \/ count[x] = ReferencesFrom(field, Oop, x) + Is(activeContext, x) + Is(newProcess, x)
<1>1. Balanced(field, count, todo, activeContext, newProcess) /\ todo = <<>>
  BY DEF Even, Counted
<1>2. ReferencesFrom(field, Oop, x) \in Nat
  BY ReferencesAre DEF Even, Always, Typed
<1> QED
  BY <1>1, <1>2, OwedNothing, StickyAssumption, IsOne DEF Balanced, Even, Always, Typed, Displaced,
     Calling

LEMMA EvenZero ==
  ASSUME Even, NEW x \in Oop, count[x] = 0
  PROVE  /\ x # NilPointer /\ x # activeContext /\ x # newProcess
         /\ \A o \in Oop : x \notin PointersOf(field, o)
<1>0. field \in Heap
  BY DEF Even, Always, Typed
<1>1. ReferencesFrom(field, Oop, x) \in Nat
  BY <1>0, ReferencesAre
<1>2. ASSUME NEW o \in Oop
      PROVE  x \notin PointersOf(field, o)
  <2>1. SUFFICES ASSUME x \in PointersOf(field, o) PROVE FALSE
    OBVIOUS
  <2> QED  BY <1>0, <1>1, <2>1, StickyAssumption, EvenCounts, IsOne, HasReference DEF Even, Counted
<1> QED  BY <1>1, <1>2, StickyAssumption, EvenCounts, IsOne DEF Is, Even, Counted

LEMMA EvenApart ==
  ASSUME Even
  PROVE  InHandApart /\ inHand \subseteq Zero /\ SmalltalkPointer \in PointersOf(field, NilPointer)
<1>1. inHand \subseteq Oop /\ \A x \in inHand : count[x] = 0
  BY DEF Even, Always, Typed, Counted, Attended
<1>2. ASSUME NEW x \in inHand
      PROVE  /\ x # NilPointer /\ x # activeContext /\ x # newProcess /\ x # SmalltalkPointer
             /\ \A o \in Oop : x \notin PointersOf(field, o)
  BY <1>1, OopAssumption, EvenZero, RefCountsAssumption DEF PointersOf, Even, Always
<1> QED
  BY <1>1, <1>2, OopAssumption, RefCountsAssumption DEF InHandApart, Zero, PointersOf, Even, Always

LEMMA EvenNames ==
  ASSUME Even
  PROVE  /\ Named /\ Graph = field /\ Roots = {NilPointer, SmalltalkPointer, activeContext, newProcess} \union inHand
         /\ Roots \subseteq ReachedFrom(field, Roots) /\ Roots \in SUBSET Oop /\ ReachedFrom(field, Roots) \subseteq Live
<1>0. field \in Heap /\ inHand \subseteq Oop /\ activeContext \in Oop /\ newProcess \in Oop
      /\ NilPointer \in Oop /\ SmalltalkPointer \in Oop /\ todo = <<>>
  BY RefCountsAssumption DEF Even, Always, Typed
<1>1. PICK K : K = {NilPointer, SmalltalkPointer, activeContext} \union inHand
  OBVIOUS
<1>2. K \in SUBSET Oop /\ Known = ReachedFrom(field, K)
  BY <1>0, <1>1 DEF Known
<1>3. Closed(field, Known) /\ K \subseteq Known
  BY <1>0, <1>2, ReachedIsClosed
<1>4. Known \subseteq ReachedFrom(field, Roots)
  BY <1>0, <1>1, <1>2, ReachedIsClosed, ViewIs, ViewIdle, ReachedWithin
<1>5. Known \subseteq ReachedFrom(field, Base)
  BY <1>0, <1>1, <1>2, ReachedIsClosed, EvenApart, ReachedWithin DEF Base, Zero, Closed
<1> QED
  BY <1>0, <1>1, <1>3, <1>4, <1>5, ReachedIsClosed, ViewIs, ViewIdle DEF Even, Always, Present,
     Named, Closed

LEMMA StartsBalanced ==
  ASSUME Even, NEW fa \in Oop, NEW fn \in Oop, NEW s, NEW R, Starts(s, R, fa, fn)
  PROVE  Balanced(field, count, s, fa, fn)
<1>1. SUFFICES ASSUME NEW x \in Oop \ {NilPointer}
               PROVE  \/ count[x] = Sticky
                      \/ count[x] + Displaced(field, s, x)
                           = ReferencesFrom(field, Oop, x) + Owed(s, x) + Is(fa, x) + Is(fn, x)
  BY DEF Balanced
<1>2. Displaced(field, s, x) = 0
  BY DisplacedIs DEF Starts
<1>3. ReferencesFrom(field, Oop, x) \in Int
  <2>1. field \in Heap
    BY DEF Even, Always, Typed
  <2> QED  BY <2>1, ReferencesAre
<1>4. Owed(s, x) \in Int
  BY OwedNumber DEF Starts
<1>5. PICK n, d, r, o, a, b, c, e :
        /\ n = count[x] /\ d = Displaced(field, s, x) /\ r = ReferencesFrom(field, Oop, x) /\ o = Owed(s, x)
        /\ a = Is(fa, x) /\ b = Is(fn, x) /\ c = Is(activeContext, x) /\ e = Is(newProcess, x)
  OBVIOUS
<1>6. o + a + b = c + e /\ (n = Sticky \/ n = r + c + e)
  BY <1>5, EvenCounts DEF Starts, Evens
<1>7. n = Sticky \/ n + d = r + o + a + b
  BY ONLY <1>2, <1>3, <1>4, <1>5, <1>6, IsOne
<1> QED  BY <1>5, <1>7

LEMMA StartsCounted ==
  ASSUME Even, NEW fa \in Oop, NEW fn \in Oop, NEW s, NEW R, Starts(s, R, fa, fn)
  PROVE  Counted(field, count, s, inHand \ R, fa, fn)
<1>1. Balanced(field, count, s, fa, fn)
  BY StartsBalanced
<1> QED  BY <1>1, NothingHeld DEF Counted, Even, Starts, Attended

LEMMA StartsMoves ==
  ASSUME Even, NEW fa \in Oop, NEW fn \in Oop, NEW s, NEW R, Starts(s, R, fa, fn), Begins(s, R)
  PROVE  Moves(Graph, Roots, Graph', Roots')
<1>1. Graph' = field
  BY SoundEnding, ViewIs DEF Begins, regs, GraphAt, Starts
<1>2. Roots' \subseteq Roots \union HeldIn(s)
  BY EvenNames, SoundEnding, ViewIs, HeldAtThen, CollectionCalls DEF RootsAt, RegisterAt, ValuesIn,
     Begins, regs, Starts
<1> QED  BY <1>1, <1>2, EvenNames DEF Moves, Keeps, Starts

LEMMA BeginsWell ==
  ASSUME Even, NEW fa \in Oop, NEW fn \in Oop, NEW s, NEW R, Starts(s, R, fa, fn), Begins(s, R)
  PROVE  /\ Starting(fa, fn) /\ todo' = s /\ inHand' = inHand \ R /\ field' = field /\ count' = count
         /\ activeContext' = activeContext /\ newProcess' = newProcess
<1>1. /\ todo' = s /\ inHand' = inHand \ R /\ field' = field /\ count' = count /\ pending' = pending
      /\ activeContext' = activeContext /\ newProcess' = newProcess
  BY DEF Begins, regs
<1>2. Typed'
  BY <1>1 DEF Even, Always, Typed, Starts
<1>3. Always'
  BY <1>1, <1>2, StartsMoves, PresentStays DEF Always, Even, Counted, Starts
<1> QED  BY <1>1, <1>3, StartsCounted, StartsMoves DEF Starting

-----------------------------------------------------------------------------
(***************************************************************************)
(* The routines of the interpreter begin well.                             *)
(***************************************************************************)
LEMMA FirstIs ==
  ASSUME NEW s, NEW v, v \in Pointer
  PROVE  /\ Upcoming(s) = countUp(v) => s # <<>> /\ Upcoming(s).call \notin {"put", "countDownField"}
         /\ Upcoming(s) = countDown(v) => s # <<>> /\ Upcoming(s).call \notin {"put", "countDownField"}
         /\ Upcoming(s) = setNewProcess(v) /\ v \in Oop =>
              s # <<>> /\ Upcoming(s).call \notin {"put", "countDownField"}
<1>1. PICK u : u = Upcoming(s)
  OBVIOUS
<1> QED  BY <1>1, CountingCalls, RegisterCalls, NoCalls

LEMMA RegistersHeld ==
  ASSUME Even
  PROVE  /\ activeContext \in ReachedFrom(field, Roots) /\ newProcess \in ReachedFrom(field, Roots)
         /\ NilPointer \in ReachedFrom(field, Roots) /\ SmalltalkPointer \in ReachedFrom(field, Roots)
         /\ Known \subseteq ReachedFrom(field, Roots) /\ Known \subseteq Oop
         /\ field \in Heap /\ activeContext \in Oop /\ newProcess \in Oop /\ inHand \subseteq Oop
BY EvenNames DEF Even, Always, Typed, Named

LEMMA BaseNext ==
  ASSUME field' = field, count' = count, activeContext' = activeContext
  PROVE  Base' = Base /\ Zero' = Zero
BY DEF Base, Zero

LEMMA LinkIs ==
  ASSUME Even, NEW o \in Oop, HasLink(o)
  PROVE  /\ o \in Oop \ {NilPointer} /\ Link \in DOMAIN field[o] /\ field[o][Link] \in Pointer
         /\ LinkOf(o) = field[o][Link] /\ Link \in Nat
         /\ LinksToObject(o) => /\ field[o][Link] \in PointersOf(field, o)
                                /\ o \in Known => field[o][Link] \in Known
                                /\ field[o][Link] \in Oop /\ field[o][Link] # NilPointer
<1>1. field \in Heap /\ o \in Oop /\ Named
  BY EvenNames, RegistersHeld
<1>2. field[o] \in Seq(Pointer)
  BY <1>1 DEF Heap
<1>3. Len(field[o]) >= 2
  BY DEF HasLink, Link
<1>4. o # NilPointer
  <2>1. SUFFICES ASSUME o = NilPointer PROVE FALSE
    OBVIOUS
  <2>2. field[NilPointer] = <<SmalltalkPointer>>
    BY DEF Even, Always
  <2> QED  BY <1>3, <2>1, <2>2
<1>5. ASSUME LinksToObject(o)
      PROVE  /\ field[o][2] \in PointersOf(field, o) /\ (o \in Known => field[o][2] \in Known)
             /\ field[o][2] \in Oop /\ field[o][2] # NilPointer
  BY <1>1, <1>2, <1>3, <1>5 DEF Named, Pointer, PointersOf, LinksToObject, LinkOf, Link
<1> QED  BY <1>1, <1>2, <1>3, <1>4, <1>5 DEF LinkOf, Link

LEMMA HasLinkWhen ==
  ASSUME NEW o, LinksToObject(o)
  PROVE  HasLink(o)
BY DEF LinksToObject, LinkOf

LEMMA StoreStarts ==
  ASSUME Even, NEW o \in Known \ {NilPointer}, NEW v \in Known \union {Immediate},
         NEW f \in DOMAIN field[o]
  PROVE  /\ Starts(storePointer(o, f, v), {v}, activeContext, newProcess)
         /\ o \in Oop /\ f \in Nat /\ v \in Pointer /\ storePointer(o, f, v) = Store0(o, f, v)
<1>1. o \in Oop /\ v \in Pointer /\ field \in Heap
  BY RegistersHeld DEF Pointer
<1>2. f \in Nat
  BY <1>1 DEF Heap
<1>3. PICK s : s = Store0(o, f, v)
  OBVIOUS
<1>4. s \in Seq(CallRecord)
  BY <1>1, <1>2, <1>3, Store0Is
<1>5. Upcoming(s) = countUp(v)
  BY <1>1, <1>2, <1>3, Store0Is
<1>6. Sound(field, inHand \ {v}, s)
  BY <1>1, <1>2, <1>3, StoreSound
<1>7. HeldIn(s) \subseteq ReachedFrom(field, Roots)
  <2>1. HeldIn(Store0(o, f, v)) = ({v, o, NilPointer} \intersect Oop)
    BY <1>1, <1>2, Store0Is
  <2>2. Immediate \notin Oop
    BY OopAssumption
  <2> QED  BY <1>3, <2>1, <2>2, RegistersHeld
<1>8. WillRise(s, v)
  <2>1. PICK r : r = Store1(o, f, v)
    OBVIOUS
  <2> QED  BY <1>1, <1>2, <1>3, <2>1, Store1Is, CountingCalls, RiseThen DEF Store0
<1>9. Evens(s, activeContext, newProcess)
  <2>1. \A x : Owed(s, x) = 0
    BY <1>1, <1>2, <1>3, Store0Is
  <2> QED  BY <2>1, IsOne DEF Evens
<1>10. Starts(s, {v}, activeContext, newProcess)
  BY <1>1, <1>4, <1>5, <1>6, <1>7, <1>8, <1>9, FirstIs DEF Starts
<1> QED  BY <1>1, <1>2, <1>3, <1>10, StoreBegins

LEMMA StoreWell ==
  ASSUME Even, Store
  PROVE  Well
<1>1. PICK o \in Known \ {NilPointer}, v \in Known \union {Immediate} :
        \E f \in DOMAIN field[o] \ {1} : Begins(storePointer(o, f, v), {v})
  BY DEF Store
<1>2. PICK f \in DOMAIN field[o] \ {1} : Begins(storePointer(o, f, v), {v})
  BY <1>1
<1>3. PICK s : s = storePointer(o, f, v)
  OBVIOUS
<1>4. /\ Starts(s, {v}, activeContext, newProcess)
      /\ o \in Oop /\ f \in Nat /\ v \in Pointer /\ s = Store0(o, f, v)
  BY <1>3, StoreStarts
<1>5. activeContext \in Oop /\ newProcess \in Oop
  BY RegistersHeld
<1>6. /\ Starting(activeContext, newProcess) /\ todo' = s /\ field' = field /\ count' = count
      /\ activeContext' = activeContext /\ newProcess' = newProcess
  BY <1>2, <1>3, <1>4, <1>5, BeginsWell
<1>7. o \in ReachedFrom(field, Base \union ({v} \intersect Oop))
  <2>1. Base \in SUBSET Oop /\ field \in Heap
    BY RegistersHeld, RefCountsAssumption DEF Base, Zero
  <2>2. PICK Q : Q = Base \union ({v} \intersect Oop)
    OBVIOUS
  <2>3. Q \in SUBSET Oop /\ Base \in SUBSET Q
    BY <2>1, <2>2
  <2> QED  BY <2>1, <2>2, <2>3, EvenNames, ReachedMore DEF Named
<1>8. Storing(o, f, v)'
  BY <1>4, <1>6, <1>7, BaseNext DEF Storing
<1> QED  BY <1>4, <1>5, <1>6, <1>8 DEF Well, Stage

LEMMA AllocateWell ==
  ASSUME Even, Allocate
  PROVE  Well
<1>1. PICK n \in Pointers, class \in (Known \intersect Classes) \ inHand :
        Begins(<<countUp(class), attempt(n, class)>>, {})
  BY DEF Allocate
<1>2. n \in Nat \ {0} /\ class \in Oop /\ class \in Pointer /\ class \notin inHand \ {}
  BY <1>1, RefCountsAssumption DEF Pointer
<1>3. PICK s : s = Allocate0(n, class)
  OBVIOUS
<1>4. Begins(s, {})
  BY <1>1, <1>2, <1>3, AllocateBegins
<1>5. s # <<>> /\ Upcoming(s).call \notin {"put", "countDownField"}
  <2>1. Upcoming(s) = countUp(class)
    BY <1>2, <1>3, Allocate0Is
  <2> QED  BY <1>2, <2>1, FirstIs
<1>6. Sound(field, inHand \ {}, s)
  <2>1. PICK H : H = inHand \ {}
    OBVIOUS
  <2> QED  BY <1>2, <1>3, <2>1, AllocateSound
<1>7. HeldIn(s) \subseteq ReachedFrom(field, Roots)
  <2>1. HeldIn(Allocate0(n, class)) = ({class, NilPointer} \intersect Oop)
    BY <1>2, Allocate0Is
  <2> QED  BY <1>1, <1>3, <2>1, RegistersHeld
<1>8. Evens(s, activeContext, newProcess)
  <2>1. \A x : Owed(s, x) = 0
    BY <1>2, <1>3, Allocate0Is
  <2> QED  BY <2>1, IsOne DEF Evens
<1>9. Starts(s, {}, activeContext, newProcess)
  BY <1>2, <1>3, <1>5, <1>6, <1>7, <1>8, Allocate0Is DEF Starts
<1>10. activeContext \in Oop /\ newProcess \in Oop
  BY RegistersHeld
<1>11. /\ Starting(activeContext, newProcess) /\ todo' = s /\ field' = field /\ inHand' = inHand \ {}
       /\ activeContext' = activeContext /\ newProcess' = newProcess
  BY <1>4, <1>9, <1>10, BeginsWell
<1>12. Known' = Known /\ inHand' = inHand
  BY <1>11 DEF Known
<1> QED  BY <1>1, <1>2, <1>3, <1>10, <1>11, <1>12 DEF Well, Stage, Allocate, Allocating

LEMMA ActivateWell ==
  ASSUME Even, Activate
  PROVE  Well
<1>1. PICK c \in Known \ {NilPointer, SmalltalkPointer} :
        /\ HasLink(c)
        /\ Begins(storePointer(c, Link, activeContext) \o newActiveContext(c), {c})
  BY DEF Activate
<1>2. /\ activeContext \in Oop /\ newProcess \in Oop /\ activeContext \in Pointer /\ c \in Oop
      /\ c # NilPointer /\ Link \in DOMAIN field[c]
  BY <1>1, LinkIs, RegistersHeld DEF Pointer
<1>3. PICK s, a : s = Activate0(activeContext, c) /\ a = activeContext
  OBVIOUS
<1>4. Begins(s, {c})
  BY <1>1, <1>2, <1>3, ActivateBegins
<1>5. s \in Seq(CallRecord)
  BY <1>2, <1>3, Activate0Is
<1>6. s # <<>> /\ Upcoming(s).call \notin {"put", "countDownField"}
  <2>1. Upcoming(s) = countUp(a)
    BY <1>2, <1>3, Activate0Is
  <2> QED  BY <1>2, <1>3, <2>1, FirstIs
<1>7. Sound(field, inHand \ {c}, s)
  <2>1. PICK H : H = inHand \ {c}
    OBVIOUS
  <2>2. a \notin H /\ c \notin H
    BY <1>3, <2>1, EvenApart DEF InHandApart
  <2>3. Sound(field, H, Activate0(a, c))
    BY <1>2, <1>3, <2>2, ActivateSound
  <2> QED  BY <1>3, <2>1, <2>3
<1>8. HeldIn(s) \subseteq ReachedFrom(field, Roots)
  <2>1. HeldIn(Activate0(a, c)) = ({c, NilPointer, a} \intersect Oop)
    BY <1>2, <1>3, Activate0Is
  <2> QED  BY <1>1, <1>3, <2>1, RegistersHeld
<1>9. WillRise(s, c)
  <2>1. PICK r0, r1, r2, r3, r4, r5 :
          /\ r0 = s /\ r1 = Activate1(a, c) /\ r2 = Activate2(a, c) /\ r3 = Activate3(a, c)
          /\ r4 = Activate4(c) /\ r5 = Activate5(c)
    OBVIOUS
  <2>2. WillRise(r5, c)
    <3>1. PICK e : e = <<>>
      OBVIOUS
    <3>2. e \in Seq(CallRecord)
      BY <3>1, NoCalls
    <3>3. WillRise(Then(countUp(c), e), c)
      BY <1>2, <3>2, CountingCalls, RiseThen DEF Pointer
    <3> QED  BY <2>1, <3>1, <3>3 DEF Activate5
  <2>3. WillRise(r4, c)
    BY <1>2, <2>1, <2>2, Activate5Is, RegisterCalls, RiseThen DEF Activate4
  <2>4. WillRise(r3, c)
    BY <1>2, <1>3, <2>1, <2>3, Activate4Is, CountingCalls, RiseThen DEF Activate3
  <2>5. WillRise(r2, c)
    <3>1. r3 \in Seq(CallRecord)
      BY <1>2, <1>3, <2>1, Activate3Is
    <3>2. put(c, Link, a) \in CallRecord
      BY <1>2, <1>3, PlaceCalls DEF Link
    <3> QED  BY <2>1, <2>4, <3>1, <3>2, RiseThen DEF Activate2
  <2>6. WillRise(r1, c)
    <3>1. r2 \in Seq(CallRecord)
      BY <1>2, <1>3, <2>1, Activate2Is
    <3> QED  BY <1>2, <1>3, <2>1, <2>5, <3>1, PlaceCalls, RiseThen DEF Activate1, Link
  <2>7. WillRise(r0, c)
    <3>1. r1 \in Seq(CallRecord)
      BY <1>2, <1>3, <2>1, Activate1Is
    <3> QED  BY <1>2, <1>3, <2>1, <2>6, <3>1, CountingCalls, RiseThen DEF Activate0
  <2> QED  BY <2>1, <2>7
<1>10. Evens(s, c, newProcess)
  <2>1. \A x : Owed(s, x) = Is(activeContext, x) - Is(c, x)
    BY <1>2, <1>3, Activate0Is
  <2> QED  BY <2>1, IsOne DEF Evens
<1>11. Starts(s, {c}, c, newProcess)
  BY <1>5, <1>6, <1>7, <1>8, <1>9, <1>10 DEF Starts
<1> QED
  BY <1>1, <1>2, <1>3, <1>4, <1>11, EvenNames, BaseNext, BeginsWell DEF Well, Stage, Named,
     Activating

LEMMA ReturnWell ==
  ASSUME Even, returnBytecode
  PROVE  Well
<1>1. PICK a, c, t : a = activeContext /\ c = LinkOf(activeContext) /\ t = Top(c)
  OBVIOUS
<1>2. PICK v \in PointersOf(field, a) \union {NilPointer, Immediate} :
        HasLink(c) /\ Begins(returnValue_to(v, c), {v})
  BY <1>1 DEF returnBytecode
<1>3. /\ activeContext \in Oop /\ newProcess \in Oop /\ field \in Heap /\ a \in Oop /\ a \in Known
      /\ inHand \subseteq Oop
  BY <1>1, RegistersHeld, EvenNames DEF Named
<1>4. /\ a # NilPointer /\ Link \in DOMAIN field[a] /\ c = field[a][Link] /\ c \in PointersOf(field, a)
      /\ c \in Known /\ c \in Oop
  BY <1>1, <1>3, LinkIs DEF returnBytecode
<1>5. c # NilPointer /\ Link \in DOMAIN field[c]
  BY <1>2, <1>4, LinkIs
<1>6. t \in DOMAIN field[c] /\ t \in Nat
  BY <1>1, <1>2, <1>3, <1>4 DEF Heap, HasLink, Top, Link
<1>7. v \in Pointer /\ v \notin inHand /\ (v \in Oop => v \in Known)
  BY <1>2, <1>3, PointersAre, EvenApart, OopAssumption, RefCountsAssumption, EvenNames DEF Pointer,
     Named, InHandApart
<1>8. c \notin inHand /\ NilPointer \notin inHand
  BY <1>3, <1>4, EvenApart DEF InHandApart
<1>9. PICK s, H : s = Return0(a, c, t, v) /\ H = inHand \ {v}
  OBVIOUS
<1>10. a \in Oop /\ c \in Oop /\ t \in Nat /\ v \in Pointer
  BY <1>3, <1>4, <1>6, <1>7
<1>11. Begins(s, {v})
  BY <1>1, <1>2, <1>3, <1>4, <1>6, <1>7, <1>9, ReturnBegins
<1>12. s \in Seq(CallRecord)
  BY <1>3, <1>4, <1>6, <1>7, <1>9, Return0Is
<1>13. s # <<>> /\ Upcoming(s).call \notin {"put", "countDownField"}
  <2>1. Upcoming(s) = countUp(v)
    BY <1>9, <1>10, Return0Is
  <2> QED  BY <1>7, <2>1, FirstIs
<1>14. Sound(field, H, s)
  BY <1>3, <1>4, <1>5, <1>6, <1>7, <1>8, <1>9, ReturnSound
<1>15. HeldIn(s) \subseteq ReachedFrom(field, Roots)
  <2>1. HeldIn(Return0(a, c, t, v)) = ({v, NilPointer, c, a} \intersect Oop)
    BY <1>3, <1>4, <1>6, <1>7, Return0Is
  <2> QED  BY <1>3, <1>4, <1>7, <1>9, <2>1, RegistersHeld
<1>16. Evens(s, c, newProcess)
  <2>1. \A x : Owed(s, x) = Is(activeContext, x) - Is(c, x)
    BY <1>1, <1>9, <1>10, Return0Is
  <2> QED  BY <2>1, IsOne DEF Evens
<1>17. Starts(s, {v}, c, newProcess)
  BY <1>7, <1>9, <1>12, <1>13, <1>14, <1>15, <1>16 DEF Starts
<1>18. Returning(a, c, t, v)'
  BY <1>1, <1>3, <1>4, <1>9, <1>11, <1>17, BeginsWell DEF Returning
<1> QED  BY <1>3, <1>4, <1>6, <1>7, <1>11, <1>17, <1>18, BeginsWell DEF Well, Stage

LEMMA WakeWell ==
  ASSUME Even, WakeFirst
  PROVE  Well
<1>1. PICK l \in Known \ {NilPointer} :
        LinksToObject(l) /\ LinksToObject(LinkOf(l)) /\ Begins(suspendActive(l), {})
  BY DEF WakeFirst
<1>2. PICK p, q : p = field[l][Link] /\ q = newProcess
  OBVIOUS
<1>3. /\ activeContext \in Oop /\ newProcess \in Oop /\ q \in Oop /\ field \in Heap /\ l \in Oop
      /\ HasLink(l)
  BY <1>1, <1>2, RegistersHeld, HasLinkWhen
<1>4. l # NilPointer /\ Link \in DOMAIN field[l] /\ p \in PointersOf(field, l) /\ p \in Known /\ p \in Oop
  BY <1>1, <1>2, <1>3, LinkIs
<1>5. PICK s : s = Wake0(l, q, p)
  OBVIOUS
<1>6. s \in Seq(CallRecord)
  BY <1>3, <1>4, <1>5, Wake0Is
<1>7. s # <<>> /\ Upcoming(s).call \notin {"put", "countDownField"}
  <2>1. Upcoming(s) = countUp(p)
    BY <1>3, <1>4, <1>5, Wake0Is
  <2> QED  BY <1>4, <2>1, FirstIs DEF Pointer
<1>8. Sound(field, inHand \ {}, s)
  <2>1. PICK H : H = inHand \ {}
    OBVIOUS
  <2>2. p \notin H /\ NilPointer \notin H
    BY <1>3, <1>4, <2>1, EvenApart DEF InHandApart
  <2>3. Sound(field, H, Wake0(l, q, p))
    BY <1>3, <1>4, <2>2, WakeSound
  <2> QED  BY <1>5, <2>1, <2>3
<1>9. HeldIn(s) \subseteq ReachedFrom(field, Roots)
  <2>1. HeldIn(Wake0(l, q, p)) \subseteq {l, q, p, NilPointer}
    BY <1>3, <1>4, Wake0Is
  <2> QED  BY <1>1, <1>2, <1>4, <1>5, <2>1, RegistersHeld
<1>10. Evens(s, activeContext, p)
  <2>1. \A x : x # NilPointer => Owed(Wake0(l, q, p), x) = Is(q, x) - Is(p, x)
    BY <1>3, <1>4, Wake0Is
  <2> QED  BY <1>2, <1>5, <2>1, IsOne DEF Evens
<1>11. Starts(s, {}, activeContext, p)
  BY <1>6, <1>7, <1>8, <1>9, <1>10 DEF Starts
<1> QED  BY <1>1, <1>2, <1>3, <1>4, <1>5, <1>11, WakeBegins, BeginsWell DEF Well, Stage, Waking

LEMMA ResumeWell ==
  ASSUME Even, resume
  PROVE  Well
<1>1. PICK p \in Known \ {NilPointer} : Begins(transferTo(p), {p})
  BY DEF resume
<1>2. PICK s, q : s = transferTo(p) /\ q = newProcess
  OBVIOUS
<1>3. /\ activeContext \in Oop /\ newProcess \in Oop /\ q \in Oop /\ field \in Heap /\ p \in Oop
      /\ p \in Pointer /\ q \in Pointer
  BY <1>1, <1>2, RegistersHeld DEF Pointer
<1>4. IF q # NilPointer THEN s = Transfer0(q, p) ELSE s = Transfer1(p)
  BY <1>2, <1>3, TransferBegins
<1>5. s # <<>> /\ Upcoming(s).call \notin {"put", "countDownField"}
  <2>1. Upcoming(Transfer0(q, p)) = countDown(q)
    BY <1>3, Transfer0Is
  <2>2. Upcoming(Transfer1(p)) = setNewProcess(p)
    BY <1>3, Transfer1Is
  <2> QED  BY <1>3, <1>4, <2>1, <2>2, FirstIs
<1>6. Sound(field, inHand \ {p}, s)
  <2>1. PICK H : H = inHand \ {p}
    OBVIOUS
  <2>2. p \notin H
    BY <2>1
  <2>3. Sound(field, H, Transfer1(p))
    BY <1>3, <2>2, TransferSound
  <2> QED  BY <1>3, <1>4, <2>1, <2>2, <2>3, TransferSound
<1>7. HeldIn(s) \subseteq ReachedFrom(field, Roots)
  <2>1. HeldIn(Transfer0(q, p)) = ({p, NilPointer, q} \intersect Oop)
    BY <1>3, Transfer0Is
  <2>2. HeldIn(Transfer1(p)) = ({p, NilPointer} \intersect Oop)
    BY <1>3, Transfer1Is
  <2> QED  BY <1>1, <1>2, <1>4, <2>1, <2>2, RegistersHeld
<1>8. WillRise(s, p)
  <2>1. PICK r, e : r = Transfer2(p) /\ e = <<>>
    OBVIOUS
  <2>2. countUp(p) \in CallRecord /\ e \in Seq(CallRecord)
    BY <1>3, <2>1, CountingCalls, NoCalls
  <2>3. WillRise(Then(countUp(p), e), p)
    BY <2>2, RiseThen
  <2>4. PICK w : w = Transfer1(p)
    OBVIOUS
  <2>5. w \in Seq(CallRecord) /\ WillRise(w, p)
    BY <1>3, <2>1, <2>3, <2>4, RegisterCalls, Transfer2Is, RiseThen, Transfer1Is DEF Transfer1,
       Transfer2
  <2> QED  BY <1>3, <1>4, <2>4, <2>5, CountingCalls, RiseThen DEF Transfer0
<1>9. Evens(s, activeContext, p)
  <2>1. ASSUME NEW x \in Oop \ {NilPointer}
        PROVE  Owed(s, x) = Is(newProcess, x) - Is(p, x)
    <3>1. CASE q # NilPointer
      BY <1>2, <1>3, <1>4, <3>1, Transfer0Is
    <3>2. CASE q = NilPointer
      BY <1>2, <1>3, <1>4, <3>2, Transfer1Is DEF Is
    <3> QED  BY <3>1, <3>2
  <2> QED  BY <2>1, IsOne DEF Evens
<1>10. Starts(s, {p}, activeContext, p)
  BY <1>2, <1>3, <1>5, <1>6, <1>7, <1>8, <1>9, TransferParts DEF Starts
<1> QED
  BY <1>1, <1>2, <1>3, <1>4, <1>10, EvenNames, BaseNext, BeginsWell DEF Well, Stage, Transferring,
     Named

LEMMA SwitchWell ==
  ASSUME Even, checkProcessSwitch
  PROVE  Well
<1>1. PICK a, p, q, c : /\ a = activeContext /\ p = newProcess /\ q = LinkOf(SmalltalkPointer)
                        /\ c = contextOf(newProcess)
  OBVIOUS
<1>2. /\ p # NilPointer /\ p # SmalltalkPointer /\ HasLink(p) /\ LinksToObject(p)
      /\ LinksToObject(SmalltalkPointer) /\ HasLink(q)
      /\ Begins(storePointer(q, Link, activeContext)
              \o storePointer(SmalltalkPointer, Link, newProcess)
              \o newActiveContext(c)
              \o <<countDown(newProcess), setNewProcess(NilPointer)>>, {})
  BY <1>1 DEF checkProcessSwitch
<1>3. /\ activeContext \in Oop /\ newProcess \in Oop /\ a \in Oop /\ p \in Oop /\ field \in Heap
      /\ NilPointer \in Oop /\ SmalltalkPointer \in Oop /\ a \in Pointer /\ p \in Pointer
  BY <1>1, RegistersHeld, RefCountsAssumption DEF Pointer
<1>4. /\ Link \in DOMAIN field[SmalltalkPointer] /\ q = field[SmalltalkPointer][Link]
      /\ q \in PointersOf(field, SmalltalkPointer) /\ q \in Known /\ q \in Oop
  BY <1>1, <1>2, <1>3, HasLinkWhen, EvenNames, LinkIs DEF Named
<1>5. IF p = q THEN c = a ELSE c \in PointersOf(field, p)
  BY <1>1, <1>2, <1>3, LinkIs DEF contextOf
<1>6. c \in Oop
  BY <1>1, <1>2, <1>3, <1>5, LinkIs DEF contextOf
<1>7. a \notin inHand /\ p \notin inHand /\ c \notin inHand
  BY <1>1, <1>3, <1>5, EvenApart DEF InHandApart
<1>8. c \in ReachedFrom(field, Roots)
  BY <1>1, <1>3, <1>5, EvenNames, ReachedIsClosed, RegistersHeld DEF Closed
<1>9. PICK s, H : s = Switch0(q, a, p, c) /\ H = inHand \ {}
  OBVIOUS
<1>10. q \in Oop /\ a \in Oop /\ p \in Oop /\ c \in Oop
  BY <1>3, <1>4, <1>6
<1>11. Begins(s, {})
  <2>1. storePointer(q, Link, activeContext)
           \o storePointer(SmalltalkPointer, Link, newProcess)
           \o newActiveContext(c)
           \o <<countDown(newProcess), setNewProcess(NilPointer)>>
         = Switch0(q, activeContext, newProcess, c)
    BY <1>3, <1>4, <1>6, SwitchBegins
  <2> QED  BY <1>1, <1>2, <1>9, <2>1
<1>12. s \in Seq(CallRecord)
  BY <1>9, <1>10, Switch0Is
<1>13. s # <<>> /\ Upcoming(s).call \notin {"put", "countDownField"}
  <2>1. Upcoming(s) = countUp(a)
    BY <1>9, <1>10, Switch0Is
  <2> QED  BY <1>3, <2>1, FirstIs
<1>14. Sound(field, H, s)
  BY <1>2, <1>3, <1>4, <1>6, <1>7, <1>9, LinkIs, SwitchSound
<1>15. HeldIn(s) \subseteq ReachedFrom(field, Roots)
  <2>1. HeldIn(Switch0(q, a, p, c)) = ({NilPointer, p, c, a, SmalltalkPointer, q} \intersect Oop)
    BY <1>10, Switch0Is
  <2> QED  BY <1>1, <1>4, <1>8, <1>9, <2>1, RegistersHeld
<1>16. Evens(s, c, NilPointer)
  <2>1. \A x : Owed(Switch0(q, a, p, c), x) = Is(p, x) + Is(a, x) - Is(c, x)
    BY <1>10, Switch0Is
  <2> QED  BY <1>1, <1>9, <2>1, IsOne DEF Evens
<1>17. Starts(s, {}, c, NilPointer)
  BY <1>9, <1>12, <1>13, <1>14, <1>15, <1>16 DEF Starts
<1>18. /\ Starting(c, NilPointer) /\ todo' = s /\ field' = field /\ count' = count
       /\ activeContext' = activeContext /\ newProcess' = newProcess
  BY <1>3, <1>6, <1>11, <1>17, BeginsWell
<1> QED  BY <1>1, <1>2, <1>3, <1>4, <1>5, <1>6, <1>9, <1>18 DEF Well, Stage, Switching

-----------------------------------------------------------------------------
(* become: between two routines.                                           *)
LEMMA SwapWell ==
  ASSUME Even, swapPointersOf
  PROVE  Well
<1>1. PICK a \in Known \ {NilPointer}, b \in Known \ {NilPointer} :
        a # b /\ field' = [field EXCEPT ![a] = field[b], ![b] = field[a]]
  BY DEF swapPointersOf
<1>2. /\ count' = count /\ activeContext' = activeContext /\ newProcess' = newProcess
      /\ inHand' = inHand /\ todo' = todo /\ pending' = pending
  BY DEF swapPointersOf, regs
<1>3. /\ field \in Heap /\ activeContext \in Oop /\ newProcess \in Oop /\ inHand \subseteq Oop
      /\ a \in Oop \ {NilPointer} /\ b \in Oop \ {NilPointer} /\ todo = <<>> /\ NilPointer \in Oop
  BY <1>1, RegistersHeld, RefCountsAssumption DEF Even
<1>4. a # b /\ a \in Oop /\ b \in Oop /\ field \in Heap
  BY <1>1, <1>3
<1>5. field' = Swapped(field, a, b)
  BY <1>1 DEF Swapped
<1>6. /\ Swapped(field, a, b) \in Heap /\ Swapped(field, a, b)[a] = field[b]
      /\ Swapped(field, a, b)[b] = field[a] /\ \A p \in Oop \ {a, b} : Swapped(field, a, b)[p] = field[p]
  BY <1>4, SwappedIs
<1>7. field[a] # <<>> /\ field[b] # <<>>
  BY <1>1, EvenNames DEF Named, Live, Objects
<1>8. Balanced(field', count', todo', activeContext', newProcess')
  <2>1. ASSUME NEW x \in Oop \ {NilPointer}
        PROVE  \/ count[x] = Sticky
               \/ count[x] + Displaced(field', <<>>, x)
                    = ReferencesFrom(field', Oop, x) + Owed(<<>>, x) + Is(activeContext, x) + Is(newProcess, x)
    <3>1. ReferencesFrom(field, Oop, x) \in Nat
      BY <1>3, ReferencesAre
    <3>2. PICK n, r, i, j : /\ n = count[x] /\ r = ReferencesFrom(field, Oop, x)
                            /\ i = Is(activeContext, x) /\ j = Is(newProcess, x)
      OBVIOUS
    <3> QED
      BY <1>4, <1>5, <3>1, <3>2, ReferencesSwapped, EvenCounts, OwedNothing, IsOne DEF Displaced,
         Calling
  <2> QED  BY <1>2, <1>3, <2>1 DEF Balanced
<1>9. Counted(field', count', todo', inHand', activeContext', newProcess')
  BY <1>2, <1>3, <1>5, <1>6, <1>7, <1>8, NothingHeld DEF Counted, Even, Attended, Objects
<1>10. Moves(Graph, Roots, Graph', Roots')
  BY <1>1, <1>2, <1>3, <1>5, ViewIs, ViewIdle, EvenNames DEF Moves, Exchanges, Named
<1>11. Present'
  BY <1>2, <1>3, <1>5, <1>6, <1>10, NothingHeld, PresentStays DEF Even, Counted, Always, Typed
<1> QED
  BY <1>2, <1>3, <1>5, <1>6, <1>9, <1>10, <1>11 DEF Well, Stage, Starting, Always, Even, Typed

LEMMA GentleThen ==
  ASSUME NEW f, NEW V, NEW s, Gentle(f, s, V), NEW c \in CallRecord,
         c.call \in {"countUp", "zero", "mark", "rectify"},
         c.value \in V \union {Immediate}, c.object \in V
  PROVE  Gentle(f, Then(c, s), V)
<1>1. HeldIn(Then(c, s)) = ValuesIn(c) \union HeldIn(s)
  BY HeldThen DEF Gentle
<1>2. Callable(f, {}, c, Upcoming(s))
  BY DEF Callable, Gentle
<1> QED  BY <1>1, <1>2, OopAssumption, SoundThen, Prepend DEF Gentle, ValuesIn

LEMMA GentleView ==
  ASSUME NEW f, NEW V, NEW s, Gentle(f, s, V), NEW a, NEW p
  PROVE  /\ GraphAt(f, s) = f
         /\ RootsAt(s, a, p, {}) \subseteq {NilPointer, SmalltalkPointer, a, p} \union V
         /\ {NilPointer, SmalltalkPointer, a, p} \subseteq RootsAt(s, a, p, {})
BY SoundEnding, HeldAtThen, CollectionCalls DEF RootsAt, RegisterAt, GraphAt, Gentle

LEMMA GoalIs ==
  ASSUME NEW g \in Goals, NEW f
  PROVE  /\ g \in Seq(CallRecord) /\ Sound(f, {}, g)
         /\ Upcoming(g).call \in {"abort", "attemptAgain"}
         /\ g # <<>> => \E n \in Nat \ {0}, class \in Oop : g = Again(n, class)
<1>1. CASE g = <<>>
  BY <1>1, NothingHeld, NoCalls
<1>2. ASSUME NEW n \in Nat \ {0}, NEW class \in Oop, g = Again(n, class)
      PROVE  /\ g \in Seq(CallRecord) /\ Sound(f, {}, g)
             /\ Upcoming(g).call \in {"abort", "attemptAgain"}
  <2>1. Again(n, class) \in Seq(CallRecord)
    BY AgainIs
  <2>2. Upcoming(Again(n, class)) = attemptAgain(attempt(n, class))
    BY AgainIs
  <2>3. PICK H : H = {}
    OBVIOUS
  <2>4. Sound(f, H, Again(n, class))
    BY AgainSound
  <2> QED  BY <1>2, <2>1, <2>2, <2>3, <2>4, AttemptCalls
<1>3. g # <<>> => \E n \in Nat \ {0}, class \in Oop : g = Again(n, class)
  BY DEF Goals
<1> QED  BY <1>1, <1>2, <1>3

LEMMA GoalHeld ==
  ASSUME NEW g \in Goals, GoalKept(g)
  PROVE  HeldIn(g) \subseteq Kept
<1>1. CASE g = <<>>
  BY <1>1, NothingHeld
<1>2. ASSUME NEW n \in Nat \ {0}, NEW class \in Oop, g = Again(n, class)
      PROVE  HeldIn(g) \subseteq Kept
  BY <1>2, AgainIs DEF GoalKept
<1> QED  BY <1>1, <1>2, GoalIs

LEMMA ChainIsGentle ==
  ASSUME NEW f, NEW V, V \subseteq Oop, NEW g, Gentle(f, g, V), Anchors \subseteq V
  PROVE  ChainGentle(f, g, V)
<1>0. NilPointer \in V /\ SmalltalkPointer \in V /\ activeContext \in V /\ newProcess \in V
  BY DEF Anchors
<1>1. ASSUME NEW v \in V
      PROVE  /\ countUp(v) \in CallRecord /\ countUp(v).call = "countUp"
             /\ countUp(v).value = v /\ countUp(v).object = NilPointer
             /\ addRoot(v) \in CallRecord /\ addRoot(v).call = "mark"
             /\ addRoot(v).value = v /\ addRoot(v).object = NilPointer
  BY CountingCalls, CollectionCalls DEF Pointer
<1>2. ASSUME NEW s, Gentle(f, s, V), NEW v \in V
      PROVE  Gentle(f, Then(countUp(v), s), V) /\ Gentle(f, Then(addRoot(v), s), V)
  <2>1. PICK c, d : c = countUp(v) /\ d = addRoot(v)
    OBVIOUS
  <2>2. /\ c \in CallRecord /\ c.call = "countUp" /\ c.value = v /\ c.object = NilPointer
        /\ d \in CallRecord /\ d.call = "mark" /\ d.value = v /\ d.object = NilPointer
    BY <1>1, <2>1
  <2> QED  BY <1>0, <1>2, <2>1, <2>2, GentleThen
<1>3. ASSUME NEW s, Gentle(f, s, V)
      PROVE  Gentle(f, Then(rectify, s), V) /\ Gentle(f, Then(zeroReferenceCounts, s), V)
  <2>1. PICK c, d : c = rectify /\ d = zeroReferenceCounts
    OBVIOUS
  <2> QED  BY <1>0, <1>3, <2>1, CollectionCalls, GentleThen
<1>4. Gentle(f, Recount1(g), V)
  BY <1>0, <1>2 DEF Recount1
<1>5. Gentle(f, Recount0(g), V)
  BY <1>0, <1>2, <1>4 DEF Recount0
<1>6. Gentle(f, Rectify(g), V)
  BY <1>3, <1>5 DEF Rectify
<1>7. Gentle(f, Mark4(g), V)
  BY <1>0, <1>2, <1>6 DEF Mark4
<1>8. Gentle(f, Mark3(g), V)
  BY <1>0, <1>2, <1>7 DEF Mark3
<1>9. Gentle(f, Mark2(g), V)
  BY <1>0, <1>2, <1>8 DEF Mark2
<1>10. Gentle(f, Mark1(g), V)
  BY <1>0, <1>2, <1>9 DEF Mark1
<1> QED  BY <1>3, <1>4, <1>5, <1>6, <1>7, <1>8, <1>9, <1>10 DEF ChainGentle, Mark0

LEMMA KeptHolds ==
  ASSUME Typed
  PROVE  KeptIs
<1>1. field \in Heap /\ Anchors \in SUBSET Oop
  BY RefCountsAssumption DEF Typed, Anchors
<1> QED  BY <1>1, ReachedIsClosed DEF KeptIs, Closed, Kept

LEMMA ChainHolds ==
  ASSUME Typed, NEW g \in Goals, GoalKept(g)
  PROVE  /\ ChainGentle(field, g, Kept) /\ Gentle(field, g, Kept)
         /\ \A s \in Chain(g) : Gentle(field, s, Kept)
<1>1. Gentle(field, g, Kept)
  BY GoalIs, GoalHeld DEF Gentle
<1> QED  BY <1>1, KeptHolds, ChainIsGentle DEF ChainGentle, Chain, KeptIs

LEMMA CollectionHolds ==
  ASSUME Typed, inHand = {}, NEW g \in Goals, GoalKept(g), todo \in Chain(g)
  PROVE  CollectionView
<1>1. Graph = field
  BY ChainHolds, ViewIs, GentleView
<1>2. KeptIs /\ field \in Heap
  BY KeptHolds DEF Typed
<1>3. Roots \subseteq Kept /\ Anchors \subseteq Roots
  BY <1>2, ChainHolds, ViewIs, GentleView DEF KeptIs, Anchors
<1>4. Kept \subseteq ReachedFrom(field, Roots)
  BY <1>2, <1>3, ReachedIsClosed, ReachedWithin DEF Kept, KeptIs
<1>5. Sound(field, inHand, todo)
  BY ChainHolds DEF Gentle
<1> QED  BY <1>1, <1>2, <1>3, <1>4, <1>5, ReachedIsLeast DEF CollectionView, KeptIs

LEMMA InChain ==
  ASSUME NEW g
  PROVE  Marking(g) \/ Rectifying(g) => todo \in Chain(g)
BY DEF Marking, Rectifying, Chain

LEMMA CollectionProceeds ==
  ASSUME Always, Sound(field, inHand, todo), Graph = field, Anchors \subseteq Roots,
         field' = field, activeContext' = activeContext, newProcess' = newProcess,
         inHand' = {}, count' \in Counts, pending' \subseteq Oop,
         NEW g, Collects(g)'
  PROVE  Proceeds
<1>1. Kept' = Kept
  BY DEF Kept, Anchors
<1>2. Chain(g)' = Chain(g)
  BY DEF Chain, Mark0, Mark1, Mark2, Mark3, Mark4, Rectify, Recount0, Recount1
<1>3. Gentle(field, todo', Kept)
  BY <1>1, <1>2, ChainHolds DEF Always, Marking, Rectifying, Chain, Collects, GoalKept
<1>4. Graph' = GraphAt(field, todo') /\ Roots' = RootsAt(todo', activeContext, newProcess, {})
  BY ViewIs
<1>5. /\ Graph' = field
      /\ Roots' \subseteq {NilPointer, SmalltalkPointer, activeContext, newProcess} \union Kept
  BY <1>3, <1>4, GentleView
<1>6. Kept \subseteq ReachedFrom(Graph, Roots)
  BY KeptHolds, RootsLive, ReachedWithin DEF Kept, Always, Typed
<1>7. Moves(Graph, Roots, Graph', Roots')
  BY <1>5, <1>6, KeptHolds DEF Moves, Keeps, KeptIs, Anchors, Always, Typed
<1>8. Typed'
  BY <1>3 DEF Always, Typed, Gentle, Counts
<1> QED  BY <1>3, <1>7, <1>8, PresentStays DEF Proceeds, IInv, Collecting, Collects, Always, Gentle

-----------------------------------------------------------------------------
(***************************************************************************)
(* The attempt to allocate: it succeeds, or a collection begins, or the    *)
(* program is aborted.                                                     *)
(***************************************************************************)
LEMMA PlainView ==
  ASSUME NEW f, NEW h, NEW s \in Seq(CallRecord), s # <<>>, Sound(f, h, s), NEW a, NEW p,
         Upcoming(s).call \in {"abort", "attempt", "attemptAgain"}
  PROVE  /\ GraphAt(f, s) = f
         /\ RootsAt(s, a, p, h) = {NilPointer, SmalltalkPointer, a, p} \union h \union HeldAt(s)
BY SoundEnding DEF RootsAt, RegisterAt, GraphAt

LEMMA AttemptingIs ==
  ASSUME Attempting, Sound(field, inHand, todo)
  PROVE  /\ \E c : AttemptCall(c)
         /\ \/ \E n \in Nat \ {0}, class \in Oop :
                 todo = Allocate1(n, class) /\ Allocating(n, class) /\ Head(todo) = attempt(n, class)
            \/ todo # <<>> /\ Head(todo).call = "attemptAgain"
<1>1. ASSUME NEW c \in CallRecord, todo = Then(c, <<>>), c.call \in {"attempt", "attemptAgain"}
      PROVE  AttemptCall(c)
  <2>1. PICK e : e = <<>>
    OBVIOUS
  <2>2. e \in Seq(CallRecord) /\ todo = Then(c, e)
    BY <1>1, <2>1, NoCalls
  <2>3. todo # <<>> /\ Head(todo) = c /\ Tail(todo) = e
    BY <1>1, <2>2, AtCall
  <2>4. Upcoming(todo) = c
    BY <1>1, <2>2, Prepend
  <2>5. Callable(field, inHand, c, Upcoming(e))
    BY <1>1, <2>2, SoundThen
  <2> QED  BY <1>1, <2>1, <2>3, <2>4, <2>5 DEF AttemptCall, Callable
<1>2. ASSUME NEW n \in Nat, NEW class \in Oop, todo = Allocate1(n, class), Allocating(n, class)
      PROVE  /\ AttemptCall(attempt(n, class)) /\ n \in Nat \ {0} /\ Head(todo) = attempt(n, class)
  <2>1. PICK c : c = attempt(n, class)
    OBVIOUS
  <2> QED  BY <1>1, <1>2, <2>1, AttemptCalls DEF AttemptCall, Allocate1
<1>3. ASSUME NEW n \in Nat \ {0}, NEW class \in Oop, todo = Again(n, class)
      PROVE  \E c : AttemptCall(c) /\ Head(todo).call = "attemptAgain" /\ todo # <<>>
  <2>1. PICK c : c = attemptAgain(attempt(n, class))
    OBVIOUS
  <2> QED  BY <1>1, <1>3, <2>1, AttemptCalls DEF AttemptCall, Again
<1>4. CASE \E n \in Nat, class \in Oop : todo = Allocate1(n, class) /\ Allocating(n, class)
  BY <1>2, <1>4
<1>5. CASE \E g \in Goals \ {<<>>} : todo = g
  BY <1>3, <1>5 DEF Goals
<1> QED  BY <1>4, <1>5 DEF Attempting

LEMMA AttemptViews ==
  ASSUME Attempting, Typed, Sound(field, inHand, todo)
  PROVE  AttemptView
<1>1. PICK c : AttemptCall(c)
  BY AttemptingIs
<1> QED  BY <1>1, ViewIs, PlainView DEF AttemptView, AttemptCall, Typed

LEMMA AttemptProceeds ==
  ASSUME Always, Counted(field, count, todo, inHand, activeContext, newProcess), Attempting,
         AttemptToAllocate
  PROVE  Proceeds
<1>1. Tail(todo) = <<>>
  BY AttemptingIs DEF AttemptCall, Counted
<1> QED  BY <1>1, AttemptMakes DEF Proceeds, IInv, Stage, Always, Typed

LEMMA AgainSame ==
  ASSUME NEW n \in Nat, NEW m \in Nat, NEW class \in Oop, NEW other \in Oop,
         Again(n, class) = Again(m, other)
  PROVE  class = other
BY AgainIs, AttemptCalls

LEMMA AllocateCollectsProceeds ==
  ASSUME Always, Counted(field, count, todo, inHand, activeContext, newProcess), Attempting,
         AllocateChunkCollects, CollectsSafely
  PROVE  Proceeds
<1>1. Sound(field, inHand, todo) /\ Typed
  BY DEF Counted, Always
<1>2. PICK n \in Nat \ {0}, class \in Oop :
        todo = Allocate1(n, class) /\ Allocating(n, class) /\ Head(todo) = attempt(n, class)
  BY <1>1, AttemptingIs DEF AllocateChunkCollects, Makes
<1>3. n \in Nat /\ activeContext \in Oop /\ newProcess \in Oop /\ field \in Heap
  BY <1>1 DEF Typed
<1>4. PICK c, g : c = attempt(n, class) /\ g = Again(n, class)
  OBVIOUS
<1>5. c.object = class
  BY <1>3, <1>4, AttemptCalls
<1>6. /\ count' = count /\ field' = field /\ activeContext' = activeContext /\ newProcess' = newProcess
      /\ inHand' = inHand /\ pending' = pending
      /\ todo' = reclaimInaccessibleObjects \o <<attemptAgain(c)>>
  BY <1>2, <1>4 DEF AllocateChunkCollects, regs
<1>7. todo' = Mark0(g)
  BY <1>3, <1>4, <1>6, CollectionForAllocation
<1>8. class \in Kept
  <2>1. PICK K : K = {NilPointer, SmalltalkPointer, activeContext}
    OBVIOUS
  <2>2. Known = ReachedFrom(field, K)
    BY <1>2, <1>4, <1>5, <2>1 DEF Known, CollectsSafely
  <2> QED  BY <1>1, <1>2, <2>1, <2>2, KeptHolds, ReachedIsLeast DEF KeptIs, Anchors, Allocating
<1>9. GoalKept(g)
  <2>1. SUFFICES ASSUME NEW m \in Nat \ {0}, NEW other \in Oop, g = Again(m, other)
                 PROVE  /\ other \in Kept
                        /\ other = NilPointer \/ ReferencesFrom(field, Kept, other) >= Sticky
    BY DEF GoalKept
  <2>2. m \in Nat /\ Again(n, class) = Again(m, other)
    BY <1>4, <2>1
  <2> QED  BY <1>2, <1>3, <1>4, <1>5, <1>8, <2>2, AgainSame DEF CollectsSafely
<1>10. GoalKept(g)' /\ Mark0(g)' = Mark0(g)
  BY <1>6, <1>9 DEF GoalKept, Kept, Anchors, Mark0, Mark1, Mark2, Mark3, Mark4, Rectify, Recount0,
     Recount1
<1>11. Collects(g)'
  BY <1>4, <1>7, <1>10 DEF Collects, Goals, Marking
<1> QED
  BY <1>1, <1>2, <1>4, <1>5, <1>6, <1>11, AttemptViews, CollectionProceeds DEF Typed, Counts,
     AttemptView, Anchors, CollectsSafely

LEMMA GarbageProceeds ==
  ASSUME Even, garbageCollect
  PROVE  Proceeds
<1>1. Always /\ Sound(field, inHand, todo)
  BY DEF Even, Counted
<1>2. /\ inHand = {} /\ field' = field /\ count' = count /\ activeContext' = activeContext
      /\ newProcess' = newProcess /\ inHand' = {} /\ pending' = pending
      /\ todo' = reclaimInaccessibleObjects
  BY DEF garbageCollect, Begins, regs
<1>3. PICK g : g = <<>>
  OBVIOUS
<1>4. \A n \in Nat \ {0}, class \in Oop : g # Again(n, class)
  <2>1. ASSUME NEW n \in Nat \ {0}, NEW class \in Oop
        PROVE  g # Again(n, class)
    <3>1. PICK c, e : c = attemptAgain(attempt(n, class)) /\ e = <<>>
      OBVIOUS
    <3>2. c \in CallRecord /\ e \in Seq(CallRecord)
      BY <3>1, AttemptCalls, NoCalls
    <3>3. Then(c, e) # <<>>
      BY <3>2, ThenIs
    <3> QED  BY <1>3, <3>1, <3>3 DEF Again
  <2> QED  BY <2>1
<1>5. Mark0(g)' = Mark0(g)
  BY <1>2 DEF Mark0, Mark1, Mark2, Mark3, Mark4, Rectify, Recount0, Recount1
<1>6. Collects(g)'
  BY <1>1, <1>2, <1>3, <1>4, <1>5, CollectionAlone DEF Collects, Goals, GoalKept, Marking, Always,
     Typed
<1> QED  BY <1>1, <1>2, <1>6, EvenNames, CollectionProceeds DEF Always, Typed, Counts, Anchors

LEMMA OutOfMemoryProceeds ==
  ASSUME Always, Sound(field, inHand, todo), Attempting, OutOfMemoryError
  PROVE  Proceeds
<1>1. /\ field' = field /\ count' = count /\ activeContext' = activeContext /\ newProcess' = newProcess
      /\ inHand' = inHand /\ pending' = pending /\ todo' = <<abort>>
  BY DEF OutOfMemoryError, regs
<1>2. PICK c, e : c = abort /\ e = <<>>
  OBVIOUS
<1>3. /\ c \in CallRecord /\ c.call = "abort" /\ c.value = Immediate /\ c.object = NilPointer
      /\ e \in Seq(CallRecord)
  BY <1>2, CollectionCalls, NoCalls
<1>4. todo' = Then(c, e)
  BY <1>1, <1>2, <1>3, OneCall
<1>5. Sound(field, inHand, todo')
  <2>1. Sound(field, inHand, e) /\ Upcoming(e) = abort
    BY <1>2, NothingHeld
  <2>2. Callable(field, inHand, c, Upcoming(e))
    BY <1>2, <1>3, <2>1 DEF Callable
  <2> QED  BY <1>3, <1>4, <2>1, <2>2, SoundThen
<1>6. HeldAt(todo') \subseteq {NilPointer}
  <2>1. HeldIn(e) = {}
    BY <1>2, NothingHeld
  <2> QED  BY <1>3, <1>4, <2>1, HeldAtThen, OopAssumption DEF ValuesIn
<1>7. Graph' = GraphAt(field, todo') /\ Roots' = RootsAt(todo', activeContext, newProcess, inHand)
  BY <1>1, ViewIs
<1>8. Graph' = field
  BY <1>3, <1>4, <1>5, <1>7, Prepend, PlainView
<1>9. Roots' \subseteq Roots
  BY <1>3, <1>4, <1>5, <1>6, <1>7, AttemptViews, Prepend, PlainView DEF Always, AttemptView
<1>10. Moves(Graph, Roots, Graph', Roots')
  BY <1>8, <1>9, AttemptViews, RootsLive DEF Moves, Keeps, Always, AttemptView
<1> QED
  BY <1>1, <1>3, <1>4, <1>5, <1>10, AttemptViews, Prepend, PresentStays DEF Proceeds, IInv,
     Aborting, Always, Typed, AttemptView

LEMMA ThenGoes ==
  ASSUME NEW c \in CallRecord, NEW s \in Seq(CallRecord)
  PROVE  Goes1(Then(c, s), c, s)
BY ThenIs DEF Goes1

LEMMA ChainGoes ==
  ASSUME Typed, NEW g \in Goals, GoalKept(g)
  PROVE  ChainSteps(g)
<1>1. /\ Recount0(g) \in Seq(CallRecord) /\ Rectify(g) \in Seq(CallRecord)
      /\ Mark4(g) \in Seq(CallRecord) /\ Mark3(g) \in Seq(CallRecord) /\ Mark2(g) \in Seq(CallRecord)
      /\ Mark1(g) \in Seq(CallRecord)
  BY ChainHolds DEF ChainGentle, Gentle
<1>2. Goes1(Mark1(g), addRoot(NilPointer), Mark2(g))
  BY <1>1, CollectionCalls, RefCountsAssumption, ThenGoes DEF Mark1, Typed
<1>3. Goes1(Mark2(g), addRoot(SmalltalkPointer), Mark3(g))
  BY <1>1, CollectionCalls, RefCountsAssumption, ThenGoes DEF Mark2, Typed
<1> QED
  BY <1>1, <1>2, <1>3, CollectionCalls, RefCountsAssumption, ThenGoes DEF ChainSteps, Rectify,
     Mark0, Mark4, Typed, Mark3

LEMMA CollectsAt ==
  ASSUME Typed, NEW g, Collects(g)
  PROVE  /\ todo # <<>>
         /\ \/ AtZero(g) /\ Head(todo).call = "zero"
            \/ AtMark(g) /\ Head(todo).call = "mark"
            \/ AtRectify(g) /\ Head(todo).call = "rectify"
<1>1. ChainSteps(g)
  BY ChainGoes DEF Collects
<1>2. /\ zeroReferenceCounts.call = "zero" /\ rectify.call = "rectify"
      /\ \A v \in Oop : addRoot(v).call = "mark"
  BY CollectionCalls
<1>3. NilPointer \in Oop /\ SmalltalkPointer \in Oop /\ activeContext \in Oop /\ newProcess \in Oop
  BY RefCountsAssumption DEF Typed
<1>4. CASE todo = Mark0(g)
  BY <1>1, <1>2, <1>4 DEF ChainSteps, Goes1, AtZero
<1>5. CASE todo = Mark1(g) /\ Marks(Anchors)
  BY <1>1, <1>2, <1>3, <1>5 DEF ChainSteps, Goes1, AtMark
<1>6. CASE todo = Mark2(g) /\ Marks({SmalltalkPointer, activeContext, newProcess} \ {NilPointer})
  BY <1>1, <1>2, <1>3, <1>6 DEF ChainSteps, Goes1, AtMark
<1>7. CASE todo = Mark3(g) /\ Marks({activeContext, newProcess} \ {NilPointer})
  BY <1>1, <1>2, <1>3, <1>7 DEF ChainSteps, Goes1, AtMark
<1>8. CASE todo = Mark4(g) /\ newProcess # NilPointer /\ Marks({newProcess})
  BY <1>1, <1>2, <1>3, <1>8 DEF ChainSteps, Goes1, AtMark
<1>9. CASE Rectifying(g)
  <2>1. todo = Rectify(g)
    BY <1>9 DEF Rectifying
  <2> QED  BY <1>1, <1>2, <1>9, <2>1 DEF ChainSteps, Goes1, AtRectify
<1> QED  BY <1>4, <1>5, <1>6, <1>7, <1>8, <1>9 DEF Collects, Marking

LEMMA ZeroProceeds ==
  ASSUME Always, inHand = {}, NEW g, Collects(g), ZeroReferenceCounts
  PROVE  Proceeds
<1>1. /\ Head(todo).call = "zero" /\ count' = [o \in Oop |-> 0] /\ pending' = Live /\ todo' = Tail(todo)
      /\ field' = field /\ activeContext' = activeContext /\ newProcess' = newProcess /\ inHand' = {}
  BY DEF ZeroReferenceCounts, Makes, regs
<1>2. AtZero(g)
  BY <1>1, CollectsAt DEF Always
<1>3. Mark1(g)' = Mark1(g) /\ Kept' = Kept /\ Anchors' = Anchors /\ Live' = Live
  BY <1>1 DEF Mark1, Mark2, Mark3, Mark4, Rectify, Recount0, Recount1, Kept, Anchors, Live
<1>4. Marks(Anchors)'
  BY <1>1, <1>3 DEF Marks, Marked
<1>5. Collects(g)'
  <2>1. g \in Goals /\ GoalKept(g)
    BY DEF Collects
  <2>2. GoalKept(g)'
    BY <1>1, <1>3, <2>1 DEF GoalKept
  <2>3. (g \in Goals)'
    BY <2>1 DEF Goals, Again
  <2>4. Marking(g)'
    BY <1>1, <1>2, <1>3, <1>4 DEF Marking, AtZero
  <2> QED  BY <2>2, <2>3, <2>4 DEF Collects
<1>6. CollectionView
  BY InChain, CollectionHolds DEF Collects, Always
<1>7. count' \in Counts /\ pending' \subseteq Oop
  BY <1>1, StickyAssumption DEF Counts, Live, Objects
<1> QED  BY <1>1, <1>5, <1>6, <1>7, CollectionProceeds DEF CollectionView

LEMMA MarkStep ==
  ASSUME Typed, NEW A, Marks(A), NEW v \in Anchors,
         field' = field, activeContext' = activeContext, newProcess' = newProcess,
         pending' = pending, count' = MarkedFrom(v)
  PROVE  Marks(A \ {v})' /\ count' \in Counts
<1>1. KeptIs /\ field \in Heap /\ v \in Oop
  BY KeptHolds DEF Typed, KeptIs
<1>2. PICK N : N = ReachedFrom(field, {v})
  OBVIOUS
<1>3. Closed(field, N) /\ v \in N /\ N \subseteq Oop
  BY <1>1, <1>2, ReachedIsClosed DEF Closed
<1>4. N \subseteq Kept
  BY <1>1, <1>2, ReachedIsLeast DEF KeptIs
<1>5. Kept' = Kept /\ Anchors' = Anchors /\ Live' = Live
  BY DEF Kept, Anchors, Live
<1>6. Marked' = Marked \union N
  BY <1>2, <1>3 DEF Marked, MarkedFrom
<1>7. \A x \in Oop : count'[x] \in {0, 1}
  BY <1>2 DEF MarkedFrom
<1>8. \A x \in Marked' : PointersOf(field', x) \subseteq Marked'
  <2>1. ASSUME NEW x \in Marked'
        PROVE  PointersOf(field, x) \subseteq Marked'
    <3>1. CASE x \in Marked
      BY <1>6, <3>1 DEF Marks
    <3>2. CASE x \in N
      BY <1>3, <1>6, <3>2 DEF Closed
    <3> QED  BY <1>6, <2>1, <3>1, <3>2
  <2> QED  BY <2>1
<1>9. count' \in Counts
  BY <1>2, StickyAssumption DEF Counts, MarkedFrom
<1> QED  BY <1>3, <1>4, <1>5, <1>6, <1>7, <1>8, <1>9 DEF Marks

(* All is marked that is to be kept.                                       *)
LEMMA AllMarked ==
  ASSUME KeptIs, Kept \subseteq Live,
         field' = field, activeContext' = activeContext, newProcess' = newProcess,
         Marks({})', NEW g, todo' = Rectify(g)'
  PROVE  Rectifying(g)'
<1>1. Kept' = Kept /\ Anchors' = Anchors /\ Live' = Live
  BY DEF Kept, Anchors, Live
<1>2. /\ Marked' \subseteq Kept /\ (\A x \in Marked' : PointersOf(field, x) \subseteq Marked')
      /\ Anchors \subseteq Marked' /\ pending' = Live /\ \A x \in Oop : count'[x] \in {0, 1}
  BY <1>1 DEF Marks
<1>3. Marked' \subseteq Oop
  BY DEF Marked
<1>4. Kept \subseteq Marked'
  BY <1>2, <1>3, ReachedIsLeast DEF Kept, Closed
<1>5. ASSUME NEW x \in Kept
      PROVE  count'[x] = ReferencesFrom(field, Kept \ pending', x)
                           + (IF x \in pending' THEN 1 ELSE 0)
  BY <1>2, <1>4, NoReferences DEF Marked
<1> QED  BY <1>1, <1>2, <1>5 DEF Rectifying, Marked

LEMMA MarkProceeds ==
  ASSUME Always, inHand = {}, NEW g, Collects(g), MarkObjectsAccessibleFrom
  PROVE  Proceeds
<1>1. /\ Head(todo).call = "mark" /\ todo' = Tail(todo) /\ count' = MarkedFrom(Head(todo).value)
      /\ field' = field /\ activeContext' = activeContext /\ newProcess' = newProcess /\ inHand' = {}
      /\ pending' = pending
  BY DEF MarkObjectsAccessibleFrom, Makes, regs, MarkedFrom
<1>2. Typed
  BY DEF Always
<1>3. AtMark(g)
  BY <1>1, <1>2, CollectsAt
<1>4. CollectionView /\ KeptIs
  BY <1>2, InChain, CollectionHolds, KeptHolds DEF Collects
<1>5. /\ Mark2(g)' = Mark2(g) /\ Mark3(g)' = Mark3(g) /\ Mark4(g)' = Mark4(g)
      /\ Rectify(g)' = Rectify(g)
  BY <1>1 DEF Mark2, Mark3, Mark4, Rectify, Recount0, Recount1
<1>6. Kept' = Kept /\ Anchors' = Anchors /\ Live' = Live /\ Kept \subseteq Live
  BY <1>1, <1>4 DEF Kept, Anchors, Live, Always, Present, CollectionView
<1>7. NilPointer \in Anchors /\ SmalltalkPointer \in Anchors /\ activeContext \in Anchors
      /\ newProcess \in Anchors /\ Anchors \subseteq Oop
  BY <1>4 DEF Anchors, KeptIs
<1>8. ASSUME NEW A, Marks(A), NEW v \in Anchors, Head(todo) = addRoot(v)
      PROVE  Marks(A \ {v})' /\ count' \in Counts
  <2>1. Head(todo).value = v
    BY <1>7, <1>8, CollectionCalls
  <2> QED  BY <1>1, <1>2, <1>8, <2>1, MarkStep
<1>9. (Marking(g) \/ Rectifying(g))' /\ count' \in Counts
  <2>1. CASE todo = Mark1(g) /\ Marks(Anchors) /\ Head(todo) = addRoot(NilPointer) /\ Tail(todo) = Mark2(g)
    <3>1. PICK A : A = Anchors
      OBVIOUS
    <3>2. Marks(A \ {NilPointer})' /\ count' \in Counts
      BY <1>7, <1>8, <2>1, <3>1
    <3>3. A \ {NilPointer} = ({SmalltalkPointer, activeContext, newProcess} \ {NilPointer})'
      BY <1>1, <3>1 DEF Anchors
    <3>4. todo' = Mark2(g)'
      BY <1>1, <1>5, <2>1
    <3> QED  BY <3>2, <3>3, <3>4 DEF Marking
  <2>2. CASE todo = Mark2(g) /\ Marks({SmalltalkPointer, activeContext, newProcess} \ {NilPointer})
             /\ Head(todo) = addRoot(SmalltalkPointer) /\ Tail(todo) = Mark3(g)
    <3>1. PICK A : A = {SmalltalkPointer, activeContext, newProcess} \ {NilPointer}
      OBVIOUS
    <3>2. Marks(A \ {SmalltalkPointer})' /\ count' \in Counts
      BY <1>7, <1>8, <2>2, <3>1
    <3> QED  BY <1>1, <1>5, <2>2, <3>1, <3>2 DEF Marking, Marks
  <2>3. CASE todo = Mark3(g) /\ Marks({activeContext, newProcess} \ {NilPointer})
             /\ Head(todo) = addRoot(activeContext) /\ Tail(todo) = Mark4(g)
    <3>1. PICK A : A = {activeContext, newProcess} \ {NilPointer}
      OBVIOUS
    <3>2. PICK c : c = activeContext
      OBVIOUS
    <3>3. Marks(A \ {c})' /\ count' \in Counts
      BY <1>7, <1>8, <2>3, <3>1, <3>2
    <3>4. todo' = Mark4(g)'
      BY <1>1, <1>5, <2>3
    <3>5. CASE newProcess # NilPointer
      BY <1>1, <3>1, <3>2, <3>3, <3>4, <3>5 DEF Marking, Marks
    <3>6. CASE newProcess = NilPointer
      <4>1. Marks({})'
        BY <3>1, <3>2, <3>3, <3>6
      <4> QED  BY <1>1, <1>4, <1>6, <3>3, <3>4, <3>6, <4>1, AllMarked DEF Mark4
    <3> QED  BY <3>5, <3>6
  <2>4. CASE todo = Mark4(g) /\ newProcess # NilPointer /\ Marks({newProcess})
             /\ Head(todo) = addRoot(newProcess) /\ Tail(todo) = Rectify(g)
    <3>1. PICK A, p : p = newProcess /\ A = {p}
      OBVIOUS
    <3>2. Marks(A \ {p})' /\ count' \in Counts
      BY <1>7, <1>8, <2>4, <3>1
    <3>3. Marks({})'
      BY <3>1, <3>2
    <3> QED  BY <1>1, <1>4, <1>5, <1>6, <2>4, <3>2, <3>3, AllMarked
  <2> QED  BY <1>3, <2>1, <2>2, <2>3, <2>4 DEF AtMark
<1>10. Collects(g)'
  <2>1. g \in Goals /\ GoalKept(g)
    BY DEF Collects
  <2>2. GoalKept(g)'
    BY <1>1, <1>6, <2>1 DEF GoalKept
  <2>3. (g \in Goals)'
    BY <2>1 DEF Goals, Again
  <2> QED  BY <1>9, <2>2, <2>3 DEF Collects
<1>11. pending' \subseteq Oop
  BY <1>1, <1>2 DEF Typed
<1>12. Sound(field, inHand, todo) /\ Graph = field /\ Anchors \subseteq Roots
  BY <1>4 DEF CollectionView
<1> QED  BY <1>1, <1>9, <1>10, <1>11, <1>12, CollectionProceeds

(***************************************************************************)
(* rectifyCounts comes to an entry without a mark: its object goes.        *)
(***************************************************************************)
LEMMA DeallocateProceeds ==
  ASSUME Always, inHand = {}, NEW g \in Goals, GoalKept(g), Rectifying(g),
         NEW o \in pending, count[o] = 0,
         field' = FieldsWithout(field, {o}), count' = count, pending' = pending \ {o},
         UNCHANGED <<regs, inHand, todo>>
  PROVE  Proceeds
<1>1. activeContext' = activeContext /\ newProcess' = newProcess /\ inHand' = {} /\ todo' = todo
  BY DEF regs
<1>2. Typed /\ field \in Heap /\ o \in Oop /\ KeptIs
  BY KeptHolds DEF Always, Typed
<1>3. CollectionView
  BY <1>2, InChain, CollectionHolds
<1>4. /\ todo = Rectify(g) /\ Live \subseteq Kept \union pending
      /\ \A x \in Kept : \/ count[x] = Sticky
                         \/ count[x] = ReferencesFrom(field, Kept \ pending, x)
                                         + (IF x \in pending THEN 1 ELSE 0)
      /\ \A x \in Oop \ Kept : count[x] = 0
  BY DEF Rectifying
<1>5. o \notin Kept
  <2>1. SUFFICES ASSUME o \in Kept PROVE FALSE
    OBVIOUS
  <2>2. ReferencesFrom(field, Kept \ pending, o) \in Nat
    BY <1>2, ReferencesAre DEF KeptIs
  <2> QED  BY <1>4, <2>1, <2>2, StickyAssumption
<1>6. field' \in Heap /\ \A p \in Oop : field'[p] = IF p = o THEN <<>> ELSE field[p]
  <2>1. PICK D : D = {o}
    OBVIOUS
  <2> QED  BY <1>2, <2>1, ReferencesLeft
<1>7. \A p \in Kept : field'[p] = field[p]
  BY <1>2, <1>5, <1>6 DEF KeptIs
<1>8. Kept' = Kept
  <2>1. Anchors \in SUBSET Oop /\ Anchors' = Anchors
    BY <1>1, <1>2 DEF KeptIs, Anchors
  <2>2. \A p \in ReachedFrom(field, Anchors) : field'[p] = field[p]
    BY <1>7 DEF Kept
  <2>3. ReachedFrom(field', Anchors) = ReachedFrom(field, Anchors)
    BY <1>2, <1>6, <2>1, <2>2, ReachedSame
  <2> QED  BY <2>1, <2>3 DEF Kept
<1>9. ASSUME NEW D \in SUBSET Kept, NEW x
       PROVE  ReferencesFrom(field', D, x) = ReferencesFrom(field, D, x)
  BY <1>7, <1>9, ReferencesSame
<1>10. GoalKept(g)'
  <2>1. SUFFICES ASSUME NEW n \in Nat \ {0}, NEW class \in Oop, g = Again(n, class)
                 PROVE  /\ class \in Kept
                        /\ class = NilPointer \/ ReferencesFrom(field', Kept, class) >= Sticky
    BY <1>8 DEF GoalKept
  <2> QED  BY <1>9, <2>1 DEF GoalKept
<1>11. Rectify(g)' = Rectify(g)
  BY <1>1 DEF Rectify, Recount0, Recount1
<1>12. Rectifying(g)'
  <2>1. Live' \subseteq Kept \union pending'
    BY <1>4, <1>6 DEF Live, Objects
  <2>2. ASSUME NEW x \in Kept
        PROVE  \/ count'[x] = Sticky
               \/ count'[x] = ReferencesFrom(field', Kept \ pending', x)
                                + (IF x \in pending' THEN 1 ELSE 0)
    BY <1>4, <1>5, <1>9, <2>2
  <2>3. \A x \in Oop \ Kept : count'[x] = 0
    BY <1>4
  <2>4. todo' = Rectify(g)'
    BY <1>1, <1>4, <1>11
  <2> QED  BY <1>8, <2>1, <2>2, <2>3, <2>4 DEF Rectifying
<1>13. \A x \in Oop \ {o} : field'[x] = field[x]
  BY <1>6
<1>14. ChainGentle(field, g, Kept)
  BY <1>2, ChainHolds
<1>15. Gentle(field', todo, Kept)
  <2>1. Gentle(field, todo, Kept)
    BY <1>4, <1>14 DEF ChainGentle
  <2>2. \A p \in HeldIn(todo) : DOMAIN field'[p] = DOMAIN field[p]
    BY <1>7, <2>1 DEF Gentle
  <2>3. todo \in Seq(CallRecord) /\ Sound(field, {}, todo)
    BY <2>1 DEF Gentle
  <2>4. Sound(field', {}, todo)
    BY <2>2, <2>3, SoundTransfers
  <2> QED  BY <2>1, <2>4 DEF Gentle
<1>16. Graph' = field' /\ Roots' \subseteq Kept
  BY <1>1, <1>2, <1>15, ViewIs, GentleView DEF KeptIs, Anchors
<1>17. Moves(Graph, Roots, Graph', Roots')
  <2>1. PICK D : D = {o} \intersect Objects(field)
    OBVIOUS
  <2>2. Graph' = FieldsWithout(Graph, D)
    BY <1>3, <1>16, <2>1 DEF FieldsWithout, Objects, CollectionView
  <2>3. Reclaims(Graph, Roots, Graph', Roots')
    BY <1>3, <1>5, <1>16, <2>1, <2>2 DEF Reclaims, CollectionView
  <2> QED  BY <2>3 DEF Moves
<1>18. Typed'
  BY <1>1, <1>2, <1>6 DEF Typed
<1>19. Present'
  BY <1>1, <1>3, <1>15, <1>17, <1>18, PresentStays DEF CollectionView, Gentle
<1>20. Always'
  <2>1. NilPointer \in Kept
    BY <1>2 DEF KeptIs, Anchors
  <2> QED  BY <1>7, <1>18, <1>19, <2>1 DEF Always
<1> QED  BY <1>1, <1>10, <1>12, <1>17, <1>20 DEF Proceeds, IInv, Collecting

(***************************************************************************)
(* It comes to an object with a mark: the mark gives way to a count, and   *)
(* each of its pointers is counted.                                        *)
(***************************************************************************)
LEMMA SaturatedIs ==
  ASSUME NEW n \in Nat
  PROVE  /\ Saturated(n) \in 0 .. Sticky
         /\ n >= Sticky => Saturated(n) = Sticky
         /\ Saturated(n) = n \/ Saturated(n) = Sticky
BY StickyAssumption DEF Saturated

LEMMA RectifyProceeds ==
  ASSUME Always, inHand = {}, NEW g \in Goals, GoalKept(g), Rectifying(g),
         NEW o \in pending, count[o] # 0,
         count' = countedFrom(o, Unmarked(o)), field' = field, pending' = pending \ {o},
         UNCHANGED <<regs, inHand, todo>>
  PROVE  Proceeds
<1>1. activeContext' = activeContext /\ newProcess' = newProcess /\ inHand' = {} /\ todo' = todo
  BY DEF regs
<1>2. Typed /\ field \in Heap /\ count \in Counts /\ o \in Oop /\ KeptIs /\ pending \subseteq Oop
  BY KeptHolds DEF Always, Typed, Counts
<1>3. /\ todo = Rectify(g) /\ Live \subseteq Kept \union pending
      /\ \A x \in Kept : \/ count[x] = Sticky
                         \/ count[x] = ReferencesFrom(field, Kept \ pending, x)
                                         + (IF x \in pending THEN 1 ELSE 0)
      /\ \A x \in Oop \ Kept : count[x] = 0
  BY DEF Rectifying
<1>4. o \in Kept /\ Kept \subseteq Oop
  BY <1>2, <1>3 DEF KeptIs
<1>5. Kept' = Kept /\ Anchors' = Anchors /\ Live' = Live /\ Rectify(g)' = Rectify(g)
  BY <1>1 DEF Kept, Anchors, Live, Rectify, Recount0, Recount1
<1>6. \A x \in Oop : /\ count[x] \in Nat /\ count[x] <= Sticky
                     /\ ReferencesFrom(field, {o}, x) \in Nat
                     /\ ReferencesFrom(field, Kept \ pending, x) \in Nat
  BY <1>2, <1>4, ReferencesAre, StickyAssumption DEF Counts
<1>7. \A x \in Oop : Unmarked(o)[x] \in Nat
  BY <1>2, <1>6, StickyAssumption DEF withoutMark, Unmarked, Counts
<1>8. count' \in Counts
  <2>1. ASSUME NEW x \in Oop  PROVE Unmarked(o)[x] + ReferencesFrom(field, {o}, x) \in Nat
    <3>1. PICK i, j : i = Unmarked(o)[x] /\ j = ReferencesFrom(field, {o}, x)
      OBVIOUS
    <3>2. i \in Nat /\ j \in Nat
      BY <1>6, <1>7, <3>1
    <3> QED  BY ONLY <3>1, <3>2
  <2>2. \A x \in Oop : Saturated(Unmarked(o)[x] + ReferencesFrom(field, {o}, x)) \in 0 .. Sticky
    BY <2>1, SaturatedIs
  <2> QED  BY <2>2 DEF countedFrom, Counts
<1>9. ASSUME NEW x \in Kept
       PROVE  \/ count'[x] = Sticky
              \/ count'[x] = ReferencesFrom(field, Kept \ pending', x)
                               + (IF x \in pending' THEN 1 ELSE 0)
  <2>1. ReferencesFrom(field, Kept \ pending', x)
          = ReferencesFrom(field, Kept \ pending, x) + ReferencesFrom(field, {o}, x)
    <3>1. PICK D, E : D = Kept \ pending /\ E = {o}
      OBVIOUS
    <3>2. D \in SUBSET Oop /\ E \in SUBSET Oop /\ D \cap E = {} /\ Kept \ pending' = D \union E
      BY <1>4, <3>1
    <3> QED  BY <1>2, <3>1, <3>2, ReferencesUnion
  <2>2. PICK c, r, e, u, m : /\ c = count[x] /\ r = ReferencesFrom(field, Kept \ pending, x)
                             /\ e = ReferencesFrom(field, {o}, x) /\ u = Unmarked(o)[x]
                             /\ m = count'[x]
    OBVIOUS
  <2>3. c \in Nat /\ c <= Sticky /\ r \in Nat /\ e \in Nat /\ u \in Nat
    BY <1>4, <1>6, <1>7, <2>2
  <2>4. u = IF x = o THEN (IF c < Sticky THEN c - 1 ELSE c) ELSE c
    BY <1>2, <1>4, <2>2 DEF withoutMark, Unmarked, Counts
  <2>5. c = Sticky \/ c = r + (IF x \in pending THEN 1 ELSE 0)
    BY <1>3, <2>2
  <2>6. /\ u + e >= Sticky => m = Sticky
        /\ m = u + e \/ m = Sticky
    BY <1>4, <2>2, <2>3, SaturatedIs DEF countedFrom
  <2>7. CASE c = Sticky
    BY <2>2, <2>3, <2>4, <2>6, <2>7, StickyAssumption
  <2>8. CASE c # Sticky
    <3>1. u = r + (IF x \in pending' THEN 1 ELSE 0)
      <4>1. CASE x = o
        BY <2>3, <2>4, <2>5, <2>8, <4>1, StickyAssumption
      <4>2. CASE x # o
        BY <2>3, <2>4, <2>5, <2>8, <4>2
      <4> QED  BY <4>1, <4>2
    <3> QED  BY <2>1, <2>2, <2>3, <2>6, <3>1
  <2> QED  BY <2>7, <2>8
<1>10. ASSUME NEW x \in Oop \ Kept
       PROVE  count'[x] = 0
  BY <1>2, <1>3, <1>4, <1>10, PointersAre, NoReferences, StickyAssumption DEF Saturated,
     countedFrom, Unmarked, Counts, KeptIs, Closed
<1>11. Rectifying(g)'
  <2> QED  BY <1>1, <1>3, <1>4, <1>5, <1>9, <1>10 DEF Rectifying
<1>12. Collects(g)'
  BY <1>5, <1>11 DEF Collects, Goals, GoalKept
<1> QED  BY <1>1, <1>2, <1>8, <1>12, InChain, CollectionHolds, CollectionProceeds DEF CollectionView

LEMMA RectifyOrDeallocateProceeds ==
  ASSUME Always, inHand = {}, NEW g, Collects(g), RectifyOrDeallocate
  PROVE  Proceeds
<1>1. Rectifying(g)
  BY CollectsAt DEF AtRectify, RectifyOrDeallocate, Makes, Always
<1>2. PICK o \in pending :
        /\ IF count[o] = 0
           THEN field' = FieldsWithout(field, {o}) /\ UNCHANGED count
           ELSE count' = countedFrom(o, Unmarked(o)) /\ UNCHANGED field
        /\ pending' = pending \ {o}
  BY DEF RectifyOrDeallocate, Unmarked
<1>3. UNCHANGED <<regs, inHand, todo>>
  BY DEF RectifyOrDeallocate
<1>4. CASE count[o] = 0
  BY <1>1, <1>2, <1>3, <1>4, DeallocateProceeds DEF Collects
<1>5. CASE count[o] # 0
  BY <1>1, <1>2, <1>3, <1>5, RectifyProceeds DEF Collects
<1> QED  BY <1>4, <1>5

(***************************************************************************)
(* When all entries have been looked at the counts are exact, but for the  *)
(* registers and the class the allocation goes on with.                    *)
(***************************************************************************)
LEMMA GoalOwed ==
  ASSUME NEW g \in Goals, GoalKept(g), NEW x
  PROVE  /\ Owed(g, x) \in Int
         /\ \/ Owed(g, x) = 0
            \/ x \in Kept /\ (x = NilPointer \/ ReferencesFrom(field, Kept, x) >= Sticky)
<1>1. Owed(g, x) \in Int
  BY GoalIs, OwedNumber
<1>2. CASE g = <<>>
  BY <1>1, <1>2, OwedNothing
<1>3. CASE g # <<>>
  <2>1. PICK n \in Nat \ {0}, class \in Oop : g = Again(n, class)
    BY <1>3, GoalIs
  <2> QED  BY <1>1, <2>1, AgainIs, IsOne DEF GoalKept
<1> QED  BY <1>2, <1>3

LEMMA RecountOwes ==
  ASSUME activeContext \in Oop, newProcess \in Oop, NEW g \in Goals
  PROVE  /\ \A x \in Oop \ {NilPointer} :
              Owed(Recount0(g), x) = Owed(g, x) - Is(activeContext, x) - Is(newProcess, x)
         /\ Upcoming(Recount0(g)) = countUp(activeContext)
         /\ WillRise(Recount0(g), activeContext)
         /\ newProcess # NilPointer => WillRise(Recount0(g), newProcess)
<1>1. g \in Seq(CallRecord) /\ activeContext \in Pointer /\ newProcess \in Pointer
  BY GoalIs DEF Pointer
<1>2. PICK r, a, p : r = Recount1(g) /\ a = activeContext /\ p = newProcess
  OBVIOUS
<1>3. r \in Seq(CallRecord)
  BY <1>1, <1>2, CountingCalls, Prepend DEF Recount1
<1>4. ASSUME NEW x \in Oop \ {NilPointer}
      PROVE  Owed(r, x) = Owed(g, x) - Is(p, x)
  <2>1. CASE p # NilPointer
    BY <1>1, <1>2, <2>1, UpBefore DEF Recount1
  <2>2. CASE p = NilPointer
    BY <1>1, <1>2, <1>4, <2>2, OwedNumber, IsOne DEF Recount1
  <2> QED  BY <2>1, <2>2
<1>5. ASSUME NEW x \in Oop \ {NilPointer}
       PROVE  Owed(Recount0(g), x) = Owed(g, x) - Is(a, x) - Is(p, x)
  <2>1. PICK u, w, i, j, k : u = Owed(Recount0(g), x) /\ w = Owed(r, x) /\ i = Is(a, x) /\ j = Is(p, x)
                             /\ k = Owed(g, x)
    OBVIOUS
  <2>2. u = k - i - j
    BY ONLY <1>1, <1>2, <1>3, <1>4, <2>1, UpBefore, OwedNumber, IsOne DEF Recount0
  <2> QED  BY <2>1, <2>2
<1>6. p # NilPointer => WillRise(Recount0(g), p)
  <2>1. SUFFICES ASSUME p # NilPointer PROVE WillRise(Recount0(g), p)
    OBVIOUS
  <2> QED  BY <1>1, <1>2, <1>3, <2>1, CountingCalls, RiseThen DEF Recount1, Recount0
<1> QED  BY <1>1, <1>2, <1>3, <1>5, <1>6, CountingCalls, Prepend, RiseThen DEF Recount0

LEMMA RectifiedCounts ==
  ASSUME Always, inHand = {}, NEW g \in Goals, GoalKept(g), Rectifying(g), pending = {},
         NEW m \in Counts, m[NilPointer] = Sticky, \A x \in Oop \ {NilPointer} : m[x] = count[x]
  PROVE  Counted(field, m, Recount0(g), {}, activeContext, newProcess)
<1>1. /\ Typed /\ field \in Heap /\ KeptIs /\ Kept \in SUBSET Oop
      /\ activeContext \in Oop /\ newProcess \in Oop
  BY KeptHolds DEF Always, Typed, KeptIs
<1>2. /\ Live \subseteq Kept
      /\ \A x \in Kept : count[x] = Sticky \/ count[x] = ReferencesFrom(field, Kept, x)
      /\ \A x \in Oop \ Kept : count[x] = 0
  <2>1. \A x : ReferencesFrom(field, Kept, x) \in Nat
    BY <1>1, ReferencesAre
  <2> QED  BY <2>1 DEF Rectifying
<1>3. Live = Kept /\ Objects(field) = Kept
  BY <1>1, <1>2, InChain, CollectionHolds DEF CollectionView, Always, Present, Live
<1>4. \A x : ReferencesFrom(field, Kept, x) = ReferencesFrom(field, Oop, x)
  BY <1>1, <1>3, LiveRefer
<1>5. \A x : ReferencesFrom(field, Oop, x) \in Nat
  BY <1>1, ReferencesAre
<1>6. ASSUME NEW x \in Oop \ {NilPointer}
       PROVE  \/ m[x] = Sticky
              \/ m[x] + Displaced(field, Recount0(g), x)
                   = ReferencesFrom(field, Oop, x) + Owed(Recount0(g), x)
                       + Is(activeContext, x) + Is(newProcess, x)
  <2>1. PICK c, r, w, k, i, j, d : /\ c = m[x] /\ r = ReferencesFrom(field, Oop, x)
                                   /\ w = Owed(Recount0(g), x) /\ k = Owed(g, x)
                                   /\ i = Is(activeContext, x) /\ j = Is(newProcess, x)
                                   /\ d = Displaced(field, Recount0(g), x)
    OBVIOUS
  <2>2. d = 0
    BY <1>1, <2>1, RecountOwes, CountingCalls, DisplacedIs DEF Pointer
  <2>3. w = k - i - j
    BY <1>1, <1>6, <2>1, RecountOwes
  <2>4. k \in Int /\ i \in Int /\ j \in Int /\ r \in Nat
    BY <1>5, <2>1, GoalOwed, IsOne
  <2>5. c = Sticky \/ c = r
    <3>1. CASE x \in Kept
      BY <1>2, <1>4, <1>6, <2>1, <3>1 DEF Counts
    <3>2. CASE x \notin Kept
      BY <1>1, <1>2, <1>4, <1>6, <2>1, <3>2, PointersAre, NoReferences DEF Counts, KeptIs, Anchors,
         Closed
    <3> QED  BY <3>1, <3>2
  <2>6. c = Sticky \/ k = 0
    BY <1>4, <1>6, <2>1, <2>4, <2>5, GoalOwed, StickyAssumption DEF Counts
  <2>7. c = Sticky \/ c + d = r + w + i + j
    BY ONLY <1>6, <2>1, <2>2, <2>3, <2>4, <2>5, <2>6, StickyAssumption DEF Counts
  <2> QED  BY <2>1, <2>7
<1>7. Sound(field, {}, Recount0(g))
  BY <1>1, ChainHolds DEF ChainGentle, Gentle
<1>8. ASSUME NEW x \in Objects(field)
       PROVE  m[x] > 0 \/ WillRise(Recount0(g), x)
  <2>1. x \in Kept /\ x \in Oop
    BY <1>1, <1>3, <1>8
  <2>2. CASE x = NilPointer
    BY <2>2, StickyAssumption
  <2>3. CASE x = activeContext \/ (x = newProcess /\ x # NilPointer)
    BY <1>1, <2>3, RecountOwes
  <2>4. CASE x # NilPointer /\ x # activeContext /\ x # newProcess
    <3>1. PICK o \in Oop : x \in PointersOf(field, o)
      <4>1. CASE x = SmalltalkPointer
        BY <1>1, <4>1, PointersAre, RefCountsAssumption DEF Always
      <4>2. CASE x # SmalltalkPointer
        BY <1>1, <2>1, <2>4, <4>2, ReachedHasReference DEF Kept, KeptIs, Anchors
      <4> QED  BY <4>1, <4>2
    <3>2. ReferencesFrom(field, Oop, x) >= 1
      BY <1>1, <3>1, HasReference
    <3> QED  BY <1>2, <1>4, <1>5, <2>1, <2>4, <3>2, StickyAssumption
  <2> QED  BY <2>2, <2>3, <2>4
<1> QED
  BY <1>1, <1>2, <1>3, <1>6, <1>7, <1>8 DEF Counted, Attended, Balanced, KeptIs, Anchors, Closed

LEMMA RectifyEndsProceeds ==
  ASSUME Always, inHand = {}, NEW g, Collects(g), RectifyEnds
  PROVE  Proceeds
<1>1. /\ Head(todo).call = "rectify" /\ pending = {} /\ todo' = Tail(todo)
      /\ count' = [count EXCEPT ![NilPointer] = Sticky] /\ field' = field /\ inHand' = inHand
      /\ activeContext' = activeContext /\ newProcess' = newProcess /\ pending' = pending
  BY DEF RectifyEnds, Makes, regs
<1>2. /\ Typed /\ field \in Heap /\ KeptIs /\ activeContext \in Oop /\ newProcess \in Oop
      /\ count \in Counts
  BY KeptHolds DEF Always, Typed, Counts
<1>3. Rectifying(g) /\ todo' = Recount0(g)
  BY <1>1, <1>2, CollectsAt DEF AtRectify
<1>4. PICK m : m = count'
  OBVIOUS
<1>5. m \in Counts /\ m[NilPointer] = Sticky /\ \A x \in Oop \ {NilPointer} : m[x] = count[x]
  BY <1>1, <1>2, <1>4, RefCountsAssumption, StickyAssumption DEF Counts
<1>6. Counted(field, m, Recount0(g), {}, activeContext, newProcess)
  BY <1>1, <1>3, <1>5, RectifiedCounts DEF Collects
<1>7. Counted(field', count', todo', inHand', activeContext, newProcess)
  BY <1>1, <1>3, <1>4, <1>6
<1>8. todo \in Chain(g)
  BY InChain DEF Collects
<1>9. CollectionView
  BY <1>2, <1>8, CollectionHolds DEF Collects
<1>10. Gentle(field, todo', Kept)
  BY <1>2, <1>3, ChainHolds DEF ChainGentle, Collects
<1>11. Graph' = GraphAt(field, todo') /\ Roots' = RootsAt(todo', activeContext, newProcess, {})
  BY <1>1, ViewIs
<1>12. Moves(Graph, Roots, Graph', Roots')
  BY <1>2, <1>9, <1>10, <1>11, GentleView DEF Moves, Keeps, CollectionView, KeptIs, Anchors
<1>13. Typed'
  BY <1>1, <1>2, <1>4, <1>5, <1>10 DEF Typed, Gentle, Counts
<1>14. \E fa, fn \in Oop : Counted(field', count', todo', inHand', fa, fn) /\ Stage(fa, fn)'
  <2>1. PICK a, p : a = activeContext /\ p = newProcess
    OBVIOUS
  <2> QED  BY <1>1, <1>2, <1>3, <1>7, <2>1 DEF Stage, Recounting, Recount0, Recount1, Collects
<1> QED
  BY <1>1, <1>7, <1>9, <1>12, <1>13, <1>14, PresentStays DEF Proceeds, IInv, Always, CollectionView,
     Counted

LEMMA Cases ==
  ASSUME IInv
  PROVE  Always /\ (Midway \/ Even \/ Tries \/ Gathers \/ Aborting)
<1>1. Always
  BY DEF IInv
<1>2. CASE \E fa, fn \in Oop : Counted(field, count, todo, inHand, fa, fn) /\ Stage(fa, fn)
  <2>1. PICK fa \in Oop, fn \in Oop : Counted(field, count, todo, inHand, fa, fn) /\ Stage(fa, fn)
    BY <1>2
  <2>2. CASE Goes(todo)
    BY <1>1, <2>1, <2>2 DEF Midway
  <2>3. CASE (todo = <<>> \/ Attempting) /\ fa = activeContext /\ fn = newProcess
    BY <1>1, <2>1, <2>3 DEF Even, Tries
  <2> QED  BY <1>1, <2>1, <2>2, <2>3, StageGoes
<1>3. CASE Collecting
  <2>1. PICK g \in Goals : GoalKept(g) /\ (Marking(g) \/ Rectifying(g))
    BY <1>3 DEF Collecting
  <2> QED  BY <1>1, <1>3, <2>1 DEF Collecting, Gathers, Collects
<1> QED  BY <1>1, <1>2, <1>3 DEF IInv

LEMMA NextCall ==
  ASSUME Typed
  PROVE  /\ Midway => todo # <<>> /\ Head(todo).call \in CountNames
         /\ Even => todo = <<>>
         /\ Tries => todo # <<>> /\ Head(todo).call \in {"attempt", "attemptAgain"}
         /\ Gathers => todo # <<>> /\ Head(todo).call \in {"zero", "mark", "rectify"}
         /\ Aborting => todo # <<>> /\ Head(todo).call = "abort"
<1>1. ASSUME Tries
      PROVE  todo # <<>> /\ Head(todo).call \in {"attempt", "attemptAgain"}
  BY <1>1, AttemptingIs DEF AttemptCall, Tries, Counted
<1>2. ASSUME Gathers
      PROVE  todo # <<>> /\ Head(todo).call \in {"zero", "mark", "rectify"}
  <2>1. PICK g : Collects(g)
    BY <1>2 DEF Gathers
  <2> QED  BY <2>1, CollectsAt
<1>3. ASSUME Aborting
      PROVE  todo # <<>> /\ Head(todo).call = "abort"
  BY <1>3, CollectionCalls DEF Aborting
<1> QED  BY <1>1, <1>2, <1>3 DEF Even, Midway, Goes, CountNames

(* What the next call has to be for a step to be taken.                    *)
LEMMA StepsMake ==
  /\ Program => todo = <<>>
  /\ Advances => todo # <<>> /\ Head(todo).call \in CountNames
  /\ ZeroReferenceCounts => todo # <<>> /\ Head(todo).call = "zero"
  /\ MarkObjectsAccessibleFrom => todo # <<>> /\ Head(todo).call = "mark"
  /\ RectifyOrDeallocate \/ RectifyEnds => todo # <<>> /\ Head(todo).call = "rectify"
  /\ AttemptToAllocate \/ AllocateChunkCollects \/ OutOfMemoryError =>
       todo # <<>> /\ Head(todo).call \in {"attempt", "attemptAgain"}
<1>1. Program => todo = <<>>
  BY DEF Program, Store, Allocate, Activate, returnBytecode, WakeFirst, resume, checkProcessSwitch,
     garbageCollect, swapPointersOf, Idle
<1>2. Advances => todo # <<>> /\ Head(todo).call \in CountNames
  BY DEF Advances, CountUp, CountDown, Put, SetRegister, Makes, CountNames
<1>3. ZeroReferenceCounts => todo # <<>> /\ Head(todo).call = "zero"
  BY DEF ZeroReferenceCounts, Makes
<1>4. MarkObjectsAccessibleFrom => todo # <<>> /\ Head(todo).call = "mark"
  BY DEF MarkObjectsAccessibleFrom, Makes
<1> QED
  BY <1>1, <1>2, <1>3, <1>4 DEF AttemptToAllocate, AllocateChunkCollects, OutOfMemoryError, Makes,
     RectifyOrDeallocate, RectifyEnds

LEMMA WellProceeds ==
  ASSUME Well
  PROVE  Proceeds
<1>1. PICK fa \in Oop, fn \in Oop : Starting(fa, fn) /\ Stage(fa, fn)'
  BY DEF Well
<1> QED  BY <1>1 DEF Proceeds, IInv, Starting

LEMMA ProgramProceeds ==
  ASSUME Even, Program
  PROVE  Proceeds
<1>1. CASE garbageCollect
  BY <1>1, GarbageProceeds
<1>2. CASE Program /\ ~garbageCollect
  <2>1. Well
    BY <1>2, StoreWell, AllocateWell, ActivateWell, ReturnWell, WakeWell, ResumeWell, SwitchWell,
       SwapWell DEF Program
  <2> QED  BY <2>1, WellProceeds
<1> QED  BY <1>1, <1>2

LEMMA AdvancesProceeds ==
  ASSUME Always, Midway, Advances
  PROVE  Proceeds
<1>1. PICK fa \in Oop, fn \in Oop : Counted(field, count, todo, inHand, fa, fn) /\ Stage(fa, fn)
  BY DEF Midway
<1> QED  BY <1>1, StageAdvances DEF Proceeds, IInv, Made

LEMMA GathersProceeds ==
  ASSUME Always, Gathers,
         ZeroReferenceCounts \/ MarkObjectsAccessibleFrom \/ RectifyOrDeallocate \/ RectifyEnds
  PROVE  Proceeds
<1>1. PICK g : Collects(g)
  BY DEF Gathers
<1>2. inHand = {}
  BY DEF Gathers
<1>3. CASE ZeroReferenceCounts
  BY <1>1, <1>2, <1>3, ZeroProceeds
<1>4. CASE MarkObjectsAccessibleFrom
  BY <1>1, <1>2, <1>4, MarkProceeds
<1>5. CASE RectifyOrDeallocate
  BY <1>1, <1>2, <1>5, RectifyOrDeallocateProceeds
<1>6. CASE RectifyEnds
  BY <1>1, <1>2, <1>6, RectifyEndsProceeds
<1> QED  BY <1>3, <1>4, <1>5, <1>6

LEMMA TriesProceeds ==
  ASSUME Always, Tries, CollectsSafely,
         AttemptToAllocate \/ AllocateChunkCollects \/ OutOfMemoryError
  PROVE  Proceeds
<1>1. CASE AttemptToAllocate
  BY <1>1, AttemptProceeds DEF Tries, Counted
<1>2. CASE AllocateChunkCollects
  BY <1>2, AllocateCollectsProceeds DEF Tries, Counted
<1>3. CASE OutOfMemoryError
  BY <1>3, OutOfMemoryProceeds DEF Tries, Counted
<1> QED  BY <1>1, <1>2, <1>3

(***************************************************************************)
(* Every step keeps the invariant, and is one the program may see.         *)
(***************************************************************************)
LEMMA NextProceeds ==
  ASSUME IInv, Next, CollectsSafely
  PROVE  Proceeds
<1>1. CASE Program
  BY <1>1, Cases, NextCall, StepsMake, ProgramProceeds DEF Always
<1>2. CASE Advances
  BY <1>2, Cases, NextCall, StepsMake, AdvancesProceeds DEF CountNames, Always
<1>3. CASE ZeroReferenceCounts \/ MarkObjectsAccessibleFrom \/ RectifyOrDeallocate \/ RectifyEnds
  BY <1>3, Cases, NextCall, StepsMake, GathersProceeds DEF CountNames, Always
<1>4. CASE AttemptToAllocate \/ AllocateChunkCollects \/ OutOfMemoryError
  BY <1>4, Cases, NextCall, StepsMake, TriesProceeds DEF CountNames, Always
<1> QED  BY <1>1, <1>2, <1>3, <1>4 DEF Next, Calls, Advances

LEMMA StutterProceeds ==
  ASSUME IInv, UNCHANGED vars
  PROVE  IInv' /\ Graph' = Graph /\ Roots' = Roots
<1>1. /\ field' = field /\ count' = count /\ activeContext' = activeContext /\ newProcess' = newProcess
      /\ inHand' = inHand /\ todo' = todo /\ pending' = pending
  BY DEF vars, regs
<1>2. Graph' = Graph /\ Roots' = Roots /\ Live' = Live
  BY <1>1, ViewIs DEF Live
<1>3. Always'
  BY <1>1, <1>2 DEF IInv, Always, Typed, Present
<1>4. Anchors' = Anchors /\ Kept' = Kept /\ Marked' = Marked /\ Zero' = Zero /\ Base' = Base
      /\ Known' = Known
  BY <1>1 DEF Anchors, Kept, Marked, Zero, Base, Known
<1>5. ASSUME NEW fa \in Oop, NEW fn \in Oop, Stage(fa, fn)
      PROVE  Stage(fa, fn)'
  <2>1. \A o, f, v : Storing(o, f, v) => Storing(o, f, v)'
    BY <1>1, <1>4 DEF Storing
  <2>2. CASE todo = <<>> /\ fa = activeContext /\ fn = newProcess
    BY <1>1, <2>2 DEF Stage
  <2>3. CASE (\E o \in Oop, f \in Nat, v \in Pointer : Storing(o, f, v)) /\ fa = activeContext /\ fn = newProcess
    BY <1>1, <2>1, <2>3 DEF Stage
  <2>4. CASE (\E n \in Nat, class \in Oop : Allocating(n, class)) /\ fa = activeContext /\ fn = newProcess
    BY <1>1, <1>4, <2>4 DEF Stage, Allocating
  <2>5. CASE (\E a, c \in Oop : Activating(a, c) /\ fa = c) /\ fn = newProcess
    BY <1>1, <1>4, <2>5 DEF Stage, Activating
  <2>6. CASE (\E a, c \in Oop, t \in Nat, v \in Pointer : Returning(a, c, t, v) /\ fa = c) /\ fn = newProcess
    BY <1>1, <2>6 DEF Stage, Returning
  <2>7. CASE (\E l, q, p \in Oop : Waking(l, q, p) /\ fn = p) /\ fa = activeContext
    BY <1>1, <2>7 DEF Stage, Waking
  <2>8. CASE (\E q, p \in Oop : Transferring(q, p) /\ fn = p) /\ fa = activeContext
    BY <1>1, <1>4, <2>8 DEF Stage, Transferring
  <2>9. CASE (\E q, a, p, c \in Oop : Switching(q, a, p, c) /\ fa = c) /\ fn = NilPointer
    BY <1>1, <2>9 DEF Stage, Switching
  <2>10. CASE (\E g \in Goals : Recounting(g)) /\ fa = activeContext /\ fn = newProcess
    BY <1>1, <2>10 DEF Stage, Recounting, Recount0, Recount1
  <2> QED  BY <1>5, <2>2, <2>3, <2>4, <2>5, <2>6, <2>7, <2>8, <2>9, <2>10 DEF Stage
<1>6. CASE \E fa, fn \in Oop : Counted(field, count, todo, inHand, fa, fn) /\ Stage(fa, fn)
  BY <1>1, <1>2, <1>3, <1>5, <1>6 DEF IInv
<1>7. CASE Collecting
  <2>1. PICK g \in Goals : GoalKept(g) /\ (Marking(g) \/ Rectifying(g))
    BY <1>7 DEF Collecting
  <2>2. GoalKept(g)'
    BY <1>1, <1>4, <2>1 DEF GoalKept
  <2>3. /\ Rectify(g)' = Rectify(g) /\ Mark4(g)' = Mark4(g) /\ Mark3(g)' = Mark3(g)
        /\ Mark2(g)' = Mark2(g) /\ Mark1(g)' = Mark1(g) /\ Mark0(g)' = Mark0(g)
    BY <1>1 DEF Mark0, Mark1, Mark2, Mark3, Mark4, Rectify, Recount0, Recount1
  <2>4. Marking(g) => Marking(g)'
    BY <1>1, <1>2, <1>4, <2>3 DEF Marking, Marks
  <2>5. \E h \in Goals : GoalKept(h)' /\ (Marking(h)' \/ Rectifying(h)')
    BY <1>1, <1>2, <1>4, <2>1, <2>2, <2>3, <2>4 DEF Rectifying
  <2> QED  BY <1>1, <1>2, <1>3, <1>7, <2>5 DEF IInv, Collecting
<1>8. CASE Aborting
  BY <1>1, <1>2, <1>3, <1>8 DEF IInv, Aborting
<1> QED  BY <1>6, <1>7, <1>8 DEF IInv

LEMMA InitImaged ==
  ASSUME Init
  PROVE  \E class, p, c : Imaged(class, p, c)
<1>1. PICK class \in Classes \intersect {NilPointer, SmalltalkPointer},
           p \in Oop \ {NilPointer, SmalltalkPointer}, c \in Oop \ {NilPointer, SmalltalkPointer} :
        /\ p # c
        /\ field = ImageOf(class, p, c)
        /\ count = [o \in Oop |->
                      IF o = NilPointer THEN Sticky
                      ELSE Saturated(ReferencesFrom(field, Oop, o) + (IF o = c THEN 1 ELSE 0))]
        /\ activeContext = c
  BY DEF Init
<1> QED  BY <1>1 DEF Imaged, Init, Is

LEMMA ImageIs ==
  ASSUME NEW class, NEW p, NEW c, Imaged(class, p, c)
  PROVE  ImageFields(class, p, c)
<1>1. /\ NilPointer \in Oop /\ SmalltalkPointer \in Oop /\ NilPointer # SmalltalkPointer
      /\ class \in Oop /\ p \in Oop /\ c \in Oop /\ p # c
      /\ p # NilPointer /\ p # SmalltalkPointer /\ c # NilPointer /\ c # SmalltalkPointer
  BY RefCountsAssumption DEF Imaged
<1>2. \A o \in Oop : field[o] = CASE o = NilPointer       -> <<SmalltalkPointer>>
                                  [] o = SmalltalkPointer -> <<class, p>>
                                  [] o = p                -> <<class, c>>
                                  [] o = c                -> <<class, NilPointer>>
                                  [] OTHER                -> <<>>
  BY DEF Imaged, ImageOf
<1>3. field[NilPointer] = <<SmalltalkPointer>>
  BY <1>1, <1>2
<1>4. field[SmalltalkPointer] = <<class, p>>
  BY <1>1, <1>2
<1>5. field[p] = <<class, c>>
  BY <1>1, <1>2
<1>6. field[c] = <<class, NilPointer>>
  BY <1>1, <1>2
<1>7. \A o \in Oop \ {NilPointer, SmalltalkPointer, p, c} : field[o] = <<>>
  BY <1>2
<1>8. field \in Heap
  <2>1. \A o \in Oop : field[o] \in Seq(Pointer)
    <3>1. <<SmalltalkPointer>> \in Seq(Pointer) /\ <<class, p>> \in Seq(Pointer)
          /\ <<class, c>> \in Seq(Pointer) /\ <<class, NilPointer>> \in Seq(Pointer)
          /\ <<>> \in Seq(Pointer)
      BY <1>1 DEF Pointer
    <3> QED  BY <1>3, <1>4, <1>5, <1>6, <1>7, <3>1
  <2>2. DOMAIN field = Oop /\ field = [o \in Oop |-> field[o]]
    BY DEF Imaged, ImageOf
  <2> QED  BY <2>1, <2>2 DEF Heap
<1> QED  BY <1>1, <1>3, <1>4, <1>5, <1>6, <1>7, <1>8 DEF ImageFields, Objects

LEMMA ImageCounted ==
  ASSUME NEW class, NEW p, NEW c, Imaged(class, p, c)
  PROVE  Typed /\ Counted(field, count, todo, inHand, activeContext, newProcess)
<1>1. ImageFields(class, p, c)
  BY ImageIs
<1>2. /\ field \in Heap /\ class \in Oop /\ p \in Oop /\ c \in Oop
      /\ p # NilPointer /\ c # NilPointer /\ NilPointer \in Oop /\ SmalltalkPointer \in Oop
      /\ NilPointer # SmalltalkPointer
      /\ activeContext = c /\ newProcess = NilPointer /\ inHand = {} /\ todo = <<>> /\ pending = {}
      /\ Objects(field) = {NilPointer, SmalltalkPointer, p, c}
  BY <1>1, RefCountsAssumption DEF Imaged, ImageFields
<1>3. \A x : /\ ReferencesFrom(field, Oop, x) \in Nat /\ Is(c, x) \in {0, 1}
             /\ ReferencesFrom(field, Oop, x) + Is(c, x) \in Nat
  <2>1. \A x : ReferencesFrom(field, Oop, x) \in Nat
    BY <1>2, ReferencesAre
  <2>2. \A x : Is(c, x) \in {0, 1}
    BY IsOne
  <2> QED  BY <2>1, <2>2
<1>4. \A x \in Oop \ {NilPointer} :
        /\ count[x] \in 0 .. Sticky
        /\ count[x] = Sticky \/ count[x] = ReferencesFrom(field, Oop, x) + Is(c, x)
  BY <1>2, <1>3, SaturatedIs DEF Imaged
<1>5. Balanced(field, count, todo, activeContext, newProcess)
  <2>1. ASSUME NEW x \in Oop \ {NilPointer}
        PROVE  \/ count[x] = Sticky
               \/ count[x] + Displaced(field, todo, x)
                    = ReferencesFrom(field, Oop, x) + Owed(todo, x) + Is(activeContext, x) + Is(newProcess, x)
    <3>1. PICK n, r, i : n = count[x] /\ r = ReferencesFrom(field, Oop, x) /\ i = Is(c, x)
      OBVIOUS
    <3>2. n = Sticky \/ n + 0 = r + 0 + i + 0
      BY ONLY <1>3, <1>4, <3>1, StickyAssumption
    <3> QED  BY <1>2, <2>1, <3>1, <3>2, OwedNothing, IsOne DEF Displaced, Calling
  <2> QED  BY <2>1 DEF Balanced
<1>6. \A x \in Oop \ Objects(field) : count[x] = 0
  <2>1. ASSUME NEW x \in Oop \ Objects(field)
        PROVE  count[x] = 0
    <3>1. \A o \in Oop : \A i \in DOMAIN field[o] : field[o][i] # x
      <4>1. x # NilPointer /\ x # SmalltalkPointer /\ x # p /\ x # c /\ x # class
        BY <1>2, <2>1 DEF Imaged
      <4>2. ASSUME NEW o \in Oop, NEW i \in DOMAIN field[o]
            PROVE  field[o][i] # x
        <5>1. CASE o = NilPointer
          BY <1>1, <4>1, <4>2, <5>1 DEF ImageFields
        <5>2. CASE o = SmalltalkPointer
          BY <1>1, <4>1, <4>2, <5>2 DEF ImageFields
        <5>3. CASE o = p
          BY <1>1, <4>1, <4>2, <5>3 DEF ImageFields
        <5>4. CASE o = c
          BY <1>1, <4>1, <4>2, <5>4 DEF ImageFields
        <5>5. CASE o \notin {NilPointer, SmalltalkPointer, p, c}
          BY <1>1, <4>1, <4>2, <5>5 DEF ImageFields
        <5> QED  BY <5>1, <5>2, <5>3, <5>4, <5>5
      <4> QED  BY <4>2
    <3> QED  BY <1>2, <2>1, <3>1, NoReferences, IsOne, StickyAssumption DEF Saturated, Imaged
  <2> QED  BY <2>1
<1>7. \A x \in Objects(field) : count[x] > 0
  <2>1. ASSUME NEW x \in Oop \ {NilPointer}, ReferencesFrom(field, Oop, x) + Is(c, x) >= 1
        PROVE  count[x] > 0
    BY <1>3, <1>4, <2>1, StickyAssumption
  <2>2. ASSUME NEW o \in Oop, NEW i \in DOMAIN field[o], field[o][i] \in Oop \ {NilPointer}
        PROVE  count[field[o][i]] > 0
    BY <1>2, <1>3, <2>1, <2>2, PointersAre, HasReference
  <2> QED  BY <1>1, <1>2, <2>2, StickyAssumption DEF ImageFields, Imaged
<1> QED
  BY <1>2, <1>4, <1>5, <1>6, <1>7, StickyAssumption, NothingHeld DEF Counted, Attended, Typed,
     Imaged

LEMMA InitEven ==
  ASSUME Init
  PROVE  Even /\ IInv
<1>1. PICK class, p, c : Imaged(class, p, c)
  BY InitImaged
<1>2. ImageFields(class, p, c) /\ Typed /\ Counted(field, count, todo, inHand, activeContext, newProcess)
  BY <1>1, ImageIs, ImageCounted
<1>3. /\ todo = <<>> /\ inHand = {} /\ activeContext = c /\ newProcess = NilPointer
      /\ class \in {NilPointer, SmalltalkPointer}
  BY <1>1 DEF Imaged
<1>4. Closed(field, Live)
  <2>1. Live = {NilPointer, SmalltalkPointer, p, c} /\ Live \subseteq Oop
    BY <1>2 DEF ImageFields, Live, Objects
  <2>2. \A o \in Live : PointersOf(field, o) \subseteq Live
    <3>1. ASSUME NEW o \in Live, NEW i \in DOMAIN field[o]
          PROVE  field[o][i] \in Live
      <4>1. CASE o = NilPointer
        BY <1>2, <2>1, <3>1, <4>1 DEF ImageFields
      <4>2. CASE o = SmalltalkPointer
        BY <1>2, <1>3, <2>1, <3>1, <4>2 DEF ImageFields
      <4>3. CASE o = p
        BY <1>2, <1>3, <2>1, <3>1, <4>3 DEF ImageFields
      <4>4. CASE o = c
        BY <1>2, <1>3, <2>1, <3>1, <4>4 DEF ImageFields
      <4> QED  BY <2>1, <3>1, <4>1, <4>2, <4>3, <4>4
    <3> QED  BY <3>1 DEF PointersOf
  <2> QED  BY <2>1, <2>2 DEF Closed
<1>5. Present
  BY <1>2, <1>3, <1>4, ViewIs, ViewIdle, ReachedIsLeast DEF Present, ImageFields, Live
<1> QED  BY <1>2, <1>3, <1>5 DEF IInv, Typed, Stage, Even, Always, ImageFields

-----------------------------------------------------------------------------
(***************************************************************************)
(* What the invariant says of the properties the runs check.               *)
(***************************************************************************)
LEMMA InvCountsExact ==
  ASSUME IInv
  PROVE  CountsExact
<1>1. SUFFICES ASSUME todo = <<>>
               PROVE  /\ \A o \in Oop : count[o] \in {References(o), Sticky}
                      /\ \A o \in Live \ inHand : count[o] > 0
  BY DEF CountsExact, Idle
<1>2. Even
  BY <1>1, Cases, NextCall DEF Always
<1>3. ASSUME NEW o \in Oop
      PROVE  count[o] \in {References(o), Sticky}
  <2>1. CASE o = NilPointer
    BY <1>2, <2>1 DEF Counted, Even, Always, Typed
  <2>2. CASE o # NilPointer
    BY <1>2, <2>2, EvenCounts, LiveRefer DEF References, Is, Live, Even, Always, Typed
  <2> QED  BY <2>1, <2>2
<1> QED  BY <1>1, <1>2, <1>3, NothingHeld DEF Counted, Attended, Live, Even, Always, Typed

LEMMA InvChecksPass ==
  ASSUME IInv
  PROVE  ChecksPass
<1>1. CASE Midway
  <2>1. PICK fa \in Oop, fn \in Oop : Counted(field, count, todo, inHand, fa, fn) /\ Stage(fa, fn)
    BY <1>1 DEF Midway
  <2> QED  BY <2>1, Cases, StageChecks DEF Always
<1>2. CASE Even \/ Tries \/ Gathers \/ Aborting
  BY <1>2, Cases, NextCall DEF ChecksPass, Makes, Always
<1> QED  BY <1>1, <1>2, Cases DEF Always

LEMMA InvCollectionComplete ==
  ASSUME IInv
  PROVE  CollectionComplete
<1>1. SUFFICES ASSUME Makes("rectify"), pending = {}
               PROVE  Live = G!Reached
  BY DEF CollectionComplete
<1>2. Gathers
  BY <1>1, Cases, NextCall DEF CountNames, Makes, Always
<1>3. PICK g : Collects(g)
  BY <1>2 DEF Gathers
<1>4. Live \subseteq Kept
  BY <1>1, <1>3, Cases, CollectsAt DEF AtRectify, Rectifying, Makes, Always
<1> QED
  BY <1>2, <1>3, <1>4, InChain, CollectionHolds, Cases, ReachedInGraph DEF CollectionView, Always,
     Present, Gathers, Collects

LEMMA InvGraph ==
  ASSUME IInv
  PROVE  /\ Graph \in Heap /\ Roots \in SUBSET Oop
         /\ ReachedFrom(Graph, Roots) \subseteq Objects(Graph)
<1>1. Sound(field, inHand, todo)
  <2>1. CASE Midway \/ Even \/ Tries
    BY <2>1 DEF Midway, Even, Tries, Counted
  <2>2. CASE Gathers
    <3>1. PICK g : Collects(g)
      BY <2>2 DEF Gathers
    <3> QED
      BY <2>2, <3>1, Cases, InChain, CollectionHolds DEF CollectionView, Gathers, Collects, Always
  <2>3. CASE Aborting
    <3>1. PICK c, e : c = abort /\ e = <<>>
      OBVIOUS
    <3>2. c \in CallRecord /\ c.call = "abort" /\ e \in Seq(CallRecord)
      BY <3>1, CollectionCalls, NoCalls
    <3>3. todo = Then(c, e)
      BY <2>3, <3>1, <3>2, OneCall DEF Aborting
    <3>4. Sound(field, inHand, e) /\ Upcoming(e) = abort
      BY <3>1, NothingHeld
    <3>5. Callable(field, inHand, c, Upcoming(e))
      BY <3>1, <3>2, <3>4 DEF Callable
    <3> QED  BY <3>2, <3>3, <3>4, <3>5, SoundThen
  <2> QED  BY <2>1, <2>2, <2>3, Cases DEF Always
<1> QED  BY <1>1, Cases, RootsLive DEF Always

(***************************************************************************)
(* A step of the object graph keeps what can be reached.                   *)
(***************************************************************************)
LEMMA GraphMoves ==
  ASSUME G!GraphNext, Graph \in Heap, Roots \in SUBSET Oop
  PROVE  Moves(Graph, Roots, Graph', Roots') /\ Graph' \in Heap /\ Roots' \subseteq Oop
<1>1. PICK F, R, F2, R2 : F = Graph /\ R = Roots /\ F2 = Graph' /\ R2 = Roots'
  OBVIOUS
<1>2. PICK K : K = ReachedFrom(F, R)
  OBVIOUS
<1>3. K \subseteq Oop /\ F \in Heap
  BY <1>1, <1>2 DEF ReachedFrom
<1>4. G!Reached = K /\ G!Present = Objects(F)
  BY <1>1, <1>2, ReachedInGraph
<1>5. Moves(F, R, F2, R2) /\ F2 \in Heap /\ R2 \subseteq Oop
  <2>1. CASE G!Hold
    BY <1>1, <1>2, <1>3, <1>4, <2>1 DEF Moves, Keeps, G!Hold, G!Holds
  <2>2. CASE G!Reclaim
    <3>0. \E D \in SUBSET (G!Present \ G!Reached) : Graph' = FieldsWithout(Graph, D)
      BY <2>2 DEF G!Reclaim, FieldsWithout
    <3>1. PICK D \in SUBSET (Objects(F) \ K) : F2 = FieldsWithout(F, D)
      BY <1>1, <1>4, <3>0
    <3>2. R2 \subseteq K
      BY <1>1, <1>4, <2>2 DEF G!Reclaim, G!Holds
    <3> QED  BY <1>2, <1>3, <3>1, <3>2, ReferencesLeft DEF Moves, Reclaims, Objects
  <2>3. CASE G!Store
    <3>1. \E o \in G!Reached, v \in G!Reached \union {Immediate} :
            \E i \in DOMAIN Graph[o] : Graph' = Written(Graph, o, i, v)
      BY <2>3 DEF G!Store, Written
    <3>2. PICK o \in K, v \in K \union {Immediate} : \E i \in DOMAIN F[o] : F2 = Written(F, o, i, v)
      BY <1>1, <1>4, <3>1
    <3>3. PICK i \in DOMAIN F[o] : F2 = Written(F, o, i, v)
      BY <3>2
    <3>4. R2 \subseteq K
      BY <1>1, <1>4, <2>3 DEF G!Store, G!Holds
    <3> QED  BY <1>2, <1>3, <3>3, <3>4, WrittenIs DEF Moves, Stores, Pointer
  <2>4. CASE G!Allocate
    <3>1. PICK o \in Oop \ Objects(F) :
            /\ F2[o] \in Seq(K \union {Immediate}) /\ F2[o] # <<>>
            /\ F2 = [F EXCEPT ![o] = F2[o]] /\ R2 \subseteq K \union {o}
      BY <1>1, <1>4, <2>4 DEF G!Allocate, G!Holds
    <3>2. PICK p : p = F2[o]
      OBVIOUS
    <3>3. p \in Seq(K \union {Immediate}) /\ p # <<>> /\ F2 = [F EXCEPT ![o] = p]
      BY <3>1, <3>2
    <3>4. F2 \in Heap
      BY <1>3, <3>3 DEF Heap, Pointer
    <3>5. Renews(F, R, F2, R2)
      BY <1>2, <3>1, <3>3 DEF Renews
    <3> QED  BY <1>3, <3>1, <3>4, <3>5 DEF Moves
  <2>5. CASE G!Become
    <3>1. PICK a \in K, b \in K : F2 = [F EXCEPT ![a] = F[b], ![b] = F[a]]
      BY <1>1, <1>4, <2>5 DEF G!Become
    <3>2. R2 \subseteq K
      BY <1>1, <1>4, <2>5 DEF G!Become, G!Holds
    <3>3. F2 = Swapped(F, a, b)
      BY <3>1 DEF Swapped
    <3>4. F2 \in Heap
      BY <1>3, <3>1 DEF Heap
    <3> QED  BY <1>2, <1>3, <3>2, <3>3, <3>4 DEF Moves, Exchanges
  <2> QED  BY <2>1, <2>2, <2>3, <2>4, <2>5 DEF G!GraphNext
<1> QED  BY <1>1, <1>5

LEMMA GraphKept ==
  ASSUME GInv, G!GraphNext
  PROVE  GInv'
BY GraphMoves, MovesKeepPresent DEF GInv

LEMMA GraphStarts == G!GraphInit => GInv
BY ReachedInGraph DEF G!GraphInit, G!ReachedArePresent, G!Pointer, GInv, Heap, Pointer

LEMMA InvGraphInit ==
  ASSUME IInv
  PROVE  G!GraphInit
BY InvGraph, ReachedInGraph DEF G!GraphInit, G!ReachedArePresent, G!Pointer, Heap, Pointer

LEMMA GraphStays ==
  ASSUME GInv, [G!GraphNext]_(G!gvars)
  PROVE  GInv'
<1>1. CASE G!GraphNext
  BY <1>1, GraphKept
<1>2. CASE UNCHANGED G!gvars
  BY <1>2 DEF GInv, G!gvars
<1> QED  BY <1>1, <1>2

LEMMA GInvPresent == GInv => G!ReachedArePresent
BY ReachedInGraph DEF GInv, G!ReachedArePresent

(***************************************************************************)
(* A step from a state of the invariant.                                   *)
(***************************************************************************)
LEMMA InvStep ==
  ASSUME IInv, [Next]_vars, [CollectsSafely]_vars
  PROVE  IInv' /\ [G!GraphNext]_(G!gvars)
<1>1. CASE UNCHANGED vars
  BY <1>1, StutterProceeds DEF G!gvars
<1>2. CASE Next /\ CollectsSafely
  BY <1>2, NextProceeds, InvGraph, MovesImplement DEF Proceeds
<1> QED  BY <1>1, <1>2

LEMMA InitInv == Init => IInv
BY InitEven

LEMMA InvStays == Spec /\ [][CollectsSafely]_vars => []IInv
BY InvStep, InitInv, PTL DEF Spec

LEMMA ConfinedStep ==
  ASSUME Confined, IInv
  PROVE  CollectsSafely
<1>1. SUFFICES ASSUME AllocateChunkCollects
               PROVE  inHand = {} /\ Head(todo).object = NilPointer
  BY DEF CollectsSafely
<1>2. PICK n \in Nat \ {0}, class \in Oop :
        todo = Allocate1(n, class) /\ Allocating(n, class) /\ Head(todo) = attempt(n, class)
  BY <1>1, Cases, NextCall, AttemptingIs DEF Tries, Counted, CountNames, AllocateChunkCollects,
     Makes, Always
<1>3. inHand = {}
  BY <1>2, Cases, OopAssumption, FS_Subset, FS_CardinalityType, RefCountsAssumption, FS_EmptySet DEF
     Confined, Allocating, Typed, Always
<1> QED  BY <1>2, <1>3, AttemptCalls DEF Confined, Allocating

LEMMA ConfinedSafe == Confined => (Spec => [][CollectsSafely]_vars)
<1> SUFFICES ASSUME Confined PROVE Spec => [][CollectsSafely]_vars
  OBVIOUS
<1> QED  BY InvStep, ConfinedStep, InitInv, PTL DEF Spec

-----------------------------------------------------------------------------
(***************************************************************************)
(* The counts are exact between two routines (objectmemory.c, countUp and  *)
(* countDown, and the routines of interpreter.c and primitives.c that call *)
(* them), and every object but a new one has a reference.                  *)
(***************************************************************************)
THEOREM CountsAreExact == Spec /\ [][CollectsSafely]_vars => []CountsExact
BY InvCountsExact, InvStays, PTL

(***************************************************************************)
(* The RUNTIME_CHECKs of countDown: and of the traversal never fail: no    *)
(* count down, in any step of any routine, comes to an object that has no  *)
(* count left.                                                             *)
(***************************************************************************)
THEOREM RuntimeChecksPass == Spec /\ [][CollectsSafely]_vars => []ChecksPass
BY InvChecksPass, InvStays, PTL

(***************************************************************************)
(* When rectifyCounts is done, what is left is what the program can reach. *)
(***************************************************************************)
THEOREM CollectionsAreComplete == Spec /\ [][CollectsSafely]_vars => []CollectionComplete
BY InvCollectionComplete, InvStays, PTL

(***************************************************************************)
(* The routines and the collection implement the object graph: each step   *)
(* is a store, an allocation, an exchange or a reclamation of what cannot  *)
(* be reached, or nothing the program can see.                             *)
(***************************************************************************)
THEOREM GraphIsImplemented == Spec /\ [][CollectsSafely]_vars => ImplementsGraph
BY InvStep, InvGraphInit, InvStays, InitInv, PTL DEF ImplementsGraph, Spec, G!GraphSpec

(***************************************************************************)
(* In the object graph, whatever a program stores, allocates, exchanges    *)
(* and holds, and whatever is reclaimed meanwhile, what can be reached is  *)
(* present: no pointer that can be followed leads to a freed entry.        *)
(***************************************************************************)
THEOREM ReachedStay == G!GraphSpec => []G!ReachedArePresent
BY GraphStays, GraphStarts, GInvPresent, PTL DEF G!GraphSpec

(***************************************************************************)
(* So an object the interpreter can come to is never freed under it.       *)
(***************************************************************************)
THEOREM ReachedNeverFreed == Spec /\ [][CollectsSafely]_vars => []G!ReachedArePresent
BY GraphIsImplemented, ReachedStay, PTL DEF ImplementsGraph

(***************************************************************************)
(* All this with no hypothesis about collections, when C variables hold at *)
(* most one new object and no class can be collected.                      *)
(***************************************************************************)
THEOREM ConfinedCountsHold ==
  Confined => (Spec => [](CountsExact /\ ChecksPass /\ CollectionComplete) /\ ImplementsGraph)
<1> SUFFICES ASSUME Confined
             PROVE  Spec => [](CountsExact /\ ChecksPass /\ CollectionComplete) /\ ImplementsGraph
  OBVIOUS
<1> QED
  BY ConfinedSafe, CountsAreExact, RuntimeChecksPass, CollectionsAreComplete, GraphIsImplemented,
     PTL

================================================================================
