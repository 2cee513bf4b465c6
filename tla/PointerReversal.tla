--------------------------- MODULE PointerReversal ---------------------------
(***************************************************************************)
(* forAllObjectsAccessibleFrom:suchThat:do: of objectmemory.c: a traversal *)
(* of the objects that needs no stack, because it stores in each pointer   *)
(* it follows the object it came from, and the index of that pointer in    *)
(* the count bits or, if the object is huge, in an extra word.             *)
(*                                                                         *)
(* It is called to count down a reference (the predicate decrements and    *)
(* the action frees) or to mark (the predicate marks).  The heaps it is    *)
(* called with are all those with right counts, or right marks.            *)
(***************************************************************************)
EXTENDS Counting

CONSTANTS
  NonPointer,
  Huge,              \* the objects with an extra word
  Pointers           \* how many pointers an object has, its class included

ASSUME PointersAssumption ==
  /\ NonPointer \notin Oop \union {Immediate}
  /\ Huge \subseteq Oop
  /\ Pointers \subseteq Nat \ {0}

VARIABLES
  mode,              \* "free" or "mark": which predicate and which action
  field, count, extraWord,
  held,              \* free: objects with one more reference, from a register
  prior, current, offset,    \* offset is 0 when no traversal is under way
  path,              \* auxiliary: the pointers followed, as a stack
  before             \* auxiliary: field and count when the traversal began

chain == <<prior, current, offset, path>>
vars == <<mode, field, count, extraWord, held, chain, before>>

lastPointerOf(o) == Len(field[o]) + 1

Counted(f, h, x) == ReferencesFrom(f, Oop, x) + (IF x \in h THEN 1 ELSE 0)

(***************************************************************************)
(* A heap with the counts countUp and countDown keep: some may stick, as   *)
(* they do once Sticky references have been counted.                       *)
(***************************************************************************)
InitCounts ==
  \E stuck \in SUBSET (Oop \ held) :
    count = [o \in Oop |->
               IF o \in stuck \/ Counted(field, held, o) >= Sticky THEN Sticky
               ELSE Counted(field, held, o)]

(* The marks after some roots: what can be reached from them.              *)
InitMarks ==
  \E roots \in SUBSET Oop :
    count = [o \in Oop |-> IF o \in ReachedFrom(field, roots) THEN 1 ELSE 0]

Init ==
  /\ mode \in {"free", "mark"}
  /\ field \in [Oop -> UNION {[1 .. n -> Oop \union {Immediate}] : n \in Pointers}]
  /\ IF mode = "free" THEN held \in SUBSET Oop /\ InitCounts
     ELSE held = {} /\ InitMarks
  /\ extraWord = [o \in Oop |-> 0]
  /\ prior = NonPointer /\ current = NonPointer /\ offset = 0 /\ path = <<>>
  /\ before = <<>>

-----------------------------------------------------------------------------
(***************************************************************************)
(* The predicates pred0 and pred1: whether to go into the object, and the  *)
(* counts afterwards.                                                      *)
(***************************************************************************)
checkPasses(o) == mode = "mark" \/ count[o] > 0

predicate(o) == count[o] = IF mode = "free" THEN 1 ELSE 0

(* Mutant: a count that sticks goes down too.                              *)
afterPredicateUnstuck(o) ==
  IF mode = "free" THEN [count EXCEPT ![o] = @ - 1]
  ELSE [count EXCEPT ![o] = 1]

afterPredicate(o) ==
  IF mode = "free" THEN [count EXCEPT ![o] = oneLess(@)]
  ELSE [count EXCEPT ![o] = 1]

goInto(o, from) ==
  /\ prior' = from
  /\ current' = o
  /\ offset' = lastPointerOf(o)

Still == offset = 0

(* countDown: and markObjectsAccessibleFrom: with the object of a root.    *)
Begin ==
  /\ Still
  /\ \E o \in IF mode = "free" THEN held ELSE Oop :
       /\ before' = [field |-> field, count |-> count, root |-> o]
       /\ held' = held \ {o}
       /\ count' = IF predicate(o) \/ mode = "free" THEN afterPredicate(o) ELSE count
       /\ IF predicate(o) THEN goInto(o, NonPointer)
          ELSE UNCHANGED <<prior, current, offset>>
  /\ UNCHANGED <<mode, field, extraWord, path>>

-----------------------------------------------------------------------------
(***************************************************************************)
(* A turn of the loop decrements offset and looks at the pointer there.    *)
(***************************************************************************)
index == offset - 1
next == field[current][index]

PassPointer ==
  /\ index > 0
  /\ \/ next = Immediate /\ UNCHANGED count
     \/ /\ next # Immediate /\ checkPasses(next) /\ ~predicate(next)
        /\ count' = IF mode = "free" THEN afterPredicate(next) ELSE count
  /\ offset' = index
  /\ UNCHANGED <<mode, field, extraWord, held, prior, current, path, before>>

(* The count bits of an object that has an extra word are left alone.      *)
saveOffset(counts) ==
  IF current \in Huge
  THEN /\ extraWord' = [extraWord EXCEPT ![current] = index]
       /\ count' = counts
  ELSE /\ count' = [counts EXCEPT ![current] = index]
       /\ UNCHANGED extraWord

(* Mutant: the extra word is forgotten.                                    *)
savedOffsetInCount(o) == count[o]

savedOffset(o) == IF o \in Huge THEN extraWord[o] ELSE count[o]

FollowPointer ==
  /\ index > 0
  /\ next # Immediate /\ checkPasses(next) /\ predicate(next)
  /\ field' = [field EXCEPT ![current][index] = prior]
  /\ saveOffset(afterPredicate(next))
  /\ goInto(next, current)
  /\ path' = Append(path, <<current, index>>)
  /\ UNCHANGED <<mode, held, before>>

(***************************************************************************)
(* The class has been passed: the action act0 frees the object, act1       *)
(* restores the mark.  Then the pointer to it is restored, and the object  *)
(* it was reached from is resumed.                                         *)
(***************************************************************************)
afterAction(f) == IF mode = "free" THEN [f EXCEPT ![current] = <<>>] ELSE f

(* Mutant: act1 does not restore the mark.                                 *)
countAfterActionKept == IF mode = "free" THEN 0 ELSE count[current]

countAfterAction == IF mode = "free" THEN 0 ELSE 1

resumeOffset == savedOffset(prior)

GoBack ==
  /\ offset > 0 /\ index = 0
  /\ count' = [count EXCEPT ![current] = countAfterAction]
  /\ IF prior = NonPointer
     THEN /\ field' = afterAction(field)
          /\ offset' = 0 /\ current' = NonPointer
          /\ UNCHANGED <<prior, path>>
     ELSE /\ field' = [afterAction(field) EXCEPT ![prior][resumeOffset] = current]
          /\ offset' = resumeOffset
          /\ current' = prior
          /\ prior' = field[prior][resumeOffset]
          /\ path' = SubSeq(path, 1, Len(path) - 1)
  /\ UNCHANGED <<mode, extraWord, held, before>>

Next == Begin \/ PassPointer \/ FollowPointer \/ GoBack

Spec == Init /\ [][Next]_vars
-----------------------------------------------------------------------------
(***************************************************************************)
(* The reversed pointers lead from prior back to the root, along the path  *)
(* taken; no object is on it twice; and the offset saved in each object on *)
(* it is that of the pointer to restore: nothing has counted it down or    *)
(* marked it in between.  The RUNTIME_CHECK of pred0 passes.               *)
(***************************************************************************)
ChainIntact ==
  /\ index > 0 /\ next # Immediate => checkPasses(next)
  /\ prior = IF path = <<>> THEN NonPointer ELSE path[Len(path)][1]
  /\ \A i \in DOMAIN path :
       /\ savedOffset(path[i][1]) = path[i][2]
       /\ field[path[i][1]][path[i][2]] = IF i = 1 THEN NonPointer ELSE path[i - 1][1]
       /\ path[i][1] # current
       /\ \A j \in DOMAIN path : path[i][1] = path[j][1] => i = j

(***************************************************************************)
(* When a count down is over, exactly the objects have gone that only they *)
(* and the reference counted down referred to; the counts of the others    *)
(* are less by the references that have gone; their pointers are restored. *)
(***************************************************************************)
CountDownFreesExactly ==
  Still /\ before # <<>> /\ mode = "free" =>
    LET D == IF before.count[before.root] = 1
             THEN FreedWith(before.field, before.count, before.root) ELSE {}
    IN  /\ field = FieldsWithout(before.field, D)
        /\ count = IF D = {} THEN [before.count EXCEPT ![before.root] = oneLess(@)]
                   ELSE CountsWithout(before.field, before.count, D)

(***************************************************************************)
(* When marking is over, the marked objects are those that were, and those *)
(* that can be reached from the root; no pointer has changed.              *)
(***************************************************************************)
MarksExactlyReached ==
  Still /\ before # <<>> /\ mode = "mark" =>
    /\ field = before.field
    /\ \A o \in Oop : count[o] = IF before.count[o] = 1
                                    \/ o \in ReachedFrom(field, {before.root})
                                 THEN 1 ELSE 0
=============================================================================
