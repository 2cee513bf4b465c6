------------------------ MODULE PointerReversalProofs ------------------------
(***************************************************************************)
(* Proofs about PointerReversal for heaps of any number of objects, with   *)
(* any number of pointers, and any number at which counts stick.           *)
(*                                                                         *)
(* The argument: a place (an object and the index of a pointer in it) is   *)
(* passed once, when offset comes to it, and what has been entered is what *)
(* is on the path or has been left.  A count goes down by the references   *)
(* passed; so an object that is met again cannot have been entered, for    *)
(* then all references to it would have been passed.  Hence no object is   *)
(* entered twice, nothing disturbs the path, and when the root is left,    *)
(* exactly the places of what was entered have been passed.                *)
(***************************************************************************)
EXTENDS PointerReversal, FiniteSetTheorems, TLAPS

USE OopAssumption, StickyAssumption, PointersAssumption

(* The heap when the traversal began.                                      *)
old == before.field
counts == before.count
root == before.root

Heap == [Oop -> Seq(Oop \union {Immediate})]

(* The objects on the way from the root to the current one, with the place *)
(* in each that has been followed; the objects that have been left for     *)
(* good; and the places that have been passed.                             *)
OnPath == {path[i][1] : i \in DOMAIN path}
Stack == OnPath \union {current}

Done ==
  IF mode = "free" THEN {o \in Oop : field[o] = <<>> /\ old[o] # <<>>}
  ELSE {o \in Oop \ Stack : counts[o] = 0 /\ count[o] # 0}

Entered == Done \union Stack

PlacesOf(f) == {p \in Oop \X (Nat \ {0}) : p[2] <= Len(f[p[1]])}

Place == PlacesOf(old)

HasPassed(o, i) ==
  \/ o \in Done
  \/ o = current /\ i >= offset
  \/ \E j \in DOMAIN path : path[j][1] = o /\ i >= path[j][2]

Passed == {p \in Place : HasPassed(p[1], p[2])}

-----------------------------------------------------------------------------
(***************************************************************************)
(* The invariant while a traversal is under way.  Of the path: each place  *)
(* on it led to the next object, and now leads to the one before.          *)
(***************************************************************************)
Typed ==
  /\ old \in Heap /\ root \in Oop
  /\ counts \in [Oop -> Nat] /\ count \in [Oop -> Nat]
  /\ extraWord \in [Oop -> Nat]
  /\ field \in [Oop -> Seq(Oop \union {Immediate, NonPointer})]
  /\ path \in Seq(Oop \X (Nat \ {0}))
  /\ current \in Oop /\ offset \in Nat \ {0}
  /\ mode \in {"free", "mark"} /\ held \subseteq Oop

Trail ==
  /\ prior = IF path = <<>> THEN NonPointer ELSE path[Len(path)][1]
  /\ root = IF path = <<>> THEN current ELSE path[1][1]
  /\ offset <= Len(old[current]) + 1
  /\ \A i \in DOMAIN path :
       /\ path[i][2] <= Len(old[path[i][1]])
       /\ path[i][1] # current
       /\ savedOffset(path[i][1]) = path[i][2]
       /\ old[path[i][1]][path[i][2]] = IF i = Len(path) THEN current ELSE path[i + 1][1]
       /\ field[path[i][1]][path[i][2]] = IF i = 1 THEN NonPointer ELSE path[i - 1][1]
       /\ \A j \in DOMAIN path : path[i][1] = path[j][1] => i = j

(* Besides, the heap has changed only by what was freed.                   *)
Freed == {o \in Done : mode = "free"}

HeapKept ==
  /\ \A o \in Stack : o \notin Done
  /\ \A o \in Oop \ Freed :
       /\ Len(field[o]) = Len(old[o])
       /\ \A i \in 1 .. Len(old[o]) :
            field[o][i] = old[o][i] \/ \E j \in DOMAIN path : path[j] = <<o, i>>

(***************************************************************************)
(* The counts a count down may begin with; and what it has done so far.    *)
(***************************************************************************)
Exact(f, n, h) ==
  \A x \in Oop :
    /\ \/ n[x] = Sticky
       \/ n[x] = Counted(f, h, x) /\ n[x] < Sticky
    /\ f[x] = <<>> => n[x] = 0

To(P, x) == {p \in P : old[p[1]][p[2]] = x}

CountingDown ==
  /\ Exact(old, counts, held \union {root})
  /\ counts[root] = 1 /\ root \notin held
  /\ \A o \in Stack : old[o] # <<>>
  /\ \A x \in Oop \ Entered :
       IF counts[x] = Sticky THEN count[x] = Sticky
       ELSE /\ count[x] = counts[x] - Cardinality(To(Passed, x))
            /\ counts[x] > 0 => count[x] > 0
  /\ \A x \in Entered \ {root} :
       counts[x] # Sticky /\ counts[x] = Cardinality(To(Passed, x))
  /\ \A x \in Done : count[x] = 0
  /\ Entered \subseteq FreedWith(old, counts, root)

(***************************************************************************)
(* The marks marking may begin with; and what it has done so far.          *)
(***************************************************************************)
Closed(f, M) == \A o \in M : PointersOf(f, o) \subseteq M

Marked(n) == {o \in Oop : n[o] = 1}

Marking ==
  /\ Closed(old, Marked(counts))
  /\ \A o \in Oop : counts[o] \in {0, 1}
  /\ \A o \in Marked(counts) : count[o] = 1
  /\ \A o \in Stack : counts[o] = 0 /\ count[o] # 0
  /\ \A o \in Done : count[o] = 1
  /\ Entered \subseteq ReachedFrom(old, {root})
  /\ \A p \in Passed :
       old[p[1]][p[2]] = Immediate
       \/ old[p[1]][p[2]] \in Marked(counts) \union Entered

Traversing ==
  /\ Typed /\ Trail /\ HeapKept
  /\ IF mode = "free" THEN CountingDown ELSE Marking

(***************************************************************************)
(* Between two traversals.                                                 *)
(***************************************************************************)
Between ==
  /\ field \in Heap /\ count \in [Oop -> Nat] /\ extraWord \in [Oop -> Nat]
  /\ mode \in {"free", "mark"} /\ held \subseteq Oop
  /\ prior = NonPointer /\ current = NonPointer /\ path = <<>>
  /\ IF mode = "free" THEN Exact(field, count, held)
     ELSE /\ Closed(field, Marked(count)) /\ \A o \in Oop : count[o] \in {0, 1}
  /\ CountDownFreesExactly /\ MarksExactlyReached

IInv ==
  /\ offset \in Nat
  /\ IF Still THEN Between ELSE Traversing

-----------------------------------------------------------------------------
(***************************************************************************)
(* The path, whatever the traversal is for.  A turn of the loop passes one *)
(* more place, going back passes none.                                     *)
(***************************************************************************)
LEMMA NextPlace ==
  ASSUME Typed, Trail, HeapKept, index > 0
  PROVE  /\ index \in Nat \ {0} /\ index <= Len(old[current])
         /\ index <= Len(field[current])
         /\ next = old[current][index] /\ next \in Oop \union {Immediate}
         /\ ~HasPassed(current, index)
<1>1. /\ index \in Nat \ {0} /\ index <= Len(old[current]) /\ index < offset
      /\ current \in Stack /\ current \in Oop
  BY DEF index, Typed, Trail, Stack
<1>2. current \notin Done
  BY <1>1 DEF HeapKept
<1>3. /\ Len(field[current]) = Len(old[current])
      /\ index \in 1 .. Len(old[current])
  <2>1. Len(old[current]) \in Nat
    BY <1>1 DEF Typed, Heap
  <2> QED  BY <1>1, <1>2, <2>1 DEF HeapKept, Freed
<1>4. \A j \in DOMAIN path : path[j][1] # current
  BY DEF Trail
<1>5. next = old[current][index]
  <2>1. ~ \E j \in DOMAIN path : path[j] = <<current, index>>
    BY <1>4
  <2> QED  BY <1>1, <1>2, <1>3, <2>1 DEF HeapKept, Freed, next
<1>6. old[current][index] \in Oop \union {Immediate}
  BY <1>1, <1>3 DEF Typed, Heap
<1> QED  BY <1>1, <1>2, <1>3, <1>4, <1>5, <1>6 DEF HasPassed, Typed

(* An object on the path, and where it is.                                 *)
LEMMA PathTyped ==
  ASSUME Typed, NEW i \in DOMAIN path
  PROVE  /\ path[i] \in Oop \X (Nat \ {0})
         /\ path[i][1] \in Oop /\ path[i][2] \in Nat \ {0}
         /\ path[i] = <<path[i][1], path[i][2]>>
         /\ path[i][1] \in OnPath /\ path[i][1] \in Stack
<1>1. path[i] \in Oop \X (Nat \ {0})
  BY DEF Typed
<1> QED  BY <1>1 DEF OnPath, Stack

LEMMA PassedFrom ==
  ASSUME old' = old,
         \A o \in Oop, i \in Nat \ {0} :
           HasPassed(o, i)' <=> HasPassed(o, i) \/ (o = current /\ i = index),
         current \in Oop, index \in Nat \ {0}, index <= Len(old[current])
  PROVE  Passed' = Passed \union {<<current, index>>}
<1>1. Place' = Place
  BY DEF Place, PlacesOf
<1>2. <<current, index>> \in Place
  BY DEF Place, PlacesOf
<1>3. ASSUME NEW p \in Place  PROVE p \in Passed' <=> p \in Passed \/ p = <<current, index>>
  <2>1. p[1] \in Oop /\ p[2] \in Nat \ {0} /\ p = <<p[1], p[2]>>
    BY DEF Place, PlacesOf
  <2>2. p \in Passed' <=> HasPassed(p[1], p[2])'
    BY <1>1 DEF Passed
  <2> QED  BY <2>1, <2>2 DEF Passed
<1> QED  BY <1>1, <1>2, <1>3 DEF Passed

LEMMA PassTrail ==
  ASSUME Typed, Trail, HeapKept, PassPointer,
         mode = "free" /\ next # Immediate => next \notin Stack
  PROVE  /\ Typed' /\ Trail' /\ HeapKept'
         /\ Stack' = Stack /\ Done' = Done
         /\ Passed' = Passed \union {<<current, index>>}
<1>1. /\ index \in Nat \ {0} /\ index <= Len(old[current])
      /\ next \in Oop \union {Immediate}
  BY NextPlace DEF PassPointer
<1>2. /\ offset' = index /\ old' = old /\ root' = root /\ counts' = counts
      /\ UNCHANGED <<mode, field, extraWord, held, prior, current, path>>
  BY DEF PassPointer, old, root, counts
<1>3. /\ count' \in [Oop -> Nat]
      /\ mode = "mark" => count' = count
      /\ \A o \in Stack : count'[o] = count[o]
  <2>1. CASE count' = count
    BY <2>1 DEF Typed
  <2>2. CASE mode = "free" /\ next # Immediate /\ checkPasses(next) /\ count' = afterPredicate(next)
    <3>1. next \in Oop /\ count[next] \in Nat /\ count[next] > 0
      BY <1>1, <2>2 DEF checkPasses, Typed
    <3>2. oneLess(count[next]) \in Nat
      BY <3>1 DEF oneLess
    <3>3. count' = [count EXCEPT ![next] = oneLess(count[next])]
      BY <2>2 DEF afterPredicate
    <3> QED  BY <2>2, <3>1, <3>2, <3>3 DEF Typed
  <2> QED  BY <2>1, <2>2 DEF PassPointer, Typed
<1>4. Stack' = Stack
  BY <1>2 DEF Stack, OnPath
<1>5. Done' = Done
  BY <1>2, <1>3, <1>4 DEF Done, Typed
<1>6. Typed'
  BY <1>1, <1>2, <1>3 DEF Typed, Heap
<1>7. Trail'
  <2>1. \A i \in DOMAIN path : savedOffset(path[i][1])' = savedOffset(path[i][1])
    BY <1>2, <1>3, PathTyped DEF savedOffset
  <2>2. index <= Len(old[current]) + 1
    BY <1>1 DEF Typed, Heap
  <2> QED  BY <1>2, <2>1, <2>2 DEF Trail
<1>8. HeapKept'
  BY <1>2, <1>4, <1>5 DEF HeapKept, Freed
<1>9. ASSUME NEW o \in Oop, NEW i \in Nat \ {0}
      PROVE  HasPassed(o, i)' <=> HasPassed(o, i) \/ (o = current /\ i = index)
  <2>1. i >= index <=> i >= offset \/ i = index
    BY <1>1 DEF index, Typed
  <2> QED  BY <1>2, <1>5, <2>1 DEF HasPassed
<1>10. current \in Oop
  BY DEF Typed
<1>11. Passed' = Passed \union {<<current, index>>}
  BY <1>1, <1>2, <1>9, <1>10, PassedFrom
<1> QED  BY <1>4, <1>5, <1>6, <1>7, <1>8, <1>11

(* What is pushed, and what is stored in a place of an object.             *)
LEMMA Pushed ==
  ASSUME NEW S, NEW s \in Seq(S), NEW e \in S, NEW t, t = Append(s, e)
  PROVE  /\ t \in Seq(S) /\ t # <<>>
         /\ Len(s) \in Nat /\ Len(t) = Len(s) + 1
         /\ DOMAIN s = 1 .. Len(s) /\ DOMAIN t = 1 .. Len(s) + 1
         /\ \A i \in DOMAIN s : t[i] = s[i]
         /\ t[Len(s) + 1] = e
OBVIOUS

LEMMA EmptyIsShort ==
  ASSUME NEW S, NEW s \in Seq(S)  PROVE s = <<>> <=> Len(s) = 0
OBVIOUS

LEMMA Popped ==
  ASSUME NEW S, NEW s \in Seq(S), NEW m \in Nat, Len(s) = m + 1,
         NEW t, t = SubSeq(s, 1, m)
  PROVE  /\ t \in Seq(S) /\ Len(t) = m /\ DOMAIN t = 1 .. m
         /\ \A i \in 1 .. m : t[i] = s[i] /\ i \in DOMAIN s
         /\ t = <<>> <=> m = 0
<1>1. \A i \in 1 .. m : s[i] \in S /\ i \in DOMAIN s
  OBVIOUS
<1>2. /\ Len(t) = m /\ t \in Seq(S)
      /\ \A i \in 1 .. m : t[i] = s[i]
  BY <1>1
<1>3. t = <<>> <=> Len(t) = 0
  BY <1>2, EmptyIsShort
<1>4. DOMAIN t = 1 .. m
  BY <1>2
<1> QED  BY <1>1, <1>2, <1>3, <1>4

LEMMA Stored ==
  ASSUME NEW S, NEW f \in [Oop -> Seq(S)], NEW o \in Oop, NEW v \in S,
         NEW k \in Nat \ {0}, k <= Len(f[o]),
         NEW g, g = [f EXCEPT ![o][k] = v]
  PROVE  /\ g \in [Oop -> Seq(S)]
         /\ \A p \in Oop : Len(g[p]) = Len(f[p])
         /\ \A p \in Oop \ {o} : g[p] = f[p]
         /\ \A i \in 1 .. Len(f[o]) : g[o][i] = IF i = k THEN v ELSE f[o][i]
         /\ g[o] # <<>> /\ f[o] # <<>>
         /\ g[o][k] = v
<1>1. f[o] \in Seq(S) /\ k \in 1 .. Len(f[o])
  OBVIOUS
<1>2. PICK q : q = [f[o] EXCEPT ![k] = v]
  OBVIOUS
<1>3. /\ q \in Seq(S) /\ Len(q) = Len(f[o])
      /\ \A i \in 1 .. Len(f[o]) : q[i] = IF i = k THEN v ELSE f[o][i]
      /\ q # <<>> /\ f[o] # <<>>
  BY <1>1, <1>2
<1>4. g[o] = q /\ \A p \in Oop \ {o} : g[p] = f[p]
  BY <1>2
<1>5. g \in [Oop -> Seq(S)]
  BY <1>3, <1>4
<1> QED  BY <1>1, <1>3, <1>4, <1>5

LEMMA FollowTrail ==
  ASSUME Typed, Trail, HeapKept, FollowPointer, next \notin Entered
  PROVE  /\ Typed' /\ Trail' /\ HeapKept'
         /\ current' = next /\ Stack' = Stack \union {next} /\ Done' = Done
         /\ Passed' = Passed \union {<<current, index>>}
<1>1. /\ index \in Nat \ {0} /\ index <= Len(old[current]) /\ index <= Len(field[current])
      /\ next = old[current][index] /\ next \in Oop
      /\ current \in Oop /\ current \in Stack /\ next # current
      /\ next \notin Stack /\ next \notin Done
  BY NextPlace DEF FollowPointer, Typed, Entered, Stack
<1>2. /\ old' = old /\ root' = root /\ counts' = counts
      /\ UNCHANGED <<mode, held>>
      /\ prior' = current /\ current' = next /\ offset' = Len(field[next]) + 1
  BY DEF FollowPointer, goInto, lastPointerOf, old, root, counts
<1>t. /\ old \in Heap /\ field \in [Oop -> Seq(Oop \union {Immediate, NonPointer})]
      /\ count \in [Oop -> Nat] /\ extraWord \in [Oop -> Nat]
      /\ path \in Seq(Oop \X (Nat \ {0})) /\ mode \in {"free", "mark"}
  BY DEF Typed
<1>3. /\ count' \in [Oop -> Nat] /\ extraWord' \in [Oop -> Nat]
      /\ \A o \in Oop \ {current, next} : count'[o] = count[o] /\ extraWord'[o] = extraWord[o]
      /\ current \in Huge => extraWord'[current] = index /\ count'[current] = count[current]
      /\ current \notin Huge => count'[current] = index
      /\ mode = "mark" => count[next] = 0
  <2>1. PICK n : n = afterPredicate(next)
    OBVIOUS
  <2>2. /\ n \in [Oop -> Nat]
        /\ \A o \in Oop \ {next} : n[o] = count[o]
        /\ mode = "mark" => count[next] = 0
    <3>1. CASE mode = "free"
      <4>1. count[next] = 1 /\ oneLess(count[next]) = 0
        BY <3>1 DEF FollowPointer, predicate, oneLess
      <4>2. n = [count EXCEPT ![next] = 0]
        BY <2>1, <3>1, <4>1 DEF afterPredicate
      <4> QED  BY <1>1, <1>t, <3>1, <4>2
    <3>2. CASE mode = "mark"
      BY <1>1, <2>1, <3>2 DEF afterPredicate, FollowPointer, predicate, Typed
    <3> QED  BY <3>1, <3>2 DEF Typed
  <2>3. saveOffset(n)
    BY <2>1 DEF FollowPointer
  <2>4. CASE current \in Huge
    BY <1>1, <2>2, <2>3, <2>4 DEF saveOffset, Typed
  <2>5. CASE current \notin Huge
    BY <1>1, <2>2, <2>3, <2>5 DEF saveOffset, Typed
  <2> QED  BY <2>4, <2>5
<1>4. /\ field' \in [Oop -> Seq(Oop \union {Immediate, NonPointer})]
      /\ \A o \in Oop : Len(field'[o]) = Len(field[o])
      /\ \A o \in Oop \ {current} : field'[o] = field[o]
      /\ \A i \in 1 .. Len(field[current]) :
           field'[current][i] = IF i = index THEN prior ELSE field[current][i]
      /\ field'[current] # <<>> /\ field[current] # <<>>
      /\ field'[current][index] = prior
  <2>1. prior \in Oop \union {Immediate, NonPointer}
    <3>1. CASE path = <<>>
      BY <3>1 DEF Trail
    <3>2. CASE path # <<>>
      <4>1. Len(path) \in DOMAIN path
        BY <1>t, <3>2
      <4> QED  BY <3>2, <4>1, PathTyped DEF Trail
    <3> QED  BY <3>1, <3>2
  <2>2. field' = [field EXCEPT ![current][index] = prior]
    BY DEF FollowPointer
  <2> QED  BY <1>1, <1>t, <2>1, <2>2, Stored
<1>5. /\ path' \in Seq(Oop \X (Nat \ {0})) /\ path' # <<>>
      /\ Len(path) \in Nat /\ Len(path') = Len(path) + 1
      /\ DOMAIN path = 1 .. Len(path) /\ DOMAIN path' = 1 .. Len(path) + 1
      /\ \A i \in DOMAIN path : path'[i] = path[i]
      /\ path'[Len(path) + 1] = <<current, index>>
  <2>1. path' = Append(path, <<current, index>>)
    BY DEF FollowPointer
  <2>2. <<current, index>> \in Oop \X (Nat \ {0})
    BY <1>1
  <2>3. PICK e, t : e = <<current, index>> /\ t = path'
    OBVIOUS
  <2>4. PICK S : S = Oop \X (Nat \ {0})
    OBVIOUS
  <2>5. path \in Seq(S) /\ e \in S /\ t = Append(path, e)
    BY <1>t, <2>1, <2>2, <2>3, <2>4
  <2>6. /\ t \in Seq(S) /\ t # <<>>
        /\ Len(path) \in Nat /\ Len(t) = Len(path) + 1
        /\ DOMAIN path = 1 .. Len(path) /\ DOMAIN t = 1 .. Len(path) + 1
        /\ \A i \in DOMAIN path : t[i] = path[i]
        /\ t[Len(path) + 1] = e
    BY <2>5, Pushed
  <2> QED  BY <2>3, <2>4, <2>6
<1>6. /\ OnPath' = OnPath \union {current}
      /\ Stack' = Stack \union {next}
  <2>1. OnPath' = OnPath \union {current}
    <3>1. \A x : x \in OnPath' <=> \E i \in DOMAIN path' : x = path'[i][1]
      BY DEF OnPath
    <3>2. \A x : x \in OnPath <=> \E i \in DOMAIN path : x = path[i][1]
      BY DEF OnPath
    <3>3. Len(path) + 1 \in DOMAIN path'
      BY <1>5
    <3>4. ASSUME NEW x  PROVE x \in OnPath' <=> x \in OnPath \/ x = current
      <4>1. path'[Len(path) + 1][1] = current
        BY <1>5
      <4>2. \A i \in DOMAIN path' : i \in DOMAIN path \/ i = Len(path) + 1
        BY <1>5
      <4>3. \A i \in DOMAIN path : i \in DOMAIN path' /\ path'[i][1] = path[i][1]
        BY <1>5
      <4> QED  BY <3>1, <3>2, <3>3, <4>1, <4>2, <4>3
    <3> QED  BY <3>4
  <2> QED  BY <1>2, <2>1 DEF Stack
<1>7. Done' = Done
  <2>1. CASE mode = "free"
    <3>1. \A o \in Oop : field'[o] = <<>> <=> field[o] = <<>>
      BY <1>4
    <3> QED  BY <1>2, <2>1, <3>1 DEF Done
  <2>2. CASE mode = "mark"
    <3>1. Done' = {o \in Oop \ Stack' : counts[o] = 0 /\ count'[o] # 0}
      BY <1>2, <2>2 DEF Done
    <3>2. Done = {o \in Oop \ Stack : counts[o] = 0 /\ count[o] # 0}
      BY <2>2 DEF Done
    <3>3. \A o \in Oop \ Stack' : count'[o] = count[o]
      BY <1>1, <1>3, <1>6
    <3> QED  BY <1>1, <1>6, <3>1, <3>2, <3>3
  <2> QED  BY <2>1, <2>2 DEF Typed
<1>8. Typed'
  <2>1. offset' \in Nat \ {0}
    BY <1>1, <1>2, <1>t
  <2>2. old' \in Heap' /\ root' \in Oop /\ counts' \in [Oop -> Nat] /\ held' \subseteq Oop
        /\ mode' \in {"free", "mark"} /\ current' \in Oop
    BY <1>1, <1>2 DEF Typed, Heap
  <2> QED  BY <1>3, <1>4, <1>5, <2>1, <2>2 DEF Typed
<1>9. Len(field[next]) = Len(old[next])
  BY <1>1 DEF HeapKept, Freed
<1>10. HeapKept'
  <2>1. \A o \in Stack' : o \notin Done'
    BY <1>1, <1>6, <1>7 DEF HeapKept
  <2>3. ASSUME NEW o \in Oop \ Freed, NEW i \in 1 .. Len(old[o])
        PROVE  field'[o][i] = old[o][i] \/ \E j \in DOMAIN path' : path'[j] = <<o, i>>
    <3>1. CASE field[o][i] = old[o][i]
      <4>1. CASE o = current /\ i = index
        BY <1>5, <4>1
      <4>2. CASE ~(o = current /\ i = index)
        <5>1. Len(field[o]) = Len(old[o])
          BY <2>3 DEF HeapKept
        <5> QED  BY <1>4, <2>3, <3>1, <4>2, <5>1
      <4> QED  BY <4>1, <4>2
    <3>2. CASE \E j \in DOMAIN path : path[j] = <<o, i>>
      <4>1. PICK j \in DOMAIN path : path[j] = <<o, i>>
        BY <3>2
      <4>2. j \in DOMAIN path' /\ path'[j] = <<o, i>>
        BY <1>5, <4>1
      <4> QED  BY <4>2
    <3> QED  BY <2>3, <3>1, <3>2 DEF HeapKept
  <2>4. \A o \in Oop \ Freed : Len(field'[o]) = Len(old[o])
    BY <1>4 DEF HeapKept
  <2>5. Freed' = Freed
    BY <1>2, <1>7 DEF Freed
  <2> QED  BY <1>2, <1>7, <2>1, <2>3, <2>4, <2>5 DEF HeapKept
<1>11. Trail'
  <2>1. prior' = path'[Len(path')][1] /\ path' # <<>>
    BY <1>2, <1>5
  <2>2. root' = path'[1][1]
    <3>1. CASE path = <<>>
      BY <1>2, <1>5, <3>1 DEF Trail
    <3>2. CASE path # <<>>
      BY <1>2, <1>5, <3>2 DEF Trail
    <3> QED  BY <3>1, <3>2
  <2>3. offset' <= Len(old'[current']) + 1
    BY <1>1, <1>2, <1>9 DEF Typed, Heap
  <2>4. ASSUME NEW i \in DOMAIN path'
        PROVE  /\ path'[i][2] <= Len(old'[path'[i][1]])
               /\ path'[i][1] # current'
               /\ savedOffset(path[i][1])' = path'[i][2]
               /\ old'[path'[i][1]][path'[i][2]] = IF i = Len(path') THEN current' ELSE path'[i + 1][1]
               /\ field'[path'[i][1]][path'[i][2]] = IF i = 1 THEN NonPointer ELSE path'[i - 1][1]
               /\ \A j \in DOMAIN path' : path'[i][1] = path'[j][1] => i = j
    <3>1. CASE i = Len(path) + 1
      <4>1. path'[i] = <<current, index>> /\ i = Len(path')
        BY <1>5, <3>1
      <4>2. (IF current \in Huge THEN extraWord'[current] ELSE count'[current]) = index
        BY <1>3
      <4>3. field'[current][index] = IF i = 1 THEN NonPointer ELSE path'[i - 1][1]
        <5>1. prior = IF path = <<>> THEN NonPointer ELSE path[Len(path)][1]
          BY DEF Trail
        <5>2. CASE path = <<>>
          BY <1>4, <3>1, <5>1, <5>2
        <5>3. CASE path # <<>>
          <6>1. Len(path) \in DOMAIN path /\ i - 1 = Len(path) /\ i # 1
            <7>1. Len(path) # 0
              BY <1>t, <5>3
            <7> QED  BY <1>5, <3>1, <7>1
          <6> QED  BY <1>4, <1>5, <5>1, <5>3, <6>1
        <5> QED  BY <5>2, <5>3
      <4>4. \A j \in DOMAIN path' : path'[j][1] = current => i = j
        BY <1>5, <3>1 DEF Trail
      <4>5. savedOffset(path[i][1])' = path'[i][2]
        BY <4>1, <4>2 DEF savedOffset
      <4>6. path'[i][1] = current /\ path'[i][2] = index
        BY <4>1
      <4> QED  BY <1>1, <1>2, <4>1, <4>3, <4>4, <4>5, <4>6
    <3>2. CASE i # Len(path) + 1
      <4>1. i \in DOMAIN path /\ path'[i] = path[i] /\ i # Len(path')
        BY <1>5, <2>4, <3>2
      <4>2. PICK o, k : o = path[i][1] /\ k = path[i][2]
        OBVIOUS
      <4>3. /\ o \in Oop /\ k \in Nat \ {0} /\ o \in Stack /\ o # next
            /\ o # current /\ k <= Len(old[o]) /\ savedOffset(o) = k
            /\ old[o][k] = IF i = Len(path) THEN current ELSE path[i + 1][1]
            /\ field[o][k] = IF i = 1 THEN NonPointer ELSE path[i - 1][1]
        BY <1>1, <4>1, <4>2, PathTyped DEF Trail
      <4>4. savedOffset(path[i][1])' = k
        BY <1>3, <4>1, <4>2, <4>3 DEF savedOffset
      <4>5. old[o][k] = path'[i + 1][1]
        <5>1. CASE i = Len(path)
          BY <1>5, <4>3, <5>1
        <5>2. CASE i # Len(path)
          <6>1. i + 1 \in DOMAIN path
            BY <1>5, <4>1, <5>2
          <6> QED  BY <1>5, <4>3, <5>2, <6>1
        <5> QED  BY <5>1, <5>2
      <4>6. field'[o][k] = IF i = 1 THEN NonPointer ELSE path'[i - 1][1]
        <5>1. field'[o][k] = field[o][k]
          BY <1>4, <4>3
        <5>2. i # 1 => i - 1 \in DOMAIN path
          BY <1>5, <4>1
        <5> QED  BY <1>5, <4>3, <5>1, <5>2
      <4>7. \A j \in DOMAIN path' : o = path'[j][1] => i = j
        <5> SUFFICES ASSUME NEW j \in DOMAIN path', o = path'[j][1]  PROVE i = j
          OBVIOUS
        <5>1. j # Len(path) + 1
          BY <1>5, <4>3
        <5>2. j \in DOMAIN path /\ path'[j] = path[j]
          BY <1>5, <5>1
        <5> QED  BY <4>1, <4>2, <5>2 DEF Trail
      <4> QED  BY <1>2, <4>1, <4>2, <4>3, <4>4, <4>5, <4>6, <4>7
    <3> QED  BY <3>1, <3>2
  <2>5. prior' = IF path' = <<>> THEN NonPointer ELSE path'[Len(path')][1]
    BY <2>1
  <2>6. root' = IF path' = <<>> THEN current' ELSE path'[1][1]
    BY <2>1, <2>2
  <2> QED  BY <2>3, <2>4, <2>5, <2>6 DEF Trail
<1>12. Passed' = Passed \union {<<current, index>>}
  <2>1. Place' = Place
    BY <1>2 DEF Place, PlacesOf
  <2>2. <<current, index>> \in Place
    BY <1>1 DEF Place, PlacesOf
  <2>3. ASSUME NEW p \in Place  PROVE p \in Passed' <=> p \in Passed \/ p = <<current, index>>
    <3>1. PICK o \in Oop, i \in Nat \ {0} : p = <<o, i>>
      BY <2>3 DEF Place, PlacesOf
    <3>2. i <= Len(old[o])
      BY <2>3, <3>1 DEF Place, PlacesOf
    <3>3. (\E j \in DOMAIN path' : path'[j][1] = o /\ i >= path'[j][2])
          <=> \/ \E j \in DOMAIN path : path[j][1] = o /\ i >= path[j][2]
              \/ o = current /\ i >= index
      <4>1. \A j \in DOMAIN path' : j \in DOMAIN path \/ j = Len(path) + 1
        BY <1>5
      <4>2. Len(path) + 1 \in DOMAIN path'
        BY <1>5
      <4>3. path'[Len(path) + 1][1] = current /\ path'[Len(path) + 1][2] = index
        BY <1>5
      <4>4. \A j \in DOMAIN path : j \in DOMAIN path' /\ path'[j] = path[j]
        BY <1>5
      <4> QED  BY <4>1, <4>2, <4>3, <4>4
    <3>4. ~(o = current' /\ i >= offset')
      <4>1. offset' = Len(old[next]) + 1 /\ Len(old[next]) \in Nat
        BY <1>1, <1>2, <1>9, <1>t DEF Heap
      <4> QED  BY <1>2, <3>2, <4>1
    <3>5. i >= index <=> i >= offset \/ i = index
      <4>1. offset \in Nat
        BY DEF Typed
      <4> QED  BY <4>1 DEF index
    <3>9. HasPassed(o, i)'
          <=> \/ o \in Done
              \/ o = current /\ i >= index
              \/ \E j \in DOMAIN path : path[j][1] = o /\ i >= path[j][2]
      BY <1>7, <3>3, <3>4 DEF HasPassed
    <3>6. HasPassed(o, i)' <=> HasPassed(o, i) \/ (o = current /\ i = index)
      BY <3>5, <3>9 DEF HasPassed
    <3>7. p \in Passed' <=> HasPassed(o, i)'
      BY <2>1, <3>1 DEF Passed
    <3>8. p \in Passed <=> HasPassed(o, i)
      BY <3>1 DEF Passed
    <3> QED  BY <3>1, <3>6, <3>7, <3>8
  <2> QED  BY <2>1, <2>2, <2>3 DEF Passed
<1> QED  BY <1>2, <1>6, <1>7, <1>8, <1>10, <1>11, <1>12

(* Going back leaves the current object for the one it was reached from.   *)
LEMMA BackTrail ==
  ASSUME Typed, Trail, HeapKept, GoBack, path # <<>>,
         mode = "free" => old[current] # <<>>,
         mode = "mark" => counts[current] = 0
  PROVE  /\ Typed' /\ Trail' /\ HeapKept'
         /\ Done' = Done \union {current} /\ Entered' = Entered
         /\ current' \in Stack /\ Stack' = Stack \ {current}
         /\ Passed' = Passed
<1>t. /\ old \in Heap /\ field \in [Oop -> Seq(Oop \union {Immediate, NonPointer})]
      /\ count \in [Oop -> Nat] /\ extraWord \in [Oop -> Nat]
      /\ path \in Seq(Oop \X (Nat \ {0})) /\ mode \in {"free", "mark"}
      /\ current \in Oop /\ current \in Stack /\ offset = 1
  <2>1. offset - 1 = 0
    BY DEF GoBack, index
  <2>2. offset \in Nat \ {0} /\ current \in Oop /\ mode \in {"free", "mark"} /\ old \in Heap
        /\ field \in [Oop -> Seq(Oop \union {Immediate, NonPointer})]
        /\ count \in [Oop -> Nat] /\ extraWord \in [Oop -> Nat]
        /\ path \in Seq(Oop \X (Nat \ {0}))
    BY DEF Typed
  <2>3. current \in Stack
    BY DEF Stack
  <2> QED  BY <2>1, <2>2, <2>3
<1>n. PICK n, a, k : n = Len(path) /\ a = path[n][1] /\ k = path[n][2]
  OBVIOUS
<1>1. n \in Nat \ {0} /\ n \in DOMAIN path /\ DOMAIN path = 1 .. n
  BY <1>t, <1>n
<1>2. /\ a \in Oop /\ k \in Nat \ {0} /\ path[n] = <<a, k>> /\ a \in Stack
      /\ a \notin Done
  BY <1>n, <1>1, PathTyped DEF HeapKept
<1>3. /\ prior = a /\ prior # NonPointer
      /\ k <= Len(old[a]) /\ a # current /\ savedOffset(a) = k
      /\ old[a][k] = current
      /\ field[a][k] = IF n = 1 THEN NonPointer ELSE path[n - 1][1]
      /\ \A j \in DOMAIN path : path[j][1] = a => j = n
  <2>1. prior = a
    BY <1>n DEF Trail
  <2>2. /\ path[n][2] <= Len(old[path[n][1]])
        /\ path[n][1] # current
        /\ savedOffset(path[n][1]) = path[n][2]
        /\ old[path[n][1]][path[n][2]] = current
        /\ field[path[n][1]][path[n][2]] = IF n = 1 THEN NonPointer ELSE path[n - 1][1]
        /\ \A j \in DOMAIN path : path[n][1] = path[j][1] => n = j
    BY <1>n, <1>1 DEF Trail
  <2> QED  BY <2>1, <2>2, <1>n, <1>2
<1>4. Len(field[a]) = Len(old[a])
  BY <1>2 DEF HeapKept, Freed
<1>5. resumeOffset = k
  BY <1>3 DEF resumeOffset
<1>6. /\ old' = old /\ root' = root /\ counts' = counts
      /\ UNCHANGED <<mode, extraWord, held>>
      /\ offset' = k /\ current' = a
      /\ prior' = IF n = 1 THEN NonPointer ELSE path[n - 1][1]
      /\ path' = SubSeq(path, 1, n - 1)
  BY <1>n, <1>3, <1>5 DEF GoBack, old, root, counts
<1>7. /\ count' \in [Oop -> Nat]
      /\ \A o \in Oop \ {current} : count'[o] = count[o]
      /\ mode = "mark" => count'[current] = 1
  <2>1. count' = [count EXCEPT ![current] = IF mode = "free" THEN 0 ELSE 1]
    BY DEF GoBack, countAfterAction
  <2> QED  BY <1>t, <2>1
<1>8. PICK f : f = afterAction(field)
  OBVIOUS
<1>9. /\ f \in [Oop -> Seq(Oop \union {Immediate, NonPointer})]
      /\ \A o \in Oop \ {current} : f[o] = field[o]
      /\ mode = "free" => f[current] = <<>>
      /\ mode = "mark" => f = field
  <2>1. CASE mode = "free"
    <3>1. f = [field EXCEPT ![current] = <<>>]
      BY <1>8, <2>1 DEF afterAction
    <3>2. <<>> \in Seq(Oop \union {Immediate, NonPointer})
      OBVIOUS
    <3> QED  BY <1>t, <2>1, <3>1, <3>2
  <2>2. CASE mode = "mark"
    BY <1>t, <1>8, <2>2 DEF afterAction
  <2> QED  BY <1>t, <2>1, <2>2
<1>10. /\ field' \in [Oop -> Seq(Oop \union {Immediate, NonPointer})]
       /\ \A o \in Oop : Len(field'[o]) = Len(f[o])
       /\ \A o \in Oop \ {a} : field'[o] = f[o]
       /\ \A i \in 1 .. Len(f[a]) : field'[a][i] = IF i = k THEN current ELSE f[a][i]
       /\ field'[a] # <<>> /\ f[a] # <<>>
       /\ field'[a][k] = current
  <2>1. field' = [f EXCEPT ![a][k] = current]
    BY <1>3, <1>5, <1>8 DEF GoBack
  <2>2. k <= Len(f[a]) /\ current \in Oop \union {Immediate, NonPointer}
    BY <1>2, <1>3, <1>4, <1>9, <1>t
  <2> QED  BY <1>2, <1>9, <2>1, <2>2, Stored
<1>11. /\ path' \in Seq(Oop \X (Nat \ {0}))
       /\ Len(path') = n - 1 /\ DOMAIN path' = 1 .. n - 1
       /\ \A i \in 1 .. n - 1 : path'[i] = path[i] /\ i \in DOMAIN path
       /\ path' = <<>> <=> n = 1
  <2>1. PICK S, s, t, m : /\ S = Oop \X (Nat \ {0}) /\ s = path /\ t = path'
                          /\ m = n - 1
    OBVIOUS
  <2>2. m \in Nat /\ n = m + 1
    BY <1>1, <2>1
  <2>3. s \in Seq(S) /\ Len(s) = m + 1 /\ t = SubSeq(s, 1, m)
    BY <1>t, <1>n, <1>6, <2>1, <2>2
  <2>4. /\ t \in Seq(S) /\ Len(t) = m /\ DOMAIN t = 1 .. m
        /\ \A i \in 1 .. m : t[i] = s[i] /\ i \in DOMAIN s
        /\ t = <<>> <=> m = 0
    BY <2>2, <2>3, Popped
  <2>5. path' = <<>> <=> n = 1
    BY <2>1, <2>2, <2>4
  <2> QED  BY <2>1, <2>4, <2>5
<1>12. /\ \A x : x \in OnPath' \/ x = a <=> x \in OnPath
       /\ a \notin OnPath' /\ current \notin OnPath
  <2>1. \A x : x \in OnPath' <=> \E i \in 1 .. n - 1 : x = path[i][1]
    BY <1>11 DEF OnPath
  <2>2. \A x : x \in OnPath <=> \E i \in 1 .. n : x = path[i][1]
    BY <1>1 DEF OnPath
  <2>3. a \notin OnPath'
    BY <1>1, <1>3, <2>1
  <2>4. current \notin OnPath
    BY DEF Trail, OnPath
  <2>5. \A i \in 1 .. n : i \in 1 .. n - 1 \/ i = n
    BY <1>1
  <2>6. \A i \in 1 .. n - 1 : i \in 1 .. n
    BY <1>1
  <2>7. path[n][1] = a /\ n \in 1 .. n
    BY <1>n, <1>1
  <2> QED  BY <2>1, <2>2, <2>3, <2>4, <2>5, <2>6, <2>7
<1>13. Stack' = Stack \ {current} /\ current' \in Stack
  BY <1>2, <1>6, <1>12 DEF Stack
<1>14. Done' = Done \union {current}
  <2>1. CASE mode = "free"
    <3>1. Done' = {o \in Oop : field'[o] = <<>> /\ old[o] # <<>>}
      BY <1>6, <2>1 DEF Done
    <3>2. Done = {o \in Oop : field[o] = <<>> /\ old[o] # <<>>}
      BY <2>1 DEF Done
    <3>3. \A o \in Oop \ {current} : field'[o] = <<>> <=> field[o] = <<>>
      BY <1>9, <1>10
    <3>4. field'[current] = <<>>
      BY <1>3, <1>9, <1>10, <1>t, <2>1
    <3> QED  BY <1>t, <2>1, <3>1, <3>2, <3>3, <3>4
  <2>2. CASE mode = "mark"
    <3>1. Done' = {o \in Oop \ Stack' : counts[o] = 0 /\ count'[o] # 0}
      BY <1>6, <2>2 DEF Done
    <3>2. Done = {o \in Oop \ Stack : counts[o] = 0 /\ count[o] # 0}
      BY <2>2 DEF Done
    <3>3. counts[current] = 0 /\ count'[current] = 1 /\ current \notin Stack'
      BY <1>7, <1>13, <2>2
    <3>4. \A o \in Oop \ {current} : o \in Stack' <=> o \in Stack
      BY <1>13
    <3> QED  BY <1>7, <1>t, <3>1, <3>2, <3>3, <3>4
  <2> QED  BY <1>t, <2>1, <2>2
<1>15. Entered' = Entered
  BY <1>13, <1>14, <1>t DEF Entered
<1>16. Typed'
  <2>1. old' \in Heap' /\ root' \in Oop /\ counts' \in [Oop -> Nat] /\ held' \subseteq Oop
    BY <1>6 DEF Typed, Heap
  <2> QED  BY <1>2, <1>6, <1>7, <1>10, <1>11, <1>t, <2>1 DEF Typed
<1>17. HeapKept'
  <2>1. \A o \in Stack' : o \notin Done'
    BY <1>13, <1>14 DEF HeapKept
  <2>2. \A o \in Oop \ Freed' : o \notin Freed /\ f[o] = field[o]
    <3>1. CASE mode = "free"
      BY <1>6, <1>9, <1>14, <3>1 DEF Freed
    <3>2. CASE mode = "mark"
      BY <1>9, <3>2 DEF Freed
    <3> QED  BY <1>t, <3>1, <3>2
  <2>3. \A o \in Oop \ Freed' : Len(field'[o]) = Len(old[o])
    BY <1>10, <2>2 DEF HeapKept
  <2>5. ASSUME NEW o \in Oop \ Freed', NEW i \in 1 .. Len(old[o])
        PROVE  field'[o][i] = old[o][i] \/ \E j \in DOMAIN path' : path'[j] = <<o, i>>
    <3>1. o \notin Freed /\ f[o] = field[o]
      BY <2>2, <2>5
    <3>2. CASE o = a /\ i = k
      BY <1>3, <1>10, <3>2
    <3>3. CASE ~(o = a /\ i = k)
      <4>1. field'[o][i] = field[o][i]
        <5>1. CASE o = a
          BY <1>2, <1>3, <1>4, <1>10, <2>5, <3>1, <3>3, <5>1
        <5>2. CASE o # a
          BY <1>10, <2>5, <3>1, <5>2
        <5> QED  BY <5>1, <5>2
      <4>2. CASE field[o][i] = old[o][i]
        BY <4>1, <4>2
      <4>3. CASE \E j \in DOMAIN path : path[j] = <<o, i>>
        <5>1. PICK j \in DOMAIN path : path[j] = <<o, i>>
          BY <4>3
        <5>2. j # n
          BY <1>2, <3>3, <5>1
        <5>3. j \in 1 .. n - 1
          BY <1>1, <5>1, <5>2
        <5> QED  BY <1>11, <5>1, <5>3
      <4> QED  BY <2>5, <3>1, <4>2, <4>3 DEF HeapKept
    <3> QED  BY <3>2, <3>3
  <2> QED  BY <1>6, <2>1, <2>3, <2>5 DEF HeapKept
<1>18. Trail'
  <2>1. prior' = IF path' = <<>> THEN NonPointer ELSE path'[Len(path')][1]
    <3>1. CASE n = 1
      BY <1>6, <1>11, <3>1
    <3>2. CASE n # 1
      <4>1. n - 1 \in 1 .. n - 1
        BY <1>1, <3>2
      <4> QED  BY <1>6, <1>11, <3>2, <4>1
    <3> QED  BY <3>1, <3>2
  <2>2. root' = IF path' = <<>> THEN current' ELSE path'[1][1]
    <3>1. root = path[1][1]
      BY DEF Trail
    <3>2. CASE n = 1
      BY <1>6, <1>11, <1>n, <3>1, <3>2
    <3>3. CASE n # 1
      <4>1. 1 \in 1 .. n - 1
        BY <1>1, <3>3
      <4> QED  BY <1>6, <1>11, <3>1, <3>3, <4>1
    <3> QED  BY <3>2, <3>3
  <2>3. offset' <= Len(old'[current']) + 1
    <3>1. Len(old[a]) \in Nat
      BY <1>2, <1>t DEF Heap
    <3> QED  BY <1>2, <1>3, <1>6, <3>1
  <2>4. ASSUME NEW i \in DOMAIN path'
        PROVE  /\ path'[i][2] <= Len(old'[path'[i][1]])
               /\ path'[i][1] # current'
               /\ savedOffset(path[i][1])' = path'[i][2]
               /\ old'[path'[i][1]][path'[i][2]] = IF i = Len(path') THEN current' ELSE path'[i + 1][1]
               /\ field'[path'[i][1]][path'[i][2]] = IF i = 1 THEN NonPointer ELSE path'[i - 1][1]
               /\ \A j \in DOMAIN path' : path'[i][1] = path'[j][1] => i = j
    <3>1. i \in 1 .. n - 1 /\ i \in DOMAIN path /\ path'[i] = path[i] /\ i # n
      BY <1>1, <1>11, <2>4
    <3>2. PICK o, l : o = path[i][1] /\ l = path[i][2]
      OBVIOUS
    <3>3. /\ o \in Oop /\ l \in Nat \ {0} /\ o # a /\ o # current
          /\ l <= Len(old[o]) /\ savedOffset(o) = l
          /\ old[o][l] = path[i + 1][1]
          /\ field[o][l] = IF i = 1 THEN NonPointer ELSE path[i - 1][1]
      BY <1>3, <1>n, <3>1, <3>2, PathTyped DEF Trail
    <3>4. savedOffset(path[i][1])' = l
      <4>1. path'[i][1] = o /\ count'[o] = count[o] /\ extraWord' = extraWord
        BY <1>6, <1>7, <3>1, <3>2, <3>3
      <4> QED  BY <3>3, <4>1 DEF savedOffset
    <3>5. old[o][l] = IF i = Len(path') THEN a ELSE path'[i + 1][1]
      <4>1. CASE i = n - 1
        <5>1. i + 1 = n
          BY <1>1, <4>1
        <5> QED  BY <1>11, <1>n, <3>3, <4>1, <5>1
      <4>2. CASE i # n - 1
        <5>1. i + 1 \in 1 .. n - 1
          BY <1>1, <3>1, <4>2
        <5> QED  BY <1>11, <3>3, <4>2, <5>1
      <4> QED  BY <4>1, <4>2
    <3>6. field'[o][l] = IF i = 1 THEN NonPointer ELSE path'[i - 1][1]
      <4>1. field'[o] = field[o]
        BY <1>9, <1>10, <3>3
      <4>2. i # 1 => i - 1 \in 1 .. n - 1
        BY <1>1, <3>1
      <4> QED  BY <1>11, <3>3, <4>1, <4>2
    <3>7. \A j \in DOMAIN path' : o = path'[j][1] => i = j
      <4> SUFFICES ASSUME NEW j \in DOMAIN path', o = path'[j][1]  PROVE i = j
        OBVIOUS
      <4>1. j \in DOMAIN path /\ path'[j] = path[j]
        BY <1>11
      <4> QED  BY <3>1, <3>2, <4>1 DEF Trail
    <3>8. path'[i][1] = o /\ path'[i][2] = l
      BY <3>1, <3>2
    <3> QED  BY <1>6, <3>3, <3>4, <3>5, <3>6, <3>7, <3>8
  <2> QED  BY <2>1, <2>2, <2>3, <2>4 DEF Trail
<1>19. Passed' = Passed
  <2>1. Place' = Place
    BY <1>6 DEF Place, PlacesOf
  <2>2. ASSUME NEW p \in Place  PROVE p \in Passed' <=> p \in Passed
    <3>1. PICK o \in Oop, i \in Nat \ {0} : p = <<o, i>>
      BY <2>2 DEF Place, PlacesOf
    <3>2. (\E j \in DOMAIN path : path[j][1] = o /\ i >= path[j][2])
          <=> \/ \E j \in DOMAIN path' : path'[j][1] = o /\ i >= path'[j][2]
              \/ o = a /\ i >= k
      <4>1. \A j \in DOMAIN path : j \in DOMAIN path' \/ j = n
        BY <1>1, <1>11
      <4>2. n \in DOMAIN path /\ path[n][1] = a /\ path[n][2] = k
        BY <1>1, <1>2
      <4> QED  BY <1>11, <4>1, <4>2
    <3>3. i >= offset
      BY <1>t, <3>1
    <3>4. HasPassed(o, i)'
          <=> \/ o \in Done \/ o = current
              \/ o = a /\ i >= k
              \/ \E j \in DOMAIN path' : path'[j][1] = o /\ i >= path'[j][2]
      BY <1>6, <1>14 DEF HasPassed
    <3>5. HasPassed(o, i)' <=> HasPassed(o, i)
      BY <3>2, <3>3, <3>4 DEF HasPassed
    <3>6. p \in Passed' <=> HasPassed(o, i)'
      BY <2>1, <3>1 DEF Passed
    <3>7. p \in Passed <=> HasPassed(o, i)
      BY <3>1 DEF Passed
    <3> QED  BY <3>5, <3>6, <3>7
  <2> QED  BY <2>1, <2>2 DEF Passed
<1> QED  BY <1>13, <1>14, <1>15, <1>16, <1>17, <1>18, <1>19

-----------------------------------------------------------------------------
(***************************************************************************)
(* References are places of the heap, of which there are finitely many.    *)
(***************************************************************************)
LEMMA PlacesFinite ==
  ASSUME NEW f \in Heap
  PROVE  IsFiniteSet(PlacesOf(f))
<1>1. PICK g : g = [o \in Oop |-> {o} \X DOMAIN f[o]]
  OBVIOUS
<1>2. PICK G : G = {g[o] : o \in Oop}
  OBVIOUS
<1>3. IsFiniteSet(G)
  <2>1. g \in Surjection(Oop, G)
    BY <1>1, <1>2 DEF Surjection
  <2> QED  BY <2>1, FS_Surjection, OopAssumption
<1>4. ASSUME NEW T \in G  PROVE IsFiniteSet(T)
  <2>1. PICK o \in Oop : T = {o} \X DOMAIN f[o]
    BY <1>1, <1>2
  <2>2. DOMAIN f[o] = 1 .. Len(f[o]) /\ Len(f[o]) \in Int
    BY DEF Heap
  <2>3. IsFiniteSet(DOMAIN f[o])
    BY <2>2, FS_Interval
  <2> QED  BY <2>1, <2>3, FS_Singleton, FS_Product
<1>5. PlacesOf(f) \subseteq UNION G
  <2> SUFFICES ASSUME NEW p \in PlacesOf(f)  PROVE p \in UNION G
    OBVIOUS
  <2>1. p[1] \in Oop /\ p[2] \in Nat \ {0} /\ p[2] <= Len(f[p[1]]) /\ p = <<p[1], p[2]>>
    BY DEF PlacesOf
  <2>2. p[2] \in DOMAIN f[p[1]]
    BY <2>1 DEF Heap
  <2>3. p \in g[p[1]]
    BY <1>1, <2>1, <2>2
  <2> QED  BY <1>2, <2>1, <2>3
<1> QED  BY <1>3, <1>4, <1>5, FS_UNION, FS_Subset

LEMMA ReferencesAre ==
  ASSUME NEW f \in Heap, NEW D \in SUBSET Oop, NEW x
  PROVE  /\ ReferencesIn(f, D, x) = {p \in PlacesOf(f) : p[1] \in D /\ f[p[1]][p[2]] = x}
         /\ IsFiniteSet(ReferencesIn(f, D, x)) /\ ReferencesFrom(f, D, x) \in Nat
<1>1. ASSUME NEW p
      PROVE  p \in ReferencesIn(f, D, x) <=> p \in PlacesOf(f) /\ p[1] \in D /\ f[p[1]][p[2]] = x
  <2>1. p \in ReferencesIn(f, D, x) <=> \E o \in D : p \in {o} \X {i \in DOMAIN f[o] : f[o][i] = x}
    BY DEF ReferencesIn
  <2>2. \A o \in D : DOMAIN f[o] = 1 .. Len(f[o]) /\ Len(f[o]) \in Nat
    BY DEF Heap
  <2>3. ASSUME NEW o \in D, p \in {o} \X {i \in DOMAIN f[o] : f[o][i] = x}
        PROVE  p \in PlacesOf(f) /\ p[1] \in D /\ f[p[1]][p[2]] = x
    BY <2>2, <2>3 DEF PlacesOf
  <2>4. ASSUME p \in PlacesOf(f), p[1] \in D, f[p[1]][p[2]] = x
        PROVE  \E o \in D : p \in {o} \X {i \in DOMAIN f[o] : f[o][i] = x}
    <3>1. p[1] \in Oop /\ p[2] \in Nat \ {0} /\ p[2] <= Len(f[p[1]]) /\ p = <<p[1], p[2]>>
      BY <2>4 DEF PlacesOf
    <3>2. p[2] \in DOMAIN f[p[1]]
      BY <2>2, <2>4, <3>1
    <3> QED  BY <2>4, <3>1, <3>2
  <2> QED  BY <2>1, <2>3, <2>4
<1>2. ReferencesIn(f, D, x) = {p \in PlacesOf(f) : p[1] \in D /\ f[p[1]][p[2]] = x}
  BY <1>1
<1>3. IsFiniteSet(ReferencesIn(f, D, x))
  BY <1>2, PlacesFinite, FS_Subset
<1>4. ReferencesFrom(f, D, x) \in Nat
  BY <1>3, FS_CardinalityType DEF ReferencesFrom
<1> QED  BY <1>2, <1>3, <1>4

LEMMA ReferencesMore ==
  ASSUME NEW f \in Heap, NEW E \in SUBSET Oop, NEW D \in SUBSET E, NEW x
  PROVE  ReferencesFrom(f, D, x) <= ReferencesFrom(f, E, x)
<1>1. ReferencesIn(f, D, x) \subseteq ReferencesIn(f, E, x)
  BY DEF ReferencesIn
<1>2. IsFiniteSet(ReferencesIn(f, E, x))
  BY ReferencesAre
<1> QED  BY <1>1, <1>2, FS_Subset DEF ReferencesFrom

LEMMA ReferencesSplit ==
  ASSUME NEW f \in Heap, NEW D \in SUBSET Oop, NEW x
  PROVE  ReferencesFrom(f, Oop, x) = ReferencesFrom(f, D, x) + ReferencesFrom(f, Oop \ D, x)
<1>1. PICK A, B, C : /\ A = ReferencesIn(f, Oop, x)
                     /\ B = ReferencesIn(f, D, x)
                     /\ C = ReferencesIn(f, Oop \ D, x)
  OBVIOUS
<1>2. Oop \in SUBSET Oop /\ Oop \ D \in SUBSET Oop
  OBVIOUS
<1>3. /\ A = {p \in PlacesOf(f) : p[1] \in Oop /\ f[p[1]][p[2]] = x}
      /\ B = {p \in PlacesOf(f) : p[1] \in D /\ f[p[1]][p[2]] = x}
      /\ C = {p \in PlacesOf(f) : p[1] \in Oop \ D /\ f[p[1]][p[2]] = x}
      /\ IsFiniteSet(A) /\ IsFiniteSet(B) /\ IsFiniteSet(C)
  BY <1>1, <1>2, ReferencesAre
<1>4. A = B \union C /\ B \cap C = {}
  BY <1>3
<1>5. /\ Cardinality(A) = Cardinality(B) + Cardinality(C) - Cardinality({})
      /\ Cardinality(B) \in Nat /\ Cardinality(C) \in Nat
  BY <1>3, <1>4, FS_Union, FS_CardinalityType
<1> QED  BY <1>1, <1>5, FS_EmptySet DEF ReferencesFrom

(* What the objects that have gone referred to is referred to by the rest. *)
LEMMA ReferencesLeft ==
  ASSUME NEW f \in Heap, NEW D \in SUBSET Oop, NEW x
  PROVE  /\ FieldsWithout(f, D) \in Heap
         /\ ReferencesFrom(FieldsWithout(f, D), Oop, x) = ReferencesFrom(f, Oop \ D, x)
<1>1. PICK g : g = FieldsWithout(f, D)
  OBVIOUS
<1>2. /\ \A o \in Oop \ D : g[o] = f[o]
      /\ \A o \in D : g[o] = <<>>
  BY <1>1 DEF FieldsWithout
<1>3. g \in Heap
  <2>1. <<>> \in Seq(Oop \union {Immediate})
    OBVIOUS
  <2> QED  BY <1>1, <2>1 DEF FieldsWithout, Heap
<1>4. \A p : p \in ReferencesIn(g, Oop, x) <=> p \in ReferencesIn(f, Oop \ D, x)
  <2> SUFFICES ASSUME NEW p
               PROVE  p \in ReferencesIn(g, Oop, x) <=> p \in ReferencesIn(f, Oop \ D, x)
    OBVIOUS
  <2>1. p \in ReferencesIn(g, Oop, x) <=> \E o \in Oop : p \in {o} \X {i \in DOMAIN g[o] : g[o][i] = x}
    BY DEF ReferencesIn
  <2>2. p \in ReferencesIn(f, Oop \ D, x) <=> \E o \in Oop \ D : p \in {o} \X {i \in DOMAIN f[o] : f[o][i] = x}
    BY DEF ReferencesIn
  <2>3. \A o \in D : p \notin {o} \X {i \in DOMAIN g[o] : g[o][i] = x}
    BY <1>2
  <2> QED  BY <1>2, <2>1, <2>2, <2>3
<1>5. ReferencesIn(g, Oop, x) = ReferencesIn(f, Oop \ D, x)
  BY <1>4
<1> QED  BY <1>1, <1>3, <1>5 DEF ReferencesFrom

-----------------------------------------------------------------------------
(* Of the references to an object, those that have been passed.            *)
LEMMA PassedReferences ==
  ASSUME Typed, NEW x
  PROVE  /\ To(Passed, x) \subseteq ReferencesIn(old, Entered, x)
         /\ To(Passed, x) \subseteq ReferencesIn(old, Oop, x)
         /\ IsFiniteSet(To(Passed, x)) /\ Cardinality(To(Passed, x)) \in Nat
         /\ Entered \in SUBSET Oop /\ old \in Heap
<1>1. Entered \in SUBSET Oop /\ old \in Heap
  <2>1. Done \subseteq Oop
    BY DEF Done
  <2>2. OnPath \subseteq Oop
    BY PathTyped DEF OnPath
  <2> QED  BY <2>1, <2>2 DEF Typed, Entered, Stack
<1>2. /\ ReferencesIn(old, Entered, x) = {p \in PlacesOf(old) : p[1] \in Entered /\ old[p[1]][p[2]] = x}
      /\ IsFiniteSet(ReferencesIn(old, Entered, x))
  <2>1. PICK f, E : f = old /\ E = Entered
    OBVIOUS
  <2>2. f \in Heap /\ E \in SUBSET Oop
    BY <1>1, <2>1
  <2>3. /\ ReferencesIn(f, E, x) = {p \in PlacesOf(f) : p[1] \in E /\ f[p[1]][p[2]] = x}
        /\ IsFiniteSet(ReferencesIn(f, E, x))
    BY <2>2, ReferencesAre
  <2> QED  BY <2>1, <2>3
<1>3. ASSUME NEW p \in To(Passed, x)  PROVE p \in ReferencesIn(old, Entered, x)
  <2>1. p \in PlacesOf(old) /\ HasPassed(p[1], p[2]) /\ old[p[1]][p[2]] = x
    BY DEF To, Passed, Place, PlacesOf
  <2>2. p[1] \in Entered
    BY <2>1, PathTyped DEF HasPassed, Entered, Stack
  <2> QED  BY <1>2, <2>1, <2>2
<1>4. ReferencesIn(old, Entered, x) \subseteq ReferencesIn(old, Oop, x)
  BY <1>1 DEF ReferencesIn
<1> QED  BY <1>1, <1>2, <1>3, <1>4, FS_Subset, FS_CardinalityType

(* A turn of the loop passes one more reference to the next object.        *)
LEMMA OneMorePassed ==
  ASSUME Typed, Trail, HeapKept, index > 0,
         NEW P, P = Passed \union {<<current, index>>}
  PROVE  /\ \A x : x # next => To(P, x) = To(Passed, x)
         /\ To(P, next) \subseteq ReferencesIn(old, Entered, next)
         /\ Cardinality(To(P, next)) = Cardinality(To(Passed, next)) + 1
         /\ Cardinality(To(P, next)) <= ReferencesFrom(old, Entered, next)
         /\ ReferencesFrom(old, Entered, next) <= ReferencesFrom(old, Oop, next)
         /\ ReferencesFrom(old, Entered, next) \in Nat /\ ReferencesFrom(old, Oop, next) \in Nat
<1>1. /\ index \in Nat \ {0} /\ index <= Len(old[current])
      /\ next = old[current][index] /\ ~HasPassed(current, index)
  BY NextPlace
<1>2. PICK p : p = <<current, index>>
  OBVIOUS
<1>3. p[1] = current /\ p[2] = index /\ current \in Oop /\ current \in Entered
  BY <1>2 DEF Typed, Entered, Stack
<1>4. p \notin Passed
  BY <1>1, <1>3 DEF Passed
<1>5. \A x : x # next => To(P, x) = To(Passed, x)
  BY <1>1, <1>2, <1>3 DEF To
<1>6. To(P, next) = To(Passed, next) \union {p} /\ p \notin To(Passed, next)
  BY <1>1, <1>2, <1>3, <1>4 DEF To
<1>7. PICK f, E, x : f = old /\ E = Entered /\ x = next
  OBVIOUS
<1>8. /\ To(Passed, x) \subseteq ReferencesIn(f, E, x)
      /\ IsFiniteSet(To(Passed, x)) /\ Cardinality(To(Passed, x)) \in Nat
      /\ E \in SUBSET Oop /\ f \in Heap
  BY <1>7, PassedReferences
<1>9. /\ ReferencesIn(f, E, x) = {q \in PlacesOf(f) : q[1] \in E /\ f[q[1]][q[2]] = x}
      /\ IsFiniteSet(ReferencesIn(f, E, x)) /\ ReferencesFrom(f, E, x) \in Nat
  BY <1>8, ReferencesAre
<1>10. p \in ReferencesIn(f, E, x)
  <2>1. p \in PlacesOf(f)
    BY <1>1, <1>2, <1>3, <1>7 DEF PlacesOf
  <2> QED  BY <1>1, <1>3, <1>7, <1>9, <2>1
<1>11. To(P, x) \subseteq ReferencesIn(f, E, x)
  BY <1>6, <1>7, <1>8, <1>10
<1>12. Cardinality(To(P, x)) <= ReferencesFrom(f, E, x)
  BY <1>9, <1>11, FS_Subset DEF ReferencesFrom
<1>13. Cardinality(To(P, x)) = Cardinality(To(Passed, x)) + 1
  <2>1. PICK T : T = To(Passed, x)
    OBVIOUS
  <2>2. IsFiniteSet(T) /\ p \notin T
    BY <1>6, <1>7, <1>8, <2>1
  <2>3. Cardinality(T \union {p}) = Cardinality(T) + 1
    BY <2>2, FS_AddElement
  <2> QED  BY <1>6, <1>7, <2>1, <2>3
<1>14. /\ ReferencesFrom(f, E, x) <= ReferencesFrom(f, Oop, x)
       /\ ReferencesFrom(f, Oop, x) \in Nat
  <2>1. Oop \in SUBSET Oop
    OBVIOUS
  <2> QED  BY <1>8, <2>1, ReferencesMore, ReferencesAre
<1> QED  BY <1>5, <1>7, <1>9, <1>11, <1>12, <1>13, <1>14

(* An object is freed too when what is freed has all references to it.     *)
LEMMA FreedHas ==
  ASSUME NEW f \in Heap, NEW n \in [Oop -> Nat], NEW r \in Oop,
         NEW E \in SUBSET FreedWith(f, n, r), NEW x \in Oop,
         n[x] # Sticky, n[x] > 0, ReferencesFrom(f, E, x) >= n[x]
  PROVE  x \in FreedWith(f, n, r)
<1>1. ASSUME NEW D \in SUBSET Oop, r \in D, \A y \in Oop \ D : ~Dies(f, n, D, y)
      PROVE  x \in D
  <2>1. E \subseteq D
    BY <1>1 DEF FreedWith
  <2>2. /\ ReferencesFrom(f, E, x) <= ReferencesFrom(f, D, x)
        /\ ReferencesFrom(f, E, x) \in Nat /\ ReferencesFrom(f, D, x) \in Nat
    BY <2>1, ReferencesMore, ReferencesAre
  <2>3. Dies(f, n, D, x)
    BY <2>2 DEF Dies
  <2> QED  BY <1>1, <2>3
<1> QED  BY <1>1 DEF FreedWith

LEMMA RootIsFreed ==
  ASSUME NEW f, NEW n, NEW r \in Oop  PROVE r \in FreedWith(f, n, r)
BY DEF FreedWith

LEMMA FreedIsLeast ==
  ASSUME NEW f, NEW n, NEW r, NEW D \in SUBSET Oop, r \in D,
         \A y \in Oop \ D : ~Dies(f, n, D, y)
  PROVE  FreedWith(f, n, r) \subseteq D
BY DEF FreedWith

(***************************************************************************)
(* What counting down meets: an object it has not entered yet, whose count *)
(* has room for the reference, or sticks.  For if it had been entered, all *)
(* the references to it would have been passed.                            *)
(***************************************************************************)
LEMMA NextIsCounted ==
  ASSUME Traversing, mode = "free", index > 0, next # Immediate
  PROVE  /\ next \in Oop \ Entered /\ old[next] # <<>> /\ count[next] > 0
         /\ counts[next] # Sticky =>
              /\ counts[next] < Sticky
              /\ count[next] = counts[next] - Cardinality(To(Passed, next))
<1>1. Typed /\ Trail /\ HeapKept /\ CountingDown
  BY DEF Traversing
<1>2. next \in Oop /\ root \in Oop /\ counts \in [Oop -> Nat] /\ count \in [Oop -> Nat]
  BY <1>1, NextPlace DEF Typed
<1>3. /\ ReferencesFrom(old, Oop, next) \in Nat
      /\ Cardinality(To(Passed, next)) + 1 <= ReferencesFrom(old, Oop, next)
      /\ Cardinality(To(Passed, next)) \in Nat
  <2>1. PICK P : P = Passed \union {<<current, index>>}
    OBVIOUS
  <2>2. Cardinality(To(Passed, next)) \in Nat
    BY <1>1, PassedReferences
  <2> QED  BY <1>1, <2>1, <2>2, OneMorePassed
<1>4. /\ \/ counts[next] = Sticky
         \/ counts[next] = Counted(old, held \union {root}, next) /\ counts[next] < Sticky
      /\ old[next] = <<>> => counts[next] = 0
  BY <1>1, <1>2 DEF CountingDown, Exact
<1>5. counts[next] # Sticky =>
        counts[next] = ReferencesFrom(old, Oop, next) + (IF next \in held \union {root} THEN 1 ELSE 0)
  BY <1>4 DEF Counted
<1>6. next # root
  BY <1>1, <1>3, <1>5, StickyAssumption DEF CountingDown
<1>7. next \notin Entered
  BY <1>1, <1>3, <1>5, <1>6 DEF CountingDown
<1>8. counts[next] > 0 /\ old[next] # <<>>
  BY <1>2, <1>3, <1>4, <1>5, StickyAssumption
<1>9. IF counts[next] = Sticky THEN count[next] = Sticky
      ELSE /\ count[next] = counts[next] - Cardinality(To(Passed, next))
           /\ counts[next] > 0 => count[next] > 0
  BY <1>1, <1>2, <1>7 DEF CountingDown
<1> QED  BY <1>2, <1>4, <1>7, <1>8, <1>9, StickyAssumption

-----------------------------------------------------------------------------
(***************************************************************************)
(* Counting down, one turn of the loop after the other.                    *)
(***************************************************************************)
LEMMA CountDownPasses ==
  ASSUME Traversing, mode = "free", PassPointer
  PROVE  Traversing'
<1>1. Typed /\ Trail /\ HeapKept /\ CountingDown /\ index > 0
  BY DEF Traversing, PassPointer
<1>2. next # Immediate => next \notin Entered
  BY NextIsCounted DEF PassPointer
<1>3. /\ Typed' /\ Trail' /\ HeapKept'
      /\ Stack' = Stack /\ Done' = Done
      /\ Passed' = Passed \union {<<current, index>>}
  BY <1>1, <1>2, PassTrail DEF Entered
<1>4. /\ old' = old /\ counts' = counts /\ root' = root
      /\ UNCHANGED <<mode, held>>
  BY DEF PassPointer, old, counts, root
<1>5. Entered' = Entered
  BY <1>3 DEF Entered
<1>6. PICK P : P = Passed \union {<<current, index>>}
  OBVIOUS
<1>7. \A x : To(Passed, x)' = To(P, x)
  BY <1>3, <1>4, <1>6 DEF To
<1>8. /\ \A x : x # next => To(P, x) = To(Passed, x)
      /\ Cardinality(To(P, next)) = Cardinality(To(Passed, next)) + 1
      /\ Cardinality(To(Passed, next)) \in Nat
  <2>1. Cardinality(To(Passed, next)) \in Nat
    BY <1>1, PassedReferences
  <2> QED  BY <1>1, <1>6, <2>1, OneMorePassed
<1>9. next # Immediate =>
        /\ next \in Oop \ Entered /\ count[next] > 1
        /\ count' = [count EXCEPT ![next] = oneLess(count[next])]
        /\ counts[next] # Sticky =>
             /\ counts[next] < Sticky
             /\ count[next] = counts[next] - Cardinality(To(Passed, next))
  <2> SUFFICES ASSUME next # Immediate
               PROVE  /\ next \in Oop \ Entered /\ count[next] > 1
                      /\ count' = [count EXCEPT ![next] = oneLess(count[next])]
                      /\ counts[next] # Sticky =>
                           /\ counts[next] < Sticky
                           /\ count[next] = counts[next] - Cardinality(To(Passed, next))
    OBVIOUS
  <2>1. /\ next \in Oop \ Entered /\ count[next] > 0
        /\ counts[next] # Sticky =>
             /\ counts[next] < Sticky
             /\ count[next] = counts[next] - Cardinality(To(Passed, next))
    BY <1>1, NextIsCounted
  <2>2. count[next] # 1
    BY DEF PassPointer, predicate
  <2>3. count' = [count EXCEPT ![next] = oneLess(count[next])]
    BY DEF PassPointer, afterPredicate
  <2>4. count[next] \in Nat
    BY <1>1, <2>1 DEF Typed
  <2> QED  BY <2>1, <2>2, <2>3, <2>4
<1>10. next = Immediate => count' = count
  BY DEF PassPointer
<1>11. ASSUME NEW x \in Oop \ Entered
       PROVE  IF counts[x] = Sticky THEN count'[x] = Sticky
              ELSE /\ count'[x] = counts[x] - Cardinality(To(P, x))
                   /\ counts[x] > 0 => count'[x] > 0
  <2>1. /\ counts[x] = Sticky => count[x] = Sticky
        /\ counts[x] # Sticky => /\ count[x] = counts[x] - Cardinality(To(Passed, x))
                                 /\ counts[x] > 0 => count[x] > 0
    BY <1>1 DEF CountingDown
  <2>2. count[x] \in Nat /\ counts[x] \in Nat /\ count \in [Oop -> Nat]
    BY <1>1 DEF Typed
  <2>3. CASE x # next
    <3>1. count'[x] = count[x]
      BY <1>9, <1>10, <2>2, <2>3
    <3> QED  BY <1>8, <2>1, <2>3, <3>1
  <2>4. CASE x = next
    <3>1. count'[x] = oneLess(count[x]) /\ count[x] > 1
      <4>1. next # Immediate
        BY <2>4, OopAssumption
      <4> QED  BY <1>9, <2>2, <2>4, <4>1
    <3>2. CASE counts[x] = Sticky
      BY <2>1, <3>1, <3>2, StickyAssumption DEF oneLess
    <3>3. CASE counts[x] # Sticky
      <4>1. /\ counts[x] < Sticky /\ Cardinality(To(Passed, x)) \in Nat
            /\ Cardinality(To(P, x)) = Cardinality(To(Passed, x)) + 1
        BY <1>8, <1>9, <2>4, <3>3, OopAssumption
      <4>2. count[x] = counts[x] - Cardinality(To(Passed, x))
        BY <2>1, <3>3
      <4>3. oneLess(count[x]) = count[x] - 1
        BY <2>2, <4>1, <4>2, StickyAssumption DEF oneLess
      <4> QED  BY <2>2, <3>1, <3>3, <4>1, <4>2, <4>3
    <3> QED  BY <3>2, <3>3
  <2> QED  BY <2>3, <2>4
<1>12. \A x \in Entered : x # next
  <2>1. Entered \in SUBSET Oop
    BY <1>1, PassedReferences
  <2> QED  BY <1>2, <2>1, OopAssumption
<1>13. \A x \in Entered \ {root} : counts[x] # Sticky /\ counts[x] = Cardinality(To(P, x))
  BY <1>1, <1>8, <1>12 DEF CountingDown
<1>14. \A x \in Done : count'[x] = 0
  <2> SUFFICES ASSUME NEW x \in Done  PROVE count'[x] = 0
    OBVIOUS
  <2>1. x \in Oop /\ x \in Entered /\ x # next
    BY <1>12 DEF Done, Entered
  <2>2. count[x] = 0 /\ count \in [Oop -> Nat]
    BY <1>1 DEF CountingDown, Typed
  <2> QED  BY <1>9, <1>10, <2>1, <2>2
<1>15. CountingDown'
  <2>1. \A x \in Oop \ Entered' :
          IF counts'[x] = Sticky THEN count'[x] = Sticky
          ELSE /\ count'[x] = counts'[x] - Cardinality(To(Passed, x)')
               /\ counts'[x] > 0 => count'[x] > 0
    BY <1>4, <1>5, <1>7, <1>11
  <2>2. \A x \in Entered' \ {root'} :
          counts'[x] # Sticky /\ counts'[x] = Cardinality(To(Passed, x)')
    BY <1>4, <1>5, <1>7, <1>13
  <2>3. Exact(old', counts', held' \union {root'}) /\ counts'[root'] = 1 /\ root' \notin held'
    BY <1>1, <1>4 DEF CountingDown
  <2>4. \A o \in Stack' : old'[o] # <<>>
    BY <1>1, <1>3, <1>4 DEF CountingDown
  <2>5. Entered' \subseteq FreedWith(old', counts', root')
    BY <1>1, <1>4, <1>5 DEF CountingDown
  <2>6. \A x \in Done' : count'[x] = 0
    BY <1>3, <1>14
  <2> QED  BY <2>1, <2>2, <2>3, <2>4, <2>5, <2>6 DEF CountingDown
<1> QED  BY <1>3, <1>4, <1>15 DEF Traversing

LEMMA CountDownFollows ==
  ASSUME Traversing, mode = "free", FollowPointer
  PROVE  Traversing'
<1>1. Typed /\ Trail /\ HeapKept /\ CountingDown /\ index > 0 /\ next # Immediate
  BY DEF Traversing, FollowPointer
<1>2. /\ next \in Oop \ Entered /\ old[next] # <<>>
      /\ counts[next] # Sticky => count[next] = counts[next] - Cardinality(To(Passed, next))
  BY <1>1, NextIsCounted
<1>3. /\ Typed' /\ Trail' /\ HeapKept'
      /\ Stack' = Stack \union {next} /\ Done' = Done
      /\ Passed' = Passed \union {<<current, index>>}
  BY <1>1, <1>2, FollowTrail
<1>4. /\ old' = old /\ counts' = counts /\ root' = root
      /\ UNCHANGED <<mode, held>>
  BY DEF FollowPointer, old, counts, root
<1>5. Entered' = Entered \union {next}
  BY <1>3 DEF Entered
<1>6. PICK P : P = Passed \union {<<current, index>>}
  OBVIOUS
<1>7. \A x : To(Passed, x)' = To(P, x)
  BY <1>3, <1>4, <1>6 DEF To
<1>8. /\ \A x : x # next => To(P, x) = To(Passed, x)
      /\ Cardinality(To(P, next)) = Cardinality(To(Passed, next)) + 1
      /\ Cardinality(To(P, next)) <= ReferencesFrom(old, Entered, next)
      /\ ReferencesFrom(old, Entered, next) \in Nat
      /\ Cardinality(To(Passed, next)) \in Nat
  <2>1. Cardinality(To(Passed, next)) \in Nat
    BY <1>1, PassedReferences
  <2> QED  BY <1>1, <1>6, <2>1, OneMorePassed
<1>9. count[next] = 1
  BY DEF FollowPointer, predicate
<1>10. counts[next] # Sticky /\ counts[next] = Cardinality(To(P, next)) /\ counts[next] \in Nat
  <2>1. counts[next] # Sticky
    BY <1>1, <1>2, <1>9, StickyAssumption DEF CountingDown
  <2>2. counts[next] \in Nat
    BY <1>1, <1>2 DEF Typed
  <2> QED  BY <1>2, <1>8, <1>9, <2>1, <2>2
<1>11. \A x \in Oop : x \notin Stack' => count'[x] = count[x]
  <2>1. current \in Stack /\ current \in Oop
    BY <1>1 DEF Stack, Typed
  <2>2. PICK n : n = afterPredicate(next)
    OBVIOUS
  <2>3. n = [count EXCEPT ![next] = oneLess(count[next])]
    BY <2>2 DEF afterPredicate
  <2>4. count' = n \/ count' = [n EXCEPT ![current] = index]
    BY <2>2 DEF FollowPointer, saveOffset
  <2>5. count \in [Oop -> Nat]
    BY <1>1 DEF Typed
  <2> QED  BY <1>3, <2>1, <2>3, <2>4, <2>5
<1>12. \A x \in Oop \ Entered' :
         IF counts[x] = Sticky THEN count'[x] = Sticky
         ELSE /\ count'[x] = counts[x] - Cardinality(To(P, x))
              /\ counts[x] > 0 => count'[x] > 0
  <2> SUFFICES ASSUME NEW x \in Oop \ Entered'
               PROVE  IF counts[x] = Sticky THEN count'[x] = Sticky
                      ELSE /\ count'[x] = counts[x] - Cardinality(To(P, x))
                           /\ counts[x] > 0 => count'[x] > 0
    OBVIOUS
  <2>1. x \in Oop \ Entered /\ x # next /\ x \notin Stack'
    BY <1>5 DEF Entered
  <2>2. count'[x] = count[x] /\ To(P, x) = To(Passed, x)
    BY <1>8, <1>11, <2>1
  <2> QED  BY <1>1, <2>1, <2>2 DEF CountingDown
<1>13. \A x \in Entered' \ {root} : counts[x] # Sticky /\ counts[x] = Cardinality(To(P, x))
  <2> SUFFICES ASSUME NEW x \in Entered' \ {root}
               PROVE  counts[x] # Sticky /\ counts[x] = Cardinality(To(P, x))
    OBVIOUS
  <2>1. CASE x = next
    BY <1>10, <2>1
  <2>2. CASE x # next
    BY <1>1, <1>5, <1>8, <2>2 DEF CountingDown
  <2> QED  BY <2>1, <2>2
<1>14. \A x \in Done : count'[x] = 0
  <2> SUFFICES ASSUME NEW x \in Done  PROVE count'[x] = 0
    OBVIOUS
  <2>1. x \in Oop /\ x \notin Stack'
    BY <1>3 DEF Done, HeapKept
  <2> QED  BY <1>1, <1>11, <2>1 DEF CountingDown
<1>15. next \in FreedWith(old, counts, root)
  <2>1. PICK f, n, r, E, x : f = old /\ n = counts /\ r = root /\ E = Entered /\ x = next
    OBVIOUS
  <2>2. /\ f \in Heap /\ n \in [Oop -> Nat] /\ r \in Oop /\ x \in Oop
        /\ E \in SUBSET FreedWith(f, n, r)
    BY <1>1, <1>2, <2>1 DEF Typed, CountingDown
  <2>3. n[x] # Sticky /\ n[x] > 0 /\ ReferencesFrom(f, E, x) >= n[x]
    BY <1>8, <1>10, <2>1
  <2> QED  BY <2>1, <2>2, <2>3, FreedHas
<1>16. CountingDown'
  <2>1. \A x \in Oop \ Entered' :
          IF counts'[x] = Sticky THEN count'[x] = Sticky
          ELSE /\ count'[x] = counts'[x] - Cardinality(To(Passed, x)')
               /\ counts'[x] > 0 => count'[x] > 0
    BY <1>4, <1>7, <1>12
  <2>2. \A x \in Entered' \ {root'} :
          counts'[x] # Sticky /\ counts'[x] = Cardinality(To(Passed, x)')
    BY <1>4, <1>7, <1>13
  <2>3. Exact(old', counts', held' \union {root'}) /\ counts'[root'] = 1 /\ root' \notin held'
    BY <1>1, <1>4 DEF CountingDown
  <2>4. \A o \in Stack' : old'[o] # <<>>
    BY <1>1, <1>2, <1>3, <1>4 DEF CountingDown
  <2>5. Entered' \subseteq FreedWith(old', counts', root')
    BY <1>1, <1>4, <1>5, <1>15 DEF CountingDown
  <2>6. \A x \in Done' : count'[x] = 0
    BY <1>3, <1>14
  <2> QED  BY <2>1, <2>2, <2>3, <2>4, <2>5, <2>6 DEF CountingDown
<1> QED  BY <1>3, <1>4, <1>16 DEF Traversing

LEMMA CountDownGoesBack ==
  ASSUME Traversing, mode = "free", GoBack, path # <<>>
  PROVE  Traversing'
<1>1. Typed /\ Trail /\ HeapKept /\ CountingDown
  BY DEF Traversing
<1>2. current \in Stack /\ old[current] # <<>> /\ current \in Oop
  BY <1>1 DEF Stack, CountingDown, Typed
<1>3. /\ Typed' /\ Trail' /\ HeapKept'
      /\ Done' = Done \union {current} /\ Entered' = Entered
      /\ Stack' = Stack \ {current}
      /\ Passed' = Passed
  BY <1>1, <1>2, BackTrail
<1>4. /\ old' = old /\ counts' = counts /\ root' = root
      /\ UNCHANGED <<mode, held>>
  BY DEF GoBack, old, counts, root
<1>5. \A x : To(Passed, x)' = To(Passed, x)
  BY <1>3, <1>4 DEF To
<1>6. count' = [count EXCEPT ![current] = 0] /\ count \in [Oop -> Nat]
  BY <1>1 DEF GoBack, countAfterAction, Typed
<1>7. \A x \in Oop \ Entered : count'[x] = count[x]
  BY <1>2, <1>6 DEF Entered
<1>8. \A x \in Done' : count'[x] = 0
  BY <1>1, <1>2, <1>3, <1>6 DEF CountingDown, Done
<1>9. CountingDown'
  <2>1. \A x \in Oop \ Entered' :
          IF counts'[x] = Sticky THEN count'[x] = Sticky
          ELSE /\ count'[x] = counts'[x] - Cardinality(To(Passed, x)')
               /\ counts'[x] > 0 => count'[x] > 0
    BY <1>1, <1>3, <1>4, <1>5, <1>7 DEF CountingDown
  <2>2. \A x \in Entered' \ {root'} :
          counts'[x] # Sticky /\ counts'[x] = Cardinality(To(Passed, x)')
    BY <1>1, <1>3, <1>4, <1>5 DEF CountingDown
  <2>3. Exact(old', counts', held' \union {root'}) /\ counts'[root'] = 1 /\ root' \notin held'
    BY <1>1, <1>4 DEF CountingDown
  <2>4. \A o \in Stack' : old'[o] # <<>>
    BY <1>1, <1>3, <1>4 DEF CountingDown
  <2>5. Entered' \subseteq FreedWith(old', counts', root')
    BY <1>1, <1>3, <1>4 DEF CountingDown
  <2> QED  BY <1>8, <2>1, <2>2, <2>3, <2>4, <2>5 DEF CountingDown
<1> QED  BY <1>3, <1>4, <1>9 DEF Traversing

-----------------------------------------------------------------------------
(***************************************************************************)
(* When the root is left every place of what has been entered has been     *)
(* passed, and no pointer leads back any more.                             *)
(***************************************************************************)
LEMMA SameSequence ==
  ASSUME NEW S, NEW T, NEW s \in Seq(S), NEW t \in Seq(T), Len(s) = Len(t),
         \A i \in 1 .. Len(t) : s[i] = t[i]
  PROVE  s = t
OBVIOUS

LEMMA EndTrail ==
  ASSUME Typed, Trail, HeapKept, GoBack, path = <<>>
  PROVE  /\ offset' = 0 /\ prior' = NonPointer /\ current' = NonPointer /\ path' = <<>>
         /\ UNCHANGED <<mode, extraWord, held, before>>
         /\ root = current /\ current \in Oop /\ Entered = Done \union {current}
         /\ \A o \in Oop \ Freed : field[o] = old[o]
         /\ \A x : To(Passed, x) = ReferencesIn(old, Entered, x)
         /\ field' = afterAction(field)
         /\ count' = [count EXCEPT ![current] = countAfterAction]
<1>1. prior = NonPointer /\ root = current
  BY DEF Trail
<1>2. /\ offset' = 0 /\ prior' = NonPointer /\ current' = NonPointer /\ path' = <<>>
      /\ UNCHANGED <<mode, extraWord, held, before>>
      /\ field' = afterAction(field)
      /\ count' = [count EXCEPT ![current] = countAfterAction]
      /\ offset - 1 = 0
  BY <1>1 DEF GoBack, index
<1>3. DOMAIN path = {}
  OBVIOUS
<1>4. Entered = Done \union {current}
  BY <1>3 DEF Entered, Stack, OnPath
<1>5. ASSUME NEW o \in Oop \ Freed  PROVE field[o] = old[o]
  <2>1. Len(field[o]) = Len(old[o]) /\ \A i \in 1 .. Len(old[o]) : field[o][i] = old[o][i]
    BY <1>3, <1>5 DEF HeapKept
  <2>2. /\ field[o] \in Seq(Oop \union {Immediate, NonPointer})
        /\ old[o] \in Seq(Oop \union {Immediate})
    BY DEF Typed, Heap
  <2> QED  BY <2>1, <2>2, SameSequence
<1>6. ASSUME NEW x  PROVE To(Passed, x) = ReferencesIn(old, Entered, x)
  <2>1. ReferencesIn(old, Entered, x) = {p \in PlacesOf(old) : p[1] \in Entered /\ old[p[1]][p[2]] = x}
    <3>1. PICK f, E : f = old /\ E = Entered
      OBVIOUS
    <3>2. f \in Heap /\ E \in SUBSET Oop
      BY <3>1, PassedReferences
    <3> QED  BY <3>1, <3>2, ReferencesAre
  <2>2. ASSUME NEW p \in PlacesOf(old)  PROVE p \in Passed <=> p[1] \in Entered
    <3>1. p[1] \in Oop /\ p[2] \in Nat \ {0}
      BY DEF PlacesOf
    <3>2. p[2] >= offset
      BY <1>2, <3>1 DEF Typed
    <3>3. HasPassed(p[1], p[2]) <=> p[1] \in Done \/ p[1] = current
      BY <1>3, <3>2 DEF HasPassed
    <3>4. p \in Place
      BY DEF Place, PlacesOf
    <3> QED  BY <1>4, <3>3, <3>4 DEF Passed
  <2>3. Passed \subseteq PlacesOf(old)
    BY DEF Passed, Place, PlacesOf
  <2> QED  BY <2>1, <2>2, <2>3 DEF To
<1>7. current \in Oop
  BY DEF Typed
<1> QED  BY <1>1, <1>2, <1>4, <1>5, <1>6, <1>7

(* What is freed in the end is what has been entered.                      *)
LEMMA EnteredAreFreed ==
  ASSUME Traversing, mode = "free", GoBack, path = <<>>
  PROVE  /\ FreedWith(old, counts, root) = Entered
         /\ \A x \in Oop \ Entered :
              IF counts[x] = Sticky THEN count[x] = Sticky
              ELSE /\ count[x] = counts[x] - ReferencesFrom(old, Entered, x)
                   /\ counts[x] > 0 => count[x] > 0
         /\ \A x \in Entered \ {root} :
              counts[x] # Sticky /\ counts[x] = ReferencesFrom(old, Entered, x)
<1>1. Typed /\ Trail /\ HeapKept /\ CountingDown
  BY DEF Traversing
<1>2. \A x : Cardinality(To(Passed, x)) = ReferencesFrom(old, Entered, x)
  BY <1>1, EndTrail DEF ReferencesFrom
<1>3. /\ \A x \in Oop \ Entered :
           IF counts[x] = Sticky THEN count[x] = Sticky
           ELSE /\ count[x] = counts[x] - ReferencesFrom(old, Entered, x)
                /\ counts[x] > 0 => count[x] > 0
      /\ \A x \in Entered \ {root} :
           counts[x] # Sticky /\ counts[x] = ReferencesFrom(old, Entered, x)
  BY <1>1, <1>2 DEF CountingDown
<1>4. \A y \in Oop \ Entered : ~Dies(old, counts, Entered, y)
  <2> SUFFICES ASSUME NEW y \in Oop \ Entered, Dies(old, counts, Entered, y)  PROVE FALSE
    OBVIOUS
  <2>1. counts[y] # Sticky /\ counts[y] > 0 /\ ReferencesFrom(old, Entered, y) >= counts[y]
    BY DEF Dies
  <2>2. count[y] = counts[y] - ReferencesFrom(old, Entered, y) /\ count[y] > 0
    BY <1>3, <2>1
  <2>3. counts[y] \in Nat /\ ReferencesFrom(old, Entered, y) \in Nat
    <3>1. Cardinality(To(Passed, y)) \in Nat
      BY <1>1, PassedReferences
    <3> QED  BY <1>1, <1>2, <3>1 DEF Typed
  <2> QED  BY <2>1, <2>2, <2>3
<1>5. Entered \in SUBSET Oop /\ root \in Entered
  BY <1>1, EndTrail, PassedReferences
<1>6. FreedWith(old, counts, root) \subseteq Entered
  <2>1. PICK f, n, r, D : f = old /\ n = counts /\ r = root /\ D = Entered
    OBVIOUS
  <2>2. D \in SUBSET Oop /\ r \in D /\ \A y \in Oop \ D : ~Dies(f, n, D, y)
    BY <1>4, <1>5, <2>1
  <2>3. FreedWith(f, n, r) \subseteq D
    BY <2>2, FreedIsLeast
  <2> QED  BY <2>1, <2>3
<1>7. Entered \subseteq FreedWith(old, counts, root)
  BY <1>1 DEF CountingDown
<1> QED  BY <1>3, <1>6, <1>7

(* The counts are right again, for the references that are left.           *)
LEMMA ExactLeft ==
  ASSUME NEW f \in Heap, NEW n \in [Oop -> Nat], NEW h \in SUBSET Oop,
         NEW r \in Oop \ h, n[r] = 1, Exact(f, n, h \union {r}),
         NEW E \in SUBSET Oop, r \in E,
         NEW m \in [Oop -> Nat],
         \A x \in E : m[x] = 0,
         \A x \in Oop \ E : m[x] = IF n[x] = Sticky THEN Sticky
                                   ELSE n[x] - ReferencesFrom(f, E, x),
         \A x \in E \ {r} : n[x] # Sticky /\ n[x] = ReferencesFrom(f, E, x)
  PROVE  Exact(FieldsWithout(f, E), m, h)
<1>1. PICK g : g = FieldsWithout(f, E)
  OBVIOUS
<1>2. ASSUME NEW x \in Oop
      PROVE  /\ m[x] = Sticky \/ (m[x] = Counted(g, h, x) /\ m[x] < Sticky)
             /\ g[x] = <<>> => m[x] = 0
  <2>1. PICK all, gone, left :
          /\ all = ReferencesFrom(f, Oop, x)
          /\ gone = ReferencesFrom(f, E, x)
          /\ left = ReferencesFrom(f, Oop \ E, x)
    OBVIOUS
  <2>2. all \in Nat /\ gone \in Nat /\ left \in Nat /\ all = gone + left
    <3>1. Oop \in SUBSET Oop /\ Oop \ E \in SUBSET Oop
      OBVIOUS
    <3>2. all \in Nat /\ gone \in Nat /\ left \in Nat
      BY <2>1, <3>1, ReferencesAre
    <3>3. all = gone + left
      BY <2>1, ReferencesSplit
    <3> QED  BY <3>2, <3>3
  <2>3. Counted(g, h, x) = left + (IF x \in h THEN 1 ELSE 0)
    BY <1>1, <2>1, ReferencesLeft DEF Counted
  <2>4. n[x] # Sticky => n[x] = all + (IF x \in h \union {r} THEN 1 ELSE 0) /\ n[x] < Sticky
    BY <2>1 DEF Exact, Counted
  <2>5. f[x] = <<>> => n[x] = 0
    BY DEF Exact
  <2>6. n[x] \in Nat /\ m[x] \in Nat
    OBVIOUS
  <2>7. CASE x \in E
    <3>1. m[x] = 0
      BY <2>7
    <3>2. left = 0 /\ x \notin h
      <4>1. CASE x = r
        BY <2>2, <2>4, <4>1, StickyAssumption
      <4>2. CASE x # r
        <5>1. n[x] # Sticky /\ n[x] = gone
          BY <2>1, <2>7, <4>2
        <5> QED  BY <2>2, <2>4, <4>2, <5>1
      <4> QED  BY <4>1, <4>2
    <3> QED  BY <2>3, <3>1, <3>2, StickyAssumption
  <2>8. CASE x \notin E
    <3>1. x # r /\ g[x] = f[x]
      BY <1>1, <2>8 DEF FieldsWithout
    <3>2. CASE n[x] = Sticky
      <4>1. m[x] = Sticky
        BY <2>8, <3>2
      <4>2. f[x] # <<>>
        BY <2>5, <3>2, StickyAssumption
      <4> QED  BY <3>1, <4>1, <4>2
    <3>3. CASE n[x] # Sticky
      <4>1. m[x] = n[x] - gone
        BY <2>1, <2>8, <3>3
      <4>2. n[x] = all + (IF x \in h THEN 1 ELSE 0) /\ n[x] < Sticky
        BY <2>4, <3>1, <3>3
      <4>3. m[x] = Counted(g, h, x) /\ m[x] < Sticky
        BY <2>2, <2>3, <4>1, <4>2, StickyAssumption
      <4>4. g[x] = <<>> => m[x] = 0
        BY <2>2, <2>5, <2>6, <3>1, <4>1
      <4> QED  BY <4>3, <4>4
    <3> QED  BY <3>2, <3>3
  <2> QED  BY <2>7, <2>8
<1> QED  BY <1>1, <1>2 DEF Exact

LEMMA CountDownEnds ==
  ASSUME Traversing, mode = "free", GoBack, path = <<>>
  PROVE  IInv'
<1>1. Typed /\ Trail /\ HeapKept /\ CountingDown
  BY DEF Traversing
<1>2. /\ offset' = 0 /\ prior' = NonPointer /\ current' = NonPointer /\ path' = <<>>
      /\ UNCHANGED <<mode, extraWord, held, before>>
      /\ root = current /\ current \in Oop /\ Entered = Done \union {current}
      /\ \A o \in Oop \ Freed : field[o] = old[o]
      /\ field' = afterAction(field)
      /\ count' = [count EXCEPT ![current] = countAfterAction]
  BY <1>1, EndTrail
<1>3. /\ FreedWith(old, counts, root) = Entered
      /\ \A x \in Oop \ Entered :
           IF counts[x] = Sticky THEN count[x] = Sticky
           ELSE /\ count[x] = counts[x] - ReferencesFrom(old, Entered, x)
                /\ counts[x] > 0 => count[x] > 0
      /\ \A x \in Entered \ {root} :
           counts[x] # Sticky /\ counts[x] = ReferencesFrom(old, Entered, x)
  BY EnteredAreFreed
<1>4. PICK f, n, h, r, E, m, g : /\ f = old /\ n = counts /\ h = held /\ r = root
                                 /\ E = Entered /\ m = count' /\ g = field'
  OBVIOUS
<1>5. /\ f \in Heap /\ n \in [Oop -> Nat] /\ h \in SUBSET Oop /\ r \in Oop \ h
      /\ n[r] = 1 /\ Exact(f, n, h \union {r}) /\ r \in E
  BY <1>1, <1>2, <1>4 DEF Typed, CountingDown
<1>6. E \in SUBSET Oop
  BY <1>1, <1>4, PassedReferences
<1>7. m \in [Oop -> Nat] /\ \A x \in Oop : m[x] = IF x = r THEN 0 ELSE count[x]
  BY <1>1, <1>2, <1>4 DEF Typed, countAfterAction
<1>8. \A x \in E : m[x] = 0
  BY <1>1, <1>2, <1>4, <1>6, <1>7 DEF CountingDown
<1>9. \A x \in Oop \ E : m[x] = IF n[x] = Sticky THEN Sticky
                                ELSE n[x] - ReferencesFrom(f, E, x)
  BY <1>3, <1>4, <1>5, <1>7
<1>10. \A x \in E \ {r} : n[x] # Sticky /\ n[x] = ReferencesFrom(f, E, x)
  BY <1>3, <1>4
<1>11. g = FieldsWithout(f, E)
  <2>1. g = [field EXCEPT ![current] = <<>>]
    BY <1>2, <1>4 DEF afterAction
  <2>2. field \in [Oop -> Seq(Oop \union {Immediate, NonPointer})]
    BY <1>1 DEF Typed
  <2>3. \A x \in Done : field[x] = <<>>
    BY DEF Done
  <2>4. \A x \in Oop : g[x] = IF x \in E THEN <<>> ELSE f[x]
    BY <1>2, <1>4, <2>1, <2>2, <2>3 DEF Freed
  <2>5. g = [x \in Oop |-> g[x]]
    BY <2>1, <2>2
  <2> QED  BY <2>4, <2>5 DEF FieldsWithout
<1>12. Exact(g, m, h) /\ g \in Heap
  <2>1. FieldsWithout(f, E) \in Heap
    BY <1>5, <1>6, ReferencesLeft
  <2>2. m \in [Oop -> Nat]
    BY <1>7
  <2>3. Exact(FieldsWithout(f, E), m, h)
    BY <1>5, <1>6, <1>8, <1>9, <1>10, <2>2, ExactLeft
  <2> QED  BY <1>11, <2>1, <2>3
<1>13. m = CountsWithout(f, n, E)
  <2>1. \A x \in Oop : m[x] = IF x \in E THEN 0
                              ELSE IF n[x] = Sticky THEN Sticky
                              ELSE n[x] - ReferencesFrom(f, E, x)
    BY <1>8, <1>9
  <2>2. m = [x \in Oop |-> m[x]]
    BY <1>7
  <2> QED  BY <2>1, <2>2 DEF CountsWithout
<1>14. CountDownFreesExactly'
  <2>1. /\ before'.count[before'.root] = 1
        /\ FreedWith(before'.field, before'.count, before'.root) = E
        /\ E # {}
    BY <1>2, <1>3, <1>4, <1>5 DEF old, counts, root
  <2>2. field' = FieldsWithout(before'.field, E) /\ count' = CountsWithout(before'.field, before'.count, E)
    BY <1>2, <1>4, <1>11, <1>13 DEF old, counts
  <2> QED  BY <2>1, <2>2 DEF CountDownFreesExactly
<1>15. MarksExactlyReached'
  BY <1>2 DEF MarksExactlyReached
<1>16. Between'
  <2>1. /\ field' \in Heap' /\ count' \in [Oop -> Nat] /\ extraWord' \in [Oop -> Nat]
        /\ mode' = "free" /\ held' \subseteq Oop
        /\ Exact(field', count', held')
    BY <1>1, <1>2, <1>4, <1>5, <1>7, <1>12 DEF Typed, Heap
  <2> QED  BY <1>2, <1>14, <1>15, <2>1 DEF Between
<1> QED  BY <1>2, <1>16 DEF IInv, Still

-----------------------------------------------------------------------------
(***************************************************************************)
(* What can be reached is closed, and is in every closed set.              *)
(***************************************************************************)
LEMMA ReachedIsClosed ==
  ASSUME NEW f \in Heap, NEW R \in SUBSET Oop
  PROVE  /\ ReachedFrom(f, R) \subseteq Oop /\ R \subseteq ReachedFrom(f, R)
         /\ Closed(f, ReachedFrom(f, R))
<1>1. ReachedFrom(f, R) \subseteq Oop /\ R \subseteq ReachedFrom(f, R)
  BY DEF ReachedFrom
<1>2. ASSUME NEW o \in ReachedFrom(f, R), NEW x \in PointersOf(f, o)
      PROVE  x \in ReachedFrom(f, R)
  <2>1. x \in Oop
    <3>1. PICK i \in DOMAIN f[o] : x = f[o][i] /\ x # Immediate
      BY DEF PointersOf
    <3>2. f[o] \in Seq(Oop \union {Immediate})
      BY <1>1 DEF Heap
    <3>3. f[o][i] \in Oop \union {Immediate}
      BY <3>1, <3>2
    <3> QED  BY <3>1, <3>3
  <2>2. ASSUME NEW S \in SUBSET Oop, R \subseteq S, \A p \in S : PointersOf(f, p) \subseteq S
        PROVE  x \in S
    <3>1. o \in S
      BY <2>2 DEF ReachedFrom
    <3> QED  BY <2>2, <3>1
  <2> QED  BY <2>1, <2>2 DEF ReachedFrom
<1> QED  BY <1>1, <1>2 DEF Closed

LEMMA ReachedIsLeast ==
  ASSUME NEW f, NEW R, NEW S \in SUBSET Oop, R \subseteq S, Closed(f, S)
  PROVE  ReachedFrom(f, R) \subseteq S
BY DEF ReachedFrom, Closed

(***************************************************************************)
(* Marking, one turn of the loop after the other.                          *)
(***************************************************************************)
LEMMA MarkPasses ==
  ASSUME Traversing, mode = "mark", PassPointer
  PROVE  Traversing'
<1>1. Typed /\ Trail /\ HeapKept /\ Marking /\ index > 0
  BY DEF Traversing, PassPointer
<1>2. /\ Typed' /\ Trail' /\ HeapKept'
      /\ Stack' = Stack /\ Done' = Done
      /\ Passed' = Passed \union {<<current, index>>}
  BY <1>1, PassTrail
<1>3. /\ old' = old /\ counts' = counts /\ root' = root
      /\ UNCHANGED <<mode, held>>
  BY DEF PassPointer, old, counts, root
<1>4. count' = count
  BY DEF PassPointer
<1>5. Entered' = Entered
  BY <1>2 DEF Entered
<1>6. next = old[current][index] /\ next \in Oop \union {Immediate}
  BY <1>1, NextPlace
<1>7. next = Immediate \/ next \in Marked(counts) \union Entered
  <2> SUFFICES ASSUME next # Immediate  PROVE next \in Marked(counts) \union Entered
    OBVIOUS
  <2>1. next \in Oop /\ count[next] # 0
    BY <1>6 DEF PassPointer, predicate
  <2>2. counts[next] \in {0, 1}
    BY <1>1, <2>1 DEF Marking
  <2> QED  BY <2>1, <2>2 DEF Marked, Entered, Done
<1>8. \A p \in Passed' : \/ old[p[1]][p[2]] = Immediate
                         \/ old[p[1]][p[2]] \in Marked(counts) \union Entered
  <2>1. PICK p : p = <<current, index>>
    OBVIOUS
  <2>2. p[1] = current /\ p[2] = index
    BY <2>1
  <2> QED  BY <1>1, <1>2, <1>6, <1>7, <2>1, <2>2 DEF Marking
<1>9. Marking'
  <2>1. Marked(counts)' = Marked(counts)
    BY <1>3 DEF Marked
  <2> QED  BY <1>1, <1>2, <1>3, <1>4, <1>5, <1>8, <2>1 DEF Marking
<1> QED  BY <1>2, <1>3, <1>9 DEF Traversing

LEMMA MarkFollows ==
  ASSUME Traversing, mode = "mark", FollowPointer
  PROVE  Traversing'
<1>1. Typed /\ Trail /\ HeapKept /\ Marking /\ index > 0 /\ next # Immediate
  BY DEF Traversing, FollowPointer
<1>2. count[next] = 0 /\ next \in Oop /\ next = old[current][index]
      /\ index \in Nat \ {0} /\ index <= Len(old[current])
  BY <1>1, NextPlace DEF FollowPointer, predicate
<1>3. next \notin Entered
  BY <1>1, <1>2 DEF Marking, Entered
<1>4. /\ Typed' /\ Trail' /\ HeapKept'
      /\ Stack' = Stack \union {next} /\ Done' = Done
      /\ Passed' = Passed \union {<<current, index>>}
  BY <1>1, <1>3, FollowTrail
<1>5. /\ old' = old /\ counts' = counts /\ root' = root
      /\ UNCHANGED <<mode, held>>
  BY DEF FollowPointer, old, counts, root
<1>6. Entered' = Entered \union {next}
  BY <1>4 DEF Entered
<1>7. counts[next] = 0
  <2>1. counts[next] \in {0, 1}
    BY <1>1, <1>2 DEF Marking
  <2>2. next \notin Marked(counts)
    BY <1>1, <1>2 DEF Marking
  <2> QED  BY <1>2, <2>1, <2>2 DEF Marked
<1>8. current \in Oop /\ current \in Stack /\ current \in Entered
  BY <1>1 DEF Stack, Entered, Typed
<1>9. /\ \A o \in Oop \ {current, next} : count'[o] = count[o]
      /\ count'[next] = 1 /\ count'[current] # 0
  <2>1. PICK n : n = afterPredicate(next)
    OBVIOUS
  <2>2. n = [count EXCEPT ![next] = 1]
    BY <2>1 DEF afterPredicate
  <2>3. count' = n \/ count' = [n EXCEPT ![current] = index]
    BY <2>1 DEF FollowPointer, saveOffset
  <2>4. count \in [Oop -> Nat] /\ current # next
    BY <1>1, <1>3, <1>8 DEF Typed
  <2>5. count[current] # 0
    BY <1>1, <1>8 DEF Marking
  <2> QED  BY <1>2, <1>8, <2>2, <2>3, <2>4, <2>5
<1>10. \A o \in Marked(counts) : count'[o] = 1
  <2> SUFFICES ASSUME NEW o \in Marked(counts)  PROVE count'[o] = 1
    OBVIOUS
  <2>1. o \in Oop /\ counts[o] = 1 /\ count[o] = 1
    BY <1>1 DEF Marking, Marked
  <2>2. counts[current] = 0
    BY <1>1, <1>8 DEF Marking
  <2> QED  BY <1>7, <1>9, <2>1, <2>2
<1>11. \A o \in Stack' : counts[o] = 0 /\ count'[o] # 0
  <2> SUFFICES ASSUME NEW o \in Stack'  PROVE counts[o] = 0 /\ count'[o] # 0
    OBVIOUS
  <2>1. CASE o = next
    BY <1>7, <1>9, <2>1
  <2>2. CASE o # next
    <3>1. o \in Stack /\ o \in Oop
      <4>1. o \in Stack
        BY <1>4, <2>2
      <4>2. Entered \in SUBSET Oop
        BY <1>1, PassedReferences
      <4> QED  BY <4>1, <4>2 DEF Entered
    <3> QED  BY <1>1, <1>9, <2>2, <3>1 DEF Marking
  <2> QED  BY <2>1, <2>2
<1>12. \A o \in Done : count'[o] = 1
  <2> SUFFICES ASSUME NEW o \in Done  PROVE count'[o] = 1
    OBVIOUS
  <2>1. o \in Oop
    BY DEF Done
  <2>2. o # next /\ o # current
    BY <1>1, <1>3, <1>8 DEF Entered, HeapKept
  <2> QED  BY <1>1, <1>9, <2>1, <2>2 DEF Marking
<1>13. next \in ReachedFrom(old, {root})
  <2>1. PICK f, R : f = old /\ R = {root}
    OBVIOUS
  <2>2. f \in Heap /\ R \in SUBSET Oop
    BY <1>1, <2>1 DEF Typed
  <2>3. current \in ReachedFrom(f, R)
    BY <1>1, <1>8, <2>1 DEF Marking
  <2>4. next \in PointersOf(f, current)
    <3>1. index \in DOMAIN f[current]
      BY <1>2, <1>8, <2>2, <2>1 DEF Heap
    <3> QED  BY <1>1, <1>2, <2>1, <3>1 DEF PointersOf
  <2>5. Closed(f, ReachedFrom(f, R))
    BY <2>2, ReachedIsClosed
  <2> QED  BY <2>1, <2>3, <2>4, <2>5 DEF Closed
<1>14. \A p \in Passed' : \/ old[p[1]][p[2]] = Immediate
                          \/ old[p[1]][p[2]] \in Marked(counts) \union Entered'
  <2>1. PICK p : p = <<current, index>>
    OBVIOUS
  <2>2. p[1] = current /\ p[2] = index
    BY <2>1
  <2> QED  BY <1>1, <1>2, <1>4, <1>6, <2>1, <2>2 DEF Marking
<1>15. Marking'
  <2>1. Marked(counts)' = Marked(counts)
    BY <1>5 DEF Marked
  <2>2. Closed(old', Marked(counts)') /\ \A o \in Oop : counts'[o] \in {0, 1}
    BY <1>1, <1>5, <2>1 DEF Marking
  <2>3. Entered' \subseteq ReachedFrom(old', {root'})
    BY <1>1, <1>5, <1>6, <1>13 DEF Marking
  <2> QED  BY <1>4, <1>5, <1>10, <1>11, <1>12, <1>14, <2>1, <2>2, <2>3 DEF Marking
<1> QED  BY <1>4, <1>5, <1>15 DEF Traversing

LEMMA MarkGoesBack ==
  ASSUME Traversing, mode = "mark", GoBack, path # <<>>
  PROVE  Traversing'
<1>1. Typed /\ Trail /\ HeapKept /\ Marking
  BY DEF Traversing
<1>2. current \in Stack /\ current \in Oop /\ counts[current] = 0
  BY <1>1 DEF Stack, Marking, Typed
<1>3. /\ Typed' /\ Trail' /\ HeapKept'
      /\ Done' = Done \union {current} /\ Entered' = Entered
      /\ Stack' = Stack \ {current}
      /\ Passed' = Passed
  BY <1>1, <1>2, BackTrail
<1>4. /\ old' = old /\ counts' = counts /\ root' = root
      /\ UNCHANGED <<mode, held>>
  BY DEF GoBack, old, counts, root
<1>5. count' = [count EXCEPT ![current] = 1] /\ count \in [Oop -> Nat]
  BY <1>1 DEF GoBack, countAfterAction, Typed
<1>6. \A o \in Oop : count'[o] = IF o = current THEN 1 ELSE count[o]
  BY <1>2, <1>5
<1>7. Entered \in SUBSET Oop /\ Marked(counts) \subseteq Oop
  BY <1>1, PassedReferences DEF Marked
<1>8. Marking'
  <2>1. Marked(counts)' = Marked(counts)
    BY <1>4 DEF Marked
  <2>2. \A o \in Marked(counts) : count'[o] = 1
    BY <1>1, <1>6, <1>7 DEF Marking
  <2>3. \A o \in Stack' : counts[o] = 0 /\ count'[o] # 0
    BY <1>1, <1>3, <1>6, <1>7 DEF Marking, Entered
  <2>4. \A o \in Done' : count'[o] = 1
    BY <1>1, <1>2, <1>3, <1>6, <1>7 DEF Marking, Entered
  <2>5. \A p \in Passed' : \/ old[p[1]][p[2]] = Immediate
                           \/ old[p[1]][p[2]] \in Marked(counts) \union Entered
    BY <1>1, <1>3 DEF Marking
  <2>6. Closed(old', Marked(counts)') /\ \A o \in Oop : counts'[o] \in {0, 1}
    BY <1>1, <1>4, <2>1 DEF Marking
  <2>7. Entered' \subseteq ReachedFrom(old', {root'})
    BY <1>1, <1>3, <1>4 DEF Marking
  <2> QED  BY <1>3, <1>4, <2>1, <2>2, <2>3, <2>4, <2>5, <2>6, <2>7 DEF Marking
<1> QED  BY <1>3, <1>4, <1>8 DEF Traversing

LEMMA MarkEnds ==
  ASSUME Traversing, mode = "mark", GoBack, path = <<>>
  PROVE  IInv'
<1>1. Typed /\ Trail /\ HeapKept /\ Marking
  BY DEF Traversing
<1>2. /\ offset' = 0 /\ prior' = NonPointer /\ current' = NonPointer /\ path' = <<>>
      /\ UNCHANGED <<mode, extraWord, held, before>>
      /\ root = current /\ current \in Oop /\ Entered = Done \union {current}
      /\ \A o \in Oop \ Freed : field[o] = old[o]
      /\ \A x : To(Passed, x) = ReferencesIn(old, Entered, x)
      /\ field' = afterAction(field)
      /\ count' = [count EXCEPT ![current] = countAfterAction]
  BY <1>1, EndTrail
<1>3. PICK S : S = Marked(counts) \union Entered
  OBVIOUS
<1>4. Entered \in SUBSET Oop /\ S \in SUBSET Oop /\ old \in Heap
  BY <1>1, <1>3, PassedReferences DEF Marked
<1>5. Closed(old, S)
  <2> SUFFICES ASSUME NEW o \in S, NEW x \in PointersOf(old, o)  PROVE x \in S
    BY DEF Closed
  <2>1. CASE o \in Marked(counts)
    BY <1>1, <1>3, <2>1 DEF Marking, Closed
  <2>2. CASE o \in Entered
    <3>1. PICK i \in DOMAIN old[o] : x = old[o][i] /\ x # Immediate
      BY DEF PointersOf
    <3>2. <<o, i>> \in ReferencesIn(old, Entered, x)
      BY <2>2, <3>1 DEF ReferencesIn
    <3>3. PICK p \in Passed : p = <<o, i>>
      BY <1>2, <3>2 DEF To
    <3>4. old[p[1]][p[2]] = x
      BY <3>1, <3>3
    <3> QED  BY <1>1, <1>3, <3>1, <3>4 DEF Marking
  <2> QED  BY <1>3, <2>1, <2>2
<1>6. ReachedFrom(old, {root}) \subseteq S
  <2>1. {root} \subseteq S
    BY <1>2, <1>3
  <2> QED  BY <1>4, <1>5, <2>1, ReachedIsLeast
<1>7. field' = old
  <2>1. field' = field
    BY <1>2 DEF afterAction
  <2>2. \A o \in Oop : field[o] = old[o]
    BY <1>2 DEF Freed
  <2> QED  BY <1>1, <1>4, <2>1, <2>2 DEF Typed, Heap
<1>8. /\ count' \in [Oop -> Nat]
      /\ \A o \in Oop : count'[o] = IF o = current THEN 1 ELSE count[o]
  BY <1>1, <1>2 DEF Typed, countAfterAction
<1>9. \A o \in Oop : count'[o] = IF o \in S THEN 1 ELSE 0
  <2> SUFFICES ASSUME NEW o \in Oop  PROVE count'[o] = IF o \in S THEN 1 ELSE 0
    OBVIOUS
  <2>1. CASE o \in Marked(counts)
    BY <1>1, <1>3, <1>8, <2>1 DEF Marking
  <2>2. CASE o \in Entered
    BY <1>1, <1>2, <1>3, <1>8, <2>2 DEF Marking
  <2>3. CASE o \notin S
    <3>1. counts[o] = 0
      BY <1>1, <1>3, <2>3 DEF Marking, Marked
    <3>2. o \notin Stack /\ o \notin Done /\ o # current
      BY <1>2, <1>3, <2>3 DEF Entered
    <3>3. count[o] = 0
      BY <3>1, <3>2 DEF Done
    <3> QED  BY <1>8, <2>3, <3>2, <3>3
  <2> QED  BY <1>3, <2>1, <2>2, <2>3
<1>10. \A o \in Oop : o \in S <=> counts[o] = 1 \/ o \in ReachedFrom(old, {root})
  BY <1>1, <1>3, <1>6 DEF Marking, Marked
<1>11. MarksExactlyReached'
  <2>1. /\ before'.field = old /\ before'.count = counts /\ before'.root = root
    BY <1>2 DEF old, counts, root
  <2>2. \A o \in Oop : count'[o] = IF counts[o] = 1 \/ o \in ReachedFrom(old, {root}) THEN 1 ELSE 0
    BY <1>9, <1>10
  <2> QED  BY <1>7, <2>1, <2>2 DEF MarksExactlyReached
<1>12. CountDownFreesExactly'
  BY <1>2 DEF CountDownFreesExactly
<1>13. Between'
  <2>1. S = Marked(count')
    BY <1>4, <1>9 DEF Marked
  <2>2. /\ field' \in Heap' /\ extraWord' \in [Oop -> Nat]
        /\ mode' = "mark" /\ held' \subseteq Oop
    BY <1>1, <1>2, <1>4, <1>7 DEF Typed, Heap
  <2>3. Closed(field', Marked(count'))
    BY <1>5, <1>7, <2>1
  <2>4. \A o \in Oop : count'[o] \in {0, 1}
    BY <1>9
  <2> QED  BY <1>2, <1>8, <1>11, <1>12, <2>2, <2>3, <2>4 DEF Between
<1> QED  BY <1>2, <1>13 DEF IInv, Still

-----------------------------------------------------------------------------
(***************************************************************************)
(* Beginning, with the object a reference counted down refers to, or that  *)
(* of a root.                                                              *)
(***************************************************************************)
LEMMA BeginsTrail ==
  ASSUME Between, NEW o \in Oop, NEW h,
         before' = [field |-> field, count |-> count, root |-> o],
         held' = h, h \subseteq Oop,
         count' \in [Oop -> Nat], count'[o] # 0 \/ mode = "free",
         \A x \in Oop \ {o} : count'[x] = count[x],
         mode = "free" => field[o] # <<>>,
         goInto(o, NonPointer),
         UNCHANGED <<mode, field, extraWord, path>>
  PROVE  /\ Typed' /\ Trail' /\ HeapKept'
         /\ old' = field /\ counts' = count /\ root' = o
         /\ Stack' = {o} /\ Done' = {} /\ Entered' = {o} /\ Passed' = {}
<1>1. /\ old' = field /\ counts' = count /\ root' = o
      /\ prior' = NonPointer /\ current' = o /\ offset' = Len(field[o]) + 1
      /\ path' = <<>> /\ DOMAIN path' = {} /\ field' = field /\ mode' = mode
  BY DEF Between, old, counts, root, goInto, lastPointerOf
<1>2. /\ field \in [Oop -> Seq(Oop \union {Immediate})]
      /\ count \in [Oop -> Nat] /\ extraWord \in [Oop -> Nat] /\ mode \in {"free", "mark"}
  BY DEF Between, Heap
<1>3. Len(field[o]) \in Nat
  BY <1>2
<1>4. field \in [Oop -> Seq(Oop \union {Immediate, NonPointer})]
  <2>1. ASSUME NEW x \in Oop  PROVE field[x] \in Seq(Oop \union {Immediate, NonPointer})
    <3>1. field[x] \in Seq(Oop \union {Immediate})
      BY <1>2
    <3> QED  BY <3>1
  <2> QED  BY <1>2, <2>1
<1>5. Typed'
  BY <1>1, <1>2, <1>3, <1>4 DEF Typed, Heap
<1>6. Trail'
  BY <1>1, <1>3 DEF Trail
<1>7. Stack' = {o}
  BY <1>1 DEF Stack, OnPath
<1>8. Done' = {}
  <2>1. CASE mode = "free"
    BY <1>1, <2>1 DEF Done
  <2>2. CASE mode = "mark"
    <3>1. Done' = {x \in Oop \ {o} : count[x] = 0 /\ count'[x] # 0}
      BY <1>1, <1>7, <2>2 DEF Done
    <3> QED  BY <3>1
  <2> QED  BY <1>2, <2>1, <2>2
<1>9. HeapKept'
  BY <1>1, <1>8 DEF HeapKept, Freed
<1>10. Entered' = {o}
  BY <1>7, <1>8 DEF Entered
<1>11. Passed' = {}
  <2> SUFFICES ASSUME NEW p \in Passed'  PROVE FALSE
    OBVIOUS
  <2>1. /\ p[1] \in Oop /\ p[2] \in Nat \ {0} /\ p[2] <= Len(field[p[1]])
        /\ HasPassed(p[1], p[2])'
    BY <1>1 DEF Passed, Place, PlacesOf
  <2>2. p[1] = o /\ p[2] >= Len(field[o]) + 1
    BY <1>1, <1>8, <2>1 DEF HasPassed
  <2> QED  BY <1>3, <2>1, <2>2
<1> QED  BY <1>1, <1>5, <1>6, <1>7, <1>8, <1>9, <1>10, <1>11

(* The reference counted down was not the last, or the count sticks.       *)
LEMMA CountDownKeepsObject ==
  ASSUME Between, Still, mode = "free", NEW o \in held, ~predicate(o),
         before' = [field |-> field, count |-> count, root |-> o],
         held' = held \ {o},
         count' = afterPredicate(o),
         UNCHANGED <<mode, field, extraWord, path, prior, current, offset>>
  PROVE  IInv'
<1>1. /\ o \in Oop /\ field \in Heap /\ count \in [Oop -> Nat]
      /\ Exact(field, count, held)
  BY DEF Between
<1>2. count[o] # 1
  BY DEF predicate
<1>3. count' = [count EXCEPT ![o] = oneLess(count[o])]
  BY DEF afterPredicate
<1>4. ReferencesFrom(field, Oop, o) \in Nat
  <2>1. PICK f : f = field
    OBVIOUS
  <2>2. Oop \in SUBSET Oop /\ f \in Heap
    BY <1>1, <2>1
  <2> QED  BY <2>1, <2>2, ReferencesAre
<1>5. /\ \/ count[o] = Sticky
         \/ count[o] = ReferencesFrom(field, Oop, o) + 1 /\ count[o] < Sticky
      /\ field[o] = <<>> => count[o] = 0
  BY <1>1 DEF Exact, Counted
<1>6. CASE count[o] = Sticky
  <2>1. oneLess(count[o]) = Sticky
    BY <1>6, StickyAssumption DEF oneLess
  <2>2. count' = count
    BY <1>1, <1>3, <1>6, <2>1
  <2>3. Exact(field, count, held \ {o})
    <3>1. \A x \in Oop \ {o} : Counted(field, held \ {o}, x) = Counted(field, held, x)
      BY DEF Counted
    <3> QED  BY <1>1, <1>6, <3>1 DEF Exact
  <2>4. Exact(field', count', held') /\ oneLess(count[o]) = count[o] /\ count' \in [Oop -> Nat]
    BY <1>1, <1>6, <2>1, <2>2, <2>3
  <2>5. CountDownFreesExactly'
    <3>1. before'.field = field /\ before'.count = count /\ before'.root = o
      OBVIOUS
    <3>2. FieldsWithout(field, {}) = field
      BY <1>1 DEF FieldsWithout, Heap
    <3> QED  BY <1>2, <1>3, <3>1, <3>2 DEF CountDownFreesExactly
  <2>6. MarksExactlyReached'
    BY DEF MarksExactlyReached
  <2> QED  BY <2>4, <2>5, <2>6 DEF IInv, Still, Between, Heap
<1>7. CASE count[o] # Sticky
  <2>1. oneLess(count[o]) = ReferencesFrom(field, Oop, o) /\ oneLess(count[o]) < Sticky
    BY <1>4, <1>5, <1>7, StickyAssumption DEF oneLess
  <2>2. count' \in [Oop -> Nat] /\ count'[o] = ReferencesFrom(field, Oop, o)
        /\ \A x \in Oop \ {o} : count'[x] = count[x]
    BY <1>1, <1>3, <1>4, <2>1
  <2>3. Exact(field, count', held \ {o})
    <3>1. \A x \in Oop \ {o} : Counted(field, held \ {o}, x) = Counted(field, held, x)
      BY DEF Counted
    <3>2. Counted(field, held \ {o}, o) = count'[o]
      BY <1>4, <2>2 DEF Counted
    <3>3. field[o] # <<>>
      BY <1>4, <1>5, <1>7
    <3> QED  BY <1>1, <2>1, <2>2, <3>1, <3>2, <3>3, <1>3 DEF Exact
  <2>5. CountDownFreesExactly'
    <3>1. before'.field = field /\ before'.count = count /\ before'.root = o
      OBVIOUS
    <3>2. FieldsWithout(field, {}) = field
      BY <1>1 DEF FieldsWithout, Heap
    <3> QED  BY <1>2, <1>3, <3>1, <3>2 DEF CountDownFreesExactly
  <2>6. MarksExactlyReached'
    BY DEF MarksExactlyReached
  <2> QED  BY <2>2, <2>3, <2>5, <2>6 DEF IInv, Still, Between, Heap
<1> QED  BY <1>6, <1>7

LEMMA CountDownBegins ==
  ASSUME Between, mode = "free", NEW o \in held, predicate(o),
         before' = [field |-> field, count |-> count, root |-> o],
         held' = held \ {o},
         count' = afterPredicate(o),
         goInto(o, NonPointer),
         UNCHANGED <<mode, field, extraWord, path>>
  PROVE  IInv'
<1>1. /\ o \in Oop /\ field \in Heap /\ count \in [Oop -> Nat]
      /\ Exact(field, count, held) /\ held \subseteq Oop
  BY DEF Between
<1>2. count[o] = 1
  BY DEF predicate
<1>3. count' = [count EXCEPT ![o] = oneLess(count[o])] /\ oneLess(count[o]) = 0
  BY <1>2, StickyAssumption DEF afterPredicate, oneLess
<1>4. count' \in [Oop -> Nat] /\ \A x \in Oop \ {o} : count'[x] = count[x]
  BY <1>1, <1>3
<1>5. field[o] # <<>>
  BY <1>1, <1>2 DEF Exact
<1>6. PICK h : h = held \ {o}
  OBVIOUS
<1>7. /\ Typed' /\ Trail' /\ HeapKept'
      /\ old' = field /\ counts' = count /\ root' = o
      /\ Stack' = {o} /\ Done' = {} /\ Entered' = {o} /\ Passed' = {}
  BY <1>1, <1>4, <1>5, <1>6, BeginsTrail
<1>8. \A x : Cardinality(To(Passed, x)') = 0
  BY <1>7, FS_EmptySet DEF To
<1>9. CountingDown'
  <2>1. held' \union {root'} = held
    BY <1>7
  <2>2. \A x \in Oop \ {o} :
          IF counts'[x] = Sticky THEN count'[x] = Sticky
          ELSE /\ count'[x] = counts'[x] - Cardinality(To(Passed, x)')
               /\ counts'[x] > 0 => count'[x] > 0
    BY <1>1, <1>4, <1>7, <1>8
  <2>3. o \in FreedWith(field, count, o)
    BY <1>1, RootIsFreed
  <2> QED  BY <1>1, <1>2, <1>5, <1>7, <2>1, <2>2, <2>3 DEF CountingDown
<1>10. offset' \in Nat \ {0}
  BY <1>7 DEF Typed
<1> QED  BY <1>7, <1>9, <1>10 DEF IInv, Still, Traversing

LEMMA MarkBegins ==
  ASSUME Between, mode = "mark", NEW o \in Oop, predicate(o),
         before' = [field |-> field, count |-> count, root |-> o],
         held' = held \ {o},
         count' = afterPredicate(o),
         goInto(o, NonPointer),
         UNCHANGED <<mode, field, extraWord, path>>
  PROVE  IInv'
<1>1. /\ field \in Heap /\ count \in [Oop -> Nat] /\ held \subseteq Oop
      /\ Closed(field, Marked(count)) /\ \A x \in Oop : count[x] \in {0, 1}
  BY DEF Between
<1>2. count[o] = 0
  BY DEF predicate
<1>3. count' = [count EXCEPT ![o] = 1]
  BY DEF afterPredicate
<1>4. count' \in [Oop -> Nat] /\ count'[o] = 1 /\ \A x \in Oop \ {o} : count'[x] = count[x]
  BY <1>1, <1>3
<1>6. PICK h : h = held \ {o}
  OBVIOUS
<1>7. /\ Typed' /\ Trail' /\ HeapKept'
      /\ old' = field /\ counts' = count /\ root' = o
      /\ Stack' = {o} /\ Done' = {} /\ Entered' = {o} /\ Passed' = {}
  BY <1>1, <1>4, <1>6, BeginsTrail
<1>8. Marking'
  <2>1. Marked(counts)' = Marked(count)
    BY <1>7 DEF Marked
  <2>2. \A x \in Marked(count) : count'[x] = 1
    BY <1>2, <1>4 DEF Marked
  <2>3. {o} \subseteq ReachedFrom(field, {o})
    BY <1>1, ReachedIsClosed
  <2> QED  BY <1>1, <1>2, <1>4, <1>7, <2>1, <2>2, <2>3 DEF Marking
<1>9. offset' \in Nat \ {0}
  BY <1>7 DEF Typed
<1> QED  BY <1>7, <1>8, <1>9 DEF IInv, Still, Traversing

(* The object is marked, and with it all that it leads to.                 *)
LEMMA MarkedAlready ==
  ASSUME Between, Still, mode = "mark", NEW o \in Oop, ~predicate(o),
         before' = [field |-> field, count |-> count, root |-> o],
         held' = held \ {o},
         count' = count,
         UNCHANGED <<mode, field, extraWord, path, prior, current, offset>>
  PROVE  IInv'
<1>1. /\ field \in Heap /\ count \in [Oop -> Nat] /\ held \subseteq Oop
      /\ Closed(field, Marked(count)) /\ \A x \in Oop : count[x] \in {0, 1}
  BY DEF Between
<1>2. count[o] = 1
  BY <1>1 DEF predicate
<1>3. ReachedFrom(field, {o}) \subseteq Marked(count)
  <2>1. {o} \subseteq Marked(count) /\ Marked(count) \in SUBSET Oop
    BY <1>2 DEF Marked
  <2> QED  BY <1>1, <2>1, ReachedIsLeast
<1>4. MarksExactlyReached'
  <2>1. before'.field = field /\ before'.count = count /\ before'.root = o
    OBVIOUS
  <2> QED  BY <1>1, <1>3, <2>1 DEF MarksExactlyReached, Marked
<1>5. CountDownFreesExactly'
  BY DEF CountDownFreesExactly
<1>6. Marked(count)' = Marked(count)
  BY DEF Marked
<1> QED  BY <1>1, <1>4, <1>5, <1>6 DEF IInv, Still, Between, Heap

LEMMA BeginKeeps ==
  ASSUME IInv, Begin
  PROVE  IInv'
<1>1. Between /\ Still /\ mode \in {"free", "mark"} /\ held \subseteq Oop
  BY DEF IInv, Begin, Between
<1>2. PICK o \in IF mode = "free" THEN held ELSE Oop :
        /\ before' = [field |-> field, count |-> count, root |-> o]
        /\ held' = held \ {o}
        /\ count' = IF predicate(o) \/ mode = "free" THEN afterPredicate(o) ELSE count
        /\ IF predicate(o) THEN goInto(o, NonPointer)
           ELSE UNCHANGED <<prior, current, offset>>
  BY DEF Begin
<1>3. UNCHANGED <<mode, field, extraWord, path>>
  BY DEF Begin
<1>4. CASE mode = "free" /\ predicate(o)
  BY <1>1, <1>2, <1>3, <1>4, CountDownBegins
<1>5. CASE mode = "free" /\ ~predicate(o)
  BY <1>1, <1>2, <1>3, <1>5, CountDownKeepsObject
<1>6. CASE mode = "mark" /\ predicate(o)
  BY <1>1, <1>2, <1>3, <1>6, MarkBegins
<1>7. CASE mode = "mark" /\ ~predicate(o)
  BY <1>1, <1>2, <1>3, <1>7, MarkedAlready
<1> QED  BY <1>1, <1>4, <1>5, <1>6, <1>7

-----------------------------------------------------------------------------
(***************************************************************************)
(* The invariant holds in the heaps a traversal may begin with, and every  *)
(* step keeps it.                                                          *)
(***************************************************************************)
LEMMA InitKept ==
  ASSUME Init  PROVE IInv
<1>1. /\ offset = 0 /\ mode \in {"free", "mark"} /\ before = <<>>
      /\ prior = NonPointer /\ current = NonPointer /\ path = <<>>
      /\ extraWord \in [Oop -> Nat] /\ held \subseteq Oop
  BY DEF Init
<1>2. /\ field \in Heap /\ \A o \in Oop : field[o] # <<>>
  <2>1. field \in [Oop -> UNION {[1 .. n -> Oop \union {Immediate}] : n \in Pointers}]
    BY DEF Init
  <2>2. ASSUME NEW o \in Oop
        PROVE  field[o] \in Seq(Oop \union {Immediate}) /\ field[o] # <<>>
    <3>1. PICK n \in Pointers : field[o] \in [1 .. n -> Oop \union {Immediate}]
      BY <2>1
    <3>2. n \in Nat \ {0}
      BY PointersAssumption
    <3> QED  BY <3>1, <3>2
  <2> QED  BY <2>1, <2>2 DEF Heap
<1>3. CASE mode = "free"
  <2>1. PICK stuck \in SUBSET (Oop \ held) :
          count = [o \in Oop |->
                     IF o \in stuck \/ Counted(field, held, o) >= Sticky THEN Sticky
                     ELSE Counted(field, held, o)]
    BY <1>3 DEF Init, InitCounts
  <2>2. \A o \in Oop : Counted(field, held, o) \in Nat
    <3> SUFFICES ASSUME NEW o \in Oop  PROVE Counted(field, held, o) \in Nat
      OBVIOUS
    <3>1. PICK f : f = field
      OBVIOUS
    <3>2. Oop \in SUBSET Oop /\ f \in Heap
      BY <1>2, <3>1
    <3>3. ReferencesFrom(f, Oop, o) \in Nat
      BY <3>2, ReferencesAre
    <3> QED  BY <3>1, <3>3 DEF Counted
  <2>3. count \in [Oop -> Nat] /\ Exact(field, count, held)
    BY <1>2, <2>1, <2>2, StickyAssumption DEF Exact
  <2> QED  BY <1>1, <1>2, <1>3, <2>3
           DEF IInv, Still, Between, CountDownFreesExactly, MarksExactlyReached
<1>4. CASE mode = "mark"
  <2>1. PICK roots \in SUBSET Oop :
          count = [o \in Oop |-> IF o \in ReachedFrom(field, roots) THEN 1 ELSE 0]
    BY <1>4 DEF Init, InitMarks
  <2>2. Marked(count) = ReachedFrom(field, roots)
    BY <2>1 DEF Marked, ReachedFrom
  <2>3. Closed(field, Marked(count))
    <3>1. PICK f : f = field
      OBVIOUS
    <3>2. Closed(f, ReachedFrom(f, roots))
      BY <1>2, <3>1, ReachedIsClosed
    <3> QED  BY <2>2, <3>1, <3>2
  <2>4. count \in [Oop -> Nat] /\ \A o \in Oop : count[o] \in {0, 1}
    BY <2>1
  <2> QED  BY <1>1, <1>2, <1>4, <2>3, <2>4
           DEF IInv, Still, Between, CountDownFreesExactly, MarksExactlyReached
<1> QED  BY <1>1, <1>3, <1>4

LEMMA StepKeeps ==
  ASSUME IInv, Next  PROVE IInv'
<1>1. CASE Begin
  BY <1>1, BeginKeeps
<1>2. ASSUME PassPointer \/ FollowPointer \/ GoBack
      PROVE  Traversing /\ mode \in {"free", "mark"}
  <2>1. ~Still
    BY <1>2 DEF PassPointer, FollowPointer, GoBack, index, Still, IInv
  <2> QED  BY <2>1 DEF IInv, Traversing, Typed
<1>3. ASSUME Traversing'  PROVE IInv'
  BY <1>3 DEF IInv, Still, Traversing, Typed
<1>4. CASE PassPointer
  BY <1>2, <1>3, <1>4, CountDownPasses, MarkPasses
<1>5. CASE FollowPointer
  BY <1>2, <1>3, <1>5, CountDownFollows, MarkFollows
<1>6. CASE GoBack /\ path # <<>>
  BY <1>2, <1>3, <1>6, CountDownGoesBack, MarkGoesBack
<1>7. CASE GoBack /\ path = <<>>
  BY <1>2, <1>7, CountDownEnds, MarkEnds
<1> QED  BY <1>1, <1>4, <1>5, <1>6, <1>7 DEF Next

LEMMA StutterKeeps ==
  ASSUME IInv, UNCHANGED vars  PROVE IInv'
<1>1. UNCHANGED <<mode, field, count, extraWord, held, prior, current, offset, path, before>>
  BY DEF vars, chain
<1>2. Between' = Between
  BY <1>1 DEF Between, Heap, Exact, Counted, Closed, Marked, CountDownFreesExactly,
     MarksExactlyReached, Still
<1>3. old' = old /\ counts' = counts /\ root' = root
  BY <1>1 DEF old, counts, root
<1>4. Stack' = Stack /\ Done' = Done
  BY <1>1, <1>3 DEF Stack, OnPath, Done
<1>5. Entered' = Entered /\ Passed' = Passed
  BY <1>1, <1>3, <1>4 DEF Entered, Passed, Place, PlacesOf, HasPassed
<1>6. \A x : To(Passed, x)' = To(Passed, x)
  BY <1>3, <1>5 DEF To
<1>7. Typed' = Typed /\ Trail' = Trail /\ HeapKept' = HeapKept
  BY <1>1, <1>3, <1>4 DEF Typed, Heap, Trail, HeapKept, Freed, savedOffset
<1>8. CountingDown' = CountingDown
  BY <1>1, <1>3, <1>4, <1>5, <1>6 DEF CountingDown
<1>9. Marking' = Marking
  BY <1>1, <1>3, <1>4, <1>5 DEF Marking, Marked
<1> QED  BY <1>1, <1>2, <1>7, <1>8, <1>9 DEF IInv, Still, Traversing

LEMMA InvariantKept == Spec => []IInv
<1>1. Init => IInv
  BY InitKept
<1>2. IInv /\ [Next]_vars => IInv'
  BY StepKeeps, StutterKeeps
<1> QED  BY <1>1, <1>2, PTL DEF Spec

-----------------------------------------------------------------------------
(***************************************************************************)
(* Whatever the heap and however deep the traversal, the reversed pointers *)
(* lead back to the root along the path taken, the offset saved in each    *)
(* object on it is the one to resume at, and the count that the predicate  *)
(* of a count down decrements is never zero: the RUNTIME_CHECK of pred0 of *)
(* forAllObjectsAccessibleFrom:suchThat:do: passes.                        *)
(***************************************************************************)
THEOREM ReversedPointersLeadBack == Spec => []ChainIntact
<1>1. IInv => ChainIntact
  <2> SUFFICES ASSUME IInv  PROVE ChainIntact
    OBVIOUS
  <2>1. CASE Still
    <3>1. ~(index > 0)
      BY <2>1 DEF index, Still
    <3>2. path = <<>> /\ prior = NonPointer
      BY <2>1 DEF IInv, Between
    <3> QED  BY <3>1, <3>2 DEF ChainIntact
  <2>2. CASE ~Still
    <3>1. Traversing
      BY <2>2 DEF IInv
    <3>2. index > 0 /\ next # Immediate => checkPasses(next)
      <4>1. CASE mode = "free"
        BY <3>1, <4>1, NextIsCounted DEF checkPasses
      <4>2. CASE mode = "mark"
        BY <4>2 DEF checkPasses
      <4> QED  BY <3>1, <4>1, <4>2 DEF Traversing, Typed
    <3> QED  BY <3>1, <3>2 DEF Traversing, Trail, ChainIntact
  <2> QED  BY <2>1, <2>2
<1> QED  BY <1>1, InvariantKept, PTL

(***************************************************************************)
(* Counting down the last reference to an object frees exactly the least   *)
(* set of objects that has it and all that only this set referred to: no   *)
(* object that something else refers to goes, none that nothing refers to  *)
(* any more stays (cycles apart, which the counts cannot tell), and every  *)
(* other count is less by the references that have gone, and every pointer *)
(* that was reversed on the way is what it was.                            *)
(***************************************************************************)
THEOREM FreesExactly == Spec => []CountDownFreesExactly
<1>1. IInv => CountDownFreesExactly
  BY DEF IInv, Between, CountDownFreesExactly
<1> QED  BY <1>1, InvariantKept, PTL

(***************************************************************************)
(* Marking from a root marks exactly the objects that can be reached from  *)
(* it, beside those marked before, and leaves every pointer as it was.     *)
(***************************************************************************)
THEOREM MarksReached == Spec => []MarksExactlyReached
<1>1. IInv => MarksExactlyReached
  BY DEF IInv, Between, MarksExactlyReached
<1> QED  BY <1>1, InvariantKept, PTL
=============================================================================
