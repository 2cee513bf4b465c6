--------------------------- MODULE RefCountsInvariant ---------------------------
(***************************************************************************)
(* The inductive invariant of RefCounts, and the operators its proof       *)
(* needs: what a routine in the middle of its calls owes to the counts,    *)
(* how far each routine has come, and what the collector has marked.       *)
(***************************************************************************)
EXTENDS RefCounts

Pointer == Oop \union {Immediate}
Heap == [Oop -> Seq(Pointer)]
CallNames == {"countUp", "countDown", "countDownField", "put", "activeContext", "newProcess",
              "attempt", "attemptAgain", "zero", "mark", "rectify", "abort"}

CallRecord == [call : CallNames, object : Oop, index : Nat, value : Pointer]

Is(v, x) == IF v = x THEN 1 ELSE 0

(* What the call c will add to the references to x, or take from its count.*)
OwedBy(c, x) ==
  IF c.call \in {"countDown", "put"} THEN Is(c.value, x)
  ELSE IF c.call = "countUp" THEN 0 - Is(c.value, x)
  ELSE IF c.call \in {"attempt", "attemptAgain"} THEN Is(c.object, x)
  ELSE 0

Owing(s, x, n) == {i \in DOMAIN s : OwedBy(s[i], x) = n}
Owed(s, x) == Cardinality(Owing(s, x, 1)) - Cardinality(Owing(s, x, 0 - 1))

Then(c, s) == <<c>> \o s

HeldIn(s) == UNION {ValuesIn(s[i]) : i \in DOMAIN s}

-----------------------------------------------------------------------------
Typed ==
  /\ field \in Heap
  /\ count \in [Oop -> 0 .. Sticky]
  /\ activeContext \in Oop /\ newProcess \in Oop
  /\ inHand \subseteq Oop
  /\ todo \in Seq(CallRecord)
  /\ pending \subseteq Oop

Present == ReachedFrom(Graph, Roots) \subseteq Live

Always == Typed /\ Present /\ field[NilPointer] = <<SmalltalkPointer>>

-----------------------------------------------------------------------------
(***************************************************************************)
(* f is the pointers of each object, n its count, t the calls to make and  *)
(* h the objects in hand; a and p are what the registers will be when the  *)
(* routine ends.                                                           *)
(***************************************************************************)
Calling(t, name) == t # <<>> /\ Head(t).call = name

(* What is at a place counts until the pointer for it is put there.        *)
Displaced(f, t, x) ==
  IF Calling(t, "put") THEN Is(f[Head(t).object][Head(t).index], x) ELSE 0

Balanced(f, n, t, a, p) ==
  \A x \in Oop \ {NilPointer} :
    \/ n[x] = Sticky
    \/ n[x] + Displaced(f, t, x)
         = ReferencesFrom(f, Oop, x) + Owed(t, x) + Is(a, x) + Is(p, x)

IsPlace(f, c) == c.object # NilPointer /\ c.index \in DOMAIN f[c.object]

(* c can be called if the call after it is next: abort if there is none.   *)
Callable(f, h, c, next) ==
  /\ c.call = "countUp" => c.value \notin h
  /\ c.call = "countDown" => next.call \in {"activeContext", "newProcess", "abort"}
  /\ c.call = "countDownField" =>
       /\ next.call = "put" /\ next.object = c.object /\ next.index = c.index
       /\ IsPlace(f, c)
  /\ c.call # "countDownField" => next.call # "put"
  /\ c.call = "put" => IsPlace(f, c) /\ next.call # "countDownField"
  /\ c.call \in {"activeContext", "newProcess"} => c.value \in Oop
  /\ c.call \in {"attempt", "attemptAgain"} => next.call = "abort" /\ c.index \in Nat \ {0}

Upcoming(t) == IF t = <<>> THEN abort ELSE Head(t)

Sound(f, h, t) ==
  \A i \in DOMAIN t : Callable(f, h, t[i], IF i < Len(t) THEN t[i + 1] ELSE abort)

WillRise(t, x) == \E i \in DOMAIN t : t[i] = countUp(x)

Attended(f, n, t, h) ==
  /\ \A x \in Oop \ Objects(f) : n[x] = 0
  /\ \A x \in h : n[x] = 0
  /\ \A x \in Objects(f) \ h : n[x] > 0 \/ WillRise(t, x)

Counted(f, n, t, h, a, p) ==
  /\ Balanced(f, n, t, a, p)
  /\ Sound(f, h, t)
  /\ n[NilPointer] = Sticky
  /\ Attended(f, n, t, h)

Zero == {x \in Oop : count[x] = 0}

-----------------------------------------------------------------------------
(* The calls left of each routine. *)
Store2(o, f, v) == Then(put(o, f, v), <<>>)
Store1(o, f, v) == Then(countDownField(o, f), Store2(o, f, v))
Store0(o, f, v) == Then(countUp(v), Store1(o, f, v))

Base == {NilPointer, activeContext} \union Zero

Storing(o, f, v) ==
  \/ /\ todo \in {Store0(o, f, v), Store1(o, f, v)}
     /\ o \in ReachedFrom(field, Base \union ({v} \intersect Oop))
  \/ todo = Store2(o, f, v)

Allocate1(n, class) == Then(attempt(n, class), <<>>)
Allocate0(n, class) == Then(countUp(class), Allocate1(n, class))

Allocating(n, class) ==
  /\ todo \in {Allocate0(n, class), Allocate1(n, class)}
  /\ class \in Known \intersect Classes
  /\ Cardinality(inHand) < MaxInHand

Again(n, class) == Then(attemptAgain(attempt(n, class)), <<>>)

Activate5(c) == Then(countUp(c), <<>>)
Activate4(c) == Then(setActiveContext(c), Activate5(c))
Activate3(a, c) == Then(countDown(a), Activate4(c))
Activate2(a, c) == Then(put(c, Link, a), Activate3(a, c))
Activate1(a, c) == Then(countDownField(c, Link), Activate2(a, c))
Activate0(a, c) == Then(countUp(a), Activate1(a, c))

Activating(a, c) ==
  \/ /\ todo \in {Activate0(a, c), Activate1(a, c)}
     /\ a = activeContext /\ c \in ReachedFrom(field, Base)
  \/ todo = Activate2(a, c) /\ a = activeContext
  \/ todo = Activate3(a, c) /\ a = activeContext /\ a \in PointersOf(field, c)
  \/ todo = Activate4(c)
  \/ todo = Activate5(c) /\ activeContext = c

Return10(v) == Then(countDown(v), <<>>)
Return9(c, t, v) == Then(put(c, t, v), Return10(v))
Return8(c, t, v) == Then(countDownField(c, t), Return9(c, t, v))
Return7(c, t, v) == Then(countUp(v), Return8(c, t, v))
Return6(c, t, v) == Then(setActiveContext(c), Return7(c, t, v))
Return5(a, c, t, v) == Then(countDown(a), Return6(c, t, v))
Return4(a, c, t, v) == Then(put(a, Link, NilPointer), Return5(a, c, t, v))
Return3(a, c, t, v) == Then(countDownField(a, Link), Return4(a, c, t, v))
Return2(a, c, t, v) == Then(countUp(NilPointer), Return3(a, c, t, v))
Return1(a, c, t, v) == Then(countUp(c), Return2(a, c, t, v))
Return0(a, c, t, v) == Then(countUp(v), Return1(a, c, t, v))

Returning(a, c, t, v) ==
  \/ /\ todo \in {Return0(a, c, t, v), Return1(a, c, t, v), Return2(a, c, t, v),
                  Return3(a, c, t, v)}
     /\ a = activeContext /\ field[a][Link] = c
  \/ todo \in {Return4(a, c, t, v), Return5(a, c, t, v)} /\ a = activeContext
  \/ todo = Return6(c, t, v)
  \/ /\ todo \in {Return7(c, t, v), Return8(c, t, v), Return9(c, t, v), Return10(v)}
     /\ activeContext = c

Wake6(p) == Then(countDown(p), <<>>)
Wake5(p) == Then(countUp(p), Wake6(p))
Wake4(p) == Then(setNewProcess(p), Wake5(p))
WakeAfter(q, p) == IF q # NilPointer THEN Then(countDown(q), Wake4(p)) ELSE Wake4(p)
Wake3(l, q, p) == Then(put(l, Link, NilPointer), WakeAfter(q, p))
Wake2(l, q, p) == Then(countDownField(l, Link), Wake3(l, q, p))
Wake1(l, q, p) == Then(countUp(NilPointer), Wake2(l, q, p))
Wake0(l, q, p) == Then(countUp(p), Wake1(l, q, p))

Waking(l, q, p) ==
  \/ /\ todo \in {Wake0(l, q, p), Wake1(l, q, p), Wake2(l, q, p)}
     /\ q = newProcess /\ field[l][Link] = p
  \/ todo \in {Wake3(l, q, p), WakeAfter(q, p)} /\ q = newProcess
  \/ todo = Wake4(p)
  \/ todo \in {Wake5(p), Wake6(p)} /\ newProcess = p

Transfer2(p) == Then(countUp(p), <<>>)
Transfer1(p) == Then(setNewProcess(p), Transfer2(p))
Transfer0(q, p) == Then(countDown(q), Transfer1(p))

Transferring(q, p) ==
  \/ todo = Transfer0(q, p) /\ q = newProcess /\ p \in ReachedFrom(field, Base)
  \/ todo = Transfer1(p)
  \/ todo = Transfer2(p) /\ newProcess = p

Switch10 == Then(setNewProcess(NilPointer), <<>>)
Switch9(p) == Then(countDown(p), Switch10)
Switch8(p, c) == Then(countUp(c), Switch9(p))
Switch7(p, c) == Then(setActiveContext(c), Switch8(p, c))
Switch6(a, p, c) == Then(countDown(a), Switch7(p, c))
Switch5(a, p, c) == Then(put(SmalltalkPointer, Link, p), Switch6(a, p, c))
Switch4(a, p, c) == Then(countDownField(SmalltalkPointer, Link), Switch5(a, p, c))
Switch3(a, p, c) == Then(countUp(p), Switch4(a, p, c))
Switch2(q, a, p, c) == Then(put(q, Link, a), Switch3(a, p, c))
Switch1(q, a, p, c) == Then(countDownField(q, Link), Switch2(q, a, p, c))
Switch0(q, a, p, c) == Then(countUp(a), Switch1(q, a, p, c))

Switching(q, a, p, c) ==
  \/ /\ todo \in {Switch0(q, a, p, c), Switch1(q, a, p, c), Switch2(q, a, p, c)}
     /\ a = activeContext /\ p = newProcess /\ p # SmalltalkPointer
     /\ q \in PointersOf(field, SmalltalkPointer)
     /\ IF p = q THEN c = a ELSE c \in PointersOf(field, p)
  \/ /\ todo \in {Switch3(a, p, c), Switch4(a, p, c), Switch5(a, p, c), Switch6(a, p, c)}
     /\ a = activeContext /\ p = newProcess /\ p # SmalltalkPointer
     /\ c \in PointersOf(field, p)
  \/ todo = Switch7(p, c) /\ p = newProcess
  \/ todo \in {Switch8(p, c), Switch9(p)} /\ p = newProcess /\ activeContext = c
  \/ todo = Switch10 /\ activeContext = c

(* The counts of the registers after a collection, and what is to follow.  *)
Goals == {<<>>} \union {Again(n, class) : n \in Nat \ {0}, class \in Oop}

Recount1(g) ==
  IF newProcess # NilPointer THEN Then(countUp(newProcess), g) ELSE g
Recount0(g) == Then(countUp(activeContext), Recount1(g))

Recounting(g) == todo \in {Recount0(g), Recount1(g), g}

Stage(fa, fn) ==
  \/ todo = <<>> /\ fa = activeContext /\ fn = newProcess
  \/ /\ \E o \in Oop, f \in Nat, v \in Pointer : Storing(o, f, v)
     /\ fa = activeContext /\ fn = newProcess
  \/ /\ \E n \in Nat, class \in Oop : Allocating(n, class)
     /\ fa = activeContext /\ fn = newProcess
  \/ /\ \E a, c \in Oop : Activating(a, c) /\ fa = c
     /\ fn = newProcess
  \/ /\ \E a, c \in Oop, t \in Nat, v \in Pointer : Returning(a, c, t, v) /\ fa = c
     /\ fn = newProcess
  \/ /\ \E l, q, p \in Oop : Waking(l, q, p) /\ fn = p
     /\ fa = activeContext
  \/ /\ \E q, p \in Oop : Transferring(q, p) /\ fn = p
     /\ fa = activeContext
  \/ /\ \E q, a, p, c \in Oop : Switching(q, a, p, c) /\ fa = c
     /\ fn = NilPointer
  \/ /\ \E g \in Goals : Recounting(g)
     /\ fa = activeContext /\ fn = newProcess

-----------------------------------------------------------------------------
(* The collection. *)
Anchors == {NilPointer, SmalltalkPointer, activeContext, newProcess}
Kept == ReachedFrom(field, Anchors)

Rectify(g) == Then(rectify, Recount0(g))
Mark4(g) == IF newProcess # NilPointer THEN Then(addRoot(newProcess), Rectify(g)) ELSE Rectify(g)
Mark3(g) == Then(addRoot(activeContext), Mark4(g))
Mark2(g) == Then(addRoot(SmalltalkPointer), Mark3(g))
Mark1(g) == Then(addRoot(NilPointer), Mark2(g))
Mark0(g) == Then(zeroReferenceCounts, Mark1(g))

GoalKept(g) ==
  \A n \in Nat \ {0}, class \in Oop : g = Again(n, class) =>
    /\ class \in Kept
    /\ class = NilPointer \/ ReferencesFrom(field, Kept, class) >= Sticky

Marked == {x \in Oop : count[x] = 1}

Marks(still) ==
  /\ \A x \in Oop : count[x] \in {0, 1}
  /\ Marked \subseteq Kept
  /\ \A x \in Marked : PointersOf(field, x) \subseteq Marked
  /\ Anchors \subseteq Marked \union still
  /\ pending = Live

Marking(g) ==
  \/ todo = Mark0(g)
  \/ todo = Mark1(g) /\ Marks(Anchors)
  \/ todo = Mark2(g) /\ Marks({SmalltalkPointer, activeContext, newProcess} \ {NilPointer})
  \/ todo = Mark3(g) /\ Marks({activeContext, newProcess} \ {NilPointer})
  \/ /\ todo = Mark4(g) /\ newProcess # NilPointer /\ Marks({newProcess})

Rectifying(g) ==
  /\ todo = Rectify(g)
  /\ Live \subseteq Kept \union pending
  /\ \A x \in Kept :
       \/ count[x] = Sticky
       \/ count[x] = ReferencesFrom(field, Kept \ pending, x)
                       + (IF x \in pending THEN 1 ELSE 0)
  /\ \A x \in Oop \ Kept : count[x] = 0

Collecting ==
  /\ inHand = {}
  /\ \E g \in Goals : GoalKept(g) /\ (Marking(g) \/ Rectifying(g))

Aborting == todo = <<abort>>

IInv ==
  /\ Always
  /\ \/ \E fa, fn \in Oop : Counted(field, count, todo, inHand, fa, fn) /\ Stage(fa, fn)
     \/ Collecting
     \/ Aborting

CollectsSafely ==
  AllocateChunkCollects =>
    /\ inHand = {}
    /\ \/ Head(todo).object = NilPointer
       \/ ReferencesFrom(field, Kept, Head(todo).object) >= Sticky

-----------------------------------------------------------------------------
(***************************************************************************)
(* References are places of the heap, of which there are finitely many.    *)
(***************************************************************************)
PlacesOf(f) == {p \in Oop \X (Nat \ {0}) : p[2] <= Len(f[p[1]])}

-----------------------------------------------------------------------------
(* The references from one object.                                         *)
Indices(p, x) == {i \in DOMAIN p : p[i] = x}

-----------------------------------------------------------------------------
(* One pointer of one object changes.                                      *)
Written(f, o, k, v) == [f EXCEPT ![o][k] = v]

(* A new object refers to its class, and for the rest to nil.              *)
NewFields(n, class) == [i \in 1 .. n |-> IF i = 1 THEN class ELSE NilPointer]

WithNew(f, o, n, class) == [f EXCEPT ![o] = NewFields(n, class)]

(* Two objects exchange their pointers.                                    *)
Swapped(f, a, b) == [f EXCEPT ![a] = f[b], ![b] = f[a]]

-----------------------------------------------------------------------------
(***************************************************************************)
(* What is reached from a set of objects is the least closed set around it.*)
(***************************************************************************)
Closed(f, S) == S \subseteq Oop /\ \A o \in S : PointersOf(f, o) \subseteq S

(* Places of a sequence move up by one.                                    *)
Moved(A) == {i + 1 : i \in A}

(* What a call asks of the next.                                           *)
NextOf(s, i) == IF i < Len(s) THEN s[i + 1] ELSE abort

-----------------------------------------------------------------------------
(***************************************************************************)
(* What a count down to zero frees.                                        *)
(***************************************************************************)
Counts == [Oop -> 0 .. Sticky]

(* r is what else is counted of the references to each object.             *)
Accounts(f, n, r, v) ==
  /\ n[NilPointer] = Sticky
  /\ \A x \in Oop \ {NilPointer} : r[x] >= 0
  /\ \A x \in Oop \ {NilPointer, v} : n[x] = Sticky \/ n[x] = ReferencesFrom(f, Oop, x) + r[x]

Unreferenced(f, n, r, v, D) ==
  /\ D \in SUBSET Oop /\ v \in D
  /\ \A x \in D : x # NilPointer /\ n[x] # Sticky /\ n[x] > 0
  /\ \A x \in D \ {v} : r[x] = 0 /\ ReferencesFrom(f, Oop \ D, x) = 0
  /\ \A x \in Oop \ D : n[x] = Sticky \/ n[x] = 0 \/ ReferencesFrom(f, D, x) < n[x]
  /\ \A x \in Oop \ {v} : n[x] = Sticky \/ ReferencesFrom(f, D, x) <= n[x]

(* The objects one can be sure of: those with a count of another kind.     *)
SureOf(n, r) == {NilPointer} \union {x \in Oop : n[x] = 0} \union {x \in Oop : r[x] >= 1}

(* What the free is known by: e of the references to v remain.             *)
FreesSafely(f, n, r, v, e, g, D) ==
  /\ D \in SUBSET Oop /\ v \in D /\ NilPointer \notin D
  /\ \A x \in D : n[x] # Sticky /\ n[x] > 0
  /\ ~Undercounted(f, n, v, D)
  /\ D \cap ReachedFrom(g, SureOf(n, r)) = {}
  /\ CountsWithout(f, n, D) \in Counts
  /\ \A x \in Oop : /\ x \in D \/ n[x] = 0 => CountsWithout(f, n, D)[x] = 0
                    /\ x \notin D /\ n[x] > 0 => CountsWithout(f, n, D)[x] > 0
                    /\ n[x] = Sticky => CountsWithout(f, n, D)[x] = Sticky
  /\ \A x \in Oop \ {NilPointer} :
       \/ CountsWithout(f, n, D)[x] = Sticky
       \/ CountsWithout(f, n, D)[x] + (IF x = v THEN e ELSE 0)
            = ReferencesFrom(FieldsWithout(f, D), Oop, x) + r[x]

-----------------------------------------------------------------------------
(***************************************************************************)
(* The objects as the program sees them, before the calls of t are made.   *)
(***************************************************************************)
EndingOf(t) ==
  IF Len(t) > 1 /\ Head(t).call \in {"countDown", "countDownField"} THEN t[2] ELSE Head(t)

GraphAt(f, t) ==
  IF t # <<>> /\ EndingOf(t).call = "put"
  THEN Written(f, EndingOf(t).object, EndingOf(t).index, EndingOf(t).value)
  ELSE f

RegisterAt(t, name, r) ==
  IF t # <<>> /\ EndingOf(t).call = name THEN EndingOf(t).value ELSE r

HeldLater(t) == UNION {ValuesIn(t[i]) : i \in 2 .. Len(t)}
HeldNow(t) == IF t = <<>> \/ Head(t).call = "countDown" THEN {} ELSE ValuesIn(Head(t))
HeldAt(t) == HeldLater(t) \union HeldNow(t)

RootsAt(t, a, p, h) ==
  {NilPointer, SmalltalkPointer}
    \union {RegisterAt(t, "activeContext", a), RegisterAt(t, "newProcess", p)}
    \union h \union HeldAt(t)

-----------------------------------------------------------------------------
(***************************************************************************)
(* The steps of ObjectGraph, from the objects F and the roots R to the     *)
(* objects F2 and the roots R2.                                            *)
(***************************************************************************)
Keeps(F, R, F2, R2) == F2 = F /\ R2 \subseteq ReachedFrom(F, R)

Stores(F, R, F2, R2) ==
  /\ \E o \in ReachedFrom(F, R), v \in ReachedFrom(F, R) \union {Immediate} :
       \E i \in DOMAIN F[o] : F2 = Written(F, o, i, v)
  /\ R2 \subseteq ReachedFrom(F, R)

Reclaims(F, R, F2, R2) ==
  /\ \E D \in SUBSET (Objects(F) \ ReachedFrom(F, R)) : F2 = FieldsWithout(F, D)
  /\ R2 \subseteq ReachedFrom(F, R)

Renews(F, R, F2, R2) ==
  \E o \in Oop \ Objects(F) :
    \E p \in Seq(ReachedFrom(F, R) \union {Immediate}) :
      /\ p # <<>> /\ F2 = [F EXCEPT ![o] = p]
      /\ R2 \subseteq ReachedFrom(F, R) \union {o}

Exchanges(F, R, F2, R2) ==
  /\ \E a, b \in ReachedFrom(F, R) : F2 = Swapped(F, a, b)
  /\ R2 \subseteq ReachedFrom(F, R)

Moves(F, R, F2, R2) ==
  Keeps(F, R, F2, R2) \/ Stores(F, R, F2, R2) \/ Reclaims(F, R, F2, R2)
    \/ Renews(F, R, F2, R2) \/ Exchanges(F, R, F2, R2)

Tallied(f, n, h, a, p, c, s) ==
  /\ Callable(f, h, c, Upcoming(s)) /\ Sound(f, h, s) /\ n[NilPointer] = Sticky
  /\ \A x \in Oop \ Objects(f) : n[x] = 0
  /\ \A x \in h : n[x] = 0
  /\ \A x \in Objects(f) \ h : n[x] > 0 \/ WillRise(s, x) \/ c = countUp(x)
  /\ \A x \in Oop \ {NilPointer} : n[x] = Sticky \/
       n[x] + (IF c.call = "put" THEN Is(f[c.object][c.index], x) ELSE 0)
         = ReferencesFrom(f, Oop, x) + (OwedBy(c, x) + Owed(s, x)) + Is(a, x) + Is(p, x)

CountedUp(n, v) == IF v = Immediate THEN n ELSE [n EXCEPT ![v] = oneMore(@)]

(* What a count down lowers.                                               *)
LoweredBy(f, c) == IF c.call = "countDown" THEN c.value ELSE f[c.object][c.index]

CountedDown(n, v) == IF v = Immediate THEN n ELSE [n EXCEPT ![v] = oneLess(@)]

(* What is counted of x apart from its references and the call under way.  *)
RestOf(s, a, p) == [x \in Oop |-> Owed(s, x) + Is(a, x) + Is(p, x)]

(* What a count down that frees must find: R is what the program holds.    *)
CanFree(f, n, c, s, a, p, R) ==
  LET r == RestOf(s, a, p)
  IN  /\ \A x \in Oop \ {NilPointer} : r[x] >= 0
      /\ c.call = "countDownField" =>
           Upcoming(s).value \in {Immediate, NilPointer} \/ r[Upcoming(s).value] >= 1
      /\ R \subseteq ReachedFrom(GraphAt(f, Then(c, s)), SureOf(n, r))

Freed(f, n, c) == FreedWith(f, n, LoweredBy(f, c))

DownView(f, c, s) ==
  /\ c.call = "countDown" =>
       /\ GraphAt(f, Then(c, s)) = f /\ Upcoming(s).call # "put"
       /\ \A g : GraphAt(g, s) = g
  /\ c.call = "countDownField" =>
       /\ c.object \in Oop \ {NilPointer} /\ c.index \in DOMAIN f[c.object]
       /\ Upcoming(s) \in CallRecord /\ Upcoming(s).value \in Pointer
       /\ Upcoming(s).call = "put" /\ Upcoming(s).object = c.object
       /\ Upcoming(s).index = c.index
       /\ GraphAt(f, Then(c, s)) = Written(f, c.object, c.index, Upcoming(s).value)
       /\ \A g : GraphAt(g, s) = Written(g, c.object, c.index, Upcoming(s).value)
  /\ GraphAt(f, Then(c, s)) \in Heap

FreesTo(f, n, h, a, p, c, s, R, D) ==
  /\ ~Undercounted(f, n, LoweredBy(f, c), D)
  /\ FieldsWithout(f, D) \in Heap /\ CountsWithout(f, n, D) \in Counts
  /\ Counted(FieldsWithout(f, D), CountsWithout(f, n, D), s, h, a, p)
  /\ \A x \in ReachedFrom(GraphAt(f, Then(c, s)), R) : FieldsWithout(f, D)[x] = f[x]
  /\ \A R2 \in SUBSET R : Moves(GraphAt(f, Then(c, s)), R, GraphAt(FieldsWithout(f, D), s), R2)

(* A call that may free finds what it must.                                *)
FreesRightly(fa, fn) ==
  /\ todo # <<>> /\ Head(todo).call \in {"countDown", "countDownField"}
  /\ LoweredBy(field, Head(todo)) # Immediate
  /\ count[LoweredBy(field, Head(todo))] <= 1
  => CanFree(field, count, Head(todo), Tail(todo), fa, fn, Roots)

Made(fa, fn) ==
  /\ todo' = Tail(todo) /\ inHand' = inHand /\ Always'
  /\ Counted(field', count', todo', inHand', fa, fn)
  /\ Moves(Graph, Roots, Graph', Roots')

-----------------------------------------------------------------------------
Spares == \A x \in ReachedFrom(Graph, Roots) : field'[x] = field[x]

Downs == todo # <<>> /\ Head(todo).call \in {"countDown", "countDownField"}

Sure(c, s, fa, fn) == ReachedFrom(GraphAt(field, Then(c, s)), SureOf(count, RestOf(s, fa, fn)))

-----------------------------------------------------------------------------
(***************************************************************************)
(* What a call of a routine does beyond keeping the counts.                *)
(***************************************************************************)
Advances == CountUp \/ CountDown \/ Put \/ SetRegister

Went(c) ==
  /\ c.call \in {"countUp", "countDown", "countDownField", "put", "activeContext", "newProcess"}
  /\ c.call = "countUp" => field' = field /\ Zero \subseteq Zero' \union ({c.value} \intersect Oop)
  /\ c.call \in {"countDown", "countDownField"} => Spares
  /\ c.call = "put" =>
       /\ field' = Written(field, c.object, c.index, c.value) /\ Zero' = Zero
       /\ c.object \in Oop \ {NilPointer} /\ c.index \in DOMAIN field[c.object]
  /\ c.call \in {"activeContext", "newProcess"} => field' = field /\ Zero' = Zero
  /\ activeContext' = IF c.call = "activeContext" THEN c.value ELSE activeContext
  /\ newProcess' = IF c.call = "newProcess" THEN c.value ELSE newProcess

-----------------------------------------------------------------------------
(***************************************************************************)
(* The first call of a routine counts, stores or sets a register, or is    *)
(* the attempt to allocate that ends it.                                   *)
(***************************************************************************)
Goes(t) ==
  /\ t # <<>>
  /\ Head(t).call \in {"countUp", "countDown", "countDownField", "put", "activeContext",
                       "newProcess"}

Attempting ==
  \/ \E n \in Nat, class \in Oop : todo = Allocate1(n, class) /\ Allocating(n, class)
  \/ \E g \in Goals \ {<<>>} : todo = g

StoreFirst(o, f, v) ==
  \A s \in Seq(CallRecord) :
    storePointer(o, f, v) \o s
      = Then(countUp(v), Then(countDownField(o, f), Then(put(o, f, v), s)))

TransferFirst(p) ==
  \A s \in Seq(CallRecord) :
    transferTo(p) \o s
      = IF newProcess # NilPointer
        THEN Then(countDown(newProcess), Then(setNewProcess(p), Then(countUp(p), s)))
        ELSE Then(setNewProcess(p), Then(countUp(p), s))

-----------------------------------------------------------------------------
(***************************************************************************)
(* Between two routines: what objects in hand are, and what may be named.  *)
(***************************************************************************)
Even == Always /\ todo = <<>> /\ Counted(field, count, todo, inHand, activeContext, newProcess)

InHandApart ==
  /\ activeContext \notin inHand /\ newProcess \notin inHand
  /\ NilPointer \notin inHand /\ SmalltalkPointer \notin inHand
  /\ \A o \in Oop : \A x \in PointersOf(field, o) : x \notin inHand

Named ==
  /\ Known \in SUBSET Oop /\ Known \subseteq Live
  /\ Known \subseteq ReachedFrom(field, Base) /\ Known \subseteq ReachedFrom(field, Roots)
  /\ \A o \in Known : PointersOf(field, o) \subseteq Known
  /\ NilPointer \in Known /\ SmalltalkPointer \in Known /\ activeContext \in Known

-----------------------------------------------------------------------------
(***************************************************************************)
(* A routine begins with the calls s; what it releases of what was in hand *)
(* will be counted up.                                                     *)
(***************************************************************************)
Evens(s, fa, fn) ==
  \A x \in Oop \ {NilPointer} :
    Owed(s, x) + Is(fa, x) + Is(fn, x) = Is(activeContext, x) + Is(newProcess, x)

Starts(s, R, fa, fn) ==
  /\ s \in Seq(CallRecord) /\ s # <<>>
  /\ Sound(field, inHand \ R, s)
  /\ Upcoming(s).call \notin {"put", "countDownField"}
  /\ HeldIn(s) \subseteq ReachedFrom(field, Roots)
  /\ \A x \in R \intersect inHand : WillRise(s, x)
  /\ Evens(s, fa, fn)

Starting(fa, fn) ==
  /\ Always' /\ Counted(field', count', todo', inHand', fa, fn)
  /\ Moves(Graph, Roots, Graph', Roots')

Well == \E fa, fn \in Oop : Starting(fa, fn) /\ Stage(fa, fn)'

-----------------------------------------------------------------------------
(***************************************************************************)
(* The calls of a collection neither store nor set registers, and hold     *)
(* what the collection keeps.                                              *)
(***************************************************************************)
Gentle(f, s, V) ==
  /\ s \in Seq(CallRecord) /\ Sound(f, {}, s) /\ HeldIn(s) \subseteq V
  /\ Upcoming(s).call \in {"abort", "attemptAgain", "countUp", "zero", "mark", "rectify"}

ChainGentle(f, g, V) ==
  /\ Gentle(f, Recount1(g), V) /\ Gentle(f, Recount0(g), V) /\ Gentle(f, Rectify(g), V)
  /\ Gentle(f, Mark4(g), V) /\ Gentle(f, Mark3(g), V) /\ Gentle(f, Mark2(g), V)
  /\ Gentle(f, Mark1(g), V) /\ Gentle(f, Mark0(g), V)

Chain(g) == {Mark0(g), Mark1(g), Mark2(g), Mark3(g), Mark4(g), Rectify(g)}

KeptIs ==
  /\ Kept \in SUBSET Oop /\ Anchors \subseteq Kept /\ Closed(field, Kept) /\ Anchors \in SUBSET Oop

(* What is in force from the first call of a collection to the last.       *)
CollectionView ==
  /\ Graph = field /\ Anchors \subseteq Roots /\ Roots \subseteq Kept
  /\ Sound(field, inHand, todo)
  /\ ReachedFrom(Graph, Roots) = Kept /\ Kept \in SUBSET Oop

(***************************************************************************)
(* A step after which a collection is under way, or begins.                *)
(***************************************************************************)
Collects(g) == g \in Goals /\ GoalKept(g) /\ (Marking(g) \/ Rectifying(g))

Proceeds == IInv' /\ Moves(Graph, Roots, Graph', Roots')

AttemptCall(c) ==
  /\ c \in CallRecord /\ todo = Then(c, <<>>) /\ todo # <<>> /\ Head(todo) = c /\ Tail(todo) = <<>>
  /\ Upcoming(todo) = c /\ c.call \in {"attempt", "attemptAgain"} /\ c.index \in Nat \ {0}

AttemptView ==
  /\ Graph = field
  /\ Roots = {NilPointer, SmalltalkPointer, activeContext, newProcess} \union inHand \union HeldAt(todo)

-----------------------------------------------------------------------------
(***************************************************************************)
(* The steps of a collection.                                              *)
(***************************************************************************)
Goes1(s, c, r) == s # <<>> /\ Head(s) = c /\ Tail(s) = r

ChainSteps(g) ==
  /\ Goes1(Mark0(g), zeroReferenceCounts, Mark1(g))
  /\ Goes1(Mark1(g), addRoot(NilPointer), Mark2(g))
  /\ Goes1(Mark2(g), addRoot(SmalltalkPointer), Mark3(g))
  /\ Goes1(Mark3(g), addRoot(activeContext), Mark4(g))
  /\ newProcess # NilPointer => Goes1(Mark4(g), addRoot(newProcess), Rectify(g))
  /\ Goes1(Rectify(g), rectify, Recount0(g))

(* Which call of a collection is next says how far it has come.            *)
AtZero(g) == todo = Mark0(g) /\ Head(todo) = zeroReferenceCounts /\ Tail(todo) = Mark1(g)
AtMark(g) ==
  \/ /\ todo = Mark1(g) /\ Marks(Anchors)
     /\ Head(todo) = addRoot(NilPointer) /\ Tail(todo) = Mark2(g)
  \/ /\ todo = Mark2(g) /\ Marks({SmalltalkPointer, activeContext, newProcess} \ {NilPointer})
     /\ Head(todo) = addRoot(SmalltalkPointer) /\ Tail(todo) = Mark3(g)
  \/ /\ todo = Mark3(g) /\ Marks({activeContext, newProcess} \ {NilPointer})
     /\ Head(todo) = addRoot(activeContext) /\ Tail(todo) = Mark4(g)
  \/ /\ todo = Mark4(g) /\ newProcess # NilPointer /\ Marks({newProcess})
     /\ Head(todo) = addRoot(newProcess) /\ Tail(todo) = Rectify(g)
AtRectify(g) == Rectifying(g) /\ Head(todo) = rectify /\ Tail(todo) = Recount0(g)

(* One more root is marked, with all that can be reached from it.          *)
MarkedFrom(v) ==
  [o \in Oop |-> IF count[o] = 1 \/ o \in ReachedFrom(field, {v}) THEN 1 ELSE 0]

Unmarked(o) == [count EXCEPT ![o] = withoutMark(@)]

-----------------------------------------------------------------------------
(***************************************************************************)
(* Where the program may be, and the call that is next in each case.       *)
(***************************************************************************)
Midway ==
  \E fa, fn \in Oop :
    Counted(field, count, todo, inHand, fa, fn) /\ Stage(fa, fn) /\ Goes(todo)

Tries == Counted(field, count, todo, inHand, activeContext, newProcess) /\ Attempting

Gathers == inHand = {} /\ \E g : Collects(g)

CountNames == {"countUp", "countDown", "countDownField", "put", "activeContext", "newProcess"}

-----------------------------------------------------------------------------
(***************************************************************************)
(* The initial states.                                                     *)
(***************************************************************************)
Imaged(class, p, c) ==
  /\ class \in {NilPointer, SmalltalkPointer}
  /\ p \in Oop \ {NilPointer, SmalltalkPointer} /\ c \in Oop \ {NilPointer, SmalltalkPointer} /\ p # c
  /\ field = ImageOf(class, p, c) /\ activeContext = c
  /\ \A o \in Oop : count[o] = IF o = NilPointer THEN Sticky
                               ELSE Saturated(ReferencesFrom(field, Oop, o) + Is(c, o))
  /\ newProcess = NilPointer /\ inHand = {} /\ todo = <<>> /\ pending = {}
  /\ count \in [Oop -> {count[o] : o \in Oop}]

ImageFields(class, p, c) ==
  /\ field \in Heap /\ class \in Oop
  /\ field[NilPointer] = <<SmalltalkPointer>> /\ field[SmalltalkPointer] = <<class, p>>
  /\ field[p] = <<class, c>> /\ field[c] = <<class, NilPointer>>
  /\ \A o \in Oop \ {NilPointer, SmalltalkPointer, p, c} : field[o] = <<>>
  /\ Objects(field) = {NilPointer, SmalltalkPointer, p, c}

GInv == Graph \in Heap /\ Roots \in SUBSET Oop /\ ReachedFrom(Graph, Roots) \subseteq Objects(Graph)

(***************************************************************************)
(* With one object in hand at a time, and nil the class of every instance, *)
(* what the hypothesis asks for is so: no object is in hand when another   *)
(* is allocated.                                                           *)
(***************************************************************************)
Confined == MaxInHand <= 1 /\ Classes \subseteq {NilPointer}

=================================================================================
