------------------------------ MODULE RefCounts ------------------------------
(***************************************************************************)
(* How the interpreter and the primitives keep the counts of the pointers  *)
(* they hold in registers and C variables, and how a collection marks the  *)
(* objects and counts them anew (objectmemory.c, interpreter.c,            *)
(* primitives.c).                                                          *)
(*                                                                         *)
(* A routine is the sequence todo of the calls it has still to make, each  *)
(* a step of its own.  A count down or a mark is one step: PointerReversal *)
(* shows that the traversal comes to that.  Where chunks are is not told   *)
(* here (ObjectMemory): an entry of the object table is an object or free. *)
(***************************************************************************)
EXTENDS Counting

CONSTANTS
  NilPointer,
  SmalltalkPointer,  \* the root of the image; here also the scheduler
  Classes,           \* the classes the program makes instances of
  Pointers,          \* how many pointers a new object may have
  MaxInHand          \* new objects C variables hold at a time

ASSUME RefCountsAssumption ==
  /\ NilPointer \in Oop /\ SmalltalkPointer \in Oop
  /\ NilPointer # SmalltalkPointer
  /\ Classes \subseteq Oop
  /\ Pointers \subseteq Nat \ {0}
  /\ MaxInHand \in Nat

VARIABLES
  field,             \* the pointers of an object, its class first
  count,             \* the count bits
  activeContext,
  newProcess,        \* NilPointer if none is waiting
  inHand,            \* new objects that only C variables refer to
  todo,              \* the calls the routine under way has still to make
  pending            \* entries rectifyCounts has still to look at

regs == <<activeContext, newProcess>>
vars == <<field, count, regs, inHand, todo, pending>>

Live == Objects(field)

-----------------------------------------------------------------------------
(***************************************************************************)
(* The calls a routine is made of.                                         *)
(***************************************************************************)
Call(name, o, f, v) == [call |-> name, object |-> o, index |-> f, value |-> v]

countUp(v)           == Call("countUp", NilPointer, 0, v)
countDown(v)         == Call("countDown", NilPointer, 0, v)
put(o, f, v)         == Call("put", o, f, v)
setActiveContext(v)  == Call("activeContext", NilPointer, 0, v)
setNewProcess(v)     == Call("newProcess", NilPointer, 0, v)
zeroReferenceCounts  == Call("zero", NilPointer, 0, Immediate)
addRoot(v)           == Call("mark", NilPointer, 0, v)
rectify              == Call("rectify", NilPointer, 0, Immediate)
countDownField(o, f) == Call("countDownField", o, f, Immediate)
attempt(n, class)    == Call("attempt", class, n, Immediate)
attemptAgain(a)      == [a EXCEPT !.call = "attemptAgain"]
abort                == Call("abort", NilPointer, 0, Immediate)

storePointer(o, f, v) == <<countUp(v), countDownField(o, f), put(o, f, v)>>

newActiveContext(c) == <<countDown(activeContext), setActiveContext(c), countUp(c)>>

(* Index 2 stands for the pointer a routine is about: the sender of a      *)
(* context, the suspended context of a process, the first link of a list,  *)
(* the active process of the scheduler.                                    *)
Link == 2

(* Mutant: the context returned to is counted up too late.                 *)
returnCountingUpLate(c) ==
  storePointer(activeContext, Link, NilPointer)
    \o <<countUp(c), countDown(activeContext), setActiveContext(c)>>

returnToActiveContext(c) ==
  <<countUp(c)>> \o storePointer(activeContext, Link, NilPointer)
    \o <<countDown(activeContext), setActiveContext(c)>>

transferTo(p) ==
  (IF newProcess # NilPointer THEN <<countDown(newProcess)>> ELSE <<>>)
    \o <<setNewProcess(p), countUp(p)>>

(* The index of the pointer a returned value is pushed to.                 *)
Top(o) == Len(field[o])

returnValue_to(v, c) ==
  <<countUp(v)>> \o returnToActiveContext(c) \o storePointer(c, Top(c), v)
    \o <<countDown(v)>>

(* The list keeps no reference to the process taken out of it.             *)
removeFirstLinkOfList(l) ==
  <<countUp(field[l][Link])>> \o storePointer(l, Link, NilPointer)

suspendActive(l) ==
  removeFirstLinkOfList(l) \o transferTo(field[l][Link])
    \o <<countDown(field[l][Link])>>

(* Mutant: the registers are not counted up afterwards.                    *)
reclaimUncounted ==
  LET waiting == newProcess # NilPointer
  IN  <<zeroReferenceCounts, addRoot(NilPointer), addRoot(SmalltalkPointer),
        addRoot(activeContext)>>
        \o (IF waiting THEN <<addRoot(newProcess)>> ELSE <<>>)
        \o <<rectify>>

reclaimInaccessibleObjects ==
  LET waiting == newProcess # NilPointer
  IN  <<zeroReferenceCounts, addRoot(NilPointer), addRoot(SmalltalkPointer),
        addRoot(activeContext)>>
        \o (IF waiting THEN <<addRoot(newProcess)>> ELSE <<>>)
        \o <<rectify, countUp(activeContext)>>
        \o (IF waiting THEN <<countUp(newProcess)>> ELSE <<>>)

-----------------------------------------------------------------------------
(***************************************************************************)
(* The calls.  The one to make is the first of todo.                       *)
(***************************************************************************)
Makes(name) == todo # <<>> /\ Head(todo).call = name

countedUp(v) == IF v = Immediate THEN count ELSE [count EXCEPT ![v] = oneMore(@)]

CountUp ==
  /\ Makes("countUp")
  /\ count' = countedUp(Head(todo).value)
  /\ todo' = Tail(todo)
  /\ UNCHANGED <<field, regs, inHand, pending>>

CountDownOf(v) ==
  /\ \/ /\ v = Immediate
        /\ UNCHANGED <<field, count>>
     \/ /\ v # Immediate
        /\ count[v] > 1
        /\ count' = [count EXCEPT ![v] = oneLess(@)]
        /\ UNCHANGED field
     \/ /\ v # Immediate
        /\ count[v] = 1
        /\ LET D == FreedWith(field, count, v)
           IN  /\ ~Undercounted(field, count, v, D)
               /\ field' = FieldsWithout(field, D)
               /\ count' = CountsWithout(field, count, D)
  /\ todo' = Tail(todo)
  /\ UNCHANGED <<regs, inHand, pending>>

Lowered == IF Head(todo).call = "countDown" THEN Head(todo).value
           ELSE field[Head(todo).object][Head(todo).index]

CountDown ==
  /\ Makes("countDown") \/ Makes("countDownField")
  /\ CountDownOf(Lowered)

Put ==
  /\ Makes("put")
  /\ LET p == Head(todo) IN field' = [field EXCEPT ![p.object][p.index] = p.value]
  /\ todo' = Tail(todo)
  /\ UNCHANGED <<count, regs, inHand, pending>>

SetRegister ==
  /\ \/ /\ Makes("activeContext")
        /\ activeContext' = Head(todo).value
        /\ UNCHANGED newProcess
     \/ /\ Makes("newProcess")
        /\ newProcess' = Head(todo).value
        /\ UNCHANGED activeContext
  /\ todo' = Tail(todo)
  /\ UNCHANGED <<field, count, inHand, pending>>

-----------------------------------------------------------------------------
(***************************************************************************)
(* The collection.                                                         *)
(***************************************************************************)
(* Mutant: the counts are left to stand for marks.                         *)
ZeroNothing ==
  /\ Makes("zero")
  /\ pending' = Live
  /\ todo' = Tail(todo)
  /\ UNCHANGED <<field, count, regs, inHand>>

ZeroReferenceCounts ==
  /\ Makes("zero")
  /\ count' = [o \in Oop |-> 0]
  /\ pending' = Live
  /\ todo' = Tail(todo)
  /\ UNCHANGED <<field, regs, inHand>>

MarkObjectsAccessibleFrom ==
  /\ Makes("mark")
  /\ count' = [o \in Oop |-> IF count[o] = 1 \/ o \in ReachedFrom(field, {Head(todo).value})
                             THEN 1 ELSE 0]
  /\ todo' = Tail(todo)
  /\ UNCHANGED <<field, regs, inHand, pending>>

(* Mutant: the mark is counted as a reference.                             *)
withMark(c) == c

withoutMark(c) == IF c < Sticky THEN c - 1 ELSE c

(* What the count bits say of n references.                                *)
Saturated(n) == IF n <= Sticky THEN n ELSE Sticky

(* Every pointer of o is counted up, as often as it is there.              *)
countedFrom(o, counts) ==
  [x \in Oop |-> Saturated(counts[x] + ReferencesFrom(field, {o}, x))]

RectifyOrDeallocate ==
  /\ Makes("rectify")
  /\ \E o \in pending :
       /\ IF count[o] = 0
          THEN field' = FieldsWithout(field, {o}) /\ UNCHANGED count
          ELSE /\ count' = countedFrom(o, [count EXCEPT ![o] = withoutMark(@)])
               /\ UNCHANGED field
       /\ pending' = pending \ {o}
  /\ UNCHANGED <<regs, inHand, todo>>

RectifyEnds ==
  /\ Makes("rectify")
  /\ pending = {}
  /\ count' = [count EXCEPT ![NilPointer] = Sticky]
  /\ todo' = Tail(todo)
  /\ UNCHANGED <<field, regs, inHand, pending>>

(***************************************************************************)
(* An allocation, after the count of the class has gone up.                *)
(***************************************************************************)
AttemptToAllocate ==
  /\ Makes("attempt") \/ Makes("attemptAgain")
  /\ \E o \in Oop \ Live :
       /\ field' = [field EXCEPT ![o] =
                      [i \in 1 .. Head(todo).index |->
                         IF i = 1 THEN Head(todo).object ELSE NilPointer]]
       /\ inHand' = inHand \union {o}
  /\ todo' = Tail(todo)
  /\ UNCHANGED <<count, regs, pending>>

AllocateChunkCollects ==
  /\ Makes("attempt")
  /\ Live = Oop
  /\ todo' = reclaimInaccessibleObjects \o <<attemptAgain(Head(todo))>>
  /\ UNCHANGED <<field, count, regs, inHand, pending>>

OutOfMemoryError ==
  /\ Makes("attemptAgain")
  /\ Live = Oop
  /\ todo' = <<abort>>
  /\ UNCHANGED <<field, count, regs, inHand, pending>>

-----------------------------------------------------------------------------
(***************************************************************************)
(* The objects as the program sees them: what a routine is about to do is  *)
(* done once it counts down what it does away with.                        *)
(***************************************************************************)
Ending ==
  IF Len(todo) > 1 /\ Head(todo).call \in {"countDown", "countDownField"}
  THEN todo[2] ELSE Head(todo)

EndsIn(name) == todo # <<>> /\ Ending.call = name

Graph ==
  IF EndsIn("put") THEN [field EXCEPT ![Ending.object][Ending.index] = Ending.value]
  ELSE field

Registers ==
  {IF EndsIn("activeContext") THEN Ending.value ELSE activeContext,
   IF EndsIn("newProcess") THEN Ending.value ELSE newProcess}

ValuesIn(c) == {c.value, c.object} \intersect Oop

HeldByCalls ==
  (UNION {ValuesIn(todo[i]) : i \in 2 .. Len(todo)})
    \union (IF todo = <<>> \/ Head(todo).call = "countDown" THEN {}
            ELSE ValuesIn(Head(todo)))

Roots == {NilPointer, SmalltalkPointer} \union Registers \union inHand \union HeldByCalls

G == INSTANCE ObjectGraph WITH graph <- Graph, roots <- Roots

(* What the program may name: it has no way to the register newProcess.    *)
Known == ReachedFrom(field, {NilPointer, SmalltalkPointer, activeContext} \union inHand)

-----------------------------------------------------------------------------
(***************************************************************************)
(* The routines of the interpreter and the primitives.                     *)
(***************************************************************************)
Idle == todo = <<>>

Begins(calls, released) ==
  /\ todo' = calls
  /\ inHand' = inHand \ released
  /\ UNCHANGED <<field, count, regs, pending>>

HasLink(o) == Len(field[o]) >= Link
LinkOf(o) == IF HasLink(o) THEN field[o][Link] ELSE NilPointer
LinksToObject(o) == LinkOf(o) \notin {NilPointer, Immediate}

(* A bytecode or a primitive stores a pointer; nil and the class of an     *)
(* object are left alone.                                                  *)
Store ==
  /\ Idle
  /\ \E o \in Known \ {NilPointer}, v \in Known \union {Immediate} :
       \E f \in DOMAIN field[o] \ {1} : Begins(storePointer(o, f, v), {v})

(* A class is an object of the image, or has been stored since it was new. *)
Allocate ==
  /\ Idle
  /\ Cardinality(inHand) < MaxInHand
  /\ \E n \in Pointers, class \in (Known \intersect Classes) \ inHand :
       Begins(<<countUp(class), attempt(n, class)>>, {})

(* activateNewMethod and primitiveValue: the context that becomes active   *)
(* refers to the one that was.                                             *)
Activate ==
  /\ Idle
  /\ \E c \in Known \ {NilPointer, SmalltalkPointer} :
       /\ HasLink(c)
       /\ Begins(storePointer(c, Link, activeContext) \o newActiveContext(c), {c})

(* What is returned is in the active context, or a constant.               *)
returnBytecode ==
  /\ Idle
  /\ HasLink(activeContext) /\ LinksToObject(activeContext)
  /\ \E v \in PointersOf(field, activeContext) \union {NilPointer, Immediate} :
       /\ HasLink(LinkOf(activeContext))
       /\ Begins(returnValue_to(v, LinkOf(activeContext)), {v})

(* A process, which has a suspended context, is taken from a list, or is   *)
(* the receiver of a primitive.                                            *)
WakeFirst ==
  /\ Idle
  /\ \E l \in Known \ {NilPointer} :
       LinksToObject(l) /\ LinksToObject(LinkOf(l)) /\ Begins(suspendActive(l), {})

resume ==
  /\ Idle
  /\ \E p \in Known \ {NilPointer} : LinksToObject(p) /\ Begins(transferTo(p), {p})

contextOf(p) == IF p = LinkOf(SmalltalkPointer) THEN activeContext ELSE LinkOf(p)

checkProcessSwitch ==
  /\ Idle
  /\ newProcess # NilPointer /\ newProcess # SmalltalkPointer
  /\ HasLink(newProcess) /\ LinksToObject(newProcess)
  /\ LinksToObject(SmalltalkPointer) /\ HasLink(LinkOf(SmalltalkPointer))
  /\ Begins(storePointer(LinkOf(SmalltalkPointer), Link, activeContext)
              \o storePointer(SmalltalkPointer, Link, newProcess)
              \o newActiveContext(contextOf(newProcess))
              \o <<countDown(newProcess), setNewProcess(NilPointer)>>, {})

(* memWarn and primitiveSnapshot collect; no C variable holds an object.   *)
garbageCollect ==
  /\ Idle
  /\ inHand = {}
  /\ Begins(reclaimInaccessibleObjects, {})

(* become: the pointers change places, and counts stay with the entry.     *)
swapPointersOf ==
  /\ Idle
  /\ \E a, b \in Known \ {NilPointer} :
       /\ a # b
       /\ field' = [field EXCEPT ![a] = field[b], ![b] = field[a]]
  /\ UNCHANGED <<count, regs, inHand, todo, pending>>

-----------------------------------------------------------------------------
(***************************************************************************)
(* An image: nil, whose class keeps the system dictionary, the process     *)
(* that is active, and its context.  The counts are those of the file, and *)
(* INTERP_Init counts the context up once more.                            *)
(***************************************************************************)
ImageOf(class, p, c) ==
  [o \in Oop |-> CASE o = NilPointer       -> <<SmalltalkPointer>>
                   [] o = SmalltalkPointer -> <<class, p>>
                   [] o = p                -> <<class, c>>
                   [] o = c                -> <<class, NilPointer>>
                   [] OTHER                -> <<>>]

Init ==
  /\ \E class \in Classes \intersect {NilPointer, SmalltalkPointer},
        p, c \in Oop \ {NilPointer, SmalltalkPointer} :
       /\ p # c
       /\ field = ImageOf(class, p, c)
       /\ count = [o \in Oop |->
                     IF o = NilPointer THEN Sticky
                     ELSE Saturated(ReferencesFrom(field, Oop, o)
                                      + (IF o = c THEN 1 ELSE 0))]
       /\ activeContext = c
  /\ newProcess = NilPointer
  /\ inHand = {}
  /\ todo = <<>>
  /\ pending = {}

Program == Store \/ Allocate \/ Activate \/ returnBytecode \/ WakeFirst \/ resume
             \/ checkProcessSwitch \/ garbageCollect \/ swapPointersOf

Calls == CountUp \/ CountDown \/ Put \/ SetRegister
           \/ ZeroReferenceCounts \/ MarkObjectsAccessibleFrom
           \/ RectifyOrDeallocate \/ RectifyEnds
           \/ AttemptToAllocate \/ AllocateChunkCollects \/ OutOfMemoryError

Next == Program \/ Calls

Spec == Init /\ [][Next]_vars

-----------------------------------------------------------------------------
References(o) ==
  ReferencesFrom(field, Live, o) + (IF activeContext = o THEN 1 ELSE 0)
                                 + (IF newProcess = o THEN 1 ELSE 0)

(***************************************************************************)
(* Between two routines a count is exact, or it sticks; and every object   *)
(* has a reference, but for those that C variables alone refer to.         *)
(***************************************************************************)
CountsExact ==
  Idle => /\ \A o \in Oop : count[o] \in {References(o), Sticky}
          /\ \A o \in Live \ inHand : count[o] > 0

(***************************************************************************)
(* The program sees nothing of counts, marks and the order of the calls:   *)
(* what it can reach, in any step of any routine, is there and is what it  *)
(* stored.                                                                 *)
(***************************************************************************)
ImplementsGraph == G!GraphSpec

(***************************************************************************)
(* The RUNTIME_CHECK of countDown:, and that of pred0 in the traversal: no *)
(* count down comes to an object that has no count left.                   *)
(***************************************************************************)
ChecksPass ==
  (Makes("countDown") \/ Makes("countDownField")) /\ Lowered # Immediate =>
    /\ count[Lowered] > 0
    /\ count[Lowered] = 1 =>
         ~Undercounted(field, count, Lowered, FreedWith(field, count, Lowered))

(***************************************************************************)
(* A collection leaves what can be reached and nothing else.               *)
(***************************************************************************)
CollectionComplete ==
  Makes("rectify") /\ pending = {} => Live = G!Reached
=============================================================================
