----------------------------- MODULE ObjectGraph -----------------------------
(***************************************************************************)
(* What an object memory promises the program that uses it, whatever it    *)
(* counts or marks: an object that can be reached from the registers is    *)
(* there, its pointers are what was stored last, and only objects that     *)
(* cannot be reached are taken away.                                       *)
(***************************************************************************)
EXTENDS Sequences, Naturals

CONSTANTS Oop, Immediate

VARIABLES
  graph,             \* the pointers of each object; <<>> if there is none
  roots              \* the objects the program holds

gvars == <<graph, roots>>

Pointer == Oop \union {Immediate}
Present == {o \in Oop : graph[o] # <<>>}

PointersOf(p) == {p[i] : i \in DOMAIN p} \ {Immediate}

(* What is in every set that has the roots and what its objects point to.  *)
Enclosing(g, R) ==
  {S \in SUBSET Oop : R \subseteq S /\ \A o \in S : PointersOf(g[o]) \subseteq S}

Reached ==
  LET g == graph
      Sets == Enclosing(g, roots)
  IN  {o \in Oop : \A S \in Sets : o \in S}

ReachedArePresent == Reached \subseteq Present

GraphInit ==
  /\ graph \in [Oop -> Seq(Pointer)]
  /\ roots \subseteq Oop
  /\ ReachedArePresent

-----------------------------------------------------------------------------
(* What the program holds next it could reach already.                     *)
Holds(more) == roots' \subseteq Reached \union more

Allocate ==
  \E o \in Oop \ Present :
    /\ graph'[o] \in Seq(Reached \union {Immediate})
    /\ graph'[o] # <<>>
    /\ graph' = [graph EXCEPT ![o] = graph'[o]]
    /\ Holds({o})

Store ==
  /\ \E o \in Reached, v \in Reached \union {Immediate} :
       \E i \in DOMAIN graph[o] : graph' = [graph EXCEPT ![o][i] = v]
  /\ Holds({})

(* Two objects exchange their pointers.                                    *)
Become ==
  /\ \E a, b \in Reached : graph' = [graph EXCEPT ![a] = graph[b], ![b] = graph[a]]
  /\ Holds({})

Reclaim ==
  /\ \E D \in SUBSET (Present \ Reached) :
       graph' = [o \in Oop |-> IF o \in D THEN <<>> ELSE graph[o]]
  /\ Holds({})

Hold == graph' = graph /\ Holds({})

GraphNext == Hold \/ Reclaim \/ Store \/ Allocate \/ Become

GraphSpec == GraphInit /\ [][GraphNext]_gvars
=============================================================================
