-------------------------- MODULE ObjectMemoryProofs --------------------------
(***************************************************************************)
(* Proofs about ObjectMemory for every number of object pointers and       *)
(* segments and every size of segment and of chunk lists, when no pointer  *)
(* object is large enough to have an extra word.  (With those the          *)
(* invariants fail after a collection: see ChunkSizeActual.)               *)
(***************************************************************************)
EXTENDS ObjectMemory, FiniteSetTheorems, TLAPS

NoHugePointers == \A r \in Requests : r.pointer => r.size < HugeSize

-----------------------------------------------------------------------------
(***************************************************************************)
(* The parts of the inductive invariant.                                   *)
(***************************************************************************)
After(e) == e.location + e.size
Before(e, f) == After(e) <= f.location
Apart(e, f) == e.segment = f.segment => Before(e, f) \/ Before(f, e)

(* An entry has an extra word only if it is huge, and none is.             *)
NoExtraWords == \A o \in InUse : ot[o].pointer => ot[o].size < HugeSize

Fits == \A o \in InUse : After(ot[o]) <= HeapSpaceStop + 1

Layout == \A o, p \in InUse : o # p => Apart(ot[o], ot[p])

(* EntriesAccountedFor, by elements.                                       *)
Accounted ==
  /\ \A o \in allocated : o \in InUse /\ o \notin pending
  /\ \A o \in pending : o \in InUse
  /\ \A o \in InUse : o \in allocated \/ o \in pending
       \/ \E s \in Segment, n \in ListSize : o \in freeChunks[s][n]
  /\ \A s \in Segment, n \in ListSize : \A o \in freeChunks[s][n] :
       /\ o \in InUse /\ o \notin allocated /\ o \notin pending
       /\ ot[o].segment = s
       /\ n = listFor(ot[o].size) \/ n = BigSize
       /\ \A m \in ListSize : o \in freeChunks[s][m] => m = n

(* What each value of pc says of the allocation under way.                 *)
Phases ==
  /\ pc # "rectify" => pending = {}
  /\ pc = "mutator" => request = Nothing
  /\ pc \in {"attempt", "sweep", "outOfMemory"} => request \in Requests

(***************************************************************************)
(* During a sweep the objects of the segment that have been moved end      *)
(* below di, and the others, with the abandoned chunks, begin at si or     *)
(* above and are apart.  Something was or will be skipped.                 *)
(***************************************************************************)
PieceEnd(c) == c[1] + c[2]

MovedOrAhead ==
  \A o \in InUse : ot[o].segment = currentSegment =>
    After(ot[o]) <= sweep.di \/ sweep.si <= ot[o].location

PiecesAhead ==
  \A c \in sweep.abandoned :
    /\ sweep.si <= c[1]
    /\ HeaderSize <= c[2]
    /\ PieceEnd(c) <= HeapSpaceStop + 1

PiecesApart ==
  /\ \A c, d \in sweep.abandoned : c # d => PieceEnd(c) <= d[1] \/ PieceEnd(d) <= c[1]
  /\ \A c \in sweep.abandoned, o \in InUse :
       ot[o].segment = currentSegment /\ sweep.si <= ot[o].location
         => PieceEnd(c) <= ot[o].location \/ After(ot[o]) <= c[1]

SweepRight ==
  /\ sweep.di <= sweep.si
  /\ sweep.si <= HeapSpaceStop + 1
  /\ sweep.abandoned # {} \/ sweep.di + HeaderSize <= sweep.si
  /\ MovedOrAhead
  /\ PiecesAhead
  /\ PiecesApart

(* NoWordLost, for entries without extra words.                            *)
Covers(o, s, w) == ot[o].segment = s /\ ot[o].location <= w /\ w < After(ot[o])

Covered ==
  \A s \in Segment, w \in Word :
    w < HeapSpaceStop => (\E o \in InUse : Covers(o, s, w)) \/ SweptOver(s, w)

IInv ==
  /\ TypeOK
  /\ NoExtraWords
  /\ Fits
  /\ Layout
  /\ Accounted
  /\ Phases
  /\ pc = "sweep" => SweepRight
  /\ Covered
  /\ ContentsIntact
  /\ OopsLeftExact

-----------------------------------------------------------------------------
(***************************************************************************)
(* Facts about the operators.                                              *)
(***************************************************************************)
LEMMA ConstantFacts ==
  /\ HeapSegmentCount \in Nat /\ HeapSegmentCount >= 1
  /\ HeapSpaceStop \in Nat /\ BigSize \in Nat /\ BigSize >= 2 /\ HugeSize \in Nat
  /\ MaxFreeWords \in Nat /\ HeaderSize = 2
  /\ BigSize \in ListSize /\ 0 \notin Segment
  BY SizesAssumption DEF HeaderSize, ListSize, Segment

LEMMA EntryFields ==
  ASSUME NEW e \in Entry
  PROVE  /\ e.segment \in Segment /\ e.location \in Nat /\ e.size \in Nat
         /\ e.size >= 2 /\ e.pointer \in BOOLEAN
         /\ e # FreeEntry
  BY ConstantFacts DEF Entry, ChunkSize, FreeEntry

LEMMA ListForSize ==
  ASSUME NEW n \in Nat, n >= 2
  PROVE  listFor(n) \in ListSize
  BY ConstantFacts DEF listFor, ListSize

LEMMA RequestFields ==
  ASSUME NEW r \in Requests
  PROVE  /\ r.size \in Nat /\ r.size >= 2 /\ r.pointer \in BOOLEAN
         /\ r # Nothing
         /\ r = [size |-> r.size, pointer |-> r.pointer]
  BY RequestsAssumption, ConstantFacts DEF Nothing

(* With no huge pointer object, what is wanted is the size of the request. *)
LEMMA WantedIsSize ==
  ASSUME NoHugePointers, request \in Requests
  PROVE  Wanted = request.size /\ Wanted \in Nat /\ Wanted >= 2
<1>1. request.pointer => request.size < HugeSize
  BY DEF NoHugePointers
<1>2. request.size \in Nat /\ request.size >= 2
  BY RequestFields
<1>3. ~(request.size >= HugeSize /\ request.pointer)
  BY <1>1, <1>2, ConstantFacts
<1> QED BY <1>2, <1>3 DEF Wanted, spaceOccupiedBy, spaceOf

(* In a state with the invariant, an entry in use occupies its size.       *)
LEMMA InUseFields ==
  ASSUME TypeOK, NoExtraWords, NEW o \in InUse
  PROVE  /\ o \in Oop /\ ot[o] \in Entry
         /\ spaceOccupiedBy(ot[o]) = ot[o].size
         /\ ot[o].segment \in Segment /\ ot[o].location \in Nat
         /\ ot[o].size \in Nat /\ ot[o].size >= 2 /\ ot[o].pointer \in BOOLEAN
<1>1. o \in Oop /\ ot[o] \in Entry
  BY DEF TypeOK, InUse, FreePointers
<1>2. ot[o].pointer => ot[o].size < HugeSize
  BY DEF NoExtraWords
<1> QED BY <1>1, <1>2, EntryFields, ConstantFacts DEF spaceOccupiedBy, spaceOf

Table == [Oop -> Entry \union {FreeEntry}]
Lists == [Segment -> [ListSize -> SUBSET Oop]]
Memory == [Segment -> [Word -> {Junk} \union (Oop \X Nat)]]

LEMMA AddToList ==
  ASSUME NEW lists \in Lists, NEW o \in Oop, NEW e \in Entry, NEW r,
         r = toFreeChunkList(lists, o, e)
  PROVE  /\ r \in Lists
         /\ \A s \in Segment, n \in ListSize, p \in Oop :
              p \in r[s][n] <=> \/ p \in lists[s][n]
                                \/ p = o /\ s = e.segment /\ n = listFor(e.size)
<1>1. e.segment \in Segment /\ listFor(e.size) \in ListSize
  BY EntryFields, ListForSize
<1>2. r \in Lists
  BY <1>1 DEF toFreeChunkList, Lists
<1>3. ASSUME NEW s \in Segment, NEW n \in ListSize
      PROVE  r[s][n] = IF s = e.segment /\ n = listFor(e.size)
                       THEN lists[s][n] \union {o} ELSE lists[s][n]
  BY <1>1 DEF toFreeChunkList, Lists
<1>4. ASSUME NEW s \in Segment, NEW n \in ListSize, NEW p \in Oop
      PROVE  p \in r[s][n] <=> \/ p \in lists[s][n]
                               \/ p = o /\ s = e.segment /\ n = listFor(e.size)
  <2>1. CASE s = e.segment /\ n = listFor(e.size)
    <3>1. r[s][n] = lists[s][n] \union {o}
      BY <1>3, <2>1
    <3> QED BY <3>1, <2>1
  <2>2. CASE ~(s = e.segment /\ n = listFor(e.size))
    <3>1. r[s][n] = lists[s][n]
      BY <1>3, <2>2
    <3> QED BY <3>1, <2>2
  <2> QED BY <2>1, <2>2
<1> QED BY <1>2, <1>4

LEMMA ContentWritten ==
  ASSUME NEW m \in Memory, NEW t \in Segment, NEW l \in Nat, NEW n \in Nat, NEW o \in Oop
  PROVE  LET r == WithContent(m, t, l, n, o)
         IN  /\ r \in Memory
             /\ \A s \in Segment, w \in Word :
                  r[s][w] = IF s = t /\ l <= w /\ w < l + n THEN <<o, w - l>> ELSE m[s][w]
<1> DEFINE r == WithContent(m, t, l, n, o)
           f == [w \in Word |-> IF l <= w /\ w < l + n THEN <<o, w - l>> ELSE m[t][w]]
<1>1. r = [m EXCEPT ![t] = f]
  BY DEF WithContent, Memory
<1>2. f \in [Word -> {Junk} \union (Oop \X Nat)]
  <2>1. \A w \in Word : w \in Nat
    BY ConstantFacts DEF Word
  <2>2. ASSUME NEW w \in Word, l <= w
        PROVE  <<o, w - l>> \in Oop \X Nat
    BY <2>1, <2>2
  <2>3. \A w \in Word : m[t][w] \in {Junk} \union (Oop \X Nat)
    BY DEF Memory
  <2> QED BY <2>2, <2>3
<1> HIDE DEF f
<1>3. r \in Memory
  BY <1>1, <1>2 DEF Memory
<1>4. \A s \in Segment : r[s] = IF s = t THEN f ELSE m[s]
  BY <1>1 DEF Memory
<1>5. \A w \in Word : f[w] = IF l <= w /\ w < l + n THEN <<o, w - l>> ELSE m[t][w]
  BY DEF f
<1> HIDE DEF r
<1>6. \A s \in Segment, w \in Word :
        r[s][w] = IF s = t /\ l <= w /\ w < l + n THEN <<o, w - l>> ELSE m[s][w]
  BY <1>4, <1>5
<1> QED BY <1>3, <1>6 DEF r

LEMMA JunkWritten ==
  ASSUME NEW m \in Memory, NEW t \in Segment, NEW l \in Nat, NEW n \in Nat,
         NEW r, r = WithJunk(m, t, l, n)
  PROVE  /\ r \in Memory
         /\ \A s \in Segment, w \in Word :
              r[s][w] = IF s = t /\ l <= w /\ w < l + n THEN Junk ELSE m[s][w]
<1> DEFINE f == [w \in Word |-> IF l <= w /\ w < l + n THEN Junk ELSE m[t][w]]
<1>1. r = [m EXCEPT ![t] = f]
  BY DEF WithJunk, Memory
<1>2. f \in [Word -> {Junk} \union (Oop \X Nat)]
  BY DEF Memory
<1>3. \A w \in Word : f[w] = IF l <= w /\ w < l + n THEN Junk ELSE m[t][w]
  BY DEF f
<1> HIDE DEF f
<1>4. r \in Memory
  BY <1>1, <1>2 DEF Memory
<1>5. \A s \in Segment : r[s] = IF s = t THEN f ELSE m[s]
  BY <1>1 DEF Memory
<1> QED BY <1>3, <1>4, <1>5

LEMMA FreeOopsFinite ==
  ASSUME NEW S
  PROVE  IsFiniteSet(Oop \ S) /\ Cardinality(Oop \ S) \in Nat
  BY SizesAssumption, FS_Difference, FS_CardinalityType

-----------------------------------------------------------------------------
(***************************************************************************)
(* The steps that leave the table and the words alone.                     *)
(***************************************************************************)
LEMMA SameTable ==
  ASSUME IInv, UNCHANGED <<ot, words>>, allocated' \subseteq allocated
  PROVE  /\ NoExtraWords' /\ Fits' /\ Layout' /\ ContentsIntact'
         /\ InUse' = InUse
         /\ pc # "sweep" => Covered'
<1>1. InUse' = InUse
  BY DEF InUse, FreePointers
<1>2. NoExtraWords' /\ Fits' /\ Layout'
  BY <1>1 DEF IInv, NoExtraWords, Fits, Layout, Apart, Before, After
<1>3. ContentsIntact'
  BY DEF IInv, ContentsIntact
<1>4. ASSUME pc # "sweep" PROVE Covered'
  <2> SUFFICES ASSUME NEW s \in Segment, NEW w \in Word, w < HeapSpaceStop
               PROVE  \E o \in InUse : Covers(o, s, w)'
    BY <1>1 DEF Covered
  <2>1. PICK o \in InUse : Covers(o, s, w)
    BY <1>4 DEF IInv, Covered, SweptOver
  <2> QED BY <2>1 DEF Covers, After
<1> QED BY <1>1, <1>2, <1>3, <1>4

LEMMA AllocateStep ==
  ASSUME IInv, NEW r \in Requests, allocate(r)
  PROVE  IInv'
<1> USE DEF allocate, table
<1>1. TypeOK'
  <2>1. 0 \in 0 .. HeapSegmentCount
    BY ConstantFacts
  <2> QED BY <2>1 DEF IInv, TypeOK
<1>2. Accounted'
  BY SameTable DEF IInv, Accounted
<1>3. Phases'
  BY DEF IInv, Phases
<1>4. OopsLeftExact'
  BY DEF IInv, OopsLeftExact, auditFreeOops
<1> QED BY <1>1, <1>2, <1>3, <1>4, SameTable DEF IInv

LEMMA OutOfMemoryStep ==
  ASSUME IInv, outOfMemoryError
  PROVE  IInv'
<1> USE DEF outOfMemoryError, NoChunkHere, table
<1>1. TypeOK'
  BY DEF IInv, TypeOK
<1>2. Accounted'
  BY SameTable DEF IInv, Accounted
<1>3. Phases'
  BY DEF IInv, Phases
<1>4. OopsLeftExact'
  BY DEF OopsLeftExact
<1> QED BY <1>1, <1>2, <1>3, <1>4, SameTable DEF IInv

LEMMA RectifyEndStep ==
  ASSUME IInv, rectifyEnd
  PROVE  IInv'
<1> USE DEF rectifyEnd, table, progress
<1>1. TypeOK'
  <2>1. freeOops' \in Int
    BY FreeOopsFinite DEF auditFreeOops
  <2>2. pc' \in {"mutator", "attempt"}
    OBVIOUS
  <2> QED BY <2>1, <2>2 DEF IInv, TypeOK
<1>2. Accounted'
  BY SameTable DEF IInv, Accounted
<1>3. Phases'
  BY DEF IInv, Phases, TypeOK
<1>4. OopsLeftExact'
  BY DEF OopsLeftExact, auditFreeOops
<1> QED BY <1>1, <1>2, <1>3, <1>4, SameTable DEF IInv

LEMMA AbandonStep ==
  ASSUME IInv, NEW o, Abandon(o)
  PROVE  IInv'
<1> USE DEF Abandon, progress
<1>1. TypeOK'
  BY DEF IInv, TypeOK
<1>2. Accounted'
  BY SameTable DEF IInv, Accounted
<1>3. Phases'
  BY DEF IInv, Phases
<1>4. OopsLeftExact'
  BY DEF IInv, OopsLeftExact, auditFreeOops
<1> QED BY <1>1, <1>2, <1>3, <1>4, SameTable DEF IInv

(* A collection begins: what is not reachable is pending, all lists empty. *)
LEMMA ReclaimStep ==
  ASSUME IInv, reclaimInaccessibleObjects, pc \in {"mutator", "attempt"},
         compacted' \in 0 .. HeapSegmentCount, collected' \in BOOLEAN, starved' \in BOOLEAN
  PROVE  IInv'
<1> USE DEF reclaimInaccessibleObjects
<1>0. reachable \subseteq allocated /\ InUse \subseteq Oop
  BY DEF IInv, TypeOK, InUse
<1>1. TypeOK'
  BY <1>0 DEF IInv, TypeOK, listsReset
<1>2. Accounted'
  <2>1. InUse' = InUse
    BY <1>0, SameTable
  <2>2. \A s \in Segment, n \in ListSize : freeChunks'[s][n] = {}
    BY DEF listsReset
  <2>3. \A o \in reachable : o \in InUse /\ o \notin pending'
    BY <1>0 DEF IInv, Accounted
  <2> QED BY <2>1, <2>2, <2>3 DEF Accounted
<1>3. Phases'
  BY DEF IInv, Phases
<1>4. OopsLeftExact'
  BY DEF OopsLeftExact
<1> QED BY <1>0, <1>1, <1>2, <1>3, <1>4, SameTable DEF IInv

-----------------------------------------------------------------------------
(***************************************************************************)
(* Deallocation: the entry keeps its words and joins a list.               *)
(***************************************************************************)
LEMMA WordsOfObject ==
  ASSUME IInv, NEW o \in InUse, NEW i \in 0 .. ot[o].size - 1
  PROVE  /\ i \in Nat /\ i < ot[o].size
         /\ ot[o].location + i \in Word
         /\ ot[o].location <= ot[o].location + i
         /\ ot[o].location + i < After(ot[o])
<1>1. ot[o].location \in Nat /\ ot[o].size \in Nat
  BY InUseFields DEF IInv
<1>2. ot[o].location + ot[o].size <= HeapSpaceStop + 1
  BY DEF IInv, Fits, After
<1> QED BY <1>1, <1>2, ConstantFacts DEF Word, After

LEMMA OthersAside ==
  ASSUME IInv, NEW o \in InUse, NEW p \in InUse, o # p, ot[o].segment = ot[p].segment,
         NEW w \in Int, ot[o].location <= w, w < After(ot[o])
  PROVE  ~(ot[p].location <= w /\ w < After(ot[p]))
<1>1. /\ ot[o].location \in Nat /\ ot[o].size \in Nat
      /\ ot[p].location \in Nat /\ ot[p].size \in Nat
  BY InUseFields DEF IInv
<1>2. After(ot[o]) <= ot[p].location \/ After(ot[p]) <= ot[o].location
  BY DEF IInv, Layout, Apart, Before
<1> QED BY <1>1, <1>2 DEF After

LEMMA DeallocateEffect ==
  ASSUME IInv, NEW o \in InUse, deallocate(o)
  PROVE  /\ ot' = ot
         /\ freeChunks' \in Lists
         /\ \A s \in Segment, n \in ListSize, p \in Oop :
              p \in freeChunks'[s][n] <=>
                \/ p \in freeChunks[s][n]
                \/ p = o /\ s = ot[o].segment /\ n = listFor(ot[o].size)
         /\ words' \in Memory
         /\ \A p \in InUse \ {o} : \A i \in 0 .. ot[p].size - 1 :
              words'[ot[p].segment][ot[p].location + i]
                = words[ot[p].segment][ot[p].location + i]
         /\ freeWords' \in Nat
<1> DEFINE e == deallocated(ot[o])
<1>1. /\ o \in Oop /\ ot[o] \in Entry /\ spaceOccupiedBy(ot[o]) = ot[o].size
      /\ ot[o].segment \in Segment /\ ot[o].location \in Nat /\ ot[o].size \in Nat
  BY InUseFields DEF IInv
<1>2. e = ot[o]
  <2>1. e = [ot[o] EXCEPT !.size = ot[o].size]
    BY <1>1 DEF deallocated
  <2> QED BY <2>1, <1>1 DEF Entry
<1>3. ot' = ot
  <2>1. ot' = [ot EXCEPT ![o] = ot[o]]
    BY <1>2 DEF deallocate
  <2> QED BY <2>1 DEF IInv, TypeOK
<1>4. freeChunks' = toFreeChunkList(freeChunks, o, ot[o])
  BY <1>2 DEF deallocate
<1>5. freeChunks \in Lists /\ words \in Memory
  BY DEF IInv, TypeOK, Lists, Memory
<1>6. words' = WithJunk(words, ot[o].segment, ot[o].location, ot[o].size)
  BY <1>2 DEF deallocate
<1>7. /\ words' \in Memory
      /\ \A s \in Segment, w \in Word :
           words'[s][w] = IF s = ot[o].segment /\ ot[o].location <= w /\ w < After(ot[o])
                          THEN Junk ELSE words[s][w]
  <2> DEFINE t == ot[o].segment
             l == ot[o].location
             n == ot[o].size
  <2>1. t \in Segment /\ l \in Nat /\ n \in Nat
    BY <1>1
  <2>2. words' = WithJunk(words, t, l, n)
    BY <1>6
  <2>4. After(ot[o]) = l + n
    BY DEF After
  <2>5. words \in Memory
    BY <1>5
  <2> HIDE DEF t, l, n
  <2>3. /\ words' \in Memory
        /\ \A s \in Segment, w \in Word :
             words'[s][w] = IF s = t /\ l <= w /\ w < l + n THEN Junk ELSE words[s][w]
    BY <2>1, <2>2, <2>5, JunkWritten
  <2> QED BY <2>3, <2>4 DEF t, l
<1>8. ASSUME NEW p \in InUse \ {o}, NEW i \in 0 .. ot[p].size - 1
      PROVE  words'[ot[p].segment][ot[p].location + i]
               = words[ot[p].segment][ot[p].location + i]
  <2>1. /\ ot[p].location + i \in Word /\ ot[p].location <= ot[p].location + i
        /\ ot[p].location + i < After(ot[p])
    BY WordsOfObject
  <2>2. ot[p].segment \in Segment
    BY InUseFields DEF IInv
  <2>3. ot[p].location + i \in Int
    BY <2>1 DEF Word
  <2>4. ot[p].segment = ot[o].segment =>
          ~(ot[o].location <= ot[p].location + i /\ ot[p].location + i < After(ot[o]))
    BY <2>1, <2>3, OthersAside
  <2> HIDE DEF e
  <2> QED BY <2>1, <2>2, <2>4, <1>7
<1>9. freeWords' \in Nat
  <2>1. freeWords' = freeWordsPlus(ot[o].size)
    BY <1>1 DEF deallocate
  <2> QED BY <2>1, <1>1, ConstantFacts DEF freeWordsPlus, IInv, TypeOK
<1>10. /\ freeChunks' \in Lists
       /\ \A s \in Segment, n \in ListSize, p \in Oop :
            p \in freeChunks'[s][n] <=>
              \/ p \in freeChunks[s][n]
              \/ p = o /\ s = ot[o].segment /\ n = listFor(ot[o].size)
  <2> DEFINE r == freeChunks'
             x == ot[o]
  <2>1. r = toFreeChunkList(freeChunks, o, x) /\ x \in Entry /\ o \in Oop
    BY <1>1, <1>4
  <2> HIDE DEF r, x
  <2>2. /\ r \in Lists
        /\ \A s \in Segment, n \in ListSize, p \in Oop :
             p \in r[s][n] <=> \/ p \in freeChunks[s][n]
                               \/ p = o /\ s = x.segment /\ n = listFor(x.size)
    BY <2>1, <1>5, AddToList
  <2> QED BY <2>2 DEF r, x
<1> HIDE DEF e
<1> QED BY <1>3, <1>7, <1>8, <1>9, <1>10

LEMMA DeallocateKeeps ==
  ASSUME IInv, NEW o \in InUse, deallocate(o), allocated' \subseteq allocated \ {o},
         pc # "sweep"
  PROVE  /\ NoExtraWords' /\ Fits' /\ Layout' /\ ContentsIntact' /\ Covered'
         /\ InUse' = InUse
<1>1. ot' = ot /\ InUse' = InUse
  BY DeallocateEffect DEF InUse, FreePointers
<1>2. NoExtraWords' /\ Fits' /\ Layout'
  BY <1>1 DEF IInv, NoExtraWords, Fits, Layout, Apart, Before, After
<1>3. ContentsIntact'
  <2> SUFFICES ASSUME NEW p \in allocated', NEW i \in 0 .. ot[p].size - 1
               PROVE  words'[ot[p].segment][ot[p].location + i] = <<p, i>>
    BY <1>1 DEF ContentsIntact
  <2>1. p \in allocated /\ p \in InUse \ {o}
    BY DEF IInv, Accounted
  <2>2. words[ot[p].segment][ot[p].location + i] = <<p, i>>
    BY <2>1 DEF IInv, ContentsIntact
  <2> QED BY <2>1, <2>2, DeallocateEffect
<1>4. Covered'
  <2> SUFFICES ASSUME NEW s \in Segment, NEW w \in Word, w < HeapSpaceStop
               PROVE  \E p \in InUse : Covers(p, s, w)'
    BY <1>1 DEF Covered
  <2>1. PICK p \in InUse : Covers(p, s, w)
    BY DEF IInv, Covered, SweptOver
  <2> QED BY <2>1, <1>1 DEF Covers, After
<1> QED BY <1>1, <1>2, <1>3, <1>4

LEMMA DeallocateAccounted ==
  ASSUME IInv, NEW o \in InUse, deallocate(o),
         o \in allocated \/ o \in pending,
         allocated' = allocated \ {o}, pending' = pending \ {o}
  PROVE  Accounted'
<1>1. ot' = ot /\ InUse' = InUse
  BY DeallocateEffect DEF InUse, FreePointers
<1>2. \A s \in Segment, n \in ListSize : o \notin freeChunks[s][n]
  BY DEF IInv, Accounted
<1>0. \A s \in Segment, n \in ListSize, p \in Oop :
        p \in freeChunks'[s][n] <=>
          \/ p \in freeChunks[s][n]
          \/ p = o /\ s = ot[o].segment /\ n = listFor(ot[o].size)
  BY DeallocateEffect
<1> DEFINE t == ot[o].segment
           m == listFor(ot[o].size)
<1>3. t \in Segment /\ m \in ListSize
  BY InUseFields, ListForSize DEF IInv
<1>4. \A s \in Segment, n \in ListSize, p \in Oop :
        p \in freeChunks'[s][n] <=> p \in freeChunks[s][n] \/ (p = o /\ s = t /\ n = m)
  BY <1>0
<1>9. InUse \subseteq Oop /\ freeChunks' \in Lists
  BY DeallocateEffect DEF InUse
<1>5. \A p \in allocated' : p \in InUse' /\ p \notin pending'
  BY <1>1 DEF IInv, Accounted
<1>6. \A p \in pending' : p \in InUse'
  BY <1>1 DEF IInv, Accounted
<1>7. \A p \in InUse' : p \in allocated' \/ p \in pending'
        \/ \E s \in Segment, n \in ListSize : p \in freeChunks'[s][n]
  <2> SUFFICES ASSUME NEW p \in InUse, p \notin allocated', p \notin pending'
               PROVE  \E s \in Segment, n \in ListSize : p \in freeChunks'[s][n]
    BY <1>1
  <2>1. CASE p = o
    BY <2>1, <1>3, <1>4, <1>9
  <2>2. CASE p # o
    <3>1. PICK s \in Segment, n \in ListSize : p \in freeChunks[s][n]
      BY <2>2 DEF IInv, Accounted
    <3> QED BY <3>1, <1>4, <1>9
  <2> QED BY <2>1, <2>2
<1>8. ASSUME NEW s \in Segment, NEW n \in ListSize, NEW p \in freeChunks'[s][n]
      PROVE  /\ p \in InUse /\ p \notin allocated' /\ p \notin pending'
             /\ ot[p].segment = s
             /\ n = listFor(ot[p].size) \/ n = BigSize
             /\ \A k \in ListSize : p \in freeChunks'[s][k] => k = n
  <2>0. p \in Oop
    BY <1>9 DEF Lists
  <2>1. CASE p = o
    <3>1. s = t /\ n = m
      BY <2>0, <2>1, <1>2, <1>4
    <3> QED BY <2>0, <2>1, <3>1, <1>2, <1>4
  <2>2. CASE p # o
    <3>1. \A k \in ListSize : p \in freeChunks'[s][k] => p \in freeChunks[s][k]
      BY <2>0, <2>2, <1>4
    <3>2. p \in freeChunks[s][n]
      BY <3>1
    <3> HIDE DEF t, m
    <3> QED BY <3>1, <3>2 DEF IInv, Accounted
  <2> QED BY <2>1, <2>2
<1> HIDE DEF t, m
<1> QED BY <1>1, <1>5, <1>6, <1>7, <1>8 DEF Accounted

LEMMA RectifyDeallocateStep ==
  ASSUME IInv, rectifyDeallocate
  PROVE  IInv'
<1> USE DEF progress
<1>1. PICK o \in pending : deallocate(o) /\ pending' = pending \ {o}
  BY DEF rectifyDeallocate
<1>2. pc = "rectify" /\ UNCHANGED <<allocated, reachable, currentSegment, freeOops, pc,
                                    request, progress, sweep>>
  BY DEF rectifyDeallocate
<1>3. o \in InUse /\ o \notin allocated /\ allocated' = allocated \ {o}
  BY <1>2 DEF IInv, Accounted
<1>4. TypeOK'
  BY <1>1, <1>2, <1>3, DeallocateEffect DEF IInv, TypeOK, Lists, Memory
<1>5. Accounted'
  BY <1>1, <1>3, DeallocateAccounted
<1>6. Phases'
  BY <1>2 DEF IInv, Phases
<1>7. OopsLeftExact' /\ pc' # "sweep"
  BY <1>2 DEF OopsLeftExact
<1>8. NoExtraWords' /\ Fits' /\ Layout' /\ ContentsIntact' /\ Covered'
  BY <1>1, <1>2, <1>3, DeallocateKeeps
<1> QED BY <1>4, <1>5, <1>6, <1>7, <1>8 DEF IInv

LEMMA CountDownStep ==
  ASSUME IInv, NEW o \in reachable, countDown(o)
  PROVE  IInv'
<1> USE DEF progress
<1>1. /\ pc = "mutator" /\ deallocate(o) /\ allocated' = allocated \ {o}
      /\ reachable' = reachable \ {o} /\ freeOops' = freeOops + 1
      /\ UNCHANGED <<currentSegment, pc, request, progress, sweep, pending>>
  BY DEF countDown, freeOopsAfterFree
<1>2. o \in allocated /\ o \in InUse /\ pending = {}
  BY <1>1 DEF IInv, Accounted, TypeOK, Phases
<1>3. freeOops' = auditFreeOops' /\ freeOops' \in Int
  <2>1. Oop \ allocated' = (Oop \ allocated) \union {o}
    BY <1>1, <1>2 DEF IInv, TypeOK
  <2>2. Cardinality((Oop \ allocated) \union {o}) = Cardinality(Oop \ allocated) + 1
    <3>1. IsFiniteSet(Oop \ allocated) /\ o \notin Oop \ allocated
      BY <1>2, FreeOopsFinite
    <3> QED BY <3>1, FS_AddElement
  <2>3. freeOops = Cardinality(Oop \ allocated)
    BY <1>1 DEF IInv, OopsLeftExact, auditFreeOops
  <2>4. Cardinality(Oop \ allocated) \in Nat
    BY FreeOopsFinite
  <2> QED BY <2>1, <2>2, <2>3, <2>4, <1>1 DEF auditFreeOops
<1>4. TypeOK'
  BY <1>1, <1>2, <1>3, DeallocateEffect DEF IInv, TypeOK, Lists, Memory
<1>5. Accounted'
  BY <1>1, <1>2, DeallocateAccounted
<1>6. Phases'
  BY <1>1 DEF IInv, Phases
<1>7. OopsLeftExact' /\ pc' # "sweep"
  BY <1>1, <1>3 DEF OopsLeftExact
<1>8. NoExtraWords' /\ Fits' /\ Layout' /\ ContentsIntact' /\ Covered'
  BY <1>1, <1>2, DeallocateKeeps
<1> QED BY <1>4, <1>5, <1>6, <1>7, <1>8 DEF IInv

-----------------------------------------------------------------------------
(***************************************************************************)
(* An allocation ends: entry o becomes the object, at the place of chunk e. *)
(***************************************************************************)
LEMMA AllocatedCommon ==
  ASSUME IInv, NoHugePointers, pc = "attempt",
         NEW o \in Oop, o \notin allocated, NEW e \in Entry,
         NEW lists \in Lists, NEW t \in Table,
         allocated_as(o, e, lists, t)
  PROVE  /\ TypeOK' /\ Phases' /\ OopsLeftExact' /\ pc' # "sweep"
         /\ request \in Requests /\ Wanted = request.size
         /\ request.size \in Nat /\ request.size >= 2
         /\ \A p \in Oop : p # o => ot'[p] = t[p]
         /\ ot'[o] \in Entry /\ ot'[o].segment = e.segment /\ ot'[o].location = e.location
         /\ ot'[o].size = request.size
         /\ ot'[o].pointer => ot'[o].size < HugeSize
         /\ \A s \in Segment, w \in Word :
              words'[s][w] = IF s = e.segment /\ e.location <= w
                                /\ w < e.location + request.size
                             THEN <<o, w - e.location>> ELSE words[s][w]
         /\ allocated' = allocated \union {o} /\ pending' = pending /\ pending = {}
         /\ freeChunks' = lists
<1>1. /\ request \in Requests /\ Wanted = request.size
      /\ request.size \in Nat /\ request.size >= 2 /\ request.pointer \in BOOLEAN
      /\ request.pointer => request.size < HugeSize
      /\ pending = {}
  BY WantedIsSize, RequestFields DEF IInv, Phases, NoHugePointers
<1>2. /\ e.segment \in Segment /\ e.location \in Nat
  BY EntryFields
<1> DEFINE f == [e EXCEPT !.size = request.size, !.pointer = request.pointer]
<1>3. e \in [segment : Segment, location : Nat, size : ChunkSize, pointer : BOOLEAN]
  BY DEF Entry
<1>4. f \in Entry
  <2>1. request.size \in ChunkSize
    BY <1>1 DEF ChunkSize, HeaderSize
  <2> QED BY <1>1, <1>3, <2>1 DEF Entry
<1>5. f.segment = e.segment /\ f.location = e.location /\ f.size = request.size
      /\ f.pointer = request.pointer
  BY <1>3
<1>6. ot' = [t EXCEPT ![o] = f]
  BY DEF allocated_as
<1> HIDE DEF f
<1>7. ot' \in Table /\ ot'[o] = f /\ \A p \in Oop : p # o => ot'[p] = t[p]
  BY <1>4, <1>6 DEF Table
<1>8. /\ words' \in Memory
      /\ \A s \in Segment, w \in Word :
           words'[s][w] = IF s = e.segment /\ e.location <= w
                             /\ w < e.location + request.size
                          THEN <<o, w - e.location>> ELSE words[s][w]
  <2> DEFINE a == e.segment
             l == e.location
             n == request.size
  <2>1. words' = WithContent(words, a, l, n, o) /\ words \in Memory
    BY DEF allocated_as, IInv, TypeOK, Memory
  <2>2. a \in Segment /\ l \in Nat /\ n \in Nat
    BY <1>1, <1>2
  <2> HIDE DEF a, l, n
  <2>3. /\ words' \in Memory
        /\ \A s \in Segment, w \in Word :
             words'[s][w] = IF s = a /\ l <= w /\ w < l + n
                            THEN <<o, w - l>> ELSE words[s][w]
    BY <2>1, <2>2, ContentWritten
  <2> QED BY <2>3 DEF a, l, n
<1>9. freeWords' \in Nat
  BY <1>1 DEF allocated_as, IInv, TypeOK
<1>10. freeOops' \in Int /\ freeOops' = auditFreeOops'
  <2>1. Oop \ allocated' = (Oop \ allocated) \ {o}
    BY DEF allocated_as
  <2>2. Cardinality((Oop \ allocated) \ {o}) = Cardinality(Oop \ allocated) - 1
    <3>1. IsFiniteSet(Oop \ allocated) /\ o \in Oop \ allocated
      BY FreeOopsFinite
    <3> QED BY <3>1, FS_RemoveElement
  <2>3. freeOops = Cardinality(Oop \ allocated)
    BY DEF IInv, OopsLeftExact, auditFreeOops
  <2>4. Cardinality(Oop \ allocated) \in Nat /\ freeOops' = freeOops - 1
    BY FreeOopsFinite DEF allocated_as
  <2> QED BY <2>1, <2>2, <2>3, <2>4 DEF auditFreeOops
<1>11. /\ pc' = "mutator" /\ request' = Nothing /\ compacted' = 0 /\ collected' = FALSE
       /\ starved' = FALSE
       /\ UNCHANGED <<currentSegment, sweep, pending>>
       /\ allocated' = allocated \union {o} /\ reachable' = reachable \union {o}
       /\ freeChunks' = lists
  BY DEF allocated_as
<1>12. TypeOK'
  <2>1. 0 \in 0 .. HeapSegmentCount
    BY ConstantFacts
  <2>2. /\ ot' \in [Oop -> Entry \union {FreeEntry}]
        /\ freeChunks' \in [Segment -> [ListSize -> SUBSET Oop]]
        /\ words' \in [Segment -> [Word -> {Junk} \union (Oop \X Nat)]]
    BY <1>7, <1>8, <1>11 DEF Table, Lists, Memory
  <2>3. allocated' \subseteq Oop /\ reachable' \subseteq allocated'
    BY <1>11 DEF IInv, TypeOK
  <2> QED BY <2>1, <2>2, <2>3, <1>9, <1>10, <1>11 DEF IInv, TypeOK
<1>13. Phases'
  BY <1>1, <1>11 DEF Phases
<1>14. OopsLeftExact'
  BY <1>10 DEF OopsLeftExact
<1> QED BY <1>1, <1>4, <1>5, <1>7, <1>8, <1>11, <1>12, <1>13, <1>14

(* A chunk on a list is in use and no object.                              *)
LEMMA ListedChunk ==
  ASSUME IInv, NEW s \in Segment, NEW n \in ListSize, NEW o \in freeChunks[s][n]
  PROVE  /\ o \in InUse /\ o \in Oop /\ o \notin allocated /\ o \notin pending
         /\ ot[o].segment = s /\ ot[o] \in Entry
         /\ n = listFor(ot[o].size) \/ n = BigSize
         /\ \A t \in Segment, m \in ListSize : o \in freeChunks[t][m] => t = s /\ m = n
<1>1. /\ o \in InUse /\ o \notin allocated /\ o \notin pending
      /\ ot[o].segment = s
      /\ n = listFor(ot[o].size) \/ n = BigSize
      /\ \A m \in ListSize : o \in freeChunks[s][m] => m = n
  BY DEF IInv, Accounted
<1>2. \A t \in Segment, m \in ListSize : o \in freeChunks[t][m] => t = s
  BY <1>1 DEF IInv, Accounted
<1> QED BY <1>1, <1>2, InUseFields DEF IInv

LEMMA RemoveStep ==
  ASSUME IInv, NoHugePointers, removeFromFreeChunkList
  PROVE  IInv'
<1> DEFINE cs == currentSegment
           fl == fittingList
<1>1. PICK o \in freeChunks[cs][fl] :
        /\ SmallHandy \/ ot[o].size = Wanted
        /\ allocated_as(o, ot[o], [freeChunks EXCEPT ![cs][fl] = @ \ {o}], ot)
  BY DEF removeFromFreeChunkList
<1>2. pc = "attempt" /\ request \in Requests
  BY DEF removeFromFreeChunkList, IInv, Phases
<1>3. Wanted = request.size /\ Wanted \in Nat /\ Wanted >= 2
  BY <1>2, WantedIsSize
<1>4. cs \in Segment /\ fl \in ListSize
  BY <1>3, ConstantFacts DEF IInv, TypeOK, fittingList, SmallHandy, ListSize
<1>5. /\ o \in InUse /\ o \in Oop /\ o \notin allocated /\ o \notin pending
      /\ ot[o].segment = cs /\ ot[o] \in Entry
      /\ fl = listFor(ot[o].size) \/ fl = BigSize
      /\ \A t \in Segment, m \in ListSize : o \in freeChunks[t][m] => t = cs /\ m = fl
  <2> HIDE DEF cs, fl
  <2> QED BY <1>1, <1>4, ListedChunk
<1>6. ot[o].size = Wanted
  <2>1. CASE SmallHandy
    <3>1. fl = Wanted /\ Wanted < BigSize
      BY <2>1 DEF fittingList, SmallHandy
    <3> QED BY <3>1, <1>3, <1>5, ConstantFacts DEF listFor
  <2> QED BY <2>1, <1>1
<1> DEFINE lists == [freeChunks EXCEPT ![cs][fl] = @ \ {o}]
<1>7. /\ lists \in Lists
      /\ \A s \in Segment, n \in ListSize, p \in Oop :
           p \in lists[s][n] <=> p \in freeChunks[s][n] /\ ~(p = o /\ s = cs /\ n = fl)
  <2>1. freeChunks \in Lists
    BY DEF IInv, TypeOK, Lists
  <2> HIDE DEF cs, fl
  <2>2. lists \in Lists
    BY <2>1, <1>4 DEF Lists
  <2>3. ASSUME NEW s \in Segment, NEW n \in ListSize
        PROVE  lists[s][n] = IF s = cs /\ n = fl THEN freeChunks[s][n] \ {o}
                             ELSE freeChunks[s][n]
    BY <2>1, <1>4 DEF Lists
  <2> HIDE DEF lists
  <2>4. ASSUME NEW s \in Segment, NEW n \in ListSize, NEW p \in Oop
        PROVE  p \in lists[s][n] <=> p \in freeChunks[s][n] /\ ~(p = o /\ s = cs /\ n = fl)
    <3>1. CASE s = cs /\ n = fl
      BY <3>1, <2>3
    <3>2. CASE ~(s = cs /\ n = fl)
      BY <3>2, <2>3
    <3> QED BY <3>1, <3>2
  <2> QED BY <2>2, <2>4
<1>8. ot \in Table
  BY DEF IInv, TypeOK, Table
<1> HIDE DEF lists, cs, fl
<1>9. allocated_as(o, ot[o], lists, ot)
  BY <1>1 DEF lists, cs, fl
<1>10. /\ TypeOK' /\ Phases' /\ OopsLeftExact' /\ pc' # "sweep"
       /\ \A p \in Oop : p # o => ot'[p] = ot[p]
       /\ ot'[o] \in Entry /\ ot'[o].segment = ot[o].segment
       /\ ot'[o].location = ot[o].location /\ ot'[o].size = request.size
       /\ ot'[o].pointer => ot'[o].size < HugeSize
       /\ \A s \in Segment, w \in Word :
            words'[s][w] = IF s = ot[o].segment /\ ot[o].location <= w
                              /\ w < ot[o].location + request.size
                           THEN <<o, w - ot[o].location>> ELSE words[s][w]
       /\ allocated' = allocated \union {o} /\ pending' = {} /\ pending = {}
       /\ freeChunks' = lists
  BY <1>2, <1>5, <1>7, <1>8, <1>9, AllocatedCommon
<1>11. \A p \in Oop : /\ ot'[p].segment = ot[p].segment
                      /\ ot'[p].location = ot[p].location
                      /\ ot'[p].size = ot[p].size
  BY <1>3, <1>6, <1>10
<1>12. InUse' = InUse
  BY <1>5, <1>10, EntryFields DEF InUse, FreePointers
<1>13. InUse \subseteq Oop
  BY DEF InUse
<1>14. NoExtraWords' /\ Fits' /\ Layout'
  <2>1. NoExtraWords'
    BY <1>10, <1>12, <1>13 DEF IInv, NoExtraWords
  <2> QED BY <2>1, <1>11, <1>12, <1>13 DEF IInv, Fits, Layout, Apart, Before, After
<1>15. Covered'
  <2> SUFFICES ASSUME NEW s \in Segment, NEW w \in Word, w < HeapSpaceStop
               PROVE  \E p \in InUse : Covers(p, s, w)'
    BY <1>12 DEF Covered
  <2>1. PICK p \in InUse : Covers(p, s, w)
    BY <1>2 DEF IInv, Covered, SweptOver
  <2> QED BY <2>1, <1>11, <1>13 DEF Covers, After
<1>16. Accounted'
  <2>1. \A p \in allocated' : p \in InUse' /\ p \notin pending'
    BY <1>5, <1>10, <1>12 DEF IInv, Accounted
  <2>2. \A p \in InUse' : p \in allocated' \/ p \in pending'
          \/ \E s \in Segment, n \in ListSize : p \in freeChunks'[s][n]
    BY <1>7, <1>10, <1>12, <1>13 DEF IInv, Accounted
  <2>3. ASSUME NEW s \in Segment, NEW n \in ListSize, NEW p \in freeChunks'[s][n]
        PROVE  /\ p \in InUse' /\ p \notin allocated' /\ p \notin pending'
               /\ ot'[p].segment = s
               /\ n = listFor(ot'[p].size) \/ n = BigSize
               /\ \A m \in ListSize : p \in freeChunks'[s][m] => m = n
    <3>1. p \in Oop
      BY <1>7, <1>10 DEF Lists
    <3>2. p \in freeChunks[s][n] /\ ~(p = o /\ s = cs /\ n = fl)
      BY <3>1, <1>7, <1>10
    <3>3. p # o
      BY <3>2, <1>5
    <3>4. \A m \in ListSize : p \in freeChunks'[s][m] => p \in freeChunks[s][m]
      BY <3>1, <1>7, <1>10
    <3> QED BY <3>1, <3>2, <3>3, <3>4, <1>10, <1>12 DEF IInv, Accounted
  <2> QED BY <2>1, <2>2, <2>3, <1>10 DEF Accounted
<1>17. ContentsIntact'
  <2> SUFFICES ASSUME NEW p \in allocated', NEW i \in 0 .. ot'[p].size - 1
               PROVE  words'[ot'[p].segment][ot'[p].location + i] = <<p, i>>
    BY DEF ContentsIntact
  <2>1. p \in InUse
    BY <1>5, <1>10 DEF IInv, Accounted
  <2>2. ot'[p].segment = ot[p].segment /\ ot'[p].location = ot[p].location
        /\ ot'[p].size = ot[p].size
    BY <2>1, <1>11, <1>13
  <2>3. /\ i \in Nat /\ i < ot[p].size /\ ot[p].location + i \in Word
        /\ ot[p].location <= ot[p].location + i /\ ot[p].location + i < After(ot[p])
    BY <2>1, <2>2, WordsOfObject
  <2>4. ot[p].segment \in Segment /\ ot[p].location \in Nat
    BY <2>1, InUseFields DEF IInv
  <2>5. CASE p = o
    <3>1. words'[ot[o].segment][ot[o].location + i]
            = <<o, (ot[o].location + i) - ot[o].location>>
      <4> DEFINE w == ot[o].location + i
      <4>1. /\ w \in Word /\ ot[o].segment \in Segment
            /\ ot[o].location <= w /\ w < ot[o].location + request.size
        BY <2>3, <2>4, <2>5, <1>3, <1>6 DEF After
      <4> HIDE DEF w
      <4>2. words'[ot[o].segment][w] = <<o, w - ot[o].location>>
        BY <4>1, <1>10
      <4> QED BY <4>2 DEF w
    <3>2. (ot[o].location + i) - ot[o].location = i
      BY <2>3, <2>4, <2>5
    <3> QED BY <3>1, <3>2, <2>2, <2>5
  <2>6. CASE p # o
    <3>1. p \in allocated
      BY <2>6, <1>10
    <3>2. words[ot[p].segment][ot[p].location + i] = <<p, i>>
      BY <3>1, <2>2 DEF IInv, ContentsIntact
    <3>3. ot[p].location + i \in Int
      BY <2>3, <2>4
    <3>4. ot[p].segment = ot[o].segment =>
            ~(ot[o].location <= ot[p].location + i
              /\ ot[p].location + i < ot[o].location + request.size)
      BY <3>3, <2>1, <2>3, <2>6, <1>3, <1>5, <1>6, OthersAside DEF After
    <3> QED BY <3>2, <3>4, <2>2, <2>3, <2>4, <1>10
  <2> QED BY <2>5, <2>6
<1> QED BY <1>10, <1>14, <1>15, <1>16, <1>17 DEF IInv

(* The end of chunk c becomes object o; c keeps the beginning.             *)
LEMMA SplitStep ==
  ASSUME IInv, NoHugePointers, splitBigChunk
  PROVE  IInv'
<1> DEFINE cs == currentSegment
           Excess(c) == ot[c].size - Wanted
           Part(c) == [segment |-> currentSegment, location |-> ot[c].location + Excess(c),
                       size |-> Wanted, pointer |-> FALSE]
<1>1. PICK c \in freeChunks[cs][BigSize], o \in FreePointers :
        canSplit(c) /\ allocated_as(o, Part(c), freeChunks, [ot EXCEPT ![c].size = Excess(c)])
  BY DEF splitBigChunk, BigChunks, firstPart
<1>2. pc = "attempt" /\ request \in Requests
  BY DEF splitBigChunk, IInv, Phases
<1>3. Wanted = request.size /\ Wanted \in Nat /\ Wanted >= 2
  BY <1>2, WantedIsSize
<1>4. cs \in Segment /\ BigSize \in ListSize
  BY ConstantFacts DEF IInv, TypeOK
<1>5. /\ c \in InUse /\ c \in Oop /\ c \notin allocated /\ ot[c].segment = cs
      /\ ot[c] \in Entry
      /\ \A s \in Segment, m \in ListSize : c \in freeChunks[s][m] => s = cs /\ m = BigSize
  <2> HIDE DEF cs
  <2> QED BY <1>1, <1>4, ListedChunk
<1>6. /\ o \in Oop /\ o \notin InUse /\ o # c /\ o \notin allocated
      /\ \A s \in Segment, m \in ListSize : o \notin freeChunks[s][m]
  BY <1>5 DEF InUse, FreePointers, IInv, Accounted
<1> DEFINE x == Excess(c)
           e == Part(c)
           t == [ot EXCEPT ![c].size = x]
<1>7. /\ ot[c].location \in Nat /\ ot[c].size \in Nat
      /\ x \in Nat /\ x >= 2 /\ x + Wanted = ot[c].size
  <2>1. ot[c].location \in Nat /\ ot[c].size \in Nat
    BY <1>5, EntryFields
  <2>2. ot[c].size >= Wanted + 2
    BY <1>1, ConstantFacts DEF canSplit
  <2> QED BY <2>1, <2>2, <1>3
<1>8. /\ e \in Entry /\ e.segment = cs /\ e.location = ot[c].location + x
      /\ e.size = Wanted
  <2>1. Wanted \in ChunkSize /\ ot[c].location + x \in Nat
    BY <1>3, <1>7 DEF ChunkSize, HeaderSize
  <2> HIDE DEF x, Excess
  <2> QED BY <2>1, <1>4 DEF Entry, x
<1>9. /\ t \in Table
      /\ \A p \in Oop : p # c => t[p] = ot[p]
      /\ t[c].segment = cs /\ t[c].location = ot[c].location /\ t[c].size = x
      /\ t[c] \in Entry /\ t[c].pointer = ot[c].pointer
  <2> HIDE DEF x, Excess
  <2>1. ot \in [Oop -> Entry \union {FreeEntry}]
    BY DEF IInv, TypeOK
  <2> DEFINE f == [ot[c] EXCEPT !.size = x]
  <2>2. t = [ot EXCEPT ![c] = f]
    BY <2>1, <1>5
  <2>3. f \in Entry /\ f.segment = ot[c].segment /\ f.location = ot[c].location /\ f.size = x
        /\ f.pointer = ot[c].pointer
    <3>1. x \in ChunkSize
      BY <1>7 DEF ChunkSize, HeaderSize
    <3>2. ot[c] \in [segment : Segment, location : Nat, size : ChunkSize, pointer : BOOLEAN]
      BY <1>5 DEF Entry
    <3> QED BY <3>1, <3>2 DEF Entry
  <2> HIDE DEF f
  <2> QED BY <2>1, <2>2, <2>3, <1>5 DEF Table
<1>10. allocated_as(o, e, freeChunks, t) /\ freeChunks \in Lists
  BY <1>1 DEF IInv, TypeOK, Lists
<1> HIDE DEF t, e, x, cs, Excess, Part
<1>11. /\ TypeOK' /\ Phases' /\ OopsLeftExact' /\ pc' # "sweep"
       /\ \A p \in Oop : p # o => ot'[p] = t[p]
       /\ ot'[o] \in Entry /\ ot'[o].segment = e.segment
       /\ ot'[o].location = e.location /\ ot'[o].size = request.size
       /\ ot'[o].pointer => ot'[o].size < HugeSize
       /\ \A s \in Segment, w \in Word :
            words'[s][w] = IF s = e.segment /\ e.location <= w
                              /\ w < e.location + request.size
                           THEN <<o, w - e.location>> ELSE words[s][w]
       /\ allocated' = allocated \union {o} /\ pending' = {} /\ pending = {}
       /\ freeChunks' = freeChunks
  BY <1>2, <1>6, <1>8, <1>9, <1>10, AllocatedCommon
<1>12. InUse \subseteq Oop /\ InUse' = InUse \union {o}
  <2>1. InUse \subseteq Oop
    BY DEF InUse
  <2>2. \A p \in Oop : p # o /\ p # c => ot'[p] = ot[p]
    BY <1>9, <1>11
  <2>3. ot'[c] = t[c] /\ t[c] # FreeEntry /\ ot'[o] # FreeEntry
    BY <1>5, <1>6, <1>9, <1>11, EntryFields
  <2> QED BY <2>1, <2>2, <2>3, <1>5, <1>6 DEF InUse, FreePointers
<1>13. \A p \in InUse : p # c => ot'[p] = ot[p]
  BY <1>6, <1>9, <1>11, <1>12
<1>14. /\ ot'[c].segment = cs /\ ot'[c].location = ot[c].location /\ ot'[c].size = x
       /\ ot'[c].pointer = ot[c].pointer
  BY <1>5, <1>6, <1>9, <1>11
<1>15. /\ ot'[o].segment = cs /\ ot'[o].location = ot[c].location + x
       /\ ot'[o].size = Wanted
  BY <1>3, <1>8, <1>11
<1>16. NoExtraWords'
  <2>1. ot[c].pointer => x < HugeSize
    BY <1>3, <1>5, <1>7, ConstantFacts DEF IInv, NoExtraWords
  <2> QED BY <2>1, <1>11, <1>12, <1>13, <1>14 DEF IInv, NoExtraWords
<1> DEFINE parent(p) == IF p = o THEN c ELSE p
<1>17. \A p \in InUse' : /\ parent(p) \in InUse
                         /\ ot'[p].segment = ot[parent(p)].segment
                         /\ ot[parent(p)].location <= ot'[p].location
                         /\ After(ot'[p]) <= After(ot[parent(p)])
  <2> SUFFICES ASSUME NEW p \in InUse'
               PROVE  /\ parent(p) \in InUse
                      /\ ot'[p].segment = ot[parent(p)].segment
                      /\ ot[parent(p)].location <= ot'[p].location
                      /\ After(ot'[p]) <= After(ot[parent(p)])
    OBVIOUS
  <2>1. CASE p = o
    BY <2>1, <1>3, <1>5, <1>7, <1>15 DEF After
  <2>2. CASE p = c
    BY <2>2, <1>3, <1>5, <1>6, <1>7, <1>14 DEF After
  <2>3. CASE p # o /\ p # c
    <3>1. p \in InUse /\ ot'[p] = ot[p]
      BY <2>3, <1>12, <1>13
    <3>2. ot[p].location \in Nat /\ After(ot[p]) \in Nat
      BY <3>1, InUseFields DEF IInv, After
    <3> QED BY <3>1, <3>2, <2>3
  <2> QED BY <2>1, <2>2, <2>3
<1>18. \A p \in InUse : ot[p].location \in Int /\ After(ot[p]) \in Int
  BY InUseFields DEF IInv, After
<1>19. \A p \in InUse' : ot'[p].location \in Int /\ After(ot'[p]) \in Int
  <2> SUFFICES ASSUME NEW p \in InUse' PROVE ot'[p].location \in Int /\ After(ot'[p]) \in Int
    OBVIOUS
  <2>1. CASE p = o
    BY <2>1, <1>3, <1>7, <1>15 DEF After
  <2>2. CASE p = c
    BY <2>2, <1>7, <1>14 DEF After
  <2>3. CASE p # o /\ p # c
    BY <2>3, <1>12, <1>13, <1>18
  <2> QED BY <2>1, <2>2, <2>3
<1>20. Fits'
  <2> SUFFICES ASSUME NEW p \in InUse' PROVE After(ot'[p]) <= HeapSpaceStop + 1
    BY DEF Fits, After
  <2>1. parent(p) \in InUse /\ After(ot'[p]) <= After(ot[parent(p)])
    BY <1>17
  <2>2. After(ot[parent(p)]) <= HeapSpaceStop + 1
    BY <2>1 DEF IInv, Fits
  <2> HIDE DEF parent
  <2> QED BY <2>1, <2>2, <1>18, <1>19, ConstantFacts
<1>21. Layout'
  <2> SUFFICES ASSUME NEW p \in InUse', NEW q \in InUse', p # q,
                      ot'[p].segment = ot'[q].segment
               PROVE  \/ After(ot'[p]) <= ot'[q].location
                      \/ After(ot'[q]) <= ot'[p].location
    BY DEF Layout, Apart, Before, After
  <2>1. CASE parent(p) # parent(q)
    <3> DEFINE a == parent(p)
               b == parent(q)
    <3>1. /\ a \in InUse /\ b \in InUse /\ a # b /\ ot[a].segment = ot[b].segment
          /\ ot[a].location <= ot'[p].location /\ After(ot'[p]) <= After(ot[a])
          /\ ot[b].location <= ot'[q].location /\ After(ot'[q]) <= After(ot[b])
      BY <2>1, <1>17
    <3> HIDE DEF a, b, parent
    <3>2. After(ot[a]) <= ot[b].location \/ After(ot[b]) <= ot[a].location
      BY <3>1 DEF IInv, Layout, Apart, Before
    <3> QED BY <3>1, <3>2, <1>18, <1>19
  <2>2. CASE parent(p) = parent(q)
    <3>1. (p = o /\ q = c) \/ (p = c /\ q = o)
      BY <2>2
    <3>2. After(ot'[c]) <= ot'[o].location
      BY <1>7, <1>14, <1>15 DEF After
    <3> QED BY <3>1, <3>2
  <2> QED BY <2>1, <2>2
<1>22. Covered'
  <2> SUFFICES ASSUME NEW s \in Segment, NEW w \in Word, w < HeapSpaceStop
               PROVE  \E p \in InUse' : Covers(p, s, w)'
    BY DEF Covered
  <2>1. PICK p \in InUse : Covers(p, s, w)
    BY <1>2 DEF IInv, Covered, SweptOver
  <2>2. CASE p # c
    BY <2>1, <2>2, <1>12, <1>13 DEF Covers, After
  <2>3. CASE p = c
    <3>1. w \in Nat /\ s = cs /\ ot[c].location <= w /\ w < ot[c].location + ot[c].size
      BY <2>1, <2>3, <1>5, ConstantFacts DEF Covers, After, Word
    <3>2. CASE w < ot[c].location + x
      <4>1. Covers(c, s, w)'
        BY <3>1, <3>2, <1>14 DEF Covers, After
      <4> QED BY <4>1, <1>5, <1>12
    <3>3. CASE w >= ot[c].location + x
      <4>1. Covers(o, s, w)'
        BY <3>1, <3>3, <1>3, <1>7, <1>15 DEF Covers, After
      <4> QED BY <4>1, <1>12
    <3> QED BY <3>1, <3>2, <3>3, <1>7
  <2> QED BY <2>2, <2>3
<1>23. Accounted'
  <2>1. \A p \in allocated' : p \in InUse' /\ p \notin pending'
    BY <1>11, <1>12 DEF IInv, Accounted
  <2>2. \A p \in InUse' : p \in allocated' \/ p \in pending'
          \/ \E s \in Segment, n \in ListSize : p \in freeChunks'[s][n]
    BY <1>11, <1>12 DEF IInv, Accounted
  <2>3. ASSUME NEW s \in Segment, NEW n \in ListSize, NEW p \in freeChunks'[s][n]
        PROVE  /\ p \in InUse' /\ p \notin allocated' /\ p \notin pending'
               /\ ot'[p].segment = s
               /\ n = listFor(ot'[p].size) \/ n = BigSize
               /\ \A m \in ListSize : p \in freeChunks'[s][m] => m = n
    <3>1. p \in freeChunks[s][n] /\ p \in InUse /\ p # o
      BY <1>6, <1>11 DEF IInv, Accounted
    <3>2. p = c => s = cs /\ n = BigSize
      BY <3>1, <1>5
    <3>3. /\ p \notin allocated /\ ot[p].segment = s
          /\ n = listFor(ot[p].size) \/ n = BigSize
          /\ \A m \in ListSize : p \in freeChunks[s][m] => m = n
      BY <3>1 DEF IInv, Accounted
    <3> QED BY <3>1, <3>2, <3>3, <1>11, <1>12, <1>13, <1>14
  <2> QED BY <2>1, <2>2, <2>3, <1>11 DEF Accounted
<1>24. ContentsIntact'
  <2> SUFFICES ASSUME NEW p \in allocated', NEW i \in 0 .. ot'[p].size - 1
               PROVE  words'[ot'[p].segment][ot'[p].location + i] = <<p, i>>
    BY DEF ContentsIntact
  <2>1. CASE p = o
    <3> DEFINE w == e.location + i
    <3>1. /\ i \in Nat /\ i < Wanted /\ e.location = ot[c].location + x
          /\ ot[c].location + ot[c].size <= HeapSpaceStop + 1
      BY <2>1, <1>3, <1>5, <1>8, <1>15 DEF IInv, Fits, After
    <3>2. /\ w \in Word /\ e.location <= w /\ w < e.location + request.size
          /\ w - e.location = i
      BY <3>1, <1>3, <1>7, ConstantFacts DEF Word
    <3> HIDE DEF w
    <3>3. words'[cs][w] = <<o, w - e.location>>
      BY <3>2, <1>4, <1>8, <1>11
    <3> QED BY <3>2, <3>3, <2>1, <1>8, <1>15 DEF w
  <2>2. CASE p # o
    <3>1. p \in allocated /\ p \in InUse /\ p # c /\ ot'[p] = ot[p]
      BY <2>2, <1>5, <1>11, <1>13 DEF IInv, Accounted
    <3>2. words[ot[p].segment][ot[p].location + i] = <<p, i>>
      BY <3>1 DEF IInv, ContentsIntact
    <3> DEFINE w == ot[p].location + i
    <3>3. /\ w \in Word /\ ot[p].location <= w /\ w < After(ot[p])
          /\ ot[p].segment \in Segment /\ w \in Int
      <4>1. i \in 0 .. ot[p].size - 1
        BY <3>1
      <4> QED BY <4>1, <3>1, WordsOfObject, InUseFields DEF IInv, Word
    <3> HIDE DEF w
    <3>4. ot[p].segment = cs => ~(ot[c].location <= w /\ w < After(ot[c]))
      BY <3>1, <3>3, <1>5, OthersAside
    <3>5. e.location + request.size = After(ot[c]) /\ ot[c].location <= e.location
          /\ e.location \in Nat
      BY <1>3, <1>7, <1>8 DEF After
    <3>6. ~(ot[p].segment = e.segment /\ e.location <= w /\ w < e.location + request.size)
      BY <3>3, <3>4, <3>5, <1>7, <1>8
    <3>7. words'[ot[p].segment][w] = words[ot[p].segment][w]
      BY <3>3, <3>6, <1>11
    <3> QED BY <3>1, <3>2, <3>7 DEF w
  <2> QED BY <2>1, <2>2
<1> QED BY <1>11, <1>16, <1>20, <1>21, <1>22, <1>23, <1>24 DEF IInv

-----------------------------------------------------------------------------
(***************************************************************************)
(* Compaction.                                                             *)
(***************************************************************************)
(* A set of naturals that is not empty has a least element.                *)
LEMMA LeastNatural ==
  ASSUME NEW T \in SUBSET Nat, T # {}
  PROVE  \E l \in T : \A m \in T : l <= m
<1> DEFINE R == OpToRel(<, Nat)
<1>1. IsWellFoundedOn(R, Nat)
  BY NatLessThanWellFounded
<1>2. \A a, b \in Nat : <<a, b>> \in R <=> a < b
  BY DEF OpToRel
<1> HIDE DEF R
<1>3. PICK l \in T : \A m \in T : ~(<<m, l>> \in R)
  BY <1>1, WFMin
<1>4. l \in Nat /\ \A m \in T : m \in Nat /\ ~(m < l)
  BY <1>2, <1>3
<1> QED BY <1>4

LEMMA NextSegmentType ==
  ASSUME currentSegment \in Segment
  PROVE  nextSegment \in Segment
  BY ConstantFacts DEF nextSegment, Segment

(* The chunks of a segment, and the lowest of them.                        *)
LEMMA ChunksOfSegment ==
  ASSUME IInv, NEW s \in Segment
  PROVE  /\ \A o \in Chunks(s) : /\ o \in InUse /\ o \in Oop /\ o \notin allocated
                                 /\ o \notin pending
                                 /\ ot[o].segment = s
                                 /\ ot[o].location \in Nat /\ ot[o].size \in Nat
                                 /\ ot[o].size >= 2
                                 /\ After(ot[o]) <= HeapSpaceStop + 1
         /\ \A o : o \in Chunks(s) <=> \E n \in ListSize : o \in freeChunks[s][n]
         /\ Chunks(s) # {} =>
              /\ \E o \in Chunks(s) : lowWaterMark(s) = ot[o].location
              /\ \A o \in Chunks(s) : lowWaterMark(s) <= ot[o].location
              /\ lowWaterMark(s) \in Nat
<1>1. \A o : o \in Chunks(s) <=> \E n \in ListSize : o \in freeChunks[s][n]
  BY DEF Chunks
<1>2. ASSUME NEW o \in Chunks(s)
      PROVE  /\ o \in InUse /\ o \in Oop /\ o \notin allocated /\ o \notin pending
             /\ ot[o].segment = s
             /\ ot[o].location \in Nat /\ ot[o].size \in Nat /\ ot[o].size >= 2
             /\ After(ot[o]) <= HeapSpaceStop + 1
  <2>1. o \in InUse /\ o \in Oop /\ o \notin allocated /\ o \notin pending
        /\ ot[o].segment = s
    BY <1>1, ListedChunk
  <2> QED BY <2>1, InUseFields DEF IInv, Fits
<1>3. ASSUME Chunks(s) # {}
      PROVE  /\ \E o \in Chunks(s) : lowWaterMark(s) = ot[o].location
             /\ \A o \in Chunks(s) : lowWaterMark(s) <= ot[o].location
             /\ lowWaterMark(s) \in Nat
  <2> DEFINE T == {ot[o].location : o \in Chunks(s)}
             C(l) == \A o \in Chunks(s) : l <= ot[o].location
  <2>1. T \in SUBSET Nat /\ T # {}
    BY <1>2, <1>3
  <2>2. \E l \in T : C(l)
    <3>1. PICK l \in T : \A m \in T : l <= m
      <4> HIDE DEF T
      <4> QED BY <2>1, LeastNatural
    <3> QED BY <3>1
  <2>3. lowWaterMark(s) = CHOOSE l \in T : C(l)
    BY DEF lowWaterMark
  <2> HIDE DEF C
  <2>4. lowWaterMark(s) \in T /\ C(lowWaterMark(s))
    BY <2>2, <2>3
  <2> QED BY <2>1, <2>4 DEF C
<1> QED BY <1>1, <1>2, <1>3

LEMMA AbandonChunksStep ==
  ASSUME IInv, abandonFreeChunksInSegment
  PROVE  IInv'
<1> DEFINE s == nextSegment
<1>1. /\ pc = "attempt" /\ currentSegment' = s
      /\ compacted' = compacted + 1 /\ compacted < HeapSegmentCount
      /\ starved' = (starved \/ NoPointer)
      /\ UNCHANGED <<allocated, reachable, words, freeWords, freeOops, request,
                     collected, pending>>
      /\ \/ Chunks(s) = {} /\ UNCHANGED <<ot, freeChunks, sweep, pc>>
         \/ /\ Chunks(s) # {}
            /\ ot' = [o \in Oop |-> IF o \in Chunks(s) THEN FreeEntry ELSE ot[o]]
            /\ freeChunks' = [freeChunks EXCEPT ![s] = [n \in ListSize |-> {}]]
            /\ sweep' = [si |-> lowWaterMark(s), di |-> lowWaterMark(s),
                         abandoned |-> {<<ot[o].location, ot[o].size>> : o \in Chunks(s)}]
            /\ pc' = "sweep"
  BY DEF abandonFreeChunksInSegment, NoChunkHere
<1>2. s \in Segment
  BY NextSegmentType DEF IInv, TypeOK
<1> HIDE DEF s
<1>3. compacted' \in 0 .. HeapSegmentCount /\ starved' \in BOOLEAN
  <2>1. starved' \in BOOLEAN
    BY <1>1 DEF IInv, TypeOK
  <2> QED BY <2>1, <1>1, ConstantFacts DEF IInv, TypeOK
<1>4. Phases' /\ OopsLeftExact'
  BY <1>1 DEF IInv, Phases, OopsLeftExact, auditFreeOops
<1>5. CASE Chunks(s) = {}
  <2>1. UNCHANGED <<ot, freeChunks, sweep, pc>>
    BY <1>1, <1>5
  <2>2. TypeOK'
    BY <1>1, <1>2, <1>3, <2>1 DEF IInv, TypeOK
  <2>3. NoExtraWords' /\ Fits' /\ Layout' /\ ContentsIntact' /\ InUse' = InUse /\ Covered'
    BY <1>1, <2>1, SameTable
  <2>4. Accounted'
    BY <1>1, <2>1, <2>3 DEF IInv, Accounted
  <2> QED BY <1>1, <1>4, <2>1, <2>2, <2>3, <2>4 DEF IInv
<1>6. CASE Chunks(s) # {}
  <2> DEFINE Released == Chunks(s)
             low == lowWaterMark(s)
             Piece(o) == <<ot[o].location, ot[o].size>>
  <2>1. /\ ot' = [o \in Oop |-> IF o \in Released THEN FreeEntry ELSE ot[o]]
        /\ freeChunks' = [freeChunks EXCEPT ![s] = [n \in ListSize |-> {}]]
        /\ sweep' = [si |-> low, di |-> low, abandoned |-> {Piece(o) : o \in Released}]
        /\ pc' = "sweep"
    BY <1>1, <1>6
  <2>2. /\ \A o \in Released : /\ o \in InUse /\ o \in Oop /\ o \notin allocated
                               /\ o \notin pending
                               /\ ot[o].segment = s
                               /\ ot[o].location \in Nat /\ ot[o].size \in Nat
                               /\ ot[o].size >= 2
                               /\ After(ot[o]) <= HeapSpaceStop + 1
        /\ \A o : o \in Released <=> \E n \in ListSize : o \in freeChunks[s][n]
        /\ \E o \in Released : low = ot[o].location
        /\ \A o \in Released : low <= ot[o].location
        /\ low \in Nat
    BY <1>2, <1>6, ChunksOfSegment
  <2> HIDE DEF Released, low, Piece
  <2>3. sweep'.si = low /\ sweep'.di = low /\ sweep'.abandoned = {Piece(o) : o \in Released}
    BY <2>1
  <2>4. InUse \subseteq Oop /\ InUse' = InUse \ Released
    <3>1. InUse \subseteq Oop
      BY DEF InUse
    <3>2. \A o \in Oop : ot'[o] = IF o \in Released THEN FreeEntry ELSE ot[o]
      BY <2>1
    <3> QED BY <3>1, <3>2 DEF InUse, FreePointers
  <2>5. \A o \in InUse' : ot'[o] = ot[o]
    BY <2>1, <2>4
  <2>6. \A t \in Segment, n \in ListSize :
          freeChunks'[t][n] = IF t = s THEN {} ELSE freeChunks[t][n]
    BY <1>2, <2>1 DEF IInv, TypeOK
  <2>7. TypeOK'
    <3>1. ot' \in [Oop -> Entry \union {FreeEntry}]
      BY <2>1 DEF IInv, TypeOK
    <3>2. freeChunks' \in [Segment -> [ListSize -> SUBSET Oop]]
      BY <2>1 DEF IInv, TypeOK
    <3>3. {Piece(o) : o \in Released} \subseteq Nat \X Nat
      BY <2>2 DEF Piece
    <3>4. sweep' \in [si : Nat, di : Nat, abandoned : SUBSET (Nat \X Nat)]
      BY <2>1, <2>2, <3>3
    <3> QED BY <1>1, <1>2, <1>3, <2>1, <3>1, <3>2, <3>4 DEF IInv, TypeOK
  <2>8. NoExtraWords' /\ Fits' /\ Layout'
    BY <2>4, <2>5 DEF IInv, NoExtraWords, Fits, Layout, Apart, Before, After
  <2>9. Accounted'
    <3>1. \A o \in allocated' : o \in InUse' /\ o \notin pending'
      BY <1>1, <2>2, <2>4 DEF IInv, Accounted
    <3>2. \A o \in pending' : o \in InUse'
      BY <1>1, <2>2, <2>4 DEF IInv, Accounted
    <3>3. \A o \in InUse' : o \in allocated' \/ o \in pending'
            \/ \E t \in Segment, n \in ListSize : o \in freeChunks'[t][n]
      <4> SUFFICES ASSUME NEW o \in InUse', o \notin allocated', o \notin pending'
                   PROVE  \E t \in Segment, n \in ListSize : o \in freeChunks'[t][n]
        OBVIOUS
      <4>1. PICK t \in Segment, n \in ListSize : o \in freeChunks[t][n]
        BY <1>1, <2>4 DEF IInv, Accounted
      <4>2. t # s
        BY <4>1, <2>2, <2>4
      <4> QED BY <4>1, <4>2, <2>6
    <3>4. ASSUME NEW t \in Segment, NEW n \in ListSize, NEW o \in freeChunks'[t][n]
          PROVE  /\ o \in InUse' /\ o \notin allocated' /\ o \notin pending'
                 /\ ot'[o].segment = t
                 /\ n = listFor(ot'[o].size) \/ n = BigSize
                 /\ \A m \in ListSize : o \in freeChunks'[t][m] => m = n
      <4>1. t # s /\ o \in freeChunks[t][n]
        BY <2>6
      <4>2. /\ o \in InUse /\ o \notin allocated /\ o \notin pending
            /\ ot[o].segment = t
            /\ n = listFor(ot[o].size) \/ n = BigSize
            /\ \A m \in ListSize : o \in freeChunks[t][m] => m = n
        BY <4>1 DEF IInv, Accounted
      <4>3. o \in InUse'
        BY <4>1, <4>2, <2>2, <2>4
      <4> QED BY <4>1, <4>2, <4>3, <1>1, <2>5, <2>6
    <3> QED BY <3>1, <3>2, <3>3, <3>4 DEF Accounted
  <2>10. ContentsIntact'
    <3>1. \A o \in allocated : o \in InUse'
      BY <2>2, <2>4 DEF IInv, Accounted
    <3> QED BY <3>1, <1>1, <2>5 DEF IInv, ContentsIntact
  <2>11. Covered'
    <3> SUFFICES ASSUME NEW t \in Segment, NEW w \in Word, w < HeapSpaceStop
                 PROVE  (\E o \in InUse' : Covers(o, t, w)') \/ SweptOver(t, w)'
      BY DEF Covered
    <3>1. PICK o \in InUse : Covers(o, t, w)
      BY <1>1 DEF IInv, Covered, SweptOver
    <3>2. CASE o \in Released
      <4>1. Piece(o) \in sweep'.abandoned /\ t = s
        BY <3>1, <3>2, <2>2, <2>3 DEF Covers
      <4>2. Piece(o)[1] <= w /\ w < Piece(o)[1] + Piece(o)[2]
        BY <3>1 DEF Covers, After, Piece
      <4> QED BY <4>1, <4>2, <1>1, <2>1 DEF SweptOver
    <3>3. CASE o \notin Released
      BY <3>1, <3>3, <2>4, <2>5 DEF Covers, After
    <3> QED BY <3>2, <3>3
  <2>12. SweepRight'
    <3>1. PICK first \in Released : low = ot[first].location
      BY <2>2
    <3>2. /\ After(ot[first]) \in Nat /\ low <= After(ot[first])
          /\ After(ot[first]) <= HeapSpaceStop + 1 /\ first \in InUse
          /\ ot[first].segment = s
      <4>1. /\ first \in InUse /\ ot[first].segment = s
            /\ ot[first].location \in Nat /\ ot[first].size \in Nat
            /\ After(ot[first]) <= HeapSpaceStop + 1
        BY <2>2
      <4>2. After(ot[first]) \in Nat /\ ot[first].location <= After(ot[first])
        BY <4>1 DEF After
      <4> QED BY <4>1, <4>2, <3>1
    <3>3. low <= HeapSpaceStop + 1
      BY <3>2, <2>2, ConstantFacts
    <3>4. sweep'.abandoned # {}
      BY <3>1, <2>3
    <3>5. MovedOrAhead'
      <4> SUFFICES ASSUME NEW o \in InUse', ot[o].segment = s
                   PROVE  After(ot[o]) <= low \/ low <= ot[o].location
        BY <1>1, <2>3, <2>5 DEF MovedOrAhead, After
      <4>1. o \in InUse /\ o # first
        BY <3>1, <2>4
      <4>2. After(ot[o]) <= ot[first].location \/ After(ot[first]) <= ot[o].location
        BY <4>1, <3>2 DEF IInv, Layout, Apart, Before
      <4>3. ot[o].location \in Nat
        BY <4>1, InUseFields DEF IInv
      <4> QED BY <4>2, <4>3, <3>1, <3>2, <2>2
    <3>6. PiecesAhead'
      <4> SUFFICES ASSUME NEW c \in sweep'.abandoned
                   PROVE  low <= c[1] /\ HeaderSize <= c[2] /\ c[1] + c[2] <= HeapSpaceStop + 1
        BY <2>3 DEF PiecesAhead, PieceEnd
      <4>1. PICK o \in Released : c = Piece(o)
        BY <2>3
      <4>2. c[1] = ot[o].location /\ c[2] = ot[o].size
        BY <4>1 DEF Piece
      <4> QED BY <4>2, <2>2, ConstantFacts DEF After
    <3>7. PiecesApart'
      <4>1. ASSUME NEW c \in sweep'.abandoned, NEW d \in sweep'.abandoned, c # d
            PROVE  c[1] + c[2] <= d[1] \/ d[1] + d[2] <= c[1]
        <5>1. PICK o \in Released : c = Piece(o)
          BY <2>3
        <5>2. PICK p \in Released : d = Piece(p)
          BY <2>3
        <5>3. /\ c[1] = ot[o].location /\ c[2] = ot[o].size
              /\ d[1] = ot[p].location /\ d[2] = ot[p].size /\ o # p
          BY <4>1, <5>1, <5>2 DEF Piece
        <5>4. Before(ot[o], ot[p]) \/ Before(ot[p], ot[o])
          BY <5>3, <2>2 DEF IInv, Layout, Apart
        <5> QED BY <5>3, <5>4 DEF Before, After
      <4>2. ASSUME NEW c \in sweep'.abandoned, NEW o \in InUse', ot[o].segment = s
            PROVE  c[1] + c[2] <= ot[o].location \/ After(ot[o]) <= c[1]
        <5>1. PICK p \in Released : c = Piece(p)
          BY <2>3
        <5>2. c[1] = ot[p].location /\ c[2] = ot[p].size /\ p # o /\ o \in InUse
          BY <5>1, <2>4 DEF Piece
        <5>3. Before(ot[p], ot[o]) \/ Before(ot[o], ot[p])
          BY <4>2, <5>2, <2>2 DEF IInv, Layout, Apart
        <5> QED BY <5>2, <5>3 DEF Before, After
      <4>3. \A o \in InUse' : ot'[o] = ot[o] /\ After(ot'[o]) = After(ot[o])
        BY <2>5
      <4> QED BY <4>1, <4>2, <4>3, <1>1 DEF PiecesApart, PieceEnd, After
    <3> QED BY <3>3, <3>4, <3>5, <3>6, <3>7, <2>2, <2>3 DEF SweepRight
  <2> QED BY <1>4, <2>7, <2>8, <2>9, <2>10, <2>11, <2>12 DEF IInv
<1> QED BY <1>5, <1>6

(* One turn of the sweep skips an abandoned chunk.                         *)
LEMMA SweepSkipStep ==
  ASSUME IInv, sweepSkip
  PROVE  IInv'
<1> DEFINE si == sweep.si
           di == sweep.di
           ab == sweep.abandoned
           ns == sweep'.si
           na == sweep'.abandoned
<1>1. PICK c \in ab : c[1] = si /\ sweep' = [sweep EXCEPT !.si = @ + c[2], !.abandoned = @ \ {c}]
  BY DEF sweepSkip
<1>2. pc = "sweep" /\ UNCHANGED <<table, currentSegment, freeWords, freeOops, pc, request,
                                  progress, pending>>
  BY DEF sweepSkip
<1>3. /\ sweep \in [si : Nat, di : Nat, abandoned : SUBSET (Nat \X Nat)]
      /\ si \in Nat /\ di \in Nat /\ ab \subseteq Nat \X Nat
  BY DEF IInv, TypeOK
<1>4. c \in Nat \X Nat /\ c[1] \in Nat /\ c[2] \in Nat
  BY <1>3
<1>5. ns = si + c[2] /\ sweep'.di = di /\ na = ab \ {c}
  BY <1>1, <1>3
<1>6. /\ UNCHANGED <<ot, allocated, reachable, freeChunks, words, pc, currentSegment,
                     freeWords, freeOops, request, pending, compacted, collected, starved>>
      /\ allocated' \subseteq allocated
  BY <1>2 DEF table, progress
<1>7. NoExtraWords' /\ Fits' /\ Layout' /\ ContentsIntact' /\ InUse' = InUse
  BY <1>6, SameTable
<1>8. TypeOK'
  <2>1. si + c[2] \in Nat /\ ab \ {c} \in SUBSET (Nat \X Nat)
    BY <1>3, <1>4
  <2>2. sweep' = [sweep EXCEPT !.si = si + c[2], !.abandoned = ab \ {c}]
    BY <1>1
  <2>3. sweep' \in [si : Nat, di : Nat, abandoned : SUBSET (Nat \X Nat)]
    <3> HIDE DEF si, di, ab
    <3> QED BY <1>3, <2>1, <2>2
  <2> QED BY <1>6, <2>3 DEF IInv, TypeOK
<1>9. Accounted' /\ Phases' /\ OopsLeftExact'
  BY <1>6, <1>7 DEF IInv, Accounted, Phases, OopsLeftExact, auditFreeOops
<1>10. SweepRight
  BY <1>2 DEF IInv
<1>11. /\ di <= si /\ si <= HeapSpaceStop + 1
       /\ 2 <= c[2] /\ si + c[2] <= HeapSpaceStop + 1
  BY <1>1, <1>10, ConstantFacts DEF SweepRight, PiecesAhead, PieceEnd
<1>12. \A o \in InUse : ot[o].location \in Nat /\ ot[o].size \in Nat /\ ot[o].size >= 2
  BY InUseFields DEF IInv
<1>13. MovedOrAhead'
  <2> SUFFICES ASSUME NEW o \in InUse, ot[o].segment = currentSegment
               PROVE  After(ot[o]) <= di \/ ns <= ot[o].location
    BY <1>5, <1>6, <1>7 DEF MovedOrAhead, After
  <2>1. After(ot[o]) <= di \/ si <= ot[o].location
    BY <1>10 DEF SweepRight, MovedOrAhead
  <2>2. si <= ot[o].location =>
          PieceEnd(c) <= ot[o].location \/ After(ot[o]) <= c[1]
    BY <1>10 DEF SweepRight, PiecesApart
  <2> HIDE DEF si, di, ns, ab, na
  <2> QED BY <2>1, <2>2, <1>1, <1>3, <1>4, <1>5, <1>12 DEF PieceEnd, After
<1>14. PiecesAhead'
  <2> SUFFICES ASSUME NEW d \in na
               PROVE  ns <= d[1] /\ HeaderSize <= d[2] /\ d[1] + d[2] <= HeapSpaceStop + 1
    BY DEF PiecesAhead, PieceEnd
  <2>1. d \in ab /\ d # c /\ d[1] \in Nat /\ d[2] \in Nat
    BY <1>3, <1>5
  <2>2. si <= d[1] /\ HeaderSize <= d[2] /\ d[1] + d[2] <= HeapSpaceStop + 1
    BY <2>1, <1>10 DEF SweepRight, PiecesAhead, PieceEnd
  <2>3. c[1] + c[2] <= d[1] \/ d[1] + d[2] <= c[1]
    BY <2>1, <1>10 DEF SweepRight, PiecesApart, PieceEnd
  <2> HIDE DEF si, di, ns, ab, na
  <2> QED BY <2>1, <2>2, <2>3, <1>1, <1>3, <1>4, <1>5, ConstantFacts
<1>15. PiecesApart'
  <2>1. \A a, b \in na : a # b => PieceEnd(a) <= b[1] \/ PieceEnd(b) <= a[1]
    BY <1>5, <1>10 DEF SweepRight, PiecesApart
  <2>2. ASSUME NEW a \in na, NEW o \in InUse, ot[o].segment = currentSegment,
               ns <= ot[o].location
        PROVE  PieceEnd(a) <= ot[o].location \/ After(ot[o]) <= a[1]
    <3>1. a \in ab
      BY <1>5
    <3>2. si <= ot[o].location
      BY <2>2, <1>3, <1>4, <1>5, <1>12
    <3> QED BY <2>2, <3>1, <3>2, <1>10 DEF SweepRight, PiecesApart
  <2> QED BY <2>1, <2>2, <1>6, <1>7 DEF PiecesApart, PieceEnd, After
<1>16. di <= ns /\ ns <= HeapSpaceStop + 1 /\ di + HeaderSize <= ns
  BY <1>3, <1>4, <1>5, <1>11, ConstantFacts
<1>17. SweepRight'
  BY <1>5, <1>13, <1>14, <1>15, <1>16 DEF SweepRight
<1>18. Covered'
  <2> SUFFICES ASSUME NEW s \in Segment, NEW w \in Word, w < HeapSpaceStop
               PROVE  (\E o \in InUse : Covers(o, s, w)) \/ SweptOver(s, w)'
    BY <1>6, <1>7 DEF Covered, Covers, After
  <2>1. CASE SweptOver(s, w)
    <3>1. s = currentSegment /\ w \in Nat
      BY <2>1, ConstantFacts DEF SweptOver, Word
    <3>2. \/ di <= w /\ w < si
          \/ \E d \in ab : d[1] <= w /\ w < d[1] + d[2]
      BY <2>1 DEF SweptOver
    <3>3. \/ di <= w /\ w < ns
          \/ \E d \in na : d[1] <= w /\ w < d[1] + d[2]
      <4> HIDE DEF si, di, ns, ab, na
      <4>1. ASSUME NEW d \in ab, d[1] <= w, w < d[1] + d[2], d = c
            PROVE  di <= w /\ w < ns
        BY <4>1, <3>1, <1>1, <1>3, <1>4, <1>5, <1>11
      <4>2. di <= w /\ w < si => w < ns
        BY <3>1, <1>3, <1>4, <1>5
      <4> QED BY <3>2, <4>1, <4>2, <1>5
    <3> QED BY <3>1, <3>3, <1>2, <1>5, <1>6 DEF SweptOver
  <2>2. CASE ~SweptOver(s, w)
    BY <2>2 DEF IInv, Covered
  <2> QED BY <2>1, <2>2
<1> QED BY <1>7, <1>8, <1>9, <1>17, <1>18 DEF IInv

(* One turn of the sweep moves an object.                                  *)
LEMMA SweepMoveStep ==
  ASSUME IInv, sweepMove
  PROVE  IInv'
<1> DEFINE si == sweep.si
           di == sweep.di
           ab == sweep.abandoned
           cs == currentSegment
<1>1. PICK o \in InUse :
        /\ ot[o].segment = cs
        /\ ot[o].location = si
        /\ ot' = [ot EXCEPT ![o].location = di]
        /\ words' = [words EXCEPT ![cs] = movedDown(spaceOccupiedBy(ot[o]))]
        /\ sweep' = [sweep EXCEPT !.si = @ + spaceOccupiedBy(ot[o]),
                                  !.di = @ + spaceOccupiedBy(ot[o])]
  BY DEF sweepMove
<1>2. pc = "sweep" /\ UNCHANGED <<allocated, reachable, freeChunks, cs, freeWords,
                                  freeOops, pc, request, progress, pending>>
  BY DEF sweepMove
<1> DEFINE n == ot[o].size
<1>3. /\ sweep \in [si : Nat, di : Nat, abandoned : SUBSET (Nat \X Nat)]
      /\ si \in Nat /\ di \in Nat /\ ab \subseteq Nat \X Nat
      /\ cs \in Segment /\ words \in Memory
  BY DEF IInv, TypeOK, Memory
<1>4. /\ o \in Oop /\ ot[o] \in Entry /\ n \in Nat /\ n >= 2
      /\ spaceOccupiedBy(ot[o]) = n
      /\ si + n <= HeapSpaceStop + 1
  BY <1>1, InUseFields DEF IInv, Fits, After
<1>5. /\ UNCHANGED <<allocated, reachable, freeChunks, pc, currentSegment,
                     freeWords, freeOops, request, pending, compacted, collected, starved>>
  BY <1>2 DEF progress
<1>6. SweepRight
  BY <1>2 DEF IInv
<1>7. di <= si
  BY <1>6 DEF SweepRight
<1>8. sweep' = [sweep EXCEPT !.si = si + n, !.di = di + n]
      /\ sweep'.si = si + n /\ sweep'.di = di + n /\ sweep'.abandoned = ab
  BY <1>1, <1>3, <1>4
<1>9. \A p \in InUse : /\ p \in Oop /\ ot[p] \in Entry
                       /\ ot[p].segment \in Segment
                       /\ ot[p].location \in Nat /\ ot[p].size \in Nat /\ ot[p].size >= 2
                       /\ After(ot[p]) = ot[p].location + ot[p].size
  BY InUseFields DEF IInv, After
<1>10. /\ \A p \in Oop : p # o => ot'[p] = ot[p]
       /\ ot'[o] = [ot[o] EXCEPT !.location = di]
  BY <1>1, <1>4 DEF IInv, TypeOK
<1>11. /\ ot'[o] \in Entry /\ ot'[o].segment = cs /\ ot'[o].location = di
       /\ ot'[o].size = n /\ ot'[o].pointer = ot[o].pointer
  BY <1>1, <1>3, <1>4, <1>10 DEF Entry
<1>12. InUse' = InUse
  <2>1. InUse \subseteq Oop /\ ot'[o] # FreeEntry
    BY <1>11, EntryFields DEF InUse
  <2> QED BY <1>1, <1>10, <2>1 DEF InUse, FreePointers
<1>13. /\ words' \in Memory
       /\ \A s \in Segment, w \in Word :
            words'[s][w] = IF s = cs /\ di <= w /\ w < di + n
                           THEN words[s][w - di + si] ELSE words[s][w]
  <2> DEFINE f == movedDown(n)
  <2>1. words' = [words EXCEPT ![cs] = f]
    BY <1>1, <1>4
  <2>2. \A w \in Word : f[w] = IF di <= w /\ w < di + n
                               THEN words[cs][w - di + si] ELSE words[cs][w]
    BY DEF movedDown
  <2>3. ASSUME NEW w \in Word, di <= w, w < di + n
        PROVE  w - di + si \in Word
    <3> HIDE DEF si, di, n
    <3>1. w \in Nat /\ w - di + si \in Nat /\ w - di + si <= HeapSpaceStop
      BY <1>3, <1>4, <1>7, <2>3, ConstantFacts DEF Word
    <3> QED BY <3>1, ConstantFacts DEF Word
  <2>4. f \in [Word -> {Junk} \union (Oop \X Nat)]
    <3>1. \A w \in Word : words[cs][w] \in {Junk} \union (Oop \X Nat)
      BY <1>3 DEF Memory
    <3>2. ASSUME NEW w \in Word
          PROVE  (IF di <= w /\ w < di + n THEN words[cs][w - di + si] ELSE words[cs][w])
                   \in {Junk} \union (Oop \X Nat)
      BY <2>3, <3>1
    <3> QED BY <3>2 DEF movedDown
  <2> HIDE DEF f
  <2>5. words' \in Memory
    BY <1>3, <2>1, <2>4 DEF Memory
  <2>6. \A s \in Segment : words'[s] = IF s = cs THEN f ELSE words[s]
    BY <1>3, <2>1 DEF Memory
  <2> HIDE DEF si, di, n
  <2> QED BY <2>2, <2>5, <2>6
<1> HIDE DEF si, di, ab, n
(* The other objects of the segment are below di or above the object.      *)
<1>14. ASSUME NEW p \in InUse, p # o, ot[p].segment = cs
       PROVE  After(ot[p]) <= di \/ si + n <= ot[p].location
  <2>1. After(ot[p]) <= di \/ si <= ot[p].location
    BY <1>6, <1>14 DEF SweepRight, MovedOrAhead, si, di
  <2>2. After(ot[p]) <= si \/ si + n <= ot[p].location
    <3>1. Before(ot[p], ot[o]) \/ Before(ot[o], ot[p])
      BY <1>1, <1>14 DEF IInv, Layout, Apart
    <3> QED BY <3>1, <1>1 DEF Before, After, n
  <2> QED BY <2>1, <2>2, <1>3, <1>9
<1>15. ASSUME NEW c \in ab
       PROVE  /\ si + n <= c[1] /\ c[1] \in Nat /\ c[2] \in Nat
              /\ HeaderSize <= c[2] /\ PieceEnd(c) <= HeapSpaceStop + 1
  <2>1. /\ si <= c[1] /\ HeaderSize <= c[2] /\ PieceEnd(c) <= HeapSpaceStop + 1
        /\ c[1] \in Nat /\ c[2] \in Nat
    BY <1>3, <1>6 DEF SweepRight, PiecesAhead, si, ab
  <2>2. PieceEnd(c) <= si \/ si + n <= c[1]
    <3>1. si <= ot[o].location
      BY <1>1, <1>3 DEF si
    <3>2. PieceEnd(c) <= ot[o].location \/ After(ot[o]) <= c[1]
      BY <1>1, <1>6, <3>1 DEF SweepRight, PiecesApart, si, ab
    <3> QED BY <3>2, <1>1 DEF After, n, si
  <2> QED BY <2>1, <2>2, <1>3, <1>4, ConstantFacts DEF PieceEnd
<1>16. TypeOK'
  <2>1. ot' \in [Oop -> Entry \union {FreeEntry}]
    <3>1. ot' = [ot EXCEPT ![o] = ot'[o]]
      BY <1>1, <1>4 DEF IInv, TypeOK
    <3> HIDE <1>1
    <3> QED BY <3>1, <1>11 DEF IInv, TypeOK
  <2>2. si + n \in Nat /\ di + n \in Nat
    BY <1>3, <1>4
  <2>3. sweep' \in [si : Nat, di : Nat, abandoned : SUBSET (Nat \X Nat)]
    BY <1>3, <1>8, <2>2
  <2> QED BY <1>5, <1>13, <2>1, <2>3 DEF IInv, TypeOK, Memory
<1>17. NoExtraWords'
  <2> SUFFICES ASSUME NEW p \in InUse, ot'[p].pointer
               PROVE  ot'[p].size < HugeSize
    BY <1>12 DEF NoExtraWords
  <2> QED BY <1>9, <1>10, <1>11 DEF IInv, NoExtraWords, n
<1>18. Fits'
  <2> SUFFICES ASSUME NEW p \in InUse
               PROVE  After(ot'[p]) <= HeapSpaceStop + 1
    BY <1>12 DEF Fits, After
  <2>1. CASE p = o
    BY <2>1, <1>3, <1>4, <1>7, <1>11, ConstantFacts DEF After
  <2>2. CASE p # o
    BY <2>2, <1>9, <1>10 DEF IInv, Fits
  <2> QED BY <2>1, <2>2
<1>19. Layout'
  <2>1. ASSUME NEW p \in InUse, p # o
        PROVE  Apart(ot'[o], ot[p])
    <3> SUFFICES ASSUME ot[p].segment = cs
                 PROVE  di + n <= ot[p].location \/ After(ot[p]) <= di
      BY <1>11 DEF Apart, Before, After
    <3> QED BY <2>1, <1>14, <1>3, <1>4, <1>7, <1>9
  <2>2. ASSUME NEW p \in InUse, NEW q \in InUse, p # q
        PROVE  Apart(ot'[p], ot'[q])
    <3>1. CASE p = o
      BY <2>1, <2>2, <3>1, <1>9, <1>10
    <3>2. CASE q = o
      <4>1. Apart(ot'[o], ot[p])
        BY <2>1, <2>2, <3>2
      <4> QED BY <4>1, <2>2, <3>2, <1>9, <1>10 DEF Apart
    <3>3. CASE p # o /\ q # o
      BY <2>2, <3>3, <1>9, <1>10 DEF IInv, Layout
    <3> QED BY <3>1, <3>2, <3>3
  <2> QED BY <2>2, <1>12 DEF Layout, Apart, Before, After
<1>20. Accounted'
  <2>1. \A p \in InUse : ot'[p].segment = ot[p].segment /\ ot'[p].size = ot[p].size
    BY <1>1, <1>9, <1>10, <1>11 DEF n
  <2> QED BY <2>1, <1>5, <1>12 DEF IInv, Accounted
<1>21. Phases' /\ OopsLeftExact'
  BY <1>5 DEF IInv, Phases, OopsLeftExact, auditFreeOops
<1>22. MovedOrAhead'
  <2> SUFFICES ASSUME NEW p \in InUse, ot'[p].segment = cs
               PROVE  After(ot'[p]) <= di + n \/ si + n <= ot'[p].location
    BY <1>5, <1>8, <1>12 DEF MovedOrAhead, After
  <2>1. CASE p = o
    BY <2>1, <1>3, <1>4, <1>11 DEF After
  <2>2. CASE p # o
    <3>1. ot'[p] = ot[p]
      BY <2>2, <1>9, <1>10
    <3>2. After(ot[p]) <= di \/ si + n <= ot[p].location
      BY <3>1, <2>2, <1>14
    <3> QED BY <3>1, <3>2, <1>3, <1>4, <1>9
  <2> QED BY <2>1, <2>2
<1>23. PiecesAhead'
  <2>1. \A c \in ab : /\ si + n <= c[1] /\ HeaderSize <= c[2]
                      /\ PieceEnd(c) <= HeapSpaceStop + 1
    BY <1>15
  <2> QED BY <2>1, <1>8 DEF PiecesAhead, PieceEnd
<1>24. PiecesApart'
  <2>1. \A c, d \in ab : c # d => PieceEnd(c) <= d[1] \/ PieceEnd(d) <= c[1]
    BY <1>6 DEF SweepRight, PiecesApart, ab
  <2>2. ASSUME NEW c \in ab, NEW p \in InUse, ot'[p].segment = cs, si + n <= ot'[p].location
        PROVE  PieceEnd(c) <= ot'[p].location \/ After(ot'[p]) <= c[1]
    <3>1. CASE p = o
      BY <3>1, <1>3, <1>4, <1>7, <1>11, <1>15 DEF After
    <3>2. CASE p # o
      <4>1. ot'[p] = ot[p]
        BY <3>2, <1>9, <1>10
      <4>2. si <= ot[p].location
        BY <4>1, <2>2, <1>3, <1>4, <1>9
      <4> QED BY <4>1, <4>2, <2>2, <1>6 DEF SweepRight, PiecesApart, si, ab
    <3> QED BY <3>1, <3>2
  <2> QED BY <2>1, <2>2, <1>5, <1>8, <1>12 DEF PiecesApart, PieceEnd, After
<1>25. SweepRight'
  <2>1. di + n <= si + n /\ si + n <= HeapSpaceStop + 1
    BY <1>3, <1>4, <1>7
  <2>2. ab # {} \/ di + n + HeaderSize <= si + n
    <3>1. ab # {} \/ di + HeaderSize <= si
      BY <1>6 DEF SweepRight, si, di, ab
    <3> QED BY <3>1, <1>3, <1>4, ConstantFacts
  <2> QED BY <2>1, <2>2, <1>8, <1>22, <1>23, <1>24 DEF SweepRight
<1>26. Covered'
  <2> SUFFICES ASSUME NEW s \in Segment, NEW w \in Word, w < HeapSpaceStop
               PROVE  (\E p \in InUse : Covers(p, s, w)') \/ SweptOver(s, w)'
    BY <1>12 DEF Covered
  <2>1. w \in Nat
    BY ConstantFacts DEF Word
  <2>2. s = cs /\ di <= w /\ w < di + n => Covers(o, s, w)'
    BY <1>11 DEF Covers, After
  <2>3. s = cs /\ di + n <= w /\ w < si + n => SweptOver(s, w)'
    BY <1>2, <1>5, <1>8 DEF SweptOver
  <2>4. CASE SweptOver(s, w)
    <3>1. /\ s = cs
          /\ \/ di <= w /\ w < si
             \/ \E c \in ab : c[1] <= w /\ w < c[1] + c[2]
      BY <2>4 DEF SweptOver, si, di, ab
    <3>2. CASE \E c \in ab : c[1] <= w /\ w < c[1] + c[2]
      BY <3>1, <3>2, <1>2, <1>5, <1>8 DEF SweptOver
    <3>3. CASE di <= w /\ w < si
      BY <3>1, <3>3, <2>1, <2>2, <2>3, <1>1, <1>3, <1>4
    <3> QED BY <3>1, <3>2, <3>3
  <2>5. CASE ~SweptOver(s, w)
    <3>1. PICK p \in InUse : Covers(p, s, w)
      BY <2>5 DEF IInv, Covered
    <3>2. CASE p = o
      <4>1. s = cs /\ si <= w /\ w < si + n
        BY <3>1, <3>2, <1>1 DEF Covers, After, n
      <4> QED BY <4>1, <2>1, <2>2, <2>3, <1>1, <1>3, <1>4, <1>7
    <3>3. CASE p # o
      <4>1. ot'[p] = ot[p]
        BY <3>3, <1>9, <1>10
      <4> QED BY <3>1, <4>1 DEF Covers, After
    <3> QED BY <3>2, <3>3
  <2> QED BY <2>4, <2>5
<1>27. ContentsIntact'
  <2> SUFFICES ASSUME NEW p \in allocated, NEW i \in 0 .. ot'[p].size - 1
               PROVE  words'[ot'[p].segment][ot'[p].location + i] = <<p, i>>
    BY <1>5 DEF ContentsIntact
  <2>1. p \in InUse
    BY DEF IInv, Accounted
  <2>2. ot'[p].size = ot[p].size
    BY <2>1, <1>9, <1>10, <1>11 DEF n
  <2>3. i \in 0 .. ot[p].size - 1
    BY <2>2
  <2>4. words[ot[p].segment][ot[p].location + i] = <<p, i>>
    BY <2>3 DEF IInv, ContentsIntact
  <2>5. /\ i \in Nat /\ i < ot[p].size
        /\ ot[p].location + i \in Word
        /\ ot[p].location + i < After(ot[p])
    BY <2>1, <2>3, WordsOfObject
  <2>6. CASE p = o
    <3> DEFINE w == di + i
    <3>1. i < n /\ words[cs][si + i] = <<p, i>>
      BY <2>4, <2>5, <2>6, <1>1 DEF n
    <3>2. w \in Word /\ di <= w /\ w < di + n /\ w - di + si = si + i
      BY <2>5, <3>1, <1>3, <1>4, <1>7, ConstantFacts DEF Word
    <3>3. words'[cs][w] = words[cs][w - di + si]
      <4> HIDE DEF w
      <4> QED BY <3>2, <1>3, <1>13
    <3> QED BY <2>6, <3>1, <3>2, <3>3, <1>11
  <2>7. CASE p # o
    <3> DEFINE w == ot[p].location + i
    <3>1. ot'[p] = ot[p] /\ ot[p].segment \in Segment
      BY <2>1, <2>7, <1>9, <1>10
    <3>2. ~(ot[p].segment = cs /\ di <= w /\ w < di + n)
      <4> SUFFICES ASSUME ot[p].segment = cs
                   PROVE  ~(di <= w /\ w < di + n)
        OBVIOUS
      <4>1. After(ot[p]) <= di \/ si + n <= ot[p].location
        BY <2>1, <2>7, <1>14
      <4> QED BY <4>1, <2>1, <2>5, <1>3, <1>4, <1>7, <1>9
    <3>3. words'[ot[p].segment][w] = words[ot[p].segment][w]
      <4>1. w \in Word
        BY <2>5
      <4> HIDE DEF w
      <4> QED BY <3>1, <3>2, <4>1, <1>13
    <3> QED BY <2>4, <3>1, <3>3
  <2> QED BY <2>6, <2>7
<1> QED BY <1>16, <1>17, <1>18, <1>19, <1>20, <1>21, <1>25, <1>26, <1>27 DEF IInv

(* The end of the sweep: the rest of the segment becomes one chunk.        *)
LEMMA SweepEndStep ==
  ASSUME IInv, sweepEnd
  PROVE  IInv'
<1> DEFINE si == sweep.si
           di == sweep.di
           cs == currentSegment
           e == [segment |-> cs, location |-> di, size |-> bigSpace(di), pointer |-> FALSE]
<1>1. PICK o \in FreePointers :
        /\ ot' = [ot EXCEPT ![o] = e]
        /\ freeChunks' = toFreeChunkList(freeChunks, o, e)
        /\ words' = WithJunk(words, cs, di, e.size)
  BY DEF sweepEnd
<1>2. /\ pc = "sweep" /\ si >= HeapSpaceStop
      /\ sweep' = NoSweep /\ pc' = "attempt"
      /\ UNCHANGED <<allocated, reachable, cs, freeWords, freeOops, request, progress,
                     pending>>
  BY DEF sweepEnd
<1>3. /\ UNCHANGED <<allocated, reachable, currentSegment, freeWords, freeOops, request,
                     pending, compacted, collected, starved>>
  BY <1>2 DEF progress
<1>4. /\ si \in Nat /\ di \in Nat /\ sweep.abandoned \subseteq Nat \X Nat
      /\ cs \in Segment /\ words \in Memory /\ freeChunks \in Lists
  BY DEF IInv, TypeOK, Memory, Lists
<1>5. SweepRight
  BY <1>2 DEF IInv
<1>6. /\ o \in Oop /\ o \notin InUse /\ o \notin allocated /\ o \notin pending
      /\ \A s \in Segment, n \in ListSize : o \notin freeChunks[s][n]
  <2>1. o \in Oop /\ o \notin InUse
    BY DEF FreePointers, InUse
  <2> QED BY <2>1 DEF IInv, Accounted
<1>7. \A p \in InUse : /\ p \in Oop /\ p # o /\ ot[p] \in Entry
                       /\ ot[p].segment \in Segment
                       /\ ot[p].location \in Nat /\ ot[p].size \in Nat /\ ot[p].size >= 2
                       /\ After(ot[p]) = ot[p].location + ot[p].size
                       /\ After(ot[p]) <= HeapSpaceStop + 1
  BY <1>6, InUseFields DEF IInv, After, Fits
(* Nothing is left to sweep, and what was swept is a chunk at least.       *)
<1>8. sweep.abandoned = {}
  <2> SUFFICES ASSUME NEW c \in sweep.abandoned
               PROVE  FALSE
    OBVIOUS
  <2>1. /\ si <= c[1] /\ 2 <= c[2] /\ c[1] + c[2] <= HeapSpaceStop + 1
        /\ c[1] \in Nat /\ c[2] \in Nat
    BY <1>4, <1>5, ConstantFacts DEF SweepRight, PiecesAhead, PieceEnd
  <2> HIDE DEF si
  <2> QED BY <2>1, <1>2, <1>4, ConstantFacts
<1>9. di + 2 <= HeapSpaceStop + 1 /\ si <= HeapSpaceStop + 1 /\ di <= si
  <2>1. di + 2 <= si /\ si <= HeapSpaceStop + 1 /\ di <= si
    BY <1>5, <1>8, ConstantFacts DEF SweepRight
  <2> HIDE DEF si, di
  <2> QED BY <2>1, <1>4, ConstantFacts
<1>10. ASSUME NEW p \in InUse, ot[p].segment = cs
       PROVE  After(ot[p]) <= di
  <2>1. After(ot[p]) <= di \/ si <= ot[p].location
    BY <1>5, <1>10 DEF SweepRight, MovedOrAhead
  <2> HIDE DEF si, di
  <2> QED BY <2>1, <1>2, <1>4, <1>7, ConstantFacts
<1>11. /\ bigSpace(di) \in Nat /\ bigSpace(di) >= 2 /\ di + bigSpace(di) = HeapSpaceStop + 1
       /\ bigSpace(di) \in ChunkSize
  <2> HIDE DEF di
  <2> QED BY <1>4, <1>9, ConstantFacts DEF bigSpace, ChunkSize
<1>12. /\ e \in Entry /\ e.segment = cs /\ e.location = di /\ e.size = bigSpace(di)
       /\ e.pointer = FALSE /\ After(e) = HeapSpaceStop + 1
  BY <1>4, <1>11 DEF Entry, After
<1>13. /\ words' \in Memory
       /\ \A s \in Segment, w \in Word :
            words'[s][w] = IF s = cs /\ di <= w /\ w < HeapSpaceStop + 1
                           THEN Junk ELSE words[s][w]
  <2> DEFINE n == bigSpace(di)
  <2>1. words' = WithJunk(words, cs, di, n)
    BY <1>1, <1>12
  <2>2. cs \in Segment /\ di \in Nat /\ n \in Nat
    BY <1>4, <1>11
  <2>4. di + n = HeapSpaceStop + 1
    BY <1>11
  <2>5. words \in Memory
    BY <1>4
  <2> HIDE DEF n, di, cs
  <2>3. /\ words' \in Memory
        /\ \A s \in Segment, w \in Word :
             words'[s][w] = IF s = cs /\ di <= w /\ w < di + n THEN Junk ELSE words[s][w]
    BY <2>1, <2>2, <2>5, JunkWritten
  <2> QED BY <2>3, <2>4
<1> HIDE DEF si, di, e
<1>14. /\ freeChunks' \in Lists
       /\ \A s \in Segment, n \in ListSize, p \in Oop :
            p \in freeChunks'[s][n] <=> \/ p \in freeChunks[s][n]
                                        \/ p = o /\ s = e.segment /\ n = listFor(e.size)
  <2>1. ASSUME NEW r, r = toFreeChunkList(freeChunks, o, e)
        PROVE  /\ r \in Lists
               /\ \A s \in Segment, n \in ListSize, p \in Oop :
                    p \in r[s][n] <=> \/ p \in freeChunks[s][n]
                                      \/ p = o /\ s = e.segment /\ n = listFor(e.size)
    BY <1>4, <1>6, <1>12, <2>1, AddToList
  <2> QED BY <1>1, <2>1
<1>15. /\ ot'[o] = e
       /\ \A p \in Oop : p # o => ot'[p] = ot[p]
  BY <1>1, <1>6 DEF IInv, TypeOK
<1>16. InUse' = InUse \union {o} /\ \A p \in InUse : ot'[p] = ot[p]
  <2>1. e # FreeEntry
    BY <1>12, EntryFields
  <2> QED BY <2>1, <1>6, <1>15 DEF InUse, FreePointers
<1>17. TypeOK'
  <2>1. ot' \in [Oop -> Entry \union {FreeEntry}]
    BY <1>1, <1>12 DEF IInv, TypeOK
  <2>2. sweep' \in [si : Nat, di : Nat, abandoned : SUBSET (Nat \X Nat)]
    BY <1>2 DEF NoSweep
  <2>3. freeChunks' \in [Segment -> [ListSize -> SUBSET Oop]]
    BY <1>14 DEF Lists
  <2>4. words' \in [Segment -> [Word -> {Junk} \union (Oop \X Nat)]]
    BY <1>13 DEF Memory
  <2> QED BY <1>2, <1>3, <2>1, <2>2, <2>3, <2>4 DEF IInv, TypeOK
<1>18. NoExtraWords' /\ Fits'
  <2>1. NoExtraWords'
    BY <1>12, <1>15, <1>16 DEF IInv, NoExtraWords
  <2>2. ASSUME NEW p \in InUse'
        PROVE  After(ot'[p]) <= HeapSpaceStop + 1
    <3>1. CASE p = o
      BY <3>1, <1>12, <1>15, ConstantFacts
    <3>2. CASE p # o
      BY <3>2, <1>7, <1>16
    <3> QED BY <3>1, <3>2
  <2> QED BY <2>1, <2>2 DEF Fits, After
<1>19. Layout'
  <2>1. \A p \in InUse : Apart(e, ot[p]) /\ Apart(ot[p], e)
    BY <1>10, <1>12 DEF Apart, Before
  <2>2. ASSUME NEW p \in InUse', NEW q \in InUse', p # q
        PROVE  Apart(ot'[p], ot'[q])
    <3>1. CASE p = o
      BY <2>1, <2>2, <3>1, <1>15, <1>16
    <3>2. CASE q = o
      BY <2>1, <2>2, <3>2, <1>15, <1>16
    <3>3. CASE p # o /\ q # o
      BY <2>2, <3>3, <1>16 DEF IInv, Layout
    <3> QED BY <3>1, <3>2, <3>3
  <2> QED BY <2>2 DEF Layout, Apart, Before, After
<1>20. Accounted'
  <2>1. listFor(e.size) \in ListSize /\ e.segment \in Segment
    BY <1>12, EntryFields, ListForSize
  <2>2. \A p \in allocated' : p \in InUse' /\ p \notin pending'
    BY <1>3, <1>16 DEF IInv, Accounted
  <2>3. \A p \in pending' : p \in InUse'
    BY <1>3, <1>16 DEF IInv, Accounted
  <2>4. \A p \in InUse' : p \in allocated' \/ p \in pending'
          \/ \E s \in Segment, n \in ListSize : p \in freeChunks'[s][n]
    <3> SUFFICES ASSUME NEW p \in InUse', p \notin allocated', p \notin pending'
                 PROVE  \E s \in Segment, n \in ListSize : p \in freeChunks'[s][n]
      OBVIOUS
    <3>1. CASE p = o
      BY <3>1, <2>1, <1>6, <1>14
    <3>2. CASE p # o
      <4>1. p \in InUse /\ p \in Oop
        BY <3>2, <1>7, <1>16
      <4>2. PICK s \in Segment, n \in ListSize : p \in freeChunks[s][n]
        BY <4>1, <1>3 DEF IInv, Accounted
      <4> QED BY <4>1, <4>2, <1>14
    <3> QED BY <3>1, <3>2
  <2>5. ASSUME NEW s \in Segment, NEW n \in ListSize, NEW p \in freeChunks'[s][n]
        PROVE  /\ p \in InUse' /\ p \notin allocated' /\ p \notin pending'
               /\ ot'[p].segment = s
               /\ n = listFor(ot'[p].size) \/ n = BigSize
               /\ \A m \in ListSize : p \in freeChunks'[s][m] => m = n
    <3>1. p \in Oop
      BY <1>14 DEF Lists
    <3>2. CASE p = o
      <4>1. s = e.segment /\ n = listFor(e.size)
        BY <3>2, <1>6, <1>14
      <4> QED BY <4>1, <3>2, <1>3, <1>6, <1>14, <1>15, <1>16
    <3>3. CASE p # o
      <4>1. p \in freeChunks[s][n] /\ \A m \in ListSize :
              p \in freeChunks'[s][m] => p \in freeChunks[s][m]
        BY <3>1, <3>3, <1>14
      <4>2. /\ p \in InUse /\ p \notin allocated /\ p \notin pending
            /\ ot[p].segment = s
            /\ n = listFor(ot[p].size) \/ n = BigSize
            /\ \A m \in ListSize : p \in freeChunks[s][m] => m = n
        BY <4>1 DEF IInv, Accounted
      <4> QED BY <4>1, <4>2, <1>3, <1>16
    <3> QED BY <3>2, <3>3
  <2> QED BY <2>2, <2>3, <2>4, <2>5 DEF Accounted
<1>21. Phases' /\ OopsLeftExact'
  BY <1>2, <1>3 DEF IInv, Phases, OopsLeftExact, auditFreeOops
<1>22. Covered'
  <2> SUFFICES ASSUME NEW s \in Segment, NEW w \in Word, w < HeapSpaceStop
               PROVE  \E p \in InUse' : Covers(p, s, w)'
    BY DEF Covered
  <2>1. CASE SweptOver(s, w)
    <3>1. s = cs /\ di <= w /\ w \in Nat
      BY <2>1, <1>8, ConstantFacts DEF SweptOver, di, Word
    <3>2. w < HeapSpaceStop + 1
      BY <3>1, ConstantFacts
    <3>3. Covers(o, s, w)'
      BY <3>1, <3>2, <1>12, <1>15 DEF Covers, After
    <3> QED BY <3>3, <1>16
  <2>2. CASE ~SweptOver(s, w)
    <3>1. PICK p \in InUse : Covers(p, s, w)
      BY <2>2 DEF IInv, Covered
    <3> QED BY <3>1, <1>16 DEF Covers, After
  <2> QED BY <2>1, <2>2
<1>23. ContentsIntact'
  <2> SUFFICES ASSUME NEW p \in allocated, NEW i \in 0 .. ot'[p].size - 1
               PROVE  words'[ot'[p].segment][ot'[p].location + i] = <<p, i>>
    BY <1>3 DEF ContentsIntact
  <2>1. p \in InUse /\ ot'[p] = ot[p] /\ ot[p].segment \in Segment
    <3>1. p \in InUse
      BY DEF IInv, Accounted
    <3> QED BY <3>1, <1>7, <1>16
  <2>2. i \in 0 .. ot[p].size - 1
    BY <2>1
  <2>3. words[ot[p].segment][ot[p].location + i] = <<p, i>>
    BY <2>2 DEF IInv, ContentsIntact
  <2> DEFINE w == ot[p].location + i
  <2>4. w \in Word /\ w < After(ot[p]) /\ w \in Int
    BY <2>1, <2>2, <1>7, WordsOfObject
  <2>5. ~(ot[p].segment = cs /\ di <= w)
    <3> SUFFICES ASSUME ot[p].segment = cs
                 PROVE  ~(di <= w)
      OBVIOUS
    <3>1. After(ot[p]) <= di
      BY <2>1, <1>10
    <3> HIDE DEF w
    <3> QED BY <3>1, <2>1, <2>4, <1>4, <1>7
  <2>6. words'[ot[p].segment][w] = words[ot[p].segment][w]
    <3> HIDE DEF w
    <3> QED BY <2>1, <2>4, <2>5, <1>13
  <2> QED BY <2>1, <2>3, <2>6
<1> QED BY <1>2, <1>17, <1>18, <1>19, <1>20, <1>21, <1>22, <1>23 DEF IInv

-----------------------------------------------------------------------------
(***************************************************************************)
(* The image as loaded.                                                    *)
(***************************************************************************)
LEMMA InitialStates ==
  ASSUME Init
  PROVE  IInv
<1> DEFINE Rest(image, s) == HeapSpaceStop + 1 - image[s]
           Entries(home, s, where) == {o \in where : home[o] = s}
<1>1. PICK image \in [Segment -> ImageSizes], home \in [Oop -> 0 .. HeapSegmentCount],
           objects \in SUBSET Oop :
        /\ \A o \in objects : home[o] # 0
        /\ \A s \in Segment :
             /\ image[s] <= HeapSpaceStop + 1
             /\ \A o, p \in Entries(home, s, objects) : o = p
             /\ \A o, p \in Entries(home, s, Oop \ objects) : o = p
             /\ image[s] > 0 <=> Entries(home, s, objects) # {}
             /\ Rest(image, s) >= HeaderSize <=> Entries(home, s, Oop \ objects) # {}
        /\ ot = [o \in Oop |->
             CASE home[o] = 0 -> FreeEntry
               [] home[o] # 0 /\ o \in objects ->
                    [segment |-> home[o], location |-> 0, size |-> image[home[o]],
                     pointer |-> FALSE]
               [] home[o] # 0 /\ o \notin objects ->
                    [segment |-> home[o], location |-> image[home[o]],
                     size |-> Rest(image, home[o]), pointer |-> FALSE]]
        /\ allocated = objects
        /\ freeChunks = [s \in Segment |-> [n \in ListSize |->
             {o \in Entries(home, s, Oop \ objects) : listFor(Rest(image, s)) = n}]]
        /\ words = [s \in Segment |-> [w \in Word |->
             IF w < image[s]
             THEN <<CHOOSE o \in Entries(home, s, objects) : TRUE, w>> ELSE Junk]]
        /\ freeWords = Cardinality({x \in Segment \X Word : image[x[1]] <= x[2]})
  BY DEF Init, loadObjects
<1>2. /\ reachable = allocated /\ freeOops = auditFreeOops /\ currentSegment = 1
      /\ pc = "mutator" /\ request = Nothing /\ compacted = 0 /\ collected = FALSE
      /\ starved = FALSE /\ sweep = NoSweep /\ pending = {}
  BY DEF Init
<1> DEFINE r(s) == Rest(image, s)
           Object(o) == [segment |-> home[o], location |-> 0, size |-> image[home[o]],
                         pointer |-> FALSE]
           Chunk(o) == [segment |-> home[o], location |-> image[home[o]],
                        size |-> r(home[o]), pointer |-> FALSE]
<1>3. \A s \in Segment : image[s] \in Nat /\ (image[s] = 0 \/ image[s] >= 2)
  BY RequestsAssumption, ConstantFacts
<1>4. \A s \in Segment : image[s] <= HeapSpaceStop + 1 /\ r(s) \in Nat
                         /\ r(s) + image[s] = HeapSpaceStop + 1
  BY <1>1, <1>3, ConstantFacts
<1>5. \A o \in Oop : home[o] # 0 => home[o] \in Segment
  BY ConstantFacts DEF Segment
(* The entries of a segment: at most one object and one chunk.             *)
<1>6. ASSUME NEW o \in Oop, NEW p \in Oop, home[o] # 0, home[p] = home[o],
             o \in objects <=> p \in objects
      PROVE  o = p
  BY <1>1, <1>5, <1>6
<1>7. ASSUME NEW s \in Segment
      PROVE  /\ image[s] > 0 <=> \E o \in objects : home[o] = s
             /\ r(s) >= 2 <=> \E o \in Oop \ objects : home[o] = s
  <2>1. image[s] > 0 <=> Entries(home, s, objects) # {}
    BY <1>1
  <2>2. r(s) >= 2 <=> Entries(home, s, Oop \ objects) # {}
    BY <1>1, ConstantFacts
  <2> QED BY <2>1, <2>2
<1>8. ASSUME NEW o \in Oop, home[o] = 0
      PROVE  ot[o] = FreeEntry /\ o \notin objects
  BY <1>1, <1>8
<1>9. ASSUME NEW o \in Oop, home[o] # 0, o \in objects
      PROVE  /\ ot[o] = Object(o) /\ ot[o] \in Entry /\ image[home[o]] >= 2
             /\ After(ot[o]) = image[home[o]]
             /\ ot[o].segment = home[o] /\ ot[o].location = 0
             /\ ot[o].size = image[home[o]] /\ ot[o].pointer = FALSE
  <2>1. ot[o] = Object(o)
    BY <1>1, <1>9
  <2>2. home[o] \in Segment /\ image[home[o]] \in Nat /\ image[home[o]] >= 2
    <3>1. home[o] \in Segment
      BY <1>5, <1>9
    <3>2. image[home[o]] > 0
      BY <3>1, <1>7, <1>9
    <3> QED BY <3>1, <3>2, <1>3
  <2> QED BY <2>1, <2>2, ConstantFacts DEF Entry, ChunkSize, After
<1>10. ASSUME NEW o \in Oop, home[o] # 0, o \notin objects
       PROVE  /\ ot[o] = Chunk(o) /\ ot[o] \in Entry /\ r(home[o]) >= 2
              /\ After(ot[o]) = HeapSpaceStop + 1
              /\ ot[o].segment = home[o] /\ ot[o].location = image[home[o]]
              /\ ot[o].size = r(home[o]) /\ ot[o].pointer = FALSE
  <2>1. ot[o] = Chunk(o)
    BY <1>1, <1>10
  <2>2. /\ home[o] \in Segment /\ r(home[o]) \in Nat /\ r(home[o]) >= 2
        /\ image[home[o]] \in Nat /\ image[home[o]] + r(home[o]) = HeapSpaceStop + 1
    <3>1. home[o] \in Segment
      BY <1>5, <1>10
    <3>2. r(home[o]) >= 2
      BY <3>1, <1>7, <1>10
    <3>3. image[home[o]] \in Nat /\ r(home[o]) \in Nat
          /\ r(home[o]) + image[home[o]] = HeapSpaceStop + 1
      BY <3>1, <1>3, <1>4
    <3> HIDE DEF r
    <3> QED BY <3>1, <3>2, <3>3
  <2> HIDE DEF r
  <2> QED BY <2>1, <2>2, ConstantFacts DEF Entry, ChunkSize, After
<1>11. ASSUME NEW s \in Segment, NEW n \in ListSize, NEW o
       PROVE  o \in freeChunks[s][n] <=>
                o \in Oop /\ o \notin objects /\ home[o] = s /\ n = listFor(r(s))
  BY <1>1
<1>12. ASSUME NEW s \in Segment, NEW o \in objects, home[o] = s,
              NEW w \in Word, w < image[s]
       PROVE  words[s][w] = <<o, w>>
  <2>1. words[s][w] = <<CHOOSE p \in Entries(home, s, objects) : TRUE, w>>
    BY <1>1, <1>12
  <2>2. (CHOOSE p \in Entries(home, s, objects) : TRUE) = o
    <3>1. o \in Entries(home, s, objects)
      BY <1>12
    <3>2. \A p \in Entries(home, s, objects) : p = o
      BY <3>1, <1>1
    <3> HIDE DEF Entries
    <3> QED BY <3>1, <3>2
  <2> QED BY <2>1, <2>2
<1>13. freeWords \in Nat
  <2>1. IsFiniteSet(Segment) /\ IsFiniteSet(Word)
    BY FS_Interval, ConstantFacts DEF Segment, Word
  <2>2. IsFiniteSet(Segment \X Word)
    BY <2>1, FS_Product
  <2> DEFINE F == {x \in Segment \X Word : image[x[1]] <= x[2]}
  <2>3. F \in SUBSET (Segment \X Word)
    OBVIOUS
  <2>4. freeWords = Cardinality(F)
    BY <1>1
  <2> HIDE DEF F
  <2>5. IsFiniteSet(F)
    BY <2>2, <2>3, FS_Subset
  <2> QED BY <2>4, <2>5, FS_CardinalityType
<1>14. words \in Memory
  <2>1. ASSUME NEW s \in Segment, NEW w \in Word
        PROVE  words[s][w] \in {Junk} \union (Oop \X Nat)
    <3>1. CASE w < image[s]
      <4>1. w \in Nat
        BY ConstantFacts DEF Word
      <4>2. image[s] > 0
        BY <3>1, <4>1, <1>3
      <4>3. PICK o \in objects : home[o] = s
        BY <4>2, <1>7
      <4>4. words[s][w] = <<o, w>>
        BY <3>1, <4>3, <1>12
      <4> QED BY <4>1, <4>4
    <3>2. CASE ~(w < image[s])
      BY <3>2, <1>1
    <3> QED BY <3>1, <3>2
  <2>2. words = [s \in Segment |-> [w \in Word |-> words[s][w]]]
    BY <1>1
  <2> QED BY <2>1, <2>2 DEF Memory
<1>15. freeChunks \in Lists
  <2>1. freeChunks = [s \in Segment |-> [n \in ListSize |-> freeChunks[s][n]]]
    BY <1>1
  <2>2. \A s \in Segment, n \in ListSize : freeChunks[s][n] \in SUBSET Oop
    BY <1>11
  <2> QED BY <2>1, <2>2 DEF Lists
<1>16. ot \in Table
  <2>1. \A o \in Oop : ot[o] \in Entry \union {FreeEntry}
    BY <1>8, <1>9, <1>10
  <2>2. ot = [o \in Oop |-> ot[o]]
    BY <1>1
  <2> QED BY <2>1, <2>2 DEF Table
<1>17. TypeOK
  <2>1. 1 \in Segment /\ 0 \in 0 .. HeapSegmentCount
    BY ConstantFacts DEF Segment
  <2>2. freeOops \in Int
    <3>1. Cardinality(Oop \ allocated) \in Nat
      BY FreeOopsFinite
    <3> QED BY <3>1, <1>2 DEF auditFreeOops
  <2>3. sweep \in [si : Nat, di : Nat, abandoned : SUBSET (Nat \X Nat)]
    BY <1>2 DEF NoSweep
  <2>4. allocated \subseteq Oop
    BY <1>1
  <2> QED BY <1>2, <1>13, <1>14, <1>15, <1>16, <2>1, <2>2, <2>3, <2>4
          DEF TypeOK, Table, Lists, Memory
<1>18. \A o \in Oop : o \in InUse <=> home[o] # 0
  BY <1>8, <1>9, <1>10, EntryFields DEF InUse, FreePointers
<1> HIDE DEF Entries, Rest, r, Object, Chunk
<1>19. NoExtraWords /\ Fits
  <2>1. ASSUME NEW o \in InUse
        PROVE  ot[o].pointer = FALSE /\ After(ot[o]) <= HeapSpaceStop + 1
    <3>1. o \in Oop /\ home[o] # 0
      BY <1>18 DEF InUse
    <3>2. home[o] \in Segment
      BY <3>1, <1>5
    <3>3. CASE o \in objects
      BY <3>1, <3>2, <3>3, <1>4, <1>9
    <3>4. CASE o \notin objects
      <4>1. ot[o].pointer = FALSE /\ After(ot[o]) = HeapSpaceStop + 1
        BY <3>1, <3>4, <1>10
      <4> QED BY <4>1, ConstantFacts
    <3> QED BY <3>3, <3>4
  <2> QED BY <2>1 DEF NoExtraWords, Fits
<1>20. Layout
  <2> SUFFICES ASSUME NEW o \in InUse, NEW p \in InUse, o # p, ot[o].segment = ot[p].segment
               PROVE  After(ot[o]) <= ot[p].location \/ After(ot[p]) <= ot[o].location
    BY DEF Layout, Apart, Before
  <2>1. o \in Oop /\ p \in Oop /\ home[o] # 0 /\ home[p] # 0
    BY <1>18 DEF InUse
  <2>2. ot[o].segment = home[o] /\ ot[p].segment = home[p]
    BY <2>1, <1>9, <1>10
  <2>3. home[o] = home[p] /\ image[home[o]] \in Nat
    <3>1. home[o] \in Segment
      BY <2>1, <1>5
    <3> QED BY <3>1, <2>2, <1>3
  <2>4. CASE o \in objects /\ p \notin objects
    <3>1. After(ot[o]) = image[home[o]] /\ ot[p].location = image[home[o]]
      BY <2>1, <2>3, <2>4, <1>9, <1>10
    <3> QED BY <3>1, <2>3
  <2>5. CASE p \in objects /\ o \notin objects
    <3>1. After(ot[p]) = image[home[o]] /\ ot[o].location = image[home[o]]
      BY <2>1, <2>3, <2>5, <1>9, <1>10
    <3> QED BY <3>1, <2>3
  <2>6. ~(o \in objects <=> p \in objects)
    BY <2>1, <2>2, <1>6
  <2> QED BY <2>4, <2>5, <2>6
<1>21. Accounted
  <2>1. \A o \in allocated : o \in InUse /\ o \notin pending
    BY <1>1, <1>2, <1>18
  <2>2. ASSUME NEW o \in InUse, o \notin allocated
        PROVE  \E s \in Segment, n \in ListSize : o \in freeChunks[s][n]
    <3>1. o \in Oop /\ home[o] # 0 /\ o \notin objects
      BY <2>2, <1>1, <1>18 DEF InUse
    <3>2. home[o] \in Segment /\ listFor(r(home[o])) \in ListSize
      <4>1. home[o] \in Segment
        BY <3>1, <1>5
      <4>2. r(home[o]) \in Nat /\ r(home[o]) >= 2
        BY <3>1, <4>1, <1>4, <1>10
      <4> QED BY <4>1, <4>2, ListForSize
    <3> QED BY <3>1, <3>2, <1>11
  <2>3. ASSUME NEW s \in Segment, NEW n \in ListSize, NEW o \in freeChunks[s][n]
        PROVE  /\ o \in InUse /\ o \notin allocated
               /\ ot[o].segment = s /\ n = listFor(ot[o].size)
               /\ \A m \in ListSize : o \in freeChunks[s][m] => m = n
    <3>1. o \in Oop /\ o \notin objects /\ home[o] = s /\ n = listFor(r(s)) /\ home[o] # 0
      BY <1>11, ConstantFacts
    <3>2. ot[o].segment = s /\ ot[o].size = r(s)
      BY <3>1, <1>10
    <3>3. \A m \in ListSize : o \in freeChunks[s][m] => m = n
      BY <3>1, <1>11
    <3> QED BY <3>1, <3>2, <3>3, <1>1, <1>18
  <2> QED BY <2>1, <2>2, <2>3, <1>2 DEF Accounted
<1>22. Phases /\ OopsLeftExact
  BY <1>2 DEF Phases, OopsLeftExact
<1>23. Covered
  <2> SUFFICES ASSUME NEW s \in Segment, NEW w \in Word, w < HeapSpaceStop
               PROVE  \E o \in InUse : Covers(o, s, w)
    BY DEF Covered
  <2>1. w \in Nat /\ image[s] \in Nat /\ r(s) \in Nat /\ r(s) + image[s] = HeapSpaceStop + 1
    BY <1>3, <1>4, ConstantFacts DEF Word
  <2>2. CASE w < image[s]
    <3>1. PICK o \in objects : home[o] = s
      BY <2>1, <2>2, <1>7
    <3>2. o \in Oop /\ home[o] # 0
      BY <3>1, ConstantFacts
    <3>3. ot[o].segment = s /\ ot[o].location = 0 /\ After(ot[o]) = image[s]
      BY <3>1, <3>2, <1>9
    <3> QED BY <2>1, <2>2, <3>1, <3>2, <3>3, <1>18 DEF Covers
  <2>3. CASE ~(w < image[s])
    <3>1. r(s) >= 2
      BY <2>1, <2>3, ConstantFacts
    <3>2. PICK o \in Oop \ objects : home[o] = s
      BY <3>1, <1>7
    <3>3. home[o] # 0
      BY <3>2, ConstantFacts
    <3>4. /\ ot[o].segment = s /\ ot[o].location = image[s]
          /\ After(ot[o]) = HeapSpaceStop + 1
      BY <3>2, <3>3, <1>10
    <3> QED BY <2>1, <2>3, <3>2, <3>3, <3>4, <1>18, ConstantFacts DEF Covers
  <2> QED BY <2>2, <2>3
<1>24. ContentsIntact
  <2> SUFFICES ASSUME NEW o \in objects, NEW i \in 0 .. ot[o].size - 1
               PROVE  words[ot[o].segment][ot[o].location + i] = <<o, i>>
    BY <1>1 DEF ContentsIntact
  <2>1. o \in Oop /\ home[o] # 0 /\ home[o] \in Segment
    BY <1>1, <1>5
  <2>2. image[home[o]] \in Nat /\ image[home[o]] <= HeapSpaceStop + 1
    BY <2>1, <1>3, <1>4
  <2>3. ot[o].segment = home[o] /\ ot[o].location = 0 /\ ot[o].size = image[home[o]]
    BY <2>1, <1>9
  <2>4. i \in Word /\ i < image[home[o]] /\ 0 + i = i
    BY <2>2, <2>3, ConstantFacts DEF Word
  <2>5. words[home[o]][i] = <<o, i>>
    BY <2>1, <2>4, <1>12
  <2> QED BY <2>3, <2>4, <2>5
<1> QED BY <1>2, <1>17, <1>19, <1>20, <1>21, <1>22, <1>23, <1>24 DEF IInv

-----------------------------------------------------------------------------
(***************************************************************************)
(* The invariant is preserved.                                             *)
(***************************************************************************)
LEMMA CollectionStep ==
  ASSUME IInv, garbageCollect \/ allocateChunkCollects
  PROVE  IInv'
<1>1. CASE garbageCollect
  <2>1. compacted' \in 0 .. HeapSegmentCount /\ collected' \in BOOLEAN /\ starved' \in BOOLEAN
    BY <1>1 DEF garbageCollect, progress, IInv, TypeOK
  <2>2. pc \in {"mutator", "attempt"} /\ reclaimInaccessibleObjects
    BY <1>1 DEF garbageCollect
  <2> QED BY <2>1, <2>2, ReclaimStep
<1>2. CASE allocateChunkCollects
  <2>1. compacted' \in 0 .. HeapSegmentCount /\ collected' \in BOOLEAN /\ starved' \in BOOLEAN
    <3>1. compacted' = 0 /\ collected' = TRUE /\ starved' = FALSE
      BY <1>2 DEF allocateChunkCollects, collectedNow
    <3>2. 0 \in 0 .. HeapSegmentCount
      BY ConstantFacts
    <3> QED BY <3>1, <3>2
  <2>2. pc \in {"mutator", "attempt"} /\ reclaimInaccessibleObjects
    BY <1>2 DEF allocateChunkCollects, NoChunkHere
  <2> QED BY <2>1, <2>2, ReclaimStep
<1> QED BY <1>1, <1>2

LEMMA Stutter ==
  ASSUME IInv, UNCHANGED vars
  PROVE  IInv'
<1> USE DEF vars
<1>1. /\ UNCHANGED <<ot, allocated, reachable, freeChunks, words, currentSegment,
                     freeWords, freeOops, pc, request, compacted, collected, starved,
                     sweep, pending>>
      /\ allocated' \subseteq allocated
  OBVIOUS
<1>2. InUse' = InUse /\ NoExtraWords' /\ Fits' /\ Layout' /\ ContentsIntact'
  BY <1>1, SameTable
<1>3. TypeOK' /\ Phases' /\ OopsLeftExact'
  BY DEF IInv, TypeOK, Phases, OopsLeftExact, auditFreeOops
<1>4. Accounted'
  BY <1>2 DEF IInv, Accounted
<1>5. pc = "sweep" => SweepRight'
  BY <1>2 DEF IInv, SweepRight, MovedOrAhead, PiecesAhead, PiecesApart, PieceEnd, After
<1>6. Covered'
  BY <1>2 DEF IInv, Covered, Covers, SweptOver, After
<1> QED BY <1>2, <1>3, <1>4, <1>5, <1>6 DEF IInv

LEMMA IInvPreserved ==
  ASSUME NoHugePointers, IInv, [Next]_vars
  PROVE  IInv'
<1>1. CASE Mutator
  <2>1. CASE AllocateRequest
    BY <2>1, AllocateStep DEF AllocateRequest
  <2>2. CASE LastReferenceGoes
    BY <2>2, CountDownStep DEF LastReferenceGoes
  <2>3. CASE DropFromReach
    BY <2>3, AbandonStep DEF DropFromReach
  <2> QED BY <1>1, <2>1, <2>2, <2>3 DEF Mutator
<1>2. CASE Attempt
  <2>1. CASE removeFromFreeChunkList
    BY <2>1, RemoveStep
  <2>2. CASE splitBigChunk
    BY <2>2, SplitStep
  <2>3. CASE abandonFreeChunksInSegment
    BY <2>3, AbandonChunksStep
  <2>4. CASE allocateChunkCollects
    BY <2>4, CollectionStep
  <2>5. CASE outOfMemoryError
    BY <2>5, OutOfMemoryStep
  <2> QED BY <1>2, <2>1, <2>2, <2>3, <2>4, <2>5 DEF Attempt
<1>3. CASE SweepStep
  BY <1>3, SweepSkipStep, SweepMoveStep, SweepEndStep DEF SweepStep
<1>4. CASE RectifyStep
  BY <1>4, RectifyDeallocateStep, RectifyEndStep DEF RectifyStep
<1>5. CASE garbageCollect
  BY <1>5, CollectionStep
<1>6. CASE UNCHANGED vars
  BY <1>6, Stutter
<1> QED BY <1>1, <1>2, <1>3, <1>4, <1>5, <1>6 DEF Next, AllocationStep

LEMMA IInvAlways ==
  ASSUME NoHugePointers
  PROVE  Spec => []IInv
<1>1. Init => IInv
  BY InitialStates
<1>2. IInv /\ [Next]_vars => IInv'
  BY IInvPreserved
<1> QED BY <1>1, <1>2, PTL DEF Spec

-----------------------------------------------------------------------------
(***************************************************************************)
(* The properties.                                                         *)
(***************************************************************************)
(* An entry in use ends where its size says, object or not.                *)
LEMMA EndIsAfter ==
  ASSUME IInv, NEW o \in InUse
  PROVE  EndOf(o) = After(ot[o])
BY InUseFields DEF IInv, EndOf, extent, After

(* Type correctness: entries, chunk lists and words keep their types; a    *)
(* chunk never gets too small for its header, without huge pointer objects.*)
THEOREM TypeCorrect ==
  ASSUME NoHugePointers
  PROVE  Spec => []TypeOK
<1>1. IInv => TypeOK
  BY DEF IInv
<1> QED BY <1>1, IInvAlways, PTL

(* As long as no pointer object with an extra word is asked for, objects   *)
(* and free chunks lie within their segments and are disjoint, through     *)
(* every other allocation, deallocation, collection and compaction.  With  *)
(* one (objectmemory.c:2098) they need not be: run chunk_size.             *)
THEOREM NeverOverlapping ==
  ASSUME NoHugePointers
  PROVE  Spec => []NoOverlap
<1>1. ASSUME IInv PROVE NoOverlap
  <2>1. WithinSegment
    BY <1>1, EndIsAfter DEF IInv, Fits, WithinSegment
  <2>2. ChunksDisjoint
    <3> SUFFICES ASSUME NEW o \in InUse, NEW p \in InUse, o # p,
                        ot[o].segment = ot[p].segment
                 PROVE  EndOf(o) <= ot[p].location \/ EndOf(p) <= ot[o].location
      BY DEF ChunksDisjoint
    <3> QED BY <1>1, EndIsAfter DEF IInv, Layout, Apart, Before
  <2> QED BY <2>1, <2>2 DEF NoOverlap
<1>2. IInv => NoOverlap
  BY <1>1
<1> QED BY <1>2, IInvAlways, PTL

(* No entry of the object table leaks or is on two lists, without huge     *)
(* pointer objects.                                                        *)
THEOREM NoEntryLeaks ==
  ASSUME NoHugePointers
  PROVE  Spec => []EntriesAccountedFor
<1>1. ASSUME IInv PROVE EntriesAccountedFor
  <2>1. Accounted
    BY <1>1 DEF IInv
  <2>2. InUse = allocated \union pending
                  \union UNION {freeChunks[s][n] : s \in Segment, n \in ListSize}
    BY <2>1 DEF Accounted
  <2>3. allocated \intersect pending = {}
    BY <2>1 DEF Accounted
  <2>4. \A s \in Segment, n \in ListSize : \A o \in freeChunks[s][n] :
          /\ o \notin allocated \union pending
          /\ ot[o].segment = s
          /\ n \in {listFor(ot[o].size), BigSize}
          /\ \A m \in ListSize : o \in freeChunks[s][m] => m = n
    BY <2>1 DEF Accounted
  <2> QED BY <2>2, <2>3, <2>4 DEF EntriesAccountedFor
<1>2. IInv => EntriesAccountedFor
  BY <1>1
<1> QED BY <1>2, IInvAlways, PTL

(* An object keeps its words however often it is moved, without huge       *)
(* pointer objects.                                                        *)
THEOREM ContentsKept ==
  ASSUME NoHugePointers
  PROVE  Spec => []ContentsIntact
<1>1. IInv => ContentsIntact
  BY DEF IInv
<1> QED BY <1>1, IInvAlways, PTL

(* oopsLeft, kept by counting, answers the number of free entries, without *)
(* huge pointer objects.                                                   *)
THEOREM OopsCounted ==
  ASSUME NoHugePointers
  PROVE  Spec => []OopsLeftExact
<1>1. IInv => OopsLeftExact
  BY DEF IInv
<1> QED BY <1>1, IInvAlways, PTL

(* Every word below the last of a segment is in an object or a chunk, or   *)
(* about to be made one by the sweep, without huge pointer objects.        *)
THEOREM WordsCovered ==
  ASSUME NoHugePointers
  PROVE  Spec => []NoWordLost
<1>1. ASSUME IInv PROVE NoWordLost
  <2> SUFFICES ASSUME NEW s \in Segment, NEW w \in Word, w < HeapSpaceStop, ~SweptOver(s, w)
               PROVE  \E o \in InUse : Holds(o, s, w)
    BY DEF NoWordLost
  <2>1. PICK o \in InUse : Covers(o, s, w)
    BY <1>1 DEF IInv, Covered
  <2>2. EndOf(o) = After(ot[o])
    BY <1>1, EndIsAfter
  <2> QED BY <2>1, <2>2 DEF Covers, Holds
<1>2. IInv => NoWordLost
  BY <1>1
<1> QED BY <1>2, IInvAlways, PTL

-----------------------------------------------------------------------------
(***************************************************************************)
(* The words that are left.  A cell is a word of a segment; those of the   *)
(* entries in S, as the table t has them, are held.                        *)
(***************************************************************************)
Cells == Segment \X Word
CellsOf(e) == {c \in Cells : c[1] = e.segment /\ e.location <= c[2] /\ c[2] < After(e)}
Left(t, S) == {c \in Cells : \A o \in S : c \notin CellsOf(t[o])}

(* What freeWords can count up to in the model is all the words there are. *)
EnoughCounted == Cardinality(Cells) <= MaxFreeWords

(* What waits to be deallocated is counted when it is.                     *)
CoreRight == Cardinality(Left(ot, allocated \union pending)) <= freeWords

LEMMA CellsFinite ==
  /\ IsFiniteSet(Cells)
  /\ \A S : S \subseteq Cells =>
       IsFiniteSet(S) /\ Cardinality(S) \in Nat /\ Cardinality(S) <= Cardinality(Cells)
<1>1. IsFiniteSet(Segment) /\ IsFiniteSet(Word)
  BY ConstantFacts, FS_Interval DEF Segment, Word
<1>2. IsFiniteSet(Cells)
  BY <1>1, FS_Product DEF Cells
<1>3. ASSUME NEW S, S \subseteq Cells
      PROVE  IsFiniteSet(S) /\ Cardinality(S) \in Nat /\ Cardinality(S) <= Cardinality(Cells)
  BY <1>2, <1>3, FS_Subset, FS_CardinalityType
<1> QED BY <1>2, <1>3

(* An entry within its segment holds as many cells as its size says.       *)
LEMMA CellsCounted ==
  ASSUME NEW e \in Entry, After(e) <= HeapSpaceStop + 1
  PROVE  CellsOf(e) \subseteq Cells /\ Cardinality(CellsOf(e)) = e.size
<1>1. PICK l, n, s : l = e.location /\ n = e.size /\ s = e.segment
  OBVIOUS
<1>2. l \in Nat /\ n \in Nat /\ n >= 2 /\ s \in Segment /\ l + n <= HeapSpaceStop + 1
  BY <1>1, EntryFields DEF After
<1>3. PICK I : I = l .. l + n - 1
  OBVIOUS
<1>4. IsFiniteSet(I) /\ Cardinality(I) = n
  BY <1>2, <1>3, FS_Interval
<1>5. PICK C : C = CellsOf(e)
  OBVIOUS
<1>6. \A c : c \in C <=> c \in Segment \X Word /\ c[1] = s /\ l <= c[2] /\ c[2] < l + n
  BY <1>1, <1>5 DEF CellsOf, Cells, After
<1>7. \A w : w \in I <=> w \in Word /\ l <= w /\ w < l + n
  BY <1>2, <1>3, ConstantFacts DEF Word
<1>8. PICK f : f = [w \in I |-> <<s, w>>]
  OBVIOUS
<1>9. f \in [I -> C]
  BY <1>2, <1>6, <1>7, <1>8
<1>10. \A w, x \in I : f[w] = f[x] => w = x
  BY <1>8
<1>11. ASSUME NEW c \in C
       PROVE  \E w \in I : f[w] = c
  <2>1. c = <<c[1], c[2]>> /\ c[1] = s /\ c[2] \in I
    BY <1>6, <1>7
  <2> QED BY <1>8, <2>1
<1>12. ExistsBijection(I, C)
  <2>1. f \in Injection(I, C)
    BY <1>9, <1>10 DEF Injection, IsInjective
  <2>2. f \in Surjection(I, C)
    BY <1>9, <1>11 DEF Surjection
  <2> QED BY <2>1, <2>2 DEF ExistsBijection, Bijection
<1>13. Cardinality(C) = n
  BY <1>4, <1>12, FS_Bijection
<1>14. C \subseteq Cells
  BY <1>6 DEF Cells
<1> QED BY <1>1, <1>5, <1>13, <1>14

LEMMA LeftIsCells ==
  \A t, S : /\ Left(t, S) \subseteq Cells /\ IsFiniteSet(Left(t, S))
            /\ Cardinality(Left(t, S)) \in Nat /\ Cardinality(Left(t, S)) <= Cardinality(Cells)
<1>1. \A t, S : Left(t, S) \subseteq Cells
  BY DEF Left
<1> QED BY <1>1, CellsFinite

(* More held, no more left.                                                *)
LEMMA MoreHeld ==
  ASSUME NEW t, NEW u, NEW S, NEW T, S \subseteq T, \A o \in S : u[o] = t[o]
  PROVE  Cardinality(Left(u, T)) <= Cardinality(Left(t, S))
<1>1. Left(u, T) \subseteq Left(t, S)
  BY DEF Left
<1> QED BY <1>1, LeftIsCells, FS_Subset

(* One more object: its cells were left before and are not any more.       *)
Joins(t, u, S, o, T) ==
  /\ T = S \union {o}
  /\ u[o] \in Entry /\ After(u[o]) <= HeapSpaceStop + 1
  /\ \A p \in S : u[p] = t[p] /\ u[p] \in Entry /\ Apart(u[o], u[p])

LEMMA Taken ==
  ASSUME NEW t, NEW u, NEW S, NEW o, NEW T, Joins(t, u, S, o, T)
  PROVE  Cardinality(Left(u, T)) = Cardinality(Left(t, S)) - u[o].size
<1> USE DEF Joins
<1>1. PICK A, B, C : A = Left(t, S) /\ B = Left(u, T) /\ C = CellsOf(u[o])
  OBVIOUS
<1>2. C \subseteq Cells /\ Cardinality(C) = u[o].size
  BY <1>1, CellsCounted
<1>3. ASSUME NEW c \in C, NEW p \in S
      PROVE  c \notin CellsOf(t[p])
  <2>1. c[1] = u[o].segment /\ u[o].location <= c[2] /\ c[2] < After(u[o]) /\ c[2] \in Nat
    BY <1>1, <1>3, ConstantFacts DEF CellsOf, Cells, Word
  <2>2. Apart(u[o], u[p]) /\ u[p] = t[p] /\ u[p] \in Entry
    OBVIOUS
  <2>3. /\ u[o].location \in Nat /\ u[o].size \in Nat
        /\ u[p].location \in Nat /\ u[p].size \in Nat
    BY <2>2, EntryFields
  <2>4. SUFFICES ASSUME c[1] = u[p].segment, u[p].location <= c[2], c[2] < After(u[p])
                 PROVE FALSE
    BY <2>2 DEF CellsOf
  <2> QED BY <2>1, <2>2, <2>3, <2>4 DEF Apart, Before, After
<1>4. C \subseteq A
  BY <1>1, <1>2, <1>3 DEF Left
<1>5. B = A \ C
  BY <1>1 DEF Left
<1>6. IsFiniteSet(A) /\ Cardinality(A) \in Nat
  BY <1>1, LeftIsCells
<1>7. A \intersect C = C
  BY <1>4
<1>8. Cardinality(A \ C) = Cardinality(A) - Cardinality(C)
  BY <1>6, <1>7, FS_Difference
<1> QED BY <1>1, <1>2, <1>5, <1>8

(* One object less: its cells are left, and no others.                     *)
LEMMA Returned ==
  ASSUME NEW t, NEW S, NEW o, NEW R, R = S \ {o},
         t[o] \in Entry, After(t[o]) <= HeapSpaceStop + 1
  PROVE  Cardinality(Left(t, R)) <= Cardinality(Left(t, S)) + t[o].size
<1>1. PICK A, B, C : A = Left(t, S) /\ B = Left(t, R) /\ C = CellsOf(t[o])
  OBVIOUS
<1>2. C \subseteq Cells /\ Cardinality(C) = t[o].size
  BY <1>1, CellsCounted
<1>3. B \subseteq A \union C
  BY <1>1 DEF Left
<1>4. /\ IsFiniteSet(A) /\ Cardinality(A) \in Nat
      /\ IsFiniteSet(C) /\ Cardinality(C) \in Nat
  BY <1>1, <1>2, LeftIsCells, CellsFinite
<1>5. IsFiniteSet(A \union C)
      /\ Cardinality(A \union C) = Cardinality(A) + Cardinality(C) - Cardinality(A \intersect C)
  BY <1>4, FS_Union
<1>6. Cardinality(A \intersect C) \in Nat
  BY <1>4, FS_Subset, FS_CardinalityType
<1>7. Cardinality(B) <= Cardinality(A \union C) /\ Cardinality(B) \in Nat
  <2>1. B \in SUBSET (A \union C)
    BY <1>3
  <2> QED BY <1>5, <2>1, FS_Subset, FS_CardinalityType
<1>8. Cardinality(B) <= Cardinality(A) + Cardinality(C)
  BY <1>4, <1>5, <1>6, <1>7
<1> QED BY <1>1, <1>2, <1>8

HeldEntries ==
  \A o \in allocated \union pending :
    /\ o \in InUse /\ ot[o] \in Entry /\ After(ot[o]) <= HeapSpaceStop + 1
    /\ \A p \in allocated \union pending : p # o => Apart(ot[o], ot[p])

LEMMA EntriesHeld == IInv => HeldEntries
BY DEF IInv, HeldEntries, Accounted, Fits, Layout, TypeOK, InUse, FreePointers

LEMMA EntriesHeldNext == IInv' => HeldEntries'
BY EntriesHeld, PTL

LEMMA CoreKept ==
  ASSUME CoreRight, freeWords' = freeWords, freeWords \in Nat,
         allocated \union pending \subseteq (allocated \union pending)',
         \A o \in allocated \union pending : ot'[o] = ot[o]
  PROVE  CoreRight'
<1>1. PICK S, T, t, u : /\ S = allocated \union pending /\ T = (allocated \union pending)'
                        /\ t = ot /\ u = ot'
  OBVIOUS
<1>2. Cardinality(Left(u, T)) <= Cardinality(Left(t, S))
  BY <1>1, MoreHeld
<1>3. Cardinality(Left(t, S)) <= freeWords
  BY <1>1 DEF CoreRight
<1>4. Cardinality(Left(u, T)) \in Nat /\ Cardinality(Left(t, S)) \in Nat
  BY LeftIsCells
<1>5. Cardinality(Left(u, T)) <= freeWords'
  BY <1>2, <1>3, <1>4
<1> QED BY <1>1, <1>5 DEF CoreRight

LEMMA CoreAllocated ==
  ASSUME NoHugePointers, IInv, IInv', CoreRight, pc = "attempt",
         NEW o \in Oop, NEW e \in Entry, NEW lists, NEW table1 \in Table,
         allocated_as(o, e, lists, table1), o \notin allocated,
         \A p \in allocated : table1[p] = ot[p]
  PROVE  CoreRight'
<1>1. PICK S, T, t, u : /\ S = allocated \union pending /\ T = (allocated \union pending)'
                        /\ t = ot /\ u = ot'
  OBVIOUS
<1>2. pending = {} /\ pending' = {} /\ request \in Requests /\ freeWords \in Nat
  BY DEF IInv, Phases, TypeOK, allocated_as
<1>3. S = allocated /\ T = allocated \union {o}
  BY <1>1, <1>2 DEF allocated_as
<1>4. Wanted = request.size /\ Wanted \in Nat
  BY <1>2, WantedIsSize
<1>5. u[o].size = Wanted /\ \A p \in S : u[p] = t[p]
  <2>1. u = [table1 EXCEPT ![o] = [e EXCEPT !.size = request.size, !.pointer = request.pointer]]
    BY <1>1 DEF allocated_as
  <2>2. allocated \subseteq Oop
    BY DEF IInv, TypeOK
  <2> QED BY <1>1, <1>3, <1>4, <2>1, <2>2 DEF Table, Entry
<1>6. /\ u[o] \in Entry /\ After(u[o]) <= HeapSpaceStop + 1
      /\ \A p \in S : u[p] \in Entry /\ Apart(u[o], u[p])
  BY <1>1, <1>3, EntriesHeldNext DEF HeldEntries
<1>7. Cardinality(Left(u, T)) = Cardinality(Left(t, S)) - Wanted
  <2>1. \A p \in S : u[p] = t[p] /\ u[p] \in Entry /\ Apart(u[o], u[p])
    BY <1>5, <1>6
  <2>2. T = S \union {o} /\ u[o] \in Entry /\ After(u[o]) <= HeapSpaceStop + 1
    BY <1>3, <1>6
  <2>3. Joins(t, u, S, o, T)
    BY <2>1, <2>2 DEF Joins
  <2>4. Cardinality(Left(u, T)) = Cardinality(Left(t, S)) - u[o].size
    BY <2>3, Taken
  <2> QED BY <1>5, <2>4
<1>8. Cardinality(Left(t, S)) <= freeWords
  BY <1>1 DEF CoreRight
<1>9. Cardinality(Left(u, T)) \in Nat /\ Cardinality(Left(t, S)) \in Nat
  BY LeftIsCells
<1>10. freeWords' = IF freeWords >= Wanted THEN freeWords - Wanted ELSE freeWords
  BY DEF allocated_as
<1>11. Cardinality(Left(u, T)) <= freeWords'
  BY <1>2, <1>4, <1>7, <1>8, <1>9, <1>10
<1> QED BY <1>1, <1>11 DEF CoreRight

LEMMA CoreRemoved ==
  ASSUME NoHugePointers, IInv, IInv', CoreRight, removeFromFreeChunkList
  PROVE  CoreRight'
<1>1. PICK o \in freeChunks[currentSegment][fittingList] :
        allocated_as(o, ot[o], [freeChunks EXCEPT ![currentSegment][fittingList] = @ \ {o}], ot)
  BY DEF removeFromFreeChunkList
<1>2. pc = "attempt"
  BY DEF removeFromFreeChunkList
<1>3. o \in Oop /\ o \notin allocated /\ ot[o] \in Entry /\ ot \in Table
  <2>1. fittingList \in ListSize /\ currentSegment \in Segment
    <3>1. request \in Requests
      BY <1>2 DEF IInv, Phases
    <3>2. Wanted \in Nat /\ Wanted >= 2
      BY <3>1, WantedIsSize
    <3> QED BY <3>2, ConstantFacts DEF fittingList, SmallHandy, ListSize, IInv, TypeOK
  <2>2. o \in InUse /\ o \notin allocated
    BY <1>1, <2>1 DEF IInv, Accounted
  <2> QED BY <2>2, InUseFields DEF IInv, TypeOK, Table
<1> QED BY <1>1, <1>2, <1>3, CoreAllocated

LEMMA CoreSplit ==
  ASSUME NoHugePointers, IInv, IInv', CoreRight, splitBigChunk
  PROVE  CoreRight'
<1>1. PICK o \in BigChunks, new \in FreePointers :
        LET excess == ot[o].size - Wanted
        IN  /\ canSplit(o)
            /\ allocated_as(new,
                 [segment |-> currentSegment, location |-> ot[o].location + excess,
                  size |-> Wanted, pointer |-> FALSE],
                 freeChunks, firstPart(o, excess))
  BY DEF splitBigChunk
<1>2. pc = "attempt" /\ request \in Requests
  BY DEF splitBigChunk, IInv, Phases
<1>3. Wanted \in Nat /\ Wanted >= 2
  BY <1>2, WantedIsSize
<1>4. o \in InUse /\ o \notin allocated /\ currentSegment \in Segment
  BY ConstantFacts DEF BigChunks, IInv, Accounted, TypeOK
<1>5. /\ o \in Oop /\ ot[o] \in Entry /\ ot \in Table
      /\ ot[o].size \in Nat /\ ot[o].location \in Nat
  BY <1>4, InUseFields DEF IInv, TypeOK, Table
<1>6. new \in Oop /\ new \notin InUse /\ new \notin allocated
  BY DEF FreePointers, InUse, IInv, Accounted
<1>7. PICK x : x = ot[o].size - Wanted
  OBVIOUS
<1>8. x \in Nat /\ x >= 2
  BY <1>1, <1>3, <1>5, <1>7, ConstantFacts DEF canSplit
<1>9. firstPart(o, x) \in Table /\ \A p \in allocated : firstPart(o, x)[p] = ot[p]
  <2>1. [ot[o] EXCEPT !.size = x] \in Entry
    BY <1>5, <1>8, ConstantFacts DEF Entry, ChunkSize
  <2>2. firstPart(o, x) = [ot EXCEPT ![o] = [ot[o] EXCEPT !.size = x]]
    BY DEF firstPart
  <2>3. allocated \subseteq Oop
    BY DEF IInv, TypeOK
  <2> QED BY <1>4, <1>5, <2>1, <2>2, <2>3 DEF Table
<1>10. PICK e : e = [segment |-> currentSegment, location |-> ot[o].location + x,
                     size |-> Wanted, pointer |-> FALSE]
  OBVIOUS
<1>11. e \in Entry
  BY <1>3, <1>4, <1>5, <1>8, <1>10, ConstantFacts DEF Entry, ChunkSize
<1>12. allocated_as(new, e, freeChunks, firstPart(o, x))
  BY <1>1, <1>7, <1>10
<1> QED BY <1>2, <1>6, <1>9, <1>11, <1>12, CoreAllocated

LEMMA CoreDeallocated ==
  ASSUME EnoughCounted, IInv, CoreRight, NEW o \in InUse, deallocate(o),
         allocated \union pending \subseteq (allocated \union pending)' \union {o}
  PROVE  CoreRight'
<1>1. PICK S, T, t, n : /\ S = allocated \union pending /\ T = (allocated \union pending)'
                        /\ t = ot /\ n = ot[o].size
  OBVIOUS
<1>2. ot' = t /\ freeWords \in Nat /\ freeWords' = freeWordsPlus(n)
  <2>1. spaceOccupiedBy(ot[o]) = n
    BY <1>1, InUseFields DEF IInv
  <2> QED BY <1>1, <2>1, DeallocateEffect DEF deallocate, IInv, TypeOK
<1>3. t[o] \in Entry /\ After(t[o]) <= HeapSpaceStop + 1 /\ n \in Nat
  BY <1>1, InUseFields DEF IInv, Fits
<1>4. PICK R : R = S \ {o}
  OBVIOUS
<1>5. /\ Cardinality(Left(t, R)) <= Cardinality(Left(t, S)) + n
      /\ Cardinality(Left(t, T)) <= Cardinality(Left(t, R))
  <2>1. Cardinality(Left(t, R)) <= Cardinality(Left(t, S)) + t[o].size
    BY <1>3, <1>4, Returned
  <2>2. R \subseteq T
    BY <1>1, <1>4
  <2>3. Cardinality(Left(t, T)) <= Cardinality(Left(t, R))
    BY <2>2, MoreHeld
  <2> QED BY <1>1, <2>1, <2>3
<1>6. Cardinality(Left(t, S)) <= freeWords
  BY <1>1 DEF CoreRight
<1>7. /\ Cardinality(Left(t, T)) \in Nat /\ Cardinality(Left(t, S)) \in Nat
      /\ Cardinality(Left(t, R)) \in Nat
      /\ Cardinality(Left(t, T)) <= Cardinality(Cells) /\ Cardinality(Cells) \in Nat
  BY LeftIsCells, CellsFinite, FS_CardinalityType
<1>8. Cardinality(Left(t, T)) <= freeWords'
  <2>1. freeWords' = freeWords + n \/ freeWords' = MaxFreeWords
    BY <1>2 DEF freeWordsPlus
  <2>2. Cardinality(Cells) <= MaxFreeWords /\ MaxFreeWords \in Nat
    BY ConstantFacts DEF EnoughCounted
  <2> QED BY <1>2, <1>3, <1>5, <1>6, <1>7, <2>1, <2>2
<1> QED BY <1>1, <1>2, <1>8 DEF CoreRight

LEMMA CoreMoved ==
  ASSUME IInv, IInv', CoreRight, sweepMove
  PROVE  CoreRight'
<1>1. PICK o \in InUse : ot' = [ot EXCEPT ![o].location = sweep.di]
  BY DEF sweepMove
<1>2. PICK S, t, u : S = allocated \union pending /\ t = ot /\ u = ot'
  OBVIOUS
<1>3. (allocated \union pending)' = S /\ freeWords' = freeWords /\ freeWords \in Nat
  BY <1>2 DEF sweepMove, IInv, TypeOK
<1>4. /\ o \in Oop /\ S \subseteq Oop /\ t[o] \in Entry /\ u[o].size = t[o].size
      /\ \A p \in S \ {o} : u[p] = t[p]
  <2>1. o \in Oop /\ ot[o] \in Entry /\ ot \in [Oop -> Entry \union {FreeEntry}]
    BY InUseFields DEF IInv, TypeOK
  <2>2. S \subseteq Oop
    BY <1>2 DEF IInv, TypeOK
  <2> QED BY <1>1, <1>2, <2>1, <2>2 DEF Entry
<1>5. CASE o \notin S
  BY <1>2, <1>3, <1>4, <1>5, CoreKept
<1>6. CASE o \in S
  <2>0. PICK R : R = S \ {o}
    OBVIOUS
  <2>1. Cardinality(Left(t, R)) <= Cardinality(Left(t, S)) + t[o].size
    <3>1. t[o] \in Entry /\ After(t[o]) <= HeapSpaceStop + 1
      BY <1>2, <1>6, EntriesHeld DEF HeldEntries
    <3> QED BY <2>0, <3>1, Returned
  <2>2. Cardinality(Left(u, S)) = Cardinality(Left(t, R)) - u[o].size
    <3>1. u[o] \in Entry /\ After(u[o]) <= HeapSpaceStop + 1 /\ S = R \union {o}
      BY <1>2, <1>3, <1>6, <2>0, EntriesHeldNext DEF HeldEntries
    <3>2. \A p \in R : u[p] = t[p] /\ u[p] \in Entry /\ Apart(u[o], u[p])
      BY <1>2, <1>3, <1>4, <1>6, <2>0, EntriesHeldNext DEF HeldEntries
    <3>3. Joins(t, u, R, o, S)
      BY <3>1, <3>2 DEF Joins
    <3> QED BY <3>3, Taken
  <2>3. /\ Cardinality(Left(t, S)) <= freeWords /\ Cardinality(Left(t, S)) \in Nat
        /\ Cardinality(Left(t, R)) \in Nat /\ t[o].size \in Nat
    BY <1>2, <1>4, LeftIsCells, EntryFields DEF CoreRight
  <2>4. Cardinality(Left(u, S)) <= freeWords'
    BY <1>3, <1>4, <2>1, <2>2, <2>3
  <2> QED BY <1>2, <1>3, <2>4 DEF CoreRight
<1> QED BY <1>5, <1>6

LEMMA CoreStarts ==
  ASSUME Init, IInv
  PROVE  CoreRight
<1> DEFINE Rest(image, s) == HeapSpaceStop + 1 - image[s]
           Entries(home, s, where) == {o \in where : home[o] = s}
<1>0. PICK image \in [Segment -> ImageSizes], home \in [Oop -> 0 .. HeapSegmentCount],
           objects \in SUBSET Oop :
        /\ \A o \in objects : home[o] # 0
        /\ \A s \in Segment :
             /\ image[s] <= HeapSpaceStop + 1
             /\ \A o, p \in Entries(home, s, objects) : o = p
             /\ \A o, p \in Entries(home, s, Oop \ objects) : o = p
             /\ image[s] > 0 <=> Entries(home, s, objects) # {}
             /\ Rest(image, s) >= HeaderSize <=> Entries(home, s, Oop \ objects) # {}
        /\ ot = [o \in Oop |->
             CASE home[o] = 0 -> FreeEntry
               [] home[o] # 0 /\ o \in objects ->
                    [segment |-> home[o], location |-> 0, size |-> image[home[o]],
                     pointer |-> FALSE]
               [] home[o] # 0 /\ o \notin objects ->
                    [segment |-> home[o], location |-> image[home[o]],
                     size |-> Rest(image, home[o]), pointer |-> FALSE]]
        /\ allocated = objects
        /\ freeChunks = [s \in Segment |-> [n \in ListSize |->
             {o \in Entries(home, s, Oop \ objects) : listFor(Rest(image, s)) = n}]]
        /\ words = [s \in Segment |-> [w \in Word |->
             IF w < image[s]
             THEN <<CHOOSE o \in Entries(home, s, objects) : TRUE, w>> ELSE Junk]]
        /\ freeWords = Cardinality({x \in Segment \X Word : image[x[1]] <= x[2]})
  BY DEF Init, loadObjects
<1>1. /\ \A s \in Segment : image[s] > 0 => \E o \in allocated : home[o] = s
      /\ \A o \in allocated : ot[o].segment = home[o] /\ ot[o].location = 0
                              /\ ot[o].size = image[home[o]]
      /\ freeWords = Cardinality({x \in Segment \X Word : image[x[1]] <= x[2]})
  <2>1. ASSUME NEW s \in Segment, image[s] > 0 PROVE \E o \in allocated : home[o] = s
    BY <1>0, <2>1
  <2>2. ASSUME NEW o \in allocated
        PROVE  ot[o].segment = home[o] /\ ot[o].location = 0 /\ ot[o].size = image[home[o]]
    <3>1. o \in Oop /\ o \in objects /\ home[o] # 0
      BY <1>0
    <3>2. ot[o] = [segment |-> home[o], location |-> 0, size |-> image[home[o]],
                   pointer |-> FALSE]
      BY <1>0, <3>1
    <3> QED BY <3>2
  <2> QED BY <1>0, <2>1, <2>2
<1>2. PICK F : F = {x \in Cells : image[x[1]] <= x[2]}
  OBVIOUS
<1>3. pending = {}
  BY DEF Init
<1>4. ASSUME NEW x \in Left(ot, allocated) PROVE x \in F
  <2>1. x \in Cells /\ x[1] \in Segment /\ x[2] \in Nat
    BY <1>4, ConstantFacts DEF Left, Cells, Word
  <2>2. image[x[1]] \in Nat
    BY <2>1, RequestsAssumption
  <2>3. SUFFICES ASSUME x[2] < image[x[1]] PROVE FALSE
    BY <1>2, <2>1, <2>2
  <2>4. PICK o \in allocated : home[o] = x[1]
    BY <1>1, <2>1, <2>2, <2>3
  <2>5. x \in CellsOf(ot[o])
    <3>1. /\ ot[o].segment = x[1] /\ ot[o].location = 0 /\ ot[o].size = image[x[1]]
      BY <1>1, <2>4
    <3> QED BY <2>1, <2>2, <2>3, <3>1 DEF CellsOf, After
  <2> QED BY <1>4, <2>4, <2>5 DEF Left
<1>5. Left(ot, allocated) \subseteq F /\ F \subseteq Cells
  BY <1>2, <1>4
<1>6. Cardinality(Left(ot, allocated)) <= Cardinality(F)
  BY <1>5, CellsFinite, FS_Subset
<1>7. Cardinality(F) = freeWords
  BY <1>1, <1>2 DEF Cells
<1> QED BY <1>3, <1>6, <1>7 DEF CoreRight

LEMMA CoreStays ==
  ASSUME IInv, CoreRight, UNCHANGED <<ot, freeWords>>,
         allocated \union pending \subseteq (allocated \union pending)'
  PROVE  CoreRight'
<1>1. freeWords \in Nat
  BY DEF IInv, TypeOK
<1> QED BY <1>1, CoreKept

LEMMA CorePreserved ==
  ASSUME NoHugePointers, EnoughCounted, IInv, CoreRight, [Next]_vars
  PROVE  CoreRight'
<1>0. IInv' /\ freeWords \in Nat /\ freeWords' \in Nat
  BY IInvPreserved DEF IInv, TypeOK
<1>1. CASE AllocateRequest
  BY <1>1, CoreStays DEF AllocateRequest, allocate, table
<1>2. CASE LastReferenceGoes
  <2>1. PICK o \in reachable : countDown(o)
    BY <1>2 DEF LastReferenceGoes
  <2>2. o \in InUse /\ deallocate(o)
    BY <2>1 DEF countDown, IInv, TypeOK, Accounted
  <2>3. allocated \union pending \subseteq (allocated \union pending)' \union {o}
    BY <2>1 DEF countDown
  <2> QED BY <2>2, <2>3, CoreDeallocated
<1>3. CASE DropFromReach
  BY <1>3, CoreStays DEF DropFromReach, Abandon
<1>4. CASE removeFromFreeChunkList
  BY <1>0, <1>4, CoreRemoved
<1>5. CASE splitBigChunk
  BY <1>0, <1>5, CoreSplit
<1>6. CASE abandonFreeChunksInSegment
  <2>1. UNCHANGED <<allocated, pending, freeWords>> /\ nextSegment \in Segment
    BY <1>6, NextSegmentType DEF abandonFreeChunksInSegment, IInv, TypeOK
  <2>2. ASSUME NEW o \in allocated \union pending
        PROVE  ot'[o] = ot[o]
    <3>1. o \in Oop /\ o \notin Chunks(nextSegment)
      BY <2>1 DEF IInv, TypeOK, Accounted, Chunks
    <3> QED BY <1>6, <3>1 DEF abandonFreeChunksInSegment
  <2> QED BY <1>0, <2>1, <2>2, CoreKept
<1>7. CASE garbageCollect \/ allocateChunkCollects
  <2>1. reclaimInaccessibleObjects
    BY <1>7 DEF garbageCollect, allocateChunkCollects
  <2>2. allocated \union pending \subseteq (allocated \union pending)'
    BY <2>1 DEF reclaimInaccessibleObjects, IInv, Accounted, Phases
  <2> QED BY <2>1, <2>2, CoreStays DEF reclaimInaccessibleObjects
<1>8. CASE outOfMemoryError
  BY <1>8, CoreStays DEF outOfMemoryError, table
<1>9. CASE sweepSkip
  BY <1>9, CoreStays DEF sweepSkip, table
<1>10. CASE sweepMove
  BY <1>0, <1>10, CoreMoved
<1>11. CASE sweepEnd
  <2>1. PICK o \in FreePointers : \E e : ot' = [ot EXCEPT ![o] = e]
    BY <1>11 DEF sweepEnd
  <2>2. UNCHANGED <<allocated, pending, freeWords>>
    BY <1>11 DEF sweepEnd
  <2>3. ASSUME NEW p \in allocated \union pending
        PROVE  ot'[p] = ot[p]
    <3>1. p \in Oop /\ p # o
      BY DEF IInv, TypeOK, Accounted, InUse
    <3> QED BY <2>1, <3>1 DEF IInv, TypeOK
  <2> QED BY <1>0, <2>2, <2>3, CoreKept
<1>12. CASE rectifyDeallocate
  <2>1. PICK o \in pending : deallocate(o) /\ pending' = pending \ {o}
    BY <1>12 DEF rectifyDeallocate
  <2>2. o \in InUse /\ allocated' = allocated
    BY <1>12 DEF rectifyDeallocate, IInv, Accounted
  <2>3. allocated \union pending \subseteq (allocated \union pending)' \union {o}
    BY <2>1, <2>2
  <2> QED BY <2>1, <2>2, <2>3, CoreDeallocated
<1>13. CASE rectifyEnd
  BY <1>13, CoreStays DEF rectifyEnd, table
<1>14. CASE UNCHANGED vars
  BY <1>14, CoreStays DEF vars
<1> QED
  BY <1>1, <1>2, <1>3, <1>4, <1>5, <1>6, <1>7, <1>8, <1>9, <1>10, <1>11, <1>12, <1>13, <1>14
  DEF Next, Mutator, AllocationStep, Attempt, SweepStep, RectifyStep

(* coreLeft, kept by counting, never answers fewer words than are free,    *)
(* when the counter is followed as far as there are words, without huge    *)
(* pointer objects.                                                        *)
THEOREM CoreNotUnderstated ==
  ASSUME NoHugePointers, EnoughCounted
  PROVE  Spec => []CoreLeftNotUnderstated
<1>1. Init => IInv /\ CoreRight
  BY InitialStates, CoreStarts
<1>2. IInv /\ CoreRight /\ [Next]_vars => (IInv /\ CoreRight)'
  BY IInvPreserved, CorePreserved
<1>3. ASSUME IInv, CoreRight PROVE CoreLeftNotUnderstated
  <2> SUFFICES ASSUME pc = "mutator" PROVE freeWords >= FreeTotal
    BY DEF CoreLeftNotUnderstated
  <2>1. pending = {} /\ freeWords \in Nat
    BY <1>3 DEF IInv, Phases, TypeOK
  <2>2. ASSUME NEW x \in Cells, NEW o \in allocated
        PROVE  Holds(o, x[1], x[2]) <=> x \in CellsOf(ot[o])
    <3>1. EndOf(o) = After(ot[o])
      BY <1>3, EndIsAfter DEF IInv, Accounted
    <3> QED BY <3>1 DEF Holds, CellsOf
  <2>3. {x \in Segment \X Word : \A o \in allocated : ~Holds(o, x[1], x[2])}
          = Left(ot, allocated)
    BY <2>2 DEF Left, Cells
  <2>4. FreeTotal = Cardinality(Left(ot, allocated \union pending))
    BY <2>1, <2>3 DEF FreeTotal
  <2>5. FreeTotal \in Nat
    BY <2>4, LeftIsCells
  <2> QED BY <1>3, <2>1, <2>4, <2>5 DEF CoreRight
<1>4. IInv /\ CoreRight => CoreLeftNotUnderstated
  BY <1>3
<1> QED BY <1>1, <1>2, <1>4, PTL DEF Spec

-----------------------------------------------------------------------------
(***************************************************************************)
(* An allocation that has collected, and the segments it has compacted:    *)
(* those passed have too little, and in the current one all that is left   *)
(* is one chunk on its list.                                               *)
(***************************************************************************)
Room(t, S, s) == {w \in Word : \A o \in S :
  ~(t[o].segment = s /\ t[o].location <= w /\ w < After(t[o]))}

Space(s) == Cardinality(Room(ot, allocated, s))

(* How many segments ago s was compacted, if it was.                       *)
Back(s, current) == IF s <= current THEN current - s ELSE current - s + HeapSegmentCount
Tried(s) == Back(s, currentSegment) < compacted

Packed(s) ==
  \/ Space(s) <= 1
  \/ \E o \in Oop :
       /\ ot[o].size = Space(s)
       /\ listFor(ot[o].size) \in ListSize
       /\ o \in freeChunks[s][listFor(ot[o].size)]

Collected == collected => request # Nothing /\ allocated = reachable

Restarted == pc \in {"mutator", "rectify"} => compacted = 0

NoChunkWhileSwept ==
  pc = "sweep" => \A n \in ListSize : freeChunks[currentSegment][n] = {}

Exhausted ==
  pc \in {"attempt", "sweep"} /\ ~starved =>
    \A s \in Segment : Tried(s) =>
      IF s = currentSegment THEN pc = "attempt" => Packed(s) ELSE TooLittle(Space(s))

Aborted == pc = "outOfMemory" =>
  allocated = reachable /\ (starved \/ \A s \in Segment : TooLittle(Space(s)))

FullInv == Collected /\ Restarted /\ NoChunkWhileSwept /\ Exhausted /\ Aborted

(* The room in a segment depends on the entries there only.                *)
LEMMA SameRoom ==
  ASSUME NEW t, NEW u, NEW S, NEW s,
         \A o \in S : u[o] = t[o] \/ (u[o].segment # s /\ t[o].segment # s)
  PROVE  Room(u, S, s) = Room(t, S, s)
BY DEF Room, After

LEMMA BackIsNatural ==
  ASSUME NEW s \in Segment, NEW c \in Segment
  PROVE  Back(s, c) \in Nat /\ Back(s, c) < HeapSegmentCount
BY ConstantFacts DEF Back, Segment

(* The next segment has been passed last.                                  *)
LEMMA OneFurtherBack ==
  ASSUME currentSegment \in Segment, NEW s \in Segment, s # nextSegment
  PROVE  Back(s, nextSegment) = Back(s, currentSegment) + 1
BY ConstantFacts DEF Back, Segment, nextSegment

(* One chunk that does not fit is too little.                              *)
LEMMA NoChunkTooLittle ==
  ASSUME NoHugePointers, IInv, NoChunkHere, ~NoPointer, Packed(currentSegment)
  PROVE  TooLittle(Space(currentSegment))
<1>1. request \in Requests /\ currentSegment \in Segment
  BY DEF IInv, Phases, TypeOK, NoChunkHere
<1>2. Wanted \in Nat /\ Wanted >= 2
  BY <1>1, WantedIsSize
<1>3. CASE Space(currentSegment) <= 1
  <2>1. Space(currentSegment) \in Nat
    <3>1. IsFiniteSet(Word)
      BY ConstantFacts, FS_Interval DEF Word
    <3>2. Room(ot, allocated, currentSegment) \subseteq Word
      BY DEF Room
    <3> QED BY <3>1, <3>2, FS_Subset, FS_CardinalityType DEF Space
  <2> QED BY <1>2, <1>3, <2>1 DEF TooLittle
<1>4. CASE \E o \in Oop :
             /\ ot[o].size = Space(currentSegment)
             /\ listFor(ot[o].size) \in ListSize
             /\ o \in freeChunks[currentSegment][listFor(ot[o].size)]
  <2>1. PICK o \in Oop :
          /\ ot[o].size = Space(currentSegment)
          /\ listFor(ot[o].size) \in ListSize
          /\ o \in freeChunks[currentSegment][listFor(ot[o].size)]
    BY <1>4
  <2>2. PICK n : n = ot[o].size
    OBVIOUS
  <2>3. n \in Nat /\ n >= 2
    <3>1. o \in InUse
      BY <1>1, <2>1 DEF IInv, Accounted
    <3> QED BY <2>2, <3>1, InUseFields DEF IInv
  <2>4. CASE n < BigSize
    <3>1. o \in freeChunks[currentSegment][n]
      BY <2>1, <2>2, <2>4 DEF listFor
    <3>2. n # Wanted
      BY <3>1, <2>4 DEF NoChunkHere, SmallHandy
    <3> QED BY <2>1, <2>2, <2>4, <3>2 DEF TooLittle
  <2>5. CASE ~(n < BigSize)
    <3>1. o \in BigChunks
      BY <2>1, <2>2, <2>5 DEF listFor, BigChunks
    <3>2. n # Wanted /\ ~(n >= Wanted + 2)
      BY <2>2, <3>1, ConstantFacts DEF NoChunkHere, canSplit
    <3>3. n < Wanted \/ n = Wanted + 1
      BY <1>2, <2>3, <3>2
    <3> QED BY <2>1, <2>2, <3>3 DEF TooLittle
  <2> QED BY <2>4, <2>5
<1> QED BY <1>3, <1>4 DEF Packed

(* So what has been tried has too little, when no pointer was missing.     *)
LEMMA TriedTooLittle ==
  ASSUME NoHugePointers, IInv, FullInv, NoChunkHere, ~NoPointer, ~starved,
         NEW s \in Segment, Tried(s)
  PROVE  TooLittle(Space(s))
<1>1. pc = "attempt"
  BY DEF NoChunkHere
<1>2. s = currentSegment => Packed(currentSegment)
  BY <1>1 DEF FullInv, Exhausted
<1>3. s # currentSegment => TooLittle(Space(s))
  BY <1>1 DEF FullInv, Exhausted
<1> QED BY <1>2, <1>3, NoChunkTooLittle

(* A segment without chunks has at most its last word left.                *)
LEMMA NoChunksPacked ==
  ASSUME IInv, pc = "attempt", NEW s \in Segment, Chunks(s) = {}
  PROVE  Space(s) <= 1
<1>1. ASSUME NEW w \in Room(ot, allocated, s), w < HeapSpaceStop
      PROVE  FALSE
  <2>1. PICK o \in InUse : Covers(o, s, w)
    BY <1>1 DEF Room, IInv, Covered, SweptOver
  <2>2. o \notin allocated
    BY <1>1, <2>1 DEF Room, Covers
  <2>3. PICK z \in Segment, n \in ListSize : o \in freeChunks[z][n]
    BY <2>1, <2>2 DEF IInv, Accounted, Phases
  <2>4. z = s
    BY <2>1, <2>3 DEF IInv, Accounted, Covers
  <2> QED BY <2>3, <2>4 DEF Chunks
<1>2. Room(ot, allocated, s) \subseteq {HeapSpaceStop}
  BY <1>1, ConstantFacts DEF Room, Word
<1>3. IsFiniteSet({HeapSpaceStop}) /\ Cardinality({HeapSpaceStop}) = 1
  BY FS_Singleton
<1> QED BY <1>2, <1>3, FS_Subset DEF Space

LEMMA FullWhenNextTried ==
  ASSUME NoHugePointers, IInv, FullInv, abandonFreeChunksInSegment
  PROVE  FullInv'
<1>1. /\ pc = "attempt" /\ currentSegment \in Segment /\ nextSegment \in Segment
      /\ compacted \in Nat /\ request \in Requests
  BY NextSegmentType DEF abandonFreeChunksInSegment, NoChunkHere, IInv, TypeOK, Phases
<1>2. /\ UNCHANGED <<allocated, reachable, request, collected>>
      /\ compacted' = compacted + 1 /\ currentSegment' = nextSegment
      /\ NoChunkHere /\ (starved' <=> (starved \/ NoPointer))
  BY DEF abandonFreeChunksInSegment
<1>3. \/ Chunks(nextSegment) = {} /\ UNCHANGED <<ot, freeChunks, pc>>
      \/ /\ pc' = "sweep"
         /\ ot' = [o \in Oop |-> IF o \in Chunks(nextSegment) THEN FreeEntry ELSE ot[o]]
         /\ freeChunks' = [freeChunks EXCEPT ![nextSegment] = [n \in ListSize |-> {}]]
  BY DEF abandonFreeChunksInSegment
<1>4. Collected'
  BY <1>2 DEF FullInv, Collected
<1>5. Restarted' /\ Aborted'
  BY <1>1, <1>3 DEF Restarted, Aborted
<1>6. NoChunkWhileSwept'
  <2>1. freeChunks \in Lists
    BY DEF IInv, TypeOK, Lists
  <2> QED BY <1>1, <1>2, <1>3, <2>1 DEF NoChunkWhileSwept, Lists
<1>7. \A o \in allocated : ot'[o] = ot[o]
  <2>1. \A o \in allocated : o \in Oop /\ o \notin Chunks(nextSegment)
    BY <1>1, ChunksOfSegment DEF IInv, TypeOK
  <2> QED BY <1>3, <2>1
<1>8. ASSUME NEW s PROVE Room(ot', allocated', s) = Room(ot, allocated, s)
  BY <1>2, <1>7 DEF Room, After
<1>9. Exhausted'
  <2> SUFFICES ASSUME ~starved', NEW s \in Segment, Back(s, nextSegment) < compacted + 1
               PROVE  IF s = nextSegment THEN pc' = "attempt" => Packed(s)'
                      ELSE TooLittle(Space(s))'
    BY <1>2 DEF Exhausted, Tried
  <2>1. CASE s = nextSegment
    <3> SUFFICES ASSUME pc' = "attempt" PROVE Packed(s)'
      BY <2>1
    <3>1. Chunks(s) = {}
      BY <1>1, <1>3, <2>1
    <3>2. Cardinality(Room(ot, allocated, s)) <= 1
      BY <1>1, <3>1, NoChunksPacked DEF Space
    <3> QED BY <1>8, <3>2 DEF Packed, Space
  <2>2. CASE s # nextSegment
    <3>1. Tried(s)
      BY <1>1, <2>2, OneFurtherBack, BackIsNatural DEF Tried
    <3>2. TooLittle(Space(s))
      BY <1>2, <3>1, TriedTooLittle
    <3>3. Wanted' = Wanted
      BY <1>2 DEF Wanted
    <3> QED BY <1>8, <2>2, <3>2, <3>3 DEF TooLittle, Space
  <2> QED BY <2>1, <2>2
<1> QED BY <1>4, <1>5, <1>6, <1>9 DEF FullInv

(* When the sweep ends, the room of the segment is what di has left.       *)
LEMMA RoomSwept ==
  ASSUME IInv, FullInv, pc = "sweep", sweep.si >= HeapSpaceStop
  PROVE  /\ Room(ot, allocated, currentSegment) = sweep.di .. HeapSpaceStop
         /\ sweep.di \in Nat /\ sweep.di + 2 <= HeapSpaceStop + 1
<1>1. PICK d, i, A : d = sweep.di /\ i = sweep.si /\ A = sweep.abandoned
  OBVIOUS
<1>2. /\ d \in Nat /\ i \in Nat /\ d <= i /\ i <= HeapSpaceStop + 1 /\ HeapSpaceStop \in Nat
      /\ i >= HeapSpaceStop /\ currentSegment \in Segment
  BY <1>1, ConstantFacts DEF IInv, TypeOK, SweepRight
<1>3. A = {}
  <2>1. SUFFICES ASSUME NEW c \in A PROVE FALSE
    OBVIOUS
  <2>2. c[1] \in Nat /\ c[2] \in Nat
    BY <1>1 DEF IInv, TypeOK
  <2>3. i <= c[1] /\ 2 <= c[2] /\ c[1] + c[2] <= HeapSpaceStop + 1
    BY <1>1, ConstantFacts DEF IInv, SweepRight, PiecesAhead, PieceEnd
  <2> QED BY <1>2, <2>2, <2>3
<1>4. d + 2 <= i
  BY <1>1, <1>3, ConstantFacts DEF IInv, SweepRight
<1>5. ASSUME NEW o \in InUse, ot[o].segment = currentSegment
      PROVE  After(ot[o]) <= d
  <2>1. After(ot[o]) <= d \/ i <= ot[o].location
    BY <1>1, <1>5 DEF IInv, SweepRight, MovedOrAhead
  <2>2. /\ ot[o].location \in Nat /\ ot[o].size \in Nat /\ ot[o].size >= 2
        /\ After(ot[o]) <= HeapSpaceStop + 1
    BY InUseFields DEF IInv, Fits
  <2> QED BY <1>2, <2>1, <2>2 DEF After
<1>6. ASSUME NEW w \in d .. HeapSpaceStop
      PROVE  w \in Room(ot, allocated, currentSegment)
  <2>1. w \in Word
    BY <1>2, ConstantFacts DEF Word
  <2>2. ASSUME NEW o \in allocated, ot[o].segment = currentSegment
        PROVE  ~(w < After(ot[o]))
    <3>1. o \in InUse
      BY DEF IInv, Accounted
    <3>2. After(ot[o]) <= d /\ After(ot[o]) \in Nat
      BY <1>5, <2>2, <3>1, InUseFields DEF IInv, After
    <3> QED BY <1>2, <3>2
  <2> QED BY <2>1, <2>2 DEF Room
<1>7. ASSUME NEW w \in Room(ot, allocated, currentSegment)
      PROVE  w \in d .. HeapSpaceStop
  <2>1. w \in Nat /\ w <= HeapSpaceStop /\ w \in Word
    BY ConstantFacts DEF Room, Word
  <2>2. SUFFICES ASSUME w < d PROVE FALSE
    BY <1>2, <2>1
  <2>3. w < HeapSpaceStop
    BY <1>2, <1>4, <2>1, <2>2
  <2>4. ~SweptOver(currentSegment, w)
    BY <1>1, <1>2, <1>3, <2>1, <2>2 DEF SweptOver
  <2>5. PICK o \in InUse : Covers(o, currentSegment, w)
    BY <1>2, <2>1, <2>3, <2>4 DEF IInv, Covered
  <2>6. o \notin allocated
    BY <1>7, <2>5 DEF Room, Covers
  <2>7. PICK z \in Segment, n \in ListSize : o \in freeChunks[z][n]
    BY <2>5, <2>6 DEF IInv, Accounted, Phases
  <2>8. z = currentSegment
    BY <2>5, <2>7 DEF IInv, Accounted, Covers
  <2> QED BY <2>7, <2>8 DEF FullInv, NoChunkWhileSwept
<1>8. Room(ot, allocated, currentSegment) = d .. HeapSpaceStop
  BY <1>6, <1>7
<1>9. d + 2 <= HeapSpaceStop + 1
  BY <1>2, <1>4
<1> QED BY <1>1, <1>2, <1>8, <1>9

LEMMA FullWhenSwept ==
  ASSUME IInv, IInv', FullInv, sweepEnd
  PROVE  FullInv'
<1>1. PICK o \in FreePointers, e \in {[segment |-> currentSegment, location |-> sweep.di,
                                       size |-> bigSpace(sweep.di), pointer |-> FALSE]} :
        /\ ot' = [ot EXCEPT ![o] = e]
        /\ freeChunks' = toFreeChunkList(freeChunks, o, e)
  BY DEF sweepEnd
<1>2. /\ pc = "sweep" /\ pc' = "attempt" /\ sweep.si >= HeapSpaceStop
      /\ UNCHANGED <<allocated, reachable, currentSegment, request, compacted, collected,
                     starved>>
      /\ currentSegment \in Segment
  BY DEF sweepEnd, progress, IInv, TypeOK
<1>3. PICK n : n = HeapSpaceStop + 1 - sweep.di
  OBVIOUS
<1>4. Room(ot, allocated, currentSegment) = sweep.di .. HeapSpaceStop
      /\ sweep.di \in Nat /\ sweep.di + 2 <= HeapSpaceStop + 1
  BY <1>2, RoomSwept
<1>5. n \in Nat /\ n >= 2 /\ Space(currentSegment) = n
  <2>1. PICK d, l : d = sweep.di /\ l = HeapSpaceStop
    OBVIOUS
  <2>2. d \in Nat /\ l \in Nat /\ d + 2 <= l + 1 /\ n = l + 1 - d
    BY <1>3, <1>4, <2>1, ConstantFacts
  <2>3. Cardinality(d .. l) = IF d > l THEN 0 ELSE l - d + 1
    BY <2>2, FS_Interval
  <2>4. Cardinality(d .. l) = n /\ n \in Nat /\ n >= 2
    BY <2>2, <2>3
  <2> QED BY <1>4, <2>1, <2>4 DEF Space
<1>6. /\ o \in Oop /\ e \in Entry /\ e.size = n /\ e.segment = currentSegment
      /\ freeChunks \in Lists /\ ot \in Table
  <2>1. o \in Oop /\ freeChunks \in Lists /\ ot \in Table
    BY DEF FreePointers, IInv, TypeOK, Lists, Table
  <2>2. e = [segment |-> currentSegment, location |-> sweep.di, size |-> n, pointer |-> FALSE]
    BY <1>1, <1>3 DEF bigSpace
  <2>3. e \in Entry
    BY <1>2, <1>4, <1>5, <2>2, ConstantFacts DEF Entry, ChunkSize
  <2> QED BY <2>1, <2>2, <2>3
<1>7. \A p \in allocated : ot'[p] = ot[p]
  <2>1. \A p \in allocated : p \in Oop /\ p # o
    BY DEF IInv, TypeOK, Accounted, InUse
  <2> QED BY <1>1, <1>6, <2>1 DEF Table
<1>8. ASSUME NEW s PROVE Room(ot', allocated', s) = Room(ot, allocated, s)
  BY <1>2, <1>7 DEF Room, After
<1>9. Packed(currentSegment)'
  <2>1. ot'[o] = e /\ listFor(n) \in ListSize
    BY <1>1, <1>5, <1>6, ListForSize DEF Table
  <2>2. o \in freeChunks'[currentSegment][listFor(n)]
    BY <1>1, <1>2, <1>6, <2>1, AddToList
  <2>3. Cardinality(Room(ot', allocated', currentSegment')) = n
    BY <1>2, <1>5, <1>8 DEF Space
  <2> QED BY <1>2, <1>6, <2>1, <2>2, <2>3 DEF Packed, Space
<1>10. Exhausted'
  <2> SUFFICES ASSUME ~starved, NEW s \in Segment, Tried(s), s # currentSegment
               PROVE  TooLittle(Space(s))'
    BY <1>2, <1>9 DEF Exhausted, Tried
  <2>1. TooLittle(Space(s))
    BY <1>2 DEF FullInv, Exhausted
  <2>2. Wanted' = Wanted
    BY <1>2 DEF Wanted
  <2> QED BY <1>8, <2>1, <2>2 DEF TooLittle, Space
<1>11. Collected' /\ Restarted' /\ Aborted' /\ NoChunkWhileSwept'
  BY <1>2 DEF FullInv, Collected, Restarted, Aborted, NoChunkWhileSwept
<1> QED BY <1>10, <1>11 DEF FullInv

LEMMA FullWhileMoved ==
  ASSUME IInv, FullInv, sweepMove
  PROVE  FullInv'
<1>1. /\ pc = "sweep" /\ currentSegment \in Segment
      /\ UNCHANGED <<allocated, reachable, freeChunks, currentSegment, pc, request,
                     compacted, collected, starved>>
  BY DEF sweepMove, progress, IInv, TypeOK
<1>2. PICK o \in InUse : ot[o].segment = currentSegment
                         /\ ot' = [ot EXCEPT ![o].location = sweep.di]
  BY DEF sweepMove
<1>3. ASSUME NEW s, s # currentSegment
      PROVE  Room(ot', allocated', s) = Room(ot, allocated, s)
  <2>1. o \in Oop /\ ot[o] \in Entry /\ ot \in Table /\ allocated \subseteq Oop
    BY InUseFields DEF IInv, TypeOK, Table
  <2>2. ot'[o].segment = currentSegment /\ \A p \in Oop \ {o} : ot'[p] = ot[p]
    BY <1>2, <2>1 DEF Table, Entry
  <2>3. \A p \in allocated : ot'[p] = ot[p] \/ (ot'[p].segment # s /\ ot[p].segment # s)
    BY <1>2, <1>3, <2>1, <2>2
  <2> QED BY <1>1, <2>3 DEF Room, After
<1>4. Exhausted'
  <2> SUFFICES ASSUME ~starved, NEW s \in Segment, Tried(s), s # currentSegment
               PROVE  TooLittle(Space(s))'
    BY <1>1 DEF Exhausted, Tried
  <2>1. TooLittle(Space(s))
    BY <1>1 DEF FullInv, Exhausted
  <2>2. Wanted' = Wanted
    BY <1>1 DEF Wanted
  <2> QED BY <1>3, <2>1, <2>2 DEF TooLittle, Space
<1>5. Collected' /\ Restarted' /\ Aborted' /\ NoChunkWhileSwept'
  BY <1>1 DEF FullInv, Collected, Restarted, Aborted, NoChunkWhileSwept
<1> QED BY <1>4, <1>5 DEF FullInv

(* Where no segment has been tried yet.                                    *)
LEMMA FullWhenNotTried ==
  ASSUME pc' \in {"mutator", "attempt", "rectify"}, compacted' = 0, Collected',
         currentSegment' \in Segment
  PROVE  FullInv'
<1>1. Exhausted'
  BY BackIsNatural DEF Exhausted, Tried
<1>2. Restarted' /\ NoChunkWhileSwept' /\ Aborted'
  BY DEF Restarted, NoChunkWhileSwept, Aborted
<1> QED BY <1>1, <1>2 DEF FullInv

LEMMA FullWhenAborted ==
  ASSUME NoHugePointers, IInv, FullInv, outOfMemoryError
  PROVE  FullInv'
<1>1. /\ NoChunkHere /\ compacted = HeapSegmentCount /\ collected /\ pc' = "outOfMemory"
      /\ (starved' <=> (starved \/ NoPointer)) /\ currentSegment \in Segment
      /\ UNCHANGED <<ot, allocated, reachable, request, compacted, collected, currentSegment>>
  BY DEF outOfMemoryError, table, IInv, TypeOK
<1>2. Collected' /\ allocated' = reachable'
  BY <1>1 DEF FullInv, Collected
<1>3. ASSUME ~starved', NEW s \in Segment PROVE TooLittle(Space(s))'
  <2>1. Tried(s)
    BY <1>1, BackIsNatural DEF Tried
  <2>2. TooLittle(Space(s))
    BY <1>1, <1>3, <2>1, TriedTooLittle
  <2> QED BY <1>1, <2>2 DEF TooLittle, Space, Room, Wanted
<1>4. Aborted' /\ Restarted' /\ Exhausted' /\ NoChunkWhileSwept'
  BY <1>1, <1>2, <1>3 DEF Aborted, Restarted, Exhausted, NoChunkWhileSwept
<1> QED BY <1>2, <1>4 DEF FullInv

LEMMA FullPreserved ==
  ASSUME NoHugePointers, IInv, FullInv, [Next]_vars
  PROVE  FullInv'
<1>0. IInv' /\ currentSegment \in Segment /\ currentSegment' \in Segment
  <2>1. IInv'
    BY IInvPreserved
  <2>2. IInv => currentSegment \in Segment
    BY DEF IInv, TypeOK
  <2>3. IInv' => currentSegment' \in Segment
    BY DEF IInv, TypeOK
  <2> QED BY <2>1, <2>2, <2>3
<1>1. CASE Mutator \/ garbageCollect
  <2>1. pc = "mutator" /\ compacted = 0 /\ ~collected
    <3>1. pc = "mutator" /\ request = Nothing
      BY <1>1 DEF Mutator, AllocateRequest, allocate, LastReferenceGoes, countDown,
         DropFromReach, Abandon, garbageCollect, IInv, Phases
    <3> QED BY <3>1 DEF FullInv, Restarted, Collected
  <2>2. pc' \in {"mutator", "attempt", "rectify"} /\ compacted' = 0 /\ ~collected'
    BY <1>1, <2>1 DEF Mutator, AllocateRequest, allocate, LastReferenceGoes, countDown,
       DropFromReach, Abandon, garbageCollect, reclaimInaccessibleObjects, progress
  <2> QED BY <1>0, <2>2, FullWhenNotTried DEF Collected
<1>2. CASE removeFromFreeChunkList \/ splitBigChunk
  <2>1. pc' = "mutator" /\ compacted' = 0 /\ ~collected'
    BY <1>2 DEF removeFromFreeChunkList, splitBigChunk, allocated_as
  <2> QED BY <1>0, <2>1, FullWhenNotTried DEF Collected
<1>3. CASE abandonFreeChunksInSegment
  BY <1>3, FullWhenNextTried
<1>4. CASE allocateChunkCollects
  <2>1. request \in Requests /\ request # Nothing
    BY <1>4, RequestFields DEF allocateChunkCollects, NoChunkHere, IInv, Phases
  <2>2. pc' = "rectify" /\ compacted' = 0 /\ allocated' = reachable' /\ request' = request
    BY <1>4 DEF allocateChunkCollects, reclaimInaccessibleObjects
  <2> QED BY <1>0, <2>1, <2>2, FullWhenNotTried DEF Collected
<1>5. CASE outOfMemoryError
  BY <1>5, FullWhenAborted
<1>6. CASE sweepSkip
  <2>1. /\ pc = "sweep" /\ pc' = pc
        /\ UNCHANGED <<ot, allocated, reachable, freeChunks, currentSegment, request,
                       compacted, collected, starved>>
    BY <1>6 DEF sweepSkip, table, progress
  <2> QED BY <2>1 DEF FullInv, Collected, Restarted, NoChunkWhileSwept, Exhausted, Aborted,
          Tried, TooLittle, Wanted, Space, Room
<1>7. CASE sweepMove
  BY <1>7, FullWhileMoved
<1>8. CASE sweepEnd
  BY <1>0, <1>8, FullWhenSwept
<1>9. CASE RectifyStep
  <2>1. /\ pc = "rectify" /\ pc' \in {"mutator", "attempt", "rectify"}
        /\ UNCHANGED <<allocated, reachable, request, compacted, collected>>
    BY <1>9 DEF RectifyStep, rectifyDeallocate, rectifyEnd, table, progress
  <2>2. compacted' = 0 /\ Collected'
    BY <2>1 DEF FullInv, Restarted, Collected
  <2> QED BY <1>0, <2>1, <2>2, FullWhenNotTried
<1>10. CASE UNCHANGED vars
  BY <1>10 DEF vars, FullInv, Collected, Restarted, NoChunkWhileSwept, Exhausted, Aborted,
     Tried, Packed, TooLittle, Wanted, Space, Room
<1> QED BY <1>1, <1>2, <1>3, <1>4, <1>5, <1>6, <1>7, <1>8, <1>9, <1>10
        DEF Next, AllocationStep, Attempt, SweepStep

(* The process aborts for want of memory only when all garbage has been    *)
(* collected and no segment has the words, or a pointer was missing,       *)
(* without huge pointer objects.                                           *)
THEOREM OutOfMemoryOnlyWhenFull ==
  ASSUME NoHugePointers
  PROVE  Spec => []OutOfMemoryOnlyIfFull
<1>1. ASSUME Init PROVE FullInv
  <2>1. IInv /\ pc = "mutator" /\ compacted = 0 /\ ~collected
    BY <1>1, InitialStates DEF Init
  <2> QED BY <2>1 DEF FullInv, Collected, Restarted, NoChunkWhileSwept, Exhausted, Aborted
<1>2. Init => IInv /\ FullInv
  BY <1>1, InitialStates
<1>3. IInv /\ FullInv /\ [Next]_vars => (IInv /\ FullInv)'
  BY IInvPreserved, FullPreserved
<1>4. ASSUME IInv, FullInv PROVE OutOfMemoryOnlyIfFull
  <2>1. ASSUME NEW s \in Segment PROVE FreeSpace(s) = Space(s)
    <3>1. ASSUME NEW o \in allocated PROVE EndOf(o) = After(ot[o])
      BY <1>4, EndIsAfter DEF IInv, Accounted
    <3>2. {w \in Word : \A o \in allocated : ~Holds(o, s, w)} = Room(ot, allocated, s)
      BY <3>1 DEF Holds, Room
    <3> QED BY <3>2 DEF FreeSpace, Space
  <2> QED BY <1>4, <2>1 DEF FullInv, Aborted, OutOfMemoryOnlyIfFull
<1>5. IInv /\ FullInv => OutOfMemoryOnlyIfFull
  BY <1>4
<1> QED BY <1>2, <1>3, <1>5, PTL DEF Spec

=============================================================================
