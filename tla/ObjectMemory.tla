----------------------------- MODULE ObjectMemory -----------------------------
(***************************************************************************)
(* The allocator of the object memory (objectmemory.c): object table,      *)
(* heap segments, free-chunk lists, the compaction of a segment, and the   *)
(* collection that is tried before the memory is declared full.            *)
(*                                                                         *)
(* An entry of the object table is a free pointer (free bit set), a free   *)
(* chunk of a heap segment (count bits zero) or an object.  An allocation  *)
(* tries the current segment, then compacts and tries each segment in      *)
(* turn, then collects and tries them all again.  pc says where it stands: *)
(*    mutator      the interpreter runs; no allocation is under way        *)
(*    attempt      about to look for a chunk in the current segment        *)
(*    sweep        compacting the current segment                          *)
(*    rectify      deallocating what the collector did not mark            *)
(*    outOfMemory  the process has aborted                                 *)
(*                                                                         *)
(* The free pointers, and the chunks of one list, are sets: which one is   *)
(* taken first is left open.  How counts and marks find what is            *)
(* unreachable is not modelled here: reachable is what they find.          *)
(***************************************************************************)
EXTENDS Integers, FiniteSets

CONSTANTS
  Oop,               \* object pointers: indices of the object table
  HeapSegmentCount,
  HeapSpaceStop,     \* last word of a segment
  BigSize,           \* chunks of this size or more share one list
  HugeSize,          \* pointer objects of this size have an extra word
  Requests,          \* the objects the program allocates: [size, pointer]
  ImageSizes,        \* words an image may occupy in a segment
  MaxFreeWords       \* freeWords is not followed beyond this number

HeaderSize == 2      \* the words for size and class

Segment == 1 .. HeapSegmentCount
Word == 0 .. HeapSpaceStop
ListSize == HeaderSize .. BigSize

ASSUME SizesAssumption ==
  /\ IsFiniteSet(Oop)
  /\ HeapSegmentCount \in Nat \ {0}
  /\ HeapSpaceStop \in Nat
  /\ BigSize \in Nat /\ BigSize >= HeaderSize
  /\ HugeSize \in Nat /\ HugeSize > BigSize
  /\ MaxFreeWords \in Nat

ASSUME RequestsAssumption ==
  /\ Requests \subseteq [size : Nat, pointer : BOOLEAN]
  /\ \A r \in Requests : r.size >= HeaderSize
  /\ ImageSizes \subseteq Nat
  /\ \A n \in ImageSizes : n = 0 \/ n >= HeaderSize

VARIABLES
  ot,                \* the object table and the size word of each chunk
  allocated,         \* entries with a count: the objects
  reachable,         \* the objects the program can still reach
  freeChunks,        \* per segment and size, the list of free chunks
  words,             \* what the words of the heap hold
  currentSegment,
  freeWords, freeOops,
  pc,
  request,           \* the object being allocated, or Nothing
  compacted,         \* segments compacted since the allocation (re)started
  collected,         \* has this allocation collected already?
  starved,           \* auxiliary: was an entry missing since it (re)started?
  sweep,             \* si, di, and the chunks abandoned before the sweep
  pending            \* entries rectifyCounts has still to deallocate

vars == <<ot, allocated, reachable, freeChunks, words, currentSegment, freeWords,
          freeOops, pc, request, compacted, collected, starved, sweep, pending>>

progress == <<compacted, collected, starved>>

table == <<ot, allocated, reachable, freeChunks, words>>

FreeEntry == [segment |-> 0, location |-> 0, size |-> 0, pointer |-> FALSE]
FreePointers == {o \in Oop : ot[o] = FreeEntry}
InUse == Oop \ FreePointers

Nothing == [size |-> 0, pointer |-> FALSE]
NoSweep == [si |-> 0, di |-> 0, abandoned |-> {}]

-----------------------------------------------------------------------------
(***************************************************************************)
(* A pointer object of HugeSize occupies an extra word, used by the        *)
(* traversal (spaceOccupiedBy, and the parameter extraWord of allocate).   *)
(***************************************************************************)
spaceOf(size, pointer) == IF size >= HugeSize /\ pointer THEN size + 1 ELSE size
spaceOccupiedBy(e) == spaceOf(e.size, e.pointer)

listFor(space) == IF space < BigSize THEN space ELSE BigSize

toFreeChunkList(lists, o, e) ==
  [lists EXCEPT ![e.segment][listFor(e.size)] = @ \union {o}]

Chunks(s) == UNION {freeChunks[s][n] : n \in ListSize}

(***************************************************************************)
(* What the words of an object hold: word i of object o holds <<o, i>>     *)
(* once the program has filled it.  What other words hold is not told.     *)
(***************************************************************************)
Junk == <<>>
WithContent(m, s, l, n, o) ==
  [m EXCEPT ![s] = [w \in Word |-> IF l <= w /\ w < l + n THEN <<o, w - l>> ELSE @[w]]]
WithJunk(m, s, l, n) ==
  [m EXCEPT ![s] = [w \in Word |-> IF l <= w /\ w < l + n THEN Junk ELSE @[w]]]

(* The counter freeWords saturates in the model.                           *)
freeWordsSame(n) == freeWords
freeWordsPlus(n) ==
  IF freeWords + n <= MaxFreeWords THEN freeWords + n ELSE MaxFreeWords

-----------------------------------------------------------------------------
(***************************************************************************)
(* allocate:odd:pointer:extra:class: begins.                               *)
(***************************************************************************)
allocate(r) ==
  /\ pc = "mutator"
  /\ pc' = "attempt"
  /\ request' = r
  /\ compacted' = 0
  /\ collected' = FALSE
  /\ starved' = FALSE
  /\ UNCHANGED <<table, currentSegment, freeWords, freeOops, sweep, pending>>

WantedWithoutExtra == request.size
Wanted == spaceOccupiedBy(request)

(* allocate ends: the chunk e of entry o becomes the object.               *)
allocated_as(o, e, lists, table1) ==
  /\ freeChunks' = lists
  /\ ot' = [table1 EXCEPT ![o] = [e EXCEPT !.size = request.size,
                                           !.pointer = request.pointer]]
  /\ allocated' = allocated \union {o}
  /\ reachable' = reachable \union {o}
  /\ words' = WithContent(words, e.segment, e.location, request.size, o)
  /\ freeWords' = IF freeWords >= Wanted THEN freeWords - Wanted ELSE freeWords
  /\ freeOops' = freeOops - 1
  /\ pc' = "mutator"
  /\ request' = Nothing
  /\ compacted' = 0
  /\ collected' = FALSE
  /\ starved' = FALSE
  /\ UNCHANGED <<currentSegment, sweep, pending>>

(* The list of the size wanted, if there is one, or the list of big chunks. *)
SmallHandy == Wanted < BigSize /\ freeChunks[currentSegment][Wanted] # {}
BigChunks == freeChunks[currentSegment][BigSize]

(* A chunk of the size wanted is removed from its list.                    *)
fittingList == IF SmallHandy THEN Wanted ELSE BigSize

removeFromFreeChunkList ==
  /\ pc = "attempt"
  /\ \E o \in freeChunks[currentSegment][fittingList] :
       /\ SmallHandy \/ ot[o].size = Wanted
       /\ allocated_as(o, ot[o],
            [freeChunks EXCEPT ![currentSegment][fittingList] = @ \ {o}], ot)

(* A bigger chunk o is split: its end gets an entry of its own.            *)
canSplitAnyExcess(o) == ot[o].size > Wanted
canSplitBeyondHeader(o) == ot[o].size > Wanted + HeaderSize
canSplit(o) == ot[o].size >= Wanted + HeaderSize

(* The first part stays on its list, with the words that are left.         *)
firstPartKept(o, excess) == ot
firstPart(o, excess) == [ot EXCEPT ![o].size = excess]

splitBigChunk ==
  /\ pc = "attempt"
  /\ ~SmallHandy
  /\ \E o \in BigChunks, new \in FreePointers :
       /\ canSplit(o)
       /\ LET excess == ot[o].size - Wanted
          IN  allocated_as(new,
                [segment |-> currentSegment, location |-> ot[o].location + excess,
                 size |-> Wanted, pointer |-> FALSE],
                freeChunks, firstPart(o, excess))

(* No chunk fits, or the one that does cannot be split for want of a free  *)
(* pointer.                                                                *)
NoPointer == FreePointers = {} /\ \E o \in BigChunks : canSplit(o)

NoChunkHere ==
  /\ pc = "attempt"
  /\ ~SmallHandy
  /\ NoPointer \/ \A o \in BigChunks : ot[o].size # Wanted /\ ~canSplit(o)

-----------------------------------------------------------------------------
(***************************************************************************)
(* compactCurrentSegment, for the next segment: abandonFreeChunksInSegment *)
(* releases the entries of the free chunks, and the sweep starts at the    *)
(* first of them.                                                          *)
(***************************************************************************)
nextSegment == IF currentSegment < HeapSegmentCount THEN currentSegment + 1 ELSE 1

lowWaterMarkLast(s) ==
  CHOOSE l \in {ot[o].location : o \in Chunks(s)} :
    \A o \in Chunks(s) : ot[o].location <= l

lowWaterMark(s) ==
  CHOOSE l \in {ot[o].location : o \in Chunks(s)} :
    \A o \in Chunks(s) : l <= ot[o].location

abandonFreeChunksInSegment ==
  /\ NoChunkHere
  /\ compacted < HeapSegmentCount
  /\ compacted' = compacted + 1
  /\ starved' = (starved \/ NoPointer)
  /\ currentSegment' = nextSegment
  /\ LET s == nextSegment
     IN  \/ /\ Chunks(s) = {}
            /\ UNCHANGED <<ot, freeChunks, sweep, pc>>
         \/ /\ Chunks(s) # {}
            /\ ot' = [o \in Oop |-> IF o \in Chunks(s) THEN FreeEntry ELSE ot[o]]
            /\ freeChunks' = [freeChunks EXCEPT ![s] = [n \in ListSize |-> {}]]
            /\ sweep' = [si |-> lowWaterMark(s), di |-> lowWaterMark(s),
                         abandoned |-> {<<ot[o].location, ot[o].size>> : o \in Chunks(s)}]
            /\ pc' = "sweep"
  /\ UNCHANGED <<allocated, reachable, words, freeWords, freeOops, request,
                 collected, pending>>

(***************************************************************************)
(* sweepCurrentSegmentFrom: one turn of the loop either skips an abandoned *)
(* chunk or moves an object down.  Reversed heap pointers (word 0 of the   *)
(* object holds its entry) find the object that begins at si.              *)
(***************************************************************************)
sweepSkip ==
  /\ pc = "sweep"
  /\ sweep.si < HeapSpaceStop
  /\ \E c \in sweep.abandoned :
       /\ c[1] = sweep.si
       /\ sweep' = [sweep EXCEPT !.si = @ + c[2], !.abandoned = @ \ {c}]
  /\ UNCHANGED <<table, currentSegment, freeWords, freeOops, pc, request,
                 progress, pending>>

(* Words si up to si + n - 1 of the segment are copied to di.              *)
movedHeaderOnly(n) ==
  [w \in Word |-> IF sweep.di <= w /\ w < sweep.di + HeaderSize
                  THEN words[currentSegment][w - sweep.di + sweep.si]
                  ELSE words[currentSegment][w]]

movedDown(n) ==
  [w \in Word |-> IF sweep.di <= w /\ w < sweep.di + n
                  THEN words[currentSegment][w - sweep.di + sweep.si]
                  ELSE words[currentSegment][w]]

sweepMove ==
  /\ pc = "sweep"
  /\ sweep.si < HeapSpaceStop
  /\ \A c \in sweep.abandoned : c[1] # sweep.si
  /\ \E o \in InUse :
       /\ ot[o].segment = currentSegment
       /\ ot[o].location = sweep.si
       /\ ot' = [ot EXCEPT ![o].location = sweep.di]
       /\ words' = [words EXCEPT ![currentSegment] = movedDown(spaceOccupiedBy(ot[o]))]
       /\ sweep' = [sweep EXCEPT !.si = @ + spaceOccupiedBy(ot[o]),
                                 !.di = @ + spaceOccupiedBy(ot[o])]
  /\ UNCHANGED <<allocated, reachable, freeChunks, currentSegment, freeWords,
                 freeOops, pc, request, progress, pending>>

(* The space above the last object becomes one chunk.                      *)
bigSpace(di) == HeapSpaceStop + 1 - di

sweepEnd ==
  /\ pc = "sweep"
  /\ sweep.si >= HeapSpaceStop
  /\ \E o \in FreePointers :
       LET e == [segment |-> currentSegment, location |-> sweep.di,
                 size |-> bigSpace(sweep.di), pointer |-> FALSE]
       IN  /\ ot' = [ot EXCEPT ![o] = e]
           /\ freeChunks' = toFreeChunkList(freeChunks, o, e)
           /\ words' = WithJunk(words, currentSegment, sweep.di, e.size)
  /\ sweep' = NoSweep
  /\ pc' = "attempt"
  /\ UNCHANGED <<allocated, reachable, currentSegment, freeWords, freeOops, request,
                 progress, pending>>

-----------------------------------------------------------------------------
(***************************************************************************)
(* reclaimInaccessibleObjects: what is not marked has a zero count, as the *)
(* free chunks have, and rectifyCountsAndDeallocateGarbage deallocates it. *)
(***************************************************************************)
listsKept == freeChunks
listsReset == [s \in Segment |-> [n \in ListSize |-> {}]]

reclaimInaccessibleObjects ==
  /\ pc' = "rectify"
  /\ allocated' = reachable
  /\ freeChunks' = listsReset
  /\ pending' = InUse \ reachable
  /\ UNCHANGED <<ot, reachable, words, currentSegment, freeWords, freeOops, request,
                 sweep>>

(* memWarn and primitiveSnapshot collect when no allocation is under way.  *)
garbageCollect ==
  /\ pc = "mutator"
  /\ reclaimInaccessibleObjects
  /\ UNCHANGED progress

collectedAgain == FALSE
collectedNow == TRUE

allocateChunkCollects ==
  /\ NoChunkHere
  /\ compacted = HeapSegmentCount
  /\ ~collected
  /\ reclaimInaccessibleObjects
  /\ compacted' = 0
  /\ collected' = collectedNow
  /\ starved' = FALSE

(* The size word of a chunk is the space the object occupied.              *)
deallocated(e) == [e EXCEPT !.size = spaceOccupiedBy(e)]

deallocate(o) ==
  LET e == deallocated(ot[o])
  IN  /\ ot' = [ot EXCEPT ![o] = e]
      /\ freeChunks' = toFreeChunkList(freeChunks, o, e)
      /\ words' = WithJunk(words, e.segment, e.location, ot[o].size)
      /\ freeWords' = freeWordsPlus(spaceOccupiedBy(ot[o]))

rectifyDeallocate ==
  /\ pc = "rectify"
  /\ \E o \in pending : deallocate(o) /\ pending' = pending \ {o}
  /\ UNCHANGED <<allocated, reachable, currentSegment, freeOops, pc, request,
                 progress, sweep>>

auditFreeOops == Cardinality(Oop \ allocated)

rectifyEnd ==
  /\ pc = "rectify"
  /\ pending = {}
  /\ freeOops' = auditFreeOops
  /\ pc' = IF request = Nothing THEN "mutator" ELSE "attempt"
  /\ UNCHANGED <<table, currentSegment, freeWords, request, progress, sweep, pending>>

outOfMemoryError ==
  /\ NoChunkHere
  /\ compacted = HeapSegmentCount
  /\ collected
  /\ pc' = "outOfMemory"
  /\ starved' = (starved \/ NoPointer)
  /\ UNCHANGED <<table, currentSegment, freeWords, freeOops, request, compacted,
                 collected, sweep, pending>>

-----------------------------------------------------------------------------
(* The last reference to o goes: its count reaches zero (countDown).       *)
freeOopsSame == freeOops
freeOopsAfterFree == freeOops + 1

countDown(o) ==
  /\ pc = "mutator"
  /\ deallocate(o)
  /\ allocated' = allocated \ {o}
  /\ reachable' = reachable \ {o}
  /\ freeOops' = freeOopsAfterFree
  /\ UNCHANGED <<currentSegment, pc, request, progress, sweep, pending>>

(* The program drops o but a cycle, or a count that stuck, keeps it.       *)
Abandon(o) ==
  /\ pc = "mutator"
  /\ reachable' = reachable \ {o}
  /\ UNCHANGED <<ot, allocated, freeChunks, words, currentSegment, freeWords,
                 freeOops, pc, request, progress, sweep, pending>>

-----------------------------------------------------------------------------
(***************************************************************************)
(* An image as loaded (loadObjects).  Segment s begins with an object of   *)
(* image[s] words (none if 0); the rest is one free chunk, unless it is a  *)
(* single word, which is lost until the segment is compacted.              *)
(***************************************************************************)
loadObjects ==
  \E image \in [Segment -> ImageSizes], home \in [Oop -> 0 .. HeapSegmentCount],
     objects \in SUBSET Oop :
    LET Rest(s) == HeapSpaceStop + 1 - image[s]
        Entries(s, where) == {o \in where : home[o] = s}
    IN  /\ \A o \in objects : home[o] # 0
        /\ \A s \in Segment :
             /\ image[s] <= HeapSpaceStop + 1
             /\ \A o, p \in Entries(s, objects) : o = p
             /\ \A o, p \in Entries(s, Oop \ objects) : o = p
             /\ image[s] > 0 <=> Entries(s, objects) # {}
             /\ Rest(s) >= HeaderSize <=> Entries(s, Oop \ objects) # {}
        /\ ot = [o \in Oop |->
             CASE home[o] = 0 -> FreeEntry
               [] home[o] # 0 /\ o \in objects ->
                    [segment |-> home[o], location |-> 0, size |-> image[home[o]],
                     pointer |-> FALSE]
               [] home[o] # 0 /\ o \notin objects ->
                    [segment |-> home[o], location |-> image[home[o]],
                     size |-> Rest(home[o]), pointer |-> FALSE]]
        /\ allocated = objects
        /\ freeChunks = [s \in Segment |-> [n \in ListSize |->
             {o \in Entries(s, Oop \ objects) : listFor(Rest(s)) = n}]]
        /\ words = [s \in Segment |-> [w \in Word |->
             IF w < image[s] THEN <<CHOOSE o \in Entries(s, objects) : TRUE, w>> ELSE Junk]]
        /\ freeWords = Cardinality({x \in Segment \X Word : image[x[1]] <= x[2]})

Init ==
  /\ loadObjects
  /\ reachable = allocated
  /\ freeOops = auditFreeOops
  /\ currentSegment = 1
  /\ pc = "mutator"
  /\ request = Nothing
  /\ compacted = 0
  /\ collected = FALSE
  /\ starved = FALSE
  /\ sweep = NoSweep
  /\ pending = {}

AllocateRequest == \E r \in Requests : allocate(r)
LastReferenceGoes == \E o \in reachable : countDown(o)
DropFromReach == \E o \in reachable : Abandon(o)

Attempt ==
  \/ removeFromFreeChunkList
  \/ splitBigChunk
  \/ abandonFreeChunksInSegment
  \/ allocateChunkCollects
  \/ outOfMemoryError

SweepStep == sweepSkip \/ sweepMove \/ sweepEnd
RectifyStep == rectifyDeallocate \/ rectifyEnd

Mutator == AllocateRequest \/ LastReferenceGoes \/ DropFromReach
AllocationStep == Attempt \/ SweepStep \/ RectifyStep

Next == Mutator \/ AllocationStep \/ garbageCollect

Spec == Init /\ [][Next]_vars

(***************************************************************************)
(* Without low space warnings and snapshots nothing is collected but when  *)
(* an allocation has failed.  The thread that allocates goes on until the  *)
(* allocation is done.                                                     *)
(***************************************************************************)
CollectWhenFull == Init /\ [][Mutator \/ AllocationStep]_vars /\ WF_vars(AllocationStep)

-----------------------------------------------------------------------------
ChunkSize == {n \in Nat : n >= HeaderSize}
Entry == [segment : Segment, location : Nat, size : ChunkSize, pointer : BOOLEAN]

TypeOK ==
  /\ ot \in [Oop -> Entry \union {FreeEntry}]
  /\ allocated \subseteq Oop
  /\ reachable \subseteq allocated
  /\ freeChunks \in [Segment -> [ListSize -> SUBSET Oop]]
  /\ words \in [Segment -> [Word -> {Junk} \union (Oop \X Nat)]]
  /\ currentSegment \in Segment
  /\ freeWords \in Nat
  /\ freeOops \in Int
  /\ pc \in {"mutator", "attempt", "sweep", "rectify", "outOfMemory"}
  /\ request \in Requests \union {Nothing}
  /\ compacted \in 0 .. HeapSegmentCount
  /\ collected \in BOOLEAN
  /\ starved \in BOOLEAN
  /\ sweep \in [si : Nat, di : Nat, abandoned : SUBSET (Nat \X Nat)]
  /\ pending \subseteq Oop

(***************************************************************************)
(* Objects and free chunks lie within their segments and no word belongs   *)
(* to two of them.  An overlap lets one object overwrite another.          *)
(***************************************************************************)
extent(o) == IF o \in allocated THEN spaceOccupiedBy(ot[o]) ELSE ot[o].size
EndOf(o) == ot[o].location + extent(o)
Holds(o, s, w) == ot[o].segment = s /\ ot[o].location <= w /\ w < EndOf(o)

WithinSegment ==
  \A o \in InUse : EndOf(o) <= HeapSpaceStop + 1

ChunksDisjoint ==
  \A o, p \in InUse :
    o # p /\ ot[o].segment = ot[p].segment
      => EndOf(o) <= ot[p].location \/ EndOf(p) <= ot[o].location

NoOverlap == WithinSegment /\ ChunksDisjoint

(***************************************************************************)
(* Whatever is allocated, freed, collected or compacted, an object keeps   *)
(* its words: word i of o reads <<o, i>> wherever o has been moved.        *)
(***************************************************************************)
ContentsIntact ==
  \A o \in allocated : \A i \in 0 .. ot[o].size - 1 :
    words[ot[o].segment][ot[o].location + i] = <<o, i>>

(***************************************************************************)
(* No entry leaks.  One that is in use is an object, stands in exactly one *)
(* free-chunk list of its segment, of its size or of the big chunks, or is *)
(* about to be deallocated.                                                *)
(***************************************************************************)
EntriesAccountedFor ==
  /\ InUse = allocated \union pending
             \union UNION {freeChunks[s][n] : s \in Segment, n \in ListSize}
  /\ allocated \intersect pending = {}
  /\ \A s \in Segment, n \in ListSize : \A o \in freeChunks[s][n] :
       /\ o \notin allocated \union pending
       /\ ot[o].segment = s
       /\ n \in {listFor(ot[o].size), BigSize}
       /\ \A m \in ListSize : o \in freeChunks[s][m] => m = n

(***************************************************************************)
(* oopsLeft answers the number of entries that hold no object, although it *)
(* is kept by counting; the low space warning depends on it.               *)
(***************************************************************************)
OopsLeftExact == pc \in {"mutator", "attempt", "sweep"} => freeOops = auditFreeOops

(***************************************************************************)
(* No word of a segment is lost: while nothing is being collected each     *)
(* word is in an object or in a chunk, apart from the last word of a       *)
(* segment as loaded.                                                      *)
(***************************************************************************)
SweptOver(s, w) ==
  /\ pc = "sweep" /\ s = currentSegment
  /\ \/ sweep.di <= w /\ w < sweep.si
     \/ \E c \in sweep.abandoned : c[1] <= w /\ w < c[1] + c[2]

NoWordLost ==
  \A s \in Segment, w \in Word :
    w < HeapSpaceStop => (\E o \in InUse : Holds(o, s, w)) \/ SweptOver(s, w)

(* The words of segment s that no object occupies.                         *)
FreeSpace(s) ==
  Cardinality({w \in Word : \A o \in allocated : ~Holds(o, s, w)})

(* Words that do not do, though they are together: too few; one too many,  *)
(* since a chunk of one word cannot be; or a chunk of another size with a  *)
(* list of its own, which attemptToAllocateChunkInCurrentSegment does not  *)
(* look at even if it is larger.                                           *)
TooLittle(n) ==
  n < Wanted \/ n = Wanted + 1 \/ (n < BigSize /\ n # Wanted)

(***************************************************************************)
(* The process aborts for want of memory only when everything unreachable  *)
(* has been collected and no segment has the words wanted, even if its     *)
(* objects were moved together; or when the object table had no free       *)
(* pointer when a segment that has them was tried.  (Compacting a later    *)
(* segment may free pointers again: the code does not go back.)            *)
(***************************************************************************)
OutOfMemoryOnlyIfFull ==
  pc = "outOfMemory" =>
    /\ allocated = reachable
    /\ \/ starved
       \/ \A s \in Segment : TooLittle(FreeSpace(s))

(***************************************************************************)
(* An allocation ends: its nested loops of attempts, compactions and one   *)
(* collection do not run for ever.                                         *)
(***************************************************************************)
AllocationEnds == pc # "mutator" ~> pc \in {"mutator", "outOfMemory"}

(***************************************************************************)
(* coreLeft never understates the free words (it warns in time or late,    *)
(* never for nothing).                                                     *)
(***************************************************************************)
FreeTotal == Cardinality({x \in Segment \X Word :
  \A o \in allocated : ~Holds(o, x[1], x[2])})

CoreLeftNotUnderstated == pc = "mutator" => freeWords >= FreeTotal

(***************************************************************************)
(* loadObjects says of the free chunks: "The size field of the object      *)
(* contains the actual size of the free chunk."  The words of a chunk      *)
(* belong to no other.                                                     *)
(***************************************************************************)
ChunkSizeActual ==
  \A s \in Segment : \A o \in Chunks(s) : \A p \in InUse \ {o} :
    ot[p].segment = s => EndOf(o) <= ot[p].location \/ EndOf(p) <= ot[o].location
=============================================================================
