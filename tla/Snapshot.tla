------------------------------- MODULE Snapshot -------------------------------
(***************************************************************************)
(* Saving the object memory to the image file and loading it again         *)
(* (objectmemory.c, primitiveSnapshot), with a process that may end        *)
(* between any two writes and writes that may fail.  The file is truncated *)
(* first and rewritten in place; the lengths at its beginning come last.   *)
(*                                                                         *)
(* The file is a sequence of 16-bit words, of which an int32 takes two.    *)
(* What objects hold is abstract, where they are is not: the saved object  *)
(* table has addresses in the file, and the loader packs the objects again *)
(* into the segments, in the order of their pointers.                      *)
(***************************************************************************)
EXTENDS Integers, SequencesExt

CONSTANTS
  LastOop,          \* object pointers are 1 .. LastOop, 0 is reserved
  SegmentCount,
  SegmentSize,      \* words of a segment that objects may occupy
  HugeSize,         \* pointer objects of this size have an extra word
  Page,             \* words of a page: 256
  AddressSize,      \* words told apart by the location bits: 65536
  Memories          \* the object memories a program may start with

HeaderSize == 2
Oop == 1 .. LastOop
Segment == 0 .. SegmentCount - 1
Nil == 1

ASSUME SnapshotAssumption ==
  /\ LastOop \in Nat \ {0} /\ SegmentCount \in Nat \ {0}
  /\ SegmentSize \in Nat /\ HugeSize \in Nat
  /\ Page \in Nat /\ Page >= 5
  /\ AddressSize \in Nat \ {0}

(* An entry of the object table with what it refers to.  An object has a   *)
(* count, a chunk has none, and a free entry has its free bit set.         *)
FreeEntry == [free |-> TRUE, count |-> 0, pointer |-> FALSE, segment |-> 0,
              location |-> 0, class |-> 0, fields |-> <<>>]
hasObject(e) == ~e.free /\ e.count # 0
sizeBitsOf(e) == Len(e.fields) + HeaderSize
spaceFor(size, pointer) == IF size < HugeSize \/ ~pointer THEN size ELSE size + 1
Objects(m) == {o \in Oop: hasObject(m[o])}

Link == 0           \* a link of a chunk list where a class should be

VARIABLES
  memory,           \* the object table
  file,             \* the words of the image file
  todo,             \* the writes of a save that are still to come
  phase,            \* of the process: running, or writing an image (then its
                    \* spaceLength, its tableLength), or dead; or lost, if
                    \* there is no image to start it with
  position,         \* where the lengths are written
  saved             \* auxiliary: [memory, complete] of the last save begun

vars == <<memory, file, todo, phase, position, saved>>

-----------------------------------------------------------------------------
(* saveObjects: what it writes, one element for each call of write.        *)
Int32(i) == <<i, 0>>
Pad(words) == [i \in 1 .. (-words) % Page |-> <<0>>]
Words(writes) == FlattenSeq(writes)

ObjectWrites(e) ==
  <<<<sizeBitsOf(e), e.class>>>> \o [i \in 1 .. Len(e.fields) |-> <<e.fields[i]>>]

StoredOops(m) == IF Objects(m) = {} THEN 0 ELSE Max(Objects(m))
AllObjectWrites(m) ==
  FlattenSeq([o \in 1 .. StoredOops(m) |->
                IF hasObject(m[o]) THEN ObjectWrites(m[o]) ELSE <<>>])

(* Objects follow one another in the file, without extra words; chunks     *)
(* become free entries.                                                    *)
ImageAddress(m, o) ==
  FoldFunctionOnSet(+, 0, [p \in Oop |-> sizeBitsOf(m[p])],
                    {p \in Objects(m): p < o})
EntryWrite(m, o) ==
  IF hasObject(m[o])
  THEN LET address == ImageAddress(m, o)
       IN  <<[free |-> FALSE, count |-> m[o].count, pointer |-> m[o].pointer,
              segment |-> address \div AddressSize],
             address % AddressSize>>
  ELSE <<[free |-> TRUE, count |-> 0, pointer |-> FALSE, segment |-> 0], 0>>
EntryWrites(m) ==
  <<<<[free |-> FALSE, count |-> 0, pointer |-> FALSE, segment |-> 0], 0>>>>
    \o [o \in 1 .. StoredOops(m) |-> EntryWrite(m, o)]

SaveWrites(m) ==
  LET header == <<Int32(0) \o Int32(0), <<0>>>>   \* lengths, interchange
      first == header \o Pad(Len(Words(header)))
      objects == first \o AllObjectWrites(m)
  IN  objects \o Pad(Len(Words(objects))) \o EntryWrites(m)

ObjectSpaceLength(m) == Len(Words(AllObjectWrites(m)))
ObjectTableLength(m) == 2 * (StoredOops(m) + 1)

-----------------------------------------------------------------------------
(* primitiveSnapshot: the file is truncated before anything is written.    *)
(* (If it cannot be created nothing happens; the answer is the same.)      *)
primitiveSnapshot ==
  /\ phase = "running"
  /\ phase' = "writing"
  /\ file' = <<>>
  /\ todo' = SaveWrites(memory)
  /\ saved' = [memory |-> memory, complete |-> FALSE]
  /\ UNCHANGED <<memory, position>>

Write ==
  /\ phase = "writing"
  /\ file' = file \o Head(todo)
  /\ todo' = Tail(todo)
  /\ phase' = IF todo' = <<>> THEN "spaceLength" ELSE "writing"
  /\ position' = 0
  /\ UNCHANGED <<memory, saved>>

(* A write that fails, after some of its words, ends the save; the program *)
(* goes on with the same answer as after a good one.                       *)
WriteFails ==
  /\ phase = "writing"
  /\ \E n \in 0 .. Len(Head(todo)) - 1: file' = file \o SubSeq(Head(todo), 1, n)
  /\ todo' = <<>>
  /\ phase' = "running"
  /\ UNCHANGED <<memory, position, saved>>

(* The lengths: whether these writes succeed is not looked at, and the     *)
(* second goes where the first one ended.                                  *)
AtTheEnd(words) == file \o words            \* a mutant: no seek
AtPosition(words) ==
  SubSeq(file, 1, position) \o words
    \o SubSeq(file, position + Len(words) + 1, Len(file))

WriteSpaceLength ==
  /\ phase = "spaceLength"
  /\ phase' = "tableLength"
  /\ \/ /\ file' = AtPosition(Int32(ObjectSpaceLength(memory)))
        /\ position' = 2
     \/ UNCHANGED <<file, position>>
  /\ UNCHANGED <<memory, todo, saved>>

WriteTableLength ==
  /\ phase = "tableLength"
  /\ phase' = "running"
  /\ \/ /\ file' = AtPosition(Int32(ObjectTableLength(memory)))
        /\ saved' = [saved EXCEPT !.complete = position = 2]
     \/ UNCHANGED <<file, saved>>
  /\ UNCHANGED <<memory, todo, position>>

-----------------------------------------------------------------------------
(* loadObjectTable: the table is the end of the file.                      *)
Refused == [success |-> FALSE, memory |-> [o \in Oop |-> FreeEntry]]

TableLength(f) == f[3]
(* A mutant: without the entry of the reserved pointer 0.                  *)
TableWithoutReserved(f) ==
  [o \in Oop |->
     IF 2 * o < TableLength(f)
     THEN LET start == Len(f) - TableLength(f)
          IN  [bits |-> f[start + 2 * o - 1], location |-> f[start + 2 * o]]
     ELSE [bits |-> [free |-> TRUE, count |-> 0, pointer |-> FALSE, segment |-> 0],
           location |-> 0]]
loadObjectTable(f) ==
  [o \in Oop |->
     IF 2 * o < TableLength(f)
     THEN LET start == Len(f) - TableLength(f)
          IN  [bits |-> f[start + 2 * o + 1], location |-> f[start + 2 * o + 2]]
     ELSE [bits |-> [free |-> TRUE, count |-> 0, pointer |-> FALSE, segment |-> 0],
           location |-> 0]]

(* loadObjects: one object after the other, to the current segment or, if  *)
(* it has no room, the next.                                               *)
AllRoom == [s \in Segment |-> SegmentSize]
AtLoadStart ==
  [success |-> TRUE, memory |-> [o \in Oop |-> FreeEntry], segment |-> 0,
   room |-> AllRoom]

FitsButOneWord(l, space) == space <= l.room[l.segment] + 1   \* a mutant
Fits(l, space) == space <= l.room[l.segment]

LoadObject(f, table, l, o) ==
  LET bits == table[o].bits
      address == Page + bits.segment * AddressSize + table[o].location
      size == f[address + 1]
      space == spaceFor(size, bits.pointer)
      s == IF Fits(l, space) THEN l.segment ELSE l.segment + 1
  IN  IF bits.free \/ ~l.success THEN l
      ELSE IF s = SegmentCount THEN [l EXCEPT !.success = FALSE]
      ELSE [l EXCEPT
              !.segment = s,
              !.room[s] = @ - space,
              !.memory[o] =
                 [free |-> FALSE, count |-> bits.count, pointer |-> bits.pointer,
                  segment |-> s, location |-> SegmentSize - l.room[s],
                  class |-> f[address + 2],
                  fields |-> SubSeq(f, address + HeaderSize + 1, address + size)]]

(* The room left in each segment becomes a chunk.  Without a free entry    *)
(* for it obtainPointer answers nil, and nil becomes a link of the list.   *)
AddChunk(l, s) ==
  LET free == {o \in Oop: l.memory[o].free}
  IN  IF l.room[s] < HeaderSize THEN l
      ELSE IF free = {} THEN [l EXCEPT !.memory[Nil].class = Link]
      ELSE [l EXCEPT !.memory[Min(free)] =
              [free |-> FALSE, count |-> 0, pointer |-> FALSE, segment |-> s,
               location |-> SegmentSize - l.room[s], class |-> Link,
               fields |-> [i \in 1 .. l.room[s] - HeaderSize |-> 0]]]

loadObjects(f, table) ==
  LET loaded == FoldLeft(LAMBDA l, o: LoadObject(f, table, l, o), AtLoadStart,
                         [o \in Oop |-> o])
  IN  IF ~loaded.success THEN loaded
      ELSE FoldLeft(LAMBDA l, n: AddChunk(l, n - 1), loaded,
                    [n \in 1 .. SegmentCount |-> n])

loadSnapshot(f) ==
  IF Len(f) < 4 \/ TableLength(f) > Len(f) THEN Refused
  ELSE LET l == loadObjects(f, loadObjectTable(f))
       IN  [success |-> l.success, memory |-> l.memory]

-----------------------------------------------------------------------------
(* The process ends, wherever it is, and is started again.  An image       *)
(* without objects has no active process: firstContext ends the process.   *)
Ends ==
  /\ phase \notin {"dead", "lost"}
  /\ phase' = "dead"
  /\ todo' = <<>>
  /\ UNCHANGED <<memory, file, position, saved>>

INTERP_Init ==
  /\ phase = "dead"
  /\ LET l == loadSnapshot(file)
     IN  IF l.success /\ Objects(l.memory) # {}
         THEN phase' = "running" /\ memory' = l.memory
         ELSE phase' = "lost" /\ UNCHANGED memory
  /\ UNCHANGED <<file, todo, position, saved>>

(* The program works: here, an object is freed and becomes a chunk.        *)
Free ==
  /\ phase = "running"
  /\ \E o \in Objects(memory) \ {Nil}:
       memory' = [memory EXCEPT ![o].count = 0, ![o].class = Link]
  /\ UNCHANGED <<file, todo, phase, position, saved>>

(* An image that has been saved and loaded, or was made elsewhere.         *)
CompleteFile(m) ==
  LET words == Words(SaveWrites(m))
  IN  Int32(ObjectSpaceLength(m)) \o Int32(ObjectTableLength(m))
        \o SubSeq(words, 5, Len(words))

Init ==
  /\ memory \in Memories
  /\ file = CompleteFile(memory)
  /\ todo = <<>>
  /\ phase = "running"
  /\ position = 0
  /\ saved = [memory |-> memory, complete |-> FALSE]

Next ==
  \/ primitiveSnapshot \/ Write \/ WriteFails
  \/ WriteSpaceLength \/ WriteTableLength
  \/ Ends \/ INTERP_Init \/ Free

Spec == Init /\ [][Next]_vars

-----------------------------------------------------------------------------
SpaceOf(e) == spaceFor(sizeBitsOf(e), e.pointer)
Chunks(m) == {o \in Oop: ~m[o].free /\ m[o].count = 0}
SegmentsWithAChunk(m) == {m[o].segment: o \in Chunks(m)}

(* Objects are the same but for their place; and nil's class, if there was *)
(* no entry left for a chunk.                                              *)
SameObjects(m, n) ==
  /\ Objects(m) = Objects(n)
  /\ \A o \in Objects(m):
       /\ m[o].count = n[o].count /\ m[o].pointer = n[o].pointer
       /\ m[o].fields = n[o].fields
       /\ \/ m[o].class = n[o].class
          \/ o = Nil /\ Objects(m) \cup Chunks(m) = Oop

(* Whenever the process ends, what is then loaded from the file is what    *)
(* was saved last, whole, or nothing: never an older memory, a mixture, or *)
(* part of one.                                                            *)
LoadsSavedOrNothing ==
  LET l == loadSnapshot(file)
  IN  l.success => \/ Objects(l.memory) = {}
                   \/ SameObjects(l.memory, saved.memory)

(* A loaded memory is sound: what is in it lies apart and inside its       *)
(* segment, with its extra words, and no word of a segment is lost but     *)
(* where the rest was too small for a chunk, or there was no entry for it. *)
LoadedMemorySound ==
  LET l == loadSnapshot(file)
      m == l.memory
      In(s) == {o \in Oop: ~m[o].free /\ m[o].segment = s}
      WordsOf(o) == m[o].location .. m[o].location + SpaceOf(m[o]) - 1
  IN  l.success =>
        \A s \in Segment:
          /\ \A o, p \in In(s): o # p => WordsOf(o) \cap WordsOf(p) = {}
          /\ UNION {WordsOf(o): o \in In(s)} \subseteq 0 .. SegmentSize - 1
          /\ LET used == FoldFunctionOnSet(+, 0, [o \in Oop |-> SpaceOf(m[o])], In(s))
             IN  \/ SegmentSize - used \in 0 .. HeaderSize - 1
                 \/ \A o \in Oop: ~m[o].free

(* An image is refused, or has nothing in it, only if the last save was    *)
(* cut short, or if its objects would leave less room in each segment than *)
(* the largest of them takes.                                              *)
RefusedOnlyIfFull ==
  LET l == loadSnapshot(file)
      m == saved.memory
      space == [o \in Oop |-> SpaceOf(m[o])]
      total == FoldFunctionOnSet(+, 0, space, Objects(m))
      largest == Max({space[o]: o \in Objects(m)})
  IN  saved.complete /\ (~l.success \/ Objects(l.memory) = {}) =>
        total > SegmentCount * (SegmentSize - largest + 1)
=============================================================================
