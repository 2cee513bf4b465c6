# minist8: a verification development

minist8 is a Smalltalk-80 virtual machine in C (the files `*.c` and `*.h` at the
top of the repository, about 11 000 lines; the Makefile builds `bitblt system
interpreter main objectmemory primitives runtime`). It loads the Xerox image into
a segmented object memory, runs its bytecodes one at a time in one thread, and
feeds the image with events of an SDL window, a timer and standard input.

This directory holds TLA+ models of its parts, the TLC configurations that check
them on small instances, and TLAPS proofs of what is most important about them.
It also says what is not modelled yet, and in which order it is to be.

    tlc -config MCScheduler.cfg MCScheduler        one run
    tlapm SchedulerProofs.tla                      one module of proofs

`PROJECT.json` lists the components, the runs with the properties they check, for
each definition the lines it models, the mutants (a plausible bug in one
definition that makes TLC refute one property), the hazards of the code and the
properties that watch over them, the findings, and the theorems.

## 1. The system

| Component | Code | State | Operations |
|---|---|---|---|
| Process scheduler | `primitives.c` 355-610, `interpreter.c` 354, 1431-1470 | lists of processes (ProcessorScheduler, Semaphores), `semaphoreList`, `newProcess`, `newProcessWaiting`, `activeContext` | signal, wait, resume, suspend, asynchronous signals, the switch before each bytecode |
| Object memory: allocator | `objectmemory.c` 989-1200, 1299-1401, 1482-1640, 2152-2304 | object table, segments of words, free-pointer list, free-chunk lists, `currentSegment`, `freeWords`, `freeOops` | allocate, split, compact, deallocate, collect |
| Object memory: reference counts and marks | `objectmemory.c` 1206-1287, 1333-1416, 1660-1741, 1801-1942 | count bits, reversed pointers | countUp, countDown, mark, rectify, swapPointersOf:and: |
| Object memory: files | `objectmemory.c` 616-985 | the image file | load, save a snapshot |
| Input events | `system.c` 690-1000 | ring of 16-bit words, `inputSemaphore`, time of the last event | queue a word and signal; primitiveInputWord |
| Timer | `system.c` 1035-1060, `primitives.c` 825-864 | one semaphore and its time | schedule, check once a frame |
| Standard input | `system.c` 286-312, `main.c` 48 | line buffer, its semaphore | read once a frame, answer the line |
| Low space watch | `primitives.c` 164-185, 2601-2617 | limits, semaphore, "was low" flag | check at each bytecode after a frame starts |
| Main loop | `main.c` 34-57 | none | frame: events, timer, low space; then cycles |
| Contexts, sends, returns | `interpreter.c` 284-371, 870-1163, `primitives.c` 191-352 | activeContext, homeContext, receiver, method, ip, sp | activate, return, blocks |
| Method lookup and cache | `interpreter.c` 395-475, 884-922 | 1024-word cache | lookup, fill, flush |
| Arithmetic primitives | `primitives.c` 1548-1884 | stack | 15-bit SmallIntegers, 16-bit LargePositiveIntegers |
| Array, string, stream primitives | `primitives.c` 1022-1298, 2329-2573 | stack, objects | at:, at:put:, next, nextPut: |
| BitBlt and text scanning | `bitblt.c` | source, destination and clip rectangles, masks | clip, masks, copy loop, scanCharacters |
| Floats, display, POSIX files, options | `primitives.c`, `system.c`, `runtime.c` | | output and wrappers |

How they interact. Everything runs in one thread. Once a frame the main loop lets
`system.c` collect SDL events: each 16-bit word of an event enters the input ring
and posts a signal of the input semaphore (`asynchronousSignal`: the semaphore is
only put on `semaphoreList`). The timer, the low space watch and standard input
post signals the same way. `checkProcessSwitch`, before each bytecode, delivers
the posted signals and switches to the process that has become the one to run.
Primitives allocate; allocation may compact a segment or collect in the middle of
any of them, with the registers of the interpreter and `Smalltalk` as roots. The
image, which is a program we do not have as C, calls the primitives.

What is hard. Nothing runs in parallel, so the difficulty is in *delayed* and
*nested* work: signals that are posted at one time and delivered at another, a
switch that is decided by one primitive and made at the next bytecode, lists
threaded through objects of the image with one `next` field per process, a
collection nested in an allocation nested in a primitive that holds pointers in C
variables, compaction that moves objects while the headers hold reversed
pointers, counters kept by increments along many paths, and a file rewritten in
place. `PROJECT.json` lists these hazards at their lines.

What makes each component correct:

* scheduler: lists are sound chains; a process is in at most one; the process that
  runs is in none and nothing ready has a higher priority; no process waits at a
  semaphore that holds signals; each posted signal reaches a process that waits for
  it; all of this as the Blue Book's policy promises;
* allocator: objects and chunks never overlap, objects keep their words, no entry or
  word leaks, the counters behind the low space warning are right, memory is declared
  full only when it is, an allocation ends;
* counts and marks: an object is freed only if nothing reaches it, including what the
  interpreter holds in registers and C variables;
* snapshot: what is loaded, after a crash at any point, is what was saved last, whole,
  or nothing; it is loaded soundly, and if it fits at all;
* input: words come out in the order they went in, one signal each; the timer signals
  a request whose time has passed; of a line of input only newlines are lost; the low
  space warning comes while memory is short (the code keeps the first two not at all
  and the third only by its own counts, see the findings); none of this ends the
  process but where it must;
* contexts: return to a context that has returned is noticed; an answer goes where the
  message was pushed; a message, sent or performed, activates its method once (a
  perform does not always, see the findings);
* method cache: a hit answers what a lookup would, with the arguments it needs;
* primitives: arithmetic against mathematical definitions; a store reads back; a
  failed primitive leaves stack and memory as it found them.

## 2. Modules

| Module | What it is |
|---|---|
| `SchedulingPolicy` | abstract: ready and waiting queues as sequences, who runs, posted signals |
| `Scheduler` | the linked lists and registers of `primitives.c`; instantiates `SchedulingPolicy` |
| `SchedulerProofs` | the inductive invariant of `Scheduler` and its consequences |
| `MCScheduler` | four processes, two semaphores |
| `ObjectMemory` | the allocator of `objectmemory.c` |
| `ObjectMemoryProofs` | the allocator's type correctness, disjointness, contents, entries and words, what it says is left, and when it is full, proved for pointer objects without an extra word |
| `MCObjectMemory` | two segments of six words, four object pointers |
| `ObjectGraph` | abstract: objects, their pointers, what the program holds; what can be reached is there |
| `Counting` | what a count down frees and what a mark reaches, as operators |
| `PointerReversal` | the traversal of `objectmemory.c`, step by step, against `Counting` |
| `PointerReversalProofs` | that the traversal finds its way back, frees and marks exactly what it should, proved |
| `RefCounts` | the counts kept by the interpreter and the primitives, and the collection; instantiates `ObjectGraph` |
| `RefCountsInvariant` | the inductive invariant of `RefCounts` and the operators its proof needs |
| `RefCountsProofs` | that counts are exact, the checks pass, collections are complete and `ObjectGraph` is implemented, proved |
| `MCPointerReversal` | three objects of one or two pointers, one with an extra word |
| `MCRefCounts` | nil, the system dictionary and three (or two) other entries |
| `WordBuffer` | abstract: a buffer of words, one that keeps them all and one that may drop a word when another is put in |
| `InputEvents` | the input words of `system.c`: events, the growing ring, the signals, the image's reader; instantiates `WordBuffer` |
| `InputEventsProofs` | the invariant of the ring, the reader in step, the implementation of `WordBuffer` |
| `MCInputEvents` | a queue of two words at first, at most six words pending |
| `Frame` | what a frame of the main loop polls: events, timer, low space, standard input, and the list of posted signals they share |
| `MCFrame` | one semaphore, two cycles a frame |
| `FrameProofs` | type correctness, and when the process ends over a signal, proved |
| `Arithmetic` | what the SmallInteger primitives compute, as operators |
| `Primitives` | the numbered primitives, but those of control, of POSIX files and without an action, as calls on the evaluation stack |
| `MCPrimitives` | SmallIntegers of 3 bits, one object of each kind |
| `PrimitivesProofs` | that calls balance, stores read back and arithmetic is exact, proved |
| `Snapshot` | saving and loading the image file, word by word |
| `MCSnapshot` | two segments of seven words, four object pointers |
| `Contexts` | lookup and its cache, sends, performs, blocks, returns |
| `ContextsProofs` | that messages find their methods, answers their places and returns the living, proved |
| `MCContexts` | four contexts, two classes, two slots of the cache |

### Scheduler

`links` has the next and myList fields of processes and the first and last fields of
lists (a list is a ready list, one for each priority, or a semaphore);
`activeProcessField` is the activeProcess field of the ProcessorScheduler;
`newProcess` and `newProcessWaiting` are the registers; `activeContext` is the context
that runs and `suspendedContext` that of each process at its last switch;
`semaphoreList` is the array of posted signals. Each primitive is one action: it
includes `asynchronousSignal`, `resume`, `sleep`, `transferTo`,
`removeFirstLinkOfList`, `addLastLink_toList` as operators, in the order of the code.
A bytecode ends in `checkProcessSwitch`, which is part of the action of the next
cycle: it drains `semaphoreList` from its end, and switches. The program in the image
decides which primitive comes next, but not freely: only a suspended process is
resumed (see the finding below) and the background process, of the lowest priority,
never waits. `main.c` posts signals between frames and `memWarn` before a bytecode.

`SchedulingPolicy` says what the Blue Book promises without any list: queues are
sequences of processes, a signal either adds to the excess or releases the first
that waits; who is released runs if its priority is higher than that of the
process that was to run. `Scheduler` implements it under the mapping that reads
each chain of links as a sequence; this is checked by TLC and proved.

### Object memory

`ot` gives each object pointer its segment, location, size and pointer bit, or
`FreeEntry` when its free bit is set. `allocated` are the entries with a count;
`freeChunks` the lists of free chunks by segment and size; `words` what the words
of the heap hold (word i of object o holds `<<o, i>>`, so that a compaction which
loses or doubles a word is seen). `reachable` is the truth that counts and marks
approximate: it is an input of this module. An allocation is spread over several
steps, as the code's loops are: attempt in the current segment, compaction of the
next segment (`abandonFreeChunksInSegment`, then one step for each turn of
`sweepCurrentSegmentFrom`), a collection (one step for each entry of
`rectifyCountsAndDeallocateGarbage`), the second round, and the abort. The free
pointers, and the chunks of one list, are sets: the code takes the first of a
linked list, the model any, so what is shown holds for every order. Loaded images
are the initial states: one object at most per segment, then a chunk.

### Reference counts, marks and the traversal

Two modules share the work, and `Counting` is their contract. `PointerReversal`
is `forAllOtherObjectsAccessibleFrom_suchThat_do` with the two pairs of predicate
and action it is called with (`pred0`/`act0` for a count down, `pred1`/`act1` for a
mark): one step for each turn of its loop, with `prior`, `current` and `offset` as
in the code. Its initial states are all heaps of a size, with the counts that
`countUp` and `countDown` would have left, some of them stuck. It shows that a
count down, or a mark, comes to what `Counting` says (`FreedWith`,
`CountsWithout`, `ReachedFrom`). `RefCounts` takes that as one step and looks at
what is above it: a routine of the interpreter is the sequence `todo` of the calls
it makes (count up, count down, put a pointer, set a register, mark, rectify), in
the order of the code, and each call is a step. `Link` is the index of the one
pointer a routine is about: the sender of a context, the suspended context of a
process, the first link of a list, the active process of the scheduler. Real
objects keep these at different indices; which index it is does not matter to
counts. `inHand` are the new objects that only C variables refer to: their count
is zero, and they are not marked.

`ObjectGraph` is what the program sees: a heap without counts, in which what it
holds, and what can be reached from there, is present. The mapping (`Graph`,
`Registers`) has one subtlety: a count down that comes before the store of the new
pointer (`storePointer` counts up, counts down, and then stores) may free objects
to which the old pointer still leads, so the store is taken to have happened once
its count down is the next call.

### Input events

`queue` is the `Queue_t` with its array; `enqueue`, `dequeue`, `maybeRealloc` and
`step` are the four functions on it. `step` lets an index be `size`, one past the
array: the model gives `slots` that position. What the C code does there is
undefined; with the arrays the code asks for (32 bytes and powers of two beyond)
the allocator of glibc leaves at least one word of room, which `calloc` clears and
nothing else uses, and that is the outcome modelled. It is the kindest one: with
an allocator that leaves no room, a neighbour is overwritten. `HandleEvent` turns
an event into its words and `QueueInputSemaphoreWord` puts in one of them with its
signal; the words of an event are all put in before a bytecode runs (`phase`).
`Wait`, `primitiveInputWord` and `ExpectedAfter` are the image's InputState
process: a wait, a word, and what the word is taken for. A word is reduced to what
the reader's place in the stream depends on: a time difference, the announcement
of an absolute time, its halves, or what a device did. `wordLost` remembers
whether the queue has dropped a word; it is read by no action.

### The frame

`Frame` is `__Run` of `main.c`: `StartFrame` is `System_ProcessEvents`,
`System_CheckScheduledSemaphore` and `Interp_CheckLowMemoryConditions`, which sets
`checkLowMemory`; then come `CyclesPerFrame` cycles, each a step for the switch
(`memWarn`, then the delivery of `semaphoreList`) and a step for the bytecode; then
`ReadStdin`. A bytecode is one of the primitives that set up a device, or anything
else, among it one that changes what memory is left. `semaphoreList` holds what is
posted: a semaphore, 0 where none was ever set, or nil. Delivering either of the
last two ends the process: the store into the fields of such an object fails a
check of `storePointer` (objectmemory.c:1931). `typed` is read by no
action: it remembers what the text that nobody has taken was; nor is
`warned`: whether a signal has come since a check last found enough. `left` is what
there is of words and object pointers, `excess` how much more of them the code believes
there is: a collection frees what is `garbage`, at once, and counts the words that
were free before it again. Who waits for a semaphore is in `Scheduler`, what words
are in `InputEvents`.

### Primitives

Each primitive is a call: operands are pushed, `Does` says how many values it pops,
what it pushes, how many it unpops, whether it succeeded and what memory it leaves.
The stack pointer is moved as the code does it, so that an `unPop` uncovers what is
still in the slot. The caller then takes the answer, or, after a failure, the method
with its operands (`TakeAnswer`). `Arithmetic` has the computations, with C's
truncated division and its two's complement; a shift by more than the width of an
int is undefined in C, and the model takes either of the outcomes compilers make of
it. Objects are of the classes that the code treats differently: bytes, words,
pointers, with and without named fields, and a stream over an array or a string.
Floats are zero or not. Primitives that do more than answer (cursor, display,
snapshot, semaphores) are here for the stack only; those of control are in
`Contexts` and `Scheduler`; those of POSIX files (one of which, primitives.c:1999,
pops its operands and answers nothing) and the numbers without an action are in no
module. A count of words or pointers given to `new:` is an integer here.

### Snapshot

The file is a sequence of 16-bit words. `SaveWrites` is the sequence of the writes
of `saveObjects`, one element for each call of `System_WriteFile`: a place holder
for the lengths, the padding, each object's header and fields, the table. `Write` is
one of them; `WriteFails` writes some of its words and ends the save, without
anything being reported. The lengths follow in two steps, whose failure nobody
looks at. `Ends` may come between any two. `loadSnapshot` is the loader as a
function of the file: the table from the file's end, objects packed into segments
in the order of their pointers, never going back to a segment, then a chunk for the
rest of each. `INTERP_Init` is the restart. What `primitiveSnapshot` does before it
saves (it stores the active context in the active process and the registers in the
context, and collects) is in no module: what objects hold is abstract here.

### Contexts

A context is its home, sender, whether it has an instruction pointer, its stack
pointer, its argument count and its method. What is *on* a stack is left out, so
the class of a receiver is any, and the block evaluated any there is; `answerAt`
remembers the depth at which the answer belongs. `sendSelector` includes the cache
(`findNewMethodInClass`), the message that replaces the arguments if the selector is
not understood (`createActualMessage`), and the activation. `primitivePerform` and
`primitivePerformWithArgs` include what happens when they fail: the send that
follows runs with the registers they left.

A perform that succeeds executes the method within its own primitive. A method whose
primitive fails is then activated twice (`activateTwice`): once inside, in `c`, and
once more when the perform has answered that it failed, too, in `d`, as if `c` had sent
the message. Receiver and arguments of the second are taken off the end of `c`, which
has pushed nothing yet; so `c` is left with a depth below its beginning (`bottom`; in
the code its last temporaries are taken, which is why depths are integers), its answer
goes there, and `d` need not have its own receiver and arguments: it counts as
`misled`. Whether a method has a primitive, and whether that fails, is open. A perform
that performs a perform is left out: the activations would add up.

One thing is the program's: a block is
not evaluated again before it has returned (`BeingEvaluated`). The code does not
look, and no code of the image does it; with it a block's sender would be
overwritten. That performing with arguments checks for room on the stack first, and
value primitives that fail on their counts, are left out: both end in an ordinary
send.

## 3. Runs

| Run | Instance | What it shows |
|---|---|---|
| `scheduler` | 4 processes, 3 priorities, 2 semaphores, 2 posted signals at a time, excess signals up to 2 | all safety properties, the implementation of the policy, and the liveness of posted signals |
| `allocator` | 2 segments of 6 words, 4 object pointers, objects of 2 to 5 words, chunks of 5 words and more are big | all safety properties of the allocator |
| `allocator_huge` | 2 segments of 7 words, 3 object pointers, pointer objects of 4 words have the extra word, collection only when full | that an allocation ends, with an object or the process |
| `chunk_size` | as `allocator_huge`, collection at any time | *violation*: a chunk grows over its neighbour |
| `pointer_reversal` | every heap of 3 objects of one or two pointers; one object has an extra word; counts stick at 3 | the chain of reversed pointers leads back; a count down frees exactly what it should, a mark marks exactly what can be reached, and all pointers are restored |
| `refcounts` | 5 entries, 1 new object in hand, counts stick at 12 | counts are exact between routines, the checks of the code pass, a collection leaves what can be reached and nothing else, and the implementation of `ObjectGraph` |
| `class_count` | 4 entries, any of them the class of a new object | *violation*: a collection within an allocation loses the reference of the new object to its class |
| `input` | queue of 2, 6 words pending, at most 5 signals | a word for each signal, the reader in step, and the implementation of the buffer that may drop a word |
| `primitives` | SmallIntegers -4 to 3, ints of 6 bits, bytes of 2; an object with one named and one indexed field, a string, words, an array, a stream over either | arithmetic and the operations on bits are exact or fail, but for two cases; a store reads back; calls balance |
| `snapshot` | 2 segments of 7 words, 4 object pointers, pages of 6 words, addresses told apart by 5 | an image loads as the last save or not at all; soundly; and is refused only if it nearly fills the segments |
| `contexts` | 4 contexts, a class and its superclass, 3 selectors of one argument, performs with 0 to 2, stacks of 3 | messages find their methods, answers their places, returns the living |
| `frame` | 1 semaphore, 2 cycles a frame, 2 words of events, text up to 3 characters, 4 posted signals, times 0 and 1 | when the process ends over a signal, and that a low space warning comes while the counts say that memory is short |

Why the bounds are enough. Scheduler: four processes are the fewest with which two
wait at one semaphore while a third runs and the background is ready, and a list has a
middle; two signals posted together are the fewest that can be delivered in the wrong
order or make the same process active again; the proofs remove the bounds. Allocator:
six words hold three objects, so that one is moved over the place of another and a gap
is in the middle; with four object pointers the table can be exhausted while words are
left; two segments are the fewest for which "the next segment" and "the first after
the last" are both taken; sizes 2, 3 and 4 have lists of their own and size 5 is on
the list of big chunks, so that a chunk can be of the wrong small size, and a big one
left small by a split. Object pointers and processes of equal priority are
interchangeable, so symmetry is used for object pointers in the safety runs only.
`MaxFreeWords` bounds the counter `freeWords`, which grows at each collection; it
saturates, which keeps `CoreLeftNotUnderstated` meaningful as the bound is above all
words there are. Traversal: three objects have chains of three, cycles of any length,
two pointers from one object to the same other, and objects that are met while they
are on the chain; an object with and one without an extra word on each side of a
pointer. Counts: with five entries an image (nil, the dictionary, a process, a
context) has room for one object more, which can be a second context, a second
process, or what is stored; the memory is full when the next one is asked for. Class
references are to nil only in `refcounts` (`MCClasses`): the count of nil sticks, as
it does in the code, so that the fault of `class_count` does not hide everything else.
With one object in hand at a time (`MaxInHand`) a collection within an allocation
finds no other: `createActualMessage` (interpreter.c:456) breaks this, see below.
Input: from two words the queue grows twice before it holds six, with its head at
every position; an event has at most six words, so that one event can fill the queue,
make it grow and be cut in two by a lost word; five signals are fewer than six words,
so the count saturates. Primitives: three bits have every combination of signs, the
smallest integer whose negative is none, and products, quotients and shifts beyond
both ends; six bits of an int hold every product of two of them, as 32 do of two of
15; no operand of three bits is as large as an int is wide, so that such a shift does
not occur. Of the memory one object has changed at a time besides the stream, or an
operand is misplaced on the stack (`FewChanges`): primitives look at one object and
the top of the stack. Snapshot: 4 pointers hold nil and three objects or chunks, so
that a table is full, has a gap, or ends early; an address beyond 4 sets a segment
bit; 4-word pointer objects have the extra word in memory and not in the file.
Contexts: four are a method, the method it calls, a block, and one that returns
through them. With a third context only blocks, returns and one method that is
activated twice vary, on stacks of one object besides the operands of a send
(`FewThings`): with two contexts, all dictionaries, cache contents and failing
performs. Frame: two cycles are the fewest with one that is not the last; `OneVaries`
lets one device at a time go beyond its simplest case, a restriction of what the image
asks for and the host sends, never of a step of the loop (`excess` stops at `MaxLeft`,
beyond which memory never looks short); four posted signals with two words leave one
more than the events can fill, so that the limit is reached. With the clock at 0 and
at 1 a time is to come, is now, and has passed; the clock is not followed until it
wraps (`MaxTicks`).

Fairness. The interpreter is one thread in an endless loop: `Scheduler` assumes
weak fairness of the cycle (a bytecode is always executed in the end), nothing of
the events or of which primitive the image calls. `ObjectMemory` assumes, for
termination, weak fairness of the steps of an allocation under way: they are the
body of one C call. `Frame` assumes weak fairness of the loop (`Loop`), which is the
process running: nothing of which bytecode comes, nor that the clock ticks or text
arrives.

Deadlock is checked in `scheduler` and `input`. It is not in `frame`, `primitives` and
`snapshot`, where the process may end (a quit, a signal to nil, a division by zero, an
image that is lost), nor in `contexts`, where the four contexts are used up and none
is collected, nor in the runs of `ObjectMemory` and `RefCounts`: `outOfMemory`
(`abort`) is the abort of the process, and there the system really stops. Nor is it in
`pointer_reversal`: each reference that a register holds is counted down once, and
when none is left there is nothing more to call.

## 4. Proofs

`SchedulerProofs` proves, for any finite or infinite sets of processes, semaphores and
priorities that satisfy the assumptions of `Scheduler`, that an inductive invariant
holds and from it type correctness, the five other invariants the run `scheduler`
checks, and that a process goes on where it stopped. The invariant is needed because a
chain of links is not by itself a property of one state variable: a removal is right
only if no other process points to the one removed, which follows only if every chain
ends, which follows only if nothing in a list points outside it. It says, for each
list, that there is a sequence without repetitions that the links thread, that the
sequences of two lists share nothing, that the process to run (`newProcess` if one is
waiting, else the one running) is in none of them, that every process with a link is
in one, that no ready process has a higher priority than the process to run, and that
the background process is ready or runs. `SchedulerImplementsPolicy` maps each action
to an action of `SchedulingPolicy` or to stuttering.

`ObjectMemoryProofs` proves type correctness and five properties of the run
`allocator` for any finite object table, any number and size of segments and any
chunk sizes, under one hypothesis, `NoHugePointers`: no request is for a pointer
object that has an extra word. Without it the theorems are false, not only
unproved, disjointness among them: a freed object with an extra word, collected
while it waits on a chunk list, becomes a chunk one word too large (run
`chunk_size`). So they say nothing of an image that allocates such objects, which the
code does (objectmemory.c:2098-2101). Such an
object has 254 pointer fields or more (`HugeSize`, objectmemory.c:186). The inductive
invariant `IInv` has one part per hazard: `Layout` and `Fits` (entries in use are
apart and inside their segment), `Accounted` (each is an object, in one list, or
pending), `Covered` (each word is in an entry or has been swept over),
`ContentsIntact`, `Phases` (what `pc` says of `pending` and `request`), and
`SweepRight`, which is the invariant of the compaction loop: the objects already
moved end at or below `di`, the others and the abandoned chunks begin at or above
`si`, all of them apart, and at least a header's worth of words has been or will
be skipped. The last conjunct is why the chunk made at the end of a sweep has room
for its header. Each action has a lemma, with a step per part
it can disturb.

Two more of the allocator's properties need invariants of their own, which lean on
`IInv`. `CoreRight` says that `freeWords` is at least the number of cells (a word of a
segment) that no object and no entry still to be deallocated holds: an allocation
takes exactly its cells from those left (`Taken`), a deallocation gives back at most
its own (`Returned`), and a collection, which counts the chunks that were free again,
errs on the side of more. `CoreNotUnderstated` follows, if the model's counter can
count all words there are (`EnoughCounted`: the bound is the model's, not the code's).
`FullInv` follows an allocation through its loops. `Exhausted` says of the segments
compacted since it (re)started, counted back from the current one (`Tried`, `Back`),
that each has too little; and of the current one, before it is tried, that what is
left there is one chunk on the list of its size (`Packed`), or a single word. That is
what a sweep leaves (`RoomSwept`: all that objects do not hold lies from `di` to the
end), and a segment in which there was nothing to sweep (`NoChunksPacked`). A segment
so packed that fails has too little (`NoChunkTooLittle`), unless a free pointer was
missing (`starved`). With as many segments compacted as there are, all have been
tried (`BackIsNatural`), so `OutOfMemoryOnlyWhenFull` holds.

`InputEventsProofs` proves that the queue stays a ring, and the three properties of
the run `input`, for every initial
size, every bound on the pending words and every range of the signal count. The
lemmas on the ring come first, one for each function of the code: `PutAppends`,
`GrownKeepsMost` (which word is lost, and when), `EnqueueAppends`,
`DequeueTakesFirst`; they speak of the sequence of words from the head on, and
rest on `StepFromHead` and `NextHead`, the arithmetic of positions. The invariant
adds one thing to the properties: `Reads`, that the pending words end where an
event ends. Without it the next event would be appended to half a time.

`RefCountsProofs` proves all four properties of the run `refcounts`, for any finite
number of objects with any number of pointers and any number at which counts stick.
The first theorems have one hypothesis, `CollectsSafely`: when a collection happens
within an allocation, no new object is in a C variable only, and the class of the
object to come keeps enough references to stick, or is nil. It cannot be dropped: the
code breaks the first part in `createActualMessage` (interpreter.c:456) and the second
in `allocate` (run `class_count`), and then the counts are wrong. `ConfinedCountsHold`
discharges it: with at most one new object in hand at a time and nil for a class,
which is how the run is set, every collection is safe and everything holds of `Spec`.

The difficulty is that nothing is right in the middle of a routine. A routine is a
sequence of calls `todo`, and between two of them counts are off by what the calls
left will do. `Counted` states it: the count of an object (unless it sticks) with what
is about to be overwritten (`Displaced`) is the number of references in memory and in
the registers as they will be when the routine ends (`fa`, `fn`), and what the calls
left take from or add to its count (`Owed`). With `Sound` (each call has the calls
after it that it needs) and `Attended` (an object without a count is new or about to
be counted) that gives the checks of every count down. `Stage` names the routine and
how far it has come, one operator for each, so that a count up, a count down and a
store need be proved once (`CountUpCounts`, `CountDownCounts`, `PutCounts`), whatever
the routine. A count down that comes to zero frees a set of objects, the least that only
the object and its like refer to: `FreesSafely` states what that leaves right. That
needs what the program can still reach to be apart from it, which counts alone do not
say (a cycle counts itself), so for each stage the objects the routine is going to use
are shown to be reached from objects with a count of another kind (`SureOf`).
`Collecting` is the invariant of the collector: `Marks` says what is marked after each
root, closed under pointers; `Rectifying` that the count of what is kept is the number
of references from what has been passed, with its mark if it has not itself been
passed. For the abstraction, `GraphAt` is the memory as the program sees it before the
calls left are made; a step of a routine leaves it alone, but for the one that ends
it, and a free or a collection takes away only what cannot be reached. `ReachedStay`
shows of `ObjectGraph` that what can be reached is present, through the least closed
set around the roots, and so `ReachedNeverFreed` of the code: no routine frees what
the interpreter can come to.

`PointerReversalProofs` proves the three properties of the run `pointer_reversal` for
heaps of any finite number of objects, with any number of pointers, any number at
which counts stick, and any set of objects with an extra word: the counts (or marks)
a traversal begins with are the only hypothesis, and it leaves them right for the
next. No induction over the path is needed: the path is an auxiliary variable, and
`Trail` says of each place on it what it held before and holds now. `HeapKept` says
that all other pointers are as they were. The lemmas `PassTrail`, `FollowTrail` and
`BackTrail` show it for the three kinds of turn, and that a turn passes one place
more (`Passed`), whatever the traversal is for; all they ask is that the object
followed has not been entered. That is what differs. In marking, an entered object
has a count other than 0, the saved offset or the mark (`Marking`). In a count down
it is arithmetic (`CountingDown`, `NextIsCounted`): a count has gone down by exactly
the references passed, an object is entered when that comes to all of its count, so
one more reference to it would be one more than there are. The end is a statement
about least sets: the objects entered are among those freed since each was counted
down by others freed (`FreedHas`), and nothing else is, since the set entered is
complete (`EnteredAreFreed`).

`FrameProofs` proves the invariant `EndsOnlyBySignal` of the run `frame`, and type
correctness, for any semaphores, texts and limits, any number of cycles and of events
in a frame and any size of the list of signals. The inductive invariant adds that a
cycle is left in the phases of a cycle, that no text has come which no frame has
polled, and `Posted`: for each phase, how many signals the list can hold and whose
fault it is if one of them is no semaphore. The bound of `EndsOnlyBySignal`, that
three others than those of events are posted between two deliveries, is the proof's
hardest part. It rests on `OutstandingHasPassed`, which the inverted comparison of the
timer makes true: a request that is outstanding when a frame starts cannot be due, or
a frame might post a fourth.

`ContextsProofs` proves the properties of the run `contexts` for any contexts, class
hierarchy, selectors with any number of arguments, hash, and changes of methods.
`ContextsAssumption` asks that the superclasses of a class are a chain (of any
nonempty set of them one is nearest) and that `doesNotUnderstand:` is found in each:
where it is not, `lookupMethodInClass` (interpreter.c:441) reports an error and the
process ends. A lookup is stated without recursion, as the nearest of the superclasses
that have the selector. The inductive invariant has two halves that only sends join.
`LookupRight` is about the cache: an entry is for the selector its method has, and it
is what a lookup answers unless methods have changed since the last flush.
`ContextsRight` is about contexts: homes are used contexts that are their own homes
(`HomesRight`); a context is called neither by itself nor by a block of its own
(`SendersRight`: or a return would go to the context that is left); the nil
instruction pointer tells exactly who has returned (`FinishedRight`); a block that
runs, or has called something, was itself called (`StartedRight`); and what waits for
an answer has the stack depth it needs for it (`WaitingRight`). `CallsRight` shows it
for a call of a context that was not used before, and so for one activation
(`ActivateRight`) and, called twice, for the two of a perform (`ActivateTwiceRight`),
where the depth at which the first waits is that below its beginning; `EvaluateRight`,
`BlockCopyRight` and `ReturnRight` show it for the other ways in which contexts
change, and a lemma for each kind of send that the depths and counts given to
`activateNewMethod` are those it needs (`DepthsMatch`, `CountsMatch`). What is not
proved is what the second activation of a performed method is given: it need not be
its own, and `MessagesFindMethods` leaves it out.

`PrimitivesProofs` proves three of the four properties of the run `primitives` for any
SmallIntegers, bytes, words, memories and stacks: that calls balance, that a store
reads back, and that arithmetic is exact. Of the initial memories it asks that an
object has a class and a sequence of fields (`MemoriesAssumption`), of the operands
that they are SmallIntegers, of an int that it holds their products. For
`CallsBalance` one lemma (`EffectsBalance`) says what a call leaves on the stack for
each of the four ways in which pops, pushes and unpops can go together, and a lemma
for each primitive that its effects are of one of them. What a primitive may do
depends on nothing but the operands, so the invariant only adds that stack and
operands are sequences. `ReadsBack` follows a value through the conversion to a byte
or a word and back. Division is where the arithmetic is hard: `TruncatedDivision`
states C's `/` and `%` for both signs, `NoSecondQuotient`, `OneFloorOfAnySign` and
`OneTowardsZero` that the exact quotient is unique, and `DivideExact`, `DivExact`,
`ModExact` and `QuoExact` that each primitive answers that one; `DivExact` needs the
hypothesis that the quotient is not between -1 and 0, where the code is wrong.
`BitsExact` stays with TLC: two's complement is put together by a sum over the bits.

Liveness (`PostedSignalReleases`, `AllocationEnds`, `WarningComes`) is model-checked
only: it depends on fairness, which the prover does not treat.

## 5. Findings

Two runs refute what the code says of itself:

1. `chunk_size`. `deallocate` stores the occupied space, size + 1 for a huge
   pointer object, as the size of the chunk, and leaves the pointer bit set. The
   next collection deallocates free chunks again, so the chunk grows by one word
   each time, over its neighbour, until it is used or its segment compacted.
2. `class_count`. `allocate` counts the class up and then asks for a chunk; if that
   collects, all counts are made anew from the pointers in memory, where the new
   object is not yet. Its class is left with one reference too few. When its other
   references go it is freed while its instance is alive, and the checks of `pred0`
   and `countDown` fail. Real classes have several references, and many stick, so
   the image is seldom harmed. In the run any root can be a class; the trace uses
   the dictionary as one.

Four faults are steps of the models, as they are of the code, and no property of a
passing run says that they are right:

* `primitivePerform` and `primitivePerformWithArgs` execute the performed method by
  `executeNewMethod` (primitives.c:306, 341). If it has a primitive that fails,
  `executeNewMethod` activates it; the flag that says so is still false when
  `primitiveResponse` of the perform reads it (2770), so the `executeNewMethod`
  outside activates the method again (interpreter.c:927), with a receiver and
  arguments from the stack of the first. The image says of `perform:` that it sends
  one message (images/Smalltalk-80.sources:26656). It is `activateTwice` in `Contexts`;
* the timer's comparison is the wrong way round (system.c:1042, against the comments
  at 1147 and primitives.c:836): a request is signalled at once while its time is
  still to come, and one whose time has passed stays outstanding for ever. It is
  `due` in `Frame`;
* standard input that nobody has read loses its last character, and is signalled
  again, each frame, where the comment (system.c:299) says that a newline is removed.
  It is `ReadStdin`;
* a collection adds the words of chunks that were free already to `freeWords` once
  more (objectmemory.c:1374), although `freeWords` is meant to be the words remaining
  (155). `memWarn` collects when memory is low, checks again, finds enough, and does
  not signal; nor at the next frame, while memory is short. It is `excess` in `Frame`,
  and `freeWords` itself in `ObjectMemory`.

Other deviations are stated by the properties that pass, each of which says exactly
how far the code goes:

* a queued process that is resumed is linked a second time: `primitiveResume`
  (primitives.c:598) does not look, though images/Smalltalk-80.sources:31365 says
  "Fail if the receiver is already waiting in a queue". In `Scheduler` the image
  resumes only suspended processes; `ListsWellFormed` needs it;
* of `coreLeft`, `CoreLeftNotUnderstated` says that it is never too small, which is
  the side the low space warning does not need (the other is the fourth fault above);
* the ring of input words may drop one word when it grows (system.c:732, against
  sources:21307), and only then: `ImplementsLossy`, and `GrownKeepsMost` proves
  which one;
* `//` is off by one where the exact quotient lies between -1 and 0 (`-1 // 2`
  answers 0), and a shift loses the bits it moves beyond a C int before they are
  checked (`RoundedWrong`, `ShiftedOut`). `/` by zero divides before it fails, and
  ends the process (`Traps`);
* a primitive that fails should leave everything as it was for its method to run
  (sources:27105). `someInstance`, `nextInstance` and showing on standard output do
  not put back what they took (`DropsOperand`); three that answer strings leave the
  receiver under the answer (`LeavesReceiver`); a word store of a value out of range
  stores 0 and then fails (`StoresAndFails`);
* an index is checked against all fields of an object, and its named fields are then
  added: beyond, the check of the object memory ends the process (`Inside`);
* a signal of what is no semaphore ends the process: text that comes before the
  image has set the standard input semaphore, or anything after a device's semaphore
  was set to nil; so does a frame with more events than the list of posted signals
  holds (`EndsOnlyBySignal`);
* a second read of standard input answers the same line; text beyond the 500
  characters of the buffer overruns it: the model stops there (`BufferSize`);
* the low space warning is not repeated while memory stays short, also if the limits
  are changed or another semaphore is set in between (`memWarn`). `WarningComes` speaks
  of what the counts say after a collection, which may be too much;
* a save that fails answers as a good one does, and the image file is lost with it
  (`LoadsSavedOrNothing` says "or nothing"); an image saved from a memory that is
  nearly full may be refused, since the loader packs in another order
  (`RefusedOnlyIfFull`); with a full object table, nil is put on a chunk list and its
  class overwritten (`AddChunk`);
* a perform that fails runs the method it has looked up with the wrong number of
  arguments, and with a list of arguments moves the stack of its caller
  (`misled`, `spoiled`); a return past contexts leaves them as though they had not
  returned, so that the nil sender that stops a later return is set in the active
  context alone (`ReturnsToTheLiving`).

Seen while reading, and not in a run: `createActualMessage` (interpreter.c:456)
allocates an array and then a message; the array is in a C variable only, with a
count of zero and no mark, so a collection within the second allocation frees it.

A behaviour that is right by the code but worth knowing: `OutOfMemoryOnlyIfFull`
had to allow the case in which a segment had the words but the object table no
free entry for the second part of a split. The code then goes on to other
segments; compacting those may release entries, but it does not come back, and
may abort while the words and an entry are there. The second is a matter of sizes
(`TooLittle`). A request smaller than `BigSize` looks at the list of its own size and
then at the list of big chunks (objectmemory.c:2250-2259); a chunk of another small
size is not looked at, even if it is larger. Compacting makes one chunk of what is
left, so a segment with fewer than `BigSize` words left serves no small request but
that of exactly this size, and the process may abort although every segment has more
words together than were asked for.

## 6. Not modelled, and the plan

Of the program's own code, in this order:

1. Routines that hold two new objects (`createActualMessage`, and the primitives
   that make an array of results) in `RefCounts`, and posted semaphores, which
   nothing counts; the composition with `ObjectMemory` through `reachable`. Memory
   that runs out within a frame belongs here too.
2. Proofs: that an image is loaded as it was saved (the properties of `Snapshot`),
   which are checked on small segments and pages only.
3. `BitBlt` and the scanning of characters (`bitblt.c`): clipping, the direction of
   an overlapping copy, the masks, against a definition pixel by pixel.
4. Enumeration of instances; the bytecodes' operands and jumps.

Out of reach or of no interest: the values of 32-bit floating point; pixels and SDL;
the primitives for POSIX files and directories, which are wrappers of system calls;
options; the image itself, which appears as the environment; the libraries in
`libs/`, which are not built; and `docs/`, which holds other implementations of
Smalltalk for reference and most of the repository's lines.
