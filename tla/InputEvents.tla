------------------------------ MODULE InputEvents ------------------------------
(***************************************************************************)
(* From a device to the image (system.c, main.c): an event is turned into  *)
(* words, each word is put into a queue that grows when it is full and is  *)
(* announced by a signal of the input semaphore, and a process of the      *)
(* image (InputState run) waits for a signal, takes a word and decodes it. *)
(*                                                                         *)
(* One thread alternates between handling the events of a frame and        *)
(* executing bytecodes (phase).  What the image does to a signal between   *)
(* posting and waiting is the subject of Scheduler; here signals is the    *)
(* number of signals posted or counted and not yet taken.                  *)
(*                                                                         *)
(* A word is its kind: a time difference, the announcement of an absolute  *)
(* time and its two halves, or what a device did.                          *)
(***************************************************************************)
EXTENDS Naturals, Sequences

CONSTANTS
  QSizeInitial,
  MaxWords,          \* no more words than this are pending
  MaxSmallInteger

ASSUME InputAssumption ==
  /\ QSizeInitial \in Nat \ {0}
  /\ MaxWords \in Nat
  /\ MaxSmallInteger \in Nat

Word == {"delta", "reset", "high", "low", "device"}

(* The word 0 reads as a time difference of 0.                             *)
Cleared == "delta"

VARIABLES
  queue,             \* slots, size, used, tail, head
  firstEvent,        \* __eventCount = 0
  inputSemaphore,    \* has the image installed one?
  toQueue,           \* words of the event being handled, not queued yet
  signals,
  reader,            \* waiting for a signal, or about to take a word
  expects,           \* what the reader takes the next word for
  wordLost,          \* auxiliary: has the queue dropped a word?
  phase

vars == <<queue, firstEvent, inputSemaphore, toQueue, signals, reader, expects,
          wordLost, phase>>

-----------------------------------------------------------------------------
(***************************************************************************)
(* The queue.  A position steps from size to 0: there is one position more *)
(* than the array has elements.  The last one lies in what the C library's *)
(* allocator rounds the array up by, and keeps its value there.            *)
(***************************************************************************)
step(q, v) == IF v < q.size THEN v + 1 ELSE 0

emptyQueue ==
  [slots |-> [i \in 0 .. QSizeInitial |-> Cleared], size |-> QSizeInitial,
   used |-> 0, tail |-> 0, head |-> 0]

(* A full queue is copied from head on, elements size and above excepted.  *)
copyFromStart(q, i) == q.slots[i]
copyFromHead(q, i) ==
  IF i < q.size - q.head THEN q.slots[q.head + i] ELSE q.slots[i + q.head - q.size]

grownKeepingHead(q) ==
  [slots |-> [i \in 0 .. 2 * q.size |-> IF i < q.size THEN copyFromHead(q, i) ELSE Cleared],
   size |-> 2 * q.size, used |-> q.used, tail |-> q.used, head |-> q.head]

grown(q) ==
  [slots |-> [i \in 0 .. 2 * q.size |-> IF i < q.size THEN copyFromHead(q, i) ELSE Cleared],
   size |-> 2 * q.size, used |-> q.used, tail |-> q.used, head |-> 0]

maybeRealloc(q) == IF q.used = q.size THEN grown(q) ELSE q

Put(q, w) ==
  [q EXCEPT !.slots[q.tail] = w, !.used = @ + 1, !.tail = step(q, q.tail)]

enqueue(q, w) == Put(maybeRealloc(q), w)

dequeue(q) ==
  [q EXCEPT !.slots[q.head] = Cleared, !.used = @ - 1, !.head = step(q, q.head)]

(* The position k steps after head, for k up to size; the words in the     *)
(* queue, from head on.                                                    *)
fromHead(q, k) == IF q.head + k <= q.size THEN q.head + k ELSE q.head + k - q.size - 1
Contents(q) == [i \in 1 .. q.used |-> q.slots[fromHead(q, i - 1)]]

-----------------------------------------------------------------------------
(* One more signal, unless the count would leave the SmallInteger range.   *)
signalTwice == IF signals + 1 < MaxSmallInteger THEN signals + 2 ELSE MaxSmallInteger
signalOnce == IF signals < MaxSmallInteger THEN signals + 1 ELSE signals

(***************************************************************************)
(* The words of an event: a time, then one word for a button or key, two   *)
(* for a character typed (down and up), and for the mouse a coordinate, a  *)
(* time and the other one.  A time that does not fit 12 bits, late, is     *)
(* sent as an absolute one; the first event counts from itself.  A text of *)
(* several characters is several events.                                   *)
(***************************************************************************)
absoluteTimeLowFirst == <<"reset", "low", "high">>
absoluteTime == <<"reset", "high", "low">>
TimeWords(late) == IF late /\ ~firstEvent THEN absoluteTime ELSE <<"delta">>

EventWords(late) ==
  {TimeWords(late) \o device :
     device \in {<<"device">>, <<"device", "device">>, <<"device", "delta", "device">>}}

(* System_ProcessEvents: the handler of an event begins.                   *)
HandleEvent ==
  /\ phase = "events"
  /\ toQueue = <<>>
  /\ inputSemaphore
  /\ \E late \in BOOLEAN : \E w \in EventWords(late) :
       /\ queue.used + Len(w) <= MaxWords
       /\ toQueue' = w
  /\ firstEvent' = FALSE
  /\ UNCHANGED <<queue, inputSemaphore, signals, reader, expects, wordLost, phase>>

(* __QueueInputSemaphoreWord, for the next word of the event.              *)
QueueInputSemaphoreWord ==
  /\ toQueue # <<>>
  /\ queue' = enqueue(queue, Head(toQueue))
  /\ signals' = signalOnce
  /\ toQueue' = Tail(toQueue)
  /\ wordLost' = (wordLost \/ (queue.used = queue.size /\ queue.head > 0))
  /\ UNCHANGED <<firstEvent, inputSemaphore, reader, expects, phase>>

(* The main loop: events handled, bytecodes executed, and so on.           *)
NextPhase ==
  /\ toQueue = <<>>
  /\ phase' = IF phase = "events" THEN "cycles" ELSE "events"
  /\ UNCHANGED <<queue, firstEvent, inputSemaphore, toQueue, signals, reader, expects,
                 wordLost>>

-----------------------------------------------------------------------------
(* The image installs its semaphore.                                       *)
primitiveInputSemaphore ==
  /\ phase = "cycles"
  /\ inputSemaphore' = TRUE
  /\ UNCHANGED <<queue, firstEvent, toQueue, signals, reader, expects, wordLost, phase>>

(* InputSemaphore wait, in the image's process.                            *)
Wait ==
  /\ phase = "cycles"
  /\ reader = "waiting"
  /\ signals > 0
  /\ signals' = signals - 1
  /\ reader' = "reading"
  /\ UNCHANGED <<queue, firstEvent, inputSemaphore, toQueue, expects, wordLost, phase>>

(***************************************************************************)
(* primitiveInputWord, and what the process makes of the word: one of type *)
(* 5 announces a high and a low word.  A half of a time that is taken for  *)
(* an event may have any type.                                             *)
(***************************************************************************)
ExpectedAfter(w) ==
  CASE expects = "high" -> {"low"}
    [] expects = "low" -> {"event"}
    [] expects = "event" /\ w = "reset" -> {"high"}
    [] expects = "event" /\ w \in {"high", "low"} -> {"event", "high"}
    [] OTHER -> {"event"}

primitiveInputWord ==
  /\ phase = "cycles"
  /\ reader = "reading"
  /\ queue.used > 0
  /\ queue' = dequeue(queue)
  /\ expects' \in ExpectedAfter(queue.slots[queue.head])
  /\ reader' = "waiting"
  /\ UNCHANGED <<firstEvent, inputSemaphore, toQueue, signals, wordLost, phase>>

Init ==
  /\ queue = emptyQueue
  /\ firstEvent = TRUE
  /\ inputSemaphore = FALSE
  /\ toQueue = <<>>
  /\ signals = 0
  /\ reader = "waiting"
  /\ expects = "event"
  /\ wordLost = FALSE
  /\ phase = "events"

Next ==
  \/ HandleEvent
  \/ QueueInputSemaphoreWord
  \/ NextPhase
  \/ primitiveInputSemaphore
  \/ Wait
  \/ primitiveInputWord

Spec == Init /\ [][Next]_vars

-----------------------------------------------------------------------------
Positions(q) == 0 .. q.size

(***************************************************************************)
(* A queue is a ring: tail is used steps after head, around size + 1       *)
(* positions, and the positions that hold no word are cleared, so that     *)
(* what a dropped word leaves behind reads as 0 and never as an older word *)
(* (___q_maybe_realloc, ___q_dequeue).                                     *)
(***************************************************************************)
Ring(q) ==
  /\ q \in [slots : [Positions(q) -> Word], size : Nat \ {0}, used : 0 .. q.size,
            tail : Positions(q), head : Positions(q)]
  /\ q.tail = fromHead(q, q.used)
  /\ \A k \in q.used .. q.size : q.slots[fromHead(q, k)] = Cleared

TypeOK ==
  /\ Ring(queue)
  /\ firstEvent \in BOOLEAN
  /\ inputSemaphore \in BOOLEAN
  /\ toQueue \in Seq(Word)
  /\ signals \in 0 .. MaxSmallInteger
  /\ reader \in {"waiting", "reading"}
  /\ expects \in {"event", "high", "low"}
  /\ wordLost \in BOOLEAN
  /\ phase \in {"events", "cycles"}

(***************************************************************************)
(* A signal is never without its word: as many words are in the queue as   *)
(* signals are posted, the one the reader has taken included.  The image   *)
(* reads a word per signal and primitiveInputWord fails on an empty queue, *)
(* over growing, saturation of the count and lost words.                   *)
(***************************************************************************)
WordForEverySignal ==
  signals + (IF reader = "reading" THEN 1 ELSE 0) <= queue.used

(* What a word is meant as, what is meant to come after it, and what the   *)
(* reader takes the word at place i of the pending ones for.               *)
meant(w) == IF w \in {"high", "low"} THEN w ELSE "event"
follows(w) == CASE w = "reset" -> "high" [] w = "high" -> "low" [] OTHER -> "event"
taken(s, i) == IF i = 1 THEN expects ELSE follows(s[i - 1])
pending == Contents(queue) \o toQueue

(***************************************************************************)
(* As long as the queue has dropped no word, the reader takes every word   *)
(* for what the device code meant: the two words after a type 5 are the    *)
(* high and the low half of the time, and no half is taken for an event    *)
(* (__QueueInputSemaphoreTimeWord against InputState in the image).        *)
(***************************************************************************)
ReaderInStep ==
  ~wordLost => \A i \in 1 .. Len(pending) : taken(pending, i) = meant(pending[i])

(***************************************************************************)
(* What the queue does to its words (___q_enqueue, ___q_dequeue): they are *)
(* taken out in the order they were put in, except that one word may be    *)
(* dropped, and a cleared one added, in a step in which the queue grows.   *)
(***************************************************************************)
Buffer == INSTANCE WordBuffer WITH buffer <- Contents(queue)
ImplementsLossy == Buffer!LossySpec
=============================================================================
