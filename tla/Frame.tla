--------------------------------- MODULE Frame ---------------------------------
(***************************************************************************)
(* The main loop (main.c) and the hosts it polls once a frame: the window  *)
(* for events, the millisecond timer, the low space watch, and standard    *)
(* input.  Each tells the image by posting a signal to the semaphore that  *)
(* the image has given it; INTERP_Cycle delivers what is posted before it  *)
(* executes a bytecode.  phase is the next thing the loop does:            *)
(*    events   System_ProcessEvents and System_CheckScheduledSemaphore     *)
(*    cycles   cyclesLeft times INTERP_Cycle                               *)
(*    stdin    System_ReadStdin                                            *)
(* Who waits for a semaphore is Scheduler.tla, what the words of events    *)
(* are InputEvents.tla, what a collection does ObjectMemory.tla.           *)
(***************************************************************************)
EXTENDS SequencesExt, Integers

CONSTANTS
  Semaphore,
  NoSemaphore,       \* 0, before the image has set one
  NilPointer,
  Resource,          \* what memory can be short of: words, object pointers
  Recounted,         \* those a collection counts again: the words
  MaxLeft,           \* of each
  Wrap,              \* times are counted modulo this: 2^32
  MaxTicks,          \* the clock is observed up to here, before it wraps
  Texts,             \* what may come from standard input at once
  BufferSize,        \* bound on the text held (500)
  EventWords,        \* bound on the words queued by the events of a frame
  CyclesPerFrame,    \* 5000, or an option
  ListSize           \* of the list of posted signals: 4096

Pointer == Semaphore \union {NoSemaphore, NilPointer}

ASSUME FrameAssumption ==
  /\ NoSemaphore \notin Semaphore
  /\ NilPointer \notin Semaphore \union {NoSemaphore}
  /\ Recounted \subseteq Resource
  /\ {MaxLeft, BufferSize, EventWords, ListSize} \subseteq Nat
  /\ {CyclesPerFrame, Wrap} \subseteq Nat \ {0}
  /\ MaxTicks \in 0 .. Wrap - 1
  /\ Texts \subseteq Seq(UNION {ToSet(t) : t \in Texts})

VARIABLES
  ended,             \* "error" once the process has ended with one, or "no"
  phase,
  cyclesLeft,
  semaphoreList,     \* R_sch.semaphoreList, posted and not yet delivered
  inputSemaphore,
  eventWords,        \* queued by this frame's events, signals not delivered
  ticks, scheduledSemaphore, scheduledTime,
  watch,             \* R_mem.lowSpaceSemaphore and the limits
  left, garbage,     \* of each resource: what is left, what collecting frees
  excess,            \* how much more freeWords and freeOops say is left
  checkLowMemory, memoryIsLow,
  warned,            \* auxiliary: since a check last found enough
  stdinSemaphore,
  line,              \* buffer, up to its terminating 0
  buffer_index,
  typed              \* auxiliary: the text that came since the last answer

loop == <<ended, phase, cyclesLeft>>
input == <<inputSemaphore, eventWords>>
timer == <<ticks, scheduledSemaphore, scheduledTime>>
memory == <<watch, left, garbage, excess, checkLowMemory, memoryIsLow, warned>>
stdin == <<stdinSemaphore, line, buffer_index, typed>>
vars == <<loop, semaphoreList, input, timer, memory, stdin>>

-----------------------------------------------------------------------------
(* The list of posted signals; one too many ends the process.              *)
Posting(signals) ==
  /\ semaphoreList' = semaphoreList \o signals
  /\ ended' = IF Len(semaphoreList) + Len(signals) > ListSize THEN "error"
              ELSE ended

Times(n, s) == [i \in 1 .. n |-> s]

(* The timer: a request is signalled while its time is still to come.      *)
due(s, t) == s # NoSemaphore /\ ticks <= t

(***************************************************************************)
(* The start of a frame: the window's events queue words, each with a      *)
(* signal, if there is an input semaphore; or close the window.            *)
(***************************************************************************)
StartFrame ==
  /\ phase = "events"
  /\ \E words \in 0 .. EventWords : \E close \in BOOLEAN :
       /\ eventWords' = IF inputSemaphore = NoSemaphore THEN 0 ELSE words
       /\ LET signals == Times(eventWords', inputSemaphore)
                           \o Times(IF due(scheduledSemaphore, scheduledTime)
                                    THEN 1 ELSE 0, scheduledSemaphore)
          IN  Posting(signals)
       /\ phase' = IF close THEN "quitting" ELSE "cycles"
  /\ scheduledSemaphore' = IF due(scheduledSemaphore, scheduledTime)
                           THEN NoSemaphore ELSE scheduledSemaphore
  /\ checkLowMemory' = TRUE
  /\ cyclesLeft' = CyclesPerFrame
  /\ UNCHANGED <<inputSemaphore, ticks, scheduledTime, watch, left, garbage,
                 excess, memoryIsLow, warned, stdin>>

-----------------------------------------------------------------------------
(* The low space watch.                                                    *)
Watching(w) ==
  /\ w.semaphore # NilPointer
  /\ \A r \in Resource : w.limit[r] > 0
IsInLowMemoryCondition(w, amount) == \E r \in Resource : amount[r] < w.limit[r]

Sum(f, g) == [r \in Resource |-> f[r] + g[r]]

(* A collection deallocates the chunks that are free already once more,    *)
(* and counts their words again; from MaxLeft on no more excess is told.   *)
Collected == Sum(left, garbage)
excessCollected ==
  [r \in Resource |-> IF r \notin Recounted THEN excess[r]
                      ELSE IF excess[r] + left[r] < MaxLeft THEN excess[r] + left[r]
                      ELSE MaxLeft]

IsLow == Watching(watch) /\ IsInLowMemoryCondition(watch, Sum(left, excess))
StaysLow == IsInLowMemoryCondition(watch, Sum(Collected, excessCollected))

(* memWarn: a check that finds memory low collects, and signals if it      *)
(* still is, and was not the last time.                                    *)
Warning == IF checkLowMemory /\ IsLow /\ StaysLow /\ ~memoryIsLow
           THEN <<watch.semaphore>> ELSE <<>>

(* A mutant: memory that was low once stays low.                           *)
LowOnce == memoryIsLow \/ (checkLowMemory /\ IsLow /\ StaysLow)
LowNow == IF checkLowMemory THEN IsLow /\ StaysLow ELSE memoryIsLow

memWarn ==
  /\ IF checkLowMemory /\ IsLow
     THEN left' = Collected /\ garbage' = [r \in Resource |-> 0] /\ excess' = excessCollected
     ELSE UNCHANGED <<left, garbage, excess>>
  /\ memoryIsLow' = LowNow
  /\ warned' = IF checkLowMemory THEN IsLow /\ StaysLow /\ (warned \/ Warning # <<>>)
               ELSE warned
  /\ checkLowMemory' = FALSE
  /\ UNCHANGED watch

(* The state the bytecode finds: memWarn done and what is posted delivered.*)
(* Delivering a signal to what is no semaphore ends the process: 0 and nil *)
(* have no fields, and storing into them is checked.                       *)
checkProcessSwitch ==
  LET signals == semaphoreList \o Warning
  IN  /\ semaphoreList' = <<>>
      /\ ended' = IF \/ ~(ToSet(signals) \subseteq Semaphore)
                     \/ Len(signals) > ListSize
                  THEN "error" ELSE ended
      /\ memWarn

(* One cycle is two steps here, the switch and the bytecode.               *)
Switch ==
  /\ phase = "cycles"
  /\ checkProcessSwitch
  /\ phase' = "bytecode"
  /\ eventWords' = IF ended' = "error" THEN eventWords ELSE 0
  /\ UNCHANGED <<cyclesLeft, inputSemaphore, timer, stdin>>

(* After the last cycle, or once the image has quit.                       *)
EndCycle(quit) ==
  /\ phase = "bytecode"
  /\ cyclesLeft' = cyclesLeft - 1
  /\ phase' = IF quit THEN "quitting"
              ELSE IF cyclesLeft = 1 THEN "stdin" ELSE "cycles"

OtherBytecode ==
  /\ \E quit \in BOOLEAN : EndCycle(quit)
  /\ UNCHANGED <<ended, semaphoreList, input, timer, memory, stdin>>

(* Objects are allocated, dropped and freed; an allocation may collect.    *)
Mutate ==
  /\ EndCycle(FALSE)
  /\ \E r \in Resource : \E l, g \in 0 .. MaxLeft :
       /\ l + g <= MaxLeft
       /\ left' = [left EXCEPT ![r] = l]
       /\ garbage' = [garbage EXCEPT ![r] = g]
  /\ excess' \in {excess, excessCollected}
  /\ UNCHANGED <<ended, semaphoreList, input, timer, watch, checkLowMemory,
                 memoryIsLow, warned, stdin>>

(* A mutant: nil is taken for a semaphore.                                 *)
RequestForNil(s, t) ==
  /\ EndCycle(FALSE)
  /\ s \in Semaphore \union {NilPointer}
  /\ scheduledTime' = t
  /\ scheduledSemaphore' = IF due(s, t) THEN NoSemaphore ELSE s
  /\ Posting(IF due(s, t) THEN <<s>> ELSE <<>>)
  /\ UNCHANGED <<input, ticks, memory, stdin>>

(* The request replaces the one outstanding, or cancels it if its          *)
(* semaphore is nil, and is checked at once.                               *)
primitiveSignalAtTick(s, t) ==
  /\ EndCycle(FALSE)
  /\ s \in Semaphore \union {NilPointer}
  /\ scheduledTime' = t
  /\ LET wanted == IF s = NilPointer THEN NoSemaphore ELSE s
         now == due(wanted, t)
     IN  /\ scheduledSemaphore' = IF now THEN NoSemaphore ELSE wanted
         /\ Posting(IF now THEN <<wanted>> ELSE <<>>)
  /\ UNCHANGED <<input, ticks, memory, stdin>>

primitiveSignalAtOopsLeftWordsLeft ==
  /\ EndCycle(FALSE)
  /\ \E s \in Semaphore \union {NilPointer} :
       \E limits \in [Resource -> 0 .. MaxLeft] :
         watch' = [semaphore |-> s, limit |-> limits]
  /\ UNCHANGED <<ended, semaphoreList, input, timer, left, garbage, excess,
                 checkLowMemory, memoryIsLow, warned, stdin>>

primitiveInputSemaphore ==
  /\ EndCycle(FALSE)
  /\ inputSemaphore' \in Semaphore \union {NilPointer}
  /\ UNCHANGED <<ended, semaphoreList, eventWords, timer, memory, stdin>>

primitiveStdinInputSemaphore ==
  /\ EndCycle(FALSE)
  /\ stdinSemaphore' \in Semaphore \union {NilPointer}
  /\ UNCHANGED <<ended, semaphoreList, input, timer, memory, line, buffer_index,
                 typed>>

(* primitiveStdinInputString: the answer is line.                          *)
GetStdinLine ==
  /\ EndCycle(FALSE)
  /\ buffer_index' = 0
  /\ typed' = <<>>
  /\ UNCHANGED <<ended, semaphoreList, input, timer, memory, stdinSemaphore,
                 line>>

-----------------------------------------------------------------------------
(* System_ReadStdin: what is held and has come since the last poll, less   *)
(* one character, newline or not; signals while text is left.  So text the *)
(* image has not taken loses its last character again.                     *)
ReadStdin(arrived) ==
  LET held == SubSeq(line, 1, buffer_index) \o arrived
  IN  /\ phase \in {"stdin", "quitting"}
      /\ Len(typed) + Len(arrived) <= BufferSize
      /\ IF held = <<>>
         THEN UNCHANGED <<line, buffer_index, typed, semaphoreList, ended>>
         ELSE /\ line' = Front(held)
              /\ buffer_index' = Len(held) - 1
              /\ typed' = typed \o arrived
              /\ Posting(IF Len(held) > 1 THEN <<stdinSemaphore>> ELSE <<>>)
      /\ phase' = IF phase = "stdin" THEN "events" ELSE "quit"
      /\ UNCHANGED <<cyclesLeft, input, timer, memory, stdinSemaphore>>

-----------------------------------------------------------------------------
(* The host.                                                               *)
ClockTick ==
  /\ ticks < MaxTicks
  /\ ticks' = ticks + 1
  /\ UNCHANGED <<loop, semaphoreList, input, scheduledSemaphore, scheduledTime,
                 memory, stdin>>

Init ==
  /\ ended = "no" /\ phase = "events" /\ cyclesLeft = 0
  /\ semaphoreList = <<>>
  /\ inputSemaphore = NoSemaphore /\ eventWords = 0
  /\ ticks = 0 /\ scheduledSemaphore = NoSemaphore /\ scheduledTime = 0
  /\ watch = [semaphore |-> NilPointer, limit |-> [r \in Resource |-> 0]]
  /\ left = [r \in Resource |-> MaxLeft] /\ garbage = [r \in Resource |-> 0]
  /\ excess = [r \in Resource |-> 0]
  /\ checkLowMemory = FALSE /\ memoryIsLow = FALSE /\ warned = FALSE
  /\ stdinSemaphore = NoSemaphore
  /\ line = <<>> /\ buffer_index = 0 /\ typed = <<>>

Bytecode ==
  \/ OtherBytecode \/ Mutate
  \/ \E s \in Pointer : \E t \in 0 .. Wrap - 1 : primitiveSignalAtTick(s, t)
  \/ primitiveSignalAtOopsLeftWordsLeft
  \/ primitiveInputSemaphore \/ primitiveStdinInputSemaphore \/ GetStdinLine

Loop == ended = "no" /\ (StartFrame \/ Switch \/ Bytecode
           \/ \E arrived \in Texts \union {<<>>} : ReadStdin(arrived))

Next == Loop \/ (ended = "no" /\ ClockTick)

(* The process runs.                                                       *)
Spec == Init /\ [][Next]_vars /\ WF_vars(Loop)

-----------------------------------------------------------------------------
TypeOK ==
  /\ ended \in {"no", "error"}
  /\ phase \in {"events", "cycles", "bytecode", "stdin", "quitting", "quit"}
  /\ cyclesLeft \in 0 .. CyclesPerFrame
  /\ semaphoreList \in Seq(Pointer)
  /\ {inputSemaphore, stdinSemaphore} \subseteq Pointer
  /\ eventWords \in 0 .. EventWords
  /\ ticks \in 0 .. MaxTicks /\ scheduledTime \in 0 .. Wrap - 1
  /\ scheduledSemaphore \in Semaphore \union {NoSemaphore}
  /\ watch \in [semaphore : Semaphore \union {NilPointer},
                limit : [Resource -> 0 .. MaxLeft]]
  /\ {left, garbage, excess} \subseteq [Resource -> Nat]
  /\ {checkLowMemory, memoryIsLow, warned} \subseteq BOOLEAN
  /\ {line, typed} \subseteq Seq(UNION {ToSet(t) : t \in Texts})
  /\ buffer_index \in Nat

(* The process ends with an error only if text comes in while there is no  *)
(* standard input semaphore, or an event while the input semaphore is nil, *)
(* or if the events of one frame leave less room in the list of posted     *)
(* signals than for the three others of a frame: a request of the image's, *)
(* the text, and the low space watch (primitives.c:355-363, 393-400).      *)
EndsOnlyBySignal ==
  ended = "error" =>
    \/ stdinSemaphore \notin Semaphore /\ buffer_index > 0
    \/ inputSemaphore = NilPointer /\ eventWords > 0
    \/ eventWords > ListSize - 3

(* While the counts say that memory is short, and would after a collection *)
(* (which counts free words again, so they may say too much), and the      *)
(* image watches for that, a signal comes, or has come since a check last  *)
(* found enough (primitives.c:163-185, objectmemory.c:1374).               *)
SeemsShort == Watching(watch) /\ StaysLow
WarningComes ==
  SeemsShort ~> (warned \/ ~SeemsShort \/ ended # "no" \/ phase = "quit")
=============================================================================
