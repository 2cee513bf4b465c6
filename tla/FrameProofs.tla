------------------------------ MODULE FrameProofs ------------------------------
(***************************************************************************)
(* Proofs about Frame for any devices' semaphores, texts, limits, numbers  *)
(* of cycles and of events in a frame, and size of the list of signals.    *)
(***************************************************************************)
EXTENDS Frame, SequenceTheorems, TLAPS

USE FrameAssumption

Character == UNION {ToSet(t) : t \in Texts}

(* The inductive invariant.  While the process runs:                       *)
(* a cycle is left in the phases of a cycle;                               *)
CyclesLeft == phase \in {"cycles", "bytecode"} => cyclesLeft > 0

(* a request to the timer that is outstanding has passed, so that no frame *)
(* begins with one to signal;                                              *)
OutstandingHasPassed == scheduledSemaphore # NoSemaphore => ticks > scheduledTime

(* text that nobody has read is all there is in the buffer;                *)
TextHeld == buffer_index > 0 => buffer_index = Len(line)

(* what is posted and who is to blame if it is no semaphore.               *)
NoReader == stdinSemaphore \notin Semaphore /\ buffer_index > 0
NoInput == inputSemaphore = NilPointer /\ eventWords > 0

AllSemaphores == \A i \in 1 .. Len(semaphoreList) : semaphoreList[i] \in Semaphore

Posted ==
  /\ phase = "bytecode" => semaphoreList = <<>> /\ eventWords = 0
  /\ phase = "stdin" =>
       Len(semaphoreList) <= 1 /\ eventWords = 0 /\ AllSemaphores
  /\ phase = "events" =>
       Len(semaphoreList) <= 2 /\ eventWords = 0 /\ (AllSemaphores \/ NoReader)
  /\ phase \in {"cycles", "quitting"} =>
       /\ Len(semaphoreList) <= 2 + eventWords
       /\ AllSemaphores \/ NoReader \/ NoInput

IInv ==
  /\ TypeOK
  /\ OutstandingHasPassed
  /\ TextHeld
  /\ ended = "no" => CyclesLeft /\ Posted
  /\ EndsOnlyBySignal

-----------------------------------------------------------------------------
(* The list of posted signals, and text, are sequences.                    *)
LEMMA EmptyIsSeq ==
  ASSUME NEW S
  PROVE  <<>> \in Seq(S) /\ Len(<<>>) = 0
  OBVIOUS

LEMMA ArrivedIsText ==
  ASSUME NEW arrived \in Texts \union {<<>>}
  PROVE  arrived \in Seq(Character)
<1>1. Texts \subseteq Seq(Character)
  BY DEF Character
<1> QED
  BY <1>1, EmptyIsSeq

LEMMA TimesIsSeq ==
  ASSUME NEW n \in Nat, NEW s \in Pointer
  PROVE  /\ Times(n, s) \in Seq(Pointer)
         /\ Len(Times(n, s)) = n
         /\ \A i \in 1 .. n : Times(n, s)[i] = s
<1>1. Times(n, s) \in [1 .. n -> Pointer]
  BY DEF Times
<1>2. Times(n, s) \in Seq(Pointer)
  BY <1>1, SeqDef
<1>3. Len(Times(n, s)) = n
  BY <1>1, <1>2, LenProperties
<1> QED
  BY <1>2, <1>3 DEF Times

LEMMA ConcatOfSemaphores ==
  ASSUME NEW s \in Seq(Pointer), NEW t \in Seq(Pointer),
         \A i \in 1 .. Len(s) : s[i] \in Semaphore,
         \A i \in 1 .. Len(t) : t[i] \in Semaphore
  PROVE  \A i \in 1 .. Len(s \o t) : (s \o t)[i] \in Semaphore
<1> SUFFICES ASSUME NEW i \in 1 .. Len(s \o t)
             PROVE  (s \o t)[i] \in Semaphore
  OBVIOUS
<1>1. /\ Len(s) \in Nat /\ Len(t) \in Nat
      /\ Len(s \o t) = Len(s) + Len(t)
      /\ (s \o t)[i] = IF i <= Len(s) THEN s[i] ELSE t[i - Len(s)]
  BY ConcatProperties, LenProperties
<1>2. CASE i <= Len(s)
  BY <1>1, <1>2
<1>3. CASE ~(i <= Len(s))
  <2>1. i - Len(s) \in 1 .. Len(t)
    BY <1>1, <1>3
  <2> QED
    BY <1>1, <1>3, <2>1
<1> QED
  BY <1>2, <1>3

(* What leaves the memory alone leaves it typed.                           *)
LEMMA MemoryUntouched ==
  ASSUME TypeOK, UNCHANGED memory
  PROVE  /\ {left', garbage', excess'} \subseteq [Resource -> Nat]
         /\ {checkLowMemory', memoryIsLow', warned'} \subseteq BOOLEAN
         /\ watch' = watch
  BY DEF TypeOK, memory

LEMMA PostingAdds ==
  ASSUME semaphoreList \in Seq(Pointer), NEW signals \in Seq(Pointer),
         Posting(signals), ended = "no"
  PROVE  /\ semaphoreList' \in Seq(Pointer)
         /\ Len(semaphoreList') = Len(semaphoreList) + Len(signals)
         /\ ended' \in {"no", "error"}
         /\ ended' = "error" => Len(semaphoreList') > ListSize
         /\ AllSemaphores /\ (\A i \in 1 .. Len(signals) : signals[i] \in Semaphore)
              => AllSemaphores'
  BY ConcatProperties, ConcatOfSemaphores DEF Posting, AllSemaphores

-----------------------------------------------------------------------------
(* The initial states.                                                     *)
LEMMA InitInvariant == Init => IInv
<1> SUFFICES ASSUME Init PROVE IInv
  OBVIOUS
<1>1. TypeOK
  <2>1. semaphoreList \in Seq(Pointer) /\ {line, typed} \subseteq Seq(Character)
    BY EmptyIsSeq DEF Init
  <2>2. watch \in [semaphore : Semaphore \union {NilPointer},
                   limit : [Resource -> 0 .. MaxLeft]]
    BY DEF Init
  <2>3. {left, garbage, excess} \subseteq [Resource -> Nat]
    BY DEF Init
  <2>4. /\ ended = "no" /\ phase = "events" /\ cyclesLeft = 0
        /\ inputSemaphore = NoSemaphore /\ eventWords = 0
        /\ ticks = 0 /\ scheduledSemaphore = NoSemaphore /\ scheduledTime = 0
        /\ checkLowMemory = FALSE /\ memoryIsLow = FALSE /\ warned = FALSE
        /\ stdinSemaphore = NoSemaphore /\ buffer_index = 0
    BY DEF Init
  <2>5. /\ 0 \in 0 .. CyclesPerFrame /\ 0 \in 0 .. EventWords /\ 0 \in 0 .. MaxTicks
        /\ 0 \in 0 .. Wrap - 1
    OBVIOUS
  <2> QED
    BY <2>1, <2>2, <2>3, <2>4, <2>5 DEF TypeOK, Pointer, Character
<1>2. OutstandingHasPassed /\ TextHeld
  BY DEF Init, OutstandingHasPassed, TextHeld
<1>3. CyclesLeft /\ Posted /\ EndsOnlyBySignal
  BY DEF Init, CyclesLeft, Posted, EndsOnlyBySignal, AllSemaphores
<1> QED
  BY <1>1, <1>2, <1>3 DEF IInv

-----------------------------------------------------------------------------
(* The start of a frame.  What is due is not outstanding any more, and no  *)
(* request can be due that was outstanding before.                         *)
LEMMA StartFrameInvariant ==
  ASSUME IInv, ended = "no", StartFrame
  PROVE  IInv'
<1> DEFINE signalsOf(n, d) == Times(n, inputSemaphore) \o Times(d, scheduledSemaphore)
<1>1. PICK words \in 0 .. EventWords, close \in BOOLEAN :
        /\ eventWords' = IF inputSemaphore = NoSemaphore THEN 0 ELSE words
        /\ Posting(signalsOf(eventWords', IF due(scheduledSemaphore, scheduledTime)
                                          THEN 1 ELSE 0))
        /\ phase' = IF close THEN "quitting" ELSE "cycles"
  BY DEF StartFrame
<1>2. /\ phase = "events"
      /\ scheduledSemaphore' = IF due(scheduledSemaphore, scheduledTime)
                               THEN NoSemaphore ELSE scheduledSemaphore
      /\ cyclesLeft' = CyclesPerFrame
      /\ checkLowMemory' = TRUE
      /\ UNCHANGED <<inputSemaphore, ticks, scheduledTime, watch, left, garbage, excess,
                     memoryIsLow, warned, stdinSemaphore, line, buffer_index, typed>>
  BY DEF StartFrame, stdin
<1>3. ~due(scheduledSemaphore, scheduledTime)
  BY DEF IInv, TypeOK, OutstandingHasPassed, due
<1>4. eventWords' \in 0 .. EventWords
  BY <1>1
<1> DEFINE signals == Times(eventWords', inputSemaphore) \o Times(0, scheduledSemaphore)
<1>5. /\ signals \in Seq(Pointer)
      /\ Len(signals) = eventWords'
      /\ \A i \in 1 .. Len(signals) : signals[i] = inputSemaphore
  <2>1. inputSemaphore \in Pointer /\ scheduledSemaphore \in Pointer
    BY DEF IInv, TypeOK, Pointer
  <2> QED
    <3>1. /\ Times(eventWords', inputSemaphore) \in Seq(Pointer)
          /\ Len(Times(eventWords', inputSemaphore)) = eventWords'
          /\ \A i \in 1 .. eventWords' :
               Times(eventWords', inputSemaphore)[i] = inputSemaphore
      <4>1. eventWords' \in Nat
        BY <1>4
      <4> QED
        BY <2>1, <4>1, TimesIsSeq
    <3>2. /\ Times(0, scheduledSemaphore) \in Seq(Pointer)
          /\ Len(Times(0, scheduledSemaphore)) = 0
      BY <2>1, TimesIsSeq
    <3> QED
      BY <1>4, <3>1, <3>2, ConcatProperties
<1>6. Posting(signals)
  BY <1>1, <1>3
<1> HIDE DEF signals, signalsOf
<1>7. semaphoreList \in Seq(Pointer) /\ Posted
  BY DEF IInv, TypeOK
<1>8. /\ semaphoreList' \in Seq(Pointer)
      /\ Len(semaphoreList') <= 2 + eventWords'
      /\ ended' \in {"no", "error"}
      /\ ended' = "error" => Len(semaphoreList') > ListSize
  BY <1>2, <1>4, <1>5, <1>6, <1>7, PostingAdds, LenProperties DEF Posted
<1>9. TypeOK'
  <2>1. TypeOK
    BY DEF IInv
  <2>2. phase' \in {"quitting", "cycles"} /\ cyclesLeft' \in 0 .. CyclesPerFrame
    BY <1>1, <1>2
  <2>3. scheduledSemaphore' = scheduledSemaphore
    BY <1>2, <1>3
  <2> QED
    BY <1>2, <1>4, <1>8, <2>1, <2>2, <2>3 DEF TypeOK
<1>10. OutstandingHasPassed'
  BY <1>2, <1>3 DEF IInv, OutstandingHasPassed
<1>11. TextHeld'
  BY <1>2 DEF IInv, TextHeld
<1>12. CyclesLeft'
  BY <1>2 DEF CyclesLeft
<1>13. Posted'
  <2>1. AllSemaphores' \/ NoReader' \/ NoInput'
    <3>1. CASE NoReader
      BY <1>2, <3>1 DEF NoReader
    <3>2. CASE AllSemaphores /\ inputSemaphore \in Semaphore
      BY <1>5, <1>6, <1>7, <3>2, PostingAdds
    <3>3. CASE AllSemaphores /\ eventWords' = 0
      <4>1. \A i \in 1 .. Len(signals) : signals[i] \in Semaphore
        BY <1>5, <3>3
      <4> QED
        BY <1>5, <1>6, <1>7, <3>3, <4>1, PostingAdds
    <3>4. CASE inputSemaphore = NilPointer /\ eventWords' > 0
      BY <1>2, <3>4 DEF NoInput
    <3>5. inputSemaphore = NoSemaphore => eventWords' = 0
      BY <1>1
    <3>6. AllSemaphores \/ NoReader
      BY <1>2, <1>7 DEF Posted
    <3> QED
      BY <1>4, <3>1, <3>2, <3>3, <3>4, <3>5, <3>6 DEF IInv, TypeOK, Pointer
  <2> QED
    BY <1>1, <1>8, <2>1 DEF Posted
<1>14. EndsOnlyBySignal'
  BY <1>4, <1>8, LenProperties DEF EndsOnlyBySignal
<1> QED
  BY <1>9, <1>10, <1>11, <1>12, <1>13, <1>14 DEF IInv

-----------------------------------------------------------------------------
(* The switch delivers all there is, and the one signal of the low space   *)
(* watch, which goes to a semaphore.                                       *)
LEMMA WarningIsOneSignal ==
  ASSUME TypeOK
  PROVE  Warning = <<>> \/ (Warning = <<watch.semaphore>> /\ watch.semaphore \in Semaphore)
  BY DEF Warning, IsLow, Watching, TypeOK

LEMMA CollectedIs ==
  ASSUME TypeOK
  PROVE  {Collected, excessCollected} \subseteq [Resource -> Nat]
<1>1. /\ left \in [Resource -> Nat] /\ garbage \in [Resource -> Nat]
      /\ excess \in [Resource -> Nat] /\ MaxLeft \in Nat
  BY DEF TypeOK
<1>2. Collected \in [Resource -> Nat]
  BY <1>1 DEF Collected, Sum
<1>3. \A r \in Resource : excessCollected[r] \in Nat
  BY <1>1 DEF excessCollected
<1> QED
  BY <1>2, <1>3 DEF excessCollected

LEMMA MemoryStaysTyped ==
  ASSUME TypeOK, memWarn
  PROVE  /\ {left', garbage', excess'} \subseteq [Resource -> Nat]
         /\ {checkLowMemory', memoryIsLow', warned'} \subseteq BOOLEAN
         /\ watch' = watch
<1>1. {left', garbage', excess'} \subseteq [Resource -> Nat]
  <2>1. CASE checkLowMemory /\ IsLow
    BY <2>1, CollectedIs DEF memWarn
  <2>2. CASE ~(checkLowMemory /\ IsLow)
    BY <2>2 DEF memWarn, TypeOK
  <2> QED
    BY <2>1, <2>2
<1>2. IsLow \in BOOLEAN /\ StaysLow \in BOOLEAN
  BY DEF IsLow, StaysLow, Watching, IsInLowMemoryCondition
<1>3. memoryIsLow' \in BOOLEAN /\ warned' \in BOOLEAN
  <2>1. memoryIsLow \in BOOLEAN /\ warned \in BOOLEAN
    BY DEF TypeOK
  <2>2. memoryIsLow' \in BOOLEAN
    BY <1>2, <2>1 DEF memWarn, LowNow
  <2>3. warned' \in BOOLEAN
    BY <1>2, <2>1 DEF memWarn
  <2> QED
    BY <2>2, <2>3
<1> QED
  BY <1>1, <1>3 DEF memWarn

LEMMA SwitchInvariant ==
  ASSUME IInv, ended = "no", Switch
  PROVE  IInv'
<1> DEFINE signals == semaphoreList \o Warning
<1>1. /\ phase = "cycles" /\ phase' = "bytecode"
      /\ semaphoreList' = <<>>
      /\ eventWords' = IF ended' = "error" THEN eventWords ELSE 0
      /\ ended' = IF ~(ToSet(signals) \subseteq Semaphore) \/ Len(signals) > ListSize
                  THEN "error" ELSE ended
      /\ UNCHANGED <<cyclesLeft, inputSemaphore, ticks, scheduledSemaphore,
                     scheduledTime, stdinSemaphore, line, buffer_index, typed>>
      /\ memWarn
  BY DEF Switch, checkProcessSwitch, timer, stdin
<1>2. TypeOK
  BY DEF IInv
<1>3. /\ semaphoreList \in Seq(Pointer) /\ Warning \in Seq(Pointer)
      /\ Len(Warning) <= 1
      /\ \A i \in 1 .. Len(Warning) : Warning[i] \in Semaphore
  <2>1. CASE Warning = <<>>
    BY <1>2, <2>1, EmptyIsSeq DEF TypeOK
  <2>2. CASE Warning = <<watch.semaphore>> /\ watch.semaphore \in Semaphore
    BY <1>2, <2>2 DEF TypeOK, Pointer
  <2> QED
    BY <1>2, <2>1, <2>2, WarningIsOneSignal
<1> DEFINE warning == Warning
<1> HIDE DEF warning
<1>4. /\ Len(signals) <= 3 + eventWords
      /\ signals \in Seq(Pointer)
      /\ AllSemaphores => ToSet(signals) \subseteq Semaphore
  <2>1. /\ warning \in Seq(Pointer) /\ Len(warning) <= 1
        /\ \A i \in 1 .. Len(warning) : warning[i] \in Semaphore
        /\ signals = semaphoreList \o warning
    BY <1>3 DEF warning
  <2>2. /\ signals \in Seq(Pointer)
        /\ Len(signals) = Len(semaphoreList) + Len(warning)
        /\ Len(warning) \in Nat /\ Len(semaphoreList) \in Nat
    BY <1>3, <2>1, ConcatProperties, LenProperties
  <2>3. Len(semaphoreList) <= 2 + eventWords
    BY <1>1 DEF IInv, Posted
  <2>4. AllSemaphores => ToSet(signals) \subseteq Semaphore
    <3> SUFFICES ASSUME AllSemaphores PROVE ToSet(signals) \subseteq Semaphore
      OBVIOUS
    <3>1. \A i \in 1 .. Len(signals) : signals[i] \in Semaphore
      BY <1>3, <2>1, ConcatOfSemaphores DEF AllSemaphores
    <3> QED
      BY <2>2, <3>1, LenProperties DEF ToSet
  <2>5. eventWords \in Nat
    BY <1>2 DEF TypeOK
  <2> QED
    BY <2>1, <2>2, <2>3, <2>4, <2>5
<1> HIDE DEF signals
<1>5. TypeOK'
  <2>1. eventWords' \in 0 .. EventWords /\ semaphoreList' \in Seq(Pointer)
    BY <1>1, <1>2, EmptyIsSeq DEF TypeOK
  <2>2. ended' \in {"no", "error"}
    BY <1>1
  <2> QED
    BY <1>1, <1>2, <2>1, <2>2, MemoryStaysTyped DEF TypeOK
<1>6. OutstandingHasPassed' /\ TextHeld'
  BY <1>1 DEF IInv, OutstandingHasPassed, TextHeld
<1>7. ended' = "no" => CyclesLeft' /\ Posted'
  BY <1>1 DEF IInv, CyclesLeft, Posted
<1>8. EndsOnlyBySignal'
  <2> SUFFICES ASSUME ended' = "error"
               PROVE  \/ stdinSemaphore \notin Semaphore /\ buffer_index > 0
                      \/ inputSemaphore = NilPointer /\ eventWords > 0
                      \/ eventWords > ListSize - 3
    BY <1>1 DEF EndsOnlyBySignal
  <2>1. AllSemaphores \/ NoReader \/ NoInput
    BY <1>1 DEF IInv, Posted
  <2>2. CASE NoReader \/ NoInput
    BY <2>2 DEF NoReader, NoInput
  <2>3. CASE AllSemaphores
    <3>1. Len(signals) > ListSize
      BY <1>1, <1>4, <2>3
    <3>2. Len(signals) \in Nat /\ ListSize \in Nat /\ eventWords \in Nat
      BY <1>2, <1>4, LenProperties DEF TypeOK
    <3> QED
      BY <1>4, <3>1, <3>2
  <2> QED
    BY <2>1, <2>2, <2>3
<1> QED
  BY <1>5, <1>6, <1>7, <1>8 DEF IInv

-----------------------------------------------------------------------------
(* The bytecodes.  Before each one everything posted has been delivered.   *)
LEMMA BytecodeFinds ==
  ASSUME IInv, ended = "no", NEW quit \in BOOLEAN, EndCycle(quit)
  PROVE  /\ semaphoreList = <<>> /\ eventWords = 0
         /\ phase' \in {"quitting", "stdin", "cycles"}
         /\ cyclesLeft' \in 0 .. CyclesPerFrame
         /\ phase' \in {"cycles", "bytecode"} => cyclesLeft' > 0
<1>1. phase = "bytecode" /\ cyclesLeft \in 0 .. CyclesPerFrame /\ CyclesPerFrame \in Nat
  BY DEF EndCycle, IInv, TypeOK
<1>2. cyclesLeft > 0 /\ semaphoreList = <<>> /\ eventWords = 0
  BY <1>1 DEF IInv, CyclesLeft, Posted
<1> QED
  BY <1>1, <1>2 DEF EndCycle

(* What is common to the bytecodes that post nothing.                      *)
LEMMA QuietBytecode ==
  ASSUME IInv, ended = "no", NEW quit \in BOOLEAN, EndCycle(quit),
         UNCHANGED <<ended, semaphoreList, eventWords>>
  PROVE  /\ phase' \in {"quitting", "stdin", "cycles"}
         /\ cyclesLeft' \in 0 .. CyclesPerFrame
         /\ CyclesLeft' /\ Posted' /\ EndsOnlyBySignal'
<1>1. /\ semaphoreList' = <<>> /\ eventWords' = 0 /\ Len(semaphoreList') = 0
      /\ phase' \in {"quitting", "stdin", "cycles"}
      /\ cyclesLeft' \in 0 .. CyclesPerFrame
      /\ phase' \in {"cycles", "bytecode"} => cyclesLeft' > 0
  BY BytecodeFinds
<1>2. AllSemaphores'
  BY <1>1 DEF AllSemaphores
<1> QED
  BY <1>1, <1>2 DEF CyclesLeft, Posted, EndsOnlyBySignal

LEMMA OtherBytecodeInvariant ==
  ASSUME IInv, ended = "no", OtherBytecode \/ Mutate
  PROVE  IInv'
<1>1. PICK quit \in BOOLEAN : EndCycle(quit)
  BY DEF OtherBytecode, Mutate
<1>2. UNCHANGED <<ended, semaphoreList, inputSemaphore, eventWords, ticks,
                  scheduledSemaphore, scheduledTime, watch, checkLowMemory,
                  memoryIsLow, warned, stdinSemaphore, line, buffer_index, typed>>
  BY DEF OtherBytecode, Mutate, input, timer, memory, stdin
<1>3. TypeOK'
  <2>1. {left', garbage', excess'} \subseteq [Resource -> Nat]
    <3>1. CASE OtherBytecode
      BY <3>1 DEF OtherBytecode, memory, IInv, TypeOK
    <3>2. CASE Mutate
      <4>1. PICK r \in Resource, l \in 0 .. MaxLeft, g \in 0 .. MaxLeft :
              /\ left' = [left EXCEPT ![r] = l]
              /\ garbage' = [garbage EXCEPT ![r] = g]
        BY <3>2 DEF Mutate
      <4>2. left \in [Resource -> Nat] /\ garbage \in [Resource -> Nat]
        BY DEF IInv, TypeOK
      <4>3. left' \in [Resource -> Nat] /\ garbage' \in [Resource -> Nat]
        BY <4>1, <4>2
      <4>4. excess' \in [Resource -> Nat]
        BY <3>2, CollectedIs DEF Mutate, IInv, TypeOK
      <4> QED
        BY <4>3, <4>4
    <3> QED
      BY <3>1, <3>2
  <2> QED
    BY <1>1, <1>2, <2>1, QuietBytecode DEF IInv, TypeOK
<1>4. OutstandingHasPassed' /\ TextHeld'
  BY <1>2 DEF IInv, OutstandingHasPassed, TextHeld
<1> QED
  BY <1>1, <1>2, <1>3, <1>4, QuietBytecode DEF IInv

LEMMA WatchInvariant ==
  ASSUME IInv, ended = "no", primitiveSignalAtOopsLeftWordsLeft
  PROVE  IInv'
<1>1. EndCycle(FALSE)
  BY DEF primitiveSignalAtOopsLeftWordsLeft
<1>2. UNCHANGED <<ended, semaphoreList, inputSemaphore, eventWords, ticks,
                  scheduledSemaphore, scheduledTime, left, garbage, excess,
                  checkLowMemory, memoryIsLow, warned, stdinSemaphore, line, buffer_index,
                  typed>>
  BY DEF primitiveSignalAtOopsLeftWordsLeft, input, timer, stdin
<1>3. watch' \in [semaphore : Semaphore \union {NilPointer},
                  limit : [Resource -> 0 .. MaxLeft]]
  BY DEF primitiveSignalAtOopsLeftWordsLeft
<1>4. TypeOK'
  BY <1>1, <1>2, <1>3, QuietBytecode DEF IInv, TypeOK
<1>5. OutstandingHasPassed' /\ TextHeld'
  BY <1>2 DEF IInv, OutstandingHasPassed, TextHeld
<1> QED
  BY <1>1, <1>2, <1>4, <1>5, QuietBytecode DEF IInv

LEMMA SemaphoreInvariant ==
  ASSUME IInv, ended = "no", primitiveInputSemaphore \/ primitiveStdinInputSemaphore
  PROVE  IInv'
<1>1. EndCycle(FALSE)
  BY DEF primitiveInputSemaphore, primitiveStdinInputSemaphore
<1>2. UNCHANGED <<ended, semaphoreList, eventWords, ticks, scheduledSemaphore,
                  scheduledTime, memory, line, buffer_index, typed>>
  BY DEF primitiveInputSemaphore, primitiveStdinInputSemaphore, input, timer,
         memory, stdin
<1>3. {inputSemaphore', stdinSemaphore'} \subseteq Pointer
  BY DEF primitiveInputSemaphore, primitiveStdinInputSemaphore, input, stdin,
         IInv, TypeOK, Pointer
<1>4. TypeOK'
  BY <1>1, <1>2, <1>3, QuietBytecode, MemoryUntouched DEF IInv, TypeOK
<1>5. OutstandingHasPassed' /\ TextHeld'
  BY <1>2 DEF IInv, OutstandingHasPassed, TextHeld
<1> QED
  BY <1>1, <1>2, <1>4, <1>5, QuietBytecode DEF IInv

LEMMA GetLineInvariant ==
  ASSUME IInv, ended = "no", GetStdinLine
  PROVE  IInv'
<1>1. EndCycle(FALSE)
  BY DEF GetStdinLine
<1>2. /\ buffer_index' = 0 /\ typed' = <<>>
      /\ UNCHANGED <<ended, semaphoreList, inputSemaphore, eventWords, ticks,
                     scheduledSemaphore, scheduledTime, memory, stdinSemaphore, line>>
  BY DEF GetStdinLine, input, timer, memory
<1>3. TypeOK'
  <2>1. {line', typed'} \subseteq Seq(Character)
    BY <1>2, EmptyIsSeq DEF IInv, TypeOK, Character
  <2>2. TypeOK /\ phase' \in {"quitting", "stdin", "cycles"}
          /\ cyclesLeft' \in 0 .. CyclesPerFrame
    BY <1>1, <1>2, QuietBytecode DEF IInv
  <2> QED
    BY <1>2, <2>1, <2>2, MemoryUntouched DEF TypeOK, Character
<1>4. OutstandingHasPassed'
  BY <1>2 DEF IInv, OutstandingHasPassed
<1>5. TextHeld'
  BY <1>2 DEF TextHeld
<1> QED
  BY <1>1, <1>2, <1>3, <1>4, <1>5, QuietBytecode DEF IInv

(* The timer.  A request that is not signalled at once has passed.         *)
LEMMA SignalAtTickInvariant ==
  ASSUME IInv, ended = "no", NEW s \in Pointer, NEW t \in 0 .. Wrap - 1,
         primitiveSignalAtTick(s, t)
  PROVE  IInv'
<1> DEFINE wanted == IF s = NilPointer THEN NoSemaphore ELSE s
           now == due(wanted, t)
<1>1. /\ EndCycle(FALSE)
      /\ s \in Semaphore \union {NilPointer}
      /\ scheduledTime' = t
      /\ scheduledSemaphore' = IF now THEN NoSemaphore ELSE wanted
      /\ Posting(IF now THEN <<wanted>> ELSE <<>>)
      /\ UNCHANGED <<inputSemaphore, eventWords, ticks, memory, stdinSemaphore, line,
                     buffer_index, typed>>
  BY DEF primitiveSignalAtTick, input, memory, stdin
<1>2. /\ semaphoreList = <<>> /\ eventWords = 0
      /\ phase' \in {"quitting", "stdin", "cycles"}
      /\ cyclesLeft' \in 0 .. CyclesPerFrame
      /\ phase' \in {"cycles", "bytecode"} => cyclesLeft' > 0
  BY <1>1, BytecodeFinds
<1>3. wanted \in Semaphore \union {NoSemaphore} /\ (now => wanted \in Semaphore)
  BY <1>1 DEF due
<1> DEFINE signals == IF now THEN <<wanted>> ELSE <<>>
<1>4. /\ signals \in Seq(Pointer) /\ Len(signals) \in {0, 1}
      /\ \A i \in 1 .. Len(signals) : signals[i] \in Semaphore
  <2> HIDE DEF wanted, now
  <2>1. CASE now
    BY <1>3, <2>1 DEF Pointer
  <2>2. CASE ~now
    BY <2>2, EmptyIsSeq
  <2> QED
    BY <2>1, <2>2
<1>5. Posting(signals)
  BY <1>1
<1> HIDE DEF signals
<1>6. /\ semaphoreList' \in Seq(Pointer)
      /\ Len(semaphoreList') <= 1
      /\ ended' \in {"no", "error"}
      /\ ended' = "error" => Len(semaphoreList') > ListSize
      /\ AllSemaphores'
  <2>1. AllSemaphores /\ Len(semaphoreList) = 0 /\ semaphoreList \in Seq(Pointer)
    BY <1>2, EmptyIsSeq DEF AllSemaphores
  <2> HIDE DEF wanted, now
  <2>2. /\ semaphoreList' \in Seq(Pointer)
        /\ Len(semaphoreList') = Len(semaphoreList) + Len(signals)
        /\ ended' \in {"no", "error"}
        /\ ended' = "error" => Len(semaphoreList') > ListSize
        /\ AllSemaphores'
    BY <1>4, <1>5, <2>1, PostingAdds
  <2> QED
    BY <1>4, <2>1, <2>2
<1>7. TypeOK'
  <2>1. scheduledSemaphore' \in Semaphore \union {NoSemaphore}
    BY <1>1, <1>3
  <2> HIDE DEF wanted, now
  <2> QED
    BY <1>1, <1>2, <1>6, <2>1, MemoryUntouched DEF IInv, TypeOK
<1>8. OutstandingHasPassed'
  <2> SUFFICES ASSUME scheduledSemaphore' # NoSemaphore PROVE ticks > t
    BY <1>1 DEF OutstandingHasPassed
  <2>1. wanted # NoSemaphore /\ ~due(wanted, t)
    BY <1>1
  <2>2. ticks \in Int /\ t \in Int
    BY DEF IInv, TypeOK
  <2> QED
    BY <2>1, <2>2 DEF due
<1>9. TextHeld'
  BY <1>1 DEF IInv, TextHeld
<1>10. CyclesLeft' /\ Posted'
  <2>1. eventWords' = 0 /\ Len(semaphoreList') <= 2 + eventWords'
    BY <1>1, <1>2, <1>6, LenProperties
  <2> QED
    BY <1>2, <1>6, <2>1 DEF CyclesLeft, Posted
<1>11. EndsOnlyBySignal'
  <2>1. ended' = "error" => ListSize < 1
    BY <1>6, LenProperties
  <2> QED
    BY <1>1, <1>2, <2>1 DEF EndsOnlyBySignal
<1> QED
  BY <1>7, <1>8, <1>9, <1>10, <1>11 DEF IInv

-----------------------------------------------------------------------------
(* Standard input.  What is held is what was held before and has come.     *)
LEMMA ReadStdinInvariant ==
  ASSUME IInv, ended = "no", NEW arrived \in Texts \union {<<>>}, ReadStdin(arrived)
  PROVE  IInv'
<1> DEFINE kept == SubSeq(line, 1, buffer_index)
           held == kept \o arrived
           signals == IF Len(held) > 1 THEN <<stdinSemaphore>> ELSE <<>>
<1>1. /\ phase \in {"stdin", "quitting"}
      /\ phase' = IF phase = "stdin" THEN "events" ELSE "quit"
      /\ UNCHANGED <<cyclesLeft, inputSemaphore, eventWords, ticks,
                     scheduledSemaphore, scheduledTime, memory, stdinSemaphore>>
      /\ held = <<>> =>
           UNCHANGED <<line, buffer_index, typed, semaphoreList, ended>>
      /\ held # <<>> =>
           /\ line' = Front(held)
           /\ buffer_index' = Len(held) - 1
           /\ typed' = typed \o arrived
           /\ Posting(signals)
  BY DEF ReadStdin, input, timer, memory
<1>2. /\ TypeOK
      /\ line \in Seq(Character) /\ typed \in Seq(Character)
      /\ buffer_index \in Nat /\ eventWords \in Nat
      /\ semaphoreList \in Seq(Pointer) /\ stdinSemaphore \in Pointer
  BY DEF IInv, TypeOK, Character
<1>3. /\ arrived \in Seq(Character) /\ Len(arrived) \in Nat
      /\ Len(line) \in Nat /\ Len(typed) \in Nat /\ Len(semaphoreList) \in Nat
  BY <1>2, ArrivedIsText, LenProperties
<1>4. kept \in Seq(Character) /\ Len(kept) = buffer_index
  <2>1. buffer_index = 0 \/ buffer_index = Len(line)
    BY <1>2 DEF IInv, TextHeld
  <2>2. \A i \in 1 .. buffer_index : line[i] \in Character
    BY <1>2, <2>1, ElementOfSeq
  <2> QED
    BY <1>2, <2>2, SubSeqProperties
<1>5. held \in Seq(Character) /\ Len(held) = buffer_index + Len(arrived)
  BY <1>3, <1>4, ConcatProperties
<1>6. buffer_index = 0 => held = arrived
  BY <1>2, <1>3, SubSeqEmpty, ConcatEmptySeq
<1>7. Posted
  BY DEF IInv
<1> HIDE DEF held, kept, signals
<1>8. CASE held = <<>>
  <2>1. UNCHANGED <<line, buffer_index, typed, semaphoreList, ended>>
    BY <1>1, <1>8
  <2>2. TypeOK'
    BY <1>1, <1>2, <2>1, MemoryUntouched DEF TypeOK
  <2>3. OutstandingHasPassed' /\ TextHeld'
    BY <1>1, <2>1 DEF IInv, OutstandingHasPassed, TextHeld
  <2>4. CyclesLeft' /\ Posted'
    BY <1>1, <1>3, <1>7, <2>1 DEF CyclesLeft, Posted, AllSemaphores
  <2>5. EndsOnlyBySignal'
    BY <2>1 DEF EndsOnlyBySignal
  <2> QED
    BY <2>2, <2>3, <2>4, <2>5 DEF IInv
<1>9. CASE held # <<>>
  <2>1. /\ line' = Front(held) /\ buffer_index' = Len(held) - 1
        /\ typed' = typed \o arrived
        /\ Posting(signals)
    BY <1>1, <1>9
  <2>2. Len(held) \in Nat /\ Len(held) > 0
    BY <1>5, <1>9, EmptySeq, LenProperties
  <2>3. line' \in Seq(Character) /\ Len(line') = Len(held) - 1
    <3>1. \A i \in 1 .. Len(held) - 1 : held[i] \in Character
      BY <1>5, <2>2, ElementOfSeq
    <3>2. line' = SubSeq(held, 1, Len(held) - 1)
      BY <2>1 DEF Front
    <3>3. Len(held) - 1 \in Nat /\ 1 \in Int /\ (Len(held) - 1) - 1 + 1 = Len(held) - 1
      BY <2>2
    <3>4. /\ SubSeq(held, 1, Len(held) - 1) \in Seq(Character)
          /\ Len(SubSeq(held, 1, Len(held) - 1)) = Len(held) - 1
      BY <1>5, <2>2, <3>1, <3>3, SubSeqProperties
    <3> QED
      BY <3>2, <3>4
  <2>4. typed' \in Seq(Character) /\ Len(typed') = Len(typed) + Len(arrived)
    BY <1>2, <1>3, <2>1, ConcatProperties
  <2>5. signals \in Seq(Pointer) /\ Len(signals) \in {0, 1}
    BY <1>2, EmptyIsSeq DEF signals
  <2>6. /\ semaphoreList' \in Seq(Pointer)
        /\ Len(semaphoreList') <= Len(semaphoreList) + 1
        /\ ended' \in {"no", "error"}
        /\ ended' = "error" => Len(semaphoreList') > ListSize
        /\ AllSemaphores /\ (\A i \in 1 .. Len(signals) : signals[i] \in Semaphore)
             => AllSemaphores'
    <3>1. semaphoreList \in Seq(Pointer) /\ Posting(signals)
      BY <1>2, <2>1
    <3>2. /\ semaphoreList' \in Seq(Pointer)
          /\ Len(semaphoreList') = Len(semaphoreList) + Len(signals)
          /\ ended' \in {"no", "error"}
          /\ ended' = "error" => Len(semaphoreList') > ListSize
          /\ AllSemaphores /\ (\A i \in 1 .. Len(signals) : signals[i] \in Semaphore)
               => AllSemaphores'
      BY <2>5, <3>1, PostingAdds
    <3>3. ASSUME NEW n \in Nat, NEW k \in {0, 1} PROVE n + k <= n + 1
      OBVIOUS
    <3>4. Len(semaphoreList) \in Nat
      BY <1>3
    <3>5. Len(semaphoreList) + Len(signals) <= Len(semaphoreList) + 1
      BY <2>5, <3>3, <3>4
    <3> QED
      BY <3>2, <3>5
  <2>7. TypeOK'
    <3>1. phase' \in {"events", "quit"}
      BY <1>1
    <3>2. buffer_index' \in Nat
      BY <1>2, <2>1, <2>2
    <3> QED
      BY <1>1, <1>2, <2>3, <2>4, <2>6, <3>1, <3>2, MemoryUntouched DEF TypeOK, Character
  <2>8. OutstandingHasPassed'
    BY <1>1 DEF IInv, OutstandingHasPassed
  <2>9. TextHeld'
    BY <2>1, <2>3 DEF TextHeld
  <2>10. CyclesLeft'
    BY <1>1 DEF CyclesLeft
  <2>11. Posted'
    <3> SUFFICES ASSUME phase = "stdin"
                 PROVE  /\ Len(semaphoreList') <= 2 /\ eventWords' = 0
                        /\ AllSemaphores' \/ NoReader'
      BY <1>1 DEF Posted
    <3>1. Len(semaphoreList) <= 1 /\ eventWords = 0 /\ AllSemaphores
      BY <1>7 DEF Posted
    <3>2. AllSemaphores' \/ NoReader'
      <4>1. CASE Len(held) > 1 /\ stdinSemaphore \notin Semaphore
        <5>1. stdinSemaphore' \notin Semaphore
          BY <1>1, <4>1
        <5>2. buffer_index' > 0
          BY <2>1, <2>2, <4>1
        <5> QED
          BY <5>1, <5>2 DEF NoReader
      <4>2. CASE ~(Len(held) > 1 /\ stdinSemaphore \notin Semaphore)
        <5>1. \A i \in 1 .. Len(signals) : signals[i] \in Semaphore
          BY <4>2, EmptyIsSeq DEF signals
        <5> QED
          BY <2>6, <3>1, <5>1
      <4> QED
        BY <4>1, <4>2
    <3>3. Len(semaphoreList') <= 2
      <4>1. Len(semaphoreList') \in Nat
        BY <2>6, LenProperties
      <4>2. \A m, n \in Nat : m <= n + 1 /\ n <= 1 => m <= 2
        OBVIOUS
      <4> QED
        BY <1>3, <2>6, <3>1, <4>1, <4>2
    <3> QED
      BY <1>1, <3>1, <3>2, <3>3
  <2>12. EndsOnlyBySignal'
    <3>1. Len(semaphoreList) <= 2 + eventWords
      BY <1>1, <1>2, <1>3, <1>7 DEF Posted
    <3>2. ended' = "error" => eventWords > ListSize - 3
      <4>1. Len(semaphoreList') \in Nat /\ Len(semaphoreList) \in Nat
        BY <1>3, <2>6, LenProperties
      <4>2. \A l, m, n, e \in Nat :
              m > l /\ m <= n + 1 /\ n <= 2 + e => e > l - 3
        OBVIOUS
      <4> QED
        BY <1>2, <2>6, <3>1, <4>1, <4>2
    <3> QED
      BY <1>1, <3>2 DEF EndsOnlyBySignal
  <2> QED
    BY <2>7, <2>8, <2>9, <2>10, <2>11, <2>12 DEF IInv
<1> QED
  BY <1>8, <1>9

LEMMA ClockInvariant ==
  ASSUME IInv, ended = "no", ClockTick
  PROVE  IInv'
<1>1. /\ ticks < MaxTicks /\ ticks' = ticks + 1
      /\ UNCHANGED <<ended, phase, cyclesLeft, semaphoreList, inputSemaphore,
                     eventWords, scheduledSemaphore, scheduledTime, memory,
                     stdinSemaphore, line, buffer_index, typed>>
  BY DEF ClockTick, loop, input, memory, stdin
<1>2. ticks' \in 0 .. MaxTicks /\ ticks \in Nat /\ scheduledTime \in Nat
  BY <1>1 DEF IInv, TypeOK
<1>3. TypeOK'
  BY <1>1, <1>2, MemoryUntouched DEF IInv, TypeOK
<1>4. OutstandingHasPassed'
  BY <1>1, <1>2 DEF IInv, OutstandingHasPassed
<1>5. TextHeld' /\ CyclesLeft' /\ Posted' /\ EndsOnlyBySignal'
  BY <1>1 DEF IInv, TextHeld, CyclesLeft, Posted, AllSemaphores,
              NoReader, NoInput, EndsOnlyBySignal
<1> QED
  BY <1>3, <1>4, <1>5 DEF IInv

LEMMA StutterInvariant ==
  ASSUME IInv, UNCHANGED vars
  PROVE  IInv'
  BY DEF vars, loop, input, timer, memory, stdin, IInv, TypeOK, OutstandingHasPassed,
         TextHeld, CyclesLeft, Posted, AllSemaphores, NoReader,
         NoInput, EndsOnlyBySignal

-----------------------------------------------------------------------------
(* The invariant holds in every state.                                     *)
THEOREM Invariant == Spec => []IInv
<1>1. ASSUME IInv, [Next]_vars PROVE IInv'
  <2>1. CASE UNCHANGED vars
    BY <1>1, <2>1, StutterInvariant
  <2>2. CASE Loop
    <3>1. CASE StartFrame
      BY <1>1, <2>2, <3>1, StartFrameInvariant DEF Loop
    <3>2. CASE Switch
      BY <1>1, <2>2, <3>2, SwitchInvariant DEF Loop
    <3>3. CASE Bytecode
      <4>1. CASE OtherBytecode \/ Mutate
        BY <1>1, <2>2, <4>1, OtherBytecodeInvariant DEF Loop
      <4>2. ASSUME NEW s \in Pointer, NEW t \in 0 .. Wrap - 1,
                   primitiveSignalAtTick(s, t)
            PROVE  IInv'
        BY <1>1, <2>2, <4>2, SignalAtTickInvariant DEF Loop
      <4>3. CASE primitiveSignalAtOopsLeftWordsLeft
        BY <1>1, <2>2, <4>3, WatchInvariant DEF Loop
      <4>4. CASE primitiveInputSemaphore \/ primitiveStdinInputSemaphore
        BY <1>1, <2>2, <4>4, SemaphoreInvariant DEF Loop
      <4>5. CASE GetStdinLine
        BY <1>1, <2>2, <4>5, GetLineInvariant DEF Loop
      <4> QED
        BY <3>3, <4>1, <4>2, <4>3, <4>4, <4>5 DEF Bytecode
    <3>4. ASSUME NEW arrived \in Texts \union {<<>>}, ReadStdin(arrived)
          PROVE  IInv'
      BY <1>1, <2>2, <3>4, ReadStdinInvariant DEF Loop
    <3> QED
      BY <2>2, <3>1, <3>2, <3>3, <3>4 DEF Loop
  <2>3. CASE ended = "no" /\ ClockTick
    BY <1>1, <2>3, ClockInvariant
  <2> QED
    BY <1>1, <2>1, <2>2, <2>3 DEF Next
<1> QED
  BY <1>1, InitInvariant, PTL DEF Spec

(* Types, whatever the devices do (main.c:34-57 and what it calls).        *)
THEOREM TypeCorrect == Spec => []TypeOK
<1>1. IInv => TypeOK
  BY DEF IInv
<1> QED
  BY <1>1, Invariant, PTL

(* The process ends over a signal only if text finds no semaphore, events  *)
(* find nil, or the events of a frame all but fill the list of signals     *)
(* (primitives.c:355-363, 393-400).                                        *)
THEOREM EndsRightly == Spec => []EndsOnlyBySignal
<1>1. IInv => EndsOnlyBySignal
  BY DEF IInv
<1> QED
  BY <1>1, Invariant, PTL
=============================================================================
