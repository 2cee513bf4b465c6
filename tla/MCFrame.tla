-------------------------------- MODULE MCFrame --------------------------------
(***************************************************************************)
(* Small instance of Frame: one semaphore serves all the devices.          *)
(***************************************************************************)
EXTENDS Frame

CONSTANT a

MCTexts == {<<a>>, <<a, a>>}

(* Bounds on what the image asks for and the host sends, never on what the *)
(* loop does about it: of the timer, the memory, the text and the          *)
(* semaphores one at a time goes beyond the simplest case.                 *)
TimerVaries == scheduledTime # 0 \/ ticks > 0
MemoryVaries ==
  \/ Cardinality({r \in Resource : left[r] < MaxLeft}) > 1
  \/ Cardinality({watch.limit[r] : r \in Resource}) > 1
  \/ \E r \in Resource : excess[r] > 0
TextVaries == Len(typed) > 2
SemaphoreVaries == NilPointer \in {inputSemaphore, stdinSemaphore}
Varying == <<TimerVaries, MemoryVaries, TextVaries, SemaphoreVaries>>
OneVaries == Cardinality({d \in 1 .. 4 : Varying[d]}) <= 1
=============================================================================
