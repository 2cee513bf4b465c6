\* The devices that the main loop polls.  The process may end.
SPECIFICATION Spec
CONSTANTS
  a = a
  Semaphore = {s}
  NoSemaphore = none
  NilPointer = nil
  Resource = {words, oops}
  Recounted = {words}
  MaxLeft = 1
  Wrap = 2
  MaxTicks = 1
  Texts <- MCTexts
  BufferSize = 3
  EventWords = 2
  CyclesPerFrame = 2
  ListSize = 4
CONSTRAINT OneVaries
CHECK_DEADLOCK FALSE
INVARIANTS
  EndsOnlyBySignal
PROPERTIES
  WarningComes
