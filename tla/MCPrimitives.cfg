\* The primitives: what they answer, and what they leave behind.  The
\* process may end (a division by zero, a check of the object memory).
SPECIFICATION Spec
CONSTANTS
  SmallMax = 3
  IntBits = 6
  ByteSize = 4
  ContextSize = 10
  Integers_ <- MCIntegers
  InitialMemories <- MCMemories
CONSTRAINT FewChanges
CHECK_DEADLOCK FALSE
INVARIANTS
  ArithmeticExact
  BitsExact
  StoreReadsBack
PROPERTIES
  CallsBalance
