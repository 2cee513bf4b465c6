\* The allocator: safety.  The process may end (outOfMemoryError aborts).
SPECIFICATION Spec
CONSTANTS
  o1 = o1
  o2 = o2
  o3 = o3
  o4 = o4
  Oop <- MCOop
  HeapSegmentCount = 2
  HeapSpaceStop = 5
  BigSize = 5
  HugeSize = 6
  Requests <- MCRequestsToBig
  ImageSizes = {0, 3, 5}
  MaxFreeWords = 12
SYMMETRY Symmetry
CHECK_DEADLOCK FALSE
INVARIANTS
  NoOverlap
  ContentsIntact
  EntriesAccountedFor
  OopsLeftExact
  NoWordLost
  OutOfMemoryOnlyIfFull
  CoreLeftNotUnderstated
