\* A huge pointer object is freed, and collected before its chunk is reused.  The process may end (outOfMemoryError aborts).
SPECIFICATION Spec
CONSTANTS
  o1 = o1
  o2 = o2
  o3 = o3
  o4 = o4
  Oop <- MCOop
  HeapSegmentCount = 2
  HeapSpaceStop = 6
  BigSize = 3
  HugeSize = 4
  Requests <- MCRequests
  ImageSizes = {0, 3, 5}
  MaxFreeWords = 14
SYMMETRY Symmetry
CHECK_DEADLOCK FALSE
INVARIANT
  ChunkSizeActual
