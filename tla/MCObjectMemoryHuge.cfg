\* Pointer objects of the huge size, collected only when memory is full;
\* termination.  The process may end (outOfMemoryError aborts).
SPECIFICATION CollectWhenFull
CONSTANTS
  o1 = o1
  o2 = o2
  o3 = o3
  o4 = o4
  Oop = {o1, o2, o3}
  HeapSegmentCount = 2
  HeapSpaceStop = 6
  BigSize = 3
  HugeSize = 4
  Requests <- MCRequests
  ImageSizes = {0, 3, 5}
  MaxFreeWords = 14
CHECK_DEADLOCK FALSE
PROPERTIES
  AllocationEnds
