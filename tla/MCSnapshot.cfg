\* Saving an image and loading it, with crashes and failing writes.  An
\* image may be lost, and then nothing starts any more.
SPECIFICATION Spec
CONSTANTS
  LastOop = 4
  SegmentCount = 2
  SegmentSize = 7
  HugeSize = 4
  Page = 6
  AddressSize = 5
  Memories <- MCMemories
CHECK_DEADLOCK FALSE
INVARIANTS
  LoadsSavedOrNothing
  LoadedMemorySound
  RefusedOnlyIfFull
