\* The traversal, from every heap with right counts or marks.
SPECIFICATION Spec
CONSTANTS
  a = a
  b = b
  c = c
  Oop <- MCOop
  Huge <- MCHuge
  Immediate = Immediate
  NonPointer = NonPointer
  Sticky = 3
  Pointers = {1, 2}
INVARIANTS
  ChainIntact
  CountDownFreesExactly
  MarksExactlyReached
CHECK_DEADLOCK FALSE
