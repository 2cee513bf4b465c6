\* Counts and collections, and the object graph the program sees.
SPECIFICATION Spec
CONSTANTS
  nil = nil
  smalltalk = smalltalk
  a = a
  b = b
  c = c
  Oop <- MCOop
  NilPointer = nil
  SmalltalkPointer = smalltalk
  Classes <- MCClasses
  Immediate = Immediate
  Sticky = 12
  Pointers = {2}
  MaxInHand = 1
SYMMETRY Symmetry
INVARIANTS
  CountsExact
  ChecksPass
  CollectionComplete
PROPERTIES
  ImplementsGraph
CHECK_DEADLOCK FALSE
