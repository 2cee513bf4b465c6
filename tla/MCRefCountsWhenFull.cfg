\* The collection may come within an allocation that has counted a class up.
SPECIFICATION Spec
CONSTANTS
  nil = nil
  smalltalk = smalltalk
  a = a
  b = b
  c = c
  Oop <- MCFewOops
  NilPointer = nil
  SmalltalkPointer = smalltalk
  Classes <- MCFewOops
  Immediate = Immediate
  Sticky = 12
  Pointers = {2}
  MaxInHand = 1
SYMMETRY FewSymmetry
INVARIANTS
  ChecksPass
CHECK_DEADLOCK FALSE
