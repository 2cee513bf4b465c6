\* Messages, blocks and returns.
SPECIFICATION Spec
CONSTANTS
  c1 = c1
  c2 = c2
  c3 = c3
  c4 = c4
  Sub = Sub
  Super = Super
  do = do
  dnu = dnu
  cannot = cannot
  Context <- MCContext
  NilPointer = nil
  Class = {Sub, Super}
  superclass <- MCsuperclass
  Selector <- MCSelector
  doesNotUnderstand = dnu
  cannotReturn = cannot
  contextClass = Super
  arguments <- MCarguments
  slotOf <- MCslotOf
  Dictionaries <- MCDictionaries
  PerformArguments = {0, 1, 2}
  MaxDepth = 3
CONSTRAINT FewThings
SYMMETRY Symmetry
CHECK_DEADLOCK FALSE
INVARIANTS
  MessagesFindMethods
PROPERTIES
  ReturnsToTheLiving
  AnswerInPlace
