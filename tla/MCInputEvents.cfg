\* From an event to the reader in the image, with a queue that grows.
SPECIFICATION Spec
CONSTANTS
  QSizeInitial = 2
  MaxWords = 6
  MaxSmallInteger = 5
INVARIANTS
  WordForEverySignal
  ReaderInStep
PROPERTIES
  ImplementsLossy
