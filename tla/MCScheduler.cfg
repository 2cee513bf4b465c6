\* The whole scheduler: safety, the policy it implements, and liveness.
SPECIFICATION FairSpec
CONSTANTS
  idle = idle
  p1 = p1
  p2 = p2
  hi = hi
  Semaphore = {s1, s2}
  Nil = Nil
  Levels = 3
  Background = idle
  MaxSmallInteger = 1
  ListSize = 2
  Process <- MCProcess
  Priority <- MCPriority
  Context <- MCContext
  Owner <- MCOwner
INVARIANTS
  TypeOK
  ListsWellFormed
  HighestPriorityRuns
  SomeProcessToWake
  NobodyWaitsForAHeldSignal
PROPERTIES
  ImplementsPolicy
  GoesOnWhereItStopped
  PostedSignalReleases
