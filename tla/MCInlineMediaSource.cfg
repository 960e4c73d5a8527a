SPECIFICATION Spec
CONSTANTS
  Size = 3
  MaxChunk = 3
  MaxRead = 2
  MaxBytes = 5
  MaxGets = 2
  MaxCalls = 2
INVARIANTS
  TypeOK
  InOrder
  NoLostWakeup
  NoMutualWait
  ThreadsGone
PROPERTY
  IsChannel
\* The caller may destroy the object, and the bounds stop the rest.
CHECK_DEADLOCK FALSE
