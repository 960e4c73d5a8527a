SPECIFICATION FairSpec
CONSTANTS
  Size = 2
  MaxChunk = 2
  MaxRead = 2
  MaxBytes = 3
  MaxGets = 2
  MaxCalls = 2
PROPERTY
  StopReturns
\* The caller may destroy the object, and the bounds stop the rest.
CHECK_DEADLOCK FALSE
