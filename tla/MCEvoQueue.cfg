SPECIFICATION QueueSpec
CONSTANTS
  Producers = {p1, p2}
  Consumers = {c1}
  MaxLen = 2
  MaxClears = 3
  MaxSpurious = 1
SYMMETRY Symmetry
INVARIANTS
  QueueTypeOK
  BoundedExcess
  RoomIsNotified
  FewLeftOvers
