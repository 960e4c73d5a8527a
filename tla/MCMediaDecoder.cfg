SPECIFICATION Spec
CONSTANTS
  Producers = {p1, p2}
  Consumers = {c1}
  MaxLen = 1
  MaxClears = 4
  MaxSpurious = 1
  StreamLen = 2
  CodecDelay = 1
SYMMETRY Symmetry
INVARIANTS
  TypeOK
  NoStaleFrame
  EndIsTheEnd
  OneExtraFrame
