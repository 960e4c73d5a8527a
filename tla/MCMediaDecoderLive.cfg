SPECIFICATION FairSpec
CONSTANTS
  Producers = {p1}
  Consumers = {c1}
  MaxLen = 1
  MaxClears = 4
  MaxSpurious = 1
  StreamLen = 2
  CodecDelay = 0
PROPERTY
  SeekReturnsOrDecodeStranded
