SPECIFICATION QueueFairSpec
CONSTANTS
  Producers = {p1}
  Consumers = {c1}
  MaxLen = 2
  MaxClears = 3
  MaxSpurious = 1
PROPERTY
  EnqueueReturnsOrStranded
