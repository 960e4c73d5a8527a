SPECIFICATION Spec
SYMMETRY Symmetry
CONSTANTS
  RwThreads = {t1, t2, t3}
  Parties = {t1, t2, t3}
  MaxRounds = 3
  CvThreads = {t1, t2, t3}
  MaxWakes = 4
  Main = main
  Workers = {t1, t2, t3}
  Threads = {p1, p2}
  Shapes <- McShapes
  Wrap = 2
  Limit = 2
  ListLimit = 1
  MaxPackets = 2
  Size = 3
  MaxChunk = 3
  MaxRead = 2
  MaxBytes = 7
  Medias <- McMedias
  Names <- McNames
  CodecOf <- McCodecOf
  MaxOpens = 3
  Media <- McMedia
  Formats <- McFormats
  Sizes = {1, 8184, 8185}
  Steps = {0, 3, 24}
  Delays = {0, 1}
  VideoSlack = 2
  SleepWrap = 20
  Overflows = {0, 5}
  Attempts = 2
  Epoch = 50
  MaxReads = 3
  Terminators = {s1, s2}
  Statuses = {200, 404, 418}
  ServiceCalls = {200, 404}
INVARIANTS
  PartsTypeOK
  BarrierHolds
  BroadcastReaches
  UtSound
  PoolSound
  BatchSound
  SourceSound
  PutSound
  HandleAlive
PROPERTY
  IsSharedLock
