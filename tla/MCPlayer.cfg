SPECIFICATION Spec
CONSTANTS
  QueueLen = 2
  FrameSizes = {0, 2, 3}
  Requests = {2, 3}
  MaxFrames = 4
  NaN = NaN
  Ms = 2
  SyncMin = 2
  SyncMax = 12
  FrameDup = 12
  MaxFrame = 32
  Refresh = 5
  FrameSteps = {8, 24}
  FirstPts = {100}
  StartTime = 1000
  Jumps = {0, 5, 29}
  Lates = {30}
  MaxUpsets = 2
  LastUpset = 2
  MaxShown = 16
  Setters = {t1, t2}
  Fields = {size, format}
  Values = {1, 2}
  MaxConverters = 2
  MaxChanges = 1
  Layouts <- McLayouts
  MaxOpens = 2
  MediaLength = 3
  MaxPos = 2
SYMMETRY Symmetry
INVARIANTS
  PlayerTypeOK
  AudioAccounted
  SettlesInSync
  ConverterAlive
  SessionSound
