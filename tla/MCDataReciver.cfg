SPECIFICATION Spec
CONSTANTS
  Types = {"video", "audio", "other"}
  Layouts <- MCLayouts
  MaxContents = 2
  MaxOpens = 4
INVARIANTS
  TypeOK
  OneLiveCodec
  DecodesItsKind
  CrashNeedsStaleIndex
\* The program crashes, or the object is destroyed.
CHECK_DEADLOCK FALSE
