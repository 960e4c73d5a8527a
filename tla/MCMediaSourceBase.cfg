SPECIFICATION SourceSpec
CONSTANTS
  Types = {"video", "audio"}
  Layouts <- MCLayouts
  MaxContents = 2
  MaxOpens = 4
INVARIANTS
  SourceTypeOK
  CodecsAlive
  FirstOpenIsRight
