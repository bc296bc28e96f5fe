SPECIFICATION PathSpec
CONSTANTS
  DmaSize = 8
  Sign = 2
  PROTECTION = 1
  MaxLate = 3
  Buffers <- MixedBuffers
  Page = 2
  Window = 4
  Megabyte = 10
  Stretch = 1
  MaxMaps = 2
INVARIANTS
  SoundPathTypeOK
  CursorsAgree
  WholeFrames
  RoomIsThere
  CopyReadsBuffer
PROPERTIES
  NothingOverwritten
  InterruptEnds
