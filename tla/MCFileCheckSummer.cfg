SPECIFICATION FairSpec
CONSTANTS
  BlockSize = 3
  MaxFileSize = 10
  Limit16k = 5
  Byte <- MCByte
  Zero = 0
  Uninit = Uninit
  Stray = Stray
  FileContents <- MCFileContents
  Distance <- MCDistance
INVARIANTS
  TypeOK
  PointersAgree
  WindowShowsFile
  ChecksumTracksWindow
  HashesCoverFile
  JumpStaysInBuffer
PROPERTIES
  MovesAtMostOneBlock
  ScanEnds
CHECK_DEADLOCK FALSE
