SPECIFICATION FairSpec
CONSTANTS
  a = a
  b = b
  c = c
  d = d
  None = None
  Bits = 4
  Generator = 19
  Align = 2
  TargetBlocks = 4
  MaxBlocks = 8
  MaxExponents = 16
  ShortFile = 3
  MaxChunk = 4
  MaxFaults = 1
  MaxChanges = 1
  Asks <- MCAsks
INVARIANTS
  TypeOK
  BlockSizeFits
  VolumesFit
  PacketsOnDiskTrue
  HashesAgree
  RecoveryRepairs
  SolvableWithoutGaps
PROPERTY
  CreateEnds
CHECK_DEADLOCK FALSE
