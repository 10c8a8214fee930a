SPECIFICATION Spec
CONSTANTS
  a = a
  b = b
  u = u
  v = v
  w = w
  Junk = Junk
  None = None
  SourceFiles <- MCSourceFiles
  BlockCount <- MCBlockCount
  BlockData <- MCBlockData
  DiskFiles = {a, b}
  Contents <- MCContents
INVARIANT
  LocationsTrue
CHECK_DEADLOCK FALSE
