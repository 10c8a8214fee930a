SPECIFICATION Spec
CONSTANTS
  a = a
  b = b
  x = x
  v = v
  w = w
  y = y
  Junk = Junk
  None = None
  SourceFiles <- LogSourceFiles
  BlockCount <- LogBlockCount
  BlockData <- LogBlockData
  Starts <- LogStarts
  RecoveryBlocks = 1
  Workers = {1, 2}
  Chunks = 2
  RenameOnly = {FALSE}
  OpenFails = FALSE
  Operations = {TRUE}
  MaxFaults = 1
  MaxRuns = 2
INVARIANT
  InsertSucceeds
CHECK_DEADLOCK FALSE
