SPECIFICATION Spec
CONSTANTS
  a = a
  b = b
  x = x
  v = v
  w = w
  y = y
  Junk = Junk
  None = None
  SourceFiles <- MCSourceFiles
  BlockCount <- MCBlockCount
  BlockData <- MCBlockData
  Starts <- PurgeStarts
  RecoveryBlocks = 1
  Workers = {1, 2}
  Chunks = 2
  RenameOnly = {FALSE}
  OpenFails = FALSE
  Operations = {TRUE}
  MaxFaults = 1
  MaxRuns = 2
INVARIANT
  SuccessMeansRepaired
CHECK_DEADLOCK FALSE
