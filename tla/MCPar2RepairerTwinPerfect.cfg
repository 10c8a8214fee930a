SPECIFICATION Spec
CONSTANTS
  a = a
  b = b
  x = x
  v = v
  w = w
  y = y
  Junk = Junk
  None = None
  SourceFiles <- MCSourceFiles
  BlockCount <- TwinBlockCount
  BlockData <- TwinBlockData
  Starts <- TwinStarts
  RecoveryBlocks = 1
  Workers = {1}
  Chunks = 2
  RenameOnly = {FALSE}
  OpenFails = FALSE
  Operations = {TRUE}
  MaxFaults = 1
  MaxRuns = 2
INVARIANT
  PerfectTargetFound
CHECK_DEADLOCK FALSE
