SPECIFICATION Spec
CONSTANTS
  a = a
  b = b
  x = x
  v = v
  w = w
  y = y
  Junk = Junk
  None = None
  SourceFiles <- MCSourceFiles
  BlockCount <- TwinBlockCount
  BlockData <- TwinBlockData
  Starts <- TwinStarts
  RecoveryBlocks = 1
  Workers = {1, 2}
  Chunks = 2
  RenameOnly = {TRUE, FALSE}
  OpenFails = TRUE
  Operations = {TRUE, FALSE}
  MaxFaults = 1
  MaxRuns = 2
INVARIANTS
  LocationsTrue
  BlocksCounted
  SuccessMeansRepaired
  PossibleMeansRepaired
CHECK_DEADLOCK FALSE
