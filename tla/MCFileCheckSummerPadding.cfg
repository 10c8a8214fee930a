SPECIFICATION Spec
CONSTANTS
  BlockSize = 3
  MaxFileSize = 10
  Limit16k = 5
  Byte <- MCByte
  Zero = 0
  Uninit = Uninit
  Stray = Stray
  FileContents <- MCFileContents
  Distance <- MCDistance
INVARIANT
  WindowZeroPadded
CHECK_DEADLOCK FALSE
