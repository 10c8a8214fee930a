CONSTANTS
  Disks <- MCDisks
  ParFilenames <- MCParFilenames
  ExtraFiles <- MCExtraFiles
  Par2Words <- MCPar2Words
  VolumeWords <- MCVolumeWords
  HeaderSize = 4
  FieldsSize = 4
  EntrySize = 4
  MaxEntries = 3
  MaxText = 8
  ShortFile = 16
  BufferSize = 7
  MaxU32 = 3
  OpenFails = TRUE
  MaxFaults = 1
  None = None
SPECIFICATION FairSpec
INVARIANTS
  TypeOK
  LoadedIsUnion
  RecoveryPacketsKept
  EntriesOwnTheirBlocks
  CriticalPacketsSuffice
PROPERTY LoadingEnds
