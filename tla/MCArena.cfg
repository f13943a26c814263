CONSTANTS
  Word = 32
  PageSize = 4
  MinChunk = 4
  MaxStep = 4
  MinAlign = 1
  DefaultAlign = 2
  Bases <- MCBases
  Requests <- MCRequests
  FileSizes <- MCFileSizes
  AddrLimit = 26
  Sizes <- MCSizes
  Aligns <- MCAligns
  MaxBlocks = 2
  MaxSaves = 1
SPECIFICATION Spec
INVARIANTS TypeOK BlocksDisjoint BlocksReadable WasteBounded HandlesHeld TempStaysScratch
PROPERTY FailedCallsTidy
