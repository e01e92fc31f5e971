CONSTANTS
  Images <- MCImages
  ImageSize <- MCSize
  WordBytes = 2
  ChunkWords = 3
  SectorBytes = 4
  MinSectors = 1
  MaxSectors = 3
  MaxReplies = 2
  MaxRuns = 6
SPECIFICATION FairSpec
INVARIANTS TypeOK SuccessMeansFlashed EraseFitsImage OthersUntouched
PROPERTY RunEnds
CHECK_DEADLOCK FALSE
