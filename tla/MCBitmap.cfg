SPECIFICATION BitmapFairSpec
CONSTANTS
  ByteBits = 2
  SectorBytes = 2
  ChunkSectors = 3
  MaxMetaFiles = 2
  Garbage <- MCGarbage
  Ranges <- MCToByteEnds
  Searches <- MCSearches
  Faults = {"malloc", "grow", "meta", "index"}
INVARIANTS TypeOK ReservedHasNoBits
PROPERTIES MapSpec WriteRecorded FoundIsFirst SearchEnds
