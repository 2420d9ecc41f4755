SPECIFICATION BitmapSpec
CONSTANTS
  ByteBits = 2
  SectorBytes = 2
  ChunkSectors = 3
  MaxMetaFiles = 2
  Garbage <- MCGarbage
  Ranges <- MCSectors
  Searches = {}
  Faults = {}
PROPERTIES EraseKeepsRest
