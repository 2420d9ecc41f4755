SPECIFICATION SteadySpec
CONSTANTS
  ByteBits = 2
  SectorBytes = 2
  ChunkSectors = 4
  MaxMetaFiles = 2
  Garbage <- MCGarbage
  Ranges = {}
  Searches = {}
  SectorsPerCluster = 2
  bpb_offset = 5
  Sizes = {1, 3}
  MaxExtents = 2
  Faults = {"malloc"}
INVARIANTS Accounted ExtentsDisjoint LiveMarked
