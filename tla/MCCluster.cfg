SPECIFICATION ClusterSpec
CONSTANTS
  ByteBits = 2
  SectorBytes = 2
  ChunkSectors = 4
  MaxMetaFiles = 1
  Garbage <- MCGarbage
  Ranges = {}
  Searches = {}
  SectorsPerCluster = 2
  bpb_offset = 5
  Sizes = {1, 2}
  MaxExtents = 2
  Faults = {"meta"}
INVARIANTS ClusterTypeOK ExtentsDisjoint LiveMarked
