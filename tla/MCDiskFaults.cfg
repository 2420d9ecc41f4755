SPECIFICATION DiskSpec
CONSTANTS
  ChunkSectors = 1
  MaxFiles = 2
  Requests <- MCFaulty
  Values = {1}
  NoFile = NoFile
  Faults = {"malloc", "open", "grow", "io"}
PROPERTIES DeviceSpec
