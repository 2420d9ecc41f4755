SPECIFICATION DiskSpec
CONSTANTS
  ChunkSectors = 1
  MaxFiles = 3
  Requests <- MCSteps
  Values = {1}
  NoFile = NoFile
  Faults = {"grow"}
PROPERTIES DeviceSpec
