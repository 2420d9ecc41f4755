SPECIFICATION DiskFairSpec
CONSTANTS
  ChunkSectors = 2
  MaxFiles = 3
  Requests <- MCRequests
  Values = {1}
  NoFile = NoFile
  Faults = {}
INVARIANTS DiskTypeOK NeverWild NoGaps
PROPERTIES DeviceSpec CallsEnd
