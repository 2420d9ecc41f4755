SPECIFICATION Spec
CONSTANTS
  CellSize = 4
  TableNum = 2
  Opens <- MCOpens
  MaxData = 7
  Values = {a, b}
  Unwritten = Unwritten
  Null = Null
  Faults = {"malloc"}
  ItemSizes = {3, 8}
  MaxCells = 4
  MaxCount = 24
  IndexIsOfItem = TRUE
PROPERTIES ItemByNumber
