SPECIFICATION BTreeSpec
CONSTANTS
  Keys = {1, 2, 3, 4, 5, 6, 7, 8, 9}
  Dimensions = {3, 4, 5}
  Loads <- MCLoads
  Extra = 1
  MaxItems = 9
  Faults = {"malloc"}
  FaultyLoad = 5
INVARIANTS BTreeTypeOK Balanced InOrder LocatedExactly LocatesLast
PROPERTIES DictionarySpec StreamsSpec
VIEW WithoutAnswers
