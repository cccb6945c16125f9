CONSTANTS
  Song = {a, b}
  Cells = {c1, c2, c3, c4}
  None = None
  PastLimit = 2
  WantedSize = 2
  PageHeight = 4
  MaxList = 3
SPECIFICATION Spec
INVARIANTS
  WellLinked
  CrashOnlyOnEmptyList
PROPERTIES
  ListsSpec
CHECK_DEADLOCK FALSE
