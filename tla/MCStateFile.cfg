CONSTANTS
  a = a
  b = b
  gone = gone
  Known = {a, b}
  Gone = {gone}
  Screens = {normal, changed}
  Normal = normal
  InitialFiles <- MCInitialFiles
  MaxPosition = 2
  MaxList = 1
  MaxStuck = 1
  MaxStarts = 2
SPECIFICATION FairSpec
INVARIANTS
  QuitKeepsPlaylist
PROPERTIES
  MemorySpec
  
CHECK_DEADLOCK FALSE
