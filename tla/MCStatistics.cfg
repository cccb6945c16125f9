CONSTANTS
  SongCount = 2
  RepeatLimit = 1
  Biases <- MCBiases
  Amounts <- MCAmounts
  InitialFiles <- MCInitialFiles
  MaxCount = 4
  MaxEvents = 2
  BiasWhileLoading = FALSE
  NoFile = NoFile
SPECIFICATION Spec
INVARIANTS
  SumsAgree
  Saved
  CountsTrue
PROPERTIES
  CountsNeverLost
CHECK_DEADLOCK FALSE
