\* Three songs back to back, all commands, a buffer of three frames that the
\* byte limit can close first.
CONSTANTS
  PLAYER_MAX_BUFFER_SIZE = 3
  PLAYER_MAX_BUFFER_PCM_SIZE = 4
  FrameSizes <- MCFrameSizes
  Commands = {"SKIP", "STOP", "PAUSE", "PLAY"}
  SongTypes = {"known", "unknown"}
  StartPositions = {0}
  PastWanted = 2
  SongLength = 2
  MaxQueued = 1
  MaxPlays = 3
SPECIFICATION Spec
INVARIANTS TypeOK BufferBounded NoUseAfterClose BufferIsOneSong CreditedOnce
  PastIsHistory BytesAreCounted
CHECK_DEADLOCK FALSE
