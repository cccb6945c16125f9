CONSTANTS
  PLAYER_MAX_BUFFER_SIZE = 2
  PLAYER_MAX_BUFFER_PCM_SIZE = 8
  FrameSizes = {1}
  Commands = {"SKIP"}
  SongTypes = {"known"}
  StartPositions = {0}
  PastWanted = 1
  SongLength = 2
  MaxQueued = 1
  MaxPlays = 2
SPECIFICATION FairSpec
PROPERTY SongsFinish
CHECK_DEADLOCK FALSE
