\* Pause and play only.  Two songs that may start in the middle.
CONSTANTS
  PLAYER_MAX_BUFFER_SIZE = 2
  PLAYER_MAX_BUFFER_PCM_SIZE = 4
  FrameSizes <- MCFrameSizes
  Commands <- MCPauseAndPlay
  SongTypes = {"known"}
  StartPositions = {0, 1}
  PastWanted = 1
  SongLength = 3
  MaxQueued = 2
  MaxPlays = 2
SPECIFICATION FairSpec
INVARIANT WholeSongPlayed
PROPERTIES ListenerSpec SongsFinish CommandsObeyed
