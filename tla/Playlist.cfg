\* A playlist of two songs, a state file with up to three, more takes and
\* deletes than the playlist holds songs.
CONSTANTS
  PlaylistSize = 2
  MaxSongs = 1
  MaxRestored = 3
  MaxPlays = 4
  MaxDeletes = 2
SPECIFICATION FairSpec
INVARIANT PlaylistBounded
PROPERTIES FilledUnlessSignalLost PlayerNotStarved
CHECK_DEADLOCK FALSE
