------------------------------ MODULE Playlist ------------------------------
(***************************************************************************)
(* Keeping the playlist full: the playlist_manager thread, the start-up    *)
(* thread setup_database that releases it, the player that takes songs off *)
(* the playlist and the user who deletes them.                             *)
(*                                                                         *)
(* A critical section under song_queue.lock is one action, except where    *)
(* the manager lets go of database_info.lock while it still holds          *)
(* song_queue.lock, which is a step of its own.  The manager's broadcast   *)
(* after unlocking is a step of its own too; the others are merged with    *)
(* the change they announce, which a thread that starts to wait in between *)
(* has seen.                                                               *)
(***************************************************************************)
EXTENDS Naturals

CONSTANTS
  PlaylistSize,   (* config.playlist_manager_playlist_size                 *)
  MaxSongs,       (* bound: songs in the database                          *)
  MaxRestored,    (* bound: songs named by the state file                  *)
  MaxPlays,       (* bound: songs the player takes                         *)
  MaxDeletes      (* bound: songs the user deletes                         *)

ASSUME PlaylistAssumption ==
  {PlaylistSize, MaxSongs, MaxRestored, MaxPlays, MaxDeletes} \subseteq Nat

VARIABLES
  size, wanted_size,           (* song_queue                               *)
  song_count, stats_loaded,    (* database_info                            *)
  setup,                       (* where setup_database is                  *)
  raw,                         (* songs load_state() has still to queue    *)
  manager,                     (* where playlist_manager is                *)
  player,                      (* the player, as far as the playlist goes  *)
  plays, deletes,              (* how much of the bounds is used up        *)
  restored                     (* history: songs load_state() has queued   *)

vars == <<size, wanted_size, song_count, stats_loaded, setup, raw, manager,
          player, plays, deletes, restored>>

SetupSteps == {"load", "restore", "release", "stats", "signal", "done"}
ManagerSteps == {"first", "firstWait", "loop", "notFullWait", "needStats",
                 "statsWait", "checkStats", "added", "error"}
PlayerSteps == {"stopped", "ready", "notEmptyWait", "busy"}

TypeOK ==
  /\ size \in Nat /\ wanted_size \in Nat /\ song_count \in Nat
  /\ stats_loaded \in BOOLEAN
  /\ setup \in SetupSteps /\ manager \in ManagerSteps /\ player \in PlayerSteps
  /\ raw \in Nat /\ restored \in Nat /\ plays \in Nat /\ deletes \in Nat

Init ==
  /\ size = 0 /\ wanted_size = 0
  /\ song_count = 0 /\ stats_loaded = FALSE
  /\ setup = "load" /\ raw = 0 /\ restored = 0
  /\ manager = "first" /\ player = "stopped"
  /\ plays = 0 /\ deletes = 0

(* Between letting go of the database and waiting for the statistics the   *)
(* manager holds song_queue.lock; squash_error() ends the program.         *)
QueueUnlocked == manager # "needStats"
Running == manager # "error"

Woken(pc, wait, next) == IF pc = wait THEN next ELSE pc
NoWakeup == manager                                               (* Mutant *)
AfterNotFull ==
  Woken(Woken(manager, "firstWait", "first"), "notFullWait", "loop")
NoPlayerWakeup == player                                          (* Mutant *)
AfterNotEmpty == Woken(player, "notEmptyWait", "ready")
AfterStatsFinished == Woken(manager, "statsWait", "checkStats")

-----------------------------------------------------------------------------
(* setup_database(): load the file names and start the player;             *)
(* load_state() queues the songs of the state file one by one, those the   *)
(* database still has; then the manager is released; then the statistics   *)
(* are loaded and announced.                                               *)

LoadDatabase ==
  /\ Running /\ setup = "load"
  /\ song_count' \in 0..MaxSongs
  /\ raw' \in 0..MaxRestored
  /\ setup' = "restore"
  /\ player' = "ready"
  /\ UNCHANGED <<size, wanted_size, stats_loaded, manager, plays, deletes,
                 restored>>

LoadStateEntry(found) ==
  /\ Running /\ setup = "restore" /\ raw > 0
  /\ QueueUnlocked
  /\ found => song_count > 0
  /\ raw' = raw - 1
  /\ size' = IF found THEN size + 1 ELSE size
  /\ restored' = IF found THEN restored + 1 ELSE restored
  /\ player' = AfterNotEmpty
  /\ UNCHANGED <<wanted_size, song_count, stats_loaded, setup, manager, plays,
                 deletes>>

StateLoaded ==
  /\ Running /\ setup = "restore" /\ raw = 0
  /\ setup' = "release"
  /\ UNCHANGED <<size, wanted_size, song_count, stats_loaded, raw, manager,
                 player, plays, deletes, restored>>

ReleaseManager ==
  /\ Running /\ setup = "release"
  /\ QueueUnlocked
  /\ wanted_size' = PlaylistSize
  /\ manager' = AfterNotFull
  /\ setup' = "stats"
  /\ UNCHANGED <<size, song_count, stats_loaded, raw, player, plays, deletes,
                 restored>>

start_song_picker ==
  /\ Running /\ setup = "stats"
  /\ stats_loaded' = TRUE
  /\ setup' = "signal"
  /\ UNCHANGED <<size, wanted_size, song_count, raw, manager, player, plays,
                 deletes, restored>>

SignalStatsFinished ==
  /\ Running /\ setup = "signal"
  /\ manager' = AfterStatsFinished
  /\ setup' = "done"
  /\ UNCHANGED <<size, wanted_size, song_count, stats_loaded, raw, player,
                 plays, deletes, restored>>

-----------------------------------------------------------------------------
(* playlist_manager()                                                      *)

EnoughOneOver == size > wanted_size                               (* Mutant *)
Enough == size >= wanted_size

ManagerGoesTo(step) ==
  /\ manager' = step
  /\ UNCHANGED <<size, wanted_size, song_count, stats_loaded, setup, raw,
                 player, plays, deletes, restored>>

FirstWait ==
  /\ manager = "first"
  /\ ManagerGoesTo(IF Enough THEN "firstWait" ELSE "loop")

WaitNotFull ==
  /\ manager = "loop" /\ Enough
  /\ ManagerGoesTo("notFullWait")

DatabaseEmpty ==
  /\ manager = "loop" /\ ~Enough /\ song_count = 0
  /\ ManagerGoesTo("error")

AddSong ==
  /\ stats_loaded
  /\ size' = size + 1
  /\ manager' = "added"
  /\ UNCHANGED <<wanted_size, song_count, stats_loaded, setup, raw, player,
                 plays, deletes, restored>>

(* stats_loaded is read with the database locked, which is then unlocked   *)
(* before the manager waits.                                               *)
StatsMissing ==
  /\ ~stats_loaded
  /\ ManagerGoesTo("needStats")

QueueSong ==
  /\ manager = "loop" /\ ~Enough /\ song_count > 0
  /\ AddSong \/ StatsMissing

WaitForStats ==
  /\ manager = "needStats"
  /\ ManagerGoesTo("statsWait")

CheckStatsAgain ==
  /\ manager = "checkStats"
  /\ AddSong \/ StatsMissing

SignalNotEmpty ==
  /\ manager = "added"
  /\ manager' = "loop"
  /\ player' = AfterNotEmpty
  /\ UNCHANGED <<size, wanted_size, song_count, stats_loaded, setup, raw, plays,
                 deletes, restored>>

-----------------------------------------------------------------------------
(* The player's STATE_BEFORE_SONG, and the rest of its loop as one step.   *)

get_next_song_info ==
  /\ Running /\ player = "ready" /\ QueueUnlocked
  /\ size > 0 /\ plays < MaxPlays
  /\ size' = size - 1
  /\ plays' = plays + 1
  /\ player' = "busy"
  /\ manager' = AfterNotFull
  /\ UNCHANGED <<wanted_size, song_count, stats_loaded, setup, raw, deletes,
                 restored>>

WaitNotEmpty ==
  /\ Running /\ player = "ready" /\ QueueUnlocked
  /\ size = 0
  /\ player' = "notEmptyWait"
  /\ UNCHANGED <<size, wanted_size, song_count, stats_loaded, setup, raw,
                 manager, plays, deletes, restored>>

SongOver ==
  /\ Running /\ player = "busy"
  /\ player' = "ready"
  /\ UNCHANGED <<size, wanted_size, song_count, stats_loaded, setup, raw,
                 manager, plays, deletes, restored>>

do_delete ==
  /\ Running /\ QueueUnlocked
  /\ size > 0 /\ deletes < MaxDeletes
  /\ size' = size - 1
  /\ deletes' = deletes + 1
  /\ manager' = AfterNotFull
  /\ UNCHANGED <<wanted_size, song_count, stats_loaded, setup, raw, player,
                 plays, restored>>

-----------------------------------------------------------------------------
SetupStep ==
  \/ LoadDatabase \/ StateLoaded \/ ReleaseManager \/ start_song_picker
  \/ SignalStatsFinished
  \/ \E found \in BOOLEAN : LoadStateEntry(found)
ManagerStep ==
  \/ FirstWait \/ WaitNotFull \/ DatabaseEmpty \/ QueueSong \/ WaitForStats
  \/ CheckStatsAgain \/ SignalNotEmpty
PlayerStep == get_next_song_info \/ WaitNotEmpty \/ SongOver

Next == SetupStep \/ ManagerStep \/ PlayerStep \/ do_delete

Spec == Init /\ [][Next]_vars
FairSpec == Spec /\ WF_vars(SetupStep) /\ WF_vars(ManagerStep) /\ WF_vars(PlayerStep)

-----------------------------------------------------------------------------
(* The manager never overfills the playlist: it holds at most wanted_size  *)
(* songs, or the songs of the state file if there were more, although the  *)
(* manager forgets the size it has checked when it waits for statistics.   *)
PlaylistBounded ==
  size <= IF restored > wanted_size THEN restored ELSE wanted_size

(* The one wakeup the manager can miss: it waits for statistics that have  *)
(* been loaded and announced.                                              *)
StatsSignalLost == manager = "statsWait" /\ setup = "done"

(* Apart from that missed wakeup no wakeup is lost between manager, player *)
(* and user: once the deleting and playing stop the playlist is full and   *)
(* stays full, whichever thread got to its wait first.                     *)
FilledUnlessSignalLost ==
  <>[]((size >= wanted_size /\ setup = "done") \/ StatsSignalLost \/ ~Running)

(* A player that waits for songs is woken when the playlist has some.      *)
PlayerNotStarved == [](player = "notEmptyWait" /\ size > 0 => <>(player # "notEmptyWait"))

(* "This routine ensures that there is always song_queue.wanted_size       *)
(* entries on the playlist" (playlist_manager.c).                          *)
PlaylistKeptFull == <>[](size >= wanted_size \/ ~Running)

=============================================================================
