------------------------------ MODULE StateFile ------------------------------
(***************************************************************************)
(* The state file: save_state() (global.c), called by state_saver() every  *)
(* two minutes and by main() at the end, and load_state() (global_squash.c)*)
(* at the start, with the threads that change what is saved.               *)
(*                                                                         *)
(* state_info.lock is modelled as such, because its holders do things in   *)
(* between.  The other locks are held for one action, except where moving  *)
(* and stuck say otherwise.                                                *)
(***************************************************************************)
EXTENDS Naturals, FiniteSets, Sequences, SequencesExt

CONSTANTS
  Known, Gone,     \* songs in the database, songs only the state file knows
  Screens, Normal, \* states of the windows (the brightness on the empeg)
  InitialFiles,    \* state files squash is started with for the first time
  MaxPosition,     \* bound: position in a song
  MaxList,         \* bound: length of the playlist
  MaxStuck,        \* bound: locks that cancelled threads have kept
  MaxStarts        \* bound: starts of squash

Songs == Known \cup Gone
Entry == [song: Songs, position: 0..MaxPosition]
\* torn: the text ends right behind the "=" of a number
Files == [songs: Seq(Entry), screen: Screens, torn: BOOLEAN]
None == [song |-> "none"]

ASSUME StateFileAssumption ==
  /\ Normal \in Screens
  /\ InitialFiles \subseteq Files
  /\ MaxPosition \in Nat /\ MaxList \in Nat /\ MaxStuck \in Nat /\ MaxStarts \in Nat \ {0}
  /\ "none" \notin Songs

VARIABLES
  file,          \* the state file
  raw_songs, current_song, window_states,   \* state_info; window_states one value
  state_lock,    \* holder of state_info.lock
  queue,         \* song_queue, without what the manager knows of it
  moving,        \* taken off the queue, not yet in player_info
  playing,       \* player_info.song and current_position, which outlive the song
  in_song,       \* play_state = STATE_IN_SONG
  screen,        \* display_info.window[].state
  setup, saver, main,   \* where setup_database(), state_saver() and main() are
  stuck,         \* locks of threads that were cancelled while they held them
  config,        \* db_readonly, and which build this is
  early,         \* history: was a save begun before everything was restored?
  starts

vars == <<file, raw_songs, current_song, window_states, state_lock, queue, moving, playing,
          in_song, screen, setup, saver, main, stuck, config, early, starts>>
state_info == <<raw_songs, current_song, window_states>>
lists == <<queue, moving, playing, in_song>>
threads == <<setup, saver, main>>

------------------------------------------------------------------------------
IsKnown(e) == e.song \in Known
KnownOf(s) ==
  LET kept[i \in 0..Len(s)] ==
        IF i = 0 THEN <<>>
        ELSE IF IsKnown(s[i]) THEN Append(kept[i - 1], s[i]) ELSE kept[i - 1]
  IN kept[Len(s)]
One(e) == IF e = None THEN <<>> ELSE <<e>>

\* Mutant: the song being played is not written.
ContentNoPlaying ==
  [songs |-> queue \o SubSeq(raw_songs, current_song + 1, Len(raw_songs)), screen |-> screen,
   torn |-> FALSE]

\* What save_state() writes: the current song, be it over or not, the playlist, and
\* what load_state() has still to restore.
Content ==
  [songs |-> One(playing) \o queue \o SubSeq(raw_songs, current_song + 1, Len(raw_songs)),
   screen |-> screen, torn |-> FALSE]

Empty == [songs |-> <<>>, screen |-> Normal, torn |-> FALSE]

\* The numbers that the first digits of a number may be.
CutNumber(n) == IF n = 0 THEN {0} ELSE 1..n

\* What parse_file() and load_state_callback() make of the beginnings of the text: it
\* may end behind the songs, or behind some of them (the name or the key that follows
\* is ignored), or within the digits of a position.
CutFiles(f) ==
  {[songs |-> f.songs, screen |-> sc, torn |-> t] : sc \in Screens, t \in BOOLEAN}
  \cup {[songs |-> SubSeq(f.songs, 1, n), screen |-> Normal, torn |-> t] :
           n \in 0..Len(f.songs), t \in BOOLEAN}
  \cup UNION {{[songs |-> Append(SubSeq(f.songs, 1, n - 1), [f.songs[n] EXCEPT !.position = p]),
                screen |-> Normal, torn |-> FALSE] :
                  p \in CutNumber(f.songs[n].position)} : n \in 1..Len(f.songs)}

InSession(f) ==
  /\ raw_songs = <<>> /\ current_song = 0 /\ window_states = Normal
  /\ state_lock = "none"
  /\ queue = <<>> /\ moving = None /\ playing = None /\ in_song = FALSE
  /\ screen = Normal
  /\ setup = "names" /\ saver = "asleep" /\ main = "running"
  /\ stuck = {}
  /\ early = FALSE

Init ==
  /\ file \in InitialFiles
  /\ InSession(file)
  /\ config \in [readonly: BOOLEAN, empeg: BOOLEAN]
  /\ starts = 1

\* state_saver() holds every lock from fopen() to fclose(), and for ever if it is
\* cancelled there.
AllLocked == saver \in {"saving", "cancelled"}
Cancelled == main # "running"
Alive == main \notin {"ended", "crashed"}

------------------------------------------------------------------------------
\* Mutant: the lock is kept.
NoUnlock == UNCHANGED state_lock
Unlock == state_lock' = "none"

\* setup_database(), which no one cancels, and the locks it takes besides state_info.
SetupNeeds ==
  CASE setup = "names" -> {"display", "database"}
    [] setup = "loading" /\ config.empeg -> {"display"}
    [] setup = "copying" -> {"display"}
    [] setup = "restoring" /\ current_song < Len(raw_songs) -> {"database", "song_queue"}
    [] OTHER -> {}
SetupHasLocks == SetupNeeds \cap stuck = {}

LoadDbFilenames ==
  /\ setup = "names" /\ SetupHasLocks
  /\ setup' = "load"
  /\ UNCHANGED <<file, state_info, state_lock, lists, screen, saver, main, stuck, config, early, starts>>

\* load_state() takes state_info.lock three times, or more.
LockState ==
  /\ setup \in {"load", "windows", "restore"} /\ state_lock = "none"
  /\ state_lock' = "setup"
  /\ setup' = [load |-> "loading", windows |-> "copying", restore |-> "restoring"][setup]
  /\ UNCHANGED <<file, state_info, lists, screen, saver, main, stuck, config, early, starts>>

LoadState ==
  /\ setup = "loading" /\ SetupHasLocks /\ ~file.torn
  /\ raw_songs' = file.songs /\ current_song' = 0
  /\ window_states' = file.screen
  /\ IF config.empeg THEN setup' = "restore" /\ screen' = file.screen
                     ELSE setup' = "windows" /\ UNCHANGED screen
  /\ Unlock
  /\ UNCHANGED <<file, lists, saver, main, stuck, config, early, starts>>

\* atol() is given the value NULL of a key that nothing follows.
LoadTornState ==
  /\ setup = "loading" /\ file.torn
  /\ main' = "crashed"
  /\ UNCHANGED <<file, state_info, state_lock, lists, screen, setup, saver, stuck, config, early, starts>>

CopyWindows ==
  /\ setup = "copying" /\ SetupHasLocks
  /\ screen' = window_states
  /\ setup' = "restore"
  /\ Unlock
  /\ UNCHANGED <<file, state_info, lists, saver, main, stuck, config, early, starts>>

Restore(e) == queue' = IF IsKnown(e) THEN Append(queue, e) ELSE queue

RestoreSong ==
  /\ setup = "restoring" /\ SetupHasLocks /\ moving = None
  /\ current_song < Len(raw_songs)
  /\ Restore(raw_songs[current_song + 1])
  /\ current_song' = current_song + 1
  /\ Unlock
  /\ setup' = "restore"
  /\ UNCHANGED <<file, raw_songs, window_states, moving, playing, in_song, screen, saver, main,
                 stuck, config, early, starts>>

StateLoaded ==
  /\ setup = "restoring"
  /\ current_song >= Len(raw_songs)
  /\ raw_songs' = <<>> /\ current_song' = 0
  /\ Unlock
  /\ setup' = "done"
  /\ UNCHANGED <<file, window_states, lists, screen, saver, main, stuck, config, early, starts>>

------------------------------------------------------------------------------
\* save_state() opens the file, which empties it, and later writes and closes it.
Opens == file' = Empty /\ early' = (early \/ setup # "done")
\* Mutant: what load_state() has still to restore is not passed over.
WritesAgain == file' = Content /\ current_song' = 0
Writes ==
  /\ file' = Content
  /\ current_song' = IF current_song < Len(raw_songs) THEN Len(raw_songs) ELSE current_song

SaverWakes ==
  /\ saver = "asleep" /\ state_lock = "none" /\ ~Cancelled
  /\ saver' = "asked" /\ state_lock' = "saver"
  /\ UNCHANGED <<file, state_info, lists, screen, setup, main, stuck, config, early, starts>>

\* The other locks: start-up holds the display until it has the file names.
SaverHasLocks == saver = "asked" /\ setup # "names" /\ stuck = {} /\ moving = None

SaverOpens ==
  /\ SaverHasLocks
  /\ ~config.readonly /\ ~Cancelled
  /\ Opens
  /\ saver' = "saving"
  /\ UNCHANGED <<state_info, state_lock, lists, screen, setup, main, stuck, config, starts>>

SaverReadonly ==
  /\ SaverHasLocks
  /\ config.readonly
  /\ saver' = "asleep" /\ Unlock
  /\ UNCHANGED <<file, state_info, lists, screen, setup, main, stuck, config, early, starts>>

SaverWrites ==
  /\ saver = "saving"
  /\ Writes
  /\ saver' = "asleep" /\ Unlock
  /\ UNCHANGED <<raw_songs, window_states, lists, screen, setup, main, stuck, config, early, starts>>

\* pthread_cancel() takes effect in fopen() or later, with the locks held.
SaverCancelled ==
  /\ Cancelled /\ ~config.readonly
  /\ SaverHasLocks \/ saver = "saving"
  /\ saver' = "cancelled"
  /\ UNCHANGED <<file, state_info, state_lock, lists, screen, setup, main, stuck, config, early, starts>>

\* Quit, power failure or an error end the loop of main(), which cancels the threads.
Exit ==
  /\ main = "running"
  /\ main' = "exiting"
  /\ UNCHANGED <<file, state_info, state_lock, lists, screen, setup, saver, stuck, config, early, starts>>

MainOpens ==
  /\ main = "exiting" /\ state_lock = "none"
  /\ IF config.readonly THEN main' = "ended" /\ UNCHANGED <<file, state_lock, early>>
                        ELSE main' = "saving" /\ state_lock' = "main" /\ Opens
  /\ UNCHANGED <<state_info, lists, screen, setup, saver, stuck, config, starts>>

MainWrites ==
  /\ main = "saving"
  /\ Writes
  /\ main' = "ended" /\ Unlock
  /\ UNCHANGED <<raw_songs, window_states, lists, screen, setup, saver, stuck, config, early, starts>>

------------------------------------------------------------------------------
\* The player: get_next_song_info() and set_now_playing_info() under three locks,
\* which main() does not wait for.  A cancelled player goes on until it waits.
TakeSong ==
  /\ Alive /\ ~AllLocked /\ {"database", "song_queue", "player_info"} \cap stuck = {}
  /\ ~in_song /\ moving = None /\ queue # <<>>
  /\ moving' = Head(queue) /\ queue' = Tail(queue)
  /\ UNCHANGED <<file, state_info, state_lock, playing, in_song, screen, threads, stuck, config, early, starts>>

SetNowPlaying ==
  /\ Alive /\ moving # None
  /\ playing' = moving /\ moving' = None /\ in_song' = TRUE
  /\ UNCHANGED <<file, state_info, state_lock, queue, screen, threads, stuck, config, early, starts>>

\* The position moves on with every frame; CMD_STOP puts it back to the start.
PlayOn ==
  /\ Alive /\ ~AllLocked /\ "player_info" \notin stuck /\ in_song
  /\ \E p \in 0..MaxPosition : playing' = [playing EXCEPT !.position = p]
  /\ UNCHANGED <<file, state_info, state_lock, queue, moving, in_song, screen, threads, stuck, config, early, starts>>

\* The end of the file, an error of the decoder or CMD_SKIP: player_info is left as it is.
SongOver ==
  /\ Alive /\ ~AllLocked /\ "database" \notin stuck /\ in_song
  /\ in_song' = FALSE
  /\ UNCHANGED <<file, state_info, state_lock, queue, moving, playing, screen, threads, stuck, config, early, starts>>

\* The playlist manager, which waits until load_state() is over.
AddSong ==
  /\ ~Cancelled /\ ~AllLocked /\ setup = "done" /\ moving = None
  /\ Len(queue) < MaxList
  /\ \E s \in Known : queue' = Append(queue, [song |-> s, position |-> 0])
  /\ UNCHANGED <<file, state_info, state_lock, moving, playing, in_song, screen, threads, stuck, config, early, starts>>

\* A thread is cancelled while it holds a lock: in getch() or at a file, or in
\* pthread_cond_wait(), which takes the lock again.  Nothing releases it.
HolderCancelled ==
  /\ Cancelled /\ Alive /\ ~AllLocked /\ Cardinality(stuck) < MaxStuck
  /\ \E l \in {"display", "database", "song_queue", "player_info"} \ stuck :
       /\ l # "display" => moving = None
       /\ stuck' = stuck \cup {l}
  /\ UNCHANGED <<file, state_info, state_lock, lists, screen, threads, config, early, starts>>

\* The user: deletes a song, changes the windows.
do_delete ==
  /\ ~Cancelled /\ ~AllLocked /\ setup # "names" /\ moving = None
  /\ \E i \in DOMAIN queue : queue' = RemoveAt(queue, i)
  /\ UNCHANGED <<file, state_info, state_lock, moving, playing, in_song, screen, threads, stuck, config, early, starts>>

ChangeScreen ==
  /\ ~Cancelled /\ ~AllLocked /\ setup # "names"
  /\ screen' \in Screens
  /\ UNCHANGED <<file, state_info, state_lock, lists, threads, stuck, config, early, starts>>

\* The next start, after an exit or a crash at any moment.  A crash, and an exit
\* that was cut off, leave any beginning of the text of an unfinished file.
BeingWritten == "saving" \in {saver, main} \/ (saver = "cancelled" /\ file = Empty)
Restart ==
  /\ starts < MaxStarts /\ starts' = starts + 1
  /\ file' \in IF BeingWritten THEN CutFiles(Content) ELSE {file}
  /\ raw_songs' = <<>> /\ current_song' = 0 /\ window_states' = Normal
  /\ state_lock' = "none"
  /\ queue' = <<>> /\ moving' = None /\ playing' = None /\ in_song' = FALSE
  /\ screen' = Normal
  /\ setup' = "names" /\ saver' = "asleep" /\ main' = "running"
  /\ stuck' = {}
  /\ early' = FALSE
  /\ UNCHANGED config

Setup ==
  /\ Alive
  /\ \/ LoadDbFilenames \/ LockState \/ LoadState \/ LoadTornState \/ CopyWindows
     \/ RestoreSong \/ StateLoaded
Saver == SaverWakes \/ SaverOpens \/ SaverReadonly \/ SaverWrites \/ SaverCancelled
Main == MainOpens \/ MainWrites

Next ==
  \/ Setup \/ Saver \/ Exit \/ Main
  \/ TakeSong \/ SetNowPlaying \/ PlayOn \/ SongOver \/ AddSong \/ HolderCancelled
  \/ do_delete \/ ChangeScreen
  \/ Restart

Spec == Init /\ [][Next]_vars

\* Threads that can go on do.
FairSpec ==
  /\ Spec
  /\ WF_vars(Setup) /\ WF_vars(Saver) /\ WF_vars(Main) /\ WF_vars(SetNowPlaying)

------------------------------------------------------------------------------
\* Every variable has its type.
TypeOK ==
  /\ file \in Files
  /\ raw_songs \in Seq(Entry) /\ current_song \in Nat /\ window_states \in Screens
  /\ state_lock \in {"none", "setup", "saver", "main"}
  /\ queue \in Seq(Entry)
  /\ moving \in Entry \cup {None} /\ playing \in Entry \cup {None} /\ in_song \in BOOLEAN
  /\ screen \in Screens
  /\ setup \in {"names", "load", "loading", "windows", "copying", "restore", "restoring", "done"}
  /\ saver \in {"asleep", "asked", "saving", "cancelled"}
  /\ main \in {"running", "exiting", "saving", "ended", "crashed"}
  /\ stuck \subseteq {"display", "database", "song_queue", "player_info"}
  /\ config \in [readonly: BOOLEAN, empeg: BOOLEAN]
  /\ early \in BOOLEAN
  /\ starts \in 1..MaxStarts

\* What a start is due to play, the current song first even when it is over; before
\* the file is parsed, what it holds.
Due ==
  IF setup \in {"names", "load", "loading"} THEN KnownOf(file.songs)
  ELSE One(playing) \o One(moving) \o queue
         \o KnownOf(SubSeq(raw_songs, current_song + 1, Len(raw_songs)))

\* A file that is written while everything is restored is whole and holds the playlist
\* of the moment, the current song first even when it is over; the song on its way from
\* the queue to the player is the one exception, and only at the exit.
QuitKeepsPlaylist ==
  main = "ended" /\ ~config.readonly /\ ~early =>
    /\ file.screen = screen /\ ~file.torn
    /\ KnownOf(file.songs) \in {Due, One(playing) \o queue}

\* No restart changes the order of the playlist, repeats a song of it but the one that
\* was just over, moves a position but the last of a cut file, or loses more than its
\* end: state_saver(), load_state(), main() and the players of the list together do
\* what SavedPlaylist promises.
Memory == INSTANCE SavedPlaylist WITH
  list <- Due,
  saved <- IF BeingWritten THEN Due ELSE KnownOf(file.songs),
  over <- playing # None /\ ~in_song,
  starting <- setup # "done",
  writing <- BeingWritten
MemorySpec == Memory!Spec

\* A thread holds state_info.lock for ever: state_saver() was cancelled with it, or it
\* or load_state() waits for the lock of a thread that was.
Hung ==
  \/ saver = "cancelled"
  \/ saver = "asked" /\ stuck # {}
  \/ state_lock = "setup" /\ ~SetupHasLocks

\* "Quits Squash": main() gets state_info.lock after it has cancelled the other
\* threads, unless one of them was cancelled with a lock that its holder waits for.
QuitEndsUnlessCut == main = "exiting" ~> (main # "exiting" \/ Hung)

\* "Quits Squash" (doc/USERS_GUIDE:82): when main() has been told to exit, it exits.
QuitEnds == main = "exiting" ~> main # "exiting"
=============================================================================
