---------------------------- MODULE SquashLocks ----------------------------
(***************************************************************************)
(* Which locks the functions of squash take and release, in which order.   *)
(* A function is the set of its paths, a path is a sequence of operations; *)
(* P \odot Q is P followed by Q, \cup is a choice the data makes.  Data is *)
(* left out altogether, so every path of a function is possible at any     *)
(* time.  Between two paths a thread holds nothing; a loop in which it     *)
(* releases everything is therefore split into the paths of one iteration. *)
(* Waiting for a condition is releasing the mutex and taking it again:     *)
(* whether the signal comes is the subject of Playback and Playlist.       *)
(*                                                                         *)
(* The build is the one with ncurses; ir_monitor is what the empeg build   *)
(* has in place of keyboard_monitor.  log_info is left out (a leaf: it is  *)
(* released in the function that takes it, and only debug builds have it). *)
(***************************************************************************)
EXTENDS Locks

CONSTANT Excluded       \* functions that break the order, left out of some runs

P \odot Q == {p \o q : p \in P, q \in Q}

Nothing == {<<>>}
Unless(name, P) == IF name \in Excluded THEN Nothing ELSE P

squash_lock(l) == {<<[take |-> {[lock |-> l, shared |-> FALSE]}, drop |-> {}]>>}
squash_rlock(l) == {<<[take |-> {[lock |-> l, shared |-> TRUE]}, drop |-> {}]>>}
squash_unlock(L) == {<<[take |-> {}, drop |-> [lock : L, shared : BOOLEAN]]>>}
squash_wait(l) == squash_unlock({l}) \odot squash_lock(l)

\* doc/LOCKS: "the order shown is also locking order".
LockOrder == <<"state_info", "display_info", "database_info", "song_queue", "past_queue",
               "player_info", "player_command", "frame_buffer", "spectrum_info",
               "spectrum_ring", "status_info">>
SquashLockNames == {LockOrder[n] : n \in DOMAIN LockOrder}
SquashRank == [l \in SquashLockNames |-> CHOOSE n \in DOMAIN LockOrder : LockOrder[n] = l]

-----------------------------------------------------------------------------
(* display.c, spectrum.c *)

\* Nothing is locked when the screen is too small.
draw_screen ==
    Nothing \cup
    (squash_rlock("database_info") \odot squash_lock("song_queue") \odot
     squash_lock("past_queue") \odot squash_lock("player_info") \odot
     squash_lock("spectrum_info") \odot
     squash_unlock({"spectrum_info", "player_info", "past_queue", "song_queue", "database_info"}))

\* Mutant: the player's state is locked before the lists.
display_monitor_player_first ==
    squash_lock("display_info") \odot squash_wait("display_info") \odot
    squash_rlock("database_info") \odot squash_lock("player_info") \odot
    squash_lock("song_queue") \odot squash_lock("past_queue") \odot
    squash_unlock({"player_info", "song_queue", "past_queue", "database_info", "display_info"})

display_monitor ==
    squash_lock("display_info") \odot squash_wait("display_info") \odot
    squash_rlock("database_info") \odot squash_lock("song_queue") \odot
    squash_lock("past_queue") \odot squash_lock("player_info") \odot
    squash_unlock({"player_info", "song_queue", "past_queue", "database_info", "display_info"})

spectrum_reset ==
    squash_lock("spectrum_ring") \odot squash_lock("spectrum_info") \odot
    squash_unlock({"spectrum_info", "spectrum_ring"})

spectrum_update == squash_lock("spectrum_ring") \odot squash_unlock({"spectrum_ring"})

spectrum_monitor ==
    LET both == squash_lock("spectrum_info") \odot squash_lock("spectrum_ring")
        inactive == squash_unlock({"spectrum_info", "spectrum_ring"}) \odot
                    squash_wait("display_info") \odot both
    IN  squash_lock("display_info") \odot both \odot (Nothing \cup inactive) \odot
        squash_unlock({"spectrum_ring"}) \odot squash_unlock({"spectrum_info", "display_info"})

-----------------------------------------------------------------------------
(* player.c, playlist_manager.c *)

frame_decoder ==
    squash_lock("frame_buffer") \odot (Nothing \cup squash_wait("frame_buffer")) \odot
    squash_unlock({"frame_buffer"})

\* The commands; stop resets the spectrum with four locks held.
player_commands ==
    LET execute == squash_unlock({"player_command"}) \odot squash_lock("database_info") \odot
                   squash_lock("player_info") \odot squash_lock("player_command") \odot
                   squash_lock("frame_buffer") \odot
                   (Nothing \cup Unless("spectrum_reset", spectrum_reset)) \odot
                   squash_unlock({"player_info", "frame_buffer", "database_info"})
    IN  squash_lock("player_command") \odot (Nothing \cup execute) \odot
        (Nothing \cup squash_wait("player_command")) \odot squash_unlock({"player_command"})

\* The way out for a song of unknown type keeps three locks and goes back to the top.
player_before_song ==
    LET acquire == squash_rlock("database_info") \odot squash_lock("song_queue") \odot
                   squash_lock("player_info") \odot squash_lock("frame_buffer")
        empty == squash_unlock({"frame_buffer", "player_info", "database_info"}) \odot
                 squash_wait("song_queue") \odot squash_unlock({"song_queue"})
        play == squash_unlock({"song_queue"}) \odot
                squash_unlock({"frame_buffer", "database_info"}) \odot
                squash_unlock({"player_info"}) \odot Unless("spectrum_reset", spectrum_reset)
        unknown == squash_unlock({"song_queue"}) \odot player_commands
    IN  acquire \odot (empty \cup play \cup (IF "continue" \in Excluded THEN {} ELSE unknown))

player_in_song ==
    LET frame == squash_unlock({"frame_buffer"})
        ended == squash_lock("database_info") \odot squash_unlock({"database_info"})
        sound == spectrum_update \odot squash_lock("player_info") \odot
                 squash_unlock({"player_info"})
        empty == squash_wait("frame_buffer") \odot squash_unlock({"frame_buffer"})
    IN  squash_lock("frame_buffer") \odot
        ((frame \odot (Nothing \cup ended \cup sound)) \cup empty)

player_after_song ==
    squash_rlock("database_info") \odot squash_lock("past_queue") \odot
    squash_unlock({"past_queue", "database_info"}) \odot
    squash_lock("player_info") \odot squash_unlock({"player_info"})

player == player_commands \cup player_before_song \cup player_in_song \cup player_after_song

\* Mutant: the playlist is locked before the database.
playlist_manager_queue_first ==
    squash_lock("song_queue") \odot squash_lock("database_info") \odot
    squash_unlock({"song_queue", "database_info"})

playlist_manager ==
    LET start == squash_lock("song_queue") \odot squash_wait("song_queue") \odot
                 squash_unlock({"song_queue"})
        acquire == squash_lock("database_info") \odot squash_lock("song_queue")
        wait == squash_unlock({"database_info"}) \odot squash_wait("song_queue") \odot
                squash_unlock({"song_queue"})
    IN  start \cup (acquire \odot (wait \cup squash_unlock({"song_queue", "database_info"})))

-----------------------------------------------------------------------------
(* squash.c, global_squash.c, database.c, stat.c *)

\* The lock oscillates on the empeg.
load_all_meta_data ==
    LET oscillate == squash_unlock({"database_info"}) \odot squash_lock("database_info") \odot
                     squash_unlock({"database_info"}) \odot squash_rlock("database_info")
    IN  (squash_lock("database_info") \cup (squash_rlock("database_info") \odot oscillate)) \odot
        squash_unlock({"database_info"})

start_song_picker ==
    squash_lock("database_info") \odot (Nothing \cup squash_wait("database_info")) \odot
    squash_unlock({"database_info"})

load_state ==
    LET window == squash_lock("state_info") \odot squash_lock("display_info") \odot
                  squash_unlock({"display_info"}) \odot squash_unlock({"state_info"})
        song == squash_lock("database_info") \odot squash_lock("song_queue") \odot
                squash_unlock({"database_info", "song_queue", "state_info"}) \odot
                squash_lock("state_info")
    IN  squash_lock("state_info") \odot squash_unlock({"state_info"}) \cup window \cup
        (squash_lock("state_info") \odot (Nothing \cup song) \odot squash_unlock({"state_info"}))

setup_database ==
    (squash_lock("display_info") \odot squash_lock("database_info") \odot
     squash_unlock({"database_info", "display_info"}))
    \cup (squash_lock("spectrum_ring") \odot squash_unlock({"spectrum_ring"}))
    \cup (squash_lock("player_command") \odot squash_unlock({"player_command"}))
    \cup load_state \cup draw_screen
    \cup (squash_lock("song_queue") \odot squash_unlock({"song_queue"}))
    \cup load_all_meta_data \cup start_song_picker

\* An error reports through status_info; the thread then signals the exit for ever and
\* keeps what it holds.
squash_error == squash_lock("status_info") \odot squash_unlock({"status_info"})

state_saver ==
    LET done == squash_unlock({"player_info", "song_queue", "database_info", "display_info",
                               "state_info"})
    IN  squash_lock("state_info") \odot squash_lock("display_info") \odot
        squash_rlock("database_info") \odot squash_lock("song_queue") \odot
        squash_lock("player_info") \odot
        (done \cup (IF "squash_error" \in Excluded THEN {} ELSE squash_error))

screen_redraw ==
    squash_lock("display_info") \odot draw_screen \odot squash_unlock({"display_info"})

\* The process ends with status_info held.
main ==
    LET exit == squash_lock("state_info") \odot squash_unlock({"state_info"})
    IN  squash_lock("status_info") \odot squash_wait("status_info") \odot
        Unless("exit", exit) \odot squash_unlock({"status_info"})

-----------------------------------------------------------------------------
(* input.c *)

do_clear == squash_lock("display_info") \odot squash_unlock({"display_info"})
do_resize == squash_lock("display_info") \odot draw_screen \odot squash_unlock({"display_info"})
do_quit == squash_lock("status_info") \odot squash_unlock({"status_info"})

do_set_player_command == squash_lock("player_command") \odot squash_unlock({"player_command"})

do_toggle_player_command ==
    squash_lock("player_info") \odot squash_lock("player_command") \odot
    squash_unlock({"player_command", "player_info"})

do_toggle_spectrum_state ==
    squash_lock("display_info") \odot squash_lock("spectrum_ring") \odot
    squash_unlock({"spectrum_ring"}) \odot draw_screen \odot squash_unlock({"display_info"})

do_toggle_info_command ==
    squash_lock("display_info") \odot draw_screen \odot squash_unlock({"display_info"})

do_tab == squash_lock("display_info") \odot draw_screen \odot squash_unlock({"display_info"})

\* What is locked depends on the window that has the focus.
do_arrow ==
    LET list(q) == squash_lock(q) \odot squash_unlock({q})
    IN  squash_lock("display_info") \odot
        (Nothing \cup list("song_queue") \cup list("past_queue")) \odot
        squash_unlock({"display_info"})

do_delete ==
    squash_lock("display_info") \odot squash_lock("database_info") \odot
    (Nothing \cup (squash_lock("song_queue") \odot squash_unlock({"song_queue"}))) \odot
    squash_unlock({"database_info", "display_info"})

do_song_rating_adjust ==
    LET list(q) == squash_lock(q) \odot squash_unlock({q})
    IN  (Nothing \cup list("song_queue") \cup list("past_queue")) \odot
        (Nothing \cup list("database_info"))

\* The database is read-locked before the display is.  The editor runs with
\* display_info held.
do_edit_command ==
    LET list(q) == squash_lock(q) \odot squash_unlock({q})
        edit == squash_unlock({"database_info"}) \odot list("database_info") \odot draw_screen
                \odot squash_unlock({"display_info"})
    IN  squash_rlock("database_info") \odot squash_lock("display_info") \odot
        (list("player_info") \cup list("song_queue") \cup list("past_queue")) \odot
        (edit \cup squash_unlock({"database_info", "display_info"}))

\* The commands keyboard_monitor() and fifo_monitor() have in common.
Commands ==
    do_clear \cup do_resize \cup do_quit \cup do_set_player_command
    \cup do_toggle_player_command \cup do_toggle_spectrum_state \cup do_toggle_info_command
    \cup do_tab \cup do_arrow \cup do_delete \cup do_song_rating_adjust
    \cup Unless("do_edit_command", do_edit_command)

keyboard_monitor == (squash_lock("display_info") \odot squash_unlock({"display_info"})) \cup Commands
fifo_monitor == Commands

do_remove_playlist_entry ==
    squash_lock("database_info") \odot squash_lock("song_queue") \odot
    squash_unlock({"song_queue", "database_info"})

\* The empeg's buttons (without ADVENTURE); the display is locked around everything they do.
ir_monitor ==
    LET list(q) == squash_lock(q) \odot squash_unlock({q})
    IN  squash_lock("display_info") \odot
        (Nothing \cup start_song_picker \cup do_remove_playlist_entry \cup list("player_info") \cup do_quit
         \cup do_toggle_player_command \cup do_set_player_command
         \cup list("song_queue") \cup do_song_rating_adjust) \odot
        squash_unlock({"display_info"})

SquashPrograms ==
    LET all == [player |-> player, frame_decoder |-> frame_decoder,
                playlist_manager |-> playlist_manager, setup_database |-> setup_database,
                state_saver |-> state_saver, screen_redraw |-> screen_redraw, main |-> main,
                display_monitor |-> display_monitor, spectrum_monitor |-> spectrum_monitor,
                keyboard_monitor |-> keyboard_monitor, fifo_monitor |-> fifo_monitor,
                ir_monitor |-> ir_monitor]
    IN  [t \in Threads |-> all[t] \ Nothing]
=============================================================================
