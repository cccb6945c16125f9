SPECIFICATION LocksSpec
CONSTANTS
    Threads = {"player", "frame_decoder", "playlist_manager", "setup_database", "state_saver",
               "screen_redraw", "main", "display_monitor", "spectrum_monitor",
               "keyboard_monitor", "fifo_monitor", "ir_monitor"}
    Locks <- SquashLockNames
    Rank <- SquashRank
    Programs <- SquashPrograms
    MaxBusy = 2
    Excluded = {"spectrum_reset", "do_edit_command", "exit", "continue", "squash_error"}
INVARIANTS OrderKept NoCircularWait
