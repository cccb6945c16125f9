----------------------------- MODULE Statistics -----------------------------
(***************************************************************************)
(* The statistics of songs: counts and ratings in memory, in the .stat     *)
(* files, and the running sums from which pick_song() draws (stat.c, the   *)
(* statistics half of database.c, do_song_rating_adjust() and              *)
(* do_edit_command() of input.c).                                          *)
(*                                                                         *)
(* An action is what happens under one hold of database_info.lock, except  *)
(* that the files are then saved in steps of their own, with the lock held *)
(* on: one empties the file, one fills it, and squash can die in between.  *)
(* On the desktop the start-up thread holds the lock for a whole pass over *)
(* the songs, on the empeg it lets go between songs; the empeg also has a  *)
(* screen on which the weight of manual ratings is set, and no editor.     *)
(***************************************************************************)
EXTENDS Integers

CONSTANTS
  SongCount,        \* database_info.song_count
  RepeatLimit,      \* 10 in pick_song()
  Biases,           \* values of config.db_manual_rating_bias, in tenths
  Amounts,          \* ratings a user gives, relative or not
  InitialFiles,     \* contents of the .stat files before squash starts
  MaxCount,         \* bound: plays and skips of a song
  MaxEvents,        \* bound: feedback, ratings, edits, restarts
  BiasWhileLoading, \* may the bias screen be left before loading is over?
  NoFile

Songs == 1..SongCount
Threads == {"setup", "ir"}     \* the callers of start_song_picker()
Sums == {"sum", "sqr_sum", "play_sum", "play_sqr_sum", "skip_sum", "skip_sqr_sum"}
StatData == [play_count: Nat, skip_count: Nat, repeat_counter: Nat, manual_rating: -1..10]

ASSUME StatisticsAssumption ==
  /\ SongCount \in Nat \ {0}
  /\ RepeatLimit \in Nat
  /\ Biases \subseteq 0..10 /\ 5 \in Biases
  /\ Amounts \subseteq Int
  /\ NoFile \notin StatData
  /\ InitialFiles \subseteq [Songs -> StatData \cup {NoFile}]
  /\ MaxCount \in Nat /\ MaxEvents \in Nat
  /\ BiasWhileLoading \in BOOLEAN

VARIABLES
  stat,         \* songs[i].stat without the changed flag
  changed,      \* songs[i].stat.changed
  file,         \* the .stat files; an empty one is read like one that is not there
  saving,       \* songs save_song() is yet to be called for, under the same lock
  opened,       \* the song whose file save_song() has emptied and not yet filled, or 0
  sums,         \* the six running sums of database_info
  stats_loaded,
  config,       \* db_readonly, the bias, and which build this is
  loading,      \* next song load_all_meta_data() loads, then the steps of the start-up thread
  picking,      \* next song start_song_picker() adds, 0 when not called
  bias_screen,  \* EMPEG_SCREEN_SET_RATING_BIAS: "closed", "open" or "left"
  loaded,       \* history: songs whose file has been read by load_all_meta_data()
  edited,       \* history: songs edited since the start
  base, lived,  \* history: plays and skips in the file at the start, and since
  again,        \* history: plays and skips that edits have read from the file once more
  doubt,        \* history: the sums were disturbed since they were last begun
  events

saves == <<saving, opened>>
history == <<loaded, edited, base, lived, again>>
vars == <<stat, changed, file, saves, sums, stats_loaded, config, loading, picking,
          bias_screen, history, doubt, events>>

------------------------------------------------------------------------------
\* A rating is multiplied by 600, which makes it a whole number for up to 5 songs
\* in the denominator and every bias.
get_rating(st) ==
  LET auto == (st.play_count - st.skip_count) * (600 \div (st.play_count + st.skip_count + 1))
  IN  IF st.manual_rating = -1 THEN auto
      ELSE (auto * (10 - config.bias)) \div 10 + (st.manual_rating - 5) * 12 * config.bias

Share(st) ==
  [f \in Sums |->
     CASE f = "sum"          -> get_rating(st)
       [] f = "sqr_sum"      -> get_rating(st) * get_rating(st)
       [] f = "play_sum"     -> st.play_count
       [] f = "play_sqr_sum" -> st.play_count * st.play_count
       [] f = "skip_sum"     -> st.skip_count
       [] f = "skip_sqr_sum" -> st.skip_count * st.skip_count]

SavingLoaded == SongCount + 1   \* values of loading after the last song
CallingPicker == SongCount + 2
Ready == SongCount + 3

NoSums == [f \in Sums |-> 0]
\* Mutant: the old rating stays in the sums.
ExchangeKeepsOld(old, new) == [f \in Sums |-> sums[f] + Share(new)[f]]
Exchange(old, new) == [f \in Sums |-> sums[f] - Share(old)[f] + Share(new)[f]]

Fresh == [play_count |-> 0, skip_count |-> 0, repeat_counter |-> 0, manual_rating |-> -1]
PlaysIn(f) == IF f = NoFile THEN 0 ELSE f.play_count
SkipsIn(f) == IF f = NoFile THEN 0 ELSE f.skip_count
Counts(f)  == [plays |-> PlaysIn(f), skips |-> SkipsIn(f)]

\* Mutant: the counts of the file replace those in memory.
ParsedReplaces(st, f) == IF f = NoFile THEN st ELSE f

\* parse_file() of a .stat file with set_stat_data(): counts are added to those in
\* memory, a rating already given in memory is kept.
Parsed(st, f) ==
  IF f = NoFile THEN st
  ELSE [play_count     |-> st.play_count + f.play_count,
        skip_count     |-> st.skip_count + f.skip_count,
        repeat_counter |-> f.repeat_counter,
        manual_rating  |-> IF st.manual_rating = -1 THEN f.manual_rating ELSE st.manual_rating]

\* The statistics become st and ch, and save_song() is then called for the songs.
SaveSongs(st, ch, songs) ==
  /\ stat' = st
  /\ changed' = ch
  /\ saving' = songs
  /\ UNCHANGED <<file, opened>>

InSession(f) ==
  /\ stat = [s \in Songs |-> Fresh]
  /\ changed = [s \in Songs |-> FALSE]
  /\ file = f
  /\ saving = {} /\ opened = 0
  /\ sums = NoSums
  /\ stats_loaded = FALSE
  /\ loading = 1
  /\ picking = [t \in Threads |-> 0]
  /\ bias_screen = "closed"
  /\ loaded = {} /\ edited = {}
  /\ base = [s \in Songs |-> Counts(f[s])]
  /\ lived = [s \in Songs |-> Counts(NoFile)]
  /\ again = [s \in Songs |-> Counts(NoFile)]
  /\ doubt = TRUE

Init ==
  /\ \E f \in InitialFiles : InSession(f)
  /\ config \in [readonly: BOOLEAN, empeg: BOOLEAN, bias: {5}]
  /\ events = 0

------------------------------------------------------------------------------
\* The songs a call of start_song_picker() has still to add.
ToBeAdded(s) == \E t \in Threads : picking[t] > 0 /\ s >= picking[t]
Summing == \E t \in Threads : picking[t] > 0

\* Nobody holds database_info.lock.
Unlocked == saving = {}

\* Mutant: files are also written while they are being loaded.
ToWriteEarly(s) == changed[s] /\ ~config.readonly

\* save_song() writes songs that have changed, unless read only or before the
\* statistics are loaded.
ToWrite(s) == changed[s] /\ stats_loaded /\ ~config.readonly

\* Mutant: the flag is reset for songs that are not written.
NotWrittenForgets(s) ==
  /\ ~ToWrite(s)
  /\ saving' = saving \ {s}
  /\ changed' = [changed EXCEPT ![s] = FALSE]
  /\ UNCHANGED <<file, opened>>

NotWritten(s) ==
  /\ ~ToWrite(s)
  /\ saving' = saving \ {s}
  /\ UNCHANGED <<changed, file, opened>>

\* fopen() empties the file.
OpenToWrite(s) ==
  /\ ToWrite(s)
  /\ file' = [file EXCEPT ![s] = NoFile]
  /\ opened' = s
  /\ UNCHANGED <<changed, saving>>

\* The songs are saved in the order of the database.
save_song ==
  /\ opened = 0
  /\ \E s \in saving : /\ \A r \in saving : s <= r
                       /\ NotWritten(s) \/ OpenToWrite(s)
  /\ UNCHANGED <<stat, sums, stats_loaded, config, loading, picking, bias_screen, history, doubt, events>>

\* save_stat_data() and fclose(): the lines are few enough to be written together.
save_stat_data ==
  /\ opened # 0
  /\ file' = [file EXCEPT ![opened] = stat[opened]]
  /\ changed' = [changed EXCEPT ![opened] = FALSE]
  /\ saving' = saving \ {opened}
  /\ opened' = 0
  /\ UNCHANGED <<stat, sums, stats_loaded, config, loading, picking, bias_screen, history, doubt, events>>

------------------------------------------------------------------------------
\* load_all_meta_data( TYPE_STAT ), on the desktop in one piece.
LoadAll ==
  /\ Unlocked /\ ~config.empeg /\ loading = 1
  /\ SaveSongs([s \in Songs |-> Parsed(stat[s], file[s])], changed, Songs)
  /\ loading' = CallingPicker
  /\ loaded' = Songs
  /\ UNCHANGED <<sums, stats_loaded, config, picking, bias_screen, edited, base, lived, again, doubt, events>>

LoadNext ==
  /\ Unlocked /\ config.empeg /\ loading \in Songs
  /\ stat' = [stat EXCEPT ![loading] = Parsed(stat[loading], file[loading])]
  /\ loading' = loading + 1
  /\ loaded' = loaded \cup {loading}
  /\ doubt' = TRUE
  /\ UNCHANGED <<changed, file, saves, sums, stats_loaded, config, picking, bias_screen, edited, base, lived, again, events>>

SaveAfterLoading ==
  /\ Unlocked /\ config.empeg /\ loading = SavingLoaded
  /\ SaveSongs(stat, changed, Songs)
  /\ loading' = CallingPicker
  /\ UNCHANGED <<sums, stats_loaded, config, picking, bias_screen, history, doubt, events>>

\* The first half of start_song_picker(), called by the start-up thread after
\* loading or by the remote when the bias screen is left.  On the desktop nobody
\* comes in between the two halves.
Starts(t) ==
  \/ t = "setup" /\ loading = CallingPicker /\ loading' = Ready /\ UNCHANGED bias_screen
  \/ t = "ir" /\ bias_screen = "left" /\ bias_screen' = "closed" /\ UNCHANGED loading

\* The sums after the first n turns of the loop of start_song_picker().
Total(shares, n) ==
  LET total[s \in 0..SongCount] ==
        IF s = 0 THEN NoSums ELSE [f \in Sums |-> total[s - 1][f] + shares[s][f]]
  IN  total[n]

Shares == [s \in Songs |-> Share(stat[s])]
AllSums == Total(Shares, SongCount)

SumAll ==
  /\ Unlocked /\ ~config.empeg
  /\ Starts("setup")
  /\ sums' = AllSums
  /\ stats_loaded' = TRUE
  /\ doubt' = FALSE
  /\ UNCHANGED <<stat, changed, file, saves, config, picking, history, events>>

ResetSums(t) ==
  /\ Unlocked /\ config.empeg
  /\ picking[t] = 0
  /\ Starts(t)
  /\ sums' = NoSums
  /\ picking' = [picking EXCEPT ![t] = 1]
  /\ doubt' = Summing
  /\ UNCHANGED <<stat, changed, file, saves, stats_loaded, config, history, events>>

AddSong(t) ==
  /\ Unlocked /\ picking[t] \in Songs
  /\ sums' = [f \in Sums |-> sums[f] + Share(stat[picking[t]])[f]]
  /\ picking' = [picking EXCEPT ![t] = IF @ = SongCount THEN 0 ELSE @ + 1]
  /\ stats_loaded' = (stats_loaded \/ picking[t] = SongCount)
  /\ UNCHANGED <<stat, changed, file, saves, config, loading, bias_screen, history, doubt, events>>

------------------------------------------------------------------------------
\* The other threads.  What a song has in memory becomes st.
Rerate(s, st) ==
  /\ Unlocked
  /\ events < MaxEvents /\ events' = events + 1
  /\ sums' = Exchange(stat[s], st)
  /\ SaveSongs([stat EXCEPT ![s] = st], [changed EXCEPT ![s] = TRUE], {s})
  /\ doubt' = (doubt \/ ToBeAdded(s))
  /\ UNCHANGED <<stats_loaded, config, loading, picking, bias_screen, loaded, edited, base, again>>

InBounds(s) ==
  stat[s].play_count + stat[s].skip_count + PlaysIn(file[s]) + SkipsIn(file[s]) < MaxCount

\* feedback(): by the player at the end of a song and at a skip, and when a song
\* is removed from the playlist.
Played(st) == [st EXCEPT !.play_count = @ + 1]
Skipped(st) == [st EXCEPT !.skip_count = @ + 1]
feedback(s) ==
  /\ InBounds(s)
  /\ \/ /\ Rerate(s, Played(stat[s]))
        /\ lived' = [lived EXCEPT ![s].plays = @ + 1]
     \/ /\ Rerate(s, Skipped(stat[s]))
        /\ lived' = [lived EXCEPT ![s].skips = @ + 1]

Clamp(rating) == IF rating < -1 THEN -1 ELSE IF rating > 10 THEN 10 ELSE rating
do_song_rating_adjust(s) ==
  /\ \E amount \in Amounts, relative \in BOOLEAN :
       Rerate(s, [stat[s] EXCEPT !.manual_rating = Clamp(IF relative THEN @ + amount ELSE amount)])
  /\ UNCHANGED lived

\* pick_song() by the playlist manager: songs are drawn until one is drawn whose
\* counter is down.  drawn[s] is how often s was passed over.  If the playlist is
\* full afterwards every changed song is saved.
pick_song ==
  /\ Unlocked /\ stats_loaded
  /\ \E drawn \in [Songs -> 0..RepeatLimit], pick \in Songs, full \in BOOLEAN :
       /\ \A s \in Songs : drawn[s] <= stat[s].repeat_counter
       /\ drawn[pick] = stat[pick].repeat_counter
       /\ SaveSongs([s \in Songs |->
                       [stat[s] EXCEPT !.repeat_counter = IF s = pick THEN RepeatLimit ELSE @ - drawn[s]]],
                    [s \in Songs |-> changed[s] \/ s = pick \/ drawn[s] > 0],
                    IF full THEN Songs ELSE {})
  /\ UNCHANGED <<sums, stats_loaded, config, loading, picking, bias_screen, history, doubt, events>>

\* do_edit_command(), after the editor: clear_song_meta(), which resets the changed
\* flag and leaves the counts, and load_meta_data(), which adds those of the file.
do_edit_command(s) ==
  /\ Unlocked /\ ~config.empeg
  /\ events < MaxEvents /\ events' = events + 1
  /\ InBounds(s)
  /\ stat' = [stat EXCEPT ![s] = Parsed(stat[s], file[s])]
  /\ changed' = [changed EXCEPT ![s] = FALSE]
  /\ edited' = edited \cup {s}
  /\ again' = [again EXCEPT ![s] = [plays |-> @.plays + PlaysIn(file[s]),
                                   skips |-> @.skips + SkipsIn(file[s])]]
  /\ doubt' = TRUE
  /\ UNCHANGED <<file, saves, sums, stats_loaded, config, loading, picking, bias_screen, loaded, base, lived>>

\* The bias screen of the empeg.  stats_loaded is reset before the lock is taken.
EnterBiasScreen ==
  /\ config.empeg /\ bias_screen = "closed" /\ picking["ir"] = 0
  /\ bias_screen' = "open"
  /\ UNCHANGED <<stat, changed, file, saves, sums, stats_loaded, config, loading, picking, history, doubt, events>>

ChangeBias ==
  /\ bias_screen = "open"
  /\ \E b \in Biases : config' = [config EXCEPT !.bias = b]
  /\ doubt' = TRUE
  /\ UNCHANGED <<stat, changed, file, saves, sums, stats_loaded, loading, picking, bias_screen, history, events>>

LeaveBiasScreen ==
  /\ bias_screen = "open"
  /\ (loading = Ready /\ picking["setup"] = 0) \/ BiasWhileLoading
  /\ bias_screen' = "left"
  /\ stats_loaded' = FALSE
  /\ UNCHANGED <<stat, changed, file, saves, sums, config, loading, picking, history, doubt, events>>

\* squash is started again, after an exit or a power failure at any point: also
\* while a file is emptied and not yet filled.
Restart ==
  /\ events < MaxEvents /\ events' = events + 1
  /\ stat' = [s \in Songs |-> Fresh]
  /\ changed' = [s \in Songs |-> FALSE]
  /\ file' = file
  /\ saving' = {} /\ opened' = 0
  /\ sums' = NoSums
  /\ stats_loaded' = FALSE
  /\ config' = [config EXCEPT !.bias = 5]
  /\ loading' = 1
  /\ picking' = [t \in Threads |-> 0]
  /\ bias_screen' = "closed"
  /\ loaded' = {} /\ edited' = {}
  /\ base' = [s \in Songs |-> Counts(file[s])]
  /\ lived' = [s \in Songs |-> Counts(NoFile)]
  /\ again' = [s \in Songs |-> Counts(NoFile)]
  /\ doubt' = TRUE

Next ==
  \/ LoadAll \/ LoadNext \/ SaveAfterLoading \/ SumAll
  \/ \E t \in Threads : ResetSums(t) \/ AddSong(t)
  \/ \E s \in Songs : feedback(s) \/ do_song_rating_adjust(s) \/ do_edit_command(s)
  \/ pick_song
  \/ save_song \/ save_stat_data
  \/ EnterBiasScreen \/ ChangeBias \/ LeaveBiasScreen
  \/ Restart

Spec == Init /\ [][Next]_vars

------------------------------------------------------------------------------
\* Every variable has its type.
TypeOK ==
  /\ stat \in [Songs -> StatData]
  /\ changed \in [Songs -> BOOLEAN]
  /\ file \in [Songs -> StatData \cup {NoFile}]
  /\ saving \subseteq Songs /\ opened \in saving \cup {0}
  /\ sums \in [Sums -> Int]
  /\ stats_loaded \in BOOLEAN
  /\ config \in [readonly: BOOLEAN, empeg: BOOLEAN, bias: 0..10]
  /\ loading \in 1..Ready
  /\ picking \in [Threads -> 0..SongCount]
  /\ bias_screen \in {"closed", "open", "left"}
  /\ loaded \subseteq Songs /\ edited \subseteq Songs
  /\ base \in [Songs -> [plays: Nat, skips: Nat]]
  /\ lived \in [Songs -> [plays: Nat, skips: Nat]]
  /\ again \in [Songs -> [plays: Nat, skips: Nat]]
  /\ doubt \in BOOLEAN
  /\ events \in 0..MaxEvents

\* The running sums are those of the songs in memory, through any number of plays,
\* skips, ratings and recalculations, unless a song changed that start_song_picker()
\* had still to add, a song was edited or the bias changed without a recalculation.
SumsAgree == stats_loaded /\ ~doubt => sums = AllSums

\* What save_song() takes for saved is saved: a song that is not marked as changed
\* has in its file the counts and the rating it has in memory, unless it was edited.
Saved ==
  \A s \in loaded \ edited : ~changed[s] =>
    stat[s] = IF file[s] = NoFile THEN Fresh ELSE file[s]

\* The counts of a song are those its file had at the start, once its file has been
\* read, plus one for every play or skip since, before the file was read or after;
\* and plus what do_edit_command() has read from the file once more, since
\* load_meta_data() adds to counts that clear_song_meta() does not clear.
CountsTrue ==
  \A s \in Songs :
    LET start == IF s \in loaded THEN base[s] ELSE Counts(NoFile) IN
    /\ stat[s].play_count = start.plays + lived[s].plays + again[s].plays
    /\ stat[s].skip_count = start.skips + lived[s].skips + again[s].skips

\* The content of a .stat file, or what is about to be written to it.
Stored(s) == IF s = opened THEN stat[s] ELSE file[s]

\* A step leaves in every .stat file at least the plays and skips it had, or is about
\* to write there.  The file that is empty when squash dies is the one exception.
CountsKept ==
  \A s \in Songs :
    \/ PlaysIn(Stored(s)') >= PlaysIn(Stored(s)) /\ SkipsIn(Stored(s)') >= SkipsIn(Stored(s))
    \/ s = opened /\ Restart

\* No step takes plays or skips away from a .stat file: not the ones of earlier
\* sessions, which memory does not know before they are loaded.  Dying in
\* save_song(), between its fopen() and its fclose(), takes those of that one song.
CountsNeverLost == [][CountsKept]_vars
=============================================================================
