-------------------------- MODULE StatisticsProofs --------------------------
(***************************************************************************)
(* What Statistics promises about the .stat files, for every number of     *)
(* songs, every content of the files and any number of sessions, as long   *)
(* as the bias screen is not left while the statistics are being loaded.   *)
(***************************************************************************)
EXTENDS Statistics, WellFoundedInduction, TLAPS

\* The types of everything but the sums.
TypeInv ==
  /\ stat \in [Songs -> StatData]
  /\ changed \in [Songs -> BOOLEAN]
  /\ file \in [Songs -> StatData \cup {NoFile}]
  /\ stats_loaded \in BOOLEAN
  /\ loading \in 1..Ready
  /\ picking \in [Threads -> 0..SongCount]
  /\ base \in [Songs -> [plays: Nat, skips: Nat]]
  /\ lived \in [Songs -> [plays: Nat, skips: Nat]]
  /\ again \in [Songs -> [plays: Nat, skips: Nat]]
  /\ loaded \subseteq Songs
  /\ saving \subseteq Songs /\ opened \in saving \cup {0}

\* Nothing is saved or summed up before the start-up thread has read all files.
SavedLate ==
  /\ stats_loaded => loading = Ready
  /\ \A t \in Threads : picking[t] > 0 => loading = Ready
  /\ bias_screen = "left" => loading = Ready

InFile(s) == IF file[s] = NoFile THEN Fresh ELSE file[s]

\* A song whose file has not been read has in memory what happened since the start.
UnreadSong(s) ==
  /\ Counts(file[s]) = base[s]
  /\ stat[s].play_count = lived[s].plays + again[s].plays
  /\ stat[s].skip_count = lived[s].skips + again[s].skips
  /\ s \notin edited /\ ~changed[s] => stat[s] = Fresh

ReadSong(s) ==
  /\ stat[s].play_count >= PlaysIn(file[s])
  /\ stat[s].skip_count >= SkipsIn(file[s])
  /\ stat[s].play_count = base[s].plays + lived[s].plays + again[s].plays
  /\ stat[s].skip_count = base[s].skips + lived[s].skips + again[s].skips
  /\ s \notin edited /\ ~changed[s] => stat[s] = InFile(s)

\* A file is emptied only for a song that has been read and is to be saved.
SongInv(s) ==
  /\ s \in loaded <=> s < loading
  /\ s \notin loaded => UnreadSong(s)
  /\ s \in loaded => ReadSong(s)
  /\ s = opened => s \in loaded /\ changed[s]

IInv == TypeInv /\ SavedLate /\ \A s \in Songs : SongInv(s)

------------------------------------------------------------------------------
\* Reading a file adds its counts; a song that has none in memory is then as in
\* the file.
LEMMA ParsedFacts ==
  ASSUME NEW st \in StatData, NEW f \in StatData \cup {NoFile}
  PROVE  /\ Parsed(st, f) \in StatData
         /\ Parsed(st, f).play_count = st.play_count + PlaysIn(f)
         /\ Parsed(st, f).skip_count = st.skip_count + SkipsIn(f)
         /\ st = Fresh => Parsed(st, f) = IF f = NoFile THEN Fresh ELSE f
         /\ PlaysIn(f) \in Nat /\ SkipsIn(f) \in Nat
<1>1. CASE f = NoFile
  BY <1>1 DEF Parsed, StatData, PlaysIn, SkipsIn
<1>2. CASE f # NoFile
  BY <1>2 DEF Parsed, StatData, PlaysIn, SkipsIn, Fresh
<1> QED BY <1>1, <1>2

\* Nothing is open when database_info.lock is taken.
LEMMA LockFacts ==
  ASSUME TypeInv, Unlocked
  PROVE  saving = {} /\ opened = 0 /\ \A s \in Songs : s # opened
<1>1. saving = {} /\ opened = 0
  BY DEF TypeInv, Unlocked
<1> QED BY <1>1, StatisticsAssumption DEF Songs

LEMMA InitInv == Init => IInv
<1> SUFFICES ASSUME Init PROVE IInv
  OBVIOUS
<1>1. PICK f \in InitialFiles : InSession(f)
  BY DEF Init
<1>2. f \in [Songs -> StatData \cup {NoFile}]
  BY StatisticsAssumption
<1>3. TypeInv
  <2>1. stat \in [Songs -> StatData]
    BY <1>1 DEF InSession, Fresh, StatData
  <2>2. changed \in [Songs -> BOOLEAN] /\ file \in [Songs -> StatData \cup {NoFile}]
        /\ stats_loaded \in BOOLEAN
    BY <1>1, <1>2 DEF InSession
  <2>3. loading \in 1..Ready /\ picking \in [Threads -> 0..SongCount]
    BY <1>1, StatisticsAssumption DEF InSession, Ready
  <2>4. \A s \in Songs : Counts(f[s]) \in [plays: Nat, skips: Nat]
    BY <1>2, ParsedFacts, <2>1 DEF Counts, Fresh, PlaysIn, SkipsIn, StatData
  <2>5. Counts(NoFile) \in [plays: Nat, skips: Nat]
    BY DEF Counts, PlaysIn, SkipsIn
  <2>6. base \in [Songs -> [plays: Nat, skips: Nat]] /\ lived \in [Songs -> [plays: Nat, skips: Nat]]
    BY <1>1, <2>4, <2>5 DEF InSession
  <2>7. loaded \subseteq Songs /\ saving \subseteq Songs /\ opened \in saving \cup {0}
        /\ again \in [Songs -> [plays: Nat, skips: Nat]]
    BY <1>1, <2>5 DEF InSession
  <2> QED BY <2>1, <2>2, <2>3, <2>6, <2>7 DEF TypeInv
<1>4. SavedLate
  BY <1>1 DEF InSession, SavedLate, Threads
<1>5. ASSUME NEW s \in Songs PROVE SongInv(s)
  BY <1>1, <1>2, StatisticsAssumption
  DEF InSession, SongInv, UnreadSong, Counts, PlaysIn, SkipsIn, Fresh, Songs
<1> QED BY <1>3, <1>4, <1>5 DEF IInv

------------------------------------------------------------------------------
\* Steps that touch neither a song nor a file.
LEMMA QuietStep ==
  ASSUME IInv, UNCHANGED <<stat, changed, file, opened, loaded, edited, base, lived, again>>,
         loading' \in 1..Ready, \A s \in Songs : s < loading <=> s < loading'
  PROVE  \A s \in Songs : SongInv(s)'
BY DEF IInv, SongInv, UnreadSong, ReadSong, InFile

\* load_all_meta_data() reading one song that it has not read.
LEMMA ReadStep ==
  ASSUME IInv, NEW s \in Songs, s \notin loaded, s \in loaded', s < loading',
         stat'[s] = Parsed(stat[s], file[s]),
         changed'[s] = changed[s], file'[s] = file[s], opened' # s,
         UNCHANGED <<edited, base, lived, again>>
  PROVE  SongInv(s)'
<1> DEFINE st == stat[s]
           f == file[s]
<1>1. st \in StatData /\ f \in StatData \cup {NoFile}
  BY DEF IInv, TypeInv
<1>2. UnreadSong(s)
  BY DEF IInv, SongInv
<1>3. /\ stat'[s].play_count = st.play_count + PlaysIn(f)
      /\ stat'[s].skip_count = st.skip_count + SkipsIn(f)
      /\ st = Fresh => stat'[s] = IF f = NoFile THEN Fresh ELSE f
      /\ PlaysIn(f) \in Nat /\ SkipsIn(f) \in Nat
  BY <1>1, ParsedFacts
<1>4. base[s].plays = PlaysIn(f) /\ base[s].skips = SkipsIn(f)
  BY <1>2 DEF UnreadSong, Counts
<1>5. lived[s] \in [plays: Nat, skips: Nat] /\ again[s] \in [plays: Nat, skips: Nat]
  BY DEF IInv, TypeInv
<1>6. stat'[s].play_count >= PlaysIn(f) /\ stat'[s].skip_count >= SkipsIn(f)
  BY <1>1, <1>3 DEF StatData
<1>7. /\ stat'[s].play_count = base[s].plays + lived[s].plays + again[s].plays
      /\ stat'[s].skip_count = base[s].skips + lived[s].skips + again[s].skips
  BY <1>2, <1>3, <1>4, <1>5 DEF UnreadSong
<1>8. ASSUME s \notin edited, ~changed[s]
      PROVE  stat'[s] = IF f = NoFile THEN Fresh ELSE f
  BY <1>2, <1>3, <1>8 DEF UnreadSong
<1>9. PlaysIn(file'[s]) = PlaysIn(f) /\ SkipsIn(file'[s]) = SkipsIn(f)
  OBVIOUS
<1>10. ReadSong(s)'
  BY <1>6, <1>7, <1>8, <1>9 DEF ReadSong, InFile
<1> QED BY <1>10 DEF SongInv

LEMMA AddsUp ==
  ASSUME NEW old \in Nat, NEW new \in Nat, NEW b \in Nat, NEW l \in Nat, NEW m \in Nat, NEW a \in Nat,
         old = b + l + a, new - old = m - l
  PROVE  new = b + m + a
OBVIOUS

\* A change of the statistics of songs under database_info.lock.
LEMMA ChangeStep ==
  ASSUME IInv, Unlocked, NEW st \in [Songs -> StatData], NEW ch \in [Songs -> BOOLEAN], NEW songs,
         SaveSongs(st, ch, songs),
         UNCHANGED <<loading, loaded, edited, base, again>>,
         NEW s \in Songs,
         st[s].play_count - stat[s].play_count = lived'[s].plays - lived[s].plays,
         st[s].skip_count - stat[s].skip_count = lived'[s].skips - lived[s].skips,
         lived'[s].plays \in Nat /\ lived'[s].skips \in Nat,
         lived'[s].plays >= lived[s].plays /\ lived'[s].skips >= lived[s].skips,
         ~ch[s] => ~changed[s] /\ st[s] = stat[s]
  PROVE  SongInv(s)'
<1>1. stat'[s] = st[s] /\ changed'[s] = ch[s] /\ file'[s] = file[s] /\ opened' # s
  BY LockFacts DEF IInv, SaveSongs
<1>2. /\ stat[s] \in StatData /\ st[s] \in StatData
      /\ file[s] \in StatData \cup {NoFile}
      /\ lived[s] \in [plays: Nat, skips: Nat] /\ again[s] \in [plays: Nat, skips: Nat]
      /\ base[s] \in [plays: Nat, skips: Nat]
  BY DEF IInv, TypeInv
<1>3. PlaysIn(file[s]) \in Nat /\ SkipsIn(file[s]) \in Nat
  BY <1>2, ParsedFacts
<1>4. /\ st[s].play_count \in Nat /\ st[s].skip_count \in Nat
      /\ stat[s].play_count \in Nat /\ stat[s].skip_count \in Nat
  BY <1>2 DEF StatData
<1>5. CASE s \notin loaded
  <2>1. UnreadSong(s)
    BY <1>5 DEF IInv, SongInv
  <2>2. Counts(file[s])' = base'[s]
    BY <1>1, <2>1 DEF UnreadSong, Counts, PlaysIn, SkipsIn
  <2>3. /\ st[s].play_count = lived'[s].plays + again[s].plays
        /\ st[s].skip_count = lived'[s].skips + again[s].skips
    BY <1>2, <1>4, <2>1 DEF UnreadSong
  <2>4. s \notin edited /\ ~ch[s] => st[s] = Fresh
    BY <2>1 DEF UnreadSong
  <2>5. UnreadSong(s)'
    BY <1>1, <2>2, <2>3, <2>4 DEF UnreadSong
  <2> QED BY <1>1, <1>5, <2>5 DEF SongInv, IInv
<1>6. CASE s \in loaded
  <2>1. ReadSong(s)
    BY <1>6 DEF IInv, SongInv
  <2>2. /\ st[s].play_count >= PlaysIn(file[s]) /\ st[s].skip_count >= SkipsIn(file[s])
        /\ st[s].play_count = base[s].plays + lived'[s].plays + again[s].plays
        /\ st[s].skip_count = base[s].skips + lived'[s].skips + again[s].skips
    <3>1. /\ stat[s].play_count >= PlaysIn(file[s]) /\ stat[s].skip_count >= SkipsIn(file[s])
          /\ stat[s].play_count = base[s].plays + lived[s].plays + again[s].plays
          /\ stat[s].skip_count = base[s].skips + lived[s].skips + again[s].skips
      BY <2>1 DEF ReadSong
    <3>2. /\ base[s].plays \in Nat /\ base[s].skips \in Nat
          /\ lived[s].plays \in Nat /\ lived[s].skips \in Nat
          /\ again[s].plays \in Nat /\ again[s].skips \in Nat
      BY <1>2
    <3>3. st[s].play_count >= stat[s].play_count /\ st[s].skip_count >= stat[s].skip_count
      BY <1>4, <3>2
    <3>4. st[s].play_count >= PlaysIn(file[s]) /\ st[s].skip_count >= SkipsIn(file[s])
      BY <1>3, <1>4, <3>1, <3>3
    <3>5. st[s].play_count = base[s].plays + lived'[s].plays + again[s].plays
      BY <1>4, <3>1, <3>2, AddsUp
    <3>6. st[s].skip_count = base[s].skips + lived'[s].skips + again[s].skips
      BY <1>4, <3>1, <3>2, AddsUp
    <3> QED BY <3>4, <3>5, <3>6
  <2>3. s \notin edited /\ ~ch[s] => st[s] = InFile(s)
    BY <2>1 DEF ReadSong
  <2>4. ReadSong(s)'
    BY <1>1, <2>2, <2>3 DEF ReadSong, InFile, PlaysIn, SkipsIn
  <2> QED BY <1>1, <1>6, <2>4 DEF SongInv, IInv
<1> QED BY <1>5, <1>6

\* The two halves of save_song(): the file is emptied, then it has what the song has.
LEMMA SaveStep ==
  ASSUME IInv, save_song \/ save_stat_data, NEW s \in Songs
  PROVE  SongInv(s)'
<1>0. /\ SongInv(s) /\ stat[s] \in StatData /\ s \in Nat /\ s > 0 /\ s <= SongCount
      /\ file \in [Songs -> StatData \cup {NoFile}] /\ changed \in [Songs -> BOOLEAN]
  <2>1. s \in Nat /\ s > 0 /\ s <= SongCount
    BY StatisticsAssumption DEF Songs
  <2> QED BY <2>1 DEF IInv, TypeInv
<1>1. UNCHANGED <<stat, loading, loaded, edited, base, lived, again>>
  BY DEF save_song, save_stat_data, history
<1>2. stat[s].play_count \in Nat /\ stat[s].skip_count \in Nat
  BY <1>0 DEF StatData
<1>3. ASSUME NEW r \in saving, NotWritten(r) PROVE SongInv(s)'
  BY <1>0, <1>1, <1>3 DEF NotWritten, SongInv, UnreadSong, ReadSong, InFile
<1>4. ASSUME NEW r \in saving, OpenToWrite(r), opened = 0 PROVE SongInv(s)'
  <2>1. CASE r = s
    <3>1. file'[s] = NoFile /\ changed'[s] = changed[s] /\ changed[s] /\ stats_loaded
      BY <1>0, <1>4, <2>1 DEF OpenToWrite, ToWrite
    <3>2. s \in loaded
      BY <1>0, <3>1, StatisticsAssumption DEF IInv, SavedLate, SongInv, Ready
    <3>3. ReadSong(s)
      BY <1>0, <3>2 DEF SongInv
    <3>4. ReadSong(s)'
      BY <1>1, <1>2, <3>1, <3>3 DEF ReadSong, PlaysIn, SkipsIn
    <3> QED BY <1>0, <1>1, <3>1, <3>2, <3>4 DEF SongInv
  <2>2. CASE r # s
    <3>1. file'[s] = file[s] /\ changed' = changed /\ opened' # s
      BY <1>0, <1>4, <2>2 DEF OpenToWrite
    <3> QED BY <1>0, <1>1, <3>1 DEF SongInv, UnreadSong, ReadSong, InFile
  <2> QED BY <2>1, <2>2
<1>5. CASE save_song
  <2>1. opened = 0 /\ \E r \in saving : NotWritten(r) \/ OpenToWrite(r)
    BY <1>5 DEF save_song
  <2> QED BY <1>3, <1>4, <2>1
<1>6. CASE save_stat_data
  <2>1. CASE s = opened
    <3>1. file'[s] = stat[s] /\ changed'[s] = FALSE /\ opened' # s
      BY <1>0, <1>6, <2>1 DEF save_stat_data
    <3>2. s \in loaded /\ ReadSong(s) /\ stat[s] # NoFile
      BY <1>0, <2>1, StatisticsAssumption DEF SongInv
    <3>3. PlaysIn(file'[s]) = stat[s].play_count /\ SkipsIn(file'[s]) = stat[s].skip_count
          /\ InFile(s)' = stat[s]
      BY <1>1, <3>1, <3>2 DEF PlaysIn, SkipsIn, InFile
    <3>4. ReadSong(s)'
      BY <1>1, <1>2, <3>2, <3>3 DEF ReadSong
    <3> QED BY <1>0, <1>1, <3>1, <3>2, <3>4 DEF SongInv
  <2>2. CASE s # opened
    <3>1. file'[s] = file[s] /\ changed'[s] = changed[s] /\ opened' # s
      BY <1>0, <1>6, <2>2 DEF save_stat_data
    <3> QED BY <1>0, <1>1, <3>1 DEF SongInv, UnreadSong, ReadSong, InFile
  <2> QED BY <2>1, <2>2
<1> QED BY <1>5, <1>6

------------------------------------------------------------------------------
\* pick_song() changes no counts, and marks every song it changes.
LEMMA PickFacts ==
  ASSUME TypeInv, pick_song
  PROVE  \E st \in [Songs -> StatData], ch \in [Songs -> BOOLEAN], songs \in SUBSET Songs :
           /\ SaveSongs(st, ch, songs)
           /\ \A s \in Songs : /\ st[s].play_count = stat[s].play_count
                               /\ st[s].skip_count = stat[s].skip_count
                               /\ st[s].manual_rating = stat[s].manual_rating
                               /\ ~ch[s] => ~changed[s] /\ st[s] = stat[s]
<1>1. PICK drawn \in [Songs -> 0..RepeatLimit], pick \in Songs, full \in BOOLEAN :
        /\ \A s \in Songs : drawn[s] <= stat[s].repeat_counter
        /\ SaveSongs([s \in Songs |->
                       [stat[s] EXCEPT !.repeat_counter = IF s = pick THEN RepeatLimit ELSE @ - drawn[s]]],
                     [s \in Songs |-> changed[s] \/ s = pick \/ drawn[s] > 0],
                     IF full THEN Songs ELSE {})
  BY DEF pick_song
<1> DEFINE st == [s \in Songs |->
                   [stat[s] EXCEPT !.repeat_counter = IF s = pick THEN RepeatLimit ELSE @ - drawn[s]]]
           ch == [s \in Songs |-> changed[s] \/ s = pick \/ drawn[s] > 0]
<1>2. ASSUME NEW s \in Songs
      PROVE  /\ st[s] \in StatData
             /\ st[s].play_count = stat[s].play_count
             /\ st[s].skip_count = stat[s].skip_count
             /\ st[s].manual_rating = stat[s].manual_rating
             /\ s # pick /\ drawn[s] = 0 => st[s] = stat[s]
  <2>1. stat[s] \in StatData /\ drawn[s] \in Nat /\ drawn[s] <= stat[s].repeat_counter /\ RepeatLimit \in Nat
    BY <1>1, StatisticsAssumption DEF TypeInv
  <2> QED BY <2>1 DEF StatData
<1>3. ASSUME NEW s \in Songs, ~ch[s] PROVE ~changed[s] /\ s # pick /\ drawn[s] = 0
  <2>1. ~changed[s] /\ s # pick /\ ~(drawn[s] > 0)
    BY <1>3
  <2>2. drawn[s] \in Nat
    BY StatisticsAssumption
  <2> QED BY <2>1, <2>2
<1>4. st \in [Songs -> StatData] /\ ch \in [Songs -> BOOLEAN]
  BY <1>2 DEF TypeInv
<1> HIDE DEF st, ch
<1>5. SaveSongs(st, ch, IF full THEN Songs ELSE {})
  BY <1>1 DEF st, ch
<1>6. (IF full THEN Songs ELSE {}) \in SUBSET Songs
  OBVIOUS
<1> QED BY <1>2, <1>3, <1>4, <1>5, <1>6

LEMMA RerateTypes ==
  ASSUME TypeInv, NEW s \in Songs, NEW st \in StatData, Rerate(s, st)
  PROVE  /\ stat' \in [Songs -> StatData] /\ changed' \in [Songs -> BOOLEAN]
         /\ saving' \subseteq Songs /\ opened' \in saving' \cup {0}
         /\ UNCHANGED <<file, stats_loaded, loading, picking, base, again, loaded>>
<1>1. /\ [stat EXCEPT ![s] = st] \in [Songs -> StatData]
      /\ [changed EXCEPT ![s] = TRUE] \in [Songs -> BOOLEAN]
  BY DEF TypeInv
<1>2. opened = 0
  BY LockFacts DEF Rerate
<1> QED BY <1>1, <1>2 DEF Rerate, SaveSongs

LEMMA TypeStep == TypeInv /\ [Next]_vars => TypeInv'
<1> SUFFICES ASSUME TypeInv, [Next]_vars PROVE TypeInv'
  OBVIOUS
<1>1. CASE LoadAll
  <2>1. [s \in Songs |-> Parsed(stat[s], file[s])] \in [Songs -> StatData]
    BY ParsedFacts DEF TypeInv
  <2>2. loading' \in 1..Ready
    BY <1>1, StatisticsAssumption DEF LoadAll, CallingPicker, Ready
  <2>3. opened = 0
    BY <1>1, LockFacts DEF LoadAll
  <2> QED BY <1>1, <2>1, <2>2, <2>3 DEF LoadAll, SaveSongs, TypeInv
<1>2. CASE LoadNext
  <2>1. Parsed(stat[loading], file[loading]) \in StatData
    BY <1>2, ParsedFacts DEF LoadNext, TypeInv
  <2>2. loading' \in 1..Ready
    BY <1>2, StatisticsAssumption DEF LoadNext, Songs, Ready
  <2> QED BY <1>2, <2>1, <2>2 DEF LoadNext, saves, TypeInv
<1>3. CASE SaveAfterLoading
  <2>1. loading' \in 1..Ready
    BY <1>3, StatisticsAssumption DEF SaveAfterLoading, CallingPicker, Ready
  <2>2. opened = 0
    BY <1>3, LockFacts DEF SaveAfterLoading
  <2> QED BY <1>3, <2>1, <2>2 DEF SaveAfterLoading, SaveSongs, history, TypeInv
<1>4. CASE SumAll
  <2>1. loading' \in 1..Ready
    BY <1>4, StatisticsAssumption DEF SumAll, Starts, Ready
  <2>2. stats_loaded' \in BOOLEAN
    BY <1>4 DEF SumAll
  <2> QED BY <1>4, <2>1, <2>2 DEF SumAll, saves, history, TypeInv
<1>5. ASSUME NEW t \in Threads, ResetSums(t) PROVE TypeInv'
  <2>1. picking' \in [Threads -> 0..SongCount]
    <3>1. 1 \in 0..SongCount
      BY StatisticsAssumption
    <3> QED BY <1>5, <3>1 DEF ResetSums, TypeInv
  <2>2. loading' \in 1..Ready
    BY <1>5, StatisticsAssumption DEF ResetSums, Starts, Ready, TypeInv
  <2> QED BY <1>5, <2>1, <2>2 DEF ResetSums, saves, history, TypeInv
<1>6. ASSUME NEW t \in Threads, AddSong(t) PROVE TypeInv'
  <2>1. picking' \in [Threads -> 0..SongCount]
    <3>1. picking[t] \in 1..SongCount
      BY <1>6 DEF AddSong, Songs
    <3>2. (IF picking[t] = SongCount THEN 0 ELSE picking[t] + 1) \in 0..SongCount
      BY <3>1, StatisticsAssumption
    <3>3. picking' = [picking EXCEPT ![t] = IF picking[t] = SongCount THEN 0 ELSE picking[t] + 1]
      BY <1>6 DEF AddSong
    <3> QED BY <3>2, <3>3 DEF TypeInv
  <2>2. stats_loaded' \in BOOLEAN
    BY <1>6 DEF AddSong
  <2> QED BY <1>6, <2>1, <2>2 DEF AddSong, saves, history, TypeInv
<1>7. ASSUME NEW s \in Songs, feedback(s) PROVE TypeInv'
  <2>1. Played(stat[s]) \in StatData /\ Skipped(stat[s]) \in StatData
    <3>1. stat[s] \in StatData
      BY DEF TypeInv
    <3> QED BY <3>1 DEF Played, Skipped, StatData
  <2>2. lived' \in [Songs -> [plays: Nat, skips: Nat]]
    <3>1. lived[s] \in [plays: Nat, skips: Nat]
      BY DEF TypeInv
    <3>2. /\ [lived[s] EXCEPT !.plays = @ + 1] \in [plays: Nat, skips: Nat]
          /\ [lived[s] EXCEPT !.skips = @ + 1] \in [plays: Nat, skips: Nat]
      BY <3>1
    <3>3. \/ lived' = [lived EXCEPT ![s] = [lived[s] EXCEPT !.plays = @ + 1]]
          \/ lived' = [lived EXCEPT ![s] = [lived[s] EXCEPT !.skips = @ + 1]]
      BY <1>7 DEF feedback
    <3> QED BY <3>2, <3>3 DEF TypeInv
  <2>3. PICK st \in StatData : Rerate(s, st)
    BY <1>7, <2>1 DEF feedback
  <2> QED BY <2>2, <2>3, RerateTypes DEF TypeInv
<1>8. ASSUME NEW s \in Songs, do_song_rating_adjust(s) PROVE TypeInv'
  <2>1. PICK amount \in Amounts, relative \in BOOLEAN :
          Rerate(s, [stat[s] EXCEPT !.manual_rating = Clamp(IF relative THEN @ + amount ELSE amount)])
    BY <1>8 DEF do_song_rating_adjust
  <2>2. \A r \in Int : Clamp(r) \in -1..10
    BY DEF Clamp
  <2>3. stat[s] \in StatData /\ stat[s].manual_rating \in Int /\ amount \in Int
    BY StatisticsAssumption DEF TypeInv, StatData
  <2>4. [stat[s] EXCEPT !.manual_rating = Clamp(IF relative THEN @ + amount ELSE amount)] \in StatData
    BY <2>2, <2>3 DEF StatData
  <2>5. PICK st \in StatData : Rerate(s, st)
    BY <2>1, <2>4
  <2>6. UNCHANGED lived
    BY <1>8 DEF do_song_rating_adjust
  <2> QED BY <2>5, <2>6, RerateTypes DEF TypeInv
<1>9. ASSUME NEW s \in Songs, do_edit_command(s) PROVE TypeInv'
  <2>1. Parsed(stat[s], file[s]) \in StatData
    BY ParsedFacts DEF TypeInv
  <2>2. again' \in [Songs -> [plays: Nat, skips: Nat]]
    <3>1. PlaysIn(file[s]) \in Nat /\ SkipsIn(file[s]) \in Nat
      BY ParsedFacts DEF TypeInv
    <3> QED BY <1>9, <3>1 DEF do_edit_command, TypeInv
  <2> QED BY <1>9, <2>1, <2>2 DEF do_edit_command, saves, TypeInv
<1>10. CASE pick_song
  <2>1. PICK st \in [Songs -> StatData], ch \in [Songs -> BOOLEAN], songs \in SUBSET Songs :
          SaveSongs(st, ch, songs)
    BY <1>10, PickFacts
  <2>2. opened = 0
    BY <1>10, LockFacts DEF pick_song
  <2> QED BY <1>10, <2>1, <2>2 DEF pick_song, SaveSongs, history, TypeInv
<1>11. CASE EnterBiasScreen \/ ChangeBias \/ LeaveBiasScreen \/ UNCHANGED vars
  BY <1>11 DEF EnterBiasScreen, ChangeBias, LeaveBiasScreen, vars, saves, history, TypeInv
<1>12. CASE Restart
  <2>1. stat' \in [Songs -> StatData]
    BY <1>12 DEF Restart, Fresh, StatData
  <2>2. \A s \in Songs : Counts(file[s]) \in [plays: Nat, skips: Nat]
    BY ParsedFacts DEF TypeInv, Counts
  <2>3. Counts(NoFile) \in [plays: Nat, skips: Nat]
    BY DEF Counts, PlaysIn, SkipsIn
  <2>4. base' \in [Songs -> [plays: Nat, skips: Nat]] /\ lived' \in [Songs -> [plays: Nat, skips: Nat]]
        /\ again' \in [Songs -> [plays: Nat, skips: Nat]]
    BY <1>12, <2>2, <2>3 DEF Restart
  <2>5. loading' \in 1..Ready /\ picking' \in [Threads -> 0..SongCount]
    BY <1>12, StatisticsAssumption DEF Restart, Ready
  <2>6. changed' \in [Songs -> BOOLEAN] /\ file' \in [Songs -> StatData \cup {NoFile}]
        /\ stats_loaded' \in BOOLEAN
    BY <1>12 DEF Restart, TypeInv
  <2>7. loaded' \subseteq Songs /\ saving' \subseteq Songs /\ opened' \in saving' \cup {0}
    BY <1>12 DEF Restart
  <2> QED BY <2>1, <2>4, <2>5, <2>6, <2>7 DEF TypeInv
<1>13. CASE save_song
  <2>1. UNCHANGED <<stat, stats_loaded, loading, picking, base, lived, again, loaded>>
    BY <1>13 DEF save_song, history
  <2>2. opened = 0 /\ \E s \in saving : NotWritten(s) \/ OpenToWrite(s)
    BY <1>13 DEF save_song
  <2>3. /\ changed' \in [Songs -> BOOLEAN] /\ file' \in [Songs -> StatData \cup {NoFile}]
        /\ saving' \subseteq Songs /\ opened' \in saving' \cup {0}
    BY <2>2 DEF NotWritten, OpenToWrite, TypeInv
  <2> QED BY <2>1, <2>3 DEF TypeInv
<1>14. CASE save_stat_data
  <2>1. opened \in Songs /\ stat[opened] \in StatData
    BY <1>14 DEF save_stat_data, TypeInv
  <2> QED BY <1>14, <2>1 DEF save_stat_data, history, TypeInv
<1> QED BY <1>1, <1>2, <1>3, <1>4, <1>5, <1>6, <1>7, <1>8, <1>9, <1>10, <1>11, <1>12, <1>13, <1>14 DEF Next

\* Sums and saves come after loading, since the remote leaves the bias screen only
\* then.
LEMMA LateStep ==
  ASSUME ~BiasWhileLoading
  PROVE  TypeInv /\ SavedLate /\ [Next]_vars => SavedLate'
<1> SUFFICES ASSUME TypeInv, SavedLate, [Next]_vars PROVE SavedLate'
  OBVIOUS
<1> USE DEF SavedLate
<1>1. CASE LoadAll \/ LoadNext \/ SaveAfterLoading
  <2>1. loading # Ready
    BY <1>1, StatisticsAssumption DEF LoadAll, LoadNext, SaveAfterLoading, Ready, SavingLoaded, Songs
  <2>2. UNCHANGED <<stats_loaded, picking, bias_screen>>
    BY <1>1 DEF LoadAll, LoadNext, SaveAfterLoading
  <2> QED BY <2>1, <2>2
<1>2. CASE SumAll
  BY <1>2 DEF SumAll, Starts
<1>3. ASSUME NEW t \in Threads, ResetSums(t) PROVE SavedLate'
  BY <1>3 DEF ResetSums, Starts
<1>4. ASSUME NEW t \in Threads, AddSong(t) PROVE SavedLate'
  <2>1. picking[t] > 0
    BY <1>4, StatisticsAssumption DEF AddSong, Songs
  <2> QED BY <1>4, <2>1 DEF AddSong
<1>5. ASSUME NEW s \in Songs, feedback(s) \/ do_song_rating_adjust(s) \/ do_edit_command(s)
      PROVE  SavedLate'
  <2>1. UNCHANGED <<stats_loaded, picking, bias_screen, loading>>
    BY <1>5 DEF feedback, do_song_rating_adjust, do_edit_command, Rerate
  <2> QED BY <2>1
<1>6. CASE pick_song \/ save_song \/ save_stat_data \/ UNCHANGED vars
  BY <1>6 DEF pick_song, save_song, save_stat_data, vars
<1>7. CASE EnterBiasScreen \/ ChangeBias \/ LeaveBiasScreen
  BY <1>7 DEF EnterBiasScreen, ChangeBias, LeaveBiasScreen
<1>8. CASE Restart
  BY <1>8 DEF Restart
<1> QED BY <1>1, <1>2, <1>3, <1>4, <1>5, <1>6, <1>7, <1>8 DEF Next

\* ChangeStep for a change of one song, as feedback() and rating make it.
LEMMA RerateStep ==
  ASSUME IInv, NEW r \in Songs, NEW s \in Songs, NEW st \in StatData, Rerate(r, st),
         [stat EXCEPT ![r] = st][s].play_count - stat[s].play_count = lived'[s].plays - lived[s].plays,
         [stat EXCEPT ![r] = st][s].skip_count - stat[s].skip_count = lived'[s].skips - lived[s].skips,
         lived'[s].plays >= lived[s].plays /\ lived'[s].skips >= lived[s].skips,
         lived'[s].plays \in Nat /\ lived'[s].skips \in Nat
  PROVE  SongInv(s)'
<1> DEFINE nst == [stat EXCEPT ![r] = st]
           nch == [changed EXCEPT ![r] = TRUE]
<1>1. nst \in [Songs -> StatData] /\ nch \in [Songs -> BOOLEAN]
  BY DEF IInv, TypeInv
<1>2. Unlocked /\ SaveSongs(nst, nch, {r}) /\ UNCHANGED <<loading, loaded, edited, base, again>>
  BY DEF Rerate
<1>3. ~nch[s] => ~changed[s] /\ nst[s] = stat[s]
  <2>1. CASE s = r
    BY <2>1 DEF IInv, TypeInv
  <2>2. CASE s # r
    BY <2>2 DEF IInv, TypeInv
  <2> QED BY <2>1, <2>2
<1>4. /\ nst[s].play_count - stat[s].play_count = lived'[s].plays - lived[s].plays
      /\ nst[s].skip_count - stat[s].skip_count = lived'[s].skips - lived[s].skips
  OBVIOUS
<1> HIDE DEF nst, nch
<1> QED BY <1>1, <1>2, <1>3, <1>4, ChangeStep

LEMMA SongStep == IInv /\ [Next]_vars => \A s \in Songs : SongInv(s)'
<1> SUFFICES ASSUME IInv, [Next]_vars, NEW s \in Songs PROVE SongInv(s)'
  OBVIOUS
<1>0. TypeInv /\ SongInv(s) /\ s \in Nat /\ s >= 1 /\ s <= SongCount
      /\ TypeInv' /\ SongCount \in Nat
  BY TypeStep, StatisticsAssumption DEF IInv, Songs
<1>1. CASE LoadAll
  <2>1. /\ s \notin loaded /\ s \in loaded' /\ s < loading'
        /\ UNCHANGED <<edited, base, lived, again>>
    BY <1>0, <1>1 DEF LoadAll, SongInv, CallingPicker
  <2>2. opened # s
    BY <1>0, <1>1, LockFacts DEF LoadAll
  <2>3. /\ stat'[s] = Parsed(stat[s], file[s])
        /\ changed'[s] = changed[s] /\ file'[s] = file[s] /\ opened' # s
    BY <1>1, <2>2 DEF LoadAll, SaveSongs
  <2> QED BY <2>1, <2>3, ReadStep
<1>2. CASE LoadNext
  <2>1. loading \in Songs /\ loading' = loading + 1 /\ loading \in Nat
    BY <1>0, <1>2 DEF LoadNext, Songs
  <2>2. CASE s = loading
    <3>1. s \notin loaded
      BY <1>0, <2>2 DEF SongInv
    <3>2. /\ s \in loaded' /\ s < loading'
          /\ stat'[s] = Parsed(stat[s], file[s])
          /\ changed'[s] = changed[s] /\ file'[s] = file[s] /\ opened' # s
          /\ UNCHANGED <<edited, base, lived, again>>
      BY <1>0, <1>2, <2>1, <2>2, LockFacts DEF LoadNext, saves, TypeInv
    <3> QED BY <3>1, <3>2, ReadStep
  <2>3. CASE s # loading
    <3>1. s \in loaded' <=> s \in loaded
      BY <1>2, <2>3 DEF LoadNext
    <3>2. s < loading' <=> s < loading
      BY <1>0, <2>1, <2>3
    <3>3. /\ stat'[s] = stat[s] /\ changed'[s] = changed[s] /\ file'[s] = file[s] /\ opened' # s
          /\ UNCHANGED <<edited, base, lived, again>>
      BY <1>0, <1>2, <2>3, LockFacts DEF LoadNext, saves, TypeInv
    <3> QED BY <1>0, <3>1, <3>2, <3>3 DEF SongInv, UnreadSong, ReadSong, InFile
  <2> QED BY <2>2, <2>3
<1>3. CASE SaveAfterLoading
  <2>1. UNCHANGED <<stat, changed, file, opened, loaded, edited, base, lived, again>>
    BY <1>3 DEF SaveAfterLoading, SaveSongs, history
  <2>2. \A r \in Songs : r < loading <=> r < loading'
    BY <1>0, <1>3 DEF SaveAfterLoading, SavingLoaded, CallingPicker, Songs
  <2> QED BY <1>0, <2>1, <2>2, QuietStep DEF TypeInv
<1>4. CASE SumAll \/ \E t \in Threads : ResetSums(t)
  <2>1. UNCHANGED <<stat, changed, file, opened, loaded, edited, base, lived, again>>
    BY <1>4 DEF SumAll, ResetSums, saves, history
  <2>2. loading' = loading \/ (loading = CallingPicker /\ loading' = Ready)
    BY <1>4 DEF SumAll, ResetSums, Starts
  <2>3. \A r \in Songs : r < loading <=> r < loading'
    BY <2>2, <1>0 DEF Songs, CallingPicker, Ready
  <2> QED BY <1>0, <2>1, <2>3, QuietStep DEF TypeInv
<1>5. CASE \/ EnterBiasScreen \/ ChangeBias \/ LeaveBiasScreen \/ UNCHANGED vars
           \/ \E t \in Threads : AddSong(t)
  <2>1. UNCHANGED <<stat, changed, file, opened, loaded, edited, base, lived, again, loading>>
    BY <1>5 DEF EnterBiasScreen, ChangeBias, LeaveBiasScreen, vars, AddSong, saves, history
  <2> QED BY <1>0, <2>1, QuietStep DEF TypeInv
<1>6. ASSUME NEW r \in Songs, feedback(r) PROVE SongInv(s)'
  <2>1. PICK st \in StatData :
          /\ Rerate(r, st)
          /\ \/ /\ st.play_count = stat[r].play_count + 1 /\ st.skip_count = stat[r].skip_count
                /\ lived' = [lived EXCEPT ![r].plays = @ + 1]
             \/ /\ st.skip_count = stat[r].skip_count + 1 /\ st.play_count = stat[r].play_count
                /\ lived' = [lived EXCEPT ![r].skips = @ + 1]
    <3>1. stat[r] \in StatData
      BY <1>0 DEF TypeInv
    <3>2. /\ Played(stat[r]) \in StatData
          /\ Played(stat[r]).play_count = stat[r].play_count + 1
          /\ Played(stat[r]).skip_count = stat[r].skip_count
          /\ Skipped(stat[r]) \in StatData
          /\ Skipped(stat[r]).play_count = stat[r].play_count
          /\ Skipped(stat[r]).skip_count = stat[r].skip_count + 1
      BY <3>1 DEF Played, Skipped, StatData
    <3> QED BY <1>6, <3>2 DEF feedback
  <2>2. /\ lived[s] \in [plays: Nat, skips: Nat] /\ lived[r] \in [plays: Nat, skips: Nat]
        /\ stat[s].play_count \in Nat /\ stat[s].skip_count \in Nat
    BY <1>0 DEF TypeInv, StatData
  <2>3. /\ [stat EXCEPT ![r] = st][s].play_count - stat[s].play_count = lived'[s].plays - lived[s].plays
        /\ [stat EXCEPT ![r] = st][s].skip_count - stat[s].skip_count = lived'[s].skips - lived[s].skips
        /\ lived'[s].plays >= lived[s].plays /\ lived'[s].skips >= lived[s].skips
        /\ lived'[s].plays \in Nat /\ lived'[s].skips \in Nat
    <3>1. CASE s = r
      <4>1. CASE lived' = [lived EXCEPT ![r].plays = @ + 1]
                 /\ st.play_count = stat[r].play_count + 1 /\ st.skip_count = stat[r].skip_count
        <5>1. lived'[s].plays = lived[s].plays + 1 /\ lived'[s].skips = lived[s].skips
          BY <1>0, <2>2, <3>1, <4>1 DEF TypeInv
        <5>2. [stat EXCEPT ![r] = st][s] = st
          BY <1>0, <3>1 DEF TypeInv
        <5> QED BY <2>2, <3>1, <4>1, <5>1, <5>2
      <4>2. CASE lived' = [lived EXCEPT ![r].skips = @ + 1]
                 /\ st.skip_count = stat[r].skip_count + 1 /\ st.play_count = stat[r].play_count
        <5>1. lived'[s].skips = lived[s].skips + 1 /\ lived'[s].plays = lived[s].plays
          BY <1>0, <2>2, <3>1, <4>2 DEF TypeInv
        <5>2. [stat EXCEPT ![r] = st][s] = st
          BY <1>0, <3>1 DEF TypeInv
        <5> QED BY <2>2, <3>1, <4>2, <5>1, <5>2
      <4> QED BY <2>1, <4>1, <4>2
    <3>2. CASE s # r
      <4>1. lived'[s] = lived[s] /\ [stat EXCEPT ![r] = st][s] = stat[s]
        BY <1>0, <2>1, <3>2 DEF TypeInv
      <4> QED BY <2>2, <4>1
    <3> QED BY <3>1, <3>2
  <2> QED BY <1>0, <2>1, <2>3, RerateStep
<1>7. ASSUME NEW r \in Songs, do_song_rating_adjust(r) PROVE SongInv(s)'
  <2>1. UNCHANGED lived
    BY <1>7 DEF do_song_rating_adjust
  <2>2. PICK m \in -1..10 : Rerate(r, [stat[r] EXCEPT !.manual_rating = m])
    <3>1. PICK amount \in Amounts, relative \in BOOLEAN :
            Rerate(r, [stat[r] EXCEPT !.manual_rating = Clamp(IF relative THEN @ + amount ELSE amount)])
      BY <1>7 DEF do_song_rating_adjust
    <3>2. stat[r].manual_rating \in Int /\ amount \in Int
      BY <1>0, StatisticsAssumption DEF TypeInv, StatData
    <3>3. Clamp(IF relative THEN stat[r].manual_rating + amount ELSE amount) \in -1..10
      BY <3>2 DEF Clamp
    <3> QED BY <3>1, <3>3
  <2>3. /\ [stat[r] EXCEPT !.manual_rating = m] \in StatData
        /\ [stat[r] EXCEPT !.manual_rating = m].play_count = stat[r].play_count
        /\ [stat[r] EXCEPT !.manual_rating = m].skip_count = stat[r].skip_count
        /\ stat[s].play_count \in Nat /\ stat[s].skip_count \in Nat
        /\ lived[s] \in [plays: Nat, skips: Nat]
    <3>1. stat[r] \in StatData /\ stat[s] \in StatData
      BY <1>0 DEF TypeInv
    <3> QED BY <1>0, <3>1 DEF TypeInv, StatData
  <2>4. PICK st \in StatData : /\ Rerate(r, st)
                               /\ st.play_count = stat[r].play_count
                               /\ st.skip_count = stat[r].skip_count
    BY <2>2, <2>3
  <2>5. /\ [stat EXCEPT ![r] = st][s].play_count = stat[s].play_count
        /\ [stat EXCEPT ![r] = st][s].skip_count = stat[s].skip_count
    BY <1>0, <2>4 DEF TypeInv
  <2>6. /\ [stat EXCEPT ![r] = st][s].play_count - stat[s].play_count = lived'[s].plays - lived[s].plays
        /\ [stat EXCEPT ![r] = st][s].skip_count - stat[s].skip_count = lived'[s].skips - lived[s].skips
        /\ lived'[s].plays >= lived[s].plays /\ lived'[s].skips >= lived[s].skips
        /\ lived'[s].plays \in Nat /\ lived'[s].skips \in Nat
    BY <2>1, <2>3, <2>5
  <2> QED BY <1>0, <2>4, <2>6, RerateStep
<1>8. ASSUME NEW r \in Songs, do_edit_command(r) PROVE SongInv(s)'
  <2>1. /\ UNCHANGED <<file, opened, loaded, base, lived, loading>> /\ opened # s
        /\ edited' = edited \cup {r}
    BY <1>0, <1>8, LockFacts DEF do_edit_command, saves
  <2>2. CASE s # r
    <3>1. stat'[s] = stat[s] /\ changed'[s] = changed[s] /\ again'[s] = again[s]
          /\ (s \in edited' <=> s \in edited)
      BY <1>0, <1>8, <2>2 DEF do_edit_command, TypeInv
    <3> QED BY <1>0, <2>1, <3>1 DEF SongInv, UnreadSong, ReadSong, InFile
  <2>3. CASE s = r
    <3>1. /\ stat'[s] = Parsed(stat[s], file[s]) /\ s \in edited'
          /\ again'[s] = [plays |-> again[s].plays + PlaysIn(file[s]),
                         skips |-> again[s].skips + SkipsIn(file[s])]
      BY <1>0, <1>8, <2>1, <2>3 DEF do_edit_command, TypeInv
    <3>2. /\ stat[s] \in StatData /\ file[s] \in StatData \cup {NoFile}
          /\ base[s] \in [plays: Nat, skips: Nat]
          /\ lived[s] \in [plays: Nat, skips: Nat] /\ again[s] \in [plays: Nat, skips: Nat]
      BY <1>0 DEF TypeInv
    <3>3. /\ stat'[s].play_count = stat[s].play_count + PlaysIn(file[s])
          /\ stat'[s].skip_count = stat[s].skip_count + SkipsIn(file[s])
          /\ PlaysIn(file[s]) \in Nat /\ SkipsIn(file[s]) \in Nat
          /\ stat[s].play_count \in Nat /\ stat[s].skip_count \in Nat
      BY <3>1, <3>2, ParsedFacts DEF StatData
    <3>4. again'[s].plays = again[s].plays + PlaysIn(file[s])
          /\ again'[s].skips = again[s].skips + SkipsIn(file[s])
      BY <3>1
    <3>5. ASSUME s \notin loaded PROVE UnreadSong(s)'
      <4>1. UnreadSong(s)
        BY <1>0, <3>5 DEF SongInv
      <4>2. Counts(file[s])' = base'[s]
        BY <2>1, <4>1 DEF UnreadSong, Counts, PlaysIn, SkipsIn
      <4> QED BY <2>1, <3>1, <3>2, <3>3, <3>4, <4>1, <4>2 DEF UnreadSong
    <3>6. ASSUME s \in loaded PROVE ReadSong(s)'
      <4>1. ReadSong(s)
        BY <1>0, <3>6 DEF SongInv
      <4>2. PlaysIn(file[s])' = PlaysIn(file[s]) /\ SkipsIn(file[s])' = SkipsIn(file[s])
        BY <2>1
      <4> QED BY <2>1, <3>1, <3>2, <3>3, <3>4, <4>1, <4>2 DEF ReadSong
    <3> QED BY <1>0, <2>1, <3>5, <3>6 DEF SongInv
  <2> QED BY <2>2, <2>3
<1>9. CASE pick_song
  <2>1. PICK st \in [Songs -> StatData], ch \in [Songs -> BOOLEAN], songs \in SUBSET Songs :
          /\ SaveSongs(st, ch, songs)
          /\ \A r \in Songs : /\ st[r].play_count = stat[r].play_count
                              /\ st[r].skip_count = stat[r].skip_count
                              /\ ~ch[r] => ~changed[r] /\ st[r] = stat[r]
    BY <1>0, <1>9, PickFacts
  <2>2. Unlocked /\ UNCHANGED <<loading, loaded, edited, base, lived, again>>
    BY <1>9 DEF pick_song, history
  <2>3. lived[s].plays \in Nat /\ lived[s].skips \in Nat
        /\ stat[s].play_count \in Nat /\ stat[s].skip_count \in Nat
    BY <1>0 DEF TypeInv, StatData
  <2>4. /\ st[s].play_count - stat[s].play_count = lived'[s].plays - lived[s].plays
        /\ st[s].skip_count - stat[s].skip_count = lived'[s].skips - lived[s].skips
        /\ lived'[s].plays \in Nat /\ lived'[s].skips \in Nat
        /\ lived'[s].plays >= lived[s].plays /\ lived'[s].skips >= lived[s].skips
        /\ ~ch[s] => ~changed[s] /\ st[s] = stat[s]
    BY <2>1, <2>2, <2>3
  <2> QED BY <2>1, <2>2, <2>4, ChangeStep
<1>10. CASE Restart
  BY <1>0, <1>10 DEF Restart, SongInv, UnreadSong, Counts, PlaysIn, SkipsIn, Fresh, TypeInv
<1>11. CASE save_song \/ save_stat_data
  BY <1>11, SaveStep
<1> QED BY <1>1, <1>2, <1>3, <1>4, <1>5, <1>6, <1>7, <1>8, <1>9, <1>10, <1>11 DEF Next

------------------------------------------------------------------------------
LEMMA AlwaysInv == ASSUME ~BiasWhileLoading PROVE Spec => []IInv
<1>1. Init => IInv
  BY InitInv
<1>2. IInv /\ [Next]_vars => IInv'
  BY TypeStep, LateStep, SongStep DEF IInv
<1> QED BY <1>1, <1>2, PTL DEF Spec

\* What save_song() takes for saved is saved, in every session.
THEOREM WhatIsUnchangedIsSaved == ASSUME ~BiasWhileLoading PROVE Spec => []Saved
<1>1. IInv => Saved
  BY DEF IInv, TypeInv, SongInv, ReadSong, InFile, Saved
<1> QED BY <1>1, AlwaysInv, PTL

\* Plays and skips are counted once, whether they happen before or after the file
\* of the song is read, and every edit adds what the file has once more.
THEOREM CountsStayTrue == ASSUME ~BiasWhileLoading PROVE Spec => []CountsTrue
<1>1. ASSUME IInv, NEW s \in Songs
      PROVE  LET start == IF s \in loaded THEN base[s] ELSE Counts(NoFile) IN
             /\ stat[s].play_count = start.plays + lived[s].plays + again[s].plays
             /\ stat[s].skip_count = start.skips + lived[s].skips + again[s].skips
  <2>1. lived[s] \in [plays: Nat, skips: Nat] /\ again[s] \in [plays: Nat, skips: Nat]
    BY <1>1 DEF IInv, TypeInv
  <2>2. CASE s \in loaded
    BY <1>1, <2>2 DEF IInv, SongInv, ReadSong
  <2>3. CASE s \notin loaded
    <3>1. UnreadSong(s)
      BY <1>1, <2>3 DEF IInv, SongInv
    <3>2. Counts(NoFile).plays = 0 /\ Counts(NoFile).skips = 0
      BY DEF Counts, PlaysIn, SkipsIn
    <3> QED BY <2>1, <2>3, <3>1, <3>2 DEF UnreadSong
  <2> QED BY <2>2, <2>3
<1>2. IInv => CountsTrue
  BY <1>1 DEF CountsTrue
<1> QED BY <1>2, AlwaysInv, PTL

LEMMA CountsStep ==
  ASSUME IInv, [Next]_vars, NEW s \in Songs
  PROVE  \/ PlaysIn(Stored(s)') >= PlaysIn(Stored(s)) /\ SkipsIn(Stored(s)') >= SkipsIn(Stored(s))
         \/ s = opened /\ Restart
<1>0. /\ TypeInv /\ SongInv(s) /\ s # 0
      /\ stat[s] \in StatData /\ file[s] \in StatData \cup {NoFile} /\ NoFile \notin StatData
      /\ file \in [Songs -> StatData \cup {NoFile}]
  <2>1. s # 0 /\ NoFile \notin StatData
    BY StatisticsAssumption DEF Songs
  <2> QED BY <2>1 DEF IInv, TypeInv
<1>1. Stored(s) \in StatData \cup {NoFile}
  BY <1>0 DEF Stored
<1>2. PlaysIn(Stored(s)) \in Nat /\ SkipsIn(Stored(s)) \in Nat
  BY <1>0, <1>1, ParsedFacts
<1>3. CASE Stored(s)' = Stored(s)
  BY <1>2, <1>3
<1>4. CASE Unlocked /\ UNCHANGED <<file, opened>>
  <2>1. Stored(s)' = Stored(s)
    BY <1>0, <1>4, LockFacts DEF Stored
  <2> QED BY <1>3, <2>1
<1>5. CASE \/ LoadAll \/ LoadNext \/ SaveAfterLoading \/ SumAll \/ pick_song
           \/ \E t \in Threads : ResetSums(t) \/ AddSong(t)
           \/ \E r \in Songs : feedback(r) \/ do_song_rating_adjust(r) \/ do_edit_command(r)
  <2>1. Unlocked /\ UNCHANGED <<file, opened>>
    BY <1>5 DEF LoadAll, LoadNext, SaveAfterLoading, SumAll, pick_song, ResetSums, AddSong,
                feedback, do_song_rating_adjust, Rerate, do_edit_command, SaveSongs, saves
  <2> QED BY <1>4, <2>1
<1>6. CASE EnterBiasScreen \/ ChangeBias \/ LeaveBiasScreen \/ UNCHANGED vars
  <2>1. UNCHANGED <<stat, file, opened>>
    BY <1>6 DEF EnterBiasScreen, ChangeBias, LeaveBiasScreen, saves, vars
  <2> QED BY <1>3, <2>1 DEF Stored
<1>7. CASE Restart
  <2>1. s # opened => Stored(s)' = Stored(s)
    BY <1>0, <1>7 DEF Restart, Stored
  <2> QED BY <1>3, <1>7, <2>1
<1>8. CASE save_stat_data
  <2>1. Stored(s)' = Stored(s)
    <3>1. CASE s = opened
      BY <1>0, <1>8, <3>1 DEF save_stat_data, Stored
    <3>2. CASE s # opened
      BY <1>0, <1>8, <3>2 DEF save_stat_data, Stored
    <3> QED BY <3>1, <3>2
  <2> QED BY <1>3, <2>1
<1>9. CASE save_song
  <2>1. PICK r \in saving : NotWritten(r) \/ OpenToWrite(r)
    BY <1>9 DEF save_song
  <2>2. UNCHANGED stat /\ opened = 0
    BY <1>9 DEF save_song
  <2>3. CASE NotWritten(r)
    BY <1>3, <2>2, <2>3 DEF NotWritten, Stored
  <2>4. CASE OpenToWrite(r) /\ r # s
    <3>1. Stored(s)' = Stored(s)
      BY <1>0, <2>2, <2>4 DEF OpenToWrite, Stored
    <3> QED BY <1>3, <3>1
  <2>5. CASE OpenToWrite(r) /\ r = s
    <3>1. stats_loaded /\ opened' = s
      BY <2>5 DEF OpenToWrite, ToWrite
    <3>2. ReadSong(s)
      BY <1>0, <3>1, StatisticsAssumption DEF IInv, SavedLate, SongInv, Ready, Songs
    <3>3. Stored(s) = file[s] /\ Stored(s)' = stat[s]
      BY <1>0, <2>2, <3>1 DEF Stored
    <3>4. PlaysIn(stat[s]) = stat[s].play_count /\ SkipsIn(stat[s]) = stat[s].skip_count
      BY <1>0 DEF PlaysIn, SkipsIn
    <3> QED BY <3>2, <3>3, <3>4 DEF ReadSong
  <2> QED BY <2>1, <2>3, <2>4, <2>5
<1> QED BY <1>5, <1>6, <1>7, <1>8, <1>9 DEF Next

\* No play or skip that was ever written is lost, whatever the other threads do
\* while the statistics are loaded, and whenever the program is stopped: but those of
\* the one song whose file is open then.
THEOREM NoCountIsLost == ASSUME ~BiasWhileLoading PROVE Spec => CountsNeverLost
<1>1. IInv /\ [Next]_vars => [CountsKept]_vars
  BY CountsStep DEF CountsKept
<1>2. Spec => []IInv
  BY AlwaysInv
<1> QED BY <1>1, <1>2, PTL DEF Spec, CountsNeverLost

------------------------------------------------------------------------------
\* Induction over the natural numbers, for a set.
LEMMA NatSetInduction ==
  ASSUME NEW S, 0 \in S, \A n \in Nat : n \in S => n + 1 \in S
  PROVE  Nat \subseteq S
<1> DEFINE T == Nat \ S
<1> SUFFICES ASSUME T # {} PROVE FALSE
  OBVIOUS
<1>1. PICK m \in T : \A k \in T : ~ (<<k, m>> \in OpToRel(<, Nat))
  BY WFMin, NatLessThanWellFounded, Zenon
<1>2. \A k \in T : ~ (k < m)
  <2> SUFFICES ASSUME NEW k \in T, k < m PROVE FALSE
    OBVIOUS
  <2> QED BY <1>1 DEF OpToRel
<1>3. m - 1 \in Nat /\ m - 1 \notin T /\ (m - 1) + 1 = m
  BY <1>2
<1> QED BY <1>3

\* The sums after each of the first n turns of the loop.
TotalsUpTo(g, w, n) ==
  g = [s \in 0..n |-> IF s = 0 THEN NoSums ELSE [f \in Sums |-> g[s - 1][f] + w[s][f]]]

LEMMA TotalsExist ==
  ASSUME NEW w, NEW n \in Nat
  PROVE  \E g : TotalsUpTo(g, w, n)
<1> DEFINE S == {m \in Nat : \E g : TotalsUpTo(g, w, m)}
           Turn(sums0, s) == [f \in Sums |-> sums0[f] + w[s][f]]
<1>1. 0 \in S
  <2>1. TotalsUpTo([s \in 0..0 |-> NoSums], w, 0)
    BY DEF TotalsUpTo
  <2> QED BY <2>1
<1>2. ASSUME NEW m \in Nat, m \in S PROVE m + 1 \in S
  <2>1. PICK g : TotalsUpTo(g, w, m)
    BY <1>2
  <2> DEFINE h == [s \in 0..m + 1 |-> IF s <= m THEN g[s] ELSE Turn(g[m], m + 1)]
  <2>2. ASSUME NEW s \in 0..m + 1
        PROVE  h[s] = IF s = 0 THEN NoSums ELSE Turn(h[s - 1], s)
    <3>1. \A j \in 1..m : g[j] = Turn(g[j - 1], j)
      <4> SUFFICES ASSUME NEW j \in 1..m PROVE g[j] = Turn(g[j - 1], j)
        OBVIOUS
      <4>1. j \in 0..m /\ j # 0
        OBVIOUS
      <4> QED BY <2>1, <4>1 DEF TotalsUpTo
    <3> HIDE DEF Turn
    <3>2. CASE s = 0
      BY <2>1, <3>2 DEF TotalsUpTo
    <3>3. CASE s \in 1..m
      <4>1. s \in 0..m + 1 /\ s - 1 \in 0..m + 1 /\ s <= m /\ s - 1 <= m /\ s # 0
        BY <3>3
      <4> QED BY <3>1, <3>3, <4>1
    <3>4. CASE s = m + 1
      BY <3>4
    <3> QED BY <3>2, <3>3, <3>4
  <2>3. TotalsUpTo(h, w, m + 1)
    <3> HIDE DEF h
    <3>1. h = [s \in 0..m + 1 |-> h[s]]
      BY DEF h
    <3> QED BY <2>2, <3>1 DEF TotalsUpTo
  <2> QED BY <2>3
<1> HIDE DEF S
<1>3. Nat \subseteq S
  BY <1>1, <1>2, NatSetInduction
<1> QED BY <1>3 DEF S

\* What a turn of the loop adds.
LEMMA TotalTurns ==
  ASSUME NEW w
  PROVE  /\ Total(w, 0) = NoSums
         /\ \A n \in 0..SongCount - 1 :
              Total(w, n + 1) = [f \in Sums |-> Total(w, n)[f] + w[n + 1][f]]
<1> DEFINE g == CHOOSE g : TotalsUpTo(g, w, SongCount)
<1>1. SongCount \in Nat
  BY StatisticsAssumption
<1>2. TotalsUpTo(g, w, SongCount)
  BY <1>1, TotalsExist
<1>3. \A n : Total(w, n) = g[n]
  BY DEF Total, TotalsUpTo
<1> HIDE DEF g
<1>4. Total(w, 0) = NoSums
  <2>1. 0 \in 0..SongCount /\ g[0] = NoSums
    BY <1>1, <1>2 DEF TotalsUpTo
  <2> QED BY <1>3, <2>1, Zenon
<1>5. ASSUME NEW n \in 0..SongCount - 1
      PROVE  Total(w, n + 1) = [f \in Sums |-> Total(w, n)[f] + w[n + 1][f]]
  <2>1. n + 1 \in 0..SongCount /\ n + 1 # 0 /\ (n + 1) - 1 = n
    BY <1>1
  <2>2. g[n + 1] = [f \in Sums |-> g[n][f] + w[n + 1][f]]
    BY <1>2, <2>1 DEF TotalsUpTo
  <2> QED BY <1>3, <2>2
<1> QED BY <1>4, <1>5

LEMMA TotalTyped ==
  ASSUME NEW w \in [Songs -> [Sums -> Int]], NEW n \in 0..SongCount
  PROVE  Total(w, n) \in [Sums -> Int]
<1> DEFINE S == {m \in Nat : m <= SongCount => Total(w, m) \in [Sums -> Int]}
<1>1. SongCount \in Nat
  BY StatisticsAssumption
<1>2. 0 \in S
  BY TotalTurns DEF NoSums
<1>3. ASSUME NEW m \in Nat, m \in S PROVE m + 1 \in S
  <2> SUFFICES ASSUME m + 1 <= SongCount PROVE Total(w, m + 1) \in [Sums -> Int]
    OBVIOUS
  <2>1. m \in 0..SongCount - 1 /\ m + 1 \in Songs /\ Total(w, m) \in [Sums -> Int]
    BY <1>1, <1>3 DEF Songs
  <2>2. Total(w, m + 1) = [f \in Sums |-> Total(w, m)[f] + w[m + 1][f]]
    BY <2>1, TotalTurns
  <2> QED BY <2>1, <2>2
<1> HIDE DEF S
<1>4. n \in S
  BY <1>2, <1>3, NatSetInduction
<1> QED BY <1>4 DEF S

\* When one song changes, the sums of the songs before it stay, and in the others
\* its old share is replaced by the new one: what Exchange() does.
LEMMA TotalExchanged ==
  ASSUME NEW w \in [Songs -> [Sums -> Int]], NEW v \in [Songs -> [Sums -> Int]], NEW s \in Songs,
         \A r \in Songs : r # s => v[r] = w[r],
         NEW n \in 0..SongCount
  PROVE  Total(v, n) = IF n < s THEN Total(w, n)
                       ELSE [f \in Sums |-> Total(w, n)[f] - w[s][f] + v[s][f]]
<1> DEFINE E(m) == IF m < s THEN Total(w, m)
                   ELSE [f \in Sums |-> Total(w, m)[f] - w[s][f] + v[s][f]]
           S == {m \in Nat : m <= SongCount => Total(v, m) = E(m)}
<1>1. SongCount \in Nat /\ s \in Nat /\ s > 0
  BY StatisticsAssumption DEF Songs
<1>2. 0 \in S
  BY <1>1, TotalTurns
<1>3. ASSUME NEW m \in Nat, m \in S PROVE m + 1 \in S
  <2> SUFFICES ASSUME m + 1 <= SongCount PROVE Total(v, m + 1) = E(m + 1)
    OBVIOUS
  <2>1. m \in 0..SongCount - 1 /\ m \in 0..SongCount /\ m + 1 \in Songs /\ Total(v, m) = E(m)
    BY <1>1, <1>3 DEF Songs
  <2>2. /\ Total(v, m + 1) = [f \in Sums |-> Total(v, m)[f] + v[m + 1][f]]
        /\ Total(w, m + 1) = [f \in Sums |-> Total(w, m)[f] + w[m + 1][f]]
    BY <2>1, TotalTurns
  <2>3. Total(w, m) \in [Sums -> Int]
    BY <2>1, TotalTyped
  <2>4. CASE m + 1 < s
    <3>1. Total(v, m) = Total(w, m) /\ v[m + 1] = w[m + 1]
      BY <1>1, <2>1, <2>4
    <3> QED BY <2>2, <2>4, <3>1
  <2>5. CASE m + 1 = s
    <3>1. Total(v, m) = Total(w, m)
      BY <1>1, <2>1, <2>5
    <3>2. \A f \in Sums : /\ Total(w, m)[f] \in Int /\ w[s][f] \in Int /\ v[s][f] \in Int
                          /\ Total(w, m + 1)[f] = Total(w, m)[f] + w[s][f]
      BY <2>2, <2>3, <2>5
    <3>3. \A f \in Sums : Total(v, m)[f] + v[m + 1][f] = Total(w, m + 1)[f] - w[s][f] + v[s][f]
      BY <2>5, <3>1, <3>2
    <3>4. E(m + 1) = [f \in Sums |-> Total(w, m + 1)[f] - w[s][f] + v[s][f]]
      BY <1>1, <2>5
    <3> QED BY <2>2, <3>3, <3>4
  <2>6. CASE m + 1 > s
    <3>1. v[m + 1] = w[m + 1] /\ ~(m < s) /\ ~(m + 1 < s)
      BY <1>1, <2>1, <2>6
    <3>2. Total(v, m) = [f \in Sums |-> Total(w, m)[f] - w[s][f] + v[s][f]]
      BY <2>1, <3>1
    <3>3. \A f \in Sums : /\ Total(w, m)[f] \in Int /\ w[s][f] \in Int /\ v[s][f] \in Int
                          /\ w[m + 1][f] \in Int
                          /\ Total(w, m + 1)[f] = Total(w, m)[f] + w[m + 1][f]
                          /\ Total(v, m)[f] = Total(w, m)[f] - w[s][f] + v[s][f]
      BY <2>1, <2>2, <2>3, <3>2
    <3>4. \A f \in Sums : Total(v, m)[f] + v[m + 1][f] = Total(w, m + 1)[f] - w[s][f] + v[s][f]
      BY <3>1, <3>3
    <3>5. E(m + 1) = [f \in Sums |-> Total(w, m + 1)[f] - w[s][f] + v[s][f]]
      BY <3>1
    <3> QED BY <2>2, <3>4, <3>5
  <2> QED BY <1>1, <2>4, <2>5, <2>6
<1> HIDE DEF S
<1>4. n \in S
  BY <1>2, <1>3, NatSetInduction
<1> QED BY <1>4 DEF S

\* The shares of a song are numbers: the division in get_rating() is one of whole
\* numbers, by at least 1.
LEMMA ShareTyped ==
  ASSUME config.bias \in Int, NEW st \in StatData
  PROVE  Share(st) \in [Sums -> Int]
<1>1. /\ st.play_count \in Nat /\ st.skip_count \in Nat /\ st.manual_rating \in Int
      /\ st.play_count \in Int /\ st.skip_count \in Int
  BY DEF StatData
<1>2. get_rating(st) \in Int
  <2> DEFINE plays == st.play_count
             skips == st.skip_count
             part == 600 \div (plays + skips + 1)
             auto == (plays - skips) * part
             rest == 10 - config.bias
             given == (st.manual_rating - 5) * 12 * config.bias
  <2>1. part \in Int
    <3>1. plays + skips + 1 \in Int /\ plays + skips + 1 > 0
      BY <1>1
    <3> QED BY <3>1
  <2>2. plays - skips \in Int
    BY <1>1
  <2>3. auto \in Int
    <3> HIDE DEF part, plays, skips
    <3> QED BY <2>1, <2>2
  <2>4. rest \in Int /\ given \in Int
    BY <1>1
  <2>5. get_rating(st) = IF st.manual_rating = -1 THEN auto ELSE (auto * rest) \div 10 + given
    BY DEF get_rating
  <2> HIDE DEF plays, skips, part, auto, rest, given
  <2>6. (auto * rest) \div 10 + given \in Int
    <3>1. auto * rest \in Int
      BY <2>3, <2>4
    <3> QED BY <2>4, <3>1
  <2> QED BY <2>3, <2>5, <2>6
<1> DEFINE rating == get_rating(st)
<1>3. /\ st.play_count * st.play_count \in Int /\ st.skip_count * st.skip_count \in Int
      /\ rating * rating \in Int
  BY <1>1, <1>2
<1> QED BY <1>1, <1>2, <1>3 DEF Share, Sums

\* They depend on the counts, the manual rating and the bias only.
LEMMA ShareKept ==
  ASSUME UNCHANGED config, NEW st \in StatData, NEW nst \in StatData,
         nst.play_count = st.play_count, nst.skip_count = st.skip_count,
         nst.manual_rating = st.manual_rating
  PROVE  Share(nst)' = Share(st)
BY DEF Share, get_rating

------------------------------------------------------------------------------
\* start_song_picker() is called by one thread at a time, and while it has been
\* called no song is picked.  While nothing was disturbed since it began, the sums
\* are those of the songs it has been through.
PickerInv ==
  /\ config \in [readonly: BOOLEAN, empeg: BOOLEAN, bias: Int]
  /\ ~config.empeg => ~Summing /\ bias_screen = "closed"
  /\ Summing \/ bias_screen = "left" => ~stats_loaded
  /\ bias_screen # "closed" => picking["ir"] = 0
  /\ bias_screen = "left" \/ picking["ir"] > 0 => loading = Ready /\ picking["setup"] = 0

SumInv ==
  /\ doubt \in BOOLEAN
  /\ loading # Ready => doubt
  /\ ~doubt => /\ \A t \in Threads : picking[t] > 0 => sums = Total(Shares, picking[t] - 1)
               /\ ~Summing => sums = AllSums

\* A call by one thread leaves the other out.
LEMMA OnePicker ==
  ASSUME PickerInv, TypeInv, NEW t \in Threads, picking[t] > 0, NEW r \in Threads, r # t
  PROVE  picking[r] = 0
<1>1. picking["setup"] \in Nat /\ picking["ir"] \in Nat
  BY StatisticsAssumption DEF TypeInv, Threads
<1> QED BY <1>1 DEF PickerInv, Threads

LEMMA InitSums == Init => PickerInv /\ SumInv
<1> SUFFICES ASSUME Init PROVE PickerInv /\ SumInv
  OBVIOUS
<1>1. PICK f \in InitialFiles : InSession(f)
  BY DEF Init
<1>2. \A t \in Threads : picking[t] = 0
  BY <1>1 DEF InSession
<1>3. PickerInv
  BY <1>1, <1>2 DEF Init, InSession, PickerInv, Summing, Threads
<1>4. SumInv
  BY <1>1 DEF InSession, SumInv
<1> QED BY <1>3, <1>4

LEMMA PickerStep ==
  ASSUME ~BiasWhileLoading
  PROVE  TypeInv /\ SavedLate /\ PickerInv /\ [Next]_vars => PickerInv'
<1> SUFFICES ASSUME TypeInv, SavedLate, PickerInv, [Next]_vars PROVE PickerInv'
  OBVIOUS
<1>0. /\ picking["setup"] \in Nat /\ picking["ir"] \in Nat
      /\ "setup" \in Threads /\ "ir" \in Threads /\ \A t \in Threads : t = "setup" \/ t = "ir"
  BY StatisticsAssumption DEF TypeInv, Threads
<1>1. CASE LoadAll \/ LoadNext \/ SaveAfterLoading
  <2>1. loading # Ready
    BY <1>1, StatisticsAssumption DEF LoadAll, LoadNext, SaveAfterLoading, Ready, SavingLoaded, Songs
  <2>2. UNCHANGED <<stats_loaded, picking, bias_screen, config>>
    BY <1>1 DEF LoadAll, LoadNext, SaveAfterLoading
  <2> QED BY <2>1, <2>2 DEF PickerInv, Summing
<1>2. CASE SumAll
  BY <1>2 DEF SumAll, Starts, PickerInv, Summing
<1>3. ASSUME NEW t \in Threads, ResetSums(t) PROVE PickerInv'
  <2>1. CASE t = "setup"
    <3>1. /\ loading = CallingPicker /\ loading' = Ready /\ UNCHANGED <<bias_screen, stats_loaded, config>>
          /\ picking' = [picking EXCEPT !["setup"] = 1] /\ config.empeg
      BY <1>3, <2>1 DEF ResetSums, Starts
    <3>2. loading # Ready
      BY <3>1, StatisticsAssumption DEF CallingPicker, Ready
    <3>3. ~stats_loaded /\ bias_screen # "left" /\ picking["ir"] = 0
      BY <1>0, <3>2 DEF SavedLate
    <3>4. picking'["ir"] = 0
      BY <3>1, <3>3 DEF TypeInv, Threads
    <3> QED BY <3>1, <3>3, <3>4 DEF PickerInv
  <2>2. CASE t = "ir"
    <3>1. /\ bias_screen = "left" /\ bias_screen' = "closed" /\ UNCHANGED <<loading, stats_loaded, config>>
          /\ picking' = [picking EXCEPT !["ir"] = 1] /\ config.empeg
      BY <1>3, <2>2 DEF ResetSums, Starts
    <3>2. picking'["setup"] = picking["setup"]
      BY <3>1 DEF TypeInv, Threads
    <3> QED BY <3>1, <3>2 DEF PickerInv
  <2> QED BY <1>0, <2>1, <2>2
<1>4. ASSUME NEW t \in Threads, AddSong(t) PROVE PickerInv'
  <2>1. /\ picking[t] \in Nat /\ picking[t] > 0
        /\ UNCHANGED <<loading, bias_screen, config>>
        /\ picking' = [picking EXCEPT ![t] = IF picking[t] = SongCount THEN 0 ELSE picking[t] + 1]
        /\ stats_loaded' = (stats_loaded \/ picking[t] = SongCount)
    BY <1>4, StatisticsAssumption DEF AddSong, Songs
  <2>2. \A r \in Threads : r # t => picking[r] = 0 /\ picking'[r] = 0
    BY <2>1, OnePicker DEF TypeInv
  <2>3. Summing /\ ~stats_loaded /\ bias_screen # "left" /\ config.empeg
    <3>1. Summing
      BY <2>1 DEF Summing
    <3>2. bias_screen # "left"
      BY <1>0, <2>1 DEF PickerInv
    <3> QED BY <3>1, <3>2 DEF PickerInv
  <2>4. CASE picking[t] = SongCount
    <3>1. \A r \in Threads : picking'[r] = 0
      BY <2>1, <2>2, <2>4 DEF TypeInv
    <3> QED BY <1>0, <2>1, <2>3, <3>1 DEF PickerInv, Summing
  <2>5. CASE picking[t] # SongCount
    <3>1. ~stats_loaded' /\ (picking'["ir"] > 0 => picking["ir"] > 0) /\ (picking["ir"] = 0 => picking'["ir"] = 0)
      BY <1>0, <2>1, <2>2, <2>3, <2>5 DEF TypeInv
    <3>2. picking'["ir"] > 0 => picking'["setup"] = 0
      BY <1>0, <2>2
    <3> QED BY <2>1, <2>3, <3>1, <3>2 DEF PickerInv
  <2> QED BY <2>4, <2>5
<1>5. ASSUME NEW s \in Songs, feedback(s) \/ do_song_rating_adjust(s) \/ do_edit_command(s)
      PROVE  PickerInv'
  <2>1. UNCHANGED <<stats_loaded, picking, bias_screen, loading, config>>
    BY <1>5 DEF feedback, do_song_rating_adjust, do_edit_command, Rerate
  <2> QED BY <2>1 DEF PickerInv, Summing
<1>6. CASE pick_song \/ save_song \/ save_stat_data \/ UNCHANGED vars
  BY <1>6 DEF pick_song, save_song, save_stat_data, vars, PickerInv, Summing
<1>7. CASE EnterBiasScreen
  BY <1>7 DEF EnterBiasScreen, PickerInv, Summing
<1>8. CASE ChangeBias
  <2>1. PICK b \in Biases : config' = [config EXCEPT !.bias = b]
    BY <1>8 DEF ChangeBias
  <2>2. b \in Int
    BY StatisticsAssumption
  <2>3. config' \in [readonly: BOOLEAN, empeg: BOOLEAN, bias: Int] /\ config'.empeg = config.empeg
    BY <2>1, <2>2 DEF PickerInv
  <2> QED BY <1>8, <2>3 DEF ChangeBias, PickerInv, Summing
<1>9. CASE LeaveBiasScreen
  BY <1>9 DEF LeaveBiasScreen, PickerInv, Summing
<1>10. CASE Restart
  <2>1. config' \in [readonly: BOOLEAN, empeg: BOOLEAN, bias: Int] /\ config'.empeg = config.empeg
    BY <1>10 DEF Restart, PickerInv
  <2>2. \A t \in Threads : picking'[t] = 0
    BY <1>10 DEF Restart
  <2> QED BY <1>0, <1>10, <2>1, <2>2 DEF Restart, PickerInv, Summing
<1> QED BY <1>1, <1>2, <1>3, <1>4, <1>5, <1>6, <1>7, <1>8, <1>9, <1>10 DEF Next

------------------------------------------------------------------------------
LEMMA SharesTyped ==
  ASSUME TypeInv, PickerInv
  PROVE  Shares \in [Songs -> [Sums -> Int]]
<1>1. config.bias \in Int
  BY DEF PickerInv
<1> QED BY <1>1, ShareTyped DEF TypeInv, Shares

\* The shares after a step that leaves the bias.
LEMMA NewShares ==
  ASSUME UNCHANGED config, NEW st \in [Songs -> StatData], stat' = st
  PROVE  Shares' = [s \in Songs |-> Share(st[s])]
BY DEF Shares, Share, get_rating

\* Steps that touch neither the sums nor what they are made of.
LEMMA SumsUntouched ==
  ASSUME SumInv, UNCHANGED <<sums, picking>>, Shares' = Shares,
         UNCHANGED doubt, loading' = Ready <=> loading = Ready
  PROVE  SumInv'
BY DEF SumInv, Summing, AllSums

\* feedback() and rating exchange the share of the song in the sums, if it is in
\* them.
LEMMA RerateSums ==
  ASSUME TypeInv, PickerInv, SumInv, NEW s \in Songs, NEW st \in StatData, Rerate(s, st)
  PROVE  SumInv'
<1>1. /\ stat' = [stat EXCEPT ![s] = st] /\ UNCHANGED <<config, loading, picking>>
      /\ sums' = Exchange(stat[s], st)
      /\ doubt' = (doubt \/ ToBeAdded(s))
  BY DEF Rerate, SaveSongs
<1> DEFINE nst == [stat EXCEPT ![s] = st]
<1>2. /\ nst \in [Songs -> StatData] /\ nst[s] = st /\ \A r \in Songs : r # s => nst[r] = stat[r]
      /\ stat \in [Songs -> StatData]
  BY DEF TypeInv
<1>3. Shares' = [r \in Songs |-> Share(nst[r])]
  <2> HIDE DEF nst
  <2> QED BY <1>1, <1>2, NewShares DEF nst
<1> HIDE DEF nst
<1>4. /\ Shares' \in [Songs -> [Sums -> Int]]
      /\ \A r \in Songs : r # s => Shares'[r] = Shares[r]
      /\ Shares[s] = Share(stat[s]) /\ Shares'[s] = Share(st)
  <2>1. config.bias \in Int
    BY DEF PickerInv
  <2>2. \A d \in StatData : Share(d) \in [Sums -> Int]
    BY <2>1, ShareTyped
  <2> DEFINE nsh == Shares'
  <2>3. nsh = [r \in Songs |-> Share(nst[r])] /\ Shares = [r \in Songs |-> Share(stat[r])]
    BY <1>3 DEF Shares
  <2> HIDE DEF nsh
  <2>4. nsh \in [Songs -> [Sums -> Int]]
    BY <1>2, <2>2, <2>3
  <2>5. \A r \in Songs : r # s => nsh[r] = Shares[r]
    BY <1>2, <2>3
  <2>6. Shares[s] = Share(stat[s]) /\ nsh[s] = Share(st)
    BY <1>2, <2>3
  <2> QED BY <2>4, <2>5, <2>6 DEF nsh
<1>5. Shares \in [Songs -> [Sums -> Int]]
  BY SharesTyped
<1>6. ASSUME NEW n \in 0..SongCount, n >= s, sums = Total(Shares, n)
      PROVE  sums' = Total(Shares', n)
  <2>1. n \in Int /\ s \in Int
    BY StatisticsAssumption DEF Songs
  <2> DEFINE nsh == Shares'
  <2>2. Total(nsh, n) = [f \in Sums |-> Total(Shares, n)[f] - Shares[s][f] + nsh[s][f]]
    <3>1. nsh \in [Songs -> [Sums -> Int]] /\ \A r \in Songs : r # s => nsh[r] = Shares[r]
      BY <1>4
    <3>2. ~(n < s)
      BY <1>6, <2>1
    <3> HIDE DEF nsh
    <3>3. Total(nsh, n) = IF n < s THEN Total(Shares, n)
                          ELSE [f \in Sums |-> Total(Shares, n)[f] - Shares[s][f] + nsh[s][f]]
      BY <1>5, <3>1, TotalExchanged
    <3> QED BY <3>2, <3>3
  <2> QED BY <1>1, <1>4, <1>6, <2>2 DEF Exchange
<1>7. ASSUME ~doubt', NEW t \in Threads, picking'[t] > 0
      PROVE  sums' = Total(Shares', picking'[t] - 1)
  <2>1. picking'[t] = picking[t] /\ ~doubt /\ ~(s >= picking[t])
    BY <1>1, <1>7 DEF ToBeAdded
  <2>2. picking[t] - 1 \in 0..SongCount /\ picking[t] - 1 >= s
    <3>1. picking[t] \in 0..SongCount /\ picking[t] > 0 /\ s \in Int /\ SongCount \in Nat
      BY <1>7, <2>1, StatisticsAssumption DEF TypeInv, Songs
    <3> QED BY <2>1, <3>1
  <2>3. sums = Total(Shares, picking[t] - 1)
    BY <1>7, <2>1 DEF SumInv
  <2> QED BY <1>6, <2>1, <2>2, <2>3
<1>8. ASSUME ~doubt', ~Summing'
      PROVE  sums' = AllSums'
  <2>1. sums = Total(Shares, SongCount)
    BY <1>1, <1>8 DEF SumInv, Summing, AllSums
  <2>2. SongCount \in 0..SongCount /\ SongCount >= s
    BY StatisticsAssumption DEF Songs
  <2> QED BY <1>6, <2>1, <2>2 DEF AllSums
<1>9. doubt' \in BOOLEAN /\ (loading' # Ready => doubt')
  BY <1>1 DEF SumInv, ToBeAdded
<1> QED BY <1>7, <1>8, <1>9 DEF SumInv

LEMMA SumStep ==
  ASSUME ~BiasWhileLoading
  PROVE  TypeInv /\ SavedLate /\ PickerInv /\ SumInv /\ [Next]_vars => SumInv'
<1> SUFFICES ASSUME TypeInv, SavedLate, PickerInv, SumInv, [Next]_vars PROVE SumInv'
  OBVIOUS
<1>1. CASE LoadAll \/ LoadNext \/ SaveAfterLoading
  <2>1. loading # Ready
    BY <1>1, StatisticsAssumption DEF LoadAll, LoadNext, SaveAfterLoading, Ready, SavingLoaded, Songs
  <2>2. doubt' = TRUE
    BY <1>1, <2>1 DEF LoadAll, LoadNext, SaveAfterLoading, SumInv
  <2> QED BY <2>2 DEF SumInv
<1>2. CASE SumAll
  <2>1. /\ sums' = AllSums /\ doubt' = FALSE /\ loading' = Ready
        /\ UNCHANGED <<stat, config, picking>> /\ ~config.empeg
    BY <1>2 DEF SumAll, Starts
  <2>2. ~Summing' /\ \A t \in Threads : ~(picking'[t] > 0)
    BY <2>1 DEF PickerInv, Summing
  <2>3. AllSums' = AllSums
    BY <2>1, NewShares DEF AllSums, Shares, TypeInv
  <2> QED BY <2>1, <2>2, <2>3 DEF SumInv
<1>3. ASSUME NEW t \in Threads, ResetSums(t) PROVE SumInv'
  <2>1. /\ sums' = NoSums /\ doubt' = Summing /\ picking' = [picking EXCEPT ![t] = 1]
    BY <1>3 DEF ResetSums
  <2>2. loading' = Ready
    BY <1>3 DEF ResetSums, Starts, SavedLate
  <2>3. doubt' \in BOOLEAN
    BY <2>1 DEF Summing
  <2>4. ASSUME ~doubt', NEW r \in Threads, picking'[r] > 0
        PROVE  sums' = Total(Shares', picking'[r] - 1)
    <3>1. r = t
      BY <2>1, <2>4 DEF Summing, TypeInv
    <3>2. picking'[r] - 1 = 0
      BY <2>1, <3>1 DEF TypeInv
    <3> QED BY <2>1, <3>2, TotalTurns
  <2>5. Summing'
    <3>1. picking'[t] > 0
      BY <2>1 DEF TypeInv
    <3> QED BY <3>1 DEF Summing
  <2> QED BY <2>2, <2>3, <2>4, <2>5 DEF SumInv
<1>4. ASSUME NEW t \in Threads, AddSong(t) PROVE SumInv'
  <2>1. /\ picking[t] \in Songs
        /\ sums' = [f \in Sums |-> sums[f] + Share(stat[picking[t]])[f]]
        /\ picking' = [picking EXCEPT ![t] = IF picking[t] = SongCount THEN 0 ELSE picking[t] + 1]
        /\ UNCHANGED <<stat, config, doubt, loading>>
    BY <1>4 DEF AddSong
  <2>2. picking[t] \in Nat /\ picking[t] > 0 /\ SongCount \in Nat /\ picking[t] <= SongCount
    BY <2>1, StatisticsAssumption DEF Songs
  <2>3. \A r \in Threads : r # t => picking'[r] = 0
    BY <2>1, <2>2, OnePicker DEF TypeInv
  <2>4. Shares' = Shares
    BY <2>1, NewShares DEF Shares, TypeInv
  <2>5. ~doubt => sums' = Total(Shares, picking[t])
    <3> SUFFICES ASSUME ~doubt PROVE sums' = Total(Shares, picking[t])
      OBVIOUS
    <3>1. sums = Total(Shares, picking[t] - 1)
      BY <2>2 DEF SumInv
    <3>2. picking[t] - 1 \in 0..SongCount - 1 /\ (picking[t] - 1) + 1 = picking[t]
      BY <2>2
    <3>3. Total(Shares, picking[t]) = [f \in Sums |-> Total(Shares, picking[t] - 1)[f] + Shares[picking[t]][f]]
      <4> DEFINE n == picking[t] - 1
                 shares == Shares
      <4>1. n \in 0..SongCount - 1 /\ n + 1 = picking[t]
        BY <3>2
      <4> HIDE DEF n, shares
      <4>2. Total(shares, n + 1) = [f \in Sums |-> Total(shares, n)[f] + shares[n + 1][f]]
        BY <4>1, TotalTurns
      <4>3. Total(shares, picking[t]) = [f \in Sums |-> Total(shares, n)[f] + shares[picking[t]][f]]
        BY <4>1, <4>2
      <4> QED BY <4>3 DEF n, shares
    <3>4. Shares[picking[t]] = Share(stat[picking[t]])
      BY <2>1 DEF Shares
    <3> QED BY <2>1, <3>1, <3>3, <3>4
  <2>6. CASE picking[t] = SongCount
    <3>1. \A r \in Threads : picking'[r] = 0
      BY <2>1, <2>3, <2>6 DEF TypeInv
    <3>2. ~doubt => sums' = AllSums'
      BY <2>4, <2>5, <2>6 DEF AllSums
    <3> QED BY <2>1, <3>1, <3>2 DEF SumInv
  <2>7. CASE picking[t] # SongCount
    <3>1. picking'[t] = picking[t] + 1 /\ picking'[t] - 1 = picking[t] /\ picking'[t] > 0
      <4>1. picking \in [Threads -> 0..SongCount]
        BY DEF TypeInv
      <4> QED BY <2>1, <2>2, <2>7, <4>1
    <3>2. Summing'
      BY <3>1 DEF Summing
    <3>3. ASSUME ~doubt', NEW r \in Threads, picking'[r] > 0
          PROVE  sums' = Total(Shares', picking'[r] - 1)
      <4>1. r = t
        BY <2>3, <3>3
      <4> QED BY <2>1, <2>4, <2>5, <3>1, <3>3, <4>1
    <3> QED BY <2>1, <3>2, <3>3 DEF SumInv
  <2> QED BY <2>6, <2>7
<1>5. ASSUME NEW s \in Songs, feedback(s) PROVE SumInv'
  <2>1. /\ stat[s] \in StatData
        /\ Played(stat[s]) \in StatData /\ Skipped(stat[s]) \in StatData
    BY DEF TypeInv, Played, Skipped, StatData
  <2>2. Rerate(s, Played(stat[s])) \/ Rerate(s, Skipped(stat[s]))
    BY <1>5 DEF feedback
  <2> QED BY <2>1, <2>2, RerateSums
<1>6. ASSUME NEW s \in Songs, do_song_rating_adjust(s) PROVE SumInv'
  <2>1. PICK amount \in Amounts, relative \in BOOLEAN :
          Rerate(s, [stat[s] EXCEPT !.manual_rating = Clamp(IF relative THEN @ + amount ELSE amount)])
    BY <1>6 DEF do_song_rating_adjust
  <2>2. stat[s] \in StatData /\ stat[s].manual_rating \in Int /\ amount \in Int
    BY StatisticsAssumption DEF TypeInv, StatData
  <2>3. Clamp(IF relative THEN stat[s].manual_rating + amount ELSE amount) \in -1..10
    BY <2>2 DEF Clamp
  <2>4. [stat[s] EXCEPT !.manual_rating = Clamp(IF relative THEN @ + amount ELSE amount)] \in StatData
    BY <2>2, <2>3 DEF StatData
  <2> QED BY <2>1, <2>4, RerateSums
<1>7. CASE pick_song
  <2>1. PICK st \in [Songs -> StatData], ch \in [Songs -> BOOLEAN], songs \in SUBSET Songs :
          /\ SaveSongs(st, ch, songs)
          /\ \A s \in Songs : /\ st[s].play_count = stat[s].play_count
                              /\ st[s].skip_count = stat[s].skip_count
                              /\ st[s].manual_rating = stat[s].manual_rating
    BY <1>7, PickFacts
  <2>2. stat' = st /\ UNCHANGED <<sums, config, picking, doubt, loading>>
    BY <1>7, <2>1 DEF SaveSongs, pick_song
  <2>3. ASSUME NEW s \in Songs PROVE Share(st[s]) = Share(stat[s])
    <3>1. /\ st[s].play_count = stat[s].play_count
          /\ st[s].skip_count = stat[s].skip_count
          /\ st[s].manual_rating = stat[s].manual_rating
      BY <2>1
    <3>2. get_rating(st[s]) = get_rating(stat[s])
      BY ONLY <3>1 DEF get_rating
    <3> QED BY ONLY <3>1, <3>2 DEF Share
  <2>4. Shares' = Shares
    BY <2>2, <2>3, NewShares DEF Shares
  <2> QED BY <2>2, <2>4, SumsUntouched
<1>8. CASE EnterBiasScreen \/ LeaveBiasScreen \/ save_song \/ save_stat_data \/ UNCHANGED vars
  <2>1. UNCHANGED <<stat, config, sums, picking, doubt, loading>>
    BY <1>8 DEF EnterBiasScreen, LeaveBiasScreen, save_song, save_stat_data, vars
  <2>2. Shares' = Shares
    BY <2>1, NewShares DEF Shares, TypeInv
  <2> QED BY <2>1, <2>2, SumsUntouched
<1>9. CASE ChangeBias \/ Restart \/ \E s \in Songs : do_edit_command(s)
  <2>1. doubt' = TRUE
    BY <1>9 DEF ChangeBias, Restart, do_edit_command
  <2> QED BY <2>1 DEF SumInv
<1> QED BY <1>1, <1>2, <1>3, <1>4, <1>5, <1>6, <1>7, <1>8, <1>9 DEF Next

\* The sums pick_song() draws from are those of the songs in memory, for any number
\* of songs and whatever plays, skips, ratings and restarts happen between two turns
\* of the loop of start_song_picker(): what is disturbed is in doubt, and only that.
THEOREM SumsStayTrue == ASSUME ~BiasWhileLoading PROVE Spec => []SumsAgree
<1> DEFINE Inv == TypeInv /\ SavedLate /\ PickerInv /\ SumInv
<1>1. Init => Inv
  BY InitInv, InitSums DEF IInv
<1>2. Inv /\ [Next]_vars => Inv'
  BY TypeStep, LateStep, PickerStep, SumStep
<1>3. Inv => SumsAgree
  BY DEF PickerInv, SumInv, SumsAgree
<1> QED BY <1>1, <1>2, <1>3, PTL DEF Spec
=============================================================================
