---------------------------- MODULE StateFileProofs ----------------------------
(***************************************************************************)
(* Theorems about StateFile, for every set of songs, every state file to   *)
(* begin with, every length of the playlist and every number of starts.    *)
(***************************************************************************)
EXTENDS StateFile, WellFoundedInduction, SequenceTheorems, TLAPS

(* Induction over the natural numbers, for a set.                          *)
LEMMA NatSetInduction ==
  ASSUME NEW S, 0 \in S, \A n \in Nat : n \in S => n + 1 \in S
  PROVE  Nat \subseteq S
<1> DEFINE T == Nat \ S
<1> SUFFICES ASSUME T # {} PROVE FALSE
  OBVIOUS
<1>1. PICK m \in T : \A k \in T : ~ (<<k, m>> \in OpToRel(<, Nat))
  BY WFMin, NatLessThanWellFounded, Zenon
<1>2. \A k \in T : ~ (k < m)
  <2> SUFFICES ASSUME NEW k \in T, k < m PROVE FALSE
    OBVIOUS
  <2> QED
    BY <1>1 DEF OpToRel
<1>3. m - 1 \in Nat /\ m - 1 \notin T /\ (m - 1) + 1 = m
  BY <1>2
<1> QED
  BY <1>3

(* Induction over the sequences of a set, for a set: every sequence is the *)
(* empty one with elements appended.                                       *)
LEMMA SeqSetInduction ==
  ASSUME NEW E, NEW S, <<>> \in S,
         \A s \in Seq(E), e \in E : s \in S => Append(s, e) \in S
  PROVE  Seq(E) \subseteq S
<1> DEFINE T == {n \in Nat : \A s \in Seq(E) : Len(s) = n => s \in S}
<1>1. 0 \in T
  BY EmptySeq
<1>2. ASSUME NEW n \in Nat, n \in T PROVE n + 1 \in T
  <2> SUFFICES ASSUME NEW s \in Seq(E), Len(s) = n + 1 PROVE s \in S
    OBVIOUS
  <2>1. PICK t \in Seq(E), e \in E : s = Append(t, e)
    BY SequenceEmptyOrAppend
  <2>2. Len(t) = n
    BY <2>1, AppendProperties, LenProperties
  <2> QED
    BY <1>2, <2>1, <2>2
<1>3. Nat \subseteq T
  BY <1>1, <1>2, NatSetInduction
<1> QED
  BY <1>3, LenProperties

-----------------------------------------------------------------------------
(* The songs of a state file that the database has.                        *)
(* The recursive function of KnownOf, for the first n entries of s.        *)
KeptBy(f, s, n) ==
  f = [i \in 0..n |-> IF i = 0 THEN <<>>
                      ELSE IF IsKnown(s[i]) THEN Append(f[i - 1], s[i]) ELSE f[i - 1]]

(* There is such a function for every number of entries.                   *)
LEMMA KeptExists ==
  ASSUME NEW s, NEW n \in Nat
  PROVE  \E f : KeptBy(f, s, n)
<1> DEFINE S == {m \in Nat : \E f : KeptBy(f, s, m)}
<1>1. 0 \in S
  <2> DEFINE f == [i \in 0..0 |-> <<>>]
  <2>1. KeptBy(f, s, 0)
    BY DEF KeptBy
  <2> QED
    BY <2>1
<1>2. ASSUME NEW m \in Nat, m \in S PROVE m + 1 \in S
  <2>1. PICK f : KeptBy(f, s, m)
    BY <1>2
  <2> DEFINE Next1(x, i) == IF IsKnown(s[i]) THEN Append(x, s[i]) ELSE x
             g == [i \in 0..m + 1 |-> IF i <= m THEN f[i] ELSE Next1(f[m], m + 1)]
  <2>2. ASSUME NEW i \in 0..m + 1
        PROVE g[i] = IF i = 0 THEN <<>> ELSE Next1(g[i - 1], i)
    <3>1. \A j \in 1..m : f[j] = Next1(f[j - 1], j)
      <4> SUFFICES ASSUME NEW j \in 1..m PROVE f[j] = Next1(f[j - 1], j)
        OBVIOUS
      <4>1. j \in 0..m /\ j # 0
        OBVIOUS
      <4> QED
        BY <2>1, <4>1 DEF KeptBy
    <3> HIDE DEF Next1
    <3>2. CASE i = 0
      BY <2>1, <3>2 DEF KeptBy
    <3>3. CASE i \in 1..m
      <4>1. i \in 0..m + 1 /\ i - 1 \in 0..m + 1 /\ i <= m /\ i - 1 <= m /\ i # 0
        BY <3>3
      <4> QED
        BY <3>1, <3>3, <4>1
    <3>4. CASE i = m + 1
      BY <3>4
    <3> QED
      BY <3>2, <3>3, <3>4
  <2>3. KeptBy(g, s, m + 1)
    <3> HIDE DEF g
    <3>1. g = [i \in 0..m + 1 |-> g[i]]
      BY DEF g
    <3> QED
      BY <2>2, <3>1 DEF KeptBy
  <2> QED
    BY <2>3
<1> QED
  BY <1>1, <1>2, NatSetInduction

(* Two of them agree as far as the sequences do.                           *)
LEMMA KeptAgree ==
  ASSUME NEW s, NEW t, NEW m \in Nat, NEW n \in Nat, NEW f, NEW g,
         KeptBy(f, s, m), KeptBy(g, t, n),
         NEW k \in Nat, k <= m, k <= n, \A i \in 1..k : s[i] = t[i]
  PROVE  f[k] = g[k]
<1> DEFINE S == {i \in Nat : i <= k => f[i] = g[i]}
<1>1. 0 \in S
  BY DEF KeptBy
<1>2. ASSUME NEW i \in Nat, i \in S PROVE i + 1 \in S
  <2> SUFFICES ASSUME i + 1 <= k PROVE f[i + 1] = g[i + 1]
    OBVIOUS
  <2>1. i + 1 \in 0..m /\ i + 1 \in 0..n /\ i + 1 # 0 /\ (i + 1) - 1 = i /\ s[i + 1] = t[i + 1]
    OBVIOUS
  <2>2. f[i + 1] = IF IsKnown(s[i + 1]) THEN Append(f[i], s[i + 1]) ELSE f[i]
    BY <2>1 DEF KeptBy
  <2>3. g[i + 1] = IF IsKnown(t[i + 1]) THEN Append(g[i], t[i + 1]) ELSE g[i]
    BY <2>1 DEF KeptBy
  <2> QED
    BY <1>2, <2>1, <2>2, <2>3
<1>3. k \in S
  BY <1>1, <1>2, NatSetInduction
<1> QED
  BY <1>3

(* KnownOf is the last value of one of them.                               *)
LEMMA KnownKept ==
  ASSUME NEW s, Len(s) \in Nat
  PROVE  \E f : KeptBy(f, s, Len(s)) /\ KnownOf(s) = f[Len(s)]
<1> DEFINE f == CHOOSE h : KeptBy(h, s, Len(s))
<1>1. KeptBy(f, s, Len(s))
  BY KeptExists
<1>2. KnownOf(s) = f[Len(s)]
  BY DEF KnownOf, KeptBy
<1> QED
  BY <1>1, <1>2

(* One entry more is kept if its song is known.                            *)
LEMMA KnownAppend ==
  ASSUME NEW s \in Seq(Entry), NEW e \in Entry
  PROVE  KnownOf(Append(s, e)) = IF IsKnown(e) THEN Append(KnownOf(s), e) ELSE KnownOf(s)
<1> DEFINE t == Append(s, e)
           n == Len(s)
<1>1. n \in Nat /\ Len(t) = n + 1 /\ t[n + 1] = e /\ \A i \in 1..n : t[i] = s[i]
  BY AppendProperties, LenProperties
<1> HIDE DEF t, n
<1>2. PICK f : KeptBy(f, s, n) /\ KnownOf(s) = f[n]
  BY <1>1, KnownKept DEF n
<1>3. PICK g : KeptBy(g, t, n + 1) /\ KnownOf(t) = g[n + 1]
  BY <1>1, KnownKept
<1>4. f[n] = g[n]
  BY <1>1, <1>2, <1>3, KeptAgree
<1>5. g[n + 1] = IF IsKnown(t[n + 1]) THEN Append(g[n], t[n + 1]) ELSE g[n]
  <2>1. n + 1 \in 0..n + 1 /\ n + 1 # 0 /\ (n + 1) - 1 = n
    BY <1>1
  <2> QED
    BY <1>3, <2>1 DEF KeptBy
<1> QED
  BY <1>1, <1>2, <1>3, <1>4, <1>5 DEF t

(* Nothing is kept of nothing.                                             *)
LEMMA KnownEmpty == KnownOf(<<>>) = <<>>
<1>1. Len(<<>>) = 0
  BY EmptySeq
<1>2. PICK f : KeptBy(f, <<>>, 0) /\ KnownOf(<<>>) = f[0]
  BY <1>1, KnownKept
<1> QED
  BY <1>2 DEF KeptBy

(* What is kept are entries.                                               *)
LEMMA KnownType ==
  ASSUME NEW s \in Seq(Entry)
  PROVE  KnownOf(s) \in Seq(Entry)
<1> DEFINE S == {t \in Seq(Entry) : KnownOf(t) \in Seq(Entry)}
<1>1. <<>> \in S
  BY KnownEmpty, EmptySeq
<1>2. ASSUME NEW t \in Seq(Entry), NEW e \in Entry, t \in S PROVE Append(t, e) \in S
  BY <1>2, KnownAppend, AppendProperties
<1> HIDE DEF S
<1>3. Seq(Entry) \subseteq S
  BY <1>1, <1>2, SeqSetInduction
<1> QED
  BY <1>3 DEF S

(* The known entries of two sequences, one behind the other.               *)
LEMMA KnownConcat ==
  ASSUME NEW s \in Seq(Entry), NEW t \in Seq(Entry)
  PROVE  KnownOf(s \o t) = KnownOf(s) \o KnownOf(t)
<1> DEFINE S == {u \in Seq(Entry) : KnownOf(s \o u) = KnownOf(s) \o KnownOf(u)}
<1>1. <<>> \in S
  BY KnownEmpty, KnownType, EmptySeq, ConcatEmptySeq
<1>2. ASSUME NEW u \in Seq(Entry), NEW e \in Entry, u \in S PROVE Append(u, e) \in S
  <2>1. s \o Append(u, e) = Append(s \o u, e) /\ s \o u \in Seq(Entry) /\ Append(u, e) \in Seq(Entry)
    BY ConcatProperties, AppendProperties
  <2>2. KnownOf(s) \in Seq(Entry) /\ KnownOf(u) \in Seq(Entry)
    BY KnownType
  <2>3. KnownOf(s) \o Append(KnownOf(u), e) = Append(KnownOf(s) \o KnownOf(u), e)
    BY <2>2
  <2> QED
    BY <1>2, <2>1, <2>2, <2>3, KnownAppend
<1> HIDE DEF S
<1>3. Seq(Entry) \subseteq S
  BY <1>1, <1>2, SeqSetInduction
<1> QED
  BY <1>3 DEF S

(* A list of known songs.                                                  *)
AllKnown(s) == \A i \in 1..Len(s) : IsKnown(s[i])

(* Everything is kept of such a list.                                      *)
LEMMA KnownAll ==
  ASSUME NEW s \in Seq(Entry), AllKnown(s)
  PROVE  KnownOf(s) = s
<1> DEFINE S == {t \in Seq(Entry) : AllKnown(t) => KnownOf(t) = t}
<1>1. <<>> \in S
  BY KnownEmpty, EmptySeq
<1>2. ASSUME NEW t \in Seq(Entry), NEW e \in Entry, t \in S PROVE Append(t, e) \in S
  <2>1. Append(t, e) \in Seq(Entry)
    BY AppendProperties
  <2>2. ASSUME AllKnown(Append(t, e)) PROVE AllKnown(t) /\ IsKnown(e)
    BY <2>2 DEF AllKnown
  <2> QED
    BY <1>2, <2>1, <2>2, KnownAppend
<1> HIDE DEF S
<1>3. Seq(Entry) \subseteq S
  BY <1>1, <1>2, SeqSetInduction
<1> QED
  BY <1>3 DEF S

-----------------------------------------------------------------------------
(* The inductive invariant.                                                *)
(* state_info.lock is held by the thread that says so.                     *)
LockInv ==
  /\ setup \in {"loading", "copying", "restoring"} <=> state_lock = "setup"
  /\ saver \in {"asked", "saving", "cancelled"} <=> state_lock = "saver"
  /\ main = "saving" <=> state_lock = "main"
  /\ main = "ended" => state_lock = "none"

(* Only songs of the database are in the lists, and one is on its way to   *)
(* the player only between two songs.  What load_state() has read is there *)
(* from the moment it read it until it is restored.                        *)
ListInv ==
  /\ AllKnown(queue)
  /\ moving # None => ~in_song /\ IsKnown(moving)
  /\ in_song => playing # None
  /\ playing # None => IsKnown(playing)
  /\ setup \in {"names", "load", "loading"} =>
       queue = <<>> /\ moving = None /\ playing = None /\ raw_songs = <<>>
  /\ setup = "done" => raw_songs = <<>>
  /\ current_song <= Len(raw_songs)

(* A save that is under way has emptied the file; a save at the exit that  *)
(* was not early found everything restored, and the file keeps what it     *)
(* wrote.                                                                  *)
SaveInv ==
  /\ "saving" \in {saver, main} => file = Empty
  /\ saver = "cancelled" => Cancelled
  /\ main = "saving" => ~config.readonly
  /\ main \in {"saving", "ended"} /\ ~config.readonly /\ ~early => setup = "done"
  /\ main = "ended" /\ ~config.readonly /\ ~early =>
       /\ file.screen = screen /\ ~file.torn
       /\ KnownOf(file.songs) = One(playing) \o queue

IInv == TypeOK /\ LockInv /\ ListInv /\ SaveInv

-----------------------------------------------------------------------------
(* The type of what save_state() writes.                                   *)
LEMMA ContentType ==
  ASSUME TypeOK
  PROVE  /\ One(playing) \in Seq(Entry) /\ One(moving) \in Seq(Entry)
         /\ SubSeq(raw_songs, current_song + 1, Len(raw_songs)) \in Seq(Entry)
         /\ Content \in Files
         /\ Empty \in Files
<1>1. One(playing) \in Seq(Entry) /\ One(moving) \in Seq(Entry)
  BY DEF TypeOK, One
<1>2. SubSeq(raw_songs, current_song + 1, Len(raw_songs)) \in Seq(Entry)
  <2>1. raw_songs \in Seq(Entry) /\ current_song \in Nat
    BY DEF TypeOK
  <2> QED
    BY <2>1
<1>3. One(playing) \o queue \o SubSeq(raw_songs, current_song + 1, Len(raw_songs)) \in Seq(Entry)
  <2>1. queue \in Seq(Entry)
    BY DEF TypeOK
  <2> QED
    BY <1>1, <1>2, <2>1, ConcatProperties
<1>4. Content \in Files
  BY <1>3 DEF Content, Files, TypeOK
<1>5. Empty \in Files
  BY StateFileAssumption, EmptySeq DEF Empty, Files
<1> QED
  BY <1>1, <1>2, <1>4, <1>5

(* The songs of a file whose text is cut: some of the first, or the last   *)
(* of them with the first digits of its position.                          *)
CutAt(s, n, p) == Append(SubSeq(s, 1, n - 1), [s[n] EXCEPT !.position = p])

LEMMA CutParts ==
  ASSUME NEW f \in Files, NEW g \in CutFiles(f)
  PROVE  /\ \/ \E n \in 0..Len(f.songs) : g.songs = SubSeq(f.songs, 1, n)
            \/ \E n \in 1..Len(f.songs) : \E p \in CutNumber(f.songs[n].position) :
                 g.songs = CutAt(f.songs, n, p)
         /\ g = [songs |-> g.songs, screen |-> g.screen, torn |-> g.torn]
         /\ g.screen \in Screens /\ g.torn \in BOOLEAN
<1>1. f.songs \in Seq(Entry) /\ Len(f.songs) \in Nat /\ SubSeq(f.songs, 1, Len(f.songs)) = f.songs
  BY SubSeqFull, LenProperties DEF Files
<1>2. Normal \in Screens
  BY StateFileAssumption
<1>3. CASE \E sc \in Screens, t \in BOOLEAN : g = [songs |-> f.songs, screen |-> sc, torn |-> t]
  <2>1. Len(f.songs) \in 0..Len(f.songs)
    BY <1>1
  <2> QED
    BY <1>1, <1>3, <2>1
<1>4. CASE \E n \in 0..Len(f.songs), t \in BOOLEAN :
             g = [songs |-> SubSeq(f.songs, 1, n), screen |-> Normal, torn |-> t]
  BY <1>2, <1>4
<1>5. CASE \E n \in 1..Len(f.songs) : \E p \in CutNumber(f.songs[n].position) :
             g = [songs |-> CutAt(f.songs, n, p), screen |-> Normal, torn |-> FALSE]
  <2>1. PICK n \in 1..Len(f.songs) : \E p \in CutNumber(f.songs[n].position) :
          g = [songs |-> CutAt(f.songs, n, p), screen |-> Normal, torn |-> FALSE]
    BY <1>5
  <2>2. PICK p \in CutNumber(f.songs[n].position) :
          g = [songs |-> CutAt(f.songs, n, p), screen |-> Normal, torn |-> FALSE]
    BY <2>1
  <2> QED
    BY <1>2, <2>2
<1>6. \/ \E sc \in Screens, t \in BOOLEAN : g = [songs |-> f.songs, screen |-> sc, torn |-> t]
      \/ \E n \in 0..Len(f.songs), t \in BOOLEAN :
           g = [songs |-> SubSeq(f.songs, 1, n), screen |-> Normal, torn |-> t]
      \/ \E n \in 1..Len(f.songs) : \E p \in CutNumber(f.songs[n].position) :
           g = [songs |-> CutAt(f.songs, n, p), screen |-> Normal, torn |-> FALSE]
  <2> DEFINE all == {[songs |-> f.songs, screen |-> sc, torn |-> t] : sc \in Screens, t \in BOOLEAN}
             some == {[songs |-> SubSeq(f.songs, 1, n), screen |-> Normal, torn |-> t] :
                        n \in 0..Len(f.songs), t \in BOOLEAN}
             cut(n) == {[songs |-> CutAt(f.songs, n, p), screen |-> Normal, torn |-> FALSE] :
                          p \in CutNumber(f.songs[n].position)}
  <2>1. CutFiles(f) = all \cup some \cup UNION {cut(n) : n \in 1..Len(f.songs)}
    BY DEF CutFiles, CutAt
  <2>2. g \in all \/ g \in some \/ \E n \in 1..Len(f.songs) : g \in cut(n)
    <3> HIDE DEF all, some, cut
    <3> QED
      BY <2>1
  <2> QED
    BY <2>2
<1> QED
  BY <1>3, <1>4, <1>5, <1>6

(* The first digits of a position are one, and not a larger one.           *)
LEMMA CutEntry ==
  ASSUME NEW e \in Entry, NEW p \in CutNumber(e.position)
  PROVE  LET c == [e EXCEPT !.position = p]
         IN c \in Entry /\ c.song = e.song /\ c.position <= e.position
<1>1. e.position \in 0..MaxPosition /\ MaxPosition \in Nat
  BY StateFileAssumption DEF Entry
<1>2. p \in 0..MaxPosition /\ p <= e.position
  BY <1>1 DEF CutNumber
<1> QED
  BY <1>2 DEF Entry

(* Any beginning of the text of a state file is one.                       *)
LEMMA CutType ==
  ASSUME NEW f \in Files, NEW g \in CutFiles(f)
  PROVE  g \in Files
<1>1. f.songs \in Seq(Entry) /\ Len(f.songs) \in Nat
  BY LenProperties DEF Files
<1>2. ASSUME NEW n \in 0..Len(f.songs) PROVE SubSeq(f.songs, 1, n) \in Seq(Entry)
  BY <1>1
<1>3. ASSUME NEW n \in 1..Len(f.songs), NEW p \in CutNumber(f.songs[n].position)
      PROVE CutAt(f.songs, n, p) \in Seq(Entry)
  <2>1. f.songs[n] \in Entry /\ n - 1 \in 0..Len(f.songs)
    BY <1>1
  <2>2. SubSeq(f.songs, 1, n - 1) \in Seq(Entry)
    BY <1>2, <2>1
  <2>3. [f.songs[n] EXCEPT !.position = p] \in Entry
    BY <2>1, CutEntry
  <2> QED
    BY <2>2, <2>3, AppendProperties DEF CutAt
<1>4. g.songs \in Seq(Entry)
  BY <1>2, <1>3, CutParts
<1> QED
  BY <1>4, CutParts DEF Files

(* Every step keeps the types.                                             *)
LEMMA TypeInductive == TypeOK /\ ListInv /\ [Next]_vars => TypeOK'
<1> SUFFICES ASSUME TypeOK, ListInv, [Next]_vars PROVE TypeOK'
  OBVIOUS
<1> USE StateFileAssumption
<1>1. CASE LoadDbFilenames
  BY <1>1 DEF LoadDbFilenames, TypeOK, state_info, lists
<1>2. CASE LoadState
  BY <1>2 DEF LoadState, Unlock, TypeOK, lists, Files
<1>25. CASE LoadTornState
  BY <1>25 DEF LoadTornState, TypeOK, state_info, lists
<1>3. CASE CopyWindows
  BY <1>3 DEF CopyWindows, Unlock, TypeOK, state_info, lists
<1>4. CASE LockState
  BY <1>4 DEF LockState, TypeOK, state_info, lists
<1>5. CASE RestoreSong
  <2>1. queue' \in Seq(Entry)
    <3>1. raw_songs[current_song + 1] \in Entry
      <4>1. raw_songs \in Seq(Entry) /\ current_song \in Nat /\ current_song < Len(raw_songs)
        BY <1>5 DEF RestoreSong, TypeOK
      <4> QED
        BY <4>1, LenProperties
    <3> QED
      BY <1>5, <3>1, AppendProperties DEF RestoreSong, Restore, TypeOK
  <2> QED
    BY <1>5, <2>1 DEF RestoreSong, Unlock, TypeOK
<1>6. CASE StateLoaded
  BY <1>6, EmptySeq DEF StateLoaded, Unlock, TypeOK, lists
<1>7. CASE SaverWakes
  BY <1>7 DEF SaverWakes, TypeOK, state_info, lists
<1>8. CASE SaverOpens
  BY <1>8, ContentType DEF SaverOpens, Opens, TypeOK, state_info, lists
<1>9. CASE SaverReadonly
  BY <1>9 DEF SaverReadonly, Unlock, TypeOK, state_info, lists
<1>10. Writes => file' \in Files /\ current_song' \in Nat
  <2>1. raw_songs \in Seq(Entry) /\ current_song \in Nat
    BY DEF TypeOK
  <2> QED
    BY <2>1, ContentType, LenProperties DEF Writes
<1>11. CASE SaverWrites
  BY <1>10, <1>11 DEF SaverWrites, Unlock, TypeOK, lists
<1>12. CASE SaverCancelled
  BY <1>12 DEF SaverCancelled, TypeOK, state_info, lists
<1>13. CASE Exit
  BY <1>13 DEF Exit, TypeOK, state_info, lists
<1>14. CASE MainOpens
  <2>1. CASE config.readonly
    BY <1>14, <2>1 DEF MainOpens, TypeOK, state_info, lists
  <2>2. CASE ~config.readonly
    <3>1. file' \in Files /\ early' \in BOOLEAN
      BY <1>14, <2>2, ContentType DEF MainOpens, Opens, TypeOK
    <3> QED
      BY <1>14, <2>2, <3>1 DEF MainOpens, TypeOK, state_info, lists
  <2> QED
    BY <2>1, <2>2
<1>15. CASE MainWrites
  BY <1>10, <1>15 DEF MainWrites, Unlock, TypeOK, lists
<1>16. CASE TakeSong
  <2>1. Head(queue) \in Entry /\ Tail(queue) \in Seq(Entry)
    BY <1>16, HeadTailProperties DEF TakeSong, TypeOK
  <2> QED
    BY <1>16, <2>1 DEF TakeSong, TypeOK, state_info, threads
<1>17. CASE SetNowPlaying
  BY <1>17 DEF SetNowPlaying, TypeOK, state_info, threads
<1>18. CASE PlayOn
  <2>1. PICK p \in 0..MaxPosition : playing' = [playing EXCEPT !.position = p]
    BY <1>18 DEF PlayOn
  <2>2. playing' \in Entry
    BY <1>18, <2>1 DEF PlayOn, TypeOK, ListInv, Entry
  <2> QED
    BY <1>18, <2>2 DEF PlayOn, TypeOK, state_info, threads
<1>26. CASE SongOver
  <2>1. in_song' = FALSE /\ UNCHANGED <<file, state_info, state_lock, queue, moving, playing, screen,
                                       threads, stuck, config, early, starts>>
    BY <1>26 DEF SongOver
  <2>2. in_song' \in BOOLEAN
    BY <2>1
  <2>3. UNCHANGED <<file, raw_songs, current_song, window_states, state_lock, queue, moving, playing,
                    screen, setup, saver, main, stuck, config, early, starts>>
    BY <2>1 DEF state_info, threads
  <2> QED
    BY <2>2, <2>3 DEF TypeOK
<1>19. CASE AddSong
  <2>1. ASSUME NEW s \in Known PROVE [song |-> s, position |-> 0] \in Entry
    BY DEF Entry, Songs
  <2>2. queue' \in Seq(Entry)
    BY <1>19, <2>1, AppendProperties DEF AddSong, TypeOK
  <2> QED
    BY <1>19, <2>2 DEF AddSong, TypeOK, state_info, threads
<1>20. CASE HolderCancelled
  BY <1>20 DEF HolderCancelled, TypeOK, state_info, lists, threads
<1>21. CASE do_delete
  <2>1. queue' \in Seq(Entry)
    <3>1. PICK i \in DOMAIN queue : queue' = RemoveAt(queue, i)
      BY <1>21 DEF do_delete
    <3>2. queue \in Seq(Entry)
      BY DEF TypeOK
    <3>3. SubSeq(queue, 1, i - 1) \in Seq(Entry) /\ SubSeq(queue, i + 1, Len(queue)) \in Seq(Entry)
      BY <3>1, <3>2
    <3> QED
      BY <3>1, <3>3, ConcatProperties DEF RemoveAt
  <2> QED
    BY <1>21, <2>1 DEF do_delete, TypeOK, state_info, threads
<1>22. CASE ChangeScreen
  BY <1>22 DEF ChangeScreen, TypeOK, state_info, lists, threads
<1>23. CASE Restart
  <2>1. file' \in Files
    <3>1. CASE BeingWritten
      <4>1. file' \in CutFiles(Content)
        BY <1>23, <3>1 DEF Restart
      <4> QED
        BY <4>1, ContentType, CutType
    <3>2. CASE ~BeingWritten
      BY <1>23, <3>2 DEF Restart, TypeOK
    <3> QED
      BY <3>1, <3>2
  <2>2. starts' \in 1..MaxStarts
    BY <1>23 DEF Restart, TypeOK
  <2>3. raw_songs' \in Seq(Entry) /\ queue' \in Seq(Entry)
    BY <1>23, EmptySeq DEF Restart
  <2> QED
    BY <1>23, <2>1, <2>2, <2>3 DEF Restart, TypeOK
<1>24. CASE UNCHANGED vars
  BY <1>24 DEF vars, TypeOK
<1> QED
  BY <1>1, <1>2, <1>3, <1>4, <1>5, <1>6, <1>7, <1>8, <1>9, <1>11, <1>12, <1>13, <1>14, <1>15,
     <1>16, <1>17, <1>18, <1>19, <1>20, <1>21, <1>22, <1>23, <1>24, <1>25, <1>26
     DEF Next, Setup, Saver, Main

-----------------------------------------------------------------------------
(* Every step keeps the holder of state_info.lock.                         *)
LEMMA LockInductive == TypeOK /\ LockInv /\ [Next]_vars => LockInv'
<1> SUFFICES ASSUME TypeOK, LockInv, [Next]_vars PROVE LockInv'
  OBVIOUS
<1> USE DEF LockInv, TypeOK
<1>1. CASE LoadDbFilenames
  BY <1>1 DEF LoadDbFilenames
<1>2. CASE LoadState
  BY <1>2 DEF LoadState, Unlock
<1>18. CASE LoadTornState
  BY <1>18 DEF LoadTornState
<1>3. CASE CopyWindows
  BY <1>3 DEF CopyWindows, Unlock
<1>4. CASE Alive /\ LockState
  <2>1. setup' \in {"loading", "copying", "restoring"} /\ state_lock = "none" /\ state_lock' = "setup"
        /\ UNCHANGED <<saver, main>>
    BY <1>4 DEF LockState
  <2>2. main # "ended"
    BY <1>4 DEF Alive
  <2> QED
    BY <2>1, <2>2
<1>5. CASE RestoreSong
  BY <1>5 DEF RestoreSong, Unlock
<1>6. CASE StateLoaded
  BY <1>6 DEF StateLoaded, Unlock
<1>7. CASE SaverWakes
  BY <1>7 DEF SaverWakes, Cancelled
<1>8. CASE SaverOpens
  BY <1>8 DEF SaverOpens, SaverHasLocks
<1>9. CASE SaverReadonly
  BY <1>9 DEF SaverReadonly, SaverHasLocks, Unlock
<1>10. CASE SaverWrites
  BY <1>10 DEF SaverWrites, Unlock
<1>11. CASE SaverCancelled
  BY <1>11 DEF SaverCancelled, SaverHasLocks
<1>12. CASE Exit
  BY <1>12 DEF Exit
<1>13. CASE MainOpens
  BY <1>13 DEF MainOpens
<1>14. CASE MainWrites
  BY <1>14 DEF MainWrites, Unlock
<1>15. CASE UNCHANGED <<state_lock, threads>>
  BY <1>15 DEF threads
<1>16. CASE Restart
  BY <1>16 DEF Restart
<1>17. TakeSong \/ SetNowPlaying \/ PlayOn \/ SongOver \/ AddSong \/ HolderCancelled \/ do_delete
         \/ ChangeScreen \/ UNCHANGED vars => UNCHANGED <<state_lock, threads>>
  BY DEF TakeSong, SetNowPlaying, PlayOn, SongOver, AddSong, HolderCancelled, do_delete, ChangeScreen,
         vars, threads
<1> QED
  BY <1>1, <1>2, <1>3, <1>4, <1>5, <1>6, <1>7, <1>8, <1>9, <1>10, <1>11, <1>12, <1>13, <1>14,
     <1>15, <1>16, <1>17, <1>18
     DEF Next, Setup, Saver, Main

(* A list with entry i removed, entry by entry.                            *)
LEMMA RemoveAtParts ==
  ASSUME NEW s \in Seq(Entry), NEW i \in 1..Len(s)
  PROVE  /\ RemoveAt(s, i) \in Seq(Entry)
         /\ Len(RemoveAt(s, i)) = Len(s) - 1
         /\ \A j \in 1..Len(s) - 1 : RemoveAt(s, i)[j] = IF j < i THEN s[j] ELSE s[j + 1]
<1> DEFINE before == SubSeq(s, 1, i - 1)
           after == SubSeq(s, i + 1, Len(s))
           n == Len(s)
<1>1. n \in Nat
  BY LenProperties
<1>2. before \in Seq(Entry) /\ Len(before) = i - 1 /\ \A j \in 1..i - 1 : before[j] = s[j]
  BY <1>1
<1>3. after \in Seq(Entry) /\ Len(after) = n - i /\ \A j \in 1..n - i : after[j] = s[i + j]
  BY <1>1
<1>4. RemoveAt(s, i) = before \o after
  BY DEF RemoveAt
<1>5. i \in 1..n
  OBVIOUS
<1> HIDE DEF before, after, n
<1>6. before \o after \in Seq(Entry) /\ Len(before \o after) = n - 1
  <2>1. before \in Seq(Entry) /\ after \in Seq(Entry)
    BY <1>2, <1>3
  <2>2. before \o after \in Seq(Entry) /\ Len(before \o after) = Len(before) + Len(after)
    BY <2>1, ConcatProperties
  <2>3. Len(before) = i - 1 /\ Len(after) = n - i
    BY <1>2, <1>3
  <2> QED
    BY <1>1, <1>5, <2>2, <2>3
<1>7. ASSUME NEW j \in 1..n - 1
      PROVE  (before \o after)[j] = IF j < i THEN s[j] ELSE s[j + 1]
  <2>1. CASE j < i
    BY <1>1, <1>2, <1>3, <1>5, <2>1, ConcatProperties
  <2>2. CASE ~(j < i)
    <3>1. j - (i - 1) \in 1..n - i /\ i + (j - (i - 1)) = j + 1
      BY <1>1, <1>5, <2>2
    <3>2. (before \o after)[j] = after[j - (i - 1)]
      BY <1>1, <1>2, <1>3, <1>5, <2>2, ConcatProperties
    <3> QED
      BY <1>3, <2>2, <3>1, <3>2
  <2> QED
    BY <2>1, <2>2
<1> QED
  BY <1>4, <1>6, <1>7 DEF n

(* The lists that the code makes of known songs have only known songs.     *)
LEMMA KnownLists ==
  ASSUME NEW s \in Seq(Entry), AllKnown(s)
  PROVE  /\ \A e \in Entry : IsKnown(e) => AllKnown(Append(s, e))
         /\ s # <<>> => IsKnown(Head(s)) /\ AllKnown(Tail(s))
         /\ \A i \in DOMAIN s : AllKnown(RemoveAt(s, i))
<1>1. ASSUME NEW e \in Entry, IsKnown(e) PROVE AllKnown(Append(s, e))
  BY <1>1, AppendProperties DEF AllKnown
<1>2. ASSUME s # <<>> PROVE IsKnown(Head(s)) /\ AllKnown(Tail(s))
  <2>1. Len(s) \in Nat \ {0} /\ Head(s) = s[1] /\ Len(Tail(s)) = Len(s) - 1
        /\ \A i \in 1..Len(Tail(s)) : Tail(s)[i] = s[i + 1]
    BY <1>2, EmptySeq, HeadTailProperties
  <2>2. \A i \in 1..Len(Tail(s)) : i + 1 \in 1..Len(s)
    BY <2>1
  <2>3. 1 \in 1..Len(s)
    BY <2>1
  <2> QED
    BY <2>1, <2>2, <2>3 DEF AllKnown
<1>3. ASSUME NEW i \in DOMAIN s PROVE AllKnown(RemoveAt(s, i))
  <2>1. i \in 1..Len(s) /\ Len(s) \in Nat
    BY LenProperties
  <2> DEFINE r == RemoveAt(s, i)
  <2>2. /\ Len(r) = Len(s) - 1
        /\ \A j \in 1..Len(s) - 1 : r[j] = IF j < i THEN s[j] ELSE s[j + 1]
    BY <2>1, RemoveAtParts
  <2> HIDE DEF r
  <2>3. AllKnown(r)
    BY <2>1, <2>2 DEF AllKnown
  <2> QED
    BY <2>3 DEF r
<1> QED
  BY <1>1, <1>2, <1>3

(* Every step keeps what the lists are made of.                            *)
LEMMA ListInductive == TypeOK /\ TypeOK' /\ LockInv /\ ListInv /\ [Next]_vars => ListInv'
<1> SUFFICES ASSUME TypeOK, TypeOK', LockInv, ListInv, [Next]_vars PROVE ListInv'
  OBVIOUS
<1>e. \A s \in Seq(Entry) : Len(s) \in Nat /\ Len(<<>>) = 0 /\ (Len(s) = 0 <=> s = <<>>)
  BY EmptySeq, LenProperties
<1>k. AllKnown(<<>>)
  BY <1>e DEF AllKnown
<1>1. CASE LoadDbFilenames
  BY <1>1 DEF LoadDbFilenames, ListInv, state_info, lists
<1>2. CASE LoadState
  BY <1>2, <1>e DEF LoadState, ListInv, TypeOK, Files, lists
<1>3. CASE CopyWindows
  BY <1>3 DEF CopyWindows, ListInv, state_info, lists
<1>4. CASE LockState
  BY <1>4 DEF LockState, ListInv, state_info, lists
<1>5. CASE RestoreSong
  <2>1. raw_songs[current_song + 1] \in Entry /\ current_song' \in Nat /\ current_song' <= Len(raw_songs)
    <3>1. raw_songs \in Seq(Entry) /\ current_song \in Nat /\ current_song < Len(raw_songs)
          /\ current_song' = current_song + 1
      BY <1>5 DEF RestoreSong, TypeOK
    <3> QED
      BY <3>1, LenProperties
  <2>2. AllKnown(queue')
    BY <1>5, <2>1, KnownLists DEF RestoreSong, Restore, ListInv, TypeOK
  <2> QED
    BY <1>5, <2>1, <2>2 DEF RestoreSong, ListInv
<1>6. CASE StateLoaded
  BY <1>6, <1>e DEF StateLoaded, ListInv, lists
<1>15. CASE LoadTornState
  BY <1>15 DEF LoadTornState, ListInv, state_info, lists
<1>7. CASE UNCHANGED <<raw_songs, lists, setup>> /\ (current_song' = current_song \/ Writes)
  BY <1>7, <1>e DEF Writes, ListInv, lists, TypeOK
<1>8. SaverWakes \/ SaverOpens \/ SaverReadonly \/ SaverWrites \/ SaverCancelled \/ Exit
        \/ MainOpens \/ MainWrites \/ HolderCancelled \/ ChangeScreen \/ UNCHANGED vars
      => UNCHANGED <<raw_songs, lists, setup>> /\ (current_song' = current_song \/ Writes)
  BY DEF SaverWakes, SaverOpens, SaverReadonly, SaverWrites, SaverCancelled, Exit, MainOpens,
         MainWrites, HolderCancelled, ChangeScreen, vars, state_info, lists, threads
<1>9. CASE TakeSong
  <2>1. setup \notin {"names", "load", "loading"}
    BY <1>9 DEF TakeSong, ListInv
  <2>2. IsKnown(Head(queue)) /\ AllKnown(Tail(queue))
    BY <1>9, KnownLists DEF TakeSong, ListInv, TypeOK
  <2> QED
    BY <1>9, <2>1, <2>2 DEF TakeSong, ListInv, state_info, threads
<1>10. CASE SetNowPlaying
  <2>1. setup \notin {"names", "load", "loading"}
    BY <1>10 DEF SetNowPlaying, ListInv
  <2> QED
    BY <1>10, <2>1 DEF SetNowPlaying, ListInv, state_info, threads
<1>11. CASE PlayOn
  <2>1. setup \notin {"names", "load", "loading"} /\ moving = None /\ playing \in Entry
    BY <1>11 DEF PlayOn, ListInv, TypeOK
  <2>2. playing' # None /\ IsKnown(playing')
    <3>1. PICK p \in 0..MaxPosition : playing' = [playing EXCEPT !.position = p]
      BY <1>11 DEF PlayOn
    <3>2. playing' \in Entry /\ playing'.song = playing.song
      BY <2>1, <3>1 DEF Entry
    <3>3. None \notin Entry
      BY StateFileAssumption DEF None, Entry
    <3> QED
      BY <1>11, <3>2, <3>3 DEF PlayOn, ListInv, IsKnown
  <2> QED
    BY <1>11, <2>1, <2>2 DEF PlayOn, ListInv, state_info, threads
<1>16. CASE SongOver
  BY <1>16 DEF SongOver, ListInv, state_info, threads
<1>12. CASE AddSong
  <2>1. AllKnown(queue')
    <3>1. PICK s \in Known : queue' = Append(queue, [song |-> s, position |-> 0])
      BY <1>12 DEF AddSong
    <3>2. [song |-> s, position |-> 0] \in Entry /\ IsKnown([song |-> s, position |-> 0])
      BY StateFileAssumption DEF Entry, Songs, IsKnown
    <3> QED
      BY <3>1, <3>2, KnownLists DEF ListInv, TypeOK
  <2> QED
    BY <1>12, <2>1 DEF AddSong, ListInv, state_info, threads
<1>13. CASE do_delete
  <2>1. AllKnown(queue')
    BY <1>13, KnownLists DEF do_delete, ListInv, TypeOK
  <2>2. queue # <<>>
    <3>1. DOMAIN <<>> = {}
      OBVIOUS
    <3> QED
      BY <1>13, <3>1 DEF do_delete
  <2> QED
    BY <1>13, <2>1, <2>2 DEF do_delete, ListInv, state_info, threads
<1>14. CASE Restart
  BY <1>14, <1>e, <1>k DEF Restart, ListInv
<1> QED
  BY <1>1, <1>2, <1>3, <1>4, <1>5, <1>6, <1>7, <1>8, <1>9, <1>10, <1>11, <1>12, <1>13, <1>14,
     <1>15, <1>16
     DEF Next, Setup, Saver, Main

(* What save_state() writes when everything is restored is the playlist.   *)
LEMMA ContentWhenDone ==
  ASSUME TypeOK, ListInv, setup = "done"
  PROVE  /\ KnownOf(Content.songs) = One(playing) \o queue
         /\ Content.screen = screen /\ ~Content.torn
<1>1. SubSeq(raw_songs, current_song + 1, Len(raw_songs)) = <<>>
  <2>1. Len(raw_songs) = 0 /\ current_song \in Nat
    BY EmptySeq DEF ListInv, TypeOK
  <2> QED
    BY <2>1, SubSeqEmpty
<1>2. One(playing) \in Seq(Entry) /\ queue \in Seq(Entry) /\ One(playing) \o queue \in Seq(Entry)
  BY ContentType, ConcatProperties DEF TypeOK
<1>3. Content.songs = One(playing) \o queue
  <2>1. Content.songs = One(playing) \o queue \o <<>>
    BY <1>1 DEF Content
  <2> QED
    BY <1>2, <2>1, ConcatEmptySeq
<1>4. AllKnown(One(playing)) /\ AllKnown(queue)
  BY DEF ListInv, One, AllKnown
<1>5. KnownOf(One(playing) \o queue) = One(playing) \o queue
  <2>1. KnownOf(One(playing)) = One(playing) /\ KnownOf(queue) = queue
    BY <1>2, <1>4, KnownAll
  <2> QED
    BY <1>2, <2>1, KnownConcat
<1> QED
  BY <1>3, <1>5 DEF Content

(* Every step keeps what is known of a save.                               *)
LEMMA SaveInductive == IInv /\ [Next]_vars => SaveInv'
<1> SUFFICES ASSUME TypeOK, LockInv, ListInv, SaveInv, [Next]_vars PROVE SaveInv'
  BY DEF IInv
<1>l. UNCHANGED <<playing, queue>> => (One(playing) \o queue)' = One(playing) \o queue
  BY DEF One
<1>f. UNCHANGED file => KnownOf(file.songs)' = KnownOf(file.songs)
  BY DEF KnownOf, IsKnown
<1>1. CASE Setup
  <2>1. /\ UNCHANGED <<file, saver, early, config, playing>> /\ (setup = "done" => setup' = "done")
        /\ main # "ended" /\ (main' = main \/ (main' = "crashed" /\ state_lock = "setup"))
    BY <1>1 DEF Setup, LoadDbFilenames, LoadState, LoadTornState, CopyWindows, LockState, RestoreSong,
                StateLoaded, lists, Alive, LockInv
  <2> QED
    BY <2>1 DEF SaveInv, Cancelled, LockInv
<1>2. CASE SaverWakes \/ SaverReadonly \/ SaverCancelled
  <2>1. UNCHANGED <<file, main, early, config, playing, queue, screen, setup>>
        /\ (saver' = "saving" => saver = "saving") /\ (saver' = "cancelled" => Cancelled)
    BY <1>2 DEF SaverWakes, SaverReadonly, SaverCancelled, lists
  <2> QED
    BY <2>1, <1>l, <1>f DEF SaveInv, Cancelled
<1>3. CASE SaverOpens
  BY <1>3 DEF SaverOpens, SaverHasLocks, Opens, SaveInv, LockInv, Cancelled, lists
<1>4. CASE SaverWrites
  <2>1. state_lock = "saver" /\ main \notin {"saving", "ended"}
    BY <1>4 DEF SaverWrites, LockInv
  <2> QED
    BY <1>4, <2>1 DEF SaverWrites, SaveInv
<1>5. CASE Exit
  BY <1>5 DEF Exit, SaveInv, Cancelled, TypeOK
<1>6. CASE MainOpens
  <2>1. CASE config.readonly
    BY <1>6, <2>1 DEF MainOpens, SaveInv, LockInv, Cancelled
  <2>2. CASE ~config.readonly
    BY <1>6, <2>2 DEF MainOpens, Opens, SaveInv, LockInv, Cancelled, TypeOK
  <2> QED
    BY <2>1, <2>2
<1>7. CASE MainWrites
  <2>1. UNCHANGED <<saver, setup, config, early, screen, playing, queue>> /\ saver # "saving"
        /\ file' = Content /\ main' = "ended"
    BY <1>7 DEF MainWrites, Writes, LockInv, lists
  <2>2. ASSUME ~config.readonly, ~early
        PROVE  /\ setup' = "done"
               /\ file'.screen = screen' /\ ~file'.torn
               /\ KnownOf(file.songs)' = (One(playing) \o queue)'
    <3>1. setup = "done"
      BY <1>7, <2>2 DEF MainWrites, SaveInv
    <3>2. KnownOf(file.songs)' = KnownOf(file'.songs)
      BY DEF KnownOf, IsKnown
    <3> QED
      BY <2>1, <1>l, <3>1, <3>2, ContentWhenDone
  <2> QED
    BY <2>1, <2>2, <1>7 DEF SaveInv, Cancelled, MainWrites
<1>8. CASE TakeSong \/ SetNowPlaying \/ PlayOn \/ SongOver \/ AddSong \/ do_delete \/ ChangeScreen
  <2>1. UNCHANGED <<file, setup, saver, main, early, config>> /\ main # "ended"
    BY <1>8 DEF TakeSong, SetNowPlaying, PlayOn, SongOver, AddSong, do_delete, ChangeScreen, Cancelled,
                Alive, threads
  <2> QED
    BY <2>1 DEF SaveInv, Cancelled
<1>9. CASE HolderCancelled \/ UNCHANGED vars
  <2>1. UNCHANGED <<file, setup, saver, main, early, config, playing, queue, screen>>
    BY <1>9 DEF HolderCancelled, vars, threads, lists
  <2> QED
    BY <2>1, <1>l, <1>f DEF SaveInv, Cancelled
<1>10. CASE Restart
  BY <1>10 DEF Restart, SaveInv
<1> QED
  BY <1>1, <1>2, <1>3, <1>4, <1>5, <1>6, <1>7, <1>8, <1>9, <1>10 DEF Next, Saver, Main

(* Initially everything holds.                                             *)
LEMMA InitIInv == Init => IInv
<1> SUFFICES ASSUME Init PROVE IInv
  OBVIOUS
<1> USE StateFileAssumption DEF Init, InSession
<1>1. TypeOK
  <2>1. <<>> \in Seq(Entry) /\ 0 \in Nat /\ 1 \in 1..MaxStarts /\ file \in Files
    BY EmptySeq
  <2> QED
    BY <2>1 DEF TypeOK
<1>2. LockInv
  BY DEF LockInv
<1>3. ListInv
  BY EmptySeq DEF ListInv, AllKnown
<1>4. SaveInv
  BY DEF SaveInv
<1> QED
  BY <1>1, <1>2, <1>3, <1>4 DEF IInv

(* The inductive invariant is one.                                         *)
LEMMA Inductive == IInv /\ [Next]_vars => IInv'
<1> SUFFICES ASSUME IInv, [Next]_vars PROVE IInv'
  OBVIOUS
<1>1. TypeOK'
  BY TypeInductive DEF IInv
<1> QED
  BY <1>1, LockInductive, ListInductive, SaveInductive DEF IInv

(* It holds always.                                                        *)
LEMMA InvariantHolds == Spec => []IInv
  BY InitIInv, Inductive, PTL DEF Spec

(* Every variable keeps its type, in particular the playlist and the state *)
(* file hold entries only, whatever the file began with.                   *)
THEOREM StateTypeCorrect == Spec => []TypeOK
<1>1. IInv => TypeOK
  BY DEF IInv
<1> QED
  BY <1>1, InvariantHolds, PTL

-----------------------------------------------------------------------------
(* What quitting leaves in the file is the playlist and the windows of the *)
(* moment (main(), squash.c:453), unless load_state() was cut short.       *)
THEOREM QuittingKeepsPlaylist == Spec => []QuitKeepsPlaylist
<1>1. IInv => QuitKeepsPlaylist
  BY DEF IInv, SaveInv, QuitKeepsPlaylist
<1> QED
  BY <1>1, InvariantHolds, PTL

-----------------------------------------------------------------------------
(* The refinement of SavedPlaylist.                                        *)
(* What load_state() has still to restore.                                 *)
Todo == SubSeq(raw_songs, current_song + 1, Len(raw_songs))
(* What the file holds for SavedPlaylist.                                  *)
Saved == IF BeingWritten THEN Due ELSE KnownOf(file.songs)
Early == setup \in {"names", "load", "loading"}
(* Is the song of player_info over?                                        *)
Over == playing # None /\ ~in_song

(* The beginnings of a sequence.                                           *)
LEMMA Beginnings ==
  ASSUME NEW s \in Seq(Entry), NEW t \in Seq(Entry)
  PROVE  /\ s \in Memory!BeginningsOf(s \o t)
         /\ s \in Memory!BeginningsOf(s)
         /\ <<>> \in Memory!BeginningsOf(s)
<1>1. s \o t \in Seq(Entry) /\ Len(s) \in Nat /\ Len(s) \in 0..Len(s \o t) /\ Len(s) \in 0..Len(s)
      /\ 0 \in 0..Len(s)
  BY ConcatProperties, LenProperties
<1>2. SubSeq(s \o t, 1, Len(s)) = s
  <2>1. SubSeq(s \o t, 1, Len(s)) \in Seq(Entry) /\ Len(SubSeq(s \o t, 1, Len(s))) = Len(s)
    BY <1>1
  <2>2. \A i \in 1..Len(s) : SubSeq(s \o t, 1, Len(s))[i] = s[i]
    BY <1>1
  <2> HIDE DEF Entry
  <2> QED
    BY <2>1, <2>2, SeqEqual
<1>3. SubSeq(s, 1, Len(s)) = s
  BY SubSeqFull
<1>4. SubSeq(s, 1, 0) = <<>>
  BY SubSeqEmpty
<1> QED
  BY <1>1, <1>2, <1>3, <1>4 DEF Memory!BeginningsOf

(* A sequence is its first entries and the rest.                           *)
LEMMA SplitAt ==
  ASSUME NEW s \in Seq(Entry), NEW n \in 0..Len(s)
  PROVE  /\ SubSeq(s, 1, n) \in Seq(Entry) /\ SubSeq(s, n + 1, Len(s)) \in Seq(Entry)
         /\ SubSeq(s, 1, n) \o SubSeq(s, n + 1, Len(s)) = s
<1> DEFINE a == SubSeq(s, 1, n)
           b == SubSeq(s, n + 1, Len(s))
<1>1. a \in Seq(Entry) /\ b \in Seq(Entry)
  BY LenProperties
<1>2. Len(s) \in Nat /\ n \in Nat /\ n <= Len(s)
  BY LenProperties
<1>3. Len(a) = n /\ Len(b) = Len(s) - n
  BY <1>2
<1>4. \A i \in 1..n : a[i] = s[i]
  BY <1>2
<1>5. \A i \in 1..Len(s) - n : b[i] = s[n + i]
  BY <1>2
<1> HIDE DEF a, b
<1>6. a \o b \in Seq(Entry) /\ Len(a \o b) = Len(s)
  BY <1>1, <1>2, <1>3, ConcatProperties
<1>7. ASSUME NEW i \in 1..Len(s) PROVE (a \o b)[i] = s[i]
  <2>1. CASE i <= n
    BY <1>1, <1>2, <1>3, <1>4, <2>1, ConcatProperties
  <2>2. CASE ~(i <= n)
    <3>1. (a \o b)[i] = b[i - n]
      BY <1>1, <1>2, <1>3, <2>2, ConcatProperties
    <3>2. i - n \in 1..Len(s) - n /\ n + (i - n) = i
      BY <1>2, <2>2
    <3> QED
      BY <1>5, <3>1, <3>2
  <2> QED
    BY <2>1, <2>2
<1>8. a \o b = s
  BY <1>6, <1>7, SeqEqual
<1> QED
  BY <1>1, <1>8 DEF a, b

(* The songs of the beginning of a file are a beginning of its songs.      *)
LEMMA KnownBeginning ==
  ASSUME NEW s \in Seq(Entry), NEW n \in 0..Len(s)
  PROVE  KnownOf(SubSeq(s, 1, n)) \in Memory!BeginningsOf(KnownOf(s))
<1> DEFINE a == SubSeq(s, 1, n)
           b == SubSeq(s, n + 1, Len(s))
<1>1. a \in Seq(Entry) /\ b \in Seq(Entry) /\ a \o b = s
  BY SplitAt
<1> HIDE DEF a, b
<1>2. KnownOf(s) = KnownOf(a) \o KnownOf(b)
  BY <1>1, KnownConcat
<1>3. KnownOf(a) \in Seq(Entry) /\ KnownOf(b) \in Seq(Entry)
  BY <1>1, KnownType
<1>4. KnownOf(a) \in Memory!BeginningsOf(KnownOf(s))
  BY <1>2, <1>3, Beginnings
<1> QED
  BY <1>4 DEF a

(* A list that ends in an entry with a smaller position is a cut one.      *)
LEMMA CutInside ==
  ASSUME NEW s \in Seq(Entry), NEW e \in Entry, NEW t \in Seq(Entry), NEW c \in Entry,
         c.song = e.song, c.position <= e.position
  PROVE  Append(s, c) \in Memory!CutsOf(Append(s, e) \o t)
<1> DEFINE k == Append(s, e) \o t
           n == Len(s) + 1
<1>1. Len(s) \in Nat /\ Len(t) \in Nat /\ Append(s, e) \in Seq(Entry) /\ Len(Append(s, e)) = n
      /\ Append(s, e)[n] = e /\ \A i \in 1..Len(s) : Append(s, e)[i] = s[i]
  BY AppendProperties, LenProperties
<1>2. k \in Seq(Entry) /\ Len(k) = n + Len(t) /\ \A i \in 1..n : k[i] = Append(s, e)[i]
  BY <1>1, ConcatProperties
<1> HIDE DEF k
<1>3. n \in 1..Len(k) /\ k[n] = e /\ n - 1 = Len(s)
  BY <1>1, <1>2
<1>4. SubSeq(k, 1, n - 1) = s
  <2>1. \A i \in 1..Len(s) : k[i] = s[i] /\ k[i] \in Entry
    BY <1>1, <1>2
  <2>2. SubSeq(k, 1, Len(s)) \in Seq(Entry) /\ Len(SubSeq(k, 1, Len(s))) = Len(s)
        /\ \A i \in 1..Len(s) : SubSeq(k, 1, Len(s))[i] = k[i]
    BY <1>1, <1>2
  <2>3. SubSeq(k, 1, Len(s)) = s
    BY <2>1, <2>2, SeqEqual
  <2> QED
    BY <1>3, <2>3
<1> HIDE DEF n
<1>5. Append(s, c) \in Memory!CutsOf(k)
  <2> DEFINE short(m) == {x \in Entry : x.song = k[m].song /\ x.position <= k[m].position}
             cuts(m) == {Append(SubSeq(k, 1, m - 1), x) : x \in short(m)}
  <2>1. c \in short(n)
    BY <1>3
  <2> HIDE DEF short
  <2>2. Append(s, c) \in cuts(n)
    BY <1>4, <2>1
  <2> HIDE DEF cuts
  <2>3. Append(s, c) \in UNION {cuts(m) : m \in 1..Len(k)}
    BY <1>3, <2>2
  <2> QED
    BY <2>3 DEF cuts, short, Memory!CutsOf
<1> QED
  BY <1>5 DEF k

(* The songs of a cut file are a cut of its songs.                         *)
LEMMA KnownCut ==
  ASSUME NEW f \in Files, NEW g \in CutFiles(f)
  PROVE  KnownOf(g.songs) \in Memory!CutsOf(KnownOf(f.songs))
<1>1. f.songs \in Seq(Entry) /\ Len(f.songs) \in Nat
  BY LenProperties DEF Files
<1>2. ASSUME NEW n \in 0..Len(f.songs), g.songs = SubSeq(f.songs, 1, n)
      PROVE  KnownOf(g.songs) \in Memory!CutsOf(KnownOf(f.songs))
  BY <1>1, <1>2, KnownBeginning DEF Memory!CutsOf
<1>3. ASSUME NEW n \in 1..Len(f.songs), NEW p \in CutNumber(f.songs[n].position),
             g.songs = CutAt(f.songs, n, p)
      PROVE  KnownOf(g.songs) \in Memory!CutsOf(KnownOf(f.songs))
  <2> DEFINE s == f.songs
             a == SubSeq(s, 1, n - 1)
             b == SubSeq(s, n + 1, Len(s))
             e == s[n]
             c == [e EXCEPT !.position = p]
  <2>1. e \in Entry /\ n \in 0..Len(s) /\ n - 1 \in 0..Len(s) /\ n \in 1..Len(s)
    BY <1>1
  <2>2. c \in Entry /\ c.song = e.song /\ c.position <= e.position
    BY <2>1, CutEntry
  <2>3. a \in Seq(Entry) /\ b \in Seq(Entry) /\ SubSeq(s, 1, n) \o b = s
    BY <1>1, <2>1, SplitAt
  <2>4. SubSeq(s, 1, n) = Append(a, e)
    <3>1. 1 \in 1..Len(s) /\ n \in 1..Len(s)
      BY <1>1, <2>1
    <3>2. SubSeq(s, 1, n) = a \o <<e>>
      BY <1>1, <3>1, SubSeqRecursiveSecond
    <3> QED
      BY <2>1, <2>3, <3>2, AppendIsConcat
  <2>5. g.songs = Append(a, c)
    BY <1>3 DEF CutAt
  <2> HIDE DEF s, a, b, c, e
  <2>6. KnownOf(s) = KnownOf(Append(a, e)) \o KnownOf(b) /\ KnownOf(a) \in Seq(Entry)
        /\ KnownOf(b) \in Seq(Entry)
    <3>1. Append(a, e) \in Seq(Entry) /\ s = Append(a, e) \o b
      BY <2>1, <2>3, <2>4, AppendProperties
    <3> QED
      BY <2>3, <3>1, KnownConcat, KnownType
  <2>7. CASE IsKnown(e)
    <3>1. IsKnown(c)
      BY <2>2, <2>7 DEF IsKnown
    <3>2. KnownOf(Append(a, e)) = Append(KnownOf(a), e) /\ KnownOf(Append(a, c)) = Append(KnownOf(a), c)
      BY <2>1, <2>2, <2>3, <2>7, <3>1, KnownAppend
    <3>3. Append(KnownOf(a), c) \in Memory!CutsOf(Append(KnownOf(a), e) \o KnownOf(b))
      BY <2>1, <2>2, <2>6, CutInside
    <3> QED
      BY <2>5, <2>6, <3>2, <3>3 DEF s
  <2>8. CASE ~IsKnown(e)
    <3>1. ~IsKnown(c)
      BY <2>2, <2>8 DEF IsKnown
    <3>2. KnownOf(g.songs) = KnownOf(a)
      BY <2>2, <2>3, <2>5, <3>1, KnownAppend
    <3>3. KnownOf(a) \in Memory!BeginningsOf(KnownOf(s))
      BY <1>1, <2>1, KnownBeginning DEF a, s
    <3> QED
      BY <3>2, <3>3 DEF Memory!CutsOf, s
  <2> QED
    BY <2>7, <2>8
<1> QED
  BY <1>2, <1>3, CutParts

(* What follows the first of a list.                                       *)
LEMMA AllButFirst ==
  ASSUME NEW e \in Entry, NEW s \in Seq(Entry)
  PROVE  /\ SubSeq(<<e>> \o s, 2, Len(<<e>> \o s)) = s
         /\ Head(<<e>> \o s) = e /\ Tail(<<e>> \o s) = s /\ <<e>> \o s # <<>>
<1>1. <<e>> \in Seq(Entry) /\ Len(<<e>>) = 1
  OBVIOUS
<1> DEFINE t == <<e>> \o s
<1>2. t \in Seq(Entry) /\ Len(t) = Len(s) + 1 /\ t[1] = e /\ \A i \in 1..Len(s) : t[i + 1] = s[i]
  <2>1. Len(s) \in Nat
    BY LenProperties
  <2> QED
    BY <1>1, <2>1, ConcatProperties
<1> HIDE DEF t
<1>3. Len(s) \in Nat /\ t # <<>>
  BY <1>2, LenProperties, EmptySeq
<1>4. Tail(t) = s
  <2>1. Tail(t) \in Seq(Entry) /\ Len(Tail(t)) = Len(t) - 1
        /\ \A i \in 1..Len(Tail(t)) : Tail(t)[i] = t[i + 1]
    BY <1>2, <1>3, HeadTailProperties
  <2>2. Len(Tail(t)) = Len(s)
    BY <1>2, <1>3, <2>1
  <2> QED
    BY <1>2, <2>1, <2>2, SeqEqual
<1>5. SubSeq(t, 2, Len(t)) = s
  BY <1>2, <1>3, <1>4, TailIsSubSeq
<1> QED
  BY <1>2, <1>3, <1>4, <1>5 DEF t

(* A list without its second entry.                                        *)
LEMMA AllButSecond ==
  ASSUME NEW e \in Entry, NEW d \in Entry, NEW s \in Seq(Entry)
  PROVE  LET t == <<e>> \o (<<d>> \o s)
         IN SubSeq(t, 1, 1) \o SubSeq(t, 3, Len(t)) = <<e>> \o s
<1> DEFINE u == <<d>> \o s
           t == <<e>> \o u
<1>1. Len(s) \in Nat /\ u \in Seq(Entry) /\ Len(u) = Len(s) + 1
      /\ \A i \in 1..Len(s) : u[i + 1] = s[i]
  BY LenProperties, ConcatProperties
<1> HIDE DEF u
<1>2. t \in Seq(Entry) /\ Len(t) = Len(u) + 1 /\ t[1] = e /\ \A i \in 1..Len(u) : t[i + 1] = u[i]
  BY <1>1, ConcatProperties
<1> HIDE DEF t
<1>3. SubSeq(t, 1, 1) = <<e>>
  <2>1. 1 \in 1..Len(t) /\ 1 \in 1..Len(t) /\ 1 - 1 = 0
    BY <1>1, <1>2
  <2>2. SubSeq(t, 1, 1) = SubSeq(t, 1, 0) \o <<e>>
    BY <1>2, <2>1, SubSeqRecursiveSecond
  <2>3. SubSeq(t, 1, 0) = <<>> /\ <<e>> \in Seq(Entry)
    BY SubSeqEmpty
  <2> QED
    BY <2>2, <2>3, ConcatEmptySeq
<1>4. SubSeq(t, 3, Len(t)) = s
  <2>1. Len(t) = Len(s) + 2 /\ \A i \in 1..Len(s) : t[i + 2] = s[i]
    <3>1. ASSUME NEW i \in 1..Len(s) PROVE t[i + 2] = s[i]
      <4>1. i + 1 \in 1..Len(u) /\ (i + 1) + 1 = i + 2
        BY <1>1
      <4> QED
        BY <1>1, <1>2, <4>1
    <3> QED
      BY <1>1, <1>2, <3>1
  <2>2. SubSeq(t, 3, Len(t)) \in Seq(Entry) /\ Len(SubSeq(t, 3, Len(t))) = Len(s)
        /\ \A i \in 1..Len(s) : SubSeq(t, 3, Len(t))[i] = t[i + 2]
    BY <1>1, <1>2, <2>1
  <2> QED
    BY <2>1, <2>2, SeqEqual
<1> QED
  BY <1>3, <1>4 DEF t, u

(* The parts of what is due.                                               *)
LEMMA DueParts ==
  ASSUME IInv
  PROVE  /\ One(playing) \in Seq(Entry) /\ One(moving) \in Seq(Entry) /\ queue \in Seq(Entry)
         /\ Todo \in Seq(Entry) /\ KnownOf(Todo) \in Seq(Entry)
         /\ file.songs \in Seq(Entry) /\ KnownOf(file.songs) \in Seq(Entry)
         /\ Early => Due = KnownOf(file.songs)
         /\ ~Early => Due = One(playing) \o One(moving) \o queue \o KnownOf(Todo)
         /\ Due \in Seq(Entry)
<1>1. One(playing) \in Seq(Entry) /\ One(moving) \in Seq(Entry) /\ queue \in Seq(Entry)
      /\ Todo \in Seq(Entry) /\ file.songs \in Seq(Entry)
  BY ContentType DEF IInv, TypeOK, Todo, Files
<1>2. KnownOf(Todo) \in Seq(Entry) /\ KnownOf(file.songs) \in Seq(Entry)
  BY <1>1, KnownType
<1>3. /\ Early => Due = KnownOf(file.songs)
      /\ ~Early => Due = One(playing) \o One(moving) \o queue \o KnownOf(Todo)
  BY DEF Due, Todo, Early
<1>4. Due \in Seq(Entry)
  <2>1. One(playing) \o One(moving) \in Seq(Entry)
    BY <1>1, ConcatProperties
  <2>2. One(playing) \o One(moving) \o queue \in Seq(Entry)
    BY <1>1, <2>1, ConcatProperties
  <2>3. One(playing) \o One(moving) \o queue \o KnownOf(Todo) \in Seq(Entry)
    BY <1>2, <2>2, ConcatProperties
  <2> QED
    BY <1>2, <1>3, <2>3
<1> QED
  BY <1>1, <1>2, <1>3, <1>4

(* What is due after a step.                                               *)
LEMMA DueNext ==
  /\ Early' => Due' = KnownOf(file'.songs)
  /\ ~Early' => Due' = One(playing') \o One(moving') \o queue' \o KnownOf(Todo')
  /\ Saved' = IF BeingWritten' THEN Due' ELSE KnownOf(file'.songs)
  BY DEF Due, Saved, Todo, Early, KnownOf, IsKnown, One

(* What save_state() writes is what is due, without the song that is on    *)
(* its way from the queue to the player.                                   *)
LEMMA ContentIsDue ==
  ASSUME IInv, BeingWritten
  PROVE  /\ KnownOf(Content.songs) \in {Due, Memory!WithoutNext(Due)}
         /\ Early => KnownOf(Content.songs) = <<>>
<1> DEFINE P == One(playing)
           M == One(moving)
           R == KnownOf(Todo)
<1>0. P \in Seq(Entry) /\ M \in Seq(Entry) /\ queue \in Seq(Entry) /\ Todo \in Seq(Entry)
      /\ R \in Seq(Entry)
  BY DueParts
<1>1. Content.songs = P \o queue \o Todo
  BY DEF Content, Todo
<1>2. KnownOf(P) = P /\ KnownOf(queue) = queue
  <2>1. AllKnown(P) /\ AllKnown(queue)
    BY DEF IInv, ListInv, One, AllKnown
  <2> QED
    BY <1>0, <2>1, KnownAll
<1>d. ~Early => Due = P \o M \o queue \o R
  BY DueParts
<1> HIDE DEF R
<1>3. KnownOf(Content.songs) = P \o queue \o R
  <2>1. P \o queue \in Seq(Entry)
    BY <1>0, ConcatProperties
  <2>2. KnownOf(P \o queue) = P \o queue
    <3>1. KnownOf(P \o queue) = KnownOf(P) \o KnownOf(queue)
      BY <1>0, KnownConcat
    <3> QED
      BY <1>2, <3>1
  <2>3. KnownOf((P \o queue) \o Todo) = KnownOf(P \o queue) \o KnownOf(Todo)
    BY <1>0, <2>1, KnownConcat
  <2> QED
    BY <1>1, <2>2, <2>3 DEF R
<1>4. CASE Early
  <2>1. P = <<>> /\ queue = <<>> /\ raw_songs = <<>> /\ current_song \in Nat
    BY <1>4 DEF Early, IInv, ListInv, TypeOK, One
  <2>2. Todo = <<>>
    BY <2>1, SubSeqEmpty, EmptySeq DEF Todo
  <2>3. KnownOf(Content.songs) = <<>>
    BY <1>3, <2>1, <2>2, KnownEmpty DEF R
  <2>4. file.songs = <<>>
    BY DEF BeingWritten, IInv, SaveInv, Empty
  <2>5. Due = <<>>
    BY <1>4, <2>4, DueParts, KnownEmpty
  <2> QED
    BY <2>3, <2>5
<1>5. CASE ~Early /\ moving = None
  <2>1. M = <<>>
    BY <1>5 DEF One
  <2>2. P \o M = P
    BY <1>0, <2>1, ConcatEmptySeq
  <2> QED
    BY <1>3, <1>5, <1>d, <2>2
<1>6. CASE ~Early /\ moving # None /\ playing = None
  <2>1. P = <<>> /\ M = <<moving>> /\ moving \in Entry
    BY <1>6 DEF IInv, TypeOK, One
  <2>2. P \o M = <<moving>> /\ P \o queue = queue
    BY <1>0, <2>1, ConcatEmptySeq
  <2>3. queue \o R \in Seq(Entry) /\ (<<moving>> \o queue) \o R = <<moving>> \o (queue \o R)
    BY <1>0, <2>1, ConcatProperties, ConcatAssociative
  <2>4. Due = <<moving>> \o (queue \o R)
    BY <1>6, <1>d, <2>2, <2>3
  <2>5. Memory!WithoutNext(Due) = queue \o R
    BY <1>6, <2>1, <2>3, <2>4, AllButFirst DEF Memory!WithoutNext
  <2> QED
    BY <1>3, <1>6, <2>2, <2>5
<1>7. CASE ~Early /\ moving # None /\ playing # None
  <2> DEFINE X == queue \o R
  <2>1. P = <<playing>> /\ M = <<moving>> /\ moving \in Entry /\ playing \in Entry /\ ~in_song
    BY <1>7 DEF IInv, ListInv, TypeOK, One
  <2>2. X \in Seq(Entry)
    BY <1>0, ConcatProperties
  <2>3. /\ <<playing>> \o <<moving>> \o queue \o R = <<playing>> \o (<<moving>> \o X)
        /\ <<playing>> \o queue \o R = <<playing>> \o X
    BY <1>0, <2>1
  <2> HIDE DEF X
  <2>4. Due = <<playing>> \o (<<moving>> \o X)
    BY <1>7, <1>d, <2>1, <2>3
  <2>5. Memory!WithoutNext(Due) = <<playing>> \o X
    BY <1>7, <2>1, <2>2, <2>4, AllButSecond DEF Memory!WithoutNext
  <2> QED
    BY <1>3, <1>7, <2>1, <2>3, <2>5
<1> QED
  BY <1>4, <1>5, <1>6, <1>7

(* A step that neither touches the file nor what is due changes nothing.   *)
LEMMA NothingDue ==
  ASSUME UNCHANGED <<file, Due, BeingWritten, Over>>, (setup # "done") <=> (setup # "done")'
  PROVE  UNCHANGED Memory!vars
<1>1. Saved' = Saved
  BY DueNext DEF Saved
<1> QED
  BY <1>1 DEF Memory!vars, Saved, Over

(* What is due does not change with anything but the lists and, before     *)
(* they are restored, the file.                                            *)
LEMMA DueSame ==
  ASSUME UNCHANGED <<file, raw_songs, current_song, lists>>, Early <=> Early'
  PROVE  UNCHANGED Due
<1>1. UNCHANGED <<One(playing), One(moving), queue, Todo>>
  BY DEF One, Todo, lists
<1> QED
  BY <1>1, DueNext DEF Due, Early, Todo, lists

(* setup_database() changes what is due by nothing, and says at the end    *)
(* that it is restored.                                                    *)
LEMMA SetupRefines ==
  ASSUME IInv, IInv', Setup
  PROVE  Memory!Restored \/ UNCHANGED Memory!vars
<1>w. UNCHANGED file /\ UNCHANGED BeingWritten /\ UNCHANGED Over
  BY DEF Setup, LoadDbFilenames, LoadState, LoadTornState, CopyWindows, LockState, RestoreSong,
         StateLoaded, BeingWritten, Over, lists, IInv, LockInv
<1>1. CASE LoadDbFilenames \/ LoadTornState \/ CopyWindows \/ LockState
  <2>1. UNCHANGED <<raw_songs, current_song, lists>> /\ (Early <=> Early')
        /\ ((setup # "done") <=> (setup # "done")')
    BY <1>1 DEF LoadDbFilenames, LoadTornState, CopyWindows, LockState, state_info, Early
  <2> QED
    BY <1>w, <2>1, DueSame, NothingDue
<1>2. CASE LoadState
  <2>1. Early /\ ~Early' /\ One(playing') = <<>> /\ One(moving') = <<>> /\ queue' = <<>>
        /\ raw_songs' = file.songs /\ current_song' = 0
    BY <1>2 DEF LoadState, IInv, ListInv, lists, One, Early
  <2>2. Todo' = file.songs
    <3>1. Todo' = SubSeq(file.songs, 1, Len(file.songs))
      BY <2>1 DEF Todo
    <3> QED
      BY <3>1, DueParts, SubSeqFull
  <2>3. Due' = <<>> \o <<>> \o <<>> \o KnownOf(file.songs)
    BY <2>1, <2>2, DueNext
  <2>4. Due' = Due
    BY <2>1, <2>3, DueParts, ConcatEmptySeq, EmptySeq
  <2>5. (setup # "done") /\ (setup # "done")'
    BY <1>2 DEF LoadState
  <2> QED
    BY <1>w, <2>4, <2>5, NothingDue
<1>3. CASE RestoreSong
  <2> DEFINE e == raw_songs[current_song + 1]
             rest == SubSeq(raw_songs, current_song + 2, Len(raw_songs))
             PM == One(playing) \o One(moving)
  <2>1. raw_songs \in Seq(Entry) /\ current_song \in Nat /\ Len(raw_songs) \in Nat
        /\ current_song < Len(raw_songs)
    BY <1>3, LenProperties DEF RestoreSong, IInv, TypeOK
  <2>2. e \in Entry /\ rest \in Seq(Entry) /\ <<e>> \in Seq(Entry)
    BY <2>1
  <2>3. Todo = <<e>> \o rest
    <3>1. current_song + 1 \in 1..Len(raw_songs) /\ Len(raw_songs) \in current_song + 1..Len(raw_songs)
          /\ (current_song + 1) + 1 = current_song + 2
      BY <2>1
    <3>2. SubSeq(raw_songs, current_song + 1, Len(raw_songs))
            = <<e>> \o SubSeq(raw_songs, (current_song + 1) + 1, Len(raw_songs))
      BY <2>1, <3>1, SubSeqRecursiveFirst
    <3> QED
      BY <3>1, <3>2 DEF Todo
  <2>4. Todo' = rest
    <3>1. current_song' + 1 = current_song + 2 /\ raw_songs' = raw_songs
      BY <1>3, <2>1 DEF RestoreSong
    <3> QED
      BY <3>1 DEF Todo
  <2>5. KnownOf(<<e>>) = IF IsKnown(e) THEN <<e>> ELSE <<>>
    <3>1. Append(<<>>, e) = <<e>> /\ <<>> \in Seq(Entry)
      BY EmptySeq
    <3> QED
      BY <2>2, <3>1, KnownAppend, KnownEmpty
  <2>6. queue' = queue \o KnownOf(<<e>>)
    <3>1. queue \in Seq(Entry) /\ Append(queue, e) = queue \o <<e>> /\ queue \o <<>> = queue
      BY <2>2, DueParts, AppendIsConcat, ConcatEmptySeq
    <3> QED
      BY <1>3, <2>5, <3>1 DEF RestoreSong, Restore
  <2> HIDE DEF e, rest
  <2>7. KnownOf(Todo) = KnownOf(<<e>>) \o KnownOf(rest)
    BY <2>2, <2>3, KnownConcat
  <2>8. KnownOf(<<e>>) \in Seq(Entry) /\ KnownOf(rest) \in Seq(Entry)
    BY <2>2, KnownType
  <2>9. ~Early /\ ~Early' /\ One(playing') = One(playing) /\ One(moving') = One(moving)
    BY <1>3 DEF RestoreSong, Early, One
  <2>10. PM \in Seq(Entry) /\ queue \in Seq(Entry) /\ PM \o queue \in Seq(Entry)
    BY DueParts, ConcatProperties
  <2>11. Due = PM \o queue \o KnownOf(Todo)
    BY <2>9, DueParts
  <2>12. Due' = PM \o queue' \o KnownOf(rest)
    BY <2>4, <2>9, DueNext
  <2> HIDE DEF PM
  <2>13. (PM \o (queue \o KnownOf(<<e>>))) \o KnownOf(rest)
           = (PM \o queue) \o (KnownOf(<<e>>) \o KnownOf(rest))
    <3> DEFINE known == KnownOf(<<e>>)
               left == KnownOf(rest)
    <3>1. known \in Seq(Entry) /\ left \in Seq(Entry) /\ PM \in Seq(Entry) /\ queue \in Seq(Entry)
      BY <2>8, <2>10
    <3> HIDE DEF known, left
    <3>2. (PM \o (queue \o known)) \o left = (PM \o queue) \o (known \o left)
      BY <3>1
    <3> QED
      BY <3>2 DEF known, left
  <2>14. Due' = Due
    BY <2>6, <2>7, <2>11, <2>12, <2>13
  <2>15. (setup # "done") /\ (setup # "done")'
    BY <1>3 DEF RestoreSong
  <2> QED
    BY <1>w, <2>14, <2>15, NothingDue
<1>4. CASE StateLoaded
  <2>1. Todo = <<>> /\ Todo' = <<>>
    <3>1. raw_songs \in Seq(Entry) /\ current_song \in Nat /\ Len(raw_songs) < current_song + 1
      BY <1>4, LenProperties DEF StateLoaded, IInv, TypeOK
    <3>2. Todo = <<>>
      BY <3>1, SubSeqEmpty, LenProperties DEF Todo
    <3>3. raw_songs' = <<>> /\ current_song' = 0 /\ Len(<<>>) = 0
      BY <1>4, EmptySeq DEF StateLoaded
    <3>4. SubSeq(<<>>, 1, 0) = <<>>
      BY SubSeqEmpty
    <3> QED
      BY <3>2, <3>3, <3>4 DEF Todo
  <2>2. ~Early /\ ~Early' /\ One(playing') = One(playing) /\ One(moving') = One(moving) /\ queue' = queue
    BY <1>4 DEF StateLoaded, Early, lists, One
  <2>3. Due' = Due
    BY <2>1, <2>2, DueParts, DueNext
  <2>4. (setup # "done") /\ ~(setup # "done")'
    BY <1>4 DEF StateLoaded
  <2>5. Saved' = Saved
    BY <1>w, <2>3, DueNext DEF Saved
  <2> QED
    BY <1>w, <2>3, <2>4, <2>5 DEF Memory!Restored, Saved, Over
<1> QED
  BY <1>1, <1>2, <1>3, <1>4 DEF Setup

(* Opening the file begins a save.                                         *)
LEMMA OpeningBegins ==
  ASSUME IInv, Opens, ~BeingWritten, BeingWritten', UNCHANGED <<raw_songs, current_song, lists, setup>>
  PROVE  Memory!BeginSave
<1>o. UNCHANGED Over
  BY DEF Over, lists
<1>1. CASE Early
  <2>1. Due' = <<>>
    <3>1. Early' /\ file'.songs = <<>>
      BY <1>1 DEF Opens, Empty, Early
    <3> QED
      BY <3>1, DueNext, KnownEmpty
  <2>2. Due' \in Memory!BeginningsOf(Due)
    <3>1. Due \in Seq(Entry)
      BY DueParts
    <3> QED
      BY <2>1, <3>1, Beginnings
  <2>3. (setup # "done") /\ (setup # "done")'
    BY <1>1 DEF Early
  <2>4. Saved' = Due'
    BY DueNext
  <2> QED
    BY <1>o, <2>2, <2>3, <2>4 DEF Memory!BeginSave, Saved, Over
<1>2. CASE ~Early
  <2>1. Due' = Due
    <3>1. ~Early' /\ UNCHANGED <<One(playing), One(moving), queue, Todo>>
      BY <1>2 DEF One, Todo, lists, Early
    <3> QED
      BY <1>2, <3>1, DueNext, DueParts
  <2>2. Due' \in Memory!BeginningsOf(Due)
    <3>1. Due \in Seq(Entry)
      BY DueParts
    <3> QED
      BY <2>1, <3>1, Beginnings
  <2>3. (setup # "done")' = (setup # "done")
    OBVIOUS
  <2>4. Saved' = Due'
    BY DueNext
  <2> QED
    BY <1>o, <2>1, <2>2, <2>3, <2>4 DEF Memory!BeginSave, Saved, Over
<1> QED
  BY <1>1, <1>2

(* Writing and closing the file ends the save: what was not restored yet   *)
(* is in the file and not due any more in this session.                    *)
LEMMA WritingEnds ==
  ASSUME IInv, Writes, BeingWritten, ~BeingWritten', UNCHANGED <<raw_songs, lists, setup>>
  PROVE  Memory!EndSave
<1> DEFINE P == One(playing)
           M == One(moving)
           R == KnownOf(Todo)
<1>0. P \in Seq(Entry) /\ M \in Seq(Entry) /\ queue \in Seq(Entry) /\ R \in Seq(Entry)
      /\ P \o M \o queue \in Seq(Entry) /\ Due \in Seq(Entry)
  BY DueParts, ConcatProperties
<1>1. Saved' = KnownOf(Content.songs)
  BY DueNext DEF Writes
<1>o. UNCHANGED Over
  BY DEF Over, lists
<1>2. Saved' \in {Due, Memory!WithoutNext(Due)}
  BY <1>1, ContentIsDue
<1>3. Todo' = <<>> /\ (setup = "done" => Todo = <<>>)
  <2>1. raw_songs \in Seq(Entry) /\ current_song \in Nat /\ Len(raw_songs) \in Nat
        /\ (setup = "done" => Len(raw_songs) = 0)
    BY LenProperties, EmptySeq DEF IInv, TypeOK, ListInv
  <2>2. current_song' \in Nat /\ Len(raw_songs) < current_song' + 1 /\ raw_songs' = raw_songs
    BY <2>1 DEF Writes
  <2>3. Todo' = <<>>
    BY <2>1, <2>2, SubSeqEmpty DEF Todo
  <2>4. ASSUME setup = "done" PROVE Todo = <<>>
    BY <2>1, <2>4, SubSeqEmpty DEF Todo
  <2> QED
    BY <2>3, <2>4
<1>4. Due' \in Memory!BeginningsOf(Due) /\ (setup = "done" => Due' = Due)
  <2>1. CASE Early
    <3>1. Early' /\ setup # "done"
      BY <2>1 DEF Early
    <3>2. Due' = KnownOf(Content.songs)
      BY <3>1, DueNext DEF Writes
    <3>3. Due' = <<>>
      BY <2>1, <3>2, ContentIsDue
    <3> QED
      BY <1>0, <3>1, <3>3, Beginnings
  <2>2. CASE ~Early
    <3>1. ~Early' /\ UNCHANGED <<P, M, queue>>
      BY <2>2 DEF Early, One, lists
    <3>2. Due = P \o M \o queue \o R /\ Due' = P \o M \o queue \o KnownOf(<<>>)
      BY <1>3, <2>2, <3>1, DueNext, DueParts
    <3>3. Due' = P \o M \o queue
      BY <1>0, <3>2, KnownEmpty, ConcatEmptySeq
    <3>4. Due' \in Memory!BeginningsOf(Due)
      <4> DEFINE X == P \o M \o queue
      <4>1. X \in Seq(Entry) /\ R \in Seq(Entry) /\ Due = X \o R /\ Due' = X
        BY <1>0, <3>2, <3>3
      <4> HIDE DEF X, R
      <4> QED
        BY <4>1, Beginnings
    <3>5. ASSUME setup = "done" PROVE Due' = Due
      BY <1>3, <3>2, <3>5
    <3> QED
      BY <3>4, <3>5
  <2> QED
    BY <2>1, <2>2
<1>5. (setup # "done")' = (setup # "done")
  OBVIOUS
<1> QED
  BY <1>o, <1>2, <1>4, <1>5 DEF Memory!EndSave, Saved, Over

(* state_saver() saves, or is cancelled in the middle of it.               *)
LEMMA SaverRefines ==
  ASSUME IInv, IInv', Saver
  PROVE  Memory!BeginSave \/ Memory!EndSave \/ UNCHANGED Memory!vars
<1>s. UNCHANGED <<raw_songs, current_song, lists, setup, file>> => UNCHANGED <<Due, Over>>
  <2> SUFFICES ASSUME UNCHANGED <<raw_songs, current_song, lists, setup, file>>
               PROVE  UNCHANGED <<Due, Over>>
    OBVIOUS
  <2>1. UNCHANGED Over
    BY DEF Over, lists
  <2> QED
    BY <2>1, DueSame DEF Early
<1>1. CASE SaverWakes \/ SaverReadonly
  <2>1. UNCHANGED <<raw_songs, current_song, lists, setup, file>>
    BY <1>1 DEF SaverWakes, SaverReadonly, state_info
  <2>2. UNCHANGED BeingWritten
    BY <1>1 DEF SaverWakes, SaverReadonly, SaverHasLocks, BeingWritten
  <2> QED
    BY <1>s, <2>1, <2>2, NothingDue
<1>2. CASE SaverOpens
  <2>1. ~BeingWritten
    BY <1>2 DEF SaverOpens, SaverHasLocks, BeingWritten, Cancelled
  <2>2. BeingWritten'
    BY <1>2 DEF SaverOpens, BeingWritten
  <2>3. Opens /\ UNCHANGED <<raw_songs, current_song, lists, setup>>
    BY <1>2 DEF SaverOpens, state_info
  <2> QED
    BY <2>1, <2>2, <2>3, OpeningBegins
<1>3. CASE SaverWrites
  <2>1. BeingWritten
    BY <1>3 DEF SaverWrites, BeingWritten
  <2>2. ~BeingWritten'
    BY <1>3 DEF SaverWrites, BeingWritten, IInv, LockInv
  <2>3. Writes /\ UNCHANGED <<raw_songs, lists, setup>>
    BY <1>3 DEF SaverWrites
  <2> QED
    BY <2>1, <2>2, <2>3, WritingEnds
<1>4. CASE SaverCancelled
  <2>1. UNCHANGED <<raw_songs, current_song, lists, setup, file, main>> /\ saver' = "cancelled"
    BY <1>4 DEF SaverCancelled, state_info
  <2>2. main # "saving"
    BY <1>4 DEF SaverCancelled, SaverHasLocks, IInv, LockInv
  <2>3. CASE saver = "saving" \/ file # Empty
    <3>1. UNCHANGED BeingWritten
      <4>1. CASE saver = "saving"
        <5>1. file = Empty
          BY <4>1 DEF IInv, SaveInv
        <5>2. BeingWritten /\ BeingWritten'
          BY <2>1, <4>1, <5>1 DEF BeingWritten, Empty
        <5> QED
          BY <5>2 DEF BeingWritten
      <4>2. CASE saver # "saving" /\ file # Empty
        <5>1. saver = "asked"
          BY <1>4, <4>2 DEF SaverCancelled, SaverHasLocks
        <5>2. ~BeingWritten /\ ~BeingWritten'
          BY <2>1, <2>2, <4>2, <5>1 DEF BeingWritten, Empty
        <5> QED
          BY <5>2 DEF BeingWritten
      <4> QED
        BY <2>3, <4>1, <4>2
    <3> QED
      BY <1>s, <2>1, <3>1, NothingDue
  <2>4. CASE saver # "saving" /\ file = Empty
    <3>1. saver = "asked"
      BY <1>4, <2>4 DEF SaverCancelled, SaverHasLocks
    <3>2. ~BeingWritten /\ BeingWritten'
      BY <2>1, <2>2, <2>4, <3>1 DEF BeingWritten, Empty
    <3>3. Due' = Due /\ Due' \in Memory!BeginningsOf(Due)
      <4>1. Due \in Seq(Entry)
        BY DueParts
      <4> QED
        BY <1>s, <2>1, <4>1, Beginnings
    <3>4. Saved' = Due' /\ (setup # "done")' = (setup # "done")
      BY <2>1, <3>2, DueNext
    <3> QED
      BY <1>s, <2>1, <3>2, <3>3, <3>4 DEF Memory!BeginSave, Saved, Over
  <2> QED
    BY <2>3, <2>4
<1> QED
  BY <1>1, <1>2, <1>3, <1>4 DEF Saver

(* main() saves at the end.                                                *)
LEMMA MainRefines ==
  ASSUME IInv, IInv', Exit \/ Main
  PROVE  Memory!BeginSave \/ Memory!EndSave \/ UNCHANGED Memory!vars
<1>s. UNCHANGED <<raw_songs, current_song, lists, setup, file>> => UNCHANGED <<Due, Over>>
  <2> SUFFICES ASSUME UNCHANGED <<raw_songs, current_song, lists, setup, file>>
               PROVE  UNCHANGED <<Due, Over>>
    OBVIOUS
  <2>1. UNCHANGED Over
    BY DEF Over, lists
  <2> QED
    BY <2>1, DueSame DEF Early
<1>1. CASE Exit \/ (MainOpens /\ config.readonly)
  <2>1. UNCHANGED <<raw_songs, current_song, lists, setup, file>>
    BY <1>1 DEF Exit, MainOpens, state_info
  <2>2. UNCHANGED BeingWritten
    BY <1>1 DEF Exit, MainOpens, BeingWritten, Empty
  <2> QED
    BY <1>s, <2>1, <2>2, NothingDue
<1>2. CASE MainOpens /\ ~config.readonly
  <2>1. ~BeingWritten
    BY <1>2 DEF MainOpens, BeingWritten, IInv, LockInv
  <2>2. BeingWritten'
    BY <1>2 DEF MainOpens, BeingWritten
  <2>3. Opens /\ UNCHANGED <<raw_songs, current_song, lists, setup>>
    BY <1>2 DEF MainOpens, state_info
  <2> QED
    BY <2>1, <2>2, <2>3, OpeningBegins
<1>3. CASE MainWrites
  <2>1. BeingWritten
    BY <1>3 DEF MainWrites, BeingWritten
  <2>2. ~BeingWritten'
    BY <1>3 DEF MainWrites, BeingWritten, IInv, LockInv
  <2>3. Writes /\ UNCHANGED <<raw_songs, lists, setup>>
    BY <1>3 DEF MainWrites
  <2> QED
    BY <2>1, <2>2, <2>3, WritingEnds
<1> QED
  BY <1>1, <1>2, <1>3 DEF Main

(* A list in two and in three parts, entry by entry.                       *)
TwoParts(t, a, b) ==
  /\ t \in Seq(Entry) /\ Len(t) = Len(a) + Len(b)
  /\ \A j \in 1..Len(a) : t[j] = a[j]
  /\ \A j \in 1..Len(b) : t[Len(a) + j] = b[j]
ThreeParts(t, a, s, b) ==
  /\ t \in Seq(Entry) /\ Len(t) = (Len(a) + Len(s)) + Len(b)
  /\ \A j \in 1..Len(a) : t[j] = a[j]
  /\ \A j \in 1..Len(s) : t[Len(a) + j] = s[j]
  /\ \A j \in 1..Len(b) : t[(Len(a) + Len(s)) + j] = b[j]

(* A list behind another.                                                  *)
LEMMA ConcatTwo ==
  ASSUME NEW a \in Seq(Entry), NEW b \in Seq(Entry)
  PROVE  TwoParts(a \o b, a, b)
<1>1. Len(a) \in Nat /\ Len(b) \in Nat
  BY LenProperties
<1>2. a \o b \in Seq(Entry) /\ Len(a \o b) = Len(a) + Len(b)
  BY ConcatProperties
<1>3. ASSUME NEW j \in 1..Len(a) PROVE (a \o b)[j] = a[j]
  BY <1>1, ConcatProperties
<1>4. ASSUME NEW j \in 1..Len(b) PROVE (a \o b)[Len(a) + j] = b[j]
  BY <1>1, ConcatProperties
<1> QED
  BY <1>2, <1>3, <1>4 DEF TwoParts

(* Three lists, one behind the other.                                      *)
LEMMA ConcatThree ==
  ASSUME NEW a \in Seq(Entry), NEW s \in Seq(Entry), NEW b \in Seq(Entry)
  PROVE  ThreeParts((a \o s) \o b, a, s, b)
<1> DEFINE as == a \o s
           t == as \o b
<1>1. Len(a) \in Nat /\ Len(s) \in Nat /\ Len(b) \in Nat
  BY LenProperties
<1>2. TwoParts(as, a, s)
  BY ConcatTwo
<1> HIDE DEF as
<1>3. as \in Seq(Entry)
  BY <1>2 DEF TwoParts
<1>4. TwoParts(t, as, b)
  BY <1>3, ConcatTwo, Zenon
<1> HIDE DEF t
<1>5. t \in Seq(Entry) /\ Len(t) = (Len(a) + Len(s)) + Len(b)
  BY <1>2, <1>4 DEF TwoParts
<1>6. ASSUME NEW j \in 1..Len(a) PROVE t[j] = a[j]
  <2>1. j \in 1..Len(a) + Len(s)
    BY <1>1
  <2> QED
    BY <1>2, <1>4, <2>1 DEF TwoParts
<1>7. ASSUME NEW j \in 1..Len(s) PROVE t[Len(a) + j] = s[j]
  <2>1. Len(a) + j \in 1..Len(a) + Len(s)
    BY <1>1
  <2> QED
    BY <1>2, <1>4, <2>1 DEF TwoParts
<1>8. ASSUME NEW j \in 1..Len(b) PROVE t[(Len(a) + Len(s)) + j] = b[j]
  BY <1>2, <1>4 DEF TwoParts
<1> QED
  BY <1>5, <1>6, <1>7, <1>8 DEF ThreeParts, t, as

(* u is t with one entry behind the first k removed.                       *)
OneRemoved(t, u, k) == \E j \in DOMAIN t : k < j /\ u = RemoveAt(t, j)

(* An entry removed from the middle part is removed from the list.         *)
LEMMA RemoveInside ==
  ASSUME NEW a \in Seq(Entry), NEW s \in Seq(Entry), NEW b \in Seq(Entry), NEW i \in 1..Len(s)
  PROVE  OneRemoved((a \o s) \o b, (a \o RemoveAt(s, i)) \o b, Len(a))
<1> DEFINE k == Len(a)
           n == Len(s)
           m == Len(b)
           r == RemoveAt(s, i)
           t == (a \o s) \o b
           u == (a \o r) \o b
           v == RemoveAt(t, k + i)
<1>1. k \in Nat /\ n \in Nat /\ m \in Nat /\ i \in 1..n
  BY LenProperties
<1>2. /\ r \in Seq(Entry) /\ Len(r) = n - 1
      /\ \A j \in 1..n - 1 : r[j] = IF j < i THEN s[j] ELSE s[j + 1]
  BY RemoveAtParts
<1>3. /\ t \in Seq(Entry) /\ Len(t) = (k + n) + m
      /\ \A j \in 1..k : t[j] = a[j]
      /\ \A j \in 1..n : t[k + j] = s[j]
      /\ \A j \in 1..m : t[(k + n) + j] = b[j]
  BY ConcatThree DEF ThreeParts
<1>r. r \in Seq(Entry)
  BY <1>2
<1> HIDE DEF r
<1>u. ThreeParts(u, a, r, b)
  BY <1>r, ConcatThree, Zenon
<1>4. /\ u \in Seq(Entry) /\ Len(u) = (k + Len(r)) + m
      /\ \A j \in 1..k : u[j] = a[j]
      /\ \A j \in 1..Len(r) : u[k + j] = r[j]
      /\ \A j \in 1..m : u[(k + Len(r)) + j] = b[j]
  BY <1>u DEF ThreeParts
<1> HIDE DEF t, u, k, n, m
<1>5. k + i \in 1..Len(t)
  BY <1>1, <1>3
<1>6. /\ v \in Seq(Entry) /\ Len(v) = Len(t) - 1
      /\ \A j \in 1..Len(t) - 1 : v[j] = IF j < k + i THEN t[j] ELSE t[j + 1]
  BY <1>3, <1>5, RemoveAtParts
<1> HIDE DEF v
<1>7. Len(u) = Len(v) /\ Len(v) = k + n + m - 1
  BY <1>1, <1>2, <1>3, <1>4, <1>6
<1>8. ASSUME NEW x \in 1..Len(v) PROVE u[x] = v[x]
  <2>1. v[x] = IF x < k + i THEN t[x] ELSE t[x + 1]
    BY <1>6
  <2>2. CASE x <= k
    <3>1. x < k + i /\ x \in 1..k
      BY <1>1, <1>7, <2>2
    <3> QED
      BY <1>3, <1>4, <2>1, <3>1
  <2>3. CASE k < x /\ x < k + n
    <3>1. PICK y \in Nat : x = k + y
      <4>1. x - k \in Nat /\ x = k + (x - k)
        BY <1>1, <1>7, <2>3
      <4> QED
        BY <4>1
    <3>2. y \in 1..n - 1 /\ y \in 1..n /\ y + 1 \in 1..n /\ (k + y) + 1 = k + (y + 1)
          /\ (x < k + i <=> y < i)
      BY <1>1, <2>3, <3>1
    <3>3. u[x] = r[y]
      BY <1>2, <1>4, <3>1, <3>2
    <3>4. t[x] = s[y] /\ t[x + 1] = s[y + 1]
      BY <1>3, <3>1, <3>2
    <3> QED
      BY <1>2, <2>1, <3>2, <3>3, <3>4
  <2>4. CASE k + n <= x
    <3>1. PICK y \in Nat : x + 1 = (k + n) + y
      <4>1. (x + 1) - (k + n) \in Nat /\ x + 1 = (k + n) + ((x + 1) - (k + n))
        BY <1>1, <1>7, <2>4
      <4> QED
        BY <4>1
    <3>2. y \in 1..m /\ x = (k + (n - 1)) + y /\ ~(x < k + i)
      BY <1>1, <1>7, <2>4, <3>1
    <3> QED
      BY <1>2, <1>3, <1>4, <2>1, <3>1, <3>2
  <2> QED
    BY <1>1, <1>7, <2>2, <2>3, <2>4
<1>9. u = v
  BY <1>4, <1>6, <1>7, <1>8, SeqEqual
<1>10. k + i \in DOMAIN t /\ k < k + i
  BY <1>1, <1>3, <1>5, LenProperties
<1> QED
  BY <1>9, <1>10 DEF t, u, v, r, k, OneRemoved

(* The players change what is due at its first entry, its end, or by one   *)
(* entry removed; a song that is over is dropped when the next one begins. *)
LEMMA ListsRefine ==
  ASSUME IInv, IInv', TakeSong \/ SetNowPlaying \/ PlayOn \/ SongOver \/ AddSong \/ do_delete
  PROVE  Memory!Change \/ Memory!Finish \/ Memory!Advance \/ UNCHANGED Memory!vars
<1> DEFINE P == One(playing)
           M == One(moving)
           R == KnownOf(Todo)
<1>0. P \in Seq(Entry) /\ M \in Seq(Entry) /\ queue \in Seq(Entry) /\ R \in Seq(Entry)
      /\ Due \in Seq(Entry)
  BY DueParts
<1>t. playing \in Entry \cup {None} /\ moving \in Entry \cup {None}
  BY DEF IInv, TypeOK
<1>u. UNCHANGED <<file, raw_songs, current_song, setup, saver, main>>
  BY DEF TakeSong, SetNowPlaying, PlayOn, SongOver, AddSong, do_delete, state_info, threads
<1>w. UNCHANGED BeingWritten
  BY <1>u DEF BeingWritten
<1>n. Todo' = Todo
  BY <1>u DEF Todo
<1>e. ~Early /\ ~Early'
  <2>1. DOMAIN <<>> = {}
    OBVIOUS
  <2> QED
    BY <1>u, <2>1 DEF TakeSong, SetNowPlaying, PlayOn, SongOver, AddSong, do_delete, Early, IInv, ListInv
<1>d. Due = P \o M \o queue \o R
  BY <1>e, DueParts
<1>f. Due' = One(playing') \o One(moving') \o queue' \o R
  BY <1>e, <1>n, DueNext
<1>s. ((setup # "done") <=> (setup # "done")') /\ (setup # "done")' = (setup # "done")
  BY <1>u
<1>c. Memory!Lists
  <2>1. Saved' = IF BeingWritten THEN Due' ELSE Saved
    BY <1>u, <1>w, DueNext DEF Saved
  <2> QED
    BY <1>w, <1>s, <2>1 DEF Memory!Lists, Saved
<1>o. None \notin Entry
  BY StateFileAssumption DEF None, Entry
<1>p. One(None) = <<>> /\ \A e \in Entry : One(e) = <<e>>
  BY <1>o DEF One
<1> HIDE DEF R
<1>1. CASE TakeSong
  <2>1. queue # <<>> /\ moving = None /\ playing' = playing /\ moving' = Head(queue)
        /\ queue' = Tail(queue) /\ in_song' = in_song
    BY <1>1 DEF TakeSong
  <2>2. Head(queue) \in Entry /\ Tail(queue) \in Seq(Entry) /\ queue = <<Head(queue)>> \o Tail(queue)
    BY <1>0, <2>1
  <2>3. Due' = P \o <<Head(queue)>> \o Tail(queue) \o R
    BY <1>f, <1>p, <2>1, <2>2
  <2>4. Due = P \o <<>> \o queue \o R
    BY <1>d, <1>p, <2>1
  <2>5. P \o <<>> \o queue = P \o queue
    BY <1>0, ConcatEmptySeq
  <2>6. P \o <<Head(queue)>> \o Tail(queue) = P \o (<<Head(queue)>> \o Tail(queue))
    BY <1>0, <2>2
  <2>7. Due' = Due
    BY <2>2, <2>3, <2>4, <2>5, <2>6
  <2>8. UNCHANGED Over
    BY <2>1 DEF Over
  <2> QED
    BY <1>u, <1>w, <1>s, <2>7, <2>8, NothingDue
<1>2. CASE SetNowPlaying
  <2> DEFINE X == queue \o R
  <2>1. moving \in Entry /\ ~in_song /\ playing' = moving /\ moving' = None /\ queue' = queue
        /\ in_song' = TRUE
    BY <1>2, <1>t DEF SetNowPlaying, IInv, ListInv
  <2>2. X \in Seq(Entry) /\ <<moving>> \o X \in Seq(Entry)
    BY <1>0, <2>1, ConcatProperties
  <2>3. /\ <<moving>> \o <<>> \o queue \o R = <<moving>> \o X
        /\ <<>> \o <<moving>> \o queue \o R = <<moving>> \o X
        /\ \A e \in Entry : <<e>> \o <<moving>> \o queue \o R = <<e>> \o (<<moving>> \o X)
    <3>1. <<moving>> \o <<>> \o queue \o R = <<moving>> \o X
      BY <1>0, <2>1
    <3>2. <<>> \o <<moving>> \o queue \o R = <<moving>> \o X
      BY <1>0, <2>1
    <3>3. ASSUME NEW e \in Entry
          PROVE  <<e>> \o <<moving>> \o queue \o R = <<e>> \o (<<moving>> \o X)
      BY <1>0, <2>1
    <3> QED
      BY <3>1, <3>2, <3>3
  <2> HIDE DEF X
  <2>4. Due' = <<moving>> \o X
    BY <1>f, <1>p, <2>1, <2>3
  <2>5. Over' = FALSE
    BY <2>1 DEF Over
  <2>6. CASE playing = None
    <3>1. Due' = Due
      BY <1>d, <1>p, <2>1, <2>3, <2>4, <2>6
    <3>2. UNCHANGED Over
      BY <2>5, <2>6 DEF Over
    <3> QED
      BY <1>u, <1>w, <1>s, <3>1, <3>2, NothingDue
  <2>7. CASE playing # None
    <3>1. Due = <<playing>> \o (<<moving>> \o X) /\ playing \in Entry
      BY <1>d, <1>p, <1>t, <2>1, <2>3, <2>7
    <3>2. Due' = Tail(Due)
      BY <2>2, <2>4, <3>1, AllButFirst
    <3>3. Over
      BY <2>1, <2>7 DEF Over
    <3> QED
      BY <1>c, <2>5, <3>2, <3>3 DEF Memory!Advance, Over
  <2> QED
    BY <2>6, <2>7
<1>3. CASE PlayOn
  <2> DEFINE X == queue \o R
  <2>1. PICK p \in 0..MaxPosition : playing' = [playing EXCEPT !.position = p]
    BY <1>3 DEF PlayOn
  <2>2. playing \in Entry /\ moving = None /\ moving' = None /\ queue' = queue /\ in_song /\ in_song'
    BY <1>3, <1>t DEF PlayOn, IInv, ListInv
  <2>3. X \in Seq(Entry)
    BY <1>0, ConcatProperties
  <2>4. \A e \in Entry : <<e>> \o <<>> \o queue \o R = <<e>> \o X
    BY <1>0
  <2> HIDE DEF X
  <2>5. playing' \in Entry /\ playing'.song = playing.song
    BY <2>1, <2>2 DEF Entry
  <2>6. Due = <<playing>> \o X /\ Due' = <<playing'>> \o X
    BY <1>d, <1>f, <1>p, <2>2, <2>4, <2>5
  <2>7. Due # <<>> /\ Head(Due) = playing /\ Tail(Due) = X
    BY <2>2, <2>3, <2>6, AllButFirst
  <2>8. ~Over /\ UNCHANGED Over
    BY <2>2 DEF Over
  <2> QED
    BY <1>c, <2>5, <2>6, <2>7, <2>8 DEF Memory!Change, Over
<1>6. CASE SongOver
  <2> DEFINE X == queue \o R
  <2>1. playing \in Entry /\ moving = None /\ UNCHANGED <<playing, moving, queue>> /\ in_song /\ ~in_song'
    BY <1>6, <1>t DEF SongOver, IInv, ListInv
  <2>2. X \in Seq(Entry)
    BY <1>0, ConcatProperties
  <2>3. <<playing>> \o <<>> \o queue \o R = <<playing>> \o X
    BY <1>0, <2>1
  <2> HIDE DEF X
  <2>4. Due = <<playing>> \o X /\ Due' = Due
    BY <1>d, <1>f, <1>p, <2>1, <2>3
  <2>5. Due # <<>>
    BY <2>1, <2>2, <2>4, AllButFirst
  <2>6. ~Over /\ Over' = TRUE
    BY <1>o, <2>1 DEF Over
  <2> QED
    BY <1>c, <2>4, <2>5, <2>6 DEF Memory!Finish, Over
<1>4. CASE AddSong
  <2>1. PICK s \in Known : queue' = Append(queue, [song |-> s, position |-> 0])
    BY <1>4 DEF AddSong
  <2> DEFINE e == [song |-> s, position |-> 0]
             X == P \o M
  <2>2. e \in Entry
    BY StateFileAssumption DEF Entry, Songs
  <2>3. R = <<>>
    <3>1. raw_songs = <<>> /\ current_song \in Nat
      BY <1>4 DEF AddSong, IInv, ListInv, TypeOK
    <3>2. Todo = <<>>
      BY <3>1, SubSeqEmpty, EmptySeq DEF Todo
    <3> QED
      BY <3>2, KnownEmpty DEF R
  <2>4. One(playing') = P /\ One(moving') = M /\ UNCHANGED Over
    BY <1>4 DEF AddSong, One, Over
  <2>5. X \in Seq(Entry)
    BY <1>0, ConcatProperties
  <2>6. Due = X \o queue \o <<>> /\ Due' = X \o Append(queue, e) \o <<>>
    BY <1>d, <1>f, <2>1, <2>3, <2>4
  <2> HIDE DEF e, X
  <2>7. X \o Append(queue, e) \o <<>> = Append(X \o queue \o <<>>, e)
    BY <1>0, <2>2, <2>5
  <2>8. Due' = Append(Due, e)
    BY <2>6, <2>7
  <2> QED
    BY <1>c, <2>2, <2>4, <2>8 DEF Memory!Change, Over
<1>5. CASE do_delete
  <2>1. PICK i \in DOMAIN queue : queue' = RemoveAt(queue, i)
    BY <1>5 DEF do_delete
  <2> DEFINE X == P \o M
  <2>2. One(playing') = P /\ One(moving') = M /\ UNCHANGED Over
    BY <1>5 DEF do_delete, One, Over
  <2>3. X \in Seq(Entry) /\ Len(X) \in Nat /\ (Over => Len(X) # 0)
    <3>1. X \in Seq(Entry) /\ Len(X) = Len(P) + Len(M) /\ Len(P) \in Nat /\ Len(M) \in Nat
      BY <1>0, ConcatProperties, LenProperties
    <3>2. Over => Len(P) = 1
      BY <1>p, <1>t DEF Over
    <3> QED
      BY <3>1, <3>2
  <2>4. Due = (X \o queue) \o R /\ Due' = (X \o RemoveAt(queue, i)) \o R
    BY <1>d, <1>f, <2>1, <2>2
  <2> HIDE DEF X
  <2>5. OneRemoved(Due, Due', Len(X))
    <3>1. i \in 1..Len(queue)
      BY <1>0, <2>1, LenProperties
    <3> QED
      BY <1>0, <2>3, <2>4, <3>1, RemoveInside, Zenon
  <2>6. PICK j \in DOMAIN Due : Len(X) < j /\ Due' = RemoveAt(Due, j)
    BY <2>5 DEF OneRemoved
  <2>7. j \in Nat
    BY <1>0, LenProperties
  <2>8. Over => j > 1
    BY <2>3, <2>6, <2>7
  <2> QED
    BY <1>c, <2>2, <2>6, <2>8 DEF Memory!Change, Memory!RemoveAt, RemoveAt, Over
<1> QED
  BY <1>1, <1>2, <1>3, <1>4, <1>5, <1>6

(* Cancelled threads and changes of the screen do not touch the playlist.  *)
LEMMA OthersRefine ==
  ASSUME HolderCancelled \/ ChangeScreen \/ UNCHANGED vars
  PROVE  UNCHANGED Memory!vars
<1>1. UNCHANGED <<file, raw_songs, current_song, lists, setup, saver, main>>
  BY DEF HolderCancelled, ChangeScreen, vars, state_info, lists, threads
<1>2. UNCHANGED Due
  BY <1>1, DueSame DEF Early
<1>3. UNCHANGED BeingWritten
  BY <1>1 DEF BeingWritten
<1>4. UNCHANGED Over
  BY <1>1 DEF Over, lists
<1> QED
  BY <1>1, <1>2, <1>3, <1>4, NothingDue

(* The next start finds what was due, or what a cut text has of it if the  *)
(* file was being written.                                                 *)
LEMMA RestartRefines ==
  ASSUME IInv, IInv', Restart
  PROVE  Memory!Restart
<1>1. Due' = KnownOf(file'.songs)
  <2>1. Early'
    BY DEF Restart, Early
  <2> QED
    BY <2>1, DueNext
<1>2. ~BeingWritten'
  BY DEF Restart, BeingWritten
<1>3. Saved' = Due'
  BY <1>1, <1>2, DueNext
<1>o. Over' = FALSE
  BY DEF Restart, Over
<1>4. CASE BeingWritten
  <2>1. file' \in CutFiles(Content) /\ Content \in Files
    BY <1>4, ContentType DEF Restart, IInv
  <2>2. Due' \in Memory!CutsOf(KnownOf(Content.songs))
    BY <1>1, <2>1, KnownCut
  <2>3. KnownOf(Content.songs) = Due \/ KnownOf(Content.songs) = Memory!WithoutNext(Due)
    BY <1>4, ContentIsDue
  <2>4. Due' \in Memory!CutsOf(Due) \cup Memory!CutsOf(Memory!WithoutNext(Due))
    BY <2>2, <2>3
  <2> QED
    BY <1>2, <1>3, <1>4, <1>o, <2>4 DEF Memory!Restart, Restart, Saved, Over
<1>5. CASE ~BeingWritten
  <2>1. Due' = KnownOf(file.songs)
    BY <1>1, <1>5 DEF Restart
  <2> QED
    BY <1>2, <1>3, <1>5, <1>o, <2>1 DEF Memory!Restart, Restart, Saved, Over
<1> QED
  BY <1>4, <1>5

(* Initially the file holds what is due.                                   *)
LEMMA InitRefines ==
  ASSUME Init, IInv
  PROVE  Memory!Init
<1>1. Due = KnownOf(file.songs) /\ Due \in Seq(Entry)
  <2>1. Early
    BY DEF Init, InSession, Early
  <2> QED
    BY <2>1, DueParts
<1>2. ~BeingWritten /\ setup # "done" /\ playing = None
  BY DEF Init, InSession, BeingWritten
<1> QED
  BY <1>1, <1>2 DEF Memory!Init

(* No restart, no power failure in the middle of a save and no early save  *)
(* changes the order of the playlist, repeats a song but the one that was  *)
(* just over, or moves a position but the last of a cut file:              *)
(* save_state(), load_state(), main() and the players of the list together *)
(* implement SavedPlaylist.                                                *)
THEOREM PlaylistIsRemembered == Spec => MemorySpec
<1>1. IInv /\ Init => Memory!Init
  BY InitRefines
<1>2. IInv /\ IInv' /\ [Next]_vars => [Memory!Next]_(Memory!vars)
  <2> SUFFICES ASSUME IInv, IInv', [Next]_vars PROVE [Memory!Next]_(Memory!vars)
    OBVIOUS
  <2>1. CASE Setup
    BY <2>1, SetupRefines DEF Memory!Next
  <2>2. CASE Saver
    BY <2>2, SaverRefines DEF Memory!Next
  <2>3. CASE Exit \/ Main
    BY <2>3, MainRefines DEF Memory!Next
  <2>4. CASE TakeSong \/ SetNowPlaying \/ PlayOn \/ SongOver \/ AddSong \/ do_delete
    BY <2>4, ListsRefine DEF Memory!Next
  <2>5. CASE HolderCancelled \/ ChangeScreen \/ UNCHANGED vars
    BY <2>5, OthersRefine
  <2>6. CASE Restart
    BY <2>6, RestartRefines DEF Memory!Next
  <2> QED
    BY <2>1, <2>2, <2>3, <2>4, <2>5, <2>6 DEF Next
<1> QED
  BY <1>1, <1>2, InvariantHolds, PTL DEF Spec, MemorySpec, Memory!Spec
=============================================================================
