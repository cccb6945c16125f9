----------------------------- MODULE SongLists -----------------------------
(***************************************************************************)
(* The playlist and the past list as the linked lists they are, and the    *)
(* selection the user moves over them (playlist_queue_song, get_next_song_ *)
(* info, done_with_song_info, do_delete, do_remove_playlist_entry,         *)
(* do_arrow, do_tab, and the loops that look up the selected entry).       *)
(*                                                                         *)
(* A list is used with its lock held from beginning to end, so a function  *)
(* is an action.                                                           *)
(***************************************************************************)
EXTENDS Integers, Sequences, SequencesExt

CONSTANTS
  Song,
  Cells,        \* addresses malloc() returns
  None,         \* NULL
  PastLimit,    \* past_queue.wanted_size
  WantedSize,   \* song_queue.wanted_size, once start-up has set it
  PageHeight,   \* lines of the list on the screen
  MaxList       \* bound: songs in the playlist

ASSUME SongListsAssumption ==
  /\ None \notin Song /\ None \notin Cells
  /\ PastLimit \in Nat \ {0}
  /\ WantedSize \in Nat /\ PageHeight \in Nat /\ MaxList \in Nat

VARIABLES
  cell,       \* the allocated entries: song_info and next
  list,       \* song_queue and past_queue: head, tail, size, selected
  wanted_size,
  now,        \* player_info.song
  focus,      \* display_info.focus
  empeg,      \* which build this is
  chosen,     \* the song last rated or edited
  crashed     \* a NULL entry was used

vars == <<cell, list, wanted_size, now, focus, empeg, chosen, crashed>>

Lists == {"playlist", "past"}
EmptyList == [head |-> None, tail |-> None, size |-> 0, selected |-> 0]

Init ==
  /\ cell = <<>>
  /\ list = [l \in Lists |-> EmptyList]
  /\ wanted_size = 0
  /\ now = None
  /\ focus = "now_playing"
  /\ empeg \in BOOLEAN
  /\ chosen = None
  /\ crashed = FALSE

------------------------------------------------------------------------------
NextOf(c) == IF c = None THEN None ELSE cell[c].next

\* Following next n times.
After(c, n) == LET f[i \in 0..n] == IF i = 0 THEN c ELSE NextOf(f[i - 1]) IN f[n]
Entry(l, n) == After(list[l].head, n)

Fresh == CHOOSE c \in Cells : c \notin DOMAIN cell
CanAllocate == Cells \ DOMAIN cell # {}
With(c, s, next) == [x \in DOMAIN cell \cup {c} |-> IF x = c THEN [song |-> s, next |-> next] ELSE cell[x]]
Without(cells, gone) == [x \in DOMAIN cells \ gone |-> cells[x]]

LinkTo(cells, from, to) ==
  IF from = None THEN cells ELSE [cells EXCEPT ![from].next = to]

playlist_queue_song(s) ==
  /\ ~crashed /\ CanAllocate /\ list["playlist"].size < MaxList
  /\ LET c == Fresh IN
       /\ cell' = LinkTo(With(c, s, None), list["playlist"].tail, c)
       /\ list' = [list EXCEPT !["playlist"].head = IF @ = None THEN c ELSE @,
                               !["playlist"].tail = c,
                               !["playlist"].size = @ + 1]
  /\ UNCHANGED <<wanted_size, now, focus, empeg, chosen, crashed>>

TailAfterTake(l) == IF l.head = l.tail THEN None ELSE l.tail

get_next_song_info ==
  /\ ~crashed /\ now = None /\ list["playlist"].size > 0
  /\ LET l == list["playlist"] IN
       /\ now' = cell[l.head].song
       /\ list' = [list EXCEPT !["playlist"] =
                     [@ EXCEPT !.head = IF l.head = l.tail THEN None ELSE NextOf(l.head),
                               !.tail = TailAfterTake(l),
                               !.size = l.size - 1]]
       /\ cell' = Without(cell, {l.head})
  /\ UNCHANGED <<wanted_size, focus, empeg, chosen, crashed>>

\* Mutant: the entries behind the cut are not freed.
FreedNothing(c) == {}
\* free() of an entry and all that follow it.
FreedFrom(c) == {After(c, n) : n \in 0..PastLimit} \ {None}

\* The new head is the entry of the song; behind the limit the list is cut.
done_with_song_info ==
  /\ ~crashed /\ now # None /\ CanAllocate
  /\ LET c == Fresh
         l == list["past"]
         too_long == l.size + 1 > PastLimit
         last == IF PastLimit = 1 THEN c ELSE After(l.head, PastLimit - 2)
         rest == After(l.head, PastLimit - 1)
     IN /\ cell' = IF too_long
                   THEN Without([With(c, now, l.head) EXCEPT ![last].next = None], FreedFrom(rest))
                   ELSE With(c, now, l.head)
        /\ list' = [list EXCEPT !["past"] =
                      [@ EXCEPT !.head = c,
                                !.tail = IF too_long THEN last ELSE IF l.tail = None THEN c ELSE l.tail,
                                !.size = IF too_long THEN PastLimit ELSE l.size + 1]]
  /\ now' = None
  /\ UNCHANGED <<wanted_size, focus, empeg, chosen, crashed>>

\* setup_database() lets the playlist grow.
SetWantedSize ==
  /\ wanted_size' = WantedSize
  /\ UNCHANGED <<cell, list, now, focus, empeg, chosen, crashed>>

------------------------------------------------------------------------------
\* The selected entry of the playlist is taken out: do_delete() and, on the empeg,
\* do_remove_playlist_entry().
Removed(n) ==
  LET l == list["playlist"]
      entry == Entry("playlist", n)
      before == IF n = 0 THEN None ELSE Entry("playlist", n - 1)
  IN  /\ cell' = Without(LinkTo(cell, before, NextOf(entry)), {entry})
      /\ list' = [list EXCEPT !["playlist"] =
                    [@ EXCEPT !.head = IF entry = l.head THEN NextOf(entry) ELSE l.head,
                              !.tail = IF entry = l.tail THEN before ELSE l.tail,
                              !.size = l.size - 1]]

do_delete ==
  /\ ~crashed /\ ~empeg /\ focus = "playlist"
  /\ list["playlist"].selected < list["playlist"].size /\ list["playlist"].selected >= 0
  /\ Removed(list["playlist"].selected)
  /\ UNCHANGED <<wanted_size, now, focus, empeg, chosen, crashed>>

do_remove_playlist_entry ==
  /\ ~crashed /\ empeg
  /\ list["playlist"].selected < list["playlist"].size
  /\ Removed(list["playlist"].selected)
  /\ UNCHANGED <<wanted_size, now, focus, empeg, chosen, crashed>>

\* Mutant: the loop runs once too often.
LookupOneTooFar(l) == Entry(l, list[l].selected + 1)
\* Mutant: the loop stops one entry too early.
LookupOneShort(l) == Entry(l, IF list[l].selected < 1 THEN 0 ELSE list[l].selected - 1)
\* The loop of do_song_rating_adjust() and do_edit_command().
Lookup(l) == Entry(l, IF list[l].selected < 0 THEN 0 ELSE list[l].selected)

ChooseSelected(l) ==
  /\ ~crashed /\ ~empeg /\ focus = l
  /\ list[l].selected < list[l].size
  /\ IF Lookup(l) = None THEN crashed' = TRUE /\ UNCHANGED chosen
                         ELSE chosen' = cell[Lookup(l)].song /\ UNCHANGED crashed
  /\ UNCHANGED <<cell, list, wanted_size, now, focus, empeg>>

ChooseNow ==
  /\ ~crashed /\ (empeg \/ focus = "now_playing")
  /\ chosen' = now
  /\ UNCHANGED <<cell, list, wanted_size, now, focus, empeg, crashed>>

\* do_arrow(): the playlist may be selected up to the size it should have.
MaxSize(l) ==
  IF l = "playlist" /\ wanted_size > list[l].size THEN wanted_size ELSE list[l].size

Targets(l) ==
  {list[l].selected + delta : delta \in {-1, 1, -(PageHeight \div 2), PageHeight \div 2}}
    \cup {0, MaxSize(l) - 1}

Inside(l, i) == IF i < 0 THEN 0 ELSE IF i >= MaxSize(l) THEN MaxSize(l) - 1 ELSE i

do_arrow(l) ==
  /\ ~crashed /\ ~empeg /\ focus = l
  /\ \E i \in Targets(l) : list' = [list EXCEPT ![l].selected = Inside(l, i)]
  /\ UNCHANGED <<cell, wanted_size, now, focus, empeg, chosen, crashed>>

\* LEFT and RIGHT on the empeg's playlist.
KnobLeft ==
  /\ ~crashed /\ empeg /\ list["playlist"].selected > 0
  /\ list' = [list EXCEPT !["playlist"].selected = @ - 1]
  /\ UNCHANGED <<cell, wanted_size, now, focus, empeg, chosen, crashed>>

KnobRight ==
  /\ ~crashed /\ empeg /\ list["playlist"].selected < list["playlist"].size - 1
  /\ list' = [list EXCEPT !["playlist"].selected = @ + 1]
  /\ UNCHANGED <<cell, wanted_size, now, focus, empeg, chosen, crashed>>

do_tab ==
  /\ ~crashed /\ ~empeg
  /\ focus' = CASE focus = "now_playing" -> "playlist"
                [] focus = "playlist" -> "past"
                [] focus = "past" -> "now_playing"
  /\ UNCHANGED <<cell, list, wanted_size, now, empeg, chosen, crashed>>

Next ==
  \/ \E s \in Song : playlist_queue_song(s)
  \/ get_next_song_info \/ done_with_song_info \/ SetWantedSize
  \/ do_delete \/ do_remove_playlist_entry
  \/ \E l \in Lists : ChooseSelected(l) \/ do_arrow(l)
  \/ ChooseNow \/ KnobLeft \/ KnobRight \/ do_tab

Spec == Init /\ [][Next]_vars

------------------------------------------------------------------------------
\* Every variable has its type; a selection lies between -1 and the end of what the
\* list holds or should hold.
TypeOK ==
  /\ DOMAIN cell \subseteq Cells
  /\ \A c \in DOMAIN cell : cell[c] \in [song: Song, next: Cells \cup {None}]
  /\ list \in [Lists -> [head: Cells \cup {None}, tail: Cells \cup {None}, size: Nat, selected: Int]]
  /\ \A l \in Lists : list[l].selected \in -1..MaxList + WantedSize + PastLimit
  /\ wanted_size \in {0, WantedSize}
  /\ now \in Song \cup {None} /\ chosen \in Song \cup {None}
  /\ focus \in {"now_playing", "playlist", "past"}
  /\ empeg \in BOOLEAN /\ crashed \in BOOLEAN

Chain(l) == {Entry(l, n) : n \in 0..list[l].size - 1}

\* Through any deletions, takes and cuts, each list has exactly size entries, tail is
\* the last of them, every entry malloc() returned is in one list or freed, and no
\* entry is in two.
WellLinked ==
  /\ \A l \in Lists :
       /\ Chain(l) \subseteq DOMAIN cell
       /\ Entry(l, list[l].size) = None
       /\ list[l].tail = IF list[l].size = 0 THEN None ELSE Entry(l, list[l].size - 1)
  /\ DOMAIN cell = Chain("playlist") \cup Chain("past")
  /\ Chain("playlist") \cap Chain("past") = {}

\* Rating and editing use a NULL entry in one situation only: the arrow keys have
\* moved the selection of an empty list.
CrashOnlyOnEmptyList ==
  crashed => \E l \in Lists : focus = l /\ list[l].size = 0 /\ list[l].selected = -1

SongsOf(l) == [i \in 1..list[l].size |-> cell[Entry(l, i - 1)].song]

\* The linked lists are the sequences a user sees, what is deleted, rated or edited is
\* the song at the selected place, and no key moves the selection out of a list.
SeenLists == INSTANCE TwoLists WITH
  playlist <- SongsOf("playlist"), past <- SongsOf("past"),
  place <- [l \in Lists |-> list[l].selected + 1]
ListsSpec == SeenLists!Spec
=============================================================================
