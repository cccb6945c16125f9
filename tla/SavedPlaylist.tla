---------------------------- MODULE SavedPlaylist ----------------------------
(***************************************************************************)
(* What a listener is promised about the playlist and its file: the songs  *)
(* come back after a restart in the order they had, each once and at the   *)
(* position it had reached.  A song that is over stays first until the     *)
(* next one begins, and comes back as well.  What may be missing is the    *)
(* end of the list: after a crash in the middle of a save, which may also  *)
(* cut the position of the last song, and after a save that came while the *)
(* list was still being restored.                                          *)
(***************************************************************************)
EXTENDS Sequences, SequencesExt, Naturals

CONSTANT Entry    \* a song and a position in it

VARIABLES
  list,      \* what would be played after a restart, the current song first
  saved,     \* what the file holds, or will hold when it is written
  over,      \* is the first song of the list over?
  starting,  \* is the list still being restored?
  writing

vars == <<list, saved, over, starting, writing>>

BeginningsOf(s) == {SubSeq(s, 1, n) : n \in 0..Len(s)}
\* A beginning may end in an entry with only the first digits of its position.
CutsOf(s) ==
  BeginningsOf(s)
  \cup UNION {{Append(SubSeq(s, 1, n - 1), e) :
                e \in {e \in Entry : e.song = s[n].song /\ e.position <= s[n].position}} :
                n \in 1..Len(s)}
\* Quitting at the moment a song is taken over forgets that song.
WithoutNext(s) == IF over THEN SubSeq(s, 1, 1) \o SubSeq(s, 3, Len(s)) ELSE SubSeq(s, 2, Len(s))

Init == list \in Seq(Entry) /\ saved = list /\ over = FALSE /\ starting = TRUE /\ writing = FALSE

\* main() writes without the locks of the lists: what it will write changes with them.
Lists == saved' = (IF writing THEN list' ELSE saved) /\ UNCHANGED <<starting, writing>>

Change == Lists /\ UNCHANGED over /\
  \/ \E e \in Entry : list' = Append(list, e)
  \/ /\ list # <<>> /\ ~over
     /\ \E e \in Entry : e.song = Head(list).song /\ list' = <<e>> \o Tail(list)
  \/ \E i \in DOMAIN list : (over => i > 1) /\ list' = RemoveAt(list, i)

Finish == list # <<>> /\ ~over /\ over' = TRUE /\ UNCHANGED list /\ Lists
Advance == over /\ over' = FALSE /\ list' = Tail(list) /\ Lists

Restored == starting /\ starting' = FALSE /\ UNCHANGED <<list, saved, over, writing>>

\* What is saved is the whole list, but an early save makes its end be forgotten.
BeginSave ==
  /\ ~writing /\ writing' = TRUE
  /\ IF starting THEN list' \in BeginningsOf(list) ELSE UNCHANGED list
  /\ saved' = list'
  /\ UNCHANGED <<over, starting>>

EndSave ==
  /\ writing /\ writing' = FALSE
  /\ IF starting THEN list' \in BeginningsOf(list) ELSE UNCHANGED list
  /\ saved' \in {list, WithoutNext(list)}
  /\ UNCHANGED <<over, starting>>

\* A crash, or the next start after an exit.
Restart ==
  /\ saved' \in IF writing THEN CutsOf(saved) \cup CutsOf(WithoutNext(saved)) ELSE {saved}
  /\ list' = saved'
  /\ over' = FALSE /\ starting' = TRUE /\ writing' = FALSE

Next == Change \/ Finish \/ Advance \/ Restored \/ BeginSave \/ EndSave \/ Restart
Spec == Init /\ [][Next]_vars
=============================================================================
