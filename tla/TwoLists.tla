------------------------------ MODULE TwoLists ------------------------------
(***************************************************************************)
(* What the playlist and the list of past songs are to a user: two         *)
(* sequences, each with a selected place.  Deleting, rating and editing    *)
(* mean the song at that place.                                            *)
(***************************************************************************)
EXTENDS Integers, Sequences, SequencesExt

CONSTANTS Song, PastLimit, WantedSize, None

VARIABLES playlist, past, now, place, chosen
vars == <<playlist, past, now, place, chosen>>

Lists == {"playlist", "past"}
InList(l) == IF l = "playlist" THEN playlist ELSE past

Init ==
  /\ playlist = <<>> /\ past = <<>> /\ now = None
  /\ place = [l \in Lists |-> 1]
  /\ chosen = None

Append1 ==
  /\ \E s \in Song : playlist' = Append(playlist, s)
  /\ UNCHANGED <<past, now, place, chosen>>

Take ==
  /\ playlist # <<>> /\ now = None
  /\ now' = Head(playlist) /\ playlist' = Tail(playlist)
  /\ UNCHANGED <<past, place, chosen>>

Finish ==
  /\ now # None
  /\ past' = SubSeq(<<now>> \o past, 1, IF Len(past) < PastLimit THEN Len(past) + 1 ELSE PastLimit)
  /\ now' = None
  /\ UNCHANGED <<playlist, place, chosen>>

\* The lists shrink under the selection; no key leads from inside a list, or the size
\* the playlist should have, to a place outside, or from outside farther away.  An empty
\* list has a first place, and none.
Sizes(l) == {1, Len(InList(l))} \cup (IF l = "playlist" THEN {WantedSize} ELSE {})
Move == \E l \in Lists :
  /\ place'[l] \in UNION {0..n : n \in Sizes(l) \cup {place[l] - 1}} /\ place' = [place EXCEPT ![l] = place'[l]]
  /\ UNCHANGED <<playlist, past, now, chosen>>

Delete ==
  /\ place["playlist"] \in DOMAIN playlist
  /\ playlist' = RemoveAt(playlist, place["playlist"])
  /\ UNCHANGED <<past, now, place, chosen>>

\* The selected song; the first one when the selection has been lost.
Choose1 == \E l \in Lists :
  /\ InList(l) # <<>>
  /\ IF place[l] = 0 THEN chosen' = Head(InList(l))
     ELSE place[l] \in DOMAIN InList(l) /\ chosen' = InList(l)[place[l]]
  /\ UNCHANGED <<playlist, past, now, place>>

ChooseNow == chosen' = now /\ UNCHANGED <<playlist, past, now, place>>

Next == Append1 \/ Take \/ Finish \/ Move \/ Delete \/ Choose1 \/ ChooseNow
Spec == Init /\ [][Next]_vars
=============================================================================
