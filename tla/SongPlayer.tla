----------------------------- MODULE SongPlayer -----------------------------
(***************************************************************************)
(* What a listener is promised: songs are played one after the other, and  *)
(* the frames of a song are heard in order, from the position the song     *)
(* starts at, none left out, none repeated and none of another song in     *)
(* between.  Buffering, threads and decoders do not exist at this level.   *)
(***************************************************************************)
EXTENDS Naturals

CONSTANT StartPositions     (* where a song may start: 0, or the position  *)
                            (* a state file was saved at                   *)

VARIABLES song,             (* how many songs were started                 *)
          playing,          (* a song is being played                      *)
          heard             (* position of the last frame of it that was   *)
                            (* taken off the buffer                        *)

playVars == <<song, playing, heard>>

Init == song = 0 /\ playing = FALSE /\ heard = 0

StartNext ==
  /\ ~playing
  /\ playing' = TRUE
  /\ song' = song + 1
  /\ heard' \in StartPositions

HearFrame ==
  /\ playing
  /\ heard' = heard + 1
  /\ UNCHANGED <<song, playing>>

Finish ==
  /\ playing
  /\ playing' = FALSE
  /\ UNCHANGED <<song, heard>>

Next == StartNext \/ HearFrame \/ Finish

Spec == Init /\ [][Next]_playVars

=============================================================================
