----------------------------- MODULE MCPlayback -----------------------------
(***************************************************************************)
(* Instances of Playback for TLC.                                          *)
(***************************************************************************)
EXTENDS Playback

(* Frames the byte limit of the instance fills with one, or never.         *)
MCFrameSizes == {1, 4}
MCPauseAndPlay == {"PAUSE", "PLAY"}
=============================================================================
