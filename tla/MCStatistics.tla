---------------------------- MODULE MCStatistics ----------------------------
(* An instance of Statistics for TLC.                                        *)
EXTENDS Statistics

\* One song never heard of, one with a play and a rating.
MCInitialFiles ==
  {<<NoFile, [play_count |-> 1, skip_count |-> 0, repeat_counter |-> 1, manual_rating |-> 8]>>}
MCBiases == {5, 8}
MCAmounts == {-1, 10}
=============================================================================
