----------------------------- MODULE MCStateFile -----------------------------
(* An instance of StateFile for TLC.                                         *)
EXTENDS StateFile

\* A state file with a song that has been removed since, in front of one that was
\* being played; and a file that was cut behind its first song.  Files with two songs
\* of the database are written by the first start and read by the second.
At(s, p) == [song |-> s, position |-> p]
MCFiles(a, gone) ==
  {[songs |-> <<At(gone, 1), At(a, 2)>>, screen |-> Normal, torn |-> FALSE],
   [songs |-> <<At(a, 1)>>, screen |-> Normal, torn |-> TRUE]}
CONSTANTS a, b, gone
MCInitialFiles == MCFiles(a, gone)
=============================================================================
