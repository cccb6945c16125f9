---------------------------- MODULE MCAudioOut ----------------------------
(***************************************************************************)
(* Frames for module AudioOut: of one or two samples with zeros anywhere,  *)
(* as long as the ring, and longer.                                        *)
(***************************************************************************)
EXTENDS AudioOut

Even(n, zero) == [i \in 1..n |-> zero]
MCFrames ==
  [1..4 -> BOOLEAN]
  \cup {[i \in 1..8 |-> i \in zeros] : zeros \in SUBSET {1, 2, 7, 8}}
  \cup {Even(4 * SPECTRUM_RING_SIZE, z) : z \in BOOLEAN}
  \cup {Even(4 * SPECTRUM_RING_SIZE + 4, z) : z \in BOOLEAN}
=============================================================================
