---------------------------- MODULE MCDecoders ----------------------------
(***************************************************************************)
(* Songs for module Decoders: one to five frames, of one size and of       *)
(* several, with and without a tag in front of them, a damaged frame, tags *)
(* with a length that is cut off, longer, wrong or none, and names that do *)
(* not fit what is in the file.  44.1 kHz becomes three samples in two     *)
(* units of time and a frame takes 8/3 units, so that neither the rate nor *)
(* the frames are whole units.                                             *)
(***************************************************************************)
EXTENDS Decoders

File(type, bytes) ==
  [ext |-> type, content |-> type, head |-> 0, bytes |-> bytes, bad |-> {},
   tags |-> <<>>]
Tag(k, v) == [key |-> k, value |-> v]
Lengths(values) == {<<>>} \cup {<<Tag("artist", 1), Tag(NoTag, 0), Tag("length", v)>> : v \in values}

\* Four frames take 32/3 units of time, 10 when cut off.  A resume can leave out a frame of the
\* first songs, and seek outside of the one of five frames.
MCFiles ==
  UNION {{[File(type, <<5, 5, 5, 5>>) EXCEPT !.bad = bad, !.tags = tags] :
           bad \in {{}, {2}}, tags \in Lengths({10, 11, 8, 0})} : type \in Known}
  \cup {File("mp3", <<3, 3, 3, 3, 3>>), File("mp3", <<2>>), File("mp3", <<>>),
        File("mp3", <<3, 1, 1, 1>>), File("mp3", <<1, 1, 1, 3>>),
        [File("mp3", <<2, 2, 2>>) EXCEPT !.head = 3],
        [File("mp3", <<2, 2, 2>>) EXCEPT !.tags = <<Tag("duration", 4)>>],
        [File("mp3", <<2, 2, 2>>) EXCEPT !.ext = "ogg"],
        [File("ogg", <<2, 2, 2>>) EXCEPT !.ext = "mp3"],
        [File("flac", <<2, 2, 2>>) EXCEPT !.ext = "unknown"],
        File("unknown", <<2>>)}

MCInfos == {NoTag, <<Tag("length", 4), Tag("duration", 11)>>, <<Tag("length", 2)>>}

\* Fixed-point samples of libmad, and 16-bit ones.
MCSamples ==
  {-ONE - 1, 1 - ONE, -12288, -4097, 0, 4095, 4096, 20000, 32767, ONE - 4097, ONE - 1, ONE + 5000}
=============================================================================
