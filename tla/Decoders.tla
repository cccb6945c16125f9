------------------------------ MODULE Decoders ------------------------------
(***************************************************************************)
(* The decoders as the rest of squash uses them (play_mp3.c, play_ogg.c,   *)
(* play_flac.c): a song is loaded into the playlist, opened at the         *)
(* position the state file remembers, decoded frame by frame, stopped,     *)
(* closed at its end, and resumed after the program was quit in between.   *)
(*                                                                         *)
(* libmad, vorbisfile and libFLAC are external: a frame is decoded,        *)
(* damaged, or beyond what the library can go on from.  A file is a row of *)
(* frames of FrameSamples samples; an mp3 stream is at a byte of the file, *)
(* an ogg or flac stream at a sample.  Which thread calls what, and when,  *)
(* is the subject of module Playback.                                      *)
(***************************************************************************)
EXTENDS Integers, Sequences

CONSTANTS
  Files,          \* the songs: see FileType
  Infos,          \* .info files there may be at the beginning
  NoTag,          \* no length in the song's metadata
  NoData,         \* NULL, for a decoder's private data
  Milli,          \* units of time in a second: 1000
  Rate,           \* samples in a second
  FrameSamples,   \* samples in a frame
  MAD_F_FRACBITS, \* bits behind the point of a libmad sample
  Samples,        \* libmad samples, tried as the first of a frame
  USE_MAGIC       \* whether the build looks into files it cannot tell by name

VARIABLES
  file,              \* the song's file; it does not change
  info,              \* the tags in its .info file, NoTag if there is none
  song_type, play_length,
  data,              \* the open decoder's stream: where it is and its clock, in 1/(Rate * Milli) s
  held,              \* memory, files and library objects the decoder holds
  frame,             \* the frame decode_frame() last returned
  current_position,  \* of player_info, and of the state file
  heard,             \* history: end of the last frame that was decoded
  skipped,           \* history: frames not yet heard that the last resume left out
  status             \* "running", or how the program ended

vars == <<file, info, song_type, play_length, data, held, frame, current_position, heard, skipped, status>>

Known == {"mp3", "ogg", "flac"}
Types == Known \cup {"unknown"}
Keys == {"duration", "length", "artist"}
Tags == Seq([key : Keys \cup {NoTag}, value : Int])
FileType ==
  [ext : Types, content : Types,
   head : Nat,                 \* bytes in front of the first frame: an ID3v2 tag
   bytes : Seq(Nat \ {0}),     \* bytes of each frame
   bad : SUBSET Nat,           \* frames whose data is damaged, not their header
   tags : Tags]                \* in the file; NoTag is a comment without "="

ASSUME DecodersAssumption ==
  /\ Files \subseteq FileType /\ Infos \subseteq Tags \cup {NoTag} /\ NoTag \notin Keys
  /\ NoData \notin [at : Int, timer : Int]
  /\ {Milli, Rate, FrameSamples} \subseteq Nat \ {0}
  \* A frame of an mp3 takes two units of time at least; the shortest takes 8 ms.
  /\ \A f \in Files : "mp3" \in {f.ext, f.content} => FrameSamples * Milli >= 2 * Rate
  /\ MAD_F_FRACBITS \in Nat /\ MAD_F_FRACBITS > 16
  /\ Samples \subseteq Int /\ USE_MAGIC \in BOOLEAN

Count == Len(file.bytes)
Start[k \in 1..(Count + 1)] == IF k = 1 THEN file.head ELSE Start[k - 1] + file.bytes[k - 1]
Size == Start[Count + 1]
FrameTime == (FrameSamples * Milli) \div Rate
Total == Count * FrameSamples
TimeOf(sample) == (sample * Milli) \div Rate
Length == TimeOf(Total)

-----------------------------------------------------------------------------
\* Opening and closing.  A file that has gone cannot be opened, nor an ogg or a flac that is none;
\* for an mp3 it is enough that libmad finds a frame.
mp3_open == {"struct", "file", "mapping", "mad"}
ogg_open == {"struct", "file", "vorbis"}
flac_open == {"struct", "flac"}
opened(type) == CASE type = "mp3" -> mp3_open [] type = "ogg" -> ogg_open [] type = "flac" -> flac_open
CanOpen(type) == IF type = "mp3" THEN Count > 0 ELSE type = file.content

mp3_close_keeps_pcm(resources) == resources \ {"struct", "file", "mapping", "mad"}  \* Mutant
mp3_close(resources) == resources \ {"struct", "file", "mapping", "mad", "pcm"}
\* ov_clear() closes the file too.
ogg_close(resources) == resources \ {"struct", "file", "vorbis"}
flac_close(resources) == resources \ {"struct", "flac", "pcm"}
closed(type, resources) ==
  CASE type = "mp3" -> mp3_close(resources) [] type = "ogg" -> ogg_close(resources)
    [] type = "flac" -> flac_close(resources)

-----------------------------------------------------------------------------
\* Loading a song into the playlist: its type by its name, in some builds by its first bytes; ...
get_song_type ==
  IF file.ext = "unknown" /\ USE_MAGIC THEN file.content ELSE file.ext

\* ... its tags, from the .info file or else from the song (ID3 has no name for a "duration"); ...
TagsOf(tags, keys) ==
  LET found[n \in 0..Len(tags)] ==
        IF n = 0 THEN <<>>
        ELSE IF tags[n].key \in keys THEN Append(found[n - 1], tags[n]) ELSE found[n - 1]
  IN  found[Len(tags)]
mp3_load_meta == TagsOf(file.tags, Keys \ {"duration"})
ogg_load_meta == IF file.content = "ogg" THEN TagsOf(file.tags, Keys) ELSE <<>>
flac_metadata_callback_load_meta == TagsOf(file.tags, Keys)
\* The copy of a comment without "=" is never freed.
LostComment == IF \E n \in DOMAIN file.tags : file.tags[n].key = NoTag THEN {"comment"} ELSE {}
flac_load_meta == IF file.content = "flac" THEN flac_metadata_callback_load_meta ELSE <<>>
load_meta_data(type) ==
  IF info # NoTag THEN info
  ELSE CASE type = "mp3" -> mp3_load_meta [] type = "ogg" -> ogg_load_meta
         [] type = "flac" -> flac_load_meta [] type = "unknown" -> <<>>

\* and what was read from the song is saved, key by key (db_saveinfo and not db_overwriteinfo, the
\* defaults); ...
Values(tags, key) == TagsOf(tags, {key})
save_meta_data(tags) == Values(tags, "artist") \o Values(tags, "length") \o Values(tags, "duration")

\* ... and its length: the first value of "duration", else of "length", else what the file has.
LengthTags(tags) == IF Values(tags, "duration") # <<>> THEN Values(tags, "duration")
                                                      ELSE Values(tags, "length")

\* mad_header_decode() until the end of the file: a frame whose data is damaged has a header too.
\* libmad adds exactly; the sum is rounded down.
mp3_calc_duration == (Total * Milli) \div Rate
ogg_calc_duration == TimeOf(Total)
flac_calc_duration == (Total * Milli) \div Rate
calc_duration(type) ==
  CASE type = "mp3" -> mp3_calc_duration [] type = "ogg" -> ogg_calc_duration
    [] type = "flac" -> flac_calc_duration

NotLoaded == "not loaded"
NoLength == -1
ensure_song_fully_loaded ==
  /\ status = "running" /\ song_type = NotLoaded
  /\ song_type' = get_song_type
  /\ info' = IF info = NoTag /\ song_type' \in Known THEN save_meta_data(load_meta_data(song_type'))
                                                    ELSE info
  /\ LET tags == LengthTags(load_meta_data(song_type'))
         lost == IF info = NoTag /\ song_type' = "flac" /\ file.content = "flac" THEN LostComment ELSE {}
     IN
       \/ /\ tags # <<>>
          /\ play_length' = tags[1].value
          /\ held' = held \cup lost
          /\ UNCHANGED status
       \/ /\ tags = <<>> /\ song_type' = "unknown"
          /\ UNCHANGED <<play_length, held, status>>
       \/ /\ tags = <<>> /\ song_type' \in Known /\ CanOpen(song_type')
          /\ play_length' = calc_duration(song_type')
          /\ held' = closed(song_type', (held \cup lost) \cup opened(song_type'))
          /\ UNCHANGED status
       \/ /\ tags = <<>> /\ song_type' \in Known
          /\ status' = "error"
          /\ UNCHANGED <<play_length, held>>
  /\ UNCHANGED <<file, data, frame, current_position, heard, skipped>>

-----------------------------------------------------------------------------
\* Seeking.  mp3_seek() estimates the byte from the time; the fraction of the time is lost.
mp3_seek_keeps_clock(d, seek_time, duration) ==                   \* Mutant
  IF duration <= 0 /\ seek_time # 0 THEN d
  ELSE [at |-> IF seek_time = 0 THEN 0 ELSE (Size * seek_time) \div duration, timer |-> d.timer]
mp3_seek_rounds_up(d, seek_time, duration) ==                     \* Mutant
  IF duration <= 0 /\ seek_time # 0 THEN d
  ELSE [at |-> IF seek_time = 0 THEN 0 ELSE (Size * seek_time) \div duration + 1, timer |-> seek_time * Rate]
mp3_seek(d, seek_time, duration) ==
  IF duration <= 0 /\ seek_time # 0 THEN d
  ELSE [at |-> IF seek_time = 0 THEN 0 ELSE (Size * seek_time) \div duration, timer |-> seek_time * Rate]

\* ov_time_seek() refuses a time behind the end.
ogg_seek_rounds_up(d, seek_time) ==                               \* Mutant
  IF seek_time > TimeOf(Total) THEN d
  ELSE [at |-> (seek_time * Rate) \div Milli + 1, timer |-> 0]
ogg_seek(d, seek_time) ==
  IF seek_time > TimeOf(Total) THEN d
  ELSE [at |-> (seek_time * Rate) \div Milli, timer |-> 0]

\* The rate is divided first, so the sample is early; libFLAC refuses a sample behind the end.
flac_seek(d, seek_time) ==
  LET sample == seek_time * (Rate \div Milli) IN
  IF sample > Total THEN d ELSE [at |-> sample, timer |-> 0]

seek(d, seek_time) ==
  CASE song_type = "mp3"  -> mp3_seek(d, seek_time, play_length)
    [] song_type = "ogg"  -> ogg_seek(d, seek_time)
    [] song_type = "flac" -> flac_seek(d, seek_time)

NoFrame == [pcm_size |-> 0, position |-> 0, sample |-> <<>>]

\* History: the frames behind what was heard that begin before the place of the stream.
LeftOut(at) ==
  {k \in 1..Count : LET begin == IF song_type = "mp3" THEN Start[k] ELSE (k - 1) * FrameSamples
                    IN  heard <= begin /\ begin < at}

\* The player opens a song and seeks to where it is to start.
open ==
  /\ status = "running" /\ data = NoData
  /\ song_type \in Known
  /\ \/ /\ CanOpen(song_type)
        /\ held' = held \cup opened(song_type)
        /\ data' = seek([at |-> 0, timer |-> 0], current_position)
        /\ skipped' = LeftOut(data'.at)
        /\ UNCHANGED status
     \/ status' = "error" /\ UNCHANGED <<data, held, skipped>>
  /\ UNCHANGED <<file, info, song_type, play_length, frame, current_position, heard>>

-----------------------------------------------------------------------------
\* Samples.  A libmad sample is rounded to 16 bits and clipped ...
PowerOf2[n \in 0..MAD_F_FRACBITS] == IF n = 0 THEN 1 ELSE 2 * PowerOf2[n - 1]
ONE == PowerOf2[MAD_F_FRACBITS]
Clip(f) == IF f >= ONE THEN ONE - 1 ELSE IF f < -ONE THEN -ONE ELSE f
TruncatesSample(f) == Clip(f) \div PowerOf2[MAD_F_FRACBITS - 15]   \* Mutant
mad_to_16bit(f) ==
  Clip(f + PowerOf2[MAD_F_FRACBITS - 16]) \div PowerOf2[MAD_F_FRACBITS - 15]

\* ... and stored low byte first.  The write callback for flac has && where it needs &.
LittleEndian(s) == <<s % 256, (s \div 256) % 256>>
flac_write_callback(s) == <<IF s = 0 THEN 0 ELSE 1, (s \div 256) % 256>>
Pcm(s) ==
  CASE song_type = "mp3"  -> LittleEndian(mad_to_16bit(s))
    [] song_type = "ogg"  -> LittleEndian(s)
    [] song_type = "flac" -> flac_write_callback(s)

\* What the sound device makes of two bytes.
Signed(b) == LET u == b[1] + 256 * b[2] IN IF u < 32768 THEN u ELSE u - 65536

SampleRange == {s \in Samples : song_type = "mp3" \/ (-32768 <= s /\ s <= 32767)}

\* The frame the library decodes next: libmad's synchronises with the next header at or behind the
\* stream, the others begin inside a frame.
NextFrame ==
  LET ahead == {k \in 1..Count : IF song_type = "mp3" THEN Start[k] >= data.at
                                                     ELSE k * FrameSamples > data.at}
  IN  IF ahead = {} THEN Count + 1 ELSE CHOOSE k \in ahead : \A j \in ahead : k <= j

\* decode_frame(): the stream behind frame k, and the frame returned.  Damaged data is a recoverable
\* error in an mp3, OV_HOLE (less than -1) in an ogg, and a frame like any other in a flac, where
\* flac_error_callback() ignores it.
mp3_decode_frame(k) ==
  LET good == k \notin file.bad
      clock == IF good THEN data.timer + FrameSamples * Milli ELSE data.timer
  IN  [at |-> Start[k + 1], timer |-> clock, pcm_size |-> IF good THEN 2 ELSE -1,
       position |-> clock \div Rate]
ogg_decode_frame(k) ==
  [at |-> k * FrameSamples, timer |-> 0, pcm_size |-> IF k \in file.bad THEN -3 ELSE 2,
   position |-> TimeOf(k * FrameSamples)]
flac_decode_frame(k) ==
  [at |-> k * FrameSamples, timer |-> 0, pcm_size |-> 2, position |-> TimeOf(data.at)]
decoded(k) ==
  CASE song_type = "mp3" -> mp3_decode_frame(k) [] song_type = "ogg" -> ogg_decode_frame(k)
    [] song_type = "flac" -> flac_decode_frame(k)

Opened == status = "running" /\ data # NoData
\* pcm_size 0 and less than -1 make the frame_decoder close the song.
Playing == Opened /\ frame.pcm_size > -2
Outside == song_type = "mp3" /\ data.at > Size

decode_frame(s) ==
  /\ Playing /\ ~Outside
  /\ LET k == NextFrame
         result == decoded(k)
     IN  /\ k <= Count
         /\ data' = [at |-> result.at, timer |-> result.timer]
         /\ frame' = [pcm_size |-> result.pcm_size, position |-> result.position,
                      sample |-> IF k \in file.bad THEN <<>> ELSE <<s, Pcm(s)>>]
         /\ held' = IF result.pcm_size > 0 /\ song_type # "ogg" THEN held \cup {"pcm"} ELSE held
         /\ current_position' = IF result.pcm_size > 0 THEN result.position ELSE current_position
         /\ heard' = result.at
  /\ UNCHANGED <<file, info, song_type, play_length, skipped, status>>

\* Out of memory, say: libmad cannot recover; libFLAC's errors end the program.
FatalError ==
  /\ Playing /\ song_type \in {"mp3", "flac"}
  /\ IF song_type = "mp3" THEN frame' = [NoFrame EXCEPT !.pcm_size = -2] /\ UNCHANGED status
                          ELSE status' = "error" /\ UNCHANGED frame
  /\ UNCHANGED <<file, info, song_type, play_length, data, held, current_position, heard, skipped>>

\* Decoding from behind the mapped file.
ReadOutside ==
  /\ Playing /\ Outside
  /\ status' = "crashed"
  /\ UNCHANGED <<file, info, song_type, play_length, data, held, frame, current_position, heard, skipped>>

\* The frame_decoder closes the song.
close ==
  /\ Opened /\ ~Outside
  /\ NextFrame > Count \/ frame.pcm_size <= -2
  /\ held' = closed(song_type, held)
  /\ data' = NoData /\ frame' = NoFrame
  /\ current_position' = 0 /\ heard' = 0
  /\ UNCHANGED <<file, info, song_type, play_length, skipped, status>>

\* CMD_STOP
Stop ==
  /\ Playing
  /\ data' = seek(data, 0)
  /\ current_position' = 0 /\ heard' = 0 /\ frame' = NoFrame
  /\ UNCHANGED <<file, info, song_type, play_length, held, skipped, status>>

\* The program is quit and started again: the state file keeps the position, the database starts
\* with nothing known of the song.
Quit ==
  /\ status = "running" /\ song_type # NotLoaded
  /\ data' = NoData /\ frame' = NoFrame /\ held' = {}
  /\ song_type' = NotLoaded /\ play_length' = NoLength
  /\ UNCHANGED <<file, info, current_position, heard, skipped, status>>

Init ==
  /\ file \in Files /\ info \in Infos
  /\ song_type = NotLoaded /\ play_length = NoLength
  /\ data = NoData /\ held = {} /\ frame = NoFrame
  /\ current_position = 0 /\ heard = 0 /\ skipped = {}
  /\ status = "running"

Next ==
  \/ ensure_song_fully_loaded \/ open
  \/ \E s \in SampleRange : decode_frame(s)
  \/ FatalError \/ ReadOutside \/ close \/ Stop \/ Quit

Spec == Init /\ [][Next]_vars

-----------------------------------------------------------------------------
\* Every variable has its type.
TypeOK ==
  /\ file \in Files /\ info \in Tags \cup {NoTag}
  /\ song_type \in Types \cup {NotLoaded} /\ play_length \in Int
  /\ data \in [at : Nat, timer : Nat] \cup {NoData}
  /\ held \subseteq {"struct", "file", "mapping", "mad", "vorbis", "flac", "pcm", "comment"}
  /\ frame.pcm_size \in {-3, -2, -1, 0, 2} /\ {frame.position, current_position, heard} \subseteq Nat
  /\ skipped \subseteq Nat /\ status \in {"running", "error", "crashed"}

IsMp3 == get_song_type = "mp3"

\* Mp3 files whose frames have one size, with nothing in front of them: the byte of a time can be told
\* if the length is known.
Even == file.head = 0 /\ \A i, j \in 1..Count : file.bytes[i] = file.bytes[j]
FrameBytes == IF Count = 0 THEN 0 ELSE file.bytes[1]

\* The length ensure_song_fully_loaded() finds for an mp3; that it gives the song all the time it
\* takes, or none.
Duration ==
  LET tags == LengthTags(load_meta_data(get_song_type)) IN IF tags # <<>> THEN tags[1].value ELSE Length
LongEnough == Duration <= 0 \/ Duration * Rate >= Total * Milli

(***************************************************************************)
(* What opening and decoding a song take, closing it gives back: memory,   *)
(* the file, its mapping and the library's objects, whether the song was   *)
(* opened to be played or only for its length, and closed before its first *)
(* frame, at an error or at its end.  All that is lost is the copy of a    *)
(* comment without "=" in a flac.                                          *)
(***************************************************************************)
NothingLeaks ==
  status = "running" /\ data = NoData => held \subseteq (IF song_type = "flac" THEN LostComment ELSE {})

(***************************************************************************)
(* However often an mp3 with frames of one size is quit and resumed,       *)
(* stopped or played to its end, no seek leaves the file that mp3_open()   *)
(* has mapped (play_mp3.c 293-295 does not check), if the known length is  *)
(* not shorter than the song.  The length mp3_calc_duration() finds is     *)
(* shorter, by the fraction it cuts off: with it a seek can leave the      *)
(* file, by a frame at most.                                               *)
(***************************************************************************)
SeekInside ==
  IsMp3 /\ Even =>
    /\ LongEnough => (data # NoData => data.at <= Size) /\ status # "crashed"
    /\ Duration = Length /\ data # NoData => data.at <= Size + FrameBytes

(***************************************************************************)
(* Resuming a song after the program was quit repeats a part of it and     *)
(* leaves out nothing, damaged frames included: ogg_seek() and flac_seek() *)
(* go to a sample that was decoded when the position was saved, and        *)
(* mp3_seek() to such a byte if the known length is not shorter than the   *)
(* song.  With the length mp3_calc_duration() cuts off it can leave out    *)
(* one frame, and no more after any number of resumes.                     *)
(***************************************************************************)
ResumeKeepsPlace ==
  /\ (IsMp3 => Even /\ LongEnough) => skipped = {}
  /\ IsMp3 /\ Even /\ Duration = Length => \A i, j \in skipped : i = j

(***************************************************************************)
(* The position on the display is the place in the song, after any number  *)
(* of seeks: the end of the frame for an ogg, its beginning for a flac,    *)
(* rounded down.  In an mp3 without damaged frames, and with the length    *)
(* mp3_calc_duration() finds or none, the clock, which loses a fraction at *)
(* every resume, does not drift away: it is ahead of the byte by less than *)
(* the time of one byte, and behind it by less than a frame and two units. *)
(***************************************************************************)
PositionTrue ==
  data # NoData /\ frame.pcm_size > 0 =>
    CASE song_type = "mp3"  ->
           Even /\ file.bad = {} /\ (Duration <= 0 \/ Duration = Length) =>
             /\ FrameBytes * (frame.position * Rate) < (data.at + 1) * (FrameSamples * Milli)
             /\ data.at * (FrameSamples * Milli)
                  < FrameBytes * ((frame.position + 2) * Rate + FrameSamples * Milli)
      [] song_type = "ogg"  -> frame.position = TimeOf(data.at)
      [] song_type = "flac" -> /\ frame.position <= TimeOf(data.at)
                               /\ frame.position + FrameTime + 1 >= TimeOf(data.at)

(***************************************************************************)
(* The two bytes of a sample are the 16-bit number nearest to what libmad  *)
(* computed, or the largest or smallest one; for flac, where the low byte  *)
(* is lost, they are off by less than one unit of the high byte.           *)
(***************************************************************************)
Abs(n) == IF n < 0 THEN -n ELSE n
SampleNearest ==
  frame.sample # <<>> =>
    LET f == frame.sample[1]
        v == Signed(frame.sample[2])
        step == PowerOf2[MAD_F_FRACBITS - 15]
    IN  CASE song_type = "mp3"  -> \/ 2 * Abs(v * step - f) <= step
                                   \/ f >= ONE - step /\ v = 32767
                                   \/ f < -ONE /\ v = -32768
          [] song_type = "ogg"  -> v = f
          [] song_type = "flac" -> Abs(v - f) < 256
=============================================================================
