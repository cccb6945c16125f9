--------------------------- MODULE PlaybackProofs ---------------------------
(***************************************************************************)
(* Theorems about Playback, for every size of the buffer, every set of     *)
(* commands, songs of any length and any number of them.                   *)
(***************************************************************************)
EXTENDS Playback, WellFoundedInduction, TLAPS

(* frame_decoder() tests for room before it lets go of frame_buffer.lock;  *)
(* only the player touches the buffer until it stores the frame, and the   *)
(* player only shortens it.                                                *)
RoomWhileDecoding ==
  /\ Len(frames) <= PLAYER_MAX_BUFFER_SIZE
  /\ decoder_pc \in {"run", "push"} => Len(frames) < PLAYER_MAX_BUFFER_SIZE

(* The decoder in use is older than one that waits to be taken over, so    *)
(* closing the one leaves the other open.                                  *)
Handover == new_file => decoder < decoder_data

IInv == TypeOK /\ RoomWhileDecoding /\ NoUseAfterClose /\ Handover

(* Size facts used everywhere: the frames the model builds are frames.     *)
LEMMA FrameFacts ==
  /\ NoFrame \in Frame
  /\ \A frame \in Frame : frame.song \in Nat /\ frame.pcm_size \in Int /\ frame.position \in Nat
<1>1. Sizes \subseteq Int
  BY BufferAssumption DEF Sizes
<1>2. NoFrame \in Frame
  BY DEF NoFrame, Frame, Sizes
<1> QED
  BY <1>1, <1>2 DEF Frame

(* The inductive invariant holds before any thread has run.                *)
LEMMA InitIInv == Init => IInv
<1> SUFFICES ASSUME Init PROVE IInv
  OBVIOUS
<1>1. Mailbox!TypeOK
  BY DEF Init, Mailbox!Init, Mailbox!TypeOK
<1>2. BufferTypeOK
  <2>1. frames = <<>> /\ pcm_size = 0 /\ song_eof = FALSE /\ new_file = FALSE /\ decoder_data = 0
    BY DEF Init, BufferInit
  <2>2. frames \in Seq(Frame)
    BY <2>1
  <2>3. pcm_size \in Int /\ decoder_data \in Nat
    BY <2>1
  <2>4. song_eof \in BOOLEAN /\ new_file \in BOOLEAN
    BY <2>1
  <2> QED
    BY <2>2, <2>3, <2>4 DEF BufferTypeOK
<1>6. InfoTypeOK
  BY DEF Init, InfoTypeOK
<1>7. QueueTypeOK
  BY DEF Init, QueueTypeOK
<1>3. PlayerTypeOK
  BY FrameFacts DEF Init, PlayerTypeOK
<1>4. DecoderTypeOK
  BY DEF Init, BufferInit, DecoderTypeOK, Open
<1>5. RoomWhileDecoding /\ NoUseAfterClose /\ Handover
  BY BufferAssumption DEF Init, BufferInit, RoomWhileDecoding, NoUseAfterClose, Handover
<1> QED
  BY <1>1, <1>2, <1>3, <1>4, <1>5, <1>6, <1>7 DEF IInv, TypeOK

(* Parts of the invariant that a step leaves alone.                        *)
LEMMA Unchanged ==
  /\ Mailbox!TypeOK /\ UNCHANGED commandVars => Mailbox!TypeOK'
  /\ BufferTypeOK /\ UNCHANGED bufferVars => BufferTypeOK'
  /\ InfoTypeOK /\ UNCHANGED infoVars => InfoTypeOK'
  /\ PlayerTypeOK /\ UNCHANGED playerVars => PlayerTypeOK'
  /\ DecoderTypeOK /\ UNCHANGED <<decoderVars, offset, decoder_data>> => DecoderTypeOK'
  /\ QueueTypeOK /\ UNCHANGED <<queueVars, crashed>> => QueueTypeOK'
  /\ RoomWhileDecoding /\ UNCHANGED <<frames, decoder_pc>> => RoomWhileDecoding'
  /\ NoUseAfterClose /\ UNCHANGED <<decoder, offset, new_file, decoder_data>> => NoUseAfterClose'
  /\ Handover /\ UNCHANGED <<decoder, new_file, decoder_data>> => Handover'
<1>1. Mailbox!TypeOK /\ UNCHANGED commandVars => Mailbox!TypeOK'
  BY DEF Mailbox!TypeOK, commandVars
<1>2. BufferTypeOK /\ UNCHANGED bufferVars => BufferTypeOK'
  BY DEF BufferTypeOK, bufferVars
<1>3. InfoTypeOK /\ UNCHANGED infoVars => InfoTypeOK'
  BY DEF InfoTypeOK, infoVars
<1>4. PlayerTypeOK /\ UNCHANGED playerVars => PlayerTypeOK'
  BY DEF PlayerTypeOK, playerVars
<1>5. DecoderTypeOK /\ UNCHANGED <<decoderVars, offset, decoder_data>> => DecoderTypeOK'
  BY DEF DecoderTypeOK, decoderVars, Open
<1>6. QueueTypeOK /\ UNCHANGED <<queueVars, crashed>> => QueueTypeOK'
  BY DEF QueueTypeOK, queueVars
<1>7. RoomWhileDecoding /\ UNCHANGED <<frames, decoder_pc>> => RoomWhileDecoding'
  BY DEF RoomWhileDecoding
<1>8. NoUseAfterClose /\ UNCHANGED <<decoder, offset, new_file, decoder_data>> => NoUseAfterClose'
  BY DEF NoUseAfterClose, Open
<1>9. Handover /\ UNCHANGED <<decoder, new_file, decoder_data>> => Handover'
  BY DEF Handover
<1> QED
  BY <1>1, <1>2, <1>3, <1>4, <1>5, <1>6, <1>7, <1>8, <1>9

(* Queueing a command changes the mailbox and may wake the player.         *)
LEMMA QueueStep ==
  ASSUME IInv, NEW command \in AllCommands, Mailbox!Queue(command),
         player_pc' = AfterChanged,
         UNCHANGED <<bufferVars, infoVars, play_state, cur_frame, need_more, heard,
                     decoderVars, queued, offset, crashed>>,
         loaded' \in BOOLEAN
  PROVE  IInv'
<1> USE DEF IInv, TypeOK
<1>1. Mailbox!TypeOK'
  BY DEF Mailbox!TypeOK, Mailbox!Queue
<1>2. PlayerTypeOK'
  BY DEF PlayerTypeOK, AfterChanged, Woken
<1>3. QueueTypeOK'
  BY DEF QueueTypeOK
<1> QED
  BY <1>1, <1>2, <1>3, Unchanged DEF bufferVars, decoderVars

(* Taking a command empties the mailbox.                                   *)
LEMMA TakeStep == Mailbox!Take => Mailbox!TypeOK'
  BY DEF Mailbox!Take, Mailbox!TypeOK

(* A skip empties the buffer, and leaves the decoders alone.               *)
LEMMA SkipStep == IInv /\ SkipCommand => IInv'
<1> SUFFICES ASSUME IInv, SkipCommand PROVE IInv'
  OBVIOUS
<1> USE DEF IInv, TypeOK
<1>1. BufferTypeOK'
  <2>1. song_eof' \in BOOLEAN /\ new_file' \in BOOLEAN
    BY DEF SkipCommand, BufferTypeOK
  <2>2. frames' \in Seq(Frame) /\ pcm_size' \in Int /\ decoder_data' \in Nat
    BY DEF SkipCommand, BufferTypeOK, EmptyBuffer
  <2> QED
    BY <2>1, <2>2 DEF BufferTypeOK
<1>2. InfoTypeOK'
  BY DEF SkipCommand, InfoTypeOK
<1>3. PlayerTypeOK'
  BY DEF SkipCommand, SleepOrPlay, PlayerTypeOK
<1>4. QueueTypeOK'
  BY DEF SkipCommand, queueVars, QueueTypeOK
<1>5. RoomWhileDecoding'
  BY BufferAssumption DEF SkipCommand, EmptyBuffer, decoderVars, RoomWhileDecoding
<1> QED
  BY <1>1, <1>2, <1>3, <1>4, <1>5, Unchanged, TakeStep DEF SkipCommand, decoderVars

(* A stop empties the buffer and rewinds a decoder, but closes none.       *)
LEMMA StopStep == IInv /\ StopCommand => IInv'
<1> SUFFICES ASSUME IInv, StopCommand PROVE IInv'
  OBVIOUS
<1> USE DEF IInv, TypeOK
<1>1. BufferTypeOK'
  <2>1. song_eof' \in BOOLEAN /\ new_file' \in BOOLEAN
    BY DEF StopCommand, BufferTypeOK
  <2>2. frames' \in Seq(Frame) /\ pcm_size' \in Int /\ decoder_data' \in Nat
    BY DEF StopCommand, BufferTypeOK, EmptyBuffer
  <2> QED
    BY <2>1, <2>2 DEF BufferTypeOK
<1>9. current_position' \in Nat /\ heard' \in Nat
  <2>1. CASE play_state = "IN_SONG"
    BY <2>1 DEF StopCommand
  <2>2. CASE play_state # "IN_SONG"
    BY <2>2 DEF StopCommand, InfoTypeOK, PlayerTypeOK
  <2> QED
    BY <2>1, <2>2
<1>2. InfoTypeOK'
  <2>1. state' = "STOP" /\ UNCHANGED <<device, past, play_count, skip_count>>
    BY DEF StopCommand
  <2> QED
    BY <1>9, <2>1 DEF InfoTypeOK
<1>3. PlayerTypeOK'
  <2>1. UNCHANGED <<play_state, cur_frame, need_more>> /\ player_pc' \in {"paused", "play"}
    BY DEF StopCommand, SleepOrPlay
  <2> QED
    BY <1>9, <2>1 DEF PlayerTypeOK
<1>4. QueueTypeOK'
  BY DEF StopCommand, queueVars, QueueTypeOK, SeekIsUnsafe
<1>5. Open' = Open /\ offset' \in [Open -> Nat]
  <2>1. CASE play_state = "IN_SONG"
    <3>1. offset' = [d \in Open |-> IF d = decoder_data THEN 0 ELSE offset[d]]
      BY <2>1 DEF StopCommand
    <3> QED
      BY <3>1 DEF DecoderTypeOK, Open
  <2>2. CASE play_state # "IN_SONG"
    BY <2>2 DEF StopCommand, DecoderTypeOK, Open
  <2> QED
    BY <2>1, <2>2
<1>6. DecoderTypeOK'
  BY <1>5 DEF StopCommand, DecoderTypeOK, AfterRestart, Woken
<1>7. RoomWhileDecoding'
  BY BufferAssumption DEF StopCommand, EmptyBuffer, RoomWhileDecoding
<1>8. NoUseAfterClose' /\ Handover'
  BY <1>5 DEF StopCommand, NoUseAfterClose, Handover
<1> QED
  BY <1>1, <1>2, <1>3, <1>4, <1>6, <1>7, <1>8, TakeStep DEF StopCommand

(* A pause only changes the state of the player.                           *)
LEMMA PauseStep == IInv /\ PauseCommand => IInv'
<1> SUFFICES ASSUME IInv, PauseCommand PROVE IInv'
  OBVIOUS
<1> USE DEF IInv, TypeOK
<1>1. InfoTypeOK'
  BY DEF PauseCommand, InfoTypeOK
<1>2. PlayerTypeOK'
  BY DEF PauseCommand, SleepOrPlay, PlayerTypeOK
<1> QED
  BY <1>1, <1>2, Unchanged, TakeStep DEF PauseCommand, bufferVars, decoderVars

(* A play command changes the state and wakes the decoder to look again.   *)
LEMMA PlayStep == IInv /\ PlayCommand => IInv'
<1> SUFFICES ASSUME IInv, PlayCommand PROVE IInv'
  OBVIOUS
<1> USE DEF IInv, TypeOK
<1>1. InfoTypeOK'
  BY DEF PlayCommand, InfoTypeOK
<1>2. PlayerTypeOK'
  BY DEF PlayCommand, SleepOrPlay, PlayerTypeOK
<1>3. DecoderTypeOK'
  BY DEF PlayCommand, DecoderTypeOK, AfterRestart, Woken, bufferVars, Open
<1>4. RoomWhileDecoding'
  BY DEF PlayCommand, RoomWhileDecoding, AfterRestart, Woken, bufferVars
<1> QED
  BY <1>1, <1>2, <1>3, <1>4, Unchanged, TakeStep DEF PlayCommand, bufferVars

(* Without a command the player only goes on to sleep or to play.          *)
LEMMA NoCommandStep == IInv /\ NoCommandPending => IInv'
<1> SUFFICES ASSUME IInv, NoCommandPending PROVE IInv'
  OBVIOUS
<1> USE DEF IInv, TypeOK
<1>1. PlayerTypeOK'
  BY DEF NoCommandPending, SleepOrPlay, PlayerTypeOK
<1> QED
  BY <1>1, Unchanged DEF NoCommandPending, bufferVars, decoderVars

(* The decoder a song is started with is newer than every open one.        *)
LEMMA StartSongStep ==
  ASSUME IInv, NEW type \in SongTypes, NEW start \in StartPositions, StartSong(type, start)
  PROVE  IInv'
<1> USE DEF IInv, TypeOK
<1>0. start \in Nat
  BY InputAssumption
<1>1. QueueTypeOK'
  BY DEF StartSong, QueueTypeOK
<1>2. CASE type = "unknown"
  <2>1. InfoTypeOK'
    BY <1>0, <1>2 DEF StartSong, InfoTypeOK
  <2>2. PlayerTypeOK'
    BY <1>2 DEF StartSong, PlayerTypeOK
  <2> QED
    BY <1>1, <1>2, <2>1, <2>2, Unchanged DEF StartSong, bufferVars, decoderVars
<1>3. CASE type # "unknown"
  <2>1. BufferTypeOK'
    <3>1. song_eof' \in BOOLEAN /\ new_file' \in BOOLEAN
      BY <1>3 DEF StartSong, BufferTypeOK
    <3>2. frames' \in Seq(Frame) /\ pcm_size' \in Int /\ decoder_data' \in Nat
      BY <1>3 DEF StartSong, BufferTypeOK, EmptyBuffer
    <3> QED
      BY <3>1, <3>2 DEF BufferTypeOK
  <2>2. InfoTypeOK'
    BY <1>0, <1>3 DEF StartSong, InfoTypeOK
  <2>3. PlayerTypeOK'
    BY <1>0, <1>3 DEF StartSong, PlayerTypeOK
  <2>4. decoder_data' = decoder_data + 1 /\ Open' = Open \cup {decoder_data + 1}
    BY <1>3 DEF StartSong, Open
  <2>5. offset' \in [Open' -> Nat]
    BY <1>0, <1>3, <2>4 DEF StartSong, Open, DecoderTypeOK
  <2>6. Open' \subseteq 1..decoder_data'
    BY <2>4 DEF DecoderTypeOK, BufferTypeOK
  <2>7. DecoderTypeOK'
    BY <1>3, <2>5, <2>6 DEF StartSong, DecoderTypeOK, AfterRestart, Woken
  <2>8. RoomWhileDecoding'
    BY <1>3, BufferAssumption DEF StartSong, RoomWhileDecoding, EmptyBuffer
  <2>9. NoUseAfterClose'
    BY <1>3, <2>4 DEF StartSong, NoUseAfterClose
  <2>10. Handover'
    <3>1. decoder < decoder_data + 1
      BY DEF NoUseAfterClose, DecoderTypeOK, BufferTypeOK
    <3> QED
      BY <1>3, <2>4, <3>1 DEF StartSong, Handover
  <2> QED
    BY <1>1, <2>1, <2>2, <2>3, <2>7, <2>8, <2>9, <2>10, Unchanged DEF StartSong
<1> QED
  BY <1>2, <1>3

(* Taking a frame shortens the buffer.                                     *)
LEMMA TakeFrameStep == IInv /\ TakeFrame => IInv'
<1> SUFFICES ASSUME IInv, TakeFrame PROVE IInv'
  OBVIOUS
<1> USE DEF IInv, TypeOK
<1>1. Head(frames) \in Frame /\ Tail(frames) \in Seq(Frame) /\ Len(Tail(frames)) = Len(frames) - 1
  BY DEF TakeFrame, BufferTypeOK
<1>2. frames' = Tail(frames)
  BY DEF TakeFrame, Shift
<1>3. Head(frames).pcm_size \in Int /\ Head(frames).position \in Nat
  BY <1>1, FrameFacts
<1>4. BufferTypeOK'
  <2>1. song_eof' \in BOOLEAN /\ new_file' \in BOOLEAN
    BY DEF TakeFrame, BufferTypeOK
  <2>2. frames' \in Seq(Frame) /\ pcm_size' \in Int /\ decoder_data' \in Nat
    BY <1>1, <1>2, <1>3 DEF TakeFrame, BufferTypeOK
  <2> QED
    BY <2>1, <2>2 DEF BufferTypeOK
<1>5. PlayerTypeOK'
  <2>1. need_more' \in BOOLEAN
    BY DEF TakeFrame, RoomForMore
  <2>2. cur_frame' \in Frame /\ heard' \in Nat
    BY <1>1, <1>3 DEF TakeFrame, PlayerTypeOK
  <2> QED
    BY <2>1, <2>2 DEF TakeFrame, PlayerTypeOK
<1>6. RoomWhileDecoding'
  <2>1. Len(frames') = Len(frames) - 1 /\ Len(frames) \in Nat
    BY <1>1, <1>2 DEF BufferTypeOK
  <2> QED
    BY <2>1, BufferAssumption DEF TakeFrame, RoomWhileDecoding, decoderVars
<1> QED
  BY <1>4, <1>5, <1>6, Unchanged DEF TakeFrame, decoderVars

(* Playing a frame does not touch the buffer or the decoders.              *)
LEMMA PlayFrameStep == IInv /\ PlayFrame => IInv'
<1> SUFFICES ASSUME IInv, PlayFrame PROVE IInv'
  OBVIOUS
<1> USE DEF IInv, TypeOK
<1>1. InfoTypeOK'
  <2>1. current_position' \in Nat
    BY FrameFacts DEF PlayFrame, InfoTypeOK, PlayerTypeOK
  <2>2. play_count' \in Nat
    BY DEF PlayFrame, Credit, InfoTypeOK
  <2> QED
    BY <2>1, <2>2 DEF PlayFrame, InfoTypeOK
<1>2. PlayerTypeOK'
  BY FrameFacts DEF PlayFrame, Credit, PlayerTypeOK
<1>3. DecoderTypeOK'
  BY DEF PlayFrame, DecoderTypeOK, AfterRestart, Woken, bufferVars, Open
<1>4. RoomWhileDecoding'
  BY DEF PlayFrame, RoomWhileDecoding, AfterRestart, Woken, bufferVars
<1> QED
  BY <1>1, <1>2, <1>3, <1>4, Unchanged DEF PlayFrame, bufferVars

(* The player's wait for data wakes the decoder to look again.             *)
LEMMA WaitDataStep == IInv /\ WaitData => IInv'
<1> SUFFICES ASSUME IInv, WaitData PROVE IInv'
  OBVIOUS
<1> USE DEF IInv, TypeOK
<1>1. PlayerTypeOK'
  BY DEF WaitData, PlayerTypeOK
<1>2. DecoderTypeOK'
  BY DEF WaitData, DecoderTypeOK, AfterRestart, Woken, bufferVars, Open
<1>3. RoomWhileDecoding'
  BY DEF WaitData, RoomWhileDecoding, AfterRestart, Woken, bufferVars
<1> QED
  BY <1>1, <1>2, <1>3, Unchanged DEF WaitData, bufferVars

(* The past queue stays a sequence of songs when it is cut.                *)
LEMMA FinishSongStep == IInv /\ FinishSong => IInv'
<1> SUFFICES ASSUME IInv, FinishSong PROVE IInv'
  OBVIOUS
<1> USE DEF IInv, TypeOK
<1>1. InfoTypeOK'
  <2> DEFINE longer == <<decoder_data>> \o past
  <2>1. longer \in Seq(Nat)
    BY DEF InfoTypeOK, BufferTypeOK
  <2>2. \A n \in 0..Len(longer) : SubSeq(longer, 1, n) \in Seq(Nat)
    BY <2>1
  <2>3. past' \in Seq(Nat)
    BY <2>1, <2>2, InputAssumption DEF FinishSong, done_with_song_info
  <2> QED
    BY <2>3 DEF FinishSong, InfoTypeOK
<1>2. PlayerTypeOK'
  BY DEF FinishSong, PlayerTypeOK
<1>3. QueueTypeOK'
  BY DEF FinishSong, QueueTypeOK, queueVars
<1> QED
  BY <1>1, <1>2, <1>3, Unchanged DEF FinishSong, bufferVars, decoderVars

(* A decoder decodes only while it is open, so the position it reaches is  *)
(* a number.                                                               *)
LEMMA DecodeStep == IInv /\ Decode => IInv'
<1> SUFFICES ASSUME IInv, Decode PROVE IInv'
  OBVIOUS
<1> USE DEF IInv, TypeOK
<1>1. RoomWhileDecoding'
  BY DEF Decode, RoomWhileDecoding, bufferVars
<1>2. CASE decoder = 0
  <2>1. DecoderTypeOK'
    BY <1>2 DEF Decode, DecoderTypeOK, Open, bufferVars
  <2> QED
    BY <1>1, <1>2, <2>1, Unchanged DEF Decode, bufferVars
<1>3. CASE decoder # 0
  <2>1. PICK frame \in Decoded(decoder) :
          /\ new_frame' = <<frame>>
          /\ offset' = [offset EXCEPT ![decoder] = frame.position]
    BY <1>3 DEF Decode
  <2>2. offset[decoder] \in Nat
    BY <1>3 DEF NoUseAfterClose, DecoderTypeOK
  <2>3. frame \in Frame /\ frame.position \in Nat
    BY <2>1, <2>2 DEF Decoded, Frame, Sizes, DecoderTypeOK
  <2>4. Open' = Open /\ offset' \in [Open -> Nat]
    BY <2>1, <2>3 DEF Open, DecoderTypeOK
  <2>5. DecoderTypeOK'
    BY <2>1, <2>3, <2>4 DEF Decode, DecoderTypeOK, bufferVars
  <2>6. NoUseAfterClose'
    BY <2>4 DEF Decode, NoUseAfterClose, bufferVars
  <2> QED
    BY <1>1, <2>5, <2>6, Unchanged DEF Decode, bufferVars
<1> QED
  BY <1>2, <1>3

(* The decoder starts to decode only when it has seen room in the buffer.  *)
LEMMA CheckRestartStep == IInv /\ CheckRestart => IInv'
<1> SUFFICES ASSUME IInv, CheckRestart PROVE IInv'
  OBVIOUS
<1> USE DEF IInv, TypeOK
<1>1. DecoderTypeOK'
  BY DEF CheckRestart, DecoderTypeOK, Open, bufferVars
<1>2. RoomWhileDecoding'
  BY DEF CheckRestart, CanDecode, RoomWhileDecoding, bufferVars
<1> QED
  BY <1>1, <1>2, Unchanged DEF CheckRestart, bufferVars

(* The frame is stored where there was room, and closing the old decoder   *)
(* leaves open the one that is taken over.                                 *)
LEMMA PushFrameStep == IInv /\ PushFrame => IInv'
<1> SUFFICES ASSUME IInv, PushFrame PROVE IInv'
  OBVIOUS
<1> USE DEF IInv, TypeOK
<1>1. Len(frames) \in Nat /\ Len(new_frame) \in Nat
      /\ frames \o new_frame \in Seq(Frame)
      /\ Len(frames \o new_frame) = Len(frames) + Len(new_frame)
  BY DEF BufferTypeOK, DecoderTypeOK
<1>2. frames' = frames \o new_frame /\ new_frame' = <<>>
  BY DEF PushFrame
<1>3. BufferTypeOK'
  <2>1. song_eof' \in BOOLEAN
    BY DEF PushFrame
  <2>2. new_file' \in BOOLEAN
    BY DEF PushFrame
  <2>3. pcm_size' \in Int
    <3>1. HaveFrame => new_frame[1] \in Frame
      BY DEF HaveFrame, DecoderTypeOK
    <3> QED
      BY <3>1, FrameFacts DEF PushFrame, BufferTypeOK
  <2>4. frames' \in Seq(Frame) /\ decoder_data' \in Nat
    BY <1>1, <1>2 DEF PushFrame, BufferTypeOK
  <2> QED
    BY <2>1, <2>2, <2>3, <2>4 DEF BufferTypeOK
<1>4. PlayerTypeOK'
  BY DEF PushFrame, PlayerTypeOK, AfterNewData, Woken
<1>5. QueueTypeOK'
  BY DEF PushFrame, QueueTypeOK, queueVars, CopiesFreedSamples
<1>6. /\ Open' = IF ClosesDecoder THEN Open \ {decoder} ELSE Open
      /\ offset' \in [Open' -> Nat]
  BY DEF PushFrame, Open, DecoderTypeOK
<1>7. decoder' \in Nat /\ decoder_data' = decoder_data /\ new_file' = FALSE
  BY DEF PushFrame, NextDecoder, DecoderTypeOK, BufferTypeOK
<1>8. DecoderTypeOK'
  <2>1. Open' \subseteq 1..decoder_data'
    BY <1>6, <1>7 DEF DecoderTypeOK
  <2>2. decoder_pc' \in {"run", "wait"}
    BY DEF PushFrame
  <2> QED
    BY <1>2, <1>6, <1>7, <2>1, <2>2 DEF DecoderTypeOK
<1>9. RoomWhileDecoding'
  <2>1. Len(frames') <= PLAYER_MAX_BUFFER_SIZE
    BY <1>1, <1>2, BufferAssumption DEF PushFrame, RoomWhileDecoding, DecoderTypeOK
  <2>2. decoder_pc' = "run" => Len(frames') < PLAYER_MAX_BUFFER_SIZE
    BY DEF PushFrame, CanDecode
  <2> QED
    BY <2>1, <2>2 DEF RoomWhileDecoding, PushFrame
<1>10. NoUseAfterClose'
  <2>1. CASE new_file
    BY <1>6, <1>7, <2>1 DEF PushFrame, NextDecoder, NoUseAfterClose, Handover,
       BufferTypeOK, DecoderTypeOK
  <2>2. CASE ~new_file
    BY <1>6, <1>7, <2>2 DEF PushFrame, NextDecoder, NoUseAfterClose
  <2> QED
    BY <2>1, <2>2
<1>11. Handover'
  BY <1>7 DEF Handover
<1> QED
  BY <1>3, <1>4, <1>5, <1>8, <1>9, <1>10, <1>11, Unchanged DEF PushFrame

(* The steps of the threads that only queue commands or songs.             *)
LEMMA OtherSteps ==
  IInv /\ (InputStep \/ SupplyStep \/ WaitSong) => IInv'
<1> SUFFICES ASSUME IInv, InputStep \/ SupplyStep \/ WaitSong PROVE IInv'
  OBVIOUS
<1> USE DEF IInv, TypeOK
<1>1. ASSUME NEW command \in Commands, do_set_player_command(command) PROVE IInv'
  <2>1. command \in AllCommands
    BY InputAssumption
  <2> QED
    BY <1>1, <2>1, QueueStep DEF do_set_player_command, queueVars, QueueTypeOK
<1>2. CASE do_toggle_player_command
  <2>1. CASE state = "BIG_STOP"
    <3>1. PlayerTypeOK'
      BY <1>2 DEF do_toggle_player_command, PlayerTypeOK, AfterChanged, Woken
    <3> QED
      BY <1>2, <2>1, <3>1, Unchanged DEF do_toggle_player_command, bufferVars, decoderVars
  <2>2. CASE state # "BIG_STOP"
    <3> DEFINE command == IF state = "PLAY" THEN "PAUSE" ELSE "PLAY"
    <3>1. command \in AllCommands
      BY DEF AllCommands
    <3> QED
      BY <1>2, <2>2, <3>1, QueueStep DEF do_toggle_player_command, queueVars, QueueTypeOK
  <2> QED
    BY <2>1, <2>2
<1>3. CASE do_remove_playlist_entry
  <2>1. QueueTypeOK'
    BY <1>3 DEF do_remove_playlist_entry, QueueTypeOK
  <2> QED
    BY <1>3, <2>1, Unchanged DEF do_remove_playlist_entry, bufferVars, decoderVars
<1>4. CASE setup_database
  <2>1. "PLAY" \in AllCommands
    BY DEF AllCommands
  <2> QED
    BY <1>4, <2>1, QueueStep DEF setup_database
<1>5. CASE playlist_queue_song
  <2>1. QueueTypeOK' /\ PlayerTypeOK'
    BY <1>5 DEF playlist_queue_song, QueueTypeOK, PlayerTypeOK, AfterNotEmpty, Woken
  <2> QED
    BY <1>5, <2>1, Unchanged DEF playlist_queue_song, bufferVars, decoderVars
<1>6. CASE WaitSong
  <2>1. PlayerTypeOK'
    BY <1>6 DEF WaitSong, PlayerTypeOK
  <2> QED
    BY <1>6, <2>1, Unchanged DEF WaitSong, bufferVars, decoderVars
<1> QED
  BY <1>1, <1>2, <1>3, <1>4, <1>5, <1>6 DEF InputStep, SupplyStep

(* The invariant is inductive.                                             *)
LEMMA NextIInv == IInv /\ [Next]_vars => IInv'
<1> SUFFICES ASSUME IInv, [Next]_vars PROVE IInv'
  OBVIOUS
<1>1. CASE PlayerStep
  BY <1>1, NoCommandStep, SkipStep, StopStep, PauseStep, PlayStep, StartSongStep,
     TakeFrameStep, PlayFrameStep, WaitDataStep, FinishSongStep, OtherSteps DEF PlayerStep
<1>2. CASE DecoderStep
  BY <1>2, DecodeStep, PushFrameStep, CheckRestartStep DEF DecoderStep
<1>3. CASE InputStep \/ SupplyStep
  BY <1>3, OtherSteps
<1>4. CASE UNCHANGED vars
  BY <1>4, Unchanged DEF IInv, TypeOK, vars, bufferVars, decoderVars
<1> QED
  BY <1>1, <1>2, <1>3, <1>4 DEF Next

(* The invariant holds in every reachable state.                           *)
LEMMA Invariance == Spec => []IInv
  BY InitIInv, NextIInv, PTL DEF Spec

(* Every variable of the playback core keeps its type.                     *)
THEOREM TypeCorrect == Spec => []TypeOK
<1>1. IInv => TypeOK
  BY DEF IInv
<1> QED
  BY <1>1, Invariance, PTL

(* frame_decoder() never writes past the end of frame_buffer.frames,       *)
(* whatever the size of the array.                                         *)
THEOREM BufferStaysBounded == Spec => []BufferBounded
<1>1. IInv => BufferBounded
  BY DEF IInv, RoomWhileDecoding, BufferBounded
<1> QED
  BY <1>1, Invariance, PTL

(* No decoder is used or closed after it was closed, with any number of    *)
(* songs, skips and stops.                                                 *)
THEOREM NoDecoderUsedAfterClose == Spec => []NoUseAfterClose
<1>1. IInv => NoUseAfterClose
  BY DEF IInv
<1> QED
  BY <1>1, Invariance, PTL

-----------------------------------------------------------------------------
(* Between taking a frame and playing it the player is inside the song: a  *)
(* skip that arrives in the meantime waits for the top of the loop.        *)
CreditInv == CreditedOnce /\ (player_pc = "frame" => play_state = "IN_SONG")

(* The player's steps credit a song only when they leave it.               *)
LEMMA PlayerKeepsCredit == TypeOK /\ CreditInv /\ PlayerStep => CreditInv'
<1> SUFFICES ASSUME TypeOK, CreditInv, PlayerStep PROVE CreditInv'
  OBVIOUS
<1> USE DEF CreditInv, CreditedOnce
<1>0. play_count \in Nat /\ skip_count \in Nat
  BY DEF TypeOK, InfoTypeOK
<1>1. CASE NoCommandPending \/ PauseCommand \/ PlayCommand
  BY <1>1 DEF NoCommandPending, PauseCommand, PlayCommand, SleepOrPlay, infoVars
<1>2. CASE SkipCommand \/ StopCommand
  BY <1>2 DEF SkipCommand, StopCommand, SleepOrPlay
<1>3. CASE WaitSong \/ WaitData
  BY <1>3 DEF WaitSong, WaitData, infoVars
<1>4. CASE TakeFrame
  BY <1>4 DEF TakeFrame, infoVars
<1>5. CASE PlayFrame
  BY <1>0, <1>5 DEF PlayFrame, Credit
<1>6. CASE FinishSong
  BY <1>6 DEF FinishSong
<1>7. ASSUME NEW type \in SongTypes, NEW start \in StartPositions, StartSong(type, start)
      PROVE  CreditInv'
  <2>1. CASE type = "unknown"
    BY <1>7, <2>1 DEF StartSong
  <2>2. CASE type # "unknown"
    BY <1>7, <2>2 DEF StartSong
  <2> QED
    BY <2>1, <2>2
<1> QED
  BY <1>1, <1>2, <1>3, <1>4, <1>5, <1>6, <1>7 DEF PlayerStep

(* What the other threads do to the player: wake it.                       *)
LEMMA OthersOnlyWake ==
  TypeOK /\ (DecoderStep \/ InputStep \/ SupplyStep) =>
    /\ UNCHANGED <<infoVars, play_state, heard, decoder_data>>
    /\ player_pc' = "frame" => player_pc = "frame"
<1> SUFFICES ASSUME TypeOK, DecoderStep \/ InputStep \/ SupplyStep
             PROVE  /\ UNCHANGED <<infoVars, play_state, heard, decoder_data>>
                    /\ player_pc' = "frame" => player_pc = "frame"
  OBVIOUS
<1> USE DEF bufferVars, playerVars, Woken
<1>1. CASE Decode \/ CheckRestart
  BY <1>1 DEF Decode, CheckRestart
<1>2. CASE PushFrame
  BY <1>2 DEF PushFrame, AfterNewData
<1>3. ASSUME NEW command \in Commands, do_set_player_command(command)
      PROVE  /\ UNCHANGED <<infoVars, play_state, heard, decoder_data>>
             /\ player_pc' = "frame" => player_pc = "frame"
  BY <1>3 DEF do_set_player_command, AfterChanged
<1>4. CASE do_toggle_player_command \/ setup_database
  BY <1>4 DEF do_toggle_player_command, setup_database, AfterChanged
<1>5. CASE do_remove_playlist_entry
  BY <1>5 DEF do_remove_playlist_entry
<1>6. CASE playlist_queue_song
  BY <1>6 DEF playlist_queue_song, AfterNotEmpty
<1> QED
  BY <1>1, <1>2, <1>3, <1>4, <1>5, <1>6 DEF DecoderStep, InputStep, SupplyStep

(* The credit invariant holds in every reachable state.                    *)
LEMMA CreditInvariance == Spec => []CreditInv
<1>1. Init => CreditInv
  BY DEF Init, CreditInv, CreditedOnce
<1>2. TypeOK /\ CreditInv /\ [Next]_vars => CreditInv'
  <2> SUFFICES ASSUME TypeOK, CreditInv, [Next]_vars PROVE CreditInv'
    OBVIOUS
  <2>1. CASE DecoderStep \/ InputStep \/ SupplyStep
    BY <2>1, OthersOnlyWake DEF CreditInv, CreditedOnce, infoVars
  <2>2. CASE UNCHANGED vars
    BY <2>2 DEF vars, CreditInv, CreditedOnce, infoVars, playerVars
  <2> QED
    BY <2>1, <2>2, PlayerKeepsCredit DEF Next
<1> QED
  BY <1>1, <1>2, TypeCorrect, PTL DEF Spec

(* A song is credited as played at most once, and only when it is left.    *)
THEOREM SongsCreditedOnce == Spec => []CreditedOnce
<1>1. CreditInv => CreditedOnce
  BY DEF CreditInv
<1> QED
  BY <1>1, CreditInvariance, PTL

-----------------------------------------------------------------------------
(* Before the first song nothing has been played.                          *)
HistoryInv ==
  /\ PastIsHistory
  /\ decoder_data = 0 => play_state = "BEFORE_SONG" /\ past = <<>>

(* The front of a past queue, with a new song before it, is a history.     *)
LEMMA CutHistory ==
  ASSUME NEW old \in Seq(Nat), NEW d \in Nat \ {0}, NEW wanted \in Nat \ {0},
         Len(old) = IF d - 1 < wanted THEN d - 1 ELSE wanted,
         \A i \in DOMAIN old : old[i] = (d - 1) - i + 1,
         NEW n \in Nat, n = IF Len(old) + 1 > wanted THEN wanted ELSE Len(old) + 1
  PROVE  LET cut == SubSeq(<<d>> \o old, 1, n) IN
           /\ Len(cut) = IF d < wanted THEN d ELSE wanted
           /\ \A i \in DOMAIN cut : cut[i] = d - i + 1
<1> DEFINE longer == <<d>> \o old
           cut == SubSeq(longer, 1, n)
<1>1. longer \in Seq(Nat) /\ Len(longer) = Len(old) + 1
  OBVIOUS
<1>2. \A i \in 1..Len(longer) : longer[i] = IF i = 1 THEN d ELSE old[i - 1]
  OBVIOUS
<1>3. n \in 1..Len(longer) /\ n = IF d < wanted THEN d ELSE wanted
  BY <1>1
<1>4. Len(cut) = n /\ DOMAIN cut = 1..n /\ \A i \in 1..n : cut[i] = longer[i]
  BY <1>1, <1>3
<1>5. \A i \in 1..n : longer[i] = d - i + 1
  <2> TAKE i \in 1..n
  <2>1. CASE i = 1
    BY <1>2, <1>3, <2>1
  <2>2. CASE i # 1
    <3>1. i - 1 \in DOMAIN old /\ longer[i] = old[i - 1]
      BY <1>1, <1>2, <1>3, <2>2
    <3> QED
      BY <3>1, <2>2
  <2> QED
    BY <2>1, <2>2
<1> QED
  BY <1>3, <1>4, <1>5

(* The player's steps keep the past queue in line with the songs played.   *)
LEMMA PlayerKeepsHistory == TypeOK /\ CreditInv /\ HistoryInv /\ PlayerStep => HistoryInv'
<1> SUFFICES ASSUME TypeOK, CreditInv, HistoryInv, PlayerStep PROVE HistoryInv'
  OBVIOUS
<1>0. /\ decoder_data \in Nat /\ past \in Seq(Nat)
      /\ play_state \in {"BEFORE_SONG", "IN_SONG", "AFTER_SONG"}
  BY DEF TypeOK, InfoTypeOK, BufferTypeOK, PlayerTypeOK
<1>1. ASSUME ~crashed, UNCHANGED <<decoder_data, past>>,
             (play_state' = "BEFORE_SONG") <=> (play_state = "BEFORE_SONG")
      PROVE  HistoryInv'
  BY <1>1 DEF HistoryInv, PastIsHistory
<1>2. CASE NoCommandPending \/ PauseCommand \/ PlayCommand
  BY <1>1, <1>2 DEF NoCommandPending, PauseCommand, PlayCommand, AtCommand, infoVars, bufferVars
<1>3. CASE SkipCommand \/ StopCommand
  BY <1>1, <1>3 DEF SkipCommand, StopCommand, AtCommand
<1>4. CASE WaitSong \/ WaitData
  BY <1>1, <1>4 DEF WaitSong, WaitData, infoVars, bufferVars
<1>5. CASE TakeFrame
  BY <1>1, <1>5 DEF TakeFrame, infoVars
<1>6. CASE PlayFrame
  BY <1>1, <1>6 DEF PlayFrame, Credit, CreditInv, bufferVars
<1>7. CASE FinishSong
  <2>1. decoder_data # 0 /\ ~crashed /\ play_state = "AFTER_SONG"
    BY <1>7 DEF FinishSong, HistoryInv
  <2>2. decoder_data' = decoder_data /\ play_state' = "BEFORE_SONG"
        /\ past' = done_with_song_info(past) /\ crashed' = (PastWanted = 0)
    BY <1>7 DEF FinishSong, bufferVars
  <2>3. CASE PastWanted = 0
    BY <2>1, <2>2, <2>3 DEF HistoryInv, PastIsHistory
  <2>4. CASE PastWanted # 0
    <3> DEFINE n == IF Len(past) + 1 > PastWanted THEN PastWanted ELSE Len(past) + 1
    <3>1. PastWanted \in Nat \ {0} /\ n \in Nat /\ decoder_data \in Nat \ {0}
      BY <1>0, <2>1, <2>4, InputAssumption
    <3>2. /\ Len(past) = IF decoder_data - 1 < PastWanted THEN decoder_data - 1 ELSE PastWanted
          /\ \A i \in DOMAIN past : past[i] = (decoder_data - 1) - i + 1
      BY <1>0, <2>1, <3>1 DEF HistoryInv, PastIsHistory
    <3>3. past' = SubSeq(<<decoder_data>> \o past, 1, n)
      <4>1. Len(<<decoder_data>> \o past) = Len(past) + 1
        BY <1>0
      <4> QED
        BY <2>2, <4>1, Zenon DEF done_with_song_info
    <3> HIDE DEF n
    <3>4. /\ Len(past') = IF decoder_data < PastWanted THEN decoder_data ELSE PastWanted
          /\ \A i \in DOMAIN past' : past'[i] = decoder_data - i + 1
      BY <1>0, <3>1, <3>2, <3>3, CutHistory DEF n
    <3> QED
      BY <2>1, <2>2, <3>4 DEF HistoryInv, PastIsHistory
  <2> QED
    BY <2>3, <2>4
<1>8. ASSUME NEW type \in SongTypes, NEW start \in StartPositions, StartSong(type, start)
      PROVE  HistoryInv'
  <2>1. CASE type = "unknown"
    BY <1>1, <1>8, <2>1 DEF StartSong, bufferVars
  <2>2. CASE type # "unknown"
    <3>1. ~crashed /\ play_state = "BEFORE_SONG" /\ play_state' = "IN_SONG"
          /\ decoder_data' = decoder_data + 1 /\ past' = past
      BY <1>8, <2>2 DEF StartSong
    <3>2. Len(past) = (IF decoder_data < PastWanted THEN decoder_data ELSE PastWanted)
          /\ \A i \in DOMAIN past : past[i] = decoder_data - i + 1
      <4>1. CASE decoder_data = 0
        BY <4>1, InputAssumption DEF HistoryInv
      <4>2. CASE decoder_data # 0
        BY <1>0, <3>1, <4>2 DEF HistoryInv, PastIsHistory
      <4> QED
        BY <4>1, <4>2
    <3> QED
      BY <1>0, <3>1, <3>2 DEF HistoryInv, PastIsHistory
  <2> QED
    BY <2>1, <2>2
<1> QED
  BY <1>2, <1>3, <1>4, <1>5, <1>6, <1>7, <1>8 DEF PlayerStep

(* The past queue holds the last songs played, newest first, none missing  *)
(* and none twice.                                                         *)
THEOREM PastQueueIsHistory == Spec => []PastIsHistory
<1>1. Init => HistoryInv
  BY DEF Init, BufferInit, HistoryInv, PastIsHistory
<1>2. TypeOK /\ CreditInv /\ HistoryInv /\ [Next]_vars => HistoryInv'
  <2> SUFFICES ASSUME TypeOK, CreditInv, HistoryInv, [Next]_vars PROVE HistoryInv'
    OBVIOUS
  <2>1. CASE DecoderStep \/ InputStep \/ SupplyStep
    <3>1. UNCHANGED <<past, play_state, decoder_data>>
      BY <2>1, OthersOnlyWake DEF infoVars
    <3>2. ~crashed
      BY <2>1 DEF DecoderStep, InputStep, SupplyStep, Decode, PushFrame, CheckRestart,
         do_set_player_command, do_toggle_player_command, do_remove_playlist_entry,
         setup_database, playlist_queue_song
    <3> QED
      BY <3>1, <3>2 DEF HistoryInv, PastIsHistory
  <2>2. CASE UNCHANGED vars
    BY <2>2 DEF vars, HistoryInv, PastIsHistory, infoVars, playerVars, bufferVars
  <2> QED
    BY <2>1, <2>2, PlayerKeepsHistory DEF Next
<1>3. HistoryInv => PastIsHistory
  BY DEF HistoryInv
<1> QED
  BY <1>1, <1>2, <1>3, TypeCorrect, CreditInvariance, PTL DEF Spec

-----------------------------------------------------------------------------
(* The position of a frame that follows a frame at position p: the last    *)
(* frame of a song has that of the one before.                             *)
NextPosition(p, frame) == p + IF EndsSong(frame) THEN 0 ELSE 1

(* A new song finds the buffer empty, and once it is taken over the buffer *)
(* is filled from it or not at all.  A frame waits to be stored only while *)
(* its decoder is in use; with a frame in the buffer, no stop has rewound  *)
(* that decoder since.                                                     *)
SupplyInv ==
  /\ new_file => frames = <<>>
  /\ ~new_file => decoder \in {0, decoder_data}
  /\ new_frame # <<>> => decoder_pc = "push" /\ decoder # 0 /\ new_frame[1].song = decoder
  /\ frames # <<>> /\ new_frame # <<>> => new_frame[1].position = offset[decoder]

(* Behind the last frame of the buffer comes the frame that waits to be    *)
(* stored, or the frame the decoder will decode next; behind the end of a  *)
(* song comes nothing.  Of the first frame nothing is known: it may be     *)
(* left from before a skip or a stop.                                      *)
TailInv ==
  \A i \in 2..Len(frames) :
    /\ EndsSong(frames[i]) => decoder = 0
    /\ i = Len(frames) /\ decoder # 0 =>
         /\ new_frame = <<>> => offset[decoder] = frames[i].position
         /\ new_frame # <<>> =>
              new_frame[1].position = NextPosition(frames[i].position, new_frame[1])

OrderInv == SupplyInv /\ TailInv /\ BufferIsOneSong

(* Steps that leave the buffer and the decoders alone.                     *)
LEMMA OrderUnchanged ==
  OrderInv /\ UNCHANGED <<frames, new_file, decoder_data, decoder, new_frame, offset>>
    /\ (decoder_pc = "push" => decoder_pc' = "push") => OrderInv'
  BY DEF OrderInv, SupplyInv, TailInv, BufferIsOneSong, NextPosition

(* With an empty buffer there is no order to keep.                         *)
LEMMA OrderOfNone ==
  ASSUME frames' = <<>>, SupplyInv'
  PROVE  OrderInv'
<1>1. 2..Len(frames') = {}
  OBVIOUS
<1> QED
  BY <1>1 DEF OrderInv, TailInv, BufferIsOneSong

(* Taking the first frame off the buffer moves the others up.              *)
LEMMA OrderTaken == IInv /\ OrderInv /\ TakeFrame => OrderInv'
<1> SUFFICES ASSUME IInv, OrderInv, TakeFrame PROVE OrderInv'
  OBVIOUS
<1>0. /\ frames \in Seq(Frame) /\ frames # <<>> /\ frames' = Tail(frames)
      /\ UNCHANGED <<new_file, decoder_data, decoder_pc, decoder, new_frame, offset>>
  BY DEF IInv, TypeOK, BufferTypeOK, TakeFrame, Shift, decoderVars
<1>1. /\ Len(frames) \in Nat \ {0} /\ Len(frames') = Len(frames) - 1
      /\ \A i \in 1..Len(frames') : i + 1 \in 1..Len(frames) /\ frames'[i] = frames[i + 1]
  BY <1>0
<1>2. SupplyInv'
  BY <1>0 DEF OrderInv, SupplyInv
<1>3. ASSUME NEW i \in 2..Len(frames')
      PROVE  /\ i + 1 \in 2..Len(frames) /\ i \in 2..Len(frames) /\ i - 1 \in 1..Len(frames')
             /\ frames'[i] = frames[i + 1] /\ frames'[i - 1] = frames[i]
             /\ i = Len(frames') <=> i + 1 = Len(frames)
  BY <1>1
<1>4. TailInv'
  <2> SUFFICES ASSUME NEW i \in 2..Len(frames')
               PROVE  /\ EndsSong(frames'[i]) => decoder = 0
                      /\ i = Len(frames') /\ decoder # 0 =>
                           /\ new_frame = <<>> => offset[decoder] = frames'[i].position
                           /\ new_frame # <<>> =>
                                new_frame[1].position = NextPosition(frames'[i].position, new_frame[1])
    BY <1>0 DEF TailInv, NextPosition, EndsSong
  <2> QED
    BY <1>3 DEF OrderInv, TailInv
<1>5. BufferIsOneSong'
  <2> SUFFICES ASSUME NEW i \in 2..Len(frames')
               PROVE  /\ frames'[i].song = decoder_data
                      /\ i > 2 => frames'[i].position = frames'[i-1].position
                                                        + IF EndsSong(frames'[i]) THEN 0 ELSE 1
                      /\ EndsSong(frames'[i]) => i = Len(frames')
    BY <1>0 DEF BufferIsOneSong, EndsSong
  <2>1. /\ frames[i + 1].song = decoder_data
        /\ frames[i + 1].position = frames[i].position + IF EndsSong(frames[i + 1]) THEN 0 ELSE 1
        /\ EndsSong(frames[i + 1]) => i + 1 = Len(frames)
    <3>1. i + 1 > 2 /\ (i + 1) - 1 = i
      BY <1>3
    <3> QED
      BY <1>3, <3>1 DEF OrderInv, BufferIsOneSong
  <2> QED
    BY <1>3, <2>1
<1> QED
  BY <1>2, <1>4, <1>5 DEF OrderInv

(* The frame decoded is the one after the last frame of the buffer.        *)
LEMMA OrderDecoded == IInv /\ OrderInv /\ Decode => OrderInv'
<1> SUFFICES ASSUME IInv, OrderInv, Decode PROVE OrderInv'
  OBVIOUS
<1>0. /\ UNCHANGED <<frames, new_file, decoder_data, decoder>>
      /\ decoder_pc = "run" /\ decoder_pc' = "push"
  BY DEF Decode, bufferVars
<1>1. CASE decoder = 0
  <2>1. UNCHANGED <<new_frame, offset>>
    BY <1>1 DEF Decode
  <2> QED
    BY <1>0, <2>1, OrderUnchanged
<1>2. CASE decoder # 0
  <2>1. PICK frame \in Decoded(decoder) :
          /\ new_frame' = <<frame>>
          /\ offset' = [offset EXCEPT ![decoder] = frame.position]
    BY <1>2 DEF Decode
  <2>2. decoder \in DOMAIN offset /\ offset[decoder] \in Nat
    BY <1>2 DEF IInv, TypeOK, DecoderTypeOK, NoUseAfterClose, Open
  <2>3. /\ frame.song = decoder /\ frame.position = NextPosition(offset[decoder], frame)
        /\ offset'[decoder] = frame.position /\ new_frame'[1] = frame /\ new_frame' # <<>>
    BY <2>1, <2>2 DEF Decoded, NextPosition, EndsSong
  <2>4. new_frame = <<>>
    BY <1>0 DEF OrderInv, SupplyInv
  <2>5. SupplyInv'
    BY <1>0, <1>2, <2>3 DEF OrderInv, SupplyInv
  <2>6. TailInv'
    BY <1>0, <1>2, <2>3, <2>4 DEF OrderInv, TailInv, NextPosition, EndsSong
  <2>7. BufferIsOneSong'
    BY <1>0 DEF OrderInv, BufferIsOneSong, EndsSong
  <2> QED
    BY <2>5, <2>6, <2>7 DEF OrderInv
<1> QED
  BY <1>1, <1>2

(* A sequence of at most one element that is put behind another one.       *)
LEMMA StoredBehind ==
  ASSUME NEW S, NEW old \in Seq(S), NEW new \in Seq(S), new # <<>>, Len(new) <= 1
  PROVE  /\ Len(old \o new) = Len(old) + 1
         /\ (old \o new)[Len(old) + 1] = new[1]
         /\ \A i \in 1..Len(old) : (old \o new)[i] = old[i]
<1> DEFINE n == Len(new)
<1>1. Len(old) \in Nat /\ n \in Nat /\ n # 0 /\ n <= 1
  OBVIOUS
<1>2. Len(old \o new) = Len(old) + n
  OBVIOUS
<1>3. \A i \in 1..n : (old \o new)[Len(old) + i] = new[i]
  OBVIOUS
<1>4. \A i \in 1..Len(old) : (old \o new)[i] = old[i]
  OBVIOUS
<1> HIDE DEF n
<1>5. n = 1
  BY <1>1
<1> QED
  BY <1>2, <1>3, <1>4, <1>5

(* A stored frame comes behind the last one, and the decoder in use goes   *)
(* on from it unless it was the end.                                       *)
LEMMA OrderStored == IInv /\ OrderInv /\ PushFrame => OrderInv'
<1> SUFFICES ASSUME IInv, OrderInv, PushFrame PROVE OrderInv'
  OBVIOUS
<1>0. /\ frames \in Seq(Frame) /\ new_frame \in Seq(Frame) /\ Len(new_frame) <= 1
      /\ decoder \in Nat /\ decoder_data \in Nat
  BY DEF IInv, TypeOK, BufferTypeOK, DecoderTypeOK
<1>1. /\ frames' = frames \o new_frame /\ new_frame' = <<>> /\ new_file' = FALSE
      /\ decoder_data' = decoder_data /\ decoder' = NextDecoder
  BY DEF PushFrame
<1>2. SupplyInv'
  BY <1>1 DEF OrderInv, SupplyInv, NextDecoder
<1>3. ASSUME frames = <<>>
      PROVE  OrderInv'
  <2>1. frames' = new_frame
    BY <1>0, <1>1, <1>3
  <2>2. 2..Len(frames') = {}
    BY <1>0, <2>1
  <2> QED
    BY <1>2, <2>2 DEF OrderInv, TailInv, BufferIsOneSong
<1>4. ASSUME frames # <<>>
      PROVE  OrderInv'
  <2>1. /\ ~new_file /\ decoder \in {0, decoder_data}
        /\ new_frame # <<>> => decoder # 0 /\ new_frame[1].song = decoder
                               /\ new_frame[1].position = offset[decoder]
    BY <1>4 DEF OrderInv, SupplyInv
  <2>2. decoder' = IF ClosesDecoder THEN 0 ELSE decoder
    BY <1>1, <2>1 DEF NextDecoder
  <2>3. decoder' # 0 => decoder' = decoder /\ offset'[decoder] = offset[decoder]
    <3>1. decoder # 0 => decoder \in Open
      BY DEF IInv, NoUseAfterClose
    <3>2. ~ClosesDecoder => offset' = [d \in Open |-> offset[d]]
      BY DEF PushFrame
    <3> QED
      BY <2>2, <3>1, <3>2
  <2>4. CASE new_frame = <<>>
    <3>1. frames' = frames
      BY <1>0, <1>1, <2>4
    <3>2. TailInv'
      BY <1>1, <2>2, <2>3, <2>4, <3>1 DEF OrderInv, TailInv, EndsSong
    <3>3. BufferIsOneSong'
      BY <1>1, <3>1 DEF OrderInv, BufferIsOneSong, EndsSong
    <3> QED
      BY <1>2, <3>2, <3>3 DEF OrderInv
  <2>5. CASE new_frame # <<>>
    <3> DEFINE n == Len(frames)
    <3>1. /\ n \in Nat \ {0} /\ Len(frames') = n + 1 /\ frames'[n + 1] = new_frame[1]
          /\ \A i \in 1..n : frames'[i] = frames[i]
      <4>1. n \in Nat \ {0}
        BY <1>0, <1>4
      <4> QED
        BY <1>0, <1>1, <2>5, <4>1, StoredBehind
    <3>2. decoder = decoder_data /\ decoder # 0
      BY <2>1, <2>5
    <3>3. EndsSong(new_frame[1]) => decoder' = 0
      BY <2>2, <2>5, <3>2 DEF ClosesDecoder, LastFrame, HaveFrame
    <3>4. \A i \in 2..n : ~EndsSong(frames[i])
      BY <3>2 DEF OrderInv, TailInv
    <3>5. n > 1 => new_frame[1].position = NextPosition(frames[n].position, new_frame[1])
      BY <2>5, <3>1, <3>2 DEF OrderInv, TailInv
    <3>6. TailInv'
      <4> SUFFICES ASSUME NEW i \in 2..Len(frames')
                   PROVE  /\ EndsSong(frames'[i]) => decoder' = 0
                          /\ i = Len(frames') /\ decoder' # 0 =>
                               offset'[decoder'] = frames'[i].position
        BY <1>1 DEF TailInv, EndsSong
      <4>1. CASE i = n + 1
        BY <2>1, <2>3, <2>5, <3>1, <3>3, <4>1
      <4>2. CASE i # n + 1
        <5>1. i \in 2..n /\ frames'[i] = frames[i] /\ i # Len(frames')
          BY <3>1, <4>2
        <5> QED
          BY <3>4, <5>1
      <4> QED
        BY <4>1, <4>2
    <3>7. BufferIsOneSong'
      <4> SUFFICES ASSUME NEW i \in 2..Len(frames')
                   PROVE  /\ frames'[i].song = decoder_data
                          /\ i > 2 => frames'[i].position = NextPosition(frames'[i-1].position, frames'[i])
                          /\ EndsSong(frames'[i]) => i = Len(frames')
        BY <1>1 DEF BufferIsOneSong, NextPosition, EndsSong
      <4>1. CASE i = n + 1
        BY <2>1, <2>5, <3>1, <3>2, <3>5, <4>1
      <4>2. CASE i # n + 1
        <5>1. i \in 2..n /\ i - 1 \in 1..n
          BY <3>1, <4>2
        <5>2. frames'[i] = frames[i] /\ frames'[i - 1] = frames[i - 1]
          BY <3>1, <5>1
        <5>3. /\ frames[i].song = decoder_data
              /\ i > 2 => frames[i].position = NextPosition(frames[i-1].position, frames[i])
          BY <5>1 DEF OrderInv, BufferIsOneSong, NextPosition
        <5> QED
          BY <3>4, <5>1, <5>2, <5>3
      <4> QED
        BY <4>1, <4>2
    <3> QED
      BY <1>2, <3>6, <3>7 DEF OrderInv
  <2> QED
    BY <2>4, <2>5
<1> QED
  BY <1>3, <1>4

(* The player's other steps empty the buffer or do not touch it.           *)
LEMMA PlayerKeepsOrder == IInv /\ OrderInv /\ PlayerStep => OrderInv'
<1> SUFFICES ASSUME IInv, OrderInv, PlayerStep PROVE OrderInv'
  OBVIOUS
<1> USE DEF AfterRestart, Woken
<1>1. CASE NoCommandPending \/ PauseCommand \/ PlayCommand
  BY <1>1, OrderUnchanged DEF NoCommandPending, PauseCommand, PlayCommand, bufferVars, decoderVars
<1>2. CASE WaitSong \/ WaitData \/ PlayFrame \/ FinishSong
  BY <1>2, OrderUnchanged DEF WaitSong, WaitData, PlayFrame, FinishSong, bufferVars, decoderVars
<1>3. CASE SkipCommand
  <2>1. frames' = <<>> /\ UNCHANGED <<new_file, decoder_data, decoder_pc, decoder, new_frame, offset>>
    BY <1>3 DEF SkipCommand, EmptyBuffer, decoderVars
  <2> QED
    BY <2>1, OrderOfNone DEF OrderInv, SupplyInv
<1>4. CASE StopCommand
  <2>1. /\ frames' = <<>> /\ UNCHANGED <<new_file, decoder_data, decoder, new_frame>>
        /\ decoder_pc = "push" => decoder_pc' = "push"
    BY <1>4 DEF StopCommand, EmptyBuffer
  <2> QED
    BY <2>1, OrderOfNone DEF OrderInv, SupplyInv
<1>5. CASE TakeFrame
  BY <1>5, OrderTaken
<1>6. ASSUME NEW type \in SongTypes, NEW start \in StartPositions, StartSong(type, start)
      PROVE  OrderInv'
  <2>1. CASE type = "unknown"
    BY <1>6, <2>1, OrderUnchanged DEF StartSong, bufferVars
  <2>2. CASE type # "unknown"
    <3>1. /\ frames' = <<>> /\ new_file' = TRUE /\ UNCHANGED <<decoder, new_frame>>
          /\ decoder_pc = "push" => decoder_pc' = "push"
      BY <1>6, <2>2 DEF StartSong, EmptyBuffer
    <3> QED
      BY <3>1, OrderOfNone DEF OrderInv, SupplyInv
  <2> QED
    BY <2>1, <2>2
<1> QED
  BY <1>1, <1>2, <1>3, <1>4, <1>5, <1>6 DEF PlayerStep

(* The order of the frames in every reachable state.                       *)
LEMMA OrderInvariance == Spec => []OrderInv
<1>1. Init => OrderInv
  BY DEF Init, BufferInit, OrderInv, SupplyInv, TailInv, BufferIsOneSong
<1>2. IInv /\ OrderInv /\ [Next]_vars => OrderInv'
  <2> SUFFICES ASSUME IInv, OrderInv, [Next]_vars PROVE OrderInv'
    OBVIOUS
  <2>1. CASE CheckRestart \/ InputStep \/ SupplyStep
    BY <2>1, OrderUnchanged DEF CheckRestart, InputStep, SupplyStep, do_set_player_command,
       do_toggle_player_command, do_remove_playlist_entry, setup_database,
       playlist_queue_song, bufferVars, decoderVars
  <2>2. CASE UNCHANGED vars
    BY <2>2, OrderUnchanged DEF vars, bufferVars, decoderVars
  <2> QED
    BY <2>1, <2>2, PlayerKeepsOrder, OrderDecoded, OrderStored DEF Next, DecoderStep
<1> QED
  BY <1>1, <1>2, Invariance, PTL DEF Spec

(* Behind its first frame the buffer holds consecutive frames of the       *)
(* current song, for any sizes, songs and races of skips and stops.        *)
THEOREM BufferHoldsOneSong == Spec => []BufferIsOneSong
<1>1. OrderInv => BufferIsOneSong
  BY DEF OrderInv
<1> QED
  BY <1>1, OrderInvariance, PTL
-----------------------------------------------------------------------------
(* Without skip and stop.  The position the next frame follows: that of    *)
(* the last frame of the buffer, or of the last one heard.                 *)
LastPosition == IF frames = <<>> THEN heard ELSE frames[Len(frames)].position
Follows(frame, p) == frame.song = decoder_data /\ frame.position = NextPosition(p, frame)

(* Between the user and the player there is no skip and no stop.           *)
NoSkipInv == pending \notin {"SKIP", "STOP"} /\ ~song_eof

(* From the last frame heard over the buffer and the frame that waits to   *)
(* be stored to the position of the decoder runs one unbroken line of      *)
(* frames, and the end of a song is the end of it.                         *)
LineInv ==
  /\ frames # <<>> => Follows(frames[1], heard)
  /\ \A i \in 2..Len(frames) : Follows(frames[i], frames[i - 1].position)
  /\ new_frame # <<>> =>
       Follows(new_frame[1], LastPosition) /\ new_frame[1].position = offset[decoder]
  /\ new_frame = <<>> /\ decoder # 0 => offset[decoder] = LastPosition
  /\ new_file => decoder = 0 /\ offset[decoder_data] = heard
  /\ \A i \in 1..Len(frames) : EndsSong(frames[i]) => i = Len(frames) /\ decoder = 0 /\ ~new_file

(* When the end of a song was taken off the buffer nothing of it is left,  *)
(* in the buffer or in the decoder, until the next song starts.            *)
Idle == frames = <<>> /\ new_frame = <<>> /\ decoder = 0 /\ ~new_file
HeardInv ==
  /\ player_pc = "frame" => cur_frame.song = decoder_data /\ cur_frame.position = heard
  /\ play_state # "IN_SONG" => Idle
  /\ player_pc = "frame" /\ EndsSong(cur_frame) => Idle

ListenInv == NoSkipInv /\ LineInv /\ HeardInv
Known == IInv /\ OrderInv /\ CreditInv

(* Steps that leave the line alone, and what the player knows of it.       *)
LEMMA LineUnchanged ==
  LineInv /\ UNCHANGED <<frames, new_file, decoder_data, decoder, new_frame, offset, heard>>
    => LineInv'
  BY DEF LineInv, Follows, NextPosition, LastPosition, EndsSong

(* What is left of a song is in the buffer and in the decoder.             *)
LEMMA IdleUnchanged ==
  UNCHANGED <<frames, new_frame, decoder, new_file>> => (Idle' <=> Idle)
  BY DEF Idle

(* Taking the first element off a sequence.                                *)
LEMMA TailFacts ==
  ASSUME NEW S, NEW s \in Seq(S), s # <<>>
  PROVE  /\ Len(s) \in Nat \ {0} /\ s[1] \in S /\ Head(s) = s[1]
         /\ Len(Tail(s)) = Len(s) - 1
         /\ \A i \in 1..Len(Tail(s)) : i + 1 \in 1..Len(s) /\ Tail(s)[i] = s[i + 1]
         /\ Tail(s) = <<>> => 1 = Len(s)
         /\ 1 = Len(s) => Tail(s) = <<>>
<1> DEFINE n == Len(s)
<1>1. n \in Nat \ {0} /\ s[1] \in S /\ Head(s) = s[1] 
  OBVIOUS
<1>2. Len(Tail(s)) = n - 1
  OBVIOUS
<1>3. \A i \in 1..Len(Tail(s)) : i + 1 \in 1..Len(s) /\ Tail(s)[i] = s[i + 1]
  OBVIOUS
<1>4. Tail(s) \in Seq(S)
  OBVIOUS
<1>5. Tail(s) # <<>> => Len(Tail(s)) \in Nat \ {0}
  BY <1>4
<1>6. Tail(s) = <<>> => Len(Tail(s)) = 0
  <2>1. Len(<<>>) = 0
    OBVIOUS
  <2> QED
    BY <2>1, Zenon
<1> HIDE DEF n
<1>7. n - 1 = 0 => 1 = n
  BY <1>1
<1>8. 1 = n => n - 1 = 0
  BY <1>1
<1>9. Tail(s) = <<>> => 1 = n
  BY <1>2, <1>6, <1>7, Zenon
<1>10. 1 = n => Tail(s) = <<>>
  BY <1>2, <1>5, <1>8
<1> QED
  BY <1>1, <1>2, <1>3, <1>9, <1>10, Zenon DEF n

(* Commands are still pause and play: no thread queues any other.          *)
LEMMA NoSkipStep ==
  ASSUME Commands \subseteq {"PAUSE", "PLAY"}, TypeOK, NoSkipInv, [Next]_vars
  PROVE  NoSkipInv'
<1> USE DEF NoSkipInv, Mailbox!Queue, Mailbox!Take
<1>0. ~SkipCommand /\ ~StopCommand
  BY DEF SkipCommand, StopCommand, AtCommand
<1>1. CASE NoCommandPending
  BY <1>1 DEF NoCommandPending, commandVars, bufferVars
<1>2. CASE PauseCommand \/ PlayCommand
  BY <1>2 DEF PauseCommand, PlayCommand, bufferVars
<1>3. CASE WaitSong \/ TakeFrame \/ PlayFrame \/ WaitData \/ FinishSong
  BY <1>3 DEF WaitSong, TakeFrame, PlayFrame, WaitData, FinishSong, commandVars, bufferVars
<1>4. ASSUME NEW type \in SongTypes, NEW start \in StartPositions, StartSong(type, start)
      PROVE  NoSkipInv'
  BY <1>4 DEF StartSong, commandVars, bufferVars
<1>5. CASE Decode \/ CheckRestart
  BY <1>5 DEF Decode, CheckRestart, commandVars, bufferVars
<1>6. CASE PushFrame
  BY <1>6 DEF PushFrame, commandVars
<1>7. ASSUME NEW command \in Commands, do_set_player_command(command)
      PROVE  NoSkipInv'
  BY <1>7 DEF do_set_player_command, bufferVars
<1>8. CASE do_toggle_player_command \/ setup_database
  BY <1>8 DEF do_toggle_player_command, setup_database, commandVars, bufferVars
<1>9. CASE do_remove_playlist_entry \/ playlist_queue_song
  BY <1>9 DEF do_remove_playlist_entry, playlist_queue_song, commandVars, bufferVars
<1>10. CASE UNCHANGED vars
  BY <1>10 DEF vars, commandVars, bufferVars
<1> HIDE DEF NoSkipInv, Mailbox!Queue, Mailbox!Take
<1>11. CASE PlayerStep
  BY <1>0, <1>1, <1>2, <1>3, <1>4, <1>11 DEF PlayerStep
<1>12. CASE DecoderStep
  BY <1>5, <1>6, <1>12 DEF DecoderStep
<1>13. CASE InputStep \/ SupplyStep
  BY <1>7, <1>8, <1>9, <1>13 DEF InputStep, SupplyStep
<1> QED
  BY <1>10, <1>11, <1>12, <1>13 DEF Next

(* A frame that is taken becomes the last one heard.                       *)
LEMMA ListenTaken ==
  ASSUME Known, LineInv, HeardInv, TakeFrame
  PROVE  LineInv' /\ HeardInv'
<1>0. /\ frames \in Seq(Frame) /\ frames # <<>> /\ frames' = Tail(frames)
      /\ UNCHANGED <<new_file, decoder_data, decoder, new_frame, offset, play_state>>
      /\ play_state = "IN_SONG" /\ player_pc' = "frame" /\ cur_frame' = Head(frames)
      /\ heard' = IF EndsSong(Head(frames)) THEN heard ELSE Head(frames).position
      /\ heard \in Nat
  BY DEF Known, IInv, TypeOK, BufferTypeOK, PlayerTypeOK, TakeFrame, Shift, decoderVars
<1>1. /\ Len(frames) \in Nat \ {0} /\ Len(frames') = Len(frames) - 1
      /\ Head(frames) = frames[1] /\ frames[1] \in Frame
      /\ \A i \in 1..Len(frames') : i + 1 \in 1..Len(frames) /\ frames'[i] = frames[i + 1]
      /\ frames' = <<>> => 1 = Len(frames)
      /\ 1 = Len(frames) => frames' = <<>>
  BY <1>0, TailFacts, Zenon
<1>2. frames[1].song = decoder_data /\ heard' = frames[1].position
  <2>1. Follows(frames[1], heard)
    BY <1>0 DEF LineInv
  <2>2. EndsSong(frames[1]) => frames[1].position = heard
    BY <1>0, <2>1 DEF Follows, NextPosition
  <2>3. heard' = IF EndsSong(frames[1]) THEN heard ELSE frames[1].position
    BY <1>0, <1>1, Zenon
  <2> QED
    BY <2>1, <2>2, <2>3 DEF Follows
<1>3. LastPosition' = LastPosition
  <2>1. CASE frames' = <<>>
    <3>1. LastPosition' = heard'
      BY <2>1 DEF LastPosition
    <3>2. LastPosition = frames[1].position
      BY <1>0, <1>1, <2>1, Zenon DEF LastPosition
    <3> QED
      BY <1>2, <3>1, <3>2
  <2>2. CASE frames' # <<>>
    <3>1. Len(frames') \in 1..Len(frames') /\ Len(frames') + 1 = Len(frames)
      BY <1>1, <2>2
    <3> QED
      BY <1>0, <1>1, <2>2, <3>1 DEF LastPosition
  <2> QED
    BY <2>1, <2>2
<1>4. LineInv'
  <2>6. ASSUME NEW i \in 2..Len(frames)
        PROVE  Follows(frames[i], frames[i - 1].position)
    BY DEF LineInv
  <2>1. ASSUME frames' # <<>> PROVE Follows(frames'[1], heard')
    <3>1. 2 \in 2..Len(frames) /\ 2 - 1 = 1 /\ frames'[1] = frames[2]
      <4>1. 1 # Len(frames)
        BY <1>1, <2>1
      <4>2. 1 \in 1..Len(frames')
        BY <1>1, <4>1
      <4> QED
        BY <1>1, <4>2
    <3>2. Follows(frames[2], frames[1].position)
      BY <2>6, <3>1
    <3> QED
      BY <1>2, <3>1, <3>2
  <2>2. ASSUME NEW i \in 2..Len(frames')
        PROVE  Follows(frames'[i], frames'[i - 1].position)
    <3>1. /\ i + 1 \in 2..Len(frames) /\ (i + 1) - 1 = i /\ i \in 1..Len(frames')
          /\ i - 1 \in 1..Len(frames') /\ (i - 1) + 1 = i
      BY <1>1
    <3>2. frames'[i] = frames[i + 1] /\ frames'[i - 1] = frames[i]
      BY <1>1, <3>1
    <3>3. Follows(frames[i + 1], frames[i].position)
      BY <2>6, <3>1
    <3> QED
      BY <3>2, <3>3
  <2>3. /\ new_frame # <<>> =>
             Follows(new_frame[1], LastPosition) /\ new_frame[1].position = offset[decoder]
        /\ new_frame = <<>> /\ decoder # 0 => offset[decoder] = LastPosition
    BY DEF LineInv
  <2>4. ~new_file
    BY <1>0 DEF Known, OrderInv, SupplyInv
  <2>5. \A i \in 1..Len(frames') : EndsSong(frames'[i]) => i = Len(frames') /\ decoder = 0
    BY <1>1 DEF LineInv
  <2> QED
    BY <1>0, <1>3, <2>1, <2>2, <2>3, <2>4, <2>5 DEF LineInv, Follows, NextPosition, EndsSong
<1>5. HeardInv'
  <2>1. cur_frame'.song = decoder_data' /\ cur_frame'.position = heard'
    BY <1>0, <1>1, <1>2
  <2>2. ASSUME EndsSong(frames[1]) PROVE Idle'
    <3>1. 1 = Len(frames) /\ decoder = 0 /\ ~new_file
      BY <1>1, <2>2 DEF LineInv
    <3>2. frames' = <<>>
      BY <1>1, <3>1
    <3>3. new_frame = <<>>
      BY <3>1 DEF Known, OrderInv, SupplyInv
    <3> QED
      BY <1>0, <3>1, <3>2, <3>3 DEF Idle
  <2> QED
    BY <1>0, <1>1, <2>1, <2>2 DEF HeardInv, EndsSong
<1> QED
  BY <1>4, <1>5

(* What is decoded is the next frame of the line.                          *)
LEMMA ListenDecoded ==
  ASSUME Known, LineInv, HeardInv, Decode
  PROVE  LineInv' /\ HeardInv'
<1>0. /\ UNCHANGED <<frames, new_file, decoder_data, decoder, heard>>
      /\ UNCHANGED <<player_pc, play_state, cur_frame>> /\ decoder_pc = "run"
  BY DEF Decode, bufferVars, playerVars
<1>1. CASE decoder = 0
  <2>1. UNCHANGED <<new_frame, offset>>
    BY <1>1 DEF Decode
  <2> QED
    BY <1>0, <2>1, LineUnchanged, IdleUnchanged DEF HeardInv, EndsSong
<1>2. CASE decoder # 0
  <2>1. PICK frame \in Decoded(decoder) :
          /\ new_frame' = <<frame>>
          /\ offset' = [offset EXCEPT ![decoder] = frame.position]
    BY <1>2 DEF Decode
  <2>2. decoder \in DOMAIN offset /\ offset[decoder] \in Nat
    BY <1>2 DEF Known, IInv, TypeOK, DecoderTypeOK, NoUseAfterClose, Open
  <2>3. /\ frame.song = decoder /\ frame.position = NextPosition(offset[decoder], frame)
        /\ offset'[decoder] = frame.position /\ new_frame'[1] = frame /\ new_frame' # <<>>
    BY <2>1, <2>2 DEF Decoded, NextPosition, EndsSong
  <2>4. new_frame = <<>> /\ ~new_file /\ decoder = decoder_data
    BY <1>0, <1>2 DEF Known, OrderInv, SupplyInv, LineInv
  <2>5. offset[decoder] = LastPosition
    BY <1>2, <2>4 DEF LineInv
  <2>6. LineInv'
    <3>1. LastPosition' = LastPosition
      BY <1>0 DEF LastPosition
    <3>2. Follows(frame, LastPosition)
      BY <2>3, <2>4, <2>5 DEF Follows
    <3> QED
      BY <1>0, <2>3, <2>4, <3>1, <3>2 DEF LineInv, Follows, NextPosition, EndsSong
  <2>7. HeardInv'
    BY <1>0, <1>2 DEF HeardInv, Idle, EndsSong
  <2> QED
    BY <2>6, <2>7
<1> QED
  BY <1>1, <1>2

(* A frame is stored behind the last one; a song is taken over when the    *)
(* line of the one before has ended.                                       *)
LEMMA ListenStored ==
  ASSUME Known, NoSkipInv, LineInv, HeardInv, PushFrame
  PROVE  LineInv' /\ HeardInv'
<1>0. /\ frames \in Seq(Frame) /\ new_frame \in Seq(Frame) /\ Len(new_frame) <= 1
      /\ decoder \in Nat /\ decoder_data \in Nat
  BY DEF Known, IInv, TypeOK, BufferTypeOK, DecoderTypeOK
<1>1. /\ frames' = frames \o new_frame /\ new_frame' = <<>> /\ new_file' = FALSE
      /\ decoder' = NextDecoder
      /\ UNCHANGED <<decoder_data, heard, play_state, cur_frame>>
      /\ player_pc' = "frame" => player_pc = "frame"
  BY DEF PushFrame, AfterNewData, Woken
<1>2. CASE new_frame = <<>>
  <2>1. frames' = frames /\ UNCHANGED new_frame
    BY <1>0, <1>1, <1>2
  <2>2. ~ClosesDecoder
    BY <1>2 DEF ClosesDecoder, LastFrame, HaveFrame, NoSkipInv
  <2>3. decoder' = IF new_file THEN decoder_data ELSE decoder
    BY <1>1, <2>2 DEF NextDecoder
  <2>4. offset' = [d \in Open |-> offset[d]]
    BY <2>2 DEF PushFrame
  <2>5. LastPosition' = LastPosition
    BY <1>1, <2>1 DEF LastPosition
  <2>6. decoder' # 0 => offset'[decoder'] = LastPosition
    <3>1. CASE new_file
      <4>1. decoder_data \in Open /\ frames = <<>> /\ offset[decoder_data] = heard
        BY <3>1 DEF Known, IInv, NoUseAfterClose, OrderInv, SupplyInv, LineInv
      <4> QED
        BY <2>3, <2>4, <3>1, <4>1 DEF LastPosition
    <3>2. CASE ~new_file
      <4>1. decoder # 0 => decoder \in Open /\ offset[decoder] = LastPosition
        BY <1>2 DEF Known, IInv, NoUseAfterClose, LineInv
      <4> QED
        BY <2>3, <2>4, <3>2, <4>1
    <3> QED
      BY <3>1, <3>2
  <2>7. \A i \in 1..Len(frames) : EndsSong(frames[i]) => i = Len(frames) /\ decoder' = 0
    BY <2>3 DEF LineInv
  <2>8. LineInv'
    BY <1>1, <1>2, <2>1, <2>5, <2>6, <2>7 DEF LineInv, Follows, NextPosition, EndsSong
  <2>9. Idle => Idle'
    BY <1>1, <2>1, <2>3 DEF Idle
  <2>10. HeardInv'
    BY <1>1, <2>9 DEF HeardInv, EndsSong
  <2> QED
    BY <2>8, <2>10
<1>3. CASE new_frame # <<>>
  <2> DEFINE n == Len(frames)
             frame == new_frame[1]
  <2>1. /\ n \in Nat /\ Len(frames') = n + 1 /\ frames'[n + 1] = frame
        /\ \A i \in 1..n : frames'[i] = frames[i]
    BY <1>0, <1>1, <1>3, StoredBehind
  <2>2. /\ decoder # 0 /\ ~new_file /\ decoder = decoder_data
        /\ Follows(frame, LastPosition) /\ frame.position = offset[decoder]
    BY <1>3 DEF Known, OrderInv, SupplyInv, LineInv
  <2>3. decoder' = IF EndsSong(frame) THEN 0 ELSE decoder
    BY <1>1, <1>3, <2>2 DEF NextDecoder, ClosesDecoder, LastFrame, HaveFrame, NoSkipInv
  <2>4. decoder' # 0 => offset'[decoder'] = frame.position
    <3>1. decoder \in Open
      BY <2>2 DEF Known, IInv, NoUseAfterClose
    <3>2. decoder' # 0 => ~ClosesDecoder
      BY <1>1, <2>2 DEF NextDecoder
    <3> QED
      BY <2>2, <2>3, <3>1, <3>2 DEF PushFrame
  <2>5. frames' # <<>> /\ LastPosition' = frame.position
    BY <1>0, <1>1, <2>1 DEF LastPosition
  <2>6. n > 0 => LastPosition = frames[n].position
    BY <2>1 DEF LastPosition
  <2>7. n = 0 => LastPosition = heard
    BY <1>0 DEF LastPosition
  <2>8. Follows(frames'[1], heard)
    <3>1. CASE n = 0
      BY <2>1, <2>2, <2>7, <3>1
    <3>2. CASE n # 0
      <4>1. frames # <<>> /\ frames'[1] = frames[1]
        BY <1>0, <2>1, <3>2
      <4> QED
        BY <4>1 DEF LineInv
    <3> QED
      BY <3>1, <3>2
  <2>9. ASSUME NEW i \in 2..Len(frames')
        PROVE  Follows(frames'[i], frames'[i - 1].position)
    <3>1. CASE i = n + 1
      <4>1. n > 0 /\ i - 1 = n /\ frames'[n] = frames[n]
        BY <2>1, <3>1
      <4> QED
        BY <2>1, <2>2, <2>6, <3>1, <4>1
    <3>2. CASE i # n + 1
      <4>1. i \in 2..n /\ frames'[i] = frames[i] /\ frames'[i - 1] = frames[i - 1]
        BY <2>1, <3>2
      <4>2. Follows(frames[i], frames[i - 1].position)
        BY <4>1 DEF LineInv
      <4> QED
        BY <4>1, <4>2
    <3> QED
      BY <3>1, <3>2
  <2>10. ASSUME NEW i \in 1..Len(frames'), EndsSong(frames'[i])
         PROVE  i = Len(frames') /\ decoder' = 0
    <3>1. CASE i = n + 1
      BY <2>1, <2>3, <2>10, <3>1
    <3>2. CASE i # n + 1
      <4>1. i \in 1..n /\ frames'[i] = frames[i]
        BY <2>1, <3>2
      <4> QED
        BY <2>2, <2>10, <4>1 DEF LineInv
    <3> QED
      BY <3>1, <3>2
  <2>11. LineInv'
    BY <1>1, <2>4, <2>5, <2>8, <2>9, <2>10 DEF LineInv, Follows, NextPosition, EndsSong
  <2>12. HeardInv'
    BY <1>1, <2>2 DEF HeardInv, Idle, EndsSong
  <2> QED
    BY <2>11, <2>12
<1> QED
  BY <1>2, <1>3

(* A song starts where nothing is left of the one before, and its line     *)
(* starts at the position it is played from.                               *)
LEMMA ListenStarted ==
  ASSUME Known, LineInv, HeardInv,
         NEW type \in SongTypes, NEW start \in StartPositions, StartSong(type, start)
  PROVE  LineInv' /\ HeardInv'
<1>1. play_state = "BEFORE_SONG" /\ player_pc = "play" /\ UNCHANGED <<cur_frame, decoder, new_frame>>
  BY DEF StartSong
<1>2. frames = <<>> /\ new_frame = <<>> /\ decoder = 0 /\ ~new_file
  BY <1>1 DEF HeardInv, Idle
<1>3. CASE type = "unknown"
  <2>1. /\ UNCHANGED <<frames, new_file, decoder_data, offset, heard, play_state>>
        /\ player_pc' = "wedged"
    BY <1>3 DEF StartSong, bufferVars
  <2> QED
    BY <1>1, <2>1, LineUnchanged, IdleUnchanged DEF HeardInv
<1>4. CASE type # "unknown"
  <2>1. /\ frames' = <<>> /\ decoder_data' = decoder_data + 1 /\ heard' = start
        /\ offset' = [d \in Open \cup {decoder_data'} |->
                       IF d = decoder_data' THEN start ELSE offset[d]]
        /\ play_state' = "IN_SONG" /\ player_pc' = "top"
    BY <1>4 DEF StartSong, EmptyBuffer
  <2>2. offset'[decoder_data'] = heard'
    BY <2>1
  <2>3. 1..Len(frames') = {} /\ 2..Len(frames') = {}
    BY <2>1
  <2> QED
    BY <1>1, <1>2, <2>1, <2>2, <2>3 DEF LineInv, HeardInv
<1> QED
  BY <1>3, <1>4

(* The player's other steps, which only leave a song at its end.           *)
LEMMA ListenPlayer ==
  ASSUME Known, NoSkipInv, LineInv, HeardInv, PlayerStep
  PROVE  LineInv' /\ HeardInv'
<1>0. ~SkipCommand /\ ~StopCommand
  BY DEF SkipCommand, StopCommand, AtCommand, NoSkipInv
<1>1. ASSUME UNCHANGED <<frames, new_file, decoder_data, decoder, new_frame, offset, heard>>,
             play_state' # "IN_SONG" => Idle, player_pc' # "frame"
      PROVE  LineInv' /\ HeardInv'
  BY <1>1, LineUnchanged, IdleUnchanged DEF HeardInv
<1>2. CASE NoCommandPending
  BY <1>1, <1>2 DEF NoCommandPending, SleepOrPlay, bufferVars, decoderVars, HeardInv
<1>3. CASE PauseCommand
  BY <1>1, <1>3 DEF PauseCommand, SleepOrPlay, bufferVars, decoderVars, HeardInv
<1>4. CASE PlayCommand
  BY <1>1, <1>4 DEF PlayCommand, SleepOrPlay, bufferVars, HeardInv
<1>5. CASE WaitSong \/ WaitData
  BY <1>1, <1>5 DEF WaitSong, WaitData, bufferVars, decoderVars, HeardInv
<1>6. CASE PlayFrame
  <2>1. play_state' # "IN_SONG" => Idle
    BY <1>6 DEF PlayFrame, Credit, HeardInv
  <2> QED
    BY <1>1, <1>6, <2>1 DEF PlayFrame, bufferVars
<1>7. CASE FinishSong
  BY <1>1, <1>7 DEF FinishSong, bufferVars, decoderVars, HeardInv
<1>8. CASE TakeFrame
  BY <1>8, ListenTaken
<1>9. ASSUME NEW type \in SongTypes, NEW start \in StartPositions, StartSong(type, start)
      PROVE  LineInv' /\ HeardInv'
  BY <1>9, ListenStarted
<1> QED
  BY <1>0, <1>2, <1>3, <1>4, <1>5, <1>6, <1>7, <1>8, <1>9 DEF PlayerStep

(* Without skip and stop no frame is lost, in every reachable state.       *)
LEMMA ListenInvariance ==
  ASSUME Commands \subseteq {"PAUSE", "PLAY"}
  PROVE  Spec => []ListenInv
<1>1. Init => ListenInv
  <2> SUFFICES ASSUME Init PROVE ListenInv
    OBVIOUS
  <2>1. NoSkipInv
    BY DEF Init, BufferInit, Mailbox!Init, NoSkipInv
  <2>2. frames = <<>> /\ new_frame = <<>> /\ decoder = 0 /\ ~new_file /\ player_pc = "top"
    BY DEF Init, BufferInit
  <2>3. 1..Len(frames) = {} /\ 2..Len(frames) = {}
    BY <2>2
  <2>4. LineInv /\ HeardInv
    BY <2>2, <2>3 DEF LineInv, HeardInv, Idle
  <2> QED
    BY <2>1, <2>4 DEF ListenInv
<1>2. Known /\ ListenInv /\ [Next]_vars => ListenInv'
  <2> SUFFICES ASSUME Known, ListenInv, [Next]_vars PROVE ListenInv'
    OBVIOUS
  <2>0. NoSkipInv /\ LineInv /\ HeardInv /\ TypeOK
    BY DEF ListenInv, Known, IInv
  <2>1. NoSkipInv'
    BY <2>0, NoSkipStep
  <2>2. ASSUME UNCHANGED <<frames, new_file, decoder_data, decoder, new_frame, offset, heard>>,
               UNCHANGED <<play_state, cur_frame>>, player_pc' = "frame" => player_pc = "frame"
        PROVE  LineInv' /\ HeardInv'
    BY <2>0, <2>2, LineUnchanged, IdleUnchanged DEF HeardInv, EndsSong
  <2>3. ASSUME CheckRestart PROVE LineInv' /\ HeardInv'
    BY <2>2, <2>3 DEF CheckRestart, bufferVars, playerVars
  <2>4. ASSUME InputStep \/ SupplyStep PROVE LineInv' /\ HeardInv'
    <3>1. UNCHANGED <<frames, new_file, decoder_data, decoder, new_frame, offset, cur_frame>>
      BY <2>4 DEF InputStep, SupplyStep, do_set_player_command, do_toggle_player_command,
         do_remove_playlist_entry, setup_database, playlist_queue_song, bufferVars,
         decoderVars, playerVars
    <3> QED
      BY <2>0, <2>2, <2>4, <3>1, OthersOnlyWake
  <2>5. ASSUME UNCHANGED vars PROVE LineInv' /\ HeardInv'
    BY <2>2, <2>5 DEF vars, bufferVars, decoderVars, playerVars
  <2>6. LineInv' /\ HeardInv'
    BY <2>0, <2>3, <2>4, <2>5, ListenPlayer, ListenDecoded, ListenStored DEF Next, DecoderStep
  <2> QED
    BY <2>1, <2>6 DEF ListenInv
<1>3. Spec => []Known
  <2>1. IInv /\ OrderInv /\ CreditInv => Known
    BY DEF Known
  <2> QED
    BY <2>1, Invariance, OrderInvariance, CreditInvariance, PTL
<1> QED
  BY <1>1, <1>2, <1>3, PTL DEF Spec

(* What the player has done for the song that is or was played last.       *)
PlayedInv ==
  /\ ~crashed
  /\ decoder_data > 0 =>
       play_count + skip_count = IF play_state = "IN_SONG" THEN 0 ELSE 1

(* Without skip and stop: the process lives, and every song that ends has  *)
(* been heard to the frame the decoder found to be its last, and gains     *)
(* exactly one play.                                                       *)
THEOREM SongsPlayedWhole ==
  ASSUME Commands \subseteq {"PAUSE", "PLAY"}, PastWanted > 0
  PROVE  Spec => []WholeSongPlayed
<1>1. Init => PlayedInv
  BY DEF Init, BufferInit, PlayedInv
<1>2. Known /\ ListenInv /\ PlayedInv /\ [Next]_vars => PlayedInv'
  <2> SUFFICES ASSUME Known, ListenInv, PlayedInv, [Next]_vars PROVE PlayedInv'
    OBVIOUS
  <2>0. /\ TypeOK /\ CreditInv /\ NoSkipInv /\ ~SkipCommand /\ ~StopCommand
        /\ decoder_data \in Nat /\ play_count \in Nat /\ skip_count \in Nat
    BY DEF Known, IInv, ListenInv, TypeOK, BufferTypeOK, InfoTypeOK, NoSkipInv, SkipCommand,
       StopCommand, AtCommand
  <2>1. ASSUME UNCHANGED <<crashed, decoder_data, play_count, skip_count>>,
               (play_state' = "IN_SONG") <=> (play_state = "IN_SONG")
        PROVE  PlayedInv'
    BY <2>1 DEF PlayedInv
  <2>2. CASE NoCommandPending \/ PauseCommand \/ PlayCommand
    BY <2>1, <2>2 DEF NoCommandPending, PauseCommand, PlayCommand, infoVars, bufferVars
  <2>3. CASE WaitSong \/ WaitData \/ TakeFrame
    BY <2>1, <2>3 DEF WaitSong, WaitData, TakeFrame, infoVars, bufferVars
  <2>4. CASE FinishSong
    <3>1. ~crashed'
      <4>1. PastWanted # 0
        BY InputAssumption
      <4> QED
        BY <2>4, <4>1 DEF FinishSong
    <3> QED
      BY <2>4, <3>1 DEF FinishSong, PlayedInv, bufferVars
  <2>5. CASE PlayFrame
    <3>1. play_count = 0 /\ skip_count = 0
      BY <2>0, <2>5 DEF PlayFrame, CreditInv, CreditedOnce
    <3>2. /\ play_count' = IF EndsSong(cur_frame) THEN play_count + 1 ELSE play_count
          /\ play_state' = IF EndsSong(cur_frame) THEN "AFTER_SONG" ELSE play_state
          /\ play_state = "IN_SONG" /\ UNCHANGED <<skip_count, crashed, decoder_data>>
      BY <2>0, <2>5 DEF PlayFrame, Credit, CreditInv, bufferVars
    <3> QED
      BY <3>1, <3>2 DEF PlayedInv
  <2>6. ASSUME NEW type \in SongTypes, NEW start \in StartPositions, StartSong(type, start)
        PROVE  PlayedInv'
    <3>1. CASE type = "unknown"
      BY <2>1, <2>6, <3>1 DEF StartSong, bufferVars
    <3>2. CASE type # "unknown"
      BY <2>6, <3>2 DEF StartSong, PlayedInv
    <3> QED
      BY <3>1, <3>2
  <2>7. CASE DecoderStep \/ InputStep \/ SupplyStep
    <3>1. UNCHANGED <<play_count, skip_count, play_state, decoder_data>>
      BY <2>0, <2>7, OthersOnlyWake DEF infoVars
    <3>2. ~crashed'
      <4>1. CASE PushFrame
        <5>1. ~CopiesFreedSamples
          BY <2>0 DEF CopiesFreedSamples, NoSkipInv
        <5> QED
          BY <4>1, <5>1 DEF PushFrame
      <4>2. CASE ~PushFrame
        BY <2>7, <4>2 DEF PlayedInv, DecoderStep, InputStep, SupplyStep, Decode, CheckRestart,
           do_set_player_command, do_toggle_player_command, do_remove_playlist_entry,
           setup_database, playlist_queue_song
      <4> QED
        BY <4>1, <4>2
    <3> QED
      BY <3>1, <3>2 DEF PlayedInv
  <2>8. CASE UNCHANGED vars
    BY <2>1, <2>8 DEF vars, infoVars, bufferVars, playerVars
  <2>9. CASE PlayerStep
    BY <2>0, <2>2, <2>3, <2>4, <2>5, <2>6, <2>9 DEF PlayerStep
  <2> QED
    BY <2>7, <2>8, <2>9 DEF Next
<1>3. Spec => []Known
  <2>1. IInv /\ OrderInv /\ CreditInv => Known
    BY DEF Known
  <2> QED
    BY <2>1, Invariance, OrderInvariance, CreditInvariance, PTL
<1>4. ListenInv /\ PlayedInv => WholeSongPlayed
  BY DEF ListenInv, HeardInv, PlayedInv, WholeSongPlayed
<1>5. Spec => []ListenInv
  BY ListenInvariance
<1> QED
  BY <1>1, <1>2, <1>3, <1>4, <1>5, PTL DEF Spec

(* Without skip and stop the two threads and the buffer between them       *)
(* implement SongPlayer: each of their steps starts a song, lets the next  *)
(* frame be heard, ends the song, or is not noticed.                       *)
THEOREM ListenerRefinement ==
  ASSUME Commands \subseteq {"PAUSE", "PLAY"}
  PROVE  Spec => ListenerSpec
<1>1. Init => Listener!Init
  BY DEF Init, BufferInit, Listener!Init
<1>2. Known /\ ListenInv /\ [Next]_vars => [Listener!Next]_Listener!playVars
  <2> SUFFICES ASSUME Known, ListenInv, [Next]_vars
               PROVE  Listener!Next \/ UNCHANGED Listener!playVars
    BY DEF Listener!playVars
  <2>0. /\ TypeOK /\ CreditInv /\ ~SkipCommand /\ ~StopCommand
    BY DEF Known, IInv, ListenInv, NoSkipInv, SkipCommand, StopCommand, AtCommand
  <2>1. ASSUME UNCHANGED <<decoder_data, play_state, heard>>
        PROVE  UNCHANGED Listener!playVars
    BY <2>1 DEF Listener!playVars
  <2>2. CASE NoCommandPending \/ PauseCommand \/ PlayCommand
    BY <2>1, <2>2 DEF NoCommandPending, PauseCommand, PlayCommand, bufferVars
  <2>3. CASE WaitSong \/ WaitData
    BY <2>1, <2>3 DEF WaitSong, WaitData, bufferVars
  <2>4. CASE FinishSong
    BY <2>4 DEF FinishSong, bufferVars, Listener!playVars
  <2>5. CASE PlayFrame
    <3>1. /\ play_state = "IN_SONG" /\ UNCHANGED <<decoder_data, heard>>
          /\ play_state' = IF EndsSong(cur_frame) THEN "AFTER_SONG" ELSE play_state
      BY <2>0, <2>5 DEF PlayFrame, Credit, CreditInv, bufferVars
    <3>2. CASE EndsSong(cur_frame)
      BY <3>1, <3>2 DEF Listener!Next, Listener!Finish
    <3>3. CASE ~EndsSong(cur_frame)
      BY <2>1, <3>1, <3>3
    <3> QED
      BY <3>2, <3>3
  <2>6. CASE TakeFrame
    <3>1. /\ play_state = "IN_SONG" /\ frames # <<>> /\ UNCHANGED <<decoder_data, play_state>>
          /\ heard' = IF EndsSong(Head(frames)) THEN heard ELSE Head(frames).position
      BY <2>6 DEF TakeFrame
    <3>2. Head(frames) = frames[1]
      BY <3>1 DEF Known, IInv, TypeOK, BufferTypeOK
    <3>3. Follows(frames[1], heard)
      BY <3>1 DEF ListenInv, LineInv
    <3>4. CASE EndsSong(Head(frames))
      BY <2>1, <3>1, <3>4
    <3>5. CASE ~EndsSong(Head(frames))
      <4>1. heard' = heard + 1
        BY <3>1, <3>2, <3>3, <3>5 DEF Follows, NextPosition
      <4> QED
        BY <3>1, <4>1 DEF Listener!Next, Listener!HearFrame
    <3> QED
      BY <3>4, <3>5
  <2>7. ASSUME NEW type \in SongTypes, NEW start \in StartPositions, StartSong(type, start)
        PROVE  Listener!Next \/ UNCHANGED Listener!playVars
    <3>1. CASE type = "unknown"
      BY <2>1, <2>7, <3>1 DEF StartSong, bufferVars
    <3>2. CASE type # "unknown"
      <4>1. /\ play_state = "BEFORE_SONG" /\ play_state' = "IN_SONG"
            /\ decoder_data' = decoder_data + 1 /\ heard' = start
        BY <2>7, <3>2 DEF StartSong
      <4> QED
        BY <4>1 DEF Listener!Next, Listener!StartNext
    <3> QED
      BY <3>1, <3>2
  <2>8. CASE DecoderStep \/ InputStep \/ SupplyStep
    BY <2>0, <2>1, <2>8, OthersOnlyWake
  <2>9. CASE UNCHANGED vars
    BY <2>1, <2>9 DEF vars, bufferVars, playerVars
  <2>10. CASE PlayerStep
    BY <2>0, <2>2, <2>3, <2>4, <2>5, <2>6, <2>7, <2>10 DEF PlayerStep
  <2> QED
    BY <2>8, <2>9, <2>10 DEF Next
<1>3. Spec => []Known
  <2>1. IInv /\ OrderInv /\ CreditInv => Known
    BY DEF Known
  <2> QED
    BY <2>1, Invariance, OrderInvariance, CreditInvariance, PTL
<1>4. Spec => []ListenInv
  BY ListenInvariance
<1> QED
  BY <1>1, <1>2, <1>3, <1>4, PTL DEF Spec, ListenerSpec, Listener!Spec

-----------------------------------------------------------------------------
(* Induction over the natural numbers, for a set.                          *)
LEMMA NatSetInduction ==
  ASSUME NEW S, 0 \in S, \A n \in Nat : n \in S => n + 1 \in S
  PROVE  Nat \subseteq S
<1> DEFINE T == Nat \ S
<1> SUFFICES ASSUME T # {} PROVE FALSE
  OBVIOUS
<1>1. PICK m \in T : \A k \in T : ~ (<<k, m>> \in OpToRel(<, Nat))
  BY WFMin, NatLessThanWellFounded, Zenon
<1>2. \A k \in T : ~ (k < m)
  <2> SUFFICES ASSUME NEW k \in T, k < m PROVE FALSE
    OBVIOUS
  <2> QED
    BY <1>1 DEF OpToRel
<1>3. m - 1 \in Nat /\ m - 1 \notin T /\ (m - 1) + 1 = m
  BY <1>2
<1> QED
  BY <1>3

(* g counts the bytes of the first frames of fs.                           *)
CountsBytes(g, fs, n) ==
  g = [i \in 0..n |-> IF i = 0 THEN 0 ELSE g[i - 1] + Counted(fs[i])]

(* Such a count exists, up to every frame.                                 *)
LEMMA CountExists ==
  ASSUME NEW fs, NEW n \in Nat
  PROVE  \E g : CountsBytes(g, fs, n)
<1> DEFINE S == {m \in Nat : \E g : CountsBytes(g, fs, m)}
           Step(bytes, i) == bytes + Counted(fs[i])
<1>1. 0 \in S
  <2>1. CountsBytes([i \in 0..0 |-> 0], fs, 0)
    BY DEF CountsBytes
  <2> QED
    BY <2>1
<1>2. ASSUME NEW m \in Nat, m \in S PROVE m + 1 \in S
  <2>1. PICK g : CountsBytes(g, fs, m)
    BY <1>2
  <2> DEFINE h == [i \in 0..m + 1 |-> IF i <= m THEN g[i] ELSE Step(g[m], m + 1)]
  <2>2. ASSUME NEW i \in 0..m + 1
        PROVE  h[i] = IF i = 0 THEN 0 ELSE Step(h[i - 1], i)
    <3>1. \A j \in 1..m : g[j] = Step(g[j - 1], j)
      <4> SUFFICES ASSUME NEW j \in 1..m PROVE g[j] = Step(g[j - 1], j)
        OBVIOUS
      <4>1. j \in 0..m /\ j # 0
        OBVIOUS
      <4> QED
        BY <2>1, <4>1 DEF CountsBytes
    <3> HIDE DEF Step
    <3>2. CASE i = 0
      BY <2>1, <3>2 DEF CountsBytes
    <3>3. CASE i \in 1..m
      <4>1. i \in 0..m + 1 /\ i - 1 \in 0..m + 1 /\ i <= m /\ i - 1 <= m /\ i # 0
        BY <3>3
      <4> QED
        BY <3>1, <3>3, <4>1
    <3>4. CASE i = m + 1
      BY <3>4
    <3> QED
      BY <3>2, <3>3, <3>4
  <2>3. CountsBytes(h, fs, m + 1)
    <3> HIDE DEF h
    <3>1. h = [i \in 0..m + 1 |-> h[i]]
      BY DEF h
    <3> QED
      BY <2>2, <3>1 DEF CountsBytes
  <2> QED
    BY <2>3
<1> HIDE DEF S
<1>3. Nat \subseteq S
  BY <1>1, <1>2, NatSetInduction
<1> QED
  BY <1>3 DEF S

(* What a count says of its steps.                                         *)
LEMMA CountSteps ==
  ASSUME NEW n \in Nat, NEW fs, \A i \in 1..n : Counted(fs[i]) \in Int,
         NEW g, CountsBytes(g, fs, n)
  PROVE  /\ g[0] = 0
         /\ \A i \in 1..n : g[i] = g[i - 1] + Counted(fs[i])
         /\ \A i \in 0..n : g[i] \in Int
<1>1. g[0] = 0
  BY DEF CountsBytes
<1>2. ASSUME NEW i \in 1..n PROVE g[i] = g[i - 1] + Counted(fs[i])
  <2>1. i \in 0..n /\ i # 0
    OBVIOUS
  <2> QED
    BY <2>1 DEF CountsBytes
<1> DEFINE S == {i \in Nat : i <= n => g[i] \in Int}
<1>3. 0 \in S
  BY <1>1
<1>4. ASSUME NEW i \in Nat, i \in S PROVE i + 1 \in S
  <2> SUFFICES ASSUME i + 1 <= n PROVE g[i + 1] \in Int
    OBVIOUS
  <2>1. i + 1 \in 1..n /\ (i + 1) - 1 = i /\ g[i] \in Int
    BY <1>4
  <2>2. g[i + 1] = g[i] + Counted(fs[i + 1])
    BY <1>2, <2>1
  <2> QED
    BY <2>1, <2>2
<1> HIDE DEF S
<1>5. Nat \subseteq S
  BY <1>3, <1>4, NatSetInduction
<1> QED
  BY <1>1, <1>2, <1>5 DEF S

(* gs has the frames of fs behind the first j, as far as the k-th.         *)
SameFrames(fs, gs, j, k) == \A i \in 1..k : gs[i] = fs[i + j]
(* The first n frames count for a number of bytes each.                    *)
AllCounted(fs, n) == \A i \in 1..n : Counted(fs[i]) \in Int
(* What h counts to k is what g counts from there on.                      *)
Later(g, h, j, k) == h[k] = g[k + j] - g[j]

(* Two counts over the same frames, one of them j frames later, differ by  *)
(* the bytes of those.                                                     *)
LEMMA CountsShifted ==
  ASSUME NEW m \in Nat, NEW n \in Nat, NEW fs, NEW gs,
         AllCounted(fs, m), AllCounted(gs, n),
         NEW g, CountsBytes(g, fs, m), NEW h, CountsBytes(h, gs, n),
         NEW j \in Nat, NEW k \in Nat, k <= n, k + j <= m,
         SameFrames(fs, gs, j, k)
  PROVE  Later(g, h, j, k)
<1> DEFINE S == {i \in Nat : i <= k => h[i] = g[i + j] - g[j]}
<1> USE DEF SameFrames, AllCounted, Later
<1>1. /\ h[0] = 0
      /\ \A i \in 1..n : h[i] = h[i - 1] + Counted(gs[i])
      /\ \A i \in 0..n : h[i] \in Int
  BY CountSteps
<1>2. /\ \A i \in 1..m : g[i] = g[i - 1] + Counted(fs[i])
      /\ \A i \in 0..m : g[i] \in Int
  BY CountSteps
<1>3. 0 \in S
  <2>1. j \in 0..m /\ 0 + j = j
    OBVIOUS
  <2> QED
    BY <1>1, <1>2, <2>1
<1>4. ASSUME NEW i \in Nat, i \in S PROVE i + 1 \in S
  <2> SUFFICES ASSUME i + 1 <= k PROVE h[i + 1] = g[(i + 1) + j] - g[j]
    OBVIOUS
  <2>1. /\ i + 1 \in 1..n /\ (i + 1) - 1 = i /\ i + 1 \in 1..k /\ i \in 0..n
        /\ (i + 1) + j \in 1..m /\ ((i + 1) + j) - 1 = i + j /\ i + j \in 0..m /\ j \in 0..m
        /\ h[i] = g[i + j] - g[j]
    BY <1>4
  <2>2. h[i + 1] = h[i] + Counted(gs[i + 1])
    BY <1>1, <2>1
  <2>3. g[(i + 1) + j] = g[i + j] + Counted(fs[(i + 1) + j])
    BY <1>2, <2>1
  <2>4. gs[i + 1] = fs[(i + 1) + j]
    BY <2>1
  <2>5. g[i + j] \in Int /\ g[j] \in Int /\ h[i] \in Int /\ Counted(fs[(i + 1) + j]) \in Int
    BY <1>1, <1>2, <2>1
  <2> QED
    BY <2>1, <2>2, <2>3, <2>4, <2>5
<1> HIDE DEF S
<1>5. Nat \subseteq S
  BY <1>3, <1>4, NatSetInduction
<1> QED
  BY <1>5 DEF S

(* A frame counts for a number of bytes.                                   *)
LEMMA CountedTyped ==
  ASSUME NEW frame \in Frame
  PROVE  Counted(frame) \in Int
BY FrameFacts DEF Counted

(* Bytes is the end of such a count.                                       *)
LEMMA BytesIsCount ==
  ASSUME NEW fs \in Seq(Frame)
  PROVE  \E g : CountsBytes(g, fs, Len(fs)) /\ Bytes(fs) = g[Len(fs)]
<1> DEFINE g == CHOOSE g : CountsBytes(g, fs, Len(fs))
<1>1. CountsBytes(g, fs, Len(fs))
  BY CountExists
<1>2. Bytes(fs) = g[Len(fs)]
  BY DEF Bytes, CountsBytes
<1> HIDE DEF g
<1> QED
  BY <1>1, <1>2

(* No frames, no bytes.                                                    *)
LEMMA BytesOfNone == Bytes(<<>>) = 0
<1> DEFINE none == <<>>
<1>1. none \in Seq(Frame) /\ Len(none) = 0
  OBVIOUS
<1> HIDE DEF none
<1>2. PICK g : CountsBytes(g, none, Len(none)) /\ Bytes(none) = g[Len(none)]
  BY <1>1, BytesIsCount
<1>3. g[0] = 0
  BY <1>1, <1>2 DEF CountsBytes
<1>4. Bytes(none) = 0
  BY <1>1, <1>2, <1>3
<1> QED
  BY <1>4 DEF none

(* Storing a frame adds its bytes.                                         *)
LEMMA BytesStored ==
  ASSUME NEW fs \in Seq(Frame), NEW frame \in Frame
  PROVE  Bytes(Append(fs, frame)) = Bytes(fs) + Counted(frame)
<1> DEFINE gs == Append(fs, frame)
           n == Len(fs)
<1>1. gs \in Seq(Frame) /\ Len(gs) = n + 1 /\ n \in Nat /\ gs[n + 1] = frame
      /\ \A i \in 1..n : gs[i] = fs[i]
  OBVIOUS
<1> HIDE DEF gs
<1>2. /\ \A i \in 1..n : Counted(fs[i]) \in Int
      /\ \A i \in 1..n + 1 : Counted(gs[i]) \in Int
  BY <1>1, CountedTyped
<1>3. PICK g : CountsBytes(g, fs, n) /\ Bytes(fs) = g[n]
  BY BytesIsCount
<1>4. PICK h : CountsBytes(h, gs, n + 1) /\ Bytes(gs) = h[n + 1]
  BY <1>1, BytesIsCount
<1> HIDE DEF n
<1>5. g[n] = h[n + 0] - h[0]
  <2>1. n \in Nat /\ n + 1 \in Nat /\ 0 \in Nat /\ n <= n /\ n + 0 <= n + 1
    BY <1>1
  <2>2. SameFrames(gs, fs, 0, n) /\ AllCounted(fs, n) /\ AllCounted(gs, n + 1)
    BY <1>1, <1>2 DEF SameFrames, AllCounted
  <2>3. Later(h, g, 0, n)
    BY <1>3, <1>4, <2>1, <2>2, CountsShifted, Zenon
  <2> QED
    BY <2>3 DEF Later
<1>6. /\ h[0] = 0
      /\ \A i \in 1..n + 1 : h[i] = h[i - 1] + Counted(gs[i])
      /\ \A i \in 0..n + 1 : h[i] \in Int
  <2>1. n + 1 \in Nat
    BY <1>1
  <2> QED
    BY <1>2, <1>4, <2>1, CountSteps
<1>7. n + 0 = n /\ n + 1 \in 1..n + 1 /\ (n + 1) - 1 = n /\ n \in 0..n + 1
  BY <1>1
<1>8. h[n + 1] = h[n] + Counted(frame) /\ h[n] \in Int
  BY <1>1, <1>6, <1>7
<1>9. h[n] = g[n]
  BY <1>5, <1>6, <1>7, <1>8
<1> QED
  BY <1>3, <1>4, <1>8, <1>9 DEF gs

(* Taking the first frame removes its bytes.                               *)
LEMMA BytesTaken ==
  ASSUME NEW fs \in Seq(Frame), fs # <<>>
  PROVE  Bytes(Tail(fs)) = Bytes(fs) - Counted(Head(fs)) /\ Bytes(fs) \in Int
<1> DEFINE gs == Tail(fs)
           n == Len(gs)
<1>1. gs \in Seq(Frame) /\ Len(fs) = n + 1 /\ n \in Nat /\ Head(fs) = fs[1]
      /\ \A i \in 1..n : gs[i] = fs[i + 1]
  OBVIOUS
<1> HIDE DEF gs
<1>2. /\ \A i \in 1..n : Counted(gs[i]) \in Int
      /\ \A i \in 1..n + 1 : Counted(fs[i]) \in Int
  BY <1>1, CountedTyped
<1>3. PICK h : CountsBytes(h, gs, n) /\ Bytes(gs) = h[n]
  BY <1>1, BytesIsCount
<1>4. PICK g : CountsBytes(g, fs, n + 1) /\ Bytes(fs) = g[n + 1]
  BY <1>1, BytesIsCount
<1> HIDE DEF n
<1>5. h[n] = g[n + 1] - g[1]
  <2>1. n \in Nat /\ n + 1 \in Nat /\ 1 \in Nat /\ n <= n /\ n + 1 <= n + 1
    BY <1>1
  <2>2. SameFrames(fs, gs, 1, n) /\ AllCounted(gs, n) /\ AllCounted(fs, n + 1)
    BY <1>1, <1>2 DEF SameFrames, AllCounted
  <2>3. Later(g, h, 1, n)
    BY <1>3, <1>4, <2>1, <2>2, CountsShifted, Zenon
  <2> QED
    BY <2>3 DEF Later
<1>6. /\ g[0] = 0
      /\ \A i \in 1..n + 1 : g[i] = g[i - 1] + Counted(fs[i])
      /\ \A i \in 0..n + 1 : g[i] \in Int
  <2>1. n + 1 \in Nat
    BY <1>1
  <2> QED
    BY <1>2, <1>4, <2>1, CountSteps
<1>7. 1 \in 1..n + 1 /\ 1 - 1 = 0 /\ n + 1 \in 0..n + 1
  BY <1>1
<1>8. g[1] = Counted(fs[1]) /\ g[n + 1] \in Int /\ Counted(fs[1]) \in Int
  BY <1>2, <1>6, <1>7
<1> QED
  BY <1>1, <1>3, <1>4, <1>5, <1>8 DEF gs

(* A step that touches neither the buffer nor the frame in the player's    *)
(* hands.                                                                  *)
LEMMA BytesUnchanged ==
  BytesAreCounted /\ UNCHANGED <<frames, pcm_size, play_state, cur_frame>>
    /\ (player_pc = "frame" => player_pc' = "frame") => BytesAreCounted'
BY DEF BytesAreCounted, EndsSong

(* A step that empties the buffer.                                         *)
LEMMA BytesEmptied == EmptyBuffer => BytesAreCounted'
BY BytesOfNone DEF EmptyBuffer, BytesAreCounted

(* The player takes off what it takes out; when it takes the end of the    *)
(* song, the count is off, and is not used again before the next song.     *)
LEMMA PlayerKeepsBytes == TypeOK /\ CreditInv /\ BytesAreCounted /\ PlayerStep => BytesAreCounted'
<1> SUFFICES ASSUME TypeOK, CreditInv, BytesAreCounted, PlayerStep PROVE BytesAreCounted'
  OBVIOUS
<1>1. CASE NoCommandPending \/ PauseCommand \/ PlayCommand
  BY <1>1, BytesUnchanged DEF NoCommandPending, PauseCommand, PlayCommand, AtCommand, bufferVars
<1>2. CASE SkipCommand \/ StopCommand
  BY <1>2, BytesEmptied DEF SkipCommand, StopCommand
<1>3. CASE WaitSong \/ WaitData
  BY <1>3, BytesUnchanged DEF WaitSong, WaitData, bufferVars
<1>4. CASE TakeFrame
  <2>1. /\ player_pc = "play" /\ play_state = "IN_SONG" /\ frames # <<>>
        /\ cur_frame' = Head(frames) /\ frames' = Tail(frames)
        /\ pcm_size' = pcm_size - Head(frames).pcm_size /\ player_pc' = "frame"
    BY <1>4 DEF TakeFrame, Shift
  <2>2. pcm_size = Bytes(frames)
    BY <2>1 DEF BytesAreCounted
  <2>3. frames \in Seq(Frame)
    BY DEF TypeOK, BufferTypeOK
  <2>4. Bytes(Tail(frames)) = Bytes(frames) - Counted(Head(frames)) /\ Bytes(frames) \in Int
    BY <2>1, <2>3, BytesTaken
  <2>5. ~EndsSong(Head(frames)) => Counted(Head(frames)) = Head(frames).pcm_size
    BY DEF Counted
  <2>6. ~EndsSong(Head(frames)) => pcm_size' = Bytes(frames')
    BY <2>1, <2>2, <2>4, <2>5
  <2> QED
    BY <2>1, <2>6 DEF BytesAreCounted, EndsSong
<1>5. CASE PlayFrame
  <2>1. /\ player_pc = "frame" /\ play_state = "IN_SONG" /\ UNCHANGED <<frames, pcm_size>>
        /\ play_state' = IF EndsSong(cur_frame) THEN "AFTER_SONG" ELSE play_state
    BY <1>5 DEF PlayFrame, Credit, CreditInv, bufferVars
  <2> QED
    BY <2>1 DEF BytesAreCounted
<1>6. CASE FinishSong
  BY <1>6 DEF FinishSong, BytesAreCounted
<1>7. ASSUME NEW type \in SongTypes, NEW start \in StartPositions, StartSong(type, start)
      PROVE  BytesAreCounted'
  <2>1. CASE type = "unknown"
    BY <1>7, <2>1 DEF StartSong, BytesAreCounted
  <2>2. CASE type # "unknown"
    BY <1>7, <2>2, BytesEmptied DEF StartSong
  <2> QED
    BY <2>1, <2>2
<1> QED
  BY <1>1, <1>2, <1>3, <1>4, <1>5, <1>6, <1>7 DEF PlayerStep

(* A sequence of at most one element that is not empty.                    *)
LEMMA OneElement ==
  ASSUME NEW S, NEW new \in Seq(S), new # <<>>, Len(new) <= 1
  PROVE  new[1] \in S /\ new = <<new[1]>>
<1> DEFINE n == Len(new)
<1>1. n \in Nat /\ n # 0 /\ n <= 1 /\ \A i \in 1..n : new[i] \in S
  OBVIOUS
<1>2. ASSUME NEW e, e = new[1], n = 1 PROVE new = <<e>>
  BY <1>2
<1> HIDE DEF n
<1>3. n = 1
  BY <1>1
<1> QED
  BY <1>1, <1>2, <1>3

(* The decoder adds what it stores.                                        *)
LEMMA PushKeepsBytes == TypeOK /\ BytesAreCounted /\ PushFrame => BytesAreCounted'
<1> SUFFICES ASSUME TypeOK, BytesAreCounted, PushFrame PROVE BytesAreCounted'
  OBVIOUS
<1>1. /\ pcm_size' = IF HaveFrame /\ ~LastFrame THEN pcm_size + new_frame[1].pcm_size ELSE pcm_size
      /\ frames' = frames \o new_frame
      /\ UNCHANGED <<play_state, cur_frame>>
      /\ player_pc = "frame" => player_pc' = "frame"
  BY DEF PushFrame, AfterNewData, Woken
<1>2. frames \in Seq(Frame) /\ new_frame \in Seq(Frame) /\ Len(new_frame) <= 1
  BY DEF TypeOK, BufferTypeOK, DecoderTypeOK
<1>3. CASE new_frame = <<>>
  <2>1. frames' = frames /\ pcm_size' = pcm_size
    BY <1>1, <1>2, <1>3 DEF HaveFrame
  <2> QED
    BY <1>1, <2>1, BytesUnchanged
<1>4. CASE new_frame # <<>>
  <2> DEFINE frame == new_frame[1]
  <2>1. frame \in Frame
    BY <1>2, <1>4, OneElement
  <2>2. new_frame = <<frame>>
    BY <1>2, <1>4, OneElement
  <2>3. frames \o new_frame = Append(frames, frame)
    <3> HIDE DEF frame
    <3> QED
      BY <1>2, <2>1, <2>2
  <2>4. pcm_size' = pcm_size + Counted(frame)
    <3>1. pcm_size \in Int /\ HaveFrame /\ (LastFrame <=> EndsSong(frame))
      BY <1>4 DEF HaveFrame, LastFrame, TypeOK, BufferTypeOK
    <3> HIDE DEF frame
    <3>2. CASE EndsSong(frame)
      BY <1>1, <3>1, <3>2 DEF Counted
    <3>3. CASE ~EndsSong(frame)
      BY <1>1, <3>1, <3>3 DEF Counted, frame
    <3> QED
      BY <3>2, <3>3
  <2> HIDE DEF frame
  <2>5. Bytes(frames') = Bytes(frames) + Counted(frame)
    BY <1>1, <1>2, <2>1, <2>3, BytesStored
  <2> QED
    BY <1>1, <2>4, <2>5 DEF BytesAreCounted, EndsSong
<1> QED
  BY <1>3, <1>4

(* The byte count the throttle looks at never drifts, however skips, stops *)
(* and undecodable frames fall between the two threads.                    *)
THEOREM ByteCountIsTrue == Spec => []BytesAreCounted
<1>1. Init => BytesAreCounted
  BY DEF Init, BytesAreCounted
<1>2. TypeOK /\ CreditInv /\ BytesAreCounted /\ [Next]_vars => BytesAreCounted'
  <2> SUFFICES ASSUME TypeOK, CreditInv, BytesAreCounted, [Next]_vars PROVE BytesAreCounted'
    OBVIOUS
  <2> USE DEF bufferVars, playerVars, Woken
  <2>1. CASE Decode \/ CheckRestart
    BY <2>1, BytesUnchanged DEF Decode, CheckRestart
  <2>2. ASSUME NEW command \in Commands, do_set_player_command(command) PROVE BytesAreCounted'
    BY <2>2, BytesUnchanged DEF do_set_player_command, AfterChanged
  <2>3. CASE do_toggle_player_command \/ setup_database
    BY <2>3, BytesUnchanged DEF do_toggle_player_command, setup_database, AfterChanged
  <2>4. CASE do_remove_playlist_entry
    BY <2>4, BytesUnchanged DEF do_remove_playlist_entry
  <2>5. CASE playlist_queue_song
    BY <2>5, BytesUnchanged DEF playlist_queue_song, AfterNotEmpty
  <2>6. CASE UNCHANGED vars
    BY <2>6, BytesUnchanged DEF vars
  <2> QED
    BY <2>1, <2>2, <2>3, <2>4, <2>5, <2>6, PlayerKeepsBytes, PushKeepsBytes
    DEF Next, DecoderStep, InputStep, SupplyStep
<1> QED
  BY <1>1, <1>2, TypeCorrect, CreditInvariance, PTL DEF Spec
=============================================================================
