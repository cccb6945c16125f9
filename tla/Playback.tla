------------------------------ MODULE Playback ------------------------------
(***************************************************************************)
(* The playback core of squash, player.c: the player thread, the           *)
(* frame_decoder thread and the frame buffer between them.                 *)
(*                                                                         *)
(* A thread's critical section under frame_buffer.lock (or under           *)
(* player_command.lock) is one action; what a thread does outside its      *)
(* locks, the decoding of a frame and the playing of one, is an action of  *)
(* its own, so that the other threads' critical sections fall in between.  *)
(* A thread waits on a condition variable in a program-counter value of    *)
(* its own, which a broadcast changes.                                     *)
(*                                                                         *)
(* Songs are numbered in the order they are opened; the number stands for  *)
(* cur_song and for the decoder that open() returned.  The samples of a    *)
(* frame are abstracted to their size; its position counts frames.         *)
(***************************************************************************)
EXTENDS Integers, Sequences

CONSTANTS
  PLAYER_MAX_BUFFER_SIZE,      (* frames in the buffer                     *)
  PLAYER_MAX_BUFFER_PCM_SIZE,  (* bytes in the buffer, not a hard limit    *)
  FrameSizes,                  (* bytes a decoded frame can have           *)
  Commands,                    (* commands the user gives, of AllCommands  *)
  SongTypes,                   (* "known" and "unknown" (TYPE_UNKNOWN)     *)
  StartPositions,              (* where the state file lets a song start   *)
  PastWanted,                  (* past_queue.wanted_size                   *)
  SongLength,                  (* bound: frames of the longest song        *)
  MaxQueued,                   (* bound: length of the playlist            *)
  MaxPlays                     (* bound: songs that are ever queued        *)

AllCommands == {"SKIP", "STOP", "PAUSE", "PLAY"}

ASSUME BufferAssumption ==
  /\ PLAYER_MAX_BUFFER_SIZE \in Nat \ {0}
  /\ PLAYER_MAX_BUFFER_PCM_SIZE \in Nat \ {0}
  /\ FrameSizes \subseteq Nat \ {0}
ASSUME InputAssumption ==
  /\ Commands \subseteq AllCommands
  /\ SongTypes \subseteq {"known", "unknown"}
  /\ StartPositions \subseteq Nat
  /\ {PastWanted, SongLength, MaxQueued, MaxPlays} \subseteq Nat

VARIABLES
  (* player_command, as the mailbox that module CommandQueue implements    *)
  pending, replaceable,
  (* frame_buffer                                                          *)
  frames, pcm_size, song_eof, new_file,
  decoder_data,     (* number of the newest decoder, 0 for NULL; also      *)
                    (* cur_song                                            *)
  (* player_info and past_queue                                            *)
  state, current_position, device, past,
  (* the player thread                                                     *)
  player_pc, play_state, cur_frame, need_more,
  (* the frame_decoder thread                                              *)
  decoder_pc,
  decoder,          (* its decoder_data while decoder_function and         *)
                    (* close_function are set, 0 while they are NULL       *)
  new_frame,        (* <<frame>> while have_new_frame, else <<>>           *)
  (* the decoders that are open: the frame each has reached                *)
  offset,
  (* song_queue and database as the player sees them                       *)
  loaded, queued,
  (* statistics the current song has gained since it was started           *)
  play_count, skip_count,
  (* history: position of the last frame of the song taken off the buffer  *)
  heard,
  (* the process has died of a bad memory access                           *)
  crashed

commandVars == <<pending, replaceable>>
bufferVars  == <<frames, pcm_size, song_eof, new_file, decoder_data>>
infoVars    == <<state, current_position, device, past, play_count, skip_count>>
playerVars  == <<player_pc, play_state, cur_frame, need_more, heard>>
decoderVars == <<decoder_pc, decoder, new_frame>>
queueVars   == <<loaded, queued>>
vars == <<commandVars, bufferVars, infoVars, playerVars, decoderVars,
          queueVars, offset, crashed>>

Mailbox == INSTANCE CommandMailbox
             WITH Commands <- AllCommands, NoCommand <- "NONE"

Open == DOMAIN offset

(* pcm_size of a frame is 0 at the end of the file, -1 for a frame that    *)
(* cannot be decoded and -2 when decoding cannot go on.                    *)
Sizes == FrameSizes \cup {0, -1, -2}
Frame == [song : Nat, pcm_size : Sizes, position : Nat]
NoFrame == [song |-> 0, pcm_size |-> 0, position |-> 0]
EndsSong(frame) == frame.pcm_size \in {0, -2}

-----------------------------------------------------------------------------
BufferInit ==
  frames = <<>> /\ pcm_size = 0 /\ song_eof = FALSE /\ new_file = FALSE /\ decoder_data = 0

Init ==
  /\ Mailbox!Init
  /\ BufferInit
  /\ state = "BIG_STOP" /\ current_position = 0
  /\ device = "closed" /\ past = <<>>
  /\ player_pc = "top" /\ play_state = "BEFORE_SONG"
  /\ cur_frame = NoFrame /\ need_more = FALSE
  /\ decoder_pc = "run" /\ decoder = 0 /\ new_frame = <<>>
  /\ offset = [d \in {} |-> 0]
  /\ loaded = FALSE /\ queued = 0
  /\ play_count = 0 /\ skip_count = 0 /\ heard = 0
  /\ crashed = FALSE

-----------------------------------------------------------------------------
(* Condition variables: the program counter of the thread that waits on    *)
(* the variable, after a broadcast (or, with one waiter, a signal) to it.  *)
Woken(pc, wait, next) == IF pc = wait THEN next ELSE pc
NoBroadcast == player_pc                                          (* Mutant *)
AfterRestart == Woken(decoder_pc, "wait", "check")
AfterChanged == Woken(player_pc, "paused", "top")
AfterNewData == Woken(player_pc, "waitData", "top")
AfterNotEmpty == Woken(player_pc, "waitSong", "play")

(* The player went around its loop with its locks held: nothing that needs *)
(* frame_buffer.lock or player_info.lock, or database_info.lock to write,  *)
(* as the playlist does, happens again.                                    *)
Wedged == player_pc = "wedged"

-----------------------------------------------------------------------------
(* The input threads and the threads that fill the playlist                *)

do_set_player_command(command) ==
  /\ ~crashed
  /\ Mailbox!Queue(command)
  /\ player_pc' = AfterChanged
  /\ UNCHANGED <<bufferVars, infoVars, play_state, cur_frame, need_more, heard,
                 decoderVars, queueVars, offset, crashed>>

(* One key toggles between playing and not: the command depends on the     *)
(* state at the time the key is pressed.                                   *)
do_toggle_player_command ==
  /\ ~crashed
  /\ ~Wedged
  /\ IF state = "BIG_STOP"
     THEN UNCHANGED commandVars
     ELSE Mailbox!Queue(IF state = "PLAY" THEN "PAUSE" ELSE "PLAY")
  /\ player_pc' = AfterChanged
  /\ UNCHANGED <<bufferVars, infoVars, play_state, cur_frame, need_more, heard,
                 decoderVars, queueVars, offset, crashed>>

(* setup_database() has loaded the file names and starts the player.       *)
setup_database ==
  /\ ~crashed
  /\ ~loaded
  /\ loaded' = TRUE
  /\ Mailbox!Queue("PLAY")
  /\ player_pc' = AfterChanged
  /\ UNCHANGED <<bufferVars, infoVars, play_state, cur_frame, need_more, heard,
                 decoderVars, queued, offset, crashed>>

(* The playlist gains a song (load_state(), playlist_manager()) ...        *)
playlist_queue_song ==
  /\ ~crashed
  /\ loaded /\ ~Wedged
  /\ queued < MaxQueued
  /\ queued + decoder_data < MaxPlays
  /\ queued' = queued + 1
  /\ player_pc' = AfterNotEmpty
  /\ UNCHANGED <<commandVars, bufferVars, infoVars, play_state, cur_frame,
                 need_more, heard, decoderVars, loaded, offset, crashed>>

(* ... or the user removes one.                                            *)
RemoveFromEmptyPlaylist ==                                        (* Mutant *)
  /\ ~crashed /\ ~Wedged
  /\ queued' = queued - 1
  /\ UNCHANGED <<commandVars, bufferVars, infoVars, playerVars, decoderVars,
                 loaded, offset, crashed>>

do_remove_playlist_entry ==
  /\ ~crashed
  /\ ~Wedged
  /\ queued > 0
  /\ queued' = queued - 1
  /\ UNCHANGED <<commandVars, bufferVars, infoVars, playerVars, decoderVars,
                 loaded, offset, crashed>>

-----------------------------------------------------------------------------
(* The player thread: commands.  Each of these actions is one pass through *)
(* the top of the loop, up to the point where the player either sleeps or  *)
(* goes on to play.                                                        *)

SleepOrPlay ==
  player_pc' = IF state' = "BIG_STOP" \/ (play_state' = "IN_SONG" /\ state' # "PLAY")
               THEN "paused" ELSE "play"

AtCommand(command) ==
  /\ ~crashed
  /\ player_pc = "top"
  /\ pending = command

EmptyBufferKeepsFrames == UNCHANGED <<frames, pcm_size>>           (* Mutant *)
EmptyBufferKeepsBytes == frames' = <<>> /\ UNCHANGED pcm_size      (* Mutant *)
EmptyBuffer == frames' = <<>> /\ pcm_size' = 0

NoCommandPending ==
  /\ AtCommand("NONE")
  /\ UNCHANGED <<commandVars, bufferVars, infoVars, play_state, cur_frame,
                 need_more, heard, decoderVars, queueVars, offset, crashed>>
  /\ SleepOrPlay

(* feedback() dereferences cur_song, which is NULL before the first song.  *)
SkipCommand ==
  /\ AtCommand("SKIP")
  /\ Mailbox!Take
  /\ EmptyBuffer
  /\ song_eof' = TRUE
  /\ play_state' = IF play_state = "IN_SONG" THEN "AFTER_SONG" ELSE play_state
  /\ IF decoder_data = 0 THEN crashed' = TRUE /\ UNCHANGED skip_count
                         ELSE skip_count' = skip_count + 1 /\ UNCHANGED crashed
  /\ UNCHANGED <<new_file, decoder_data, state, current_position, device, past,
                 play_count, cur_frame, need_more, heard, decoderVars,
                 queueVars, offset>>
  /\ SleepOrPlay

(* seek() runs in the player while the frame_decoder may be inside         *)
(* decode_frame() of the same decoder, or may have closed it already: the  *)
(* process may or may not survive that.                                    *)
SeekIsUnsafe ==
  \/ decoder_data \notin Open
  \/ decoder_pc = "run" /\ decoder = decoder_data

StopCommand ==
  /\ AtCommand("STOP")
  /\ Mailbox!Take
  /\ EmptyBuffer
  /\ state' = "STOP"
  /\ decoder_pc' = AfterRestart
  /\ IF play_state = "IN_SONG"
     THEN /\ offset' = [d \in Open |-> IF d = decoder_data THEN 0 ELSE offset[d]]
          /\ current_position' = 0
          /\ heard' = 0
          /\ crashed' \in {FALSE, SeekIsUnsafe}
     ELSE UNCHANGED <<offset, current_position, heard, crashed>>
  /\ UNCHANGED <<song_eof, new_file, decoder_data, device, past, play_count,
                 skip_count, play_state, cur_frame, need_more, decoder,
                 new_frame, queueVars>>
  /\ SleepOrPlay

PauseCommand ==
  /\ AtCommand("PAUSE")
  /\ Mailbox!Take
  /\ state' = "PAUSE"
  /\ UNCHANGED <<bufferVars, current_position, device, past, play_count,
                 skip_count, play_state, cur_frame, need_more, heard,
                 decoderVars, queueVars, offset, crashed>>
  /\ SleepOrPlay

PlayCommand ==
  /\ AtCommand("PLAY")
  /\ Mailbox!Take
  /\ state' = "PLAY"
  /\ decoder_pc' = AfterRestart
  /\ UNCHANGED <<bufferVars, current_position, device, past, play_count,
                 skip_count, play_state, cur_frame, need_more, heard, decoder,
                 new_frame, queueVars, offset, crashed>>
  /\ SleepOrPlay

-----------------------------------------------------------------------------
(* The player thread: playing.  STATE_BEFORE_SONG waits for the playlist   *)
(* and opens the next song; a song of unknown type takes `continue' while  *)
(* database_info, player_info and frame_buffer are locked.                 *)

WaitSong ==
  /\ ~crashed
  /\ player_pc = "play" /\ play_state = "BEFORE_SONG"
  /\ queued = 0
  /\ player_pc' = "waitSong"
  /\ UNCHANGED <<commandVars, bufferVars, infoVars, play_state, cur_frame,
                 need_more, heard, decoderVars, queueVars, offset, crashed>>

StartSong(type, start) ==
  /\ ~crashed
  /\ player_pc = "play" /\ play_state = "BEFORE_SONG"
  /\ queued > 0
  /\ queued' = queued - 1
  /\ current_position' = start
  /\ IF type = "unknown"
     THEN /\ player_pc' = "wedged"
          /\ UNCHANGED <<bufferVars, device, play_state, heard, decoder_pc, offset,
                         play_count, skip_count>>
     ELSE /\ decoder_data' = decoder_data + 1
          /\ offset' = [d \in Open \cup {decoder_data'} |->
                         IF d = decoder_data' THEN start ELSE offset[d]]
          /\ new_file' = TRUE
          /\ EmptyBuffer
          /\ decoder_pc' = AfterRestart
          /\ device' = "open"
          /\ play_state' = "IN_SONG"
          /\ player_pc' = "top"
          /\ heard' = start
          /\ play_count' = 0 /\ skip_count' = 0
          /\ UNCHANGED song_eof
  /\ UNCHANGED <<commandVars, state, past, cur_frame, need_more, decoder,
                 new_frame, loaded, crashed>>

(* STATE_IN_SONG: take the first frame off the buffer ...                  *)
RoomForMore(n, bytes) ==
  \/ n * 10 < PLAYER_MAX_BUFFER_SIZE * 9
  \/ bytes * 10 < PLAYER_MAX_BUFFER_PCM_SIZE * 9

(* for( x = 1; ... ) frames[x - 1] = frames[x]                             *)
ShiftFromSecond(fs) ==                                            (* Mutant *)
  IF Len(fs) > 1 THEN <<Head(fs)>> \o SubSeq(fs, 3, Len(fs)) ELSE <<>>
Shift(fs) == Tail(fs)

TakeFrame ==
  /\ ~crashed
  /\ player_pc = "play" /\ play_state = "IN_SONG"
  /\ frames # <<>>
  /\ cur_frame' = Head(frames)
  /\ frames' = Shift(frames)
  /\ pcm_size' = pcm_size - Head(frames).pcm_size
  /\ need_more' = RoomForMore(Len(frames'), pcm_size')
  /\ heard' = IF EndsSong(Head(frames)) THEN heard ELSE Head(frames).position
  /\ player_pc' = "frame"
  /\ UNCHANGED <<commandVars, song_eof, new_file, decoder_data, infoVars,
                 play_state, decoderVars, queueVars, offset, crashed>>

(* ... and, with frame_buffer unlocked, play it: the end of the song and   *)
(* an unrecoverable error count as having played the song, a recoverable   *)
(* error is passed over.  Then wake the decoder, if there is room.         *)
CreditStaysInSong ==                                              (* Mutant *)
  /\ play_count' = IF EndsSong(cur_frame) THEN play_count + 1 ELSE play_count
  /\ play_state' = IF cur_frame.pcm_size = 0 THEN "AFTER_SONG" ELSE play_state
CreditOnlyAtEof ==                                                (* Mutant *)
  /\ play_count' = IF cur_frame.pcm_size = 0 THEN play_count + 1 ELSE play_count
  /\ play_state' = IF EndsSong(cur_frame) THEN "AFTER_SONG" ELSE play_state
Credit ==
  /\ play_count' = IF EndsSong(cur_frame) THEN play_count + 1 ELSE play_count
  /\ play_state' = IF EndsSong(cur_frame) THEN "AFTER_SONG" ELSE play_state

PlayFrame ==
  /\ ~crashed
  /\ player_pc = "frame"
  /\ Credit
  /\ current_position' = IF cur_frame.pcm_size > 0 THEN cur_frame.position
                                                  ELSE current_position
  /\ decoder_pc' = IF need_more THEN AfterRestart ELSE decoder_pc
  /\ cur_frame' = NoFrame /\ need_more' = FALSE
  /\ player_pc' = "top"
  /\ UNCHANGED <<commandVars, bufferVars, state, device, past, skip_count, heard,
                 decoder, new_frame, queueVars, offset, crashed>>

(* With an empty buffer: wake the decoder and wait for data.               *)
WaitData ==
  /\ ~crashed
  /\ player_pc = "play" /\ play_state = "IN_SONG"
  /\ frames = <<>>
  /\ decoder_pc' = AfterRestart
  /\ player_pc' = "waitData"
  /\ UNCHANGED <<commandVars, bufferVars, infoVars, play_state, cur_frame,
                 need_more, heard, decoder, new_frame, queueVars, offset, crashed>>

(* STATE_AFTER_SONG: the song goes to the front of the past queue, which   *)
(* is cut to its wanted size; cutting it to 0 dereferences a NULL tail.    *)
PastKeepsOneTooMany(queue) ==                                     (* Mutant *)
  LET longer == <<decoder_data>> \o queue IN
  SubSeq(longer, 1, IF Len(longer) > PastWanted + 1 THEN PastWanted + 1 ELSE Len(longer))
done_with_song_info(queue) ==
  LET longer == <<decoder_data>> \o queue IN
  SubSeq(longer, 1, IF Len(longer) > PastWanted THEN PastWanted ELSE Len(longer))

FinishSong ==
  /\ ~crashed
  /\ player_pc = "play" /\ play_state = "AFTER_SONG"
  /\ past' = done_with_song_info(past)
  /\ crashed' = (PastWanted = 0)
  /\ device' = "closed"
  /\ play_state' = "BEFORE_SONG"
  /\ player_pc' = "top"
  /\ UNCHANGED <<commandVars, bufferVars, state, current_position, play_count,
                 skip_count, cur_frame, need_more, heard, decoderVars,
                 queueVars, offset>>

-----------------------------------------------------------------------------
(* The frame_decoder thread.  A frame is decoded without any lock ...      *)
Decoded(d) ==
  { [song |-> d, pcm_size |-> size,
     position |-> IF size \in {0, -2} THEN offset[d] ELSE offset[d] + 1] :
      size \in IF offset[d] < SongLength THEN Sizes ELSE {0, -2} }

Decode ==
  /\ ~crashed
  /\ decoder_pc = "run"
  /\ decoder_pc' = "push"
  /\ IF decoder = 0
     THEN UNCHANGED <<new_frame, offset>>
     ELSE \E frame \in Decoded(decoder) :
            /\ new_frame' = <<frame>>
            /\ offset' = [offset EXCEPT ![decoder] = frame.position]
  /\ UNCHANGED <<commandVars, bufferVars, infoVars, playerVars, decoder,
                 queueVars, crashed>>

(* ... and then, under frame_buffer.lock, in this order: a song that the   *)
(* player has given up is closed; the frame, if it is the last of its      *)
(* song, closes the decoder; the frame is put into the buffer, its samples *)
(* copied out of the decoder's memory, closed or not; a new song is taken  *)
(* over; and the thread waits until there is room and something to decode. *)
CanDecodeOneMore(fs, bytes, d, new) ==                            (* Mutant *)
  /\ Len(fs) <= PLAYER_MAX_BUFFER_SIZE
  /\ bytes < PLAYER_MAX_BUFFER_PCM_SIZE
  /\ d # 0 \/ new
CanDecode(fs, bytes, d, new) ==
  /\ Len(fs) < PLAYER_MAX_BUFFER_SIZE
  /\ bytes < PLAYER_MAX_BUFFER_PCM_SIZE
  /\ d # 0 \/ new

HaveFrame == new_frame # <<>>
LastFrame == HaveFrame /\ EndsSong(new_frame[1])
ClosesDecoder == decoder # 0 /\ (song_eof \/ LastFrame)
CopiesFreedSamples ==
  HaveFrame /\ decoder # 0 /\ song_eof /\ new_frame[1].pcm_size > 0

NextDecoderNotReset == IF new_file THEN decoder_data ELSE decoder  (* Mutant *)
NextDecoder == IF new_file THEN decoder_data
               ELSE IF ClosesDecoder THEN 0 ELSE decoder

PushFrame ==
  /\ ~crashed
  /\ decoder_pc = "push" /\ ~Wedged
  /\ song_eof' = (song_eof /\ ~ClosesDecoder)
  /\ offset' = [d \in (IF ClosesDecoder THEN Open \ {decoder} ELSE Open) |-> offset[d]]
  /\ pcm_size' = IF HaveFrame /\ ~LastFrame THEN pcm_size + new_frame[1].pcm_size
                                            ELSE pcm_size
  /\ player_pc' = IF HaveFrame /\ frames = <<>> THEN AfterNewData ELSE player_pc
  /\ frames' = frames \o new_frame
  /\ new_frame' = <<>>
  /\ crashed' \in {FALSE, CopiesFreedSamples}
  /\ decoder' = NextDecoder
  /\ new_file' = FALSE
  /\ decoder_pc' = IF CanDecode(frames', pcm_size', decoder', FALSE) THEN "run" ELSE "wait"
  /\ UNCHANGED <<commandVars, decoder_data, infoVars, play_state, cur_frame,
                 need_more, heard, queueVars>>

(* A broadcast to restart makes the thread look at the condition again.    *)
CheckRestart ==
  /\ ~crashed
  /\ decoder_pc = "check" /\ ~Wedged
  /\ decoder_pc' = IF CanDecode(frames, pcm_size, decoder, new_file) THEN "run" ELSE "wait"
  /\ UNCHANGED <<commandVars, bufferVars, infoVars, playerVars, decoder,
                 new_frame, queueVars, offset, crashed>>

-----------------------------------------------------------------------------
PlayerStep ==
  \/ NoCommandPending \/ SkipCommand \/ StopCommand \/ PauseCommand \/ PlayCommand
  \/ WaitSong \/ TakeFrame \/ PlayFrame \/ WaitData \/ FinishSong
  \/ \E type \in SongTypes, start \in StartPositions : StartSong(type, start)

DecoderStep == Decode \/ PushFrame \/ CheckRestart

InputStep ==
  \/ \E command \in Commands : do_set_player_command(command)
  \/ do_toggle_player_command
  \/ do_remove_playlist_entry

SupplyStep == setup_database \/ playlist_queue_song

Next == PlayerStep \/ DecoderStep \/ InputStep \/ SupplyStep

(* Every thread is scheduled, and no lock is held forever by a thread that *)
(* is not itself waiting; users owe the program nothing.                   *)
Fairness ==
  /\ WF_vars(PlayerStep)
  /\ WF_vars(DecoderStep)
  /\ WF_vars(SupplyStep)

Spec == Init /\ [][Next]_vars
FairSpec == Spec /\ Fairness

-----------------------------------------------------------------------------
BufferTypeOK ==
  /\ frames \in Seq(Frame) /\ pcm_size \in Int
  /\ song_eof \in BOOLEAN /\ new_file \in BOOLEAN /\ decoder_data \in Nat
InfoTypeOK ==
  /\ state \in {"PLAY", "PAUSE", "STOP", "BIG_STOP"}
  /\ current_position \in Nat
  /\ device \in {"open", "closed"} /\ past \in Seq(Nat)
  /\ play_count \in Nat /\ skip_count \in Nat
PlayerTypeOK ==
  /\ player_pc \in {"top", "paused", "play", "frame", "waitSong", "waitData", "wedged"}
  /\ play_state \in {"BEFORE_SONG", "IN_SONG", "AFTER_SONG"}
  /\ cur_frame \in Frame /\ need_more \in BOOLEAN /\ heard \in Nat
DecoderTypeOK ==
  /\ decoder_pc \in {"run", "push", "wait", "check"}
  /\ decoder \in Nat
  /\ new_frame \in Seq(Frame) /\ Len(new_frame) <= 1
  /\ Open \subseteq 1..decoder_data /\ offset \in [Open -> Nat]
QueueTypeOK == loaded \in BOOLEAN /\ queued \in Nat /\ crashed \in BOOLEAN
TypeOK ==
  Mailbox!TypeOK /\ BufferTypeOK /\ InfoTypeOK /\ PlayerTypeOK /\ DecoderTypeOK /\ QueueTypeOK

(* frame_buffer.frames is an array of PLAYER_MAX_BUFFER_SIZE frames and    *)
(* frame_decoder() writes frames[size] without looking at size: it looked  *)
(* before it gave up the lock to decode.  Whatever the player does to the  *)
(* buffer in the meantime, the write stays inside the array.               *)
BufferBounded == Len(frames) <= PLAYER_MAX_BUFFER_SIZE

(* decode_frame() and close() are only called on a decoder that open()     *)
(* returned and that was not closed since, and the decoder handed over     *)
(* with new_file is open too: across skips, stops, the end of the file and *)
(* the next song's open, which come from two threads.                      *)
NoUseAfterClose ==
  /\ decoder # 0 => decoder \in Open
  /\ new_file => decoder_data \in Open

(* A skip can leave one frame of the song before in the buffer, and a stop *)
(* one frame from before the rewind, but never more than one: behind the   *)
(* first frame the buffer holds consecutive frames of the current song.    *)
BufferIsOneSong ==
  \A i \in 2..Len(frames) :
    /\ frames[i].song = decoder_data
    /\ i > 2 => frames[i].position = frames[i-1].position
                                     + IF EndsSong(frames[i]) THEN 0 ELSE 1
    /\ EndsSong(frames[i]) => i = Len(frames)

(* The bytes a frame counts for: recoverable errors -1, the last frame of  *)
(* a song nothing.                                                         *)
Counted(frame) == IF EndsSong(frame) THEN 0 ELSE frame.pcm_size
Bytes(fs) ==
  LET sum[n \in 0..Len(fs)] == IF n = 0 THEN 0 ELSE sum[n - 1] + Counted(fs[n])
  IN  sum[Len(fs)]

(* frame_buffer.pcm_size is the number of bytes in the buffer as long as   *)
(* the song goes on: the throttle of frame_decoder() neither starves nor   *)
(* overfills the buffer because of a frame that was counted on only one    *)
(* side.                                                                   *)
BytesAreCounted ==
  play_state = "IN_SONG" /\ ~(player_pc = "frame" /\ EndsSong(cur_frame)) =>
    pcm_size = Bytes(frames)

(* A song is credited as played at most once, and not before the player    *)
(* leaves it, however skips and the end of the file race.                  *)
CreditedOnce ==
  /\ play_count <= 1
  /\ play_state = "IN_SONG" => play_count = 0 /\ skip_count = 0

(* The past queue is the tail of the listening history: the last songs the *)
(* player was done with, newest first, none missing and none twice.        *)
PastIsHistory ==
  LET finished == IF play_state = "BEFORE_SONG" THEN decoder_data ELSE decoder_data - 1
  IN  ~crashed /\ decoder_data > 0 =>
        /\ Len(past) = IF finished < PastWanted THEN finished ELSE PastWanted
        /\ \A i \in DOMAIN past : past[i] = finished - i + 1

(* Without skip and stop: nothing the two threads do kills the process,    *)
(* and a song ends when, and only when, all its frames up to the end the   *)
(* decoder found have been taken off the buffer; it then gains exactly one *)
(* play.                                                                   *)
WholeSongPlayed ==
  /\ ~crashed
  /\ player_pc = "frame" /\ EndsSong(cur_frame) =>
       cur_frame.song = decoder_data /\ cur_frame.position = heard
  /\ decoder_data > 0 =>
       play_count + skip_count = IF play_state = "IN_SONG" THEN 0 ELSE 1

(* Without skip and stop: what is heard is what SongPlayer allows.         *)
Listener == INSTANCE SongPlayer
              WITH song <- decoder_data, playing <- play_state = "IN_SONG"
ListenerSpec == Listener!Spec

(* Once the player is left in PLAY, every song it starts comes to an end:  *)
(* the two threads never both wait for the other.                          *)
SongsFinish ==
  <>[](state = "PLAY") => []<>(play_state # "IN_SONG" \/ crashed)

(* The player gets to every pending command, unless it has no song and the *)
(* playlist stays empty.                                                   *)
CommandsObeyed == pending # "NONE" ~> (pending = "NONE" \/ player_pc = "waitSong")

(* "Skips the currently played song" (doc/USERS_GUIDE): no frame of a song *)
(* is played once the player has gone on to the next.                      *)
SkipLeavesSong ==
  player_pc = "frame" /\ cur_frame.pcm_size > 0 => cur_frame.song = decoder_data

(* "Make sure this is a file we can deal with" (player.c): the player      *)
(* passes over a song of unknown type and goes on.                         *)
UnknownSongPassedOver == ~Wedged

=============================================================================
