------------------------------ MODULE AudioOut ------------------------------
(***************************************************************************)
(* Where a decoded frame goes: the ring buffer of the spectrum analyser    *)
(* (spectrum.c), the detection of silence (player.c), and the sound device *)
(* of the empeg with its buffer and its volume (sound.c).  The player      *)
(* gives a frame to each in turn; the user turns the volume in between.    *)
(*                                                                         *)
(* A frame is the sequence of its bytes, of which only whether they are    *)
(* zero matters.  The bytes given to the device are numbered modulo        *)
(* ByteNumbers, and a slot of the ring holds the age of its sample: how    *)
(* many samples have been added after it.                                  *)
(***************************************************************************)
EXTENDS Integers, Sequences, FiniteSets

CONSTANTS
  Frames,                    \* the frames there are: sequences of BOOLEAN, TRUE for a zero byte
  EMPEG_AUDIO_BUFFER_SIZE,   \* bytes
  SPECTRUM_RING_SIZE,        \* samples of four bytes
  one_second,                \* bytes of silence that are played
  FullVolume,                \* 100
  VolumeStep                 \* 2

ASSUME AudioOutAssumption ==
  /\ Frames \subseteq Seq(BOOLEAN)
  /\ \A f \in Frames : Len(f) >= 4    \* one sample at least; the player drops empty frames
  /\ \E n \in {Len(f) : f \in Frames} : \A f \in Frames : Len(f) <= n
  /\ {EMPEG_AUDIO_BUFFER_SIZE, one_second, FullVolume, VolumeStep} \subseteq Nat \ {0}
  /\ SPECTRUM_RING_SIZE \in Nat /\ SPECTRUM_RING_SIZE > 2

VARIABLES
  device,            \* player_info.device: NULL, an open device, or one that was freed
  volume, mixer,     \* of the device, and of the hardware
  left,              \* bytes of the current frame sound_play() has not copied yet
  buffer,            \* the device's buffer
  given, written,    \* history: bytes given to sound_play(), bytes the hardware has got
  garbled,           \* history: the hardware got something else than the next bytes
  silence_duration,
  quiet,             \* history: bytes of silent frames since the last one that was not
  ring, head, tail,  \* spectrum_ring
  channels,          \* spectrum_info.sound_format
  status             \* "running", or how the program ended

soundVars == <<buffer, given, written, garbled>>
silenceVars == <<silence_duration, quiet>>
ringVars == <<ring, head, tail, channels>>
vars == <<device, volume, mixer, left, soundVars, silenceVars, ringVars, status>>

ByteNumbers == EMPEG_AUDIO_BUFFER_SIZE + 1
Never == -1
TooOld == 2 * SPECTRUM_RING_SIZE   \* bound: ages are told apart up to here
Slots == 0..(SPECTRUM_RING_SIZE - 1)
LongestFrame == CHOOSE n \in {Len(f) : f \in Frames} : \A f \in Frames : Len(f) <= n
SilenceBound == one_second + LongestFrame  \* bound: more silence makes no difference

NumbersFrom(n, count) == [j \in 1..count |-> (n + j) % ByteNumbers]

-----------------------------------------------------------------------------
(* The spectrum analyser's ring                                            *)

\* The slots a frame of n samples is copied to: sample j of it goes to slot Place(j).  If it reaches
\* the end of the ring, the last slot is left out and what remains goes to the front.
Wraps(n) == tail + n >= SPECTRUM_RING_SIZE
first_add(n) == IF Wraps(n) THEN SPECTRUM_RING_SIZE - tail - 1 ELSE n
Place(n, j) == IF j < first_add(n) THEN tail + j ELSE j - first_add(n)
second_add(n) == n - first_add(n)

\* The age of slot s after a frame of n samples was added.
Aged(age, n) == IF age = Never THEN Never ELSE IF age + n > TooOld THEN TooOld ELSE age + n
Added(n) ==
  [s \in Slots |->
     LET here == {j \in 0..(n - 1) : Place(n, j) = s} IN
     IF here = {} THEN Aged(ring[s], n) ELSE n - 1 - (CHOOSE j \in here : \A k \in here : j >= k)]

Full == (tail + 1) % SPECTRUM_RING_SIZE = head
cur_size == (tail - head + SPECTRUM_RING_SIZE) % SPECTRUM_RING_SIZE
NewHead(n, newTail) ==
  IF Full \/ cur_size + n >= SPECTRUM_RING_SIZE THEN (newTail + 1) % SPECTRUM_RING_SIZE ELSE head

\* Copying more than the ring has room for writes behind it.
Overruns(n) == first_add(n) > SPECTRUM_RING_SIZE - tail \/ second_add(n) > SPECTRUM_RING_SIZE
spectrum_update(n) ==
  /\ ring' = Added(n)
  /\ tail' = (tail + n) % SPECTRUM_RING_SIZE
  /\ head' = NewHead(n, tail')
  /\ UNCHANGED channels

ResetKeepsHead(c) ==                                              \* Mutant
  /\ tail' = 0 /\ channels' = c
  /\ ring' = [s \in Slots |-> IF ring[s] = Never THEN Never ELSE TooOld]
  /\ UNCHANGED head
spectrum_reset(c) ==
  /\ head' = 0 /\ tail' = 0 /\ channels' = c
  /\ ring' = [s \in Slots |-> IF ring[s] = Never THEN Never ELSE TooOld]

\* The slots spectrum_prepare_render() reads: it counts 16-bit numbers, of which a slot has two.
ReadsWholeSlots ==                                                 \* Mutant
  IF ~Full THEN {}
  ELSE {(head + j) % SPECTRUM_RING_SIZE : j \in 0..(SPECTRUM_RING_SIZE - 2)}
spectrum_prepare_render ==
  IF ~Full THEN {}
  ELSE {((head + j) % SPECTRUM_RING_SIZE) \div 2 : j \in 0..((SPECTRUM_RING_SIZE - 1) * channels - 1)}

-----------------------------------------------------------------------------
(* Silence                                                                 *)
Zeros(f, i) == Cardinality({j \in 1..i : f[j]})
threshold(f) == (Len(f) * 30) \div 100

\* The first byte at which the loop can tell, and what it tells.
TellsSilent(f, i) == f[i] /\ Zeros(f, i) >= threshold(f)
TellsLoudTooEarly(f, i) == ~f[i] /\ threshold(f) - Zeros(f, i) + 1 >= Len(f) - (i - 1)  \* Mutant
TellsLoud(f, i) == ~f[i] /\ threshold(f) - Zeros(f, i) >= Len(f) - (i - 1)
Telling(f) == {i \in 1..Len(f) : TellsSilent(f, i) \/ TellsLoud(f, i)}
Capped(n) == IF n > SilenceBound THEN SilenceBound ELSE n
detect_silence(f) ==
  IF Telling(f) = {} THEN silence_duration
  ELSE LET i == CHOOSE k \in Telling(f) : \A j \in Telling(f) : k <= j
       IN  IF TellsSilent(f, i) THEN Capped(silence_duration + Len(f)) ELSE 0

\* What a silent frame is.
Silent(f) == Zeros(f, Len(f)) > 0 /\ Zeros(f, Len(f)) >= threshold(f)

-----------------------------------------------------------------------------
(* The sound device                                                        *)
Playing == status = "running" /\ device = "open"
Idle == left = 0

Within(v) == IF v > FullVolume THEN FullVolume ELSE IF v < 0 THEN 0 ELSE v

sound_open ==
  /\ status = "running" /\ device # "open"
  /\ device' = "open"
  /\ buffer' = <<>> /\ given' = 0 /\ written' = 0
  /\ volume' = mixer
  /\ UNCHANGED <<mixer, garbled>>

\* The player opens the device for a song and resets the analyser.
StartSong(c) ==
  /\ Idle /\ sound_open
  /\ silence_duration' = 0 /\ quiet' = 0
  /\ spectrum_reset(c)
  /\ UNCHANGED <<left, status>>

\* The player takes a frame: the analyser gets it, and the device if there has not been too much
\* silence.
PlayFrame(f) ==
  LET n == Len(f) \div 4 IN
  /\ Playing /\ Idle
  /\ IF Overruns(n)
     THEN status' = "overrun" /\ UNCHANGED <<ringVars, silenceVars, left, given>>
     ELSE /\ spectrum_update(n)
          /\ silence_duration' = detect_silence(f)
          /\ quiet' = IF Silent(f) THEN Capped(quiet + Len(f)) ELSE 0
          /\ left' = IF silence_duration' > one_second THEN 0 ELSE Len(f)
          /\ given' = (given + left') % ByteNumbers
          /\ UNCHANGED status
  /\ UNCHANGED <<device, volume, mixer, buffer, written, garbled>>

Write(bytes) ==
  /\ written' = (written + Len(bytes)) % ByteNumbers
  /\ garbled' = (garbled \/ bytes # NumbersFrom(written, Len(bytes)))

\* One round of the loop in sound_play().
sound_play ==
  LET remain == EMPEG_AUDIO_BUFFER_SIZE - Len(buffer)
      copy == IF left > remain THEN remain ELSE left
      filled == buffer \o NumbersFrom(given - left, copy)
  IN  /\ Playing /\ left > 0
      /\ left' = left - copy
      /\ IF Len(filled) = EMPEG_AUDIO_BUFFER_SIZE
         THEN Write(filled) /\ buffer' = <<>>
         ELSE buffer' = filled /\ UNCHANGED <<written, garbled>>
      /\ UNCHANGED <<device, volume, mixer, given, silenceVars, ringVars, status>>

\* The rest of the buffer is filled up with zeros and written; player_info.device is left pointing
\* to the memory that was freed.
CloseDropsRest ==                                                  \* Mutant
  /\ Playing /\ Idle
  /\ device' = "freed" /\ buffer' = <<>>
  /\ UNCHANGED <<volume, mixer, left, given, written, garbled, silenceVars, ringVars, status>>
sound_close ==
  /\ Playing /\ Idle
  /\ Write(buffer) /\ buffer' = <<>>
  /\ device' = "freed"
  /\ UNCHANGED <<volume, mixer, left, given, silenceVars, ringVars, status>>

sound_adjust_volume(adjustment) ==
  /\ status = "running"
  /\ \/ device = "NULL" /\ UNCHANGED <<volume, mixer, status>>
     \/ /\ device = "open"
        /\ volume' = Within(volume + adjustment)
        /\ mixer' = volume'
        /\ UNCHANGED status
     \/ /\ device = "freed"
        /\ status' \in {"running", "crashed"}
        /\ UNCHANGED <<volume, mixer>>
  /\ UNCHANGED <<device, left, soundVars, silenceVars, ringVars>>

\* save_state() and draw_empeg_display() look at the volume of any device that is not NULL.
ReadVolume ==
  /\ status = "running" /\ device = "freed"
  /\ status' \in {"running", "crashed"}
  /\ UNCHANGED <<device, volume, mixer, left, soundVars, silenceVars, ringVars>>

spectrum_init ==
  /\ ring = [s \in Slots |-> Never] /\ head = 0 /\ tail = 0 /\ channels = 2

Init ==
  /\ device = "NULL" /\ volume = 0 /\ mixer \in 0..FullVolume
  /\ left = 0 /\ buffer = <<>> /\ given = 0 /\ written = 0 /\ garbled = FALSE
  /\ silence_duration = 0 /\ quiet = 0
  /\ spectrum_init
  /\ status = "running"

Next ==
  \/ \E c \in {1, 2} : StartSong(c)
  \/ \E f \in Frames : PlayFrame(f)
  \/ sound_play \/ sound_close \/ ReadVolume
  \/ \E a \in {-VolumeStep, VolumeStep} : sound_adjust_volume(a)

Spec == Init /\ [][Next]_vars

-----------------------------------------------------------------------------
\* Every variable has its type.
TypeOK ==
  /\ device \in {"NULL", "open", "freed"} /\ {volume, mixer} \subseteq 0..FullVolume
  /\ left \in 0..LongestFrame
  /\ {given, written} \subseteq 0..(ByteNumbers - 1)
  /\ buffer \in Seq(0..(ByteNumbers - 1)) /\ Len(buffer) < EMPEG_AUDIO_BUFFER_SIZE
  /\ garbled \in BOOLEAN /\ {silence_duration, quiet} \subseteq 0..SilenceBound
  /\ ring \in [Slots -> {Never} \cup 0..TooOld] /\ {head, tail} \subseteq Slots
  /\ channels \in {1, 2} /\ status \in {"running", "overrun", "crashed"}

(***************************************************************************)
(* Frames of any size, in any order, cut into the device's buffers: the    *)
(* hardware gets every byte of a song once and in order (sound.c 157-175), *)
(* the last ones when the device is closed; and it has the volume shown,   *)
(* whatever was turned in this song or an earlier one.                     *)
(***************************************************************************)
DeviceGetsAll ==
  /\ ~garbled
  /\ buffer = NumbersFrom(written, Len(buffer))
  /\ device = "open" => (written + Len(buffer) + left) % ByteNumbers = given
  /\ device = "freed" => written = given
  /\ device = "open" => volume = mixer /\ volume \in 0..FullVolume

(***************************************************************************)
(* The loop of detect_silence(), which stops at the first byte that        *)
(* decides, comes to what counting all the zeros of a frame would: music   *)
(* is dropped only after more than a second of silent frames in a row.     *)
(***************************************************************************)
SilenceIsSilence == silence_duration = quiet

(***************************************************************************)
(* The window of a full ring, from head to the slot before tail, holds     *)
(* samples of this song from the oldest to the newest, none older than the *)
(* ring is long; except the last slot of the ring, which spectrum_update() *)
(* writes only if a frame as long as the ring begins there, and            *)
(* spectrum_prepare_render() never reads.                                  *)
(***************************************************************************)
Window == {(head + j) % SPECTRUM_RING_SIZE : j \in 0..(SPECTRUM_RING_SIZE - 2)}
Order(s) == (s - head + SPECTRUM_RING_SIZE) % SPECTRUM_RING_SIZE
WindowFresh ==
  /\ Full => \A s, t \in Window \ {SPECTRUM_RING_SIZE - 1} :
            /\ ring[s] \in 0..SPECTRUM_RING_SIZE
            /\ Order(s) < Order(t) => ring[s] > ring[t]
  /\ \A s \in spectrum_prepare_render : ring[s] \in 0..SPECTRUM_RING_SIZE
=============================================================================
