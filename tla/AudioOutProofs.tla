--------------------------- MODULE AudioOutProofs ---------------------------
(***************************************************************************)
(* Theorems about AudioOut, for frames of any number and size, any buffer  *)
(* of the device and any ring of the analyser: the hardware gets the bytes *)
(* of a song once and in order, the loop that looks for silence finds it   *)
(* when it is there, and the analyser sees the newest samples in order.    *)
(***************************************************************************)
EXTENDS AudioOut, FiniteSetTheorems, SequenceTheorems, WellFoundedInduction, TLAPS

-----------------------------------------------------------------------------
(* Arithmetic                                                              *)

\* Division with remainder.
LEMMA DivMod ==
  ASSUME NEW x \in Int, NEW m \in Nat \ {0}
  PROVE  x = m * (x \div m) + (x % m)
  OBVIOUS

\* The remainder is determined by what it is for.
LEMMA ModUnique ==
  ASSUME NEW x \in Int, NEW m \in Nat \ {0}, NEW q \in Int, NEW r \in 0..(m - 1), x = m * q + r
  PROVE  x % m = r
  OBVIOUS

\* Numbers below m are their own remainder, and those of the next round are one round too large.
LEMMA ModSmall ==
  ASSUME NEW m \in Nat \ {0}, NEW x \in 0..(2 * m - 1)
  PROVE  x % m = IF x < m THEN x ELSE x - m
<1>1. CASE x < m
  BY <1>1
<1>2. CASE ~(x < m)
  BY <1>2
<1> QED
  BY <1>1, <1>2

\* Adding to a remainder is adding to the number.
LEMMA ModPlus ==
  ASSUME NEW x \in Int, NEW m \in Nat \ {0}, NEW c \in Int
  PROVE  ((x % m) + c) % m = (x + c) % m
<1> DEFINE q == x \div m
           r == x % m
           s == (r + c) \div m
           t == (r + c) % m
<1>1. q \in Int /\ r \in 0..(m - 1) /\ x = m * q + r
  BY DivMod
<1> HIDE DEF q, r
<1>2. s \in Int /\ t \in 0..(m - 1) /\ r + c = m * s + t
  BY <1>1, DivMod
<1> HIDE DEF s, t
<1>3. x + c = m * (q + s) + t
  BY <1>1, <1>2
<1>4. (x + c) % m = t
  <2>1. q + s \in Int /\ x + c \in Int
    BY <1>1, <1>2
  <2> QED
    BY <1>2, <1>3, <2>1, ModUnique
<1> QED
  BY <1>4 DEF r, t

\* A set of numbers that is not empty has a smallest one.
LEMMA LeastNumber ==
  ASSUME NEW S \in SUBSET Nat, S # {}
  PROVE  \E m \in S : \A k \in S : m <= k
<1>1. PICK n \in S : \A k \in S : ~(<<k, n>> \in OpToRel(<, Nat))
  BY WFMin, NatLessThanWellFounded, Zenon
<1>2. ASSUME NEW k \in S, k < n PROVE FALSE
  BY <1>1, <1>2 DEF OpToRel
<1>3. ASSUME NEW k \in S PROVE n <= k
  BY <1>2
<1> QED
  BY <1>3

-----------------------------------------------------------------------------
(* The constants                                                           *)

\* What the proofs use of the assumption on the sizes.
LEMMA Sizes ==
  /\ EMPEG_AUDIO_BUFFER_SIZE \in Nat \ {0} /\ one_second \in Nat \ {0}
  /\ FullVolume \in Nat \ {0} /\ VolumeStep \in Nat \ {0}
  /\ ByteNumbers \in Nat \ {0}
  /\ SPECTRUM_RING_SIZE \in Nat /\ SPECTRUM_RING_SIZE > 2
  BY AudioOutAssumption DEF ByteNumbers

\* No frame is longer than the longest, nor shorter than a sample.
LEMMA FrameLengths ==
  /\ LongestFrame \in Nat
  /\ \A f \in Frames : f \in Seq(BOOLEAN) /\ Len(f) \in 4..LongestFrame
<1> DEFINE lengths == {Len(f) : f \in Frames}
<1>1. LongestFrame \in lengths /\ \A f \in Frames : Len(f) <= LongestFrame
  BY AudioOutAssumption DEF LongestFrame
<1>2. \A f \in Frames : f \in Seq(BOOLEAN) /\ Len(f) \in Nat /\ Len(f) >= 4
  BY AudioOutAssumption
<1> QED
  BY <1>1, <1>2

-----------------------------------------------------------------------------
(* The device's buffer                                                     *)

\* Numbered bytes are a sequence of numbers.
LEMMA NumbersType ==
  ASSUME NEW n \in Int, NEW count \in Nat
  PROVE  /\ NumbersFrom(n, count) \in Seq(0..(ByteNumbers - 1))
         /\ Len(NumbersFrom(n, count)) = count
         /\ \A j \in 1..count : NumbersFrom(n, count)[j] = (n + j) % ByteNumbers
<1> DEFINE B == ByteNumbers
<1>1. B \in Nat \ {0}
  BY Sizes
<1> HIDE DEF B
<1>2. \A j \in 1..count : (n + j) % B \in 0..(B - 1)
  BY <1>1
<1>3. NumbersFrom(n, count) = [j \in 1..count |-> (n + j) % B]
  BY DEF NumbersFrom, B
<1>4. NumbersFrom(n, count) \in Seq(0..(B - 1)) /\ Len(NumbersFrom(n, count)) = count
  BY <1>2, <1>3
<1> QED
  BY <1>3, <1>4 DEF B

\* Two runs of bytes, of which the second goes on where the first ends, are one run.
LEMMA NumbersJoin ==
  ASSUME NEW n \in Int, NEW m \in Int, NEW k \in Nat, NEW c \in Nat,
         m % ByteNumbers = (n + k) % ByteNumbers
  PROVE  NumbersFrom(n, k) \o NumbersFrom(m, c) = NumbersFrom(n, k + c)
<1> DEFINE B == ByteNumbers
           x == NumbersFrom(n, k)
           y == NumbersFrom(m, c)
           z == NumbersFrom(n, k + c)
<1>1. B \in Nat \ {0}
  BY Sizes
<1>2. /\ x \in Seq(0..(B - 1)) /\ Len(x) = k /\ \A j \in 1..k : x[j] = (n + j) % B
      /\ y \in Seq(0..(B - 1)) /\ Len(y) = c /\ \A j \in 1..c : y[j] = (m + j) % B
      /\ z \in Seq(0..(B - 1)) /\ Len(z) = k + c /\ \A j \in 1..(k + c) : z[j] = (n + j) % B
  BY NumbersType
<1>3. m % B = (n + k) % B
  OBVIOUS
<1> HIDE DEF B, x, y, z
<1>4. ASSUME NEW j \in 1..c PROVE (m + j) % B = (n + (k + j)) % B
  <2>0. j \in Int /\ n + k \in Int
    OBVIOUS
  <2>1. (m + j) % B = ((m % B) + j) % B
    BY <1>1, <2>0, ModPlus
  <2>2. (((n + k) % B) + j) % B = ((n + k) + j) % B
    BY <1>1, <2>0, ModPlus
  <2>3. (n + k) + j = n + (k + j)
    OBVIOUS
  <2> QED
    BY <1>3, <2>1, <2>2, <2>3
<1>5. x \o y \in Seq(0..(B - 1)) /\ Len(x \o y) = k + c
  BY <1>2
<1>6. ASSUME NEW j \in 1..(k + c) PROVE (x \o y)[j] = z[j]
  <2>1. CASE j <= k
    BY <1>2, <2>1
  <2>2. CASE ~(j <= k)
    <3>1. PICK i \in 1..c : j = k + i
      <4>1. j - k \in 1..c /\ j = k + (j - k)
        BY <2>2
      <4> QED
        BY <4>1
    <3>2. (x \o y)[j] = IF j <= Len(x) THEN x[j] ELSE y[j - Len(x)]
      <4>1. j \in 1..(Len(x) + Len(y))
        BY <1>2
      <4> QED
        BY <1>2, <4>1, ConcatProperties
    <3>3. j - Len(x) = i /\ ~(j <= Len(x))
      BY <1>2, <2>2, <3>1
    <3> QED
      BY <1>2, <1>4, <3>1, <3>2, <3>3
  <2> QED
    BY <2>1, <2>2
<1>7. x \o y = z
  BY <1>2, <1>5, <1>6, SeqEqual
<1> QED
  BY <1>7 DEF x, y, z

\* What the invariant of the device rests on: the types of its part of the state, and that a frame
\* is only being played while the device is open.
SoundTypes ==
  /\ device \in {"NULL", "open", "freed"} /\ mixer \in 0..FullVolume
  /\ left \in Nat /\ given \in 0..(ByteNumbers - 1) /\ written \in 0..(ByteNumbers - 1)
  /\ buffer \in Seq(0..(ByteNumbers - 1)) /\ Len(buffer) < EMPEG_AUDIO_BUFFER_SIZE
  /\ device # "open" => left = 0

SoundInv == SoundTypes /\ DeviceGetsAll

\* Nothing has been given to the device at first.
LEMMA InitSound == Init => SoundInv
<1> SUFFICES ASSUME Init PROVE SoundInv
  OBVIOUS
<1>1. SoundTypes
  BY Sizes DEF Init, SoundTypes
<1>2. buffer = NumbersFrom(written, Len(buffer))
  <2>1. NumbersFrom(written, 0) = <<>> /\ Len(buffer) = 0
    BY DEF NumbersFrom, Init
  <2> QED
    BY <2>1 DEF Init
<1> QED
  BY <1>1, <1>2 DEF Init, SoundInv, DeviceGetsAll

\* Opening the device for a song.
LEMMA OpenSound ==
  ASSUME SoundInv, NEW c, StartSong(c)
  PROVE  SoundInv'
<1>1. /\ device' = "open" /\ buffer' = <<>> /\ given' = 0 /\ written' = 0 /\ volume' = mixer
      /\ mixer' = mixer /\ garbled' = garbled /\ left' = left /\ left = 0
  BY DEF StartSong, sound_open, Idle
<1>2. SoundTypes'
  BY <1>1, Sizes DEF SoundInv, SoundTypes
<1>3. buffer' = NumbersFrom(written', Len(buffer')) /\ Len(buffer') = 0
  <2>1. NumbersFrom(written', 0) = <<>> /\ Len(buffer') = 0
    BY <1>1 DEF NumbersFrom
  <2> QED
    BY <1>1, <2>1
<1>4. (0 + 0 + 0) % ByteNumbers = 0
  BY Sizes
<1> QED
  BY <1>1, <1>2, <1>3, <1>4 DEF SoundInv, SoundTypes, DeviceGetsAll

\* A new frame: the bytes given are those written, buffered and not copied yet.
LEMMA PlayFrameSound ==
  ASSUME SoundInv, NEW f \in Frames, PlayFrame(f)
  PROVE  SoundInv'
<1>1. UNCHANGED <<device, volume, mixer, buffer, written, garbled>> /\ device = "open" /\ left = 0
  BY DEF PlayFrame, Playing, Idle
<1>2. \/ left' = left /\ given' = given
      \/ left' \in {0, Len(f)} /\ given' = (given + left') % ByteNumbers
  BY DEF PlayFrame
<1>3. Len(f) \in Nat
  BY FrameLengths
<1>4. left' \in Nat /\ given' \in 0..(ByteNumbers - 1)
  BY <1>1, <1>2, <1>3, Sizes DEF SoundInv, SoundTypes
<1>5. (written + Len(buffer) + left') % ByteNumbers = given'
  <2> DEFINE x == written + Len(buffer)
  <2>1. x \in Int /\ left' \in Int
    BY <1>4 DEF SoundInv, SoundTypes
  <2>2. x % ByteNumbers = given
    <3>1. (written + Len(buffer) + left) % ByteNumbers = given
      BY <1>1 DEF SoundInv, DeviceGetsAll
    <3>2. written + Len(buffer) + left = x
      BY <1>1, <2>1
    <3> QED
      BY <3>1, <3>2
  <2> HIDE DEF x
  <2>5. (x + left') % ByteNumbers = given'
    <3>1. CASE left' = left /\ given' = given
      <4>1. x + left' = x
        BY <1>1, <2>1, <3>1
      <4> QED
        BY <2>2, <3>1, <4>1
    <3>2. CASE given' = (given + left') % ByteNumbers
      BY <2>1, <2>2, <3>2, ModPlus, Sizes
    <3> QED
      BY <1>2, <3>1, <3>2
  <2> QED
    BY <2>5 DEF x
<1>6. SoundTypes'
  BY <1>1, <1>4 DEF SoundInv, SoundTypes
<1> QED
  BY <1>1, <1>5, <1>6 DEF SoundInv, DeviceGetsAll, NumbersFrom, ByteNumbers

\* One round of sound_play(): the buffer holds the bytes that come next, and is written when full.
LEMMA PlaySound ==
  ASSUME SoundInv, sound_play
  PROVE  SoundInv'
<1> DEFINE B == ByteNumbers
           size == EMPEG_AUDIO_BUFFER_SIZE
           L == Len(buffer)
           remain == size - L
           copy == IF left > remain THEN remain ELSE left
           filled == buffer \o NumbersFrom(given - left, copy)
<1>1. /\ B \in Nat \ {0} /\ size \in Nat \ {0}
      /\ left \in Nat /\ given \in 0..(B - 1) /\ written \in 0..(B - 1)
      /\ L \in Nat /\ L < size
      /\ left > 0 /\ device = "open" /\ ~garbled
  BY Sizes DEF SoundInv, SoundTypes, DeviceGetsAll, sound_play, Playing
<1>2. /\ left' = left - copy
      /\ UNCHANGED <<device, volume, mixer, given>>
      /\ Len(filled) = size => /\ written' = (written + Len(filled)) % B /\ buffer' = <<>>
                               /\ garbled' = (garbled \/ filled # NumbersFrom(written, Len(filled)))
      /\ Len(filled) # size => buffer' = filled /\ UNCHANGED <<written, garbled>>
  BY DEF sound_play, Write
<1>3. copy \in Nat /\ copy <= left /\ L + copy <= size
  BY <1>1
<1>4. (given - left) % B = (written + L) % B
  <2> DEFINE x == (written + L) + left
  <2>1. x % B = given
    BY <1>1 DEF SoundInv, DeviceGetsAll
  <2>2. x \in Int /\ -left \in Int /\ x + (-left) = written + L /\ given + (-left) = given - left
    BY <1>1
  <2> HIDE DEF x, B, L
  <2>3. ((x % B) + (-left)) % B = (x + (-left)) % B
    BY <1>1, <2>2, ModPlus
  <2> QED
    BY <2>1, <2>2, <2>3
<1>5. filled = NumbersFrom(written, L + copy)
  <2>1. buffer = NumbersFrom(written, L)
    BY DEF SoundInv, DeviceGetsAll
  <2>2. written \in Int /\ given - left \in Int
    BY <1>1
  <2> DEFINE m == given - left
  <2>3. L \in Nat /\ copy \in Nat /\ m \in Int /\ m % ByteNumbers = (written + L) % ByteNumbers
    BY <1>1, <1>3, <1>4, <2>2
  <2> HIDE DEF L, copy, m
  <2>4. NumbersFrom(written, L) \o NumbersFrom(m, copy) = NumbersFrom(written, L + copy)
    BY <2>2, <2>3, NumbersJoin
  <2> QED
    BY <2>1, <2>4 DEF m
<1>6. filled \in Seq(0..(B - 1)) /\ Len(filled) = L + copy
  <2>1. L + copy \in Nat /\ written \in Int
    BY <1>1, <1>3
  <2> HIDE DEF filled, copy, L
  <2> QED
    BY <1>5, <2>1, NumbersType
<1>7. ((written + L) + left) % B = given
  BY <1>1 DEF SoundInv, DeviceGetsAll
<1> HIDE DEF filled, copy, L, size, B
<1>8. SoundTypes' /\ buffer' = NumbersFrom(written', Len(buffer')) /\ ~garbled'
      /\ ((written' + Len(buffer')) + left') % B = given'
  <2>1. CASE Len(filled) = size
    <3>1. buffer' = <<>> /\ Len(buffer') = 0 /\ written' = (written + size) % B /\ ~garbled'
      BY <1>1, <1>2, <1>5, <1>6, <2>1
    <3>2. NumbersFrom(written', 0) = <<>>
      BY DEF NumbersFrom
    <3>3. left' \in Nat /\ written' \in 0..(B - 1)
      BY <1>1, <1>2, <1>3, <3>1
    <3>4. ((written' + 0) + left') % B = given'
      <4>1. written + size \in Int /\ left' \in Int
        BY <1>1, <3>3
      <4>2. (((written + size) % B) + left') % B = ((written + size) + left') % B
        BY <1>1, <4>1, ModPlus
      <4>3. (written + size) + left' = (written + L) + left
        BY <1>1, <1>2, <1>3, <1>6, <2>1
      <4>4. written' + 0 = written'
        <5>1. written' \in Int
          BY <1>1, <3>3
        <5>2. \A x \in Int : x + 0 = x
          OBVIOUS
        <5> QED
          BY <5>1, <5>2, Zenon
      <4> QED
        BY <1>2, <1>7, <3>1, <4>2, <4>3, <4>4
    <3>5. SoundTypes'
      BY <1>1, <1>2, <3>1, <3>3 DEF SoundInv, SoundTypes, B, size
    <3> QED
      BY <3>1, <3>2, <3>4, <3>5
  <2>2. CASE Len(filled) # size
    <3>1. buffer' = filled /\ written' = written /\ garbled' = garbled
      BY <1>2, <2>2
    <3>2. left' \in Nat /\ L + copy < size
      BY <1>1, <1>2, <1>3, <1>6, <2>2
    <3>3. (written' + Len(buffer')) + left' = (written + L) + left
      BY <1>1, <1>2, <1>3, <1>6, <3>1
    <3>4. SoundTypes'
      BY <1>1, <1>2, <1>6, <3>1, <3>2 DEF SoundInv, SoundTypes, B, size
    <3> QED
      BY <1>1, <1>2, <1>5, <1>6, <1>7, <3>1, <3>3, <3>4
  <2> QED
    BY <2>1, <2>2
<1> QED
  BY <1>1, <1>2, <1>8 DEF SoundInv, DeviceGetsAll, B

\* Closing the device writes what is left in the buffer.
LEMMA CloseSound ==
  ASSUME SoundInv, sound_close
  PROVE  SoundInv'
<1>1. /\ UNCHANGED <<volume, mixer, left, given>> /\ device = "open" /\ left = 0
      /\ device' = "freed" /\ buffer' = <<>>
      /\ written' = (written + Len(buffer)) % ByteNumbers
      /\ garbled' = (garbled \/ buffer # NumbersFrom(written, Len(buffer)))
  BY DEF sound_close, Playing, Idle, Write
<1>2. ~garbled'
  BY <1>1 DEF SoundInv, DeviceGetsAll
<1>3. written' = given'
  <2>1. (written + Len(buffer) + left) % ByteNumbers = given
    BY <1>1 DEF SoundInv, DeviceGetsAll
  <2>2. written + Len(buffer) + left = written + Len(buffer)
    BY <1>1 DEF SoundInv, SoundTypes
  <2> QED
    BY <1>1, <2>1, <2>2
<1>4. SoundTypes'
  BY <1>1, <1>3, Sizes DEF SoundInv, SoundTypes
<1>5. buffer' = NumbersFrom(written', Len(buffer'))
  <2>1. NumbersFrom(written', 0) = <<>> /\ Len(buffer') = 0
    BY <1>1 DEF NumbersFrom
  <2> QED
    BY <1>1, <2>1
<1> QED
  BY <1>1, <1>2, <1>3, <1>4, <1>5 DEF SoundInv, DeviceGetsAll

\* The volume stays between its limits, and the hardware has it.
LEMMA VolumeSound ==
  ASSUME SoundInv, NEW a \in {-VolumeStep, VolumeStep}, sound_adjust_volume(a)
  PROVE  SoundInv'
<1>1. UNCHANGED <<device, left, buffer, given, written, garbled>>
  BY DEF sound_adjust_volume, soundVars
<1>2. \/ UNCHANGED <<volume, mixer>>
      \/ device = "open" /\ volume' = Within(volume + a) /\ mixer' = volume'
  BY DEF sound_adjust_volume
<1>3. a \in Int
  BY Sizes
<1>4. device = "open" => volume' = mixer' /\ volume' \in 0..FullVolume
  BY <1>2, <1>3, Sizes DEF SoundInv, DeviceGetsAll, Within
<1>5. mixer' \in 0..FullVolume
  BY <1>2, <1>4 DEF SoundInv, SoundTypes
<1>6. SoundTypes'
  BY <1>1, <1>5 DEF SoundInv, SoundTypes
<1> QED
  BY <1>1, <1>4, <1>6 DEF SoundInv, DeviceGetsAll, NumbersFrom, ByteNumbers

\* Every step keeps the invariant of the device.
LEMMA SoundStep == SoundInv /\ [Next]_vars => SoundInv'
<1> SUFFICES ASSUME SoundInv, [Next]_vars PROVE SoundInv'
  OBVIOUS
<1>1. ASSUME UNCHANGED <<device, volume, mixer, left, buffer, given, written, garbled>>
      PROVE  SoundInv'
  BY <1>1 DEF SoundInv, SoundTypes, DeviceGetsAll, NumbersFrom, ByteNumbers
<1>2. CASE ReadVolume
  BY <1>1, <1>2 DEF ReadVolume, soundVars
<1>3. CASE UNCHANGED vars
  BY <1>1, <1>3 DEF vars, soundVars
<1> QED
  BY <1>2, <1>3, OpenSound, PlayFrameSound, PlaySound, CloseSound, VolumeSound DEF Next

\* The hardware gets every byte of a song once and in order, whatever the sizes of the frames and
\* of the device's buffer, and it has the volume the program shows.
THEOREM DeviceGetsEverything == Spec => []DeviceGetsAll
<1>1. SoundInv => DeviceGetsAll
  BY DEF SoundInv
<1> QED
  BY <1>1, SoundStep, InitSound, PTL DEF Spec

-----------------------------------------------------------------------------
(* Silence                                                                 *)

\* The zeros among the first bytes of a frame.
ZerosOf(f, i) == {j \in 1..i : f[j]}

\* They can be counted.
LEMMA ZerosFinite ==
  ASSUME NEW f, NEW i \in Nat
  PROVE  IsFiniteSet(ZerosOf(f, i)) /\ Zeros(f, i) \in Nat /\ Zeros(f, i) = Cardinality(ZerosOf(f, i))
<1>1. Zeros(f, i) = Cardinality(ZerosOf(f, i))
  BY DEF Zeros, ZerosOf
<1>2. IsFiniteSet(1..i) /\ ZerosOf(f, i) \in SUBSET (1..i)
  BY FS_Interval DEF ZerosOf
<1>3. IsFiniteSet(ZerosOf(f, i))
  BY <1>2, FS_Subset, Zenon
<1> QED
  BY <1>1, <1>3, FS_CardinalityType

\* The loop's zero_count from one byte to the next.
LEMMA ZerosStep ==
  ASSUME NEW f, NEW i \in Nat
  PROVE  /\ Zeros(f, 0) = 0
         /\ f[i + 1] => Zeros(f, i + 1) = Zeros(f, i) + 1
         /\ ~f[i + 1] => Zeros(f, i + 1) = Zeros(f, i)
<1>1. ZerosOf(f, 0) = {}
  BY DEF ZerosOf
<1>2. f[i + 1] => ZerosOf(f, i + 1) = ZerosOf(f, i) \cup {i + 1}
  BY DEF ZerosOf
<1>3. ~f[i + 1] => ZerosOf(f, i + 1) = ZerosOf(f, i)
  BY DEF ZerosOf
<1>4. i + 1 \notin ZerosOf(f, i)
  BY DEF ZerosOf
<1>5. Cardinality(ZerosOf(f, i) \cup {i + 1}) = Cardinality(ZerosOf(f, i)) + 1
  BY <1>4, ZerosFinite, FS_AddElement
<1>6. Zeros(f, i + 1) = Cardinality(ZerosOf(f, i + 1)) /\ Zeros(f, i) = Cardinality(ZerosOf(f, i))
  BY DEF Zeros, ZerosOf
<1>7. Zeros(f, 0) = Cardinality(ZerosOf(f, 0))
  BY DEF Zeros, ZerosOf
<1>8. Zeros(f, 0) = 0
  BY <1>1, <1>7, FS_EmptySet
<1> QED
  BY <1>2, <1>3, <1>5, <1>6, <1>8

\* The bytes that follow add at most one zero each.
LEMMA ZerosBetween ==
  ASSUME NEW f, NEW i \in Nat, NEW k \in Nat, i <= k
  PROVE  Zeros(f, i) <= Zeros(f, k) /\ Zeros(f, k) <= Zeros(f, i) + (k - i)
<1> DEFINE A == ZerosOf(f, i)
           B == {j \in (i + 1)..k : f[j]}
<1>1. ZerosOf(f, k) = A \cup B /\ A \cap B = {} /\ B \in SUBSET ((i + 1)..k)
  BY DEF ZerosOf
<1>2. IsFiniteSet((i + 1)..k) /\ Cardinality((i + 1)..k) = k - i
  <2>1. i + 1 \in Int /\ k \in Int
    OBVIOUS
  <2>2. IsFiniteSet((i + 1)..k) /\ Cardinality((i + 1)..k) = IF i + 1 > k THEN 0 ELSE k - (i + 1) + 1
    BY <2>1, FS_Interval
  <2> QED
    BY <2>2
<1>3. IsFiniteSet(B) /\ Cardinality(B) <= k - i
  <2> DEFINE I == (i + 1)..k
  <2>1. IsFiniteSet(I) /\ B \in SUBSET I /\ Cardinality(I) = k - i
    BY <1>1, <1>2
  <2> HIDE DEF B, I
  <2>2. IsFiniteSet(B) /\ Cardinality(B) <= Cardinality(I)
    BY <2>1, FS_Subset
  <2> QED
    BY <2>1, <2>2
<1>4. IsFiniteSet(A) /\ Zeros(f, i) = Cardinality(A) /\ Zeros(f, k) = Cardinality(A \cup B)
  BY <1>1, ZerosFinite
<1> HIDE DEF A, B
<1>5. Cardinality(A \cup B) = Cardinality(A) + Cardinality(B) - Cardinality(A \cap B)
  BY <1>3, <1>4, FS_Union
<1>6. Cardinality(A \cap B) = 0
  BY <1>1, FS_EmptySet
<1>7. Cardinality(A) \in Nat /\ Cardinality(B) \in Nat
  BY <1>3, <1>4, FS_CardinalityType
<1> QED
  BY <1>3, <1>4, <1>5, <1>6, <1>7

\* The threshold of a frame that has a sample is at least one byte and at most all of them.
LEMMA ThresholdRange ==
  ASSUME NEW f \in Frames
  PROVE  threshold(f) \in 1..Len(f) /\ Len(f) \in Nat
<1>1. Len(f) \in Nat /\ Len(f) >= 4
  BY FrameLengths
<1> QED
  BY <1>1 DEF threshold

\* Wherever the loop stops, it tells what counting all the zeros would.
LEMMA TellingIsRight ==
  ASSUME NEW f \in Frames, NEW i \in Telling(f)
  PROVE  TellsSilent(f, i) <=> Silent(f)
<1> DEFINE L == Len(f)
           t == threshold(f)
           z == Zeros(f, i)
           all == Zeros(f, L)
<1>1. t \in 1..L /\ L \in Nat /\ i \in 1..L
  BY ThresholdRange DEF Telling
<1>2. z \in Nat /\ all \in Nat /\ z <= all /\ all <= z + (L - i)
  BY <1>1, ZerosFinite, ZerosBetween
<1>3. CASE TellsSilent(f, i)
  <2>1. z >= t
    BY <1>3 DEF TellsSilent
  <2>2. all > 0 /\ all >= t
    <3> HIDE DEF z, all, t, L
    <3> QED
      BY <1>1, <1>2, <2>1
  <2> QED
    BY <1>3, <2>2 DEF Silent
<1>4. CASE ~TellsSilent(f, i)
  <2>1. t - z >= L - (i - 1)
    BY <1>4 DEF Telling, TellsLoud
  <2>2. ~(all >= t)
    <3> HIDE DEF z, all, t, L
    <3> QED
      BY <1>1, <1>2, <2>1
  <2> QED
    BY <1>4, <2>2 DEF Silent
<1> QED
  BY <1>3, <1>4

\* The loop always tells: at the zero that reaches the threshold, or at the byte that leaves too
\* few behind it to reach it.
LEMMA LoopTells ==
  ASSUME NEW f \in Frames
  PROVE  Telling(f) # {}
<1> DEFINE L == Len(f)
           t == threshold(f)
           Z(n) == Zeros(f, n)
<1>1. t \in 1..L /\ L \in Nat
  BY ThresholdRange
<1>2. \A n \in Nat : Z(n) \in Nat
  BY ZerosFinite
<1>3. \A n \in Nat : /\ f[n + 1] => Z(n + 1) = Z(n) + 1
                     /\ ~f[n + 1] => Z(n + 1) = Z(n)
  BY ZerosStep
<1>4. Z(0) = 0
  BY ZerosStep
<1> HIDE DEF Z, L, t
<1>5. CASE Z(L) >= t
  <2> DEFINE S == {n \in Nat : Z(n) >= t /\ n <= L}
  <2>1. L \in S
    BY <1>1, <1>5
  <2>2. PICK m \in S : \A k \in S : m <= k
    <3> HIDE DEF S
    <3>1. S \in SUBSET Nat /\ S # {}
      BY <2>1 DEF S
    <3> QED
      BY <3>1, LeastNumber
  <2>3. m # 0 /\ m \in Nat
    BY <1>1, <1>4, <2>2
  <2>4. PICK n \in Nat : m = n + 1
    <3>1. m - 1 \in Nat /\ m = (m - 1) + 1
      BY <2>3
    <3> QED
      BY <3>1
  <2>5. ~(Z(n) >= t)
    BY <1>1, <2>2, <2>4
  <2>6. f[m] /\ Z(m) >= t /\ m \in 1..L
    BY <1>1, <1>2, <1>3, <2>2, <2>4, <2>5
  <2>7. m \in Telling(f)
    BY <2>6 DEF Telling, TellsSilent, Z, L, t
  <2> QED
    BY <2>7
<1>6. CASE ~(Z(L) >= t)
  <2> DEFINE S == {n \in Nat : t - Z(n) >= L - (n - 1) /\ n <= L}
  <2>1. L \in S
    BY <1>1, <1>2, <1>6
  <2>2. PICK m \in S : \A k \in S : m <= k
    <3> HIDE DEF S
    <3>1. S \in SUBSET Nat /\ S # {}
      BY <2>1 DEF S
    <3> QED
      BY <3>1, LeastNumber
  <2>3. m # 0 /\ m \in Nat
    BY <1>1, <1>4, <2>2
  <2>4. PICK n \in Nat : m = n + 1
    <3>1. m - 1 \in Nat /\ m = (m - 1) + 1
      BY <2>3
    <3> QED
      BY <3>1
  <2>5. ~(t - Z(n) >= L - (n - 1))
    BY <1>1, <2>2, <2>4
  <2>6. ~f[m] /\ t - Z(m) >= L - (m - 1) /\ m \in 1..L
    BY <1>1, <1>2, <1>3, <2>2, <2>4, <2>5
  <2>7. m \in Telling(f)
    BY <2>6 DEF Telling, TellsLoud, Z, L, t
  <2> QED
    BY <2>7
<1> QED
  BY <1>5, <1>6

\* What detect_silence() adds up is the length of the silent frames in a row.
LEMMA SilenceFound ==
  ASSUME NEW f \in Frames
  PROVE  detect_silence(f) = IF Silent(f) THEN Capped(silence_duration + Len(f)) ELSE 0
<1> DEFINE T == Telling(f)
           i == CHOOSE k \in T : \A j \in T : k <= j
<1>1. T \in SUBSET Nat /\ T # {}
  <2>1. T # {}
    BY LoopTells
  <2>2. Len(f) \in Nat
    BY FrameLengths
  <2> QED
    BY <2>1, <2>2 DEF Telling
<1>2. i \in T
  <2>1. \E k \in T : \A j \in T : k <= j
    <3> HIDE DEF T
    <3> QED
      BY <1>1, LeastNumber
  <2> HIDE DEF T
  <2> QED
    BY <2>1
<1>3. detect_silence(f) = IF TellsSilent(f, i) THEN Capped(silence_duration + Len(f)) ELSE 0
  BY <1>1 DEF detect_silence
<1>4. TellsSilent(f, i) <=> Silent(f)
  <2> HIDE DEF i
  <2> QED
    BY <1>2, TellingIsRight
<1> QED
  BY <1>3, <1>4

\* Every step keeps the two counts of silence equal.
LEMMA SilenceStep == SilenceIsSilence /\ [Next]_vars => SilenceIsSilence'
<1> SUFFICES ASSUME SilenceIsSilence, [Next]_vars PROVE SilenceIsSilence'
  OBVIOUS
<1>1. ASSUME NEW f \in Frames, PlayFrame(f) PROVE SilenceIsSilence'
  <2>1. CASE UNCHANGED silenceVars
    BY <2>1 DEF SilenceIsSilence, silenceVars
  <2>2. CASE /\ silence_duration' = detect_silence(f)
             /\ quiet' = IF Silent(f) THEN Capped(quiet + Len(f)) ELSE 0
    BY <2>2, SilenceFound DEF SilenceIsSilence
  <2> QED
    BY <1>1, <2>1, <2>2 DEF PlayFrame
<1>2. ASSUME NEW c, StartSong(c) PROVE SilenceIsSilence'
  BY <1>2 DEF StartSong, SilenceIsSilence
<1>3. ASSUME UNCHANGED silenceVars PROVE SilenceIsSilence'
  BY <1>3 DEF SilenceIsSilence, silenceVars
<1>4. CASE sound_play \/ sound_close \/ ReadVolume
  BY <1>3, <1>4 DEF sound_play, sound_close, ReadVolume
<1>5. ASSUME NEW a, sound_adjust_volume(a) PROVE SilenceIsSilence'
  BY <1>3, <1>5 DEF sound_adjust_volume
<1>6. CASE UNCHANGED vars
  BY <1>3, <1>6 DEF vars
<1> QED
  BY <1>1, <1>2, <1>4, <1>5, <1>6 DEF Next

\* The loop of detect_silence(), which stops early, adds up what counting every zero would, for
\* frames of any size and content.
THEOREM SilenceIsDetected == Spec => []SilenceIsSilence
<1>1. Init => SilenceIsSilence
  BY DEF Init, SilenceIsSilence
<1> QED
  BY <1>1, SilenceStep, PTL DEF Spec

-----------------------------------------------------------------------------
(* The spectrum analyser's ring                                            *)

Ages == {Never} \cup 0..TooOld
RingTypes == ring \in [Slots -> Ages] /\ head \in Slots /\ tail \in Slots

\* A frame that the ring has room for: where tail is afterwards.
LEMMA TailMoves ==
  ASSUME RingTypes, NEW n \in Nat \ {0}, ~Overruns(n)
  PROVE  /\ Wraps(n) <=> tail + n >= SPECTRUM_RING_SIZE
         /\ tail + n < 2 * SPECTRUM_RING_SIZE
         /\ (tail + n) % SPECTRUM_RING_SIZE = IF Wraps(n) THEN tail + n - SPECTRUM_RING_SIZE ELSE tail + n
<1> DEFINE N == SPECTRUM_RING_SIZE
<1>1. N \in Nat /\ N > 2 /\ tail \in 0..(N - 1)
  BY Sizes DEF RingTypes, Slots
<1>2. Wraps(n) <=> tail + n >= N
  BY DEF Wraps
<1>3. tail + n < 2 * N
  BY <1>1, <1>2 DEF Overruns, second_add, first_add
<1>4. N \in Nat \ {0} /\ tail + n \in 0..(2 * N - 1)
  BY <1>1, <1>3
<1>5. /\ tail + n < N => (tail + n) % N = tail + n
      /\ ~(tail + n < N) => (tail + n) % N = (tail + n) - N
  <2> HIDE DEF N
  <2>1. \A x \in 0..(2 * N - 1) : /\ x < N => x % N = x
                                  /\ ~(x < N) => x % N = x - N
    BY <1>4, ModSmall
  <2>2. tail + n \in 0..(2 * N - 1)
    BY <1>4
  <2> QED
    BY <2>1, <2>2, Zenon
<1> QED
  BY <1>1, <1>2, <1>3, <1>5

\* The number of the last of the frame's samples in a slot.
LEMMA LastHere ==
  ASSUME NEW H \in SUBSET Nat, NEW m \in H, \A k \in H : m >= k
  PROVE  (CHOOSE j \in H : \A k \in H : j >= k) = m
<1> DEFINE i == CHOOSE j \in H : \A k \in H : j >= k
<1>1. i \in H /\ \A k \in H : i >= k
  OBVIOUS
<1> HIDE DEF i
<1>2. i = m
  BY <1>1
<1> QED
  BY <1>2 DEF i

\* The age of every slot after a frame that does not reach the end of the ring.
LEMMA AgesAhead ==
  ASSUME RingTypes, NEW n \in Nat \ {0}, ~Wraps(n), NEW s \in Slots
  PROVE  Added(n)[s] = IF tail <= s /\ s < tail + n THEN tail + n - 1 - s ELSE Aged(ring[s], n)
<1> DEFINE N == SPECTRUM_RING_SIZE
           H == {j \in 0..(n - 1) : Place(n, j) = s}
<1>1. N \in Nat /\ N > 2 /\ tail \in 0..(N - 1) /\ s \in 0..(N - 1)
  BY Sizes DEF RingTypes, Slots
<1>2. \A j \in 0..(n - 1) : Place(n, j) = tail + j
  BY <1>1 DEF Place, first_add
<1>3. Added(n)[s] = IF H = {} THEN Aged(ring[s], n) ELSE n - 1 - (CHOOSE j \in H : \A k \in H : j >= k)
  BY DEF Added
<1>4. CASE tail <= s /\ s < tail + n
  <2>1. s - tail \in H /\ \A k \in H : s - tail >= k
    BY <1>1, <1>2, <1>4
  <2>2. H \in SUBSET Nat
    BY <1>1
  <2> HIDE DEF H
  <2>3. (CHOOSE j \in H : \A k \in H : j >= k) = s - tail
    BY <2>1, <2>2, LastHere
  <2>4. n - 1 - (s - tail) = tail + n - 1 - s
    BY <1>1
  <2> QED
    BY <1>3, <1>4, <2>1, <2>3, <2>4
<1>5. CASE ~(tail <= s /\ s < tail + n)
  <2>1. H = {}
    BY <1>1, <1>2, <1>5
  <2> HIDE DEF H
  <2> QED
    BY <1>3, <1>5, <2>1
<1> QED
  BY <1>4, <1>5

\* The age of every slot after a frame that goes on at the front of the ring.
LEMMA AgesAround ==
  ASSUME RingTypes, NEW n \in Nat \ {0}, Wraps(n), ~Overruns(n), NEW s \in Slots,
         NEW new \in Nat, new = tail + n - SPECTRUM_RING_SIZE
  PROVE  Added(n)[s] = IF s <= new THEN new - s
                       ELSE IF tail <= s /\ s < SPECTRUM_RING_SIZE - 1 THEN tail + n - 1 - s
                       ELSE Aged(ring[s], n)
<1> DEFINE N == SPECTRUM_RING_SIZE
           first == N - tail - 1
           H == {j \in 0..(n - 1) : Place(n, j) = s}
<1>1. N \in Nat /\ N > 2 /\ tail \in 0..(N - 1) /\ s \in 0..(N - 1) /\ first \in Nat
  BY Sizes DEF RingTypes, Slots
<1>2. first_add(n) = first
  BY DEF first_add
<1>3. \A j \in 0..(n - 1) : Place(n, j) = IF j < first THEN tail + j ELSE j - first
  BY <1>2 DEF Place
<1>4. Added(n)[s] = IF H = {} THEN Aged(ring[s], n) ELSE n - 1 - (CHOOSE j \in H : \A k \in H : j >= k)
  BY DEF Added
<1>5. H \in SUBSET Nat
  BY <1>1
<1>6. new = tail + n - N
  OBVIOUS
<1>7. CASE s <= new
  <2>1. s + first \in 0..(n - 1) /\ ~(s + first < first)
    BY <1>1, <1>6, <1>7
  <2>2. s + first \in H
    BY <1>1, <1>3, <2>1
  <2>3. \A k \in H : s + first >= k
    BY <1>1, <1>3
  <2> HIDE DEF H, first
  <2>4. (CHOOSE j \in H : \A k \in H : j >= k) = s + first
    BY <1>5, <2>2, <2>3, LastHere
  <2>5. n - 1 - (s + first) = new - s
    BY <1>1, <1>6 DEF first
  <2> QED
    BY <1>4, <1>7, <2>2, <2>4, <2>5
<1>8. CASE ~(s <= new) /\ tail <= s /\ s < N - 1
  <2>1. s - tail \in 0..(n - 1) /\ s - tail < first
    BY <1>1, <1>6, <1>8
  <2>2. s - tail \in H
    BY <1>1, <1>3, <2>1
  <2>3. \A k \in H : s - tail >= k
    BY <1>1, <1>3, <1>6, <1>8
  <2> HIDE DEF H, first
  <2>4. (CHOOSE j \in H : \A k \in H : j >= k) = s - tail
    BY <1>5, <2>2, <2>3, LastHere
  <2>5. n - 1 - (s - tail) = tail + n - 1 - s
    BY <1>1
  <2> QED
    BY <1>4, <1>8, <2>2, <2>4, <2>5
<1>9. CASE ~(s <= new) /\ ~(tail <= s /\ s < N - 1)
  <2>1. H = {}
    BY <1>1, <1>3, <1>6, <1>9
  <2> HIDE DEF H
  <2> QED
    BY <1>4, <1>9, <2>1
<1> QED
  BY <1>7, <1>8, <1>9

\* The slots written since tail was last at the front of the ring, and those written before that.
\* A slot is one older than its place says if tail has been set back onto a sample since.
Young(r, t) ==
  /\ \A s \in Slots : s < t => r[s] \in {t - 1 - s, t - s}
  /\ \A s, u \in Slots : s < u /\ u < t => r[s] > r[u]
Old(r, t) ==
  /\ \A s \in Slots : t < s /\ s < SPECTRUM_RING_SIZE - 1 =>
        r[s] \in {(t + SPECTRUM_RING_SIZE) - 1 - s, (t + SPECTRUM_RING_SIZE) - s}
  /\ \A s, u \in Slots : t < s /\ s < u /\ u < SPECTRUM_RING_SIZE - 1 => r[s] > r[u]
Newest(r, t) == t < SPECTRUM_RING_SIZE - 1 => r[t] \in 0..SPECTRUM_RING_SIZE

RingInv ==
  /\ RingTypes
  /\ Young(ring, tail)
  /\ Full => Old(ring, tail) /\ Newest(ring, tail)
  /\ Full \/ head = 0

\* Growing older leaves an age within what is told apart.
LEMMA AgedFacts ==
  ASSUME NEW age \in Ages, NEW n \in Nat
  PROVE  /\ Aged(age, n) \in Ages
         /\ age \in Nat /\ age + n <= TooOld => Aged(age, n) = age + n
<1>1. TooOld \in Nat
  BY Sizes DEF TooOld
<1>2. CASE age = Never
  BY <1>1, <1>2 DEF Aged, Ages, Never
<1>3. CASE age # Never
  <2>1. age \in 0..TooOld
    BY <1>3 DEF Ages
  <2> HIDE DEF TooOld
  <2> QED
    BY <1>1, <1>3, <2>1 DEF Aged, Ages
<1> QED
  BY <1>2, <1>3

\* A frame that does not reach the end of the ring.
LEMMA RingAhead ==
  ASSUME RingTypes, NEW n \in Nat \ {0}, ~Wraps(n), Young(ring, tail)
  PROVE  /\ Added(n) \in [Slots -> Ages]
         /\ Young(Added(n), tail + n)
         /\ Old(ring, tail) => Old(Added(n), tail + n) /\ Newest(Added(n), tail + n)
<1> DEFINE N == SPECTRUM_RING_SIZE
           r == Added(n)
<1>1. N \in Nat /\ N > 2 /\ tail \in 0..(N - 1) /\ Slots = 0..(N - 1) /\ TooOld = 2 * N
  BY Sizes DEF RingTypes, Slots, TooOld
<1>2. tail + n < N
  BY <1>1 DEF Wraps
<1>3. \A s \in Slots : ring[s] \in Ages
  BY DEF RingTypes
<1>4. \A s \in Slots : /\ tail <= s /\ s < tail + n => r[s] = tail + n - 1 - s
                       /\ ~(tail <= s /\ s < tail + n) => r[s] = Aged(ring[s], n)
  BY AgesAhead
<1>5. \A s \in Slots : ~(tail <= s /\ s < tail + n) /\ ring[s] \in Nat /\ ring[s] + n <= 2 * N
                         => r[s] = ring[s] + n
  BY <1>1, <1>3, <1>4, AgedFacts
<1>6. r \in [Slots -> Ages]
  <2>1. r = [s \in Slots |-> r[s]]
    BY DEF Added
  <2>2. ASSUME NEW s \in Slots PROVE r[s] \in Ages
    <3>1. CASE tail <= s /\ s < tail + n
      <4>1. r[s] = tail + n - 1 - s
        BY <1>4, <3>1
      <4>2. tail + n - 1 - s \in 0..(2 * N)
        BY <1>1, <1>2, <3>1
      <4> QED
        BY <1>1, <4>1, <4>2 DEF Ages
    <3>2. CASE ~(tail <= s /\ s < tail + n)
      BY <1>3, <1>4, <3>2, AgedFacts
    <3> QED
      BY <3>1, <3>2
  <2> HIDE DEF r
  <2> QED
    BY <2>1, <2>2
<1> HIDE DEF r
<1>7. \A s \in Slots : s < tail => r[s] = ring[s] + n /\ ring[s] \in {tail - 1 - s, tail - s}
  BY <1>1, <1>2, <1>5 DEF Young
<1>8. Young(r, tail + n)
  <2>1. \A s \in Slots : s < tail + n => r[s] \in {(tail + n) - 1 - s, (tail + n) - s}
    BY <1>1, <1>2, <1>4, <1>7
  <2>2. ASSUME NEW s \in Slots, NEW u \in Slots, s < u, u < tail + n PROVE r[s] > r[u]
    <3>1. CASE u < tail
      <4>1. ring[s] > ring[u]
        BY <1>1, <2>2, <3>1 DEF Young
      <4> QED
        BY <1>1, <1>7, <2>2, <3>1, <4>1
    <3>2. CASE ~(u < tail)
      <4>1. r[u] = tail + n - 1 - u
        BY <1>1, <1>4, <2>2, <3>2
      <4>2. r[s] \in {(tail + n) - 1 - s, (tail + n) - s}
        BY <1>1, <2>1, <2>2
      <4> QED
        BY <1>1, <2>2, <4>1, <4>2
    <3> QED
      BY <3>1, <3>2
  <2> QED
    BY <2>1, <2>2 DEF Young
<1>9. ASSUME Old(ring, tail) PROVE Old(r, tail + n) /\ Newest(r, tail + n)
  <2>1. \A s \in Slots : tail < s /\ s < N - 1 => ring[s] \in {(tail + N) - 1 - s, (tail + N) - s}
    BY <1>9 DEF Old
  <2>2. \A s \in Slots : tail + n <= s /\ s < N - 1 =>
           /\ r[s] = ring[s] + n
           /\ r[s] \in {((tail + n) + N) - 1 - s, ((tail + n) + N) - s}
    BY <1>1, <1>2, <1>5, <2>1
  <2>3. \A s, u \in Slots : tail + n < s /\ s < u /\ u < N - 1 => r[s] > r[u]
    <3>1. ASSUME NEW s \in Slots, NEW u \in Slots, tail + n < s, s < u, u < N - 1 PROVE r[s] > r[u]
      <4>1. ring[s] > ring[u]
        BY <1>1, <1>9, <3>1 DEF Old
      <4>2. r[s] = ring[s] + n /\ r[u] = ring[u] + n
        BY <1>1, <2>2, <3>1
      <4>3. ring[s] \in Int /\ ring[u] \in Int
        BY <1>1, <2>1, <3>1
      <4> QED
        BY <4>1, <4>2, <4>3
    <3> QED
      BY <3>1
  <2>4. Old(r, tail + n)
    BY <1>1, <2>2, <2>3 DEF Old
  <2>5. Newest(r, tail + n)
    <3>1. ASSUME tail + n < N - 1 PROVE r[tail + n] \in 0..N
      <4>1. tail + n \in Slots
        BY <1>1, <3>1
      <4>2. r[tail + n] \in {((tail + n) + N) - 1 - (tail + n), ((tail + n) + N) - (tail + n)}
        BY <1>1, <2>2, <3>1, <4>1
      <4> QED
        BY <1>1, <4>2
    <3> QED
      BY <3>1 DEF Newest
  <2> QED
    BY <2>4, <2>5
<1> QED
  BY <1>6, <1>8, <1>9 DEF r

\* A frame that goes on at the front of the ring: what was young is old now.
LEMMA RingAround ==
  ASSUME RingTypes, NEW n \in Nat \ {0}, Wraps(n), ~Overruns(n), Young(ring, tail),
         NEW new \in Nat, new = tail + n - SPECTRUM_RING_SIZE
  PROVE  /\ Added(n) \in [Slots -> Ages]
         /\ Young(Added(n), new) /\ Old(Added(n), new) /\ Newest(Added(n), new)
<1> DEFINE N == SPECTRUM_RING_SIZE
           r == Added(n)
<1>1. N \in Nat /\ N > 2 /\ tail \in 0..(N - 1) /\ Slots = 0..(N - 1) /\ TooOld = 2 * N
  BY Sizes DEF RingTypes, Slots, TooOld
<1>2. tail + n < 2 * N /\ tail + n >= N /\ new = tail + n - N /\ new < N
  BY <1>1, TailMoves
<1>3. \A s \in Slots : ring[s] \in Ages
  BY DEF RingTypes
<1>4. \A s \in Slots : /\ s <= new => r[s] = new - s
                       /\ ~(s <= new) /\ tail <= s /\ s < N - 1 => r[s] = tail + n - 1 - s
                       /\ ~(s <= new) /\ ~(tail <= s /\ s < N - 1) => r[s] = Aged(ring[s], n)
  BY AgesAround
<1>5. r \in [Slots -> Ages]
  <2>1. r = [s \in Slots |-> r[s]]
    BY DEF Added
  <2>2. ASSUME NEW s \in Slots PROVE r[s] \in Ages
    <3>1. CASE s <= new
      <4>1. new - s \in 0..(2 * N) /\ r[s] = new - s
        BY <1>1, <1>2, <1>4, <3>1
      <4> QED
        BY <1>1, <4>1 DEF Ages
    <3>2. CASE ~(s <= new) /\ tail <= s /\ s < N - 1
      <4>1. tail + n - 1 - s \in 0..(2 * N) /\ r[s] = tail + n - 1 - s
        BY <1>1, <1>2, <1>4, <3>2
      <4> QED
        BY <1>1, <4>1 DEF Ages
    <3>3. CASE ~(s <= new) /\ ~(tail <= s /\ s < N - 1)
      BY <1>3, <1>4, <3>3, AgedFacts
    <3> QED
      BY <3>1, <3>2, <3>3
  <2> HIDE DEF r
  <2> QED
    BY <2>1, <2>2
<1>6. \A s \in Slots : new < s /\ s < tail =>
         r[s] = ring[s] + n /\ ring[s] \in {tail - 1 - s, tail - s}
  <2>1. ASSUME NEW s \in Slots, new < s, s < tail
        PROVE  r[s] = ring[s] + n /\ ring[s] \in {tail - 1 - s, tail - s}
    <3>1. ring[s] \in {tail - 1 - s, tail - s}
      BY <2>1 DEF Young
    <3>2. r[s] = Aged(ring[s], n)
      BY <1>1, <1>2, <1>4, <2>1
    <3>3. ring[s] \in Nat /\ ring[s] + n <= 2 * N
      BY <1>1, <1>2, <2>1, <3>1
    <3>4. Aged(ring[s], n) = ring[s] + n
      BY <1>1, <1>3, <3>3, AgedFacts
    <3> QED
      BY <3>1, <3>2, <3>4
  <2> QED
    BY <2>1
<1> HIDE DEF r
<1>7. Young(r, new)
  BY <1>1, <1>2, <1>4 DEF Young
<1>8. Newest(r, new)
  BY <1>1, <1>2, <1>4 DEF Newest
<1>9. Old(r, new)
  <2>1. \A s \in Slots : new < s /\ s < N - 1 => r[s] \in {(new + N) - 1 - s, (new + N) - s}
    BY <1>1, <1>2, <1>4, <1>6
  <2>2. ASSUME NEW s \in Slots, NEW u \in Slots, new < s, s < u, u < N - 1 PROVE r[s] > r[u]
    <3>1. CASE u < tail
      <4>1. ring[s] > ring[u]
        BY <1>1, <2>2, <3>1 DEF Young
      <4> QED
        BY <1>1, <1>2, <1>6, <2>2, <3>1, <4>1
    <3>2. CASE ~(u < tail)
      <4>1. r[u] = (new + N) - 1 - u
        BY <1>1, <1>2, <1>4, <2>2, <3>2
      <4>2. r[s] \in {(new + N) - 1 - s, (new + N) - s}
        BY <1>1, <2>1, <2>2
      <4> QED
        BY <1>1, <1>2, <2>2, <4>1, <4>2
    <3> QED
      BY <3>1, <3>2
  <2> QED
    BY <2>1, <2>2 DEF Old
<1> QED
  BY <1>5, <1>7, <1>8, <1>9 DEF r

\* The slot behind another one.
LEMMA NextSlot ==
  ASSUME NEW t \in Slots
  PROVE  /\ (t + 1) % SPECTRUM_RING_SIZE = IF t = SPECTRUM_RING_SIZE - 1 THEN 0 ELSE t + 1
         /\ (t + 1) % SPECTRUM_RING_SIZE \in Slots
         /\ (t - 0 + SPECTRUM_RING_SIZE) % SPECTRUM_RING_SIZE = t
<1> DEFINE N == SPECTRUM_RING_SIZE
<1>1. N \in Nat \ {0} /\ N > 2 /\ t \in 0..(N - 1)
  BY Sizes DEF Slots
<1>2. \A x \in 0..(2 * N - 1) : /\ x < N => x % N = x
                                /\ ~(x < N) => x % N = x - N
  <2> HIDE DEF N
  <2> QED
    BY <1>1, ModSmall
<1>3. t + 1 \in 0..(2 * N - 1) /\ t - 0 + N \in 0..(2 * N - 1)
  BY <1>1
<1>4. (t + 1) % N = IF t = N - 1 THEN 0 ELSE t + 1
  <2> HIDE DEF N
  <2>1. CASE t = N - 1
    BY <1>1, <1>2, <1>3, <2>1
  <2>2. CASE t # N - 1
    BY <1>1, <1>2, <1>3, <2>2
  <2> QED
    BY <2>1, <2>2
<1>5. (t - 0 + N) % N = t
  <2> HIDE DEF N
  <2> QED
    BY <1>1, <1>2, <1>3
<1> QED
  BY <1>1, <1>4, <1>5 DEF Slots

\* The ring is empty at first.
LEMMA InitRing == Init => RingInv
<1> SUFFICES ASSUME Init PROVE RingInv
  OBVIOUS
<1>1. ring = [s \in Slots |-> Never] /\ head = 0 /\ tail = 0
  BY DEF Init, spectrum_init
<1>2. 0 \in Slots /\ (0 + 1) % SPECTRUM_RING_SIZE = 0 + 1
  <2>1. 0 \in Slots /\ 0 # SPECTRUM_RING_SIZE - 1
    BY Sizes DEF Slots
  <2> QED
    BY <2>1, NextSlot
<1>3. RingTypes
  BY <1>1, <1>2 DEF RingTypes, Ages
<1>4. Young(ring, tail)
  BY <1>1, Sizes DEF Young, Slots
<1>5. ~Full
  BY <1>1, <1>2 DEF Full
<1> QED
  BY <1>1, <1>3, <1>4, <1>5 DEF RingInv

\* A new song empties it.
LEMMA ResetRing ==
  ASSUME RingInv, NEW c, spectrum_reset(c)
  PROVE  RingInv'
<1>1. /\ head' = 0 /\ tail' = 0
      /\ ring' = [s \in Slots |-> IF ring[s] = Never THEN Never ELSE TooOld]
  BY DEF spectrum_reset
<1>2. 0 \in Slots /\ (0 + 1) % SPECTRUM_RING_SIZE = 0 + 1
  <2>1. 0 \in Slots /\ 0 # SPECTRUM_RING_SIZE - 1
    BY Sizes DEF Slots
  <2> QED
    BY <2>1, NextSlot
<1>3. RingTypes'
  <2>1. TooOld \in 0..TooOld
    BY Sizes DEF TooOld
  <2> HIDE DEF TooOld
  <2> QED
    BY <1>1, <1>2, <2>1 DEF RingTypes, Ages
<1>4. Young(ring', tail')
  BY <1>1, Sizes DEF Young, Slots
<1>5. ~Full'
  BY <1>1, <1>2 DEF Full
<1> QED
  BY <1>1, <1>3, <1>4, <1>5 DEF RingInv

\* Where head is after a frame: behind tail as soon as the ring has been filled.
LEMMA HeadMoves ==
  ASSUME RingInv, NEW n \in Nat \ {0}, ~Overruns(n), spectrum_update(n)
  PROVE  /\ head' \in Slots /\ tail' \in Slots
         /\ Wraps(n) => Full'
         /\ ~Wraps(n) /\ Full => Full'
         /\ ~Wraps(n) /\ ~Full => head' = 0
<1> DEFINE N == SPECTRUM_RING_SIZE
<1>1. N \in Nat \ {0} /\ N > 2 /\ tail \in 0..(N - 1) /\ Slots = 0..(N - 1) /\ head \in Slots
  BY Sizes DEF RingInv, RingTypes, Slots
<1>2. tail' = (tail + n) % N /\ head' = NewHead(n, tail')
  BY DEF spectrum_update
<1>3. tail' \in Slots
  BY <1>1, <1>2
<1>4. (tail' + 1) % N \in Slots
  BY <1>3, NextSlot
<1>5. Full \/ cur_size + n >= N => head' = (tail' + 1) % N /\ Full'
  BY <1>2 DEF NewHead, Full
<1>6. ~(Full \/ cur_size + n >= N) => head' = head
  BY <1>2 DEF NewHead
<1>7. ~Full => head = 0 /\ cur_size = tail
  BY NextSlot DEF RingInv, RingTypes, cur_size
<1>8. Wraps(n) <=> tail + n >= N
  BY DEF Wraps
<1> QED
  BY <1>1, <1>3, <1>4, <1>5, <1>6, <1>7, <1>8

\* A frame keeps the ring in order.
LEMMA UpdateRing ==
  ASSUME RingInv, NEW n \in Nat \ {0}, ~Overruns(n), spectrum_update(n)
  PROVE  RingInv'
<1>1. RingTypes /\ Young(ring, tail) /\ (Full => Old(ring, tail))
  BY DEF RingInv
<1>2. ring' = Added(n) /\ tail' = (tail + n) % SPECTRUM_RING_SIZE
  BY DEF spectrum_update
<1>3. head' \in Slots /\ tail' \in Slots
  BY HeadMoves
<1>4. CASE Wraps(n)
  <2>1. tail' = tail + n - SPECTRUM_RING_SIZE
    BY <1>1, <1>2, <1>4, TailMoves
  <2>2. tail' \in Nat
    BY <1>3, Sizes DEF Slots
  <2>3. /\ Added(n) \in [Slots -> Ages]
        /\ Young(Added(n), tail') /\ Old(Added(n), tail') /\ Newest(Added(n), tail')
    BY <1>1, <1>4, <2>1, <2>2, RingAround
  <2>4. Full'
    BY <1>4, HeadMoves
  <2>5. RingTypes'
    BY <1>2, <1>3, <2>3 DEF RingTypes, Ages, Slots, TooOld, Never
  <2> QED
    BY <1>2, <2>3, <2>4, <2>5 DEF RingInv, Young, Old, Newest, Slots
<1>5. CASE ~Wraps(n)
  <2>1. tail' = tail + n
    BY <1>1, <1>2, <1>5, TailMoves
  <2>2. /\ Added(n) \in [Slots -> Ages]
        /\ Young(Added(n), tail + n)
        /\ Old(ring, tail) => Old(Added(n), tail + n) /\ Newest(Added(n), tail + n)
    BY <1>1, <1>5, RingAhead
  <2>3. RingTypes'
    BY <1>2, <1>3, <2>2 DEF RingTypes, Ages, Slots, TooOld, Never
  <2>4. CASE Full
    <3>1. Full'
      BY <1>5, <2>4, HeadMoves
    <3>2. Old(ring', tail') /\ Newest(ring', tail') /\ Young(ring', tail')
      BY <1>1, <1>2, <2>1, <2>2, <2>4
    <3> QED
      BY <2>3, <3>1, <3>2 DEF RingInv, Young, Old, Newest, Slots
  <2>5. CASE ~Full
    <3>1. head' = 0
      BY <1>5, <2>5, HeadMoves
    <3>2. Young(ring', tail')
      BY <1>2, <2>1, <2>2
    <3>3. Full' => Old(ring', tail') /\ Newest(ring', tail')
      <4>1. Full' => tail' = SPECTRUM_RING_SIZE - 1
        <5>1. (tail' + 1) % SPECTRUM_RING_SIZE = IF tail' = SPECTRUM_RING_SIZE - 1 THEN 0 ELSE tail' + 1
          BY <1>3, NextSlot
        <5>2. tail' + 1 # 0
          <6>1. tail' \in Nat
            BY <1>3, Sizes DEF Slots
          <6>2. \A x \in Nat : x + 1 # 0
            OBVIOUS
          <6> QED
            BY <6>1, <6>2, Zenon
        <5> QED
          BY <3>1, <5>1, <5>2 DEF Full
      <4> QED
        BY <1>3, <4>1, Sizes DEF Old, Newest, Slots
    <3> QED
      BY <2>3, <3>1, <3>2, <3>3 DEF RingInv, Young, Old, Newest, Slots
  <2> QED
    BY <2>4, <2>5
<1> QED
  BY <1>4, <1>5

\* The window is every slot but the one at tail, in the order of the slots behind tail.
LEMMA WindowSlots ==
  ASSUME RingTypes, Full, NEW s \in Window
  PROVE  /\ s \in Slots /\ s # tail
         /\ Order(s) = IF s < tail THEN (s + SPECTRUM_RING_SIZE) - 1 - tail ELSE s - 1 - tail
<1> DEFINE N == SPECTRUM_RING_SIZE
<1>1. N \in Nat \ {0} /\ N > 2 /\ tail \in 0..(N - 1) /\ head \in 0..(N - 1) /\ Slots = 0..(N - 1)
  BY Sizes DEF RingTypes, Slots
<1>2. head = IF tail = N - 1 THEN 0 ELSE tail + 1
  BY NextSlot DEF Full, RingTypes
<1>3. \A x \in 0..(2 * N - 1) : /\ x < N => x % N = x
                                /\ ~(x < N) => x % N = x - N
  <2> HIDE DEF N
  <2> QED
    BY <1>1, ModSmall
<1>4. PICK j \in 0..(N - 2) : s = (head + j) % N
  BY DEF Window
<1> HIDE DEF N
<1>5. s \in 0..(N - 1) /\ (s = head + j \/ s = (head + j) - N)
  <2>1. head + j \in 0..(2 * N - 1)
    BY <1>1
  <2> QED
    BY <1>1, <1>3, <1>4, <2>1
<1>6. s # tail
  BY <1>1, <1>2, <1>5
<1>7. s - head + N \in 0..(2 * N - 1)
  BY <1>1, <1>5
<1>8. (s - head + N) % N = IF s < tail THEN (s + N) - 1 - tail ELSE s - 1 - tail
  <2>1. CASE s < tail
    <3>1. (s - head + N < N /\ s - head + N = (s + N) - 1 - tail)
          \/ (~(s - head + N < N) /\ (s - head + N) - N = (s + N) - 1 - tail)
      BY <1>1, <1>2, <1>5, <2>1
    <3> QED
      BY <1>3, <1>7, <2>1, <3>1
  <2>2. CASE ~(s < tail)
    <3>1. ~(s - head + N < N) /\ (s - head + N) - N = s - 1 - tail
      BY <1>1, <1>2, <1>5, <1>6, <2>2
    <3> QED
      BY <1>3, <1>7, <2>2, <3>1
  <2> QED
    BY <2>1, <2>2
<1> QED
  BY <1>1, <1>5, <1>6, <1>8 DEF Order, N

\* In a full ring every slot but the last holds a sample of this song.
LEMMA FullIsFresh ==
  ASSUME RingInv, Full, NEW s \in Slots, s < SPECTRUM_RING_SIZE - 1
  PROVE  /\ ring[s] \in 0..SPECTRUM_RING_SIZE
         /\ s < tail => ring[s] \in {tail - 1 - s, tail - s}
         /\ s > tail => ring[s] \in {(tail + SPECTRUM_RING_SIZE) - 1 - s, (tail + SPECTRUM_RING_SIZE) - s}
<1> DEFINE N == SPECTRUM_RING_SIZE
<1>1. N \in Nat /\ N > 2 /\ tail \in 0..(N - 1) /\ s \in 0..(N - 1) /\ s < N - 1
  BY Sizes DEF RingInv, RingTypes, Slots
<1>2. s < tail => ring[s] \in {tail - 1 - s, tail - s}
  BY DEF RingInv, Young
<1>3. s > tail => ring[s] \in {(tail + N) - 1 - s, (tail + N) - s}
  BY <1>1 DEF RingInv, Old
<1>4. s = tail => ring[s] \in 0..N
  BY <1>1 DEF RingInv, Newest
<1> HIDE DEF N
<1>5. ring[s] \in 0..N
  BY <1>1, <1>2, <1>3, <1>4
<1> QED
  BY <1>2, <1>3, <1>5 DEF N

\* The slots the analyser reads are in the first half of the ring.
LEMMA RenderSlots ==
  ASSUME RingTypes, NEW s \in spectrum_prepare_render
  PROVE  Full /\ s \in Slots /\ s < SPECTRUM_RING_SIZE - 1
<1> DEFINE N == SPECTRUM_RING_SIZE
<1>1. N \in Nat \ {0} /\ N > 2 /\ head \in 0..(N - 1)
  BY Sizes DEF RingTypes, Slots
<1>2. Full /\ s \in {((head + j) % N) \div 2 : j \in 0..((N - 1) * channels - 1)}
  BY DEF spectrum_prepare_render
<1>3. PICK j \in 0..((N - 1) * channels - 1) : s = ((head + j) % N) \div 2
  BY <1>2
<1> DEFINE x == (head + j) % N
<1>4. x \in 0..(N - 1)
  <2>1. j \in Int /\ head \in Int
    BY <1>1
  <2>2. head + j \in Int
    BY <2>1
  <2> QED
    BY <1>1, <2>2
<1>5. s = x \div 2
  BY <1>3
<1> HIDE DEF x, N
<1>6. s \in 0..(N - 1) /\ s < N - 1
  BY <1>1, <1>4, <1>5
<1> QED
  BY <1>2, <1>6 DEF N, Slots

\* What the invariant says of the window.
LEMMA RingIsFresh == RingInv => WindowFresh
<1> SUFFICES ASSUME RingInv PROVE WindowFresh
  OBVIOUS
<1> DEFINE N == SPECTRUM_RING_SIZE
<1>1. RingTypes /\ N \in Nat /\ N > 2 /\ tail \in 0..(N - 1) /\ Slots = 0..(N - 1)
  BY Sizes DEF RingInv, RingTypes, Slots
<1>2. ASSUME Full, NEW s \in Window \ {N - 1}, NEW t \in Window \ {N - 1}
      PROVE  /\ ring[s] \in 0..N
             /\ Order(s) < Order(t) => ring[s] > ring[t]
  <2>1. s \in Slots /\ s # tail /\ t \in Slots /\ t # tail
    BY <1>1, <1>2, WindowSlots
  <2>2. s < N - 1 /\ t < N - 1
    BY <1>1, <2>1
  <2>3. ring[s] \in 0..N
    BY <1>2, <2>1, <2>2, FullIsFresh
  <2>4. ASSUME Order(s) < Order(t) PROVE ring[s] > ring[t]
    <3>1. /\ s < tail => ring[s] \in {tail - 1 - s, tail - s}
          /\ s > tail => ring[s] \in {(tail + N) - 1 - s, (tail + N) - s}
          /\ t < tail => ring[t] \in {tail - 1 - t, tail - t}
          /\ t > tail => ring[t] \in {(tail + N) - 1 - t, (tail + N) - t}
      BY <1>2, <2>1, <2>2, FullIsFresh
    <3>2. /\ Order(s) = IF s < tail THEN (s + N) - 1 - tail ELSE s - 1 - tail
          /\ Order(t) = IF t < tail THEN (t + N) - 1 - tail ELSE t - 1 - tail
      BY <1>1, <1>2, WindowSlots
    <3>3. (s < tail /\ t < tail /\ s < t) \/ (s > tail /\ t > tail /\ s < t) \/ (s > tail /\ t < tail)
      BY <1>1, <2>1, <2>4, <3>2
    <3>4. CASE s < tail /\ t < tail /\ s < t
      BY <2>1, <3>4 DEF RingInv, Young
    <3>5. CASE s > tail /\ t > tail /\ s < t
      BY <1>1, <1>2, <2>1, <2>2, <3>5 DEF RingInv, Old
    <3>6. CASE s > tail /\ t < tail
      BY <1>1, <2>1, <2>2, <3>1, <3>6
    <3> QED
      BY <3>3, <3>4, <3>5, <3>6
  <2> QED
    BY <2>3, <2>4
<1>3. ASSUME NEW s \in spectrum_prepare_render PROVE ring[s] \in 0..N
  BY <1>1, <1>3, RenderSlots, FullIsFresh
<1> QED
  BY <1>2, <1>3 DEF WindowFresh

\* Every step keeps the invariant of the ring.
LEMMA RingStep == RingInv /\ [Next]_vars => RingInv'
<1> SUFFICES ASSUME RingInv, [Next]_vars PROVE RingInv'
  OBVIOUS
<1>1. ASSUME UNCHANGED ringVars PROVE RingInv'
  BY <1>1 DEF ringVars, RingInv, RingTypes, Full
<1>2. ASSUME NEW c, StartSong(c) PROVE RingInv'
  BY <1>2, ResetRing DEF StartSong
<1>3. ASSUME NEW f \in Frames, PlayFrame(f) PROVE RingInv'
  <2> DEFINE n == Len(f) \div 4
  <2>1. n \in Nat \ {0}
    <3>1. Len(f) \in Nat /\ Len(f) >= 4
      BY FrameLengths
    <3> QED
      BY <3>1
  <2>2. CASE Overruns(n)
    BY <1>1, <1>3, <2>2 DEF PlayFrame
  <2>3. CASE ~Overruns(n)
    <3>1. spectrum_update(n)
      BY <1>3, <2>3 DEF PlayFrame
    <3> HIDE DEF n
    <3> QED
      BY <2>1, <2>3, <3>1, UpdateRing
  <2> QED
    BY <2>2, <2>3
<1>4. CASE sound_play \/ sound_close \/ ReadVolume
  BY <1>1, <1>4 DEF sound_play, sound_close, ReadVolume
<1>5. ASSUME NEW a, sound_adjust_volume(a) PROVE RingInv'
  BY <1>1, <1>5 DEF sound_adjust_volume
<1>6. CASE UNCHANGED vars
  BY <1>1, <1>6 DEF vars
<1> QED
  BY <1>2, <1>3, <1>4, <1>5, <1>6 DEF Next

\* The analyser's window is filled with samples of this song, from the oldest to the newest, however
\* the frames divide the ring.
THEOREM WindowStaysFresh == Spec => []WindowFresh
<1> QED
  BY RingStep, InitRing, RingIsFresh, PTL DEF Spec

-----------------------------------------------------------------------------
(* Types                                                                   *)

\* The types of what the two invariants above do not mention.
OtherTypes ==
  /\ volume \in 0..FullVolume /\ left <= LongestFrame /\ garbled \in BOOLEAN
  /\ silence_duration \in 0..SilenceBound /\ quiet \in 0..SilenceBound
  /\ channels \in {1, 2} /\ status \in {"running", "overrun", "crashed"}

\* The silence that is added up stays within its bound.
LEMMA CappedType ==
  ASSUME NEW f \in Frames, NEW n \in 0..SilenceBound
  PROVE  Capped(n + Len(f)) \in 0..SilenceBound
<1>1. SilenceBound \in Nat /\ Len(f) \in Nat
  BY Sizes, FrameLengths DEF SilenceBound
<1> HIDE DEF SilenceBound
<1> QED
  BY <1>1 DEF Capped

\* Every step keeps these types.
LEMMA OtherTypesStep ==
  ASSUME SoundInv, SilenceIsSilence, OtherTypes, [Next]_vars
  PROVE  OtherTypes'
<1>1. SilenceBound \in Nat /\ LongestFrame \in Nat /\ 0 \in 0..SilenceBound /\ left \in Nat
  BY Sizes, FrameLengths DEF SilenceBound, SoundInv, SoundTypes
<1> HIDE DEF SilenceBound
<1>2. ASSUME NEW c \in {1, 2}, StartSong(c) PROVE OtherTypes'
  <2>1. garbled' \in BOOLEAN
    BY <1>2 DEF OtherTypes, StartSong, sound_open
  <2> QED
    BY <1>1, <1>2, <2>1 DEF OtherTypes, StartSong, sound_open, spectrum_reset, SoundInv, SoundTypes, SilenceBound
<1>3. ASSUME NEW f \in Frames, PlayFrame(f) PROVE OtherTypes'
  <2> DEFINE n == Len(f) \div 4
  <2>1. UNCHANGED <<volume, garbled>>
    BY <1>3 DEF PlayFrame
  <2>2. garbled' \in BOOLEAN
    BY <2>1 DEF OtherTypes
  <2>3. CASE Overruns(n)
    <3>1. UNCHANGED <<ringVars, silenceVars, left>> /\ status' = "overrun"
      BY <1>3, <2>3 DEF PlayFrame
    <3> QED
      BY <2>1, <2>2, <3>1 DEF OtherTypes, ringVars, silenceVars
  <2>4. CASE ~Overruns(n)
    <3>1. /\ UNCHANGED <<channels, status>> /\ left' \in {0, Len(f)}
          /\ silence_duration' = detect_silence(f)
          /\ quiet' = IF Silent(f) THEN Capped(quiet + Len(f)) ELSE 0
      BY <1>3, <2>4 DEF PlayFrame, spectrum_update
    <3>2. quiet' \in 0..SilenceBound
      BY <1>1, <3>1, CappedType DEF OtherTypes
    <3>3. silence_duration' \in 0..SilenceBound
      BY <1>1, <3>1, CappedType, SilenceFound DEF OtherTypes
    <3>4. left' <= LongestFrame
      BY <1>1, <3>1, FrameLengths
    <3> QED
      BY <2>1, <2>2, <3>1, <3>2, <3>3, <3>4 DEF OtherTypes
  <2> QED
    BY <2>3, <2>4
<1>4. CASE sound_play
  <2>1. left' <= left
    BY <1>4, Sizes DEF sound_play, SoundInv, SoundTypes
  <2>2. left' \in Int
    BY <1>4, Sizes DEF sound_play, SoundInv, SoundTypes
  <2>3. garbled' \in BOOLEAN
    BY <1>4 DEF sound_play, Write, OtherTypes
  <2>4. left' <= LongestFrame
    BY <1>1, <2>1, <2>2 DEF OtherTypes
  <2> QED
    BY <1>4, <2>3, <2>4 DEF sound_play, OtherTypes, silenceVars, ringVars
<1>5. CASE sound_close
  <2>1. garbled' \in BOOLEAN
    BY <1>5 DEF sound_close, Write, OtherTypes
  <2> QED
    BY <1>5, <2>1 DEF sound_close, OtherTypes, silenceVars, ringVars
<1>6. CASE ReadVolume
  <2>1. garbled' \in BOOLEAN
    BY <1>6 DEF ReadVolume, soundVars, OtherTypes
  <2> QED
    BY <1>6, <2>1 DEF ReadVolume, OtherTypes, soundVars, silenceVars, ringVars
<1>7. ASSUME NEW a \in {-VolumeStep, VolumeStep}, sound_adjust_volume(a) PROVE OtherTypes'
  <2>1. garbled' \in BOOLEAN /\ UNCHANGED <<left, silenceVars, ringVars>>
    BY <1>7 DEF sound_adjust_volume, soundVars, OtherTypes
  <2>2. status' \in {"running", "overrun", "crashed"}
    BY <1>7 DEF sound_adjust_volume, OtherTypes
  <2>3. volume' \in 0..FullVolume
    <3>1. a \in Int
      BY Sizes
    <3> QED
      BY <1>7, <3>1, Sizes DEF sound_adjust_volume, OtherTypes, Within
  <2> QED
    BY <2>1, <2>2, <2>3 DEF OtherTypes, silenceVars, ringVars
<1>8. CASE UNCHANGED vars
  <2>1. garbled' \in BOOLEAN
    BY <1>8 DEF vars, soundVars, OtherTypes
  <2> QED
    BY <1>8, <2>1 DEF vars, silenceVars, ringVars, OtherTypes
<1> QED
  BY <1>2, <1>3, <1>4, <1>5, <1>6, <1>7, <1>8 DEF Next

\* Every variable keeps its type, whatever the frames.
THEOREM AudioTypeCorrect == Spec => []TypeOK
<1>1. Init => OtherTypes
  <2>1. Init => garbled \in BOOLEAN
    BY DEF Init
  <2>2. SilenceBound \in Nat /\ LongestFrame \in Nat /\ FullVolume \in Nat
    BY Sizes, FrameLengths DEF SilenceBound
  <2> HIDE DEF SilenceBound
  <2> QED
    BY <2>1, <2>2 DEF Init, OtherTypes, spectrum_init
<1>2. Init => SilenceIsSilence
  BY DEF Init, SilenceIsSilence
<1>3. SoundInv /\ RingInv /\ OtherTypes => TypeOK
  <2> SUFFICES ASSUME SoundInv, RingInv, OtherTypes PROVE TypeOK
    OBVIOUS
  <2>1. left \in 0..LongestFrame
    BY FrameLengths DEF SoundInv, SoundTypes, OtherTypes
  <2>2. garbled \in BOOLEAN
    BY DEF OtherTypes
  <2>3. ring \in [Slots -> {Never} \cup 0..TooOld] /\ {head, tail} \subseteq Slots
    BY DEF RingInv, RingTypes, Ages
  <2> QED
    BY <2>1, <2>2, <2>3 DEF TypeOK, SoundInv, SoundTypes, OtherTypes
<1>4. SoundInv /\ SilenceIsSilence /\ OtherTypes /\ [Next]_vars => OtherTypes'
  BY OtherTypesStep
<1> QED
  BY <1>1, <1>2, <1>3, <1>4, InitSound, InitRing, SoundStep, RingStep, SilenceStep, PTL DEF Spec

=============================================================================
