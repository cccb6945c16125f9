SPECIFICATION Spec
CONSTANTS
  Frames <- MCFrames
  EMPEG_AUDIO_BUFFER_SIZE = 6
  SPECTRUM_RING_SIZE = 5
  one_second = 4
  FullVolume = 2
  VolumeStep = 1
CHECK_DEADLOCK FALSE
INVARIANTS DeviceGetsAll SilenceIsSilence WindowFresh
