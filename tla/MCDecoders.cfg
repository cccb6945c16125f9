SPECIFICATION Spec
CONSTANTS
  Files <- MCFiles
  Infos <- MCInfos
  Samples <- MCSamples
  NoTag = NoTag
  NoData = NoData
  Milli = 2
  Rate = 3
  FrameSamples = 4
  MAD_F_FRACBITS = 28
  USE_MAGIC = TRUE
CHECK_DEADLOCK FALSE
INVARIANTS NothingLeaks SeekInside   SampleNearest
