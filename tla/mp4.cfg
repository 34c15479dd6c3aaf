SPECIFICATION Spec
CONSTANTS
  FtypSize = 2
  MoovFixed = 2
  TrakFixed = 1
  Setups <- Recordings
  Kinds <- Frames
  Stamps = {0, 2, 5}
  AudioSizes = {5}
  Chunk = 2
  MaxFrames = 4
INVARIANTS
  TypeOK
  SamplesReadable
  TimesReadBack
  SeekFindsNearest
  VideoNeverBack
  AudioIsRecorded
CHECK_DEADLOCK FALSE
