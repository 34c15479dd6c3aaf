SPECIFICATION Spec
CONSTANTS
  FtypSize = 2
  MoovFixed = 2
  TrakFixed = 1
  Setups <- AsReported
  Kinds <- Frames
  Stamps = {0, 2, 5}
  AudioSizes = {5}
  Chunk = 2
  MaxFrames = 4
INVARIANT
  AudioIsRecorded
CHECK_DEADLOCK FALSE
