SPECIFICATION StreamSpec
CONSTANTS
  Conn <- MCConn
  Buf = {b1, b2, b3, b4, b5}
  Slot = {s1}
  Fragment <- MCFragment
  OtherPacket = OtherPacket
  Nothing = Nothing
  Viewer = Viewer
  Streams <- Wrapping
  SeqSpace = 8
  MaxTotal = 24
PROPERTIES
  EvictedIsIncomplete
CHECK_DEADLOCK FALSE
