SPECIFICATION StreamSpec
CONSTANTS
  Conn <- MCConn
  Buf = {b1, b2, b3, b4}
  Slot = {s1, s2}
  Fragment <- MCFragment
  OtherPacket = OtherPacket
  Nothing = Nothing
  Viewer = Viewer
  Streams <- OnTheNetwork
  SeqSpace = 32
  MaxTotal = 30
SYMMETRY Symmetry
INVARIANTS
  DeliveredIsSuffix
  DeliveredOnce
  LostPacketsAreLost
  PoolNotWedged
  WholeStreamDelivered
PROPERTIES
  DeliversInOrder
  EvictedIsIncomplete
CHECK_DEADLOCK FALSE
