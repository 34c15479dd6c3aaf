SPECIFICATION Spec
CONSTANTS
  c1 = c1
  c2 = c2
  b1 = b1
  b2 = b2
  b3 = b3
  s1 = s1
  s2 = s2
  Conn <- MCConn
  Buf <- MCBuf
  Slot <- MCSlot
  Fragment <- MCFragment
  OtherPacket = OtherPacket
  Nothing = Nothing
  SeqSpace = 4
  MaxTotal = 6
SYMMETRY Symmetry
INVARIANTS
  TypeOK
  SlotsPartitioned
  QueuesWellFormed
  BuffersOwnedOnce
CHECK_DEADLOCK FALSE
