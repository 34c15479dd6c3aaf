SPECIFICATION FairSpec
CONSTANTS
  Streams <- Sessions
  MAX_BYTES_PER_RECEIVE = 16
  RTP_RECV_BUF_SIZE = 3
  RTSP_MSG_LENGTH = 12
  RTSP_INTERLEAVE_HEADER_LEN = 4
  VersionLength = 8
  UINT32 = 65536
  WholeBodies = TRUE
INVARIANTS
  TypeOK
  HandledInOrder
  NothingCompleteWaits
  BufferNeverFull
PROPERTIES
  EverythingHandled
CHECK_DEADLOCK FALSE
