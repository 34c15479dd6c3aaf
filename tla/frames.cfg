SPECIFICATION Spec
CONSTANTS
  Codecs = {"H264", "H265"}
  Types = {5, 19}
  Lengths = {1, 4, 5}
  Heads <- PlainAndLong
  Pads = {0, 3}
  MaxParts = 4
  MaxUnits = 2
INVARIANTS
  TypeOK
  GivenAsSent
  GivenToTheEnd
  FitsRequest
CHECK_DEADLOCK FALSE
