SPECIFICATION FairSpec
CONSTANTS
  c1 = c1
  c2 = c2
  Clients = {c1, c2}
  RoomNames <- TwoRooms
  Configurations <- OneOrTwoNames
  Bytes = {7, 8}
  NoBadge = NoBadge
  min = 8
  max = 15
  MaxMoves = 1
  MaxEdits = 1
  MaxFaults = 1
INVARIANTS
  TypeOK
  RowsBounded
PROPERTIES
  OverrideKept
  Followed
  HeartBeats
