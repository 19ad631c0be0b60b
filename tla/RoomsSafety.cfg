SPECIFICATION HeardSpec
CONSTANTS
  u1 = u1
  u2 = u2
  Users = {u1, u2}
  NoUser = NoUser
  RoomOrder <- TwoRooms
  MaxTrack = 2
  Length = 2
  ResetsPosition = TRUE
  MaxMoves = 1
  MaxChoices = 1
SYMMETRY UserSymmetry
INVARIANTS
  TypeOK
  ReportersAgree
  WritesForSomebody
  NothingSkipped
PROPERTIES
  SongsPlayOut
  PlaysAsOne
