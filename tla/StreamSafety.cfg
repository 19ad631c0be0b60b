SPECIFICATION Spec
CONSTANTS
  s1 = s1
  s2 = s2
  u1 = u1
  u2 = u2
  Users = {u1, u2}
  NoUser = NoUser
  Songs = {s1, s2}
  NoSong = NoSong
  Playlist <- TwoSongs
  Volumes <- McVolumes
  Playable = {s2}
  LossyDB = TRUE
  HoistedSpin = TRUE
  WIN32 = FALSE
  MaxEdits = 2
  MaxPolls = 1
SYMMETRY UserSymmetry
INVARIANTS
  TypeOK
  WrapperWhole
  QuitHeard
  PlayerFollows
  WorksForUser
PROPERTY OneReportPerSong
CHECK_DEADLOCK FALSE
