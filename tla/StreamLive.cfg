SPECIFICATION FairSpec
CONSTANTS
  s1 = s1
  s2 = s2
  u1 = u1
  u2 = u2
  Users = {u1, u2}
  NoUser = NoUser
  Songs = {s1, s2}
  NoSong = NoSong
  Playlist <- TwoSongs
  Volumes = {50}
  Playable = {s1, s2}
  LossyDB = FALSE
  HoistedSpin = FALSE
  WIN32 = FALSE
  MaxEdits = 2
  MaxPolls = 1
PROPERTIES
  MainReturns
  MusicFollows
CHECK_DEADLOCK FALSE
