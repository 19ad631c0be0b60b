SPECIFICATION FairSpec
CONSTANTS
  a = a
  b = b
  missing = missing
  noise = noise
  Garbled = Garbled
  NoUri = NoUri
  Absent = Absent
  Uris = {a, b, missing, noise, Garbled}
  Playable = {a, b}
  Silent = {noise}
  Lines <- SomeLines
  Numbers <- SomeNumbers
  Longest = 6
  MaxErrors = 2
INVARIANTS
  TypeOK
  FlagNeverAhead
  PlaysWhatWasLoaded
  VolumeReadBack
  Understood
PROPERTY PromptReturns
CHECK_DEADLOCK FALSE
