SPECIFICATION FairSpec
CONSTANTS
  MaxSamples = 7
  MinRead = 0
  MaxRead = 3
  chunk_size = 2
  c_length = 4
  TailMargin = 1
  nc_max = 3
  MaxSpeech = 6
  RehashAt = 3
  MaxCommands = 2
  MaxFailures = 1
CHECK_DEADLOCK FALSE
INVARIANTS
  TypeOK
  ReadsStored
  NothingDropped
  HolesWhereStale
  SwapFits
PROPERTIES
  SentInOrder
  SegmentsClosed
