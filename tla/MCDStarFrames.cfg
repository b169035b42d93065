CONSTANTS
  OctetBits = 1
  WordOctets = 2
  HeadSync <- MCHeadSync
  DataSyncBits = 2
  DataSync <- MCDataSync
  TermHighBits = 1
  TermHigh <- MCTermHigh
  TermLow <- MCTermLow
  HeaderBits = 8
  SyncPeriod = 3
SPECIFICATION HSpec
INVARIANTS
  TypeOK
PROPERTIES
  WholeFrames
  SyncJudged
  HalvesAdjacent
  NoAudioLost
  NoModeHolds
  ImplementsVoiceStream
\* Process returns true when the vocoder fails, and the block is finished
CHECK_DEADLOCK FALSE
