CONSTANTS
  OctetBits = 1
  WordOctets = 3
  HeadSync <- MCHeadSync
  DataSyncBits = 3
  DataSync <- MCDataSync
  TermHighBits = 1
  TermHigh <- MCTermHigh
  TermLow <- MCTermLow
  HeaderBits = 10
  SyncPeriod = 3
  SyncFrames <- MCSyncFrames
  PlainFrames <- MCPlainFrames
SPECIFICATION RSpec
INVARIANTS
  RelockInTime
\* Process returns true when the vocoder fails, and the block is finished
CHECK_DEADLOCK FALSE
