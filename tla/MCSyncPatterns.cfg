CONSTANTS
  OctetBits = 8
  WordOctets = 4
  HeadSync <- MCHeadSync
  DataSyncBits = 24
  DataSync <- MCDataSync
  TermHighBits = 16
  TermHigh <- MCTermHigh
  TermLow <- MCTermLow
  VocoderFrames <- MCVocoderFrames
  SlowOctets <- MCSlowOctets
SPECIFICATION PSpec
INVARIANTS
  WordsAreLastBits
  FrameInArrivalOrder
  NoStaleSync
  SameFrameDecoded
\* every stream of bits ends
CHECK_DEADLOCK FALSE
