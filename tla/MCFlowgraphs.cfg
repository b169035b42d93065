CONSTANTS
  SyncPeriod = 3
  MaxFrames = 4
  BufferSlots = 4
  Descriptors = 2
  MaxChunks = 4
SPECIFICATION Spec
INVARIANTS
  TypeOK
  StreamFramed
  HeardInTime
  PlayedBack
  DeviceStays
  NoLeak
\* both blocks are destroyed in the end
CHECK_DEADLOCK FALSE
