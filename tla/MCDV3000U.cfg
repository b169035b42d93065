CONSTANTS
  Base = 7
  DV3K_START_BYTE = 6
  DV3K_TYPE_CONTROL = 0
  DataType = 2
  DataField = 0
  DataCount = 5
  DataBytes = 5
  FieldOf <- MCFieldOf
  TextOf <- MCTextOf
  MaxPayload = 6
  Frames <- MCFrames
  MaxLost = 1
  MaxStarts = 2
SPECIFICATION Spec
INVARIANTS
  TypeOK
  AnswerUnderstood
PROPERTIES
  ImplementsCalls
  OpenLeavesNothing
  CallsReturn
\* the program may have been started as often as it may
CHECK_DEADLOCK FALSE
