CONSTANTS
  Lead = 1
  Rest = 1
  HeadFrags = 2
  Flags = 1
  Check = 1
  MsgFrags = 2
  Type3Len = 6
  SyncPeriod = 3
  Other <- MCOther
  Spaces <- MCSpaces
  CountMax = 3
  Keys = {3, 4, 5, 6}
  TextChars <- MCTextCharsAll
  RadioHeaders <- MCRadioHeaders
  Mixes <- MCMixes
SPECIFICATION CSpec
INVARIANTS
  TypeOK
  LeftByCountOnly
  RadioHeaderOnce
  MessageOnce
PROPERTIES
  TrimStops
  TextAsSent
