CONSTANTS
  Lead = 1
  Rest = 2
  HeadFrags = 3
  Flags = 1
  Check = 1
  MsgFrags = 3
  Type3Len = 5
  SyncPeriod = 5
  Other <- MCOther
  Spaces = {}
  CountMax = 4
  Keys = {4, 5}
  TextChars <- MCTextChars
  RadioHeaders <- MCRadioHeaders
  Mixes <- MCMixes
  StationHeader <- MCStationHeader
  StationMessage <- MCStationMessage
SPECIFICATION SSpec
INVARIANTS
  HeaderOncePerTransmission
