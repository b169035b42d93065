CONSTANTS
  Lead = 1
  Rest = 1
  HeadFrags = 2
  Flags = 1
  Check = 1
  MsgFrags = 2
  Type3Len = 6
  SyncPeriod = 3
  Other <- MCOther
  Spaces <- MCSpaces
  CountMax = 3
  Keys = {3}
  TextChars <- MCTextChars
  RadioHeaders <- MCRadioHeaders
  Mixes <- MCTextMix
SPECIFICATION CSpec
PROPERTIES
  TextPrinted
