SPECIFICATION Spec
CONSTANTS
  Off = Off
  Messages <- MCMessages
  Size <- MCSize
  Zipped <- MCZipped
  Options <- MCOptions
  HeaderLength = 2
  MaxPacketLength = 3
  MaxFrames = 3
INVARIANTS
  TypeOK
  InOrderWhole
  SameOptionsAgree
CHECK_DEADLOCK FALSE
