SPECIFICATION FairSpec
CONSTANTS
  HeaderPieces = 2
  BodyPieces = 1
  Garbled = Garbled
  MaxMessages = 2
  MaxMulticasts = 1
INVARIANTS TypeOK HandedOverInOrder
PROPERTIES QuietAfterKill ExitEndsWithoutListener
CHECK_DEADLOCK FALSE
