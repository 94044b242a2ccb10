SPECIFICATION FairSpec
CONSTANTS
  BYTE = 13
  WORD = 2
  HEADER = 5
  PlayersInCrowd = 13
  CAPACITY = 180
  Portions = {11, 100}
  MaxSends = 3
  Directions <- BothWays
INVARIANTS TypeOK FramingKept MessagesRead
PROPERTIES IsPacketQueue WholeIsProcessed
CHECK_DEADLOCK FALSE
