SPECIFICATION ServerSpec
CONSTANTS
  Servers <- OneServer
  Ids <- OneId
  Owners <- OneOwner
  Turns <- OneOfEach
  Cancels <- OneRequest
  Deletes <- OneRequest
  MaxItems = 1
  StoreFails = TRUE
  NoTurn = NoTurn
  NoRecord = NoRecord
PROPERTIES
  EveryTurnEnds
  DrainEndsEventually
  CancelIsAnswered
CHECK_DEADLOCK FALSE
