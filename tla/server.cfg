SPECIFICATION PairSpec
CONSTANTS
  Servers <- OneServer
  Ids <- OneId
  Owners <- OneOwner
  Turns <- FirstAndAny
  Cancels <- OneRequest
  Deletes <- OneRequest
  MaxItems = 1
  StoreFails = TRUE
  NoTurn = NoTurn
  NoRecord = NoRecord
INVARIANTS
  ExclusiveTurn
  NoOrphanLog
  DrainedIsQuiet
PROPERTIES
  KeepsContract
  ToldIsStored
  NoGapInAnswers
