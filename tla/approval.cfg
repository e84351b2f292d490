SPECIFICATION Spec
CONSTANTS
  Ids <- TwoIds
  Gated = {"gated"}
  Free = {"free", "policed"}
  Declared = {"declared"}
  Unknown = {"unknown"}
  Policed = {"policed"}
  Insists = {"gated"}
  MaxIterations = 1
  MaxErrors = 1
  StopAtUnknown = FALSE
  MaxTurns = 4
  MaxCalls = 2
INVARIANTS
  OnlyWithConsent
  ConsentOfItsId
  NoMoreRunsThanYeses
  WellFormedRequest
  AnAnswerCounts
  EndsOnAnAnswer
CHECK_DEADLOCK FALSE
