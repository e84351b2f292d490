SPECIFICATION Spec
CONSTANTS
  Ids <- OneId
  Gated = {"gated"}
  Free = {"free"}
  Declared = {}
  Unknown = {}
  Policed = {}
  Insists = {"gated", "free"}
  MaxIterations = 1
  MaxErrors = 1
  StopAtUnknown = FALSE
  MaxTurns = 5
  MaxCalls = 3
INVARIANTS
  ConsentOfItsCall
CHECK_DEADLOCK FALSE
