SPECIFICATION SmoothSpec
CONSTANTS
  Ids <- TwoIds
  Gated = {"gated"}
  Free = {"free", "policed"}
  Declared = {}
  Unknown = {}
  Policed = {"policed"}
  Insists = {"gated"}
  MaxIterations = 1
  MaxErrors = 1
  StopAtUnknown = FALSE
  MaxTurns = 3
  MaxCalls = 2
INVARIANTS
  PolicyNeedsHuman
CHECK_DEADLOCK FALSE
