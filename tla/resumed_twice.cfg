SPECIFICATION AgentSpec
CONSTANTS
  AgentRuns = {r1, r2}
  NoRun = NoRun
  Chunks = 2
  Replay = "all"
  MaxCrashes = 0
INVARIANT ReadsAsOne
