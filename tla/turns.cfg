SPECIFICATION TurnsSpec
CONSTANTS
  Runs = {r1, r2, r3}
  AgentRuns = {r1, r2, r3}
  NoRun = NoRun
  Requests = {r1, r2, r3}
  NoRequest = NoRequest
  Turns = {r1, r2, r3}
  NoTurn = NoTurn
  Chunks = 2
  Replay = "rest"
  MaxCrashes = 1
  MaxTurns = 3
  MaxPieces = 3
  EarlyAbandon = FALSE
  Keys = {"k1", "k2"}
  MaxSessions = 1
  MaxTexts = 2
  MaxStreams = 1
  Callers = {"c1", "c2"}
  Sessions = {"s1", "s2"}
  Scopes = {"u1", "u2"}
  Tenants = {"u1", "u2"}
  Ids = {"a", "b"}
  Conversations = {"", "k", "a"}
  Owners = {"u1", "u2"}
  MaxResponses = 1
  MaxDrops = 1
  MaxClock = 1
  NoId = NoId
  None = None
  MaxEvents = 4
  Items <- SomeItems
  Outputs <- SomeOutputs
SYMMETRY Perms
INVARIANTS
  StoredOnce ReplaysWholeExchanges ToldOnce
  RepliesAreReplayed DecisionsCount ContinuesTheConversation
  TellsTheResource LeadsToTheResponse
  TurnsStayApart RemembersItsOwn SkillsAreItsOwn
