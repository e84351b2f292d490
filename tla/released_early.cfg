SPECIFICATION InvokedSpec
CONSTANTS
  Requests = {r1, r2}
  NoRequest = NoRequest
  Keys = {"k1"}
  MaxSessions = 1
  MaxTexts = 1
  MaxStreams = 1
INVARIANT OneTurnAtATime
