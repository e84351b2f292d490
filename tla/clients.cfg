SPECIFICATION ClientsSpec
CONSTANTS
  Contexts = {c1, c2}
  Boxes = {"b1", "b2"}
  Work <- Written
  NoWrite = NoWrite
  Attempts = 2
  MaxDeletes = 1
  MaxCrashes = 1
INVARIANTS
  StreamedIsAwaited RequestIsSendable RestoredIsReplayed
  AcceptedIsHeld ReplayIsOfTheTurn
