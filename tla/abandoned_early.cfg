SPECIFICATION HostedSpec
CONSTANTS
  MaxTurns = 2
  MaxPieces = 1
  EarlyAbandon = TRUE
INVARIANT AbandonedIsResumable
