\* As Agent.cfg without a token budget: the history limit alone cuts.
SPECIFICATION Spec
CONSTANTS
  MaxTurns = 2
  Models = {"main", "alt"}
  Primary = "main"
  Fallback = "alt"
  NoModel = "no model"
  Retries <- MCRetries
  MaxRounds = 3
  MaxErrors = 2
  MaxConcurrent = 1
  HistoryLimit = 4
  Budget = 0
  CostOf <- MCCosts
  CallLists <- MCCallLists
  MaxPieces = 1
  EventCapacity = 1
  DeltaCapacity = 1
INVARIANTS
  FullChain
