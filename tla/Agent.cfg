\* Two turns of up to three rounds, a model to switch to, a retry, a batch of two.
SPECIFICATION FairSpec
CONSTANTS
  MaxTurns = 2
  Models = {"main", "alt"}
  Primary = "main"
  Fallback = "alt"
  NoModel = "no model"
  Retries <- MCRetries
  MaxRounds = 3
  MaxErrors = 2
  MaxConcurrent = 1
  HistoryLimit = 4
  Budget = 6
  CostOf <- MCCosts
  CallLists <- MCCallLists
  MaxPieces = 1
  EventCapacity = 1
  DeltaCapacity = 1
INVARIANTS
  AgentInv
  PromptFits
  SliceIsTurn
  GivesUpInTime
  FallbackForPrimary
PROPERTIES
  GoneClientFreesSession
