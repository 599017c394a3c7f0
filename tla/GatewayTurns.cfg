\* A message, its redelivery and a stream, or two CLI lines, one too long; Ctrl+C at any time.
CONSTANTS
  Requests = {"f1", "f1b", "x1", "c1", "c2"}
  Ids <- MCIds
  Sessions <- MCSessions
  SessionOf <- MCSessionOf
  IdOf <- MCIdOf
  ViaOf <- MCViaOf
  TooLong = {"c2"}
  Modes = {"serve", "chat"}
  QueueCapacity = 1
  DedupCapacity = 4
  HistoryLimit = 1
  MaxRpm = 0
  Window = 1
  MaxEntries = 2
  MaxClock = 0
  PrevalTTL = 1
  DbFaults = TRUE
  Interrupts = TRUE
  Absent = Absent
  NoLock = NoLock
  Unread = Unread

SPECIFICATION FairSpec

INVARIANTS
  SessionExclusive
  AtMostOnce
  
  NoTurnCut

PROPERTIES
  TurnsAreAtomic
  FollowsLocks
  Served
  StopCompletes
