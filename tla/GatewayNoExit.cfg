\* The queue monitor keeps the queue open after the CLI has finished.
CONSTANTS
  Requests = {"c1"}
  Ids <- MCIds
  Sessions <- MCSessions
  SessionOf <- MCSessionOf
  IdOf <- MCIdOf
  ViaOf <- MCViaOf
  TooLong = {}
  Modes = {"chat"}
  QueueCapacity = 2
  DedupCapacity = 4
  HistoryLimit = 2
  MaxRpm = 0
  Window = 1
  MaxEntries = 2
  MaxClock = 0
  PrevalTTL = 1
  DbFaults = FALSE
  Interrupts = FALSE
  Absent = Absent
  NoLock = NoLock
  Unread = Unread

SPECIFICATION FairSpec

PROPERTIES
  ExitsNaturally
