\* Two messages of a session overtake each other on the way to the lock.
CONSTANTS
  Requests = {"f1", "f2"}
  Ids <- MCIds
  Sessions <- MCSessions
  SessionOf <- MCSessionOf
  IdOf <- MCIdOf
  ViaOf <- MCViaOf
  TooLong = {}
  Modes = {"serve"}
  QueueCapacity = 2
  DedupCapacity = 4
  HistoryLimit = 2
  MaxRpm = 0
  Window = 1
  MaxEntries = 2
  MaxClock = 0
  PrevalTTL = 1
  DbFaults = FALSE
  Interrupts = FALSE
  Absent = Absent
  NoLock = NoLock
  Unread = Unread

SPECIFICATION FairSpec

PROPERTIES
  InOrder
