\* A streaming task is still at work when the database closes.
CONSTANTS
  Requests = {"f1", "x1"}
  Ids <- MCIds
  Sessions <- MCSessions
  SessionOf <- MCSessionOf
  IdOf <- MCIdOf
  ViaOf <- MCViaOf
  TooLong = {}
  Modes = {"serve"}
  QueueCapacity = 2
  DedupCapacity = 4
  HistoryLimit = 2
  MaxRpm = 0
  Window = 1
  MaxEntries = 2
  MaxClock = 0
  PrevalTTL = 1
  DbFaults = FALSE
  Interrupts = TRUE
  Absent = Absent
  NoLock = NoLock
  Unread = Unread

SPECIFICATION Spec

INVARIANTS
  NoTaskAtClose
