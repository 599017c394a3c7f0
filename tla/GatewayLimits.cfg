\* HTTP requests of two sessions, one too long, one slot per window, room for one entry; Ctrl+C at any time.
CONSTANTS
  Requests = {"h1", "h2"}
  Ids <- MCIds
  Sessions <- MCSessions
  SessionOf <- MCSessionOf
  IdOf <- MCIdOf
  ViaOf <- MCViaOf
  TooLong = {"h2"}
  Modes = {"serve"}
  QueueCapacity = 1
  DedupCapacity = 4
  HistoryLimit = 2
  MaxRpm = 1
  Window = 3
  MaxEntries = 1
  MaxClock = 3
  PrevalTTL = 1
  DbFaults = TRUE
  Interrupts = TRUE
  Absent = Absent
  NoLock = NoLock
  Unread = Unread

SPECIFICATION Spec

INVARIANTS
  PrevalidationHonoured
  PrevalConsumed
