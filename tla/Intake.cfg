\* Locks: three tasks of one session and one of another.  Limiter: three
\* sessions, room for one entry, two slots per window of two ticks.  Dedup: four
\* ids through a cache of two.  Socket: three messages, one in fragments.
CONSTANTS
  Tasks = {"t1", "t2", "t3", "t4"}
  Sessions = {"s1", "s2"}
  SessionOf <- MCSessionOf
  NoLock = NoLock
  Callers = {"a", "b", "c"}
  MaxRpm = 2
  Window = 2
  MaxEntries = 1
  MaxClock = 3
  MaxGrants = 5
  Ids = {"m1", "m2", "m3", "m4"}
  Capacity = 2
  MaxOffers = 6
  Events = {"e1", "e2", "e3"}
  Splits <- MCSplits
  Refused = {}
  Unreadable = {"e3"}
  SeenWindow = 2
  SeenCap = 1
  SeenKeep = 1
  FragmentTTL = 1
  FragmentCap = 1
  Heartbeat = 0
  MaxShift = 1
  MaxDelay = 1
  MaxFrames = 3
  NoEvent = NoEvent

SPECIFICATION IntakeSpec

INVARIANTS
  PartsInv
  RateExact
  EvictsOverflowOnly
  DedupExact
  HandsOverWhole

PROPERTIES
  NoStarvation
  CapRestored
  SocketDedup
  NothingStays

\* The clock, the grants and the offers are bounded.
CHECK_DEADLOCK FALSE
