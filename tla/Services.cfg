\* The services around the agent, one at a time: three Feishu calls, four HTTP
\* requests, two tasks and the heartbeat, three skill files, four audit events,
\* two turns of two chats, two memories, two streamed answers, three commands.
CONSTANTS
  Calls = {"long", "short", "react"}
  ChunksOf <- MCChunksOf
  Reactions = {"react"}
  MaxTokens = 3
  None = None
  Requests = {"j1", "j2", "m1", "x1"}
  KindOf <- MCKindOf
  FaultOf <- MCFaultOf
  QueueCapacity = 1
  HasGateway = TRUE
  Configs <- MCConfigs
  Invalid = Invalid
  HeartbeatInterval = 2
  MinSleep = 1
  BackoffMin = 1
  BackoffMax = 3
  MaxExponent = 2
  LastTick = 6
  Files = {"a", "b", "c"}
  SourceOf <- MCSourceOf
  DirOf <- MCDirOf
  Names = {"x"}
  NoName = NoName
  NoFile = NoFile
  ChannelCap = 1
  MaxEdits = 2
  FlushEvery = 2
  Capacity = 4
  LineSizes = {1, 5}
  MaxEvents = 4
  Chats = {"c", "d"}
  TurnSizes = {1, 2}
  Keys = {"k", "l"}
  Texts = {"t", "u"}
  Unset = Unset
  LastSecond = 2
  MaxTurns = 2
  MaxRows = 4
  Bodies <- MCBodies
  Missing = Missing
  BufferCap = 12
  ShellCalls = {"pipe", "python", "bad"}
  CommandOf <- MCCommandOf
  ProcessOf <- MCProcessOf
  Level = "full"
  Venv = TRUE
  PipeSize = 1
  KeepBytes = 1

SPECIFICATION ServicesSpec

INVARIANTS
  RetryIsFresh
  PrefixOnce
  HttpInv
  RunsFollowSchedule
  NeverOversleeps
  TailIsShort
  HistoriesWhole
  IndexMirrors
  AnswerIsPrefix
  TextsExact

PROPERTIES
  SessionsWhole
  CallsEnd
  NoPendingLeak
  CatchesUp
  OutputNeverBlocks

CHECK_DEADLOCK FALSE
