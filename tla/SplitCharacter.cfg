\* An OpenAI stream with a character of two bytes, cut into chunks anywhere.
CONSTANTS
  Bodies <- MCSplit
  Missing = Missing
  BufferCap = 12

SPECIFICATION SseSpec

INVARIANT AnswerIsPrefix

CHECK_DEADLOCK FALSE
