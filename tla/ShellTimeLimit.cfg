\* One command that ends and leaves a process behind with its pipes.
CONSTANTS
  ShellCalls = {"daemon"}
  CommandOf <- MCCommandOf
  ProcessOf <- MCProcessOf
  Level = "full"
  Venv = TRUE
  PipeSize = 1
  KeepBytes = 1

SPECIFICATION ShellFairSpec

PROPERTY TimeLimitHolds
