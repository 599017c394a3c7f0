-------------------------------- MODULE ShellRun --------------------------------
(***************************************************************************)
(* shell_exec (tool/shell.rs): the checks of a command, the managed Python *)
(* runtime it may need, and the life of its process: two pipes that are    *)
(* read to their ends by tasks of their own, of which only a limited part  *)
(* is kept, the time limit, the kill, and the result.  The calls of one    *)
(* batch, and of several sessions, run at the same time.  Nothing in the   *)
(* program drops a call half-way but its own end.                          *)
(*                                                                         *)
(* A command is what the checks can tell of its segments; a process is     *)
(* what it writes to each pipe, whether it ends by itself, and whether it  *)
(* leaves a process of its own behind that has inherited the pipes.        *)
(***************************************************************************)
EXTENDS Naturals, Sequences, FiniteSets

CONSTANTS
  ShellCalls,  \* the calls of shell_exec
  CommandOf,   \* [segments, syntax, prefix, quoted] of a call's command
  ProcessOf,   \* [writes, hangs, leaves] of the process it starts
  Level,       \* permission_level: "readonly", "supervised", "full"
  Venv,        \* venv_path is configured
  PipeSize,    \* what a pipe of the system holds
  KeepBytes    \* MAX_COMMAND_STDOUT_BYTES, MAX_COMMAND_STDERR_BYTES

Streams == {"stdout", "stderr"}

ASSUME ShellAssumption ==
  /\ Level \in {"readonly", "supervised", "full"}
  /\ Venv \in BOOLEAN
  /\ PipeSize \in Nat \ {0}
  /\ KeepBytes \in Nat
  /\ \A c \in ShellCalls : ProcessOf[c].writes \in [Streams -> Nat]

VARIABLES
  step,         \* where a call is
  interpreter,  \* the venv has its interpreter
  child,        \* the process: "none", "alive", "gone"
  heir,         \* the calls whose process left one behind that lives
  left,         \* what the process has yet to write to a stream
  pipe,         \* what a pipe holds
  kept,         \* how much of what was read from a pipe is captured
  ended,        \* the streams whose end the reading task has seen
  verdict       \* "none", "refused", "error", "exit", "timeout"

processVars == <<child, heir, left>>
streamVars == <<pipe, kept, ended>>
shellVars == <<step, interpreter, processVars, streamVars, verdict>>

ShellInit ==
  /\ step = [c \in ShellCalls |-> "new"]
  /\ interpreter = FALSE
  /\ child = [c \in ShellCalls |-> "none"]
  /\ heir = {}
  /\ left = [c \in ShellCalls |-> ProcessOf[c].writes]
  /\ pipe = [c \in ShellCalls |-> [s \in Streams |-> 0]]
  /\ kept = [c \in ShellCalls |-> [s \in Streams |-> 0]]
  /\ ended = [c \in ShellCalls |-> {}]
  /\ verdict = [c \in ShellCalls |-> "none"]

-----------------------------------------------------------------------------
(* The checks.                                                              *)

\* One segment of the chain: barred by a list, a pattern or a directory, or
\* because it wraps another command; an unsupported form of python, pip or uv
\* although a venv is configured; or, below "full", neither listed, nor a
\* managed form, nor about a trusted directory.
AdmitsSegment(seg) ==
  /\ ~seg.barred
  /\ Venv /\ seg.runtime => seg.managed
  /\ Level # "full" => seg.trusted \/ seg.listed \/ (Venv /\ seg.managed)

\* check_command_chain
Admits(c) ==
  \A i \in DOMAIN CommandOf[c].segments : AdmitsSegment(CommandOf[c].segments[i])

\* rewrite_for_venv looks at the beginning of the whole command.
NeedsRuntime(c) == Venv /\ CommandOf[c].prefix

Advance(c, where) == step' = [step EXCEPT ![c] = where]

Return(c, how) ==
  /\ Advance(c, "done")
  /\ verdict' = [verdict EXCEPT ![c] = how]

CheckCommand(c) ==
  /\ step[c] = "new"
  /\ IF ~Admits(c) THEN Return(c, "refused")
     ELSE /\ Advance(c, IF NeedsRuntime(c) THEN "runtime" ELSE "plan")
          /\ UNCHANGED verdict
  /\ UNCHANGED <<interpreter, processVars, streamVars>>

\* ensure_managed_python_runtime_blocking, first half: an interpreter that is
\* there is used; uv is looked for, and installs Python.
FindRuntime(c) ==
  /\ step[c] = "runtime"
  /\ \/ interpreter /\ Advance(c, "plan") /\ UNCHANGED verdict
     \/ ~interpreter /\ Advance(c, "venv") /\ UNCHANGED verdict
     \/ ~interpreter /\ Return(c, "error")
  /\ UNCHANGED <<interpreter, processVars, streamVars>>

\* The second half: `uv venv`, then another look for the interpreter.  Nothing
\* keeps two calls from being here at once.
CreateVenv(c) ==
  /\ step[c] = "venv"
  /\ \/ interpreter' = TRUE /\ Advance(c, "plan") /\ UNCHANGED verdict
     \/ Return(c, "error") /\ UNCHANGED interpreter
  /\ UNCHANGED <<processVars, streamVars>>

\* build_execution_plan: shell syntax only in "full"; else the command must
\* split into tokens.
HasPlan(c) ==
  IF CommandOf[c].syntax THEN Level = "full" ELSE CommandOf[c].tokens

\* The process is spawned; or there is no plan, or no such program.
Start(c) ==
  /\ step[c] = "plan"
  /\ \/ /\ HasPlan(c)
        /\ Advance(c, "running")
        /\ child' = [child EXCEPT ![c] = "alive"]
        /\ UNCHANGED verdict
     \/ Return(c, IF HasPlan(c) THEN "error" ELSE "refused") /\ UNCHANGED child
  /\ UNCHANGED <<interpreter, heir, left, streamVars>>

-----------------------------------------------------------------------------
(* The process, which is external.                                          *)

Alive(c) == child[c] = "alive"

\* It writes as long as the pipe has room.
Write(c, s) ==
  /\ Alive(c) /\ left[c][s] > 0 /\ pipe[c][s] < PipeSize
  /\ left' = [left EXCEPT ![c][s] = @ - 1]
  /\ pipe' = [pipe EXCEPT ![c][s] = @ + 1]
  /\ UNCHANGED <<step, interpreter, child, heir, kept, ended, verdict>>

\* It ends by itself, perhaps leaving another behind.
Exit(c) ==
  /\ Alive(c) /\ ~ProcessOf[c].hangs
  /\ \A s \in Streams : left[c][s] = 0
  /\ child' = [child EXCEPT ![c] = "gone"]
  /\ heir' = IF ProcessOf[c].leaves THEN heir \cup {c} ELSE heir
  /\ UNCHANGED <<step, interpreter, left, streamVars, verdict>>

\* The process left behind ends, if ever.
HeirExits(c) ==
  /\ c \in heir
  /\ heir' = heir \ {c}
  /\ UNCHANGED <<step, interpreter, child, left, streamVars, verdict>>

-----------------------------------------------------------------------------
(* The tasks that read the pipes, and the wait.                             *)

Lower(a, b) == IF a < b THEN a ELSE b

\* Mutation: the reading ends once enough has been captured.
ReadUntilFull(c, s) ==
  /\ pipe[c][s] > 0
  /\ kept[c][s] < KeepBytes
  /\ pipe' = [pipe EXCEPT ![c][s] = 0]
  /\ kept' = [kept EXCEPT ![c][s] = Lower(@ + pipe[c][s], KeepBytes)]
  /\ UNCHANGED <<step, interpreter, processVars, ended, verdict>>

\* capture_output_stream reads what is there and captures what there is room for.
Read(c, s) ==
  /\ pipe[c][s] > 0
  /\ pipe' = [pipe EXCEPT ![c][s] = 0]
  /\ kept' = [kept EXCEPT ![c][s] = Lower(@ + pipe[c][s], KeepBytes)]
  /\ UNCHANGED <<step, interpreter, processVars, ended, verdict>>

\* The end of a stream: nobody is left who could write to the pipe.
ReadEnd(c, s) ==
  /\ child[c] = "gone" /\ c \notin heir
  /\ pipe[c][s] = 0
  /\ s \notin ended[c]
  /\ ended' = [ended EXCEPT ![c] = @ \cup {s}]
  /\ UNCHANGED <<step, interpreter, processVars, pipe, kept, verdict>>

\* child.wait() yields the exit status.
Reap(c) ==
  /\ step[c] = "running"
  /\ child[c] = "gone"
  /\ Advance(c, "collect")
  /\ verdict' = [verdict EXCEPT ![c] = "exit"]
  /\ UNCHANGED <<interpreter, processVars, streamVars>>

\* The time limit has passed: start_kill and wait end the process itself, which
\* may have left another behind.
TimeIsUp(c) ==
  /\ step[c] = "running"
  /\ Alive(c)
  /\ child' = [child EXCEPT ![c] = "gone"]
  /\ heir' = IF ProcessOf[c].leaves THEN heir \cup {c} ELSE heir
  /\ Advance(c, "collect")
  /\ verdict' = [verdict EXCEPT ![c] = "timeout"]
  /\ UNCHANGED <<interpreter, left, streamVars>>

\* finish_output_capture: both tasks have come to the end of their streams.
Finish(c) ==
  /\ step[c] = "collect"
  /\ ended[c] = Streams
  /\ Advance(c, "done")
  /\ UNCHANGED <<interpreter, processVars, streamVars, verdict>>

ShellStep(c) ==
  CheckCommand(c) \/ FindRuntime(c) \/ CreateVenv(c) \/ Start(c) \/ Reap(c) \/ Finish(c)

ReadStep(c) == \E s \in Streams : Read(c, s) \/ ReadEnd(c, s)

AllReturned ==
  /\ \A c \in ShellCalls : step[c] = "done"
  /\ UNCHANGED shellVars

ShellNext ==
  \/ \E c \in ShellCalls :
       \/ ShellStep(c) \/ ReadStep(c) \/ TimeIsUp(c)
       \/ Exit(c) \/ HeirExits(c)
       \/ \E s \in Streams : Write(c, s)
  \/ AllReturned

ShellSpec == ShellInit /\ [][ShellNext]_shellVars

\* The runtime polls calls and reading tasks; a process that can write or end
\* does so.  A process left behind need not end, and nothing is assumed of when
\* the time limit passes.
ShellFairness ==
  \A c \in ShellCalls :
    /\ WF_shellVars(ShellStep(c)) /\ WF_shellVars(Exit(c))
    /\ \A s \in Streams :
         /\ WF_shellVars(Write(c, s))
         /\ WF_shellVars(Read(c, s)) /\ WF_shellVars(ReadEnd(c, s))

\* A clock that does reach the time limit.
TimeLimitPasses == \A c \in ShellCalls : WF_shellVars(TimeIsUp(c))

ShellFairSpec == ShellSpec /\ ShellFairness /\ TimeLimitPasses

-----------------------------------------------------------------------------
(* What is shown of a stream is its beginning, as long as it may be, of     *)
(* everything that the process wrote to it, also when it was killed.        *)
CapturedIsPrefix ==
  \A c \in ShellCalls : step[c] = "done" /\ verdict[c] \in {"exit", "timeout"} =>
    \A s \in Streams :
      kept[c][s] = Lower(ProcessOf[c].writes[s] - left[c][s], KeepBytes)

(* A process that ends by itself is never kept from it by its output,       *)
(* however much it writes to either pipe: the reading goes on after enough  *)
(* is captured, on both pipes at once and before the wait (lines 307-333,   *)
(* 1036-1047), and what was captured is still the beginning.  No time limit *)
(* is needed for the call to end.                                           *)
OutputNeverBlocks ==
  /\ []CapturedIsPrefix
  /\ \A c \in ShellCalls :
       ~ProcessOf[c].hangs /\ ~ProcessOf[c].leaves =>
         (step[c] = "running" ~> step[c] = "done")

(* "A configurable timeout kills the process if it runs too long" (line     *)
(* 12): a call whose time limit passes, or whose process has ended, comes   *)
(* to an end.                                                               *)
TimeLimitHolds ==
  \A c \in ShellCalls : step[c] = "running" ~> step[c] = "done"
=============================================================================
