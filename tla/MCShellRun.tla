----------------------------- MODULE MCShellRun -----------------------------
(* A few commands and what their processes do.                               *)
EXTENDS ShellRun

\* A pipeline that writes much, a command of the venv that hangs, a barred one,
\* and one that leaves a process behind.
Segment(barred, runtime, managed, listed) ==
  [barred |-> barred, runtime |-> runtime, managed |-> managed,
   listed |-> listed, trusted |-> FALSE]
Harmless == Segment(FALSE, FALSE, FALSE, TRUE)
Cmd(segments, syntax, prefix) ==
  [segments |-> segments, syntax |-> syntax, prefix |-> prefix, tokens |-> TRUE]
MCCommandOf == [c \in ShellCalls |->
  CASE c = "pipe"   -> Cmd(<<Harmless, Harmless>>, TRUE, FALSE)
    [] c = "python" -> Cmd(<<Segment(FALSE, TRUE, TRUE, FALSE)>>, FALSE, TRUE)
    [] c = "daemon" -> Cmd(<<Harmless>>, TRUE, FALSE)
    [] OTHER -> Cmd(<<Harmless, Segment(TRUE, FALSE, FALSE, FALSE)>>, TRUE, FALSE)]
Process(out, err, hangs, leaves) ==
  [writes |-> [s \in Streams |-> IF s = "stdout" THEN out ELSE err],
   hangs |-> hangs, leaves |-> leaves]
MCProcessOf == [c \in ShellCalls |->
  CASE c = "pipe"   -> Process(3, 2, FALSE, FALSE)
    [] c = "python" -> Process(1, 0, TRUE, FALSE)
    [] OTHER        -> Process(0, 0, FALSE, TRUE)]
=============================================================================
