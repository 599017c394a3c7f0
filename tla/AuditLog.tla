-------------------------------- MODULE AuditLog --------------------------------
(***************************************************************************)
(* The audit log (audit.rs): events are appended as lines to a file        *)
(* through a BufWriter under a mutex, which is flushed after every         *)
(* FlushEvery events.  A line reaches the writer in two pieces, the JSON   *)
(* text and the newline; a piece that does not fit makes the writer flush  *)
(* what it holds, and one as large as the buffer bypasses it.  A crash     *)
(* loses the buffer, a regular end flushes it (BufWriter's Drop).          *)
(*                                                                         *)
(* The mutex makes write_event one step.  The disk may refuse a write; it  *)
(* is then assumed to have written nothing of the buffer.                  *)
(***************************************************************************)
EXTENDS Naturals, Sequences, FiniteSets

CONSTANTS
  FlushEvery,  \* AUDIT_FLUSH_EVERY
  Capacity,    \* AUDIT_BUFFER_CAPACITY
  LineSizes,   \* the sizes of the JSON texts of events
  MaxEvents    \* bound of the model: the events logged

ASSUME AuditAssumption ==
  /\ FlushEvery \in Nat \ {0}
  /\ Capacity \in Nat \ {0}
  /\ LineSizes \subseteq Nat \ {0}
  /\ MaxEvents \in Nat

VARIABLES
  buffered,   \* the pieces in the BufWriter: [event, size, last]
  disk,       \* the pieces in the file
  unflushed,  \* pending_events
  events,     \* history: how many events were handed to write_event
  rejected,    \* history: the events whose writing met an error of the disk
  missing     \* history: the events that crashes lost, per crash

auditVars == <<buffered, disk, unflushed, events, rejected, missing>>

AuditInit ==
  /\ buffered = <<>> /\ disk = <<>> /\ unflushed = 0
  /\ events = 0 /\ rejected = {} /\ missing = {}

-----------------------------------------------------------------------------
\* A writer: what is in its buffer and on disk, and whether it met an error.
Writer == [buf |-> buffered, out |-> disk, ok |-> TRUE]

\* The bytes of the pieces in the buffer, each smaller than the buffer.
Held(w) == Cardinality({p \in (DOMAIN w.buf) \X (1 .. Capacity) : p[2] <= w.buf[p[1]].size})

\* flush_buf; healthy says whether the disk takes the write.
FlushBuf(w, healthy) ==
  IF w.buf = <<>> THEN w
  ELSE IF healthy THEN [buf |-> <<>>, out |-> w.out \o w.buf, ok |-> w.ok]
  ELSE [w EXCEPT !.ok = FALSE]

\* write_all of one piece (and write_all_cold, when it does not fit).
Put(w, piece, healthy) ==
  IF ~w.ok THEN w
  ELSE LET spare == Capacity - Held(w)
           room == IF piece.size > spare THEN FlushBuf(w, healthy) ELSE w
       IN  IF ~room.ok THEN room
           ELSE IF piece.size < Capacity
             THEN [room EXCEPT !.buf = Append(@, piece)]
             ELSE IF healthy THEN [room EXCEPT !.out = Append(@, piece)]
                  ELSE [room EXCEPT !.ok = FALSE]

\* writeln!(writer, "{json}")
WriteLine(event, size, healthy) ==
  LET text == [event |-> event, size |-> size, last |-> FALSE]
      end  == [event |-> event, size |-> 1, last |-> TRUE]
  IN  Put(Put(Writer, text, healthy), end, healthy)

\* Mutation: the count starts anew although the flush failed.
WriteEventOptimist(size, healthy) ==
  LET written == WriteLine(events + 1, size, healthy)
      full    == written.ok /\ unflushed + 1 >= FlushEvery
      final   == IF full THEN FlushBuf(written, healthy) ELSE written
  IN  /\ events < MaxEvents
      /\ events' = events + 1
      /\ buffered' = final.buf /\ disk' = final.out
      /\ unflushed' = IF ~written.ok THEN unflushed
                      ELSE IF full THEN 0 ELSE unflushed + 1
      /\ rejected' = IF written.ok THEN rejected ELSE rejected \cup {events + 1}
      /\ UNCHANGED missing

\* write_event: an error ends it before the count, or before its reset.
WriteEvent(size, healthy) ==
  LET written == WriteLine(events + 1, size, healthy)
      full    == written.ok /\ unflushed + 1 >= FlushEvery
      final   == IF full THEN FlushBuf(written, healthy) ELSE written
  IN  /\ events < MaxEvents
      /\ events' = events + 1
      /\ buffered' = final.buf /\ disk' = final.out
      /\ unflushed' = IF ~written.ok THEN unflushed
                      ELSE IF full /\ final.ok THEN 0 ELSE unflushed + 1
      /\ rejected' = IF written.ok THEN rejected ELSE rejected \cup {events + 1}
      /\ UNCHANGED missing

\* An event is whole in a sequence of pieces when its newline is there.
WholeIn(pieces) == {pieces[i].event : i \in {j \in DOMAIN pieces : pieces[j].last}}

\* The process is killed, and started again: new() opens the file to append.
CrashAudit ==
  /\ missing' = missing \cup {WholeIn(buffered)}
  /\ buffered' = <<>>
  /\ unflushed' = 0
  /\ UNCHANGED <<disk, events, rejected>>

\* The process ends regularly; Drop ignores an error of the flush.
CloseAudit(healthy) ==
  LET final == FlushBuf(Writer, healthy)
  IN  /\ disk' = final.out
      /\ missing' = missing \cup {IF final.ok THEN {} ELSE WholeIn(buffered)}
      /\ buffered' = <<>>
      /\ unflushed' = 0
      /\ UNCHANGED <<events, rejected>>

AuditNext ==
  \/ \E size \in LineSizes, healthy \in BOOLEAN : WriteEvent(size, healthy)
  \/ CrashAudit
  \/ \E healthy \in BOOLEAN : CloseAudit(healthy)

AuditSpec == AuditInit /\ [][AuditNext]_auditVars

-----------------------------------------------------------------------------
(* What a crash can cost: every event in the buffer is counted towards the  *)
(* next flush, also after a flush that the disk rejected, so that a crash    *)
(* takes at most the events that the count stands for; all others are on    *)
(* disk, in order, unless the disk rejected them (lines 141-169).            *)
TailIsShort ==
  /\ Cardinality({i \in DOMAIN buffered : buffered[i].last}) <= unflushed
  /\ LET logged == disk \o buffered
     IN  /\ \A i, j \in DOMAIN logged : i < j => logged[i].event <= logged[j].event
         /\ \A e \in 1 .. events :
              e \notin WholeIn(logged) => e \in rejected \cup UNION missing
=============================================================================
