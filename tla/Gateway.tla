------------------------------- MODULE Gateway -------------------------------
(***************************************************************************)
(* The message gateway of anqclaw (gateway.rs) and the part of main.rs     *)
(* that starts and stops it.                                               *)
(*                                                                         *)
(* Channels put messages on a bounded queue.  The main loop takes them     *)
(* off, drops duplicates, and spawns one task per message into a JoinSet.  *)
(* A task validates the message (unless the HTTP handler already did),     *)
(* locks its session, loads the history, runs the agent, saves the turn,   *)
(* replies and unlocks, or panics in the reply and unwinds (the one panic  *)
(* found in the code of a task: feishu/types.rs, line 443, see             *)
(* MCFeishuText).  A streaming request enters beside the queue and         *)
(* runs the same steps in a task of its own, outside the JoinSet, without  *)
(* a reply.  A collector wakes up now and then; a queue monitor holds a    *)
(* sender; main cancels, waits for the drain and closes the database.      *)
(*                                                                         *)
(* The steps of two tasks interleave at every await; the code between two  *)
(* awaits that touches one shared object is one action.                    *)
(***************************************************************************)
EXTENDS Naturals, Sequences, FiniteSets

CONSTANTS
  Requests,      \* the deliveries: one per message handed to the program
  Ids,           \* message ids; a redelivery has the id of its original
  Sessions,      \* session keys
  SessionOf,     \* [Requests -> Sessions], session_key(msg)
  IdOf,          \* [Requests -> Ids], msg.message_id
  ViaOf,         \* [Requests -> Sources], where the message enters
  TooLong,       \* the requests longer than limits.max_message_length
  Modes,         \* the ways to start: "serve" (run_serve), "chat" (run_chat)
  QueueCapacity, \* GATEWAY_MESSAGE_QUEUE_CAPACITY
  DedupCapacity, \* RECENT_MESSAGE_CACHE_CAPACITY
  HistoryLimit,  \* memory.history_limit, in turns
  MaxRpm, Window, MaxEntries, MaxClock,   \* see RateLimiter
  PrevalTTL,     \* PREVALIDATED_REQUEST_TTL_SECS, in ticks
  DbFaults,      \* whether the database may return errors while open
  Unread,        \* the history of a turn whose history could not be read
  Interrupts,    \* bound of the model: whether the user presses Ctrl+C
  Absent,        \* no entry in prevalidated_requests
  NoLock         \* no mutex

\* Messages of the channels, and streaming requests, which bypass the queue.
Sources == {"cli", "feishu", "http", "stream"}

ASSUME GatewayAssumption ==
  /\ SessionOf \in [Requests -> Sessions]
  /\ IdOf \in [Requests -> Ids]
  /\ ViaOf \in [Requests -> Sources]
  /\ TooLong \subseteq Requests
  /\ Modes \subseteq {"serve", "chat"}
  /\ QueueCapacity \in Nat \ {0}
  /\ DedupCapacity \in Nat \ {0}
  /\ HistoryLimit \in Nat
  /\ MaxRpm \in Nat /\ Window \in Nat \ {0} /\ MaxEntries \in Nat /\ MaxClock \in Nat
  /\ PrevalTTL \in Nat
  /\ DbFaults \in BOOLEAN /\ Interrupts \in BOOLEAN
  /\ Absent \notin Nat
  /\ NoLock \notin Requests
  \* The HTTP handlers draw a new UUID for every message (http.rs 303, 426, 605).
  /\ \A r, q \in Requests : ViaOf[r] \in {"http", "stream"} /\ IdOf[q] = IdOf[r] => q = r
  /\ Unread \notin Seq(Requests)

VARIABLES
  clock, stamps, victims,           \* see RateLimiter
  preval,     \* prevalidated_requests: when an id was prevalidated, or Absent
  queue,      \* the mpsc queue of messages
  recent,     \* recent_ids, see RecentIds
  loop,       \* run(): "receiving", then "draining", then "returned"
  mode,       \* the way the program was started
  open,       \* the channels whose start() still holds a queue sender
  monitor,    \* whether the queue monitor still holds its sender
  shutdown,   \* the cancellation token
  main,       \* "running", "stopping", then the database is "closed" or "cut"
  task,       \* where each request is on its way through the gateway
  lockOf, arc, waiters,             \* see ChatLocks
  hist,       \* the history a request's task loaded, until its last use
  result,     \* what became of a request's turn
  store,      \* the messages table: per session, the turns saved
  active,     \* metrics.active_sessions
  charges     \* history: the instants at which a request took a rate slot

limiter == <<stamps, victims, charges>>
locks == <<lockOf, arc, waiters>>
turns == <<hist, result, store, active>>
control == <<loop, mode, open, monitor, shutdown, main>>
vars == <<clock, limiter, preval, queue, recent, control, task, locks, turns>>

-----------------------------------------------------------------------------
\* The history variables of the components have no part in the gateway.
RL == INSTANCE RateLimiter
        WITH Callers <- Sessions, MaxGrants <- 0, granted <- <<>>, evicted <- <<>>

Dedup == INSTANCE RecentIds WITH Capacity <- DedupCapacity, MaxOffers <- 0, trail <- <<>>

\* A request seen as a task of ChatLocks.
LockPhaseOf(p) ==
  IF p \in {"cloned", "joined", "finished"} THEN p
  ELSE IF p = "panicked" THEN "finished"
  ELSE IF p \in {"locked", "loaded", "saved", "replied"} THEN "held"
  ELSE "start"

LockPhase == [r \in Requests |-> LockPhaseOf(task[r])]

Locks == INSTANCE ChatLocks WITH Tasks <- Requests, phase <- LockPhase

\* The requests of the latest turns of a session, at most HistoryLimit.
Conv == INSTANCE Conversation WITH log <- store, ReadFaults <- DbFaults

-----------------------------------------------------------------------------
(* Phases of a request.                                                     *)

Ended == {"turned_away", "unsent", "abandoned", "dropped", "duplicate",
          "rejected", "finished", "panicked"}
InTask == {"spawned", "refused", "admitted", "cloned", "joined",
           "locked", "loaded", "saved", "replied"}
Phases == {"idle", "prevalidated", "queued"} \cup InTask \cup Ended

\* The requests that the dedup block let through.
Accepted == InTask \cup {"rejected", "finished", "panicked"}

\* The tasks of the JoinSet: a streaming request's task is not in it.
Tracked == {r \in Requests : ViaOf[r] # "stream"}

Move(r, from, to) ==
  /\ task[r] = from
  /\ task' = [task EXCEPT ![r] = to]

Closed == main \in {"closed", "cut"}

Init ==
  /\ clock = 0
  /\ RL!LimiterInit
  /\ charges = [r \in Requests |-> <<>>]
  /\ preval = [i \in Ids |-> Absent]
  /\ queue = <<>>
  /\ recent = <<>>
  /\ loop = "receiving"
  /\ mode \in Modes
  /\ open = IF mode = "chat" THEN {"cli"} ELSE {"feishu", "http"}
  /\ monitor = TRUE
  /\ shutdown = FALSE
  /\ main = "running"
  /\ task = [r \in Requests |-> "idle"]
  /\ Locks!LocksInit
  /\ hist = [r \in Requests |-> <<>>]
  /\ result = [r \in Requests |-> "none"]
  /\ store = [s \in Sessions |-> <<>>]
  /\ active = 0

-----------------------------------------------------------------------------
(* Validation.                                                              *)

\* validate_request: the slot is taken before the length is looked at.
TakeSlot(r) ==
  /\ RL!Grant(SessionOf[r])
  /\ charges' = IF MaxRpm = 0 THEN charges
                ELSE [charges EXCEPT ![r] = Append(@, clock)]

NoSlot(r) == RL!Refuse(SessionOf[r]) /\ UNCHANGED charges

Passes(r) == TakeSlot(r) /\ r \notin TooLong
Fails(r) == NoSlot(r) \/ (TakeSlot(r) /\ r \in TooLong)

\* prevalidate_http_request, called by the handlers of the HTTP channel.
Prevalidate(r) ==
  /\ ViaOf[r] = "http" /\ "http" \in open /\ ~Closed
  /\ \/ /\ Passes(r)
        /\ Move(r, "idle", "prevalidated")
        /\ preval' = [preval EXCEPT ![IdOf[r]] = clock]
     \/ /\ Fails(r)
        /\ Move(r, "idle", "turned_away")
        /\ UNCHANGED preval
  /\ UNCHANGED <<clock, queue, recent, control, locks, turns>>

-----------------------------------------------------------------------------
(* Into and out of the queue.                                               *)

MaySend(r) ==
  /\ ViaOf[r] \in open
  /\ task[r] = IF ViaOf[r] = "http" THEN "prevalidated" ELSE "idle"

\* tx.send(inbound) of a channel: waits while the queue is full.
Enqueue(r) ==
  /\ MaySend(r) /\ ~Closed
  /\ loop # "returned" /\ Len(queue) < QueueCapacity
  /\ queue' = Append(queue, r)
  /\ task' = [task EXCEPT ![r] = "queued"]
  /\ UNCHANGED <<clock, limiter, preval, recent, control, locks, turns>>

\* Mutation: the handler does not forget the prevalidation when the send fails.
SendFailsKeeping(r) ==
  /\ MaySend(r) /\ ~Closed
  /\ loop = "returned"
  /\ task' = [task EXCEPT ![r] = "unsent"]
  /\ UNCHANGED <<clock, limiter, preval, queue, recent, control, locks, turns>>

\* tx.send fails once run() has returned; the HTTP handler then forgets.
SendFails(r) ==
  /\ MaySend(r) /\ ~Closed
  /\ loop = "returned"
  /\ task' = [task EXCEPT ![r] = "unsent"]
  /\ preval' = IF ViaOf[r] = "http" THEN [preval EXCEPT ![IdOf[r]] = Absent] ELSE preval
  /\ UNCHANGED <<clock, limiter, queue, recent, control, locks, turns>>

\* The HTTP handler is dropped (client gone) after prevalidation, before the send.
Abandon(r) ==
  /\ ViaOf[r] = "http"
  /\ Move(r, "prevalidated", "abandoned")
  /\ UNCHANGED <<clock, limiter, preval, queue, recent, control, locks, turns>>

\* The dedup block: a duplicate forgets the prevalidation, a new id is spawned.
Accept(r) ==
  /\ Dedup!Offer(IdOf[r])
  /\ IF Dedup!IsDuplicate(IdOf[r])
       THEN /\ task' = [task EXCEPT ![r] = "duplicate"]
            /\ preval' = [preval EXCEPT ![IdOf[r]] = Absent]
       ELSE /\ task' = [task EXCEPT ![r] = "spawned"]
            /\ UNCHANGED preval

\* One round of the main loop; the biased select polls the token first.
Receive ==
  /\ loop = "receiving" /\ ~shutdown /\ queue # <<>>
  /\ Accept(Head(queue))
  /\ queue' = Tail(queue)
  /\ UNCHANGED <<clock, limiter, control, locks, turns>>

\* process_message_streaming up to validation, in the HTTP handler's task.
StreamArrives(r) ==
  /\ ViaOf[r] = "stream" /\ "http" \in open /\ ~Closed
  /\ task[r] = "idle"
  /\ Accept(r)
  /\ UNCHANGED <<clock, limiter, queue, control, locks, turns>>

-----------------------------------------------------------------------------
(* The task of a message: process_message, and the streaming variant.       *)

\* take_prevalidated_message, else validate_request.
Validate(r) ==
  /\ task[r] = "spawned"
  /\ \/ /\ preval[IdOf[r]] # Absent
        /\ Move(r, "spawned", "admitted")
        /\ UNCHANGED limiter
     \/ /\ preval[IdOf[r]] = Absent /\ Passes(r)
        /\ Move(r, "spawned", "admitted")
     \/ /\ preval[IdOf[r]] = Absent /\ Fails(r)
        /\ Move(r, "spawned", IF r \in Tracked THEN "refused" ELSE "rejected")
  /\ preval' = [preval EXCEPT ![IdOf[r]] = Absent]
  /\ UNCHANGED <<clock, queue, recent, control, locks, turns>>

\* The refusal is sent through the channel and process_message returns.
SendRefusal(r) ==
  /\ Move(r, "refused", "rejected")
  /\ UNCHANGED <<clock, limiter, preval, queue, recent, control, locks, turns>>

CloneArc(r) ==
  /\ Move(r, "admitted", "cloned")
  /\ Locks!CloneArc(r)
  /\ UNCHANGED <<clock, limiter, preval, queue, recent, control, turns>>

JoinQueue(r) ==
  /\ Move(r, "cloned", "joined")
  /\ Locks!JoinQueue(r)
  /\ UNCHANGED <<clock, limiter, preval, queue, recent, control, turns>>

\* Mutation: the task goes on without waiting for the guard.
AcquireNow(r) ==
  /\ Move(r, "joined", "locked")
  /\ active' = active + 1
  /\ UNCHANGED <<clock, limiter, preval, queue, recent, control, locks,
                 hist, result, store>>

\* lock.lock().await returns the guard; the gauge goes up.
Acquire(r) ==
  /\ Move(r, "joined", "locked")
  /\ Locks!IsHolder(r)
  /\ active' = active + 1
  /\ UNCHANGED <<clock, limiter, preval, queue, recent, control, locks,
                 hist, result, store>>

\* get_history; an error is logged and the turn goes on with no history.
LoadHistory(r) ==
  /\ Move(r, "locked", "loaded")
  /\ \/ ~Closed /\ hist' = [hist EXCEPT ![r] = Conv!Seen(store[SessionOf[r]])]
     \/ (Closed \/ DbFaults) /\ hist' = [hist EXCEPT ![r] = Unread]
  /\ UNCHANGED <<clock, limiter, preval, queue, recent, control, locks,
                 result, store, active>>

\* agent.handle, then save_conversation in one transaction.
SaveTurn(r) ==
  /\ Move(r, "loaded", "saved")
  /\ ~Closed
  /\ Conv!TakeTurn(r, hist[r])
  /\ result' = [result EXCEPT ![r] = "turn"]
  /\ hist' = [hist EXCEPT ![r] = <<>>]
  /\ UNCHANGED <<clock, limiter, preval, queue, recent, control, locks, active>>

\* The agent failed and gives nothing to persist, or the save failed.
LoseTurn(r) ==
  /\ Move(r, "loaded", "saved")
  /\ \E why \in {"llm_error"} \cup IF Closed THEN {"closed"}
                                  ELSE IF DbFaults THEN {"db_error"} ELSE {} :
       result' = [result EXCEPT ![r] = why]
  /\ hist' = [hist EXCEPT ![r] = <<>>]
  /\ UNCHANGED <<clock, limiter, preval, queue, recent, control, locks, store, active>>

\* channel.send_message(reply), still under the lock; a streaming task has none.
Reply(r) ==
  /\ r \in Tracked
  /\ Move(r, "saved", "replied")
  /\ UNCHANGED <<clock, limiter, preval, queue, recent, control, locks, turns>>

\* Mutation: a way out of the task that does not lower the gauge.
FinishUncounted(r) ==
  /\ Move(r, IF r \in Tracked THEN "replied" ELSE "saved", "finished")
  /\ Locks!Unlock(r)
  /\ UNCHANGED <<clock, limiter, preval, queue, recent, control, turns>>

\* Mutation: the guard outlives the task.
FinishLocked(r) ==
  /\ Move(r, IF r \in Tracked THEN "replied" ELSE "saved", "finished")
  /\ active' = active - 1
  /\ UNCHANGED <<clock, limiter, preval, queue, recent, control, locks,
                 hist, result, store>>

\* The gauge goes down, the guard and the Arc are dropped.
Finish(r) ==
  /\ Move(r, IF r \in Tracked THEN "replied" ELSE "saved", "finished")
  /\ Locks!Unlock(r)
  /\ active' = active - 1
  /\ UNCHANGED <<clock, limiter, preval, queue, recent, control,
                 hist, result, store>>

\* The Feishu channel panics while it renders the reply: unwinding drops the
\* guard and the Arc, and nothing lowers the gauge.
PanicInReply(r) ==
  /\ ViaOf[r] = "feishu"
  /\ Move(r, "saved", "panicked")
  /\ Locks!Unlock(r)
  /\ UNCHANGED <<clock, limiter, preval, queue, recent, control, turns>>

\* What ends the agent's turn.
TurnEnds(r) == SaveTurn(r) \/ LoseTurn(r)

\* The other steps of a task.
OwnStep(r) ==
  \/ Validate(r) \/ SendRefusal(r) \/ CloneArc(r) \/ JoinQueue(r) \/ Acquire(r)
  \/ LoadHistory(r) \/ Reply(r) \/ PanicInReply(r) \/ Finish(r)

TaskStep(r) == OwnStep(r) \/ TurnEnds(r)

-----------------------------------------------------------------------------
(* The collector, the monitor, the end of run() and main.                   *)

\* Mutation: the entry expires one tick early.
ExpiredEarly(i) == preval[i] # Absent /\ clock - preval[i] >= PrevalTTL

\* The negation of the collector's retain test, *validated_at >= now - ttl.
Expired(i) == preval[i] # Absent /\ clock - preval[i] > PrevalTTL

\* One wake-up of the collector: the maps are independent of each other.
Collect ==
  /\ ~shutdown
  /\ Locks!CollectLocks
  /\ preval' = [i \in Ids |-> IF Expired(i) THEN Absent ELSE preval[i]]
  /\ RL!ChooseVictims
  /\ UNCHANGED <<clock, charges, queue, recent, control, task, turns>>

\* The removals that follow, one key at a time.
Evict(s) ==
  /\ RL!Evict(s)
  /\ UNCHANGED <<clock, charges, preval, queue, recent, control, task, locks, turns>>

Tick ==
  /\ RL!Tick
  /\ UNCHANGED <<limiter, preval, queue, recent, control, task, locks, turns>>

\* The CLI channel's start() returns: single shot done, end of input, /exit.
CliExits ==
  /\ "cli" \in open
  /\ open' = open \ {"cli"}
  /\ UNCHANGED <<clock, limiter, preval, queue, recent, loop, mode, monitor, shutdown, main,
                 task, locks, turns>>

\* The monitor's loop ends on the token or once the receiver is gone.
MonitorStops ==
  /\ monitor /\ (shutdown \/ loop = "returned")
  /\ monitor' = FALSE
  /\ UNCHANGED <<clock, limiter, preval, queue, recent, loop, mode, open, shutdown, main,
                 task, locks, turns>>

SendersGone == open = {} /\ ~monitor

\* Mutation: the main loop does not look at the token.
LeaveLoopOnNone ==
  /\ loop = "receiving"
  /\ queue = <<>> /\ SendersGone
  /\ loop' = "draining"
  /\ UNCHANGED <<clock, limiter, preval, queue, recent, mode, open, monitor, shutdown, main,
                 task, locks, turns>>

\* The main loop breaks: on the token, or on None from an empty closed queue.
LeaveLoop ==
  /\ loop = "receiving"
  /\ shutdown \/ (queue = <<>> /\ SendersGone)
  /\ loop' = "draining"
  /\ UNCHANGED <<clock, limiter, preval, queue, recent, mode, open, monitor, shutdown, main,
                 task, locks, turns>>

\* Mutation: the JoinSet is dropped instead of drained, its tasks go on.
ReturnAtOnce ==
  /\ loop = "draining"
  /\ loop' = "returned"
  /\ queue' = <<>>
  /\ task' = [r \in Requests |-> IF task[r] = "queued" THEN "dropped" ELSE task[r]]
  /\ UNCHANGED <<clock, limiter, preval, recent, mode, open, monitor, shutdown, main,
                 locks, turns>>

\* Every task of the JoinSet has ended; run() returns and drops the queue.
Return ==
  /\ loop = "draining"
  /\ \A r \in Tracked : task[r] \notin InTask
  /\ loop' = "returned"
  /\ queue' = <<>>
  /\ task' = [r \in Requests |-> IF task[r] = "queued" THEN "dropped" ELSE task[r]]
  /\ UNCHANGED <<clock, limiter, preval, recent, mode, open, monitor, shutdown, main,
                 locks, turns>>

\* run_serve: Ctrl+C cancels the token.
Interrupt ==
  /\ Interrupts /\ mode = "serve" /\ main = "running"
  /\ main' = "stopping" /\ shutdown' = TRUE
  /\ UNCHANGED <<clock, limiter, preval, queue, recent, loop, mode, open, monitor,
                 task, locks, turns>>

\* memory.close() after run() has returned.
CloseDb ==
  /\ main = IF mode = "serve" THEN "stopping" ELSE "running"
  /\ loop = "returned"
  /\ main' = "closed"
  /\ UNCHANGED <<clock, limiter, preval, queue, recent, loop, mode, open, monitor, shutdown,
                 task, locks, turns>>

\* memory.close() without it: the drain took 30 s, or Ctrl+C in run_chat.
CutOff ==
  /\ Interrupts /\ main = IF mode = "serve" THEN "stopping" ELSE "running"
  /\ loop # "returned"
  /\ main' = "cut"
  /\ UNCHANGED <<clock, limiter, preval, queue, recent, loop, mode, open, monitor, shutdown,
                 task, locks, turns>>

\* Nothing is left to do (so that a deadlock means a stuck task).
Quiescent ==
  /\ \A r \in Requests : task[r] \in Ended \cup {"idle"} \/ Closed
  /\ UNCHANGED vars

-----------------------------------------------------------------------------
ChannelStep(r) ==
  Prevalidate(r) \/ Enqueue(r) \/ SendFails(r) \/ Abandon(r) \/ StreamArrives(r)

RunStep == Receive \/ LeaveLoop \/ Return

Next ==
  \/ \E r \in Requests : ChannelStep(r)
  \/ \E r \in Requests : TaskStep(r)
  \/ RunStep
  \/ Collect
  \/ \E s \in Sessions : Evict(s)
  \/ Tick
  \/ CliExits \/ MonitorStops
  \/ Interrupt \/ CloseDb \/ CutOff
  \/ Quiescent

Spec == Init /\ [][Next]_vars

(* The runtime polls every task that can run: the message tasks, run(), the *)
(* monitor.  What a task waits for outside its agent's turn ends: the lock  *)
(* is fair, the database is local, the calls of a reply are bounded         *)
(* (FeishuApi).  Nothing is assumed of the agent's turn, which may wait     *)
(* without a limit (agent/mod.rs 348, shell.rs 1049), nor of the clients,   *)
(* the user, the clock, the collector or the 30 s of the drain.             *)
FairSpec ==
  /\ Spec
  /\ \A r \in Requests : WF_vars(OwnStep(r))
  /\ WF_vars(RunStep)
  /\ WF_vars(MonitorStops)
  /\ WF_vars(CloseDb)

-----------------------------------------------------------------------------
Held == {"locked", "loaded", "saved", "replied"}

\* The requests that the gauge counts: a panic leaves its request in it.
Counted == Held \cup {"panicked"}

TypeOK ==
  /\ clock \in 0..MaxClock
  /\ stamps \in [Sessions -> Seq(0..MaxClock)] /\ victims \in SUBSET Sessions
  /\ Locks!TypeOK
  /\ charges \in [Requests -> Seq(0..MaxClock)]
  /\ preval \in [Ids -> 0..MaxClock \cup {Absent}]
  /\ queue \in Seq(Requests) /\ Len(queue) <= QueueCapacity
  /\ recent \in Seq(Ids) /\ Len(recent) <= DedupCapacity
  /\ loop \in {"receiving", "draining", "returned"}
  /\ open \subseteq {"cli", "feishu", "http"}
  /\ monitor \in BOOLEAN /\ shutdown \in BOOLEAN
  /\ main \in {"running", "stopping", "closed", "cut"}
  /\ task \in [Requests -> Phases]
  /\ hist \in [Requests -> Seq(Requests) \cup {Unread}]
  /\ result \in [Requests -> {"none", "turn", "llm_error", "db_error", "closed"}]
  /\ store \in [Sessions -> Seq([req : Requests, saw : Seq(Requests) \cup {Unread}])]
  /\ active \in Nat

(* The turns of a session are atomic: every turn saved was computed from    *)
(* the turns saved before it, none of which came between its load and its   *)
(* save, for queued and streaming requests alike (lines 383-424, 502-533).  *)
TurnsAreAtomic == Conv!Spec

(* The gateway follows the locking protocol of ChatLocks at every step.     *)
FollowsLocks == Locks!Spec

(* Two tasks are never both past the lock of one session (line 383).        *)
SessionExclusive ==
  \A r, q \in Requests :
    /\ task[r] \in Held /\ task[q] \in Held
    /\ SessionOf[r] = SessionOf[q]
    => r = q

(* A message id is processed once, however often and whenever it is         *)
(* redelivered, as long as the cache can hold all ids (lines 216-225).      *)
AtMostOnce ==
  IsFiniteSet(Ids) /\ Cardinality(Ids) <= DedupCapacity =>
    \A r, q \in Requests :
      task[r] \in Accepted /\ task[q] \in Accepted /\ IdOf[r] = IdOf[q] => r = q

(* The gauge shown by /metrics is the number of sessions being processed,   *)
(* too high by one for every reply that panicked, and so never wraps below  *)
(* zero (lines 391-394, 439-442).                                           *)
ActiveGauge == active = Cardinality({r \in Requests : task[r] \in Counted})

(* The gauge with the types and bounds of everything it is counted beside.  *)
GatewayInv == TypeOK /\ ActiveGauge

(* A shutdown that waited for run() costs no accepted message its turn: the *)
(* database is closed only after the JoinSet has drained (lines 236-242).   *)
NoTurnCut ==
  \A r \in Tracked : result[r] = "closed" => main = "cut"

(* A message that the HTTP handler prevalidated pays no second slot and is  *)
(* not refused in the queue, unless it waited there longer than the time    *)
(* to live of the prevalidation (lines 331-358, 372-381).                   *)
PrevalidationHonoured ==
  \A r \in Requests :
    /\ ViaOf[r] = "http" /\ Len(charges[r]) > 0
    /\ Len(charges[r]) > 1 \/ task[r] = "refused"
    => clock - charges[r][1] > PrevalTTL

(* A message that was taken up, dropped as a duplicate, refused, or whose   *)
(* send failed has no prevalidation left (lines 222, 331, 372).  Only the   *)
(* entries of handlers that were dropped before the send, and of messages   *)
(* dropped with the queue on shutdown, stay until the collector finds them  *)
(* expired.                                                                 *)
PrevalConsumed ==
  \A r \in Requests :
    task[r] \in (InTask \ {"spawned"}) \cup {"unsent", "duplicate", "rejected",
                                            "finished", "panicked"}
      => preval[IdOf[r]] = Absent

\* No turn of these requests lasts for ever.
TurnsEnd(R) == \A r \in R : []<>(task[r] # "loaded")

SameSession(r) == {q \in Requests : SessionOf[q] = SessionOf[r]}

(* Every message that was put on the queue or came in as a stream reaches   *)
(* its end, processed or refused, if no turn of its own session lasts for   *)
(* ever, whatever the turns of other sessions do; a shutdown may find it    *)
(* still in the queue, and main may close the database first (lines         *)
(* 200-231, 365-446, 502-546).                                              *)
Served ==
  \A r \in Requests :
    TurnsEnd(SameSession(r)) =>
      (task[r] \in {"queued", "spawned"}
         ~> task[r] \in Ended \/ (task[r] = "queued" /\ shutdown) \/ Closed)

(* After Ctrl+C the server stops, without the help of the 30 s limit if no  *)
(* turn lasts for ever (lines 200-242; main.rs 545-556).                    *)
StopCompletes == TurnsEnd(Requests) => (main = "stopping" ~> Closed)

-----------------------------------------------------------------------------
(* What docs and comments say of the gateway and the code does not do.      *)

(* "prevents the caller from closing DB / exiting while tasks are active"   *)
(* (gateway.rs:237): after a clean drain no task is processing a message.   *)
NoTaskAtClose == main = "closed" => \A r \in Requests : task[r] \notin Held

(* "The gateway will exit naturally when the CLI channel finishes"          *)
(* (main.rs:587), "Returns when all channels have closed" (gateway.rs:112). *)
ExitsNaturally == open = {} ~> loop = "returned"

Unsaved == {"spawned", "admitted", "cloned", "joined", "locked", "loaded"}

(* "ensures that the messages of one session are processed in order" (the   *)
(* design document, line 356): turns are saved in the order of acceptance.  *)
InOrder ==
  \A r, q \in Requests :
    SessionOf[r] = SessionOf[q] =>
      [](task[r] = "spawned" /\ task[q] = "queued" =>
           [](task[r] \in Unsaved => result[q] # "turn"))
=============================================================================
