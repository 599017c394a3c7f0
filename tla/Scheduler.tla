------------------------------- MODULE Scheduler -------------------------------
(***************************************************************************)
(* The scheduler (scheduler.rs) and its heartbeat task (heartbeat.rs): one *)
(* loop that runs the due tasks one after the other, computes their next   *)
(* instants, and sleeps until the earliest of them or until shutdown.      *)
(*                                                                         *)
(* The instant against which a pass compares is read once, when the pass   *)
(* begins, and is stale by the time that the tasks before have run; the    *)
(* sleep is computed from a fresh one.  Time passes in the awaits: while a *)
(* task runs and while the loop sleeps.  One tick is the unit of the       *)
(* constants; a run may take any number of ticks.                          *)
(***************************************************************************)
EXTENDS Integers, Sequences, FiniteSetsExt

CONSTANTS
  Configs,      \* scheduler.tasks, in their order: [enabled, occurrences, every];
                \* every is the fixed interval, 0 for the tasks with a cron expression
  Invalid,      \* the occurrences of a cron expression that does not parse
  HeartbeatInterval,  \* in ticks; 0: heartbeat.enabled is false
  MinSleep,     \* SCHEDULER_MIN_SLEEP_MILLIS
  BackoffMin,   \* SCHEDULER_OVERDUE_MIN_BACKOFF_MILLIS
  BackoffMax,   \* SCHEDULER_OVERDUE_MAX_BACKOFF_SECS
  MaxExponent,  \* the 8 of scheduler_overdue_backoff
  LastTick      \* bound of the model: the last instant

ASSUME SchedulerAssumption ==
  /\ HeartbeatInterval \in Nat
  /\ MinSleep \in Nat \ {0}
  /\ BackoffMin \in Nat \ {0}
  /\ BackoffMax \in Nat \ {0}
  /\ MaxExponent \in Nat
  /\ LastTick \in Nat

VARIABLES
  time,       \* Utc::now()
  loop,       \* where the loop is: "pass", "task", "asleep", "stopped"
  turn,       \* the index of the pass
  started,    \* `now`: the instant at which the pass began
  nextRuns,   \* next_runs
  overdue,    \* consecutive_overdue_runs, up to where the back-off stops growing
  doing,      \* what run_task awaits: "history", "agent", "save", "notify"; "idle"
  sleptAt,    \* sleep_reference
  wakeAt,     \* when the sleep ends
  cancelled,  \* the shutdown token
  runs        \* history: for each task, its runs: [due, began]

passVars == <<turn, started, nextRuns, overdue, doing>>
sleepVars == <<sleptAt, wakeAt>>
schedulerVars == <<time, loop, passVars, sleepVars, cancelled, runs>>

-----------------------------------------------------------------------------
\* build_heartbeat_task; its interval is at least a minute.
Heartbeat ==
  IF HeartbeatInterval = 0 THEN <<>>
  ELSE <<[enabled |-> TRUE, every |-> HeartbeatInterval, occurrences |-> {}]>>

\* Scheduler::new: disabled tasks and those whose cron expression does not
\* parse are left out, the heartbeat comes last.
Registered ==
  SelectSeq(Configs, LAMBDA c : c.enabled /\ c.occurrences # Invalid) \o Heartbeat

Indices == DOMAIN Registered

Tasks == [enabled : BOOLEAN, every : Nat, occurrences : SUBSET Nat]

ASSUME TasksAssumption == Registered \in Seq(Tasks)

\* Mutation: the next instant is counted from the one that was due.
NextRunFromDue(i, after) ==
  IF Registered[i].every # 0 THEN nextRuns[i] + Registered[i].every
  ELSE LET later == {o \in Registered[i].occurrences : o > nextRuns[i]}
       IN  IF later = {} THEN after ELSE Min(later)

\* ScheduledTask::next_run_after; a schedule without a further occurrence
\* yields the instant itself (unwrap_or(after)).
NextRunAfter(i, after) ==
  IF Registered[i].every # 0 THEN after + Registered[i].every
  ELSE LET later == {o \in Registered[i].occurrences : o > after}
       IN  IF later = {} THEN after ELSE Min(later)

Lesser(a, b) == IF a < b THEN a ELSE b
Greater(a, b) == IF a > b THEN a ELSE b

\* scheduler_overdue_backoff
Backoff(n) ==
  Lesser(BackoffMin * 2 ^ Lesser(Greater(n - 1, 0), MaxExponent), BackoffMax)

\* scheduler_sleep_duration
SleepFor(i) ==
  IF nextRuns[i] >= time THEN Greater(nextRuns[i] - time, MinSleep)
  ELSE Backoff(overdue[i])

SchedulerInit ==
  /\ time = 0
  /\ loop = IF Registered = <<>> THEN "stopped" ELSE "pass"
  /\ turn = 1
  /\ started = 0
  /\ nextRuns =
       [i \in Indices |->
          IF Registered[i].every # 0 THEN Registered[i].every
          ELSE LET later == {o \in Registered[i].occurrences : o > 0}
               IN  IF later = {} THEN 0 ELSE Min(later)]
  /\ overdue = [i \in Indices |-> 0]
  /\ doing = "idle"
  /\ sleptAt = 0 /\ wakeAt = 0
  /\ cancelled = FALSE
  /\ runs = [i \in Indices |-> <<>>]

-----------------------------------------------------------------------------
\* The task at hand is not due: next_runs[i] > now.
SkipTask ==
  /\ loop = "pass" /\ turn \in Indices
  /\ nextRuns[turn] > started
  /\ overdue' = [overdue EXCEPT ![turn] = 0]
  /\ turn' = turn + 1
  /\ UNCHANGED <<time, loop, started, nextRuns, doing, sleepVars, cancelled, runs>>

\* The task at hand is due: its next instant is fixed, then run_task begins.
StartTask ==
  /\ loop = "pass" /\ turn \in Indices
  /\ nextRuns[turn] <= started
  /\ nextRuns' = [nextRuns EXCEPT ![turn] = NextRunAfter(turn, started)]
  /\ loop' = "task"
  /\ doing' = "history"
  /\ runs' = [runs EXCEPT ![turn] = Append(@, [due |-> nextRuns[turn], began |-> time])]
  /\ UNCHANGED <<time, turn, started, overdue, sleepVars, cancelled>>

\* run_task has returned: was the next instant missed while it ran?
EndTask ==
  /\ overdue' = [overdue EXCEPT ![turn] =
                   IF nextRuns[turn] <= time THEN Lesser(@ + 1, MaxExponent + 1) ELSE 0]
  /\ turn' = turn + 1
  /\ loop' = "pass"
  /\ doing' = "idle"

\* One await of run_task.  It returns at once without a prompt, saves nothing
\* when the agent returned nothing, and sends nothing for HEARTBEAT_OK or
\* without a chat to notify; errors of the database and the channel are logged.
RunTask ==
  /\ loop = "task"
  /\ \/ \E next \in {"agent", "save", "notify"} :
          /\ <<doing, next>> \in {<<"history", "agent">>, <<"agent", "save">>,
                                  <<"agent", "notify">>, <<"save", "notify">>}
          /\ doing' = next
          /\ UNCHANGED <<loop, turn, overdue>>
     \/ doing \in {"history", "agent", "save", "notify"} /\ EndTask
  /\ UNCHANGED <<time, started, nextRuns, sleepVars, cancelled, runs>>

\* Mutation: the loop sleeps until the last of the next instants.
GoToSleepLong ==
  /\ loop = "pass" /\ turn \notin Indices
  /\ sleptAt' = time
  /\ wakeAt' = time + Max({SleepFor(i) : i \in Indices})
  /\ loop' = "asleep"
  /\ UNCHANGED <<time, passVars, cancelled, runs>>

\* The pass is over: the sleep is the shortest that some task asks for.
GoToSleep ==
  /\ loop = "pass" /\ turn \notin Indices
  /\ sleptAt' = time
  /\ wakeAt' = time + Min({SleepFor(i) : i \in Indices})
  /\ loop' = "asleep"
  /\ UNCHANGED <<time, passVars, cancelled, runs>>

\* The select is biased: cancellation wins over a sleep that has ended.
WakeUp ==
  /\ loop = "asleep"
  /\ time >= wakeAt
  /\ ~cancelled
  /\ loop' = "pass"
  /\ turn' = 1
  /\ started' = time
  /\ UNCHANGED <<time, nextRuns, overdue, doing, sleepVars, cancelled, runs>>

Stop ==
  /\ loop = "asleep"
  /\ cancelled
  /\ loop' = "stopped"
  /\ UNCHANGED <<time, passVars, sleepVars, cancelled, runs>>

CancelScheduler ==
  /\ ~cancelled
  /\ cancelled' = TRUE
  /\ UNCHANGED <<time, loop, passVars, sleepVars, runs>>

TimePasses ==
  /\ loop \in {"task", "asleep"}
  /\ time < LastTick
  /\ time' = time + 1
  /\ UNCHANGED <<loop, passVars, sleepVars, cancelled, runs>>

\* The loop has returned, or the clock of the model has run out under a sleep.
SchedulerIdle ==
  /\ loop = "stopped" \/ (loop = "asleep" /\ time = LastTick)
  /\ UNCHANGED schedulerVars

SchedulerNext ==
  \/ SkipTask \/ StartTask \/ RunTask \/ GoToSleep \/ WakeUp \/ Stop
  \/ CancelScheduler \/ TimePasses \/ SchedulerIdle

SchedulerSpec == SchedulerInit /\ [][SchedulerNext]_schedulerVars

-----------------------------------------------------------------------------
\* How far apart a run that was due then and the next one are at least.
Gap(i, due) ==
  IF Registered[i].every # 0 THEN Registered[i].every
  ELSE IF \E o \in Registered[i].occurrences : o > due THEN 1
  ELSE 0

(* The runs of a task against its schedule, however long the tasks before   *)
(* it in the pass take: none begins before it is due, occurrences that      *)
(* were missed are made up for by one run and not by one each, and the      *)
(* instants of a fixed interval stay an interval apart (lines 145-158).     *)
(* Only a cron schedule that has ended may be due again at the instant at   *)
(* which it was (line 316).                                                 *)
RunsFollowSchedule ==
  \A i \in Indices :
    /\ \A k \in DOMAIN runs[i] : runs[i][k].due <= runs[i][k].began
    /\ \A k \in DOMAIN runs[i] : k + 1 \in DOMAIN runs[i] =>
         /\ runs[i][k + 1].due - runs[i][k].due >= Gap(i, runs[i][k].due)
         /\ \A j \in DOMAIN runs[i] :
              j > k + 1 => runs[i][j].due > runs[i][k].began

(* The loop never sleeps past the instant of a task that was not overdue    *)
(* when it lay down, although others back off, nor longer than the longest  *)
(* back-off past one that was; and it never spins: every sleep takes at     *)
(* least the shortest delay (lines 161-173, 326-341).                       *)
NeverOversleeps ==
  loop = "asleep" =>
    /\ wakeAt >= sleptAt + Lesser(MinSleep, Lesser(BackoffMin, BackoffMax))
    /\ \A i \in Indices :
         wakeAt <= IF nextRuns[i] >= sleptAt
                     THEN Greater(nextRuns[i], sleptAt + MinSleep)
                     ELSE sleptAt + BackoffMax
=============================================================================
