# A verification of anqclaw

anqclaw is an AI assistant written in Rust (`src/agent/src/`). It takes messages
from Feishu, an HTTP API and the command line, runs an agent loop with an LLM and
tools for each of them, and keeps conversations in SQLite. It is one tokio process:
everything below happens in asynchronous tasks that share `Arc`s.

This directory holds TLA+ models of its core, the TLC configurations that check
them on small instances, and proofs that TLAPS checks for every instance.
`PROJECT.json` lists the components, runs, mutants, hazards and theorems, and maps
every definition that models code to its lines. Line numbers in comments are those
of the file under `src/agent/src/` that the module's head names.

    tlc -workers 2 -config GatewayTurns.cfg MCGateway     # model-check
    tlapm GatewayProofs.tla                               # check the proofs

## 1. Inventory

### The way of a message

    Feishu WS --+                                      +--> per-session lock
    CLI --------+--> mpsc queue (1000) --> Gateway::run|      load history
    HTTP /chat -+      (backpressure)      dedup, spawn+-->   agent loop <--> LLM, tools
    HTTP /chat/stream --- dedup, validate, spawn ------+      save turn
                                                       +-->   reply through the channel

### Components

| Component | State | Operations | What is hard | What makes it correct |
|---|---|---|---|---|
| **Gateway** `gateway.rs` | queue, JoinSet of message tasks, prevalidated requests, `active_sessions` | receive, dedup, spawn, validate, process, reply; streaming entry; collector; queue monitor; drain | tasks of one session interleave at every await; streams bypass the queue and the JoinSet; shutdown at any moment | turns of a session are atomic; a message is processed once; every message ends; the drain loses no turn |
| **Session locks** `gateway.rs` `chat_locks` | map session → `Arc<Mutex>` | look up or create, lock, unlock, collect | an entry is removed and created again while clones are held or waited for | mutual exclusion, no starvation |
| **Rate limiter** `gateway.rs` `rate_limiter` | map session → instants | take a slot, evict the oldest entries | eviction chooses first and removes later; boundary instants | at most N requests in any window; refuses only when the window is full; the cap is restored |
| **Recent ids** `gateway.rs` `recent_ids` | LRU cache of ids | offer an id | refresh order, full cache | exactly the ids fewer than `capacity` distinct ids ago are duplicates |
| **Agent loop** `agent/mod.rs` | prompt, `persist_start`, round, error counter, current model and fallback | assemble, ask, stream, run tools, protect against errors, switch model, finish | nine ways out of the loop; a client that leaves at any moment; a silent stream | what is stored is whole and paired; the loop gives up in time; a gone client frees the session |
| **Token budget** `agent/token_budget.rs` | none | trim the prompt | three boundary cases | the longest suffix that fits |
| **LLM clients** `llm/*` | attempt counter, SSE buffers, event channel | chat with retry, fallback, stream | chunks end anywhere; interleaved partial tool calls; cut connections; bounded channel | the answer is what the lines say; the fallback serves the primary model only |
| **Tool batch** `tool/mod.rs`, `tool/model_tool.rs` | futures in flight | run calls, concurrency limit, ordered results | out-of-order completion | results in the order of the calls |
| **Message store** `memory/mod.rs` | `messages`, `memories`, FTS index | save and load turns; sessions; memories; export, import | limits in messages, seconds as order, imports beside turns, triggers | turns stay whole, sessions go or stay whole, the index mirrors the table |
| **HTTP channel** `channel/http.rs` | map of pending replies | chat, stream, multipart, reply | reply against timeout (300 s) against cancellation; the guard's cleanup is a task | a pending entry never outlives its request; no reply is lost that has a reader |
| **Feishu WebSocket** `channel/feishu/ws.rs` | connection, `seen_ids`, fragments | connect, receive, acknowledge, ping, reconnect | acknowledged before processed; redelivery after reconnect | whole messages, deduplication over reconnections |
| **Feishu API** `channel/feishu/api.rs` | cached token | refresh (single flight), invalidate, retry once, send in chunks | invalidation races the refresh | a request retries with a fresh token |
| **Feishu texts** `channel/feishu/types.rs` | none | convert a message, split a reply | byte offsets in texts of several bytes per character | nothing is lost, cuts between characters |
| **Scheduler, heartbeat** `scheduler.rs`, `heartbeat.rs` | next due times, overdue counts | run due tasks in sequence, back off, sleep, stop | slow tasks make instants stale | no run before it is due, no burst after a delay, no oversleeping |
| **Skills** `skill.rs`, `agent/skill_match.rs`, `tool/skill_tool.rs` | registry, active skills (FIFO) | watch, debounce, reload, rank, summarise, activate | watcher channel of four drops events; files change during the scan | the registry catches up with the last change that the watcher could see |
| **Audit, metrics** `audit.rs`, `metrics.rs` | write buffer; counters | log, flush every 16 events; count | failing writes, crash before a flush; gauge on every path | a crash costs the tail only; the gauge is the number of sessions at work, but for replies that panic |
| **Shell tool** `tool/shell.rs`, `tool/shell/permission.rs`, `tool/tokenize.rs` | venv, child process, two pipes | check, prepare the venv, plan, run, capture, kill | full pipes, processes left behind, five loops over the quotes | output never blocks a process; a command that runs without a shell is the one that was checked |
| **CLI channel** `channel/cli.rs` | none | read lines, `/exit`, print | end of input | - |
| **Start, stop** `main.rs`, `config/mod.rs`, `paths.rs` | cancellation token | load, bootstrap, run_serve, run_chat, session commands, Ctrl+C, drain 30 s, close database | closing under running tasks; parts that may fail | closed after the drain or after 30 s; every command sees the same store |
| **Other tools** `file.rs`, `web.rs`, ... | none | one request each | text processing | - |
| **Probe, redaction, prompts, onboarding** | read once | - | - | - |

The hazards of this code, each at its line with the properties that cover it, are in
`PROJECT.json`.

## 2. Modules

| Module | Models | Proved in |
|---|---|---|
| `ChatLocks` | `chat_locks`: a mutex is named after the task that created it, a fair tokio mutex is the queue of those who polled `lock()`; its head holds it | `ChatLocksProofs` |
| `RateLimiter` | `rate_limiter`: grant, refuse, the two-phase eviction, the clock | `IntakeProofs` |
| `RecentIds` | `recent_ids`: an LRU cache as a sequence | `IntakeProofs` |
| `Conversation` | abstract: what the gateway promises of a session's history | `GatewayProofs` (that it is implemented) |
| `Gateway` | `gateway.rs`, with the sending side of the channels and the start and stop of `main.rs`; composes the four above with INSTANCE | `GatewayProofs` |
| `Agent` | `do_handle` over successive turns of a session, with prompt, LLM clients, SSE reader, tool batch, history and streaming client | `AgentProofs` |
| `FeishuSocket` | `channel/feishu/ws.rs`: the reconnection loop, `listen_ws` with pings, fragments, `seen_ids` and `tx.send` | `IntakeProofs` |
| `FeishuApi` | `channel/feishu/api.rs`: the shared token and its refresh, `reply_card`, `send_card`, `add_reaction` | `ChannelProofs` |
| `HttpReplies` | `channel/http.rs`: the handlers, the map of pending replies with its guard, timeout and cancellation, the gateway behind them | `ChannelProofs` |
| `Scheduler` | `scheduler.rs`, `heartbeat.rs`: one loop over the tasks, with the clock | `ServicesProofs` |
| `Skills` | `skill.rs`: watcher, bounded channel, debounce, the scan file by file | `ServicesProofs` |
| `AuditLog` | `audit.rs` over a `BufWriter` | `ServicesProofs` |
| `Store` | `memory/mod.rs`, the triggers of `schema.sql`, `cli/session_cmd.rs` | `ServicesProofs` |
| `SseReader` | the reader tasks of both clients, over bytes and chunks | `TextProofs` |
| `ShellRun` | `tool/shell.rs`: the calls, their processes, pipes and reading tasks | `ServicesProofs` |
| `HttpForm`, `LlmWire`, `FeishuText`, `SkillSelection`, `CommandLine`, `Startup` | pure functions: forms and the bearer token; both wire formats; messages and cards; candidates, summary, active skills; chain, tokens and plan of a command; what a configuration makes of a start | `HttpForm` and `FeishuText` in `TextProofs`, candidates and starts in `ServicesProofs`; the rest is checked only |
| `MCIntake`, `MCGateway`, `MCAgent`, `MCServices` | instances for TLC | `MCIntake`'s composition in `IntakeProofs` |
| `DataLemmas` | nothing: lemmas on sequences, finite sets and numbers that the proofs share | itself |
| `MCSseReader`, `MCShellRun`, `MCFeishuText` | small instances, for runs of their own and in `MCServices` | - |

**Gateway.** `task[r]` is where request `r` is between its source and its end. An
action is the code between two awaits, or the part of it that touches one shared
object: the lookup of the lock (`CloneArc`) and the first poll of it (`JoinQueue`)
are separate, so that the collector may run in between. The components' operators
(`RL!Grant`, `Dedup!Offer`, `Locks!CloneArc`, `Conv!TakeTurn`) are used inside the
gateway's actions, and the gateway's state is mapped onto the components: `LockPhase`
maps `task` to the phases of `ChatLocks`, `store` is the `log` of `Conversation`. The
properties `FollowsLocks` and `TurnsAreAtomic` are these refinements. A streaming
request runs the same steps as a queued one; the set `Tracked` tells which tasks are
in the JoinSet that `run()` drains. A task may also panic while it renders a Feishu
reply (`PanicInReply`, finding 7): the lock is released by unwinding, the gauge stays
raised. No other panic was found in the code of a task.

**Agent.** `pc` names the awaits of `do_handle`. A message is its role, its turn and
the ids of the calls it makes or answers; tokens are a cost per role; answers, tool
outcomes and failures are free. `Begin` is everything up to the first round: loading
the history, assembling, trimming, `persist_start`. The SSE reader is a task of its
own behind a bounded channel; the client reads its deltas from another and may leave
at any time. The turns of one session are sequential here because `Gateway` shows
that they are.

**FeishuSocket.** `conn` tells where `run_with_reconnect` is: between connections,
asleep in the back-off, in the select loop, or in `tx.send`. While it is in `tx.send`
nothing else of the socket runs, so no ping, no heartbeat check and no frame. Instants
are kept as ages, counted up to where the code stops telling them apart. The server is
external and may send any frame at any time, so it resends, regroups and interleaves.
One id stands for the frame header's `message_id` and for the message's own. A frame
that is `alone` is taken for a whole message whatever its part is (`sum` is 1, the id
empty, or `seq` not below `sum`, line 201); when it is a piece of a message, the piece is
no JSON object and the parser refuses it (`Truncated`, lines 228-235), so that nothing is
handed over and the fragments stay as they are. `Dedup` is
the socket's; `Gateway` deduplicates again behind the queue. `Connect` is the handshake
as one step that succeeds or fails; the code has no time limit for the WebSocket's part of it (`ws.rs:90`),
so that `NothingStays` rests on some attempt being answered.

**FeishuApi.** `pc[c]` names the awaits of a call: the first look at the cache, the
refresh lock, the second look, the request for a token, the send. `waiting` is the fair
queue of tokio's mutex. A token is its number; the server may revoke any. A token whose
`refresh_after` has passed counts as not cached, which is how every reader treats it.

**HttpReplies.** `stage[r]` is where a handler is. The entry of a request is in
`pending` (the map), in `held` (taken out by `send_message`, not yet used) or in `slot`
(the oneshot channel); the guard's removal is the task in `cleanups`, because Drop
cannot wait for the lock. A handler may be cancelled at any await. The gateway is
reduced to a queue, tasks that answer and a shutdown. The status 429 stands for either
refusal of the gateway's prevalidation (a message that is too long gets 400).

**Scheduler.** One pass over the tasks compares with an instant read at its beginning;
a running task and the sleep let time pass. `runs` is a history variable: when each run
was due and began. A cron expression is the set of its occurrences; when it has no
further one, `next_run_after` returns the very instant it was asked about
(`unwrap_or(after)`, line 316), so that the task stays due.

**Skills.** The watcher's callback puts a change into the channel or drops it
(`Notify`); a `notify` crate event is not lost before that. The scan reads one file per
step. The first one (`StartScan`, `main.rs:326`) is over before the watch begins
(`Watch`, `main.rs:421`), with the construction of the agent in between, and files change
all the time; `Watch` takes any set of sources, the empty one when watching fails and in
`chat`. `unseen` is a history variable: the files changed outside the watch and not read
since. **AuditLog.** A line is two pieces (text, newline) in a buffer that flushes when
full; the disk may refuse a write. **Store.** A statement or transaction is one step; a
message is the turn and its position, ordered by the second of its insertion and its
row id; the clock may be set back. **SseReader.** A body is a sequence of lines with
bytes; a chunk takes any number of bytes (`ReceiveChunk`), and the connection may be cut
after any. `ReadLine` takes the next complete line out of the buffer, as the loop of
`openai_compat.rs` does; `anthropic.rs` first takes out all of them and then reads one
after the other, which nothing can tell apart.
**ShellRun.** `child`, `heir` (what it leaves behind), `pipe`, `kept` and `ended` are
the process and its two pipes; several calls run at once and share the venv.

**Composite instances.** `MCIntake` and `MCServices` put independent parts into one
state space: the variable `side` says which of them runs, the others rest in their
initial states, and each part's state space is that of its own specification. Their
fairness is that of the modules, each conjunct limited to its side; in
`ServicesFairness` it is weaker (some step of a side happens as long as any can),
which is enough for these properties. On the side "texts" nothing runs: `sample` is
the input of one of the pure functions, and `TextsExact` says for every sample what
its module promises.

**Abstractions.** `memory.history_limit` counts messages in `Agent`, as in the code,
and turns in `Gateway`, where a turn is one step. The system prompt is one message.
Redaction and error annotations do not appear. `RateLimiter` identifies an absent entry
with an empty one (no step tells them apart). Ticks replace seconds. A database error is a choice when `DbFaults`, and certain once the database is
closed.

Definitions whose comment begins with "Mutation" are variants of a definition with a
plausible bug. No specification uses them; they show that a property notices the bug.

## 3. Runs

| Run | Instance | Shows |
|---|---|---|
| `Intake` | locks: 3 tasks of a session, 1 of another, free collector; limiter: 3 sessions, cap 1, 2 slots per window of 2 ticks, 5 grants; ids: 4 through a cache of 2, 6 offers; socket: 3 messages, one of 2 or 3 frames, each of which may come as a whole one, one unreadable, 3 frames, windows of 1 and 2 ticks, caps of 1 | the locks' inductive invariant and no starvation; no window holds more than the limit, a refusal means a full window, an eviction removes no more than the overflow though requests interleave, the cap is restored; the cache agrees with its definition; only whole messages go on, none twice within the window over any reconnection but through the emergency cap, a peer gone silently is noticed, an incomplete message is given up |
| `GatewayTurns` | a Feishu message, its redelivery and a stream of one session, or two CLI lines, one too long; queue of 1; database errors; Ctrl+C at any time | turns are atomic, the locking protocol is followed, nothing is processed twice, the gauge is right but for replies that panicked, a clean drain costs no queued message its turn; every message reaches its end as long as the turns of its own session do, and the server stops as long as all turns end |
| `GatewayLimits` | two prevalidated HTTP requests of two sessions, one too long, one slot per window, cap 1, time to live 1; database errors; Ctrl+C | a prevalidated message pays no second slot and is not refused unless it outwaited its time to live; no prevalidation is left of a message taken up, refused or not sent |
| `Agent` | two turns, three rounds, two models, retry, fallback, error limit 2, history of 4 messages, budget 6 | what is stored and what is sent is paired, the trimmed prompt is the longest that fits, a turn stores itself and nothing else, the loop gives up exactly when it should, the fallback serves the primary model only, a client that left frees its session |
| `Services`: api | a reply of 2 cards, one of 1, a reaction; 3 tokens, revoked at any time | a retry never presents the refused token, a chat sees a beginning of the reply in order and once, every call ends |
| `Services`: http | two chats (one refused by the gateway), a form, a stream; queue of 1; hang-ups, timeouts, shutdown | where an entry is at each stage, nothing is lost that has a reader, no entry outlives its handler |
| `Services`: scheduler | a cron task with gaps that ends, a disabled and an invalid one, the heartbeat; 7 instants | a run is due, missed occurrences are one run, no task is overslept, no spinning |
| `Services`: skills | 3 files of one name in 2 sources, channel of 1, 2 edits, before, during and after the first scan; any sources watched, at any time after it | the registry is current whenever no change is on its way and none was made outside the watch without being read since; and once the files rest it becomes current or such a change is left |
| `Services`: audit | flush every 2, buffer of 4, lines shorter and longer than it, 4 events, failures, crashes | a crash costs at most the events since the last flush |
| `Services`: messages, memories | 2 chats, 2 turns of 1 or 2 messages, deletion, pruning, export, import, clock set back; 2 keys with 2 texts | histories are whole turns, sessions go or stay whole, an import restores; a search finds what is there now |
| `Services`: sse | a body of each provider: interleaved calls, noise, a wide character, both line ends; every cut; buffer of 12 | the response is what the lines received say |
| `Services`: shell | a pipeline that writes more than a pipe, a hanging venv command, a barred one; pipes and captures of 1 | output never blocks a process, the captured part is its beginning |
| `Services`: texts | 22 000 inputs: tokens and forms of up to 3, activations and prompts of 4, texts of 6 characters, commands of 4, 4 000 starts | each pure function against what it promises |
| `GatewayNoExit` | one CLI line | *violated*: `run()` never returns after the CLI ended |
| `GatewayOrphan` | a queued and a streaming request | *violated*: the database is closed under a streaming task |
| `GatewayOrder` | two messages of a session | *violated*: processed in the other order |
| `AgentHistory` | two turns, no budget | *violated*: a prompt begins with tool results without their call |
| `SplitCharacter` | one line with a character of two bytes, cut anywhere | *violated*: the character is lost from an OpenAI stream |
| `ShellTimeLimit` | one command that leaves a process behind | *violated*: the call outlives its time limit |
| `CardsCut` | replies of up to 4 characters, cards of 4 bytes | *violated*: a reply is sliced inside a character |

**Bounds.** Locks, queue, dedup and turns relate two requests of a session to each
other, and a third (the redelivery, or the holder while two wait) to both; three
requests with every interleaving and every shutdown point cover the pairs, and the
proofs remove the bound for the central claims. A queue of one makes it full and
empty at once. The limiter needs more sessions than its cap by two (a choice of
victims) and a clock beyond two windows minus one. The cache needs ids beyond its
capacity and offers enough to fill, refresh and evict. The agent needs two turns, for
what one stores and the next loads, one round more than the error limit, and a
history limit and budget that cut a turn in the middle. The socket needs a message in
two splits and others to push its id out of `seen_ids`; three frames let one be resent
after a reconnection (`Refused` is empty: such frames change nothing but the
fragments). The API needs three calls, so that two wait for the refresh of the third,
and three tokens, so that a late refusal can drop a fresh one and still be served.
HTTP's requests meet only in the map and the queue: two that wait and one that is
refused suffice. A task is overdue, and backs off, within seven instants, because a
run may take any number of them. A channel of one is full after one change; two edits
let the second fall into the scan of the first. Two flush periods of audit events show
a failed flush followed by a good one. Two turns in two chats let a turn be saved
between an export and its import. The SSE bodies are cut at every byte, so longer ones
repeat cases; the shell's pipes are full after one write.

**Fairness.** `Gateway`: the runtime polls each message task, `run()` and the monitor,
and main goes on after `run()`. Each task is fair in the steps of its own (`OwnStep`):
the lock is fair, the database is local, and the calls of a reply are bounded by their
timeouts. The end of an agent's turn (`TurnEnds`) is not fair, for the code does not
bound it: `tx.send` to a client that stopped reading has no time limit
(`agent/mod.rs:348`), nor has a command that left a process behind (finding 6). What
follows is a hypothesis of the property instead: `Served` says of a message that it
reaches its end if no turn of *its own session* lasts for ever, whatever other sessions
do, and `StopCompletes` that the server stops without the help of the 30 s if no turn
does. With the limit it always may stop (`CutOff`), which is a matter of the clock.
Nothing is assumed of clients, the user, the clock or the collector. `ChatLocks`: every task is
polled. `RateLimiter`: the collector's interval fires and its loop over the victims
goes on, which `CapRestored` is about; requests are bounded by `MaxGrants`. `Agent`:
the agent is polled, a request is answered or fails (120 s), a tool ends. The SSE
reader and the client are not fair: an open stream may stay silent, a client may stop
reading, and `GoneClientFreesSession` holds nevertheless. `FeishuSocket`: timers fire,
the gateway takes messages or returns, and a connection that can be attempted again and
again succeeds some time (strong fairness of `Connect`; nothing of the server's frames).
`FeishuApi`: a call that has arrived goes on, for requests end after 30 s.
`HttpReplies`: handlers, the guard's tasks and the gateway are polled (nothing of
clients). `Skills`: the first scan, the watcher's thread, the reload task and its scans go on; nothing is assumed of when, or whether, the watch begins; edits end.
`ShellRun`: calls and reading tasks are polled, a process that can write or end does;
nothing of the time limit, for `OutputNeverBlocks` must not need it, and in
`ShellTimeLimit` it does pass.

**Deadlock** is checked except where the bounds of the model end the behaviour
(`Intake`, `Services`, `SplitCharacter`, `CardsCut`). `Gateway` and `Agent` stutter
explicitly when nothing is left to do, so a deadlock would be a stuck task; in `Intake`
and `Services` that is what the liveness properties say.

## 4. Proofs

TLAPS checks that the following hold for every value of the constants. Every
safety invariant of the runs is among them, but for the one named at the end. But for
`AnswersAreWhole`, no theorem assumes more than the named assumptions of the modules
(below). Hardly any property is inductive as it stands; for each, what had to be added
and why.

**`ChatLocksProofs`**: `Spec => []IInv` and `Spec => []SessionExclusive`, for any
tasks and sessions. Exclusion alone is not inductive: the collector could have
removed a mutex that somebody waits for. `IInv` adds that a clone is always a clone
of the map's entry (`ArcIsCurrent`: what the test `strong_count > 1` achieves), that a
task has a clone exactly between lookup and unlock (`ArcHeld`), that sessions share no
mutex (`LocksSeparate`) and that a task past the lock heads its queue
(`HolderIsHead`). Two holders of a session then have the same entry, hence the same
queue, which has one head.

**`GatewayProofs`**, for any requests, sessions, capacities, limits and faults:

- `GatewayFollowsLocks`: every step of the gateway is, under `LockPhase`, a step of
  `ChatLocks` or invisible to it. One lemma per step that touches a lock, one for the
  rest of each group. The queue needs an invariant of its own (`Shape`: what is in the
  queue is in phase "queued", once), for `Receive` moves a task too.
- `GatewayExclusion`: two tasks are never both past the lock of a session, from the
  refinement and `MutualExclusion`.
- `AtomicTurns`: the gateway implements `Conversation`. The invariant `HistoryFresh`
  (what a task loaded is still the end of the stored history while the task is in
  "loaded") is preserved because only a task past the lock saves, and another one of
  the same session is excluded; a save is then a turn of `Conversation`.
- `ProcessedOnce`: an id let through once is let through no more. It needs that the id
  is still in the cache (`OnceInv`), which holds as long as the cache has room for all
  the ids there are, and that is `AtMostOnce`'s precondition: beyond it the code may
  forget an id and accept its redelivery, and `DedupIsExact` says when. No eviction can
  come first because an id that the cache lacks, together with the distinct ones it
  holds, are no more than there are (`DistinctRoom`).
- `GaugeAndTypes`: `active_sessions` is the number of tasks past the lock and of those
  that panicked in their reply, so its decrement never wraps, and it is too high by the
  number of the latter for good. `GaugeInv` adds that there are finitely many: the number of
  requests need not be finite, but each past the lock was counted.
- `CleanShutdown`: when `run()` has returned, no task of the JoinSet is at work, and
  none can start (`DrainedStays`), so the database is closed under none of them unless
  the drain was cut off.
- `PrevalidatedOnce`, `PrevalidationSpent`: a prevalidated message pays one slot and is
  not refused unless it outwaited its time to live; no prevalidation is left of a
  message that was taken up, dropped as a duplicate, refused or could not be sent. Those
  of handlers dropped before the send and of messages dropped with the queue are left to
  the collector. `PaidInv` says what a waiting message has paid and that its
  entry carries that very instant or has expired; `KeptInv` that an entry of the map
  belongs to a message not taken up. Both need that a request of the HTTP channel has an
  id of its own (below): two requests under one id would share the entry.

**`IntakeProofs`**, for any sessions, limits, windows, ids and conduct of the server:

- `WindowIsExact`: the limit holds exactly, over all evictions. What the map holds of a
  session is compared with all its grants: it is their end, what it lacks is out of the
  window or was forgotten in an eviction, and grants `MaxRpm` apart are a window apart
  (`EntryFits`). That the entry is ordered makes the `retain` a cut at its front.
- `EvictionIsBounded`: the two-phase eviction removes no more than the overflow, for
  between the choice of victims and their removal a request can only add entries.
- `DedupIsExact`: the LRU cache agrees with its definition over the trail of all offers.
  `Remembers` relates the order in the cache to the last offer of each id in the trail,
  and says that a cache with room to spare has forgotten none.
- `RedeliveryDropped`: no message goes on twice within the window, over any number of
  reconnections. `SeenTrue`: an entry tells when its message passed last, and one that
  is missing within the window gave way to `SeenKeep` messages that passed no earlier.
- `HandsOverWholeMessages`: all frames of a message that goes on were acknowledged on
  this connection, also when a frame was taken for a whole message that is none: the
  parser refuses that one. It needs the parts that wait (`FragsOK`) and the state of the
  connection (`LinkOK`), for a reconnection empties both caches together.
- `PartsKeepTheirInvariants`: the composition in `MCIntake` keeps the invariants of its
  parts, from the theorems on each part.

**`AgentProofs`**, for any limits, budget, models, retries and lists of calls:
`LoopInvariant` is `Spec => []IInv`, and from it `CallsKeepTheirResults`,
`PersistsItsTurn`, `GivesUpExactly` and `FallbackOnlyForPrimary`. `IInv` has four
parts. `LoopOK` and `ErrorsOK`: the counter is the number of failures at the end of
the list of batches, and they are fewer than the limit until the turn ends. `LlmOK`:
the fallback is set only while the primary is asked. `StreamOK`: at most one `Done`,
after all deltas, which bounds what a reader that lags behind can leave. `PromptOK`:
the stored history is `Chained`, and the prompt `Settled`: each call has its results
behind it, and each result has its call before it or is one of those the history begins
with, whose call the limit or the budget cut off (finding 4 is this gap). While a batch runs its
call stands last without results, which is why `PromptOK` has a case for "tools". One
lemma (`SettledGrows`) serves every step that appends a message.

`TrimsToTheBudget` is about a sum, which is why `Tokens` counts pairs of a place and a
token instead of adding: a place more adds the pairs of its message (`WeightAdds`) and a
history in another place has as many (`WeightMoves`), both from the library's facts on
cardinalities, so no induction is needed. `TrimFits` then says of the longest end of
the history with room that one message more has none.

**`ServicesProofs`**:

- `ScheduleIsFollowed`, `SleepsAsLongAsItMay`, for any schedules and however long tasks
  run. `TaskInv` says where the next due time stands against the list of runs, and
  that a task not yet visited in a pass began its last run before the pass:
  without that two runs of a pass could share an instant.
- `CrashCostsTheTail`, for any sizes of lines and buffer and any failures of the disk:
  a crash loses at most the events since the last flush. `AuditInv` bounds the line
  ends in the buffer by the counter, keeps disk and buffer together in order and
  accounts for each event as written, rejected or lost.
- `SearchFindsWhatIsThere`, for any keys and texts: the index is the image of the table
  (`MemoryInv`: ids are unique, smaller than the next, and the index has a row for each
  memory and no others).
- `HistoriesStayWhole`, `SessionsStayWhole`, for any chats, turns, imports and settings
  of the clock. The order of a query is a sequence obtained by counting the rows before
  a row (`Rank`), so the proofs first establish that this is a list (`ListsIsListed`:
  the only one in which earlier rows come first), and that rows with neighbouring ids of
  the same second are neighbours in it (`Neighbours`). `MessagesInv` then speaks of the
  set of rows alone: each row that is not the first of its turn has its predecessor
  under the id before, in the same chat and second (`WholeRows`). An insertion of a turn
  or of an import has the next ids in a row and so keeps it (`EnteringKeeps`); a
  deletion takes whole chats. Nothing is said of which turn comes first: the order is
  that of the seconds, which is the order of saving only while the clock is not set back
  and no session imported.
- `OutputBeginsAtItsBeginning` (`CapturedIsPrefix`, the safety part of
  `OutputNeverBlocks`), for any processes, bytes, pipes and buffer sizes. `Accounts`
  says that what was written to a stream is in its pipe or was read, and that of what was
  read the beginning is kept; `Lives` that a stream whose end was seen has no writer left.
  A call that answers with a result has seen the ends of both.
- `RegistryIsCurrent` (`QuietIsCurrent`, the safety part of `CatchesUp`), for any files,
  sources, names and capacity of the channel, and whatever is watched: with no change on
  its way, the task at rest and nothing `unseen`, the registry shows the files as they
  are. `SkillsInv` says it of the scan as well: unless a change is on its way, what was found shows the files read so far,
  although files change while others are read. It holds because the channel is drained
  before the scan, and a change dropped by the full channel leaves another one in it.
  Sources are read in their order, so that the file read last is the one to override.
- `StartsAreAlike` (`StartsAlike`), for any configuration, environment and faults, and
  any absolute home. That the path of the audit log is resolved twice makes no difference
  because an absolute path stays as it is (`ResolvedOnce`); and what a start reads of a
  configuration are the parts in which a flat profile and a table of one profile agree
  (`StartReads`).
- `MentionsRaise` (`MentionHelps`), for any skills, texts and history. A place in the
  ranking is the number of candidates before it, and in a finite ordered set each number
  is the place of exactly one (`PlacesInOrder`), so that the `CHOOSE` of `Ranked` finds
  its skill. A word more raises the points of the skill that has it and leaves those of
  the others (`WordSpeaksFor`): those ahead afterwards were ahead before. `InRegistry` is
  what the registry grants: finitely many skills, with distinct names and so distinct
  ranks, and finitely many terms each.

**`ChannelProofs`** has the Feishu API client and the HTTP channel. For any calls,
cards, tokens and conduct of the server: `RefreshesAreShared`, `RetriesAreFresh`,
`RepliesArePrefixes`. None is inductive. A retry is fresh because a refused token never
comes back into the cache (`RefusedStaysOut`), which needs that a token on its way into
the cache is known to nobody else, so that nobody can have been refused it
(`NewIsUnknown`); that in turn needs `RetryIsFresh` of what is sent. A refresh is
shared because only the lock's holder fills the cache (`HolderInside`,
`EmptyWhileAsking`). What a chat has seen is what the call has counted as long as it
goes on (`PostedAsCounted`), and a call that saw a failure does not go on.

For any requests, kinds, faults and capacity of the queue of the HTTP channel:
`HttpInvariant`. `SenderAlive` and `NoReplyLost` (what a client sees) are not inductive:
a reply is not lost only because a message is in one place of the gateway at a time and
none of them has used its sender (`OnePlace`, `Underway`), and a sender stays in the map
only because an entry's removal is scheduled for handlers that have ended and no others
(`Bookkeeping`). One lemma per action; the queue's indices are followed in `Send` and
`TakeNext`.

**`TextProofs`** has the text that comes from a model or a client and the text that goes
to a chat. For any bodies of answers, any cut into chunks and any buffer cap:

- `StreamsSurviveCuts` (`LinesSurvive`): the lines received are read once each, in
  order, up to the end marker; the texts are theirs, the tool calls are put together
  from their parts whole, and a text is damaged only if its line is a wide one of an
  OpenAI answer.
- `AnswersAreWhole` (`AnswerIsPrefix`): the response is what the lines received say,
  text for text and call for call in the order of their indices, or, after the end
  marker, what the whole body says. It assumes `WholeCharacters`: no line of an OpenAI
  answer has a character that a chunk may cut. Without it the property is false, which
  is finding 5.

`AnswerIsPrefix` is not inductive, for it speaks of the end only. `ReadInv` adds what
the reader has at every moment. Where the lines end in the bytes is a list of offsets
(`LaidOut`), and the buffer is the bytes received behind the end of the last line read
(`BufferFits`), byte for byte but for halves of characters, which are never line ends:
so what the reader finds up to the next newline is the next line and nothing else.
`TextsAre` and `CallsAre` say what the lines read have left behind. That the bytes of a
body have such offsets, and that sorting the indices of calls gives the order of the
reference, is shown by induction over the number of lines (`FlattenIs`, `AscendingIs`).

For a reply of any length, any characters and any limit of a card: `CardsShowTheReply`
(`SplitWhole`, the part of `TextsExact` about cards). `ChunkStarts` is the loop of
`split_markdown_chunks`, round by round: each round of it is one of its steps (`RoundIs`),
the function exists (`Iterates`), and some round is the last, for each of the others
leaves less of the text (`LoopEnds`). What a round cuts off is not empty, fits, and ends
where a line ends if it holds the end of one (`CutIs`); the parts laid one behind the
other are the text (`PartsMakeWhole`), and the bytes of each are what lies between the
offsets of its ends (`SizeOfPart`). A split that panics is exempt: that it does is
finding 7.

For a post of any length, `PostsAreRead` (`PostIsRead`): the text put together is blank
only if every element's is (`FlattenShows`, from the offsets of `FlattenIs` again), and an
element that says something is read as something that is not blank (`ElementIsRead`).

For a form of any number of fields, `FormsAreReadExactly` (`FormExact`): `FormAfter` is the
loop of `handle_chat_multipart`, field by field. `ReadsRight` is its invariant, and
`OneFieldMore` that the loop keeps it: a refused form has the status of the first
unacceptable field, and in any other the message is that of the last readable field of
that name, image and file are there if some readable field was. `TokensAreCompared`
(`TokenExact`) has the two directions of the comparison of tokens, of which the one that
needs the lengths is the padding with zeros.

**`DataLemmas`** has what these proofs share: an element moved to the end of a
sequence, sequences without repetition against the cardinality of their set, least and
greatest elements. The library's induction theorems have an operator as a parameter,
which these provers cannot instantiate. Facts one would prove by induction come from its
theorems on finite sets instead: that a nonempty set of numbers has a least element,
from the cardinality of an initial segment (`InitialSegment`, `LeastElement`); that 2^k
is at least 1, from the number of subsets (`PowerOfTwo` in `IntakeProofs`); and that a
set of numbers which has 0, and with a number the next, has all up to n (`UpTo`), which
serves as induction wherever the fact is the membership of such a set. With it a function
that starts from a value and goes on by a step, which may be another each time, is shown
to exist (`Iterates`): a recursive function needs this before anything can be said of it.

**Assumptions.** Each module names those on its constants: `LocksAssumption`,
`LimiterAssumption`, `RecentAssumption`, `SocketAssumption`, `GatewayAssumption`,
`AgentAssumption`, `ApiAssumption`, `HttpAssumption`, `SchedulerAssumption` and
`TasksAssumption` (the tasks are a list), `AuditAssumption`, `StoreAssumption`,
`ShellAssumption`, `SkillsAssumption`, `SseAssumption` (lines are a list, indices
numbers). They are types, and that the values standing for "none" are not among the
others. One says more: by `GatewayAssumption` every request of the HTTP channel and
every stream has an id that no other request has, for the handlers draw a fresh one
each (`channel/http.rs:303`, 426, 605). And `AgentAssumption` has every message cost at
least a token, for `estimate_message_tokens` begins at four (`token.rs:46`). TLC
evaluates all of them for the instances of the runs.

**Only model-checked** are

- liveness, all of it (`NoStarvation`, `CapRestored`, `NothingStays`, `Served`,
  `StopCompletes`, `GoneClientFreesSession`, `CallsEnd`, `NoPendingLeak`, and what is
  left of `CatchesUp` and `OutputNeverBlocks`): it rests on fairness and ENABLED, which
  this prover lacks;
- `TextsExact` in part. It puts the pure functions beside reference definitions for
  sampled inputs. Its parts `SplitWhole`, `PostIsRead`, `FormExact`, `TokenExact`,
  `StartsAlike` and `MentionHelps` are proved for every input; `DirectIsChecked`,
  `QuotingHolds`, `PlacesHold`, `ActiveExact`, `SummaryFits` and `ProvidersAgree` are
  not. They are folds and selections (`FoldLeft`, `SelectSeq`) over sequences, of which
  the provers unfold none; each would have to be written step by step, as `FormAfter` and
  `ChunkStarts` are.

## 5. What the code does otherwise than its documents say

Shown by a run (see "findings" in `PROJECT.json`):

1. `run_chat` hangs after the CLI has finished, for the queue monitor holds a sender
   (`gateway.rs:129`; `main.rs:587`).
2. A streaming turn is not drained on shutdown (`gateway.rs:502`; lines 112, 237).
3. Messages of a session may be processed in another order than received
   (`gateway.rs:229`; design document, line 356).
4. The history limit may separate tool results from their call (`memory/mod.rs:251`;
   design document, line 556).

5. A character that two chunks cut is lost from an OpenAI stream
   (`llm/openai_compat.rs:162`; the other reader's test, `llm/anthropic.rs:617`).
6. A process that a command leaves behind keeps the call waiting beyond its time limit
   (`tool/shell.rs:1049`; line 12).
7. A long reply with characters of several bytes panics in the message task
   (`channel/feishu/types.rs:443`; line 450).

Read, without a run of their own:

- The eviction of a limiter entry forgives the session its recent requests
  (`gateway.rs:179-185` speaks of avoiding this for other sessions); `RateBound` counts
  from the last eviction. A victim that made a request since the snapshot is evicted
  all the same (44-58).
- The `retain` on `rate_limiter` "remove empty entries (stale sessions)" (166-169)
  never removes anything, for no entry is left empty; stale ones go by the cap.
- `process_message_streaming` does not look at the cancellation token: streaming
  requests are accepted while the server stops (`main.rs:533` "stop accepting new
  work").
- Less than the time to live after the machine's start, `checked_sub` yields `now` and
  the collector drops every prevalidation (171-175).
- `switch_model` says "for the rest of this conversation" (`tool/model_tool.rs:33`); it
  lasts for the turn.
- A reply that is not streamed text (an error, the give-up and the out-of-rounds
  notices) never reaches a streaming client: the reply of `handle_streaming` is dropped
  (`gateway.rs:525`).
- A Feishu connection that ends without an error is reopened at once, without back-off
  (`channel/feishu/ws.rs:50-55`), and the back-off after an error begins at 2 s; the
  design document (lines 249 and 804) has 1 s, 2 s, 4 s, ... after every disconnection.
- Fragments are acknowledged one by one and cached per connection (`ws.rs:190-221`): a
  reconnection or the collection after five minutes between two of them loses a message
  that was acknowledged in part. Lost is also a message whose conversion fails,
  for it is in `seen_ids` already (279) and its redelivery a duplicate.
- `invalidate_token` drops whatever is cached (`api.rs:163`): a late refusal of the old
  token costs the others the fresh one, and one refresh more. `RetryIsFresh` holds.
- An answer with a successful status and an unreadable body counts as success
  (`api.rs:303`), whatever the server did.
- A cut SSE response ends with a `Done` like a whole one (`llm/openai_compat.rs:170`);
  a tool call cut in its arguments has `null` for them. `AnswerIsPrefix` says no more.
- After a crash the next audit event is appended to a torn line: "one JSON object per
  line" (`audit.rs:3`) fails for that line.
- A skill that changes between the scan at the start (`main.rs:326`) and the watch
  (`main.rs:421`), with the construction of the agent and its probes in between, is
  reported by nobody: the registry stays as it was until another, watched change has all
  sources scanned again. The same holds of a source directory that does not exist at the
  start (`skill.rs:393-403`; README.md:41 "hot-reloaded"), and always in `chat`, which has
  no watcher. `QuietIsCurrent` names these changes (`unseen`).
- In "full" mode a segment of a chain may be more than one command for `sh -c`, which
  knows operators at which `split_command_chain` does not cut (`permission.rs:60-63` says
  at which it does). `DirectIsChecked` is about commands that run without a shell, the
  only ones below "full", and says nothing of the others.
- `rebuild_memory_index_if_needed` compares the counts of the table and of an index
  without content of its own, whose count is the table's: it never rebuilds.
- A cron task without a further occurrence is due again in every pass from then on, at
  the pace of the back-off (`scheduler.rs:316`, `unwrap_or(after)`). The proof of
  `RunsFollowSchedule` showed this: that consecutive runs are at least an instant apart
  is false for such a schedule, and `Gap` asks for it only while the schedule goes on.
- Commands after the first of a chain are not rewritten for the venv
  (`tool/shell.rs:78-80`), and two calls may create it at the same time.
- An empty pair of quotes makes no token (`tool/tokenize.rs:40-47`), so that an empty
  argument cannot be passed.
- `file_read` slices a lossy text at byte 2000 (`tool/file.rs`), which may be inside a
  character, as in finding 7.
- The path of the audit log is resolved against the home twice (`main.rs:225`, 299):
  with a relative `ANQCLAW_HOME` it is another file. `StartsAlike` has an absolute home.
- A skill's description scores higher for a mention of one of its words than for
  another (`skill_match.rs:273-303`): `MentionHelps` leaves descriptions out.
- An HTTP client may choose any chat id, those of the scheduler's sessions included.

## 6. Plan

Done are the path of a message from its channel to the store, and the services around
it; proved is every safety invariant of their state machines. What would come next, in
order:

1. The other pure functions of `TextsExact`, proved for every input as `TextProofs` does
   it for forms and cards: first `CommandLine`, whose loops have to be written step by
   step, as `FormAfter` is.
2. The composition of `Scheduler` with `Gateway` over the sessions that an HTTP client
   may share with a scheduled task.
3. The custom tools' runs (`tool/custom.rs`), which resemble `ShellRun`.

## 7. Not modelled

Onboarding and the display of the configuration (dialogues), the environment probe,
redaction and error classification (tables of text patterns), the I/O of the file, web,
PDF and image tools, logging, Windows' variants of the shell, and the migration of an
old database.
