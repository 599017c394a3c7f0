-------------------------------- MODULE Agent --------------------------------
(***************************************************************************)
(* The agent loop of anqclaw (agent/mod.rs, do_handle) over the successive *)
(* turns of one session, with what it is built from: the assembly and the  *)
(* trimming of the prompt, the LLM clients with their retries and their    *)
(* fallback, the SSE reader of a streaming request, the batch of tool      *)
(* calls, and the history that the gateway loads before and saves after a  *)
(* turn (under the session's lock, so one turn at a time).                 *)
(*                                                                         *)
(* The contents of messages are left out: a message is its role, the turn  *)
(* it belongs to and the tool calls it makes or answers.  Tokens are a     *)
(* cost per role.  What an LLM answers and how a tool ends is free.        *)
(***************************************************************************)
EXTENDS Naturals, Sequences, FiniteSets, FiniteSetsExt

CONSTANTS
  MaxTurns,       \* bound of the model: the messages of the session
  Models,         \* the configured LLM profiles
  Primary,        \* the profile of config.llm
  Fallback,       \* agent.fallback_profile, or NoModel
  NoModel,
  Retries,        \* [Models -> Nat], max_retries of each profile
  MaxRounds,      \* agent.max_tool_rounds
  MaxErrors,      \* agent.max_consecutive_tool_errors
  MaxConcurrent,  \* MAX_CONCURRENT_TOOLS
  HistoryLimit,   \* memory.history_limit, in messages
  Budget,         \* limits.max_tokens_per_conversation, 0 for none
  CostOf,         \* [Roles -> Nat \ {0}], the estimated tokens of a message (token.rs)
  CallLists,      \* bound of the model: the tools an answer may call
  MaxPieces,      \* bound of the model: the text deltas of an answer
  EventCapacity,  \* the capacity of the channel of stream events
  DeltaCapacity   \* the capacity of the channel to the streaming client

Roles == {"system", "user", "assistant", "tool"}

ASSUME AgentAssumption ==
  /\ MaxTurns \in Nat /\ MaxRounds \in Nat /\ MaxErrors \in Nat
  /\ MaxConcurrent \in Nat \ {0} /\ HistoryLimit \in Nat /\ Budget \in Nat
  /\ MaxPieces \in Nat /\ EventCapacity \in Nat \ {0} /\ DeltaCapacity \in Nat \ {0}
  /\ Primary \in Models /\ Fallback \in Models \cup {NoModel} /\ NoModel \notin Models
  /\ Retries \in [Models -> Nat] /\ CostOf \in [Roles -> Nat \ {0}]
  /\ CallLists \subseteq Seq({"tool", "switch"}) /\ <<>> \in CallLists

VARIABLES
  turn,       \* the turns begun
  pc,         \* where do_handle is
  messages,   \* the prompt under construction
  start,      \* how many messages stand before persist_start
  round,      \* the rounds completed in the turn
  errors,     \* consecutive_errors
  model,      \* current_llm
  fallback,   \* current_fallback
  asking,     \* the model whose answer is awaited
  second,     \* whether the fallback is asked, the first client having failed
  attempt,    \* the failed attempts of RetryLlmClient
  stream,     \* "none", or the state of the client's receiver: "open", "closed"
  unread,     \* the deltas the client has not read
  reader,     \* the task that reads the SSE response: "none", "reading", "ended"
  events,     \* what it sent and the agent has not received
  partial,    \* the pieces in partial_text
  done,       \* whether final_resp is Some, that is, Done was received
  answer,     \* the LlmResponse: whether it has text, and the tools it calls
  ended,      \* how each call of the batch ended, or "running"
  reply,      \* the kind of reply do_handle returned
  store,      \* the messages table
  batches     \* history: whether the majority failed, per batch of the turn

prompt == <<messages, start>>
llm == <<model, fallback>>
asked == <<asking, second, attempt>>
sse == <<reader, events, partial, done>>
client == <<stream, unread>>
batch == <<ended, errors, batches>>
vars == <<turn, pc, prompt, round, llm, asked, client, sse, answer, batch, reply, store>>

-----------------------------------------------------------------------------
(* Messages.                                                                *)

System == [role |-> "system", turn |-> 0, calls |-> <<>>]
User(t) == [role |-> "user", turn |-> t, calls |-> <<>>]
Assistant(t) == [role |-> "assistant", turn |-> t, calls |-> <<>>]

\* The ids of the calls an answer makes in the current round.
CallIds == [i \in DOMAIN answer.calls |-> <<turn, round, i>>]
WithCalls == [role |-> "assistant", turn |-> turn, calls |-> CallIds]
ToolResult(i) == [role |-> "tool", turn |-> turn, calls |-> <<CallIds[i]>>]

Last(seq, n) == SubSeq(seq, IF Len(seq) > n THEN Len(seq) - n + 1 ELSE 1, Len(seq))

\* The estimated tokens of messages: one pair for each token of each message.
Tokens(seq) == Cardinality(UNION {{i} \X (1 .. CostOf[seq[i].role]) : i \in DOMAIN seq})

\* get_history: the latest messages of the session, oldest first.
History == Last(store, HistoryLimit)

\* Mutation: the message itself is not counted.
TrimLoose(history, message) ==
  LET fits == {k \in 0..Len(history) : Tokens(Last(history, k)) + CostOf["system"] <= Budget}
  IN  IF Budget = 0 THEN history ELSE Last(history, IF fits = {} THEN 0 ELSE Max(fits))

\* trim_messages_to_budget: what is left of the history.
Trim(history, message) ==
  LET used == CostOf["system"] + Tokens(<<message>>)
      room == IF Budget > used THEN Budget - used ELSE 0
      fits == {0} \cup {k \in 1..Len(history) : Tokens(Last(history, k)) <= room}
  IN  IF Budget = 0 \/ used + Tokens(history) <= Budget THEN history
      ELSE IF room = 0 THEN <<>>
      ELSE Last(history, Max(fits))

-----------------------------------------------------------------------------
NoAnswer == [text |-> FALSE, calls |-> <<>>]

Init ==
  /\ turn = 0 /\ pc = "idle"
  /\ messages = <<>> /\ start = 0 /\ round = 0
  /\ model = Primary /\ fallback = Fallback
  /\ asking = NoModel /\ second = FALSE /\ attempt = 0
  /\ stream = "none" /\ unread = 0
  /\ reader = "none" /\ events = <<>> /\ partial = 0 /\ done = FALSE
  /\ answer = NoAnswer
  /\ ended = <<>> /\ errors = 0 /\ batches = <<>>
  /\ reply = "none" /\ store = <<>>

\* Mutation: persist_start is taken before the history is trimmed.
BeginEarlyStart ==
  /\ pc = "idle" /\ turn < MaxTurns
  /\ turn' = turn + 1
  /\ LET kept == <<System>> \o Trim(History, User(turn'))
     IN  /\ messages' = Append(kept, User(turn'))
         /\ start' = Min({Len(History) + 1, Len(kept) + 1})
  /\ stream' \in {"none", "open"}
  /\ pc' = "round"
  /\ UNCHANGED <<round, llm, asked, unread, sse, answer, batch, reply, store>>

\* The gateway has loaded the history; the prompt is assembled and trimmed.
\* The local variables of do_handle have their first values (Init, Save).
Begin ==
  /\ pc = "idle" /\ turn < MaxTurns
  /\ turn' = turn + 1
  /\ LET kept == <<System>> \o Trim(History, User(turn'))
     IN  messages' = Append(kept, User(turn')) /\ start' = Len(kept)
  /\ stream' \in {"none", "open"}
  /\ pc' = "round"
  /\ UNCHANGED <<round, llm, asked, unread, sse, answer, batch, reply, store>>

\* Self::finish: messages[persist_start..] goes to the gateway with the reply.
Finish(kind, extra) ==
  /\ pc' = "finished"
  /\ reply' = kind
  /\ messages' = messages \o extra
  /\ UNCHANGED start

\* do_handle returns an error: a reply, and nothing to persist.
Fail == pc' = "finished" /\ reply' = "failed" /\ UNCHANGED prompt

GoTo(place) == pc' = place /\ UNCHANGED <<prompt, reply>>

Ask(m, isFallback) == asking' = m /\ second' = isFallback /\ attempt' = 0

OutOfRounds == round = MaxRounds /\ Finish("exceeded", <<Assistant(turn)>>)

\* The head of the loop: out of rounds, a client that left, or the next request.
StartRound ==
  /\ pc = "round"
  /\ \/ OutOfRounds /\ UNCHANGED asked
     \/ /\ round < MaxRounds /\ stream = "closed"
        /\ Finish("nothing", <<>>)
        /\ UNCHANGED asked
     \/ /\ round < MaxRounds /\ stream # "closed"
        /\ GoTo("asking")
        /\ Ask(model, FALSE)
  /\ UNCHANGED <<turn, round, llm, client, sse, answer, batch, store>>

-----------------------------------------------------------------------------
(* The LLM clients.                                                         *)

\* chat() returns an answer.
ChatAnswers ==
  /\ pc = "asking" /\ stream = "none"
  /\ \E text \in BOOLEAN, calls \in CallLists :
       answer' = [text |-> text, calls |-> calls]
  /\ GoTo("answered")
  /\ Ask(NoModel, FALSE)
  /\ UNCHANGED <<turn, round, llm, client, sse, batch, store>>

\* chat_stream() returns a receiver; a task reads the response into it.
StreamStarts ==
  /\ pc = "asking" /\ stream # "none"
  /\ GoTo("streaming")
  /\ reader' = "reading"
  /\ Ask(NoModel, FALSE)
  /\ UNCHANGED <<turn, round, llm, client, events, partial, done, answer, batch, store>>

\* Only chat() is repeated.
Exhausted == stream # "none" \/ attempt = Retries[asking]

\* The request fails: try again, then try the fallback, then give up.
RequestFails ==
  /\ pc = "asking"
  /\ \/ /\ ~Exhausted
        /\ GoTo("asking")
        /\ attempt' = attempt + 1 /\ UNCHANGED <<asking, second>>
     \/ /\ Exhausted /\ ~second /\ fallback # NoModel
        /\ GoTo("asking")
        /\ Ask(fallback, TRUE)
     \/ /\ Exhausted /\ (second \/ fallback = NoModel)
        /\ Fail
        /\ Ask(NoModel, FALSE)
  /\ UNCHANGED <<turn, round, llm, client, sse, answer, batch, store>>

Delta == [kind |-> "delta", calls |-> <<>>]
Done(calls) == [kind |-> "done", calls |-> calls]

\* The reader sends a text delta, when the channel has room.
ReadDelta ==
  /\ reader = "reading" /\ Len(events) < EventCapacity
  /\ partial + Len(events) < MaxPieces
  /\ events' = Append(events, Delta)
  /\ UNCHANGED <<turn, pc, prompt, round, llm, asked, client, reader, partial, done,
                 answer, batch, reply, store>>

\* The response ends, is cut off or is too long: Done carries what there is.
\* (An LlmClient that is not one of the two SSE clients may send no Done.)
ReadEnd ==
  /\ reader = "reading" /\ Len(events) < EventCapacity
  /\ reader' = "ended"
  /\ \/ \E calls \in CallLists : events' = Append(events, Done(calls))
     \/ UNCHANGED events
  /\ UNCHANGED <<turn, pc, prompt, round, llm, asked, client, partial, done, answer,
                 batch, reply, store>>

-----------------------------------------------------------------------------
(* Receiving a stream.                                                      *)

\* The receiver of the events is dropped: whatever the reader still sends is lost.
DropEvents == reader' = "none" /\ events' = <<>> /\ partial' = 0 /\ done' = FALSE

\* rx.recv() yields an event; it is polled before the client is looked at.
ReceiveEvent ==
  /\ pc = "streaming" /\ events # <<>>
  /\ events' = Tail(events)
  /\ IF Head(events).kind = "delta"
       THEN /\ partial' = partial + 1
            /\ GoTo("sending")
            /\ UNCHANGED <<done, answer>>
       ELSE /\ done' = TRUE
            /\ answer' = [text |-> partial > 0, calls |-> Head(events).calls]
            /\ GoTo("streaming")
            /\ UNCHANGED partial
  /\ UNCHANGED <<turn, round, llm, asked, client, reader, batch, store>>

\* tx.send(text).await succeeds, once the client's channel has room.
SendDelta ==
  /\ pc = "sending" /\ stream = "open" /\ unread < DeltaCapacity
  /\ unread' = unread + 1
  /\ GoTo("streaming")
  /\ UNCHANGED <<turn, round, llm, asked, stream, sse, answer, batch, store>>

\* Mutation: the client is noticed only when there is a delta to send.
ClientGoneUnseen ==
  /\ pc = "sending" /\ stream = "closed"
  /\ answer' = [text |-> TRUE, calls |-> <<>>] /\ GoTo("answered")
  /\ DropEvents
  /\ UNCHANGED <<turn, round, llm, asked, client, batch, store>>

\* The client has left: its channel refuses a delta, or tx.closed() fires first.
ClientGone ==
  /\ stream = "closed"
  /\ pc = "sending" \/ (pc = "streaming" /\ events = <<>> /\ reader = "reading")
  /\ IF partial = 0
       THEN Finish("nothing", <<>>) /\ answer' = NoAnswer
       ELSE GoTo("answered") /\ answer' = [text |-> TRUE, calls |-> <<>>]
  /\ DropEvents
  /\ UNCHANGED <<turn, round, llm, asked, client, batch, store>>

\* rx.recv() yields None.
StreamOver ==
  /\ pc = "streaming" /\ events = <<>> /\ reader = "ended"
  /\ IF done THEN GoTo("answered") /\ UNCHANGED answer
     ELSE IF partial > 0 THEN GoTo("answered") /\ answer' = [text |-> TRUE, calls |-> <<>>]
     ELSE Fail /\ UNCHANGED answer
  /\ DropEvents
  /\ UNCHANGED <<turn, round, llm, asked, client, batch, store>>

ClientReads ==
  /\ unread > 0 /\ unread' = unread - 1
  /\ UNCHANGED <<turn, pc, prompt, round, llm, asked, stream, sse, answer, batch, reply,
                 store>>

\* The HTTP response is dropped.
ClientLeaves ==
  /\ stream = "open" /\ pc # "finished"
  /\ stream' = "closed" /\ unread' = 0
  /\ UNCHANGED <<turn, pc, prompt, round, llm, asked, sse, answer, batch, reply, store>>

-----------------------------------------------------------------------------
(* The answer and the tools.                                                *)

\* Mutation: the calls are recorded before the client is looked at.
UseAnswerEager ==
  /\ pc = "answered"
  /\ \/ /\ stream = "closed"
        /\ Finish("partial", <<IF answer.calls = <<>> THEN Assistant(turn) ELSE WithCalls>>)
        /\ answer' = NoAnswer /\ UNCHANGED ended
     \/ /\ stream # "closed" /\ answer.calls # <<>>
        /\ pc' = "tools"
        /\ messages' = Append(messages, WithCalls)
        /\ ended' = [i \in DOMAIN answer.calls |-> "running"]
        /\ UNCHANGED <<start, reply, answer>>
     \/ /\ stream # "closed" /\ answer.calls = <<>>
        /\ Finish("text", <<Assistant(turn)>>)
        /\ answer' = NoAnswer /\ UNCHANGED ended
  /\ UNCHANGED <<turn, round, llm, asked, client, sse, errors, batches, store>>

\* A client that left gets no tools run; else tools, text or an empty answer.
UseAnswer ==
  /\ pc = "answered"
  /\ \/ /\ stream = "closed"
        /\ Finish("partial", IF answer.text THEN <<Assistant(turn)>> ELSE <<>>)
        /\ answer' = NoAnswer /\ UNCHANGED ended
     \/ /\ stream # "closed" /\ answer.calls # <<>>
        /\ pc' = "tools"
        /\ messages' = Append(messages, WithCalls)
        /\ ended' = [i \in DOMAIN answer.calls |-> "running"]
        /\ UNCHANGED <<start, reply, answer>>
     \/ /\ stream # "closed" /\ answer.calls = <<>> /\ answer.text
        /\ Finish("text", <<Assistant(turn)>>)
        /\ answer' = NoAnswer /\ UNCHANGED ended
     \/ /\ stream # "closed" /\ answer.calls = <<>> /\ ~answer.text
        /\ Finish("empty", <<>>)
        /\ UNCHANGED <<answer, ended>>
  /\ UNCHANGED <<turn, round, llm, asked, client, sse, errors, batches, store>>

\* FuturesOrdered yields results in the order of the calls: a slow one holds back
\* the start of those beyond the limit.
Yielded == Max({k \in 0..Len(ended) : \A i \in 1..k : ended[i] # "running"})
InFlight == {i \in DOMAIN ended : i <= Yielded + MaxConcurrent /\ ended[i] = "running"}

\* A tool returns an output, an output with a non-zero exit code, or an error; a
\* successful switch_model names a profile.
Outcomes(tool) == IF tool = "switch" THEN Models \cup {"error"} ELSE {"ok", "exit", "error"}

ToolEnds(i) ==
  /\ pc = "tools" /\ i \in InFlight
  /\ \E outcome \in Outcomes(answer.calls[i]) : ended' = [ended EXCEPT ![i] = outcome]
  /\ UNCHANGED <<turn, pc, prompt, round, llm, asked, client, sse, answer, errors,
                 batches, reply, store>>

\* failed_count * 2 > results.len()
MajorityFailed == 2 * Cardinality({i \in DOMAIN ended : ended[i] \in {"exit", "error"}}) > Len(ended)

ResultsOfBatch == [i \in DOMAIN ended |-> ToolResult(i)]

Switches == {i \in DOMAIN ended : ended[i] \in Models}

\* Mutation: the failures of earlier batches are never forgotten.
ErrorsForever == IF MajorityFailed THEN errors + 1 ELSE errors

ErrorsNow == IF MajorityFailed THEN errors + 1 ELSE 0

\* Mutation: the fallback of the primary model stays.
SwitchKeepingFallback ==
  \E built \in SUBSET Switches :
    IF built = {} THEN UNCHANGED llm
    ELSE model' = ended[Max(built)] /\ UNCHANGED fallback

\* The new client of each successful switch_model, in order; one may not be built.
SwitchModel ==
  \E built \in SUBSET Switches :
    IF built = {} THEN UNCHANGED llm
    ELSE /\ model' = ended[Max(built)]
         /\ fallback' = NoModel

\* All results are there: they are appended, errors counted, the model switched.
EndBatch ==
  /\ pc = "tools" /\ InFlight = {}
  /\ errors' = ErrorsNow
  /\ IF MajorityFailed /\ errors' >= MaxErrors
       THEN /\ Finish("gave_up", ResultsOfBatch \o <<Assistant(turn)>>)
            /\ UNCHANGED <<round, llm>>
       ELSE /\ pc' = "round" /\ round' = round + 1
            /\ messages' = messages \o ResultsOfBatch
            /\ SwitchModel
            /\ UNCHANGED <<start, reply>>
  /\ batches' = Append(batches, MajorityFailed)
  /\ answer' = NoAnswer /\ ended' = <<>>
  /\ UNCHANGED <<turn, asked, client, sse, store>>

\* What the agent gives the gateway to persist.
Slice == IF reply = "failed" THEN <<>> ELSE SubSeq(messages, start + 1, Len(messages))

\* The gateway saves the turn, in one transaction, or fails to.
Save ==
  /\ pc = "finished"
  /\ pc' = "idle"
  /\ store' \in {store, store \o Slice}
  /\ messages' = <<>> /\ start' = 0 /\ round' = 0 /\ reply' = "none"
  /\ errors' = 0 /\ batches' = <<>> /\ ended' = <<>> /\ answer' = NoAnswer
  /\ stream' = "none" /\ unread' = 0
  /\ model' = Primary /\ fallback' = Fallback
  /\ UNCHANGED <<turn, asked, sse>>

Over == pc = "idle" /\ turn = MaxTurns /\ UNCHANGED vars

AgentStep ==
  \/ Begin \/ StartRound \/ ReceiveEvent \/ SendDelta \/ ClientGone \/ StreamOver
  \/ UseAnswer \/ EndBatch \/ Save

LlmStep == ChatAnswers \/ StreamStarts \/ RequestFails
ReaderStep == ReadDelta \/ ReadEnd
ClientStep == ClientReads \/ ClientLeaves

Next ==
  \/ AgentStep \/ LlmStep \/ ReaderStep \/ ClientStep
  \/ \E i \in DOMAIN ended : ToolEnds(i)
  \/ Over

Spec == Init /\ [][Next]_vars

\* The runtime polls the agent; a request is answered or fails (120 s timeout);
\* tools end.  Nothing makes an open stream send or a client read.
FairSpec ==
  /\ Spec
  /\ WF_vars(AgentStep)
  /\ WF_vars(LlmStep)
  /\ WF_vars(\E i \in DOMAIN ended : ToolEnds(i))

-----------------------------------------------------------------------------
Ids == (1..MaxTurns) \X (0..MaxRounds) \X Nat
Message == [role : Roles, turn : 0..MaxTurns, calls : Seq(Ids)]

TypeOK ==
  /\ turn \in 0..MaxTurns
  /\ pc \in {"idle", "round", "asking", "streaming", "sending", "answered", "tools",
             "finished"}
  /\ messages \in Seq(Message) /\ start \in 0..Len(messages)
  /\ round \in 0..MaxRounds
  /\ model \in Models
  /\ fallback \in Models \cup {NoModel} /\ asking \in Models \cup {NoModel}
  /\ attempt \in Nat /\ (asking # NoModel => attempt <= Retries[asking])
  /\ stream \in {"none", "open", "closed"} /\ unread \in 0..DeltaCapacity
  /\ reader \in {"none", "reading", "ended"} /\ Len(events) <= EventCapacity
  /\ partial \in 0..MaxPieces /\ done \in BOOLEAN
  /\ answer \in [text : BOOLEAN, calls : CallLists]
  /\ DOMAIN ended \in {{}, DOMAIN answer.calls} /\ errors \in 0..MaxRounds
  /\ store \in Seq(Message)

\* Each batch of calls is followed by its results, all of them, in order.
Paired(seq) ==
  \A i \in DOMAIN seq :
    LET n == Len(seq[i].calls)
    IN  seq[i].role = "assistant" =>
          /\ i + n <= Len(seq)
          /\ \A k \in 1..n : seq[i + k].role = "tool" /\ seq[i + k].calls = <<seq[i].calls[k]>>

Results(seq) == {i \in DOMAIN seq : seq[i].role = "tool"}

\* A result whose call is not in the sequence.
Orphans(seq) ==
  {i \in Results(seq) : \A j \in 1..i-1 :
     seq[j].role # "assistant" \/ \A k \in DOMAIN seq[j].calls : <<seq[j].calls[k]>> # seq[i].calls}

(* Whatever way a turn ends (a client that leaves in any phase, too many    *)
(* errors or rounds, a failed request), every tool call that is in the      *)
(* history is followed by its results (agent/mod.rs, lines 306-687).        *)
StoredPaired == Paired(store) /\ Orphans(store) = {}

(* The history limit and the token budget cut the history at any message:   *)
(* what an LLM is sent pairs calls and results, but for results at the head *)
(* of the history whose calls were cut off (lines 214-289).                 *)
PromptPaired ==
  pc = "asking" =>
    /\ Paired(messages)
    /\ \A i \in Orphans(messages) : \A j \in 2..i : messages[j].role = "tool"

(* Both, with the types: no call is ever stored or sent apart from its      *)
(* results, and no request is tried more often than its client may.         *)
AgentInv == TypeOK /\ StoredPaired /\ PromptPaired

(* The trimmed prompt fits the budget or holds no history, and one more     *)
(* message of the history would not fit (token_budget.rs, lines 16-89).     *)
PromptFits ==
  pc = "round" /\ round = 0 /\ Budget > 0 =>
    LET kept == start - 1
    IN  /\ Tokens(messages) <= Budget \/ kept = 0
        /\ kept < Len(History) =>
             Tokens(messages) + CostOf[History[Len(History) - kept].role] > Budget

(* What a turn persists is the turn: its user message first and only once,  *)
(* no system prompt and no earlier turn, and the results of all its         *)
(* batches (persist_start, lines 291-293, with every way out of the loop).  *)
SliceIsTurn ==
  pc = "finished" /\ reply # "failed" =>
    /\ Slice # <<>> /\ Slice[1] = User(turn)
    /\ \A i \in 2..Len(Slice) : Slice[i].role \in {"assistant", "tool"}
    /\ \A i \in DOMAIN Slice : Slice[i].turn = turn
    /\ Cardinality({i \in DOMAIN Slice : Slice[i].role = "assistant" /\ Slice[i].calls # <<>>})
         = Len(batches)

AllFailed(n) == Len(batches) >= n /\ \A i \in Len(batches)-n+1 .. Len(batches) : batches[i]

(* The loop gives up exactly when the last MaxErrors batches all failed by  *)
(* majority (one, if it is zero): no model is asked after that, and it does *)
(* not give up on failures that a better batch interrupted (568-596).       *)
GivesUpInTime ==
  LET limit == IF MaxErrors = 0 THEN 1 ELSE MaxErrors
  IN  /\ pc # "finished" => ~AllFailed(limit)
      /\ reply = "gave_up" => AllFailed(limit)

(* The fallback stands in for the primary model only: once the LLM chose a  *)
(* model, no other is asked in that turn (lines 323-333, 598-640).          *)
FallbackForPrimary ==
  asking # NoModel =>
    IF second THEN model = Primary /\ asking = Fallback ELSE asking = model

(* A client that leaves frees the session, whatever the LLM's stream does:  *)
(* the turn ends although the stream never sends anything more, or the      *)
(* client had stopped reading (lines 337-398).                              *)
GoneClientFreesSession ==
  pc # "idle" /\ stream # "open" ~> pc = "idle"

-----------------------------------------------------------------------------
(* What docs say of the agent and the code does not do.                     *)

(* "tool_call + tool_result are stored too; after loading, the LLM sees the *)
(* full reasoning chain" (the design document, line 556).                   *)
FullChain == pc = "asking" => Orphans(messages) = {}
=============================================================================
