------------------------------ MODULE HttpReplies ------------------------------
(***************************************************************************)
(* How the HTTP channel (channel/http.rs) matches the replies of the       *)
(* gateway to the requests that wait for them: the map `pending` from      *)
(* message id to the sender of a oneshot channel, the guard that removes   *)
(* an entry when its handler ends, send_message, the 300 s time limit, and *)
(* the cancellation of a handler at any of its awaits (axum drops the      *)
(* future when the client hangs up).                                       *)
(*                                                                         *)
(* A request is identified with its message id, a fresh uuid.  The guard's *)
(* removal is a task of its own, because Drop cannot wait for the lock.    *)
(* The gateway is reduced to what the channel sees of it: a bounded queue, *)
(* tasks that answer, and a shutdown that drops both.                      *)
(***************************************************************************)
EXTENDS Naturals, Sequences, FiniteSets

CONSTANTS
  Requests,       \* the requests, by message id
  KindOf,         \* "chat", "multipart" or "stream"
  FaultOf,        \* the status the checks of a request end in, or 0
  QueueCapacity,  \* of the gateway's queue
  HasGateway      \* set_gateway was called

ASSUME HttpAssumption ==
  /\ KindOf \in [Requests -> {"chat", "multipart", "stream"}]
  /\ FaultOf \in [Requests -> {0, 400, 401, 413, 429}]
  /\ QueueCapacity \in Nat \ {0}
  /\ HasGateway \in BOOLEAN

VARIABLES
  stage,     \* where a handler is: "new", "checked", "sending", "waiting", "ended"
  status,    \* the HTTP status it answered with; 0: none (yet, or hung up)
  pending,   \* the ids in the map
  held,      \* the ids whose sender send_message has taken out of the map
  slot,      \* the ids whose oneshot channel holds the reply
  cleanups,  \* the removal tasks spawned by dropped guards
  queue,     \* the gateway's queue
  open,      \* the gateway's receiver exists
  tasks,     \* the ids whose message task is at work
  lost       \* history: the ids whose reply nobody received

handlerVars == <<stage, status>>
mapVars == <<pending, held, slot, cleanups>>
gatewayVars == <<queue, open, tasks>>
httpVars == <<handlerVars, mapVars, gatewayVars, lost>>

HttpInit ==
  /\ stage = [r \in Requests |-> "new"]
  /\ status = [r \in Requests |-> 0]
  /\ pending = {} /\ held = {} /\ slot = {} /\ cleanups = {}
  /\ queue = <<>> /\ open = TRUE /\ tasks = {}
  /\ lost = {}

-----------------------------------------------------------------------------
\* Validation by the gateway: too many requests (the 400 for a message that is
\* too long is not told apart).
GatewayFault(r) == HasGateway /\ FaultOf[r] = 429

\* The bearer token, the body and the form; for JSON, then the gateway.
EarlyFault(r) ==
  \/ FaultOf[r] \in {400, 401, 413}
  \/ KindOf[r] = "chat" /\ GatewayFault(r)

\* The handler returns: the client gets a status.
EndRequest(r, code) ==
  /\ stage' = [stage EXCEPT ![r] = "ended"]
  /\ status' = [status EXCEPT ![r] = code]

\* PendingGuard::drop spawns the removal of the entry.
DropGuard(r) ==
  /\ cleanups' = cleanups \cup {r}
  /\ UNCHANGED <<pending, held, slot>>

GoTo(r, from, to) ==
  /\ stage[r] = from
  /\ stage' = [stage EXCEPT ![r] = to]
  /\ UNCHANGED status

\* The checks of handle_chat and handle_chat_multipart before the first lock.
Check(r) ==
  /\ KindOf[r] # "stream"
  /\ stage[r] = "new"
  /\ IF EarlyFault(r) THEN EndRequest(r, FaultOf[r])
     ELSE GoTo(r, "new", "checked")
  /\ UNCHANGED <<mapVars, gatewayVars, lost>>

\* The lock is granted: the sender is put into the map and the guard is made.
\* A multipart request is validated by the gateway only now; a refusal drops
\* the guard.
Register(r) ==
  /\ stage[r] = "checked"
  /\ pending' = pending \cup {r}
  /\ IF KindOf[r] = "multipart" /\ GatewayFault(r)
       THEN EndRequest(r, 429) /\ cleanups' = cleanups \cup {r}
       ELSE GoTo(r, "checked", "sending") /\ UNCHANGED cleanups
  /\ UNCHANGED <<held, slot, gatewayVars, lost>>

\* Mutation: on some path the message is sent before the sender is registered.
SendUnregistered(r) ==
  /\ open
  /\ Len(queue) < QueueCapacity
  /\ GoTo(r, "checked", "waiting")
  /\ queue' = Append(queue, r)
  /\ UNCHANGED <<open, tasks, mapVars, lost>>

\* tx.send(inbound) finds room.
Send(r) ==
  /\ open
  /\ Len(queue) < QueueCapacity
  /\ GoTo(r, "sending", "waiting")
  /\ queue' = Append(queue, r)
  /\ UNCHANGED <<open, tasks, mapVars, lost>>

\* tx.send(inbound) finds the receiver gone: 500, "gateway unavailable".
QueueGone(r) ==
  /\ stage[r] = "sending"
  /\ ~open
  /\ EndRequest(r, 500)
  /\ DropGuard(r)
  /\ UNCHANGED <<gatewayVars, lost>>

\* The oneshot channel yields the reply.
TakeReply(r) ==
  /\ stage[r] = "waiting"
  /\ r \in slot
  /\ EndRequest(r, 200)
  /\ slot' = slot \ {r}
  /\ cleanups' = cleanups \cup {r}
  /\ UNCHANGED <<pending, held, gatewayVars, lost>>

\* HTTP_REPLY_TIMEOUT_SECS have passed; a reply that is there wins.
ReplyTimesOut(r) ==
  /\ stage[r] = "waiting"
  /\ r \notin slot
  /\ EndRequest(r, 504)
  /\ DropGuard(r)
  /\ UNCHANGED <<gatewayVars, lost>>

\* Mutation: the guard is made only after the send, so a handler cancelled in
\* the send leaves its entry behind.
CancelUnguarded(r) ==
  /\ stage[r] \in {"checked", "sending", "waiting"}
  /\ EndRequest(r, 0)
  /\ slot' = slot \ {r}
  /\ lost' = IF r \in slot THEN lost \cup {r} ELSE lost
  /\ cleanups' = IF stage[r] = "waiting" THEN cleanups \cup {r} ELSE cleanups
  /\ UNCHANGED <<pending, held, gatewayVars>>

\* The client hangs up while the handler awaits the lock, the send or the
\* reply; the guard exists from the second await on.
Cancel(r) ==
  /\ stage[r] \in {"checked", "sending", "waiting"}
  /\ EndRequest(r, 0)
  /\ slot' = slot \ {r}
  /\ lost' = IF r \in slot THEN lost \cup {r} ELSE lost
  /\ cleanups' = IF stage[r] = "checked" THEN cleanups ELSE cleanups \cup {r}
  /\ UNCHANGED <<pending, held, gatewayVars>>

\* The task of a dropped guard gets the lock.
CleanUp(r) ==
  /\ r \in cleanups
  /\ cleanups' = cleanups \ {r}
  /\ pending' = pending \ {r}
  /\ UNCHANGED <<held, slot, handlerVars, gatewayVars, lost>>

\* handle_chat_stream: no entry in the map, the deltas are the gateway's.
Stream(r) ==
  /\ KindOf[r] = "stream"
  /\ stage[r] = "new"
  /\ EndRequest(r, IF FaultOf[r] \in {400, 401} THEN FaultOf[r]
            ELSE IF ~HasGateway THEN 501
            ELSE IF FaultOf[r] = 429 THEN 429 ELSE 200)
  /\ UNCHANGED <<mapVars, gatewayVars, lost>>

-----------------------------------------------------------------------------
(* The gateway, and the channel's send_message that its tasks call.         *)

TakeNext ==
  /\ queue # <<>>
  /\ tasks' = tasks \cup {Head(queue)}
  /\ queue' = Tail(queue)
  /\ UNCHANGED <<open, handlerVars, mapVars, lost>>

\* Ctrl+C: run() drops the receiver with everything that is in the queue.
Shutdown ==
  /\ open
  /\ open' = FALSE
  /\ queue' = <<>>
  /\ UNCHANGED <<tasks, handlerVars, mapVars, lost>>

\* The drain's time limit: a task is aborted before its reply.
Abort(r) ==
  /\ ~open
  /\ r \in tasks
  /\ tasks' = tasks \ {r}
  /\ UNCHANGED <<queue, open, handlerVars, mapVars, lost>>

\* send_message takes the sender out of the map, under its lock, or finds none.
FindSender(r) ==
  /\ r \in tasks
  /\ tasks' = tasks \ {r}
  /\ IF r \in pending
       THEN pending' = pending \ {r} /\ held' = held \cup {r} /\ UNCHANGED lost
       ELSE lost' = lost \cup {r} /\ UNCHANGED <<pending, held>>
  /\ UNCHANGED <<slot, cleanups, queue, open, handlerVars>>

\* `let _ = tx.send(msg)`: a receiver that is gone is ignored.
Deliver(r) ==
  /\ r \in held
  /\ held' = held \ {r}
  /\ IF stage[r] = "waiting"
       THEN slot' = slot \cup {r} /\ UNCHANGED lost
       ELSE lost' = lost \cup {r} /\ UNCHANGED slot
  /\ UNCHANGED <<pending, cleanups, gatewayVars, handlerVars>>

HandlerStep(r) ==
  Check(r) \/ Register(r) \/ Send(r) \/ QueueGone(r) \/ TakeReply(r)
    \/ ReplyTimesOut(r) \/ Stream(r)

ReplyStep(r) == FindSender(r) \/ Deliver(r)

AllEnded ==
  /\ \A r \in Requests : stage[r] = "ended"
  /\ cleanups = {} /\ held = {} /\ tasks = {} /\ queue = <<>>
  /\ UNCHANGED httpVars

HttpNext ==
  \/ \E r \in Requests :
       HandlerStep(r) \/ Cancel(r) \/ CleanUp(r) \/ ReplyStep(r) \/ Abort(r)
  \/ TakeNext \/ Shutdown
  \/ AllEnded

HttpSpec == HttpInit /\ [][HttpNext]_httpVars

\* The runtime polls every handler, message task and cleanup task; clients
\* need not hang up and nobody need stop the program.
HttpFairness ==
  /\ WF_httpVars(TakeNext)
  /\ \A r \in Requests :
       WF_httpVars(HandlerStep(r)) /\ WF_httpVars(ReplyStep(r)) /\ WF_httpVars(CleanUp(r))

HttpFairSpec == HttpSpec /\ HttpFairness

-----------------------------------------------------------------------------
HttpTypeOK ==
  /\ stage \in [Requests -> {"new", "checked", "sending", "waiting", "ended"}]
  /\ status \in [Requests -> {0, 200, 400, 401, 413, 429, 500, 501, 504}]
  /\ pending \subseteq Requests /\ held \subseteq Requests
  /\ slot \subseteq Requests /\ cleanups \subseteq Requests
  /\ queue \in Seq(Requests) /\ open \in BOOLEAN /\ tasks \subseteq Requests
  /\ lost \subseteq Requests

(* A handler that waits always has its sender in the map, in send_message's *)
(* hands, or used: whichever of reply, time-out, removal task and shutdown  *)
(* comes first, a waiting client is not told that the reply channel closed  *)
(* (lines 356-361), and the reply finds it.                                 *)
SenderAlive ==
  \A r \in Requests :
    stage[r] \in {"sending", "waiting"} => r \in pending \cup held \cup slot

(* A reply is thrown away only when its client is no longer there to read   *)
(* it (hung up, or timed out after 300 s): send_message never comes too     *)
(* early for the registration (lines 108-130, 322-343).                     *)
NoReplyLost == \A r \in lost : stage[r] = "ended" /\ status[r] \in {0, 504}

(* "RAII guard that removes the pending entry on drop, preventing leaks     *)
(* when the client disconnects or the handler future is cancelled" (lines   *)
(* 247-248): once a handler has ended, however it did, its entry leaves the *)
(* map for good.                                                            *)
NoPendingLeak ==
  <>[](\A r \in Requests : stage[r] = "ended" => r \notin pending)

\* Where a request's entries are, in the terms of its handler's stage.
Bookkeeping ==
  /\ \A r \in Requests : stage[r] \in {"new", "checked"} =>
       r \notin pending \cup held \cup slot \cup cleanups \cup tasks \cup lost
  /\ \A r \in slot : stage[r] = "waiting"
  /\ \A r \in pending : stage[r] = "ended" => r \in cleanups
  /\ \A r \in cleanups : stage[r] = "ended"

\* A message the gateway has, or whose sender send_message holds, is not yet
\* answered, and its handler waits for it or has given up.
Underway(r) ==
  /\ r \notin slot \cup lost
  /\ \/ stage[r] = "waiting"
     \/ stage[r] = "ended" /\ status[r] \in {0, 504}

\* A message is in at most one place of the gateway, and in none once its
\* reply has taken the sender.
OnePlace ==
  /\ \A i, j \in DOMAIN queue : queue[i] = queue[j] => i = j
  /\ \A i \in DOMAIN queue : queue[i] \notin tasks \cup held /\ Underway(queue[i])
  /\ \A r \in tasks : r \notin held /\ Underway(r)
  /\ \A r \in held : Underway(r)

\* The inductive invariant.
HttpInv == HttpTypeOK /\ SenderAlive /\ NoReplyLost /\ Bookkeeping /\ OnePlace
=============================================================================
