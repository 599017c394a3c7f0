----------------------------- MODULE FeishuSocket -----------------------------
(***************************************************************************)
(* How messages come in from Feishu (channel/feishu/ws.rs): a WebSocket    *)
(* that is reopened for ever, pings and the heartbeat timeout, frames that *)
(* are acknowledged and reassembled, the deduplication that survives       *)
(* reconnections, and tx.send into the gateway's queue (module Gateway,    *)
(* which deduplicates once more).                                          *)
(*                                                                         *)
(* The server is external.  It may send any frame at any time: it resends  *)
(* what it believes lost, on any connection and split in another way, and  *)
(* the headers of a part need not say that it is one.                      *)
(*                                                                         *)
(* Time is the age of things in ticks, counted up to the age beyond which  *)
(* the code tells no difference.                                           *)
(***************************************************************************)
EXTENDS Naturals, FiniteSets

CONSTANTS
  Events,         \* the messages, by their Feishu ids
  Splits,         \* [Events -> SUBSET Nat], in how many frames one may come
  Refused,        \* those of bots, of users not in allow_from, or malformed
  Unreadable,     \* those that into_inbound cannot convert
  SeenWindow,     \* the 30 minutes of seen_ids
  SeenCap,        \* its emergency cap, 10 000
  SeenKeep,       \* what the cap leaves, 5 000
  FragmentTTL,    \* the 5 minutes of frag_cache
  FragmentCap,    \* its hard cap, 100
  Heartbeat,      \* WS_HEARTBEAT_TIMEOUT
  MaxShift,       \* the attempts after which the back-off grows no more, 6
  MaxDelay,       \* MAX_RECONNECT_DELAY
  MaxFrames,      \* bound of the model: the frames read
  NoEvent            \* no message, no entry

ASSUME SocketAssumption ==
  /\ Splits \in [Events -> SUBSET (Nat \ {0})]
  /\ Refused \subseteq Events /\ Unreadable \subseteq Events
  /\ SeenWindow \in Nat \ {0} /\ SeenCap \in Nat /\ SeenKeep \in 0..SeenCap
  /\ FragmentTTL \in Nat /\ FragmentCap \in Nat /\ Heartbeat \in Nat
  /\ MaxShift \in Nat /\ MaxDelay \in Nat
  /\ MaxFrames \in Nat /\ NoEvent \notin Events /\ NoEvent \notin Nat

VARIABLES
  conn,      \* "down", "waiting" (back-off), "up", "sending" (in tx.send)
  attempt,   \* consecutive errors, up to MaxShift
  wait,      \* what is left of the back-off
  dead,      \* whether the peer is gone and the socket does not know
  silent,    \* the age of last_recv
  frags,     \* frag_cache: per message, the split, the parts received, the age
  seen,      \* seen_ids: the age of a message's entry, or NoEvent
  holding,   \* the message in tx.send, or NoEvent
  gone,      \* whether the gateway's receiver is dropped
  frames,    \* how many frames were read
  acked,     \* history: the frames acknowledged on this connection
  passed     \* history: the age of a message's last passage through seen_ids

link == <<conn, attempt, wait, dead, silent>>
socketHistory == <<acked, passed>>
socketVars == <<link, frags, seen, holding, frames, gone, socketHistory>>

\* The frames of message e in n parts.  The headers of a frame that is `alone`
\* have its payload taken by itself: sum is 1, missing or no number, message_id
\* is empty, or seq is not below sum.
FramesOf(e, n) ==
  [event : {e}, sum : {n}, part : 1..n, alone : IF n = 1 THEN {TRUE} ELSE BOOLEAN]

\* The frames in which a message may come: every part of every split.
Frames == UNION {UNION {FramesOf(e, n) : n \in Splits[e]} : e \in Events}

SocketInit ==
  /\ conn = "down" /\ attempt = 0 /\ wait = 0 /\ dead = FALSE /\ silent = 0
  /\ frags = [e \in Events |-> NoEvent]
  /\ seen = [e \in Events |-> NoEvent]
  /\ holding = NoEvent /\ frames = 0
  /\ gone = FALSE
  /\ acked = {}
  /\ passed = [e \in Events |-> NoEvent]

-----------------------------------------------------------------------------
(* The connection.                                                          *)

Least(a, b) == IF a < b THEN a ELSE b

ReconnectDelay(n) == Least(2^Least(n, MaxShift), MaxDelay)

\* Mutation: seen_ids is a local variable of listen_ws.
ConnectForgetting ==
  /\ conn = "down"
  /\ conn' = "up" /\ dead' = FALSE /\ silent' = 0
  /\ frags' = [e \in Events |-> NoEvent]
  /\ seen' = [e \in Events |-> NoEvent]
  /\ acked' = {}
  /\ UNCHANGED <<attempt, wait, holding, frames, gone, passed>>

\* listen_ws begins: endpoint, connection and first ping succeed.
Connect ==
  /\ conn = "down"
  /\ conn' = "up" /\ dead' = FALSE /\ silent' = 0
  /\ frags' = [e \in Events |-> NoEvent]
  /\ acked' = {}
  /\ UNCHANGED <<attempt, wait, seen, holding, frames, gone, passed>>

\* listen_ws returns an error.
ConnectFails ==
  /\ conn = "down"
  /\ attempt' = Least(attempt + 1, MaxShift)
  /\ wait' = ReconnectDelay(attempt')
  /\ conn' = "waiting"
  /\ UNCHANGED <<dead, silent, frags, seen, holding, frames, gone, socketHistory>>

Wake ==
  /\ conn = "waiting" /\ wait = 0
  /\ conn' = "down"
  /\ UNCHANGED <<attempt, wait, dead, silent, frags, seen, holding, frames, gone, socketHistory>>

\* listen_ws returns Ok: the next connection follows at once.
Leave ==
  /\ conn' = "down" /\ attempt' = 0 /\ holding' = NoEvent
  /\ UNCHANGED <<wait, dead, silent, frags, seen, frames, gone, socketHistory>>

\* The server closes, the stream ends, a read or a ping fails.
ConnectionLost == conn = "up" /\ Leave

HeartbeatTimeout == conn = "up" /\ silent > Heartbeat /\ Leave

\* The gateway has returned: tx.send fails.
SendFails == conn = "sending" /\ gone /\ Leave

\* The peer vanishes without a word.
PeerVanishes ==
  /\ conn \in {"up", "sending"} /\ ~dead
  /\ dead' = TRUE
  /\ UNCHANGED <<conn, attempt, wait, silent, frags, seen, holding, frames, gone, socketHistory>>

Fragmented == {e \in Events : frags[e] # NoEvent}

\* Mutation: our own ping counts as a sign of life.
PingRefreshing ==
  /\ conn = "up"
  /\ silent' = 0
  /\ UNCHANGED <<conn, attempt, wait, dead, frags, seen, holding, frames, gone, socketHistory>>

\* The periodic ping, with its collection of fragments.
Ping ==
  /\ conn = "up"
  /\ LET young == {e \in Fragmented : frags[e].age < FragmentTTL}
     IN  frags' = [e \in Events |->
                     IF e \in young /\ Cardinality(young) <= FragmentCap THEN frags[e] ELSE NoEvent]
  /\ UNCHANGED <<link, seen, holding, frames, gone, socketHistory>>

\* A pong, a ping of the server or an unknown frame: only a sign of life.
Hear ==
  /\ conn = "up" /\ ~dead
  /\ silent' = 0
  /\ UNCHANGED <<conn, attempt, wait, dead, frags, seen, holding, frames, gone, socketHistory>>

-----------------------------------------------------------------------------
(* A data frame.                                                            *)

NewEntry(f) == [sum |-> f.sum, parts |-> {}, age |-> 0]

\* Mutation: a change of the split keeps the parts received.
EntryMixing(f) ==
  IF frags[f.event] # NoEvent THEN [frags[f.event] EXCEPT !.sum = f.sum] ELSE NewEntry(f)

\* The cache entry of the frame's message; another split starts anew.
Entry(f) ==
  IF frags[f.event] # NoEvent /\ frags[f.event].sum = f.sum THEN frags[f.event] ELSE NewEntry(f)

Parts(f) == Entry(f).parts \cup {f.part}
Complete(f) == f.alone \/ Parts(f) = 1..f.sum

\* A part of a message that is taken by itself: a piece of the text of a JSON
\* object, which serde_json refuses as a LarkEvent.
Truncated(f) == f.alone /\ f.sum > 1

Reassemble(f) ==
  frags' = IF f.alone THEN frags
           ELSE [frags EXCEPT ![f.event] =
                   IF Complete(f) THEN NoEvent ELSE [Entry(f) EXCEPT !.parts = Parts(f)]]

Young == {e \in Events : seen[e] # NoEvent /\ seen[e] < SeenWindow}

\* What seen_ids keeps: nothing too old, and the newest if there are too many.
Kept ==
  IF Cardinality(Young) <= SeenCap THEN {Young}
  ELSE {K \in SUBSET Young : /\ Cardinality(K) = SeenKeep
                             /\ \A k \in K, e \in Young \ K : seen[k] <= seen[e]}

\* The dedup block for message e, keeping the entries K.
Dedup(e, K) ==
  /\ seen' = [x \in Events |-> IF x \in K THEN seen[x] ELSE IF x = e THEN 0 ELSE NoEvent]
  /\ passed' = IF e \in K THEN passed ELSE [passed EXCEPT ![e] = 0]

\* The handler of a data frame up to tx.send.
ReadFrame(f) ==
  /\ conn = "up" /\ ~dead /\ frames < MaxFrames
  /\ frames' = frames + 1
  /\ silent' = 0
  /\ acked' = acked \cup {f}
  /\ Reassemble(f)
  /\ IF Complete(f) /\ ~Truncated(f) /\ f.event \notin Refused
       THEN \E K \in Kept :
              /\ Dedup(f.event, K)
              /\ IF f.event \in K \cup Unreadable THEN UNCHANGED <<conn, holding>>
                 ELSE conn' = "sending" /\ holding' = f.event
       ELSE UNCHANGED <<seen, passed, conn, holding>>
  /\ UNCHANGED <<attempt, wait, dead, gone>>

\* tx.send(inbound).await, once the gateway's queue has room.
Send ==
  /\ conn = "sending" /\ ~gone
  /\ conn' = "up" /\ holding' = NoEvent
  /\ UNCHANGED <<attempt, wait, dead, silent, frags, seen, frames, gone, socketHistory>>

GatewayReturns ==
  /\ ~gone /\ gone' = TRUE
  /\ UNCHANGED <<link, frags, seen, holding, frames, socketHistory>>

-----------------------------------------------------------------------------
Older(age, most) == IF age = NoEvent THEN NoEvent ELSE Least(age + 1, most)

SocketTick ==
  /\ wait' = IF wait = 0 THEN 0 ELSE wait - 1
  /\ silent' = Least(silent + 1, Heartbeat + 1)
  /\ frags' = [e \in Events |-> IF frags[e] = NoEvent THEN NoEvent
                                ELSE [frags[e] EXCEPT !.age = Older(@, FragmentTTL)]]
  /\ seen' = [e \in Events |-> Older(seen[e], SeenWindow)]
  /\ passed' = [e \in Events |-> Older(passed[e], SeenWindow)]
  /\ UNCHANGED <<conn, attempt, dead, holding, frames, gone, acked>>

SocketNext ==
  \/ Connect \/ ConnectFails \/ Wake
  \/ ConnectionLost \/ HeartbeatTimeout \/ SendFails \/ PeerVanishes
  \/ Ping \/ Hear \/ Send
  \/ \E f \in Frames : ReadFrame(f)
  \/ GatewayReturns
  \/ SocketTick

SocketSpec == SocketInit /\ [][SocketNext]_socketVars

(* The runtime's timers fire, the gateway takes messages or returns, and    *)
(* the server is not for ever unreachable.                                  *)
SocketFairness ==
  /\ WF_socketVars(SocketTick) /\ WF_socketVars(Wake)
  /\ WF_socketVars(HeartbeatTimeout) /\ WF_socketVars(Ping)
  /\ WF_socketVars(Send) /\ WF_socketVars(SendFails)
  /\ SF_socketVars(Connect)

SocketFairSpec == SocketSpec /\ SocketFairness

-----------------------------------------------------------------------------
FragEntry == [sum : Nat, parts : SUBSET Nat, age : 0..FragmentTTL]

SocketTypeOK ==
  /\ conn \in {"down", "waiting", "up", "sending"}
  /\ attempt \in 0..MaxShift /\ wait \in 0..MaxDelay
  /\ dead \in BOOLEAN /\ silent \in 0..Heartbeat+1
  /\ frags \in [Events -> FragEntry \cup {NoEvent}]
  /\ seen \in [Events -> 0..SeenWindow \cup {NoEvent}]
  /\ Cardinality({e \in Events : seen[e] # NoEvent}) <= SeenCap + 1
  /\ holding \in Events \cup {NoEvent} /\ (holding # NoEvent <=> conn = "sending")
  /\ frames \in 0..MaxFrames /\ acked \subseteq Frames

(* A redelivery passes the socket's deduplication only when it comes after  *)
(* the window, or after so many other messages that the emergency cap may   *)
(* have dropped its id; whether connections broke in between makes no       *)
(* difference (lines 45 and 262-280).                                       *)
SocketDedup ==
  [][\A e \in Events :
       holding = NoEvent /\ holding' = e /\ passed[e] # NoEvent /\ passed[e] < SeenWindow
         => Cardinality({x \in Events \ {e} : passed[x] # NoEvent /\ passed[x] <= passed[e]})
              >= SeenKeep]_socketVars

(* Only whole messages go to the gateway: it came in one frame, or all parts *)
(* of one split of it were received on this connection, said to be parts,    *)
(* however resent frames, other splits, parts with the wrong headers, other  *)
(* messages and collections come in between (lines 196-235).                 *)
HandsOverWhole ==
  holding # NoEvent =>
    \E n \in Splits[holding] : \A p \in 1..n :
      [event |-> holding, sum |-> n, part |-> p, alone |-> n = 1] \in acked

(* A peer that is gone without a word is noticed and the connection is      *)
(* replaced, full queue or not (lines 137-143).                             *)
HalfOpenNoticed == dead ~> ~dead

(* A message whose parts stop coming leaves nothing behind (127-134).       *)
NoFragmentLeak ==
  \A e \in Events : Splits[e] # {1} => (frags[e] # NoEvent ~> frags[e] = NoEvent)

(* Neither a dead peer nor half a message is kept for ever.                 *)
NothingStays == HalfOpenNoticed /\ NoFragmentLeak
=============================================================================
