---------------------------- MODULE Conversation ----------------------------
(***************************************************************************)
(* What the gateway promises about the history of a session: the turns of  *)
(* a session happen one after another, each computed from the turns        *)
(* recorded before it (or, when the history could not be read, from none). *)
(***************************************************************************)
EXTENDS Naturals, Sequences

CONSTANTS
  Requests,      \* the messages that may become turns
  Sessions,      \* the session keys
  SessionOf,     \* the session of a message
  HistoryLimit,  \* how many of the latest turns a turn is computed from
  ReadFaults,    \* whether reading the history may fail
  Unread         \* what a turn saw then

VARIABLE log     \* per session, the turns: the request and the requests it saw

\* The requests of the latest turns of a session, at most HistoryLimit.
Seen(turns) ==
  LET skip == IF Len(turns) > HistoryLimit THEN Len(turns) - HistoryLimit ELSE 0
  IN  [i \in 1 .. Len(turns) - skip |-> turns[i + skip].req]

Init == log = [s \in Sessions |-> <<>>]

TakeTurn(r, context) ==
  log' = [log EXCEPT ![SessionOf[r]] = Append(@, [req |-> r, saw |-> context])]

Next ==
  \E r \in Requests :
    \/ TakeTurn(r, Seen(log[SessionOf[r]]))
    \/ ReadFaults /\ TakeTurn(r, Unread)

Spec == Init /\ [][Next]_log
=============================================================================
