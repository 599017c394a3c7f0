------------------------------- MODULE FeishuApi -------------------------------
(***************************************************************************)
(* How replies go out to Feishu (channel/feishu/api.rs): calls that run at *)
(* the same time share one cached access token, refreshed under a lock;    *)
(* a reply is split into cards that are sent one after the other, and a    *)
(* card whose token is refused is sent once more with a new token.         *)
(*                                                                         *)
(* The server is external: it issues tokens, may revoke those it issued,   *)
(* may fail, and its answer to a card it has posted may be lost.           *)
(***************************************************************************)
EXTENDS Naturals, Sequences, FiniteSets

CONSTANTS
  Calls,       \* the calls of reply_card, send_card and add_reaction
  ChunksOf,    \* [Calls -> Nat], the cards of each
  Reactions,   \* the calls that are add_reaction: one request, no retry
  MaxTokens,   \* bound of the model: the tokens ever issued
  None

ASSUME ApiAssumption ==
  /\ ChunksOf \in [Calls -> Nat \ {0}]
  /\ Reactions \subseteq Calls
  /\ MaxTokens \in Nat /\ None \notin Nat /\ None \notin Calls

Tokens == 1..MaxTokens

VARIABLES
  cached,    \* the token in the cache, None also once refresh_after has passed
  issued,    \* how many tokens the server has issued
  revoked,   \* those it accepts no more
  locked,    \* the call that holds refresh_lock, or None
  waiting,   \* the calls that wait for it, in order
  pc,        \* where a call is
  token,     \* the token a call has, or None
  attempt,   \* the attempt at the current card
  chunk,     \* the cards a call has sent
  outcome,   \* how a call ended
  posted,    \* history: the cards of a call that the server posted, in order
  refused    \* history: the token that was refused at the first attempt

server == <<issued, revoked>>
lock == <<locked, waiting>>
card == <<attempt, chunk, refused>>
vars == <<cached, server, lock, pc, token, card, outcome, posted>>

Init ==
  /\ cached = None
  /\ issued = 0 /\ revoked = {}
  /\ locked = None /\ waiting = <<>>
  /\ pc = [c \in Calls |-> "idle"] /\ token = [c \in Calls |-> None]
  /\ attempt = [c \in Calls |-> 0] /\ chunk = [c \in Calls |-> 0]
  /\ refused = [c \in Calls |-> None]
  /\ outcome = [c \in Calls |-> "none"] /\ posted = [c \in Calls |-> <<>>]

Goto(c, place) == pc' = [pc EXCEPT ![c] = place]

\* The call returns; its locals are gone.
End(c, how) ==
  /\ Goto(c, "over") /\ outcome' = [outcome EXCEPT ![c] = how]
  /\ token' = [token EXCEPT ![c] = None]
  /\ attempt' = [attempt EXCEPT ![c] = 0]
  /\ refused' = [refused EXCEPT ![c] = None]

-----------------------------------------------------------------------------
(* get_tenant_access_token.                                                 *)

Usable == cached # None

\* The first look at the cache, of a call that arrives or of a later card.
ReadCache(c) ==
  /\ pc[c] \in {"idle", "get"}
  /\ IF Usable
       THEN Goto(c, "send") /\ token' = [token EXCEPT ![c] = cached] /\ UNCHANGED lock
       ELSE /\ Goto(c, "lock") /\ UNCHANGED token
            /\ waiting' = Append(waiting, c) /\ UNCHANGED locked
  /\ UNCHANGED <<cached, server, card, outcome, posted>>

Lock(c) ==
  /\ pc[c] = "lock" /\ locked = None
  /\ waiting # <<>> /\ Head(waiting) = c
  /\ locked' = c /\ waiting' = Tail(waiting)
  /\ Goto(c, "recheck")
  /\ UNCHANGED <<cached, server, token, card, outcome, posted>>

\* The second look, under the lock.
Recheck(c) ==
  /\ pc[c] = "recheck"
  /\ IF Usable
       THEN Goto(c, "send") /\ token' = [token EXCEPT ![c] = cached] /\ locked' = None
       ELSE Goto(c, "refresh") /\ UNCHANGED <<token, locked>>
  /\ UNCHANGED <<cached, server, waiting, card, outcome, posted>>

\* The server issues a token; its answer is on the way.
Issue(c) ==
  /\ pc[c] = "refresh" /\ issued < MaxTokens
  /\ issued' = issued + 1
  /\ token' = [token EXCEPT ![c] = issued']
  /\ Goto(c, "store")
  /\ UNCHANGED <<cached, revoked, lock, card, outcome, posted>>

\* The token is put into the cache and the lock given back.
Store(c) ==
  /\ pc[c] = "store"
  /\ cached' = token[c]
  /\ locked' = None
  /\ Goto(c, "send")
  /\ UNCHANGED <<server, waiting, token, card, outcome, posted>>

\* Mutation: a failed refresh is tried again.
RefreshFailsRetrying(c) ==
  /\ pc[c] \in {"refresh", "store"}
  /\ Goto(c, "refresh")
  /\ UNCHANGED <<cached, server, lock, token, card, outcome, posted>>

\* The request, or the answer, fails: so does the call.
RefreshFails(c) ==
  /\ pc[c] \in {"refresh", "store"}
  /\ locked' = None
  /\ End(c, "failed")
  /\ UNCHANGED <<cached, server, waiting, chunk, posted>>

-----------------------------------------------------------------------------
(* do_send_card and add_reaction.                                           *)

Valid(t) == t \notin revoked

\* The server posts the card, as the next that the chat sees.
Post(c) == posted' = [posted EXCEPT ![c] = Append(@, chunk[c] + 1)]

\* The card is posted and the call sees it: the next one, or the end.
Posts(c) ==
  /\ pc[c] = "send" /\ Valid(token[c]) /\ Post(c)
  /\ chunk' = [chunk EXCEPT ![c] = @ + 1]
  /\ IF chunk'[c] = ChunksOf[c] THEN End(c, "sent")
     ELSE /\ Goto(c, "get") /\ UNCHANGED outcome
          /\ attempt' = [attempt EXCEPT ![c] = 0]
          /\ refused' = [refused EXCEPT ![c] = None]
          /\ token' = [token EXCEPT ![c] = None]
  /\ UNCHANGED <<cached, server, lock>>

\* Mutation: any failure is tried again.
SendFailsRetrying(c) ==
  /\ pc[c] = "send"
  /\ (Valid(token[c]) /\ Post(c)) \/ UNCHANGED posted
  /\ IF attempt[c] = 0
       THEN /\ Goto(c, "send") /\ attempt' = [attempt EXCEPT ![c] = 1]
            /\ UNCHANGED <<token, refused, outcome>>
       ELSE End(c, "failed")
  /\ UNCHANGED <<cached, server, lock, chunk>>

\* The card, or the answer to it, is lost, or the server answers an error.
\* (An answer of a successful status whose body cannot be read counts as a
\* success, line 303; the server is taken to have posted the card then.)
SendFails(c) ==
  /\ pc[c] = "send"
  /\ (Valid(token[c]) /\ Post(c)) \/ UNCHANGED posted
  /\ End(c, "failed")
  /\ UNCHANGED <<cached, server, lock, chunk>>

\* 401 or 99991663: once, the call goes on to drop the cached token.
Refused(c) ==
  /\ pc[c] = "send" /\ ~Valid(token[c])
  /\ IF attempt[c] = 0 /\ c \notin Reactions
       THEN /\ attempt' = [attempt EXCEPT ![c] = 1]
            /\ refused' = [refused EXCEPT ![c] = token[c]]
            /\ Goto(c, "invalidate") /\ UNCHANGED <<token, outcome>>
       ELSE End(c, "refused")
  /\ UNCHANGED <<cached, server, lock, chunk, posted>>

\* Mutation: the retry asks for a token without dropping the old one.
InvalidateNot(c) ==
  /\ pc[c] = "invalidate"
  /\ token' = [token EXCEPT ![c] = None]
  /\ Goto(c, "get")
  /\ UNCHANGED <<cached, server, lock, card, outcome, posted>>

\* invalidate_token().await drops the cached token, whichever it is by now.
Invalidate(c) ==
  /\ pc[c] = "invalidate"
  /\ cached' = None
  /\ token' = [token EXCEPT ![c] = None]
  /\ Goto(c, "get")
  /\ UNCHANGED <<server, lock, card, outcome, posted>>

-----------------------------------------------------------------------------
\* refresh_after passes, TOKEN_REFRESH_SKEW before the token expires.
BecomesDue ==
  /\ Usable
  /\ cached' = None
  /\ UNCHANGED <<server, lock, pc, token, card, outcome, posted>>

\* The server accepts a token no more: it expired or was revoked.  (Nobody
\* can tell for a token that is neither cached nor held by a call.)
Revoke(t) ==
  /\ t \in ({cached} \cup {token[c] : c \in Calls}) \ (revoked \cup {None})
  /\ revoked' = revoked \cup {t}
  /\ UNCHANGED <<cached, issued, lock, pc, token, card, outcome, posted>>

CallStep(c) ==
  \/ ReadCache(c) \/ Lock(c) \/ Recheck(c)
  \/ Issue(c) \/ Store(c) \/ RefreshFails(c)
  \/ Posts(c) \/ SendFails(c) \/ Refused(c) \/ Invalidate(c)

AllOver == (\A c \in Calls : pc[c] = "over") /\ UNCHANGED vars

Next ==
  \/ \E c \in Calls : CallStep(c)
  \/ BecomesDue
  \/ \E t \in Tokens : Revoke(t)
  \/ AllOver

Spec == Init /\ [][Next]_vars

\* A call that has arrived is polled; a request ends by its timeout of 30 s.
FairSpec == Spec /\ \A c \in Calls : WF_vars(pc[c] # "idle" /\ CallStep(c))

-----------------------------------------------------------------------------
TypeOK ==
  /\ cached \in 1..issued \cup {None}
  /\ issued \in 0..MaxTokens /\ revoked \subseteq 1..issued
  /\ locked \in Calls \cup {None} /\ waiting \in Seq(Calls)
  /\ pc \in [Calls -> {"idle", "get", "lock", "recheck", "refresh", "store", "send",
                       "invalidate", "over"}]
  /\ token \in [Calls -> 1..issued \cup {None}]
  /\ attempt \in [Calls -> 0..1] /\ chunk \in [Calls -> Nat]
  /\ outcome \in [Calls -> {"none", "sent", "failed", "refused"}]
  /\ refused \in [Calls -> 1..issued \cup {None}]
  /\ posted \in [Calls -> Seq(Nat)]

(* Calls that need a token at the same time share one refresh: none is made *)
(* while a usable token is cached, however a call waited for the lock       *)
(* ("concurrent callers share one refresh", lines 88-98).                   *)
SharedRefresh == [][issued' > issued => ~Usable]_vars

(* A card refused twice was refused for two different tokens: however other *)
(* calls refresh and invalidate in between, the retry never presents the    *)
(* token that the server has just refused (lines 306-315).                  *)
RetryIsFresh ==
  \A c \in Calls : refused[c] # None /\ pc[c] = "send" => token[c] # refused[c]

(* What a chat gets to see of a reply is a beginning of it, in order and    *)
(* nothing twice, although answers are lost and cards are retried; all of   *)
(* it when the call succeeds (lines 211-233 and 276-334).                   *)
PrefixOnce ==
  \A c \in Calls :
    /\ posted[c] = [i \in 1..Len(posted[c]) |-> i]
    /\ outcome[c] = "sent" => Len(posted[c]) = ChunksOf[c]

-----------------------------------------------------------------------------
(* Why they hold.                                                           *)

\* The lock is held exactly between its acquisition and the end of a refresh.
HolderInside == \A c \in Calls : pc[c] \in {"recheck", "refresh", "store"} <=> locked = c

\* Only the holder fills the cache, so it stays empty until it has asked.
EmptyWhileAsking == \A c \in Calls : pc[c] = "refresh" => cached = None

\* A token on its way into the cache is known to nobody else.
NewIsUnknown ==
  \A c \in Calls : pc[c] = "store" =>
    /\ token[c] # None /\ cached # token[c]
    /\ \A d \in Calls : refused[d] # token[c] /\ (d # c => token[d] # token[c])

\* Once dropped, a refused token does not come back into the cache.
RefusedStaysOut ==
  \A c \in Calls : refused[c] # None /\ pc[c] # "invalidate" => cached # refused[c]

\* What is posted is what the call has counted, as long as it goes on.
PostedAsCounted ==
  \A c \in Calls : pc[c] # "over" =>
    /\ outcome[c] = "none" /\ chunk[c] < ChunksOf[c] /\ Len(posted[c]) = chunk[c]

(* The five above with the types and what they imply: inductive.            *)
IInv ==
  /\ TypeOK /\ HolderInside /\ EmptyWhileAsking /\ NewIsUnknown /\ RefusedStaysOut
  /\ PostedAsCounted /\ RetryIsFresh /\ PrefixOnce

-----------------------------------------------------------------------------
(* Every call that arrived ends, also when refreshes fail while others wait *)
(* for them and tokens are revoked faster than they are used.               *)
CallsEnd == <>[](\A c \in Calls : pc[c] \in {"idle", "over"})
=============================================================================
