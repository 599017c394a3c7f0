----------------------------- MODULE ChannelProofs -----------------------------
(* Proofs about two channels: the Feishu API client (FeishuApi) and the HTTP *)
(* handlers with their pending replies (HttpReplies).                        *)
EXTENDS FeishuApi, HttpReplies, SequenceTheorems, TLAPS

-----------------------------------------------------------------------------
(* For any number of calls, cards and tokens, and whatever the server does: *)
(* calls share their refreshes, a retry has another token, and a chat sees  *)
(* a beginning of each reply, once.                                         *)

\* The initial state satisfies the inductive invariant.
LEMMA ApiInit == Init => IInv
<1> SUFFICES ASSUME Init PROVE IInv
  OBVIOUS
<1> USE ApiAssumption DEF Init
<1>1. TypeOK
  BY DEF TypeOK
<1>2. HolderInside /\ EmptyWhileAsking /\ NewIsUnknown /\ RefusedStaysOut /\ RetryIsFresh
  BY DEF HolderInside, EmptyWhileAsking, NewIsUnknown, RefusedStaysOut, RetryIsFresh
<1>3. PostedAsCounted /\ PrefixOnce
  BY DEF PostedAsCounted, PrefixOnce
<1> QED BY <1>1, <1>2, <1>3 DEF IInv

\* A token read from the cache is not the one the call was refused.
LEMMA ReadCacheKeeps == ASSUME IInv, NEW c \in Calls, ReadCache(c) PROVE IInv'
<1> USE ApiAssumption DEF IInv
<1>1. CASE Usable
  <2>0. /\ pc[c] \in {"idle", "get"} /\ cached # None
        /\ pc' = [pc EXCEPT ![c] = "send"] /\ token' = [token EXCEPT ![c] = cached]
        /\ UNCHANGED <<cached, issued, revoked, locked, waiting, attempt, chunk, refused, outcome, posted>>
    BY <1>1 DEF ReadCache, Goto, Usable, server, lock, card
  <2>1. TypeOK'
    BY <2>0 DEF TypeOK
  <2>2. HolderInside' /\ EmptyWhileAsking'
    BY <2>0 DEF TypeOK, HolderInside, EmptyWhileAsking
  <2>3. NewIsUnknown'
    BY <2>0 DEF TypeOK, NewIsUnknown, RetryIsFresh
  <2>4. RefusedStaysOut' /\ RetryIsFresh'
    BY <2>0 DEF TypeOK, NewIsUnknown, RefusedStaysOut, RetryIsFresh
  <2>5. PostedAsCounted' /\ PrefixOnce'
    BY <2>0 DEF TypeOK, PostedAsCounted, PrefixOnce
  <2> QED BY <2>1, <2>2, <2>3, <2>4, <2>5
<1>2. CASE ~Usable
  <2>0. /\ pc[c] \in {"idle", "get"} /\ cached = None
        /\ pc' = [pc EXCEPT ![c] = "lock"] /\ waiting' = Append(waiting, c)
        /\ UNCHANGED <<cached, issued, revoked, locked, token, attempt, chunk, refused, outcome, posted>>
    BY <1>2 DEF ReadCache, Goto, Usable, server, lock, card
  <2>1. TypeOK'
    BY <2>0 DEF TypeOK
  <2>2. HolderInside' /\ EmptyWhileAsking'
    BY <2>0 DEF TypeOK, HolderInside, EmptyWhileAsking
  <2>3. NewIsUnknown'
    BY <2>0 DEF TypeOK, NewIsUnknown, RetryIsFresh
  <2>4. RefusedStaysOut' /\ RetryIsFresh'
    BY <2>0 DEF TypeOK, NewIsUnknown, RefusedStaysOut, RetryIsFresh
  <2>5. PostedAsCounted' /\ PrefixOnce'
    BY <2>0 DEF TypeOK, PostedAsCounted, PrefixOnce
  <2> QED BY <2>1, <2>2, <2>3, <2>4, <2>5
<1> QED BY <1>1, <1>2

\* The lock goes to a call that waits, which enters the refresh.
LEMMA LockKeeps == ASSUME IInv, NEW c \in Calls, Lock(c) PROVE IInv'
<1> USE ApiAssumption DEF IInv, Lock, Goto, server, card
<1>1. TypeOK'
  BY DEF TypeOK
<1>2. HolderInside' /\ EmptyWhileAsking'
  BY DEF TypeOK, HolderInside, EmptyWhileAsking
<1>3. NewIsUnknown'
  BY DEF TypeOK, NewIsUnknown, RetryIsFresh
<1>4. RefusedStaysOut' /\ RetryIsFresh'
  BY DEF TypeOK, NewIsUnknown, RefusedStaysOut, RetryIsFresh
<1>5. PostedAsCounted' /\ PrefixOnce'
  BY DEF TypeOK, PostedAsCounted, PrefixOnce
<1> QED BY <1>1, <1>2, <1>3, <1>4, <1>5

\* The second look either takes the cached token or finds the cache empty.
LEMMA RecheckKeeps == ASSUME IInv, NEW c \in Calls, Recheck(c) PROVE IInv'
<1> USE ApiAssumption DEF IInv
<1>1. CASE Usable
  <2>0. /\ pc[c] = "recheck" /\ cached # None /\ locked' = None
        /\ pc' = [pc EXCEPT ![c] = "send"] /\ token' = [token EXCEPT ![c] = cached]
        /\ UNCHANGED <<cached, issued, revoked, waiting, attempt, chunk, refused, outcome, posted>>
    BY <1>1 DEF Recheck, Goto, Usable, server, card
  <2>1. TypeOK'
    BY <2>0 DEF TypeOK
  <2>2. HolderInside' /\ EmptyWhileAsking'
    BY <2>0 DEF TypeOK, HolderInside, EmptyWhileAsking
  <2>3. NewIsUnknown'
    BY <2>0 DEF TypeOK, NewIsUnknown, RetryIsFresh
  <2>4. RefusedStaysOut' /\ RetryIsFresh'
    BY <2>0 DEF TypeOK, NewIsUnknown, RefusedStaysOut, RetryIsFresh
  <2>5. PostedAsCounted' /\ PrefixOnce'
    BY <2>0 DEF TypeOK, PostedAsCounted, PrefixOnce
  <2> QED BY <2>1, <2>2, <2>3, <2>4, <2>5
<1>2. CASE ~Usable
  <2>0. /\ pc[c] = "recheck" /\ cached = None /\ pc' = [pc EXCEPT ![c] = "refresh"]
        /\ UNCHANGED <<cached, issued, revoked, locked, waiting, token, attempt, chunk, refused, outcome, posted>>
    BY <1>2 DEF Recheck, Goto, Usable, server, card
  <2>1. TypeOK'
    BY <2>0 DEF TypeOK
  <2>2. HolderInside' /\ EmptyWhileAsking'
    BY <2>0 DEF TypeOK, HolderInside, EmptyWhileAsking
  <2>3. NewIsUnknown'
    BY <2>0 DEF TypeOK, NewIsUnknown, RetryIsFresh
  <2>4. RefusedStaysOut' /\ RetryIsFresh'
    BY <2>0 DEF TypeOK, NewIsUnknown, RefusedStaysOut, RetryIsFresh
  <2>5. PostedAsCounted' /\ PrefixOnce'
    BY <2>0 DEF TypeOK, PostedAsCounted, PrefixOnce
  <2> QED BY <2>1, <2>2, <2>3, <2>4, <2>5
<1> QED BY <1>1, <1>2

\* A new token is beyond all that are known.
LEMMA IssueKeeps == ASSUME IInv, NEW c \in Calls, Issue(c) PROVE IInv'
<1> USE ApiAssumption DEF IInv, Issue, Goto, lock, card
<1>1. TypeOK'
  BY SMTT(30) DEF TypeOK
<1>2. HolderInside' /\ EmptyWhileAsking'
  BY DEF TypeOK, HolderInside, EmptyWhileAsking
<1>3. NewIsUnknown'
  BY DEF TypeOK, NewIsUnknown, RetryIsFresh
<1>4. RefusedStaysOut' /\ RetryIsFresh'
  BY DEF TypeOK, NewIsUnknown, RefusedStaysOut, RetryIsFresh
<1>5. PostedAsCounted' /\ PrefixOnce'
  BY DEF TypeOK, PostedAsCounted, PrefixOnce
<1> QED BY <1>1, <1>2, <1>3, <1>4, <1>5

\* The new token, unknown to all others, becomes the cached one.
LEMMA StoreKeeps == ASSUME IInv, NEW c \in Calls, Store(c) PROVE IInv'
<1> USE ApiAssumption DEF IInv, Store, Goto, server, card
<1>1. TypeOK'
  BY DEF TypeOK
<1>2. HolderInside' /\ EmptyWhileAsking'
  BY DEF TypeOK, HolderInside, EmptyWhileAsking
<1>3. NewIsUnknown'
  BY DEF TypeOK, NewIsUnknown, RetryIsFresh
<1>4. RefusedStaysOut' /\ RetryIsFresh'
  BY DEF TypeOK, NewIsUnknown, RefusedStaysOut, RetryIsFresh
<1>5. PostedAsCounted' /\ PrefixOnce'
  BY DEF TypeOK, PostedAsCounted, PrefixOnce
<1> QED BY <1>1, <1>2, <1>3, <1>4, <1>5

\* A failed refresh leaves the cache as it was and gives the lock back.
LEMMA RefreshFailsKeeps == ASSUME IInv, NEW c \in Calls, RefreshFails(c) PROVE IInv'
<1> USE ApiAssumption DEF IInv, RefreshFails, Goto, End, server
<1>1. TypeOK'
  BY DEF TypeOK
<1>2. HolderInside' /\ EmptyWhileAsking'
  BY DEF TypeOK, HolderInside, EmptyWhileAsking
<1>3. NewIsUnknown'
  BY DEF TypeOK, NewIsUnknown, RetryIsFresh
<1>4. RefusedStaysOut' /\ RetryIsFresh'
  BY DEF TypeOK, NewIsUnknown, RefusedStaysOut, RetryIsFresh
<1>5. PostedAsCounted' /\ PrefixOnce'
  BY DEF TypeOK, PostedAsCounted, PrefixOnce
<1> QED BY <1>1, <1>2, <1>3, <1>4, <1>5

\* A token that was refused is on nobody's way into the cache.
LEMMA RefusedKeeps == ASSUME IInv, NEW c \in Calls, Refused(c) PROVE IInv'
<1> USE ApiAssumption DEF IInv
<1>1. CASE attempt[c] = 0 /\ c \notin Reactions
  <2>0. /\ pc[c] = "send" /\ pc' = [pc EXCEPT ![c] = "invalidate"]
        /\ attempt' = [attempt EXCEPT ![c] = 1] /\ refused' = [refused EXCEPT ![c] = token[c]]
        /\ UNCHANGED <<cached, issued, revoked, locked, waiting, token, chunk, outcome, posted>>
    BY <1>1 DEF Refused, Goto, server, lock
  <2>1. TypeOK'
    BY <2>0 DEF TypeOK
  <2>2. HolderInside' /\ EmptyWhileAsking'
    BY <2>0 DEF TypeOK, HolderInside, EmptyWhileAsking
  <2>3. NewIsUnknown'
    BY <2>0 DEF TypeOK, NewIsUnknown, RetryIsFresh
  <2>4. RefusedStaysOut' /\ RetryIsFresh'
    BY <2>0 DEF TypeOK, NewIsUnknown, RefusedStaysOut, RetryIsFresh
  <2>5. PostedAsCounted' /\ PrefixOnce'
    BY <2>0 DEF TypeOK, PostedAsCounted, PrefixOnce
  <2> QED BY <2>1, <2>2, <2>3, <2>4, <2>5
<1>2. CASE ~(attempt[c] = 0 /\ c \notin Reactions)
  <2>0. /\ pc[c] = "send" /\ End(c, "refused")
        /\ UNCHANGED <<cached, issued, revoked, locked, waiting, chunk, posted>>
    BY <1>2 DEF Refused, Goto, server, lock
  <2>1. TypeOK'
    BY <2>0 DEF End, Goto, TypeOK
  <2>2. HolderInside' /\ EmptyWhileAsking'
    BY <2>0 DEF End, Goto, TypeOK, HolderInside, EmptyWhileAsking
  <2>3. NewIsUnknown'
    BY <2>0 DEF End, Goto, TypeOK, NewIsUnknown, RetryIsFresh
  <2>4. RefusedStaysOut' /\ RetryIsFresh'
    BY <2>0 DEF End, Goto, TypeOK, NewIsUnknown, RefusedStaysOut, RetryIsFresh
  <2>5. PostedAsCounted' /\ PrefixOnce'
    BY <2>0 DEF End, Goto, TypeOK, PostedAsCounted, PrefixOnce
  <2> QED BY <2>1, <2>2, <2>3, <2>4, <2>5
<1> QED BY <1>1, <1>2

\* The cache is emptied, so the refused token is out of it.
LEMMA InvalidateKeeps == ASSUME IInv, NEW c \in Calls, Invalidate(c) PROVE IInv'
<1> USE ApiAssumption DEF IInv, Invalidate, Goto, server, lock, card
<1>1. TypeOK'
  BY DEF TypeOK
<1>2. HolderInside' /\ EmptyWhileAsking'
  BY DEF TypeOK, HolderInside, EmptyWhileAsking
<1>3. NewIsUnknown'
  BY DEF TypeOK, NewIsUnknown, RetryIsFresh
<1>4. RefusedStaysOut' /\ RetryIsFresh'
  BY DEF TypeOK, NewIsUnknown, RefusedStaysOut, RetryIsFresh
<1>5. PostedAsCounted' /\ PrefixOnce'
  BY DEF TypeOK, PostedAsCounted, PrefixOnce
<1> QED BY <1>1, <1>2, <1>3, <1>4, <1>5

\* A chat that has seen the first n cards and then sees the next one.
LEMMA NextCard ==
  ASSUME NEW s \in Seq(Nat), s = [i \in 1..Len(s) |-> i]
  PROVE  LET t == Append(s, Len(s) + 1)
         IN  t \in Seq(Nat) /\ Len(t) = Len(s) + 1 /\ t = [i \in 1..Len(t) |-> i]
<1> DEFINE t == Append(s, Len(s) + 1)
<1>1. t \in Seq(Nat) /\ Len(t) = Len(s) + 1 /\ Len(s) \in Nat
  OBVIOUS
<1>2. \A i \in 1..Len(t) : t[i] = i
  OBVIOUS
<1> QED BY <1>1, <1>2

\* The first part of PrefixOnce.
PrefixCounts == \A c \in Calls : posted[c] = [i \in 1..Len(posted[c]) |-> i]

\* What Post leaves behind, while the call has not ended.
LEMMA PostSeen ==
  ASSUME IInv, NEW c \in Calls, pc[c] = "send", Post(c)
  PROVE  /\ posted' \in [Calls -> Seq(Nat)] /\ PrefixCounts'
         /\ Len(posted'[c]) = chunk[c] + 1
         /\ \A d \in Calls \ {c} : posted'[d] = posted[d]
<1> USE DEF IInv
<1>1. posted[c] \in Seq(Nat) /\ Len(posted[c]) = chunk[c]
      /\ posted[c] = [i \in 1..Len(posted[c]) |-> i]
  BY DEF TypeOK, PostedAsCounted, PrefixOnce, PrefixCounts
<1>2. posted' = [posted EXCEPT ![c] = Append(posted[c], Len(posted[c]) + 1)]
  BY <1>1 DEF Post
<1> QED BY <1>1, <1>2, NextCard DEF TypeOK, PrefixOnce, PrefixCounts

\* The card is posted and counted.
LEMMA PostsKeeps == ASSUME IInv, NEW c \in Calls, Posts(c) PROVE IInv'
<1> USE ApiAssumption DEF IInv
<1>1. /\ pc[c] = "send" /\ chunk' = [chunk EXCEPT ![c] = @ + 1]
      /\ attempt' = [attempt EXCEPT ![c] = 0] /\ refused' = [refused EXCEPT ![c] = None]
      /\ token' = [token EXCEPT ![c] = None]
      /\ UNCHANGED <<cached, issued, revoked, locked, waiting>>
  BY DEF Posts, End, server, lock
<1>2. \/ /\ chunk[c] + 1 = ChunksOf[c]
         /\ pc' = [pc EXCEPT ![c] = "over"] /\ outcome' = [outcome EXCEPT ![c] = "sent"]
      \/ /\ chunk[c] + 1 # ChunksOf[c]
         /\ pc' = [pc EXCEPT ![c] = "get"] /\ outcome' = outcome
  BY <1>1 DEF Posts, End, Goto, TypeOK
<1>3. /\ posted' \in [Calls -> Seq(Nat)] /\ PrefixCounts'
      /\ Len(posted'[c]) = chunk[c] + 1 /\ \A d \in Calls \ {c} : posted'[d] = posted[d]
  BY <1>1, PostSeen DEF Posts
<1>4. TypeOK'
  <2>1. pc' \in [Calls -> {"idle", "get", "lock", "recheck", "refresh", "store", "send",
                          "invalidate", "over"}]
        /\ outcome' \in [Calls -> {"none", "sent", "failed", "refused"}]
    BY <1>2, ZenonT(30) DEF TypeOK
  <2>2. attempt' \in [Calls -> 0..1] /\ chunk' \in [Calls -> Nat]
        /\ token' \in [Calls -> 1..issued' \cup {None}]
        /\ refused' \in [Calls -> 1..issued' \cup {None}]
    BY <1>1 DEF TypeOK
  <2>3. revoked' \subseteq 1..issued'
    BY <1>1 DEF Posts, server, TypeOK
  <2> QED BY <1>1, <1>3, <2>1, <2>2, <2>3 DEF TypeOK
<1>5. HolderInside' /\ EmptyWhileAsking'
  BY <1>1, <1>2 DEF TypeOK, HolderInside, EmptyWhileAsking
<1>6. NewIsUnknown'
  BY <1>1, <1>2, SMTT(30) DEF TypeOK, NewIsUnknown
<1>7. RefusedStaysOut' /\ RetryIsFresh'
  BY <1>1, <1>2 DEF TypeOK, RefusedStaysOut, RetryIsFresh
<1>8. PostedAsCounted'
  BY <1>1, <1>2, <1>3, SMTT(30) DEF TypeOK, PostedAsCounted
<1>9. PrefixOnce'
  <2> SUFFICES ASSUME NEW d \in Calls, outcome'[d] = "sent"
               PROVE  Len(posted'[d]) = ChunksOf[d]
    BY <1>3 DEF PrefixOnce, PrefixCounts
  <2>1. CASE d = c
    BY <1>1, <1>2, <1>3, <2>1 DEF TypeOK, PostedAsCounted
  <2>2. CASE d # c
    BY <1>2, <1>3, <2>2 DEF TypeOK, PrefixOnce
  <2> QED BY <2>1, <2>2
<1> QED BY <1>4, <1>5, <1>6, <1>7, <1>8, <1>9

\* Posted or not, the call ends and does not claim to have sent the reply.
LEMMA SendFailsKeeps == ASSUME IInv, NEW c \in Calls, SendFails(c) PROVE IInv'
<1> USE ApiAssumption DEF IInv
<1>1. pc[c] = "send" /\ End(c, "failed")
      /\ UNCHANGED <<cached, issued, revoked, locked, waiting, chunk>>
  BY DEF SendFails, server, lock
<1>2. /\ posted' \in [Calls -> Seq(Nat)] /\ PrefixCounts'
      /\ \A d \in Calls \ {c} : posted'[d] = posted[d]
  BY <1>1, PostSeen DEF SendFails, TypeOK, PrefixOnce, PrefixCounts
<1>3. TypeOK'
  <2>1. pc' = [pc EXCEPT ![c] = "over"] /\ outcome' = [outcome EXCEPT ![c] = "failed"]
        /\ token' = [token EXCEPT ![c] = None] /\ attempt' = [attempt EXCEPT ![c] = 0]
        /\ refused' = [refused EXCEPT ![c] = None]
    BY <1>1 DEF End, Goto
  <2>2. pc' \in [Calls -> {"idle", "get", "lock", "recheck", "refresh", "store", "send",
                          "invalidate", "over"}]
        /\ outcome' \in [Calls -> {"none", "sent", "failed", "refused"}]
    BY <2>1 DEF TypeOK
  <2>3. attempt' \in [Calls -> 0..1] /\ chunk' \in [Calls -> Nat]
        /\ token' \in [Calls -> 1..issued' \cup {None}]
        /\ refused' \in [Calls -> 1..issued' \cup {None}]
    BY <1>1, <2>1 DEF TypeOK
  <2>4. revoked' \subseteq 1..issued' /\ waiting' \in Seq(Calls)
        /\ cached' \in 1..issued' \cup {None}
    BY <1>1 DEF TypeOK
  <2> QED BY <1>1, <1>2, <2>2, <2>3, <2>4 DEF TypeOK
<1>4. HolderInside' /\ EmptyWhileAsking'
  BY <1>1 DEF End, Goto, TypeOK, HolderInside, EmptyWhileAsking
<1>5. NewIsUnknown'
  BY <1>1 DEF End, Goto, TypeOK, NewIsUnknown
<1>6. RefusedStaysOut' /\ RetryIsFresh'
  BY <1>1 DEF End, Goto, TypeOK, RefusedStaysOut, RetryIsFresh
<1>7. PostedAsCounted'
  BY <1>1, <1>2 DEF End, Goto, TypeOK, PostedAsCounted
<1>8. PrefixOnce'
  <2> SUFFICES ASSUME NEW d \in Calls, outcome'[d] = "sent"
               PROVE  Len(posted'[d]) = ChunksOf[d]
    BY <1>2 DEF PrefixOnce, PrefixCounts
  <2> QED BY <1>1, <1>2 DEF End, Goto, TypeOK, PrefixOnce
<1> QED BY <1>3, <1>4, <1>5, <1>6, <1>7, <1>8

\* Time and the server change nothing that the calls have in hand.
LEMMA WorldKeeps ==
  ASSUME IInv, BecomesDue \/ (\E t \in Tokens : Revoke(t)) \/ UNCHANGED vars
  PROVE  IInv'
<1> USE ApiAssumption DEF IInv
<1>1. UNCHANGED <<issued, locked, waiting, pc, token, attempt, chunk, refused, outcome, posted>>
      /\ cached' \in {cached, None} /\ revoked' \subseteq 1..issued
  <2>0. revoked \subseteq 1..issued
    BY DEF TypeOK
  <2>1. CASE BecomesDue
    BY <2>0, <2>1 DEF BecomesDue, server, lock, card
  <2>2. CASE \E t \in Tokens : Revoke(t)
    <3>1. PICK t \in Tokens : Revoke(t)
      BY <2>2
    <3>2. t \in 1..issued
      BY <3>1 DEF Revoke, TypeOK
    <3> QED BY <2>0, <3>1, <3>2 DEF Revoke, lock, card
  <2>3. CASE UNCHANGED vars
    BY <2>0, <2>3 DEF vars, server, lock, card
  <2> QED BY <2>1, <2>2, <2>3
<1>2. TypeOK'
  <2>1. revoked' \subseteq 1..issued' /\ cached' \in 1..issued' \cup {None}
    BY <1>1 DEF TypeOK
  <2> QED BY <1>1, <2>1 DEF TypeOK
<1>3. HolderInside' /\ EmptyWhileAsking' /\ PostedAsCounted' /\ PrefixOnce'
  BY <1>1 DEF HolderInside, EmptyWhileAsking, PostedAsCounted, PrefixOnce
<1>4. NewIsUnknown' /\ RefusedStaysOut' /\ RetryIsFresh'
  BY <1>1 DEF TypeOK, NewIsUnknown, RefusedStaysOut, RetryIsFresh
<1> QED BY <1>2, <1>3, <1>4

(* The inductive invariant holds in every behaviour of the specification.   *)
THEOREM ApiInvariant == Spec => []IInv
<1>1. IInv /\ [Next]_vars => IInv'
  <2> SUFFICES ASSUME IInv, [Next]_vars PROVE IInv'
    OBVIOUS
  <2>1. ASSUME NEW c \in Calls, CallStep(c) PROVE IInv'
    BY <2>1, ReadCacheKeeps, LockKeeps, RecheckKeeps, IssueKeeps, StoreKeeps,
       RefreshFailsKeeps, PostsKeeps, SendFailsKeeps, RefusedKeeps, InvalidateKeeps
       DEF CallStep
  <2>2. ASSUME ~\E c \in Calls : CallStep(c) PROVE IInv'
    BY <2>2, WorldKeeps DEF Next, AllOver
  <2> QED BY <2>1, <2>2
<1> QED BY ApiInit, <1>1, PTL DEF Spec

(* For any calls and tokens, a card that is retried after a refusal is sent *)
(* with another token than the refused one (do_send_card, 305-315).         *)
THEOREM RetriesAreFresh == Spec => []RetryIsFresh
<1>1. IInv => RetryIsFresh
  BY DEF IInv
<1> QED BY ApiInvariant, <1>1, PTL

(* For any replies and failures, a chat sees a beginning of each reply, in  *)
(* order and once, and all of it when the call succeeds (211-334).          *)
THEOREM RepliesArePrefixes == Spec => []PrefixOnce
<1>1. IInv => PrefixOnce
  BY DEF IInv
<1> QED BY ApiInvariant, <1>1, PTL

(* For any number of concurrent callers, a token is asked for only while    *)
(* none that is usable is cached (get_tenant_access_token, 75-160).         *)
THEOREM RefreshesAreShared == Spec => SharedRefresh
<1>1. IInv /\ [Next]_vars => [issued' > issued => ~Usable]_vars
  <2> SUFFICES ASSUME IInv, Next, issued' > issued PROVE ~Usable
    OBVIOUS
  <2>1. issued' # issued
    BY DEF IInv, TypeOK
  <2>2. PICK c \in Calls : Issue(c)
    BY <2>1 DEF Next, CallStep, AllOver, ReadCache, Lock, Recheck, Store, RefreshFails, Posts,
       SendFails, Refused, Invalidate, BecomesDue, Revoke, vars, server
  <2> QED BY <2>2 DEF Issue, IInv, EmptyWhileAsking, Usable
<1> QED BY ApiInvariant, <1>1, PTL DEF Spec, SharedRefresh

-----------------------------------------------------------------------------
(* For any number of requests, whatever their kind and fault, and for any   *)
(* capacity of the queue: a handler that waits has a sender, no reply is    *)
(* lost to one that waits, and no entry of the map is without a guard.      *)

\* The initial state satisfies the inductive invariant.
LEMMA HttpStart == HttpInit => HttpInv
<1> SUFFICES ASSUME HttpInit PROVE HttpInv
  OBVIOUS
<1> USE HttpAssumption DEF HttpInit
<1>1. HttpTypeOK
  BY EmptySeq DEF HttpTypeOK
<1>2. SenderAlive /\ NoReplyLost /\ Bookkeeping
  BY DEF SenderAlive, NoReplyLost, Bookkeeping
<1>3. OnePlace
  BY DEF OnePlace, Underway
<1> QED BY <1>1, <1>2, <1>3 DEF HttpInv

\* The checks touch neither the map nor the gateway.
LEMMA CheckKeeps == ASSUME HttpInv, NEW r \in Requests, Check(r) PROVE HttpInv'
<1> USE HttpAssumption DEF HttpInv, Check, EndRequest, GoTo, mapVars, gatewayVars
<1>1. HttpTypeOK'
  BY SMTT(30) DEF HttpTypeOK, EarlyFault, GatewayFault
<1>2. SenderAlive'
  BY DEF HttpTypeOK, SenderAlive, Bookkeeping, OnePlace, Underway
<1>3. NoReplyLost'
  BY DEF HttpTypeOK, NoReplyLost, OnePlace, Underway
<1>4. Bookkeeping'
  BY DEF HttpTypeOK, SenderAlive, NoReplyLost, Bookkeeping, OnePlace, Underway
<1>5. OnePlace'
  BY DEF HttpTypeOK, SenderAlive, Bookkeeping, OnePlace, Underway
<1> QED BY <1>1, <1>2, <1>3, <1>4, <1>5

\* The entry is made with its handler, or with the cleanup of a refused one.
LEMMA RegisterKeeps == ASSUME HttpInv, NEW r \in Requests, Register(r) PROVE HttpInv'
<1> USE HttpAssumption DEF HttpInv, Register, EndRequest, GoTo, gatewayVars
<1>1. HttpTypeOK'
  <2>1. /\ stage' \in [Requests -> {"new", "checked", "sending", "waiting", "ended"}]
        /\ status' \in [Requests -> {0, 200, 400, 401, 413, 429, 500, 501, 504}]
        /\ cleanups' \subseteq Requests
    <3>1. CASE KindOf[r] = "multipart" /\ GatewayFault(r)
      BY <3>1 DEF HttpTypeOK
    <3>2. CASE ~(KindOf[r] = "multipart" /\ GatewayFault(r))
      BY <3>2 DEF HttpTypeOK
    <3> QED BY <3>1, <3>2
  <2> QED BY <2>1 DEF HttpTypeOK
<1>2. SenderAlive'
  BY DEF HttpTypeOK, SenderAlive, Bookkeeping, OnePlace, Underway
<1>3. NoReplyLost'
  BY DEF HttpTypeOK, NoReplyLost, OnePlace, Underway
<1>4. Bookkeeping'
  BY DEF HttpTypeOK, SenderAlive, NoReplyLost, Bookkeeping, OnePlace, Underway
<1>5. OnePlace'
  BY SMTT(30) DEF HttpTypeOK, SenderAlive, Bookkeeping, OnePlace, Underway
<1> QED BY <1>1, <1>2, <1>3, <1>4, <1>5

\* A handler that could not send leaves an entry nobody will answer, and its cleanup.
LEMMA QueueGoneKeeps == ASSUME HttpInv, NEW r \in Requests, QueueGone(r) PROVE HttpInv'
<1> USE HttpAssumption DEF HttpInv, QueueGone, EndRequest, DropGuard, gatewayVars
<1>1. HttpTypeOK'
  BY DEF HttpTypeOK
<1>2. SenderAlive'
  BY DEF HttpTypeOK, SenderAlive, Bookkeeping, OnePlace, Underway
<1>3. NoReplyLost'
  BY DEF HttpTypeOK, NoReplyLost, OnePlace, Underway
<1>4. Bookkeeping'
  BY DEF HttpTypeOK, SenderAlive, NoReplyLost, Bookkeeping, OnePlace, Underway
<1>5. OnePlace'
  BY DEF HttpTypeOK, SenderAlive, Bookkeeping, OnePlace, Underway
<1> QED BY <1>1, <1>2, <1>3, <1>4, <1>5

\* A reply in the slot means the gateway has done with the message.
LEMMA TakeReplyKeeps == ASSUME HttpInv, NEW r \in Requests, TakeReply(r) PROVE HttpInv'
<1> USE HttpAssumption DEF HttpInv, TakeReply, EndRequest, gatewayVars
<1>1. HttpTypeOK'
  BY DEF HttpTypeOK
<1>2. SenderAlive'
  BY DEF HttpTypeOK, SenderAlive, Bookkeeping, OnePlace, Underway
<1>3. NoReplyLost'
  BY DEF HttpTypeOK, NoReplyLost, OnePlace, Underway
<1>4. Bookkeeping'
  BY DEF HttpTypeOK, SenderAlive, NoReplyLost, Bookkeeping, OnePlace, Underway
<1>5. OnePlace'
  BY DEF HttpTypeOK, SenderAlive, Bookkeeping, OnePlace, Underway
<1> QED BY <1>1, <1>2, <1>3, <1>4, <1>5

\* A handler that times out ends with 504, its reply still under way.
LEMMA ReplyTimesOutKeeps == ASSUME HttpInv, NEW r \in Requests, ReplyTimesOut(r) PROVE HttpInv'
<1> USE HttpAssumption DEF HttpInv, ReplyTimesOut, EndRequest, DropGuard, gatewayVars
<1>1. HttpTypeOK'
  BY DEF HttpTypeOK
<1>2. SenderAlive'
  BY DEF HttpTypeOK, SenderAlive, Bookkeeping, OnePlace, Underway
<1>3. NoReplyLost'
  BY DEF HttpTypeOK, NoReplyLost, OnePlace, Underway
<1>4. Bookkeeping'
  BY DEF HttpTypeOK, SenderAlive, NoReplyLost, Bookkeeping, OnePlace, Underway
<1>5. OnePlace'
  BY DEF HttpTypeOK, SenderAlive, Bookkeeping, OnePlace, Underway
<1> QED BY <1>1, <1>2, <1>3, <1>4, <1>5

\* A handler that is cancelled ends without a status, its guard dropped.
LEMMA CancelKeeps == ASSUME HttpInv, NEW r \in Requests, Cancel(r) PROVE HttpInv'
<1> USE HttpAssumption DEF HttpInv, Cancel, EndRequest, gatewayVars
<1>1. HttpTypeOK'
  BY DEF HttpTypeOK
<1>2. SenderAlive'
  BY DEF HttpTypeOK, SenderAlive, Bookkeeping, OnePlace, Underway
<1>3. NoReplyLost'
  BY DEF HttpTypeOK, NoReplyLost, OnePlace, Underway
<1>4. Bookkeeping'
  BY DEF HttpTypeOK, SenderAlive, NoReplyLost, Bookkeeping, OnePlace, Underway
<1>5. OnePlace'
  BY DEF HttpTypeOK, SenderAlive, Bookkeeping, OnePlace, Underway
<1> QED BY <1>1, <1>2, <1>3, <1>4, <1>5

\* A cleanup takes out the entry of a handler that has ended.
LEMMA CleanUpKeeps == ASSUME HttpInv, NEW r \in Requests, CleanUp(r) PROVE HttpInv'
<1> USE HttpAssumption DEF HttpInv, CleanUp, handlerVars, gatewayVars
<1>1. HttpTypeOK'
  BY DEF HttpTypeOK
<1>2. SenderAlive'
  BY DEF HttpTypeOK, SenderAlive, Bookkeeping, OnePlace, Underway
<1>3. NoReplyLost'
  BY DEF HttpTypeOK, NoReplyLost, OnePlace, Underway
<1>4. Bookkeeping'
  BY DEF HttpTypeOK, SenderAlive, NoReplyLost, Bookkeeping, OnePlace, Underway
<1>5. OnePlace'
  BY DEF HttpTypeOK, SenderAlive, Bookkeeping, OnePlace, Underway
<1> QED BY <1>1, <1>2, <1>3, <1>4, <1>5

\* A stream has no entry.
LEMMA StreamKeeps == ASSUME HttpInv, NEW r \in Requests, Stream(r) PROVE HttpInv'
<1> USE HttpAssumption DEF HttpInv, Stream, EndRequest, mapVars, gatewayVars
<1>1. HttpTypeOK'
  BY DEF HttpTypeOK
<1>2. SenderAlive'
  BY DEF HttpTypeOK, SenderAlive, Bookkeeping, OnePlace, Underway
<1>3. NoReplyLost'
  BY DEF HttpTypeOK, NoReplyLost, OnePlace, Underway
<1>4. Bookkeeping'
  BY DEF HttpTypeOK, SenderAlive, NoReplyLost, Bookkeeping, OnePlace, Underway
<1>5. OnePlace'
  BY DEF HttpTypeOK, SenderAlive, Bookkeeping, OnePlace, Underway
<1> QED BY <1>1, <1>2, <1>3, <1>4, <1>5

\* The queue is dropped with its receiver.
LEMMA ShutdownKeeps == ASSUME HttpInv, Shutdown PROVE HttpInv'
<1> USE HttpAssumption DEF HttpInv, Shutdown, handlerVars, mapVars
<1>1. HttpTypeOK'
  BY EmptySeq, ZenonT(30) DEF HttpTypeOK
<1>2. SenderAlive'
  BY DEF HttpTypeOK, SenderAlive, Bookkeeping, OnePlace, Underway
<1>3. NoReplyLost'
  BY DEF HttpTypeOK, NoReplyLost, OnePlace, Underway
<1>4. Bookkeeping'
  BY DEF HttpTypeOK, SenderAlive, NoReplyLost, Bookkeeping, OnePlace, Underway
<1>5. OnePlace'
  BY DEF HttpTypeOK, SenderAlive, Bookkeeping, OnePlace, Underway
<1> QED BY <1>1, <1>2, <1>3, <1>4, <1>5

\* An aborted task sends no reply.
LEMMA AbortKeeps == ASSUME HttpInv, NEW r \in Requests, Abort(r) PROVE HttpInv'
<1> USE HttpAssumption DEF HttpInv, Abort, handlerVars, mapVars
<1>1. HttpTypeOK'
  BY DEF HttpTypeOK
<1>2. SenderAlive'
  BY DEF HttpTypeOK, SenderAlive, Bookkeeping, OnePlace, Underway
<1>3. NoReplyLost'
  BY DEF HttpTypeOK, NoReplyLost, OnePlace, Underway
<1>4. Bookkeeping'
  BY DEF HttpTypeOK, SenderAlive, NoReplyLost, Bookkeeping, OnePlace, Underway
<1>5. OnePlace'
  BY DEF HttpTypeOK, SenderAlive, Bookkeeping, OnePlace, Underway
<1> QED BY <1>1, <1>2, <1>3, <1>4, <1>5

\* A task finds the sender of a handler that waits, or one that gave up.
LEMMA FindSenderKeeps == ASSUME HttpInv, NEW r \in Requests, FindSender(r) PROVE HttpInv'
<1> USE HttpAssumption DEF HttpInv, FindSender, handlerVars
<1>1. HttpTypeOK'
  BY DEF HttpTypeOK
<1>2. SenderAlive'
  BY DEF HttpTypeOK, SenderAlive, Bookkeeping, OnePlace, Underway
<1>3. NoReplyLost'
  BY DEF HttpTypeOK, SenderAlive, NoReplyLost, OnePlace, Underway
<1>4. Bookkeeping'
  <2>1. stage[r] \in {"waiting", "ended"} /\ r \notin slot
    BY DEF OnePlace, Underway
  <2>2. /\ pending' \subseteq pending /\ held' \subseteq held \cup {r}
        /\ lost' \subseteq lost \cup {r} /\ tasks' \subseteq tasks
        /\ UNCHANGED <<stage, slot, cleanups>>
    OBVIOUS
  <2> QED BY <2>1, <2>2 DEF Bookkeeping
<1>5. OnePlace'
  BY DEF HttpTypeOK, SenderAlive, Bookkeeping, OnePlace, Underway
<1> QED BY <1>1, <1>2, <1>3, <1>4, <1>5

\* A reply fills the slot of a handler that waits, or is lost to one that gave up.
LEMMA DeliverKeeps == ASSUME HttpInv, NEW r \in Requests, Deliver(r) PROVE HttpInv'
<1> USE HttpAssumption DEF HttpInv, Deliver, handlerVars, gatewayVars
<1>1. HttpTypeOK'
  BY DEF HttpTypeOK
<1>2. SenderAlive'
  BY DEF HttpTypeOK, SenderAlive, Bookkeeping, OnePlace, Underway
<1>3. NoReplyLost'
  BY DEF HttpTypeOK, NoReplyLost, OnePlace, Underway
<1>4. Bookkeeping'
  BY DEF HttpTypeOK, SenderAlive, NoReplyLost, Bookkeeping, OnePlace, Underway
<1>5. OnePlace'
  BY DEF HttpTypeOK, SenderAlive, Bookkeeping, OnePlace, Underway
<1> QED BY <1>1, <1>2, <1>3, <1>4, <1>5

\* What is sent was nowhere in the gateway before.
LEMMA SendKeeps == ASSUME HttpInv, NEW r \in Requests, Send(r) PROVE HttpInv'
<1> USE HttpAssumption DEF HttpInv, Send, GoTo, mapVars
<1>1. HttpTypeOK'
  BY DEF HttpTypeOK
<1>2. SenderAlive' /\ NoReplyLost' /\ Bookkeeping'
  BY DEF HttpTypeOK, SenderAlive, NoReplyLost, Bookkeeping
<1>3. OnePlace'
  <2>1. /\ Len(queue') = Len(queue) + 1 /\ queue'[Len(queue) + 1] = r
        /\ \A i \in DOMAIN queue : queue'[i] = queue[i]
        /\ DOMAIN queue' = DOMAIN queue \cup {Len(queue) + 1}
    BY DEF HttpTypeOK
  <2>2. /\ \A i \in DOMAIN queue : queue[i] # r
        /\ r \notin tasks \cup held \cup slot \cup lost
    BY DEF OnePlace, Underway, NoReplyLost, Bookkeeping
  <2>5. Underway(r)'
    BY <2>2 DEF HttpTypeOK, Underway
  <2>3. \A q \in Requests : Underway(q) => Underway(q)'
    BY DEF HttpTypeOK, Underway
  <2>4. \A i \in DOMAIN queue : queue[i] \in Requests
    BY DEF HttpTypeOK
  <2> QED BY <2>1, <2>2, <2>3, <2>4, <2>5 DEF OnePlace, HttpTypeOK
<1> QED BY <1>1, <1>2, <1>3

\* A message leaves the queue for a task, and stays in one place.
LEMMA TakeNextKeeps == ASSUME HttpInv, TakeNext PROVE HttpInv'
<1> USE HttpAssumption DEF HttpInv, TakeNext, handlerVars, mapVars
<1>1. /\ queue' \in Seq(Requests) /\ Head(queue) = queue[1] /\ 1 \in DOMAIN queue
      /\ \A i \in DOMAIN queue' : i + 1 \in DOMAIN queue /\ queue'[i] = queue[i + 1]
      /\ \A i \in DOMAIN queue' : i \in Nat /\ i + 1 # 1
      /\ \A i \in DOMAIN queue : queue[i] \in Requests
  BY DEF HttpTypeOK
<1>2. HttpTypeOK'
  BY <1>1 DEF HttpTypeOK
<1>3. SenderAlive' /\ NoReplyLost'
  BY DEF SenderAlive, NoReplyLost
<1>4. Bookkeeping'
  BY <1>1 DEF Bookkeeping, OnePlace, Underway
<1>5. OnePlace'
  <2>1. \A q \in Requests : Underway(q) => Underway(q)'
    BY DEF Underway
  <2>2. \A i, j \in DOMAIN queue' : queue'[i] = queue'[j] => i = j
    BY <1>1 DEF OnePlace
  <2>3. ASSUME NEW i \in DOMAIN queue', NEW q \in Requests, q = queue'[i]
        PROVE q \notin tasks' \cup held' /\ Underway(q)'
    <3>1. i + 1 \in DOMAIN queue /\ queue[i + 1] = q /\ q # Head(queue)
      BY <1>1, <2>3 DEF OnePlace
    <3> QED BY <3>1, <2>1 DEF OnePlace
  <2>4. \A i \in DOMAIN queue' : queue'[i] \in Requests
    BY <1>1
  <2>5. ASSUME NEW q \in tasks' PROVE q \notin held' /\ Underway(q)'
    BY <1>1, <2>1 DEF OnePlace, HttpTypeOK
  <2> QED BY <2>1, <2>2, <2>3, <2>4, <2>5 DEF OnePlace, HttpTypeOK
<1> QED BY <1>2, <1>3, <1>4, <1>5

(* For any requests, a handler that waits for its reply has its sender in   *)
(* the map, in send_message's hands or used, a reply is thrown away only    *)
(* when its client hung up or timed out, and the entry of a handler that    *)
(* has ended is one its guard is about to remove (http.rs 108-130, 247-399).*)
THEOREM HttpInvariant == HttpSpec => []HttpInv
<1>1. HttpInv /\ [HttpNext]_httpVars => HttpInv'
  <2> SUFFICES ASSUME HttpInv, [HttpNext]_httpVars PROVE HttpInv'
    OBVIOUS
  <2>1. ASSUME NEW r \in Requests, HandlerStep(r) PROVE HttpInv'
    BY <2>1, CheckKeeps, RegisterKeeps, SendKeeps, QueueGoneKeeps, TakeReplyKeeps,
       ReplyTimesOutKeeps, StreamKeeps DEF HandlerStep
  <2>2. ASSUME NEW r \in Requests, Cancel(r) \/ CleanUp(r) \/ ReplyStep(r) \/ Abort(r)
        PROVE HttpInv'
    BY <2>2, CancelKeeps, CleanUpKeeps, FindSenderKeeps, DeliverKeeps, AbortKeeps DEF ReplyStep
  <2>3. CASE UNCHANGED httpVars
    BY <2>3 DEF HttpInv, HttpTypeOK, SenderAlive, NoReplyLost, Bookkeeping, OnePlace, Underway,
       httpVars, handlerVars, mapVars, gatewayVars
  <2> QED BY <2>1, <2>2, <2>3, TakeNextKeeps, ShutdownKeeps DEF HttpNext, AllEnded
<1> QED BY HttpStart, <1>1, PTL DEF HttpSpec
=============================================================================
