----------------------------- MODULE RateLimiter -----------------------------
(***************************************************************************)
(* The sliding-window rate limiter of the gateway (gateway.rs,             *)
(* `rate_limiter`, `acquire_rate_limit_slot`,                              *)
(* `evict_oldest_rate_limiter_entries`): per session, the instants of the  *)
(* requests granted a slot, and the collector that caps the number of      *)
(* sessions remembered.                                                    *)
(*                                                                         *)
(* An absent entry and an empty one behave alike: acquiring a slot creates *)
(* the entry and an entry kept is never empty, so <<>> stands for both.    *)
(* The collector reads the whole map, sorts, and only then removes the     *)
(* chosen keys one at a time, while requests keep acquiring slots.         *)
(***************************************************************************)
EXTENDS Naturals, Sequences, FiniteSets

CONSTANTS
  Callers,    \* the session keys
  MaxRpm,      \* limits.max_requests_per_minute; 0 switches the limiter off
  Window,      \* GATEWAY_RATE_LIMIT_WINDOW_SECS, in ticks of the clock
  MaxEntries,  \* RATE_LIMITER_MAX_ENTRIES
  MaxClock,    \* bound of the model: the last instant
  MaxGrants    \* bound of the model: the slots ever granted

ASSUME LimiterAssumption ==
  /\ MaxRpm \in Nat
  /\ Window \in Nat \ {0}
  /\ MaxEntries \in Nat
  /\ MaxClock \in Nat
  /\ MaxGrants \in Nat

VARIABLES
  clock,       \* Instant::now()
  stamps,      \* rate_limiter: the instants remembered for a session
  victims,     \* the keys the collector chose and has not removed yet
  granted,     \* history: every instant at which a session got a slot
  evicted      \* history: how many of them came before its last eviction

limiterVars == <<stamps, victims>>
limiterHistory == <<granted, evicted>>
limiterAllVars == <<clock, limiterVars, limiterHistory>>

LimiterInit ==
  /\ stamps = [s \in Callers |-> <<>>]
  /\ victims = {}

-----------------------------------------------------------------------------
Present == {s \in Callers : stamps[s] # <<>>}

\* What is left of an entry without its n first instants.
DropFirst(s, n) == SubSeq(stamps[s], n + 1, Len(stamps[s]))

\* Mutation: an instant is forgotten one tick too early.
LiveShort(s) ==
  DropFirst(s, Cardinality({i \in DOMAIN stamps[s] : clock + 1 - stamps[s][i] >= Window}))

\* entry.retain(|t| now.duration_since(*t) < window): instants are pushed in the
\* order of the clock, so the ones that are not retained are the first ones.
Live(s) ==
  DropFirst(s, Cardinality({i \in DOMAIN stamps[s] : clock - stamps[s][i] >= Window}))

\* entry.len() < max_rpm
HasSlot(s) == MaxRpm = 0 \/ Len(Live(s)) < MaxRpm

\* acquire_rate_limit_slot returning Ok; without a limit the map is not used.
Grant(s) ==
  /\ HasSlot(s)
  /\ stamps' = IF MaxRpm = 0 THEN stamps
               ELSE [stamps EXCEPT ![s] = Append(Live(s), clock)]
  /\ UNCHANGED victims

\* acquire_rate_limit_slot returning RateLimited.
Refuse(s) ==
  /\ ~HasSlot(s)
  /\ stamps' = [stamps EXCEPT ![s] = Live(s)]
  /\ UNCHANGED victims

LastSeen(s) == stamps[s][Len(stamps[s])]

\* Mutation: the victims make room for one more entry.
OverflowAndOne ==
  IF Cardinality(Present) > MaxEntries THEN Cardinality(Present) - MaxEntries + 1 ELSE 0

\* Mutation: the map may exceed its cap by one.
OverflowLate ==
  IF Cardinality(Present) > MaxEntries + 1 THEN Cardinality(Present) - MaxEntries - 1 ELSE 0

\* let overflow = rate_limiter.len() - max_entries, when there is one.
Overflow ==
  IF Cardinality(Present) > MaxEntries THEN Cardinality(Present) - MaxEntries ELSE 0

\* The keys that sorting by last_seen and taking `overflow` may choose.
EvictionChoices ==
  {V \in SUBSET Present :
     /\ Cardinality(V) = Overflow
     /\ \A v \in V, k \in Present \ V : LastSeen(v) <= LastSeen(k)}

\* One pass of the collector over rate_limiter: no entry kept is empty, so the
\* retain of line 169 removes nothing; then the victims are chosen.
ChooseVictims ==
  /\ victims = {}
  /\ victims' \in EvictionChoices
  /\ UNCHANGED stamps

\* rate_limiter.remove(&session_key), whatever the entry holds by now.
Evict(s) ==
  /\ s \in victims
  /\ stamps' = [stamps EXCEPT ![s] = <<>>]
  /\ victims' = victims \ {s}

Tick == clock < MaxClock /\ clock' = clock + 1

-----------------------------------------------------------------------------
(* The limiter on its own: requests, the collector and the clock.           *)

LimiterStart ==
  /\ clock = 0
  /\ LimiterInit
  /\ granted = [s \in Callers |-> <<>>]
  /\ evicted = [s \in Callers |-> 0]

Grants == UNION {{s} \X DOMAIN granted[s] : s \in Callers}

Admit(s) ==
  /\ Cardinality(Grants) < MaxGrants
  /\ Grant(s)
  /\ granted' = [granted EXCEPT ![s] = Append(@, clock)]
  /\ UNCHANGED <<clock, evicted>>

TurnAway(s) == Refuse(s) /\ UNCHANGED <<clock, limiterHistory>>

Choose == ChooseVictims /\ UNCHANGED <<clock, limiterHistory>>

Remove(s) ==
  /\ Evict(s)
  /\ evicted' = [evicted EXCEPT ![s] = Len(granted[s])]
  /\ UNCHANGED <<clock, granted>>

Pass == Tick /\ UNCHANGED <<limiterVars, limiterHistory>>

LimiterNext ==
  \/ \E s \in Callers : Admit(s) \/ TurnAway(s) \/ Remove(s)
  \/ Choose
  \/ Pass

LimiterSpec == LimiterStart /\ [][LimiterNext]_limiterAllVars

\* The collector wakes up again and again and finishes every pass it begins.
LimiterFairness ==
  /\ WF_limiterAllVars(Choose)
  /\ \A s \in Callers : WF_limiterAllVars(Remove(s))

LimiterFairSpec == LimiterSpec /\ LimiterFairness

-----------------------------------------------------------------------------
LimiterTypeOK ==
  /\ clock \in 0..MaxClock
  /\ stamps \in [Callers -> Seq(0..MaxClock)]
  /\ MaxRpm > 0 => \A s \in Callers : Len(stamps[s]) <= MaxRpm
  /\ victims \in SUBSET Callers
  /\ granted \in [Callers -> Seq(0..MaxClock)]
  /\ evicted \in [Callers -> Nat]

\* The grants of a session since the collector last removed its entry.
Remembered(s) == {i \in DOMAIN granted[s] : i > evicted[s]}

(* The window is exact, whatever the other sessions do and however the      *)
(* collector interleaves; only its own eviction forgives a session.  No     *)
(* interval as long as the window holds more than MaxRpm requests of a      *)
(* session, and the live instants are exactly the grants of the last        *)
(* window, so that a request is refused only when the window really is full *)
(* (gateway.rs, lines 282-305 and 179-185).                                 *)
RateExact ==
  MaxRpm > 0 =>
    \A s \in Callers :
      /\ \A i \in Remembered(s) :
           i + MaxRpm \in DOMAIN granted[s]
             => granted[s][i + MaxRpm] - granted[s][i] >= Window
      /\ Len(Live(s)) = Cardinality({i \in Remembered(s) : granted[s][i] + Window > clock})

(* Between the collector's snapshot and its last removal requests create    *)
(* and refresh entries; the removals still never leave fewer sessions than  *)
(* the map may hold (lines 35-61).                                          *)
EvictsOverflowOnly ==
  victims # {} =>
    /\ victims \subseteq Present
    /\ Cardinality(Present) >= MaxEntries + Cardinality(victims)

(* The cap is restored: once the requests pause, the passes of the          *)
(* collector bring the number of sessions remembered back under MaxEntries. *)
CapRestored == <>[](Cardinality(Present) <= MaxEntries)
=============================================================================
