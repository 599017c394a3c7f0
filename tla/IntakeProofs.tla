---------------------------- MODULE IntakeProofs ----------------------------
(* What the parts that an inbound message passes promise: the rate limiter,  *)
(* the cache of recent ids and the Feishu socket, each for every value of    *)
(* its constants, and their common invariant.                                *)
EXTENDS MCIntake, ChatLocksProofs, DataLemmas, SequenceTheorems

-----------------------------------------------------------------------------
(* The rate limiter.                                                         *)

\* The instants of a session come in the order of time.
Ordered(s) ==
  /\ \A i \in DOMAIN stamps[s] : stamps[s][i] <= clock
  /\ \A i, j \in DOMAIN stamps[s] : i <= j => stamps[s][i] <= stamps[s][j]

StampsOK ==
  /\ clock \in 0..MaxClock
  /\ stamps \in [Callers -> Seq(0..MaxClock)]

\* The retain of acquire_rate_limit_slot on an ordered entry: what goes is a
\* prefix, every instant in it is outside the window and no other one is.
LEMMA LiveRetains ==
  ASSUME StampsOK, NEW s \in Callers, Ordered(s)
  PROVE  \E k \in 0 .. Len(stamps[s]) :
           /\ Live(s) \in Seq(0..MaxClock)
           /\ Len(Live(s)) = Len(stamps[s]) - k
           /\ \A i \in 1 .. Len(stamps[s]) - k : Live(s)[i] = stamps[s][k + i]
           /\ \A i \in 1 .. Len(stamps[s]) : clock - stamps[s][i] >= Window <=> i <= k
<1> DEFINE old == {i \in DOMAIN stamps[s] : clock - stamps[s][i] >= Window}
<1>1. PICK st \in Seq(0..MaxClock) : st = stamps[s]
  BY DEF StampsOK
<1>2. PICK m \in Nat : m = Len(st) /\ DOMAIN st = 1 .. m
  BY <1>1
<1>3. \A i \in old : \A j \in 1 .. i : j \in old
  <2> SUFFICES ASSUME NEW i \in old, NEW j \in 1 .. i PROVE j \in old
    OBVIOUS
  <2>1. i \in 1 .. m /\ j \in 1 .. m /\ j <= i
    BY <1>1, <1>2
  <2>2. st[i] \in 0..MaxClock /\ st[j] \in 0..MaxClock
    BY <1>2, <2>1, ElementOfSeq
  <2>3. st[j] <= st[i]
    BY <1>1, <1>2, <2>1 DEF Ordered
  <2>4. clock - st[i] >= Window
    BY <1>1
  <2> QED BY <1>1, <1>2, <2>1, <2>2, <2>3, <2>4, LimiterAssumption DEF StampsOK
<1>4. Cardinality(old) \in 0 .. m /\ old = 1 .. Cardinality(old)
  <2>1. old \in SUBSET (1 .. m)
    BY <1>1, <1>2
  <2> HIDE DEF old
  <2> QED BY <1>2, <1>3, <2>1, InitialSegment
<1>5. Live(s) = SubSeq(st, Cardinality(old) + 1, Len(st))
  BY <1>1 DEF Live, DropFirst
<1>6. \A i \in 1 .. m : clock - st[i] >= Window <=> i <= Cardinality(old)
  <2>1. \A i \in 1 .. m : clock - st[i] >= Window <=> i \in old
    BY <1>1, <1>2
  <2> HIDE DEF old
  <2> QED BY <1>2, <1>4, <2>1
<1> HIDE DEF old
<1>7. PICK k \in 0 .. m : k = Cardinality(old)
  BY <1>4
<1>8. old \in SUBSET (DOMAIN st)
  BY <1>2, <1>4
<1>9. /\ Live(s) \in Seq(0..MaxClock) /\ Len(Live(s)) = m - k
      /\ \A i \in 1 .. m - k : Live(s)[i] = st[k + i]
  <2>1. /\ SubSeq(st, Cardinality(old) + 1, Len(st)) \in Seq(0..MaxClock)
        /\ Len(SubSeq(st, Cardinality(old) + 1, Len(st))) = Len(st) - Cardinality(old)
        /\ \A i \in 1 .. Len(st) - Cardinality(old) :
             SubSeq(st, Cardinality(old) + 1, Len(st))[i] = st[Cardinality(old) + i]
    BY <1>8, SuffixAfter
  <2> QED BY <1>2, <1>5, <1>7, <2>1
<1> QED BY <1>1, <1>2, <1>6, <1>7, <1>9

\* An entry `st` against the grants `g` of its session, of which the first `e` came
\* before its last eviction: it holds the latest ones, those it no longer holds are
\* outside the window, and no window held more than MaxRpm.
EntryFits(st, g, e, now) ==
  /\ Len(st) <= MaxRpm /\ e + Len(st) <= Len(g)
  /\ \A i \in 1 .. Len(st) : st[i] = g[Len(g) - Len(st) + i]
  /\ \A i \in 1 .. Len(g) : g[i] <= now
  /\ \A i, j \in 1 .. Len(g) : i <= j => g[i] <= g[j]
  /\ \A i \in e+1 .. Len(g) - Len(st) : now - g[i] >= Window
  /\ \A i \in e+1 .. Len(g) - MaxRpm : g[i + MaxRpm] - g[i] >= Window

Instants == Seq(0..MaxClock)

\* What is left of the entry after the retain still fits.
LEMMA RetainFits ==
  ASSUME NEW st \in Instants, NEW g \in Instants, NEW e \in Nat, NEW now \in 0..MaxClock,
         EntryFits(st, g, e, now), NEW live \in Instants, NEW k \in 0 .. Len(st),
         Len(live) = Len(st) - k,
         \A i \in 1 .. Len(st) - k : live[i] = st[k + i],
         \A i \in 1 .. Len(st) : now - st[i] >= Window <=> i <= k
  PROVE  /\ EntryFits(live, g, e, now)
         /\ \A i \in Len(g) - Len(live) + 1 .. Len(g) : now - g[i] < Window
<1> USE DEF Instants
<1>1. PICK n \in Nat, m \in Nat, c \in Nat : n = Len(g) /\ m = Len(st) /\ c = Len(live)
  OBVIOUS
<1>2. c = m - k /\ e + m <= n /\ k \in 0 .. m /\ c <= m
  BY <1>1 DEF EntryFits
<1>3. \A i \in 1 .. m : st[i] = g[n - m + i]
  BY <1>1 DEF EntryFits
<1>4. ASSUME NEW i \in 1 .. c PROVE live[i] = g[n - c + i]
  <2>1. k + i \in 1 .. m /\ i \in 1 .. m - k
    BY <1>2
  <2>2. live[i] = st[k + i] /\ st[k + i] = g[n - m + (k + i)]
    BY <1>1, <1>3, <2>1
  <2>3. n - m + (k + i) = n - c + i
    BY <1>2
  <2> QED BY <2>2, <2>3
<1>5. ASSUME NEW i \in e+1 .. n - c PROVE now - g[i] >= Window
  <2>1. CASE i <= n - m
    BY <1>1, <2>1 DEF EntryFits
  <2>2. CASE i > n - m
    <3>1. i - (n - m) \in 1 .. m /\ i - (n - m) <= k
      BY <1>2, <2>2
    <3>2. st[i - (n - m)] = g[n - m + (i - (n - m))]
      BY <1>3, <3>1
    <3>3. n - m + (i - (n - m)) = i
      BY <1>2
    <3> QED BY <1>1, <3>1, <3>2, <3>3
  <2> QED BY <1>2, <2>1, <2>2
<1>6. ASSUME NEW i \in n - c + 1 .. n PROVE now - g[i] < Window
  <2>1. i - (n - m) \in 1 .. m /\ ~(i - (n - m) <= k)
    BY <1>2
  <2>2. st[i - (n - m)] = g[n - m + (i - (n - m))]
    BY <1>3, <2>1
  <2>3. n - m + (i - (n - m)) = i
    BY <1>2
  <2>4. g[i] = st[i - (n - m)]
    BY <2>2, <2>3
  <2>5. i \in 1 .. n
    BY <1>2
  <2>6. g[i] \in 0..MaxClock
    BY <1>1, <2>5, ElementOfSeq
  <2>7. ~(now - g[i] >= Window)
    BY <1>1, <2>1, <2>4
  <2> QED BY <2>6, <2>7, LimiterAssumption
<1>7. Len(live) <= MaxRpm
  BY <1>1, <1>2, LimiterAssumption DEF EntryFits
<1> QED BY <1>1, <1>2, <1>4, <1>5, <1>6, <1>7 DEF EntryFits

\* A grant, given only while fewer than MaxRpm instants are live, fits.
LEMMA GrantFits ==
  ASSUME NEW st \in Instants, NEW g \in Instants, NEW e \in Nat, NEW now \in 0..MaxClock,
         EntryFits(st, g, e, now), Len(st) < MaxRpm
  PROVE  EntryFits(Append(st, now), Append(g, now), e, now)
<1> USE DEF Instants
<1>1. PICK n \in Nat, m \in Nat : n = Len(g) /\ m = Len(st)
  OBVIOUS
<1>2. PICK g2 \in Instants : g2 = Append(g, now)
  BY AppendProperties
<1>3. PICK st2 \in Instants : st2 = Append(st, now)
  BY AppendProperties
<1>4. /\ Len(g2) = n + 1 /\ g2[n + 1] = now /\ \A i \in 1 .. n : g2[i] = g[i]
      /\ Len(st2) = m + 1 /\ st2[m + 1] = now /\ \A i \in 1 .. m : st2[i] = st[i]
  BY <1>1, <1>2, <1>3, AppendProperties
<1>5. /\ e + m <= n /\ m < MaxRpm /\ MaxRpm \in Nat /\ Window \in Nat \ {0} /\ MaxClock \in Nat
  BY <1>1, LimiterAssumption DEF EntryFits
<1>6. /\ \A i \in 1 .. m : st[i] = g[n - m + i]
      /\ \A i \in 1 .. n : g[i] <= now
      /\ \A i, j \in 1 .. n : i <= j => g[i] <= g[j]
      /\ \A i \in e+1 .. n - m : now - g[i] >= Window
      /\ \A i \in e+1 .. n - MaxRpm : g[i + MaxRpm] - g[i] >= Window
  BY <1>1 DEF EntryFits
<1>7. \A i \in 1 .. m + 1 : st2[i] = g2[(n + 1) - (m + 1) + i]
  <2> TAKE i \in 1 .. m + 1
  <2>1. CASE i = m + 1
    <3>1. (n + 1) - (m + 1) + i = n + 1
      BY <2>1
    <3> QED BY <1>4, <2>1, <3>1
  <2>2. CASE i # m + 1
    <3>1. i \in 1 .. m /\ (n + 1) - (m + 1) + i = n - m + i /\ n - m + i \in 1 .. n
      BY <1>5, <2>2
    <3> QED BY <1>4, <1>6, <3>1
  <2> QED BY <2>1, <2>2
<1>8. ASSUME NEW i \in 1 .. n + 1 PROVE g2[i] <= now
  <2>1. CASE i = n + 1
    BY <1>4, <2>1
  <2>2. CASE i # n + 1
    <3>1. i \in 1 .. n
      BY <2>2
    <3> QED BY <1>4, <1>6, <3>1
  <2> QED BY <2>1, <2>2
<1>9. ASSUME NEW i \in 1 .. n + 1, NEW j \in 1 .. n + 1, i <= j PROVE g2[i] <= g2[j]
  <2>1. CASE j = n + 1
    BY <1>4, <1>8, <2>1
  <2>2. CASE j # n + 1
    <3>1. i \in 1 .. n /\ j \in 1 .. n
      BY <1>9, <2>2
    <3> QED BY <1>4, <1>6, <1>9, <3>1
  <2> QED BY <2>1, <2>2
<1>10. ASSUME NEW i \in e+1 .. (n + 1) - (m + 1) PROVE now - g2[i] >= Window
  <2>1. i \in e+1 .. n - m /\ i \in 1 .. n
    BY <1>5
  <2> QED BY <1>4, <1>6, <2>1
<1>11. ASSUME NEW i \in e+1 .. (n + 1) - MaxRpm PROVE g2[i + MaxRpm] - g2[i] >= Window
  <2>1. CASE i + MaxRpm = n + 1
    <3>1. i \in e+1 .. n - m /\ i \in 1 .. n
      BY <1>5, <2>1
    <3> QED BY <1>4, <1>6, <2>1, <3>1
  <2>2. CASE i + MaxRpm # n + 1
    <3>1. i \in e+1 .. n - MaxRpm /\ i \in 1 .. n /\ i + MaxRpm \in 1 .. n
      BY <1>5, <2>2
    <3> QED BY <1>4, <1>6, <3>1
  <2> QED BY <2>1, <2>2
<1>12. EntryFits(st2, g2, e, now)
  <2>1. m + 1 <= MaxRpm /\ e + (m + 1) <= n + 1
    BY <1>5
  <2> QED BY <1>4, <1>7, <1>8, <1>9, <1>10, <1>11, <2>1 DEF EntryFits
<1> QED BY <1>2, <1>3, <1>12

LimiterTypes ==
  /\ StampsOK
  /\ victims \in SUBSET Callers
  /\ granted \in [Callers -> Seq(0..MaxClock)]
  /\ evicted \in [Callers -> Nat]

\* The inductive invariant of the limiter: every entry fits its session's grants.
LimiterInv ==
  /\ LimiterTypes
  /\ MaxRpm > 0 => \A s \in Callers : EntryFits(stamps[s], granted[s], evicted[s], clock)

\* An entry that fits is ordered, so that the retain drops a prefix.
LEMMA FitsLive ==
  ASSUME LimiterInv, MaxRpm > 0, NEW s \in Callers
  PROVE  /\ Live(s) \in Instants /\ Len(Live(s)) <= Len(stamps[s])
         /\ EntryFits(Live(s), granted[s], evicted[s], clock)
         /\ \A i \in Len(granted[s]) - Len(Live(s)) + 1 .. Len(granted[s]) :
              clock - granted[s][i] < Window
<1>1. EntryFits(stamps[s], granted[s], evicted[s], clock)
  BY DEF LimiterInv
<1>2. PICK st \in Instants, g \in Instants, e \in Nat :
        st = stamps[s] /\ g = granted[s] /\ e = evicted[s]
  BY DEF LimiterInv, LimiterTypes, StampsOK, Instants
<1>3. PICK n \in Nat, m \in Nat : n = Len(g) /\ m = Len(st) /\ m <= n
  <2>1. Len(g) \in Nat /\ Len(st) \in Nat /\ e + Len(st) <= Len(g)
    BY <1>1, <1>2 DEF EntryFits, Instants
  <2> QED BY <2>1
<1>4. \A i \in 1 .. m : n - m + i \in 1 .. n /\ st[i] = g[n - m + i]
  <2>1. \A i \in 1 .. m : n - m + i \in 1 .. n
    BY <1>3
  <2>2. EntryFits(st, g, e, clock)
    BY <1>1, <1>2
  <2>3. \A i \in 1 .. m : st[i] = g[n - m + i]
    BY <1>3, <2>2 DEF EntryFits
  <2> QED BY <2>1, <2>3
<1>5. Ordered(s)
  <2>1. DOMAIN st = 1 .. m
    BY <1>3 DEF Instants
  <2>2. \A i \in 1 .. m : st[i] <= clock
    BY <1>1, <1>2, <1>3, <1>4 DEF EntryFits
  <2>3. ASSUME NEW i \in 1 .. m, NEW j \in 1 .. m, i <= j PROVE st[i] <= st[j]
    <3>1. n - m + i <= n - m + j
      BY <1>3, <2>3
    <3> QED BY <1>1, <1>2, <1>3, <1>4, <3>1 DEF EntryFits
  <2> QED BY <1>2, <2>1, <2>2, <2>3 DEF Ordered
<1>6. PICK k \in 0 .. Len(st) :
           /\ Live(s) \in Instants
           /\ Len(Live(s)) = Len(st) - k
           /\ \A i \in 1 .. Len(st) - k : Live(s)[i] = st[k + i]
           /\ \A i \in 1 .. Len(st) : clock - st[i] >= Window <=> i <= k
  <2>1. StampsOK
    BY DEF LimiterInv, LimiterTypes
  <2> QED BY <1>2, <1>5, <2>1, LiveRetains DEF Instants
<1>7. clock \in 0..MaxClock
  BY DEF LimiterInv, LimiterTypes, StampsOK
<1>8. /\ EntryFits(Live(s), g, e, clock)
      /\ \A i \in Len(g) - Len(Live(s)) + 1 .. Len(g) : clock - g[i] < Window
  BY <1>1, <1>2, <1>6, <1>7, RetainFits
<1>9. Len(Live(s)) <= Len(st)
  BY <1>3, <1>6
<1> QED BY <1>2, <1>6, <1>8, <1>9

\* A passing tick makes no entry unfit.
LEMMA LaterFits ==
  ASSUME NEW st \in Instants, NEW g \in Instants, NEW e \in Nat, NEW now \in 0..MaxClock,
         EntryFits(st, g, e, now)
  PROVE  EntryFits(st, g, e, now + 1)
<1> USE DEF Instants
<1>1. \A i \in 1 .. Len(g) : g[i] \in 0..MaxClock
  BY ElementOfSeq
<1>2. \A i \in 1 .. Len(g) : g[i] <= now + 1
  BY <1>1 DEF EntryFits
<1>3. ASSUME NEW i \in e+1 .. Len(g) - Len(st) PROVE (now + 1) - g[i] >= Window
  <2>1. i \in 1 .. Len(g)
    BY DEF EntryFits
  <2>2. g[i] \in 0..MaxClock /\ now - g[i] >= Window
    BY <1>1, <2>1 DEF EntryFits
  <2> QED BY <2>2, LimiterAssumption, SMTT(30)
<1> QED BY <1>2, <1>3 DEF EntryFits

\* An entry that the collector has just removed fits again.
LEMMA RemovedFits ==
  ASSUME NEW st \in Instants, NEW g \in Instants, NEW e \in Nat, NEW now \in 0..MaxClock,
         EntryFits(st, g, e, now)
  PROVE  EntryFits(<<>>, g, Len(g), now)
<1>1. Len(g) \in Nat /\ Len(<<>>) = 0 /\ MaxRpm \in Nat
  BY LimiterAssumption DEF Instants
<1> QED BY <1>1 DEF EntryFits

\* Requests, evictions and the clock keep the window and its stamps.
LEMMA LimiterStep == ASSUME LimiterInv, [LimiterNext]_limiterAllVars PROVE LimiterInv'
<1> USE DEF LimiterInv, LimiterTypes, StampsOK
<1>1. ASSUME NEW s \in Callers, Admit(s) PROVE LimiterInv'
  <2>1. /\ granted' = [granted EXCEPT ![s] = Append(@, clock)]
        /\ UNCHANGED <<clock, evicted, victims>>
    BY <1>1 DEF Admit, Grant
  <2>2. Append(granted[s], clock) \in Instants
    BY AppendProperties DEF Instants
  <2>3. CASE MaxRpm = 0
    BY <1>1, <2>1, <2>2, <2>3 DEF Admit, Grant, Instants
  <2>4. CASE MaxRpm > 0
    <3>1. /\ Live(s) \in Instants /\ EntryFits(Live(s), granted[s], evicted[s], clock)
      BY <2>4, FitsLive
    <3>2. Len(Live(s)) < MaxRpm /\ stamps' = [stamps EXCEPT ![s] = Append(Live(s), clock)]
      BY <1>1, <2>4 DEF Admit, Grant, HasSlot
    <3>3. EntryFits(Append(Live(s), clock), Append(granted[s], clock), evicted[s], clock)
      BY <3>1, <3>2, GrantFits DEF Instants
    <3>4. Append(Live(s), clock) \in Instants
      BY <3>1, AppendProperties DEF Instants
    <3>5. \A t \in Callers : EntryFits(stamps'[t], granted'[t], evicted'[t], clock')
      BY <2>1, <2>4, <3>2, <3>3
    <3>6. LimiterTypes'
      BY <2>1, <2>2, <3>2, <3>4 DEF Instants
    <3> QED BY <3>5, <3>6
  <2> QED BY <2>3, <2>4, LimiterAssumption
<1>2. ASSUME NEW s \in Callers, TurnAway(s) PROVE LimiterInv'
  <2>1. MaxRpm > 0
    BY <1>2, LimiterAssumption DEF TurnAway, Refuse, HasSlot
  <2>2. Live(s) \in Instants /\ EntryFits(Live(s), granted[s], evicted[s], clock)
    BY <2>1, FitsLive
  <2>3. stamps' = [stamps EXCEPT ![s] = Live(s)] /\ UNCHANGED <<clock, victims, granted, evicted>>
    BY <1>2 DEF TurnAway, Refuse, limiterHistory
  <2> QED BY <2>1, <2>2, <2>3 DEF Instants
<1>3. ASSUME NEW s \in Callers, Remove(s) PROVE LimiterInv'
  <2>1. /\ stamps' = [stamps EXCEPT ![s] = <<>>] /\ victims' \subseteq Callers
        /\ evicted' = [evicted EXCEPT ![s] = Len(granted[s])] /\ UNCHANGED <<clock, granted>>
    BY <1>3 DEF Remove, Evict
  <2>2. <<>> \in Seq(0..MaxClock) /\ Len(granted[s]) \in Nat
    OBVIOUS
  <2>3. MaxRpm > 0 => EntryFits(<<>>, granted[s], Len(granted[s]), clock)
    BY RemovedFits DEF Instants
  <2> QED BY <2>1, <2>2, <2>3
<1>4. CASE Choose
  BY <1>4 DEF Choose, ChooseVictims, EvictionChoices, Present, limiterHistory
<1>5. CASE Pass
  <2>1. clock' = clock + 1 /\ clock' \in 0..MaxClock /\ UNCHANGED <<limiterVars, limiterHistory>>
    BY <1>5, LimiterAssumption DEF Pass, Tick
  <2>2. ASSUME NEW s \in Callers, MaxRpm > 0
        PROVE  EntryFits(stamps[s], granted[s], evicted[s], clock + 1)
    BY <2>2, LaterFits DEF Instants
  <2> QED BY <2>1, <2>2 DEF limiterVars, limiterHistory
<1>6. CASE UNCHANGED limiterAllVars
  BY <1>6 DEF limiterAllVars, limiterVars, limiterHistory
<1> QED BY <1>1, <1>2, <1>3, <1>4, <1>5, <1>6 DEF LimiterNext

\* The empty limiter.
LEMMA LimiterBegins == LimiterStart => LimiterInv
<1> SUFFICES ASSUME LimiterStart PROVE LimiterInv
  OBVIOUS
<1>1. /\ clock = 0 /\ victims = {} /\ stamps = [s \in Callers |-> <<>>]
      /\ granted = [s \in Callers |-> <<>>] /\ evicted = [s \in Callers |-> 0]
  BY DEF LimiterStart, LimiterInit
<1>2. LimiterTypes
  BY <1>1, LimiterAssumption DEF LimiterTypes, StampsOK
<1>3. EntryFits(<<>>, <<>>, 0, 0)
  <2>1. Len(<<>>) = 0 /\ MaxRpm \in Nat
    BY LimiterAssumption
  <2> QED BY <2>1 DEF EntryFits
<1> QED BY <1>1, <1>2, <1>3 DEF LimiterInv

\* The limiter's inductive invariant.
LEMMA LimiterInvariant == LimiterSpec => []LimiterInv
BY LimiterBegins, LimiterStep, PTL DEF LimiterSpec

(* The window is exact, whatever the other sessions do and however the       *)
(* collector interleaves: no window holds more than MaxRpm requests of a     *)
(* session, and a request is refused only when its window is full (gateway.rs*)
(* 282-305, 179-185).                                                        *)
THEOREM WindowIsExact == LimiterSpec => []RateExact
<1>1. LimiterInv => RateExact
  <2> SUFFICES ASSUME LimiterInv, MaxRpm > 0, NEW s \in Callers
               PROVE  /\ \A i \in Remembered(s) :
                           i + MaxRpm \in DOMAIN granted[s]
                             => granted[s][i + MaxRpm] - granted[s][i] >= Window
                      /\ Len(Live(s)) =
                           Cardinality({i \in Remembered(s) : granted[s][i] + Window > clock})
    BY DEF RateExact
  <2>1. PICK g \in Instants, e \in Nat : g = granted[s] /\ e = evicted[s]
    BY DEF LimiterInv, LimiterTypes, Instants
  <2>2. PICK n \in Nat : n = Len(g) /\ DOMAIN g = 1 .. n
    BY DEF Instants
  <2>3. PICK c \in Nat : c = Len(Live(s))
    BY FitsLive DEF Instants
  <2>4. /\ EntryFits(Live(s), g, e, clock)
        /\ \A i \in n - c + 1 .. n : clock - g[i] < Window
    BY <2>1, <2>2, <2>3, FitsLive
  <2>5. e + c <= n
    BY <2>2, <2>3, <2>4 DEF EntryFits
  <2>6. \A i \in 1 .. n : g[i] \in 0..MaxClock
    BY <2>2, ElementOfSeq DEF Instants
  <2>7. ASSUME NEW i \in Remembered(s), i + MaxRpm \in DOMAIN granted[s]
        PROVE  granted[s][i + MaxRpm] - granted[s][i] >= Window
    <3>1. i \in e+1 .. n - MaxRpm
      BY <2>1, <2>2, <2>7, LimiterAssumption DEF Remembered
    <3> QED BY <2>1, <2>2, <2>4, <3>1 DEF EntryFits
  <2>8. {i \in Remembered(s) : granted[s][i] + Window > clock} = n - c + 1 .. n
    <3>1. ASSUME NEW i \in 1 .. n
          PROVE  i > e /\ g[i] + Window > clock <=> i \in n - c + 1 .. n
      <4>1. g[i] \in Int /\ clock \in Int /\ Window \in Int
        BY <2>6, LimiterAssumption DEF LimiterInv, LimiterTypes, StampsOK
      <4>2. CASE i \in n - c + 1 .. n
        BY <2>4, <2>5, <4>1, <4>2
      <4>3. CASE i <= e
        BY <2>5, <4>3
      <4>4. CASE i > e /\ i \notin n - c + 1 .. n
        <5>1. i \in e+1 .. n - c
          BY <2>5, <4>4
        <5>2. clock - g[i] >= Window
          BY <2>2, <2>3, <2>4, <5>1 DEF EntryFits
        <5> QED BY <4>1, <4>4, <5>2
      <4> QED BY <4>2, <4>3, <4>4
    <3>2. n - c + 1 .. n \subseteq 1 .. n
      BY <2>5
    <3> QED BY <2>1, <2>2, <3>1, <3>2 DEF Remembered
  <2>9. Cardinality(n - c + 1 .. n) = c
    <3>1. n - c + 1 \in Int /\ (n - c + 1 > n <=> c = 0)
      OBVIOUS
    <3> QED BY <3>1, FS_Interval
  <2> QED BY <2>3, <2>7, <2>8, <2>9
<1> QED BY <1>1, LimiterInvariant, PTL

\* The removals outstanding, in the map and few enough.
CapInv == IsFiniteSet(Present) /\ EvictsOverflowOnly

\* What a request does to the map: an entry may appear, none goes.
LEMMA RequestsOnlyAdd ==
  ASSUME LimiterInv, NEW s \in Callers, Grant(s) \/ Refuse(s)
  PROVE  UNCHANGED victims /\ (Present' = Present \/ Present' = Present \cup {s})
<1>1. CASE Grant(s)
  <2>1. CASE MaxRpm = 0
    BY <1>1, <2>1 DEF Grant, Present
  <2>2. CASE MaxRpm # 0
    <3>1. Append(Live(s), clock) # <<>> /\ stamps' = [stamps EXCEPT ![s] = Append(Live(s), clock)]
      <4>1. Live(s) \in Seq(0..MaxClock)
        BY <2>2, FitsLive, LimiterAssumption DEF Instants
      <4>2. Append(Live(s), clock) # <<>>
        <5>1. clock \in 0..MaxClock
          BY DEF LimiterInv, LimiterTypes, StampsOK
        <5>2. PICK q \in Seq(0..MaxClock) : q = Live(s)
          BY <4>1
        <5>3. Len(Append(q, clock)) = Len(q) + 1 /\ Len(q) \in Nat
          BY <5>1, <5>2, AppendProperties
        <5>4. Len(Append(q, clock)) # 0
          BY <5>3
        <5> QED BY <5>2, <5>4
      <4> QED BY <1>1, <2>2, <4>2 DEF Grant
    <3>2. Present' = Present \cup {s}
      BY <3>1 DEF Present, LimiterInv, LimiterTypes, StampsOK
    <3> QED BY <1>1, <3>2 DEF Grant
  <2> QED BY <2>1, <2>2
<1>2. CASE Refuse(s)
  <2>1. MaxRpm > 0 /\ ~(Len(Live(s)) < MaxRpm)
    BY <1>2, LimiterAssumption DEF Refuse, HasSlot
  <2>2. Live(s) \in Seq(0..MaxClock) /\ Len(Live(s)) <= Len(stamps[s])
    BY <2>1, FitsLive DEF Instants
  <2>3. Live(s) # <<>> /\ stamps[s] # <<>>
    BY <2>1, <2>2, LimiterAssumption DEF LimiterInv, LimiterTypes, StampsOK
  <2> QED BY <1>2, <2>3 DEF Refuse, Present, LimiterInv, LimiterTypes, StampsOK
<1> QED BY <1>1, <1>2

\* No step leaves fewer sessions than the map may hold.
LEMMA CapStep == ASSUME LimiterInv, CapInv, [LimiterNext]_limiterAllVars PROVE CapInv'
<1>1. ASSUME NEW s \in Callers, Admit(s) \/ TurnAway(s) PROVE CapInv'
  <2>1. UNCHANGED victims /\ (Present' = Present \/ Present' = Present \cup {s})
    BY <1>1, RequestsOnlyAdd DEF Admit, TurnAway
  <2>2. IsFiniteSet(Present') /\ Cardinality(Present') >= Cardinality(Present)
    <3>1. Cardinality(Present) \in Nat /\ IsFiniteSet(Present)
      BY FS_CardinalityType DEF CapInv
    <3>2. CASE Present' = Present
      BY <3>1, <3>2
    <3>3. CASE Present' = Present \cup {s}
      <4>1. /\ IsFiniteSet(Present \cup {s})
            /\ s \in Present => Cardinality(Present \cup {s}) = Cardinality(Present)
            /\ s \notin Present => Cardinality(Present \cup {s}) = Cardinality(Present) + 1
        BY <3>1, FS_AddElement
      <4> QED BY <3>1, <3>3, <4>1
    <3> QED BY <2>1, <3>2, <3>3
  <2>3. victims # {} => IsFiniteSet(victims)
    BY FS_Subset DEF CapInv, EvictsOverflowOnly
  <2> QED BY <2>1, <2>2, <2>3, FS_CardinalityType, LimiterAssumption
          DEF CapInv, EvictsOverflowOnly
<1>2. ASSUME NEW s \in Callers, Remove(s) PROVE CapInv'
  <2>1. s \in victims /\ victims' = victims \ {s} /\ stamps' = [stamps EXCEPT ![s] = <<>>]
    BY <1>2 DEF Remove, Evict
  <2>2. victims \subseteq Present /\ Cardinality(Present) >= MaxEntries + Cardinality(victims)
    BY <2>1 DEF CapInv, EvictsOverflowOnly
  <2>3. Present' = Present \ {s}
    BY <2>1 DEF Present, LimiterInv, LimiterTypes, StampsOK
  <2>4. /\ IsFiniteSet(Present') /\ Cardinality(Present') = Cardinality(Present) - 1
        /\ Cardinality(Present) \in Nat
    BY <2>1, <2>2, <2>3, FS_RemoveElement, FS_CardinalityType DEF CapInv
  <2>5. Cardinality(victims') = Cardinality(victims) - 1 /\ Cardinality(victims) \in Nat
    BY <2>1, <2>2, FS_Subset, FS_RemoveElement, FS_CardinalityType DEF CapInv
  <2>6. victims' \subseteq Present'
    BY <2>1, <2>2, <2>3
  <2> QED BY <2>2, <2>4, <2>5, <2>6, LimiterAssumption DEF CapInv, EvictsOverflowOnly
<1>3. CASE Choose
  <2>1. /\ victims' \subseteq Present /\ Cardinality(victims') = Overflow
        /\ UNCHANGED stamps
    BY <1>3 DEF Choose, ChooseVictims, EvictionChoices
  <2>2. Present' = Present
    BY <2>1 DEF Present
  <2>3. ASSUME victims' # {} PROVE Cardinality(Present) >= MaxEntries + Cardinality(victims')
    <3>1. IsFiniteSet(victims') /\ Cardinality(victims') \in Nat /\ Cardinality(victims') # 0
      BY <2>1, <2>3, FS_Subset, FS_CardinalityType, FS_EmptySet DEF CapInv
    <3>2. Cardinality(Present) \in Nat
      BY FS_CardinalityType DEF CapInv
    <3> QED BY <2>1, <3>1, <3>2, LimiterAssumption DEF Overflow
  <2> QED BY <2>1, <2>2, <2>3 DEF CapInv, EvictsOverflowOnly
<1>4. CASE Pass \/ UNCHANGED limiterAllVars
  BY <1>4 DEF Pass, limiterAllVars, limiterVars, CapInv, EvictsOverflowOnly, Present
<1> QED BY <1>1, <1>2, <1>3, <1>4 DEF LimiterNext

(* The collector never leaves fewer sessions remembered than the map may     *)
(* hold, although requests create and refresh entries between its snapshot   *)
(* and its last removal (gateway.rs 35-61, 179-185).                         *)
THEOREM EvictionIsBounded == LimiterSpec => []EvictsOverflowOnly
<1>1. LimiterStart => CapInv
  <2> SUFFICES ASSUME LimiterStart PROVE CapInv
    OBVIOUS
  <2>1. Present = {} /\ victims = {}
    BY DEF LimiterStart, LimiterInit, Present
  <2> QED BY <2>1, FS_EmptySet DEF CapInv, EvictsOverflowOnly
<1>2. LimiterInv /\ CapInv /\ [LimiterNext]_limiterAllVars => CapInv'
  BY CapStep
<1>3. CapInv => EvictsOverflowOnly
  BY DEF CapInv
<1> QED BY <1>1, <1>2, <1>3, LimiterInvariant, PTL DEF LimiterSpec

\* The types and bounds of the limiter.
LEMMA LimiterTypesHold == LimiterInv => LimiterTypeOK
BY LimiterAssumption DEF LimiterInv, LimiterTypes, StampsOK, LimiterTypeOK, EntryFits

-----------------------------------------------------------------------------
(* The cache of recent ids.                                                  *)

CacheInv == recent \in Seq(Ids) /\ Len(recent) <= Capacity /\ Distinct(recent)

\* A known id moves to the end of the cache.
LEMMA RefreshIs ==
  ASSUME CacheInv, NEW id, IsDuplicate(id), Offer(id)
  PROVE  \E i \in DOMAIN recent : recent[i] = id /\ recent' = ToEnd(recent, i)
<1> DEFINE i == CHOOSE j \in DOMAIN recent : recent[j] = id
<1>1. i \in DOMAIN recent /\ recent[i] = id
  BY DEF IsDuplicate, Elements
<1>2. recent' = ToEnd(recent, i)
  BY <1>1 DEF Offer, Refresh, Without, Place, ToEnd
<1> HIDE DEF i
<1> QED BY <1>1, <1>2

\* A new id is put at the end, the least recent one of a full cache goes.
LEMMA RememberIs ==
  ASSUME CacheInv, NEW id \in Ids, ~IsDuplicate(id), Offer(id)
  PROVE  \E k \in {0, 1} :
           /\ k = 1 <=> Len(recent) = Capacity
           /\ recent' \in Seq(Ids) /\ Len(recent') = Len(recent) - k + 1
           /\ \A j \in 1 .. Len(recent) - k : recent'[j] = recent[j + k]
           /\ recent'[Len(recent) - k + 1] = id
<1>1. recent' = Append(IF Len(recent) = Capacity THEN Tail(recent) ELSE recent, id)
  BY DEF Offer, Remember
<1>2. recent \in Seq(Ids) /\ Capacity \in Nat \ {0}
  BY RecentAssumption DEF CacheInv
<1>3. CASE Len(recent) = Capacity
  <2>1. /\ Tail(recent) \in Seq(Ids) /\ Len(Tail(recent)) = Len(recent) - 1
        /\ \A j \in 1 .. Len(recent) - 1 : Tail(recent)[j] = recent[j + 1]
    BY <1>2, <1>3
  <2>2. recent' = Append(Tail(recent), id)
    BY <1>1, <1>3
  <2>3. /\ recent' \in Seq(Ids) /\ Len(recent') = Len(recent) - 1 + 1
        /\ \A j \in 1 .. Len(recent) - 1 : recent'[j] = recent[j + 1]
        /\ recent'[Len(recent) - 1 + 1] = id
    BY <2>1, <2>2, AppendProperties
  <2> QED BY <1>3, <2>3
<1>4. CASE Len(recent) # Capacity
  <2>1. recent' = Append(recent, id)
    BY <1>1, <1>4
  <2>2. /\ recent' \in Seq(Ids) /\ Len(recent') = Len(recent) - 0 + 1
        /\ \A j \in 1 .. Len(recent) - 0 : recent'[j] = recent[j + 0]
        /\ recent'[Len(recent) - 0 + 1] = id
    BY <1>2, <2>1, AppendProperties
  <2> QED BY <1>4, <2>2
<1> QED BY <1>3, <1>4

\* What the history says of the cache: where an id was last offered, and that
\* only ids with a later place in the cache were offered since; as long as the
\* cache is not full it holds every id offered.
Offers == [id : Ids, accepted : BOOLEAN]

LastOffer(r, tr, p, j) ==
  /\ tr[j].id = r[p]
  /\ \A k \in j+1 .. Len(tr) : \E q \in p+1 .. Len(r) : tr[k].id = r[q]

Remembers(r, tr) ==
  /\ \A p \in 1 .. Len(r) : \E j \in 1 .. Len(tr) : LastOffer(r, tr, p, j)
  /\ Len(r) = Capacity \/ \A k \in 1 .. Len(tr) : \E q \in 1 .. Len(r) : tr[k].id = r[q]

RecentInv == CacheInv /\ trail \in Seq(Offers) /\ Remembers(recent, trail)

\* A known id moves to the end, whatever came before it keeps its order.
LEMMA RemembersRefreshed ==
  ASSUME NEW r \in Seq(Ids), NEW tr \in Seq(Offers), Remembers(r, tr),
         NEW i \in 1 .. Len(r), NEW o \in Offers, o.id = r[i]
  PROVE  Remembers(ToEnd(r, i), Append(tr, o))
<1>1. PICK n \in Nat : n = Len(r) /\ DOMAIN r = 1 .. n
  OBVIOUS
<1>2. PICK N \in Nat : N = Len(tr)
  OBVIOUS
<1>3. PICK u \in Seq(Offers) :
        /\ u = Append(tr, o) /\ Len(u) = N + 1 /\ u[N + 1] = o
        /\ \A k \in 1 .. N : u[k] = tr[k]
  <2>1. Append(tr, o) \in Seq(Offers)
    BY AppendProperties
  <2>2. Len(Append(tr, o)) = N + 1 /\ Append(tr, o)[N + 1] = o
    BY <1>2, AppendProperties
  <2>3. \A k \in 1 .. N : Append(tr, o)[k] = tr[k]
    BY <1>2, AppendProperties
  <2> QED BY <2>1, <2>2, <2>3
<1>4. PICK s \in Seq(Ids) :
        /\ s = ToEnd(r, i) /\ Len(s) = n
        /\ \A j \in 1 .. i-1 : s[j] = r[j]
        /\ \A j \in i .. n-1 : s[j] = r[j + 1]
        /\ s[n] = r[i]
  <2>1. i \in DOMAIN r
    OBVIOUS
  <2>2. /\ ToEnd(r, i) \in Seq(Ids) /\ Len(ToEnd(r, i)) = Len(r)
        /\ \A j \in 1 .. i-1 : ToEnd(r, i)[j] = r[j]
        /\ \A j \in i .. Len(r)-1 : ToEnd(r, i)[j] = r[j+1]
        /\ ToEnd(r, i)[Len(r)] = r[i]
    BY <2>1, ToEndIs
  <2> QED BY <1>1, <2>2
<1> DEFINE was(p) == IF p < i THEN p ELSE p + 1
<1>5. ASSUME NEW p \in 1 .. n - 1, NEW q \in was(p) + 1 .. n
      PROVE  \E q2 \in p+1 .. n : s[q2] = r[q]
  <2>1. CASE q < i
    BY <1>1, <1>4, <1>5, <2>1
  <2>2. CASE q = i
    BY <1>1, <1>4, <1>5, <2>2
  <2>3. CASE q > i
    <3>1. q - 1 \in p+1 .. n /\ q - 1 \in i .. n-1 /\ q - 1 + 1 = q
      BY <1>1, <1>5, <2>3
    <3>2. s[q - 1] = r[q - 1 + 1]
      BY <1>4, <3>1
    <3> QED BY <3>1, <3>2
  <2> QED BY <1>1, <1>5, <2>1, <2>2, <2>3
<1>6. ASSUME NEW p \in 1 .. n PROVE \E j \in 1 .. N + 1 : LastOffer(s, u, p, j)
  <2>1. CASE p = n
    <3>1. u[N + 1].id = s[p]
      BY <1>3, <1>4, <2>1
    <3> QED BY <1>3, <3>1 DEF LastOffer
  <2>2. CASE p # n
    <3>1. p \in 1 .. n - 1 /\ was(p) \in 1 .. n /\ s[p] = r[was(p)]
      BY <1>1, <1>4, <2>2
    <3>2. PICK j \in 1 .. N : LastOffer(r, tr, was(p), j)
      BY <1>1, <1>2, <3>1 DEF Remembers
    <3>3. u[j].id = s[p]
      BY <1>3, <3>1, <3>2 DEF LastOffer
    <3>4. ASSUME NEW k \in j+1 .. N+1 PROVE \E q2 \in p+1 .. n : u[k].id = s[q2]
      <4>1. CASE k = N + 1
        BY <1>3, <1>4, <3>1, <4>1
      <4>2. CASE k # N + 1
        <5>1. k \in j+1 .. N /\ u[k] = tr[k]
          <6>1. k \in j+1 .. N /\ k \in 1 .. N
            BY <4>2
          <6> QED BY <1>3, <6>1
        <5>2. PICK q \in was(p)+1 .. n : tr[k].id = r[q]
          BY <1>1, <1>2, <3>2, <5>1 DEF LastOffer
        <5>3. PICK q2 \in p+1 .. n : s[q2] = r[q]
          BY <1>5, <3>1
        <5> QED BY <5>1, <5>2, <5>3
      <4> QED BY <4>1, <4>2
    <3>5. LastOffer(s, u, p, j)
      BY <1>3, <1>4, <3>3, <3>4, ZenonT(30) DEF LastOffer
    <3>6. j \in 1 .. N + 1
      OBVIOUS
    <3> QED BY <3>5, <3>6
  <2> QED BY <2>1, <2>2
<1>7. n = Capacity \/ \A k \in 1 .. N + 1 : \E q \in 1 .. n : u[k].id = s[q]
  <2> SUFFICES ASSUME n # Capacity, NEW k \in 1 .. N + 1
               PROVE  \E q \in 1 .. n : u[k].id = s[q]
    OBVIOUS
  <2>1. CASE k = N + 1
    BY <1>1, <1>3, <1>4, <2>1
  <2>2. CASE k # N + 1
    <3>1. k \in 1 .. N /\ u[k] = tr[k]
      BY <1>3, <2>2
    <3>2. PICK q \in 1 .. n : tr[k].id = r[q]
      BY <1>1, <1>2, <3>1 DEF Remembers
    <3>3. q < i => s[q] = r[q] /\ q \in 1 .. n
      BY <1>1, <1>4
    <3>4. q > i => s[q - 1] = r[q - 1 + 1] /\ q - 1 + 1 = q /\ q - 1 \in 1 .. n
      BY <1>1, <1>4
    <3>5. q = i => s[n] = r[q] /\ n \in 1 .. n
      BY <1>1, <1>4
    <3>6. q < i \/ q = i \/ q > i
      BY <1>1
    <3> QED BY <3>1, <3>2, <3>3, <3>4, <3>5, <3>6
  <2> QED BY <2>1, <2>2
<1> QED BY <1>3, <1>4, <1>6, <1>7 DEF Remembers

\* A new id comes last; the first one goes if the cache is full.
LEMMA RemembersAdded ==
  ASSUME NEW r \in Seq(Ids), NEW tr \in Seq(Offers), Remembers(r, tr), Len(r) <= Capacity,
         NEW k0 \in {0, 1}, k0 = 1 <=> Len(r) = Capacity,
         NEW s \in Seq(Ids), Len(s) = Len(r) - k0 + 1,
         \A j \in 1 .. Len(r) - k0 : s[j] = r[j + k0],
         NEW o \in Offers, o.id = s[Len(r) - k0 + 1]
  PROVE  Remembers(s, Append(tr, o))
<1>1. PICK n \in Nat : n = Len(r) /\ DOMAIN r = 1 .. n
  OBVIOUS
<1>2. PICK N \in Nat : N = Len(tr)
  OBVIOUS
<1>3. PICK u \in Seq(Offers) :
        /\ u = Append(tr, o) /\ Len(u) = N + 1 /\ u[N + 1] = o
        /\ \A k \in 1 .. N : u[k] = tr[k]
  <2>1. Append(tr, o) \in Seq(Offers)
    BY AppendProperties
  <2>2. Len(Append(tr, o)) = N + 1 /\ Append(tr, o)[N + 1] = o
    BY <1>2, AppendProperties
  <2>3. \A k \in 1 .. N : Append(tr, o)[k] = tr[k]
    BY <1>2, AppendProperties
  <2> QED BY <2>1, <2>2, <2>3
<1>4. PICK m \in Nat : m = n - k0 + 1 /\ m = Len(s) /\ m >= 1
  <2>1. k0 \in Nat /\ k0 <= 1 /\ (k0 = 1 => n >= 1)
    BY <1>1, RecentAssumption
  <2>2. n - k0 + 1 \in Nat /\ n - k0 + 1 >= 1
    BY <2>1
  <2> QED BY <1>1, <2>2
<1>5. s[m] = o.id /\ \A j \in 1 .. m - 1 : s[j] = r[j + k0]
  BY <1>1, <1>4
<1>6. ASSUME NEW p \in 1 .. m PROVE \E j \in 1 .. N + 1 : LastOffer(s, u, p, j)
  <2>1. CASE p = m
    <3>1. u[N + 1].id = s[p]
      BY <1>3, <1>5, <2>1
    <3> QED BY <1>3, <3>1 DEF LastOffer
  <2>2. CASE p # m
    <3>1. p \in 1 .. m - 1 /\ p + k0 \in 1 .. n /\ s[p] = r[p + k0]
      <4>1. p \in 1 .. m - 1 /\ k0 \in Nat
        BY <1>4, <2>2
      <4>2. p + k0 \in 1 .. n
        BY <1>4, <4>1
      <4> QED BY <1>5, <4>1, <4>2
    <3>2. PICK j \in 1 .. N : LastOffer(r, tr, p + k0, j)
      BY <1>1, <1>2, <3>1 DEF Remembers
    <3>3. u[j].id = s[p]
      BY <1>3, <3>1, <3>2 DEF LastOffer
    <3>4. ASSUME NEW k \in j+1 .. N+1 PROVE \E q2 \in p+1 .. m : u[k].id = s[q2]
      <4>1. CASE k = N + 1
        BY <1>3, <1>5, <3>1, <4>1
      <4>2. CASE k # N + 1
        <5>1. k \in j+1 .. N /\ u[k] = tr[k]
          <6>1. k \in j+1 .. N /\ k \in 1 .. N
            BY <4>2
          <6> QED BY <1>3, <6>1
        <5>2. PICK q \in p + k0 + 1 .. n : tr[k].id = r[q]
          BY <1>1, <1>2, <3>2, <5>1 DEF LastOffer
        <5>3. q - k0 \in p+1 .. m /\ q - k0 \in 1 .. m - 1 /\ q - k0 + k0 = q
          BY <1>1, <1>4, <3>1
        <5>4. s[q - k0] = r[q]
          BY <1>5, <5>3
        <5> QED BY <5>1, <5>2, <5>3, <5>4
      <4> QED BY <4>1, <4>2
    <3>5. LastOffer(s, u, p, j)
      BY <1>3, <1>4, <3>3, <3>4, ZenonT(30) DEF LastOffer
    <3>6. j \in 1 .. N + 1
      OBVIOUS
    <3> QED BY <3>5, <3>6
  <2> QED BY <2>1, <2>2
<1>7. m = Capacity \/ \A k \in 1 .. N + 1 : \E q \in 1 .. m : u[k].id = s[q]
  <2>1. CASE k0 = 1
    BY <1>1, <1>4, <2>1
  <2>2. CASE k0 = 0
    <3> SUFFICES ASSUME NEW k \in 1 .. N + 1 PROVE \E q \in 1 .. m : u[k].id = s[q]
      OBVIOUS
    <3>1. CASE k = N + 1
      BY <1>3, <1>4, <1>5, <3>1
    <3>2. CASE k # N + 1
      <4>1. k \in 1 .. N /\ u[k] = tr[k]
        BY <1>3, <3>2
      <4>2. PICK q \in 1 .. n : tr[k].id = r[q]
        BY <1>1, <1>2, <2>2, <4>1 DEF Remembers
      <4>3. q \in 1 .. m /\ s[q] = r[q]
        BY <1>1, <1>4, <1>5, <2>2
      <4> QED BY <4>1, <4>2, <4>3
    <3> QED BY <3>1, <3>2
  <2> QED BY <2>1, <2>2
<1>8. Len(s) = m /\ Len(u) = N + 1 /\ u = Append(tr, o)
  BY <1>3, <1>4
<1> QED BY <1>6, <1>7, <1>8, ZenonT(30) DEF Remembers

\* An offer keeps the cache in the order of the last uses.
LEMMA RecentStep == ASSUME RecentInv, [RecentNext]_recentVars PROVE RecentInv'
<1>1. CASE UNCHANGED recentVars
  BY <1>1 DEF recentVars, RecentInv, CacheInv, Distinct, Remembers, LastOffer
<1>2. ASSUME NEW id \in Ids, Offer(id),
             trail' = Append(trail, [id |-> id, accepted |-> ~IsDuplicate(id)])
      PROVE  RecentInv'
  <2> DEFINE o == [id |-> id, accepted |-> ~IsDuplicate(id)]
  <2>1. o \in Offers /\ o.id = id /\ trail' = Append(trail, o)
    BY <1>2 DEF Offers, IsDuplicate
  <2> HIDE DEF o
  <2>2. trail' \in Seq(Offers)
    BY <2>1, AppendProperties DEF RecentInv
  <2>3. CASE IsDuplicate(id)
    <3>1. PICK i \in DOMAIN recent : recent[i] = id /\ recent' = ToEnd(recent, i)
      BY <1>2, <2>3, RefreshIs DEF RecentInv
    <3>2. recent \in Seq(Ids) /\ i \in 1 .. Len(recent)
      BY <3>1 DEF RecentInv, CacheInv
    <3>3. recent' \in Seq(Ids) /\ Len(recent') = Len(recent)
      BY <3>1, <3>2, ToEndIs
    <3>4. Distinct(recent')
      BY <3>1, <3>2, ToEndKeeps DEF RecentInv, CacheInv
    <3>5. Remembers(recent', trail')
      BY <2>1, <3>1, <3>2, RemembersRefreshed DEF RecentInv
    <3> QED BY <2>2, <3>3, <3>4, <3>5 DEF RecentInv, CacheInv, Distinct, Remembers, LastOffer
  <2>4. CASE ~IsDuplicate(id)
    <3>1. PICK k \in {0, 1} :
            /\ k = 1 <=> Len(recent) = Capacity
            /\ recent' \in Seq(Ids) /\ Len(recent') = Len(recent) - k + 1
            /\ \A j \in 1 .. Len(recent) - k : recent'[j] = recent[j + k]
            /\ recent'[Len(recent) - k + 1] = id
      BY <1>2, <2>4, RememberIs DEF RecentInv
    <3>2. recent \in Seq(Ids) /\ Len(recent) <= Capacity /\ Distinct(recent)
      BY DEF RecentInv, CacheInv
    <3>3. Remembers(recent', trail')
      BY <2>1, <3>1, <3>2, RemembersAdded DEF RecentInv
    <3>4. PICK n \in Nat : n = Len(recent) /\ DOMAIN recent = 1 .. n
      BY <3>2
    <3>5. Len(recent') <= Capacity
      BY <3>1, <3>2, <3>4, RecentAssumption
    <3>6. Distinct(recent')
      <4>1. \A j \in 1 .. n : recent[j] # id
        BY <2>4, <3>4 DEF IsDuplicate, Elements
      <4>2. PICK m \in Nat : m = n - k + 1 /\ DOMAIN recent' = 1 .. m
        BY <3>1, <3>4
      <4>3. \A j \in 1 .. m - 1 : j + k \in 1 .. n /\ recent'[j] = recent[j + k] /\ recent'[j] # id
        BY <3>1, <3>4, <4>1, <4>2
      <4>4. recent'[m] = id
        BY <3>1, <3>4, <4>2
      <4> SUFFICES ASSUME NEW a \in 1 .. m, NEW b \in 1 .. m, recent'[a] = recent'[b]
                   PROVE  a = b
        BY <4>2 DEF Distinct
      <4>5. CASE a = m \/ b = m
        BY <4>3, <4>4, <4>5
      <4>6. CASE a \in 1 .. m - 1 /\ b \in 1 .. m - 1
        <5>1. a + k \in 1 .. n /\ b + k \in 1 .. n /\ recent[a + k] = recent[b + k]
          BY <4>3, <4>6
        <5>2. a + k = b + k
          BY <3>2, <3>4, <5>1 DEF Distinct
        <5> QED BY <5>2
      <4> QED BY <4>5, <4>6
    <3> QED BY <2>2, <3>1, <3>3, <3>5, <3>6 DEF RecentInv, CacheInv, Distinct, Remembers, LastOffer
  <2> QED BY <2>3, <2>4
<1> QED BY <1>1, <1>2 DEF RecentNext

\* The empty cache.
LEMMA RecentStart == RecentInit => RecentInv
BY RecentAssumption DEF RecentInit, RecentInv, CacheInv, Distinct, Remembers, LastOffer

\* The inductive invariant of the cache.
LEMMA RecentInvariant == RecentSpec => []RecentInv
BY RecentStart, RecentStep, PTL DEF RecentSpec

\* Whether the offer at i of a history was rightly accepted.
JudgedAt(tr, i) ==
  tr[i].accepted <=>
    \A j \in 1 .. i-1 :
      (tr[j].id = tr[i].id /\ \A k \in j+1 .. i-1 : tr[k].id # tr[i].id)
        => Cardinality({tr[k].id : k \in j+1 .. i-1}) >= Capacity

\* The reference definition, stated offer by offer.
LEMMA ExactIs ==
  ASSUME trail \in Seq(Offers)
  PROVE  DedupExact <=> \A i \in DOMAIN trail : JudgedAt(trail, i)
<1>1. DOMAIN trail = 1 .. Len(trail) /\ Len(trail) \in Nat
  OBVIOUS
<1>2. \A i \in 1 .. Len(trail) : \A j \in 1 .. i-1 : j < i
  BY <1>1
<1> QED BY <1>1, <1>2 DEF DedupExact, JudgedAt, IsPrevious, IdsBetween

\* What a later offer adds does not change how an earlier one was judged.
LEMMA JudgedBefore ==
  ASSUME NEW tr \in Seq(Offers), NEW u \in Seq(Offers), NEW i \in 1 .. Len(tr),
         \A k \in 1 .. Len(tr) : u[k] = tr[k], JudgedAt(tr, i)
  PROVE  JudgedAt(u, i)
<1>1. PICK N \in Nat : N = Len(tr) /\ i \in 1 .. N
  OBVIOUS
<1>2. \A k \in 1 .. i : u[k] = tr[k]
  BY <1>1
<1>3. ASSUME NEW j \in 1 .. i-1
      PROVE  /\ u[j].id = tr[j].id
             /\ \A k \in j+1 .. i-1 : u[k] = tr[k]
             /\ {u[k].id : k \in j+1 .. i-1} = {tr[k].id : k \in j+1 .. i-1}
  <2>1. \A k \in j+1 .. i-1 : k \in 1 .. i
    BY <1>1
  <2>2. j \in 1 .. i
    BY <1>1
  <2> QED BY <1>2, <2>1, <2>2
<1>4. u[i] = tr[i]
  BY <1>1, <1>2
<1> QED BY <1>3, <1>4, SMTT(30) DEF JudgedAt

\* The cache judges as the history demands.
LEMMA OfferJudged ==
  ASSUME NEW r \in Seq(Ids), Distinct(r), Len(r) <= Capacity,
         NEW tr \in Seq(Offers), Remembers(r, tr),
         NEW u, \A k \in 1 .. Len(tr) : u[k] = tr[k],
         u[Len(tr) + 1].accepted <=> \A q \in 1 .. Len(r) : r[q] # u[Len(tr) + 1].id
  PROVE  JudgedAt(u, Len(tr) + 1)
<1>1. PICK n \in Nat : n = Len(r) /\ DOMAIN r = 1 .. n /\ n <= Capacity
  OBVIOUS
<1>2. PICK N \in Nat : N = Len(tr)
  OBVIOUS
<1> DEFINE x == u[N + 1].id
           between(j) == {u[k].id : k \in j+1 .. N}
           previous(j) == u[j].id = x /\ \A k \in j+1 .. N : u[k].id # x
<1>3. \A k \in 1 .. N : u[k] = tr[k]
  BY <1>2
<1>4. ASSUME NEW q \in 1 .. n, r[q] = x
      PROVE  \E j \in 1 .. N : previous(j) /\ ~(Cardinality(between(j)) >= Capacity)
  <2>1. PICK j \in 1 .. N : LastOffer(r, tr, q, j)
    BY <1>1, <1>2 DEF Remembers
  <2>2. \A k \in j+1 .. N : k \in 1 .. N
    OBVIOUS
  <2>3. u[j].id = x
    BY <1>3, <1>4, <2>1 DEF LastOffer
  <2>4. \A k \in j+1 .. N : \E p \in q+1 .. n : u[k].id = r[p]
    BY <1>1, <1>2, <1>3, <2>1, <2>2 DEF LastOffer
  <2>5. \A p \in q+1 .. n : r[p] # x
    BY <1>1, <1>4 DEF Distinct
  <2>6. previous(j)
    BY <2>3, <2>4, <2>5
  <2>7. between(j) \subseteq {r[p] : p \in q+1 .. n}
    BY <2>4
  <2>8. IsFiniteSet(q+1 .. n) /\ Cardinality(q+1 .. n) = n - q
    <3>1. q+1 > n => n - q = 0
      BY <1>1
    <3>2. q+1 \in Int /\ n \in Int /\ n - (q+1) + 1 = n - q
      BY <1>1
    <3> QED BY <3>1, <3>2, FS_Interval
  <2>9. IsFiniteSet({r[p] : p \in q+1 .. n}) /\ Cardinality({r[p] : p \in q+1 .. n}) <= n - q
    <3> DEFINE f == [p \in q+1 .. n |-> r[p]]
    <3>1. f \in [q+1 .. n -> Ids] /\ Range(f) = {r[p] : p \in q+1 .. n}
      BY <1>1 DEF Range
    <3> HIDE DEF f
    <3>2. IsFiniteSet(Range(f)) /\ Cardinality(Range(f)) <= Cardinality(q+1 .. n)
      BY <2>8, <3>1, RangeBound, Zenon
    <3> QED BY <2>8, <3>1, <3>2
  <2>10. Cardinality(between(j)) <= Cardinality({r[p] : p \in q+1 .. n})
    BY <2>7, <2>9, FS_Subset
  <2>11. IsFiniteSet(between(j)) /\ Cardinality(between(j)) \in Nat
         /\ Cardinality({r[p] : p \in q+1 .. n}) \in Nat
    BY <2>7, <2>9, FS_Subset, FS_CardinalityType
  <2> HIDE DEF between
  <2>12. ~(Cardinality(between(j)) >= Capacity)
    BY <1>1, <2>9, <2>10, <2>11, RecentAssumption
  <2> QED BY <2>6, <2>12
<1>5. ASSUME \A q \in 1 .. n : r[q] # x, NEW j \in 1 .. N, u[j].id = x
      PROVE  Cardinality(between(j)) >= Capacity
  <2>1. tr[j].id = x
    BY <1>3, <1>5
  <2>2. n = Capacity
    BY <1>1, <1>2, <1>5, <2>1 DEF Remembers
  <2>3. ASSUME NEW q \in 1 .. n PROVE r[q] \in between(j)
    <3>1. PICK l \in 1 .. N : LastOffer(r, tr, q, l)
      BY <1>1, <1>2 DEF Remembers
    <3>2. tr[l].id = r[q] /\ \A k \in l+1 .. N : \E p \in q+1 .. n : tr[k].id = r[p]
      BY <1>1, <1>2, <3>1 DEF LastOffer
    <3>3. \A p \in q+1 .. n : p \in 1 .. n
      OBVIOUS
    <3>4. j \notin l+1 .. N
      BY <1>5, <2>1, <3>2, <3>3
    <3>5. l # j
      BY <1>5, <2>1, <3>2
    <3>6. l \in j+1 .. N
      BY <3>4, <3>5
    <3> QED BY <1>3, <3>2, <3>6
  <2>4. IsFiniteSet(j+1 .. N)
    BY FS_Interval
  <2>5. IsFiniteSet(between(j))
    <3> DEFINE f == [k \in j+1 .. N |-> u[k].id]
    <3>1. f \in [j+1 .. N -> between(j)] /\ Range(f) = between(j)
      BY DEF Range
    <3> HIDE DEF f, between
    <3>2. IsFiniteSet(Range(f))
      BY <2>4, <3>1, RangeBound, Zenon
    <3> QED BY <3>1, <3>2
  <2> HIDE DEF between
  <2>6. r \in Seq(between(j))
    BY <1>1, <2>3
  <2>7. Len(r) <= Cardinality(between(j))
    BY <2>5, <2>6, DistinctBound
  <2> QED BY <1>1, <2>2, <2>5, <2>7, FS_CardinalityType
<1>6. u[N + 1].accepted <=> \A j \in 1 .. N : previous(j) => Cardinality(between(j)) >= Capacity
  <2>1. u[N + 1].accepted <=> \A q \in 1 .. n : r[q] # x
    BY <1>1, <1>2
  <2> HIDE DEF between
  <2> QED BY <1>4, <1>5, <2>1
<1>7. N + 1 - 1 = N
  OBVIOUS
<1> QED BY <1>2, <1>6, <1>7 DEF JudgedAt

(* Every message is judged as the reference definition demands: a redelivery *)
(* is dropped for as long as fewer than Capacity other ids came since, a new *)
(* id is always let in (gateway.rs 216-225).                                 *)
THEOREM DedupIsExact == RecentSpec => []DedupExact
<1>1. RecentInit => DedupExact
  BY DEF RecentInit, DedupExact
<1>2. RecentInv /\ DedupExact /\ [RecentNext]_recentVars => DedupExact'
  <2> SUFFICES ASSUME RecentInv, DedupExact, [RecentNext]_recentVars PROVE DedupExact'
    OBVIOUS
  <2>1. CASE UNCHANGED recentVars
    <3>1. \A i \in DOMAIN trail' : JudgedAt(trail', i)
      BY <2>1, ExactIs DEF recentVars, RecentInv
    <3>2. DOMAIN trail' = 1 .. Len(trail') /\ Len(trail') \in Nat
      BY <2>1 DEF recentVars, RecentInv
    <3>3. \A i \in 1 .. Len(trail') : \A j \in 1 .. i-1 : j < i
      BY <3>2
    <3> QED BY <3>1, <3>2, <3>3 DEF DedupExact, JudgedAt, IsPrevious, IdsBetween
  <2>2. ASSUME NEW id \in Ids,
               trail' = Append(trail, [id |-> id, accepted |-> ~IsDuplicate(id)])
        PROVE  DedupExact'
    <3>1. PICK tr \in Seq(Offers) : tr = trail
      BY DEF RecentInv
    <3>2. PICK u \in Seq(Offers) :
            /\ u = trail' /\ Len(u) = Len(tr) + 1
            /\ \A k \in 1 .. Len(tr) : u[k] = tr[k]
            /\ u[Len(tr) + 1] = [id |-> id, accepted |-> ~IsDuplicate(id)]
      <4> DEFINE o == [id |-> id, accepted |-> ~IsDuplicate(id)]
      <4>1. o \in Offers
        BY DEF Offers, IsDuplicate
      <4> HIDE DEF o
      <4>2. /\ Append(tr, o) \in Seq(Offers) /\ Len(Append(tr, o)) = Len(tr) + 1
            /\ \A k \in 1 .. Len(tr) : Append(tr, o)[k] = tr[k]
            /\ Append(tr, o)[Len(tr) + 1] = o
        BY <4>1, AppendProperties
      <4>3. trail' = Append(tr, o)
        BY <2>2, <3>1 DEF o
      <4> QED BY <4>2, <4>3 DEF o
    <3>3. \A i \in 1 .. Len(tr) : JudgedAt(tr, i)
      BY <3>1, ExactIs DEF RecentInv
    <3>4. \A i \in 1 .. Len(tr) : JudgedAt(u, i)
      BY <3>2, <3>3, JudgedBefore
    <3>5. PICK r \in Seq(Ids) : r = recent /\ Distinct(r) /\ Len(r) <= Capacity
      BY DEF RecentInv, CacheInv
    <3>6. u[Len(tr) + 1].accepted <=> \A q \in 1 .. Len(r) : r[q] # u[Len(tr) + 1].id
      <4>1. IsDuplicate(id) <=> \E q \in 1 .. Len(r) : r[q] = id
        BY <3>5 DEF IsDuplicate, Elements
      <4>2. u[Len(tr) + 1].id = id /\ u[Len(tr) + 1].accepted = ~IsDuplicate(id)
        BY <3>2
      <4> QED BY <4>1, <4>2
    <3>7. JudgedAt(u, Len(tr) + 1)
      BY <3>1, <3>2, <3>5, <3>6, OfferJudged DEF RecentInv
    <3>8. \A i \in DOMAIN u : JudgedAt(u, i)
      <4>1. DOMAIN u = 1 .. Len(tr) + 1 /\ Len(tr) \in Nat
        BY <3>2
      <4>2. \A i \in DOMAIN u : i \in 1 .. Len(tr) \/ i = Len(tr) + 1
        BY <4>1
      <4> QED BY <3>4, <3>7, <4>2
    <3>9. \A i \in DOMAIN trail' : JudgedAt(trail', i)
      BY <3>2, <3>8
    <3>10. DOMAIN trail' = 1 .. Len(trail') /\ Len(trail') \in Nat
      BY <3>2
    <3>11. \A i \in 1 .. Len(trail') : \A j \in 1 .. i-1 : j < i
      BY <3>10
    <3> QED BY <3>9, <3>10, <3>11 DEF DedupExact, JudgedAt, IsPrevious, IdsBetween
  <2> QED BY <2>1, <2>2 DEF RecentNext
<1> QED BY <1>1, <1>2, RecentInvariant, PTL DEF RecentSpec

\* The types and the bound of the cache hold in every state.
LEMMA RecentTypesHold == RecentInv => RecentTypeOK
BY DEF RecentInv, CacheInv, RecentTypeOK, Offers

-----------------------------------------------------------------------------
(* The Feishu socket.                                                        *)

SeenIds == {e \in Events : seen[e] # NoEvent}
PassedIds == {e \in Events : passed[e] # NoEvent}

\* 2^k counts the subsets of 1..k.
LEMMA PowerOfTwo == \A k \in Nat : 2^k \in Nat
<1> SUFFICES ASSUME NEW k \in Nat PROVE 2^k \in Nat
  OBVIOUS
<1>1. IsFiniteSet(1 .. k) /\ Cardinality(1 .. k) = k
  BY FS_Interval
<1>2. Cardinality(SUBSET (1 .. k)) = 2^k /\ IsFiniteSet(SUBSET (1 .. k))
  BY <1>1, FS_SUBSET
<1> QED BY <1>2, FS_CardinalityType

\* What the cap of seen_ids leaves is among the young entries and within it.
LEMMA KeptIs ==
  ASSUME IsFiniteSet(SeenIds), NEW K \in Kept
  PROVE  /\ K \subseteq Young /\ IsFiniteSet(K) /\ Cardinality(K) <= SeenCap
         /\ \/ K = Young
            \/ Cardinality(K) = SeenKeep /\ \A k \in K, e \in Young \ K : seen[k] <= seen[e]
<1>1. Young \subseteq SeenIds
  BY DEF Young, SeenIds
<1>2. K \subseteq Young
  BY DEF Kept
<1>3. IsFiniteSet(Young) /\ IsFiniteSet(K) /\ Cardinality(Young) \in Nat
  BY <1>1, <1>2, FS_Subset, FS_CardinalityType
<1>4. CASE Cardinality(Young) <= SeenCap
  BY <1>2, <1>3, <1>4 DEF Kept
<1>5. CASE ~(Cardinality(Young) <= SeenCap)
  BY <1>2, <1>3, <1>5, SocketAssumption DEF Kept
<1> QED BY <1>4, <1>5

\* How a step treats the deduplication: it leaves it alone, lets time pass,
\* or comes from a whole frame.
LEMMA DedupChanges ==
  ASSUME [SocketNext]_socketVars
  PROVE  \/ UNCHANGED <<seen, passed>> /\ (holding' = holding \/ holding' = NoEvent)
         \/ SocketTick
         \/ \E f \in Frames : \E K \in Kept :
              /\ ReadFrame(f) /\ Dedup(f.event, K)
              /\ \/ holding' = holding
                 \/ f.event \notin K /\ holding' = f.event
<1>1. ASSUME NEW f \in Frames, ReadFrame(f)
      PROVE  \/ UNCHANGED <<seen, passed, holding>>
             \/ \E K \in Kept : /\ ReadFrame(f) /\ Dedup(f.event, K)
                                /\ \/ holding' = holding
                                   \/ f.event \notin K /\ holding' = f.event
  BY <1>1 DEF ReadFrame
<1> QED BY <1>1 DEF SocketNext, socketVars, socketHistory, link, Connect, ConnectFails, Wake,
           ConnectionLost, HeartbeatTimeout, SendFails, Leave, PeerVanishes, Ping, Hear, Send,
           GatewayReturns

\* What a frame consists of.
LEMMA FrameIs ==
  ASSUME NEW f \in Frames
  PROVE  /\ f = [event |-> f.event, sum |-> f.sum, part |-> f.part, alone |-> f.alone]
         /\ f.event \in Events /\ f.sum \in Splits[f.event] /\ f.sum \in Nat \ {0}
         /\ f.part \in 1 .. f.sum
         /\ f.alone = TRUE \/ (f.alone = FALSE /\ f.sum # 1)
<1>0. PICK e \in Events : \E n \in Splits[e] : f \in FramesOf(e, n)
  BY DEF Frames
<1>1. PICK n \in Splits[e] : f \in FramesOf(e, n)
  BY <1>0
<1>2. f.alone = TRUE \/ (f.alone = FALSE /\ n # 1)
  <2>1. CASE n = 1
    BY <1>1, <2>1 DEF FramesOf
  <2>2. CASE n # 1
    <3>1. f.alone \in BOOLEAN
      BY <1>1, <2>2, Zenon DEF FramesOf
    <3> QED BY <2>2, <3>1
  <2> QED BY <2>1, <2>2
<1>3. /\ f = [event |-> f.event, sum |-> f.sum, part |-> f.part, alone |-> f.alone]
      /\ f.event = e /\ f.sum = n /\ f.part \in 1 .. n
  BY <1>1 DEF FramesOf
<1> QED BY <1>2, <1>3, SocketAssumption

\* The types of the two maps of ages, and their finite supports.
AgesOK ==
  /\ seen \in [Events -> 0..SeenWindow \cup {NoEvent}]
  /\ passed \in [Events -> 0..SeenWindow \cup {NoEvent}]
  /\ IsFiniteSet(SeenIds) /\ IsFiniteSet(PassedIds)
  /\ Cardinality(SeenIds) <= SeenCap + 1

\* Every step keeps the ages within their bounds.
LEMMA AgesStep == ASSUME AgesOK, [SocketNext]_socketVars PROVE AgesOK'
<1>1. CASE UNCHANGED <<seen, passed>>
  BY <1>1 DEF AgesOK, SeenIds, PassedIds
<1>2. CASE SocketTick
  <2>1. \A e \in Events : /\ seen'[e] = Older(seen[e], SeenWindow)
                          /\ passed'[e] = Older(passed[e], SeenWindow)
    BY <1>2 DEF SocketTick
  <2>2. \A a \in 0..SeenWindow \cup {NoEvent} :
          /\ Older(a, SeenWindow) \in 0..SeenWindow \cup {NoEvent}
          /\ Older(a, SeenWindow) = NoEvent <=> a = NoEvent
    BY SocketAssumption DEF Older, Least
  <2>3. SeenIds' = SeenIds /\ PassedIds' = PassedIds
    BY <2>1, <2>2 DEF AgesOK, SeenIds, PassedIds
  <2>4. /\ seen' \in [Events -> 0..SeenWindow \cup {NoEvent}]
        /\ passed' \in [Events -> 0..SeenWindow \cup {NoEvent}]
    BY <1>2, <2>2 DEF AgesOK, SocketTick
  <2> QED BY <2>3, <2>4 DEF AgesOK
<1>3. ASSUME NEW f \in Frames, NEW K \in Kept, Dedup(f.event, K) PROVE AgesOK'
  <2>1. PICK d \in Events : d = f.event
    BY FrameIs
  <2>2. K \subseteq Young /\ IsFiniteSet(K) /\ Cardinality(K) <= SeenCap
    BY KeptIs DEF AgesOK
  <2>3. Young \subseteq SeenIds
    BY DEF Young, SeenIds
  <2>4. seen' = [x \in Events |-> IF x \in K THEN seen[x] ELSE IF x = d THEN 0 ELSE NoEvent]
        /\ passed' = IF d \in K THEN passed ELSE [passed EXCEPT ![d] = 0]
    BY <1>3, <2>1 DEF Dedup
  <2>5. /\ seen' \in [Events -> 0..SeenWindow \cup {NoEvent}]
        /\ passed' \in [Events -> 0..SeenWindow \cup {NoEvent}]
    BY <2>4, SocketAssumption DEF AgesOK
  <2>6. SeenIds' \subseteq K \cup {d} /\ PassedIds' \subseteq PassedIds \cup {d}
    BY <2>4 DEF AgesOK, SeenIds, PassedIds
  <2>7. IsFiniteSet(K \cup {d}) /\ Cardinality(K \cup {d}) <= SeenCap + 1
    <3>1. Cardinality(K) \in Nat
      BY <2>2, FS_CardinalityType
    <3>2. /\ IsFiniteSet(K \cup {d})
          /\ Cardinality(K \cup {d}) = Cardinality(K) \/ Cardinality(K \cup {d}) = Cardinality(K) + 1
      BY <2>2, FS_AddElement
    <3> QED BY <2>2, <3>1, <3>2, SocketAssumption
  <2>8. IsFiniteSet(PassedIds \cup {d})
    BY FS_AddElement DEF AgesOK
  <2>9. IsFiniteSet(SeenIds') /\ IsFiniteSet(PassedIds') /\ Cardinality(SeenIds') <= SeenCap + 1
    <3>1. IsFiniteSet(SeenIds') /\ Cardinality(SeenIds') <= Cardinality(K \cup {d})
      BY <2>6, <2>7, FS_Subset
    <3>2. IsFiniteSet(PassedIds')
      BY <2>6, <2>8, FS_Subset
    <3>3. Cardinality(SeenIds') \in Nat /\ Cardinality(K \cup {d}) \in Nat
      BY <2>7, <3>1, FS_CardinalityType
    <3> QED BY <2>7, <3>1, <3>2, <3>3, SocketAssumption
  <2> QED BY <2>5, <2>9 DEF AgesOK
<1> QED BY <1>1, <1>2, <1>3, DedupChanges

\* The other messages whose last passage is no longer ago than that of e.
Since(e) == {x \in Events \ {e} : passed[x] # NoEvent /\ passed[x] <= passed[e]}

\* An entry tells when its message passed last; one that is missing within the
\* window gave way to SeenKeep others.
SeenTrue ==
  /\ AgesOK
  /\ \A e \in Events : seen[e] # NoEvent => seen[e] = passed[e]
  /\ \A e \in Events :
       passed[e] # NoEvent /\ passed[e] < SeenWindow /\ seen[e] = NoEvent
         => Cardinality(Since(e)) >= SeenKeep

\* The emergency cap drops an entry only for SeenKeep that are no older.
LEMMA DropIsCounted ==
  ASSUME SeenTrue, NEW K \in Kept, NEW e \in Young \ K
  PROVE  K \subseteq Since(e) /\ Cardinality(Since(e)) >= SeenKeep
<1>1. /\ K \subseteq Young /\ IsFiniteSet(K)
      /\ Cardinality(K) = SeenKeep /\ \A k \in K : seen[k] <= seen[e]
  BY KeptIs DEF SeenTrue, AgesOK
<1>2. \A k \in Young : k \in Events /\ seen[k] # NoEvent /\ seen[k] = passed[k]
  BY DEF Young, SeenTrue
<1>3. K \subseteq Since(e)
  BY <1>1, <1>2 DEF Since
<1>4. IsFiniteSet(Since(e))
  <2>1. Since(e) \subseteq PassedIds
    BY DEF Since, PassedIds
  <2> QED BY <2>1, FS_Subset DEF SeenTrue, AgesOK
<1>5. Cardinality(K) <= Cardinality(Since(e))
  BY <1>3, <1>4, FS_Subset
<1> QED BY <1>1, <1>3, <1>5

\* Every step keeps what seen_ids knows of the messages handed over.
LEMMA SeenStep == ASSUME SeenTrue, [SocketNext]_socketVars PROVE SeenTrue'
<1>1. AgesOK'
  BY AgesStep DEF SeenTrue
<1>2. CASE UNCHANGED <<seen, passed>>
  BY <1>1, <1>2 DEF SeenTrue, Since
<1>3. CASE SocketTick
  <2>1. \A e \in Events : /\ seen'[e] = Older(seen[e], SeenWindow)
                          /\ passed'[e] = Older(passed[e], SeenWindow)
    BY <1>3 DEF SocketTick
  <2>2. ASSUME NEW a \in 0..SeenWindow
        PROVE  /\ Older(a, SeenWindow) \in 0..SeenWindow /\ Older(a, SeenWindow) # NoEvent
               /\ Older(a, SeenWindow) < SeenWindow => Older(a, SeenWindow) = a + 1
               /\ Older(a, SeenWindow) <= a + 1
    BY SocketAssumption DEF Older, Least
  <2>3. Older(NoEvent, SeenWindow) = NoEvent
    BY DEF Older
  <2>4. \A e \in Events : /\ seen[e] = NoEvent \/ seen[e] \in 0..SeenWindow
                          /\ passed[e] = NoEvent \/ passed[e] \in 0..SeenWindow
    BY DEF SeenTrue, AgesOK
  <2>5. ASSUME NEW e \in Events, seen'[e] # NoEvent PROVE seen'[e] = passed'[e]
    BY <2>1, <2>3, <2>5 DEF SeenTrue
  <2>6. ASSUME NEW e \in Events,
               passed'[e] # NoEvent /\ passed'[e] < SeenWindow /\ seen'[e] = NoEvent
        PROVE  Cardinality(Since(e)') >= SeenKeep
    <3>1. passed[e] \in 0..SeenWindow /\ passed'[e] = passed[e] + 1 /\ seen[e] = NoEvent
      BY <2>1, <2>2, <2>3, <2>4, <2>6
    <3>2. passed[e] # NoEvent /\ passed[e] < SeenWindow
      BY <2>6, <3>1, SocketAssumption
    <3>3. Cardinality(Since(e)) >= SeenKeep
      BY <3>1, <3>2 DEF SeenTrue
    <3>4. Since(e) \subseteq Since(e)'
      <4> SUFFICES ASSUME NEW x \in Events, x # e, passed[x] # NoEvent, passed[x] <= passed[e]
                   PROVE  passed'[x] # NoEvent /\ passed'[x] <= passed'[e]
        BY DEF Since
      <4>1. passed[x] \in 0..SeenWindow
        BY <2>4
      <4>2. passed'[x] \in 0..SeenWindow /\ passed'[x] # NoEvent /\ passed'[x] <= passed[x] + 1
        BY <2>1, <2>2, <4>1
      <4> QED BY <3>1, <4>1, <4>2
    <3>5. IsFiniteSet(Since(e)')
      <4>1. Since(e)' \subseteq PassedIds'
        BY DEF Since, PassedIds
      <4> QED BY <1>1, <4>1, FS_Subset DEF AgesOK
    <3>6. /\ Cardinality(Since(e)) <= Cardinality(Since(e)') /\ IsFiniteSet(Since(e))
      BY <3>4, <3>5, FS_Subset
    <3>7. Cardinality(Since(e)) \in Nat /\ Cardinality(Since(e)') \in Nat
      BY <3>5, <3>6, FS_CardinalityType
    <3> QED BY <3>3, <3>6, <3>7, SocketAssumption
  <2> QED BY <1>1, <2>5, <2>6 DEF SeenTrue
<1>4. ASSUME NEW f \in Frames, NEW K \in Kept, Dedup(f.event, K) PROVE SeenTrue'
  <2>1. PICK d \in Events : d = f.event
    BY FrameIs
  <2>2. seen' = [x \in Events |-> IF x \in K THEN seen[x] ELSE IF x = d THEN 0 ELSE NoEvent]
        /\ passed' = IF d \in K THEN passed ELSE [passed EXCEPT ![d] = 0]
    BY <1>4, <2>1 DEF Dedup
  <2>3. \A x \in Events : passed'[x] = passed[x] \/ (x = d /\ d \notin K /\ passed'[x] = 0)
    BY <2>2 DEF SeenTrue, AgesOK
  <2>4. d \notin K => passed'[d] = 0
    BY <2>2 DEF SeenTrue, AgesOK
  <2>5. ASSUME NEW e \in Events, seen'[e] # NoEvent PROVE seen'[e] = passed'[e]
    <3>1. CASE e \in K
      BY <2>2, <2>3, <2>5, <3>1 DEF SeenTrue
    <3>2. CASE e \notin K
      BY <2>2, <2>4, <2>5, <3>2
    <3> QED BY <3>1, <3>2
  <2>6. ASSUME NEW e \in Events,
               passed'[e] # NoEvent /\ passed'[e] < SeenWindow /\ seen'[e] = NoEvent
        PROVE  Cardinality(Since(e)') >= SeenKeep
    <3>1. K \subseteq Young
      BY KeptIs DEF SeenTrue, AgesOK
    <3>2. e \notin K
      BY <2>2, <2>6, <3>1 DEF Young
    <3>3. e # d /\ passed'[e] = passed[e]
      BY <2>2, <2>3, <2>6, <3>2, SocketAssumption
    <3>4. Cardinality(Since(e)) >= SeenKeep
      <4>1. CASE e \in Young
        BY <3>2, <4>1, DropIsCounted
      <4>2. CASE e \notin Young
        <5>1. seen[e] = NoEvent
          BY <2>6, <3>3, <4>2 DEF Young, SeenTrue
        <5> QED BY <2>6, <3>3, <5>1 DEF SeenTrue
      <4> QED BY <4>1, <4>2
    <3>5. Since(e) \subseteq Since(e)'
      <4> SUFFICES ASSUME NEW x \in Events, x # e, passed[x] # NoEvent, passed[x] <= passed[e]
                   PROVE  passed'[x] # NoEvent /\ passed'[x] <= passed'[e]
        BY DEF Since
      <4>1. passed[e] \in 0..SeenWindow
        BY <2>6, <3>3 DEF SeenTrue, AgesOK
      <4> QED BY <2>3, <3>3, <4>1, SocketAssumption
    <3>6. IsFiniteSet(Since(e)')
      <4>1. Since(e)' \subseteq PassedIds'
        BY DEF Since, PassedIds
      <4> QED BY <1>1, <4>1, FS_Subset DEF AgesOK
    <3>7. /\ Cardinality(Since(e)) <= Cardinality(Since(e)') /\ IsFiniteSet(Since(e))
      BY <3>5, <3>6, FS_Subset
    <3>8. Cardinality(Since(e)) \in Nat /\ Cardinality(Since(e)') \in Nat
      BY <3>6, <3>7, FS_CardinalityType
    <3> QED BY <3>4, <3>7, <3>8, SocketAssumption
  <2> QED BY <1>1, <2>5, <2>6 DEF SeenTrue
<1> QED BY <1>2, <1>3, <1>4, DedupChanges

\* Nothing was seen before the first connection.
LEMMA SeenStart == SocketInit => SeenTrue
<1> SUFFICES ASSUME SocketInit PROVE SeenTrue
  OBVIOUS
<1>1. SeenIds = {} /\ PassedIds = {}
  BY DEF SocketInit, SeenIds, PassedIds
<1>2. IsFiniteSet({}) /\ Cardinality({}) = 0
  BY FS_EmptySet
<1> QED BY <1>1, <1>2, SocketAssumption DEF SocketInit, SeenTrue, AgesOK

\* The inductive invariant of seen_ids.
LEMMA SeenInvariant == SocketSpec => []SeenTrue
BY SeenStart, SeenStep, PTL DEF SocketSpec

(* A redelivery reaches the gateway again only after the window, or after    *)
(* SeenKeep other messages: reconnections in between make no difference, as  *)
(* seen_ids outlives them (ws.rs 45, 262-280).                               *)
THEOREM RedeliveryDropped == SocketSpec => SocketDedup
<1> DEFINE Passing == \A e \in Events :
             holding = NoEvent /\ holding' = e /\ passed[e] # NoEvent /\ passed[e] < SeenWindow
               => Cardinality({x \in Events \ {e} : passed[x] # NoEvent /\ passed[x] <= passed[e]})
                    >= SeenKeep
<1>1. SeenTrue /\ [SocketNext]_socketVars => [Passing]_socketVars
  <2> SUFFICES ASSUME SeenTrue, [SocketNext]_socketVars, NEW e \in Events,
                      holding = NoEvent /\ holding' = e,
                      passed[e] # NoEvent /\ passed[e] < SeenWindow
               PROVE  Cardinality(Since(e)) >= SeenKeep
    BY DEF Since
  <2>1. PICK f \in Frames, K \in Kept : f.event \notin K /\ f.event = e
    <3>1. e # NoEvent
      BY SocketAssumption
    <3> QED BY <3>1, DedupChanges DEF SocketTick
  <2>2. CASE e \in Young
    BY <2>1, <2>2, DropIsCounted
  <2>3. CASE e \notin Young
    <3>1. seen[e] = NoEvent
      BY <2>3 DEF Young, SeenTrue
    <3> QED BY <3>1 DEF SeenTrue
  <2> QED BY <2>2, <2>3
<1> QED BY <1>1, SeenInvariant, PTL DEF SocketSpec, SocketDedup

\* The state of the connection.
LinkOK ==
  /\ conn \in {"down", "waiting", "up", "sending"}
  /\ attempt \in 0..MaxShift /\ wait \in 0..MaxDelay
  /\ dead \in BOOLEAN /\ silent \in 0..Heartbeat+1
  /\ holding \in Events \cup {NoEvent} /\ (holding # NoEvent <=> conn = "sending")
  /\ frames \in 0..MaxFrames

\* Every step keeps the state of the connection in its types.
LEMMA LinkStep == ASSUME LinkOK, [SocketNext]_socketVars PROVE LinkOK'
<1> USE SocketAssumption DEF LinkOK
<1>1. CASE ConnectFails
  <2>1. Least(attempt + 1, MaxShift) \in 0..MaxShift
    BY DEF Least
  <2>2. ASSUME NEW n \in 0..MaxShift PROVE ReconnectDelay(n) \in 0..MaxDelay
    <3>1. Least(n, MaxShift) \in Nat
      BY DEF Least
    <3>2. PICK d \in Nat : d = 2^Least(n, MaxShift)
      BY <3>1, PowerOfTwo
    <3> QED BY <3>2 DEF ReconnectDelay, Least
  <2>3. attempt' = Least(attempt + 1, MaxShift) /\ wait' = ReconnectDelay(attempt')
    BY <1>1 DEF ConnectFails
  <2> QED BY <1>1, <2>1, <2>2, <2>3 DEF ConnectFails
<1>2. ASSUME NEW f \in Frames, ReadFrame(f) PROVE LinkOK'
  <2>1. f.event \in Events /\ f.event # NoEvent
    BY FrameIs
  <2>2. /\ conn = "up" /\ frames' \in 0..MaxFrames /\ silent' = 0
        /\ UNCHANGED <<attempt, wait, dead>>
        /\ UNCHANGED <<conn, holding>> \/ (conn' = "sending" /\ holding' = f.event)
    BY <1>2 DEF ReadFrame
  <2> QED BY <2>1, <2>2
<1>3. CASE SocketTick
  BY <1>3 DEF SocketTick, Least
<1>4. CASE Connect
  <2>1. dead' \in BOOLEAN
    BY <1>4, Zenon DEF Connect
  <2>2. conn = "down" /\ conn' = "up" /\ silent' = 0 /\ UNCHANGED <<attempt, wait, holding, frames>>
    BY <1>4 DEF Connect
  <2> QED BY <2>1, <2>2
<1>8. CASE Wake
  BY <1>8 DEF Wake
<1>6. CASE ConnectionLost \/ HeartbeatTimeout \/ SendFails
  <2>1. Leave
    BY <1>6 DEF ConnectionLost, HeartbeatTimeout, SendFails
  <2> QED BY <2>1 DEF Leave
<1>7. CASE PeerVanishes
  BY <1>7 DEF PeerVanishes
<1>5. CASE Ping \/ Hear \/ Send \/ GatewayReturns \/ UNCHANGED socketVars
  BY <1>5 DEF Ping, Hear, Send, GatewayReturns, socketVars, link
<1> QED BY <1>1, <1>2, <1>3, <1>4, <1>5, <1>6, <1>7, <1>8 DEF SocketNext

\* A cached message: the parts of one split of it, all acknowledged on this
\* connection.
PartsAcked(e) ==
  /\ frags[e].sum \in Splits[e]
  /\ \A p \in frags[e].parts :
       [event |-> e, sum |-> frags[e].sum, part |-> p, alone |-> FALSE] \in acked

FragsOK ==
  /\ frags \in [Events -> FragEntry \cup {NoEvent}]
  /\ acked \subseteq Frames
  /\ \A e \in Events : frags[e] # NoEvent => PartsAcked(e)

\* How a step treats the fragments.
LEMMA FragChanges ==
  ASSUME [SocketNext]_socketVars
  PROVE  \/ UNCHANGED <<frags, acked>>
         \/ frags' = [e \in Events |-> NoEvent] /\ acked' = {} /\ conn = "down" /\ UNCHANGED holding
         \/ Ping
         \/ SocketTick
         \/ \E f \in Frames : ReadFrame(f)
BY DEF SocketNext, socketVars, socketHistory, link, Connect, ConnectFails, Wake,
       ConnectionLost, HeartbeatTimeout, SendFails, Leave, PeerVanishes, Hear, Send, GatewayReturns

\* The entry that a frame finds or begins.
LEMMA EntryIs ==
  ASSUME FragsOK, NEW f \in Frames, f.alone = FALSE
  PROVE  /\ Entry(f) \in FragEntry /\ Entry(f).sum = f.sum
         /\ \A p \in Parts(f) :
              /\ p \in Nat
              /\ [event |-> f.event, sum |-> f.sum, part |-> p, alone |-> FALSE] \in acked \cup {f}
<1>0. /\ f = [event |-> f.event, sum |-> f.sum, part |-> f.part, alone |-> f.alone]
      /\ f.event \in Events /\ f.sum \in Nat \ {0} /\ f.part \in 1 .. f.sum
  BY FrameIs
<1>1. /\ f.event \in Events /\ f.sum \in Nat /\ f.part \in Nat
      /\ f = [event |-> f.event, sum |-> f.sum, part |-> f.part, alone |-> FALSE]
  BY <1>0
<1>2. CASE frags[f.event] # NoEvent /\ frags[f.event].sum = f.sum
  <2>1. Entry(f) = frags[f.event]
    BY <1>2 DEF Entry
  <2>2. frags[f.event] \in FragEntry /\ PartsAcked(f.event)
    BY <1>1, <1>2 DEF FragsOK
  <2>3. \A p \in frags[f.event].parts :
           p \in Nat /\ [event |-> f.event, sum |-> f.sum, part |-> p, alone |-> FALSE] \in acked
    BY <1>2, <2>2 DEF PartsAcked, FragEntry
  <2> QED BY <1>1, <1>2, <2>1, <2>2, <2>3 DEF Parts
<1>3. CASE ~(frags[f.event] # NoEvent /\ frags[f.event].sum = f.sum)
  <2>1. Entry(f) = [sum |-> f.sum, parts |-> {}, age |-> 0]
    BY <1>3 DEF Entry, NewEntry
  <2>2. Entry(f) \in FragEntry
    BY <1>1, <2>1, SocketAssumption DEF FragEntry
  <2> QED BY <1>1, <2>1, <2>2 DEF Parts
<1> QED BY <1>2, <1>3

\* Every step keeps the fragments those of messages sent on this connection.
LEMMA FragStep == ASSUME FragsOK, [SocketNext]_socketVars PROVE FragsOK'
<1>1. CASE UNCHANGED <<frags, acked>>
  BY <1>1 DEF FragsOK, PartsAcked
<1>2. CASE frags' = [e \in Events |-> NoEvent] /\ acked' = {}
  BY <1>2 DEF FragsOK
<1>3. CASE Ping
  <2>1. UNCHANGED acked /\ \A e \in Events : frags'[e] = frags[e] \/ frags'[e] = NoEvent
    BY <1>3 DEF Ping, socketHistory
  <2>2. frags' \in [Events -> FragEntry \cup {NoEvent}]
    BY <1>3 DEF Ping, FragsOK
  <2> QED BY <2>1, <2>2 DEF FragsOK, PartsAcked
<1>4. CASE SocketTick
  <2>1. UNCHANGED acked
    BY <1>4 DEF SocketTick
  <2>2. ASSUME NEW e \in Events
        PROVE  /\ frags'[e] \in FragEntry \cup {NoEvent}
               /\ frags'[e] # NoEvent =>
                    /\ frags[e] # NoEvent
                    /\ frags'[e].sum = frags[e].sum /\ frags'[e].parts = frags[e].parts
    <3>1. CASE frags[e] = NoEvent
      BY <1>4, <3>1 DEF SocketTick
    <3>2. CASE frags[e] # NoEvent
      <4>1. PICK g \in FragEntry : g = frags[e]
        BY <3>2 DEF FragsOK
      <4>2. Older(g.age, FragmentTTL) \in 0..FragmentTTL
        BY <4>1, SocketAssumption DEF Older, Least, FragEntry
      <4>3. frags'[e] = [g EXCEPT !.age = Older(g.age, FragmentTTL)]
        BY <1>4, <3>2, <4>1 DEF SocketTick
      <4> QED BY <3>2, <4>1, <4>2, <4>3 DEF FragEntry
    <3> QED BY <3>1, <3>2
  <2>3. frags' \in [Events -> FragEntry \cup {NoEvent}]
    BY <1>4, <2>2 DEF SocketTick
  <2> QED BY <2>1, <2>2, <2>3 DEF FragsOK, PartsAcked
<1>5. ASSUME NEW f \in Frames, ReadFrame(f) PROVE FragsOK'
  <2>1. acked' = acked \cup {f} /\ Reassemble(f)
    BY <1>5 DEF ReadFrame
  <2>2. f.event \in Events /\ f.sum \in Splits[f.event]
    BY FrameIs
  <2>3. CASE f.alone \/ Complete(f)
    <3>1. \A e \in Events : frags'[e] = frags[e] \/ frags'[e] = NoEvent
      BY <2>1, <2>3 DEF Reassemble, FragsOK
    <3>2. frags' \in [Events -> FragEntry \cup {NoEvent}]
      BY <2>1, <2>3 DEF Reassemble, FragsOK
    <3> QED BY <2>1, <3>1, <3>2 DEF FragsOK, PartsAcked
  <2>4. CASE f.alone = FALSE /\ ~Complete(f)
    <3>1. PICK g \in FragEntry : g = Entry(f) /\ g.sum = f.sum
      BY <2>4, EntryIs
    <3>2. PICK P \in SUBSET Nat :
            /\ P = Parts(f)
            /\ \A p \in P : [event |-> f.event, sum |-> f.sum, part |-> p, alone |-> FALSE] \in acked'
      BY <2>1, <2>4, EntryIs
    <3>3. frags' = [frags EXCEPT ![f.event] = [g EXCEPT !.parts = P]]
      BY <2>1, <2>4, <3>1, <3>2 DEF Reassemble
    <3>4. [g EXCEPT !.parts = P] \in FragEntry
      BY <3>1, <3>2 DEF FragEntry
    <3>5. [g EXCEPT !.parts = P].parts = P /\ [g EXCEPT !.parts = P].sum = f.sum
      BY <3>1 DEF FragEntry
    <3>6. frags' \in [Events -> FragEntry \cup {NoEvent}]
      BY <3>3, <3>4 DEF FragsOK
    <3>7. frags'[f.event].parts = P /\ frags'[f.event].sum = f.sum
      BY <2>2, <3>3, <3>5 DEF FragsOK
    <3>8. \A e \in Events \ {f.event} : frags'[e] = frags[e]
      BY <3>3 DEF FragsOK
    <3>9. PartsAcked(f.event)'
      BY <2>2, <3>2, <3>7 DEF PartsAcked
    <3> QED BY <2>1, <3>6, <3>8, <3>9 DEF FragsOK, PartsAcked
  <2> QED BY <2>3, <2>4, FrameIs
<1> QED BY <1>1, <1>2, <1>3, <1>4, <1>5, FragChanges

\* The messages handed over, the fragments and the connection together.
SocketInv == LinkOK /\ FragsOK /\ SeenTrue /\ HandsOverWhole

\* The socket before its first connection.
LEMMA SocketStart == SocketInit => SocketInv
<1> SUFFICES ASSUME SocketInit PROVE SocketInv
  OBVIOUS
<1>1. LinkOK
  <2>1. dead \in BOOLEAN
    BY Zenon DEF SocketInit
  <2>2. conn = "down" /\ attempt = 0 /\ wait = 0 /\ silent = 0 /\ holding = NoEvent /\ frames = 0
    BY DEF SocketInit
  <2> QED BY <2>1, <2>2, SocketAssumption DEF LinkOK
<1>2. FragsOK
  BY DEF SocketInit, FragsOK
<1>3. HandsOverWhole
  BY DEF SocketInit, HandsOverWhole
<1> QED BY <1>1, <1>2, <1>3, SeenStart DEF SocketInv

\* Every step keeps the socket's invariant.
LEMMA SocketStep == ASSUME SocketInv, [SocketNext]_socketVars PROVE SocketInv'
<1>1. LinkOK' /\ FragsOK' /\ SeenTrue'
  BY LinkStep, FragStep, SeenStep DEF SocketInv
<1>2. HandsOverWhole'
  <2>1. ASSUME NEW f \in Frames, ReadFrame(f), holding' # NoEvent PROVE HandsOverWhole'
    <3>1. conn = "up" /\ holding = NoEvent /\ acked' = acked \cup {f}
      BY <2>1 DEF ReadFrame, SocketInv, LinkOK
    <3>2. Complete(f) /\ ~Truncated(f) /\ holding' = f.event
      BY <2>1, <3>1 DEF ReadFrame
    <3>3. /\ f = [event |-> f.event, sum |-> f.sum, part |-> f.part, alone |-> f.alone]
          /\ f.sum \in Splits[f.event] /\ f.sum \in Nat \ {0} /\ f.part \in 1 .. f.sum
          /\ f.alone = TRUE \/ (f.alone = FALSE /\ f.sum # 1)
      BY FrameIs
    <3>4. ASSUME NEW p \in 1 .. f.sum
          PROVE  [event |-> f.event, sum |-> f.sum, part |-> p, alone |-> f.sum = 1] \in acked'
      <4>1. CASE f.alone = TRUE
        <5>1. f.sum = 1 /\ p = 1 /\ f.part = 1
          BY <3>2, <3>3, <4>1 DEF Truncated
        <5>2. f = [event |-> f.event, sum |-> f.sum, part |-> p, alone |-> TRUE]
          BY <3>3, <4>1, <5>1
        <5> QED BY <3>1, <5>1, <5>2
      <4>2. CASE f.alone = FALSE /\ f.sum # 1
        <5>1. p \in Parts(f)
          BY <3>2, <4>2 DEF Complete
        <5>2. [event |-> f.event, sum |-> f.sum, part |-> p, alone |-> FALSE] \in acked'
          BY <3>1, <4>2, <5>1, EntryIs DEF SocketInv
        <5> QED BY <4>2, <5>2
      <4> QED BY <3>3, <4>1, <4>2
    <3> QED BY <3>2, <3>3, <3>4 DEF HandsOverWhole
  <2>2. CASE holding' = holding /\ acked \subseteq acked'
    BY <2>2 DEF SocketInv, HandsOverWhole
  <2>3. CASE holding' = NoEvent
    BY <2>3 DEF HandsOverWhole
  <2>4. CASE conn = "down" /\ UNCHANGED holding
    BY <2>4 DEF SocketInv, LinkOK, HandsOverWhole
  <2>5. \/ \E f \in Frames : ReadFrame(f)
        \/ holding' = holding /\ acked \subseteq acked'
        \/ holding' = NoEvent
        \/ conn = "down" /\ UNCHANGED holding
    BY DEF SocketNext, socketVars, socketHistory, link, Connect, ConnectFails, Wake,
       ConnectionLost, HeartbeatTimeout, SendFails, Leave, PeerVanishes, Ping, Hear, Send,
       GatewayReturns, SocketTick
  <2> QED BY <2>1, <2>2, <2>3, <2>4, <2>5
<1> QED BY <1>1, <1>2 DEF SocketInv

\* The inductive invariant of the socket.
LEMMA SocketInvariant == SocketSpec => []SocketInv
BY SocketStart, SocketStep, PTL DEF SocketSpec

(* Only messages that came whole on this connection, in one frame or in all   *)
(* the parts of one split, reach the gateway, whatever other splits,          *)
(* repetitions, parts with the wrong headers and collections of fragments     *)
(* come in between (ws.rs 196-235).                                           *)
THEOREM HandsOverWholeMessages == SocketSpec => []HandsOverWhole
BY SocketInvariant, PTL DEF SocketInv

\* The types follow from it.
LEMMA SocketTypesHold == SocketInv => SocketTypeOK
BY DEF SocketInv, LinkOK, FragsOK, SeenTrue, AgesOK, SeenIds, SocketTypeOK

-----------------------------------------------------------------------------
(* All parts together.                                                       *)

AllParts == IInv /\ LimiterInv /\ RecentInv /\ SocketInv

(* What each part keeps, it keeps beside the others: the locks' invariant    *)
(* (gateway.rs 165, 383-389) and the types and bounds of the limiter, the    *)
(* cache and the socket.                                                     *)
THEOREM PartsKeepTheirInvariants == IntakeSpec => []PartsInv
<1>1. IntakeInit => AllParts
  BY InitIInv, LimiterBegins, RecentStart, SocketStart DEF IntakeInit, AllParts
<1>2. AllParts /\ [IntakeNext]_IntakeVars => AllParts'
  <2> SUFFICES ASSUME AllParts, [IntakeNext]_IntakeVars PROVE AllParts'
    OBVIOUS
  <2>1. /\ [Next]_vars /\ [LimiterNext]_limiterAllVars
        /\ [RecentNext]_recentVars /\ [SocketNext]_socketVars
    BY DEF IntakeNext, IntakeVars
  <2>2. IInv'
    BY <2>1, LocksStep DEF AllParts
  <2>3. LimiterInv'
    BY <2>1, LimiterStep DEF AllParts
  <2>4. RecentInv' /\ SocketInv'
    BY <2>1, RecentStep, SocketStep DEF AllParts
  <2> QED BY <2>2, <2>3, <2>4 DEF AllParts
<1>3. AllParts => PartsInv
  BY LimiterTypesHold, RecentTypesHold, SocketTypesHold DEF AllParts, PartsInv
<1> QED BY <1>1, <1>2, <1>3, PTL DEF IntakeSpec
=============================================================================
