----------------------------- MODULE AgentProofs -----------------------------
(* What the agent loop promises for every limit, budget and set of models:   *)
(* calls and results stay together in the prompt and in the history, a turn  *)
(* is persisted whole, the loop gives up in time, and the fallback stands in *)
(* for the primary model only.                                               *)
EXTENDS Agent, DataLemmas, SequenceTheorems

-----------------------------------------------------------------------------
(* Sequences of messages.                                                    *)

\* A result at i answers the call at its distance of the message at j.
Answers(seq, i, j) ==
  /\ seq[j].role = "assistant"
  /\ i - j <= Len(seq[j].calls)
  /\ seq[i].calls = <<seq[j].calls[i - j]>>

Backed(seq, i) == \E j \in 1 .. i-1 : Answers(seq, i, j)

\* No call without its results, no result without its call.
Chained(seq) ==
  /\ Paired(seq)
  /\ \A i \in Results(seq) : Backed(seq, i)

\* A suffix of a sequence.
IsSuffix(h, seq) ==
  \E off \in 0 .. Len(seq) :
    /\ Len(h) = Len(seq) - off
    /\ \A i \in 1 .. Len(h) : h[i] = seq[off + i]

\* What the history limit leaves is the end of the history.
LEMMA LastIs ==
  ASSUME NEW S, NEW seq \in Seq(S), NEW n \in Nat
  PROVE  Last(seq, n) \in Seq(S) /\ IsSuffix(Last(seq, n), seq)
<1>1. PICK N \in Nat : N = Len(seq) /\ DOMAIN seq = 1 .. N
  OBVIOUS
<1> DEFINE off == IF N > n THEN N - n ELSE 0
<1>2. off \in 0 .. N /\ Last(seq, n) = SubSeq(seq, off + 1, N)
  BY <1>1 DEF Last
<1> HIDE DEF off
<1>3. /\ SubSeq(seq, off + 1, N) \in Seq(S) /\ Len(SubSeq(seq, off + 1, N)) = N - off
      /\ \A i \in 1 .. N - off : SubSeq(seq, off + 1, N)[i] = seq[off + i]
  BY <1>1, <1>2
<1> QED BY <1>1, <1>2, <1>3 DEF IsSuffix

\* An end of an end is an end.
LEMMA SuffixOfSuffix ==
  ASSUME NEW S, NEW a \in Seq(S), NEW b \in Seq(S), NEW c \in Seq(S),
         IsSuffix(a, b), IsSuffix(b, c)
  PROVE  IsSuffix(a, c)
<1>1. PICK o \in 0 .. Len(b) : Len(a) = Len(b) - o /\ \A i \in 1 .. Len(a) : a[i] = b[o + i]
  BY DEF IsSuffix
<1>2. PICK p \in 0 .. Len(c) : Len(b) = Len(c) - p /\ \A i \in 1 .. Len(b) : b[i] = c[p + i]
  BY DEF IsSuffix
<1>3. p + o \in 0 .. Len(c) /\ Len(a) = Len(c) - (p + o)
  BY <1>1, <1>2
<1>4. ASSUME NEW i \in 1 .. Len(a) PROVE a[i] = c[p + o + i]
  <2>1. o + i \in 1 .. Len(b) /\ p + (o + i) = p + o + i
    BY <1>1, <1>2
  <2> QED BY <1>1, <1>2, <2>1
<1> QED BY <1>3, <1>4 DEF IsSuffix

\* Trimming keeps the latest messages of the history.
LEMMA TrimIs ==
  ASSUME NEW S, NEW h \in Seq(S), NEW m
  PROVE  Trim(h, m) \in Seq(S) /\ IsSuffix(Trim(h, m), h)
<1>1. PICK N \in Nat : N = Len(h)
  OBVIOUS
<1>2. h \in Seq(S) /\ IsSuffix(h, h)
  BY DEF IsSuffix
<1>3. <<>> \in Seq(S) /\ IsSuffix(<<>>, h)
  <2>1. N \in 0 .. N /\ Len(<<>>) = N - N
    OBVIOUS
  <2> QED BY <1>1, <2>1 DEF IsSuffix
<1>4. \A k \in 0 .. N : Last(h, k) \in Seq(S) /\ IsSuffix(Last(h, k), h)
  <2> SUFFICES ASSUME NEW k \in 0 .. N PROVE Last(h, k) \in Seq(S) /\ IsSuffix(Last(h, k), h)
    OBVIOUS
  <2>1. k \in Nat
    OBVIOUS
  <2> QED BY <2>1, LastIs
<1> DEFINE used == CostOf["system"] + Tokens(<<m>>)
           room == IF Budget > used THEN Budget - used ELSE 0
           fits == {0} \cup {k \in 1..Len(h) : Tokens(Last(h, k)) <= room}
<1>5. Max(fits) \in 0 .. N
  <2>1. fits \in SUBSET (0 .. N) /\ fits # {}
    BY <1>1
  <2> HIDE DEF fits
  <2>2. PICK n \in fits : \A k \in fits : k <= n
    BY <2>1, GreatestElement
  <2>3. \E n2 \in fits : \A k \in fits : n2 >= k
    BY <2>1, <2>2
  <2>4. Max(fits) \in fits
    BY <2>3 DEF Max
  <2> QED BY <2>1, <2>4
<1>6. Trim(h, m) = h \/ Trim(h, m) = <<>> \/ Trim(h, m) = Last(h, Max(fits))
  BY DEF Trim
<1> HIDE DEF fits
<1> QED BY <1>2, <1>3, <1>4, <1>5, <1>6

PairedAt(seq, i) ==
  seq[i].role = "assistant" =>
    /\ i + Len(seq[i].calls) <= Len(seq)
    /\ \A k \in 1 .. Len(seq[i].calls) :
         seq[i + k].role = "tool" /\ seq[i + k].calls = <<seq[i].calls[k]>>

\* Pairing, stated place by place.
LEMMA PairedIs == \A seq : Paired(seq) <=> \A i \in DOMAIN seq : PairedAt(seq, i)
BY DEF Paired, PairedAt

\* What holds of messages holds of them in a longer sequence.
LEMMA Embedded ==
  ASSUME NEW a \in Seq(Message), NEW c \in Seq(Message), NEW off \in Nat,
         off + Len(a) <= Len(c), \A i \in 1 .. Len(a) : c[off + i] = a[i],
         NEW i \in 1 .. Len(a)
  PROVE  /\ PairedAt(a, i) => PairedAt(c, off + i)
         /\ \A j \in 1 .. i-1 : Answers(a, i, j) <=> Answers(c, off + i, off + j)
         /\ off + Len(a) = Len(c) => (PairedAt(c, off + i) => PairedAt(a, i))
<1>1. PICK n \in Nat : n = Len(a) /\ i \in 1 .. n
  OBVIOUS
<1>2. PICK N \in Nat : N = Len(c) /\ off + n <= N
  BY <1>1
<1>3. a[i] = c[off + i] /\ Len(a[i].calls) \in Nat
  <2>1. a[i] \in Message
    BY ElementOfSeq
  <2> QED BY <1>1, <2>1 DEF Message
<1>4. PICK l \in Nat : l = Len(a[i].calls)
  BY <1>3
<1>5. \A k \in 1 .. l : i + k <= n => i + k \in 1 .. n /\ off + (i + k) = off + i + k /\ c[off + i + k] = a[i + k]
  BY <1>1, <1>4
<1>6. i + l <= n => off + i + l <= N
  <2>1. \A x, y \in Nat : x + y <= n => off + x + y <= N
    BY <1>2
  <2>2. i \in Nat /\ l \in Nat
    BY <1>1
  <2> QED BY <2>1, <2>2, Zenon
<1>7. off + n = N => (off + i + l <= N => i + l <= n)
  <2>1. \A x, y \in Nat : off + n = N => (off + x + y <= N => x + y <= n)
    BY <1>2
  <2>2. i \in Nat /\ l \in Nat
    BY <1>1
  <2> QED BY <2>1, <2>2, Zenon
<1>8. \A k \in 1 .. l : i + l <= n => i + k <= n
  BY <1>1, <1>4
<1>9. PairedAt(a, i) => PairedAt(c, off + i)
  BY <1>1, <1>2, <1>3, <1>4, <1>5, <1>6, <1>8 DEF PairedAt
<1>10. off + n = N => (PairedAt(c, off + i) => PairedAt(a, i))
  BY <1>1, <1>2, <1>3, <1>4, <1>5, <1>7, <1>8 DEF PairedAt
<1>11. ASSUME NEW j \in 1 .. i-1 PROVE Answers(a, i, j) <=> Answers(c, off + i, off + j)
  <2>1. j \in 1 .. n /\ c[off + j] = a[j] /\ (off + i) - (off + j) = i - j
    BY <1>1
  <2> QED BY <1>3, <2>1 DEF Answers
<1> QED BY <1>1, <1>2, <1>9, <1>10, <1>11

\* Chained sequences one after the other.
LEMMA ChainedConcat ==
  ASSUME NEW a \in Seq(Message), NEW b \in Seq(Message), Chained(a), Chained(b)
  PROVE  a \o b \in Seq(Message) /\ Chained(a \o b)
<1>1. PICK c \in Seq(Message) :
        /\ c = a \o b /\ Len(c) = Len(a) + Len(b)
        /\ \A i \in 1 .. Len(a) : c[i] = a[i]
        /\ \A i \in 1 .. Len(b) : c[Len(a) + i] = b[i]
  <2>1. a \o b \in Seq(Message) /\ Len(a \o b) = Len(a) + Len(b)
    OBVIOUS
  <2>2. \A i \in 1 .. Len(a) : (a \o b)[i] = a[i]
    BY ConcatIs
  <2>3. \A i \in 1 .. Len(b) : (a \o b)[Len(a) + i] = b[i]
    BY ConcatIs
  <2> QED BY <2>1, <2>2, <2>3, Zenon
<1>2. PICK n \in Nat : n = Len(a) /\ DOMAIN a = 1 .. n
  OBVIOUS
<1>3. PICK l \in Nat : l = Len(b) /\ DOMAIN b = 1 .. l
  OBVIOUS
<1>4. DOMAIN c = 1 .. n + l /\ 0 + Len(a) <= Len(c) /\ n + Len(b) <= Len(c)
  BY <1>1, <1>2, <1>3
<1>5. ASSUME NEW i \in 1 .. n + l
      PROVE  PairedAt(c, i) /\ (c[i].role = "tool" => Backed(c, i))
  <2>1. CASE i \in 1 .. n
    <3>1. PairedAt(a, i) /\ (a[i].role = "tool" => Backed(a, i))
      BY <1>2, <2>1, PairedIs DEF Chained, Results
    <3>2. /\ PairedAt(a, i) => PairedAt(c, 0 + i)
          /\ \A j \in 1 .. i-1 : Answers(a, i, j) <=> Answers(c, 0 + i, 0 + j)
      <4>1. 0 \in Nat /\ i \in 1 .. Len(a) /\ \A k \in 1 .. Len(a) : 0 + k = k
        BY <1>2, <2>1
      <4>2. \A k \in 1 .. Len(a) : c[0 + k] = a[k]
        BY <1>1, <4>1
      <4> QED BY <1>4, <4>1, <4>2, Embedded
    <3>3. 0 + i = i /\ (\A j \in 1 .. i-1 : 0 + j = j) /\ c[i] = a[i]
      BY <1>1, <1>2, <2>1
    <3> QED BY <3>1, <3>2, <3>3 DEF Backed
  <2>2. CASE i \notin 1 .. n
    <3>1. PICK k \in 1 .. l : i = n + k
      <4>1. i - n \in 1 .. l /\ i = n + (i - n)
        BY <1>2, <1>3, <2>2
      <4> QED BY <4>1
    <3>2. PairedAt(b, k) /\ (b[k].role = "tool" => Backed(b, k))
      BY <1>3, PairedIs DEF Chained, Results
    <3>3. /\ PairedAt(b, k) => PairedAt(c, n + k)
          /\ \A j \in 1 .. k-1 : Answers(b, k, j) <=> Answers(c, n + k, n + j)
      BY <1>1, <1>2, <1>3, <1>4, Embedded
    <3>4. (\A j \in 1 .. k-1 : n + j \in 1 .. i-1) /\ c[i] = b[k]
      BY <1>1, <1>2, <1>3, <3>1
    <3> QED BY <3>1, <3>2, <3>3, <3>4 DEF Backed
  <2> QED BY <2>1, <2>2
<1> QED BY <1>1, <1>4, <1>5, PairedIs DEF Chained, Results

-----------------------------------------------------------------------------
(* The prompt of a turn.                                                     *)

\* The batches of calls from place s + 1 on.
CallersAfter(m, s) ==
  {i \in 1 .. Len(m) - s : m[s + i].role = "assistant" /\ m[s + i].calls # <<>>}

\* Which results have lost their call: those the history begins with.
Placed(m, s, i) ==
  \/ \E j \in 1 .. i-1 : Answers(m, i, j) /\ (i > s => j > s)
  \/ i <= s /\ \A j \in 2 .. i : m[j].role = "tool"

\* A prompt between two batches: s messages stand before the turn's own, which
\* begins with the user's and has n batches.
Settled(m, s, t, n) ==
  /\ m \in Seq(Message) /\ s \in 1 .. Len(m) - 1
  /\ m[1].role = "system" /\ m[s + 1] = User(t)
  /\ \A i \in s + 2 .. Len(m) : m[i].role \in {"assistant", "tool"} /\ m[i].turn = t
  /\ Paired(m)
  /\ \A i \in Results(m) : Placed(m, s, i)
  /\ Cardinality(CallersAfter(m, s)) = n

\* The prompt that a turn begins with.
LEMMA SettledBegins ==
  ASSUME NEW st \in Seq(Message), Chained(st), NEW h \in Seq(Message), IsSuffix(h, st),
         NEW t \in 1 .. MaxTurns, NEW m, m = Append(<<System>> \o h, User(t))
  PROVE  Settled(m, Len(h) + 1, t, 0)
<1>1. PICK n \in Nat : n = Len(h) /\ DOMAIN h = 1 .. n
  OBVIOUS
<1>2. System \in Message /\ User(t) \in Message
  BY AgentAssumption DEF System, User, Message, Roles
<1>3. /\ m \in Seq(Message) /\ Len(m) = n + 2 /\ m[1] = System /\ m[n + 2] = User(t)
      /\ \A i \in 1 .. n : m[1 + i] = h[i]
  <2>1. <<System>> \in Seq(Message) /\ Len(<<System>>) = 1 /\ <<System>>[1] = System
    BY <1>2
  <2>2. PICK a \in Seq(Message) :
          /\ a = <<System>> \o h /\ Len(a) = n + 1 /\ a[1] = System
          /\ \A i \in 1 .. n : a[1 + i] = h[i]
    <3>1. PICK s \in Seq(Message) : s = <<System>> /\ Len(s) = 1 /\ s[1] = System
      BY <2>1
    <3>2. /\ s \o h \in Seq(Message) /\ Len(s \o h) = Len(s) + Len(h)
          /\ \A i \in 1 .. Len(s) : (s \o h)[i] = s[i]
          /\ \A i \in 1 .. Len(h) : (s \o h)[Len(s) + i] = h[i]
      BY ConcatIs
    <3>3. PICK a \in Seq(Message) : a = s \o h
      BY <3>2
    <3>4. Len(a) = n + 1 /\ a[1] = System /\ \A i \in 1 .. n : a[1 + i] = h[i]
      <4> HIDE DEF System
      <4> QED BY <1>1, <3>1, <3>2, <3>3
    <3> QED BY <3>1, <3>3, <3>4
  <2>3. /\ Append(a, User(t)) \in Seq(Message) /\ Len(Append(a, User(t))) = Len(a) + 1
        /\ Append(a, User(t))[Len(a) + 1] = User(t)
        /\ \A i \in 1 .. Len(a) : Append(a, User(t))[i] = a[i]
    BY <1>2, AppendProperties
  <2> HIDE DEF System, User
  <2> QED BY <1>1, <2>2, <2>3
<1>4. PICK N \in Nat : N = Len(st) /\ DOMAIN st = 1 .. N
  OBVIOUS
<1>5. PICK off \in 0 .. N : n = N - off /\ \A i \in 1 .. n : h[i] = st[off + i]
  BY <1>1, <1>4 DEF IsSuffix
<1>6. ASSUME NEW i \in 1 .. n PROVE PairedAt(m, 1 + i)
  <2>1. off + i \in 1 .. N /\ off + Len(h) <= Len(st) /\ off + Len(h) = Len(st)
    BY <1>1, <1>4, <1>5
  <2>2. PairedAt(st, off + i)
    BY <1>4, <2>1, PairedIs DEF Chained
  <2>3. PairedAt(h, i)
    <3>1. i \in 1 .. Len(h) /\ off \in Nat /\ \A k \in 1 .. Len(h) : st[off + k] = h[k]
      BY <1>1, <1>5
    <3> QED BY <2>1, <2>2, <3>1, Embedded
  <2>4. 1 + Len(h) <= Len(m) /\ i \in 1 .. Len(h) /\ \A k \in 1 .. Len(h) : m[1 + k] = h[k]
    BY <1>1, <1>3
  <2> QED BY <1>3, <2>3, <2>4, Embedded
<1>7. Paired(m)
  <2>1. m[1].role # "assistant" /\ m[n + 2].role # "assistant"
    BY <1>3 DEF System, User
  <2>2. \A i \in 1 .. n + 2 : i = 1 \/ i = n + 2 \/ (i - 1 \in 1 .. n /\ 1 + (i - 1) = i)
    OBVIOUS
  <2>3. PairedAt(m, 1) /\ PairedAt(m, n + 2)
    BY <2>1 DEF PairedAt
  <2>4. \A i \in 1 .. n + 2 : PairedAt(m, i)
    <3> SUFFICES ASSUME NEW i \in 1 .. n + 2 PROVE PairedAt(m, i)
      OBVIOUS
    <3>1. i - 1 \in 1 .. n => PairedAt(m, 1 + (i - 1))
      BY <1>6
    <3> QED BY <2>2, <2>3, <3>1
  <2>5. DOMAIN m = 1 .. n + 2
    BY <1>3
  <2> QED BY <2>4, <2>5, PairedIs
<1>8. ASSUME NEW i \in 1 .. n, m[1 + i].role = "tool" PROVE Placed(m, n + 1, 1 + i)
  <2>1. off + i \in 1 .. N /\ off + Len(h) <= Len(st) /\ st[off + i] = h[i] /\ h[i] = m[1 + i]
    <3>1. off + i \in 1 .. N /\ off + n <= N
      BY <1>4, <1>5
    <3>2. st[off + i] = h[i] /\ h[i] = m[1 + i]
      BY <1>3, <1>5
    <3> QED BY <1>1, <1>4, <3>1, <3>2
  <2>2. PICK j \in 1 .. off + i - 1 : Answers(st, off + i, j)
    <3>1. off + i \in Results(st)
      BY <1>4, <1>8, <2>1 DEF Results
    <3> QED BY <3>1 DEF Chained, Backed
  <2>3. CASE j > off
    <3>1. j - off \in 1 .. i-1 /\ off + (j - off) = j
      BY <2>2, <2>3
    <3>2. Answers(h, i, j - off)
      <4>1. i \in 1 .. Len(h) /\ off \in Nat /\ \A k \in 1 .. Len(h) : st[off + k] = h[k]
        BY <1>1, <1>5
      <4>2. Answers(h, i, j - off) <=> Answers(st, off + i, off + (j - off))
        BY <2>1, <3>1, <4>1, Embedded
      <4> QED BY <2>2, <3>1, <4>2
    <3>3. 1 + Len(h) <= Len(m) /\ i \in 1 .. Len(h) /\ \A k \in 1 .. Len(h) : m[1 + k] = h[k]
      BY <1>1, <1>3
    <3>4. Answers(m, 1 + i, 1 + (j - off))
      BY <1>3, <3>1, <3>2, <3>3, Embedded
    <3>5. 1 + (j - off) \in 1 .. (1 + i) - 1 /\ ~(1 + i > n + 1)
      BY <1>1, <3>1
    <3> QED BY <3>4, <3>5 DEF Placed
  <2>4. CASE ~(j > off)
    <3>1. PairedAt(st, j) /\ j \in 1 .. N
      BY SMTT(30), <1>4, <2>1, <2>2, PairedIs DEF Chained
    <3>2. \A k \in 1 .. Len(st[j].calls) : st[j + k].role = "tool"
      BY <2>2, <3>1 DEF PairedAt, Answers
    <3>3. off + i - j <= Len(st[j].calls) /\ Len(st[j].calls) \in Nat
      <4>1. st[j] \in Message
        BY <1>4, <3>1, ElementOfSeq
      <4>2. off + i - j <= Len(st[j].calls)
        BY <2>2 DEF Answers
      <4>3. st[j].calls \in Seq(Ids)
        BY <4>1 DEF Message
      <4> QED BY <4>2, <4>3
    <3>4. ASSUME NEW q \in 2 .. 1 + i PROVE m[q].role = "tool"
      <4>1. q - 1 \in 1 .. n /\ 1 + (q - 1) = q
        OBVIOUS
      <4>2. m[q] = st[off + (q - 1)]
        BY <1>3, <1>5, <4>1
      <4>3. off + (q - 1) - j \in 1 .. Len(st[j].calls) /\ j + (off + (q - 1) - j) = off + (q - 1)
        BY <1>4, <2>1, <2>2, <2>4, <3>3, SMTT(30)
      <4> QED BY <3>2, <4>2, <4>3
    <3>5. 1 + i <= n + 1
      BY <1>1
    <3> QED BY <3>4, <3>5 DEF Placed
  <2> QED BY <2>3, <2>4
<1>9. \A i \in Results(m) : Placed(m, n + 1, i)
  <2>1. m[1].role # "tool" /\ m[n + 2].role # "tool" /\ DOMAIN m = 1 .. n + 2
    BY <1>3 DEF System, User
  <2>2. \A i \in 1 .. n + 2 : i = 1 \/ i = n + 2 \/ (i - 1 \in 1 .. n /\ 1 + (i - 1) = i)
    OBVIOUS
  <2> QED BY <1>8, <2>1, <2>2 DEF Results
<1>10. Cardinality(CallersAfter(m, n + 1)) = 0
  <2>1. CallersAfter(m, n + 1) = {}
    BY <1>3 DEF CallersAfter, User
  <2> QED BY <2>1, FS_EmptySet
<1>11. n + 1 \in 1 .. Len(m) - 1 /\ m[1].role = "system" /\ m[n + 1 + 1] = User(t)
       /\ \A i \in n + 1 + 2 .. Len(m) : FALSE
  BY <1>3 DEF System
<1> QED BY <1>1, <1>3, <1>7, <1>9, <1>10, <1>11 DEF Settled

\* The places of a prompt that grows by a message and its results.
LEMMA Places ==
  \A M, l \in Nat : \A i \in 1 .. M + 1 + l :
    \/ i \in 1 .. M
    \/ i = M + 1
    \/ i - (M + 1) \in 1 .. l /\ M + 1 + (i - (M + 1)) = i
OBVIOUS

\* The places of a slice that starts at s, once a call and its l results follow.
LEMMA PlacesAfter ==
  \A M, l \in Nat : \A s \in 1 .. M - 1 :
    /\ 1 .. M - s \subseteq 1 .. (M + 1 + l) - s
    /\ M + 1 - s \in 1 .. (M + 1 + l) - s /\ M + 1 - s \notin 1 .. M - s
OBVIOUS

\* A message of the assistant with the results of all its calls, if it has any.
Grown(c, m, a) ==
  /\ c \in Seq(Message) /\ a \in Message /\ a.role = "assistant"
  /\ Len(c) = Len(m) + 1 + Len(a.calls)
  /\ \A i \in 1 .. Len(m) : c[i] = m[i]
  /\ c[Len(m) + 1] = a
  /\ \A k \in 1 .. Len(a.calls) :
       /\ c[Len(m) + 1 + k].role = "tool" /\ c[Len(m) + 1 + k].turn = a.turn
       /\ c[Len(m) + 1 + k].calls = <<a.calls[k]>>

\* Such messages leave a prompt in which calls and results are together.
LEMMA SettledGrows ==
  ASSUME NEW m, NEW s, NEW t, NEW n \in Nat, Settled(m, s, t, n), IsFiniteSet(CallersAfter(m, s)),
         NEW a, NEW c, Grown(c, m, a), a.turn = t
  PROVE  /\ Settled(c, s, t, IF a.calls = <<>> THEN n ELSE n + 1)
         /\ IsFiniteSet(CallersAfter(c, s))
<1>1. PICK M \in Nat : M = Len(m) /\ DOMAIN m = 1 .. M
  BY DEF Settled
<1>2. PICK l \in Nat : l = Len(a.calls)
  <2>1. a \in Message
    BY DEF Grown
  <2>2. a.calls \in Seq(Ids)
    BY <2>1 DEF Message
  <2> QED BY <2>2
<1>3. PICK C \in Nat : C = Len(c) /\ DOMAIN c = 1 .. C /\ C = M + 1 + l
  <2>1. Len(c) \in Nat /\ DOMAIN c = 1 .. Len(c)
    <3>1. c \in Seq(Message)
      BY DEF Grown
    <3> QED BY <3>1
  <2>2. Len(c) = M + 1 + l
    BY <1>1, <1>2, Zenon DEF Grown
  <2> QED BY <2>1, <2>2
<1>4. s \in 1 .. M - 1 /\ m \in Seq(Message) /\ c \in Seq(Message)
  BY <1>1 DEF Settled, Grown
<1>5. \A i \in 1 .. M : c[i] = m[i]
  BY <1>1, Zenon DEF Grown
<1>6. c[M + 1] = a /\ a.role = "assistant"
  BY <1>1, Zenon DEF Grown
<1>7. \A k \in 1 .. l : /\ c[M + 1 + k].role = "tool" /\ c[M + 1 + k].turn = t
                        /\ c[M + 1 + k].calls = <<a.calls[k]>>
  BY <1>1, <1>2, Zenon DEF Grown
<1>8. \A i \in 1 .. C : i \in 1 .. M \/ i = M + 1 \/ (i - (M + 1) \in 1 .. l /\ M + 1 + (i - (M + 1)) = i)
  <2>1. \A i \in 1 .. M + 1 + l :
          i \in 1 .. M \/ i = M + 1 \/ (i - (M + 1) \in 1 .. l /\ M + 1 + (i - (M + 1)) = i)
    BY Places, Zenon
  <2> QED BY <1>3, <2>1
<1>9. ASSUME NEW i \in 1 .. C PROVE PairedAt(c, i)
  <2>1. CASE i \in 1 .. M
    <3>1. PairedAt(m, i)
      BY <1>1, <2>1, PairedIs DEF Settled
    <3>2. 0 \in Nat /\ 0 + Len(m) <= Len(c) /\ i \in 1 .. Len(m) /\ 0 + i = i
      BY <1>1, <1>3, <2>1
    <3>3. \A k \in 1 .. Len(m) : c[0 + k] = m[k]
      <4>1. \A k \in 1 .. M : 0 + k = k
        OBVIOUS
      <4> QED BY <1>1, <1>5, <4>1
    <3>4. PairedAt(m, i) => PairedAt(c, 0 + i)
      BY <1>4, <3>2, <3>3, Embedded
    <3> QED BY <3>1, <3>2, <3>4
  <2>2. CASE i = M + 1
    BY <1>2, <1>3, <1>6, <1>7, <2>2 DEF PairedAt
  <2>3. CASE i - (M + 1) \in 1 .. l /\ M + 1 + (i - (M + 1)) = i
    <3>1. c[i].role = "tool"
      BY <1>7, <2>3
    <3> QED BY <3>1 DEF PairedAt
  <2> QED BY <1>8, <2>1, <2>2, <2>3
<1>10. ASSUME NEW i \in 1 .. C, c[i].role = "tool" PROVE Placed(c, s, i)
  <2>1. CASE i \in 1 .. M
    <3>1. Placed(m, s, i)
      BY <1>1, <1>5, <1>10, <2>1 DEF Settled, Results
    <3>2. ASSUME NEW j \in 1 .. i-1, Answers(m, i, j) PROVE Answers(c, i, j)
      <4>1. j \in 1 .. M
        BY <2>1
      <4> QED BY <1>5, <2>1, <3>2, <4>1 DEF Answers
    <3>3. i <= s => \A j \in 2 .. i : j \in 1 .. M
      BY <1>4
    <3> QED BY <1>5, <3>1, <3>2, <3>3 DEF Placed
  <2>2. CASE i = M + 1
    BY <1>6, <1>10, <2>2
  <2>3. CASE i - (M + 1) \in 1 .. l /\ M + 1 + (i - (M + 1)) = i
    <3>1. c[i].calls = <<a.calls[i - (M + 1)]>>
      BY <1>7, <2>3
    <3>2. Answers(c, i, M + 1)
      BY <1>2, <1>6, <2>3, <3>1 DEF Answers
    <3>3. M + 1 \in 1 .. i-1 /\ M + 1 > s
      BY <1>3, <1>4, <2>3
    <3> QED BY <3>2, <3>3 DEF Placed
  <2> QED BY <1>8, <2>1, <2>2, <2>3
<1>11. ASSUME NEW i \in s + 2 .. C PROVE c[i].role \in {"assistant", "tool"} /\ c[i].turn = t
  <2>1. i \in 1 .. C
    BY <1>4
  <2>2. CASE i \in 1 .. M
    <3>1. i \in s + 2 .. Len(m)
      BY <1>1, <1>4, <2>2
    <3> QED BY <1>5, <2>2, <3>1 DEF Settled
  <2>3. CASE i = M + 1
    BY <1>6, <2>3
  <2>4. CASE i - (M + 1) \in 1 .. l /\ M + 1 + (i - (M + 1)) = i
    BY <1>7, <2>4
  <2> QED BY <1>8, <2>1, <2>2, <2>3, <2>4
<1>12. /\ IsFiniteSet(CallersAfter(c, s))
       /\ Cardinality(CallersAfter(c, s)) = IF a.calls = <<>> THEN n ELSE n + 1
  <2>1. \A i \in 1 .. C - s :
          \/ i \in 1 .. M - s /\ s + i \in 1 .. M
          \/ s + i = M + 1 /\ i = M + 1 - s
          \/ /\ i \notin 1 .. M - s /\ i # M + 1 - s
             /\ s + i - (M + 1) \in 1 .. l /\ M + 1 + (s + i - (M + 1)) = s + i
    <3>1. \A i \in 1 .. (M + 1 + l) - s :
            \/ i \in 1 .. M - s /\ s + i \in 1 .. M
            \/ s + i = M + 1 /\ i = M + 1 - s
            \/ /\ i \notin 1 .. M - s /\ i # M + 1 - s
               /\ s + i - (M + 1) \in 1 .. l /\ M + 1 + (s + i - (M + 1)) = s + i
      <4>1. M \in Nat /\ l \in Nat /\ s \in 1 .. M - 1
        BY <1>4
      <4> QED BY <4>1, SMTT(30)
    <3>2. (M + 1 + l) - s = C - s
      BY <1>3
    <3> QED BY <3>1, <3>2
  <2>2. \A i \in 1 .. C - s :
          c[s + i].role = "assistant" /\ c[s + i].calls # <<>>
            <=> i \in CallersAfter(m, s) \/ (i = M + 1 - s /\ a.calls # <<>>)
    <3> SUFFICES ASSUME NEW i \in 1 .. C - s
                 PROVE  c[s + i].role = "assistant" /\ c[s + i].calls # <<>>
                          <=> i \in CallersAfter(m, s) \/ (i = M + 1 - s /\ a.calls # <<>>)
      OBVIOUS
    <3>1. CASE i \in 1 .. M - s /\ s + i \in 1 .. M
      <4>1. i # M + 1 - s
        BY <1>4, <3>1
      <4> QED BY <1>1, <1>5, <3>1, <4>1 DEF CallersAfter
    <3>2. CASE s + i = M + 1 /\ i = M + 1 - s
      <4>1. i \notin 1 .. M - s
        BY <1>4, <3>2
      <4> QED BY <1>1, <1>6, <3>2, <4>1 DEF CallersAfter
    <3>3. CASE i \notin 1 .. M - s /\ i # M + 1 - s /\ s + i - (M + 1) \in 1 .. l /\ M + 1 + (s + i - (M + 1)) = s + i
      <4>1. c[s + i].role = "tool"
        BY <1>7, <3>3
      <4> QED BY <1>1, <3>3, <4>1 DEF CallersAfter
    <3> QED BY <2>1, <3>1, <3>2, <3>3
  <2>3. CallersAfter(m, s) \subseteq 1 .. M - s /\ 1 .. M - s \subseteq 1 .. C - s
        /\ M + 1 - s \in 1 .. C - s /\ M + 1 - s \notin 1 .. M - s
    <3>1. CallersAfter(m, s) \subseteq 1 .. M - s
      BY <1>1 DEF CallersAfter
    <3>2. /\ 1 .. M - s \subseteq 1 .. (M + 1 + l) - s
          /\ M + 1 - s \in 1 .. (M + 1 + l) - s /\ M + 1 - s \notin 1 .. M - s
      BY <1>4, PlacesAfter, Zenon
    <3>3. (M + 1 + l) - s = C - s
      BY <1>3
    <3> QED BY <3>1, <3>2, <3>3
  <2>4. CallersAfter(c, s) = {i \in 1 .. C - s : c[s + i].role = "assistant" /\ c[s + i].calls # <<>>}
    BY <1>3 DEF CallersAfter
  <2>5. CASE a.calls = <<>>
    <3>1. CallersAfter(c, s) = CallersAfter(m, s)
      BY <2>2, <2>3, <2>4, <2>5
    <3> QED BY <2>5, <3>1 DEF Settled
  <2>6. CASE a.calls # <<>>
    <3>1. CallersAfter(c, s) = CallersAfter(m, s) \cup {M + 1 - s}
      BY <2>2, <2>3, <2>4, <2>6
    <3>2. M + 1 - s \notin CallersAfter(m, s)
      BY <2>3
    <3> QED BY <2>6, <3>1, <3>2, FS_AddElement DEF Settled
  <2> QED BY <2>5, <2>6
<1>13. Paired(c)
  BY <1>3, <1>9, PairedIs
<1>14. \A i \in Results(c) : Placed(c, s, i)
  BY <1>3, <1>10 DEF Results
<1>15. s \in 1 .. Len(c) - 1 /\ c[1] = m[1] /\ c[s + 1] = m[s + 1]
  <2>1. s \in 1 .. C - 1 /\ 1 \in 1 .. M /\ s + 1 \in 1 .. M
    BY <1>3, <1>4
  <2> QED BY <1>3, <1>5, <2>1
<1> QED BY <1>3, <1>4, <1>11, <1>12, <1>13, <1>14, <1>15 DEF Settled

\* The messages of turn t, with n batches.
WholeTurn(b, t, n) ==
  /\ b # <<>> /\ b[1] = User(t)
  /\ \A i \in 2 .. Len(b) : b[i].role \in {"assistant", "tool"}
  /\ \A i \in DOMAIN b : b[i].turn = t
  /\ Cardinality({i \in DOMAIN b : b[i].role = "assistant" /\ b[i].calls # <<>>}) = n

\* What a turn persists of a prompt.
LEMMA SettledSlice ==
  ASSUME NEW m, NEW s, NEW t \in Nat, NEW n \in Nat, Settled(m, s, t, n),
         NEW b, b = SubSeq(m, s + 1, Len(m))
  PROVE  b \in Seq(Message) /\ Chained(b) /\ WholeTurn(b, t, n)
<1>1. PICK M \in Nat : M = Len(m) /\ DOMAIN m = 1 .. M
  BY DEF Settled
<1>2. s \in 1 .. M - 1 /\ m \in Seq(Message)
  BY <1>1 DEF Settled
<1>3. PICK l \in Nat : l = M - s /\ l >= 1
  BY <1>2
<1>4. b \in Seq(Message) /\ Len(b) = l /\ \A i \in 1 .. l : b[i] = m[s + i]
  BY <1>1, <1>2, <1>3
<1>5. DOMAIN b = 1 .. l /\ s \in Nat /\ s + Len(b) = Len(m) /\ s + Len(b) <= Len(m)
      /\ \A i \in 1 .. Len(b) : m[s + i] = b[i]
  BY <1>1, <1>2, <1>3, <1>4
<1>6. ASSUME NEW i \in 1 .. l PROVE PairedAt(b, i) /\ (b[i].role = "tool" => Backed(b, i))
  <2>1. i \in 1 .. Len(b) /\ s + i \in 1 .. M
    BY <1>2, <1>3, <1>4
  <2>2. PairedAt(m, s + i)
    BY <1>1, <2>1, PairedIs DEF Settled
  <2>3. PairedAt(b, i)
    BY <1>2, <1>4, <1>5, <2>1, <2>2, Embedded
  <2>4. ASSUME b[i].role = "tool" PROVE Backed(b, i)
    <3>1. s + i \in Results(m)
      BY <1>1, <1>4, <2>1, <2>4 DEF Results
    <3>2. s + i > s
      BY <1>2
    <3>3. PICK j \in 1 .. s + i - 1 : Answers(m, s + i, j) /\ j > s
      BY <1>2, <3>1, <3>2, SMTT(30) DEF Settled, Placed
    <3>4. j - s \in 1 .. i-1 /\ s + (j - s) = j
      BY <1>2, <3>3
    <3>5. Answers(b, i, j - s) <=> Answers(m, s + i, s + (j - s))
      BY <1>2, <1>4, <1>5, <2>1, <3>4, Embedded
    <3> QED BY <3>3, <3>4, <3>5 DEF Backed
  <2> QED BY <2>3, <2>4
<1>7. Chained(b)
  BY <1>5, <1>6, PairedIs DEF Chained, Results
<1>8. b[1] = User(t) /\ b # <<>>
  <2>1. 1 \in 1 .. l /\ Len(b) # 0
    BY <1>3, <1>4
  <2>2. b[1] = m[s + 1] /\ m[s + 1] = User(t)
    BY <1>4, <2>1 DEF Settled
  <2> QED BY <2>1, <2>2
<1>9. ASSUME NEW i \in 2 .. l PROVE b[i].role \in {"assistant", "tool"} /\ b[i].turn = t
  <2>1. s + i \in s + 2 .. Len(m) /\ i \in 1 .. l
    BY <1>1, <1>2, <1>3
  <2> QED BY <1>4, <2>1 DEF Settled
<1>10. \A i \in DOMAIN b : b[i].turn = t
  <2>1. b[1].turn = t
    <3>1. User(t).turn = t
      BY DEF User
    <3> QED BY <1>8, <3>1
  <2>2. \A i \in 1 .. l : i = 1 \/ i \in 2 .. l
    OBVIOUS
  <2> QED BY <1>5, <1>9, <2>1, <2>2
<1>11. {i \in DOMAIN b : b[i].role = "assistant" /\ b[i].calls # <<>>} = CallersAfter(m, s)
  BY <1>1, <1>3, <1>4, <1>5 DEF CallersAfter
<1>12. Cardinality(CallersAfter(m, s)) = n
  BY DEF Settled
<1>13. \A i \in 2 .. Len(b) : b[i].role \in {"assistant", "tool"}
  BY <1>4, <1>9
<1>14. WholeTurn(b, t, n)
  BY <1>8, <1>10, <1>11, <1>12, <1>13, Zenon DEF WholeTurn
<1> QED BY <1>4, <1>7, <1>14

\* Text of the assistant leaves the prompt settled.
LEMMA TextSettles ==
  ASSUME NEW m, NEW s, NEW t \in 0 .. MaxTurns, NEW n \in Nat,
         Settled(m, s, t, n), IsFiniteSet(CallersAfter(m, s))
  PROVE  /\ Settled(m \o <<Assistant(t)>>, s, t, n)
         /\ IsFiniteSet(CallersAfter(m \o <<Assistant(t)>>, s))
         /\ m \o <<>> = m
<1>1. PICK a \in Message : a = Assistant(t) /\ a.role = "assistant" /\ a.turn = t /\ a.calls = <<>>
  <2>1. Assistant(t) \in Message
    BY DEF Assistant, Message, Roles
  <2> QED BY <2>1 DEF Assistant
<1>2. m \in Seq(Message)
  BY DEF Settled
<1>3. PICK c \in Seq(Message) : c = m \o <<a>>
  <2>1. <<a>> \in Seq(Message)
    BY <1>1
  <2>2. m \o <<a>> \in Seq(Message)
    BY <1>2, <2>1
  <2> QED BY <2>2
<1>4. Len(c) = Len(m) + 1 /\ c[Len(m) + 1] = a /\ \A i \in 1 .. Len(m) : c[i] = m[i]
  <2>1. PICK b \in Seq(Message) : b = <<a>> /\ Len(b) = 1 /\ b[1] = a
    <3>1. <<a>> \in Seq(Message) /\ Len(<<a>>) = 1 /\ <<a>>[1] = a
      BY <1>1
    <3> QED BY <3>1
  <2>2. /\ Len(m \o b) = Len(m) + Len(b)
        /\ \A i \in 1 .. Len(m) : (m \o b)[i] = m[i]
        /\ \A i \in 1 .. Len(b) : (m \o b)[Len(m) + i] = b[i]
    BY <1>2, ConcatIs
  <2>3. 1 \in 1 .. Len(b)
    BY <2>1
  <2> QED BY <1>3, <2>1, <2>2, <2>3
<1>5. Grown(c, m, a)
  <2>1. Len(a.calls) = 0 /\ Len(m) \in Nat
    BY <1>1, <1>2
  <2>2. Len(c) = Len(m) + 1 + Len(a.calls) /\ 1 .. Len(a.calls) = {}
    BY <1>4, <2>1
  <2> QED BY <1>1, <1>3, <1>4, <2>2 DEF Grown
<1>6. Settled(c, s, t, n) /\ IsFiniteSet(CallersAfter(c, s))
  BY <1>1, <1>5, SettledGrows
<1> QED BY <1>1, <1>2, <1>3, <1>6, ConcatEmptySeq

-----------------------------------------------------------------------------
(* The inductive invariant.                                                  *)

Ends == {"running", "ok", "exit", "error"} \cup Models
Working == {"asking", "streaming", "sending", "answered", "tools"}

\* Where the loop is, its counters and the batch at hand.
LoopOK ==
  /\ turn \in 0 .. MaxTurns
  /\ pc \in Working \cup {"idle", "round", "finished"}
  /\ pc # "idle" => turn # 0
  /\ round \in 0 .. MaxRounds /\ (pc \in Working => round < MaxRounds)
  /\ errors \in 0 .. MaxRounds /\ (pc # "finished" => errors <= round)
  /\ pc = "idle" => round = 0 /\ batches = <<>>
  /\ answer \in [text : BOOLEAN, calls : CallLists]
  /\ ended \in Seq(Ends)
  /\ IF pc = "tools" THEN answer.calls # <<>> /\ Len(ended) = Len(answer.calls) ELSE ended = <<>>
  /\ reply = "none" <=> pc # "finished"

\* The trailing failures among the batches are what the loop counts, and they
\* are too few to give up until the turn ends.
Limit == IF MaxErrors = 0 THEN 1 ELSE MaxErrors

Counts(b, e) ==
  /\ b \in Seq(BOOLEAN) /\ e \in 0 .. Len(b)
  /\ \A i \in Len(b) - e + 1 .. Len(b) : b[i] = TRUE
  /\ e < Len(b) => b[Len(b) - e] = FALSE

ErrorsOK ==
  /\ Counts(batches, errors)
  /\ pc # "finished" => errors < Limit
  /\ reply = "gave_up" => errors >= Limit /\ pc = "finished"

\* Who is asked.
LlmOK ==
  /\ model \in Models /\ fallback \in Models \cup {NoModel} /\ asking \in Models \cup {NoModel}
  /\ fallback # NoModel => model = Primary /\ fallback = Fallback
  /\ asking # NoModel <=> pc = "asking"
  /\ asking # NoModel =>
       /\ IF second THEN model = Primary /\ asking = Fallback ELSE asking = model
       /\ attempt <= Retries[asking]
  /\ attempt \in Nat

\* The stream of a response: deltas, and at most one Done, the last.
Event == [kind : {"delta", "done"}, calls : CallLists]

EventsOK(evs, part, state) ==
  /\ evs \in Seq(Event) /\ part \in 0 .. MaxPieces
  /\ \A i \in 1 .. Len(evs) - 1 : evs[i].kind = "delta"
  /\ \/ part + Len(evs) <= MaxPieces
     \/ /\ state = "ended" /\ evs # <<>> /\ part + Len(evs) = MaxPieces + 1
        /\ evs[Len(evs)].kind = "done"
  /\ state # "ended" /\ evs # <<>> => evs[Len(evs)].kind = "delta"

StreamOK ==
  /\ stream \in {"none", "open", "closed"} /\ unread \in 0 .. DeltaCapacity
  /\ reader \in {"none", "reading", "ended"} /\ done \in BOOLEAN
  /\ Len(events) <= EventCapacity
  /\ EventsOK(events, partial, reader)
  /\ reader = "none" => events = <<>> /\ partial = 0
  /\ pc \notin {"streaming", "sending"} => reader = "none"

\* The prompt under construction, and the history.
PromptOK ==
  /\ store \in Seq(Message) /\ Chained(store)
  /\ pc = "idle" => messages = <<>> /\ start = 0
  /\ pc \notin {"idle", "tools"} =>
       /\ Settled(messages, start, turn, Len(batches))
       /\ IsFiniteSet(CallersAfter(messages, start))
  /\ pc = "tools" =>
       \E m \in Seq(Message) :
         /\ messages = Append(m, WithCalls)
         /\ Settled(m, start, turn, Len(batches))
         /\ IsFiniteSet(CallersAfter(m, start))

LoopInv == LoopOK /\ ErrorsOK

IInv == LoopInv /\ LlmOK /\ StreamOK /\ PromptOK

-----------------------------------------------------------------------------
(* The loop, its counters and its models.                                    *)

\* Calls of an answer are a list, and so are the ends of their tools.
LEMMA CallsAreLists ==
  ASSUME NEW calls \in CallLists
  PROVE  /\ calls \in Seq({"tool", "switch"}) /\ DOMAIN calls = 1 .. Len(calls) /\ Len(calls) \in Nat
         /\ [i \in DOMAIN calls |-> "running"] \in Seq(Ends)
         /\ Len([i \in DOMAIN calls |-> "running"]) = Len(calls)
<1>1. PICK n \in Nat : n = Len(calls) /\ DOMAIN calls = 1 .. n /\ calls \in Seq({"tool", "switch"})
  <2>1. calls \in Seq({"tool", "switch"})
    BY AgentAssumption
  <2> QED BY <2>1
<1>2. "running" \in Ends
  BY DEF Ends
<1>3. [i \in 1 .. n |-> "running"] \in Seq(Ends) /\ Len([i \in 1 .. n |-> "running"]) = n
  BY <1>2
<1> QED BY <1>1, <1>3

\* A failed batch counts one more, another one ends the row of failures.
LEMMA CountsFailed ==
  ASSUME NEW b, NEW e, Counts(b, e)
  PROVE  Counts(Append(b, TRUE), e + 1) /\ Counts(Append(b, FALSE), 0)
<1>1. PICK n \in Nat : n = Len(b) /\ b \in Seq(BOOLEAN) /\ e \in 0 .. n
  BY DEF Counts
<1>2. ASSUME NEW v \in BOOLEAN
      PROVE  /\ Append(b, v) \in Seq(BOOLEAN) /\ Len(Append(b, v)) = n + 1
             /\ \A i \in 1 .. n : Append(b, v)[i] = b[i]
             /\ Append(b, v)[n + 1] = v
  BY <1>1, AppendProperties
<1>3. Counts(Append(b, TRUE), e + 1)
  <2>1. PICK c \in Seq(BOOLEAN) :
          /\ c = Append(b, TRUE) /\ Len(c) = n + 1
          /\ \A i \in 1 .. n : c[i] = b[i]
          /\ c[n + 1] = TRUE
    BY <1>2
  <2>2. \A i \in n - e + 1 .. n : b[i] = TRUE
    BY <1>1 DEF Counts
  <2>3. e < n => b[n - e] = FALSE
    BY <1>1 DEF Counts
  <2>4. \A i \in (n + 1) - (e + 1) + 1 .. n + 1 : i = n + 1 \/ (i \in n - e + 1 .. n /\ i \in 1 .. n)
    BY <1>1
  <2>5. \A i \in (n + 1) - (e + 1) + 1 .. n + 1 : c[i] = TRUE
    BY <2>1, <2>2, <2>4
  <2>6. e + 1 < n + 1 => (n + 1) - (e + 1) \in 1 .. n /\ (n + 1) - (e + 1) = n - e /\ e < n
    BY <1>1
  <2>7. e + 1 \in 0 .. n + 1
    BY <1>1
  <2> QED BY <2>1, <2>3, <2>5, <2>6, <2>7 DEF Counts
<1>4. Counts(Append(b, FALSE), 0)
  <2>1. PICK c \in Seq(BOOLEAN) : c = Append(b, FALSE) /\ Len(c) = n + 1 /\ c[n + 1] = FALSE
    BY <1>2
  <2>2. n + 1 - 0 = n + 1 /\ 0 \in 0 .. n + 1 /\ n + 1 - 0 + 1 .. n + 1 = {}
    OBVIOUS
  <2> QED BY <2>1, <2>2 DEF Counts
<1> QED BY <1>3, <1>4

\* At the start of a turn no failure is counted.
LEMMA NothingCounted == Counts(<<>>, 0) /\ Limit \in Nat /\ Limit > 0 /\ Limit >= MaxErrors
<1>1. <<>> \in Seq(BOOLEAN) /\ Len(<<>>) = 0
  OBVIOUS
<1>2. Limit \in Nat /\ Limit > 0 /\ Limit >= MaxErrors
  BY AgentAssumption DEF Limit
<1> QED BY <1>1, <1>2 DEF Counts

\* The two answers that are not the model's own.
LEMMA Answered ==
  /\ NoAnswer \in [text : BOOLEAN, calls : CallLists]
  /\ [text |-> TRUE, calls |-> <<>>] \in [text : BOOLEAN, calls : CallLists]
BY AgentAssumption DEF NoAnswer

\* Moving between the phases of a round, or out of the loop.
LEMMA LoopMoves ==
  ASSUME LoopInv, UNCHANGED <<turn, round, batch>>,
         answer' \in [text : BOOLEAN, calls : CallLists],
         pc # "tools", pc # "idle",
         \/ pc' \in {"streaming", "sending", "answered"} /\ pc \in Working /\ UNCHANGED reply
         \/ pc' = "finished" /\ reply' \in {"exceeded", "nothing", "partial", "text", "empty", "failed"}
  PROVE  LoopInv'
BY DEF LoopInv, LoopOK, ErrorsOK, batch, Working

\* Every step keeps the loop, its counter and its ways out.
LEMMA LoopStep == ASSUME LoopInv, StreamOK, [Next]_vars PROVE LoopInv'
<1> USE AgentAssumption DEF LoopInv, Working
<1>0. Limit \in Nat /\ Limit > 0 /\ Limit >= MaxErrors
  BY NothingCounted
<1>1. CASE Begin
  BY <1>1 DEF Begin, LoopOK, ErrorsOK, batch
<1>2. CASE StartRound
  BY <1>2 DEF StartRound, OutOfRounds, Finish, GoTo, LoopOK, ErrorsOK, batch
<1>3. CASE ChatAnswers
  BY <1>3 DEF ChatAnswers, GoTo, LoopOK, ErrorsOK, batch
<1>4. CASE StreamStarts \/ RequestFails
  BY <1>4 DEF StreamStarts, RequestFails, GoTo, Fail, LoopOK, ErrorsOK, batch
<1>5. CASE ReceiveEvent \/ SendDelta
  <2>1. answer' \in [text : BOOLEAN, calls : CallLists]
    <3>1. CASE UNCHANGED answer
      BY <3>1 DEF LoopOK
    <3>2. CASE ReceiveEvent /\ answer' = [text |-> partial > 0, calls |-> Head(events).calls]
      <4>1. events \in Seq(Event) /\ events # <<>>
        BY <3>2 DEF ReceiveEvent, StreamOK, EventsOK
      <4>2. Head(events) \in Event
        BY <4>1
      <4>3. Head(events).calls \in CallLists
        BY <4>2 DEF Event
      <4>4. (partial > 0) \in BOOLEAN
        OBVIOUS
      <4> QED BY <3>2, <4>3, <4>4
    <3> QED BY <1>5, <3>1, <3>2 DEF ReceiveEvent, SendDelta
  <2>2. /\ UNCHANGED <<turn, round, batch, reply>> /\ pc \in {"streaming", "sending"}
        /\ pc' \in {"streaming", "sending"}
    BY <1>5 DEF ReceiveEvent, SendDelta, GoTo
  <2> QED BY <2>1, <2>2, LoopMoves
<1>6. CASE ClientGone \/ StreamOver
  <2>1. answer' \in [text : BOOLEAN, calls : CallLists]
    <3>1. UNCHANGED answer \/ answer' = NoAnswer \/ answer' = [text |-> TRUE, calls |-> <<>>]
      BY <1>6 DEF ClientGone, StreamOver
    <3> QED BY <3>1, Answered DEF LoopOK
  <2>2. /\ UNCHANGED <<turn, round, batch>> /\ pc \in {"streaming", "sending"}
        /\ \/ pc' = "answered" /\ UNCHANGED reply
           \/ pc' = "finished" /\ reply' \in {"nothing", "failed"}
    BY <1>6 DEF ClientGone, StreamOver, GoTo, Fail, Finish
  <2> QED BY <2>1, <2>2, LoopMoves
<1>7. CASE UseAnswer
  <2>1. CASE pc' = "tools"
    <3>1. /\ pc = "answered" /\ answer.calls # <<>>
          /\ ended' = [i \in DOMAIN answer.calls |-> "running"]
          /\ UNCHANGED <<turn, round, errors, batches, reply, answer>>
      BY <1>7, <2>1 DEF UseAnswer, Finish
    <3>2. answer.calls \in CallLists
      BY DEF LoopOK
    <3>3. ended' \in Seq(Ends) /\ Len(ended') = Len(answer.calls)
      BY <3>1, <3>2, CallsAreLists
    <3> QED BY <2>1, <3>1, <3>3 DEF LoopOK, ErrorsOK
  <2>2. CASE pc' # "tools"
    <3>1. /\ pc = "answered" /\ pc' = "finished" /\ reply' \in {"partial", "text", "empty"}
          /\ UNCHANGED <<turn, round, errors, batches, ended>>
          /\ answer' = NoAnswer \/ UNCHANGED answer
      BY <1>7, <2>2 DEF UseAnswer, Finish
    <3>2. answer' \in [text : BOOLEAN, calls : CallLists]
      BY <3>1, Answered DEF LoopOK
    <3> QED BY <3>1, <3>2, LoopMoves DEF batch
  <2> QED BY <2>1, <2>2
<1>8. CASE EndBatch
  <2>1. /\ pc = "tools" /\ round < MaxRounds /\ errors <= round /\ errors < Limit
        /\ UNCHANGED turn /\ answer' = NoAnswer /\ ended' = <<>> /\ reply = "none"
    BY <1>8 DEF EndBatch, LoopOK, ErrorsOK
  <2>2. batches \in Seq(BOOLEAN) /\ errors \in Nat
    BY DEF LoopOK, ErrorsOK, Counts
  <2>3. CASE MajorityFailed
    <3>1. batches' = Append(batches, TRUE) /\ errors' = errors + 1
      BY <1>8, <2>3 DEF EndBatch, ErrorsNow
    <3>2. Counts(batches', errors')
      BY <3>1, CountsFailed DEF ErrorsOK
    <3>3. CASE errors' >= MaxErrors
      <4>1. pc' = "finished" /\ reply' = "gave_up" /\ UNCHANGED round
        BY <1>8, <2>3, <3>3 DEF EndBatch, Finish
      <4>2. errors' >= Limit /\ errors' \in 0 .. MaxRounds
        BY <2>1, <2>2, <3>1, <3>3 DEF LoopOK, Limit
      <4> QED BY <2>1, <3>2, <4>1, <4>2, Answered DEF LoopOK, ErrorsOK
    <3>4. CASE ~(errors' >= MaxErrors)
      <4>1. pc' = "round" /\ round' = round + 1 /\ UNCHANGED reply
        BY <1>8, <3>4 DEF EndBatch
      <4>2. errors' < Limit /\ errors' <= round' /\ round' \in 0 .. MaxRounds /\ errors' \in 0 .. MaxRounds
        BY <1>0, <2>1, <2>2, <3>1, <3>4, <4>1 DEF LoopOK
      <4> QED BY <2>1, <3>2, <4>1, <4>2, Answered DEF LoopOK, ErrorsOK
    <3> QED BY <3>3, <3>4
  <2>4. CASE ~MajorityFailed
    <3>0. MajorityFailed = FALSE
      BY <2>4 DEF MajorityFailed
    <3>1. /\ batches' = Append(batches, FALSE) /\ errors' = 0
          /\ pc' = "round" /\ round' = round + 1 /\ UNCHANGED reply
      <4>1. batches' = Append(batches, FALSE)
        BY <1>8, <3>0 DEF EndBatch
      <4>2. errors' = 0 /\ pc' = "round" /\ round' = round + 1 /\ UNCHANGED reply
        BY <1>8, <2>4 DEF EndBatch, ErrorsNow
      <4> QED BY <4>1, <4>2
    <3>2. Counts(batches', errors')
      BY <3>1, CountsFailed DEF ErrorsOK
    <3>3. errors' < Limit /\ errors' <= round' /\ round' \in 0 .. MaxRounds /\ errors' \in 0 .. MaxRounds
      BY <1>0, <2>1, <3>1 DEF LoopOK
    <3>4. ErrorsOK'
      BY <2>1, <3>1, <3>2, <3>3 DEF ErrorsOK
    <3>5. LoopOK'
      BY <2>1, <3>1, <3>3, Answered DEF LoopOK
    <3> QED BY <3>4, <3>5
  <2> QED BY <2>3, <2>4
<1>9. CASE Save
  <2>1. /\ pc' = "idle" /\ round' = 0 /\ reply' = "none" /\ errors' = 0 /\ batches' = <<>>
        /\ ended' = <<>> /\ answer' = NoAnswer /\ UNCHANGED turn
    BY <1>9 DEF Save
  <2>2. <<>> \in Seq(Ends)
    OBVIOUS
  <2> QED BY <1>0, <2>1, <2>2, NothingCounted, Answered DEF LoopOK, ErrorsOK
<1>10. ASSUME NEW i \in DOMAIN ended, ToolEnds(i) PROVE LoopInv'
  <2>1. PICK outcome \in Outcomes(answer.calls[i]) : ended' = [ended EXCEPT ![i] = outcome]
    BY <1>10 DEF ToolEnds
  <2>2. outcome \in Ends
    BY DEF Outcomes, Ends
  <2>3. ended' \in Seq(Ends) /\ Len(ended') = Len(ended)
    <3>1. ended \in Seq(Ends)
      BY DEF LoopOK
    <3> QED BY <1>10, <2>1, <2>2, <3>1, ExceptIs
  <2> QED BY <1>10, <2>3 DEF ToolEnds, LoopOK, ErrorsOK
<1>11. CASE ReadDelta \/ ReadEnd \/ ClientReads \/ ClientLeaves \/ UNCHANGED vars
  BY <1>11 DEF ReadDelta, ReadEnd, ClientReads, ClientLeaves, vars, prompt, batch, LoopOK, ErrorsOK
<1> QED BY <1>1, <1>2, <1>3, <1>4, <1>5, <1>6, <1>7, <1>8, <1>9, <1>10, <1>11
        DEF Next, AgentStep, LlmStep, ReaderStep, ClientStep, Over

\* Every step keeps which model is asked, and by which client.
LEMMA ModelsStep == ASSUME LoopInv, LlmOK, [Next]_vars PROVE LlmOK'
<1> USE AgentAssumption DEF LlmOK, llm, asked
<1>1. CASE Begin
  BY <1>1 DEF Begin
<1>2. CASE StartRound
  BY <1>2 DEF StartRound, OutOfRounds, Finish, GoTo, Ask
<1>3. CASE ChatAnswers \/ StreamStarts
  BY <1>3 DEF ChatAnswers, StreamStarts, GoTo, Ask
<1>4. CASE RequestFails
  BY <1>4 DEF RequestFails, Exhausted, GoTo, Ask, Fail
<1>5. CASE ReceiveEvent \/ SendDelta \/ ClientGone \/ StreamOver
  BY <1>5 DEF ReceiveEvent, SendDelta, ClientGone, StreamOver, GoTo, Fail, Finish
<1>6. CASE UseAnswer
  BY <1>6 DEF UseAnswer, Finish
<1>7. CASE EndBatch
  <2>1. UNCHANGED asked /\ pc = "tools" /\ pc' \in {"round", "finished"}
    BY <1>7 DEF EndBatch, Finish
  <2>2. UNCHANGED llm \/ (model' \in Models /\ fallback' = NoModel)
    <3>1. CASE SwitchModel
      <4>1. PICK built \in SUBSET Switches :
              IF built = {} THEN UNCHANGED llm ELSE model' = ended[Max(built)] /\ fallback' = NoModel
        BY <3>1 DEF SwitchModel
      <4>2. CASE built = {}
        BY <4>1, <4>2
      <4>3. CASE built # {}
        <5>1. PICK n \in Nat : n = Len(ended) /\ DOMAIN ended = 1 .. n
          <6>1. ended \in Seq(Ends)
            BY DEF LoopInv, LoopOK
          <6> QED BY <6>1
        <5>2. built \in SUBSET (0 .. n)
          BY <5>1 DEF Switches
        <5>3. PICK k \in built : \A j \in built : j <= k
          BY <4>3, <5>2, GreatestElement
        <5>4. Max(built) \in built
          <6>1. \A j \in built : k >= j
            BY <5>2, <5>3
          <6> QED BY <6>1 DEF Max
        <5> QED BY <4>1, <4>3, <5>4 DEF Switches
      <4> QED BY <4>2, <4>3
    <3> QED BY <1>7, <3>1 DEF EndBatch
  <2> QED BY <2>1, <2>2
<1>8. CASE Save
  BY <1>8 DEF Save
<1>9. ASSUME NEW i \in DOMAIN ended, ToolEnds(i) PROVE LlmOK'
  BY <1>9 DEF ToolEnds
<1>10. CASE ReadDelta \/ ReadEnd \/ ClientReads \/ ClientLeaves \/ UNCHANGED vars
  BY <1>10 DEF ReadDelta, ReadEnd, ClientReads, ClientLeaves, vars
<1> QED BY <1>1, <1>2, <1>3, <1>4, <1>5, <1>6, <1>7, <1>8, <1>9, <1>10
        DEF Next, AgentStep, LlmStep, ReaderStep, ClientStep, Over

-----------------------------------------------------------------------------
(* The stream of a response.                                                 *)

\* The reader sends one more event, the last if it is the end.
LEMMA EventsGrow ==
  ASSUME NEW evs, NEW p, EventsOK(evs, p, "reading"), NEW e \in Event,
         e.kind = "delta" => p + Len(evs) < MaxPieces
  PROVE  EventsOK(Append(evs, e), p, IF e.kind = "done" THEN "ended" ELSE "reading") /\ Len(Append(evs, e)) = Len(evs) + 1
<1>1. PICK n \in Nat : n = Len(evs) /\ evs \in Seq(Event) /\ p \in 0 .. MaxPieces /\ DOMAIN evs = 1 .. n
  BY DEF EventsOK
<1>2. PICK c \in Seq(Event) :
        /\ c = Append(evs, e) /\ Len(c) = n + 1 /\ c[n + 1] = e
        /\ \A i \in 1 .. n : c[i] = evs[i]
  <2>1. /\ Append(evs, e) \in Seq(Event) /\ Len(Append(evs, e)) = Len(evs) + 1
        /\ Append(evs, e)[Len(evs) + 1] = e
        /\ \A i \in 1 .. Len(evs) : Append(evs, e)[i] = evs[i]
    BY <1>1, AppendProperties
  <2> QED BY <1>1, <2>1, Zenon
<1>3. \A i \in 1 .. n : evs[i].kind = "delta"
  <2>1. \A i \in 1 .. n - 1 : evs[i].kind = "delta"
    BY <1>1 DEF EventsOK
  <2>2. n # 0 => evs[n].kind = "delta"
    <3>1. n # 0 => evs # <<>>
      BY <1>1
    <3> QED BY <1>1, <3>1 DEF EventsOK
  <2>3. \A i \in 1 .. n : i \in 1 .. n - 1 \/ (i = n /\ n # 0)
    OBVIOUS
  <2> QED BY <2>1, <2>2, <2>3
<1>4. \A i \in 1 .. (n + 1) - 1 : c[i].kind = "delta"
  BY <1>2, <1>3
<1>5. p + n <= MaxPieces /\ p + (n + 1) = (p + n) + 1
  <2>1. p + n <= MaxPieces
    BY <1>1 DEF EventsOK
  <2> QED BY <1>1, <2>1
<1>6. e.kind = "delta" \/ e.kind = "done"
  BY DEF Event
<1>7. MaxPieces \in Nat /\ c # <<>>
  <2>1. Len(c) # 0 /\ Len(<<>>) = 0
    BY <1>2
  <2> QED BY <2>1, AgentAssumption
<1>8. CASE e.kind = "delta"
  <2>1. p + (n + 1) <= MaxPieces
    BY <1>1, <1>5, <1>7, <1>8
  <2> QED BY <1>1, <1>2, <1>4, <1>8, <2>1 DEF EventsOK
<1>9. CASE e.kind = "done"
  <2>1. p + (n + 1) <= MaxPieces \/ p + (n + 1) = MaxPieces + 1
    BY <1>1, <1>5, <1>7
  <2> QED BY <1>1, <1>2, <1>4, <1>7, <1>9, <2>1 DEF EventsOK
<1> QED BY <1>6, <1>8, <1>9

\* The agent receives the first event.
LEMMA EventsShrink ==
  ASSUME NEW evs, NEW p, NEW state, EventsOK(evs, p, state), evs # <<>>
  PROVE  /\ Head(evs) \in Event /\ Len(Tail(evs)) = Len(evs) - 1 /\ Len(evs) \in Nat
         /\ Head(evs).kind = "delta" => EventsOK(Tail(evs), p + 1, state)
         /\ Head(evs).kind # "delta" => EventsOK(Tail(evs), p, state)
<1>1. PICK n \in Nat : n = Len(evs) /\ evs \in Seq(Event) /\ p \in 0 .. MaxPieces /\ n >= 1
  BY DEF EventsOK
<1>2. PICK c \in Seq(Event) :
        /\ c = Tail(evs) /\ Len(c) = n - 1
        /\ \A i \in 1 .. n - 1 : c[i] = evs[i + 1]
  <2>1. evs # <<>>
    OBVIOUS
  <2>2. /\ Tail(evs) \in Seq(Event) /\ Len(Tail(evs)) = Len(evs) - 1
        /\ \A i \in 1 .. Len(Tail(evs)) : Tail(evs)[i] = evs[i + 1]
    BY <1>1, <2>1, HeadTailProperties
  <2>3. Len(Tail(evs)) = n - 1
    BY <1>1, <2>2
  <2> QED BY <2>2, <2>3, Zenon
<1>3. Head(evs) = evs[1] /\ Head(evs) \in Event
  BY <1>1
<1>4. \A i \in 1 .. n - 1 : evs[i].kind = "delta"
  BY <1>1 DEF EventsOK
<1>5. \A i \in 1 .. (n - 1) - 1 : c[i].kind = "delta"
  <2>1. \A i \in 1 .. (n - 1) - 1 : i \in 1 .. n - 1 /\ i + 1 \in 1 .. n - 1
    OBVIOUS
  <2> QED BY <1>2, <1>4, <2>1
<1>6. c # <<>> => n >= 2 /\ c[n - 1] = evs[n]
  <2>1. c # <<>> => n - 1 >= 1
    BY <1>2
  <2>2. n - 1 >= 1 => n - 1 \in 1 .. n - 1 /\ (n - 1) + 1 = n /\ n >= 2
    OBVIOUS
  <2> QED BY <1>2, <2>1, <2>2
<1>7. state # "ended" /\ c # <<>> => c[n - 1].kind = "delta"
  <2>1. state # "ended" => evs[n].kind = "delta"
    BY <1>1 DEF EventsOK
  <2> QED BY <1>6, <2>1
<1>8. p + n <= MaxPieces \/ (state = "ended" /\ p + n = MaxPieces + 1 /\ evs[n].kind = "done")
  BY <1>1 DEF EventsOK
<1>9. MaxPieces \in Nat
  BY AgentAssumption
<1>10. ASSUME Head(evs).kind = "delta" PROVE EventsOK(c, p + 1, state)
  <2>1. (p + 1) + (n - 1) = p + n /\ (p + n <= MaxPieces => p + 1 \in 0 .. MaxPieces)
    BY <1>1, <1>9
  <2>2. CASE p + n <= MaxPieces
    BY <1>2, <1>5, <1>7, <2>1, <2>2 DEF EventsOK
  <2>3. CASE state = "ended" /\ p + n = MaxPieces + 1 /\ evs[n].kind = "done"
    <3>1. n # 1
      BY <1>3, <1>10, <2>3
    <3>2. n - 1 >= 1 /\ n - 1 \in 1 .. n - 1 /\ (n - 1) + 1 = n /\ c # <<>>
      <4>1. n - 1 >= 1 /\ n - 1 \in 1 .. n - 1 /\ (n - 1) + 1 = n
        BY <1>1, <3>1
      <4>2. Len(c) # 0 /\ Len(<<>>) = 0
        BY <1>2, <4>1
      <4> QED BY <4>1, <4>2
    <3>3. p + 1 \in 0 .. MaxPieces
      BY <1>1, <1>9, <2>3, <3>2
    <3>4. c[n - 1].kind = "done"
      BY <1>2, <2>3, <3>2
    <3> QED BY <1>2, <1>5, <2>1, <2>3, <3>2, <3>3, <3>4 DEF EventsOK
  <2> QED BY <1>8, <2>2, <2>3
<1>11. ASSUME Head(evs).kind # "delta" PROVE EventsOK(c, p, state)
  <2>1. n = 1
    <3>1. n >= 2 => 1 \in 1 .. n - 1
      OBVIOUS
    <3> QED BY <1>1, <1>3, <1>4, <1>11, <3>1
  <2>2. p + (n - 1) <= MaxPieces
    BY <1>1, <1>9, <2>1
  <2> QED BY <1>1, <1>2, <1>5, <1>7, <2>2 DEF EventsOK
<1> QED BY <1>1, <1>2, <1>3, <1>10, <1>11

\* Every step keeps what the reader, the channel and the client hold.
LEMMA StreamStep == ASSUME LoopInv, StreamOK, [Next]_vars PROVE StreamOK'
<1> USE AgentAssumption DEF client, sse
<1>1. CASE Begin
  BY <1>1 DEF Begin, StreamOK
<1>2. CASE StartRound
  BY <1>2 DEF StartRound, OutOfRounds, Finish, GoTo, StreamOK
<1>3. CASE ChatAnswers \/ RequestFails
  BY <1>3 DEF ChatAnswers, RequestFails, GoTo, Fail, StreamOK
<1>4. CASE StreamStarts
  BY <1>4 DEF StreamStarts, GoTo, StreamOK, EventsOK
<1>5. CASE ReceiveEvent
  <2>1. EventsOK(events, partial, reader) /\ events # <<>>
    BY <1>5 DEF ReceiveEvent, StreamOK
  <2>2. /\ Len(Tail(events)) = Len(events) - 1 /\ Len(events) \in Nat
        /\ Head(events).kind = "delta" => EventsOK(Tail(events), partial + 1, reader)
        /\ Head(events).kind # "delta" => EventsOK(Tail(events), partial, reader)
    BY <2>1, EventsShrink
  <2>3. /\ events' = Tail(events) /\ UNCHANGED <<client, reader>>
        /\ pc' \in {"streaming", "sending"} /\ pc = "streaming" /\ done' \in BOOLEAN
        /\ IF Head(events).kind = "delta" THEN partial' = partial + 1 ELSE partial' = partial
    BY <1>5 DEF ReceiveEvent, GoTo, StreamOK
  <2>4. EventsOK(events', partial', reader') /\ Len(events') <= EventCapacity
    BY <2>2, <2>3 DEF StreamOK
  <2>5. reader # "none"
    BY <2>1 DEF StreamOK
  <2>6. reader' \in {"none", "reading", "ended"} /\ stream' \in {"none", "open", "closed"} /\ unread' \in 0 .. DeltaCapacity /\ done' \in BOOLEAN
    BY <2>3 DEF StreamOK
  <2>7. (reader' = "none" => events' = <<>> /\ partial' = 0) /\ (pc' \notin {"streaming", "sending"} => reader' = "none")
    BY <2>3, <2>5
  <2> QED BY <2>4, <2>6, <2>7 DEF StreamOK
<1>6. CASE SendDelta
  <2>1. /\ pc = "sending" /\ pc' = "streaming" /\ UNCHANGED <<stream, sse>>
        /\ unread < DeltaCapacity /\ unread' = unread + 1
    BY <1>6 DEF SendDelta, GoTo
  <2>2. unread' \in 0 .. DeltaCapacity
    BY <2>1 DEF StreamOK
  <2>3. /\ reader' \in {"none", "reading", "ended"} /\ stream' \in {"none", "open", "closed"}
        /\ done' \in BOOLEAN
        /\ Len(events') <= EventCapacity /\ EventsOK(events', partial', reader')
    BY <2>1 DEF StreamOK
  <2>4. /\ reader' = "none" => events' = <<>> /\ partial' = 0
        /\ pc' \notin {"streaming", "sending"} => reader' = "none"
    BY <2>1 DEF StreamOK
  <2> QED BY <2>2, <2>3, <2>4 DEF StreamOK
<1>7. CASE ClientGone \/ StreamOver
  <2>1. /\ DropEvents /\ UNCHANGED client /\ pc' \notin {"streaming", "sending"}
    BY <1>7 DEF ClientGone, StreamOver, GoTo, Finish, Fail
  <2>2. EventsOK(<<>>, 0, "none") /\ Len(<<>>) = 0
    BY DEF EventsOK
  <2>3. /\ reader' = "none" /\ events' = <<>> /\ partial' = 0 /\ done' \in BOOLEAN
        /\ stream' \in {"none", "open", "closed"} /\ unread' \in 0 .. DeltaCapacity
    BY <2>1 DEF DropEvents, StreamOK
  <2>4. Len(events') <= EventCapacity /\ EventsOK(events', partial', reader')
    BY <2>2, <2>3
  <2> QED BY <2>3, <2>4 DEF StreamOK
<1>8. CASE UseAnswer \/ EndBatch
  BY <1>8 DEF UseAnswer, EndBatch, Finish, StreamOK
<1>9. CASE Save
  BY <1>9 DEF Save, StreamOK
<1>10. ASSUME NEW i \in DOMAIN ended, ToolEnds(i) PROVE StreamOK'
  BY <1>10 DEF ToolEnds, StreamOK
<1>11. CASE ReadDelta
  <2>1. Delta \in Event /\ Delta.kind = "delta" /\ reader = "reading"
    BY <1>11 DEF Delta, Event, ReadDelta
  <2>2. EventsOK(events, partial, "reading")
    BY <1>11 DEF ReadDelta, StreamOK
  <2>3. /\ EventsOK(Append(events, Delta), partial, "reading")
        /\ Len(Append(events, Delta)) = Len(events) + 1
    BY <1>11, <2>1, <2>2, EventsGrow DEF ReadDelta
  <2>4. EventsOK(events', partial', reader') /\ Len(events') <= EventCapacity
    <3>1. Len(events) \in Nat /\ Len(events) < EventCapacity
      BY <1>11, <2>2 DEF ReadDelta, EventsOK
    <3> QED BY <1>11, <2>1, <2>3, <3>1 DEF ReadDelta
  <2> QED BY <1>11, <2>4 DEF ReadDelta, StreamOK
<1>12. CASE ReadEnd
  <2>1. reader = "reading" /\ reader' = "ended" /\ UNCHANGED <<pc, client, partial, done>> /\ Len(events) < EventCapacity
    BY <1>12 DEF ReadEnd
  <2>2. EventsOK(events, partial, "reading")
    BY <2>1 DEF StreamOK
  <2>3. CASE UNCHANGED events
    <3>1. EventsOK(events, partial, "ended")
      BY <2>2 DEF EventsOK
    <3> QED BY <2>1, <2>3, <3>1 DEF StreamOK
  <2>4. ASSUME NEW calls \in CallLists, events' = Append(events, Done(calls)) PROVE StreamOK'
    <3>1. Done(calls) \in Event /\ Done(calls).kind = "done"
      BY DEF Done, Event
    <3>2. /\ EventsOK(Append(events, Done(calls)), partial, "ended")
          /\ Len(Append(events, Done(calls))) = Len(events) + 1
      BY <2>2, <3>1, EventsGrow
    <3>3. Len(events) \in Nat
      BY <2>2 DEF EventsOK
    <3>4. EventsOK(events', partial', "ended") /\ Len(events') <= EventCapacity
      <4>1. partial' = partial /\ events' = Append(events, Done(calls))
        BY <2>1, <2>4
      <4>2. EventsOK(events', partial', "ended")
        BY <3>2, <4>1, Zenon
      <4>3. Len(events') = Len(events) + 1
        BY <3>2, <4>1, Zenon
      <4>4. Len(events') <= EventCapacity
        BY <2>1, <3>3, <4>3
      <4> QED BY <4>2, <4>4, Zenon
    <3>5. EventsOK(events', partial', reader')
      BY <2>1, <3>4
    <3>6. /\ stream' \in {"none", "open", "closed"} /\ unread' \in 0 .. DeltaCapacity
          /\ done' \in BOOLEAN /\ pc' \in {"streaming", "sending"}
      BY <2>1 DEF StreamOK
    <3> QED BY <2>1, <3>4, <3>5, <3>6 DEF StreamOK
  <2> QED BY <1>12, <2>3, <2>4 DEF ReadEnd
<1>13. CASE ClientReads \/ ClientLeaves \/ UNCHANGED vars
  BY <1>13 DEF ClientReads, ClientLeaves, vars, StreamOK
<1> QED BY <1>1, <1>2, <1>3, <1>4, <1>5, <1>6, <1>7, <1>8, <1>9, <1>10, <1>11, <1>12, <1>13
        DEF Next, AgentStep, LlmStep, ReaderStep, ClientStep, Over

-----------------------------------------------------------------------------
(* The prompt and the history.                                               *)

\* The calls of an answer, and their results, are messages of the turn.
LEMMA CallsOfTurn ==
  ASSUME LoopInv, pc # "idle"
  PROVE  /\ WithCalls \in Message /\ WithCalls.role = "assistant" /\ WithCalls.turn = turn
         /\ WithCalls.calls = CallIds /\ CallIds \in Seq(Ids)
         /\ DOMAIN CallIds = DOMAIN answer.calls /\ Len(CallIds) = Len(answer.calls)
         /\ turn \in 0 .. MaxTurns /\ turn \in Nat
<1>1. turn \in 1 .. MaxTurns /\ round \in 0 .. MaxRounds /\ answer.calls \in CallLists
  BY AgentAssumption DEF LoopInv, LoopOK
<1>2. PICK l \in Nat : l = Len(answer.calls) /\ DOMAIN answer.calls = 1 .. l
  BY <1>1, CallsAreLists
<1>3. \A i \in 1 .. l : <<turn, round, i>> \in Ids
  BY <1>1 DEF Ids
<1>4. [i \in 1 .. l |-> <<turn, round, i>>] \in Seq(Ids) /\ Len([i \in 1 .. l |-> <<turn, round, i>>]) = l
  BY <1>3
<1>5. CallIds = [i \in 1 .. l |-> <<turn, round, i>>]
  BY <1>2 DEF CallIds
<1>6. CallIds \in Seq(Ids) /\ Len(CallIds) = l /\ DOMAIN CallIds = 1 .. l
  BY <1>4, <1>5
<1>7. WithCalls \in Message /\ WithCalls.role = "assistant" /\ WithCalls.turn = turn
      /\ WithCalls.calls = CallIds
  <2>1. turn \in 0 .. MaxTurns
    BY <1>1
  <2> QED BY <1>6, <2>1 DEF WithCalls, Message, Roles
<1> QED BY <1>1, <1>2, <1>6, <1>7

\* The results of a batch complete its calls.
LEMMA BatchGrows ==
  ASSUME LoopInv, pc = "tools", NEW m \in Seq(Message), messages = Append(m, WithCalls)
  PROVE  /\ ResultsOfBatch \in Seq(Message) /\ messages \in Seq(Message)
         /\ Grown(messages \o ResultsOfBatch, m, WithCalls)
<1>1. /\ WithCalls \in Message /\ WithCalls.role = "assistant" /\ WithCalls.turn = turn
      /\ WithCalls.calls = CallIds /\ CallIds \in Seq(Ids)
      /\ DOMAIN CallIds = DOMAIN answer.calls /\ Len(CallIds) = Len(answer.calls)
      /\ turn \in 0 .. MaxTurns
  BY CallsOfTurn
<1>2. PICK l \in Nat : l = Len(CallIds) /\ DOMAIN CallIds = 1 .. l
  BY <1>1
<1>3. DOMAIN ended = 1 .. l
  <2>1. ended \in Seq(Ends) /\ Len(ended) = l
    BY <1>1, <1>2 DEF LoopInv, LoopOK
  <2> QED BY <2>1
<1>4. \A i \in 1 .. l : /\ ToolResult(i) \in Message /\ ToolResult(i).role = "tool"
                        /\ ToolResult(i).turn = turn /\ ToolResult(i).calls = <<CallIds[i]>>
  <2> SUFFICES ASSUME NEW i \in 1 .. l
               PROVE  /\ ToolResult(i) \in Message /\ ToolResult(i).role = "tool"
                      /\ ToolResult(i).turn = turn /\ ToolResult(i).calls = <<CallIds[i]>>
    OBVIOUS
  <2>1. CallIds[i] \in Ids
    BY <1>1, <1>2, ElementOfSeq
  <2>2. <<CallIds[i]>> \in Seq(Ids)
    BY <2>1
  <2> QED BY <1>1, <2>2 DEF ToolResult, Message, Roles
<1>5. PICK r \in Seq(Message) : r = ResultsOfBatch /\ Len(r) = l /\ \A i \in 1 .. l : r[i] = ToolResult(i)
  <2>1. ResultsOfBatch = [i \in 1 .. l |-> ToolResult(i)]
    BY <1>3 DEF ResultsOfBatch
  <2>2. [i \in 1 .. l |-> ToolResult(i)] \in Seq(Message) /\ Len([i \in 1 .. l |-> ToolResult(i)]) = l
    BY <1>4
  <2>3. \A i \in 1 .. l : ResultsOfBatch[i] = ToolResult(i)
    BY <2>1
  <2> QED BY <2>1, <2>2, <2>3
<1>6. PICK M \in Nat : M = Len(m)
  OBVIOUS
<1>7. PICK p \in Seq(Message) :
        /\ p = messages /\ Len(p) = M + 1 /\ p[M + 1] = WithCalls
        /\ \A i \in 1 .. M : p[i] = m[i]
  <2>1. /\ Append(m, WithCalls) \in Seq(Message) /\ Len(Append(m, WithCalls)) = Len(m) + 1
        /\ Append(m, WithCalls)[Len(m) + 1] = WithCalls
        /\ \A i \in 1 .. Len(m) : Append(m, WithCalls)[i] = m[i]
    BY <1>1, AppendProperties
  <2> QED BY <1>6, <2>1, Zenon
<1>8. PICK c \in Seq(Message) :
        /\ c = messages \o ResultsOfBatch /\ Len(c) = M + 1 + l
        /\ \A i \in 1 .. M + 1 : c[i] = p[i]
        /\ \A i \in 1 .. l : c[M + 1 + i] = r[i]
  <2>1. /\ p \o r \in Seq(Message) /\ Len(p \o r) = Len(p) + Len(r)
        /\ \A i \in 1 .. Len(p) : (p \o r)[i] = p[i]
        /\ \A i \in 1 .. Len(r) : (p \o r)[Len(p) + i] = r[i]
    BY ConcatIs
  <2>2. Len(p) = M + 1 /\ Len(r) = l
    BY <1>5, <1>7
  <2>3. Len(p \o r) = M + 1 + l
    BY <2>1, <2>2, Zenon
  <2>4. \A i \in 1 .. M + 1 : (p \o r)[i] = p[i]
    BY <2>1, <2>2, Zenon
  <2>5. \A i \in 1 .. l : (p \o r)[M + 1 + i] = r[i]
    BY <2>1, <2>2, Zenon
  <2>6. p \o r = messages \o ResultsOfBatch
    BY <1>5, <1>7, Zenon
  <2> QED BY <2>1, <2>3, <2>4, <2>5, <2>6, Zenon
<1>9. /\ \A i \in 1 .. M : c[i] = m[i]
      /\ c[M + 1] = WithCalls
      /\ \A k \in 1 .. l : /\ c[M + 1 + k].role = "tool" /\ c[M + 1 + k].turn = turn
                           /\ c[M + 1 + k].calls = <<CallIds[k]>>
  <2>1. M + 1 \in 1 .. M + 1 /\ \A i \in 1 .. M : i \in 1 .. M + 1
    OBVIOUS
  <2>2. \A i \in 1 .. M : c[i] = m[i]
    BY <1>7, <1>8, <2>1
  <2>3. c[M + 1] = WithCalls
    BY <1>7, <1>8, <2>1
  <2>4. \A k \in 1 .. l : c[M + 1 + k] = ToolResult(k)
    BY <1>5, <1>8
  <2> QED BY <1>4, <2>2, <2>3, <2>4
<1>10. Grown(c, m, WithCalls)
  BY <1>1, <1>2, <1>6, <1>8, <1>9 DEF Grown
<1> QED BY <1>5, <1>7, <1>8, <1>10

\* A prompt that a step extends by text of the assistant, or by nothing.
LEMMA PromptMoves ==
  ASSUME LoopInv, PromptOK, pc \notin {"idle", "tools"}, UNCHANGED <<turn, start, batches, store>>,
         pc' \notin {"idle", "tools"},
         messages' \in {messages, messages \o <<>>, messages \o <<Assistant(turn)>>}
  PROVE  PromptOK'
<1>1. turn \in 0 .. MaxTurns /\ Len(batches) \in Nat
  BY DEF LoopInv, LoopOK, ErrorsOK, Counts
<1>2. Settled(messages, start, turn, Len(batches)) /\ IsFiniteSet(CallersAfter(messages, start))
  BY DEF PromptOK
<1>3. /\ Settled(messages \o <<Assistant(turn)>>, start, turn, Len(batches))
      /\ IsFiniteSet(CallersAfter(messages \o <<Assistant(turn)>>, start))
      /\ messages \o <<>> = messages
  BY <1>1, <1>2, TextSettles
<1>4. Settled(messages', start, turn, Len(batches)) /\ IsFiniteSet(CallersAfter(messages', start))
  BY <1>2, <1>3
<1>5. Settled(messages', start', turn', Len(batches')) /\ IsFiniteSet(CallersAfter(messages', start'))
  BY <1>4
<1>6. store' \in Seq(Message) /\ Chained(store')
  BY DEF PromptOK
<1> QED BY <1>5, <1>6 DEF PromptOK

\* Every step keeps the prompt, its pairing and the turn's place in it.
LEMMA PromptStep == ASSUME LoopInv, PromptOK, [Next]_vars PROVE PromptOK'
<1> USE DEF Working
<1>0. turn \in 0 .. MaxTurns /\ turn \in Nat /\ Len(batches) \in Nat /\ batches \in Seq(BOOLEAN)
  BY AgentAssumption DEF LoopInv, LoopOK, ErrorsOK, Counts
<1>1. CASE Begin
  <2>1. /\ pc = "idle" /\ turn' \in 1 .. MaxTurns /\ pc' = "round" /\ UNCHANGED <<store, batches>>
        /\ messages' = Append(<<System>> \o Trim(History, User(turn')), User(turn'))
        /\ start' = Len(<<System>> \o Trim(History, User(turn')))
    BY <1>0, <1>1, AgentAssumption DEF Begin, batch
  <2>2. store \in Seq(Message) /\ Chained(store)
    BY DEF PromptOK
  <2>3. History \in Seq(Message) /\ IsSuffix(History, store)
    BY <2>2, LastIs, AgentAssumption DEF History
  <2>4. PICK h \in Seq(Message) : h = Trim(History, User(turn')) /\ IsSuffix(h, History)
    BY <2>3, TrimIs
  <2>5. IsSuffix(h, store)
    BY <2>2, <2>3, <2>4, SuffixOfSuffix
  <2>6. messages' = Append(<<System>> \o h, User(turn')) /\ start' = Len(<<System>> \o h)
    BY <2>1, <2>4
  <2>7. Settled(messages', Len(h) + 1, turn', 0)
    BY <2>1, <2>2, <2>5, <2>6, SettledBegins
  <2>8. start' = Len(h) + 1
    <3>1. System \in Message
      BY AgentAssumption DEF System, Message, Roles
    <3>2. PICK a \in Seq(Message) : a = <<System>> /\ Len(a) = 1
      <4>1. <<System>> \in Seq(Message) /\ Len(<<System>>) = 1
        BY <3>1
      <4> QED BY <4>1
    <3>3. Len(a \o h) = Len(a) + Len(h) /\ Len(h) \in Nat
      BY ConcatIs
    <3>4. Len(<<System>> \o h) = Len(a) + Len(h)
      BY <3>2, <3>3, Zenon
    <3>5. Len(a) + Len(h) = Len(h) + 1
      BY <3>2, <3>3
    <3> QED BY <2>6, <3>4, <3>5, Zenon
  <2>9. batches' = <<>> /\ Len(batches') = 0
    <3>1. batches = <<>>
      BY <2>1 DEF LoopInv, LoopOK
    <3> QED BY <2>1, <3>1
  <2>10. CallersAfter(messages', start') = {}
    <3>1. Len(messages') - start' = 1 /\ messages'[start' + 1].role = "user"
      <4>1. PICK a \in Seq(Message) : a = <<System>> \o h /\ Len(a) = start'
        <5>1. System \in Message
          BY AgentAssumption DEF System, Message, Roles
        <5>2. <<System>> \in Seq(Message)
          BY <5>1
        <5>3. <<System>> \o h \in Seq(Message)
          BY <5>2, ConcatIs
        <5> QED BY <2>6, <5>3
      <4>2. User(turn') \in Message
        BY <2>1, AgentAssumption DEF User, Message, Roles
      <4>3. Len(Append(a, User(turn'))) = Len(a) + 1 /\ Append(a, User(turn'))[Len(a) + 1] = User(turn')
        BY <4>2, AppendProperties
      <4>4. messages' = Append(a, User(turn')) /\ Len(a) \in Nat
        BY <2>6, <4>1
      <4>5. Len(messages') - start' = 1
        BY <4>1, <4>3, <4>4
      <4>6. messages'[start' + 1] = User(turn')
        BY <4>1, <4>3, <4>4, Zenon
      <4> QED BY <4>5, <4>6 DEF User
    <3>2. \A i \in 1 .. 1 : i = 1
      OBVIOUS
    <3> QED BY <3>1, <3>2 DEF CallersAfter
  <2>11. IsFiniteSet(CallersAfter(messages', start'))
    BY <2>10, FS_EmptySet
  <2>12. Settled(messages', start', turn', Len(batches'))
    BY <2>7, <2>8, <2>9
  <2> QED BY <2>1, <2>2, <2>11, <2>12 DEF PromptOK
<1>2. CASE StartRound
  <2>1. /\ pc = "round" /\ pc' \in {"asking", "finished"} /\ UNCHANGED <<turn, start, batches, store>>
        /\ messages' \in {messages, messages \o <<>>, messages \o <<Assistant(turn)>>}
    BY <1>2 DEF StartRound, OutOfRounds, Finish, GoTo, prompt, batch
  <2> QED BY <2>1, PromptMoves
<1>3. CASE ChatAnswers \/ StreamStarts \/ RequestFails
  <2>1. /\ pc = "asking" /\ pc' \in {"asking", "streaming", "answered", "finished"}
        /\ UNCHANGED <<turn, start, batches, store, messages>>
    BY <1>3 DEF ChatAnswers, StreamStarts, RequestFails, GoTo, Fail, prompt, batch
  <2> QED BY <2>1, PromptMoves
<1>4. CASE ReceiveEvent \/ SendDelta \/ ClientGone \/ StreamOver
  <2>1. /\ pc \in {"streaming", "sending"} /\ pc' \in {"streaming", "sending", "answered", "finished"}
        /\ UNCHANGED <<turn, start, batches, store>>
        /\ messages' \in {messages, messages \o <<>>}
    BY <1>4 DEF ReceiveEvent, SendDelta, ClientGone, StreamOver, GoTo, Fail, Finish, prompt, batch
  <2> QED BY <2>1, PromptMoves
<1>5. CASE UseAnswer
  <2>1. CASE pc' = "tools"
    <3>1. /\ pc = "answered" /\ UNCHANGED <<turn, start, batches, store, round, answer>>
          /\ messages' = Append(messages, WithCalls)
      BY <1>5, <2>1 DEF UseAnswer, Finish
    <3>2. WithCalls' = WithCalls
      BY <3>1 DEF WithCalls, CallIds
    <3>3. /\ Settled(messages, start, turn, Len(batches)) /\ IsFiniteSet(CallersAfter(messages, start))
          /\ messages \in Seq(Message)
      BY <3>1 DEF PromptOK, Settled
    <3>4. messages' = Append(messages, WithCalls')
      BY <3>1, <3>2
    <3> QED BY <2>1, <3>1, <3>3, <3>4 DEF PromptOK
  <2>2. CASE pc' # "tools"
    <3>1. /\ pc = "answered" /\ pc' = "finished" /\ UNCHANGED <<turn, start, batches, store>>
          /\ messages' \in {messages, messages \o <<>>, messages \o <<Assistant(turn)>>}
      BY <1>5, <2>2 DEF UseAnswer, Finish
    <3> QED BY <3>1, PromptMoves
  <2> QED BY <2>1, <2>2
<1>6. CASE EndBatch
  <2>1. /\ pc = "tools" /\ UNCHANGED <<turn, start, store>>
        /\ batches' = Append(batches, MajorityFailed)
        /\ \/ pc' = "finished" /\ messages' = messages \o (ResultsOfBatch \o <<Assistant(turn)>>)
           \/ pc' = "round" /\ messages' = messages \o ResultsOfBatch
    BY <1>6 DEF EndBatch, Finish
  <2>2. PICK m \in Seq(Message) :
          /\ messages = Append(m, WithCalls)
          /\ Settled(m, start, turn, Len(batches))
          /\ IsFiniteSet(CallersAfter(m, start))
    BY <2>1 DEF PromptOK
  <2>3. /\ ResultsOfBatch \in Seq(Message) /\ messages \in Seq(Message)
        /\ Grown(messages \o ResultsOfBatch, m, WithCalls)
    BY <2>1, <2>2, BatchGrows
  <2>4. WithCalls.turn = turn /\ WithCalls.calls # <<>>
    <3>1. WithCalls.turn = turn /\ WithCalls.calls = CallIds /\ Len(CallIds) = Len(answer.calls)
      BY <2>1, CallsOfTurn
    <3>2. answer.calls \in CallLists /\ answer.calls # <<>>
      BY <2>1 DEF LoopInv, LoopOK
    <3>3. answer.calls \in Seq({"tool", "switch"})
      BY <3>2, CallsAreLists
    <3>4. Len(answer.calls) # 0 /\ Len(<<>>) = 0
      BY <3>2, <3>3
    <3> QED BY <3>1, <3>4
  <2>5. PICK c : c = messages \o ResultsOfBatch
    OBVIOUS
  <2>6. Settled(c, start, turn, Len(batches) + 1) /\ IsFiniteSet(CallersAfter(c, start))
    <3>1. Grown(c, m, WithCalls)
      BY <2>3, <2>5
    <3>2. /\ Settled(c, start, turn, IF WithCalls.calls = <<>> THEN Len(batches) ELSE Len(batches) + 1)
          /\ IsFiniteSet(CallersAfter(c, start))
      BY <1>0, <2>2, <2>4, <3>1, SettledGrows
    <3> QED BY <2>4, <3>2
  <2>7. /\ Settled(c \o <<Assistant(turn)>>, start, turn, Len(batches) + 1)
        /\ IsFiniteSet(CallersAfter(c \o <<Assistant(turn)>>, start))
    <3>1. Len(batches) + 1 \in Nat
      BY <1>0
    <3> QED BY <1>0, <2>6, <3>1, TextSettles
  <2>8. messages' = c \/ messages' = c \o <<Assistant(turn)>>
    <3>1. Assistant(turn) \in Message
      BY <1>0 DEF Assistant, Message, Roles
    <3>2. <<Assistant(turn)>> \in Seq(Message)
      BY <3>1
    <3>3. (messages \o ResultsOfBatch) \o <<Assistant(turn)>> = messages \o (ResultsOfBatch \o <<Assistant(turn)>>)
      BY <2>3, <3>2, ConcatAssociative
    <3> QED BY <2>1, <2>5, <3>3, Zenon
  <2>9. Settled(messages', start, turn, Len(batches) + 1) /\ IsFiniteSet(CallersAfter(messages', start))
    BY <2>6, <2>7, <2>8
  <2>10. Len(batches') = Len(batches) + 1
    <3>1. MajorityFailed \in BOOLEAN
      BY DEF MajorityFailed
    <3> QED BY <1>0, <2>1, <3>1, AppendProperties
  <2>11. Settled(messages', start', turn', Len(batches')) /\ IsFiniteSet(CallersAfter(messages', start'))
    BY <2>1, <2>9, <2>10
  <2>12. pc' \notin {"idle", "tools"} /\ store' \in Seq(Message) /\ Chained(store')
    BY <2>1 DEF PromptOK
  <2> QED BY <2>11, <2>12 DEF PromptOK
<1>7. CASE Save
  <2>1. /\ pc = "finished" /\ pc' = "idle" /\ messages' = <<>> /\ start' = 0
        /\ store' = store \/ store' = store \o Slice
    BY <1>7 DEF Save
  <2>2. store \in Seq(Message) /\ Chained(store)
    BY DEF PromptOK
  <2>3. Settled(messages, start, turn, Len(batches))
    BY <2>1 DEF PromptOK
  <2>4. store' \in Seq(Message) /\ Chained(store')
    <3>1. CASE store' = store \/ Slice = <<>>
      <4>1. store \o <<>> = store
        BY <2>2, ConcatEmptySeq
      <4> QED BY <2>1, <2>2, <3>1, <4>1
    <3>2. CASE store' # store /\ Slice # <<>>
      <4>1. Slice = SubSeq(messages, start + 1, Len(messages)) /\ store' = store \o Slice
        BY <2>1, <3>2 DEF Slice
      <4>2. Slice \in Seq(Message) /\ Chained(Slice)
        BY <1>0, <2>3, <4>1, SettledSlice
      <4> QED BY <2>2, <4>1, <4>2, ChainedConcat
    <3> QED BY <3>1, <3>2
  <2> QED BY <2>1, <2>4 DEF PromptOK
<1>8. ASSUME NEW i \in DOMAIN ended, ToolEnds(i) PROVE PromptOK'
  <2>1. pc = "tools" /\ UNCHANGED <<turn, pc, messages, start, batches, store, answer, round>>
    BY <1>8 DEF ToolEnds, prompt
  <2> QED BY <2>1 DEF PromptOK, WithCalls, CallIds
<1>9. CASE ReadDelta \/ ReadEnd \/ ClientReads \/ ClientLeaves \/ UNCHANGED vars
  <2>1. UNCHANGED <<turn, pc, messages, start, batches, store, answer, round>>
    BY <1>9 DEF ReadDelta, ReadEnd, ClientReads, ClientLeaves, vars, prompt, batch
  <2> QED BY <2>1 DEF PromptOK, WithCalls, CallIds
<1> QED BY <1>1, <1>2, <1>3, <1>4, <1>5, <1>6, <1>7, <1>8, <1>9
        DEF Next, AgentStep, LlmStep, ReaderStep, ClientStep, Over

-----------------------------------------------------------------------------
(* The theorems.                                                             *)

\* Before the first turn.
LEMMA InitIsSound == Init => IInv
<1> SUFFICES ASSUME Init PROVE IInv
  OBVIOUS
<1> USE AgentAssumption DEF Init
<1>1. <<>> \in Seq(Message) /\ <<>> \in Seq(Ends) /\ <<>> \in Seq(Event) /\ Len(<<>>) = 0
  OBVIOUS
<1>2. LoopInv
  BY <1>1, NothingCounted, Answered DEF LoopInv, LoopOK, ErrorsOK, Working
<1>3. LlmOK
  BY DEF LlmOK
<1>4. StreamOK
  <2>1. EventsOK(<<>>, 0, "none")
    BY <1>1 DEF EventsOK
  <2>2. EventsOK(events, partial, reader) /\ Len(events) <= EventCapacity
    BY <1>1, <2>1
  <2>3. done \in BOOLEAN
    OBVIOUS
  <2> QED BY <2>2, <2>3 DEF StreamOK
<1>5. PromptOK
  BY <1>1 DEF PromptOK, Chained, Paired, Results
<1> QED BY <1>2, <1>3, <1>4, <1>5 DEF IInv

(* What the loop keeps at every await: where the turn's own messages are,    *)
(* what is in flight, and what was counted (agent/mod.rs, do_handle).        *)
THEOREM LoopInvariant == Spec => []IInv
<1>1. Init => IInv
  BY InitIsSound
<1>2. IInv /\ [Next]_vars => IInv'
  BY LoopStep, ModelsStep, StreamStep, PromptStep DEF IInv
<1> QED BY <1>1, <1>2, PTL DEF Spec

\* A result that answers a call before it is not an orphan.
LEMMA AnswersNoOrphan ==
  ASSUME NEW seq \in Seq(Message), NEW i \in DOMAIN seq, NEW j \in 1 .. i-1, Answers(seq, i, j)
  PROVE  i \notin Orphans(seq)
<1>1. PICK n \in Nat : n = Len(seq) /\ DOMAIN seq = 1 .. n
  OBVIOUS
<1>2. j \in 1 .. n
  BY <1>1
<1>3. seq[j] \in Message
  BY <1>1, <1>2, ElementOfSeq
<1>4. PICK l \in Nat : l = Len(seq[j].calls) /\ DOMAIN seq[j].calls = 1 .. l
  <2>1. seq[j].calls \in Seq(Ids)
    BY <1>3 DEF Message
  <2> QED BY <2>1
<1>5. i - j \in DOMAIN seq[j].calls /\ seq[i].calls = <<seq[j].calls[i - j]>>
      /\ seq[j].role = "assistant"
  BY <1>1, <1>4 DEF Answers
<1> QED BY <1>5 DEF Orphans

\* The types follow from the invariant.
LEMMA LoopTyped == IInv => TypeOK
<1> SUFFICES ASSUME IInv PROVE TypeOK
  OBVIOUS
<1> USE DEF IInv
<1>1. messages \in Seq(Message) /\ start \in 0 .. Len(messages)
  <2>1. CASE pc = "idle"
    <3>1. messages = <<>> /\ start = 0
      BY <2>1 DEF PromptOK
    <3>2. <<>> \in Seq(Message) /\ 0 \in 0 .. Len(<<>>)
      OBVIOUS
    <3> QED BY <3>1, <3>2
  <2>2. CASE pc \notin {"idle", "tools"}
    <3>1. messages \in Seq(Message) /\ start \in 1 .. Len(messages) - 1
      BY <2>2 DEF PromptOK, Settled
    <3>2. Len(messages) \in Nat
      BY <3>1
    <3> QED BY <3>1, <3>2
  <2>3. CASE pc = "tools"
    <3>1. PICK m \in Seq(Message) : messages = Append(m, WithCalls) /\ start \in 1 .. Len(m) - 1
      BY <2>3 DEF PromptOK, Settled
    <3>2. WithCalls \in Message
      BY <2>3, CallsOfTurn
    <3>3. messages \in Seq(Message) /\ Len(messages) = Len(m) + 1 /\ Len(m) \in Nat
      BY <3>1, <3>2, AppendProperties
    <3> QED BY <3>1, <3>3
  <2> QED BY <2>1, <2>2, <2>3
<1>2. DOMAIN ended \in {{}, DOMAIN answer.calls}
  <2>1. ended \in Seq(Ends) /\ answer.calls \in CallLists
    BY DEF LoopInv, LoopOK
  <2>2. DOMAIN ended = 1 .. Len(ended) /\ DOMAIN answer.calls = 1 .. Len(answer.calls)
    BY <2>1, CallsAreLists
  <2>3. CASE pc = "tools"
    <3>1. Len(ended) = Len(answer.calls)
      BY <2>3 DEF LoopInv, LoopOK
    <3> QED BY <2>2, <3>1
  <2>4. CASE pc # "tools"
    <3>1. ended = <<>>
      BY <2>4 DEF LoopInv, LoopOK
    <3> QED BY <3>1
  <2> QED BY <2>3, <2>4
<1>3. /\ turn \in 0 .. MaxTurns /\ round \in 0 .. MaxRounds /\ errors \in 0 .. MaxRounds
      /\ pc \in {"idle", "round", "asking", "streaming", "sending", "answered", "tools", "finished"}
      /\ answer \in [text : BOOLEAN, calls : CallLists]
  BY DEF LoopInv, LoopOK, Working
<1>4. /\ model \in Models /\ fallback \in Models \cup {NoModel} /\ asking \in Models \cup {NoModel}
      /\ attempt \in Nat /\ (asking # NoModel => attempt <= Retries[asking])
  BY DEF LlmOK
<1>5. /\ stream \in {"none", "open", "closed"} /\ unread \in 0 .. DeltaCapacity
      /\ reader \in {"none", "reading", "ended"} /\ Len(events) <= EventCapacity
      /\ partial \in 0 .. MaxPieces /\ done \in BOOLEAN
  BY DEF StreamOK, EventsOK
<1>6. store \in Seq(Message)
  BY DEF PromptOK
<1> QED BY <1>1, <1>2, <1>3, <1>4, <1>5, <1>6 DEF TypeOK

(* No tool call is ever stored or sent to a model apart from its results,    *)
(* whatever the limits, the budget and the way a turn ends, and no request   *)
(* is tried more often than its client may (agent/mod.rs, do_handle).        *)
THEOREM CallsKeepTheirResults == Spec => []AgentInv
<1>1. IInv => StoredPaired
  <2> SUFFICES ASSUME IInv PROVE StoredPaired
    OBVIOUS
  <2>1. store \in Seq(Message) /\ Paired(store) /\ \A i \in Results(store) : Backed(store, i)
    BY DEF IInv, PromptOK, Chained
  <2>2. Orphans(store) = {}
    <3> SUFFICES ASSUME NEW i \in Orphans(store) PROVE FALSE
      OBVIOUS
    <3>1. i \in Results(store) /\ i \in DOMAIN store
      BY DEF Orphans, Results
    <3>2. PICK j \in 1 .. i-1 : Answers(store, i, j)
      BY <2>1, <3>1 DEF Backed
    <3> QED BY <2>1, <3>1, <3>2, AnswersNoOrphan
  <2> QED BY <2>1, <2>2 DEF StoredPaired
<1>2. IInv => PromptPaired
  <2> SUFFICES ASSUME IInv, pc = "asking"
               PROVE  /\ Paired(messages)
                      /\ \A i \in Orphans(messages) : \A j \in 2 .. i : messages[j].role = "tool"
    BY DEF PromptPaired
  <2>1. Settled(messages, start, turn, Len(batches))
    BY DEF IInv, PromptOK
  <2>2. messages \in Seq(Message) /\ Paired(messages) /\ \A i \in Results(messages) : Placed(messages, start, i)
    BY <2>1 DEF Settled
  <2>3. ASSUME NEW i \in Orphans(messages) PROVE \A j \in 2 .. i : messages[j].role = "tool"
    <3>1. i \in Results(messages) /\ i \in DOMAIN messages
      BY DEF Orphans, Results
    <3>2. ~\E j \in 1 .. i-1 : Answers(messages, i, j)
      BY <2>2, <3>1, AnswersNoOrphan
    <3> QED BY <2>2, <3>1, <3>2 DEF Placed
  <2> QED BY <2>2, <2>3
<1>3. IInv => AgentInv
  BY <1>1, <1>2, LoopTyped DEF AgentInv
<1> QED BY <1>3, LoopInvariant, PTL

(* What a turn persists is the turn, for every history, limit and budget:    *)
(* its user message first and only once, nothing of the system prompt or of  *)
(* an earlier turn, and all of its batches (persist_start, lines 291-293).   *)
THEOREM PersistsItsTurn == Spec => []SliceIsTurn
<1>1. IInv => SliceIsTurn
  <2> SUFFICES ASSUME IInv, pc = "finished", reply # "failed"
               PROVE  /\ Slice # <<>> /\ Slice[1] = User(turn)
                      /\ \A i \in 2..Len(Slice) : Slice[i].role \in {"assistant", "tool"}
                      /\ \A i \in DOMAIN Slice : Slice[i].turn = turn
                      /\ Cardinality({i \in DOMAIN Slice : Slice[i].role = "assistant" /\ Slice[i].calls # <<>>})
                           = Len(batches)
    BY DEF SliceIsTurn
  <2>1. Settled(messages, start, turn, Len(batches))
    BY DEF IInv, PromptOK
  <2>2. turn \in Nat /\ Len(batches) \in Nat
    BY AgentAssumption DEF IInv, LoopInv, LoopOK, ErrorsOK, Counts
  <2>3. Slice = SubSeq(messages, start + 1, Len(messages))
    BY DEF Slice
  <2>4. WholeTurn(Slice, turn, Len(batches))
    BY <2>1, <2>2, <2>3, SettledSlice
  <2> QED BY <2>4, Zenon DEF WholeTurn
<1> QED BY <1>1, LoopInvariant, PTL

(* The loop gives up exactly when its last MaxErrors batches all failed by   *)
(* majority, for every limit, zero included (lines 568-596).                 *)
THEOREM GivesUpExactly == Spec => []GivesUpInTime
<1>1. IInv => GivesUpInTime
  <2> SUFFICES ASSUME IInv
               PROVE  /\ pc # "finished" => ~AllFailed(Limit)
                      /\ reply = "gave_up" => AllFailed(Limit)
    BY DEF GivesUpInTime, Limit
  <2>1. Counts(batches, errors) /\ (pc # "finished" => errors < Limit) /\ (reply = "gave_up" => errors >= Limit)
    BY DEF IInv, LoopInv, ErrorsOK
  <2>2. PICK n \in Nat : n = Len(batches) /\ errors \in 0 .. n
    BY <2>1 DEF Counts
  <2>3. /\ \A i \in n - errors + 1 .. n : batches[i] = TRUE
        /\ errors < n => batches[n - errors] = FALSE
    BY <2>1, <2>2 DEF Counts
  <2>4. Limit \in Nat /\ Limit > 0
    BY NothingCounted
  <2>5. ASSUME errors < Limit PROVE ~AllFailed(Limit)
    <3>1. CASE errors < n
      <4>1. n - errors \in n - Limit + 1 .. n
        BY <2>2, <2>4, <2>5, <3>1
      <4> QED BY <2>2, <2>3, <3>1, <4>1 DEF AllFailed
    <3>2. CASE ~(errors < n)
      <4>1. ~(n >= Limit)
        BY <2>2, <2>4, <2>5, <3>2
      <4> QED BY <2>2, <4>1 DEF AllFailed
    <3> QED BY <3>1, <3>2
  <2>6. ASSUME errors >= Limit PROVE AllFailed(Limit)
    <3>1. n >= Limit /\ \A i \in n - Limit + 1 .. n : i \in n - errors + 1 .. n
      BY <2>2, <2>4, <2>6
    <3> QED BY <2>2, <2>3, <3>1 DEF AllFailed
  <2> QED BY <2>1, <2>5, <2>6
<1> QED BY <1>1, LoopInvariant, PTL

(* The fallback stands in for the primary model only, and once the LLM chose *)
(* a model no other is asked in that turn (lines 323-333, 598-640).          *)
THEOREM FallbackOnlyForPrimary == Spec => []FallbackForPrimary
<1>1. IInv => FallbackForPrimary
  BY DEF IInv, LlmOK, FallbackForPrimary
<1> QED BY <1>1, LoopInvariant, PTL

-----------------------------------------------------------------------------
(* The budget.                                                               *)

\* One pair for each token of the messages at the places I.
Cells(seq, I) == UNION {{i} \X (1 .. CostOf[seq[i].role]) : i \in I}
Weight(seq, I) == Cardinality(Cells(seq, I))

Cost(m) == CostOf[m.role]

\* The numbers up to one.
LEMMA FirstNumbers == ASSUME NEW k \in Nat PROVE IsFiniteSet(1 .. k) /\ Cardinality(1 .. k) = k
BY FS_Interval

\* Every message costs something.
LEMMA CostIs == ASSUME NEW m \in Message PROVE Cost(m) \in Nat /\ Cost(m) > 0
<1>1. m.role \in Roles
  BY DEF Message
<1> QED BY <1>1, AgentAssumption DEF Cost

\* No more than a bounded number of tokens each.
LEMMA CellsFinite ==
  ASSUME NEW seq \in Seq(Message), NEW n \in Nat, n = Len(seq), NEW I \in SUBSET (1 .. n)
  PROVE  IsFiniteSet(Cells(seq, I)) /\ Weight(seq, I) \in Nat
<1>1. PICK B \in Nat : \A r \in Roles : CostOf[r] <= B
  <2>1. /\ CostOf["system"] \in Nat /\ CostOf["user"] \in Nat
        /\ CostOf["assistant"] \in Nat /\ CostOf["tool"] \in Nat
    BY AgentAssumption DEF Roles
  <2>2. \A a, b, c, d \in Nat :
          a + b + c + d \in Nat /\ a <= a + b + c + d /\ b <= a + b + c + d
          /\ c <= a + b + c + d /\ d <= a + b + c + d
    OBVIOUS
  <2>3. PICK B \in Nat : /\ CostOf["system"] <= B /\ CostOf["user"] <= B
                         /\ CostOf["assistant"] <= B /\ CostOf["tool"] <= B
    BY <2>1, <2>2
  <2>4. \A r \in Roles : CostOf[r] <= B
    BY <2>3, Zenon DEF Roles
  <2> QED BY <2>4
<1>2. IsFiniteSet((1 .. n) \X (1 .. B))
  <2>1. IsFiniteSet(1 .. n) /\ IsFiniteSet(1 .. B)
    BY FirstNumbers
  <2> QED BY <2>1, FS_Product
<1>3. Cells(seq, I) \subseteq (1 .. n) \X (1 .. B)
  <2> SUFFICES ASSUME NEW i \in I, NEW p \in {i} \X (1 .. CostOf[seq[i].role])
               PROVE  p \in (1 .. n) \X (1 .. B)
    BY DEF Cells
  <2>1. seq[i] \in Message
    <3>1. i \in 1 .. Len(seq)
      OBVIOUS
    <3> QED BY <3>1, ElementOfSeq
  <2>2. CostOf[seq[i].role] \in Nat /\ CostOf[seq[i].role] <= B
    BY <1>1, <2>1, AgentAssumption DEF Message
  <2>3. 1 .. CostOf[seq[i].role] \subseteq 1 .. B
    BY <2>2
  <2> QED BY <2>3
<1> QED BY <1>2, <1>3, FS_Subset, FS_CardinalityType DEF Weight

\* One place more adds its message's cost.
LEMMA WeightAdds ==
  ASSUME NEW seq \in Seq(Message), NEW n \in Nat, n = Len(seq), NEW I \in SUBSET (1 .. n),
         NEW j \in 1 .. n, j \notin I
  PROVE  Weight(seq, I \cup {j}) = Weight(seq, I) + Cost(seq[j])
<1>1. PICK c \in Nat : c = Cost(seq[j])
  <2>1. seq[j] \in Message
    OBVIOUS
  <2> QED BY <2>1, CostIs
<1> DEFINE A == Cells(seq, I)
           D == {j} \X (1 .. c)
<1>2. IsFiniteSet(A) /\ Cardinality(A) \in Nat
  BY CellsFinite DEF Weight
<1>3. IsFiniteSet(D) /\ Cardinality(D) = c
  <2>1. IsFiniteSet({j}) /\ Cardinality({j}) = 1
    BY FS_Singleton
  <2>2. IsFiniteSet(1 .. c) /\ Cardinality(1 .. c) = c
    BY FirstNumbers
  <2>3. IsFiniteSet(D) /\ Cardinality(D) = 1 * c
    BY <2>1, <2>2, FS_Product
  <2> QED BY <2>3
<1>4. Cells(seq, I \cup {j}) = A \cup D
  BY <1>1 DEF Cells, Cost
<1>5. A \cap D = {}
  BY DEF Cells
<1>6. Cardinality(A \cap D) = 0
  BY <1>5, FS_EmptySet
<1> HIDE DEF A, D
<1>7. Cardinality(A \cup D) = Cardinality(A) + Cardinality(D) - Cardinality(A \cap D)
  BY <1>2, <1>3, FS_Union
<1>8. Cardinality(A \cup D) = Cardinality(A) + c
  BY <1>2, <1>3, <1>6, <1>7
<1> QED BY <1>1, <1>4, <1>8 DEF Weight, A

\* The same messages at other places cost the same.
LEMMA WeightMoves ==
  ASSUME NEW b \in Seq(Message), NEW s \in Seq(Message), NEW k \in Nat, NEW l \in Nat,
         l <= Len(b), k + l <= Len(s), \A i \in 1 .. l : b[i] = s[k + i]
  PROVE  Weight(b, 1 .. l) = Weight(s, k+1 .. k+l)
<1> DEFINE B == Cells(b, 1 .. l)
           S == Cells(s, k+1 .. k+l)
           f == [p \in B |-> <<p[1] + k, p[2]>>]
<1>1. IsFiniteSet(B)
  <2>1. Len(b) \in Nat /\ 1 .. l \subseteq 1 .. Len(b)
    OBVIOUS
  <2> QED BY <2>1, CellsFinite
<1>2. \A p \in B : \E i \in 1 .. l : \E t \in 1 .. Cost(b[i]) : p = <<i, t>>
  BY DEF Cells, Cost
<1>3. \A i \in 1 .. l : \A t \in 1 .. Cost(b[i]) : <<i, t>> \in B
  BY DEF Cells, Cost
<1>4. \A q \in S : \E j \in k+1 .. k+l : \E t \in 1 .. Cost(s[j]) : q = <<j, t>>
  BY DEF Cells, Cost
<1>5. \A j \in k+1 .. k+l : \A t \in 1 .. Cost(s[j]) : <<j, t>> \in S
  BY DEF Cells, Cost
<1> HIDE DEF B, S
<1>6. ASSUME NEW p \in B PROVE f[p] \in S
  <2>1. PICK i \in 1 .. l : \E t \in 1 .. Cost(b[i]) : p = <<i, t>>
    BY <1>2
  <2>2. PICK t \in 1 .. Cost(b[i]) : p = <<i, t>>
    BY <2>1
  <2>3. i + k \in k+1 .. k+l /\ i + k = k + i
    OBVIOUS
  <2>4. t \in 1 .. Cost(s[i + k])
    BY <2>3
  <2>5. f[p] = <<i + k, t>>
    BY <2>2
  <2> QED BY <1>5, <2>3, <2>4, <2>5
<1>7. ASSUME NEW p \in B, NEW q \in B, f[p] = f[q] PROVE p = q
  <2>1. PICK i \in 1 .. l : \E t \in 1 .. Cost(b[i]) : p = <<i, t>>
    BY <1>2
  <2>2. PICK t : p = <<i, t>>
    BY <2>1
  <2>3. PICK j \in 1 .. l : \E u \in 1 .. Cost(b[j]) : q = <<j, u>>
    BY <1>2
  <2>4. PICK u : q = <<j, u>>
    BY <2>3
  <2>5. f[p] = <<i + k, t>> /\ f[q] = <<j + k, u>>
    BY <2>2, <2>4
  <2>6. i + k = j + k /\ t = u
    BY <1>7, <2>5
  <2>7. i = j
    BY <2>6
  <2> QED BY <2>2, <2>4, <2>6, <2>7
<1>8. ASSUME NEW q \in S PROVE \E p \in B : f[p] = q
  <2>1. PICK j \in k+1 .. k+l : \E t \in 1 .. Cost(s[j]) : q = <<j, t>>
    BY <1>4
  <2>2. PICK t \in 1 .. Cost(s[j]) : q = <<j, t>>
    BY <2>1
  <2>3. PICK i \in 1 .. l : i = j - k /\ i + k = j /\ k + i = j
    OBVIOUS
  <2>4. <<i, t>> \in B
    BY <1>3, <2>2, <2>3
  <2>5. f[<<i, t>>] = <<i + k, t>>
    BY <2>4
  <2> QED BY <2>2, <2>3, <2>4, <2>5
<1>9. f \in Bijection(B, S)
  <2>1. f \in [B -> S]
    BY <1>6
  <2> HIDE DEF f
  <2> QED BY <2>1, <1>7, <1>8 DEF Bijection, Injection, Surjection, IsInjective
<1> HIDE DEF f
<1>10. Cardinality(S) = Cardinality(B)
  BY <1>1, <1>9, FS_Bijection DEF ExistsBijection
<1> QED BY <1>10 DEF Weight, B, S

\* The tokens of messages are their weight.
LEMMA TokensIs ==
  ASSUME NEW seq \in Seq(Message), NEW n \in Nat, n = Len(seq)
  PROVE  Tokens(seq) = Weight(seq, 1 .. n) /\ Tokens(seq) \in Nat
<1>1. DOMAIN seq = 1 .. n
  OBVIOUS
<1>2. Tokens(seq) = Weight(seq, 1 .. n)
  BY <1>1 DEF Tokens, Weight, Cells
<1> QED BY <1>2, CellsFinite

\* The latest k messages of a history, place by place.
LEMMA LatestAre ==
  ASSUME NEW h \in Seq(Message), NEW n \in Nat, n = Len(h), NEW k \in 0 .. n
  PROVE  /\ Last(h, k) \in Seq(Message) /\ Len(Last(h, k)) = k
         /\ \A i \in 1 .. k : Last(h, k)[i] = h[n - k + i]
<1>1. Last(h, k) = SubSeq(h, n - k + 1, n)
  <2>1. k \in Nat /\ (n > k \/ n - k + 1 = 1)
    OBVIOUS
  <2> QED BY <2>1 DEF Last
<1>2. n - k + 1 \in 1 .. n + 1
  OBVIOUS
<1>3. /\ SubSeq(h, n - k + 1, n) \in Seq(Message) /\ Len(SubSeq(h, n - k + 1, n)) = k
      /\ \A i \in 1 .. k : SubSeq(h, n - k + 1, n)[i] = h[n - k + i]
  BY <1>2
<1> QED BY <1>1, <1>3

\* One message more of the history costs what that message costs.
LEMMA LatestCost ==
  ASSUME NEW h \in Seq(Message), NEW n \in Nat, n = Len(h)
  PROVE  /\ \A k \in 0 .. n : Tokens(Last(h, k)) \in Nat
         /\ \A k \in 0 .. n-1 : Tokens(Last(h, k + 1)) = Tokens(Last(h, k)) + Cost(h[n - k])
<1>1. ASSUME NEW k \in 0 .. n
      PROVE  Tokens(Last(h, k)) = Weight(h, n-k+1 .. n) /\ Tokens(Last(h, k)) \in Nat
  <2>1. PICK b \in Seq(Message) :
          b = Last(h, k) /\ Len(b) = k /\ \A i \in 1 .. k : b[i] = h[n - k + i]
    BY LatestAre
  <2>2. k \in Nat /\ n - k \in Nat /\ (n - k) + k = n
    OBVIOUS
  <2>3. Tokens(b) = Weight(b, 1 .. k) /\ Tokens(b) \in Nat
    BY <2>1, <2>2, TokensIs
  <2>4. PICK o \in Nat : o = n - k
    BY <2>2
  <2>5. Weight(b, 1 .. k) = Weight(h, o+1 .. o+k)
    <3>1. k <= Len(b) /\ o + k <= Len(h) /\ \A i \in 1 .. k : b[i] = h[o + i]
      BY <2>1, <2>2, <2>4
    <3> QED BY <2>2, <3>1, WeightMoves
  <2> QED BY <2>1, <2>2, <2>3, <2>4, <2>5
<1>2. ASSUME NEW k \in 0 .. n-1
      PROVE  Tokens(Last(h, k + 1)) = Tokens(Last(h, k)) + Cost(h[n - k])
  <2>1. k \in 0 .. n /\ k + 1 \in 0 .. n /\ n - (k + 1) + 1 = n - k
    OBVIOUS
  <2>2. Tokens(Last(h, k)) = Weight(h, n-k+1 .. n)
    BY <1>1, <2>1
  <2>3. Tokens(Last(h, k + 1)) = Weight(h, n - (k + 1) + 1 .. n)
    BY <1>1, <2>1
  <2>4. PICK I \in SUBSET (1 .. n) : I = n-k+1 .. n
    OBVIOUS
  <2>5. PICK j \in 1 .. n : j = n - k /\ j \notin I /\ I \cup {j} = n - (k + 1) + 1 .. n
    <3>1. n - k \in 1 .. n /\ n - k \notin n-k+1 .. n
      OBVIOUS
    <3>2. (n-k+1 .. n) \cup {n - k} = n - (k + 1) + 1 .. n
      OBVIOUS
    <3> QED BY <2>4, <3>1, <3>2
  <2>6. Weight(h, I \cup {j}) = Weight(h, I) + Cost(h[j])
    BY <2>5, WeightAdds
  <2> QED BY <2>2, <2>3, <2>4, <2>5, <2>6
<1> QED BY <1>1, <1>2

\* What a single message costs, and none.
LEMMA FewTokens ==
  /\ Tokens(<<>>) = 0
  /\ \A m \in Message : Tokens(<<m>>) = Cost(m)
<1>1. \A s \in Seq(Message) : Weight(s, {}) = 0
  <2> SUFFICES ASSUME NEW s \in Seq(Message) PROVE Weight(s, {}) = 0
    OBVIOUS
  <2>1. Cells(s, {}) = {}
    BY DEF Cells
  <2> QED BY <2>1, FS_EmptySet DEF Weight
<1>2. Tokens(<<>>) = 0
  <2>1. <<>> \in Seq(Message) /\ 0 = Len(<<>>) /\ 1 .. 0 = {}
    OBVIOUS
  <2> QED BY <1>1, <2>1, TokensIs
<1>3. ASSUME NEW m \in Message PROVE Tokens(<<m>>) = Cost(m)
  <2>1. PICK b \in Seq(Message) : b = <<m>> /\ 1 = Len(b) /\ b[1] = m
    <3>1. <<m>> \in Seq(Message) /\ 1 = Len(<<m>>) /\ <<m>>[1] = m
      OBVIOUS
    <3> QED BY <3>1
  <2>2. 1 .. 1 = {} \cup {1} /\ 1 \in 1 .. 1 /\ {} \in SUBSET (1 .. 1)
    OBVIOUS
  <2>3. Weight(b, {} \cup {1}) = Weight(b, {}) + Cost(b[1])
    BY <2>1, <2>2, WeightAdds
  <2>4. Tokens(b) = Weight(b, 1 .. 1)
    BY <2>1, TokensIs
  <2>5. Cost(m) \in Nat
    BY CostIs
  <2>6. Weight(b, {}) = 0 /\ Weight(b, 1 .. 1) = Weight(b, {} \cup {1})
    BY <1>1, <2>1, <2>2
  <2>7. Weight(b, 1 .. 1) = Cost(m)
    BY <2>1, <2>3, <2>5, <2>6
  <2> QED BY <2>1, <2>4, <2>7
<1> QED BY <1>2, <1>3

\* The messages that follow the first of a prompt.
LEMMA AfterTheFirst ==
  ASSUME NEW h \in Seq(Message), NEW s \in Seq(Message), NEW k \in Nat,
         k <= Len(h), 1 + k <= Len(s), \A i \in 1 .. k : h[i] = s[1 + i]
  PROVE  Weight(h, 1 .. k) = Weight(s, 1+1 .. 1+k)
<1>1. 1 \in Nat
  OBVIOUS
<1> QED BY <1>1, WeightMoves

\* A message before a history and one after it.
LEMMA HistoryBetween ==
  ASSUME NEW h \in Seq(Message), NEW m \in Seq(Message), NEW k \in Nat, k = Len(h),
         Len(m) = k + 2, \A i \in 1 .. k : h[i] = m[1 + i]
  PROVE  Tokens(m) = Cost(m[1]) + Cost(m[k + 2]) + Tokens(h)
<1>1. Weight(h, 1 .. k) = Weight(m, 1+1 .. 1+k)
  <2>1. k <= Len(h) /\ 1 + k <= Len(m) /\ \A i \in 1 .. k : h[i] = m[1 + i]
    OBVIOUS
  <2>2. \A s \in Seq(Message) :
          k <= Len(h) /\ 1 + k <= Len(s) /\ (\A i \in 1 .. k : h[i] = s[1 + i])
            => Weight(h, 1 .. k) = Weight(s, 1+1 .. 1+k)
    BY AfterTheFirst
  <2> QED BY <2>1, <2>2, Zenon
<1>2. PICK n \in Nat : n = Len(m) /\ n = k + 2
  OBVIOUS
<1>3. PICK I \in SUBSET (1 .. n) : I = 1+1 .. 1+k /\ 1 \in 1 .. n /\ 1 \notin I
  BY <1>2
<1>4. PICK J \in SUBSET (1 .. n) : J = I \cup {1} /\ n \in 1 .. n /\ n \notin J
  <2>1. n \in 1 .. n /\ n # 1 /\ \A i \in 1+1 .. 1+k : i # n
    BY <1>2
  <2>2. n \notin I \cup {1}
    BY <1>3, <2>1
  <2>3. I \cup {1} \in SUBSET (1 .. n)
    BY <1>3, Zenon
  <2> QED BY <2>1, <2>2, <2>3, Zenon
<1>5. Weight(m, I \cup {1}) = Weight(m, I) + Cost(m[1])
  BY <1>2, <1>3, WeightAdds
<1>6. Weight(m, J \cup {n}) = Weight(m, J) + Cost(m[n])
  BY <1>2, <1>4, WeightAdds
<1>7. J \cup {n} = 1 .. n
  BY <1>2, <1>3, <1>4
<1>8. Tokens(m) = Weight(m, 1 .. n) /\ Tokens(h) = Weight(h, 1 .. k) /\ Tokens(h) \in Nat
  BY <1>2, TokensIs
<1>9. Cost(m[1]) \in Nat /\ Cost(m[n]) \in Nat
  <2>1. 1 \in 1 .. Len(m) /\ n \in 1 .. Len(m)
    BY <1>2
  <2>2. m[1] \in Message /\ m[n] \in Message
    BY <2>1, ElementOfSeq
  <2> QED BY <2>2, CostIs
<1>10. Tokens(m) = Tokens(h) + Cost(m[1]) + Cost(m[n])
  BY <1>1, <1>3, <1>4, <1>5, <1>6, <1>7, <1>8
<1> QED BY <1>2, <1>8, <1>9, <1>10

\* A prompt costs its history, and the messages before and after it.
LEMMA PromptTokens ==
  ASSUME NEW h \in Seq(Message), NEW a \in Message, NEW u \in Message,
         NEW m \in Seq(Message), m = Append(<<a>> \o h, u)
  PROVE  /\ Len(<<a>> \o h) = Len(h) + 1
         /\ Tokens(m) = Cost(a) + Cost(u) + Tokens(h)
<1>1. PICK k \in Nat : k = Len(h)
  OBVIOUS
<1>2. PICK b \in Seq(Message) : b = <<a>> /\ Len(b) = 1 /\ b[1] = a
  <2>1. <<a>> \in Seq(Message) /\ Len(<<a>>) = 1 /\ <<a>>[1] = a
    OBVIOUS
  <2> QED BY <2>1
<1>3. PICK c \in Seq(Message) :
        /\ c = b \o h /\ Len(c) = 1 + k /\ c[1] = a
        /\ \A i \in 1 .. k : c[1 + i] = h[i]
  <2>1. /\ b \o h \in Seq(Message) /\ Len(b \o h) = Len(b) + Len(h)
        /\ \A i \in 1 .. Len(b) : (b \o h)[i] = b[i]
        /\ \A i \in 1 .. Len(h) : (b \o h)[Len(b) + i] = h[i]
    BY ConcatIs
  <2>2. PICK c \in Seq(Message) : c = b \o h
    BY <2>1
  <2>3. Len(c) = 1 + k /\ \A i \in 1 .. k : c[1 + i] = h[i]
    BY <1>1, <1>2, <2>1, <2>2
  <2>4. c[1] = a
    <3>1. 1 \in 1 .. Len(b)
      BY <1>2
    <3> QED BY <1>2, <2>1, <2>2, <3>1
  <2> QED BY <2>2, <2>3, <2>4
<1>4. m = Append(c, u)
  BY <1>2, <1>3
<1>5. /\ Len(m) = k + 2 /\ m[1] = a /\ m[k + 2] = u
      /\ \A i \in 1 .. k : m[1 + i] = h[i]
  <2>1. Len(m) = Len(c) + 1
    BY <1>4
  <2>2. m[Len(c) + 1] = u
    BY <1>4
  <2>3. \A i \in 1 .. Len(c) : m[i] = c[i]
    <3>1. \A i \in 1 .. Len(c) : Append(c, u)[i] = c[i]
      BY AppendProperties
    <3> QED BY <1>4, <3>1
  <2>4. Len(m) = k + 2 /\ m[k + 2] = u
    BY <1>3, <2>1, <2>2
  <2>5. m[1] = a /\ \A i \in 1 .. k : m[1 + i] = h[i]
    <3>1. 1 \in 1 .. Len(c) /\ \A i \in 1 .. k : 1 + i \in 1 .. Len(c)
      BY <1>3
    <3> QED BY <1>3, <2>3, <3>1
  <2> QED BY <2>4, <2>5
<1>6. Tokens(m) = Cost(m[1]) + Cost(m[k + 2]) + Tokens(h)
  <2>1. Len(m) = k + 2 /\ \A i \in 1 .. k : h[i] = m[1 + i]
    BY <1>5
  <2>2. \A s \in Seq(Message) :
          Len(s) = k + 2 /\ (\A i \in 1 .. k : h[i] = s[1 + i])
            => Tokens(s) = Cost(s[1]) + Cost(s[k + 2]) + Tokens(h)
    BY <1>1, HistoryBetween
  <2> QED BY <2>1, <2>2, Zenon
<1>7. Tokens(m) = Cost(a) + Cost(u) + Tokens(h)
  BY <1>5, <1>6, Zenon
<1>8. Len(<<a>> \o h) = Len(h) + 1
  BY <1>1, <1>2, <1>3
<1> QED BY <1>7, <1>8

\* What the trimming leaves: the most of the history that has room, if anything.
LEMMA TrimFits ==
  ASSUME NEW h \in Seq(Message), NEW n \in Nat, n = Len(h), NEW u \in Message, Budget > 0,
         NEW used \in Nat, used = CostOf["system"] + Cost(u)
  PROVE  \E k \in 0 .. n :
           /\ Trim(h, u) = Last(h, k)
           /\ k = 0 \/ used + Tokens(Last(h, k)) <= Budget
           /\ k < n => used + Tokens(Last(h, k)) + Cost(h[n - k]) > Budget
<1> DEFINE room == IF Budget > used THEN Budget - used ELSE 0
           fits == {0} \cup {k \in 1..n : Tokens(Last(h, k)) <= room}
<1>1. Budget \in Nat /\ room \in Nat
  BY AgentAssumption
<1>2. Trim(h, u) = IF used + Tokens(h) <= Budget THEN h
                   ELSE IF room = 0 THEN <<>> ELSE Last(h, Max(fits))
  <2>1. used = CostOf["system"] + Tokens(<<u>>) /\ Budget # 0
    BY <1>1, FewTokens
  <2> QED BY <2>1 DEF Trim
<1>3. \A k \in 0 .. n : Tokens(Last(h, k)) \in Nat
  BY LatestCost
<1>4. Last(h, n) = h /\ Last(h, 0) = <<>>
  <2>1. \A k \in 0 .. n : Last(h, k) \in Seq(Message) /\ Len(Last(h, k)) = k
    BY LatestAre
  <2>2. \A i \in 1 .. n : Last(h, n)[i] = h[n - n + i]
    <3>1. n \in 0 .. n
      OBVIOUS
    <3> QED BY <3>1, LatestAre
  <2>3. \A i \in 1 .. n : Last(h, n)[i] = h[i]
    <3>1. \A i \in 1 .. n : n - n + i = i
      OBVIOUS
    <3> QED BY <2>2, <3>1
  <2>4. Last(h, n) \in Seq(Message) /\ Len(Last(h, n)) = n
    BY <2>1
  <2>5. Last(h, n) = h
    BY <2>3, <2>4
  <2>6. Last(h, 0) \in Seq(Message) /\ Len(Last(h, 0)) = 0
    BY <2>1
  <2>7. Last(h, 0) = <<>>
    BY <2>6, EmptySeq
  <2> QED BY <2>5, <2>7
<1>5. \A k \in 0 .. n-1 :
        /\ k + 1 \in 0 .. n /\ Cost(h[n - k]) \in Nat /\ Cost(h[n - k]) > 0
        /\ Tokens(Last(h, k + 1)) = Tokens(Last(h, k)) + Cost(h[n - k])
  <2> SUFFICES ASSUME NEW k \in 0 .. n-1
               PROVE  /\ k + 1 \in 0 .. n /\ Cost(h[n - k]) \in Nat /\ Cost(h[n - k]) > 0
                      /\ Tokens(Last(h, k + 1)) = Tokens(Last(h, k)) + Cost(h[n - k])
    OBVIOUS
  <2>1. n - k \in 1 .. Len(h)
    OBVIOUS
  <2>2. h[n - k] \in Message
    BY <2>1, ElementOfSeq
  <2>3. Cost(h[n - k]) \in Nat /\ Cost(h[n - k]) > 0
    BY <2>2, CostIs
  <2>4. Tokens(Last(h, k + 1)) = Tokens(Last(h, k)) + Cost(h[n - k])
    BY LatestCost
  <2> QED BY <2>3, <2>4
<1>6. CASE used + Tokens(h) <= Budget
  <2>1. n \in 0 .. n /\ ~(n < n)
    OBVIOUS
  <2> QED BY <1>2, <1>4, <1>6, <2>1
<1>7. CASE ~(used + Tokens(h) <= Budget) /\ room = 0
  <2>1. Trim(h, u) = Last(h, 0) /\ Tokens(Last(h, 0)) = 0
    BY <1>2, <1>4, <1>7, FewTokens
  <2>2. used >= Budget
    BY <1>1, <1>7
  <2>3. 0 < n => used + 0 + Cost(h[n - 0]) > Budget
    BY <1>1, <1>5, <2>2
  <2> QED BY <2>1, <2>3
<1>8. CASE ~(used + Tokens(h) <= Budget) /\ room # 0
  <2>1. room = Budget - used /\ Budget > used
    BY <1>8
  <2>2. fits \in SUBSET (0 .. n) /\ fits # {}
    OBVIOUS
  <2>3. \A k \in 1 .. n : k \in fits <=> Tokens(Last(h, k)) <= room
    OBVIOUS
  <2> HIDE DEF fits, room
  <2>4. PICK k \in fits : \A l \in fits : l <= k
    BY <2>2, GreatestElement
  <2>5. Max(fits) \in fits /\ \A l \in fits : Max(fits) >= l
    <3>1. \E k0 \in fits : \A l \in fits : k0 >= l
      BY <2>2, <2>4
    <3> QED BY <3>1 DEF Max
  <2>6. PICK x \in 0 .. n : x = Max(fits)
    BY <2>2, <2>5
  <2>7. x = 0 \/ used + Tokens(Last(h, x)) <= Budget
    <3>1. x # 0 => Tokens(Last(h, x)) <= room
      BY <2>3, <2>5, <2>6
    <3> QED BY <1>1, <1>3, <2>1, <3>1
  <2>8. ASSUME x < n PROVE used + Tokens(Last(h, x)) + Cost(h[n - x]) > Budget
    <3>1. x \in 0 .. n-1 /\ x + 1 \in 1 .. n /\ ~(x >= x + 1)
      BY <2>8
    <3>2. x + 1 \notin fits
      BY <2>5, <2>6, <3>1
    <3>3. ~(Tokens(Last(h, x + 1)) <= room)
      BY <2>3, <3>1, <3>2
    <3>4. Tokens(Last(h, x + 1)) = Tokens(Last(h, x)) + Cost(h[n - x]) /\ Cost(h[n - x]) \in Nat
      BY <1>5, <3>1
    <3>5. Tokens(Last(h, x)) \in Nat
      BY <1>3
    <3>6. PICK c \in Nat, d \in Nat : c = Tokens(Last(h, x)) /\ d = Cost(h[n - x])
      BY <3>4, <3>5
    <3>7. ~(c + d <= Budget - used)
      BY <2>1, <3>3, <3>4, <3>6
    <3>8. used + c + d > Budget
      BY <1>1, <3>7
    <3> QED BY <3>6, <3>8
  <2>9. Trim(h, u) = Last(h, x)
    BY <1>2, <1>8, <2>6
  <2> QED BY <2>7, <2>8, <2>9
<1> QED BY <1>6, <1>7, <1>8

\* The prompt of a turn that begins fits.
LEMMA BeginFits == ASSUME LoopInv, PromptOK, Begin PROVE PromptFits'
<1>1. /\ turn' \in 0 .. MaxTurns /\ pc' = "round" /\ UNCHANGED store
      /\ messages' = Append(<<System>> \o Trim(History, User(turn')), User(turn'))
      /\ start' = Len(<<System>> \o Trim(History, User(turn')))
  BY AgentAssumption DEF LoopInv, LoopOK, Begin
<1>2. PICK H \in Seq(Message) : H = History /\ H = History'
  <2>1. store \in Seq(Message) /\ store' = store
    BY <1>1 DEF PromptOK
  <2> QED BY <2>1, LastIs, AgentAssumption DEF History
<1>3. PICK n \in Nat : n = Len(H)
  OBVIOUS
<1>4. PICK u \in Message : u = User(turn') /\ u.role = "user"
  <2>1. User(turn') \in Message /\ User(turn').role = "user"
    BY <1>1, EmptySeq DEF User, Message, Roles
  <2> QED BY <2>1
<1>5. PICK a \in Message : a = System /\ Cost(a) = CostOf["system"]
  <2>1. System \in Message /\ System.role = "system"
    BY AgentAssumption, EmptySeq DEF System, Message, Roles
  <2> QED BY <2>1 DEF Cost
<1>6. PICK used \in Nat : used = CostOf["system"] + Cost(u)
  BY <1>5, CostIs
<1> SUFFICES ASSUME Budget > 0
             PROVE  /\ Tokens(messages') <= Budget \/ start' - 1 = 0
                    /\ start' - 1 < n =>
                         Tokens(messages') + CostOf[H[n - (start' - 1)].role] > Budget
  BY <1>2, <1>3 DEF PromptFits
<1>7. PICK k \in 0 .. n :
        /\ Trim(H, u) = Last(H, k)
        /\ k = 0 \/ used + Tokens(Last(H, k)) <= Budget
        /\ k < n => used + Tokens(Last(H, k)) + Cost(H[n - k]) > Budget
  BY <1>3, <1>6, TrimFits
<1>8. PICK t \in Seq(Message) : t = Last(H, k) /\ Len(t) = k
  BY <1>3, LatestAre
<1>9. PICK m \in Seq(Message) : m = Append(<<a>> \o t, u)
  <2>1. <<a>> \in Seq(Message)
    OBVIOUS
  <2>2. <<a>> \o t \in Seq(Message)
    BY <2>1, ConcatIs
  <2>3. Append(<<a>> \o t, u) \in Seq(Message)
    BY <2>2, AppendProperties
  <2> QED BY <2>3
<1>10. Len(<<a>> \o t) = k + 1 /\ Tokens(m) = Cost(a) + Cost(u) + Tokens(t)
  <2>1. \A s, q \in Seq(Message) :
          q = Append(<<a>> \o s, u)
            => Len(<<a>> \o s) = Len(s) + 1 /\ Tokens(q) = Cost(a) + Cost(u) + Tokens(s)
    BY PromptTokens
  <2>2. Len(<<a>> \o t) = Len(t) + 1 /\ Tokens(m) = Cost(a) + Cost(u) + Tokens(t)
    BY <1>9, <2>1, Zenon
  <2> QED BY <1>8, <2>2
<1>11. messages' = m /\ start' = k + 1
  BY <1>1, <1>2, <1>4, <1>5, <1>7, <1>8, <1>9, <1>10
<1>12. Tokens(m) = used + Tokens(t) /\ start' - 1 = k
  BY <1>5, <1>6, <1>10, <1>11
<1> QED BY <1>7, <1>8, <1>11, <1>12 DEF Cost

(* The trimmed prompt fits the budget or holds no history, and one message   *)
(* more would not fit, for any costs and budget (token_budget.rs, 16-89).    *)
THEOREM TrimsToTheBudget == Spec => []PromptFits
<1>1. Init => PromptFits
  BY DEF Init, PromptFits
<1>2. IInv /\ PromptFits /\ [Next]_vars => PromptFits'
  <2> SUFFICES ASSUME IInv, PromptFits, [Next]_vars PROVE PromptFits'
    OBVIOUS
  <2>1. CASE Begin
    BY <2>1, BeginFits DEF IInv
  <2>2. CASE ~Begin
    <3>1. \/ pc' # "round" \/ round' # 0
          \/ UNCHANGED <<pc, round, messages, start, store>>
      <4>1. CASE AgentStep
        <5>1. CASE StartRound
          BY <5>1 DEF StartRound, OutOfRounds, Finish, GoTo
        <5>2. CASE ReceiveEvent
          BY <5>2 DEF ReceiveEvent, GoTo
        <5>3. CASE SendDelta \/ ClientGone \/ StreamOver
          BY <5>3 DEF SendDelta, ClientGone, StreamOver, Finish, Fail, GoTo
        <5>4. CASE UseAnswer
          BY <5>4 DEF UseAnswer, Finish, GoTo
        <5>5. CASE EndBatch
          <6>1. round \in Nat
            BY AgentAssumption DEF IInv, LoopInv, LoopOK
          <6>2. pc' = "finished" \/ round' = round + 1
            BY <5>5 DEF EndBatch, Finish
          <6> QED BY <6>1, <6>2
        <5>6. CASE Save
          BY <5>6 DEF Save
        <5> QED BY <2>2, <4>1, <5>1, <5>2, <5>3, <5>4, <5>5, <5>6 DEF AgentStep
      <4>2. CASE LlmStep
        BY <4>2 DEF LlmStep, ChatAnswers, StreamStarts, RequestFails, GoTo, Fail
      <4>3. CASE ReaderStep
        BY <4>3 DEF ReaderStep, ReadDelta, ReadEnd, prompt
      <4>4. CASE ClientStep
        BY <4>4 DEF ClientStep, ClientReads, ClientLeaves, prompt
      <4>5. ASSUME NEW i \in DOMAIN ended, ToolEnds(i) PROVE UNCHANGED <<pc, round, messages, start, store>>
        BY <4>5 DEF ToolEnds, prompt
      <4>6. CASE Over \/ UNCHANGED vars
        BY <4>6 DEF Over, vars, prompt
      <4> QED BY <4>1, <4>2, <4>3, <4>4, <4>5, <4>6 DEF Next
    <3> QED BY <3>1 DEF PromptFits, History
  <2> QED BY <2>1, <2>2
<1> QED BY <1>1, <1>2, LoopInvariant, PTL DEF Spec

=============================================================================
