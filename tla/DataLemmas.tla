----------------------------- MODULE DataLemmas -----------------------------
(* Facts about sequences, finite sets and numbers that the proofs of several *)
(* components rest on.                                                       *)
EXTENDS Integers, Sequences, FiniteSets, FiniteSetTheorems, SequenceTheorems, TLAPS

\* No value occurs twice in a sequence.
Distinct(s) == \A i, j \in DOMAIN s : s[i] = s[j] => i = j

\* A sequence with the element at i taken out and put at the end.
ToEnd(s, i) == Append(SubSeq(s, 1, i - 1) \o SubSeq(s, i + 1, Len(s)), s[i])

\* Moving an element to the end shifts the later ones down.
LEMMA ToEndIs ==
  ASSUME NEW S, NEW s \in Seq(S), NEW i \in DOMAIN s
  PROVE  /\ ToEnd(s, i) \in Seq(S)
         /\ Len(ToEnd(s, i)) = Len(s)
         /\ \A j \in 1 .. i-1 : ToEnd(s, i)[j] = s[j]
         /\ \A j \in i .. Len(s)-1 : ToEnd(s, i)[j] = s[j+1]
         /\ ToEnd(s, i)[Len(s)] = s[i]
<1> DEFINE a == SubSeq(s, 1, i - 1)
           b == SubSeq(s, i + 1, Len(s))
<1>1. i \in 1 .. Len(s) /\ Len(s) \in Nat
  OBVIOUS
<1>2. a \in Seq(S) /\ Len(a) = i - 1 /\ \A j \in 1 .. i-1 : a[j] = s[j]
  BY <1>1
<1>3. b \in Seq(S) /\ Len(b) = Len(s) - i /\ \A j \in 1 .. Len(s)-i : b[j] = s[i+j]
  BY <1>1
<1> HIDE DEF a, b
<1>4. a \o b \in Seq(S) /\ Len(a \o b) = Len(s) - 1
  BY <1>1, <1>2, <1>3
<1>5. \A j \in 1 .. Len(s)-1 : (a \o b)[j] = IF j < i THEN s[j] ELSE s[j+1]
  <2> TAKE j \in 1 .. Len(s)-1
  <2>1. CASE j < i
    BY <1>1, <1>2, <1>3, <2>1
  <2>2. CASE ~ j < i
    <3>1. (a \o b)[j] = b[j - (i-1)]
      <4>1. j \in 1 .. Len(a) + Len(b) /\ j > Len(a) /\ Len(a) = i - 1
        BY <1>1, <1>2, <1>3, <2>2
      <4>2. (a \o b)[j] = IF j <= Len(a) THEN a[j] ELSE b[j - Len(a)]
        <5>1. a \in Seq(S) /\ b \in Seq(S)
          BY <1>2, <1>3
        <5> QED BY <4>1, <5>1, ConcatProperties
      <4> QED BY <1>1, <4>1, <4>2
    <3>2. j - (i-1) \in 1 .. Len(s)-i
      BY <1>1, <2>2
    <3>3. b[j - (i-1)] = s[i + (j - (i-1))] /\ i + (j - (i-1)) = j + 1
      BY <1>1, <1>3, <3>2
    <3> QED BY <2>2, <3>1, <3>3
  <2> QED BY <2>1, <2>2
<1>6. ToEnd(s, i) = Append(a \o b, s[i])
  BY DEF ToEnd, a, b
<1>7. s[i] \in S
  BY <1>1
<1>8. ToEnd(s, i) \in Seq(S) /\ Len(ToEnd(s, i)) = Len(s) /\ ToEnd(s, i)[Len(s)] = s[i]
  BY <1>1, <1>4, <1>6, <1>7
<1>9. \A j \in 1 .. Len(s)-1 : ToEnd(s, i)[j] = (a \o b)[j]
  BY <1>1, <1>4, <1>6, <1>7
<1>10. ASSUME NEW j \in 1 .. i-1 PROVE ToEnd(s, i)[j] = s[j]
  <2>1. j \in 1 .. Len(s)-1 /\ j < i
    BY <1>1, <1>10
  <2> QED BY <1>5, <1>9, <2>1
<1>11. ASSUME NEW j \in i .. Len(s)-1 PROVE ToEnd(s, i)[j] = s[j+1]
  <2>1. j \in 1 .. Len(s)-1 /\ ~ j < i
    BY <1>1, <1>11
  <2> QED BY <1>5, <1>9, <2>1
<1> QED BY <1>8, <1>10, <1>11

\* Where the element that ToEnd puts at j was before.
ComesFrom(n, i, j) == IF j < i THEN j ELSE IF j < n THEN j + 1 ELSE i

\* Every element has exactly one new place.
LEMMA ComesFromPermutes ==
  ASSUME NEW n \in Nat, NEW i \in 1 .. n
  PROVE  /\ \A j \in 1 .. n : ComesFrom(n, i, j) \in 1 .. n
         /\ \A j, k \in 1 .. n : ComesFrom(n, i, j) = ComesFrom(n, i, k) => j = k
         /\ \A k \in 1 .. n : \E j \in 1 .. n : ComesFrom(n, i, j) = k
<1>1. \A j \in 1 .. n : ComesFrom(n, i, j) \in 1 .. n
  BY DEF ComesFrom
<1>2. \A j, k \in 1 .. n : ComesFrom(n, i, j) = ComesFrom(n, i, k) => j = k
  BY DEF ComesFrom
<1>3. ASSUME NEW k \in 1 .. n PROVE \E j \in 1 .. n : ComesFrom(n, i, j) = k
  <2>1. CASE k < i
    BY <2>1 DEF ComesFrom
  <2>2. CASE k = i
    <3>1. ComesFrom(n, i, n) = i
      BY DEF ComesFrom
    <3> QED BY <2>2, <3>1
  <2>3. CASE k > i
    <3>1. k - 1 \in 1 .. n /\ ComesFrom(n, i, k - 1) = k
      BY <2>3 DEF ComesFrom
    <3> QED BY <3>1
  <2> QED BY <2>1, <2>2, <2>3
<1> QED BY <1>1, <1>2, <1>3

\* It changes neither the values nor that they are distinct.
LEMMA ToEndKeeps ==
  ASSUME NEW S, NEW s \in Seq(S), NEW i \in DOMAIN s
  PROVE  /\ Range(ToEnd(s, i)) = Range(s)
         /\ Distinct(s) => Distinct(ToEnd(s, i))
<1>1. PICK n \in Nat : n = Len(s) /\ i \in 1 .. n
  OBVIOUS
<1>2. PICK t \in Seq(S) : t = ToEnd(s, i)
  BY ToEndIs
<1>3. DOMAIN s = 1 .. n /\ DOMAIN t = 1 .. n
  BY <1>1, <1>2, ToEndIs
<1>4. /\ \A j \in 1 .. i-1 : t[j] = s[j]
      /\ \A j \in i .. n-1 : t[j] = s[j+1]
      /\ t[n] = s[i]
  BY <1>1, <1>2, ToEndIs
<1>5. /\ \A j \in 1 .. n : ComesFrom(n, i, j) \in 1 .. n
      /\ \A j, k \in 1 .. n : ComesFrom(n, i, j) = ComesFrom(n, i, k) => j = k
      /\ \A k \in 1 .. n : \E j \in 1 .. n : ComesFrom(n, i, j) = k
  <2>1. i \in 1 .. n
    BY <1>1
  <2> QED BY <2>1, ComesFromPermutes, Zenon
<1>6. ASSUME NEW j \in 1 .. n PROVE t[j] = s[ComesFrom(n, i, j)]
  <2>1. CASE j < i
    <3>1. j \in 1 .. i-1
      BY <1>1, <2>1
    <3> QED BY <1>4, <2>1, <3>1 DEF ComesFrom
  <2>2. CASE ~ j < i /\ j < n
    <3>1. j \in i .. n-1
      BY <1>1, <2>2
    <3> QED BY <1>4, <2>2, <3>1 DEF ComesFrom
  <2>3. CASE j = n
    <3>1. ~ j < i
      BY <1>1, <2>3
    <3> QED BY <1>1, <1>4, <2>3, <3>1 DEF ComesFrom
  <2> QED BY <1>1, <2>1, <2>2, <2>3
<1>7. Range(t) = Range(s)
  <2>1. ASSUME NEW x, x \in Range(t) PROVE x \in Range(s)
    BY <1>3, <1>5, <1>6, <2>1 DEF Range
  <2>2. ASSUME NEW x, x \in Range(s) PROVE x \in Range(t)
    <3>1. PICK k \in 1 .. n : x = s[k]
      BY <1>3, <2>2 DEF Range
    <3>2. PICK j \in 1 .. n : ComesFrom(n, i, j) = k
      BY <1>5
    <3> QED BY <1>3, <1>6, <3>1, <3>2 DEF Range
  <2> QED BY <2>1, <2>2
<1>8. ASSUME Distinct(s), NEW j \in 1 .. n, NEW k \in 1 .. n, t[j] = t[k] PROVE j = k
  <2>1. s[ComesFrom(n, i, j)] = s[ComesFrom(n, i, k)]
    BY <1>6, <1>8
  <2> QED BY <1>3, <1>5, <1>8, <2>1 DEF Distinct
<1> QED BY <1>2, <1>3, <1>7, <1>8 DEF Distinct

\* A function has no more values than arguments.
LEMMA RangeBound ==
  ASSUME NEW S, NEW T, IsFiniteSet(S), NEW f \in [S -> T]
  PROVE  IsFiniteSet(Range(f)) /\ Cardinality(Range(f)) <= Cardinality(S)
<1>1. f \in Surjection(S, Range(f))
  BY DEF Surjection, Range
<1> QED BY <1>1, FS_Surjection

\* A sequence without repetitions is no longer than the set of its values.
LEMMA DistinctBound ==
  ASSUME NEW S, IsFiniteSet(S), NEW s \in Seq(S), Distinct(s)
  PROVE  Len(s) <= Cardinality(S)
<1>1. s \in Injection(1 .. Len(s), S)
  BY DEF Distinct, Injection, IsInjective
<1>2. PICK n \in Nat : n = Len(s)
  OBVIOUS
<1>3. Cardinality(1 .. n) = n
  BY FS_Interval
<1> QED BY <1>1, <1>2, <1>3, FS_Injection

\* A sequence with one element replaced.
LEMMA ExceptIs ==
  ASSUME NEW S, NEW s \in Seq(S), NEW i \in DOMAIN s, NEW x \in S
  PROVE  /\ [s EXCEPT ![i] = x] \in Seq(S)
         /\ Len([s EXCEPT ![i] = x]) = Len(s)
         /\ [s EXCEPT ![i] = x][i] = x
         /\ \A j \in 1 .. Len(s) : j # i => [s EXCEPT ![i] = x][j] = s[j]
<1>1. PICK n \in Nat : n = Len(s) /\ DOMAIN s = 1 .. n /\ s \in [1 .. n -> S]
  OBVIOUS
<1>2. PICK t \in [1 .. n -> S] : t = [s EXCEPT ![i] = x]
  BY <1>1
<1>3. t \in Seq(S) /\ Len(t) = n
  OBVIOUS
<1> QED BY <1>1, <1>2, <1>3

\* The elements of a concatenation.
LEMMA ConcatIs ==
  ASSUME NEW S, NEW a \in Seq(S), NEW b \in Seq(S)
  PROVE  /\ a \o b \in Seq(S) /\ Len(a \o b) = Len(a) + Len(b)
         /\ \A i \in 1 .. Len(a) : (a \o b)[i] = a[i]
         /\ \A i \in 1 .. Len(b) : (a \o b)[Len(a) + i] = b[i]
<1>1. PICK n \in Nat : n = Len(a) /\ DOMAIN a = 1 .. n
  OBVIOUS
<1>2. PICK l \in Nat : l = Len(b) /\ DOMAIN b = 1 .. l
  OBVIOUS
<1>3. a \o b \in Seq(S) /\ Len(a \o b) = n + l
  BY <1>1, <1>2
<1>4. \A i \in 1 .. n : (a \o b)[i] = a[i]
  BY <1>1, <1>2
<1>5. \A i \in 1 .. l : (a \o b)[n + i] = b[i]
  BY <1>1, <1>2
<1> QED BY <1>1, <1>2, <1>3, <1>4, <1>5

\* ConcatIs for all sequences at once.
LEMMA ConcatsAre ==
  ASSUME NEW S
  PROVE  \A a, b \in Seq(S) :
           /\ a \o b \in Seq(S) /\ Len(a \o b) = Len(a) + Len(b)
           /\ \A k \in 1 .. Len(a) : (a \o b)[k] = a[k]
           /\ \A k \in 1 .. Len(b) : (a \o b)[Len(a) + k] = b[k]
<1> TAKE a, b \in Seq(S)
<1> QED BY ConcatIs

\* Appending a value makes a sequence longer by it.
LongerBy(c, a, m, n) ==
  /\ c = [k \in 1 .. n + 1 |-> c[k]] /\ c[n + 1] = m
  /\ \A k \in 1 .. n : c[k] = a[k]

LEMMA AppendIs ==
  ASSUME NEW S, NEW n \in Nat, NEW a \in [1 .. n -> S], NEW m
  PROVE  LongerBy(Append(a, m), a, m, n)
<1> DEFINE W == S \cup {m}
<1>1. a \in Seq(W) /\ Len(a) = n /\ m \in W
  OBVIOUS
<1>2. /\ Append(a, m) \in Seq(W) /\ Len(Append(a, m)) = Len(a) + 1
      /\ \A i \in 1 .. Len(a) : Append(a, m)[i] = a[i]
      /\ Append(a, m)[Len(a) + 1] = m
  BY <1>1, AppendProperties
<1>3. \E c : /\ c = Append(a, m) /\ c \in Seq(W) /\ Len(c) = Len(a) + 1
             /\ \A i \in 1 .. Len(a) : c[i] = a[i]
             /\ c[Len(a) + 1] = m
  BY <1>2, Zenon
<1>4. PICK c : /\ c = Append(a, m) /\ c \in Seq(W) /\ Len(c) = Len(a) + 1
               /\ \A i \in 1 .. Len(a) : c[i] = a[i]
               /\ c[Len(a) + 1] = m
  BY <1>3, Zenon
<1>5. /\ c \in Seq(W) /\ Len(c) = n + 1
      /\ \A i \in 1 .. n : c[i] = a[i]
      /\ c[n + 1] = m
  BY <1>1, <1>4, Zenon
<1>6. LongerBy(c, a, m, n)
  BY <1>5 DEF LongerBy
<1> QED BY <1>4, <1>6, Zenon

\* A list that goes on with one value.
LEMMA AppendedList ==
  ASSUME NEW S, NEW n \in Nat, NEW a \in [1 .. n -> S], NEW V, NEW b \in [1 .. n + 1 -> V],
         NEW m, b[n + 1] = m, \A k \in 1 .. n : b[k] = a[k]
  PROVE  b = Append(a, m)
<1>1. PICK c : c = Append(a, m)
  OBVIOUS
<1>2. LongerBy(c, a, m, n)
  BY <1>1, AppendIs, Zenon
<1>3. \A k \in 1 .. n + 1 : b[k] = c[k]
  <2>1. \A k \in 1 .. n + 1 : k = n + 1 \/ k \in 1 .. n
    OBVIOUS
  <2> QED BY <1>2, <2>1 DEF LongerBy
<1>4. b = [k \in 1 .. n + 1 |-> b[k]]
  OBVIOUS
<1> QED BY <1>1, <1>2, <1>3, <1>4 DEF LongerBy

\* A value that such a sequence lacks leaves room for one more.
LEMMA DistinctRoom ==
  ASSUME NEW S, IsFiniteSet(S), NEW s \in Seq(S), Distinct(s), NEW x \in S, x \notin Range(s)
  PROVE  Len(s) < Cardinality(S)
<1>1. IsFiniteSet(S \ {x}) /\ Cardinality(S \ {x}) = Cardinality(S) - 1 /\ Cardinality(S) \in Nat
  BY FS_RemoveElement, FS_CardinalityType
<1>2. s \in Seq(S \ {x})
  BY DEF Range
<1> QED BY <1>1, <1>2, DistinctBound

\* An initial segment of the numbers is known by its cardinality.
LEMMA InitialSegment ==
  ASSUME NEW n \in Nat, NEW P \in SUBSET (1 .. n),
         \A i \in P : \A j \in 1 .. i : j \in P
  PROVE  Cardinality(P) \in 0 .. n /\ P = 1 .. Cardinality(P)
<1>1. IsFiniteSet(1 .. n) /\ Cardinality(1 .. n) = n
  BY FS_Interval
<1>2. IsFiniteSet(P) /\ Cardinality(P) \in Nat /\ Cardinality(P) <= n
  BY <1>1, FS_Subset, FS_CardinalityType, ZenonT(30)
<1>3. P \subseteq 1 .. Cardinality(P)
  <2> SUFFICES ASSUME NEW i \in P PROVE i \in 1 .. Cardinality(P)
    OBVIOUS
  <2>1. 1 .. i \subseteq P /\ i \in Nat /\ i >= 1
    OBVIOUS
  <2>2. Cardinality(1 .. i) = i
    BY <2>1, FS_Interval
  <2>3. i <= Cardinality(P)
    BY <1>2, <2>1, <2>2, FS_Subset
  <2> QED BY <1>2, <2>1, <2>3
<1>4. IsFiniteSet(1 .. Cardinality(P)) /\ Cardinality(1 .. Cardinality(P)) = Cardinality(P)
  BY <1>2, FS_Interval
<1>5. P = 1 .. Cardinality(P)
  BY <1>3, <1>4, FS_Subset
<1> QED BY <1>2, <1>5

\* A sequence without as many first elements as a set of its places has.
LEMMA SuffixAfter ==
  ASSUME NEW S, NEW s \in Seq(S), NEW P \in SUBSET (DOMAIN s)
  PROVE  /\ Cardinality(P) \in 0 .. Len(s)
         /\ SubSeq(s, Cardinality(P) + 1, Len(s)) \in Seq(S)
         /\ Len(SubSeq(s, Cardinality(P) + 1, Len(s))) = Len(s) - Cardinality(P)
         /\ \A i \in 1 .. Len(s) - Cardinality(P) :
              SubSeq(s, Cardinality(P) + 1, Len(s))[i] = s[Cardinality(P) + i]
<1>1. PICK n \in Nat : n = Len(s) /\ DOMAIN s = 1 .. n
  OBVIOUS
<1>2. IsFiniteSet(1 .. n) /\ Cardinality(1 .. n) = n
  BY FS_Interval
<1>3. PICK c \in Nat : c = Cardinality(P) /\ c <= n
  BY <1>1, <1>2, FS_Subset, FS_CardinalityType
<1>4. SubSeq(s, c + 1, n) \in Seq(S) /\ Len(SubSeq(s, c + 1, n)) = n - c
  BY <1>1, <1>3
<1>5. \A i \in 1 .. n - c : SubSeq(s, c + 1, n)[i] = s[c + i]
  BY <1>1, <1>3
<1> QED BY <1>1, <1>3, <1>4, <1>5

\* A nonempty set of numbers has a least element.
LEMMA LeastElement ==
  ASSUME NEW T \in SUBSET Nat, T # {}
  PROVE  \E n \in T : \A m \in T : n <= m
<1>1. PICK t \in T : TRUE
  OBVIOUS
<1> DEFINE P == {i \in 1 .. t : \A j \in 0 .. i-1 : j \notin T}
           c == Cardinality(P)
<1>2. \A i \in P : \A j \in 1 .. i : j \in P
  OBVIOUS
<1>3. c \in 0 .. t /\ P = 1 .. c
  BY <1>2, InitialSegment
<1> HIDE DEF c
<1>4. \A j \in 0 .. c-1 : j \notin T
  <2>1. CASE c = 0
    BY <2>1
  <2>2. CASE c # 0
    <3>1. c \in 1 .. c
      BY <1>3, <2>2
    <3>2. c \in P
      BY <1>3, <3>1, Zenon
    <3> QED BY <3>2
  <2> QED BY <2>1, <2>2
<1>5. c \in T
  <2>1. CASE c = t
    BY <2>1
  <2>2. CASE c # t
    <3>1. c + 1 \in 1 .. t /\ c + 1 \notin 1 .. c
      BY <1>3, <2>2
    <3>2. PICK j \in 0 .. (c + 1) - 1 : j \in T
      BY <1>3, <3>1
    <3>3. j = c
      BY <1>3, <1>4, <3>2
    <3> QED BY <3>2, <3>3
  <2> QED BY <2>1, <2>2
<1>6. \A m \in T : c <= m
  BY <1>3, <1>4
<1> QED BY <1>5, <1>6

\* A nonempty set of numbers with a bound has a greatest element.
LEMMA GreatestElement ==
  ASSUME NEW b \in Nat, NEW T \in SUBSET (0 .. b), T # {}
  PROVE  \E n \in T : \A m \in T : m <= n
<1> DEFINE U == {i \in Nat : i <= b /\ b - i \in T}
<1>1. PICK t \in T : TRUE
  OBVIOUS
<1>2. b - t \in U
  BY <1>1
<1>3. PICK n \in U : \A m \in U : n <= m
  BY <1>2, LeastElement
<1>4. b - n \in T
  BY <1>3
<1>5. ASSUME NEW m \in T PROVE m <= b - n
  <2>1. b - m \in U
    BY <1>5
  <2>2. n <= b - m
    BY <1>3, <2>1
  <2> QED BY <2>2
<1> QED BY <1>4, <1>5

\* What holds at 0 and goes on to the next number holds up to n.
LEMMA UpTo ==
  ASSUME NEW n \in Nat, NEW T \in SUBSET (0 .. n), 0 \in T, \A m \in T : m < n => m + 1 \in T
  PROVE  T = 0 .. n
<1> DEFINE Lacks == (0 .. n) \ T
<1>1. Lacks \in SUBSET Nat
  OBVIOUS
<1>2. SUFFICES ASSUME Lacks # {} PROVE FALSE
  OBVIOUS
<1>3. PICK l \in Lacks : \A m \in Lacks : l <= m
  BY <1>1, <1>2, LeastElement
<1>4. l # 0 /\ l - 1 \in 0 .. n /\ l - 1 < n
  BY <1>3
<1>5. l - 1 \notin Lacks
  BY <1>3, <1>4
<1>6. (l - 1) + 1 \in T
  BY <1>4, <1>5
<1> QED BY <1>3, <1>6

\* What the steps 1 to n make of d, one after the other.
Iterated(f, n, D, step, d) ==
  f \in [0 .. n -> D] /\ f[0] = d /\ \A k \in 1 .. n : f[k] = step[k][f[k-1]]

LEMMA Iterates ==
  ASSUME NEW n \in Nat, NEW D, NEW step \in [1 .. n -> [D -> D]], NEW d \in D
  PROVE  \E f : Iterated(f, n, D, step, d)
<1> DEFINE Runs(f, m) == /\ f \in [0 .. m -> D] /\ f[0] = d
                         /\ \A k \in 1 .. m : f[k] = step[k][f[k-1]]
           T == {m \in 0 .. n : \E f : Runs(f, m)}
<1>1. 0 \in T
  <2>1. Runs([k \in 0 .. 0 |-> d], 0)
    OBVIOUS
  <2>2. 0 \in 0 .. n
    OBVIOUS
  <2> HIDE DEF Runs
  <2> QED BY <2>1, <2>2, Zenon
<1>2. ASSUME NEW m \in T, m < n PROVE m + 1 \in T
  <2>1. PICK f : Runs(f, m)
    OBVIOUS
  <2>2. PICK g : g = [k \in 0 .. m + 1 |-> IF k <= m THEN f[k] ELSE step[m+1][f[m]]]
    OBVIOUS
  <2>3. /\ \A k \in 0 .. m : f[k] \in D
        /\ \A k \in 0 .. m + 1 : g[k] = IF k <= m THEN f[k] ELSE step[m+1][f[m]]
    BY <2>1, <2>2
  <2>4. step[m+1][f[m]] \in D
    <3>1. m + 1 \in 1 .. n /\ f[m] \in D
      BY <1>2, <2>3
    <3> QED BY <3>1
  <2>5. g \in [0 .. m + 1 -> D] /\ g[0] = d
    BY <2>1, <2>2, <2>3, <2>4
  <2>6. ASSUME NEW k \in 1 .. m + 1 PROVE g[k] = step[k][g[k-1]]
    <3>1. k - 1 \in 0 .. m /\ g[k - 1] = f[k - 1]
      BY <2>3
    <3>2. CASE k \in 1 .. m
      <4>1. g[k] = f[k] /\ f[k] = step[k][f[k - 1]]
        BY <2>1, <2>3, <3>2
      <4> QED BY <3>1, <4>1
    <3>3. CASE k = m + 1
      <4>1. k - 1 = m /\ g[k] = step[m+1][f[m]]
        BY <2>3, <3>3
      <4> QED BY <3>1, <4>1
    <3> QED BY <3>2, <3>3
  <2>7. Runs(g, m + 1) /\ m + 1 \in 0 .. n
    BY <1>2, <2>5, <2>6
  <2> HIDE DEF Runs
  <2> QED BY <2>7, Zenon
<1>3. T = 0 .. n
  <2>1. T \in SUBSET (0 .. n)
    OBVIOUS
  <2> HIDE DEF T
  <2> QED BY <1>1, <1>2, <2>1, UpTo
<1>4. n \in T
  BY <1>3
<1> QED BY <1>4 DEF Iterated

\* There are n numbers below n.
LEMMA BelowCounts == \A n \in Nat : IsFiniteSet(0 .. n - 1) /\ Cardinality(0 .. n - 1) = n
<1> TAKE n \in Nat
<1>1. IsFiniteSet(0 .. n - 1) /\ Cardinality(0 .. n - 1) = IF 0 > n - 1 THEN 0 ELSE n - 1 - 0 + 1
  BY FS_Interval
<1> QED BY <1>1
=============================================================================
