------------------------------ MODULE TextProofs ------------------------------
(* Proofs about texts: whatever the body of a streamed answer and however it  *)
(* is cut into chunks, what is read is what its lines say (SseReader);        *)
(* whatever the reply, its cards show all of it, and whatever the post, it is *)
(* read (FeishuText); and a form means what its fields say (HttpForm).        *)
(* Bodies, replies, posts and forms have any length, so that these proofs     *)
(* need induction over data: the numbers up to which a fact holds are a set,  *)
(* which UpTo shows to be all of them.                                        *)
EXTENDS SseReader, FeishuText, HttpForm, DataLemmas

-----------------------------------------------------------------------------
(* Sequences of sequences.                                                   *)

\* The recursion of FlattenSeq.
LEMMA FlattenUnfolds ==
  ASSUME NEW S, NEW seqs \in Seq(Seq(S)), NEW n \in Nat, n = Len(seqs), n > 0
  PROVE  \E f : /\ f[n] = FlattenSeq(seqs)
                /\ f = [i \in 1 .. n |-> IF i = 1 THEN seqs[i] ELSE f[i-1] \o seqs[i]]
<1> DEFINE Def(f) == f = [i \in 1 .. n |-> IF i = 1 THEN seqs[i] ELSE f[i-1] \o seqs[i]]
<1> HIDE DEF Def
<1>1. FlattenSeq(seqs) = (CHOOSE f : Def(f))[n]
  BY DEF FlattenSeq, Def
<1> DEFINE Fits(g, m) ==
             /\ g = [i \in 1 .. m |-> g[i]]
             /\ \A i \in 1 .. m : g[i] = IF i = 1 THEN seqs[i] ELSE g[i-1] \o seqs[i]
           T == {m \in 0 .. n : \E g : Fits(g, m)}
<1>2. 0 \in T
  <2>1. Fits([i \in 1 .. 0 |-> 0], 0)
    OBVIOUS
  <2>2. 0 \in 0 .. n
    OBVIOUS
  <2> HIDE DEF Fits
  <2> QED BY <2>1, <2>2, Zenon
<1>3. ASSUME NEW m \in T, m < n PROVE m + 1 \in T
  <2>1. PICK g : Fits(g, m)
    OBVIOUS
  <2> DEFINE h == [i \in 1 .. m + 1 |->
                     IF i <= m THEN g[i] ELSE IF i = 1 THEN seqs[i] ELSE g[i-1] \o seqs[i]]
  <2>2. \A i \in 1 .. m : h[i] = g[i] /\ (i # 1 => h[i - 1] = g[i - 1])
    OBVIOUS
  <2>3. \A i \in 1 .. m : h[i] = IF i = 1 THEN seqs[i] ELSE h[i-1] \o seqs[i]
    <3> SUFFICES ASSUME NEW i \in 1 .. m
                 PROVE  h[i] = IF i = 1 THEN seqs[i] ELSE h[i-1] \o seqs[i]
      OBVIOUS
    <3>1. h[i] = g[i] /\ g[i] = IF i = 1 THEN seqs[i] ELSE g[i-1] \o seqs[i]
      BY <2>1, <2>2
    <3>2. i # 1 => h[i - 1] = g[i - 1]
      BY <2>2
    <3> HIDE DEF h
    <3> QED BY <3>1, <3>2, Zenon
  <2>4. h[m + 1] = IF m + 1 = 1 THEN seqs[m + 1] ELSE g[(m+1)-1] \o seqs[m + 1]
    OBVIOUS
  <2>5. m + 1 # 1 => h[(m + 1) - 1] = g[(m + 1) - 1]
    OBVIOUS
  <2>6. h = [i \in 1 .. m + 1 |-> h[i]]
    OBVIOUS
  <2>7. \A i \in 1 .. m + 1 : i \in 1 .. m \/ i = m + 1
    OBVIOUS
  <2> HIDE DEF h
  <2>8. Fits(h, m + 1)
    BY <2>3, <2>4, <2>5, <2>6, <2>7
  <2>9. m + 1 \in 0 .. n
    BY <1>3
  <2> HIDE DEF Fits
  <2> QED BY <2>8, <2>9, Zenon
<1>4. n \in T
  <2>1. T \in SUBSET (0 .. n)
    OBVIOUS
  <2> HIDE DEF T
  <2>2. T = 0 .. n
    BY <1>2, <1>3, <2>1, UpTo
  <2> QED BY <2>2
<1>5. PICK f : Fits(f, n)
  BY <1>4, Zenon
<1>6. Def(f)
  BY <1>5 DEF Def
<1>7. Def(CHOOSE g : Def(g))
  BY <1>6
<1> QED BY <1>1, <1>7 DEF Def
\* Where in the whole the elements of each sequence stand: off[i] is the number
\* of elements of the first i sequences.
Laid(S, seqs, whole, off, m) ==
  /\ whole \in Seq(S) /\ Len(whole) = off[m]
  /\ \A i \in 1 .. m : off[i] = off[i-1] + Len(seqs[i])
  /\ \A i \in 0 .. m : off[i] <= off[m]
  /\ \A i \in 1 .. m : \A j \in 1 .. Len(seqs[i]) :
       off[i-1] + j <= off[m] /\ whole[off[i-1] + j] = seqs[i][j]
  /\ \A k \in 1 .. off[m] : \E i \in 1 .. m : off[i-1] < k /\ k <= off[i]

\* One sequence more.
LEMMA LaidFurther ==
  ASSUME NEW S, NEW n \in Nat, NEW seqs \in [1 .. n -> Seq(S)], NEW m \in 1 .. n, NEW whole,
         NEW off \in [0 .. n -> Nat], Laid(S, seqs, whole, off, m - 1),
         NEW more, more = whole \o seqs[m], off[m] = Len(more)
  PROVE  Laid(S, seqs, more, off, m)
<1>1. PICK w \in Seq(S), s \in Seq(S) : w = whole /\ s = seqs[m] /\ more = w \o s
  BY DEF Laid
<1>2. /\ more \in Seq(S) /\ Len(more) = Len(w) + Len(s)
      /\ \A i \in 1 .. Len(w) : more[i] = w[i]
      /\ \A i \in 1 .. Len(s) : more[Len(w) + i] = s[i]
  BY <1>1, ConcatIs
<1>3. PICK l \in Nat, k \in Nat : l = Len(w) /\ k = Len(s) /\ l = off[m - 1] /\ off[m] = l + k
  BY <1>1, <1>2, SMTT(30) DEF Laid
<1>4. m - 1 \in 0 .. n /\ \A i \in 1 .. m : i = m \/ i \in 1 .. m - 1
  OBVIOUS
<1>5. \A i \in 1 .. m : off[i] = off[i-1] + Len(seqs[i])
  BY <1>1, <1>3, <1>4 DEF Laid
<1>6. \A i \in 0 .. m : off[i] <= off[m]
  <2>1. \A i \in 0 .. m - 1 : off[i] \in Nat /\ off[i] <= off[m - 1]
    BY DEF Laid
  <2>2. \A i \in 0 .. m : i = m \/ i \in 0 .. m - 1
    OBVIOUS
  <2>3. off[m - 1] <= off[m] /\ off[m - 1] \in Nat /\ off[m] \in Nat
    BY <1>3
  <2>4. \A i \in 0 .. m - 1 : off[i] <= off[m]
    BY <2>1, <2>3, SMTT(30)
  <2> QED BY <2>2, <2>3, <2>4, SMTT(30)
<1>7. ASSUME NEW i \in 1 .. m, NEW j \in 1 .. Len(seqs[i])
      PROVE  off[i-1] + j <= off[m] /\ more[off[i-1] + j] = seqs[i][j]
  <2>1. CASE i = m
    <3>1. j \in 1 .. k
      BY <1>1, <1>3, <2>1
    <3>2. l + j <= off[m]
      BY <1>3, <3>1
    <3>3. j \in 1 .. Len(s)
      BY <1>3, <3>1
    <3>4. more[Len(w) + j] = s[j]
      BY <1>2, <3>3
    <3> QED BY <1>1, <1>3, <2>1, <3>2, <3>4
  <2>2. CASE i # m
    <3>1. i \in 1 .. m - 1
      BY <2>2
    <3>2. off[i-1] + j <= off[m - 1] /\ w[off[i-1] + j] = seqs[i][j]
      BY <1>1, <3>1 DEF Laid
    <3>3. PICK x \in Nat : x = off[i-1] + j /\ x >= 1
      <4>1. i - 1 \in 0 .. n
        OBVIOUS
      <4>2. off[i-1] \in Nat
        BY <4>1
      <4>3. j \in Nat /\ j >= 1
        OBVIOUS
      <4> QED BY <4>2, <4>3, SMTT(30)
    <3>4. x \in 1 .. Len(w) /\ x <= off[m]
      <4>1. x <= l
        BY <1>3, <3>2, <3>3
      <4>2. \A a, b, c \in Nat : a >= 1 /\ a <= b => a \in 1 .. b /\ a <= b + c
        OBVIOUS
      <4>3. x \in 1 .. l /\ x <= l + k
        BY <3>3, <4>1, <4>2
      <4> QED BY <1>3, <4>3
    <3>5. more[x] = w[x]
      BY <1>2, <3>4
    <3> QED BY <3>2, <3>3, <3>4, <3>5
  <2> QED BY <2>1, <2>2
<1>8. ASSUME NEW k0 \in 1 .. off[m]
      PROVE  \E i \in 1 .. m : off[i-1] < k0 /\ k0 <= off[i]
  <2>1. CASE k0 <= l
    <3>1. k0 \in 1 .. off[m - 1]
      BY <1>3, <2>1
    <3>2. \E i \in 1 .. m - 1 : off[i-1] < k0 /\ k0 <= off[i]
      BY <3>1 DEF Laid
    <3> QED BY <3>2
  <2>2. CASE ~(k0 <= l)
    BY <1>3, <2>2
  <2> QED BY <2>1, <2>2
<1>9. Len(more) = off[m]
  OBVIOUS
<1> QED BY <1>2, <1>5, <1>6, <1>7, <1>8, <1>9 DEF Laid

\* FlattenSeq puts the sequences one behind the other.
LEMMA FlattenIs ==
  ASSUME NEW S, NEW seqs \in Seq(Seq(S)), NEW n \in Nat, n = Len(seqs)
  PROVE  \E off \in [0 .. n -> Nat] :
           /\ off[0] = 0 /\ Laid(S, seqs, FlattenSeq(seqs), off, n)
           /\ \A i, j \in 0 .. n : i <= j => off[i] <= off[j]
<1>1. seqs \in [1 .. n -> Seq(S)]
  OBVIOUS
<1>2. CASE n = 0
  <2>1. seqs = <<>> /\ FlattenSeq(seqs) = <<>>
    <3>1. FlattenSeq(seqs) = seqs
      BY <1>2 DEF FlattenSeq
    <3>2. seqs = <<>>
      BY <1>2, EmptySeq
    <3> QED BY <3>1, <3>2, Zenon
  <2>2. PICK off \in [0 .. n -> Nat] : off = [i \in 0 .. n |-> 0]
    OBVIOUS
  <2> QED BY <1>2, <2>1, <2>2 DEF Laid
<1>3. CASE n > 0
  <2>1. PICK f : /\ f[n] = FlattenSeq(seqs)
                 /\ f = [i \in 1 .. n |-> IF i = 1 THEN seqs[i] ELSE f[i-1] \o seqs[i]]
    BY <1>3, FlattenUnfolds
  <2>2. \A i \in 1 .. n : f[i] = IF i = 1 THEN seqs[i] ELSE f[i-1] \o seqs[i]
    BY <2>1
  <2> DEFINE g == [i \in 0 .. n |-> IF i = 0 THEN <<>> ELSE f[i]]
             off == [i \in 0 .. n |-> Len(g[i])]
             T == {m \in 0 .. n : g[m] \in Seq(S)}
  <2>3. g[0] = <<>> /\ g[n] = FlattenSeq(seqs) /\ \A i \in 0 .. n : off[i] = Len(g[i])
    <3>1. g[0] = <<>> /\ g[n] = f[n]
      BY <1>3, <2>2
    <3>2. \A i \in 0 .. n : off[i] = Len(g[i])
      OBVIOUS
    <3> QED BY <2>1, <3>1, <3>2
  <2>4. \A i \in 1 .. n : i = 1 => g[i] = seqs[i] /\ g[i - 1] = <<>>
    BY <2>2
  <2>5. \A i \in 1 .. n : i # 1 => g[i] = g[i-1] \o seqs[i]
    <3> SUFFICES ASSUME NEW i \in 1 .. n, i # 1 PROVE g[i] = g[i-1] \o seqs[i]
      OBVIOUS
    <3>1. g[i] = f[i] /\ g[i - 1] = f[i - 1]
      OBVIOUS
    <3>2. f[i] = f[i-1] \o seqs[i]
      BY <2>2
    <3> QED BY <3>1, <3>2, Zenon
  <2> HIDE DEF g
  <2>6. \A i \in 1 .. n : g[i - 1] \in Seq(S) => g[i] = g[i-1] \o seqs[i] /\ g[i] \in Seq(S)
    <3> SUFFICES ASSUME NEW i \in 1 .. n, g[i - 1] \in Seq(S)
                 PROVE  g[i] = g[i-1] \o seqs[i] /\ g[i] \in Seq(S)
      OBVIOUS
    <3>1. CASE i = 1
      <4>1. g[i] = seqs[i] /\ g[i - 1] = <<>> /\ seqs[i] \in Seq(S)
        BY <1>1, <2>4, <3>1
      <4> QED BY <4>1
    <3>2. CASE i # 1
      <4>1. g[i] = g[i-1] \o seqs[i] /\ seqs[i] \in Seq(S)
        BY <1>1, <2>5, <3>2
      <4> QED BY <4>1, ConcatIs
    <3> QED BY <3>1, <3>2
  <2>7. T = 0 .. n
    <3>1. T \in SUBSET (0 .. n) /\ 0 \in T
      <4>1. g[0] \in Seq(S) /\ 0 \in 0 .. n
        BY <2>3
      <4> QED BY <4>1
    <3>2. \A m \in T : m < n => m + 1 \in T
      <4> SUFFICES ASSUME NEW m \in 0 .. n, g[m] \in Seq(S), m < n PROVE g[m + 1] \in Seq(S)
        OBVIOUS
      <4>1. m + 1 \in 1 .. n /\ (m + 1) - 1 = m
        OBVIOUS
      <4> QED BY <2>6, <4>1
    <3> HIDE DEF T
    <3> QED BY <3>1, <3>2, UpTo
  <2>8. \A i \in 0 .. n : g[i] \in Seq(S)
    BY <2>7
  <2>9. off \in [0 .. n -> Nat] /\ off[0] = 0
    <3>1. \A i \in 0 .. n : Len(g[i]) \in Nat
      BY <2>8
    <3> QED BY <2>3, <3>1
  <2> HIDE DEF off
  <2> DEFINE U == {m \in 0 .. n : Laid(S, seqs, g[m], off, m)}
  <2>10. U = 0 .. n
    <3>1. U \in SUBSET (0 .. n)
      OBVIOUS
    <3>2. 0 \in U
      <4>1. Laid(S, seqs, <<>>, off, 0)
        BY <2>9 DEF Laid
      <4>2. Laid(S, seqs, g[0], off, 0) /\ 0 \in 0 .. n
        BY <2>3, <4>1
      <4> QED BY <4>2
    <3>3. \A m \in U : m < n => m + 1 \in U
      <4> SUFFICES ASSUME NEW m \in 0 .. n, Laid(S, seqs, g[m], off, m), m < n
                   PROVE  Laid(S, seqs, g[m + 1], off, m + 1)
        OBVIOUS
      <4>1. PICK p \in 1 .. n : p = m + 1 /\ p - 1 = m
        OBVIOUS
      <4>2. g[p] = g[p - 1] \o seqs[p] /\ off[p] = Len(g[p])
        <5>1. p \in 0 .. n /\ p - 1 \in 0 .. n
          BY <4>1
        <5>2. g[p - 1] \in Seq(S) /\ off[p] = Len(g[p])
          BY <2>3, <2>8, <5>1, Zenon
        <5> QED BY <2>6, <5>2, Zenon
      <4>3. Laid(S, seqs, g[p - 1], off, p - 1)
        BY <4>1
      <4>4. Laid(S, seqs, g[p], off, p)
        BY <1>1, <2>9, <4>2, <4>3, LaidFurther
      <4> QED BY <4>1, <4>4
    <3> HIDE DEF U
    <3> QED BY <3>1, <3>2, <3>3, UpTo
  <2>11. \A m \in 0 .. n : Laid(S, seqs, g[m], off, m)
    BY <2>10
  <2>12. \A i, j \in 0 .. n : i <= j => off[i] <= off[j]
    <3> SUFFICES ASSUME NEW i \in 0 .. n, NEW j \in 0 .. n, i <= j PROVE off[i] <= off[j]
      OBVIOUS
    <3>1. Laid(S, seqs, g[j], off, j) /\ i \in 0 .. j
      BY <2>11
    <3> QED BY <3>1 DEF Laid
  <2> QED BY <2>3, <2>9, <2>11, <2>12
<1> QED BY <1>2, <1>3

-----------------------------------------------------------------------------
(* The bytes of a body.                                                      *)

Shown == [line : Nat, kind : {"text", "lead", "trail", "cr", "lf", "replacement"}]

LineNumbers == 1 .. Len(body.lines)

\* Three sequences, the first a single element, one behind the other.
Beside(S, T, W, E, w, e, s) ==
  /\ s \in Seq(S) /\ Len(s) = 1 + w + e /\ s[1] = T[1]
  /\ \A k \in 1 .. w : s[1 + k] = W[k]
  /\ \A k \in 1 .. e : s[1 + w + k] = E[k]

\* What concatenating two lists of elements of S gives, as a predicate.
Joined(S, a, b, c) ==
  /\ c \in Seq(S) /\ Len(c) = Len(a) + Len(b)
  /\ \A k \in 1 .. Len(a) : c[k] = a[k]
  /\ \A k \in 1 .. Len(b) : c[Len(a) + k] = b[k]

LEMMA ConcatJoins ==
  ASSUME NEW S
  PROVE  \A a, b \in Seq(S) : Joined(S, a, b, a \o b)
BY ConcatsAre DEF Joined

LEMMA ThreeConcat ==
  ASSUME NEW S, NEW w \in Nat, NEW e \in Nat,
         NEW T \in Seq(S), NEW W \in Seq(S), NEW E \in Seq(S),
         Len(T) = 1, Len(W) = w, Len(E) = e
  PROVE  Beside(S, T, W, E, w, e, T \o W \o E)
<1>1. PICK u : u = T \o W
  OBVIOUS
<1>2. /\ u \in Seq(S) /\ Len(u) = Len(T) + Len(W)
      /\ \A k \in 1 .. Len(T) : u[k] = T[k]
      /\ \A k \in 1 .. Len(W) : u[Len(T) + k] = W[k]
  <2>1. Joined(S, T, W, u)
    BY ConcatJoins, <1>1, Zenon
  <2> QED BY <2>1, Zenon DEF Joined
<1>3. PICK s : s = u \o E
  OBVIOUS
<1>4. /\ s \in Seq(S) /\ Len(s) = Len(u) + Len(E)
      /\ \A k \in 1 .. Len(u) : s[k] = u[k]
      /\ \A k \in 1 .. Len(E) : s[Len(u) + k] = E[k]
  <2>1. Joined(S, u, E, s)
    BY ConcatJoins, <1>2, <1>3, Zenon
  <2> QED BY <2>1, Zenon DEF Joined
<1>5. s = T \o W \o E
  BY <1>1, <1>3, Zenon
<1> HIDE <1>1, <1>3, <1>5
<1>6. /\ 1 \in 1 .. Len(T) /\ Len(u) = 1 + w /\ 1 \in 1 .. Len(u)
      /\ \A k \in 1 .. w : k \in 1 .. Len(W) /\ 1 + k \in 1 .. Len(u)
  BY <1>2
<1>7. Len(s) = 1 + w + e /\ s[1] = T[1]
  <2>1. s[1] = u[1] /\ u[1] = T[1]
    BY <1>2, <1>4, <1>6
  <2> QED BY <1>4, <1>6, <2>1
<1>8. \A k \in 1 .. w : s[1 + k] = W[k]
  <2> TAKE k \in 1 .. w
  <2>1. s[1 + k] = u[1 + k] /\ u[Len(T) + k] = W[k]
    BY <1>2, <1>4, <1>6
  <2> QED BY <2>1
<1>9. \A k \in 1 .. e : s[1 + w + k] = E[k]
  BY <1>4, <1>6
<1>10. Beside(S, T, W, E, w, e, s)
  BY <1>4, <1>7, <1>8, <1>9 DEF Beside
<1> QED BY <1>5, <1>10, Zenon

\* The bytes of a line: its text first, its end last, one of each.
LEMMA LineBytesAre ==
  ASSUME NEW line, NEW i \in Nat
  PROVE  \E n \in Nat : LET s == LineBytes(line, i) IN
           /\ n >= 2 /\ s \in Seq(Shown) /\ Len(s) = n
           /\ s[1] = Byte(i, "text")
           /\ \A k \in 1 .. n :
                /\ s[k].line = i /\ s[k].kind # "replacement"
                /\ s[k].kind = "lf" <=> k = n
                /\ ~line.wide => s[k].kind \notin {"lead", "trail"}
<1> DEFINE W == IF line.wide THEN <<Byte(i, "lead"), Byte(i, "trail")>> ELSE <<>>
           E == IF line.crlf THEN <<Byte(i, "cr"), Byte(i, "lf")>> ELSE <<Byte(i, "lf")>>
           T == <<Byte(i, "text")>>
           s == LineBytes(line, i)
<1>1. s = T \o W \o E
  BY DEF LineBytes
<1>2. \A kind \in {"text", "lead", "trail", "cr", "lf"} :
        Byte(i, kind) \in Shown /\ Byte(i, kind).kind = kind /\ Byte(i, kind).line = i
  BY DEF Byte, Shown
<1>3. T \in Seq(Shown) /\ Len(T) = 1 /\ T[1] = Byte(i, "text")
  BY <1>2
<1>4. \E w \in {0, 2} :
        /\ W \in Seq(Shown) /\ Len(W) = w
        /\ \A k \in 1 .. w : W[k] = Byte(i, "lead") \/ W[k] = Byte(i, "trail")
        /\ ~line.wide => w = 0
  <2>1. CASE line.wide
    <3>1. W = <<Byte(i, "lead"), Byte(i, "trail")>>
      BY <2>1
    <3>2. /\ W \in Seq(Shown) /\ Len(W) = 2
          /\ W[1] = Byte(i, "lead") /\ W[2] = Byte(i, "trail")
      BY <1>2, <3>1
    <3> QED BY <2>1, <3>2
  <2>2. CASE ~line.wide
    BY <2>2
  <2> QED BY <2>1, <2>2
<1>5. \E e \in {1, 2} :
        /\ E \in Seq(Shown) /\ Len(E) = e /\ E[e] = Byte(i, "lf")
        /\ \A k \in 1 .. e : k # e => E[k] = Byte(i, "cr")
  <2>1. CASE line.crlf
    <3>1. E = <<Byte(i, "cr"), Byte(i, "lf")>>
      BY <2>1
    <3>2. /\ E \in Seq(Shown) /\ Len(E) = 2
          /\ E[1] = Byte(i, "cr") /\ E[2] = Byte(i, "lf")
      BY <1>2, <3>1
    <3> QED BY <3>2
  <2>2. CASE ~line.crlf
    <3>1. E = <<Byte(i, "lf")>>
      BY <2>2
    <3>2. E \in Seq(Shown) /\ Len(E) = 1 /\ E[1] = Byte(i, "lf")
      BY <1>2, <3>1
    <3> QED BY <3>2
  <2> QED BY <2>1, <2>2
<1> HIDE DEF T, W, E, s
<1>6. PICK w \in {0, 2} :
        /\ W \in Seq(Shown) /\ Len(W) = w
        /\ \A k \in 1 .. w : W[k] = Byte(i, "lead") \/ W[k] = Byte(i, "trail")
        /\ ~line.wide => w = 0
  BY <1>4
<1>7. PICK e \in {1, 2} :
        /\ E \in Seq(Shown) /\ Len(E) = e /\ E[e] = Byte(i, "lf")
        /\ \A k \in 1 .. e : k # e => E[k] = Byte(i, "cr")
  BY <1>5
<1>8. /\ s \in Seq(Shown) /\ Len(s) = 1 + w + e /\ s[1] = T[1]
      /\ \A k \in 1 .. w : s[1 + k] = W[k]
      /\ \A k \in 1 .. e : s[1 + w + k] = E[k]
  <2>1. w \in Nat /\ e \in Nat
    OBVIOUS
  <2>2. /\ Len(T) = 1 /\ Len(W) = w /\ Len(E) = e /\ T \in Seq(Shown)
        /\ W \in Seq(Shown) /\ E \in Seq(Shown)
    BY <1>3, <1>6, <1>7
  <2>3. Beside(Shown, T, W, E, w, e, T \o W \o E)
    BY <2>1, <2>2, ThreeConcat, Zenon
  <2>4. Beside(Shown, T, W, E, w, e, s)
    BY <1>1, <2>3, Zenon
  <2> QED BY <2>4 DEF Beside
<1>9. ASSUME NEW k \in 1 .. 1 + w + e
      PROVE  /\ s[k].line = i /\ s[k].kind # "replacement"
             /\ s[k].kind = "lf" <=> k = 1 + w + e
             /\ ~line.wide => s[k].kind \notin {"lead", "trail"}
  <2>1. CASE k = 1
    BY <1>2, <1>3, <1>8, <2>1
  <2>2. CASE k \in 2 .. 1 + w
    <3>1. k - 1 \in 1 .. w /\ k = 1 + (k - 1)
      BY <2>2
    <3>2. s[k] = W[k - 1] /\ (W[k - 1] = Byte(i, "lead") \/ W[k - 1] = Byte(i, "trail"))
      BY <1>6, <1>8, <3>1
    <3>3. k # 1 + w + e /\ line.wide
      BY <1>6, <2>2
    <3> QED BY <1>2, <3>2, <3>3
  <2>3. CASE k \in 2 + w .. 1 + w + e
    <3>1. k - 1 - w \in 1 .. e /\ k = 1 + w + (k - 1 - w)
      BY <2>3
    <3>2. s[k] = E[k - 1 - w]
      BY <1>8, <3>1
    <3>3. k = 1 + w + e <=> k - 1 - w = e
      OBVIOUS
    <3>4. \/ k - 1 - w = e /\ s[k] = Byte(i, "lf")
          \/ k - 1 - w # e /\ s[k] = Byte(i, "cr")
      BY <1>7, <3>1, <3>2
    <3> QED BY <1>2, <3>3, <3>4
  <2> QED BY <2>1, <2>2, <2>3
<1>10. 1 + w + e \in Nat /\ 1 + w + e >= 2
  OBVIOUS
<1> QED BY <1>3, <1>8, <1>9, <1>10 DEF s

-----------------------------------------------------------------------------
(* Ascending lists the elements of a finite set of numbers: the counts of    *)
(* smaller elements are the numbers below its size, each once.               *)
Smaller(S, i) == Cardinality({j \in S : j < i})

LEMMA SmallerIs ==
  ASSUME NEW S \in SUBSET Nat, IsFiniteSet(S), NEW n \in Nat, n = Cardinality(S)
  PROVE  /\ \A r \in S : Smaller(S, r) \in 0 .. n - 1
         /\ \A r, s \in S : r < s => Smaller(S, r) < Smaller(S, s)
         /\ \A r, s \in S : Smaller(S, r) = Smaller(S, s) => r = s
<1> DEFINE Earlier(r) == {s \in S : s < r}
<1>1. ASSUME NEW r \in S PROVE Smaller(S, r) \in 0 .. n - 1
  <2>1. Earlier(r) \subseteq S \ {r}
    OBVIOUS
  <2>2. IsFiniteSet(S \ {r}) /\ Cardinality(S \ {r}) = n - 1
    BY FS_RemoveElement
  <2>3. IsFiniteSet(Earlier(r)) /\ Cardinality(Earlier(r)) \in Nat /\ Cardinality(Earlier(r)) <= n - 1
    BY <2>1, <2>2, FS_Subset, FS_CardinalityType
  <2> QED BY <2>3 DEF Smaller
<1>2. ASSUME NEW r \in S, NEW s \in S, r < s PROVE Smaller(S, r) < Smaller(S, s)
  <2>1. r \notin Earlier(r) /\ IsFiniteSet(Earlier(r)) /\ Cardinality(Earlier(r)) \in Nat
    BY FS_Subset, FS_CardinalityType
  <2>2. /\ IsFiniteSet(Earlier(r) \cup {r})
        /\ Cardinality(Earlier(r) \cup {r}) = Cardinality(Earlier(r)) + 1
    BY <2>1, FS_AddElement
  <2>3. Earlier(r) \cup {r} \subseteq Earlier(s)
    <3>1. \A j \in S : j < r => j < s
      BY <1>2
    <3> QED BY <1>2, <3>1
  <2>4. IsFiniteSet(Earlier(s)) /\ Cardinality(Earlier(s)) \in Nat
    BY FS_Subset, FS_CardinalityType
  <2>5. Cardinality(Earlier(r) \cup {r}) <= Cardinality(Earlier(s))
    BY <2>3, <2>4, FS_Subset
  <2>6. Cardinality(Earlier(r)) < Cardinality(Earlier(s))
    BY <2>1, <2>2, <2>4, <2>5
  <2> QED BY <2>6 DEF Smaller
<1>3. ASSUME NEW r \in S, NEW s \in S, Smaller(S, r) = Smaller(S, s) PROVE r = s
  <2>1. Smaller(S, r) \in 0 .. n - 1 /\ Smaller(S, s) \in 0 .. n - 1
    BY <1>1
  <2>2. ~(Smaller(S, r) < Smaller(S, s)) /\ ~(Smaller(S, s) < Smaller(S, r))
    BY <1>3, <2>1
  <2>3. ~(r < s) /\ ~(s < r)
    BY <1>2, <2>2
  <2> QED BY <2>3
<1> QED BY <1>1, <1>2, <1>3

LEMMA AscendingIs ==
  ASSUME NEW S \in SUBSET Nat, IsFiniteSet(S), NEW n \in Nat, n = Cardinality(S)
  PROVE  /\ Ascending(S) \in [1 .. n -> S]
         /\ \A k \in 1 .. n : Smaller(S, Ascending(S)[k]) = k - 1
<1> DEFINE f == [r \in S |-> Smaller(S, r)]
<1>1. /\ \A r \in S : Smaller(S, r) \in 0 .. n - 1
      /\ \A r, s \in S : Smaller(S, r) = Smaller(S, s) => r = s
  BY SmallerIs
<1>2. IsFiniteSet(0 .. n - 1) /\ Cardinality(0 .. n - 1) = n
  BY BelowCounts
<1>3. f \in Injection(S, 0 .. n - 1)
  BY <1>1 DEF Injection, IsInjective
<1>4. f \in Surjection(S, 0 .. n - 1)
  BY <1>2, <1>3, FS_Injection
<1>5. \A k \in 0 .. n - 1 : \E r \in S : Smaller(S, r) = k
  BY <1>4 DEF Surjection
<1>6. Ascending(S) = [k \in 1 .. n |-> CHOOSE r \in S : Smaller(S, r) = k - 1]
  BY DEF Ascending, Smaller
<1>7. ASSUME NEW k \in 1 .. n
      PROVE  Ascending(S)[k] \in S /\ Smaller(S, Ascending(S)[k]) = k - 1
  <2>1. k - 1 \in 0 .. n - 1
    OBVIOUS
  <2>2. \E r \in S : Smaller(S, r) = k - 1
    BY <1>5, <2>1
  <2>3. Ascending(S)[k] = CHOOSE r \in S : Smaller(S, r) = k - 1
    BY <1>6
  <2> QED BY <2>2, <2>3
<1> QED BY <1>6, <1>7

\* A greater element comes last.
LEMMA AscendingFurther ==
  ASSUME NEW S \in SUBSET Nat, IsFiniteSet(S), NEW m \in Nat, \A s \in S : s < m
  PROVE  Ascending(S \cup {m}) = Append(Ascending(S), m)
<1> DEFINE M == S \cup {m}
<1>1. PICK n \in Nat : n = Cardinality(S)
  BY FS_CardinalityType
<1>2. M \in SUBSET Nat /\ IsFiniteSet(M) /\ n + 1 = Cardinality(M)
  BY <1>1, FS_AddElement
<1>3. PICK a : a = Ascending(S) /\ a \in [1 .. n -> S] /\ \A k \in 1 .. n : Smaller(S, a[k]) = k - 1
  BY <1>1, AscendingIs
<1>4. PICK b : b = Ascending(M) /\ b \in [1 .. n + 1 -> M] /\ \A k \in 1 .. n + 1 : Smaller(M, b[k]) = k - 1
  BY <1>2, AscendingIs, SMTT(30)
<1>5. \A s \in S : Smaller(M, s) = Smaller(S, s)
  <2> TAKE s \in S
  <2>1. {j \in M : j < s} = {j \in S : j < s}
    OBVIOUS
  <2> QED BY <2>1 DEF Smaller
<1>6. Smaller(M, m) = n
  <2>1. \A j \in M : j < m <=> j \in S
    OBVIOUS
  <2>2. {j \in M : j < m} = S
    BY <2>1
  <2> QED BY <1>1, <2>2 DEF Smaller
<1>7. \A r, s \in M : Smaller(M, r) = Smaller(M, s) => r = s
  BY <1>2, SmallerIs
<1>8. \A k \in 1 .. n : b[k] = a[k]
  <2> TAKE k \in 1 .. n
  <2>1. a[k] \in S /\ a[k] \in M /\ Smaller(M, a[k]) = k - 1
    BY <1>3, <1>5
  <2>2. k \in 1 .. n + 1
    OBVIOUS
  <2>3. b[k] \in M /\ Smaller(M, b[k]) = k - 1
    BY <1>4, <2>2
  <2> QED BY <1>7, <2>1, <2>3
<1>9. b[n + 1] = m
  <2>1. b[n + 1] \in M /\ Smaller(M, b[n + 1]) = n
    <3>1. n + 1 \in 1 .. n + 1 /\ (n + 1) - 1 = n
      OBVIOUS
    <3> QED BY <1>4, <3>1
  <2>2. m \in M
    OBVIOUS
  <2> QED BY <1>6, <1>7, <2>1, <2>2
<1> HIDE DEF M
<1>10. b = Append(a, m)
  BY <1>3, <1>4, <1>8, <1>9, AppendedList
<1> QED BY <1>3, <1>4, <1>10 DEF M

\* Where a greater number comes in, it is the greatest.
LEMMA MaxIs ==
  ASSUME NEW S \in SUBSET Nat, NEW m \in S, \A s \in S : s <= m
  PROVE  Max(S) = m
<1>1. \A y \in S : m >= y
  OBVIOUS
<1>2. PICK x : x = Max(S)
  OBVIOUS
<1>3. x \in S /\ \A y \in S : x >= y
  BY <1>1, <1>2 DEF Max
<1>4. x >= m /\ m >= x /\ x \in Nat /\ m \in Nat
  BY <1>1, <1>3
<1> QED BY <1>2, <1>4

-----------------------------------------------------------------------------
(* Where the lines of a body stand among its bytes: line i takes those after *)
(* off[i-1] and up to off[i], which is its "lf".                             *)
LayOut(all, lines, off, n) ==
  /\ off \in [0 .. n -> Nat] /\ off[0] = 0 /\ all \in Seq(Shown) /\ Len(all) = off[n]
  /\ \A i, j \in 0 .. n : i <= j => off[i] <= off[j]
  /\ \A i \in 1 .. n :
       /\ off[i-1] + 2 <= off[i] /\ all[off[i-1] + 1] = Byte(i, "text")
       /\ \A k \in Nat : off[i-1] < k /\ k <= off[i] =>
            /\ all[k].line = i /\ all[k].kind # "replacement"
            /\ all[k].kind = "lf" <=> k = off[i]
            /\ ~lines[i].wide => all[k].kind \notin {"lead", "trail"}
  /\ \A k \in 1 .. off[n] : \E i \in 1 .. n : off[i-1] < k /\ k <= off[i]

LaidOut(off) == LayOut(Bytes, body.lines, off, Len(body.lines))

LEMMA BodyIs ==
  ASSUME body \in Bodies
  PROVE  /\ body.reader \in {"openai", "anthropic"}
         /\ Len(body.lines) \in Nat /\ DOMAIN body.lines = 1 .. Len(body.lines)
         /\ \A i \in 1 .. Len(body.lines) :
              /\ body.lines[i].type \in {"text", "part", "end", "noise"}
              /\ body.lines[i].type = "part" => body.lines[i].index \in Nat
<1>1. PICK s : s = body.lines /\ s \in Seq(Range(s))
  BY SseAssumption
<1>2. Len(s) \in Nat /\ DOMAIN s = 1 .. Len(s)
  BY <1>1
<1> QED BY <1>1, <1>2, SseAssumption

LEMMA BodyLaidOut ==
  ASSUME body \in Bodies
  PROVE  \E off : LaidOut(off)
<1>1. PICK n \in Nat : n = Len(body.lines) /\ DOMAIN body.lines = 1 .. n
  BY BodyIs
<1> DEFINE seqs == [i \in 1 .. n |-> LineBytes(body.lines[i], i)]
<1>2. Bytes = FlattenSeq(seqs)
  BY <1>1 DEF Bytes
<1> DEFINE Is(s, i, m) ==
             /\ m >= 2 /\ s \in Seq(Shown) /\ Len(s) = m
             /\ s[1] = Byte(i, "text")
             /\ \A k \in 1 .. m :
                  /\ s[k].line = i /\ s[k].kind # "replacement"
                  /\ s[k].kind = "lf" <=> k = m
                  /\ ~body.lines[i].wide => s[k].kind \notin {"lead", "trail"}
<1>3. \A i \in 1 .. n : \E m \in Nat : Is(seqs[i], i, m)
  <2> TAKE i \in 1 .. n
  <2>1. PICK s : s = LineBytes(body.lines[i], i)
    OBVIOUS
  <2>2. \E m \in Nat : Is(LineBytes(body.lines[i], i), i, m)
    BY LineBytesAre
  <2>3. seqs[i] = LineBytes(body.lines[i], i)
    OBVIOUS
  <2> HIDE DEF Is, seqs
  <2> QED BY <2>2, <2>3, Zenon
<1>4. seqs = [i \in 1 .. n |-> seqs[i]]
  OBVIOUS
<1> HIDE DEF seqs
<1>5. \A i \in 1 .. n : seqs[i] \in Seq(Shown)
  BY <1>3
<1>6. seqs \in Seq(Seq(Shown)) /\ n = Len(seqs)
  BY <1>4, <1>5
<1>7. PICK off \in [0 .. n -> Nat] :
        /\ off[0] = 0 /\ Laid(Shown, seqs, FlattenSeq(seqs), off, n)
        /\ \A i, j \in 0 .. n : i <= j => off[i] <= off[j]
  BY <1>6, FlattenIs, ZenonT(30)
<1>8. PICK all : all = Bytes /\ Laid(Shown, seqs, all, off, n)
  BY <1>2, <1>7
<1>9. /\ all \in Seq(Shown) /\ Len(all) = off[n]
      /\ \A i \in 1 .. n : off[i] = off[i-1] + Len(seqs[i])
      /\ \A i \in 1 .. n : \A j \in 1 .. Len(seqs[i]) : all[off[i-1] + j] = seqs[i][j]
      /\ \A k \in 1 .. off[n] : \E i \in 1 .. n : off[i-1] < k /\ k <= off[i]
  BY <1>8 DEF Laid
<1>10. ASSUME NEW i \in 1 .. n
       PROVE  /\ off[i-1] + 2 <= off[i] /\ all[off[i-1] + 1] = Byte(i, "text")
              /\ \A k \in Nat : off[i-1] < k /\ k <= off[i] =>
                   /\ all[k].line = i /\ all[k].kind # "replacement"
                   /\ all[k].kind = "lf" <=> k = off[i]
                   /\ ~body.lines[i].wide => all[k].kind \notin {"lead", "trail"}
  <2>1. PICK s : s = seqs[i]
    OBVIOUS
  <2>6. PICK m \in Nat : Is(s, i, m)
    BY <1>3, <2>1, SMTT(30)
  <2>2. PICK a \in Nat : a = off[i-1]
    <3>1. i - 1 \in 0 .. n
      OBVIOUS
    <3> QED BY <1>7, <3>1
  <2>3. m >= 2 /\ off[i] = a + m /\ \A j \in 1 .. m : all[a + j] = s[j]
    BY <1>9, <2>1, <2>2, <2>6
  <2>4. all[off[i-1] + 1] = Byte(i, "text")
    <3>1. 1 \in 1 .. m /\ s[1] = Byte(i, "text")
      BY <2>6, <2>3
    <3> QED BY <2>2, <2>3, <3>1
  <2>5. ASSUME NEW k \in Nat, off[i-1] < k /\ k <= off[i]
        PROVE  /\ all[k].line = i /\ all[k].kind # "replacement"
               /\ all[k].kind = "lf" <=> k = off[i]
               /\ ~body.lines[i].wide => all[k].kind \notin {"lead", "trail"}
    <3>1. PICK j \in 1 .. m : k = a + j /\ (k = off[i] <=> j = m)
      <4>1. k - a \in 1 .. m /\ k = a + (k - a) /\ (k = a + m <=> k - a = m)
        BY <2>2, <2>3, <2>5
      <4> QED BY <2>3, <4>1
    <3>2. all[k] = s[j]
      BY <2>3, <3>1
    <3> QED BY <2>6, <3>1, <3>2
  <2> QED BY <2>2, <2>3, <2>4, <2>5
<1> HIDE DEF Is
<1>11. off \in [0 .. n -> Nat] /\ off[0] = 0 /\ \A i, j \in 0 .. n : i <= j => off[i] <= off[j]
  BY <1>7
<1>12. all = Bytes /\ n = Len(body.lines)
  BY <1>1, <1>8
<1>13. LayOut(all, body.lines, off, n)
  BY <1>9, <1>10, <1>11 DEF LayOut
<1>14. LaidOut(off)
  BY <1>12, <1>13, Zenon DEF LaidOut
<1> QED BY <1>14

-----------------------------------------------------------------------------
(* What the buffer holds: the received bytes after the lines already taken,  *)
(* where the OpenAI reader may show a byte of a wide character as another.   *)
Blurred(i) == body.reader = "openai" /\ body.lines[i].wide

Same(shown, byte) ==
  \/ shown = byte
  \/ /\ shown = Byte(byte.line, "replacement") /\ byte.kind \in {"lead", "trail"}
     /\ Blurred(byte.line)

BufferFits(off) ==
  /\ decoded \in 0 .. Len(body.lines) /\ received \in Nat
  /\ off[decoded] <= received /\ received <= Len(Bytes)
  /\ buffer \in Seq(Shown) /\ Len(buffer) = received - off[decoded]
  /\ \A k \in 1 .. Len(buffer) : Same(buffer[k], Bytes[off[decoded] + k])

\* A byte that ends a line looks so, and no other does.
LEMMA EndsShow ==
  ASSUME NEW shown, NEW byte, Same(shown, byte)
  PROVE  /\ shown.kind = "lf" <=> byte.kind = "lf"
         /\ byte.kind = "text" => shown = byte
         /\ shown.kind = "lf" => shown = byte
BY DEF Same, Byte

\* What LayOut says of one byte of a line.
LEMMA ByteOf ==
  ASSUME NEW all, NEW lines, NEW off, NEW n \in Nat, LayOut(all, lines, off, n),
         NEW i \in 1 .. n, NEW k \in Nat, off[i-1] < k, k <= off[i]
  PROVE  /\ k \in 1 .. off[n] /\ all[k].line = i /\ all[k].kind # "replacement"
         /\ all[k].kind = "lf" <=> k = off[i]
         /\ ~lines[i].wide => all[k].kind \notin {"lead", "trail"}
<1>1. PICK x \in Nat, y \in Nat, z \in Nat : x = off[i-1] /\ y = off[i] /\ z = off[n] /\ y <= z
  <2>1. i - 1 \in 0 .. n /\ i \in 0 .. n /\ n \in 0 .. n /\ i <= n
    OBVIOUS
  <2> QED BY <2>1 DEF LayOut
<1>2. k \in 1 .. z
  BY <1>1
<1> QED BY <1>1, <1>2 DEF LayOut

\* Where a line begins.
LEMMA LineBegins ==
  ASSUME NEW all, NEW lines, NEW off, NEW n \in Nat, LayOut(all, lines, off, n),
         NEW i \in 1 .. n
  PROVE  \E x, y \in Nat : /\ x = off[i-1] /\ y = off[i] /\ x + 2 <= y /\ y <= off[n]
                          /\ all[x + 1] = Byte(i, "text")
<1>1. i - 1 \in 0 .. n /\ i \in 0 .. n /\ n \in 0 .. n /\ i <= n
  OBVIOUS
<1> QED BY <1>1 DEF LayOut

\* The bytes that are in the buffer, by the line that they are of.
LEMMA InBuffer ==
  ASSUME body \in Bodies, NEW off, LaidOut(off), BufferFits(off), NEW n \in Nat, n = Len(body.lines)
  PROVE  /\ \A k \in Ends(buffer) : \E i \in 1 .. n : k = off[i] - off[decoded] /\ i > decoded
         /\ \A i \in 1 .. n : i > decoded /\ off[i] <= received =>
              off[i] - off[decoded] \in Ends(buffer)
<1>1. PICK d \in 0 .. n, o \in Nat, r \in Nat, m \in Nat, all \in {Bytes} :
        /\ d = decoded /\ o = off[d] /\ r = received /\ m = Len(buffer) /\ all = Bytes
        /\ o <= r /\ m = r - o
  <2>1. decoded \in 0 .. n /\ off[decoded] \in Nat /\ received \in Nat
    BY DEF LaidOut, LayOut, BufferFits
  <2> QED BY <2>1 DEF BufferFits
<1>2. /\ DOMAIN buffer = 1 .. m /\ r <= Len(all)
      /\ \A k \in 1 .. m : Same(buffer[k], all[o + k])
  BY <1>1 DEF BufferFits
<1>3. LayOut(all, body.lines, off, n)
  BY <1>1 DEF LaidOut
<1>4. \A i \in 0 .. n : off[i] \in Nat
  BY <1>3 DEF LayOut
<1>5. ASSUME NEW k \in Ends(buffer)
      PROVE  \E i \in 1 .. n : k = off[i] - o /\ i > d
  <2>1. k \in 1 .. m /\ buffer[k].kind = "lf"
    BY <1>2 DEF Ends
  <2>2. all[o + k].kind = "lf"
    BY <1>2, <2>1, EndsShow
  <2>3. o + k \in 1 .. off[n] /\ o + k > o
    <3>1. Len(all) = off[n] /\ off[n] \in Nat
      BY <1>3, <1>4 DEF LayOut
    <3>2. r <= off[n] /\ k \in 1 .. m /\ r = o + m
      BY <1>1, <1>2, <2>1, <3>1
    <3>3. \A a, b, c, e \in Nat : b \in 1 .. c /\ a + c <= e => a + b \in 1 .. e /\ a + b > a
      OBVIOUS
    <3>4. o + m <= off[n] /\ k \in Nat
      BY <3>2
    <3> HIDE <1>1
    <3>5. o \in Nat /\ m \in Nat
      OBVIOUS
    <3> QED BY <3>1, <3>2, <3>3, <3>4, <3>5
  <2>4. PICK i \in 1 .. n : off[i-1] < o + k /\ o + k <= off[i]
    BY <1>3, <2>3 DEF LayOut
  <2>5. o + k = off[i]
    BY <1>3, <2>2, <2>3, <2>4 DEF LayOut
  <2>6. i > d
    <3>1. i <= d => off[i] <= o
      BY <1>1, <1>3 DEF LayOut
    <3>2. off[i] \in Nat
      BY <1>4
    <3> QED BY <2>3, <2>5, <3>1, <3>2
  <2>7. k = off[i] - o
    BY <1>4, <2>1, <2>5
  <2> QED BY <2>6, <2>7
<1>6. ASSUME NEW i \in 1 .. n, i > d, off[i] <= r
      PROVE  off[i] - o \in Ends(buffer)
  <2>1. i - 1 \in 0 .. n /\ d <= i - 1 /\ off[i] \in Nat /\ off[i-1] \in Nat
    BY <1>4, <1>6
  <2>2. o <= off[i-1] /\ off[i-1] + 2 <= off[i]
    BY <1>1, <1>3, <2>1 DEF LayOut
  <2>3. PICK k \in 1 .. m : k = off[i] - o /\ o + k = off[i]
    <3>1. PICK x \in Nat, y \in Nat : x = off[i] /\ y = off[i-1]
      BY <2>1
    <3>2. o <= y /\ y + 2 <= x /\ x <= r
      BY <1>6, <2>2, <3>1
    <3>3. x - o \in 1 .. m /\ o + (x - o) = x
      BY <1>1, <3>2, SMTT(30)
    <3> QED BY <3>1, <3>3, ZenonT(30)
  <2>4. all[off[i]].kind = "lf"
    <3>1. off[i-1] < off[i]
      BY <2>1, <2>2
    <3> QED BY <1>3, <2>1, <3>1 DEF LayOut
  <2>5. buffer[k].kind = "lf"
    BY <1>2, <2>3, <2>4, EndsShow
  <2> QED BY <1>2, <2>3, <2>5 DEF Ends
<1> QED BY <1>1, <1>5, <1>6

\* Without a complete line in the buffer, the complete lines are those taken.
LEMMA CompleteAre ==
  ASSUME body \in Bodies, NEW off, LaidOut(off), BufferFits(off), Ends(buffer) = {}
  PROVE  Complete(received) = 1 .. decoded
<1>1. PICK n \in Nat : n = Len(body.lines) /\ DOMAIN body.lines = 1 .. n
  BY BodyIs
<1>2. PICK d \in 0 .. n, r \in Nat, all \in {Bytes} :
        d = decoded /\ r = received /\ all = Bytes /\ off[d] <= r
  BY <1>1 DEF BufferFits
<1>3. LayOut(all, body.lines, off, n)
  BY <1>1, <1>2 DEF LaidOut
<1>4. /\ DOMAIN all = 1 .. off[n]
      /\ \A i \in 0 .. n : off[i] \in Nat
      /\ \A i, j \in 0 .. n : i <= j => off[i] <= off[j]
  BY <1>3 DEF LayOut
<1>5. \A k \in 1 .. off[n] : \E j \in 1 .. n : all[k].line = j /\ k <= off[j]
  BY <1>3, <1>4 DEF LayOut
<1>6. \A i \in 1 .. n : off[i] \in 1 .. off[n] /\ all[off[i]].line = i
  <2> TAKE i \in 1 .. n
  <2>1. PICK x \in Nat, y \in Nat : x = off[i-1] /\ y = off[i] /\ x + 2 <= y
    BY <1>3, LineBegins
  <2>2. off[i-1] < y /\ y <= off[i]
    BY <2>1
  <2> QED BY <1>3, <2>1, <2>2, ByteOf
<1>7. ASSUME NEW i \in 1 .. n
      PROVE  (\A k \in 1 .. off[n] : all[k].line = i => k <= r) <=> i \in 1 .. d
  <2>1. CASE i <= d
    <3>1. off[i] <= off[d] /\ off[i] \in Nat /\ off[d] \in Nat
      BY <1>4, <2>1
    <3>2. \A k \in 1 .. off[n] : all[k].line = i => k <= off[i]
      BY <1>5
    <3>3. off[i] <= r
      BY <1>2, <3>1
    <3>4. \A k \in 1 .. off[n] : k <= off[i] => k <= r
      BY <1>4, <3>1, <3>3
    <3> QED BY <2>1, <3>2, <3>4
  <2>2. CASE i > d
    <3>1. ~(off[i] <= r)
      <4>1. off[i] <= received /\ i > decoded => off[i] - off[decoded] \in Ends(buffer)
        BY <1>1, InBuffer
      <4> QED BY <1>2, <2>2, <4>1
    <3> QED BY <1>6, <2>2, <3>1
  <2> QED BY <1>2, <2>1, <2>2
<1>8. Complete(r) = {i \in 1 .. n : \A k \in 1 .. off[n] : all[k].line = i => k <= r}
  BY <1>1, <1>2, <1>4 DEF Complete
<1>9. 1 .. d \subseteq 1 .. n
  BY <1>2
<1> QED BY <1>2, <1>7, <1>8, <1>9

\* The first complete line in the buffer is the next line of the body.
LEMMA LineTaken ==
  ASSUME body \in Bodies, NEW off, LaidOut(off), BufferFits(off), Ends(buffer) # {}
  PROVE  \E end \in 1 .. Len(buffer) :
           /\ end = Min(Ends(buffer)) /\ decoded < Len(body.lines)
           /\ off[decoded + 1] = off[decoded] + end
           /\ buffer[end].line = decoded + 1 /\ buffer[1] = Byte(decoded + 1, "text")
           /\ ~Blurred(decoded + 1) =>
                \A k \in 1 .. end : buffer[k] # Byte(decoded + 1, "replacement")
<1>1. PICK n \in Nat : n = Len(body.lines) /\ DOMAIN body.lines = 1 .. n
  BY BodyIs
<1>2. PICK d \in 0 .. n, o \in Nat, r \in Nat, m \in Nat, all \in {Bytes} :
        /\ d = decoded /\ o = off[d] /\ r = received /\ m = Len(buffer) /\ all = Bytes
        /\ o <= r /\ m = r - o
  <2>1. decoded \in 0 .. n /\ off[decoded] \in Nat /\ received \in Nat
    BY <1>1 DEF LaidOut, LayOut, BufferFits
  <2> QED BY <2>1 DEF BufferFits
<1>3. LayOut(all, body.lines, off, n)
  BY <1>1, <1>2 DEF LaidOut
<1>4. /\ DOMAIN buffer = 1 .. m
      /\ \A k \in 1 .. m : Same(buffer[k], all[o + k])
  BY <1>2 DEF BufferFits
<1>5. /\ \A i \in 0 .. n : off[i] \in Nat
      /\ \A i, j \in 0 .. n : i <= j => off[i] <= off[j]
  BY <1>3 DEF LayOut
<1>6. /\ \A k \in Ends(buffer) : \E i \in 1 .. n : k = off[i] - o /\ i > d
      /\ \A i \in 1 .. n : i > d /\ off[i] <= r => off[i] - o \in Ends(buffer)
  BY <1>1, <1>2, InBuffer
<1>7. Ends(buffer) \subseteq 1 .. m
  BY <1>4 DEF Ends
<1>8. d < n
  BY <1>6
<1>9. PICK i \in 1 .. n : i = d + 1 /\ i - 1 = d
  BY <1>8
<1>10. PICK end \in Int : end = off[i] - o /\ off[i] \in Nat
  BY <1>5
<1>11. \A k \in Ends(buffer) : end <= k /\ off[i] <= r
  <2> TAKE k \in Ends(buffer)
  <2>1. PICK j \in 1 .. n : k = off[j] - o /\ j > d
    BY <1>6
  <2>2. off[i] <= off[j] /\ off[j] \in Nat
    BY <1>5, <1>9, <2>1
  <2>3. k \in 1 .. m
    BY <1>7
  <2> QED BY <1>2, <1>10, <2>1, <2>2, <2>3
<1>12. end \in Ends(buffer) /\ end \in 1 .. m
  <2>1. off[i] <= r
    BY <1>11
  <2> QED BY <1>6, <1>7, <1>9, <1>10, <2>1
<1>13. end = Min(Ends(buffer))
  <2>1. PICK E : E = Ends(buffer) /\ E \subseteq 1 .. m
    BY <1>7
  <2>2. end \in E /\ \A k \in E : end <= k
    BY <1>11, <1>12, <2>1
  <2>3. Min(E) \in E /\ \A k \in E : Min(E) <= k
    BY <2>2 DEF Min
  <2>4. Min(E) <= end /\ end <= Min(E) /\ Min(E) \in 1 .. m
    BY <2>1, <2>2, <2>3
  <2> QED BY <2>1, <2>4
<1>14. \A k \in 1 .. end :
         /\ k \in 1 .. m /\ Same(buffer[k], all[o + k]) /\ all[o + k].line = i
         /\ all[o + k].kind # "replacement"
         /\ all[o + k].kind = "lf" <=> k = end
  <2> TAKE k \in 1 .. end
  <2>1. k \in 1 .. m /\ Same(buffer[k], all[o + k])
    BY <1>4, <1>12
  <2>2. o + k \in Nat /\ off[i-1] < o + k /\ o + k <= off[i] /\ (o + k = off[i] <=> k = end)
    BY <1>2, <1>9, <1>10
  <2>3. PICK b \in Nat : b = o + k /\ off[i-1] < b /\ b <= off[i] /\ (b = off[i] <=> k = end)
    BY <2>2
  <2>4. all[b].line = i /\ all[b].kind # "replacement" /\ (all[b].kind = "lf" <=> b = off[i])
    BY <1>3, <2>3, ByteOf
  <2> QED BY <2>1, <2>3, <2>4
<1>15. buffer[end].line = i
  <2>1. end \in 1 .. end
    BY <1>12
  <2>2. Same(buffer[end], all[o + end]) /\ all[o + end].line = i /\ all[o + end].kind = "lf"
    BY <1>14, <2>1
  <2>3. buffer[end] = all[o + end]
    BY <2>2, EndsShow
  <2> QED BY <2>2, <2>3
<1>16. buffer[1] = Byte(i, "text")
  <2>1. 1 \in 1 .. end
    BY <1>12
  <2>2. all[o + 1] = Byte(i, "text")
    <3>1. PICK x \in Nat : x = off[i-1] /\ all[x + 1] = Byte(i, "text")
      BY <1>3, LineBegins
    <3> QED BY <1>2, <1>9, <3>1
  <2>3. Byte(i, "text").kind = "text"
    BY DEF Byte
  <2>4. Same(buffer[1], all[o + 1])
    BY <1>14, <2>1
  <2> QED BY <2>2, <2>3, <2>4, EndsShow
<1>17. ASSUME ~Blurred(i), NEW k \in 1 .. end PROVE buffer[k] # Byte(i, "replacement")
  <2>1. Same(buffer[k], all[o + k]) /\ all[o + k].line = i /\ all[o + k].kind # "replacement"
    BY <1>14
  <2>2. buffer[k] = all[o + k]
    BY <1>17, <2>1 DEF Same
  <2>3. Byte(i, "replacement").kind = "replacement"
    BY DEF Byte
  <2> QED BY <2>1, <2>2, <2>3
<1>18. off[i] = o + end
  BY <1>10
<1> QED BY <1>1, <1>2, <1>8, <1>9, <1>12, <1>13, <1>15, <1>16, <1>17, <1>18

-----------------------------------------------------------------------------
(* What the next line adds to what the lines so far say.                     *)
Endless(m) == \A e \in 1 .. m : body.lines[e].type # "end"

LEMMA BeforeEndIs ==
  ASSUME NEW m \in Nat, Endless(m)
  PROVE  /\ BeforeEnd(m) = 1 .. m
         /\ body.lines[m + 1].type # "end" => BeforeEnd(m + 1) = 1 .. m + 1
         /\ \A c \in Nat : m + 1 <= c /\ body.lines[m + 1].type = "end" => BeforeEnd(c) = 1 .. m
<1>1. BeforeEnd(m) = 1 .. m
  BY DEF BeforeEnd, Endless
<1>2. ASSUME body.lines[m + 1].type # "end" PROVE BeforeEnd(m + 1) = 1 .. m + 1
  <2>1. \A e \in 1 .. m + 1 : body.lines[e].type # "end"
    <3>1. \A e \in 1 .. m + 1 : e \in 1 .. m \/ e = m + 1
      OBVIOUS
    <3> QED BY <1>2, <3>1 DEF Endless
  <2> QED BY <2>1 DEF BeforeEnd
<1>3. ASSUME NEW c \in Nat, m + 1 <= c, body.lines[m + 1].type = "end" PROVE BeforeEnd(c) = 1 .. m
  <2>1. ASSUME NEW i \in 1 .. c
        PROVE  (\A e \in 1 .. i : body.lines[e].type # "end") <=> i \in 1 .. m
    <3>1. CASE i \in 1 .. m
      <4>1. 1 .. i \subseteq 1 .. m
        BY <3>1
      <4> QED BY <3>1, <4>1 DEF Endless
    <3>2. CASE i \notin 1 .. m
      <4>1. m + 1 \in 1 .. i
        BY <3>2
      <4> QED BY <1>3, <3>2, <4>1
    <3> QED BY <3>1, <3>2
  <2>2. 1 .. m \subseteq 1 .. c
    BY <1>3
  <2> QED BY <2>1, <2>2 DEF BeforeEnd
<1> QED BY <1>1, <1>2, <1>3

\* A set without and with a greatest number.
LEMMA MaxOfMore ==
  ASSUME NEW S \in SUBSET Nat, NEW m \in Nat, \A s \in S : s < m
  PROVE  Max(S \cup {m}) = m
<1>1. S \cup {m} \in SUBSET Nat /\ m \in S \cup {m} /\ \A s \in S \cup {m} : s <= m
  OBVIOUS
<1> QED BY <1>1, MaxIs

LastId(P) ==
  LET ids == {i \in P : body.lines[i].id # Missing}
  IN  IF ids = {} THEN "" ELSE body.lines[Max(ids)].id

LastName(P) ==
  LET names == {i \in P : body.lines[i].name # Missing}
  IN  IF names = {} THEN "" ELSE body.lines[Max(names)].name

Given(P) == {i \in P : ~Restarts(i) /\ body.lines[i].args # Missing}

AllArgs(P) == [k \in DOMAIN Ascending(Given(P)) |-> body.lines[Ascending(Given(P))[k]].args]

LEMMA CallIs ==
  ASSUME NEW x, NEW c
  PROVE  LET P == Parts(x, c)
         IN  Call(x, c) = [id |-> LastId(P), name |-> LastName(P), args |-> AllArgs(P)]
BY DEF Call, LastId, LastName, AllArgs, Given

\* The reference depends on the lines before the end marker alone.
LEMMA SameReference ==
  ASSUME NEW a, NEW b, BeforeEnd(a) = BeforeEnd(b)
  PROVE  Reference(a) = Reference(b)
<1>1. TextLines(a) = TextLines(b)
  BY DEF TextLines
<1>2. CallIndices(a) = CallIndices(b)
  BY DEF CallIndices
<1>3. \A x : Parts(x, a) = Parts(x, b)
  BY DEF Parts
<1>4. ASSUME NEW x PROVE Call(x, a) = Call(x, b)
  <2>1. PICK P : P = Parts(x, a) /\ P = Parts(x, b)
    BY <1>3
  <2>2. Call(x, a) = [id |-> LastId(P), name |-> LastName(P), args |-> AllArgs(P)]
    BY <2>1, CallIs, Zenon
  <2>3. Call(x, b) = [id |-> LastId(P), name |-> LastName(P), args |-> AllArgs(P)]
    BY <2>1, CallIs, Zenon
  <2> QED BY <2>2, <2>3
<1> QED BY <1>1, <1>2, <1>4 DEF Reference

LEMMA LastGrows ==
  ASSUME NEW P \in SUBSET Nat, NEW m \in Nat, \A p \in P : p < m
  PROVE  /\ LastId(P \cup {m}) = Or(body.lines[m].id, LastId(P))
         /\ LastName(P \cup {m}) = Or(body.lines[m].name, LastName(P))
<1>1. LastId(P \cup {m}) = Or(body.lines[m].id, LastId(P))
  <2> DEFINE ids == {i \in P : body.lines[i].id # Missing}
             more == {i \in P \cup {m} : body.lines[i].id # Missing}
  <2>1. CASE body.lines[m].id # Missing
    <3>1. more = ids \cup {m}
      BY <2>1
    <3>2. Max(ids \cup {m}) = m
      <4>1. ids \in SUBSET Nat /\ \A s \in ids : s < m
        OBVIOUS
      <4> HIDE DEF ids
      <4> QED BY <4>1, MaxOfMore
    <3>3. Max(more) = m /\ more # {}
      BY <3>1, <3>2
    <3>4. LastId(P \cup {m}) = IF more = {} THEN "" ELSE body.lines[Max(more)].id
      BY DEF LastId
    <3> HIDE DEF more
    <3> QED BY <2>1, <3>3, <3>4 DEF Or
  <2>2. CASE body.lines[m].id = Missing
    <3>1. more = ids
      BY <2>2
    <3>2. LastId(P \cup {m}) = LastId(P)
      BY <3>1 DEF LastId
    <3> QED BY <2>2, <3>2 DEF Or
  <2> QED BY <2>1, <2>2
<1>2. LastName(P \cup {m}) = Or(body.lines[m].name, LastName(P))
  <2> DEFINE names == {i \in P : body.lines[i].name # Missing}
             more == {i \in P \cup {m} : body.lines[i].name # Missing}
  <2>1. CASE body.lines[m].name # Missing
    <3>1. more = names \cup {m}
      BY <2>1
    <3>2. Max(names \cup {m}) = m
      <4>1. names \in SUBSET Nat /\ \A s \in names : s < m
        OBVIOUS
      <4> HIDE DEF names
      <4> QED BY <4>1, MaxOfMore
    <3>3. Max(more) = m /\ more # {}
      BY <3>1, <3>2
    <3>4. LastName(P \cup {m}) = IF more = {} THEN "" ELSE body.lines[Max(more)].name
      BY DEF LastName
    <3> HIDE DEF more
    <3> QED BY <2>1, <3>3, <3>4 DEF Or
  <2>2. CASE body.lines[m].name = Missing
    <3>1. more = names
      BY <2>2
    <3>2. LastName(P \cup {m}) = LastName(P)
      BY <3>1 DEF LastName
    <3> QED BY <2>2, <3>2 DEF Or
  <2> QED BY <2>1, <2>2
<1> QED BY <1>1, <1>2

LEMMA ArgsGrow ==
  ASSUME NEW P \in SUBSET Nat, IsFiniteSet(P), NEW m \in Nat, \A p \in P : p < m
  PROVE  AllArgs(P \cup {m}) = IF Restarts(m) THEN AllArgs(P) ELSE More(AllArgs(P), body.lines[m].args)
<1>1. CASE Restarts(m) \/ body.lines[m].args = Missing
  <2>1. Given(P \cup {m}) = Given(P)
    BY <1>1 DEF Given
  <2>2. AllArgs(P \cup {m}) = AllArgs(P)
    BY <2>1 DEF AllArgs
  <2> QED BY <1>1, <2>2 DEF More
<1>2. CASE ~Restarts(m) /\ body.lines[m].args # Missing
  <2>1. Given(P \cup {m}) = Given(P) \cup {m}
    BY <1>2 DEF Given
  <2>2. Given(P) \in SUBSET Nat /\ IsFiniteSet(Given(P)) /\ \A s \in Given(P) : s < m
    BY FS_Subset DEF Given
  <2>3. Ascending(Given(P \cup {m})) = Append(Ascending(Given(P)), m)
    BY <2>1, <2>2, AscendingFurther
  <2>4. PICK n \in Nat, a \in {Ascending(Given(P))} : /\ a = Ascending(Given(P)) /\ a \in [1 .. n -> Given(P)]
    <3>1. Cardinality(Given(P)) \in Nat
      BY <2>2, FS_CardinalityType
    <3>2. Ascending(Given(P)) \in [1 .. Cardinality(Given(P)) -> Given(P)]
      BY <2>2, <3>1, AscendingIs
    <3> QED BY <3>1, <3>2
  <2>5. PICK c : c = Append(a, m) /\ LongerBy(c, a, m, n)
    BY <2>4, AppendIs
  <2>6. AllArgs(P) = [k \in 1 .. n |-> body.lines[a[k]].args]
    BY <2>4 DEF AllArgs
  <2>7. AllArgs(P \cup {m}) = [k \in 1 .. n + 1 |-> body.lines[c[k]].args]
    <3>1. c = Ascending(Given(P \cup {m}))
      BY <2>3, <2>4, <2>5, Zenon
    <3>2. DOMAIN c = 1 .. n + 1
      BY <2>5 DEF LongerBy
    <3> QED BY <3>1, <3>2 DEF AllArgs
  <2>8. PICK s, t : s = AllArgs(P) /\ t = AllArgs(P \cup {m})
    OBVIOUS
  <2> DEFINE S == {body.lines[a[k]].args : k \in 1 .. n}
             V == {body.lines[c[k]].args : k \in 1 .. n + 1}
  <2>9. s \in [1 .. n -> S] /\ t \in [1 .. n + 1 -> V]
    BY <2>6, <2>7, <2>8
  <2>10. t[n + 1] = body.lines[m].args /\ \A k \in 1 .. n : t[k] = s[k]
    <3>1. n + 1 \in 1 .. n + 1 /\ \A k \in 1 .. n : k \in 1 .. n + 1
      OBVIOUS
    <3>2. c[n + 1] = m /\ \A k \in 1 .. n : c[k] = a[k]
      BY <2>5 DEF LongerBy
    <3>3. t = [k \in 1 .. n + 1 |-> body.lines[c[k]].args] /\ s = [k \in 1 .. n |-> body.lines[a[k]].args]
      BY <2>6, <2>7, <2>8
    <3>4. t[n + 1] = body.lines[c[n + 1]].args
      BY <3>1, <3>3
    <3>5. ASSUME NEW k \in 1 .. n PROVE t[k] = s[k]
      <4>1. t[k] = body.lines[c[k]].args /\ s[k] = body.lines[a[k]].args
        BY <3>1, <3>3
      <4> QED BY <3>2, <4>1
    <3> QED BY <3>2, <3>4, <3>5
  <2> HIDE DEF S, V
  <2>11. t = Append(s, body.lines[m].args)
    BY <2>9, <2>10, AppendedList
  <2> QED BY <1>2, <2>8, <2>11 DEF More
<1> QED BY <1>1, <1>2

LEMMA SaidSoFar ==
  ASSUME body \in Bodies, NEW m \in Nat, m <= Len(body.lines)
  PROVE  /\ TextLines(m) \in SUBSET (1 .. m) /\ IsFiniteSet(TextLines(m))
         /\ CallIndices(m) \in SUBSET Nat /\ IsFiniteSet(CallIndices(m))
         /\ \A x : Parts(x, m) \in SUBSET (1 .. m) /\ IsFiniteSet(Parts(x, m))
<1>1. IsFiniteSet(1 .. m) /\ BeforeEnd(m) \in SUBSET (1 .. m)
  <2>1. IsFiniteSet(1 .. m)
    BY FS_Interval
  <2> QED BY <2>1 DEF BeforeEnd
<1>2. PICK n \in Nat : n = Len(body.lines)
  BY BodyIs
<1>3. TextLines(m) \in SUBSET (1 .. m) /\ IsFiniteSet(TextLines(m))
  <2>1. TextLines(m) \in SUBSET (1 .. m)
    BY <1>1 DEF TextLines
  <2> QED BY <1>1, <2>1, FS_Subset
<1>4. ASSUME NEW x PROVE Parts(x, m) \in SUBSET (1 .. m) /\ IsFiniteSet(Parts(x, m))
  <2>1. Parts(x, m) \in SUBSET (1 .. m)
    BY <1>1 DEF Parts
  <2> QED BY <1>1, <2>1, FS_Subset
<1> DEFINE all == {j \in BeforeEnd(m) : body.lines[j].type = "part"}
<1>5. CallIndices(m) = {body.lines[i].index : i \in all}
  BY DEF CallIndices
<1>6. all \in SUBSET (1 .. m) /\ \A i \in all : body.lines[i].index \in Nat
  <2>1. all \in SUBSET (1 .. m) /\ \A i \in all : body.lines[i].type = "part"
    BY <1>1
  <2>2. 1 .. m \subseteq 1 .. n
    BY <1>2
  <2> HIDE DEF all
  <2> QED BY <1>2, <2>1, <2>2, BodyIs
<1> HIDE DEF all
<1>7. CallIndices(m) \in SUBSET Nat
  BY <1>5, <1>6
<1>8. IsFiniteSet(CallIndices(m))
  <2> DEFINE f == [i \in all |-> body.lines[i].index]
  <2>1. IsFiniteSet(all)
    BY <1>1, <1>6, FS_Subset
  <2>2. f \in Surjection(all, CallIndices(m))
    BY <1>5 DEF Surjection
  <2> QED BY <2>1, <2>2, FS_Surjection
<1> QED BY <1>3, <1>4, <1>7, <1>8

\* A line that is no text adds none, a text adds itself.
LEMMA TextLinesGrow ==
  ASSUME NEW m \in Nat, Endless(m)
  PROVE  TextLines(m + 1) =
           IF body.lines[m + 1].type = "text" THEN TextLines(m) \cup {m + 1} ELSE TextLines(m)
<1>1. BeforeEnd(m) = 1 .. m
  BY BeforeEndIs
<1>2. CASE body.lines[m + 1].type = "end"
  <2>1. BeforeEnd(m + 1) = 1 .. m
    BY <1>2, BeforeEndIs
  <2> QED BY <1>1, <1>2, <2>1 DEF TextLines
<1>3. CASE body.lines[m + 1].type # "end"
  <2>1. BeforeEnd(m + 1) = (1 .. m) \cup {m + 1}
    BY <1>3, BeforeEndIs
  <2> QED BY <1>1, <1>3, <2>1 DEF TextLines
<1> QED BY <1>2, <1>3

\* Only a part changes what the calls are.
LEMMA NoPart ==
  ASSUME NEW m \in Nat, Endless(m), body.lines[m + 1].type # "part"
  PROVE  /\ CallIndices(m + 1) = CallIndices(m)
         /\ \A x : Call(x, m + 1) = Call(x, m)
<1>1. BeforeEnd(m) = 1 .. m
  BY BeforeEndIs
<1>2. BeforeEnd(m + 1) = 1 .. m \/ BeforeEnd(m + 1) = (1 .. m) \cup {m + 1}
  <2>1. CASE body.lines[m + 1].type = "end"
    BY <2>1, BeforeEndIs
  <2>2. CASE body.lines[m + 1].type # "end"
    BY <2>2, BeforeEndIs
  <2> QED BY <2>1, <2>2
<1>3. {j \in BeforeEnd(m + 1) : body.lines[j].type = "part"} =
      {j \in BeforeEnd(m) : body.lines[j].type = "part"}
  BY <1>1, <1>2
<1>4. CallIndices(m + 1) = CallIndices(m)
  BY <1>3 DEF CallIndices
<1>5. ASSUME NEW x PROVE Call(x, m + 1) = Call(x, m)
  <2>1. {i \in BeforeEnd(m + 1) : body.lines[i].type = "part" /\ body.lines[i].index = x} =
        {i \in BeforeEnd(m) : body.lines[i].type = "part" /\ body.lines[i].index = x}
    BY <1>1, <1>2
  <2>2. PICK P : P = Parts(x, m) /\ P = Parts(x, m + 1)
    BY <2>1 DEF Parts
  <2>3. Call(x, m) = [id |-> LastId(P), name |-> LastName(P), args |-> AllArgs(P)]
    BY <2>2, CallIs, Zenon
  <2>4. Call(x, m + 1) = [id |-> LastId(P), name |-> LastName(P), args |-> AllArgs(P)]
    BY <2>2, CallIs, Zenon
  <2> QED BY <2>3, <2>4
<1> QED BY <1>4, <1>5

\* A part belongs to one call, and ends what a restarted call had.
PartAdds(x, m) ==
  /\ CallIndices(m + 1) = CallIndices(m) \cup {x}
  /\ \A y : y # x => Parts(y, m + 1) = Parts(y, m)
  /\ Parts(x, m + 1) = IF Restarts(m + 1) THEN {m + 1} ELSE Parts(x, m) \cup {m + 1}

LEMMA PartsGrow ==
  ASSUME NEW m \in Nat, Endless(m), body.lines[m + 1].type = "part",
         NEW x, x = body.lines[m + 1].index
  PROVE  PartAdds(x, m)
<1>1. BeforeEnd(m) = 1 .. m /\ BeforeEnd(m + 1) = (1 .. m) \cup {m + 1}
  BY BeforeEndIs
<1>2. {j \in BeforeEnd(m + 1) : body.lines[j].type = "part"} =
      {j \in BeforeEnd(m) : body.lines[j].type = "part"} \cup {m + 1}
  BY <1>1
<1>3. CallIndices(m + 1) = CallIndices(m) \cup {x}
  BY <1>2 DEF CallIndices
<1> DEFINE All(y, c) == {i \in BeforeEnd(c) : body.lines[i].type = "part" /\ body.lines[i].index = y}
<1>4. ASSUME NEW y, NEW c PROVE Parts(y, c) = {i \in All(y, c) : \A s \in All(y, c) : Restarts(s) => s <= i}
  BY DEF Parts
<1>5. \A y : y # x => All(y, m + 1) = All(y, m)
  BY <1>1
<1>6. All(x, m + 1) = All(x, m) \cup {m + 1}
  BY <1>1
<1>7. \A y : All(y, m) \subseteq 1 .. m
  BY <1>1
<1> HIDE DEF All
<1>8. ASSUME NEW y, y # x PROVE Parts(y, m + 1) = Parts(y, m)
  <2>1. PICK A : A = All(y, m + 1) /\ A = All(y, m)
    BY <1>5, <1>8
  <2> DEFINE latest == {i \in A : \A s \in A : Restarts(s) => s <= i}
  <2>2. Parts(y, m) = latest
    BY <1>4, <2>1, Zenon
  <2>3. Parts(y, m + 1) = latest
    BY <1>4, <2>1, Zenon
  <2> QED BY <2>2, <2>3, Zenon
<1>9. \A i \in All(x, m) : i <= m + 1 /\ ~(m + 1 <= i)
  BY <1>7
<1>10. PICK A : A = All(x, m)
  OBVIOUS
<1>11. /\ Parts(x, m) = {i \in A : \A s \in A : Restarts(s) => s <= i}
       /\ Parts(x, m + 1) = {i \in A \cup {m + 1} : \A s \in A \cup {m + 1} : Restarts(s) => s <= i}
  BY <1>4, <1>6, <1>10
<1>12. CASE Restarts(m + 1)
  <2>1. \A i \in A \cup {m + 1} : (\A s \in A \cup {m + 1} : Restarts(s) => s <= i) <=> i = m + 1
    BY <1>9, <1>10, <1>12
  <2>2. {i \in A \cup {m + 1} : \A s \in A \cup {m + 1} : Restarts(s) => s <= i} = {m + 1}
    BY <2>1
  <2>3. Parts(x, m + 1) = {m + 1}
    BY <1>11, <2>2
  <2> QED BY <1>3, <1>8, <1>12, <2>3 DEF PartAdds
<1>13. CASE ~Restarts(m + 1)
  <2>1. \A i \in A \cup {m + 1} : (\A s \in A \cup {m + 1} : Restarts(s) => s <= i)
                                    <=> i = m + 1 \/ (\A s \in A : Restarts(s) => s <= i)
    BY <1>9, <1>10, <1>13
  <2>2. {i \in A \cup {m + 1} : \A s \in A \cup {m + 1} : Restarts(s) => s <= i} =
        {i \in A : \A s \in A : Restarts(s) => s <= i} \cup {m + 1}
    BY <2>1
  <2>3. Parts(x, m + 1) = Parts(x, m) \cup {m + 1}
    BY <1>11, <2>2
  <2> QED BY <1>3, <1>8, <1>13, <2>3 DEF PartAdds
<1> QED BY <1>12, <1>13

LEMMA NothingSaid == LastId({}) = "" /\ LastName({}) = "" /\ AllArgs({}) = <<>>
<1>1. LastId({}) = "" /\ LastName({}) = ""
  BY DEF LastId, LastName
<1>2. Given({}) = {}
  BY DEF Given
<1>3. Cardinality({}) = 0 /\ 1 .. 0 = {}
  BY FS_EmptySet
<1>4. DOMAIN Ascending({}) = {}
  BY <1>3 DEF Ascending
<1>5. AllArgs({}) = <<>>
  BY <1>2, <1>4 DEF AllArgs
<1> QED BY <1>1, <1>5

\* Without a part a call is as Gather begins one.
LEMMA NoCall ==
  ASSUME NEW m \in Nat, NEW x, x \notin CallIndices(m)
  PROVE  Call(x, m) = NewCall
<1>1. Parts(x, m) = {}
  BY DEF Parts, CallIndices
<1>2. LastId({}) = "" /\ LastName({}) = "" /\ AllArgs({}) = <<>>
  BY NothingSaid
<1> QED BY <1>1, <1>2, CallIs DEF NewCall

\* Gathering the next part makes the calls what the lines up to it say.
LEMMA GatherIs ==
  ASSUME body \in Bodies, NEW m \in Nat, m < Len(body.lines), Endless(m),
         body.lines[m + 1].type = "part"
  PROVE  Gather([index \in CallIndices(m) |-> Call(index, m)], body.lines[m + 1]) =
           [index \in CallIndices(m + 1) |-> Call(index, m + 1)]
<1> DEFINE acc == [index \in CallIndices(m) |-> Call(index, m)]
           part == body.lines[m + 1]
           new == IF Restarts(m + 1)
                    THEN [id |-> part.id, name |-> Or(part.name, ""), args |-> <<>>]
                    ELSE [id |-> Or(part.id, Call(part.index, m).id),
                          name |-> Or(part.name, Call(part.index, m).name),
                          args |-> More(Call(part.index, m).args, part.args)]
<1>1. PICK x : x = part.index
  OBVIOUS
<1>2. At(acc, x) = Call(x, m)
  <2>1. CASE x \in CallIndices(m)
    BY <2>1 DEF At
  <2>2. CASE x \notin CallIndices(m)
    BY <2>2, NoCall DEF At
  <2> QED BY <2>1, <2>2
<1>3. Gather(acc, part) = With(acc, x, new)
  <2>1. Restarts(m + 1) <=> body.reader = "anthropic" /\ part.id # Missing
    BY DEF Restarts
  <2> HIDE DEF acc, part
  <2> QED BY <1>1, <1>2, <2>1 DEF Gather
<1>4. DOMAIN acc = CallIndices(m) /\ \A y \in CallIndices(m) : acc[y] = Call(y, m)
  OBVIOUS
<1>5. /\ CallIndices(m + 1) = CallIndices(m) \cup {x}
      /\ \A y : y # x => Parts(y, m + 1) = Parts(y, m)
      /\ Parts(x, m + 1) = IF Restarts(m + 1) THEN {m + 1} ELSE Parts(x, m) \cup {m + 1}
  <2>1. PartAdds(body.lines[m + 1].index, m)
    BY PartsGrow
  <2>2. PartAdds(x, m)
    BY <1>1, <2>1, Zenon
  <2> HIDE DEF part
  <2> QED BY <2>2, Zenon DEF PartAdds
<1>6. PICK P : P = Parts(x, m) /\ P \in SUBSET Nat /\ IsFiniteSet(P) /\ \A p \in P : p < m + 1
  <2>1. Parts(x, m) \in SUBSET (1 .. m) /\ IsFiniteSet(Parts(x, m))
    <3>1. m <= Len(body.lines)
      BY BodyIs
    <3> QED BY <3>1, SaidSoFar
  <2> QED BY <2>1
<1>7. Call(x, m) = [id |-> LastId(P), name |-> LastName(P), args |-> AllArgs(P)]
  BY <1>6, CallIs, Zenon
<1>8. Call(x, m + 1) = new
  <2>1. CASE Restarts(m + 1)
    <3>1. /\ LastId({} \cup {m + 1}) = Or(part.id, LastId({}))
          /\ LastName({} \cup {m + 1}) = Or(part.name, LastName({}))
      <4>1. {} \in SUBSET Nat /\ m + 1 \in Nat /\ \A p \in {} : p < m + 1
        OBVIOUS
      <4> QED BY <4>1, LastGrows
    <3>2. AllArgs({} \cup {m + 1}) = AllArgs({})
      <4>1. {} \in SUBSET Nat /\ m + 1 \in Nat /\ IsFiniteSet({}) /\ \A p \in {} : p < m + 1
        BY FS_EmptySet
      <4> QED BY <2>1, <4>1, ArgsGrow
    <3>3. PICK Q : Q = {m + 1} /\ Q = {} \cup {m + 1} /\ Q = Parts(x, m + 1)
      BY <1>5, <2>1
    <3>4. Call(x, m + 1) = [id |-> LastId(Q), name |-> LastName(Q), args |-> AllArgs(Q)]
      BY <3>3, CallIs, Zenon
    <3>5. LastId(Q) = Or(part.id, "") /\ LastName(Q) = Or(part.name, "") /\ AllArgs(Q) = <<>>
      BY <3>1, <3>2, <3>3, NothingSaid, Zenon
    <3>6. Or(part.id, "") = part.id
      BY <2>1 DEF Or, Restarts
    <3>7. Call(x, m + 1) = [id |-> part.id, name |-> Or(part.name, ""), args |-> <<>>]
      BY <3>4, <3>5, <3>6, Zenon
    <3> QED BY <2>1, <3>7
  <2>2. CASE ~Restarts(m + 1)
    <3>1. /\ LastId(P \cup {m + 1}) = Or(part.id, LastId(P))
          /\ LastName(P \cup {m + 1}) = Or(part.name, LastName(P))
      <4>1. m + 1 \in Nat
        OBVIOUS
      <4> QED BY <1>6, <4>1, LastGrows
    <3>2. AllArgs(P \cup {m + 1}) = More(AllArgs(P), part.args)
      <4>1. m + 1 \in Nat
        OBVIOUS
      <4> QED BY <1>6, <2>2, <4>1, ArgsGrow
    <3>3. PICK Q : Q = P \cup {m + 1} /\ Q = Parts(x, m + 1)
      BY <1>5, <1>6, <2>2
    <3>4. Call(x, m + 1) = [id |-> LastId(Q), name |-> LastName(Q), args |-> AllArgs(Q)]
      BY <3>3, CallIs, Zenon
    <3>5. /\ LastId(Q) = Or(part.id, LastId(P)) /\ LastName(Q) = Or(part.name, LastName(P))
          /\ AllArgs(Q) = More(AllArgs(P), part.args)
      BY <3>1, <3>2, <3>3, Zenon
    <3>6. /\ Call(x, m).id = LastId(P) /\ Call(x, m).name = LastName(P)
          /\ Call(x, m).args = AllArgs(P)
      BY <1>7
    <3>7. Call(x, m + 1) = [id |-> Or(part.id, Call(x, m).id),
                            name |-> Or(part.name, Call(x, m).name),
                            args |-> More(Call(x, m).args, part.args)]
      BY <3>4, <3>5, <3>6, Zenon
    <3>8. new = [id |-> Or(part.id, Call(x, m).id),
                 name |-> Or(part.name, Call(x, m).name),
                 args |-> More(Call(x, m).args, part.args)]
      <4> HIDE DEF part
      <4> QED BY <1>1, <2>2
    <3> QED BY <3>7, <3>8, Zenon
  <2> QED BY <2>1, <2>2
<1>9. ASSUME NEW y \in CallIndices(m + 1), y # x
      PROVE  y \in CallIndices(m) /\ Call(y, m + 1) = Call(y, m)
  <2>1. PICK R : R = Parts(y, m) /\ R = Parts(y, m + 1)
    BY <1>5, <1>9
  <2>2. Call(y, m) = [id |-> LastId(R), name |-> LastName(R), args |-> AllArgs(R)]
    BY <2>1, CallIs, Zenon
  <2>3. Call(y, m + 1) = [id |-> LastId(R), name |-> LastName(R), args |-> AllArgs(R)]
    BY <2>1, CallIs, Zenon
  <2>4. y \in CallIndices(m)
    BY <1>5, <1>9
  <2> QED BY <2>2, <2>3, <2>4
<1> HIDE DEF acc, new, part
<1>10. With(acc, x, new) = [k \in CallIndices(m + 1) |-> IF k = x THEN new ELSE acc[k]]
  BY <1>4, <1>5 DEF With
<1>11. \A k \in CallIndices(m + 1) : (IF k = x THEN new ELSE acc[k]) = Call(k, m + 1)
  <2> TAKE k \in CallIndices(m + 1)
  <2>1. CASE k = x
    BY <1>8, <2>1
  <2>2. CASE k # x
    BY <1>4, <1>9, <2>2
  <2> QED BY <2>1, <2>2
<1>12. With(acc, x, new) = [k \in CallIndices(m + 1) |-> Call(k, m + 1)]
  BY <1>10, <1>11
<1>13. Gather(acc, part) = [k \in CallIndices(m + 1) |-> Call(k, m + 1)]
  BY <1>3, <1>12, Zenon
<1> QED BY <1>13 DEF acc, part

\* The texts are those of the lines so far, in order; only those that a chunk
\* may cut in two are damaged.
TextsAre(texts, m) ==
  /\ texts \in Seq([line : Nat, damaged : BOOLEAN])
  /\ Len(texts) = Cardinality(TextLines(m))
  /\ \A k \in 1 .. Len(texts) :
       /\ texts[k].line = Ascending(TextLines(m))[k]
       /\ texts[k].damaged => Blurred(texts[k].line)

CallsAre(acc, m) == acc = [index \in CallIndices(m) |-> Call(index, m)]

Repaired(texts) == [k \in DOMAIN texts |-> [line |-> texts[k].line, damaged |-> FALSE]]

LEMMA TextAdds ==
  ASSUME body \in Bodies, NEW m \in Nat, m < Len(body.lines), Endless(m),
         NEW texts, TextsAre(texts, m), NEW damaged \in BOOLEAN, damaged => Blurred(m + 1),
         body.lines[m + 1].type = "text"
  PROVE  TextsAre(Append(texts, [line |-> m + 1, damaged |-> damaged]), m + 1)
<1>1. PICK S : /\ S = TextLines(m) /\ S \in SUBSET Nat /\ IsFiniteSet(S)
               /\ \A s \in S : s < m + 1
  <2>1. m <= Len(body.lines)
    BY BodyIs
  <2>2. TextLines(m) \in SUBSET (1 .. m) /\ IsFiniteSet(TextLines(m))
    BY <2>1, SaidSoFar
  <2> QED BY <2>2
<1>2. TextLines(m + 1) = S \cup {m + 1}
  BY <1>1, TextLinesGrow
<1>3. PICK n \in Nat : n = Cardinality(S) /\ Cardinality(S \cup {m + 1}) = n + 1
  <2>1. m + 1 \notin S
    BY <1>1
  <2>2. Cardinality(S) \in Nat
    BY <1>1, FS_CardinalityType
  <2>3. Cardinality(S \cup {m + 1}) = Cardinality(S) + 1
    BY <1>1, <2>1, FS_AddElement
  <2> QED BY <2>2, <2>3
<1>4. PICK a : a = Ascending(S) /\ a \in [1 .. n -> S]
  BY <1>1, <1>3, AscendingIs
<1>5. PICK b : b = Ascending(TextLines(m + 1)) /\ LongerBy(b, a, m + 1, n)
  <2>1. Ascending(S \cup {m + 1}) = Append(Ascending(S), m + 1)
    BY <1>1, AscendingFurther
  <2>2. LongerBy(Append(a, m + 1), a, m + 1, n)
    BY <1>4, AppendIs
  <2> QED BY <1>2, <1>4, <2>1, <2>2, Zenon
<1> DEFINE T == [line : Nat, damaged : BOOLEAN]
           e == [line |-> m + 1, damaged |-> damaged]
<1>6. texts \in [1 .. n -> T] /\ texts \in Seq(T) /\ Len(texts) = n
  <2>1. texts \in Seq(T) /\ Len(texts) = n
    BY <1>1, <1>3, Zenon DEF TextsAre
  <2> HIDE DEF T
  <2> QED BY <2>1
<1>7. e \in T
  OBVIOUS
<1>8. PICK c : c = Append(texts, e) /\ LongerBy(c, texts, e, n)
  <2> HIDE DEF T, e
  <2> QED BY <1>6, AppendIs
<1>9. c \in [1 .. n + 1 -> T]
  <2>1. \A k \in 1 .. n + 1 : k = n + 1 \/ k \in 1 .. n
    OBVIOUS
  <2>2. c = [k \in 1 .. n + 1 |-> c[k]] /\ c[n + 1] = e /\ \A k \in 1 .. n : c[k] = texts[k]
    BY <1>8 DEF LongerBy
  <2> HIDE DEF T, e
  <2>3. \A k \in 1 .. n + 1 : c[k] \in T
    BY <1>6, <1>7, <2>1, <2>2
  <2> QED BY <2>2, <2>3
<1>10. c \in Seq(T) /\ Len(c) = n + 1
  <2> HIDE DEF T
  <2> QED BY <1>9
<1>11. ASSUME NEW k \in 1 .. n + 1
       PROVE  c[k].line = b[k] /\ (c[k].damaged => Blurred(c[k].line))
  <2>1. CASE k = n + 1
    <3>1. c[k] = e /\ b[k] = m + 1
      BY <1>5, <1>8, <2>1 DEF LongerBy
    <3> QED BY <3>1
  <2>2. CASE k \in 1 .. n
    <3>1. c[k] = texts[k] /\ b[k] = a[k]
      BY <1>5, <1>8, <2>2 DEF LongerBy
    <3>2. texts[k].line = a[k] /\ (texts[k].damaged => Blurred(texts[k].line))
      BY <1>1, <1>4, <1>6, <2>2 DEF TextsAre
    <3> QED BY <3>1, <3>2
  <2>3. k = n + 1 \/ k \in 1 .. n
    OBVIOUS
  <2> QED BY <2>1, <2>2, <2>3
<1>12. Cardinality(TextLines(m + 1)) = n + 1
  BY <1>2, <1>3
<1>13. TextsAre(c, m + 1)
  BY <1>5, <1>10, <1>11, <1>12 DEF TextsAre
<1> QED BY <1>8, <1>13, Zenon

LEMMA NoTextAdds ==
  ASSUME NEW m \in Nat, Endless(m), NEW texts, TextsAre(texts, m),
         body.lines[m + 1].type # "text"
  PROVE  TextsAre(texts, m + 1)
<1>1. TextLines(m + 1) = TextLines(m)
  BY TextLinesGrow
<1> QED BY <1>1 DEF TextsAre

\* What is sent for such texts and calls is what the lines say at once.
LEMMA FinalIs ==
  ASSUME body \in Bodies, NEW m \in Nat, m <= Len(body.lines), NEW texts, TextsAre(texts, m),
         NEW acc, CallsAre(acc, m)
  PROVE  FinalizeStream(Repaired(texts), acc) = Reference(m)
<1>1. /\ TextLines(m) \in SUBSET Nat /\ IsFiniteSet(TextLines(m))
      /\ CallIndices(m) \in SUBSET Nat /\ IsFiniteSet(CallIndices(m))
  <2>1. TextLines(m) \in SUBSET (1 .. m)
    BY SaidSoFar
  <2> QED BY <2>1, SaidSoFar
<1>2. PICK n \in Nat, g \in {Ascending(TextLines(m))} : n = Cardinality(TextLines(m)) /\ g = Ascending(TextLines(m))
                          /\ g \in [1 .. n -> TextLines(m)]
  <2>1. Cardinality(TextLines(m)) \in Nat
    BY <1>1, FS_CardinalityType
  <2>2. Ascending(TextLines(m)) \in [1 .. Cardinality(TextLines(m)) -> TextLines(m)]
    BY <1>1, <2>1, AscendingIs
  <2> QED BY <2>1, <2>2
<1>3. DOMAIN texts = 1 .. n /\ \A k \in 1 .. n : texts[k].line = g[k]
  BY <1>2 DEF TextsAre
<1>4. Repaired(texts) = [k \in DOMAIN g |-> [line |-> g[k], damaged |-> FALSE]]
  BY <1>2, <1>3 DEF Repaired
<1>5. PICK o : o = Ascending(CallIndices(m)) /\ \A k \in DOMAIN o : o[k] \in CallIndices(m)
  <2>1. PICK l \in Nat : l = Cardinality(CallIndices(m))
    BY <1>1, FS_CardinalityType
  <2>2. Ascending(CallIndices(m)) \in [1 .. l -> CallIndices(m)]
    BY <1>1, <2>1, AscendingIs
  <2> QED BY <2>2
<1>6. SortedKeys(acc) = o /\ \A k \in DOMAIN o : acc[o[k]] = Call(o[k], m)
  <2>1. DOMAIN acc = CallIndices(m) /\ \A x \in CallIndices(m) : acc[x] = Call(x, m)
    BY DEF CallsAre
  <2> QED BY <1>5, <2>1 DEF SortedKeys
<1>7. [k \in DOMAIN o |-> [acc[o[k]] EXCEPT !.args = Parsed(@)]] =
      [k \in DOMAIN o |-> [Call(o[k], m) EXCEPT !.args = Parsed(@)]]
  BY <1>6
<1>8. FinalizeStream(Repaired(texts), acc) =
        [text |-> Repaired(texts),
         calls |-> [k \in DOMAIN o |-> [acc[o[k]] EXCEPT !.args = Parsed(@)]]]
  BY <1>6 DEF FinalizeStream
<1>9. Reference(m) =
        [text |-> [k \in DOMAIN g |-> [line |-> g[k], damaged |-> FALSE]],
         calls |-> [k \in DOMAIN o |-> [Call(o[k], m) EXCEPT !.args = Parsed(@)]]]
  BY <1>2, <1>5 DEF Reference
<1> QED BY <1>4, <1>7, <1>8, <1>9

\* Texts that no chunk can cut need no repair.
LEMMA NothingDamaged ==
  ASSUME NEW m, NEW texts, TextsAre(texts, m),
         \A k \in DOMAIN texts : ~Blurred(texts[k].line)
  PROVE  Repaired(texts) = texts
<1>1. PICK n \in Nat : n = Len(texts) /\ DOMAIN texts = 1 .. n /\ texts = [k \in 1 .. n |-> texts[k]]
  BY DEF TextsAre
<1>2. \A k \in 1 .. n : texts[k] \in [line : Nat, damaged : BOOLEAN] /\ ~texts[k].damaged
  <2> DEFINE T == [line : Nat, damaged : BOOLEAN]
  <2>1. texts \in Seq(T) /\ \A k \in 1 .. n : texts[k].damaged => Blurred(texts[k].line)
    BY <1>1 DEF TextsAre
  <2>2. \A k \in 1 .. n : texts[k] \in T
    <3> HIDE DEF T
    <3> QED BY <1>1, <2>1
  <2> QED BY <1>1, <2>1, <2>2
<1>3. \A k \in 1 .. n : texts[k] = [line |-> texts[k].line, damaged |-> FALSE]
  <2> TAKE k \in 1 .. n
  <2>1. texts[k] \in [line : Nat, damaged : BOOLEAN] /\ ~texts[k].damaged
    BY <1>2
  <2>2. texts[k].damaged = FALSE
    BY <2>1
  <2> QED BY <2>1, <2>2
<1> QED BY <1>1, <1>3 DEF Repaired

\* A chunk decoded shows its bytes, wide characters perhaps excepted.
LEMMA DecodeIs ==
  ASSUME body \in Bodies, NEW off, LaidOut(off), NEW r \in Nat, NEW size \in Nat, r + size <= Len(Bytes)
  PROVE  LET D == Decode(SubSeq(Bytes, r + 1, r + size))
         IN  /\ D \in Seq(Shown) /\ Len(D) = size
             /\ \A j \in 1 .. size : Same(D[j], Bytes[r + j])
<1>1. PICK n \in Nat : n = Len(body.lines) /\ DOMAIN body.lines = 1 .. n
  BY BodyIs
<1>2. PICK all : all = Bytes /\ LayOut(all, body.lines, off, n)
  BY <1>1 DEF LaidOut
<1>3. all \in Seq(Shown) /\ Len(all) = off[n] /\ off[n] \in Nat
  BY <1>2 DEF LayOut
<1>4. PICK c : c = SubSeq(all, r + 1, r + size)
  OBVIOUS
<1>5. c = [j \in 1 .. size |-> all[r + j]] /\ \A j \in 1 .. size : r + j \in 1 .. Len(all)
  <2>1. r + size <= Len(all)
    BY <1>2
  <2> QED BY <1>3, <1>4, <2>1
<1>6. c \in [1 .. size -> Shown] /\ DOMAIN c = 1 .. size /\ \A j \in 1 .. size : c[j] = all[r + j]
  <2>1. \A i \in 1 .. Len(all) : all[i] \in Shown
    BY <1>3
  <2> QED BY <1>5, <2>1
<1> HIDE <1>4
<1>7. \A j \in 1 .. size : c[j].line \in Nat /\ (c[j].kind \in {"lead", "trail"} => body.lines[c[j].line].wide)
  <2> TAKE j \in 1 .. size
  <2>1. c[j] = all[r + j] /\ r + j \in 1 .. off[n]
    BY <1>3, <1>5, <1>6
  <2>2. PICK i \in 1 .. n, k \in Nat : k = r + j /\ off[i-1] < k /\ k <= off[i]
    BY <1>2, <2>1 DEF LayOut
  <2>3. all[k].line = i /\ (~body.lines[i].wide => all[k].kind \notin {"lead", "trail"})
    BY <1>2, <2>2, ByteOf, SMTT(30)
  <2> QED BY <2>1, <2>2, <2>3
<1>8. CASE body.reader = "openai"
  <2>1. PICK D : D = Lossy(c)
    OBVIOUS
  <2>2. Len(c) = size
    BY <1>6
  <2>3. D = [j \in 1 .. size |->
               IF (c[j].kind = "lead" /\ j = size) \/ (c[j].kind = "trail" /\ j = 1)
                 THEN Byte(c[j].line, "replacement") ELSE c[j]]
    BY <1>6, <2>1, <2>2 DEF Lossy
  <2>4. \A j \in 1 .. size : D[j] \in Shown /\ Same(D[j], c[j])
    <3> TAKE j \in 1 .. size
    <3>1. Byte(c[j].line, "replacement") \in Shown /\ c[j] \in Shown
      BY <1>6, <1>7 DEF Byte, Shown
    <3>2. CASE (c[j].kind = "lead" /\ j = size) \/ (c[j].kind = "trail" /\ j = 1)
      <4>1. D[j] = Byte(c[j].line, "replacement") /\ c[j].kind \in {"lead", "trail"}
        BY <2>3, <3>2
      <4>2. Blurred(c[j].line)
        BY <1>7, <1>8, <4>1 DEF Blurred
      <4> QED BY <3>1, <4>1, <4>2 DEF Same
    <3>3. CASE ~((c[j].kind = "lead" /\ j = size) \/ (c[j].kind = "trail" /\ j = 1))
      <4>1. D[j] = c[j]
        BY <2>3, <3>3
      <4> QED BY <3>1, <4>1 DEF Same
    <3> QED BY <3>2, <3>3
  <2>5. D \in Seq(Shown) /\ Len(D) = size
    <3>1. D \in [1 .. size -> Shown]
      BY <2>3, <2>4
    <3> QED BY <3>1
  <2>6. Decode(c) = D
    BY <1>8, <2>1 DEF Decode
  <2> QED BY <1>2, <1>4, <1>6, <2>4, <2>5, <2>6
<1>9. CASE body.reader # "openai"
  <2>1. Decode(c) = c
    BY <1>9 DEF Decode
  <2>2. c \in Seq(Shown) /\ Len(c) = size
    BY <1>6
  <2>3. \A j \in 1 .. size : Same(c[j], all[r + j])
    BY <1>6 DEF Same
  <2> QED BY <1>2, <1>4, <2>1, <2>2, <2>3
<1> QED BY <1>8, <1>9

-----------------------------------------------------------------------------
(* What a reader has read, at every moment.                                  *)
ReadTo ==
  /\ reading \in {"open", "done", "cut", "overflow"}
  /\ decoded \in 0 .. Len(body.lines)
  /\ reading # "done" => Endless(decoded)
  /\ reading = "done" => \E m \in 0 .. Len(body.lines) - 1 :
       decoded = m + 1 /\ Endless(m) /\ body.lines[m + 1].type = "end"

Answered == response # Missing => reading # "open" /\ response = FinalizeStream(fullText, calls)

ReadInv ==
  /\ body \in Bodies /\ ReadTo /\ Answered
  /\ \A off : LaidOut(off) => BufferFits(off)
  /\ TextsAre(fullText, decoded) /\ CallsAre(calls, decoded)

\* While a body is read it stays, and with it all that is said of its lines.
LEMMA BodyStays ==
  ASSUME body' = body
  PROVE  /\ Bytes' = Bytes
         /\ \A off : LaidOut(off)' <=> LaidOut(off)
         /\ \A m : Endless(m)' <=> Endless(m)
         /\ \A s, b : Same(s, b)' <=> Same(s, b)
         /\ \A t, m : TextsAre(t, m)' <=> TextsAre(t, m)
         /\ \A a, m : CallsAre(a, m)' <=> CallsAre(a, m)
<1>1. Bytes' = Bytes
  BY DEF Bytes
<1>2. \A off : LaidOut(off)' <=> LaidOut(off)
  BY <1>1 DEF LaidOut
<1>3. \A m : Endless(m)' <=> Endless(m)
  BY DEF Endless
<1>4. \A i : Blurred(i)' <=> Blurred(i)
  BY DEF Blurred
<1>5. \A s, b : Same(s, b)' <=> Same(s, b)
  BY <1>4 DEF Same
<1>6. \A m : BeforeEnd(m)' = BeforeEnd(m)
  BY DEF BeforeEnd
<1>7. \A m : TextLines(m)' = TextLines(m)
  BY <1>6 DEF TextLines
<1>8. \A t, m : TextsAre(t, m)' <=> TextsAre(t, m)
  BY <1>4, <1>7 DEF TextsAre
<1>9. \A m : CallIndices(m)' = CallIndices(m)
  BY <1>6 DEF CallIndices
<1>10. \A i : Restarts(i)' <=> Restarts(i)
  BY DEF Restarts
<1>11. \A x, m : Parts(x, m)' = Parts(x, m)
  BY <1>6, <1>10 DEF Parts
<1>12. ASSUME NEW x, NEW m PROVE Call(x, m)' = Call(x, m)
  BY <1>10, <1>11 DEF Call
<1>13. \A a, m : CallsAre(a, m)' <=> CallsAre(a, m)
  BY <1>9, <1>12 DEF CallsAre
<1> QED BY <1>1, <1>2, <1>3, <1>5, <1>8, <1>13

\* ReadLine, in terms of the body: it reads the next line.
LEMMA ReadLineIs ==
  ASSUME ReadInv, ReadLine
  PROVE  \E m \in 0 .. Len(body.lines) - 1 : \E damaged \in BOOLEAN :
           /\ m = decoded /\ decoded' = m + 1 /\ reading = "open" /\ Endless(m)
           /\ damaged => Blurred(m + 1)
           /\ fullText' = IF body.lines[m + 1].type = "text"
                            THEN Append(fullText, [line |-> m + 1, damaged |-> damaged])
                            ELSE fullText
           /\ calls' = IF body.lines[m + 1].type = "part"
                         THEN Gather(calls, body.lines[m + 1]) ELSE calls
           /\ reading' = IF body.lines[m + 1].type = "end" THEN "done" ELSE "open"
           /\ \A off : LaidOut(off) => \E end \in 1 .. Len(buffer) :
                off[m + 1] = off[m] + end /\ buffer' = SubSeq(buffer, end + 1, Len(buffer))
<1>1. PICK n \in Nat : n = Len(body.lines) /\ DOMAIN body.lines = 1 .. n
  BY BodyIs DEF ReadInv
<1>2. reading = "open" /\ Endless(decoded) /\ decoded \in 0 .. n /\ Ends(buffer) # {}
  BY <1>1 DEF ReadInv, ReadTo, ReadLine
<1>3. PICK off0 : LaidOut(off0) /\ BufferFits(off0)
  BY BodyLaidOut DEF ReadInv
<1>4. PICK end \in 1 .. Len(buffer) :
        /\ end = Min(Ends(buffer)) /\ decoded < n
        /\ buffer[end].line = decoded + 1 /\ buffer[1] = Byte(decoded + 1, "text")
        /\ ~Blurred(decoded + 1) =>
             \A k \in 1 .. end : buffer[k] # Byte(decoded + 1, "replacement")
  BY <1>1, <1>2, <1>3, LineTaken DEF ReadInv
<1>5. PICK m \in 0 .. n - 1 : m = decoded /\ m + 1 \in 1 .. n
  BY <1>2, <1>4
<1>6. PICK taken : taken = SubSeq(buffer, 1, end)
  OBVIOUS
<1>7. buffer \in Seq(Shown) /\ Len(buffer) \in Nat /\ end <= Len(buffer) /\ end \in Nat /\ end >= 1
  BY <1>3 DEF BufferFits
<1>8. DOMAIN taken = 1 .. end /\ \A k \in 1 .. end : taken[k] = buffer[k]
  BY <1>6, <1>7
<1>9. taken[end].line = m + 1 /\ taken[1] = Byte(m + 1, "text")
  BY <1>4, <1>5, <1>7, <1>8
<1>10. PICK damaged \in BOOLEAN : damaged = (Byte(m + 1, "replacement") \in Range(taken))
  <2>1. (Byte(m + 1, "replacement") \in Range(taken)) \in BOOLEAN
    OBVIOUS
  <2> QED BY <2>1, Zenon
<1>11. damaged => Blurred(m + 1)
  BY <1>4, <1>5, <1>8, <1>10 DEF Range
<1>12. PICK t : t = body.lines[m + 1].type
  OBVIOUS
<1>13. /\ buffer' = SubSeq(buffer, end + 1, Len(buffer)) /\ decoded' = m + 1
       /\ fullText' = IF t = "text"
                        THEN Append(fullText, [line |-> m + 1, damaged |-> damaged])
                        ELSE fullText
       /\ calls' = IF t = "part" THEN Gather(calls, body.lines[m + 1]) ELSE calls
       /\ reading' = IF t = "end" THEN "done" ELSE "open"
  <2>1. end = Min(Ends(buffer))
    BY <1>4
  <2>2. t = IF taken[1] = Byte(m + 1, "text") THEN body.lines[m + 1].type ELSE "noise"
    BY <1>9, <1>12
  <2>3. taken[end].line = m + 1 /\ m = decoded
    BY <1>5, <1>9
  <2> HIDE <1>12
  <2> QED BY <1>6, <1>10, <2>1, <2>2, <2>3 DEF ReadLine
<1>14. ASSUME NEW off, LaidOut(off) PROVE off[m + 1] = off[m] + end
  <2>1. BufferFits(off)
    BY <1>14 DEF ReadInv
  <2>2. \E e \in 1 .. Len(buffer) : e = Min(Ends(buffer)) /\ off[decoded + 1] = off[decoded] + e
    BY <1>2, <1>14, <2>1, LineTaken DEF ReadInv
  <2> QED BY <1>4, <1>5, <2>2
<1> QED BY <1>1, <1>2, <1>5, <1>11, <1>12, <1>13, <1>14

LEMMA ReadBegins == SseInit => ReadInv
<1> SUFFICES ASSUME SseInit PROVE ReadInv
  OBVIOUS
<1>1. body \in Bodies /\ Len(body.lines) \in Nat
  BY BodyIs DEF SseInit
<1>2. /\ received = 0 /\ buffer = <<>> /\ fullText = <<>> /\ calls = <<>>
      /\ reading = "open" /\ response = Missing /\ decoded = 0
  BY DEF SseInit
<1>3. ReadTo /\ Answered
  BY <1>1, <1>2 DEF ReadTo, Answered, Endless
<1>4. ASSUME NEW off, LaidOut(off) PROVE BufferFits(off)
  <2>1. off[0] = 0 /\ Bytes \in Seq(Shown)
    BY <1>4 DEF LaidOut, LayOut
  <2>2. Len(Bytes) \in Nat
    BY <2>1
  <2> QED BY <1>1, <1>2, <2>1, <2>2 DEF BufferFits
<1>5. BeforeEnd(0) = {}
  BY DEF BeforeEnd
<1>6. TextsAre(fullText, decoded)
  <2>1. TextLines(0) = {}
    BY <1>5 DEF TextLines
  <2>2. Cardinality(TextLines(0)) = 0
    BY <2>1, FS_EmptySet
  <2> QED BY <1>2, <2>2 DEF TextsAre
<1>7. CallsAre(calls, decoded)
  <2>1. CallIndices(0) = {}
    BY <1>5 DEF CallIndices
  <2> QED BY <1>2, <2>1 DEF CallsAre
<1> QED BY <1>1, <1>3, <1>4, <1>6, <1>7 DEF ReadInv

LEMMA ReceiveKeeps ==
  ASSUME ReadInv, NEW size \in 1 .. Len(Bytes), ReceiveChunk(size)
  PROVE  ReadInv'
<1>1. /\ body' = body /\ fullText' = fullText /\ calls' = calls /\ response' = response
      /\ decoded' = decoded /\ reading = "open" /\ reading' \in {"open", "overflow"}
      /\ received' = received + size /\ received + size <= Len(Bytes)
      /\ buffer' = buffer \o Decode(SubSeq(Bytes, received + 1, received + size))
  BY DEF ReceiveChunk
<1>2. body \in Bodies /\ ReadTo /\ Answered /\ TextsAre(fullText, decoded) /\ CallsAre(calls, decoded)
  BY DEF ReadInv
<1>3. ReadTo'
  BY <1>1, <1>2, BodyStays DEF ReadTo
<1>4. Answered'
  BY <1>1, <1>2 DEF Answered
<1>5. TextsAre(fullText, decoded)' /\ CallsAre(calls, decoded)'
  <2>1. TextsAre(fullText, decoded)' <=> TextsAre(fullText, decoded)
    BY <1>1, BodyStays
  <2>2. CallsAre(calls, decoded)' <=> CallsAre(calls, decoded)
    BY <1>1, BodyStays
  <2> QED BY <1>2, <2>1, <2>2
<1>6. ASSUME NEW off, LaidOut(off) PROVE BufferFits(off)'
  <2>1. BufferFits(off)
    BY <1>6 DEF ReadInv
  <2>2. PICK o \in Nat, r \in Nat, l \in Nat, all \in {Bytes} :
          o = off[decoded] /\ r = received /\ l = Len(buffer) /\ l = r - o /\ o <= r
    <3>1. Len(body.lines) \in Nat /\ decoded \in 0 .. Len(body.lines)
      BY <1>2, BodyIs DEF ReadTo
    <3>2. off[decoded] \in Nat
      BY <1>6, <3>1 DEF LaidOut, LayOut
    <3> QED BY <2>1, <3>2 DEF BufferFits
  <2>3. PICK D : D = Decode(SubSeq(all, r + 1, r + size))
    OBVIOUS
  <2>4. D \in Seq(Shown) /\ Len(D) = size /\ \A j \in 1 .. size : Same(D[j], all[r + j])
    <3>1. r + size <= Len(Bytes) /\ size \in Nat
      BY <1>1, <2>2
    <3>2. LET C == Decode(SubSeq(Bytes, r + 1, r + size))
          IN  /\ C \in Seq(Shown) /\ Len(C) = size
              /\ \A j \in 1 .. size : Same(C[j], Bytes[r + j])
      BY <1>2, <1>6, <3>1, DecodeIs
    <3> QED BY <2>2, <2>3, <3>2, Zenon
  <2>5. buffer \in Seq(Shown) /\ \A k \in 1 .. l : Same(buffer[k], all[o + k])
    BY <2>1, <2>2 DEF BufferFits
  <2>6. PICK b : b = buffer \o D
    OBVIOUS
  <2>7. /\ b \in Seq(Shown) /\ Len(b) = Len(buffer) + Len(D)
        /\ \A k \in 1 .. Len(buffer) : b[k] = buffer[k]
        /\ \A k \in 1 .. Len(D) : b[Len(buffer) + k] = D[k]
    <3>1. \A x, y \in Seq(Shown) :
            /\ x \o y \in Seq(Shown) /\ Len(x \o y) = Len(x) + Len(y)
            /\ \A k \in 1 .. Len(x) : (x \o y)[k] = x[k]
            /\ \A k \in 1 .. Len(y) : (x \o y)[Len(x) + k] = y[k]
      BY ConcatsAre
    <3> QED BY <2>4, <2>5, <2>6, <3>1, Zenon
  <2>8. Len(b) = l + size /\ l + size = (r + size) - o /\ size \in Nat
    <3>1. Len(b) = l + size /\ l = r - o
      BY <2>2, <2>4, <2>7
    <3>2. size \in Nat
      OBVIOUS
    <3>3. \A x, y, z, w \in Nat : x = y - z => x + w = (y + w) - z
      OBVIOUS
    <3> QED BY <3>1, <3>2, <3>3
  <2>9. ASSUME NEW k \in 1 .. l + size PROVE Same(b[k], all[o + k])
    <3>1. CASE k <= l
      BY <2>2, <2>5, <2>7, <3>1
    <3>2. CASE ~(k <= l)
      <4>1. k - l \in 1 .. size /\ l + (k - l) = k /\ r + (k - l) = o + k
        <5>1. \A x, y, z, w \in Nat : \A q \in 1 .. x + w : x = y - z /\ ~(q <= x) =>
                q - x \in 1 .. w /\ x + (q - x) = q /\ y + (q - x) = z + q
          OBVIOUS
        <5>2. l = r - o
          BY <2>2
        <5> QED BY <2>8, <3>2, <5>1, <5>2
      <4>2. b[l + (k - l)] = D[k - l]
        BY <2>2, <2>4, <2>7, <4>1
      <4> QED BY <2>4, <4>1, <4>2
    <3> QED BY <3>1, <3>2
  <2>10. \A k \in 1 .. l + size : Same(b[k], all[o + k])'
    BY <1>1, <2>9, BodyStays
  <2>11. b = buffer' /\ all = Bytes' /\ received' = r + size /\ o = off[decoded']
    BY <1>1, <2>2, <2>3, <2>6, BodyStays
  <2>12. decoded' \in 0 .. Len(body'.lines) /\ r + size \in Nat /\ o <= r + size /\ r + size <= Len(all)
    BY <1>1, <1>2, <2>1, <2>2 DEF BufferFits
  <2> QED BY <2>7, <2>8, <2>10, <2>11, <2>12 DEF BufferFits
<1>7. (\A off : LaidOut(off) => BufferFits(off))'
  BY <1>1, <1>6, BodyStays
<1> QED BY <1>1, <1>2, <1>3, <1>4, <1>5, <1>7 DEF ReadInv

LEMMA ReadLineKeeps ==
  ASSUME ReadInv, ReadLine
  PROVE  ReadInv'
<1>1. body \in Bodies /\ ReadTo /\ Answered /\ TextsAre(fullText, decoded) /\ CallsAre(calls, decoded)
  BY DEF ReadInv
<1>2. body' = body /\ received' = received /\ response' = response
  BY DEF ReadLine
<1>3. PICK n \in Nat : n = Len(body.lines) /\ n = Len(body'.lines)
  BY <1>1, <1>2, BodyIs
<1>4. PICK m \in 0 .. n - 1 : \E damaged \in BOOLEAN :
        /\ m = decoded /\ decoded' = m + 1 /\ reading = "open" /\ Endless(m)
        /\ damaged => Blurred(m + 1)
        /\ fullText' = IF body.lines[m + 1].type = "text"
                         THEN Append(fullText, [line |-> m + 1, damaged |-> damaged])
                         ELSE fullText
        /\ calls' = IF body.lines[m + 1].type = "part"
                      THEN Gather(calls, body.lines[m + 1]) ELSE calls
        /\ reading' = IF body.lines[m + 1].type = "end" THEN "done" ELSE "open"
        /\ \A off : LaidOut(off) => \E end \in 1 .. Len(buffer) :
             off[m + 1] = off[m] + end /\ buffer' = SubSeq(buffer, end + 1, Len(buffer))
  BY <1>3, ReadLineIs
<1>5. PICK damaged \in BOOLEAN :
        /\ m = decoded /\ decoded' = m + 1 /\ reading = "open" /\ Endless(m)
        /\ damaged => Blurred(m + 1)
        /\ fullText' = IF body.lines[m + 1].type = "text"
                         THEN Append(fullText, [line |-> m + 1, damaged |-> damaged])
                         ELSE fullText
        /\ calls' = IF body.lines[m + 1].type = "part"
                      THEN Gather(calls, body.lines[m + 1]) ELSE calls
        /\ reading' = IF body.lines[m + 1].type = "end" THEN "done" ELSE "open"
  BY <1>4
<1>6. m \in Nat /\ m < Len(body.lines) /\ m + 1 \in 0 .. n /\ m + 1 \in Nat
  BY <1>3
<1>7. ReadTo'
  <2>1. CASE body.lines[m + 1].type = "end"
    <3>1. reading' = "done" /\ decoded' = m + 1 /\ Endless(m)' /\ body'.lines[m + 1].type = "end"
      BY <1>2, <1>5, <2>1, BodyStays
    <3> QED BY <1>3, <1>6, <3>1 DEF ReadTo
  <2>2. CASE body.lines[m + 1].type # "end"
    <3>1. Endless(m + 1)
      <4>1. \A e \in 1 .. m + 1 : e \in 1 .. m \/ e = m + 1
        OBVIOUS
      <4> QED BY <1>5, <2>2, <4>1 DEF Endless
    <3>2. reading' = "open" /\ decoded' = m + 1 /\ Endless(m + 1)'
      BY <1>2, <1>5, <2>2, <3>1, BodyStays
    <3>3. Endless(decoded)'
      BY <1>2, <3>2, <3>1, <1>5 DEF Endless
    <3> QED BY <1>3, <1>6, <3>2, <3>3 DEF ReadTo
  <2> QED BY <2>1, <2>2
<1>8. Answered'
  BY <1>1, <1>2, <1>5 DEF Answered
<1>9. TextsAre(fullText, decoded)'
  <2>1. PICK t : t = fullText' /\ TextsAre(t, m + 1)
    <3>1. CASE body.lines[m + 1].type = "text"
      <4>1. TextsAre(fullText, m)
        BY <1>1, <1>5
      <4>2. TextsAre(Append(fullText, [line |-> m + 1, damaged |-> damaged]), m + 1)
        BY <1>1, <1>5, <1>6, <3>1, <4>1, TextAdds
      <4> QED BY <1>5, <3>1, <4>2, Zenon
    <3>2. CASE body.lines[m + 1].type # "text"
      <4>1. TextsAre(fullText, m)
        BY <1>1, <1>5
      <4>2. TextsAre(fullText, m + 1)
        BY <1>5, <1>6, <3>2, <4>1, NoTextAdds
      <4> QED BY <1>5, <3>2, <4>2, Zenon
    <3> QED BY <3>1, <3>2
  <2>2. TextsAre(fullText', m + 1) <=> TextsAre(fullText, decoded)'
    BY <1>2, <1>5, BodyStays
  <2> QED BY <2>1, <2>2
<1>10. CallsAre(calls, decoded)'
  <2>1. PICK c : c = calls' /\ CallsAre(c, m + 1)
    <3>1. calls = [index \in CallIndices(m) |-> Call(index, m)]
      BY <1>1, <1>5 DEF CallsAre
    <3>2. CASE body.lines[m + 1].type = "part"
      <4>1. Gather([index \in CallIndices(m) |-> Call(index, m)], body.lines[m + 1]) =
              [index \in CallIndices(m + 1) |-> Call(index, m + 1)]
        BY <1>1, <1>5, <1>6, <3>2, GatherIs
      <4>2. calls' = [index \in CallIndices(m + 1) |-> Call(index, m + 1)]
        BY <1>5, <3>1, <3>2, <4>1, Zenon
      <4> QED BY <4>2 DEF CallsAre
    <3>3. CASE body.lines[m + 1].type # "part"
      <4>1. CallIndices(m + 1) = CallIndices(m) /\ \A x : Call(x, m + 1) = Call(x, m)
        BY <1>5, <1>6, <3>3, NoPart
      <4>2. calls' = [index \in CallIndices(m + 1) |-> Call(index, m + 1)]
        BY <1>5, <3>1, <3>3, <4>1
      <4> QED BY <4>2 DEF CallsAre
    <3> QED BY <3>2, <3>3
  <2>2. CallsAre(calls', m + 1) <=> CallsAre(calls, decoded)'
    BY <1>2, <1>5, BodyStays
  <2> QED BY <2>1, <2>2
<1>11. ASSUME NEW off, LaidOut(off) PROVE BufferFits(off)'
  <2>1. BufferFits(off)
    BY <1>11 DEF ReadInv
  <2>2. PICK end \in 1 .. Len(buffer) :
          off[m + 1] = off[m] + end /\ buffer' = SubSeq(buffer, end + 1, Len(buffer))
    BY <1>4, <1>11
  <2>3. PICK o \in Nat, r \in Nat, l \in Nat, all \in {Bytes} :
          o = off[m] /\ r = received /\ l = Len(buffer) /\ l = r - o /\ o <= r
    <3>1. off[m] \in Nat
      <4>1. off \in [0 .. n -> Nat]
        BY <1>3, <1>11 DEF LaidOut, LayOut
      <4>2. m \in 0 .. n
        BY <1>3
      <4> QED BY <4>1, <4>2
    <3> QED BY <1>5, <2>1, <3>1 DEF BufferFits
  <2>4. buffer \in Seq(Shown) /\ \A k \in 1 .. l : Same(buffer[k], all[o + k])
    BY <1>5, <2>1, <2>3 DEF BufferFits
  <2>5. PICK e \in 1 .. l : e = end
    BY <2>2, <2>3
  <2>6. PICK b : b = SubSeq(buffer, e + 1, l)
    OBVIOUS
  <2>7. b \in Seq(Shown) /\ Len(b) = l - e /\ \A k \in 1 .. l - e : b[k] = buffer[e + k]
    <3>1. buffer \in Seq(Shown) /\ Len(buffer) = l
      BY <2>3, <2>4
    <3> QED BY <2>6, <3>1
  <2>8. o + e \in Nat /\ l - e = r - (o + e) /\ o + e <= r
    <3>1. \A x, y, z \in Nat : \A q \in 1 .. z : z = y - x =>
            x + q \in Nat /\ z - q = y - (x + q) /\ x + q <= y
      OBVIOUS
    <3>2. l = r - o
      BY <2>3
    <3> QED BY <3>1, <3>2
  <2>9. ASSUME NEW k \in 1 .. l - e PROVE Same(b[k], all[(o + e) + k])
    <3>1. e + k \in 1 .. l /\ o + (e + k) = (o + e) + k
      OBVIOUS
    <3> QED BY <2>4, <2>7, <3>1
  <2>10. \A k \in 1 .. l - e : Same(b[k], all[(o + e) + k])'
    BY <1>2, <2>9, BodyStays
  <2>11. /\ b = buffer' /\ all = Bytes' /\ received' = r /\ o + e = off[decoded']
    <3>1. buffer' = SubSeq(buffer, end + 1, Len(buffer)) /\ off[m + 1] = off[m] + end
      BY <2>2
    <3>2. b = buffer'
      BY <2>3, <2>5, <2>6, <3>1, Zenon
    <3>3. o + e = off[decoded']
      BY <1>5, <2>3, <2>5, <3>1
    <3> QED BY <1>2, <2>3, <3>2, <3>3, BodyStays
  <2>12. decoded' \in 0 .. Len(body'.lines) /\ r <= Len(all)
    BY <1>3, <1>5, <1>6, <2>1, <2>3 DEF BufferFits
  <2> QED BY <2>7, <2>8, <2>10, <2>11, <2>12 DEF BufferFits
<1>12. (\A off : LaidOut(off) => BufferFits(off))'
  BY <1>2, <1>11, BodyStays
<1> QED BY <1>1, <1>2, <1>7, <1>8, <1>9, <1>10, <1>12 DEF ReadInv

\* Where what was read stays, the invariant is about its end and the response.
LEMMA ReadStays ==
  ASSUME ReadInv, UNCHANGED <<body, received, buffer, fullText, calls, decoded>>
  PROVE  ReadTo' /\ Answered' => ReadInv'
<1>1. body \in Bodies /\ TextsAre(fullText, decoded) /\ CallsAre(calls, decoded)
  BY DEF ReadInv
<1>2. TextsAre(fullText, decoded)' <=> TextsAre(fullText, decoded)
  BY BodyStays
<1>3. CallsAre(calls, decoded)' <=> CallsAre(calls, decoded)
  BY BodyStays
<1>4. ASSUME NEW off, LaidOut(off) PROVE BufferFits(off)'
  <2>1. BufferFits(off)
    BY <1>4 DEF ReadInv
  <2>2. \A k \in 1 .. Len(buffer) : Same(buffer[k], Bytes[off[decoded] + k])'
    BY <2>1, BodyStays DEF BufferFits
  <2> QED BY <2>1, <2>2, BodyStays DEF BufferFits
<1>5. (\A off : LaidOut(off) => BufferFits(off))'
  BY <1>4, BodyStays
<1> QED BY <1>1, <1>2, <1>3, <1>5 DEF ReadInv

LEMMA ReadStep == ReadInv /\ [SseNext]_sseVars => ReadInv'
<1> SUFFICES ASSUME ReadInv, [SseNext]_sseVars PROVE ReadInv'
  OBVIOUS
<1>1. ASSUME NEW size \in 1 .. Len(Bytes), ReceiveChunk(size) PROVE ReadInv'
  BY <1>1, ReceiveKeeps
<1>2. CASE ReadLine
  BY <1>2, ReadLineKeeps
<1>3. CASE BodyEnds
  <2>1. UNCHANGED <<body, received, buffer, fullText, calls, decoded>>
    BY <1>3 DEF BodyEnds
  <2>2. reading = "open" /\ reading' = "cut" /\ response' = response
    BY <1>3 DEF BodyEnds
  <2>3. ReadTo'
    BY <2>1, <2>2 DEF ReadInv, ReadTo, Endless
  <2>4. Answered'
    BY <2>2 DEF ReadInv, Answered
  <2> QED BY <2>1, <2>3, <2>4, ReadStays
<1>4. CASE SendDone
  <2>1. UNCHANGED <<body, received, buffer, fullText, calls, decoded>> /\ reading' = reading
    BY <1>4 DEF SendDone
  <2>2. ReadTo'
    BY <2>1 DEF ReadInv, ReadTo, Endless
  <2>3. Answered'
    <3>1. reading # "open" /\ response' = FinalizeStream(fullText, calls)
      BY <1>4 DEF SendDone
    <3>2. FinalizeStream(fullText, calls)' = FinalizeStream(fullText, calls)
      BY <2>1 DEF FinalizeStream, SortedKeys
    <3> QED BY <2>1, <3>1, <3>2 DEF Answered
  <2> QED BY <2>1, <2>2, <2>3, ReadStays
<1>5. CASE UNCHANGED sseVars
  <2>1. /\ UNCHANGED <<body, received, buffer, fullText, calls, decoded>>
        /\ reading' = reading /\ response' = response
    BY <1>5 DEF sseVars
  <2>2. ReadTo' /\ Answered'
    BY <2>1 DEF ReadInv, ReadTo, Endless, Answered, FinalizeStream, SortedKeys
  <2> QED BY <2>1, <2>2, ReadStays
<1> QED BY <1>1, <1>2, <1>3, <1>4, <1>5 DEF SseNext

LEMMA ReadInvariant == SseSpec => []ReadInv
BY ReadBegins, ReadStep, PTL DEF SseSpec

-----------------------------------------------------------------------------
\* With the end marker the rest of the body says nothing more.
LEMMA DoneIsAll ==
  ASSUME ReadInv
  PROVE  Reference(IF reading = "done" THEN Len(body.lines) ELSE decoded) = Reference(decoded)
<1>1. CASE reading = "done"
  <2>1. PICK n \in Nat : n = Len(body.lines)
    BY BodyIs DEF ReadInv
  <2>2. PICK m \in 0 .. n - 1 : decoded = m + 1 /\ Endless(m) /\ body.lines[m + 1].type = "end"
    BY <1>1, <2>1 DEF ReadInv, ReadTo
  <2>3. BeforeEnd(n) = 1 .. m /\ BeforeEnd(m + 1) = 1 .. m
    <3>1. m \in Nat /\ m + 1 <= n /\ m + 1 \in Nat /\ m + 1 <= m + 1
      OBVIOUS
    <3>2. \A c \in Nat : m + 1 <= c => BeforeEnd(c) = 1 .. m
      BY <2>2, <3>1, BeforeEndIs
    <3> QED BY <3>1, <3>2
  <2>4. Reference(n) = Reference(m + 1)
    BY <2>3, SameReference
  <2> QED BY <1>1, <2>1, <2>2, <2>4
<1>2. CASE reading # "done"
  BY <1>2
<1> QED BY <1>1, <1>2

\* The answers of an OpenAI provider have no wide character that a chunk might cut
\* (run SplitCharacter shows it lost).
WholeCharacters ==
  \A b \in Bodies : \A i \in DOMAIN b.lines : b.reader = "openai" => ~b.lines[i].wide

(* However a body is cut into chunks: the lines received are read once each,*)
(* in order, to the end marker; the texts are theirs, damaged only where    *)
(* the OpenAI reader decodes a wide character, and the calls are put         *)
(* together from their parts in order (openai_compat.rs, lines 157-223;     *)
(* anthropic.rs, lines 164-287).                                            *)
LinesSurvive ==
  LET said == Reference(IF reading = "done" THEN Len(body.lines) ELSE decoded)
  IN  /\ FinalizeStream(Repaired(fullText), calls) = said
      /\ \A k \in DOMAIN fullText : fullText[k].damaged => Blurred(fullText[k].line)
      /\ Ends(buffer) = {} => Complete(received) = 1 .. decoded
      /\ response # Missing =>
           Repaired(response.text) = said.text /\ response.calls = said.calls

LEMMA ReadMeans == ASSUME ReadInv PROVE LinesSurvive
<1>1. body \in Bodies /\ TextsAre(fullText, decoded) /\ CallsAre(calls, decoded)
  BY DEF ReadInv
<1>2. decoded \in Nat /\ decoded <= Len(body.lines)
  BY <1>1, BodyIs DEF ReadInv, ReadTo
<1>3. PICK said : said = Reference(decoded) /\
                  said = Reference(IF reading = "done" THEN Len(body.lines) ELSE decoded)
  BY DoneIsAll
<1>4. FinalizeStream(Repaired(fullText), calls) = said
  <2>1. FinalizeStream(Repaired(fullText), calls) = Reference(decoded)
    BY <1>1, <1>2, FinalIs
  <2> QED BY <1>3, <2>1, Zenon
<1>5. \A k \in DOMAIN fullText : fullText[k].damaged => Blurred(fullText[k].line)
  BY <1>1 DEF TextsAre
<1>6. ASSUME Ends(buffer) = {} PROVE Complete(received) = 1 .. decoded
  <2>1. PICK off : LaidOut(off) /\ BufferFits(off)
    BY <1>1, BodyLaidOut DEF ReadInv
  <2> QED BY <1>1, <1>6, <2>1, CompleteAre
<1>7. ASSUME response # Missing
      PROVE  Repaired(response.text) = said.text /\ response.calls = said.calls
  <2>1. response = FinalizeStream(fullText, calls)
    BY <1>7 DEF ReadInv, Answered
  <2>2. response.text = fullText /\ response.calls = FinalizeStream(Repaired(fullText), calls).calls
    BY <2>1 DEF FinalizeStream
  <2>3. FinalizeStream(Repaired(fullText), calls).text = Repaired(fullText)
    BY DEF FinalizeStream
  <2> QED BY <1>4, <2>2, <2>3
<1> QED BY <1>3, <1>4, <1>5, <1>6, <1>7 DEF LinesSurvive

\* Whatever the answer and its chunks, lines and calls survive (both readers).
THEOREM StreamsSurviveCuts == SseSpec => []LinesSurvive
BY ReadInvariant, ReadMeans, PTL

(* Without wide characters in OpenAI's answers, the response is exactly what *)
(* the lines say that were received (finalize_stream_response, and the two   *)
(* reader tasks that it ends).                                               *)
THEOREM AnswersAreWhole ==
  ASSUME WholeCharacters
  PROVE  SseSpec => []AnswerIsPrefix
<1>1. ReadInv => AnswerIsPrefix
  <2> SUFFICES ASSUME ReadInv PROVE AnswerIsPrefix
    OBVIOUS
  <2>1. LinesSurvive
    BY ReadMeans
  <2>2. PICK said : said = Reference(decoded) /\
                    said = Reference(IF reading = "done" THEN Len(body.lines) ELSE decoded)
    BY DoneIsAll
  <2>3. \A k \in DOMAIN fullText : ~Blurred(fullText[k].line)
    <3>1. /\ body \in Bodies /\ TextsAre(fullText, decoded)
          /\ decoded \in Nat /\ decoded <= Len(body.lines)
      BY BodyIs DEF ReadInv, ReadTo
    <3>2. \A i \in 1 .. decoded : ~Blurred(i)
      <4>1. \A i \in 1 .. decoded : i \in DOMAIN body.lines
        BY <3>1, BodyIs
      <4> QED BY <3>1, <4>1 DEF WholeCharacters, Blurred
    <3>3. TextLines(decoded) \in SUBSET (1 .. decoded) /\ IsFiniteSet(TextLines(decoded))
      BY <3>1, SaidSoFar
    <3>4. PICK n \in Nat : n = Cardinality(TextLines(decoded))
      BY <3>3, FS_CardinalityType
    <3>5. Ascending(TextLines(decoded)) \in [1 .. n -> TextLines(decoded)]
      <4>1. TextLines(decoded) \in SUBSET Nat
        BY <3>3
      <4> QED BY <3>3, <3>4, <4>1, AscendingIs
    <3>6. \A k \in DOMAIN fullText : fullText[k].line \in 1 .. decoded
      <4>1. DOMAIN fullText = 1 .. n /\ \A k \in 1 .. n : fullText[k].line = Ascending(TextLines(decoded))[k]
        BY <3>1, <3>4 DEF TextsAre
      <4> QED BY <3>3, <3>5, <4>1
    <3> QED BY <3>2, <3>6
  <2>4. Repaired(fullText) = fullText
    BY <2>3, NothingDamaged DEF ReadInv
  <2>5. FinalizeStream(fullText, calls) = said
    BY <2>1, <2>2, <2>4 DEF LinesSurvive
  <2>6. response # Missing => response = said
    BY <2>5 DEF ReadInv, Answered
  <2>7. Ends(buffer) = {} => Complete(received) = 1 .. decoded
    BY <2>1 DEF LinesSurvive
  <2> QED BY <2>2, <2>5, <2>6, <2>7 DEF AnswerIsPrefix
<1> QED BY <1>1, ReadInvariant, PTL

-----------------------------------------------------------------------------
(* The cards of a reply.                                                     *)

\* How many of the first i characters are wide.
WideIn(text, i) == {j \in 1 .. i : text[j] = Wide}

\* Every character takes at least a byte.
LEMMA OffsetGrows ==
  ASSUME NEW text
  PROVE  /\ \A i \in Nat : Offset(text, i) \in Nat
         /\ Offset(text, 0) = 0
         /\ \A i, k \in Nat : i <= k => Offset(text, i) + (k - i) <= Offset(text, k)
<1>1. \A i \in Nat : IsFiniteSet(WideIn(text, i)) /\ Cardinality(WideIn(text, i)) \in Nat
  <2> TAKE i \in Nat
  <2>1. IsFiniteSet(1 .. i) /\ WideIn(text, i) \in SUBSET (1 .. i)
    BY FS_Interval DEF WideIn
  <2>2. IsFiniteSet(WideIn(text, i))
    BY <2>1, FS_Subset
  <2> QED BY <2>2, FS_CardinalityType
<1>2. \A i \in Nat : Offset(text, i) = i + 2 * Cardinality(WideIn(text, i))
  BY DEF Offset, WideIn
<1>3. Cardinality(WideIn(text, 0)) = 0
  <2>1. WideIn(text, 0) = {}
    BY DEF WideIn
  <2> QED BY <2>1, FS_EmptySet
<1>4. \A i, k \in Nat : i <= k => Cardinality(WideIn(text, i)) <= Cardinality(WideIn(text, k))
  <2> SUFFICES ASSUME NEW i \in Nat, NEW k \in Nat, i <= k
               PROVE  Cardinality(WideIn(text, i)) <= Cardinality(WideIn(text, k))
    OBVIOUS
  <2>1. WideIn(text, i) \in SUBSET WideIn(text, k)
    BY DEF WideIn
  <2> QED BY <1>1, <2>1, FS_Subset
<1>5. \A i \in Nat : i + 2 * Cardinality(WideIn(text, i)) \in Nat
  BY <1>1
<1>6. Offset(text, 0) = 0
  BY <1>2, <1>3
<1>7. ASSUME NEW i \in Nat, NEW k \in Nat, i <= k
      PROVE  Offset(text, i) + (k - i) <= Offset(text, k)
  <2>1. PICK a \in Nat, b \in Nat : a = Cardinality(WideIn(text, i)) /\ b = Cardinality(WideIn(text, k))
    BY <1>1
  <2>2. a <= b
    BY <1>4, <1>7, <2>1
  <2>3. Offset(text, i) = i + 2 * a /\ Offset(text, k) = k + 2 * b
    BY <1>2, <2>1
  <2> QED BY <1>7, <2>2, <2>3
<1> QED BY <1>2, <1>5, <1>6, <1>7

\* The characters of a text between two places.
Between(S, text, a, b, part) ==
  /\ part \in Seq(S) /\ Len(part) = b - a
  /\ \A j \in 1 .. b - a : part[j] = text[a + j]

LEMMA PartIs ==
  ASSUME NEW S, NEW text \in Seq(S), NEW a \in Nat, NEW b \in Nat, a <= b, b <= Len(text)
  PROVE  Between(S, text, a, b, SubSeq(text, a + 1, b))
<1>1. PICK m \in Int : m = a + 1
  OBVIOUS
<1>2. \A j \in m .. b : text[j] \in S
  BY <1>1
<1>3. b \in Int
  OBVIOUS
<1>4. SubSeq(text, m, b) \in Seq(S)
  BY <1>2, <1>3, SubSeqProperties
<1>5. PICK part : part = SubSeq(text, a + 1, b)
  OBVIOUS
<1>6. Len(part) = b - a /\ \A j \in 1 .. b - a : part[j] = text[a + j]
  BY <1>5
<1> QED BY <1>1, <1>4, <1>5, <1>6, Zenon DEF Between

\* A part of a text has the bytes between its ends.
LEMMA SizeOfPart ==
  ASSUME NEW S, NEW text \in Seq(S), NEW a \in Nat, NEW b \in Nat, a <= b, b <= Len(text)
  PROVE  SizeOf(SubSeq(text, a + 1, b)) = Offset(text, b) - Offset(text, a)
<1>1. PICK part : part = SubSeq(text, a + 1, b)
  OBVIOUS
<1>2. Len(part) = b - a /\ \A j \in 1 .. b - a : part[j] = text[a + j]
  <2>1. Between(S, text, a, b, part)
    BY <1>1, PartIs
  <2> QED BY <2>1 DEF Between
<1> DEFINE W == WideIn(part, b - a)
           A == WideIn(text, a)
           B == WideIn(text, b)
           M == {j \in a + 1 .. b : text[j] = Wide}
<1>3. IsFiniteSet(1 .. b - a) /\ IsFiniteSet(1 .. a) /\ IsFiniteSet(a + 1 .. b)
  BY FS_Interval
<1>4. IsFiniteSet(W) /\ IsFiniteSet(A) /\ IsFiniteSet(M)
  <2>1. W \in SUBSET (1 .. b - a) /\ A \in SUBSET (1 .. a) /\ M \in SUBSET (a + 1 .. b)
    BY DEF WideIn
  <2> QED BY <1>3, <2>1, FS_Subset
<1>5. Cardinality(M) = Cardinality(W)
  <2> DEFINE f == [j \in W |-> a + j]
  <2>1. \A j \in W : j \in 1 .. b - a /\ part[j] = Wide
    BY DEF WideIn
  <2>2. f \in [W -> M]
    <3>1. \A j \in W : a + j \in a + 1 .. b /\ text[a + j] = Wide
      BY <1>2, <2>1
    <3> QED BY <3>1
  <2>3. \A i, j \in W : f[i] = f[j] => i = j
    BY <2>1
  <2>4. \A m \in M : \E j \in W : f[j] = m
    <3> TAKE m \in M
    <3>1. m - a \in 1 .. b - a /\ a + (m - a) = m /\ text[m] = Wide
      OBVIOUS
    <3>2. m - a \in W
      BY <1>2, <3>1 DEF WideIn
    <3> QED BY <3>1, <3>2
  <2>5. f \in Bijection(W, M)
    BY <2>2, <2>3, <2>4 DEF Bijection, Injection, Surjection, IsInjective
  <2> QED BY <1>4, <2>5, FS_Bijection DEF ExistsBijection
<1>6. Cardinality(B) = Cardinality(A) + Cardinality(M)
  <2>1. B = A \cup M /\ A \cap M = {}
    BY DEF WideIn
  <2>2. Cardinality(A \cup M) = Cardinality(A) + Cardinality(M) - Cardinality(A \cap M)
    BY <1>4, FS_Union
  <2>3. Cardinality(A \cap M) = 0
    BY <2>1, FS_EmptySet
  <2>4. Cardinality(A) \in Nat /\ Cardinality(M) \in Nat
    BY <1>4, FS_CardinalityType
  <2> HIDE DEF A, B, M
  <2> QED BY <2>1, <2>2, <2>3, <2>4
<1>7. /\ SizeOf(part) = (b - a) + 2 * Cardinality(W)
      /\ Offset(text, b) = b + 2 * Cardinality(B)
      /\ Offset(text, a) = a + 2 * Cardinality(A)
  BY <1>2 DEF SizeOf, Offset, WideIn
<1>8. Cardinality(A) \in Nat /\ Cardinality(W) \in Nat
  BY <1>4, FS_CardinalityType
<1> HIDE DEF A, B, M, W
<1>9. \A x, y \in Nat : (b - a) + 2 * x = (b + 2 * (y + x)) - (a + 2 * y)
  OBVIOUS
<1> QED BY <1>1, <1>5, <1>6, <1>7, <1>8, <1>9

\* A card that is cut off is not empty and not too large, and ends where a line
\* ends if it holds the end of a line.
LEMMA CutIs ==
  ASSUME NEW S, NEW text \in Seq(S), NEW n \in Nat, n = Len(text), NEW max \in Nat \ {0},
         NEW from \in 0 .. n, ~SplitOver(text, from, max)
  PROVE  LET cut == Cut(text, from, max)
         IN  /\ cut \in from + 1 .. n
             /\ Offset(text, cut) - Offset(text, from) <= max
             /\ (\E i \in from + 1 .. cut : text[i] = Newline) => text[cut] = Newline
<1> DEFINE region == Region(text, from, max)
           lines == {i \in region : text[i] = Newline}
           cut == Cut(text, from, max)
<1>1. /\ \A i \in 0 .. n : Offset(text, i) \in Nat
      /\ \A i, k \in 0 .. n : i <= k => Offset(text, i) <= Offset(text, k)
  <2>1. \A i \in Nat : Offset(text, i) \in Nat
    BY OffsetGrows
  <2>2. ASSUME NEW i \in 0 .. n, NEW k \in 0 .. n, i <= k
        PROVE  Offset(text, i) <= Offset(text, k)
    <3>1. Offset(text, i) + (k - i) <= Offset(text, k)
      <4>1. i \in Nat /\ k \in Nat
        OBVIOUS
      <4> QED BY <2>2, <4>1, OffsetGrows, Zenon
    <3> QED BY <2>1, <2>2, <3>1
  <2> QED BY <2>1, <2>2
<1>2. PICK o \in Nat : o = Offset(text, from)
  BY <1>1
<1>3. region = {i \in from + 1 .. n : Offset(text, i) <= o + max}
  BY <1>2 DEF Region, SearchEnd
<1>4. region # {}
  <2>1. PICK i \in 0 .. n : Offset(text, i) = o + max /\ ~(Offset(text, n) - o <= max)
    BY <1>2 DEF SplitOver, RestFits, SearchEnd, Boundaries, SizeOf
  <2>2. i > from
    BY <1>1, <1>2, <2>1
  <2>3. i \in region
    BY <1>3, <2>1, <2>2
  <2> QED BY <2>3
<1>5. region \in SUBSET (0 .. n) /\ lines \in SUBSET (0 .. n)
  BY <1>3
<1>6. cut = IF lines # {} THEN Max(lines) ELSE Max(region)
  BY DEF Cut
<1>7. \A T \in SUBSET (0 .. n) : T # {} => Max(T) \in T /\ \A i \in T : Max(T) >= i
  BY GreatestElement DEF Max
<1> HIDE DEF cut, region, lines
<1>8. CASE lines # {}
  <2>1. cut \in lines
    BY <1>5, <1>6, <1>7, <1>8
  <2>2. cut \in region /\ text[cut] = Newline
    BY <2>1 DEF lines
  <2> QED BY <1>1, <1>2, <1>3, <2>2 DEF cut
<1>9. CASE lines = {}
  <2>1. cut \in region /\ \A i \in region : cut >= i
    BY <1>4, <1>5, <1>6, <1>7, <1>9
  <2>2. \A i \in from + 1 .. cut : i \in region
    BY <1>1, <1>3, <2>1
  <2>3. \A i \in region : text[i] # Newline
    BY <1>9 DEF lines
  <2> QED BY <1>1, <1>2, <1>3, <2>1, <2>2, <2>3 DEF cut
<1> QED BY <1>8, <1>9

\* The round of the loop that begins at a character: where the next one begins.
Round(text, from, max) ==
  IF SplitOver(text, from, max) THEN from ELSE Cut(text, from, max)

LEMMA RoundIs ==
  ASSUME NEW S, NEW text \in Seq(S), NEW max \in Nat \ {0}, NEW from \in 0 .. Len(text)
  PROVE  /\ Round(text, from, max) \in from .. Len(text)
         /\ ~SplitOver(text, from, max) => Round(text, from, max) > from
<1>1. PICK n \in Nat : n = Len(text)
  OBVIOUS
<1>2. CASE SplitOver(text, from, max)
  BY <1>1, <1>2 DEF Round
<1>3. CASE ~SplitOver(text, from, max)
  <2>1. Cut(text, from, max) \in from + 1 .. n
    BY <1>1, <1>3, CutIs
  <2> QED BY <1>1, <1>3, <2>1 DEF Round
<1> QED BY <1>2, <1>3

\* The loop, round by round.
StartsOf(text, max, n, start) ==
  /\ start \in [0 .. n -> 0 .. n] /\ start = ChunkStarts(text, max) /\ start[0] = 0
  /\ \A k \in 1 .. n : start[k] = Round(text, start[k-1], max)

LEMMA ChunkStartsAre ==
  ASSUME NEW S, NEW text \in Seq(S), NEW max \in Nat \ {0}, NEW n \in Nat, n = Len(text)
  PROVE  \E start : StartsOf(text, max, n, start)
<1> DEFINE Def(f) == f = [k \in 0 .. n |-> IF k = 0 THEN 0 ELSE Round(text, f[k-1], max)]
<1>1. ChunkStarts(text, max) = CHOOSE f : Def(f)
  BY DEF ChunkStarts, Round
<1>2. \A from \in 0 .. n : Round(text, from, max) \in 0 .. n
  BY RoundIs
<1>3. \E f : Def(f)
  <2> DEFINE step == [k \in 1 .. n |-> [from \in 0 .. n |-> Round(text, from, max)]]
  <2>1. /\ step \in [1 .. n -> [0 .. n -> 0 .. n]]
        /\ \A k \in 1 .. n, from \in 0 .. n : step[k][from] = Round(text, from, max)
    BY <1>2
  <2> HIDE DEF step
  <2>2. PICK f : Iterated(f, n, 0 .. n, step, 0)
    <3>1. 0 \in 0 .. n
      OBVIOUS
    <3> QED BY <2>1, <3>1, Iterates
  <2>3. ASSUME NEW k \in 1 .. n PROVE f[k] = Round(text, f[k-1], max)
    <3>1. f \in [0 .. n -> 0 .. n] /\ f[k] = step[k][f[k-1]]
      BY <2>2 DEF Iterated
    <3>2. f[k-1] \in 0 .. n
      <4>1. k - 1 \in 0 .. n
        OBVIOUS
      <4> QED BY <3>1, <4>1
    <3> QED BY <2>1, <3>1, <3>2, Zenon
  <2>4. \A k \in 0 .. n : f[k] = IF k = 0 THEN 0 ELSE Round(text, f[k-1], max)
    BY <2>2, <2>3 DEF Iterated
  <2>5. f = [k \in 0 .. n |-> f[k]]
    BY <2>2 DEF Iterated
  <2>6. Def(f)
    BY <2>4, <2>5
  <2> QED BY <2>6
<1> HIDE DEF Def
<1>4. PICK start : start = ChunkStarts(text, max) /\ Def(start)
  BY <1>1, <1>3
<1>5. start = [k \in 0 .. n |-> IF k = 0 THEN 0 ELSE Round(text, start[k-1], max)]
  BY <1>4 DEF Def
<1>6. DOMAIN start = 0 .. n /\ start[0] = 0 /\ \A k \in 1 .. n : start[k] = Round(text, start[k-1], max)
  BY <1>5
<1>7. start = [k \in 0 .. n |-> start[k]]
  BY <1>5
<1> HIDE <1>5
<1> DEFINE T == {k \in 0 .. n : start[k] \in 0 .. n}
<1>8. T = 0 .. n
  <2>1. 0 \in T /\ T \in SUBSET (0 .. n)
    BY <1>6
  <2>2. \A k \in T : k < n => k + 1 \in T
    <3> SUFFICES ASSUME NEW k \in 0 .. n, start[k] \in 0 .. n, k < n PROVE start[k + 1] \in 0 .. n
      OBVIOUS
    <3>1. k + 1 \in 1 .. n /\ (k + 1) - 1 = k
      OBVIOUS
    <3>2. start[k + 1] = Round(text, start[k], max)
      BY <1>6, <3>1
    <3> QED BY <1>2, <3>2
  <2> HIDE DEF T
  <2> QED BY <2>1, <2>2, UpTo
<1>9. \A k \in 0 .. n : start[k] \in 0 .. n
  BY <1>8
<1>10. start \in [0 .. n -> 0 .. n]
  BY <1>7, <1>9
<1> QED BY <1>4, <1>6, <1>10 DEF StartsOf

\* The loop comes to an end: each round either is the last or leaves less.
LEMMA LoopEnds ==
  ASSUME NEW S, NEW text \in Seq(S), NEW max \in Nat \ {0}, NEW n \in Nat, n = Len(text),
         NEW start \in [0 .. n -> 0 .. n], start[0] = 0,
         \A k \in 1 .. n : start[k] = Round(text, start[k-1], max)
  PROVE  \E k \in 0 .. n : /\ SplitOver(text, start[k], max)
                           /\ \A j \in 0 .. k - 1 : ~SplitOver(text, start[j], max)
<1> DEFINE K == {k \in 0 .. n : SplitOver(text, start[k], max)}
           T == {k \in 0 .. n : K # {} \/ start[k] >= k}
<1>1. T = 0 .. n
  <2>1. T \in SUBSET (0 .. n) /\ 0 \in T
    OBVIOUS
  <2>2. ASSUME NEW k \in T, k < n PROVE k + 1 \in T
    <3> SUFFICES ASSUME K = {} PROVE start[k + 1] >= k + 1
      BY <2>2
    <3>1. start[k] >= k /\ start[k] \in 0 .. n /\ ~SplitOver(text, start[k], max)
      BY <2>2
    <3>2. k + 1 \in 1 .. n /\ (k + 1) - 1 = k
      BY <2>2
    <3>3. start[k + 1] = Round(text, start[k], max)
      BY <3>2
    <3>4. Round(text, start[k], max) > start[k] /\ Round(text, start[k], max) \in 0 .. n
      BY <3>1, RoundIs
    <3> QED BY <3>1, <3>3, <3>4
  <2> HIDE DEF T
  <2> QED BY <2>1, <2>2, UpTo
<1>2. K # {}
  <2> SUFFICES ASSUME K = {} PROVE FALSE
    OBVIOUS
  <2>1. n \in T
    BY <1>1
  <2>2. start[n] = n /\ n \in 0 .. n
    BY <2>1
  <2>3. Offset(text, n) \in Nat
    BY OffsetGrows
  <2>4. SplitOver(text, n, max)
    BY <2>3 DEF SplitOver, RestFits, SizeOf
  <2> QED BY <2>2, <2>4
<1>3. K \in SUBSET Nat
  OBVIOUS
<1>4. PICK k \in K : \A j \in K : k <= j
  <2> HIDE DEF K
  <2> QED BY <1>2, <1>3, LeastElement
<1> QED BY <1>4

\* The parts of a text that end at e, one behind the other.
PartsOf(text, cards, e, c) ==
  /\ Len(cards) = c /\ e \in [0 .. c -> Nat] /\ e[0] = 0 /\ e[c] = Len(text)
  /\ \A i \in 1 .. c : e[i-1] <= e[i] /\ Len(cards[i]) = e[i] - e[i-1]
  /\ \A i \in 1 .. c : \A j \in 1 .. Len(cards[i]) : cards[i][j] = text[e[i-1] + j]

\* One behind the other, they are the text.
LEMMA PartsMakeWhole ==
  ASSUME NEW S, NEW text \in Seq(S), NEW c \in Nat, NEW cards \in Seq(Seq(S)),
         NEW e, PartsOf(text, cards, e, c)
  PROVE  FlattenSeq(cards) = text
<1>1. PICK off \in [0 .. c -> Nat] : off[0] = 0 /\ Laid(S, cards, FlattenSeq(cards), off, c)
  <2>1. c = Len(cards)
    BY DEF PartsOf
  <2> QED BY <2>1, FlattenIs
<1>2. PICK whole : whole = FlattenSeq(cards)
  OBVIOUS
<1>3. /\ whole \in Seq(S) /\ Len(whole) = off[c]
      /\ \A i \in 1 .. c : off[i] = off[i-1] + Len(cards[i])
      /\ \A i \in 1 .. c : \A j \in 1 .. Len(cards[i]) : whole[off[i-1] + j] = cards[i][j]
      /\ \A k \in 1 .. off[c] : \E i \in 1 .. c : off[i-1] < k /\ k <= off[i]
  <2>1. Laid(S, cards, whole, off, c)
    BY <1>1, <1>2
  <2> QED BY <2>1 DEF Laid
<1>4. /\ e \in [0 .. c -> Nat] /\ e[0] = 0 /\ e[c] = Len(text)
      /\ \A i \in 1 .. c : e[i-1] <= e[i] /\ Len(cards[i]) = e[i] - e[i-1]
  BY DEF PartsOf
<1>5. \A i \in 0 .. c : off[i] = e[i]
  <2> DEFINE T == {i \in 0 .. c : off[i] = e[i]}
  <2>1. T \in SUBSET (0 .. c) /\ 0 \in T
    BY <1>1, <1>4
  <2>2. ASSUME NEW i \in T, i < c PROVE i + 1 \in T
    <3>1. PICK k \in 1 .. c : k = i + 1 /\ k - 1 = i
      BY <2>2
    <3>2. off[k] = off[k-1] + Len(cards[k]) /\ Len(cards[k]) = e[k] - e[k-1]
      BY <1>3, <1>4
    <3>3. off[k-1] = e[k-1] /\ e[k-1] \in Nat /\ e[k] \in Nat
      <4>1. k \in 0 .. c /\ k - 1 \in 0 .. c
        OBVIOUS
      <4> QED BY <1>4, <3>1, <4>1
    <3>4. off[k] = e[k]
      BY <3>2, <3>3
    <3> QED BY <3>1, <3>4
  <2>3. T = 0 .. c
    <3> HIDE DEF T
    <3> QED BY <2>1, <2>2, UpTo
  <2> QED BY <2>3
<1>6. ASSUME NEW k \in 1 .. Len(text) PROVE whole[k] = text[k]
  <2>1. k \in 1 .. off[c]
    BY <1>4, <1>5
  <2>2. PICK i \in 1 .. c : off[i-1] < k /\ k <= off[i]
    BY <1>3, <2>1
  <2>3. i \in 0 .. c /\ i - 1 \in 0 .. c
    OBVIOUS
  <2>4. PICK a \in Nat : a = off[i-1] /\ a = e[i-1]
    BY <1>5, <2>3
  <2>5. PICK b \in Nat : b = off[i] /\ b = e[i]
    BY <1>5, <2>3
  <2>6. Len(cards[i]) = b - a
    BY <1>4, <2>4, <2>5
  <2>7. PICK j \in 1 .. Len(cards[i]) : a + j = k
    <3>1. k - a \in 1 .. b - a /\ a + (k - a) = k
      BY <2>2, <2>4, <2>5, SMTT(30)
    <3> QED BY <2>6, <3>1
  <2>8. whole[a + j] = cards[i][j]
    BY <1>3, <2>4
  <2>9. cards[i][j] = text[a + j]
    BY <2>4 DEF PartsOf
  <2> QED BY <2>7, <2>8, <2>9
<1>7. Len(whole) = Len(text)
  <2>1. c \in 0 .. c
    OBVIOUS
  <2> QED BY <1>3, <1>4, <1>5, <2>1
<1>8. whole = text
  BY <1>3, <1>6, <1>7, SeqEqual
<1> QED BY <1>2, <1>8

\* A reply in c cards, the i-th up to the character e[i].
CutInto(text, max, n, c, e) ==
  /\ e \in [0 .. c -> 0 .. n] /\ e[0] = 0 /\ e[c] = n /\ c > 0
  /\ SplitMarkdown(text, max).chunks = [i \in 1 .. c |-> SubSeq(text, e[i-1] + 1, e[i])]
  /\ RestFits(text, e[c-1], max)
  /\ \A i \in 1 .. c - 1 : ~SplitOver(text, e[i-1], max) /\ e[i] = Cut(text, e[i-1], max)

\* What is cut off, and what is left in the end, is a card.
LEMMA CardsAre ==
  ASSUME NEW S, NEW text \in Seq(S), NEW max \in Nat \ {0}, NEW n \in Nat, n = Len(text),
         ~SplitMarkdown(text, max).panics
  PROVE  \E c \in Nat : \E e : CutInto(text, max, n, c, e)
<1>1. PICK start \in [0 .. n -> 0 .. n] :
        /\ start = ChunkStarts(text, max) /\ start[0] = 0
        /\ \A k \in 1 .. n : start[k] = Round(text, start[k-1], max)
  <2>1. \E start : StartsOf(text, max, n, start)
    BY ChunkStartsAre
  <2> QED BY <2>1 DEF StartsOf
<1>2. PICK cuts \in 0 .. n : /\ SplitOver(text, start[cuts], max)
                            /\ \A j \in 0 .. cuts - 1 : ~SplitOver(text, start[j], max)
  BY <1>1, LoopEnds
<1> DEFINE K == {k \in DOMAIN start : SplitOver(text, start[k], max)}
<1>3. Min(K) = cuts
  <2>1. DOMAIN start = 0 .. n
    OBVIOUS
  <2>2. cuts \in K
    BY <1>2, <2>1
  <2>3. \A k \in K : cuts <= k
    BY <1>2, <2>1
  <2>4. \A k \in K : k \in Nat
    BY <2>1
  <2>5. Min(K) \in K /\ \A k \in K : Min(K) <= k
    <3> HIDE DEF K
    <3> QED BY <2>2, <2>3 DEF Min
  <2> HIDE DEF K
  <2>6. Min(K) <= cuts /\ cuts <= Min(K) /\ Min(K) \in Nat
    BY <2>2, <2>3, <2>4, <2>5
  <2> QED BY <2>6
<1>4. PICK c \in Nat : c = cuts + 1 /\ c - 1 = cuts
  OBVIOUS
<1>5. PICK e : e = [i \in 0 .. c |-> IF i <= cuts THEN start[i] ELSE n]
  OBVIOUS
<1>6. /\ \A i \in 0 .. c : e[i] = IF i <= cuts THEN start[i] ELSE n
      /\ e \in [0 .. c -> 0 .. n]
  <2>1. \A i \in 0 .. c : i <= cuts => i \in 0 .. n
    BY <1>4
  <2> QED BY <1>5, <2>1
<1>7. /\ SplitMarkdown(text, max).chunks =
            [i \in 1 .. cuts + 1 |->
               SubSeq(text, start[i - 1] + 1, IF i <= cuts THEN start[i] ELSE Len(text))]
      /\ SplitMarkdown(text, max).panics = ~RestFits(text, start[cuts], max)
  BY <1>1, <1>3 DEF SplitMarkdown
<1>8. SplitMarkdown(text, max).chunks = [i \in 1 .. c |-> SubSeq(text, e[i-1] + 1, e[i])]
  <2>1. \A i \in 1 .. c : /\ e[i-1] = start[i-1]
                          /\ e[i] = IF i <= cuts THEN start[i] ELSE Len(text)
    BY <1>4, <1>6
  <2> QED BY <1>4, <1>7, <2>1
<1>9. e[0] = 0 /\ e[c] = n /\ c > 0 /\ e[c-1] = start[cuts]
  BY <1>1, <1>4, <1>6
<1>10. RestFits(text, e[c-1], max)
  BY <1>7, <1>9
<1>11. ASSUME NEW i \in 1 .. c - 1
       PROVE  ~SplitOver(text, e[i-1], max) /\ e[i] = Cut(text, e[i-1], max)
  <2>1. i \in 1 .. n /\ i - 1 \in 0 .. cuts - 1 /\ i \in 0 .. c /\ i - 1 \in 0 .. c
    BY <1>4
  <2>2. e[i] = start[i] /\ e[i-1] = start[i-1]
    BY <1>6, <2>1
  <2>3. ~SplitOver(text, start[i-1], max)
    BY <1>2, <2>1
  <2>4. start[i] = Round(text, start[i-1], max)
    BY <1>1, <2>1
  <2> QED BY <2>2, <2>3, <2>4 DEF Round
<1>12. CutInto(text, max, n, c, e)
  BY <1>6, <1>8, <1>9, <1>10, <1>11 DEF CutInto
<1> QED BY <1>12

\* A part that ends where a line ends if it holds the end of one.
LEMMA LineEndIsLast ==
  ASSUME NEW S, NEW text \in Seq(S), NEW a \in Nat, NEW b \in Nat, a < b, NEW part,
         Between(S, text, a, b, part), Newline \in ToSet(part),
         (\E i \in a + 1 .. b : text[i] = Newline) => text[b] = Newline
  PROVE  part[Len(part)] = Newline
<1>1. /\ part \in Seq(S) /\ Len(part) = b - a
      /\ \A j \in 1 .. b - a : part[j] = text[a + j]
  BY DEF Between
<1>2. DOMAIN part = 1 .. b - a
  BY <1>1
<1>3. PICK j \in 1 .. b - a : part[j] = Newline
  BY <1>2 DEF ToSet
<1>4. a + j \in a + 1 .. b
  OBVIOUS
<1>5. text[a + j] = Newline
  BY <1>1, <1>3, Zenon
<1>6. text[b] = Newline
  BY <1>4, <1>5, Zenon
<1>7. b - a \in 1 .. b - a /\ a + (b - a) = b
  OBVIOUS
<1>8. part[b - a] = text[a + (b - a)]
  BY <1>1, <1>7, Zenon
<1> QED BY <1>1, <1>6, <1>7, <1>8, Zenon

(* Whatever is written, of whatever length and with whatever limit of a card: *)
(* unless the split panics (finding CardsCut), the cards put together are the *)
(* reply, none is too large, and each but the last ends where a line ends     *)
(* unless it is a part of a single line (split_markdown_chunks).              *)
THEOREM CardsShowTheReply ==
  \A S : \A text \in Seq(S), max \in Nat \ {0} : SplitWhole(text, max)
<1> SUFFICES ASSUME NEW S, NEW text \in Seq(S), NEW max \in Nat \ {0},
                    ~SplitMarkdown(text, max).panics
             PROVE  LET cards == SplitMarkdown(text, max).chunks
                    IN  /\ FlattenSeq(cards) = text
                        /\ \A i \in DOMAIN cards : SizeOf(cards[i]) <= max
                        /\ \A i \in 1 .. Len(cards) - 1 :
                             Newline \in ToSet(cards[i]) => cards[i][Len(cards[i])] = Newline
  BY DEF SplitWhole
<1>1. PICK n \in Nat : n = Len(text)
  OBVIOUS
<1>2. PICK c \in Nat : \E e : CutInto(text, max, n, c, e)
  BY <1>1, CardsAre
<1>3. PICK e \in [0 .. c -> 0 .. n] :
        /\ e[0] = 0 /\ e[c] = n /\ c > 0
        /\ SplitMarkdown(text, max).chunks = [i \in 1 .. c |-> SubSeq(text, e[i-1] + 1, e[i])]
        /\ RestFits(text, e[c-1], max)
        /\ \A i \in 1 .. c - 1 : ~SplitOver(text, e[i-1], max) /\ e[i] = Cut(text, e[i-1], max)
  BY <1>2 DEF CutInto
<1>4. PICK cards : cards = SplitMarkdown(text, max).chunks
  OBVIOUS
<1>5. ASSUME NEW i \in 1 .. c - 1
      PROVE  /\ e[i-1] < e[i] /\ Offset(text, e[i]) - Offset(text, e[i-1]) <= max
             /\ (\E j \in e[i-1] + 1 .. e[i] : text[j] = Newline) => text[e[i]] = Newline
  <2>1. PICK from \in 0 .. n : from = e[i-1]
    <3>1. i - 1 \in 0 .. c
      OBVIOUS
    <3> QED BY <3>1
  <2>2. ~SplitOver(text, from, max) /\ e[i] = Cut(text, from, max)
    BY <1>3, <2>1
  <2>3. /\ Cut(text, from, max) \in from + 1 .. n
        /\ Offset(text, Cut(text, from, max)) - Offset(text, from) <= max
        /\ (\E j \in from + 1 .. Cut(text, from, max) : text[j] = Newline) =>
             text[Cut(text, from, max)] = Newline
    BY <1>1, <2>2, CutIs
  <2> QED BY <2>1, <2>2, <2>3
<1>6. ASSUME NEW i \in 1 .. c
      PROVE  /\ e[i-1] \in 0 .. n /\ e[i] \in 0 .. n /\ e[i-1] <= e[i]
             /\ Offset(text, e[i]) - Offset(text, e[i-1]) <= max
  <2>1. i - 1 \in 0 .. c /\ i \in 0 .. c
    OBVIOUS
  <2>2. e[i-1] \in 0 .. n /\ e[i] \in 0 .. n
    BY <2>1
  <2>3. CASE i \in 1 .. c - 1
    BY <1>5, <2>2, <2>3
  <2>4. CASE i = c
    <3>1. RestFits(text, e[i-1], max) /\ e[i] = n
      BY <1>3, <2>4
    <3> QED BY <1>1, <2>2, <3>1 DEF RestFits, SizeOf
  <2> QED BY <2>2, <2>3, <2>4
<1>7. /\ cards = [i \in 1 .. c |-> cards[i]]
      /\ \A i \in 1 .. c : cards[i] = SubSeq(text, e[i-1] + 1, e[i])
  BY <1>3, <1>4
<1>8. ASSUME NEW i \in 1 .. c PROVE Between(S, text, e[i-1], e[i], cards[i])
  <2>1. PICK a \in 0 .. n, b \in 0 .. n : a = e[i-1] /\ b = e[i] /\ a <= b
    BY <1>6
  <2>2. a \in Nat /\ b \in Nat /\ b <= Len(text)
    BY <1>1
  <2>3. Between(S, text, a, b, SubSeq(text, a + 1, b))
    BY <2>1, <2>2, PartIs, Zenon
  <2>4. cards[i] = SubSeq(text, a + 1, b)
    BY <1>7, <2>1
  <2> QED BY <2>1, <2>3, <2>4
<1>9. cards \in Seq(Seq(S)) /\ Len(cards) = c /\ DOMAIN cards = 1 .. c
  <2>1. cards \in [1 .. c -> Seq(S)]
    <3>1. \A i \in 1 .. c : cards[i] \in Seq(S)
      BY <1>8 DEF Between
    <3> QED BY <1>7, <3>1
  <2> QED BY <2>1
<1>10. FlattenSeq(cards) = text
  <2>1. e \in [0 .. c -> Nat]
    OBVIOUS
  <2>2. ASSUME NEW i \in 1 .. c
        PROVE  /\ e[i-1] <= e[i] /\ Len(cards[i]) = e[i] - e[i-1]
               /\ \A j \in 1 .. Len(cards[i]) : cards[i][j] = text[e[i-1] + j]
    BY <1>6, <1>8 DEF Between
  <2>3. PartsOf(text, cards, e, c)
    BY <1>1, <1>3, <1>9, <2>1, <2>2 DEF PartsOf
  <2> QED BY <1>9, <2>3, PartsMakeWhole
<1>11. ASSUME NEW i \in 1 .. c PROVE SizeOf(cards[i]) <= max
  <2>1. PICK a \in 0 .. n, b \in 0 .. n : a = e[i-1] /\ b = e[i] /\ a <= b
    BY <1>6
  <2>2. SizeOf(SubSeq(text, a + 1, b)) = Offset(text, b) - Offset(text, a)
    BY <1>1, <2>1, SizeOfPart
  <2> QED BY <1>6, <1>7, <2>1, <2>2
<1>12. ASSUME NEW i \in 1 .. c - 1, Newline \in ToSet(cards[i])
       PROVE  cards[i][Len(cards[i])] = Newline
  <2>1. i \in 1 .. c
    OBVIOUS
  <2>2. e[i-1] \in 0 .. n /\ e[i] \in 0 .. n
    BY <1>6, <2>1, Zenon
  <2>3. PICK a \in Nat, b \in Nat : a = e[i-1] /\ b = e[i]
    BY <2>2
  <2>4. /\ a < b
        /\ (\E j \in a + 1 .. b : text[j] = Newline) => text[b] = Newline
    BY <1>5, <2>3, Zenon
  <2>5. Between(S, text, a, b, cards[i])
    BY <1>8, <2>1, <2>3, Zenon
  <2> QED BY <1>12, <2>4, <2>5, LineEndIsLast, Zenon
<1> QED BY <1>4, <1>9, <1>10, <1>11, <1>12

-----------------------------------------------------------------------------
(* The text of a post.                                                       *)

LEMMA ListIs ==
  ASSUME NEW k \in Nat, NEW T, NEW f \in [1 .. k -> T]
  PROVE  f \in Seq(T)
OBVIOUS

\* Something is left of a text when one of the sequences it is put together from
\* is not blank.
LEMMA FlattenShows ==
  ASSUME NEW S, NEW seqs \in Seq(Seq(S))
  PROVE  /\ FlattenSeq(seqs) \in Seq(S)
         /\ (\E i \in DOMAIN seqs : ~Blank(seqs[i])) => ~Blank(FlattenSeq(seqs))
<1>1. PICK n \in Nat : n = Len(seqs) /\ DOMAIN seqs = 1 .. n
  OBVIOUS
<1>2. PICK off \in [0 .. n -> Nat] : Laid(S, seqs, FlattenSeq(seqs), off, n)
  BY <1>1, FlattenIs
<1>3. PICK whole : whole = FlattenSeq(seqs)
  OBVIOUS
<1>4. /\ whole \in Seq(S) /\ Len(whole) = off[n]
      /\ \A i \in 1 .. n : \A j \in 1 .. Len(seqs[i]) :
           off[i-1] + j <= off[n] /\ whole[off[i-1] + j] = seqs[i][j]
  <2>1. Laid(S, seqs, whole, off, n)
    BY <1>2, <1>3
  <2> QED BY <2>1 DEF Laid
<1>5. ASSUME NEW i \in 1 .. n, ~Blank(seqs[i]) PROVE ~Blank(whole)
  <2>1. PICK j \in DOMAIN seqs[i] : seqs[i][j] \notin {"space", Newline}
    BY <1>5 DEF Blank
  <2>2. j \in 1 .. Len(seqs[i])
    BY <1>1
  <2>3. PICK o \in Nat : o = off[i-1]
    <3>1. i - 1 \in 0 .. n
      OBVIOUS
    <3> QED BY <3>1
  <2>4. o + j <= Len(whole) /\ whole[o + j] = seqs[i][j]
    BY <1>4, <2>2, <2>3
  <2>5. o + j \in DOMAIN whole
    <3>1. o + j \in 1 .. Len(whole)
      <4>1. PICK l \in Nat : l = Len(whole)
        BY <1>4
      <4>2. j \in Nat /\ j >= 1
        BY <2>2
      <4> QED BY <2>4, <4>1, <4>2
    <3>2. DOMAIN whole = 1 .. Len(whole)
      BY <1>4
    <3> QED BY <3>1, <3>2
  <2> QED BY <2>1, <2>4, <2>5 DEF Blank
<1> QED BY <1>1, <1>3, <1>4, <1>5

\* Blank texts put together are blank, and only they.
LEMMA BlankConcat ==
  ASSUME NEW S, NEW s \in Seq(S), NEW t \in Seq(S)
  PROVE  s \o t \in Seq(S) /\ (~Blank(s) \/ ~Blank(t) => ~Blank(s \o t))
<1>1. PICK whole : whole = s \o t
  OBVIOUS
<1>2. /\ whole \in Seq(S) /\ Len(whole) = Len(s) + Len(t)
      /\ \A i \in 1 .. Len(s) : whole[i] = s[i]
      /\ \A i \in 1 .. Len(t) : whole[Len(s) + i] = t[i]
  BY <1>1, ConcatIs
<1>3. DOMAIN s = 1 .. Len(s) /\ DOMAIN t = 1 .. Len(t) /\ DOMAIN whole = 1 .. Len(s) + Len(t)
  BY <1>2
<1>4. ASSUME NEW i \in DOMAIN s, s[i] \notin {"space", Newline} PROVE ~Blank(whole)
  BY <1>2, <1>3, <1>4 DEF Blank
<1>5. ASSUME NEW i \in DOMAIN t, t[i] \notin {"space", Newline} PROVE ~Blank(whole)
  <2>1. Len(s) + i \in DOMAIN whole /\ whole[Len(s) + i] = t[i]
    BY <1>2, <1>3
  <2> QED BY <1>5, <2>1 DEF Blank
<1> QED BY <1>1, <1>2, <1>4, <1>5 DEF Blank

\* An element that says something is read.
LEMMA ElementIsRead ==
  ASSUME NEW Tags, NEW U, "fence" \in U,
         NEW e \in [tag : Tags, text : Seq(U), content : Seq(U)]
  PROVE  /\ ElementText(e) \in Seq(U)
         /\ e.tag \in {"text", "markdown", "a", "code_block"} /\ ~Blank(e.text) =>
              ~Blank(ElementText(e))
<1>1. e.text \in Seq(U) /\ e.content \in Seq(U) /\ <<"fence">> \in Seq(U) /\ << >> \in Seq(U)
  OBVIOUS
<1>2. CASE e.tag \in {"text", "markdown"}
  <2>1. ElementText(e) = e.text \o e.content
    BY <1>2 DEF ElementText
  <2> QED BY <1>1, <2>1, BlankConcat
<1>3. CASE e.tag = "a"
  <2>1. ElementText(e) = e.text
    BY <1>3 DEF ElementText
  <2> QED BY <1>1, <2>1
<1>4. CASE e.tag = "code_block"
  <2>1. ElementText(e) = (<<"fence">> \o e.text) \o <<"fence">>
    BY <1>4 DEF ElementText
  <2>2. PICK s : s = <<"fence">> \o e.text
    OBVIOUS
  <2>3. s \in Seq(U) /\ (~Blank(e.text) => ~Blank(s))
    BY <1>1, <2>2, BlankConcat
  <2>4. s \o <<"fence">> \in Seq(U) /\ (~Blank(s) => ~Blank(s \o <<"fence">>))
    BY <1>1, <2>3, BlankConcat
  <2> QED BY <2>1, <2>2, <2>3, <2>4
<1>5. CASE e.tag \notin {"text", "markdown", "a", "code_block"}
  <2>1. ElementText(e) = <<>>
    BY <1>5 DEF ElementText
  <2> QED BY <1>1, <1>5, <2>1
<1> QED BY <1>2, <1>3, <1>4, <1>5

(* However long a post is and whatever its paragraphs: it is refused only    *)
(* when none of its elements that carry text says anything (extract_post_text*)
(* and into_inbound).                                                        *)
THEOREM PostsAreRead ==
  \A Tags, Words, payload :
    payload.paragraphs \in Seq(Seq([tag : Tags, text : Seq(Words), content : Seq(Words)])) =>
      PostIsRead(payload)
<1> SUFFICES ASSUME NEW Tags, NEW Words, NEW payload, NEW P, P = payload.paragraphs,
                    P \in Seq(Seq([tag : Tags, text : Seq(Words), content : Seq(Words)])),
                    payload.type = "post", payload.json,
                    NEW p \in DOMAIN P, NEW e \in DOMAIN P[p],
                    P[p][e].tag \in {"text", "markdown", "a", "code_block"},
                    ~Blank(P[p][e].text)
             PROVE  IntoInbound(payload).kind = "text"
  BY DEF PostIsRead
<1> DEFINE U == Words \cup {"fence", Newline}
           said(q) == [x \in DOMAIN P[q] |-> ElementText(P[q][x])]
           lines == [q \in DOMAIN P |-> FlattenSeq(said(q)) \o <<Newline>>]
<1>1. ASSUME NEW q \in DOMAIN P, NEW x \in DOMAIN P[q]
      PROVE  P[q][x] \in [tag : Tags, text : Seq(U), content : Seq(U)]
  <2>1. P[q] \in Seq([tag : Tags, text : Seq(Words), content : Seq(Words)])
    OBVIOUS
  <2>2. P[q][x] \in [tag : Tags, text : Seq(Words), content : Seq(Words)]
    <3>1. \A E : \A s \in Seq(E) : \A y \in DOMAIN s : s[y] \in E
      OBVIOUS
    <3> QED BY <2>1, <3>1, Zenon
  <2>3. \A s \in Seq(Words) : s \in Seq(U)
    OBVIOUS
  <2> QED BY <2>2, <2>3
<1>2. "fence" \in U /\ Newline \in U
  OBVIOUS
<1> HIDE DEF U
<1>3. ASSUME NEW q \in DOMAIN P
      PROVE  /\ said(q) \in Seq(Seq(U)) /\ DOMAIN said(q) = DOMAIN P[q]
             /\ lines[q] \in Seq(U)
             /\ ~Blank(FlattenSeq(said(q))) => ~Blank(lines[q])
  <2>1. \A x \in DOMAIN P[q] : ElementText(P[q][x]) \in Seq(U)
    BY <1>1, <1>2, ElementIsRead
  <2>2. PICK k \in Nat : DOMAIN P[q] = 1 .. k
    OBVIOUS
  <2>3. said(q) \in Seq(Seq(U)) /\ DOMAIN said(q) = DOMAIN P[q]
    <3>1. said(q) \in [DOMAIN P[q] -> Seq(U)]
      BY <2>1
    <3> HIDE DEF said
    <3>2. said(q) \in [1 .. k -> Seq(U)]
      BY <2>2, <3>1, Zenon
    <3>3. said(q) \in Seq(Seq(U))
      BY <3>2, ListIs
    <3> QED BY <2>2, <3>2, <3>3
  <2>4. FlattenSeq(said(q)) \in Seq(U)
    BY <2>3, FlattenShows
  <2>5. <<Newline>> \in Seq(U)
    BY <1>2
  <2>6. lines[q] = FlattenSeq(said(q)) \o <<Newline>>
    OBVIOUS
  <2> HIDE DEF said, lines
  <2> QED BY <2>3, <2>4, <2>5, <2>6, BlankConcat
<1>4. ~Blank(lines[p])
  <2>1. said(p)[e] = ElementText(P[p][e]) /\ e \in DOMAIN said(p)
    OBVIOUS
  <2>2. ~Blank(said(p)[e])
    BY <1>1, <1>2, <2>1, ElementIsRead
  <2> HIDE DEF said, lines
  <2> QED BY <1>3, <2>1, <2>2, FlattenShows
<1>5. lines \in Seq(Seq(U)) /\ p \in DOMAIN lines
  <2>1. PICK k \in Nat : DOMAIN P = 1 .. k
    OBVIOUS
  <2>2. lines = [q \in DOMAIN P |-> lines[q]]
    OBVIOUS
  <2> HIDE DEF lines
  <2>3. lines \in [DOMAIN P -> Seq(U)]
    BY <1>3, <2>2
  <2>4. lines \in [1 .. k -> Seq(U)]
    BY <2>1, <2>3, Zenon
  <2>5. lines \in Seq(Seq(U))
    BY <2>4, ListIs
  <2> QED BY <2>1, <2>4, <2>5
<1>6. PostText(payload) = FlattenSeq(lines)
  BY DEF PostText
<1>7. ~Blank(PostText(payload))
  <2> HIDE DEF lines
  <2> QED BY <1>4, <1>5, <1>6, FlattenShows
<1> QED BY <1>7 DEF IntoInbound, TextOf

-----------------------------------------------------------------------------
(* The form of a request.                                                    *)

(* The check of the token is equality for texts of any length                *)
(* (constant_time_eq).                                                       *)
THEOREM TokensAreCompared ==
  \A Chars : \A left, right \in Seq(Chars) : TokenExact(left, right)
<1> SUFFICES ASSUME NEW B, NEW left \in Seq(B), NEW right \in Seq(B)
             PROVE  ConstantTimeEq(left, right) <=> left = right
  BY DEF TokenExact
<1>1. PICK l \in Nat, r \in Nat : l = Len(left) /\ r = Len(right)
  OBVIOUS
<1>2. DOMAIN left = 1 .. l /\ DOMAIN right = 1 .. r
  BY <1>1
<1>3. ASSUME ConstantTimeEq(left, right) PROVE left = right
  <2>1. l = r /\ Longer(left, right) = l
    BY <1>1, <1>3 DEF ConstantTimeEq, Longer
  <2>2. \A i \in 1 .. l : left[i] = right[i]
    BY <1>2, <1>3, <2>1 DEF ConstantTimeEq, ByteAt
  <2> QED BY <1>1, <2>1, <2>2, SeqEqual
<1>4. left = right => ConstantTimeEq(left, right)
  BY DEF ConstantTimeEq
<1> QED BY <1>3, <1>4

\* The variables of the handler, while it reads a form.
Texts == {"empty", "blank", "words"}
Ids == {"", "blank", "words"}
Uploads == {NoUpload, "blank", "words"}
Codes == {0, 400, 413}
Form == [message : Texts, chat_id : Ids, sender_id : Ids, image : BOOLEAN,
         file : Uploads, status : Codes]

\* An assignment to one of them leaves the others as they are.
LEMMA Assigned ==
  ASSUME NEW form \in Form, NEW v
  PROVE  /\ LET after == [form EXCEPT !.message = v]
            IN  /\ v \in Texts => after \in Form
                /\ after.message = v /\ after.image = form.image
                /\ after.file = form.file /\ after.status = form.status
         /\ LET after == [form EXCEPT !.image = v]
            IN  /\ v \in BOOLEAN => after \in Form
                /\ after.message = form.message /\ after.image = v
                /\ after.file = form.file /\ after.status = form.status
         /\ LET after == [form EXCEPT !.file = v]
            IN  /\ v \in Uploads => after \in Form
                /\ after.message = form.message /\ after.image = form.image
                /\ after.file = v /\ after.status = form.status
         /\ LET after == [form EXCEPT !.chat_id = v]
            IN  /\ v \in Ids => after \in Form
                /\ after.message = form.message /\ after.image = form.image
                /\ after.file = form.file /\ after.status = form.status
         /\ LET after == [form EXCEPT !.sender_id = v]
            IN  /\ v \in Ids => after \in Form
                /\ after.message = form.message /\ after.image = form.image
                /\ after.file = form.file /\ after.status = form.status
         /\ LET after == [form EXCEPT !.status = v]
            IN  (v \in Codes => after \in Form) /\ after.status = v
<1>1. LET after == [form EXCEPT !.message = v]
      IN  /\ v \in Texts => after \in Form
          /\ after.message = v /\ after.image = form.image
          /\ after.file = form.file /\ after.status = form.status
  BY DEF Form
<1>2. LET after == [form EXCEPT !.image = v]
      IN  /\ v \in BOOLEAN => after \in Form
          /\ after.message = form.message /\ after.image = v
          /\ after.file = form.file /\ after.status = form.status
  BY DEF Form
<1>3. LET after == [form EXCEPT !.file = v]
      IN  /\ v \in Uploads => after \in Form
          /\ after.message = form.message /\ after.image = form.image
          /\ after.file = v /\ after.status = form.status
  BY DEF Form
<1>4. LET after == [form EXCEPT !.chat_id = v]
      IN  /\ v \in Ids => after \in Form
          /\ after.message = form.message /\ after.image = form.image
          /\ after.file = form.file /\ after.status = form.status
  BY DEF Form
<1>5. LET after == [form EXCEPT !.sender_id = v]
      IN  /\ v \in Ids => after \in Form
          /\ after.message = form.message /\ after.image = form.image
          /\ after.file = form.file /\ after.status = form.status
  BY DEF Form
<1>6. LET after == [form EXCEPT !.status = v]
      IN  (v \in Codes => after \in Form) /\ after.status = v
  BY DEF Form
<1> QED BY <1>1, <1>2, <1>3, <1>4, <1>5, <1>6

LEMMA FieldsAreRead ==
  /\ EmptyForm \in Form
  /\ \A form \in Form, field \in Field : ReadField(form, field) \in Form
<1>1. EmptyForm \in Form
  BY DEF EmptyForm, Form, Texts, Ids, Uploads, Codes
<1>2. ASSUME NEW form \in Form, NEW field \in Field PROVE ReadNamed(form, field) \in Form
  <2>1. field.text \in Texts /\ field.text \in Ids /\ field.text \in Uploads
    BY DEF Field, Texts, Ids, Uploads
  <2>2. /\ [form EXCEPT !.message = field.text] \in Form
        /\ [form EXCEPT !.chat_id = field.text] \in Form
        /\ [form EXCEPT !.sender_id = field.text] \in Form
        /\ [form EXCEPT !.file = field.text] \in Form
    BY <2>1, Assigned
  <2>3. [form EXCEPT !.image = TRUE] \in Form
    BY Assigned
  <2>4. Reject(form, 400) \in Form /\ Reject(form, 413) \in Form
    <3>1. 400 \in Codes /\ 413 \in Codes
      BY DEF Codes
    <3>2. \A code \in Codes : Reject(form, code) \in Form
      BY DEF Reject, Form
    <3> QED BY <3>1, <3>2
  <2> QED BY <2>2, <2>3, <2>4 DEF ReadNamed
<1> QED BY <1>1, <1>2 DEF ReadField

\* The loop, field by field.
FormsOf(fields, n, form) ==
  /\ form \in [0 .. n -> Form] /\ form = FormAfter(fields) /\ form[0] = EmptyForm
  /\ \A k \in 1 .. n : form[k] = ReadField(form[k-1], fields[k])

LEMMA FormsAre ==
  ASSUME NEW fields \in Seq(Field), NEW n \in Nat, n = Len(fields)
  PROVE  \E form : FormsOf(fields, n, form)
<1> DEFINE Def(f) == f = [k \in 0 .. n |-> IF k = 0 THEN EmptyForm ELSE ReadField(f[k-1], fields[k])]
<1>1. FormAfter(fields) = CHOOSE f : Def(f)
  BY DEF FormAfter
<1>2. \A k \in 1 .. n : fields[k] \in Field
  OBVIOUS
<1>3. PICK f : /\ f \in [0 .. n -> Form] /\ f[0] = EmptyForm
               /\ \A k \in 1 .. n : f[k] = ReadField(f[k-1], fields[k])
  <2> DEFINE step == [k \in 1 .. n |-> [form \in Form |-> ReadField(form, fields[k])]]
  <2>1. /\ step \in [1 .. n -> [Form -> Form]]
        /\ \A k \in 1 .. n : \A form \in Form : step[k][form] = ReadField(form, fields[k])
    BY <1>2, FieldsAreRead
  <2> HIDE DEF step
  <2>2. PICK f : Iterated(f, n, Form, step, EmptyForm)
    BY <2>1, FieldsAreRead, Iterates
  <2>3. f \in [0 .. n -> Form] /\ f[0] = EmptyForm /\ \A k \in 1 .. n : f[k] = step[k][f[k-1]]
    BY <2>2 DEF Iterated
  <2>4. ASSUME NEW k \in 1 .. n PROVE f[k] = ReadField(f[k-1], fields[k])
    <3>1. f[k-1] \in Form
      <4>1. k - 1 \in 0 .. n
        OBVIOUS
      <4> QED BY <2>3, <4>1
    <3> QED BY <2>1, <2>3, <3>1, Zenon
  <2> QED BY <2>3, <2>4
<1>4. Def(f)
  <2>1. f = [k \in 0 .. n |-> f[k]]
    BY <1>3
  <2>2. \A k \in 0 .. n : f[k] = IF k = 0 THEN EmptyForm ELSE ReadField(f[k-1], fields[k])
    BY <1>3
  <2> QED BY <2>1, <2>2
<1> HIDE DEF Def
<1>5. PICK form : form = FormAfter(fields) /\ Def(form)
  BY <1>1, <1>4
<1>6. /\ form = [k \in 0 .. n |-> form[k]] /\ form[0] = EmptyForm
      /\ \A k \in 1 .. n : form[k] = ReadField(form[k-1], fields[k])
  BY <1>5 DEF Def
<1> DEFINE T == {k \in 0 .. n : form[k] \in Form}
<1>7. T = 0 .. n
  <2>1. 0 \in T /\ T \in SUBSET (0 .. n)
    BY <1>6, FieldsAreRead
  <2>2. \A k \in T : k < n => k + 1 \in T
    <3> SUFFICES ASSUME NEW k \in 0 .. n, form[k] \in Form, k < n PROVE form[k + 1] \in Form
      OBVIOUS
    <3>1. k + 1 \in 1 .. n /\ (k + 1) - 1 = k
      OBVIOUS
    <3>2. form[k + 1] = ReadField(form[k], fields[k + 1])
      BY <1>6, <3>1
    <3> QED BY <1>2, <3>1, <3>2, FieldsAreRead
  <2> HIDE DEF T
  <2> QED BY <2>1, <2>2, UpTo
<1>8. form \in [0 .. n -> Form]
  <2>1. \A k \in 0 .. n : form[k] \in Form
    BY <1>7
  <2> QED BY <1>6, <2>1
<1> QED BY <1>5, <1>6, <1>8 DEF FormsOf

\* The readable fields of a name, and the unacceptable ones, among the first k.
Among(fields, k, name) == {i \in 1 .. k : fields[i].name = name /\ fields[i].readable}
BadAmong(fields, k) ==
  {i \in Among(fields, k, "image") \cup Among(fields, k, "file") : Bad(fields[i])}

IsFirst(i, some) == i \in some /\ \A j \in some : i <= j
IsLast(i, some) == i \in some /\ \A j \in some : j <= i

\* What the first k fields say is what has been read of them.
Refused(fields, k, form) ==
  \E i \in 1 .. k : /\ IsFirst(i, BadAmong(fields, k))
                    /\ form.status = IF fields[i].name = "image" /\ ~fields[i].allowed
                                       THEN 400 ELSE 413
Accepted(fields, k, form) ==
  /\ form.status = 0
  /\ form.image <=> Among(fields, k, "image") # {}
  /\ form.file # NoUpload <=> Among(fields, k, "file") # {}
  /\ Among(fields, k, "message") = {} => form.message = "empty"
  /\ \A i \in 1 .. k : IsLast(i, Among(fields, k, "message")) => form.message = fields[i].text
ReadsRight(fields, k, form) ==
  /\ BadAmong(fields, k) # {} => Refused(fields, k, form)
  /\ BadAmong(fields, k) = {} => Accepted(fields, k, form)

\* One field more.
LEMMA OneFieldMore ==
  ASSUME NEW fields, NEW k \in Nat, NEW form \in Form, NEW x, x = fields[k + 1], x \in Field,
         ReadsRight(fields, k, form)
  PROVE  ReadsRight(fields, k + 1, ReadField(form, x))
<1> DEFINE A(name) == Among(fields, k, name)
           A1(name) == Among(fields, k + 1, name)
           new(name) == x.name = name /\ x.readable
<1>1. \A i \in 1 .. k + 1 : i \in 1 .. k \/ i = k + 1
  OBVIOUS
<1>2. \A name : A1(name) = A(name) \cup (IF new(name) THEN {k + 1} ELSE {})
  BY <1>1 DEF Among
<1>3. \A name : A(name) \subseteq 1 .. k
  BY DEF Among
<1>4. BadAmong(fields, k + 1) =
        BadAmong(fields, k) \cup (IF x.readable /\ Bad(x) THEN {k + 1} ELSE {})
  <2>1. Bad(x) => x.name \in {"image", "file"}
    BY DEF Bad
  <2> QED BY <1>2, <2>1 DEF BadAmong
<1>5. BadAmong(fields, k) \subseteq 1 .. k
  BY <1>3 DEF BadAmong
<1>6. CASE BadAmong(fields, k) # {}
  <2>1. PICK i \in 1 .. k : /\ IsFirst(i, BadAmong(fields, k))
                            /\ form.status = IF fields[i].name = "image" /\ ~fields[i].allowed
                                               THEN 400 ELSE 413
    BY <1>6 DEF ReadsRight, Refused
  <2>2. ReadField(form, x) = form
    BY <2>1 DEF ReadField
  <2>3. IsFirst(i, BadAmong(fields, k + 1)) /\ i \in 1 .. k + 1
    BY <1>4, <2>1 DEF IsFirst
  <2>4. Refused(fields, k + 1, form)
    BY <2>1, <2>3 DEF Refused
  <2> QED BY <1>4, <1>6, <2>2, <2>4 DEF ReadsRight
<1>7. CASE BadAmong(fields, k) = {} /\ x.readable /\ Bad(x)
  <2>1. Accepted(fields, k, form)
    BY <1>7 DEF ReadsRight
  <2>2. ReadField(form, x) = ReadNamed(form, x)
    BY <1>7, <2>1 DEF ReadField, Accepted
  <2>3. ReadNamed(form, x).status = IF x.name = "image" /\ ~x.allowed THEN 400 ELSE 413
    BY <1>7, Assigned DEF ReadNamed, Reject, Bad
  <2>4. BadAmong(fields, k + 1) = {k + 1}
    BY <1>4, <1>7
  <2>5. IsFirst(k + 1, BadAmong(fields, k + 1)) /\ k + 1 \in 1 .. k + 1
    BY <2>4 DEF IsFirst
  <2>6. Refused(fields, k + 1, ReadNamed(form, x))
    BY <2>3, <2>5 DEF Refused
  <2> QED BY <2>2, <2>4, <2>6 DEF ReadsRight
<1>8. CASE BadAmong(fields, k) = {} /\ ~(x.readable /\ Bad(x))
  <2>1. Accepted(fields, k, form)
    BY <1>8 DEF ReadsRight
  <2>2. PICK after \in Form : after = ReadField(form, x)
    BY FieldsAreRead
  <2>3. /\ after.status = 0
        /\ after.image <=> form.image \/ new("image")
        /\ after.file # NoUpload <=> form.file # NoUpload \/ new("file")
        /\ after.message = IF new("message") THEN x.text ELSE form.message
    <3>1. CASE ~x.readable
      <4>1. after = form
        BY <2>2, <3>1 DEF ReadField
      <4> QED BY <2>1, <3>1, <4>1 DEF Accepted
    <3>2. CASE x.readable
      <4>1. after = ReadNamed(form, x) /\ form.status = 0
        BY <2>1, <2>2, <3>2 DEF ReadField, Accepted
      <4>2. x.text # NoUpload
        BY DEF Field, NoUpload
      <4>3. CASE x.name = "message"
        <5>1. after = [form EXCEPT !.message = x.text]
          BY <4>1, <4>3 DEF ReadNamed
        <5> QED BY <3>2, <4>1, <4>3, <5>1, Assigned
      <4>4. CASE x.name = "image"
        <5>1. after = [form EXCEPT !.image = TRUE]
          BY <1>8, <3>2, <4>1, <4>4 DEF ReadNamed, Bad
        <5> QED BY <3>2, <4>1, <4>4, <5>1, Assigned
      <4>5. CASE x.name = "file"
        <5>1. after = [form EXCEPT !.file = x.text]
          BY <1>8, <3>2, <4>1, <4>5 DEF ReadNamed, Bad
        <5> QED BY <3>2, <4>1, <4>2, <4>5, <5>1, Assigned
      <4>6. CASE x.name \notin {"message", "image", "file"}
        <5>1. \/ after = [form EXCEPT !.chat_id = x.text]
              \/ after = [form EXCEPT !.sender_id = x.text]
              \/ after = form
          BY <4>1, <4>6 DEF ReadNamed
        <5>2. /\ after.status = form.status /\ after.image = form.image
              /\ after.file = form.file /\ after.message = form.message
          <6>1. CASE after = [form EXCEPT !.chat_id = x.text]
            BY <6>1, Assigned
          <6>2. CASE after = [form EXCEPT !.sender_id = x.text]
            BY <6>2, Assigned
          <6> QED BY <5>1, <6>1, <6>2
        <5> QED BY <3>2, <4>1, <4>6, <5>2
      <4> QED BY <4>3, <4>4, <4>5, <4>6
    <3> QED BY <3>1, <3>2
  <2>4. A1("message") = {} => after.message = "empty"
    BY <1>2, <2>1, <2>3 DEF Accepted
  <2>5. ASSUME NEW i \in 1 .. k + 1, IsLast(i, A1("message")) PROVE after.message = fields[i].text
    <3>1. CASE new("message")
      <4>1. k + 1 \in A1("message")
        BY <1>2, <3>1
      <4>2. k + 1 <= i
        BY <2>5, <4>1 DEF IsLast
      <4>3. i = k + 1
        BY <4>2
      <4> QED BY <2>3, <3>1, <4>3
    <3>2. CASE ~new("message")
      <4>1. A1("message") = A("message")
        BY <1>2, <3>2
      <4>2. i \in 1 .. k /\ IsLast(i, A("message"))
        BY <1>3, <2>5, <4>1 DEF IsLast
      <4> QED BY <2>1, <2>3, <3>2, <4>2 DEF Accepted
    <3> QED BY <3>1, <3>2
  <2>6. Accepted(fields, k + 1, after)
    <3>1. after.image <=> A1("image") # {}
      BY <1>2, <2>1, <2>3 DEF Accepted
    <3>2. after.file # NoUpload <=> A1("file") # {}
      BY <1>2, <2>1, <2>3 DEF Accepted
    <3> QED BY <2>3, <2>4, <2>5, <3>1, <3>2 DEF Accepted
  <2>7. BadAmong(fields, k + 1) = {}
    BY <1>4, <1>8
  <2> QED BY <2>2, <2>6, <2>7 DEF ReadsRight
<1> QED BY <1>6, <1>7, <1>8

(* Whatever fields a form has and in whatever order they come: it is refused *)
(* for the first unacceptable one, or because it says nothing, and otherwise *)
(* it is read as it was meant (handle_chat_multipart).                       *)
THEOREM FormsAreReadExactly == \A fields \in Seq(Field) : FormExact(fields)
<1> SUFFICES ASSUME NEW fields \in Seq(Field) PROVE FormExact(fields)
  OBVIOUS
<1>1. PICK n \in Nat : n = Len(fields) /\ DOMAIN fields = 1 .. n
  OBVIOUS
<1>2. PICK form : FormsOf(fields, n, form)
  BY <1>1, FormsAre
<1>3. /\ form \in [0 .. n -> Form] /\ form[0] = EmptyForm /\ form[n] = ReadForm(fields)
      /\ \A k \in 1 .. n : form[k] = ReadField(form[k-1], fields[k])
  BY <1>1, <1>2 DEF FormsOf, ReadForm
<1> DEFINE T == {k \in 0 .. n : ReadsRight(fields, k, form[k])}
<1>4. T = 0 .. n
  <2>1. T \in SUBSET (0 .. n)
    OBVIOUS
  <2>2. 0 \in T
    <3>1. \A name : Among(fields, 0, name) = {}
      BY DEF Among
    <3>2. BadAmong(fields, 0) = {}
      BY <3>1 DEF BadAmong
    <3>3. Accepted(fields, 0, EmptyForm)
      BY <3>1 DEF Accepted, EmptyForm, IsLast
    <3> QED BY <1>3, <3>2, <3>3 DEF ReadsRight
  <2>3. ASSUME NEW k \in T, k < n PROVE k + 1 \in T
    <3>1. k \in Nat /\ k + 1 \in 1 .. n /\ (k + 1) - 1 = k /\ k \in 0 .. n
      BY <2>3
    <3>2. form[k] \in Form /\ form[k + 1] = ReadField(form[k], fields[k + 1])
      BY <1>3, <3>1
    <3>3. fields[k + 1] \in Field
      BY <1>1, <3>1
    <3>4. ReadsRight(fields, k + 1, ReadField(form[k], fields[k + 1]))
      BY <3>1, <3>2, <3>3, OneFieldMore
    <3> QED BY <3>1, <3>2, <3>4
  <2> HIDE DEF T
  <2> QED BY <2>1, <2>2, <2>3, UpTo
<1>5. PICK read \in Form : read = ReadForm(fields) /\ ReadsRight(fields, n, read)
  <2>1. n \in T /\ n \in 0 .. n
    BY <1>4
  <2> QED BY <1>3, <2>1
<1>6. \A name : Readable(fields, name) = Among(fields, n, name)
  BY <1>1 DEF Readable, Among
<1> DEFINE bad == {i \in Readable(fields, "image") \cup Readable(fields, "file") : Bad(fields[i])}
           says == \E i \in Readable(fields, "message") :
                     /\ fields[i].text = "words"
                     /\ \A j \in Readable(fields, "message") : j <= i
<1>7. bad = BadAmong(fields, n)
  BY <1>6 DEF BadAmong
<1>8. FormStatus(fields) = IF read.status # 0 THEN read.status
                           ELSE IF IsEmptyForm(read) THEN 400 ELSE 0
  BY <1>5 DEF FormStatus
<1>9. ASSUME bad # {}
      PROVE  \E i \in bad :
               /\ \A j \in bad : i <= j
               /\ FormStatus(fields) =
                    IF fields[i].name = "image" /\ ~fields[i].allowed THEN 400 ELSE 413
  <2>1. PICK i \in 1 .. n : /\ IsFirst(i, bad)
                            /\ read.status = IF fields[i].name = "image" /\ ~fields[i].allowed
                                               THEN 400 ELSE 413
    <3>1. Refused(fields, n, read)
      BY <1>5, <1>7, <1>9 DEF ReadsRight
    <3> HIDE DEF bad
    <3> QED BY <1>7, <3>1 DEF Refused
  <2>2. FormStatus(fields) = read.status
    BY <1>8, <2>1
  <2> HIDE DEF bad
  <2> QED BY <2>1, <2>2 DEF IsFirst
<1>10. ASSUME bad = {}
       PROVE  /\ FormStatus(fields) =
                   IF says \/ Readable(fields, "image") # {} \/ Readable(fields, "file") # {}
                     THEN 0 ELSE 400
              /\ FormStatus(fields) = 0 /\ Content(read) = "default" =>
                   Readable(fields, "image") # {}
  <2>1. Accepted(fields, n, read)
    BY <1>5, <1>7, <1>10 DEF ReadsRight
  <2>2. read.message = "words" <=> says
    <3>1. CASE Readable(fields, "message") = {}
      BY <1>6, <2>1, <3>1 DEF Accepted
    <3>2. CASE Readable(fields, "message") # {}
      <4>1. Readable(fields, "message") \in SUBSET (0 .. n)
        BY <1>1 DEF Readable
      <4>2. PICK i \in Readable(fields, "message") : \A j \in Readable(fields, "message") : j <= i
        BY <3>2, <4>1, GreatestElement
      <4>3. i \in 1 .. n /\ IsLast(i, Among(fields, n, "message"))
        BY <1>1, <1>6, <4>2 DEF IsLast, Readable
      <4>4. read.message = fields[i].text
        BY <2>1, <4>3 DEF Accepted
      <4>5. \A m \in Readable(fields, "message") :
              (\A j \in Readable(fields, "message") : j <= m) => m = i
        BY <4>1, <4>2
      <4> QED BY <4>2, <4>4, <4>5
    <3> QED BY <3>1, <3>2
  <2>3. IsEmptyForm(read) <=>
          ~(says \/ Readable(fields, "image") # {} \/ Readable(fields, "file") # {})
    BY <1>6, <2>1, <2>2 DEF Accepted, IsEmptyForm
  <2>4. read.status = 0
    BY <2>1 DEF Accepted
  <2>5. Content(read) = "default" => read.file = NoUpload /\ read.message = "empty"
    BY DEF Content
  <2>6. ~IsEmptyForm(read) /\ read.file = NoUpload /\ read.message = "empty" => read.image
    BY DEF IsEmptyForm
  <2>7. read.image <=> Readable(fields, "image") # {}
    BY <1>6, <2>1 DEF Accepted
  <2> QED BY <1>8, <2>3, <2>4, <2>5, <2>6, <2>7
<1>11. bad # {} => FormStatus(fields) # 0
  BY <1>9
<1> QED BY <1>5, <1>9, <1>10, <1>11 DEF FormExact
===============================================================================
