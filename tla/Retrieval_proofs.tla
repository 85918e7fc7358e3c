--------------------------- MODULE Retrieval_proofs ---------------------------
EXTENDS SyncCommands, LiveSync, Lemmas

(* A function on 1..n is a sequence of its values.                         *)
LEMMA FunctionIsSequence ==
  ASSUME NEW n \in Nat, NEW f, f = [i \in 1..n |-> f[i]]
  PROVE  /\ f \in Seq(ToSet(f)) /\ Len(f) = n /\ DOMAIN f = 1..n
         /\ ToSet(f) = {f[i] : i \in 1..n}
<1>1. DOMAIN f = 1..n
  OBVIOUS
<1>2. ToSet(f) = {f[i] : i \in 1..n}
  BY <1>1 DEF ToSet
<1>3. f \in [1..n -> ToSet(f)]
  BY <1>2
<1>4. f \in Seq(ToSet(f))
  BY <1>3
<1>5. Len(f) = n
  BY <1>1, <1>4, LenProperties
<1> QED BY <1>1, <1>2, <1>4, <1>5

(* InOrder lists its set.                                                  *)
LEMMA InOrderFacts ==
  ASSUME NEW n \in Nat, NEW S \in SUBSET (1..n)
  PROVE  InOrder(S, n) \in Seq(S) /\ ToSet(InOrder(S, n)) = S
<1> DEFINE step == [k \in 1..n |-> [s \in Seq(S) |-> IF k \in S THEN Append(s, k) ELSE s]]
           Solves(f) == f = [k \in 0..n |-> IF k = 0 THEN <<>>
                               ELSE IF k \in S THEN Append(f[k - 1], k) ELSE f[k - 1]]
<1>1. <<>> \in Seq(S) /\ \A i \in 1..n, s \in Seq(S) : step[i][s] \in Seq(S)
  BY AppendProperties, EmptySeq
<1>2. PICK f \in [0..n -> Seq(S)] : f[0] = <<>> /\ \A k \in 1..n : f[k] = step[k][f[k - 1]]
  <2> DEFINE V == Seq(S)
  <2>1. <<>> \in V /\ \A i \in 1..n, v \in V : step[i][v] \in V
    BY <1>1
  <2> HIDE DEF step, V
  <2>2. \E f : Repeats(f, n, V, <<>>, step)
    BY <2>1, Iterates
  <2> QED BY <2>2 DEF V, Repeats
<1>3. ASSUME NEW k \in 1..n
      PROVE  k - 1 \in 0..n /\ f[k] = IF k \in S THEN Append(f[k - 1], k) ELSE f[k - 1]
  <2>1. k - 1 \in 0..n /\ f[k - 1] \in Seq(S)
    BY <1>2
  <2> QED BY <1>2, <2>1
<1>4. Solves(f)
  <2> DEFINE value(k) == IF k = 0 THEN <<>>
                         ELSE IF k \in S THEN Append(f[k - 1], k) ELSE f[k - 1]
  <2>1. f = [k \in 0..n |-> f[k]]
    OBVIOUS
  <2>2. \A k \in 0..n : k # 0 => k \in 1..n
    OBVIOUS
  <2> HIDE DEF step
  <2>3. \A k \in 0..n : f[k] = value(k)
    BY <1>2, <1>3, <2>2
  <2>4. f = [k \in 0..n |-> value(k)]
    <3> HIDE DEF value
    <3> QED BY <2>1, <2>3
  <2> QED BY ONLY <2>4
<1> DEFINE g == CHOOSE h : Solves(h)
<1>5. Solves(g)
  <2> HIDE DEF Solves
  <2> QED BY <1>4
<1>6. InOrder(S, n) = g[n]
  BY DEF InOrder
<1> HIDE DEF g
<1>7. /\ g[0] = <<>>
      /\ \A k \in 1..n : g[k] = IF k \in S THEN Append(g[k - 1], k) ELSE g[k - 1]
  <2>1. 0 \in 0..n /\ \A k \in 1..n : k \in 0..n /\ k # 0
    OBVIOUS
  <2> QED BY <1>5, <2>1
<1> HIDE DEF Solves
<1> DEFINE Bad == {k \in 0..n : ~(g[k] \in Seq(S) /\ ToSet(g[k]) = S \cap 1..k)}
<1>8. ASSUME Bad # {} PROVE FALSE
  <2>1. PICK m \in Bad : \A k \in Bad : m <= k
    <3>1. Bad \in SUBSET Nat
      OBVIOUS
    <3> HIDE DEF Bad
    <3> QED BY <1>8, <3>1, SmallestMember
  <2>2. m \in 0..n /\ m \in Nat
    OBVIOUS
  <2>3. m # 0
    <3>1. <<>> \in Seq(S) /\ ToSet(<<>>) = {} /\ S \cap 1..0 = {}
      BY EmptySeq DEF ToSet
    <3> QED BY <1>7, <3>1
  <2>4. m - 1 \in 0..n /\ ~(m <= m - 1) /\ m \in 1..n
    BY <2>2, <2>3
  <2>5. g[m - 1] \in Seq(S) /\ ToSet(g[m - 1]) = S \cap 1..(m - 1)
    BY <2>1, <2>4
  <2>6. 1..m = 1..(m - 1) \cup {m}
    BY <2>4
  <2>7. g[m] = IF m \in S THEN Append(g[m - 1], m) ELSE g[m - 1]
    BY <1>7, <2>4
  <2>8. CASE m \in S
    <3>1. g[m] \in Seq(S) /\ ToSet(g[m]) = ToSet(g[m - 1]) \cup {m}
      <4>1. g[m] = Append(g[m - 1], m)
        BY <2>7, <2>8
      <4>2. \A s \in Seq(S), x \in S :
              Append(s, x) \in Seq(S) /\ ToSet(Append(s, x)) = ToSet(s) \cup {x}
        BY AppendFacts
      <4> QED BY ONLY <2>5, <2>8, <4>1, <4>2
    <3> QED BY <2>5, <2>6, <2>8, <3>1
  <2>9. CASE m \notin S
    BY <2>5, <2>6, <2>7, <2>9
  <2> QED BY <2>8, <2>9
<1>9. n \in 0..n /\ S \cap 1..n = S
  <2>1. n \in 0..n
    OBVIOUS
  <2>2. S \cap 1..n = S
    BY Zenon
  <2> QED BY <2>1, <2>2
<1>10. g[n] \in Seq(S) /\ ToSet(g[n]) = S \cap 1..n
  BY <1>8, <1>9
<1> QED BY <1>6, <1>9, <1>10

(* FlattenSeq adds its sequences one by one: f[k] is what the first k of   *)
(* them add up to.                                                         *)
AddsUp(f, s, n, V) ==
  /\ s \in [1..n -> Seq(V)] /\ f \in [0..n -> Seq(V)]
  /\ f[0] = <<>> /\ \A i \in 1..n : f[i] = f[i - 1] \o s[i]

Partial(f, s, n) == \A k \in 0..n : FlattenSeq([j \in 1..k |-> s[j]]) = f[k]

LEMMA FlattenFacts ==
  ASSUME NEW V, NEW n \in Nat, NEW s \in [1..n -> Seq(V)]
  PROVE  \E f : AddsUp(f, s, n, V) /\ Partial(f, s, n)
<1> DEFINE W == Seq(V)
           step == [i \in 1..n |-> [u \in W |-> u \o s[i]]]
<1>1. <<>> \in W /\ \A i \in 1..n, u \in W : step[i][u] \in W
  BY ConcatProperties, EmptySeq
<1>2. PICK f \in [0..n -> W] : f[0] = <<>> /\ \A i \in 1..n : f[i] = step[i][f[i - 1]]
  <2> HIDE DEF W, step
  <2>1. \E f : Repeats(f, n, W, <<>>, step)
    BY <1>1, Iterates
  <2> QED BY <2>1 DEF Repeats
<1>3. ASSUME NEW i \in 1..n
      PROVE  i - 1 \in 0..n /\ i \in 0..n /\ f[i - 1] \in W /\ f[i] = f[i - 1] \o s[i]
  <2>1. i - 1 \in 0..n /\ i \in 0..n
    OBVIOUS
  <2>2. f[i - 1] \in W
    BY <1>2, <2>1
  <2> QED BY <1>2, <2>1, <2>2
<1> HIDE DEF step
<1>0. 1 \in 1..n => f[1] = <<>> \o s[1] /\ s[1] \in Seq(V)
  <2>1. 1 - 1 = 0
    OBVIOUS
  <2> QED BY <1>2, <1>3, <2>1
<1>4. ASSUME NEW k \in 1..n
      PROVE  FlattenSeq([j \in 1..k |-> s[j]]) = f[k]
  <2> DEFINE t == [j \in 1..k |-> s[j]]
             value(h, i) == IF i = 1 THEN t[i] ELSE h[i - 1] \o t[i]
             Solves(h) == h = [i \in 1..k |-> value(h, i)]
             d == [i \in 1..k |-> f[i]]
  <2>1. Len(t) = k /\ Len(t) # 0 /\ k \in Nat
    BY FunctionIsSequence
  <2>2. ASSUME NEW i \in 1..k PROVE t[i] = s[i] /\ i \in 1..n /\ s[i] \in W
    BY <2>1
  <2>3. Solves(d)
    <3>1. ASSUME NEW i \in 1..k PROVE d[i] = value(d, i)
      <4>1. CASE i = 1
        <5>1. f[1] = <<>> \o s[1] /\ s[1] \in Seq(V)
          BY <1>0, <2>2, <4>1
        <5> QED BY <2>2, <4>1, <5>1, ConcatEmptySeq
      <4>2. CASE i # 1
        <5>1. i - 1 \in 1..k /\ d[i - 1] = f[i - 1]
          BY <4>2
        <5> QED BY <1>3, <2>2, <4>2, <5>1
      <4> QED BY <4>1, <4>2
    <3>2. d = [i \in 1..k |-> d[i]]
      OBVIOUS
    <3> HIDE DEF d, value
    <3> QED BY <3>1, <3>2
  <2> DEFINE g == CHOOSE h : Solves(h)
  <2>4. Solves(g)
    <3> HIDE DEF Solves, d
    <3> QED BY <2>3
  <2>5. FlattenSeq(t) = g[k]
    <3> HIDE DEF t
    <3> QED BY <2>1 DEF FlattenSeq
  <2> HIDE DEF g
  <2>6. \A i \in 1..k : g[i] = value(g, i)
    BY <2>4
  <2> DEFINE Bad == {i \in 1..k : g[i] # f[i]}
  <2>7. ASSUME Bad # {} PROVE FALSE
    <3>1. PICK m \in Bad : \A i \in Bad : m <= i
      <4>1. Bad \in SUBSET Nat
        OBVIOUS
      <4> HIDE DEF Bad
      <4> QED BY <2>7, <4>1, SmallestMember
    <3>2. m \in 1..k /\ m \in 1..n /\ g[m] # f[m]
      BY <2>2
    <3>3. CASE m = 1
      <4>1. f[1] = <<>> \o s[1] /\ s[1] \in Seq(V)
        BY <1>0, <3>2, <3>3
      <4>2. g[1] = s[1]
        BY <2>2, <2>6, <3>2, <3>3
      <4> QED BY <3>2, <3>3, <4>1, <4>2, ConcatEmptySeq
    <3>4. CASE m # 1
      <4>1. m - 1 \in 1..k /\ ~(m <= m - 1)
        BY <3>2, <3>4
      <4>2. g[m - 1] = f[m - 1]
        BY <3>1, <4>1
      <4>3. g[m] = g[m - 1] \o s[m]
        BY <2>2, <2>6, <3>2, <3>4
      <4> QED BY <1>3, <3>2, <4>2, <4>3
    <3> QED BY <3>3, <3>4
  <2>8. k \in 1..k
    OBVIOUS
  <2> QED BY <2>5, <2>7, <2>8
<1>5. FlattenSeq([j \in 1..0 |-> s[j]]) = f[0]
  <2> DEFINE t == [j \in 1..0 |-> s[j]]
  <2>1. Len(t) = 0 /\ t \in Seq(ToSet(t))
    BY FunctionIsSequence
  <2>2. t = <<>>
    BY <2>1, EmptySeq
  <2> HIDE DEF t
  <2>3. FlattenSeq(t) = t
    BY <2>1 DEF FlattenSeq
  <2> QED BY <1>2, <2>2, <2>3 DEF t
<1>6. \A k \in 0..n : k = 0 \/ k \in 1..n
  OBVIOUS
<1>7. \A k \in 0..n : FlattenSeq([j \in 1..k |-> s[j]]) = f[k]
  BY <1>4, <1>5, <1>6
<1> QED BY <1>2, <1>3, <1>7 DEF AddsUp, Partial

(* Where the i-th of the added sequences stands in the sum.                *)
StandsIn(f, s, n, i) ==
  /\ Len(f[i - 1]) \in Nat /\ Len(s[i]) \in Nat /\ Len(f[n]) \in Nat
  /\ Len(f[i - 1]) + Len(s[i]) <= Len(f[n])
  /\ \A j \in 1..Len(s[i]) : f[n][Len(f[i - 1]) + j] = s[i][j]

LEMMA FlattenPlaces ==
  ASSUME NEW V, NEW n \in Nat, NEW s, NEW f, AddsUp(f, s, n, V), NEW i \in 1..n
  PROVE  StandsIn(f, s, n, i)
<1>0. /\ s \in [1..n -> Seq(V)] /\ f \in [0..n -> Seq(V)]
      /\ f[0] = <<>> /\ \A k \in 1..n : f[k] = f[k - 1] \o s[k]
  BY DEF AddsUp
<1> DEFINE Begins(g, h) == Len(g) <= Len(h) /\ \A j \in 1..Len(g) : h[j] = g[j]
<1>1. ASSUME NEW k \in 1..n
      PROVE  /\ k - 1 \in 0..n /\ k \in 0..n /\ f[k - 1] \in Seq(V) /\ f[k] \in Seq(V)
             /\ Len(f[k - 1]) \in Nat /\ Len(s[k]) \in Nat
             /\ Len(f[k]) = Len(f[k - 1]) + Len(s[k]) /\ Begins(f[k - 1], f[k])
             /\ \A j \in 1..Len(s[k]) : f[k][Len(f[k - 1]) + j] = s[k][j]
  <2>1. k - 1 \in 0..n /\ k \in 0..n /\ s[k] \in Seq(V)
    BY <1>0
  <2>2. f[k - 1] \in Seq(V) /\ f[k] = f[k - 1] \o s[k] /\ f[k] \in Seq(V)
    BY <1>0, <2>1
  <2>3. \A u, v \in Seq(V) :
          /\ Len(u) \in Nat /\ Len(v) \in Nat /\ Len(u \o v) = Len(u) + Len(v)
          /\ \A j \in 1..(Len(u) + Len(v)) : (u \o v)[j] = IF j <= Len(u) THEN u[j] ELSE v[j - Len(u)]
    BY ConcatProperties, LenProperties
  <2>4. ASSUME NEW u \in Seq(V), NEW v \in Seq(V)
        PROVE  Begins(u, u \o v) /\ \A j \in 1..Len(v) : (u \o v)[Len(u) + j] = v[j]
    <3>1. /\ Len(u) \in Nat /\ Len(v) \in Nat /\ Len(u \o v) = Len(u) + Len(v)
          /\ \A j \in 1..(Len(u) + Len(v)) : (u \o v)[j] = IF j <= Len(u) THEN u[j] ELSE v[j - Len(u)]
      BY <2>3
    <3>2. Begins(u, u \o v)
      BY <3>1
    <3>3. ASSUME NEW j \in 1..Len(v) PROVE (u \o v)[Len(u) + j] = v[j]
      <4>1. /\ Len(u) + j \in 1..(Len(u) + Len(v)) /\ ~(Len(u) + j <= Len(u))
            /\ (Len(u) + j) - Len(u) = j
        <5>1. \A a, b \in Nat : \A c \in 1..b :
                a + c \in 1..(a + b) /\ ~(a + c <= a) /\ (a + c) - a = c
          OBVIOUS
        <5> QED BY ONLY <3>1, <5>1, j \in 1..Len(v)
      <4> QED BY <3>1, <4>1
    <3> QED BY <3>2, <3>3
  <2>5. /\ Len(f[k - 1]) \in Nat /\ Len(s[k]) \in Nat
        /\ Len(f[k - 1] \o s[k]) = Len(f[k - 1]) + Len(s[k])
    BY <2>1, <2>2, <2>3
  <2>6. /\ Begins(f[k - 1], f[k - 1] \o s[k])
        /\ \A j \in 1..Len(s[k]) : (f[k - 1] \o s[k])[Len(f[k - 1]) + j] = s[k][j]
    <3> HIDE DEF Begins
    <3> QED BY <2>1, <2>2, <2>4
  <2>7. f[k] = f[k - 1] \o s[k]
    BY <2>2
  <2> HIDE DEF Begins
  <2> QED BY ONLY <2>1, <2>2, <2>5, <2>6, <2>7
<1>2. \A k \in 0..n : Len(f[k]) \in Nat
  BY <1>0, LenProperties
<1> DEFINE Bad == {k \in i..n : ~Begins(f[i], f[k])}
<1>3. ASSUME Bad # {} PROVE FALSE
  <2>1. PICK m \in Bad : \A k \in Bad : m <= k
    <3>1. Bad \in SUBSET Nat
      OBVIOUS
    <3> HIDE DEF Bad
    <3> QED BY <1>3, <3>1, SmallestMember
  <2>2. m \in i..n /\ i \in 0..n /\ ~Begins(f[i], f[m])
    OBVIOUS
  <2>3. m # i
    BY <1>2, <2>2
  <2>4. m \in 1..n /\ m - 1 \in i..n /\ ~(m <= m - 1) /\ m - 1 \in 0..n /\ m \in 0..n
    BY <2>2, <2>3
  <2>5. Begins(f[i], f[m - 1])
    BY <2>1, <2>4
  <2>6. Begins(f[m - 1], f[m])
    BY <1>1, <2>4
  <2>7. Begins(f[i], f[m])
    <3>1. Len(f[i]) \in Nat /\ Len(f[m - 1]) \in Nat /\ Len(f[m]) \in Nat
      BY <1>2, <2>2, <2>4
    <3>2. Len(f[i]) <= Len(f[m])
      BY <2>5, <2>6, <3>1
    <3>3. ASSUME NEW j \in 1..Len(f[i]) PROVE f[m][j] = f[i][j]
      <4>1. j \in 1..Len(f[m - 1])
        BY <2>5, <3>1
      <4> QED BY <2>5, <2>6, <4>1
    <3> QED BY <3>2, <3>3
  <2> QED BY <2>2, <2>7
<1>4. Begins(f[i], f[n])
  <2>1. n \in i..n
    OBVIOUS
  <2> QED BY <1>3, <2>1
<1>5. ASSUME NEW j \in 1..Len(s[i]) PROVE f[n][Len(f[i - 1]) + j] = s[i][j]
  <2>1. Len(f[i - 1]) + j \in 1..Len(f[i])
    <3>1. \A a, b \in Nat : \A c \in 1..b : a + c \in 1..(a + b)
      OBVIOUS
    <3>2. Len(f[i - 1]) \in Nat /\ Len(s[i]) \in Nat /\ Len(f[i]) = Len(f[i - 1]) + Len(s[i])
      BY <1>1
    <3> QED BY <3>1, <3>2
  <2> QED BY <1>1, <1>4, <2>1
<1>6. n \in 0..n
  OBVIOUS
<1> QED BY <1>1, <1>2, <1>4, <1>5, <1>6 DEF StandsIn

(* A file of a first cell, a body and a last cell; a slice of a file.      *)
LEMMA FramedFacts ==
  ASSUME NEW W, NEW a \in W, NEW b \in Seq(W), NEW c \in W
  PROVE  /\ <<a>> \in Seq(W) /\ Len(<<a>>) = 1 /\ <<a>>[1] = a
         /\ <<a>> \o b \in Seq(W) /\ Len(<<a>> \o b) = Len(b) + 1 /\ Len(b) \in Nat
         /\ (<<a>> \o b)[1] = a /\ \A i \in 1..Len(b) : (<<a>> \o b)[i + 1] = b[i]
         /\ <<a>> \o b \o <<c>> \in Seq(W) /\ Len(<<a>> \o b \o <<c>>) = Len(b) + 2
         /\ (<<a>> \o b \o <<c>>)[1] = a /\ (<<a>> \o b \o <<c>>)[Len(b) + 2] = c
         /\ \A i \in 1..Len(b) : (<<a>> \o b \o <<c>>)[i + 1] = b[i]
<1>1. \A x \in W : <<x>> \in Seq(W) /\ Len(<<x>>) = 1 /\ <<x>>[1] = x
  OBVIOUS
<1>2. \A u, v \in Seq(W) :
        /\ u \o v \in Seq(W) /\ Len(u) \in Nat /\ Len(v) \in Nat /\ Len(u \o v) = Len(u) + Len(v)
        /\ \A j \in 1..(Len(u) + Len(v)) : (u \o v)[j] = IF j <= Len(u) THEN u[j] ELSE v[j - Len(u)]
  BY ConcatProperties, LenProperties
<1> DEFINE n == Len(b)
           d == <<a>> \o b
<1>3. n \in Nat
  BY LenProperties
<1>4. /\ d \in Seq(W) /\ Len(d) = 1 + n
      /\ \A j \in 1..(1 + n) : d[j] = IF j <= 1 THEN <<a>>[j] ELSE b[j - 1]
  <2>1. <<a>> \in Seq(W) /\ Len(<<a>>) = 1
    BY <1>1
  <2> QED BY <1>2, <2>1
<1>5. d[1] = a /\ \A i \in 1..n : d[i + 1] = b[i]
  <2>1. 1 \in 1..(1 + n) /\ \A i \in 1..n : i + 1 \in 1..(1 + n) /\ ~(i + 1 <= 1) /\ (i + 1) - 1 = i
    BY <1>3
  <2> QED BY <1>1, <1>4, <2>1
<1> HIDE DEF d
<1>6. /\ d \o <<c>> \in Seq(W) /\ Len(d \o <<c>>) = n + 2
      /\ \A j \in 1..(n + 2) : (d \o <<c>>)[j] = IF j <= n + 1 THEN d[j] ELSE <<c>>[j - (n + 1)]
  <2>1. <<c>> \in Seq(W) /\ Len(<<c>>) = 1
    BY <1>1
  <2>2. /\ d \o <<c>> \in Seq(W) /\ Len(d \o <<c>>) = Len(d) + 1
        /\ \A j \in 1..(Len(d) + 1) : (d \o <<c>>)[j] = IF j <= Len(d) THEN d[j] ELSE <<c>>[j - Len(d)]
    BY <1>2, <1>4, <2>1
  <2>3. Len(d) + 1 = n + 2 /\ Len(d) = n + 1
    BY <1>3, <1>4
  <2> QED BY <2>2, <2>3
<1>7. /\ (d \o <<c>>)[1] = a /\ (d \o <<c>>)[n + 2] = c
      /\ \A i \in 1..n : (d \o <<c>>)[i + 1] = b[i]
  <2>1. /\ 1 \in 1..(n + 2) /\ 1 <= n + 1 /\ n + 2 \in 1..(n + 2) /\ ~(n + 2 <= n + 1)
        /\ (n + 2) - (n + 1) = 1
        /\ \A i \in 1..n : i + 1 \in 1..(n + 2) /\ i + 1 <= n + 1
    BY <1>3
  <2>2. <<c>>[1] = c
    BY <1>1
  <2> HIDE DEF n
  <2> QED BY <1>5, <1>6, <2>1, <2>2
<1>8. Len(d) = n + 1
  BY <1>3, <1>4
<1> QED BY <1>1, <1>3, <1>4, <1>5, <1>6, <1>7, <1>8 DEF d

LEMMA SliceIs ==
  ASSUME NEW W, NEW file \in Seq(W), NEW t \in Seq(W), NEW o \in Nat \ {0},
         o + Len(t) - 1 <= Len(file), \A j \in 1..Len(t) : file[o + j - 1] = t[j]
  PROVE  SubSeq(file, o, o + Len(t) - 1) = t
<1> DEFINE n == Len(t)
           u == SubSeq(file, o, o + n - 1)
<1>1. n \in Nat /\ Len(file) \in Nat /\ t \in [1..n -> W] /\ \A i \in 1..Len(file) : file[i] \in W
  BY LenProperties
<1>2. o \in Int /\ o + n - 1 \in Int /\ \A i \in o..(o + n - 1) : file[i] \in W
  <2>1. \A i \in o..(o + n - 1) : i \in 1..Len(file)
    BY <1>1
  <2> QED BY <1>1, <2>1
<1>3. /\ u \in Seq(W) /\ Len(u) = IF o <= o + n - 1 THEN (o + n - 1) - o + 1 ELSE 0
      /\ \A i \in 1..((o + n - 1) - o + 1) : u[i] = file[o + i - 1]
  <2> HIDE DEF n
  <2> QED BY <1>2, SubSeqProperties
<1>4. Len(u) = n /\ \A i \in 1..n : u[i] = file[o + i - 1]
  <2> HIDE DEF u, n
  <2>1. (o + n - 1) - o + 1 = n /\ (o <= o + n - 1 <=> n # 0)
    BY <1>1
  <2> QED BY <1>3, <2>1
<1>5. u \in [1..n -> W]
  BY <1>3, <1>4, LenProperties
<1>6. \A i \in 1..n : u[i] = t[i]
  BY <1>4
<1> HIDE DEF u, n
<1>7. u = t
  BY <1>1, <1>5, <1>6
<1> QED BY <1>7 DEF u, n

(* codec::write: a file of what was encoded is one that codec::read takes. *)
LEMMA EncodeIsSound ==
  ASSUME NEW new, new.files \in Seq(ToSet(new.files)), NEW previous, NEW fresh
  PROVE  Sound(Encode(new, previous, fresh))
<1> DEFINE e == Encode(new, previous, fresh)
           segs == [i \in 1..6 |-> Segment(new, Kinds[i])]
           V == UNION {ToSet(segs[i]) : i \in 1..6}
           at == e.superblock[2].offset
           gen == e.table[2]
           file == FileOf(e)
<1>1. DOMAIN Kinds = 1..6
  BY DEF Kinds
<1>2. ASSUME NEW i \in 1..6 PROVE segs[i] \in Seq(V)
  <2>1. segs[i] \in Seq(ToSet(segs[i]))
    <3>1. ASSUME NEW x PROVE <<x>> \in Seq(ToSet(<<x>>))
      <4>1. <<x>> = [k \in 1..1 |-> <<x>>[k]]
        OBVIOUS
      <4> QED BY <4>1, FunctionIsSequence
    <3>2. CASE i = 2
      <4>1. DOMAIN new.files = 1..Len(new.files) /\ Len(new.files) \in Nat
        BY LenProperties
      <4>2. segs[i] = [k \in 1..Len(new.files) |-> <<"files", new.files[k]>>]
        BY <3>2, <4>1 DEF Segment, Kinds
      <4>3. segs[i] = [k \in 1..Len(new.files) |-> segs[i][k]]
        BY <4>2
      <4> HIDE DEF segs
      <4> QED BY <4>1, <4>3, FunctionIsSequence
    <3>3. CASE i # 2
      <4>1. \E x : segs[i] = <<x>>
        <5>1. /\ segs[1] = <<<<"strings", Strings(new)>>>>
              /\ segs[3] = <<<<"chunks", new.lengths>>>>
              /\ segs[4] = <<<<"postings", new.postings>>>>
              /\ segs[5] = <<<<"exact", new.exact>>>>
              /\ segs[6] = <<<<"statistics", <<Len(new.files), Cardinality(DOMAIN new.postings),
                                              Cardinality(DOMAIN new.exact)>>>>>>
          <6>1. /\ Segment(new, "strings") = <<<<"strings", Strings(new)>>>>
                /\ Segment(new, "chunks") = <<<<"chunks", new.lengths>>>>
                /\ Segment(new, "postings") = <<<<"postings", new.postings>>>>
                /\ Segment(new, "exact") = <<<<"exact", new.exact>>>>
            BY DEF Segment
          <6>2. Segment(new, "statistics") =
                  <<<<"statistics", <<Len(new.files), Cardinality(DOMAIN new.postings),
                                      Cardinality(DOMAIN new.exact)>>>>>>
            BY DEF Segment
          <6>3. /\ Kinds[1] = "strings" /\ Kinds[3] = "chunks" /\ Kinds[4] = "postings"
                /\ Kinds[5] = "exact" /\ Kinds[6] = "statistics"
            BY DEF Kinds
          <6> QED BY <6>1, <6>2, <6>3
        <5>2. i \in {1, 3, 4, 5, 6}
          BY <3>3
        <5> HIDE DEF segs
        <5> QED BY <5>1, <5>2
      <4> HIDE DEF segs
      <4> QED BY <3>1, <4>1
    <3> QED BY <3>2, <3>3
  <2>2. ToSet(segs[i]) \subseteq V
    OBVIOUS
  <2> HIDE DEF segs, V
  <2> QED BY <2>1, <2>2
<1>3. segs \in [1..6 -> Seq(V)]
  <2> HIDE DEF V
  <2> QED BY <1>2
<1>4. PICK f : AddsUp(f, segs, 6, V) /\ Partial(f, segs, 6)
  <2> HIDE DEF segs, V
  <2>1. \A n \in Nat : segs \in [1..n -> Seq(V)] =>
          \E f : AddsUp(f, segs, n, V) /\ Partial(f, segs, n)
    BY FlattenFacts
  <2> QED BY <1>3, <2>1
<1>5. \A k \in 0..6 : FlattenSeq([j \in 1..k |-> Segment(new, Kinds[j])]) = f[k]
  <2> SUFFICES ASSUME NEW k \in 0..6 PROVE FlattenSeq([j \in 1..k |-> Segment(new, Kinds[j])]) = f[k]
    OBVIOUS
  <2>1. [j \in 1..k |-> Segment(new, Kinds[j])] = [j \in 1..k |-> segs[j]]
    OBVIOUS
  <2> HIDE DEF segs
  <2> QED BY <1>4, <2>1 DEF Partial
<1>6. e.body = f[6] /\ Body(new) = f[6]
  BY <1>1, <1>5 DEF Encode, Body
<1>7. ASSUME NEW i \in 1..6
      PROVE  /\ gen.segments[i].offset = 2 + Len(f[i - 1])
             /\ gen.segments[i].cells = Len(segs[i])
             /\ gen.segments[i].hash = segs[i]
  <2>1. FlattenSeq([j \in 1..(i - 1) |-> Segment(new, Kinds[j])]) = f[i - 1]
    <3>1. i - 1 \in 0..6
      OBVIOUS
    <3> QED BY <1>5, <3>1
  <2>2. gen.segments[i] =
          [kind |-> Kinds[i],
           offset |-> 2 + Len(FlattenSeq([j \in 1..(i - 1) |-> Segment(new, Kinds[j])])),
           cells |-> Len(Segment(new, Kinds[i])), hash |-> Segment(new, Kinds[i])]
    BY <1>1 DEF Encode, GenerationTable
  <2> QED BY <2>1, <2>2
<1>8. /\ at = 2 + Len(f[6]) /\ e.superblock[1] = "superblock"
      /\ e.superblock[2].hash = e.table /\ Len(e.superblock) = 2
  BY <1>6 DEF Encode
<1> DEFINE W == V \cup {e.superblock, e.table}
<1>9. /\ file \in Seq(W) /\ Len(file) = Len(f[6]) + 2 /\ Len(f[6]) \in Nat /\ f[6] \in Seq(W)
      /\ file[1] = e.superblock /\ file[at] = e.table
      /\ \A j \in 1..Len(f[6]) : file[j + 1] = f[6][j]
  <2> HIDE DEF V, segs
  <2>1. f[6] \in Seq(V)
    BY <1>4 DEF AddsUp
  <2>2. f[6] \in Seq(W) /\ e.superblock \in W /\ e.table \in W
    BY <2>1
  <2> HIDE DEF W, e
  <2> QED BY <1>6, <1>8, <2>2, FramedFacts DEF FileOf
<1>10. ASSUME NEW i \in 1..6 PROVE SegmentIntact(file, gen.segments[i])
  <2> DEFINE o == 2 + Len(f[i - 1])
             t == segs[i]
  <2>1. /\ Len(f[i - 1]) \in Nat /\ Len(t) \in Nat /\ Len(f[i - 1]) + Len(t) <= Len(f[6])
        /\ \A j \in 1..Len(t) : f[6][Len(f[i - 1]) + j] = t[j]
    <3> HIDE DEF segs, V, t
    <3>1. \A n \in Nat : \A k \in 1..n : AddsUp(f, segs, n, V) => StandsIn(f, segs, n, k)
      BY FlattenPlaces
    <3>2. StandsIn(f, segs, 6, i)
      BY <1>4, <3>1
    <3> QED BY <3>2 DEF t, StandsIn
  <2>2. t \in Seq(W)
    <3>1. t \in Seq(V)
      BY <1>2
    <3> HIDE DEF segs, V, e, t
    <3> QED BY <3>1
  <2> HIDE DEF segs, V, W, t, e, file
  <2>3. o \in Nat \ {0} /\ o + Len(t) - 1 <= Len(file)
    <3>1. \A a, b, c \in Nat : a + b <= c => 2 + a \in Nat \ {0} /\ (2 + a) + b - 1 <= c + 2
      OBVIOUS
    <3> QED BY ONLY <1>9, <2>1, <3>1
  <2>4. ASSUME NEW j \in 1..Len(t) PROVE file[o + j - 1] = t[j]
    <3>1. Len(f[i - 1]) + j \in 1..Len(f[6]) /\ o + j - 1 = (Len(f[i - 1]) + j) + 1
      <4>1. \A a, b, c \in Nat : \A k \in 1..b :
              a + b <= c => a + k \in 1..c /\ (2 + a) + k - 1 = (a + k) + 1
        OBVIOUS
      <4> QED BY ONLY <1>9, <2>1, <4>1, j \in 1..Len(t)
    <3> QED BY <1>9, <2>1, <3>1
  <2> HIDE DEF o
  <2>5. SubSeq(file, o, o + Len(t) - 1) = t
    BY <1>9, <2>2, <2>3, <2>4, SliceIs
  <2>6. /\ gen.segments[i].offset = o /\ gen.segments[i].cells = Len(t)
        /\ gen.segments[i].hash = t
    BY <1>7 DEF o, t
  <2> QED BY <2>3, <2>5, <2>6 DEF SegmentIntact, SegmentSlice
<1>11. e.body \in Seq(ToSet(e.body))
  <2>1. f[6] \in Seq(V)
    BY <1>4 DEF AddsUp
  <2>2. f[6] = [k \in 1..Len(f[6]) |-> f[6][k]] /\ Len(f[6]) \in Nat
    BY <2>1, LenProperties
  <2> HIDE DEF e
  <2> QED BY <1>6, <2>2, FunctionIsSequence
<1>12. file # NoFile /\ file # <<>>
  <2>1. file[1][1] = "superblock" /\ NoFile[1][1] = "no file"
    BY <1>8, <1>9 DEF NoFile
  <2>2. Len(file) # 0
    BY <1>9
  <2> HIDE DEF file, e
  <2>3. file # NoFile
    BY <2>1
  <2> QED BY <2>2, <2>3
<1>13. Readable(file)
  <2>1. file[1] = e.superblock /\ file[1][2].offset = at /\ file[1][2].hash = e.table
    BY <1>8, <1>9
  <2>2. at <= Len(file) /\ file[at] = e.table /\ file[at][2] = gen
    BY <1>8, <1>9
  <2> HIDE DEF file, e, at, gen
  <2> QED BY <1>1, <1>8, <1>10, <1>12, <2>1, <2>2 DEF Readable
<1> QED BY <1>9, <1>11, <1>12, <1>13 DEF Sound

(* Writing at the end of a file adds to it.                                *)
LEMMA WriteIs ==
  ASSUME NEW W, NEW file \in Seq(W), NEW cells \in Seq(W), NEW at, at = Len(file) + 1
  PROVE  WriteAt(file, at, cells) = file \o cells
<1> DEFINE m == Len(file)
           n == Len(cells)
           u == file \o cells
           value(i) == IF i >= at /\ i <= m + n THEN cells[i - at + 1]
                       ELSE IF i <= m THEN file[i] ELSE Hole
<1>1. m \in Nat /\ n \in Nat
  BY LenProperties
<1>2. /\ u \in Seq(W) /\ Len(u) = m + n
      /\ \A i \in 1..(m + n) : u[i] = IF i <= m THEN file[i] ELSE cells[i - m]
  BY ConcatProperties
<1>3. u = [i \in 1..(m + n) |-> u[i]]
  <2> HIDE DEF u, m, n
  <2> QED BY <1>2, LenProperties
<1>4. WriteAt(file, at, cells) = [i \in 1..(m + n) |-> value(i)]
  <2>1. at + n - 1 = m + n /\ (IF m > m + n THEN m ELSE m + n) = m + n
    <3> HIDE DEF m, n
    <3>1. at = m + 1
      BY DEF m
    <3> QED BY <1>1, <3>1
  <2>2. WriteAt(file, at, cells) =
          [i \in 1..(IF m > at + n - 1 THEN m ELSE at + n - 1) |->
             IF i >= at /\ i <= at + n - 1 THEN cells[i - at + 1]
             ELSE IF i <= m THEN file[i] ELSE Hole]
    BY DEF WriteAt
  <2> HIDE DEF m, n
  <2> QED BY <2>1, <2>2
<1>5. \A i \in 1..(m + n) : value(i) = u[i]
  <2> HIDE DEF m, n, u
  <2>1. at = m + 1
    BY DEF m
  <2>2. \A i \in 1..(m + n) : /\ i >= at <=> ~(i <= m)
                              /\ i <= m + n /\ i - at + 1 = i - m
    BY <1>1, <2>1
  <2> QED BY <1>2, <2>2
<1> HIDE DEF m, n, u, value
<1>6. [i \in 1..(m + n) |-> value(i)] = [i \in 1..(m + n) |-> u[i]]
  BY <1>5
<1> QED BY <1>3, <1>4, <1>6 DEF u

(* The three writes of codec::write.                                       *)
LEMMA WritesFacts ==
  ASSUME NEW new, new.body \in Seq(ToSet(new.body))
  PROVE  /\ WriteAt(<<>>, 1, <<new.superblock>>) = <<new.superblock>>
         /\ WriteAt(<<new.superblock>>, 2, new.body) = <<new.superblock>> \o new.body
         /\ WriteAt(<<new.superblock>> \o new.body, 2 + Len(new.body), <<new.table>>) = FileOf(new)
<1> DEFINE W == ToSet(new.body) \cup {new.superblock, new.table}
           a == new.superblock
           b == new.body
           c == new.table
<1>1. a \in W /\ c \in W /\ b \in Seq(W)
  <2> DEFINE V == ToSet(b)
  <2>1. V \subseteq W
    OBVIOUS
  <2>2. b \in Seq(V)
    OBVIOUS
  <2> HIDE DEF V, b
  <2>3. b \in Seq(W)
    <3> HIDE DEF W
    <3> QED BY <2>1, <2>2
  <2> QED BY <2>3
<1> HIDE DEF W
<1>2. /\ <<a>> \in Seq(W) /\ Len(<<a>>) = 1 /\ <<c>> \in Seq(W)
      /\ <<a>> \o b \in Seq(W) /\ Len(<<a>> \o b) = Len(b) + 1 /\ Len(b) \in Nat
  <2> HIDE DEF a, b, c
  <2>1. /\ <<a>> \in Seq(W) /\ Len(<<a>>) = 1
        /\ <<a>> \o b \in Seq(W) /\ Len(<<a>> \o b) = Len(b) + 1 /\ Len(b) \in Nat
    BY <1>1, FramedFacts
  <2>2. <<c>> \in Seq(W)
    BY <1>1
  <2> QED BY <2>1, <2>2
<1>3. WriteAt(<<>>, 1, <<a>>) = <<a>>
  <2> HIDE DEF a
  <2>1. <<>> \in Seq(W) /\ 1 = Len(<<>>) + 1
    OBVIOUS
  <2>2. WriteAt(<<>>, 1, <<a>>) = <<>> \o <<a>>
    BY <1>2, <2>1, WriteIs
  <2> QED BY <1>2, <2>2, ConcatEmptySeq
<1>4. WriteAt(<<a>>, 2, b) = <<a>> \o b
  <2> HIDE DEF a, b
  <2>1. 2 = Len(<<a>>) + 1
    BY <1>2
  <2> QED BY <1>1, <1>2, <2>1, WriteIs
<1>5. WriteAt(<<a>> \o b, 2 + Len(b), <<c>>) = <<a>> \o b \o <<c>>
  <2> HIDE DEF a, b, c
  <2> DEFINE d == <<a>> \o b
  <2>1. 2 + Len(b) = Len(d) + 1 /\ d \in Seq(W)
    BY <1>2
  <2> HIDE DEF d
  <2>2. WriteAt(d, 2 + Len(b), <<c>>) = d \o <<c>>
    BY <1>2, <2>1, WriteIs
  <2> QED BY <2>2 DEF d
<1> QED BY <1>3, <1>4, <1>5 DEF FileOf

(* The walk's order of a set of paths lists that set.                      *)
LEMMA WalkOrderFacts ==
  ASSUME NEW part \in SUBSET AllPaths
  PROVE  InWalkOrder(part) \in Seq(part) /\ ToSet(InWalkOrder(part)) = part
<1> DEFINE n == Len(PathOrder)
           S == {i \in DOMAIN PathOrder : PathOrder[i] \in part}
           at == InOrder(S, n)
           listed == InWalkOrder(part)
<1>1. n \in Nat /\ DOMAIN PathOrder = 1..n
  BY TqiAssumption, LenProperties
<1>2. at \in Seq(S) /\ ToSet(at) = S
  <2>1. S \in SUBSET (1..n)
    BY <1>1
  <2> HIDE DEF S, n
  <2> QED BY <1>1, <2>1, InOrderFacts
<1> DEFINE m == Len(at)
<1>3. m \in Nat /\ DOMAIN at = 1..m /\ \A k \in 1..m : at[k] \in S
  <2> HIDE DEF at, S
  <2> QED BY <1>2, LenProperties
<1>4. listed = [k \in 1..m |-> PathOrder[at[k]]]
  BY <1>3 DEF InWalkOrder
<1>5. \A k \in 1..m : PathOrder[at[k]] \in part
  <2> HIDE DEF at, m
  <2> QED BY <1>3
<1>6. listed \in Seq(part)
  <2> HIDE DEF at, m, listed
  <2> QED BY <1>3, <1>4, <1>5
<1>7. ToSet(listed) = part
  <2>1. ToSet(listed) = {PathOrder[at[k]] : k \in 1..m}
    <3> HIDE DEF at, m, listed
    <3> QED BY <1>4 DEF ToSet
  <2>2. \A i \in S : \E k \in 1..m : at[k] = i
    <3>1. ToSet(at) = {at[k] : k \in 1..m}
      <4> HIDE DEF at, m
      <4> QED BY <1>3 DEF ToSet
    <3> HIDE DEF at, m, S
    <3> QED BY <1>2, <3>1
  <2>3. ASSUME NEW p \in part PROVE p \in ToSet(listed)
    <3>1. PICK i \in DOMAIN PathOrder : PathOrder[i] = p
      BY DEF AllPaths, ToSet
    <3>2. i \in S
      BY <3>1
    <3> HIDE DEF at, m, S, listed
    <3> QED BY <2>1, <2>2, <3>1, <3>2
  <2> HIDE DEF at, m, listed
  <2> QED BY <1>5, <2>1, <2>3
<1> QED BY <1>6, <1>7

(* The documents of a walk are the files it found, each with its text.     *)
LEMMA DocumentsFacts ==
  ASSUME NEW found, NEW old
  PROVE  LET plan == FullCorrectnessWalk(found, old)
             d == Documents(plan)
             seen == {p \in AllPaths : found[p] # Absent}
         IN /\ DOMAIN d = 1..Len(d) /\ Len(d) \in Nat
            /\ \A i \in DOMAIN d : d[i].path \in seen /\ d[i].text = found[d[i].path]
            /\ {d[i].path : i \in DOMAIN d} = seen
<1> DEFINE plan == FullCorrectnessWalk(found, old)
           d == Documents(plan)
           seen == {p \in AllPaths : found[p] # Absent}
           a == InWalkOrder(plan.new)
           b == InWalkOrder(plan.changed)
           c == InWalkOrder(plan.unchanged)
           listed == a \o b \o c
           n == Len(listed)
<1>1. /\ seen \subseteq AllPaths
      /\ plan.new \cup plan.changed \cup plan.unchanged = seen
      /\ \A p \in seen : plan.contents[p] = found[p]
  BY DEF FullCorrectnessWalk
<1>2. /\ a \in Seq(seen) /\ b \in Seq(seen) /\ c \in Seq(seen)
      /\ ToSet(a) \cup ToSet(b) \cup ToSet(c) = seen
  <2>1. /\ plan.new \in SUBSET AllPaths /\ plan.changed \in SUBSET AllPaths
        /\ plan.unchanged \in SUBSET AllPaths
    BY <1>1
  <2>2. /\ a \in Seq(plan.new) /\ ToSet(a) = plan.new
        /\ b \in Seq(plan.changed) /\ ToSet(b) = plan.changed
        /\ c \in Seq(plan.unchanged) /\ ToSet(c) = plan.unchanged
    <3> HIDE DEF plan
    <3> QED BY <2>1, WalkOrderFacts
  <2>3. plan.new \subseteq seen /\ plan.changed \subseteq seen /\ plan.unchanged \subseteq seen
    BY <1>1
  <2>4. \A S \in SUBSET seen : \A s \in Seq(S) : s \in Seq(seen)
    OBVIOUS
  <2> HIDE DEF plan, seen, a, b, c
  <2> QED BY <1>1, <2>2, <2>3, <2>4
<1>3. listed \in Seq(seen) /\ ToSet(listed) = seen
  <2>1. \A u, v \in Seq(seen) : u \o v \in Seq(seen) /\ ToSet(u \o v) = ToSet(u) \cup ToSet(v)
    <3> HIDE DEF seen
    <3> SUFFICES ASSUME NEW u \in Seq(seen), NEW v \in Seq(seen)
                 PROVE  u \o v \in Seq(seen) /\ ToSet(u \o v) = ToSet(u) \cup ToSet(v)
      OBVIOUS
    <3>1. u \o v \in Seq(seen)
      BY ConcatProperties
    <3>2. Range(u \o v) = Range(u) \cup Range(v)
      BY RangeConcatenation
    <3>3. \A w : Range(w) = ToSet(w)
      BY DEF ToSet, Range
    <3> QED BY ONLY <3>1, <3>2, <3>3
  <2> HIDE DEF a, b, c, seen
  <2>2. a \o b \in Seq(seen) /\ ToSet(a \o b) = ToSet(a) \cup ToSet(b)
    BY <1>2, <2>1
  <2> DEFINE u == a \o b
  <2> HIDE DEF u
  <2>3. u \in Seq(seen) /\ ToSet(u) = ToSet(a) \cup ToSet(b)
    BY <2>2 DEF u
  <2>4. u \o c \in Seq(seen) /\ ToSet(u \o c) = ToSet(u) \cup ToSet(c)
    BY <1>2, <2>1, <2>3
  <2> QED BY <1>2, <2>3, <2>4 DEF u
<1>4. n \in Nat /\ DOMAIN listed = 1..n /\ \A i \in 1..n : listed[i] \in seen
  <2> HIDE DEF listed, seen
  <2> QED BY <1>3, LenProperties
<1>5. d = [i \in 1..n |-> [path |-> listed[i], text |-> plan.contents[listed[i]]]]
  <2>1. d = [i \in DOMAIN listed |-> [path |-> listed[i], text |-> plan.contents[listed[i]]]]
    <3> HIDE DEF plan
    <3> QED BY DEF Documents
  <2> HIDE DEF plan, listed, d
  <2> QED BY <1>4, <2>1
<1>6. DOMAIN d = 1..n /\ Len(d) = n
  <2> HIDE DEF d, n, listed, plan
  <2>1. d = [i \in 1..n |-> d[i]]
    BY <1>5
  <2> QED BY <1>4, <2>1, FunctionIsSequence
<1>7. \A i \in 1..n : d[i].path = listed[i] /\ d[i].text = found[d[i].path]
  <2> HIDE DEF listed, plan, d, seen, n
  <2> QED BY <1>1, <1>4, <1>5
<1>8. {d[i].path : i \in 1..n} = seen
  <2>1. ToSet(listed) = {listed[i] : i \in 1..n}
    <3> HIDE DEF listed, n
    <3> QED BY <1>4 DEF ToSet
  <2> HIDE DEF listed, d, seen, n
  <2> QED BY <1>3, <1>7, <2>1
<1> HIDE DEF listed, plan, n, a, b, c
<1>9. \A i \in DOMAIN d : d[i].path \in seen
  <2> HIDE DEF d, seen
  <2> QED BY <1>4, <1>6, <1>7
<1> QED BY <1>4, <1>6, <1>7, <1>8, <1>9 DEF plan

(* The file records of an index of documents are a sequence.               *)
LEMMA FilesFacts ==
  ASSUME NEW n \in Nat, NEW d, DOMAIN d = 1..n, NEW old
  PROVE  LET f == BuildContents(BuildLexical(d), old).files IN f \in Seq(ToSet(f))
<1> DEFINE f == BuildContents(BuildLexical(d), old).files
           out == ExportLexical(BuildLexical(d))
<1>1. DOMAIN out.paths = 1..n
  BY DEF ExportLexical, BuildLexical
<1>2. f = [i \in 1..n |-> [id |-> i, path |-> out.paths[i], hash |-> old[out.paths[i]],
                           firstChunk |-> i, chunkCount |-> 1]]
  BY <1>1 DEF BuildContents
<1>3. f = [i \in 1..n |-> f[i]]
  <2> HIDE DEF f, out
  <2> QED BY <1>2
<1>4. f \in Seq(ToSet(f))
  <2> HIDE DEF f
  <2> QED BY <1>3, FunctionIsSequence
<1> QED BY <1>4

(* The exact lane of an index of documents answers with their texts.       *)
LEMMA LexicalFacts ==
  ASSUME NEW n \in Nat, NEW d, DOMAIN d = 1..n, Len(d) = n
  PROVE  LET x == BuildLexical(d)
         IN /\ DOMAIN x.chunks = 1..n /\ \A i \in 1..n : x.chunks[i].path = d[i].path
            /\ \A raw : ExactLookup(x, raw) = {d[i].path : i \in {i \in 1..n : raw \in ToSet(d[i].text)}}
<1> DEFINE x == BuildLexical(d)
<1>1. DOMAIN x.chunks = 1..n /\ \A i \in 1..n : x.chunks[i].path = d[i].path
  BY DEF BuildLexical
<1>2. ASSUME NEW raw
      PROVE  ExactLookup(x, raw) = {d[i].path : i \in {i \in 1..n : raw \in ToSet(d[i].text)}}
  <2> DEFINE S == {i \in 1..n : raw \in ToSet(d[i].text)}
             listed == x.exact[raw]
  <2>1. DOMAIN x.exact = UNION {ToSet(d[i].text) : i \in 1..n}
    BY DEF BuildLexical
  <2>2. CASE raw \in DOMAIN x.exact
    <3>1. listed = InOrder(S, n)
      BY <2>1, <2>2 DEF BuildLexical
    <3>2. ToSet(listed) = S
      <4>1. S \in SUBSET (1..n)
        OBVIOUS
      <4> HIDE DEF S, listed
      <4> QED BY <3>1, <4>1, InOrderFacts
    <3>3. ExactLookup(x, raw) = {x.chunks[listed[k]].path : k \in DOMAIN listed}
      <4> HIDE DEF x
      <4> QED BY <2>2 DEF ExactLookup
    <3>4. ToSet(listed) = {listed[k] : k \in DOMAIN listed}
      BY DEF ToSet
    <3>5. \A i \in S : x.chunks[i].path = d[i].path
      BY <1>1
    <3> HIDE DEF x, S, listed
    <3>6. {x.chunks[listed[k]].path : k \in DOMAIN listed} = {x.chunks[i].path : i \in S}
      BY <3>2, <3>4
    <3>7. {x.chunks[i].path : i \in S} = {d[i].path : i \in S}
      BY <3>5
    <3> QED BY <3>3, <3>6, <3>7 DEF S
  <2>3. CASE raw \notin DOMAIN x.exact
    <3>1. S = {}
      BY <2>1, <2>3
    <3>2. ExactLookup(x, raw) = {}
      <4> HIDE DEF x
      <4> QED BY <2>3 DEF ExactLookup
    <3> HIDE DEF x
    <3> QED BY <3>1, <3>2
  <2> QED BY <2>2, <2>3
<1> QED BY <1>1, <1>2

-----------------------------------------------------------------------------
LEMMA LiveStart == LiveInit => LiveIInv
<1> SUFFICES ASSUME LiveInit PROVE LiveIInv
  OBVIOUS
<1>1. /\ tree \in [AllPaths -> Texts \cup {Absent}] /\ sink \in Seq(AllPaths)
      /\ DOMAIN table = {} /\ pending = {} /\ walk = <<>> /\ DOMAIN texts = {} /\ due
      /\ DOMAIN vectors = {}
  BY LiveAssumption DEF LiveInit, Nothing
<1>2. {lexical.chunks[i].path : i \in DOMAIN lexical.chunks} = {}
  BY DEF LiveInit, BuildLexical
<1> QED BY <1>1, <1>2
        DEF LiveIInv, WalkIsCurrent, TextsAreRecorded, WatchIsSound, EditIsSeenOrAnnounced, LanesAgree

(* The lanes and the walk in hand do not see where an event waits.         *)
LEMMA EventsStep ==
  ASSUME LiveIInv, UNCHANGED <<walk, engine>>,
         tree' \in [AllPaths -> Texts \cup {Absent}], sink' \in Seq(AllPaths),
         \A p \in AllPaths : \/ tree'[p] = tree[p]
                             \/ p \in reported',
         \A p \in AllPaths :
           p \in reported \/ p \in ToSet(sink) \/ p \in DOMAIN queue \/ due \/ overflowed =>
           p \in reported' \/ p \in ToSet(sink') \/ p \in DOMAIN queue' \/ due' \/ overflowed'
  PROVE  LiveIInv'
<1>1. \A p : Recorded(p)' = Recorded(p)
  BY DEF Recorded, engine
<1>2. EditIsSeenOrAnnounced'
  BY <1>1 DEF LiveIInv, WatchIsSound, EditIsSeenOrAnnounced
<1>3. LanesAgree' /\ WalkIsCurrent' /\ TextsAreRecorded'
  BY DEF LiveIInv, WatchIsSound, LanesAgree, WalkIsCurrent, TextsAreRecorded, engine
<1> QED BY <1>2, <1>3 DEF LiveIInv, WatchIsSound, engine

LEMMA EditStep ==
  ASSUME LiveIInv, NEW path \in AllPaths, NEW text \in Texts \cup {Absent}, Edit(path, text)
  PROVE  LiveIInv'
<1>1. /\ tree' \in [AllPaths -> Texts \cup {Absent}] /\ sink' = sink /\ sink \in Seq(AllPaths)
      /\ \A p \in AllPaths : tree'[p] = tree[p] \/ p \in reported'
      /\ reported \subseteq reported' /\ UNCHANGED <<queue, due, overflowed>>
  BY DEF LiveIInv, Edit
<1>2. UNCHANGED <<walk, engine>>
  BY DEF Edit
<1> QED BY <1>1, <1>2, EventsStep

LEMMA PushStep ==
  ASSUME LiveIInv, NEW path \in AllPaths, Push(path)
  PROVE  LiveIInv'
<1>1. UNCHANGED <<tree, queue, due, walk, engine>> /\ sink \in Seq(AllPaths)
      /\ tree \in [AllPaths -> Texts \cup {Absent}] /\ reported' = reported \ {path}
  BY DEF LiveIInv, Push
<1>2. CASE overflowed' = TRUE /\ UNCHANGED sink
  BY <1>1, <1>2, EventsStep
<1>3. CASE sink' = Append(sink, path) /\ UNCHANGED overflowed
  <2>1. sink' \in Seq(AllPaths) /\ ToSet(sink') = ToSet(sink) \cup {path}
    BY <1>1, <1>3, AppendFacts
  <2> QED BY <1>1, <1>3, <2>1, EventsStep
<1> QED BY <1>2, <1>3 DEF Push

LEMMA QueueStep ==
  ASSUME LiveIInv, Collect \/ Tick \/ DrainReady
  PROVE  LiveIInv'
<1>1. UNCHANGED <<tree, reported, overflowed, walk, engine>> /\ sink \in Seq(AllPaths)
      /\ tree \in [AllPaths -> Texts \cup {Absent}]
  BY DEF LiveIInv, Collect, Tick, DrainReady
<1>2. CASE Collect
  <2>1. sink' = <<>> /\ DOMAIN queue' = ToSet(sink) \cup DOMAIN queue /\ due' = due
    BY <1>2 DEF Collect
  <2>2. sink' \in Seq(AllPaths)
    BY <2>1
  <2> QED BY <1>1, <2>1, <2>2, EventsStep
<1>3. CASE Tick
  BY <1>1, <1>3, EventsStep DEF Tick
<1>4. CASE DrainReady
  BY <1>1, <1>4, EventsStep DEF DrainReady
<1> QED BY <1>2, <1>3, <1>4

(* full_correctness_walk finds the whole tree of now.                      *)
LEMMA WalkStep ==
  ASSUME LiveIInv, Walk
  PROVE  LiveIInv'
<1> DEFINE plan == FullCorrectnessWalk(tree, table)
<1>1. /\ walk' = <<plan>> /\ UNCHANGED <<tree, sink, engine>>
      /\ UNCHANGED <<table, lexical, pending, vectors, texts>>
  BY DEF Walk, engine
<1>2. walk' # <<>> /\ walk'[1] = plan
  <2> HIDE DEF plan
  <2> QED BY <1>1
<1>3. ASSUME NEW p \in AllPaths PROVE Recorded(p)' = tree[p]
  <2>1. /\ p \in DOMAIN plan.contents <=> tree[p] # Absent
        /\ p \in DOMAIN plan.contents => plan.contents[p] = tree[p]
        /\ p \in plan.deleted <=> p \in DOMAIN table /\ tree[p] = Absent
    BY DEF FullCorrectnessWalk
  <2> HIDE DEF plan
  <2> QED BY <1>1, <1>2, <2>1 DEF Recorded
<1>4. EditIsSeenOrAnnounced'
  BY <1>1, <1>3 DEF EditIsSeenOrAnnounced
<1>5. WalkIsCurrent'
  BY <1>1 DEF WalkIsCurrent, LiveIInv
<1>6. LanesAgree' /\ TextsAreRecorded'
  BY <1>1 DEF LiveIInv, WatchIsSound, LanesAgree, TextsAreRecorded
<1> QED BY <1>1, <1>4, <1>5, <1>6 DEF LiveIInv, WatchIsSound

(* apply_structural_lexical leaves the files of the walk, in every lane.   *)
LEMMA ApplyStep ==
  ASSUME LiveIInv, ApplyStructuralLexical
  PROVE  LiveIInv'
<1>1. PICK found \in [AllPaths -> Texts \cup {Absent}] : walk = <<FullCorrectnessWalk(found, table)>>
  BY DEF LiveIInv, WalkIsCurrent, ApplyStructuralLexical
<1> DEFINE plan == FullCorrectnessWalk(found, table)
           fresh == plan.new \cup plan.changed
           seen == {p \in AllPaths : found[p] # Absent}
<1>2. walk[1] = plan /\ walk # <<>>
  <2>1. walk # <<>>
    BY DEF ApplyStructuralLexical
  <2>2. walk = <<plan>>
    BY <1>1
  <2> HIDE DEF plan
  <2> QED BY <2>1, <2>2
<1>3. /\ walk' = <<>> /\ UNCHANGED <<tree, reported, sink, overflowed, queue, due>>
      /\ lexical' = BuildLexical(Documents(plan))
      /\ table' = [p \in (DOMAIN table \cup fresh) \ plan.deleted |->
                     IF p \in fresh THEN [hash |-> plan.contents[p]] ELSE table[p]]
      /\ pending' = (pending \cup fresh) \ plan.deleted
      /\ vectors' = [p \in DOMAIN vectors \ plan.deleted |-> vectors[p]]
      /\ texts' = plan.contents
  <2> HIDE DEF plan
  <2> QED BY <1>2 DEF ApplyStructuralLexical
<1>4. /\ plan.new \subseteq seen /\ plan.changed \subseteq seen
      /\ plan.deleted = DOMAIN table \ seen
      /\ \A p \in seen : p \notin fresh => p \in DOMAIN table /\ table[p].hash = found[p]
      /\ DOMAIN plan.contents = seen /\ \A p \in seen : plan.contents[p] = found[p]
  BY DEF FullCorrectnessWalk
<1>5. /\ DOMAIN table \subseteq AllPaths /\ pending \subseteq DOMAIN table
      /\ tree \in [AllPaths -> Texts \cup {Absent}] /\ sink \in Seq(AllPaths) /\ LanesAgree
      /\ EditIsSeenOrAnnounced
  BY DEF LiveIInv, WatchIsSound
<1>6. DOMAIN table' = seen /\ \A p \in seen : table'[p].hash = found[p]
  <2>1. (DOMAIN table \cup fresh) \ plan.deleted = seen
    <3> HIDE DEF plan
    <3> QED BY <1>4
  <2>2. ASSUME NEW p \in seen PROVE table'[p].hash = found[p]
    <3> HIDE DEF plan
    <3> QED BY <1>3, <1>4, <2>1
  <2> QED BY <1>3, <2>1, <2>2
<1>7. ASSUME NEW p \in AllPaths PROVE Recorded(p)' = Recorded(p)
  <2> HIDE DEF plan
  <2>1. Recorded(p)' = IF p \in seen THEN found[p] ELSE Absent
    BY <1>3, <1>6 DEF Recorded
  <2>2. Recorded(p) = IF p \in seen THEN found[p] ELSE Absent
    <3> HIDE DEF seen
    <3> QED BY <1>2, <1>4 DEF Recorded
  <2> QED BY <2>1, <2>2
<1>8. EditIsSeenOrAnnounced'
  BY <1>3, <1>5, <1>7 DEF EditIsSeenOrAnnounced
<1>9. /\ {lexical'.chunks[i].path : i \in DOMAIN lexical'.chunks} = seen
      /\ \A p \in seen : \A raw : p \in ExactLookup(lexical', raw) <=> raw \in ToSet(found[p])
  <2> DEFINE d == Documents(plan)
             n == Len(d)
  <2>1. /\ DOMAIN d = 1..n /\ n \in Nat
        /\ \A i \in DOMAIN d : d[i].path \in seen /\ d[i].text = found[d[i].path]
        /\ {d[i].path : i \in DOMAIN d} = seen
    BY DocumentsFacts
  <2> HIDE DEF d, plan, seen, n
  <2>2. /\ DOMAIN lexical'.chunks = 1..n /\ \A i \in 1..n : lexical'.chunks[i].path = d[i].path
        /\ \A raw : ExactLookup(lexical', raw)
                      = {d[i].path : i \in {i \in 1..n : raw \in ToSet(d[i].text)}}
    <3>1. lexical' = BuildLexical(d)
      BY <1>3 DEF d
    <3>2. Len(d) = n
      BY DEF n
    <3> QED BY <2>1, <3>1, <3>2, LexicalFacts
  <2>3. {lexical'.chunks[i].path : i \in DOMAIN lexical'.chunks} = seen
    BY <2>1, <2>2
  <2>4. ASSUME NEW p \in seen, NEW raw
        PROVE  p \in ExactLookup(lexical', raw) <=> raw \in ToSet(found[p])
    <3>1. PICK i \in 1..n : d[i].path = p
      BY <2>1
    <3> QED BY <2>1, <2>2, <3>1
  <2> QED BY <2>3, <2>4
<1>10. LanesAgree'
  <2>1. DOMAIN vectors' \subseteq DOMAIN table'
    BY <1>3, <1>4, <1>5, <1>6 DEF LanesAgree
  <2>2. ASSUME NEW p \in DOMAIN table'
        PROVE  p \in pending' \/ (p \in DOMAIN vectors' /\ vectors'[p] = table'[p].hash)
    <3> HIDE DEF plan
    <3>1. p \in seen /\ p \notin plan.deleted
      BY <1>4, <1>6
    <3>2. CASE p \in fresh
      BY <1>3, <3>1, <3>2
    <3>3. CASE p \notin fresh
      <4>1. p \in DOMAIN table /\ table[p].hash = found[p] /\ table'[p].hash = found[p]
        BY <1>4, <1>6, <3>1, <3>3
      <4> QED BY <1>3, <1>5, <3>1, <4>1 DEF LanesAgree
    <3> QED BY <3>2, <3>3
  <2>3. \A p \in DOMAIN table', raw \in Tokens :
          p \in ExactLookup(lexical', raw) <=> raw \in ToSet(table'[p].hash)
    BY <1>6, <1>9
  <2> QED BY <1>6, <1>9, <2>1, <2>2, <2>3 DEF LanesAgree
<1>11. TextsAreRecorded' /\ WalkIsCurrent' /\ pending' \subseteq DOMAIN table'
  <2> HIDE DEF plan
  <2> QED BY <1>3, <1>4, <1>5, <1>6 DEF TextsAreRecorded, WalkIsCurrent
<1> QED BY <1>3, <1>5, <1>6, <1>8, <1>10, <1>11 DEF LiveIInv, WatchIsSound

(* process_pending_semantic embeds what the records stand for.             *)
LEMMA EmbedStep ==
  ASSUME LiveIInv, NEW done, ProcessPendingSemantic(done)
  PROVE  LiveIInv'
<1>1. /\ done \subseteq pending /\ pending' = pending \ done
      /\ vectors' = [p \in (done \cap DOMAIN texts) \cup DOMAIN vectors |->
                       IF p \in done \cap DOMAIN texts THEN texts[p] ELSE vectors[p]]
      /\ UNCHANGED <<tree, reported, sink, overflowed, queue, due, walk, table, lexical, texts>>
  BY DEF ProcessPendingSemantic, watcher
<1>2. /\ pending \subseteq DOMAIN table /\ DOMAIN texts = DOMAIN table
      /\ \A p \in DOMAIN table : texts[p] = table[p].hash
      /\ LanesAgree /\ EditIsSeenOrAnnounced /\ WalkIsCurrent
  BY DEF LiveIInv, TextsAreRecorded, WatchIsSound
<1>3. /\ DOMAIN vectors' = done \cup DOMAIN vectors
      /\ \A p \in done : vectors'[p] = table[p].hash
      /\ \A p \in DOMAIN vectors : p \notin done => vectors'[p] = vectors[p]
  <2>1. done \cap DOMAIN texts = done
    BY <1>1, <1>2
  <2>2. \A p \in done : p \in DOMAIN table
    BY <1>1, <1>2
  <2> QED BY <1>1, <1>2, <2>1, <2>2
<1>4. LanesAgree'
  BY <1>1, <1>2, <1>3 DEF LanesAgree
<1>5. EditIsSeenOrAnnounced' /\ WalkIsCurrent'
  BY <1>1, <1>2 DEF EditIsSeenOrAnnounced, Recorded, WalkIsCurrent
<1> QED BY <1>1, <1>4, <1>5 DEF LiveIInv, WatchIsSound, TextsAreRecorded

LEMMA LiveStep == LiveIInv /\ [LiveNext]_liveVars => LiveIInv'
<1> SUFFICES ASSUME LiveIInv, [LiveNext]_liveVars PROVE LiveIInv'
  OBVIOUS
<1>1. ASSUME NEW path \in AllPaths, NEW text \in Texts \cup {Absent}, Edit(path, text)
      PROVE  LiveIInv'
  BY <1>1, EditStep
<1>2. ASSUME NEW path \in AllPaths, Push(path) PROVE LiveIInv'
  BY <1>2, PushStep
<1>3. CASE Collect \/ Tick \/ DrainReady
  BY <1>3, QueueStep
<1>4. CASE Walk
  BY <1>4, WalkStep
<1>5. CASE ApplyStructuralLexical
  BY <1>5, ApplyStep
<1>6. ASSUME NEW done \in SUBSET AllPaths, ProcessPendingSemantic(done) PROVE LiveIInv'
  BY <1>6, EmbedStep
<1>7. CASE UNCHANGED liveVars
  <2>1. UNCHANGED <<walk, engine, tree, reported, sink, overflowed, queue, due>>
    BY <1>7 DEF liveVars, watcher
  <2>2. tree \in [AllPaths -> Texts \cup {Absent}] /\ sink \in Seq(AllPaths)
    BY DEF LiveIInv
  <2> QED BY <2>1, <2>2, EventsStep
<1> QED BY <1>1, <1>2, <1>3, <1>4, <1>5, <1>6, <1>7 DEF LiveNext

(* The inductive invariant of the live engine: the walk in hand is one of  *)
(* an earlier tree against the table, and the texts are the recorded ones  *)
(* (retrieval/sync.rs).                                                    *)
THEOREM LiveInvariance == LiveSpec => []LiveIInv
BY LiveStart, LiveStep, PTL DEF LiveSpec

(* Watcher events are hints: whatever the OS drops, delays or the sink     *)
(* overflows with, a file that differs from what the engine knows is       *)
(* announced somewhere, and the exact lane, the records and the vectors    *)
(* speak of the same files (retrieval/sync.rs).                            *)
THEOREM WatchSoundness == LiveSpec => []WatchIsSound
<1>1. LiveIInv => WatchIsSound
  BY DEF LiveIInv
<1> QED BY <1>1, LiveInvariance, PTL

-----------------------------------------------------------------------------
(* `tqf sync` and `tqf unsync`.                                            *)
Domains ==
  DOMAIN index = Roots /\ DOMAIN temp = Roots /\ DOMAIN contents = Procs /\ DOMAIN parts = Procs

LEMMA RegistryFacts ==
  /\ \A S \in SUBSET Roots : <<"roots", S>> \in NamesFile /\ LoadRegistry(<<"roots", S>>) = S
  /\ Blank \in NamesFile /\ NoNames \in NamesFile /\ LoadRegistry(NoNames) = {}
  /\ \A f \in NamesFile : LoadRegistry(f) \in SUBSET Roots
  /\ \A f \in NamesFile, S \in SUBSET Roots : Overwritten(f, S) \in NamesFile
  /\ \A S \in SUBSET Roots : Overwritten(Blank, S) = <<"roots", S>>
<1>1. \A S \in SUBSET Roots : <<"roots", S>> \in NamesFile /\ LoadRegistry(<<"roots", S>>) = S
  BY DEF NamesFile, LoadRegistry
<1>2. Blank \in NamesFile /\ NoNames \in NamesFile /\ LoadRegistry(NoNames) = {}
  BY DEF NamesFile, NoNames, Blank, LoadRegistry
<1>3. \A f \in NamesFile : LoadRegistry(f) \in SUBSET Roots
  <2>1. LoadRegistry(NoNames) = {} /\ LoadRegistry(Garbled) = {}
    BY DEF LoadRegistry, NoNames, Garbled
  <2>2. \A f \in NamesFile : f \in {NoNames, Garbled} \/ \E S \in SUBSET Roots : f = <<"roots", S>>
    BY DEF NamesFile
  <2> QED BY <1>1, <2>1, <2>2
<1>4. \A f \in NamesFile, S \in SUBSET Roots : Overwritten(f, S) \in NamesFile
  BY <1>1 DEF Overwritten, NamesFile
<1>5. ASSUME NEW S \in SUBSET Roots PROVE Overwritten(Blank, S) = <<"roots", S>>
  <2>1. Cardinality(S) \in Nat
    BY SyncAssumption, FS_Subset, FS_CardinalityType
  <2>2. Cardinality(LoadRegistry(Blank)) = 0
    BY <1>1, FS_EmptySet DEF Blank
  <2> QED BY <2>1, <2>2 DEF Overwritten
<1> QED BY <1>1, <1>2, <1>3, <1>4, <1>5

LEMMA StopTypes ==
  ASSUME TypeOK, Domains, NEW p \in Procs, Stop(p),
         UNCHANGED <<registry, registryTmp, started, uuids, disturbed, raced, synced>>,
         DOMAIN index' = Roots, DOMAIN temp' = Roots
  PROVE  TypeOK' /\ Domains'
BY DEF Stop, Ended, TypeOK, Domains, Handles, Steps

LEMMA StartedFacts == \A n \in 0..MaxCommands : n < MaxCommands => n + 1 \in 0..MaxCommands
<1>1. \A m \in Nat : \A n \in 0..m : n < m => n + 1 \in 0..m
  OBVIOUS
<1> QED BY <1>1, SyncAssumption

LEMMA BeginTypes ==
  ASSUME TypeOK, Domains, NEW p \in Procs, NEW r \in Roots, NEW first \in Steps, Begin(p, r, first),
         UNCHANGED <<registry, registryTmp, handle, wanted, naming, uuids, raced>>,
         synced' \subseteq synced, Domains'
  PROVE  TypeOK' /\ Domains'
<1>1. started' \in 0..MaxCommands
  BY StartedFacts DEF Begin, TypeOK
<1>2. pc' \in [Procs -> Steps] /\ root' \in [Procs -> Roots \cup {Nowhere}]
      /\ \A q \in Procs : pc'[q] # "idle" => root'[q] \in Roots
  BY DEF Begin, Goto, TypeOK
<1>3. disturbed' \subseteq Roots
  BY DEF Begin, TypeOK
<1> QED BY <1>1, <1>2, <1>3 DEF TypeOK

LEMMA SyncTypes ==
  ASSUME TypeOK, Domains, NEW p \in Procs,
         Step(p) \/ \E r \in Roots : Unsync(p, r) \/ \E found \in Trees : Scan(p, r, found)
  PROVE  TypeOK' /\ Domains'
<1> USE DEF files, names, built, history
<1>1. ASSUME NEW r \in Roots, NEW found \in Trees, Scan(p, r, found) PROVE TypeOK' /\ Domains'
  <2>1. Begin(p, r, "previous") /\ DOMAIN contents' = DOMAIN contents
        /\ UNCHANGED <<files, names, parts, handle, wanted, naming, uuids, raced, synced>>
    BY <1>1 DEF Scan
  <2> QED BY <2>1, BeginTypes DEF Steps, Domains
<1>2. ASSUME NEW r \in Roots, Unsync(p, r) PROVE TypeOK' /\ Domains'
  <2>1. UNCHANGED <<files, names, contents, parts, handle, wanted, naming, uuids, raced>>
        /\ synced' \subseteq synced
    BY <1>2 DEF Unsync
  <2>2. CASE index[r] = NoFile
    <3>1. UNCHANGED <<pc, root, disturbed>> /\ started < MaxCommands /\ started' = started + 1
      BY <1>2, <2>2 DEF Unsync
    <3>2. started' \in 0..MaxCommands
      BY <3>1, StartedFacts DEF TypeOK
    <3> QED BY <2>1, <3>1, <3>2 DEF TypeOK, Domains
  <2>3. CASE index[r] # NoFile
    <3>1. Begin(p, r, "forget")
      BY <1>2, <2>3 DEF Unsync
    <3> QED BY <2>1, <3>1, BeginTypes DEF Steps, Domains
  <2> QED BY <2>2, <2>3
<1>3. CASE ReadPrevious(p)
  <2>1. /\ pc' = [pc EXCEPT ![p] = "create"] /\ pc[p] = "previous"
        /\ uuids' \in {uuids, uuids + 1} /\ DOMAIN parts' = DOMAIN parts
        /\ UNCHANGED <<files, names, root, contents, handle, wanted, naming, started,
                       disturbed, raced, synced>>
    BY <1>3 DEF ReadPrevious, Goto
  <2>2. uuids' \in Nat
    <3>1. \A n \in Nat : n + 1 \in Nat
      OBVIOUS
    <3> QED BY <2>1, <3>1 DEF TypeOK
  <2>3. pc' \in [Procs -> Steps] /\ \A q \in Procs : pc'[q] # "idle" => root'[q] \in Roots
    BY <2>1 DEF TypeOK, Steps
  <2> QED BY <2>1, <2>2, <2>3 DEF TypeOK, Domains
<1>4. CASE Create(p)
  BY <1>4 DEF Create, Goto, TypeOK, Domains, Steps, Handles
<1>5. CASE WriteSuperblock(p)
  BY <1>5 DEF WriteSuperblock, Through, Goto, TypeOK, Domains, Steps
<1>6. CASE WriteBody(p)
  BY <1>6 DEF WriteBody, Through, Goto, TypeOK, Domains, Steps
<1>7. CASE WriteTable(p)
  BY <1>7 DEF WriteTable, Through, Goto, TypeOK, Domains, Steps, Handles
<1>8. CASE Rename(p)
  <2>1. CASE temp[root[p]] = NoFile
    BY <1>8, <2>1, StopTypes DEF Rename, Domains
  <2>2. CASE temp[root[p]] # NoFile
    BY <1>8, <2>2 DEF Rename, Moved, Goto, TypeOK, Domains, Steps, Handles
  <2> QED BY <2>1, <2>2
<1>9. CASE WriteProject(p)
  <2>1. CASE ~Readable(index[root[p]])
    BY <1>9, <2>1, StopTypes DEF WriteProject, Domains
  <2>2. CASE Readable(index[root[p]])
    BY <1>9, <2>2 DEF WriteProject, Goto, TypeOK, Domains, Steps
  <2> QED BY <2>1, <2>2
<1>10. CASE RemoveIndex(p)
  <2>1. CASE index[root[p]] = NoFile
    BY <1>10, <2>1, StopTypes DEF RemoveIndex, Domains
  <2>2. CASE index[root[p]] # NoFile
    BY <1>10, <2>2 DEF RemoveIndex, Moved, Goto, TypeOK, Domains, Steps, Handles
  <2> QED BY <2>1, <2>2
<1>11. CASE RemoveProject(p)
  BY <1>11 DEF RemoveProject, Goto, TypeOK, Domains, Steps
<1>12. CASE Register(p)
  <2>1. LoadRegistry(registry) \cup {root[p]} \in SUBSET Roots
    BY <1>12, RegistryFacts DEF Register, Updates, Goto, TypeOK
  <2> QED BY <1>12, <2>1 DEF Register, Updates, Goto, TypeOK, Domains, Steps
<1>13. CASE Deregister(p)
  <2>1. CASE root[p] \in LoadRegistry(registry)
    <3>1. LoadRegistry(registry) \ {root[p]} \in SUBSET Roots
      BY RegistryFacts DEF TypeOK
    <3> QED BY <1>13, <2>1, <3>1 DEF Deregister, Updates, Goto, TypeOK, Domains, Steps
  <2>2. CASE root[p] \notin LoadRegistry(registry)
    BY <1>13, <2>2, StopTypes DEF Deregister, Domains
  <2> QED BY <2>1, <2>2
<1>14. CASE OpenNames(p)
  BY <1>14, RegistryFacts DEF OpenNames, Goto, TypeOK, Domains, Steps, Handles
<1>15. CASE WriteNames(p)
  <2>1. registry' \in NamesFile /\ registryTmp' \in NamesFile
    BY <1>15, RegistryFacts DEF WriteNames, TypeOK
  <2> QED BY <1>15, <2>1 DEF WriteNames, Goto, TypeOK, Domains, Steps, Handles
<1>16. CASE RenameNames(p)
  <2>1. CASE registryTmp = NoNames
    BY <1>16, <2>1, StopTypes DEF RenameNames, Domains
  <2>2. CASE registryTmp # NoNames
    <3>1. registry' \in NamesFile /\ registryTmp' \in NamesFile
      BY <1>16, <2>2, RegistryFacts DEF RenameNames, TypeOK
    <3>2. synced' \subseteq Roots
      BY <1>16, <2>2 DEF RenameNames, TypeOK
    <3>3. naming' \in [Procs -> Handles]
      BY <1>16, <2>2 DEF RenameNames, TypeOK, Handles
    <3>4. Ended(p) /\ UNCHANGED <<files, uuids, started, disturbed, raced>>
      BY <1>16, <2>2 DEF RenameNames
    <3> QED BY <3>1, <3>2, <3>3, <3>4 DEF Ended, TypeOK, Domains, Steps, Handles
  <2> QED BY <2>1, <2>2
<1>17. CASE Crash(p)
  BY <1>17, StopTypes DEF Crash, Domains
<1> QED BY <1>1, <1>2, <1>3, <1>4, <1>5, <1>6, <1>7, <1>8, <1>9, <1>10, <1>11, <1>12, <1>13,
           <1>14, <1>15, <1>16, <1>17 DEF Step

(* What a process keeps of its own root, and a step of p that touches      *)
(* nothing but p and the root r.                                           *)
Own(q) == WritesAsBuilt(q) /\ SucceedsPrevious(q) /\ EndsAsBegun(q)

Touches(p, r) ==
  /\ \A q \in Procs \ {p} :
       /\ pc'[q] = pc[q] /\ root'[q] = root[q] /\ contents'[q] = contents[q]
       /\ parts'[q] = parts[q] /\ wanted'[q] = wanted[q]
       /\ root[q] # r => handle'[q] = handle[q]
  /\ \A s \in Roots \ {r} : index'[s] = index[s] /\ temp'[s] = temp[s]
  /\ \A s \in Roots : s # r => (s \in synced' => s \in synced)
  /\ disturbed \subseteq disturbed'

LEMMA OthersKeep ==
  ASSUME SyncIInv, TypeOK', RootsAreApart', NEW p \in Procs, NEW r, Touches(p, r),
         r = root[p] \/ r = root'[p],
         pc'[p] = "previous" => contents'[p].files \in Seq(ToSet(contents'[p].files)),
         Building(p)' => Sound(parts'[p]),
         Alone(p)' => Own(p)',
         r \in Roots \ disturbed' => (index'[r] = NoFile \/ Readable(index'[r]))
  PROVE  BuiltIsSound' /\ OwnRootIsKept' /\ PreviousIntact'
<1>1. BuiltIsSound'
  BY DEF SyncIInv, BuiltIsSound, Touches, Building
<1>2. PreviousIntact'
  BY DEF SyncIInv, PreviousIntact, Touches
<1>3. ASSUME NEW q \in Procs, q # p, Alone(q)'
      PROVE  Own(q)'
  <2>1. pc'[q] = pc[q] /\ root'[q] = root[q] /\ parts'[q] = parts[q] /\ wanted'[q] = wanted[q]
    BY <1>3 DEF Touches
  <2>2. Alone(q) /\ root[q] \in Roots
    BY <1>3, <2>1 DEF Alone, Touches, SyncIInv, TypeOK
  <2>3. root[q] # r
    <3>1. root[p] # root[q]
      BY <1>3, <2>2 DEF SyncIInv, RootsAreApart
    <3>2. root'[p] # root'[q]
      BY <1>3, <2>2 DEF RootsAreApart
    <3> QED BY <2>1, <3>1, <3>2
  <2>4. /\ index'[root[q]] = index[root[q]] /\ temp'[root[q]] = temp[root[q]]
        /\ handle'[q] = handle[q]
        /\ root[q] \in synced' => root[q] \in synced
    BY <1>3, <2>2, <2>3 DEF Touches
  <2>5. Own(q)
    BY <2>2 DEF SyncIInv, OwnRootIsKept, Own
  <2>6. WritesAsBuilt(q)'
    BY <2>1, <2>4, <2>5 DEF Own, WritesAsBuilt, Soundly
  <2>7. SucceedsPrevious(q)'
    BY <2>1, <2>4, <2>5 DEF Own, SucceedsPrevious, Building
  <2>8. EndsAsBegun(q)'
    BY <2>1, <2>4, <2>5 DEF Own, EndsAsBegun, Entering, Leaving, Updating
  <2> QED BY <2>6, <2>7, <2>8 DEF Own
<1>4. OwnRootIsKept'
  BY <1>3 DEF OwnRootIsKept, Own
<1> QED BY <1>1, <1>2, <1>4

LEMMA RootsKeep ==
  ASSUME SyncIInv, UNCHANGED <<root, disturbed>>,
         \A q \in Procs : pc'[q] = "idle" <=> pc[q] = "idle"
  PROVE  RootsAreApart'
BY DEF SyncIInv, RootsAreApart, Alone

LEMMA RootsBegin ==
  ASSUME SyncIInv, NEW p \in Procs, NEW r \in Roots, NEW first \in Steps \ {"idle"},
         Begin(p, r, first)
  PROVE  RootsAreApart'
<1>1. /\ pc' = [pc EXCEPT ![p] = first] /\ pc[p] = "idle" /\ root' = [root EXCEPT ![p] = r]
      /\ disturbed' = IF Busy(r) THEN disturbed \cup {r} ELSE disturbed
      /\ pc \in [Procs -> Steps] /\ root \in [Procs -> Roots \cup {Nowhere}]
  BY DEF Begin, Goto, SyncIInv, TypeOK
<1>2. \A q \in Procs : pc'[q] = "idle" <=> root'[q] = Nowhere
  BY <1>1, SyncAssumption DEF SyncIInv, RootsAreApart, Nowhere
<1>3. ASSUME NEW q \in Procs, NEW s \in Procs, Alone(q)', root'[s] = root'[q], q # s
      PROVE  FALSE
  <2>1. CASE q # p /\ s # p
    BY <1>1, <1>3, <2>1 DEF SyncIInv, RootsAreApart, Alone
  <2>2. CASE q = p \/ s = p
    <3>1. Busy(r) /\ root'[q] = r
      BY <1>1, <1>3, <2>2 DEF Busy
    <3> QED BY <1>1, <1>3, <3>1 DEF Alone
  <2> QED BY <2>1, <2>2
<1> QED BY <1>2, <1>3 DEF RootsAreApart

LEMMA RootsEnd ==
  ASSUME SyncIInv, NEW p \in Procs, Ended(p), UNCHANGED disturbed
  PROVE  RootsAreApart'
<1>1. /\ pc' = [pc EXCEPT ![p] = "idle"] /\ root' = [root EXCEPT ![p] = Nowhere]
      /\ pc \in [Procs -> Steps] /\ root \in [Procs -> Roots \cup {Nowhere}]
      /\ \A q \in Procs : pc[q] # "idle" => root[q] \in Roots
  BY DEF Ended, SyncIInv, TypeOK
<1>2. \A q \in Procs : pc'[q] = "idle" <=> root'[q] = Nowhere
  BY <1>1 DEF SyncIInv, RootsAreApart
<1>3. ASSUME NEW q \in Procs, NEW s \in Procs, Alone(q)', root'[s] = root'[q], q # s
      PROVE  FALSE
  <2>1. q # p /\ root'[q] = root[q] /\ Alone(q) /\ root[q] # Nowhere
    BY <1>1, <1>3, SyncAssumption DEF Alone, Nowhere
  <2> QED BY <1>1, <1>3, <2>1 DEF SyncIInv, RootsAreApart
<1> QED BY <1>2, <1>3 DEF RootsAreApart

(* A step that lets roots.toml alone.                                      *)
LEMMA NamesKeep ==
  ASSUME SyncIInv, UNCHANGED <<registry, registryTmp, raced>>,
         \A q \in Procs : Updating(q)' =>
           /\ pc'[q] = pc[q] /\ root'[q] = root[q] /\ wanted'[q] = wanted[q]
           /\ naming'[q] = naming[q]
  PROVE  NamesAreApart'
<1>1. \A q \in Procs : Updating(q)' => Updating(q)
  BY DEF Updating
<1>2. ASSUME ~raced
      PROVE  /\ \A q, s \in Procs : Updating(q)' /\ Updating(s)' => q = s
             /\ \A q \in Procs :
                  /\ Updating(q)' => \/ wanted'[q] = LoadRegistry(registry) \cup {root'[q]}
                                     \/ wanted'[q] = LoadRegistry(registry) \ {root'[q]}
                  /\ pc'[q] = "write names" => naming'[q] = "temp" /\ registryTmp = Blank
                  /\ pc'[q] = "rename names" => registryTmp = <<"roots", wanted'[q]>>
  <2>1. \A q \in Procs : pc'[q] \in {"write names", "rename names"} => Updating(q)'
    BY DEF Updating
  <2> QED BY <1>1, <1>2, <2>1 DEF SyncIInv, NamesAreApart
<1> QED BY <1>2 DEF NamesAreApart

LEMMA FoundKeep ==
  ASSUME SyncIInv, raced => raced', ~raced' => registry' = registry,
         synced' \subseteq synced, disturbed \subseteq disturbed',
         \A r \in synced' \ disturbed' : index'[r] # NoFile \/ index'[r] = index[r]
  PROVE  SyncedIsFound'
BY DEF SyncIInv, SyncedIsFound

LEMMA StopStep ==
  ASSUME SyncIInv, NEW p \in Procs, pc[p] # "idle", Stop(p),
         UNCHANGED <<index, temp, registry, registryTmp, uuids, started, disturbed, raced, synced>>
  PROVE  SyncIInv'
<1>1. TypeOK' /\ Domains'
  BY StopTypes DEF SyncIInv, Domains
<1>2. RootsAreApart'
  BY RootsEnd DEF Stop
<1>3. /\ \A q \in Procs \ {p} :
           /\ pc'[q] = pc[q] /\ root'[q] = root[q] /\ contents'[q] = contents[q]
           /\ parts'[q] = parts[q] /\ wanted'[q] = wanted[q] /\ handle'[q] = handle[q]
           /\ naming'[q] = naming[q]
      /\ pc'[p] = "idle"
  BY DEF Stop, Ended, SyncIInv, TypeOK
<1>4. NamesAreApart'
  BY <1>3, NamesKeep DEF Updating
<1>5. SyncedIsFound'
  BY FoundKeep
<1>6. BuiltIsSound' /\ OwnRootIsKept' /\ PreviousIntact'
  <2>1. Touches(p, root[p])
    BY <1>3 DEF Touches
  <2>2. ~Alone(p)' /\ ~Building(p)' /\ pc'[p] # "previous"
    BY <1>3 DEF Alone, Building
  <2>3. root[p] \in Roots \ disturbed' => index'[root[p]] = NoFile \/ Readable(index'[root[p]])
    BY DEF SyncIInv, PreviousIntact
  <2> QED BY <1>1, <1>2, <2>1, <2>2, <2>3, OthersKeep
<1> QED BY <1>1, <1>2, <1>4, <1>5, <1>6 DEF SyncIInv, Domains

(* A step of p from one file operation of its command to the next.         *)
LEMMA FileStep ==
  ASSUME SyncIInv, TypeOK', Domains', NEW p \in Procs,
         pc[p] # "idle", pc'[p] \notin {"idle", "previous"}, ~Updating(p)',
         UNCHANGED <<root, registry, registryTmp, disturbed, raced, synced, contents, wanted, naming>>,
         \A q \in Procs \ {p} :
           /\ pc'[q] = pc[q] /\ parts'[q] = parts[q]
           /\ root[q] # root[p] => handle'[q] = handle[q],
         \A s \in Roots \ {root[p]} : index'[s] = index[s] /\ temp'[s] = temp[s],
         Building(p)' => Sound(parts'[p]),
         Alone(p) => Own(p)',
         Alone(p) => \/ index'[root[p]] = index[root[p]]
                     \/ Readable(index'[root[p]])
                     \/ index'[root[p]] = NoFile /\ root[p] \notin synced
  PROVE  SyncIInv'
<1>1. root[p] \in Roots /\ (Alone(p) <=> root[p] \notin disturbed) /\ (Alone(p)' => Alone(p))
  BY DEF SyncIInv, TypeOK, Alone
<1>2. RootsAreApart'
  BY RootsKeep
<1>3. NamesAreApart'
  <2>1. \A q \in Procs : Updating(q)' => pc'[q] = pc[q]
    OBVIOUS
  <2> QED BY <2>1, NamesKeep
<1>4. SyncedIsFound'
  <2>1. \A r \in synced' \ disturbed' : index'[r] # NoFile \/ index'[r] = index[r]
    <3> SUFFICES ASSUME NEW r \in synced \ disturbed PROVE index'[r] # NoFile \/ index'[r] = index[r]
      OBVIOUS
    <3>1. r \in Roots
      BY DEF SyncIInv, TypeOK
    <3> QED BY <1>1, <3>1 DEF Readable
  <2> QED BY <2>1, FoundKeep
<1>5. BuiltIsSound' /\ OwnRootIsKept' /\ PreviousIntact'
  <2>1. Touches(p, root[p])
    BY DEF Touches
  <2>2. Alone(p)' => Own(p)'
    BY <1>1
  <2>3. root[p] \in Roots \ disturbed' => index'[root[p]] = NoFile \/ Readable(index'[root[p]])
    BY <1>1 DEF SyncIInv, PreviousIntact
  <2> QED BY <1>2, <2>1, <2>2, <2>3, OthersKeep
<1> QED BY <1>2, <1>3, <1>4, <1>5 DEF SyncIInv, Domains

LEMMA ReadPreviousStep ==
  ASSUME SyncIInv, TypeOK', Domains', NEW p \in Procs, ReadPrevious(p)
  PROVE  SyncIInv'
<1> DEFINE previous == IF Readable(index[root[p]]) THEN <<ReadIndex(index[root[p]])>> ELSE <<>>
           new == Encode(contents[p], previous, uuids + 1)
<1>1. /\ pc[p] = "previous" /\ pc' = [pc EXCEPT ![p] = "create"]
      /\ parts' = [parts EXCEPT ![p] = new]
      /\ UNCHANGED <<index, temp, root, registry, registryTmp, disturbed, raced, synced,
                     contents, handle, wanted, naming>>
  <2> HIDE DEF previous
  <2> QED BY DEF ReadPrevious, Goto, files, names, previous
<1>2. /\ \A q \in Procs \ {p} : pc'[q] = pc[q] /\ parts'[q] = parts[q]
      /\ pc'[p] = "create" /\ parts'[p] = new
  <2> HIDE DEF new
  <2> QED BY <1>1 DEF SyncIInv, TypeOK
<1>3. Sound(parts'[p])
  <2>1. contents[p].files \in Seq(ToSet(contents[p].files))
    BY <1>1 DEF SyncIInv, BuiltIsSound
  <2> HIDE DEF previous
  <2> QED BY <1>2, <2>1, EncodeIsSound
<1>4. SucceedsPrevious(p)'
  <2>1. ASSUME Readable(index[root[p]])
        PROVE  /\ new.superblock[2].uuid = index[root[p]][1][2].uuid
               /\ new.superblock[2].generation = index[root[p]][1][2].generation + 1
    <3>1. previous = <<ReadIndex(index[root[p]])>> /\ previous # <<>>
      BY <2>1
    <3>2. previous[1] = ReadIndex(index[root[p]])
      <4> HIDE DEF previous
      <4> QED BY <3>1
    <3>3. /\ ReadIndex(index[root[p]]).uuid = index[root[p]][1][2].uuid
          /\ ReadIndex(index[root[p]]).generation = index[root[p]][1][2].generation
      BY DEF ReadIndex
    <3>4. /\ new.superblock[2].uuid = previous[1].uuid
          /\ new.superblock[2].generation = previous[1].generation + 1
      <4> HIDE DEF previous
      <4> QED BY <3>1 DEF Encode, GenerationTable
    <3> QED BY <3>2, <3>3, <3>4
  <2> HIDE DEF new
  <2> QED BY <1>1, <1>2, <2>1 DEF SucceedsPrevious
<1>5. Own(p)'
  <2>1. WritesAsBuilt(p)'
    BY <1>2 DEF WritesAsBuilt, Soundly
  <2>2. EndsAsBegun(p)'
    BY <1>2 DEF EndsAsBegun, Entering, Leaving, Updating
  <2> QED BY <1>4, <2>1, <2>2 DEF Own
<1> HIDE DEF new
<1>6. ~Updating(p)'
  BY <1>2 DEF Updating
<1> QED BY <1>1, <1>2, <1>3, <1>5, <1>6, FileStep

LEMMA CreateStep ==
  ASSUME SyncIInv, TypeOK', Domains', NEW p \in Procs, Create(p)
  PROVE  SyncIInv'
<1>1. /\ pc[p] = "create" /\ pc' = [pc EXCEPT ![p] = "superblock"]
      /\ temp' = [temp EXCEPT ![root[p]] = <<>>] /\ handle' = [handle EXCEPT ![p] = "temp"]
      /\ UNCHANGED <<index, root, registry, registryTmp, disturbed, raced, synced,
                     contents, parts, wanted, naming>>
      /\ root[p] \in Roots
  BY DEF Create, Goto, names, built, history, SyncIInv, TypeOK
<1>2. /\ \A q \in Procs \ {p} : pc'[q] = pc[q] /\ handle'[q] = handle[q]
      /\ \A s \in Roots \ {root[p]} : temp'[s] = temp[s]
      /\ pc'[p] = "superblock" /\ handle'[p] = "temp" /\ temp'[root[p]] = <<>>
  BY <1>1 DEF SyncIInv, TypeOK
<1>3. Sound(parts'[p])
  BY <1>1 DEF SyncIInv, BuiltIsSound, Building
<1>4. Alone(p) => Own(p)'
  <2>1. WritesAsBuilt(p)'
    BY <1>1, <1>2 DEF WritesAsBuilt, Soundly
  <2>2. EndsAsBegun(p)'
    BY <1>2 DEF EndsAsBegun, Entering, Leaving, Updating
  <2>3. Alone(p) => SucceedsPrevious(p)'
    BY <1>1, <1>2 DEF SyncIInv, OwnRootIsKept, SucceedsPrevious, Building
  <2> QED BY <2>1, <2>2, <2>3 DEF Own
<1>5. ~Updating(p)'
  BY <1>2 DEF Updating
<1> QED BY <1>1, <1>2, <1>3, <1>4, <1>5, FileStep

(* One write through the handle, when the process has the root to itself   *)
(* and whatever it hits otherwise.                                         *)
LEMMA ThroughFacts ==
  ASSUME SyncIInv, NEW p \in Procs, root[p] \in Roots, NEW at, NEW cells, Through(p, at, cells)
  PROVE  /\ \A s \in Roots \ {root[p]} : index'[s] = index[s] /\ temp'[s] = temp[s]
         /\ handle[p] = "temp" => /\ index' = index
                                  /\ temp'[root[p]] = WriteAt(temp[root[p]], at, cells)
BY DEF Through, SyncIInv

(* The three writes, from one step to the next, which finds them written.  *)
Written(p, step) ==
  IF step = "body" THEN <<parts[p].superblock>>
  ELSE IF step = "table" THEN <<parts[p].superblock>> \o parts[p].body
  ELSE FileOf(parts[p])

LEMMA WriteStep ==
  ASSUME SyncIInv, TypeOK', Domains', NEW p \in Procs, NEW from, NEW to, NEW at, NEW cells,
         from \in {"superblock", "body", "table"}, to \in {"body", "table", "rename"},
         Goto(p, from, to), Through(p, at, cells),
         Alone(p) => WriteAt(temp[root[p]], at, cells) = Written(p, to) /\ handle[p] = "temp",
         \A q \in Procs \ {p} : handle'[q] = handle[q],
         to # "rename" => handle'[p] = handle[p],
         UNCHANGED <<root, registry, registryTmp, disturbed, raced, synced, contents, parts,
                     wanted, naming>>
  PROVE  SyncIInv'
<1>1. /\ pc[p] = from /\ pc' = [pc EXCEPT ![p] = to] /\ root[p] \in Roots
      /\ \A q \in Procs \ {p} : pc'[q] = pc[q]
      /\ pc'[p] = to /\ Building(p) /\ ~Updating(p)'
  BY DEF Goto, SyncIInv, TypeOK, Building, Updating
<1>2. Sound(parts'[p])
  BY <1>1 DEF SyncIInv, BuiltIsSound
<1>3. /\ \A s \in Roots \ {root[p]} : index'[s] = index[s] /\ temp'[s] = temp[s]
      /\ Alone(p) => /\ index' = index
                     /\ temp'[root[p]] = WriteAt(temp[root[p]], at, cells)
  BY <1>1, ThroughFacts
<1>4. ASSUME Alone(p) PROVE Own(p)'
  <2>1. WritesAsBuilt(p)'
    BY <1>1, <1>3, <1>4 DEF WritesAsBuilt, Soundly, Written
  <2>2. EndsAsBegun(p)'
    BY <1>1 DEF EndsAsBegun, Entering, Leaving, Updating
  <2>3. SucceedsPrevious(p)'
    BY <1>1, <1>3, <1>4 DEF SyncIInv, OwnRootIsKept, SucceedsPrevious, Building
  <2> QED BY <2>1, <2>2, <2>3 DEF Own
<1>5. pc[p] # "idle" /\ pc'[p] \notin {"idle", "previous"}
  BY <1>1
<1> QED BY <1>1, <1>2, <1>3, <1>4, <1>5, FileStep

LEMMA WritesStep ==
  ASSUME SyncIInv, TypeOK', Domains', NEW p \in Procs,
         WriteSuperblock(p) \/ WriteBody(p) \/ WriteTable(p)
  PROVE  SyncIInv'
<1>1. /\ UNCHANGED <<root, registry, registryTmp, disturbed, raced, synced, contents, parts,
                     wanted, naming>>
      /\ pc[p] \in {"superblock", "body", "table"}
      /\ handle \in [Procs -> Handles]
  BY DEF WriteSuperblock, WriteBody, WriteTable, Goto, names, built, history, SyncIInv, TypeOK
<1>2. parts[p].body \in Seq(ToSet(parts[p].body))
  BY <1>1 DEF SyncIInv, BuiltIsSound, Building, Sound
<1>3. ASSUME Alone(p) PROVE WritesAsBuilt(p)
  BY <1>3 DEF SyncIInv, OwnRootIsKept
<1>4. CASE WriteSuperblock(p)
  <2>1. /\ Goto(p, "superblock", "body") /\ Through(p, 1, <<parts[p].superblock>>)
        /\ handle' = handle /\ pc[p] = "superblock"
    BY <1>4 DEF WriteSuperblock, Goto
  <2>2. ASSUME Alone(p)
        PROVE  /\ WriteAt(temp[root[p]], 1, <<parts[p].superblock>>) = Written(p, "body")
               /\ handle[p] = "temp"
    BY <1>2, <1>3, <2>1, <2>2, WritesFacts DEF WritesAsBuilt, Soundly, Written
  <2> QED BY <1>1, <2>1, <2>2, WriteStep
<1>5. CASE WriteBody(p)
  <2>1. /\ Goto(p, "body", "table") /\ Through(p, 2, parts[p].body)
        /\ handle' = handle /\ pc[p] = "body"
    BY <1>5 DEF WriteBody, Goto
  <2>2. ASSUME Alone(p)
        PROVE  /\ WriteAt(temp[root[p]], 2, parts[p].body) = Written(p, "table")
               /\ handle[p] = "temp"
    BY <1>2, <1>3, <2>1, <2>2, WritesFacts DEF WritesAsBuilt, Soundly, Written
  <2> QED BY <1>1, <2>1, <2>2, WriteStep
<1>6. CASE WriteTable(p)
  <2>1. /\ Goto(p, "table", "rename") /\ Through(p, 2 + Len(parts[p].body), <<parts[p].table>>)
        /\ handle' = [handle EXCEPT ![p] = "none"] /\ pc[p] = "table"
    BY <1>6 DEF WriteTable, Goto
  <2>2. ASSUME Alone(p)
        PROVE  /\ WriteAt(temp[root[p]], 2 + Len(parts[p].body), <<parts[p].table>>) = Written(p, "rename")
               /\ handle[p] = "temp"
    BY <1>2, <1>3, <2>1, <2>2, WritesFacts DEF WritesAsBuilt, Soundly, Written
  <2>3. \A q \in Procs \ {p} : handle'[q] = handle[q]
    BY <1>1, <2>1
  <2> QED BY <1>1, <2>1, <2>2, <2>3, WriteStep
<1> QED BY <1>4, <1>5, <1>6

LEMMA RenameStep ==
  ASSUME SyncIInv, TypeOK', Domains', NEW p \in Procs, Rename(p)
  PROVE  SyncIInv'
<1>1. /\ pc[p] = "rename" /\ root[p] \in Roots
      /\ UNCHANGED <<registry, registryTmp, disturbed, raced, synced, uuids, started>>
  BY DEF Rename, names, history, SyncIInv, TypeOK
<1>2. CASE temp[root[p]] = NoFile
  <2>1. Stop(p) /\ UNCHANGED <<index, temp>>
    BY <1>2 DEF Rename
  <2> QED BY <1>1, <2>1, StopStep
<1>3. CASE temp[root[p]] # NoFile
  <2>1. /\ index' = [index EXCEPT ![root[p]] = temp[root[p]]]
        /\ temp' = [temp EXCEPT ![root[p]] = NoFile]
        /\ pc' = [pc EXCEPT ![p] = "project"] /\ handle' = Moved(root[p], "temp")
        /\ UNCHANGED <<root, contents, parts, wanted, naming>>
    BY <1>3 DEF Rename, Goto, built
  <2>2. /\ \A q \in Procs \ {p} : pc'[q] = pc[q] /\ (root[q] # root[p] => handle'[q] = handle[q])
        /\ \A s \in Roots \ {root[p]} : index'[s] = index[s] /\ temp'[s] = temp[s]
        /\ pc'[p] = "project" /\ index'[root[p]] = temp[root[p]]
    BY <1>1, <2>1 DEF Moved, SyncIInv, TypeOK
  <2>3. Alone(p) => Readable(index'[root[p]])
    <3>1. Alone(p) => temp[root[p]] = FileOf(parts[p])
      BY <1>1 DEF SyncIInv, OwnRootIsKept, WritesAsBuilt, Soundly
    <3>2. Sound(parts[p])
      BY <1>1 DEF SyncIInv, BuiltIsSound, Building
    <3> QED BY <2>2, <3>1, <3>2 DEF Sound
  <2>4. Alone(p) => Own(p)'
    <3>1. WritesAsBuilt(p)' /\ SucceedsPrevious(p)'
      BY <2>2 DEF WritesAsBuilt, Soundly, SucceedsPrevious, Building
    <3>2. Alone(p) => EndsAsBegun(p)'
      BY <2>1, <2>2, <2>3 DEF EndsAsBegun, Entering, Leaving, Updating
    <3> QED BY <3>1, <3>2 DEF Own
  <2>5. ~Building(p)' /\ ~Updating(p)'
    BY <2>2 DEF Building, Updating
  <2> QED BY <1>1, <2>1, <2>2, <2>3, <2>4, <2>5, FileStep
<1> QED BY <1>2, <1>3

LEMMA WriteProjectStep ==
  ASSUME SyncIInv, TypeOK', Domains', NEW p \in Procs, WriteProject(p)
  PROVE  SyncIInv'
<1>1. /\ pc[p] = "project"
      /\ UNCHANGED <<index, temp, registry, registryTmp, disturbed, raced, synced, uuids, started>>
  BY DEF WriteProject, names, history
<1>2. CASE ~Readable(index[root[p]])
  <2>1. Stop(p)
    BY <1>2 DEF WriteProject
  <2> QED BY <1>1, <2>1, StopStep
<1>3. CASE Readable(index[root[p]])
  <2>1. /\ pc' = [pc EXCEPT ![p] = "register"]
        /\ UNCHANGED <<root, contents, parts, handle, wanted, naming>>
    BY <1>3 DEF WriteProject, Goto, built
  <2>2. /\ \A q \in Procs \ {p} : pc'[q] = pc[q]
        /\ pc'[p] = "register"
    BY <2>1 DEF SyncIInv, TypeOK
  <2>3. Own(p)'
    <3>1. WritesAsBuilt(p)' /\ SucceedsPrevious(p)'
      BY <2>2 DEF WritesAsBuilt, Soundly, SucceedsPrevious, Building
    <3>2. EndsAsBegun(p)'
      BY <1>1, <1>3, <2>1, <2>2 DEF EndsAsBegun, Entering, Leaving, Updating, Readable
    <3> QED BY <3>1, <3>2 DEF Own
  <2>4. ~Building(p)' /\ ~Updating(p)'
    BY <2>2 DEF Building, Updating
  <2> QED BY <1>1, <2>1, <2>2, <2>3, <2>4, FileStep
<1> QED BY <1>2, <1>3

LEMMA RemoveIndexStep ==
  ASSUME SyncIInv, TypeOK', Domains', NEW p \in Procs, RemoveIndex(p)
  PROVE  SyncIInv'
<1>1. /\ pc[p] = "forget" /\ root[p] \in Roots
      /\ UNCHANGED <<temp, registry, registryTmp, disturbed, raced, synced, uuids, started>>
  BY DEF RemoveIndex, names, history, SyncIInv, TypeOK
<1>2. CASE index[root[p]] = NoFile
  <2>1. Stop(p) /\ UNCHANGED index
    BY <1>2 DEF RemoveIndex
  <2> QED BY <1>1, <2>1, StopStep
<1>3. CASE index[root[p]] # NoFile
  <2>1. /\ index' = [index EXCEPT ![root[p]] = NoFile]
        /\ pc' = [pc EXCEPT ![p] = "unproject"] /\ handle' = Moved(root[p], "nothing")
        /\ UNCHANGED <<root, contents, parts, wanted, naming>>
    BY <1>3 DEF RemoveIndex, Goto, built
  <2>2. /\ \A q \in Procs \ {p} : pc'[q] = pc[q] /\ (root[q] # root[p] => handle'[q] = handle[q])
        /\ \A s \in Roots \ {root[p]} : index'[s] = index[s] /\ temp'[s] = temp[s]
        /\ pc'[p] = "unproject" /\ index'[root[p]] = NoFile
    BY <1>1, <2>1 DEF Moved, SyncIInv, TypeOK
  <2>3. Alone(p) => root[p] \notin synced
    BY <1>1 DEF SyncIInv, OwnRootIsKept, EndsAsBegun, Leaving
  <2>4. Alone(p) => Own(p)'
    <3>1. WritesAsBuilt(p)' /\ SucceedsPrevious(p)'
      BY <2>2 DEF WritesAsBuilt, Soundly, SucceedsPrevious, Building
    <3>2. Alone(p) => EndsAsBegun(p)'
      BY <1>1, <2>1, <2>2, <2>3 DEF EndsAsBegun, Entering, Leaving, Updating
    <3> QED BY <3>1, <3>2 DEF Own
  <2>5. ~Building(p)' /\ ~Updating(p)'
    BY <2>2 DEF Building, Updating
  <2> QED BY <1>1, <2>1, <2>2, <2>3, <2>4, <2>5, FileStep
<1> QED BY <1>2, <1>3

LEMMA RemoveProjectStep ==
  ASSUME SyncIInv, TypeOK', Domains', NEW p \in Procs, RemoveProject(p)
  PROVE  SyncIInv'
<1>1. /\ pc[p] = "unproject" /\ pc' = [pc EXCEPT ![p] = "deregister"]
      /\ UNCHANGED <<index, temp, registry, registryTmp, disturbed, raced, synced, root, contents,
                     parts, handle, wanted, naming>>
  BY DEF RemoveProject, Goto, names, built, history
<1>2. /\ \A q \in Procs \ {p} : pc'[q] = pc[q]
      /\ pc'[p] = "deregister"
  BY <1>1 DEF SyncIInv, TypeOK
<1>3. Alone(p) => Own(p)'
  <2>1. WritesAsBuilt(p)' /\ SucceedsPrevious(p)'
    BY <1>2 DEF WritesAsBuilt, Soundly, SucceedsPrevious, Building
  <2>2. Alone(p) => EndsAsBegun(p)'
    BY <1>1, <1>2 DEF SyncIInv, OwnRootIsKept, EndsAsBegun, Entering, Leaving, Updating
  <2> QED BY <2>1, <2>2 DEF Own
<1>4. ~Building(p)' /\ ~Updating(p)'
  BY <1>2 DEF Building, Updating
<1> QED BY <1>1, <1>2, <1>3, <1>4, FileStep

(* A command begins, on a root of its own or on one that another is at.    *)
LEMMA BeginStep ==
  ASSUME SyncIInv, TypeOK', Domains', NEW p \in Procs, NEW r \in Roots,
         NEW first \in {"previous", "forget"}, Begin(p, r, first),
         UNCHANGED <<index, temp, registry, registryTmp, parts, handle, wanted, naming, raced>>,
         \A q \in Procs \ {p} : contents'[q] = contents[q],
         first = "previous" => contents'[p].files \in Seq(ToSet(contents'[p].files)),
         synced' = synced \/ synced' = synced \ {r}, first = "forget" => r \notin synced'
  PROVE  SyncIInv'
<1>1. /\ pc' = [pc EXCEPT ![p] = first] /\ pc[p] = "idle" /\ root' = [root EXCEPT ![p] = r]
      /\ disturbed \subseteq disturbed'
  BY DEF Begin, Goto
<1>2. /\ \A q \in Procs \ {p} : pc'[q] = pc[q] /\ root'[q] = root[q]
      /\ pc'[p] = first /\ root'[p] = r
  BY <1>1 DEF SyncIInv, TypeOK
<1>3. RootsAreApart'
  <2>1. first \in Steps \ {"idle"}
    BY DEF Steps
  <2> QED BY <2>1, RootsBegin
<1>4. ~Building(p)' /\ ~Updating(p)' /\ (pc'[p] = "previous" <=> first = "previous")
  BY <1>2 DEF Building, Updating
<1>5. NamesAreApart'
  <2>1. \A q \in Procs : Updating(q)' => pc'[q] = pc[q] /\ root'[q] = root[q]
    BY <1>2, <1>4
  <2> QED BY <2>1, NamesKeep
<1>6. SyncedIsFound'
  BY <1>1, FoundKeep
<1>7. BuiltIsSound' /\ OwnRootIsKept' /\ PreviousIntact'
  <2>1. Touches(p, r)
    BY <1>1, <1>2 DEF Touches
  <2>2. Own(p)'
    <3>1. WritesAsBuilt(p)' /\ SucceedsPrevious(p)'
      BY <1>2 DEF WritesAsBuilt, Soundly, SucceedsPrevious, Building
    <3>2. EndsAsBegun(p)'
      BY <1>2 DEF EndsAsBegun, Entering, Leaving, Updating
    <3> QED BY <3>1, <3>2 DEF Own
  <2>3. r \in Roots \ disturbed' => index'[r] = NoFile \/ Readable(index'[r])
    BY <1>1 DEF SyncIInv, PreviousIntact
  <2> QED BY <1>2, <1>3, <1>4, <2>1, <2>2, <2>3, OthersKeep
<1> QED BY <1>3, <1>5, <1>6, <1>7 DEF SyncIInv, Domains

LEMMA ScanStep ==
  ASSUME SyncIInv, TypeOK', Domains', NEW p \in Procs, NEW r \in Roots, NEW found \in Trees,
         Scan(p, r, found)
  PROVE  SyncIInv'
<1> DEFINE plan == FullCorrectnessWalk(found, <<>>)
           d == Documents(plan)
           made == BuildContents(BuildLexical(d), plan.contents)
<1>1. /\ Begin(p, r, "previous") /\ contents' = [contents EXCEPT ![p] = made]
      /\ UNCHANGED <<index, temp, registry, registryTmp, parts, handle, wanted, naming, raced, synced>>
  BY DEF Scan, files, names
<1>2. made.files \in Seq(ToSet(made.files))
  <2>1. DOMAIN d = 1..Len(d) /\ Len(d) \in Nat
    BY DocumentsFacts
  <2> HIDE DEF d
  <2> QED BY <2>1, FilesFacts
<1> HIDE DEF made
<1>3. /\ \A q \in Procs \ {p} : contents'[q] = contents[q]
      /\ contents'[p].files \in Seq(ToSet(contents'[p].files))
  BY <1>1, <1>2 DEF SyncIInv
<1> QED BY <1>1, <1>3, BeginStep

LEMMA UnsyncStep ==
  ASSUME SyncIInv, TypeOK', Domains', NEW p \in Procs, NEW r \in Roots, Unsync(p, r)
  PROVE  SyncIInv'
<1>1. /\ UNCHANGED <<index, temp, registry, registryTmp, contents, parts, handle, wanted, naming, raced>>
      /\ synced' = synced \ {r}
  BY DEF Unsync, files, names, built
<1>2. CASE index[r] = NoFile
  <2>1. pc[p] = "idle" /\ UNCHANGED <<pc, root, disturbed>>
    BY <1>2 DEF Unsync
  <2>2. RootsAreApart'
    BY <2>1, RootsKeep
  <2>3. NamesAreApart'
    BY <1>1, <2>1, NamesKeep
  <2>4. SyncedIsFound'
    BY <1>1, <2>1, FoundKeep
  <2>5. BuiltIsSound' /\ OwnRootIsKept' /\ PreviousIntact'
    <3>1. Touches(p, root[p])
      BY <1>1, <2>1 DEF Touches
    <3>2. ~Alone(p)' /\ ~Building(p)' /\ pc'[p] # "previous"
      BY <2>1 DEF Alone, Building
    <3>3. root[p] \in Roots \ disturbed' => index'[root[p]] = NoFile \/ Readable(index'[root[p]])
      BY <1>1, <2>1 DEF SyncIInv, PreviousIntact
    <3> QED BY <2>2, <3>1, <3>2, <3>3, OthersKeep
  <2> QED BY <2>2, <2>3, <2>4, <2>5 DEF SyncIInv, Domains
<1>3. CASE index[r] # NoFile
  <2>1. Begin(p, r, "forget")
    BY <1>3 DEF Unsync
  <2> QED BY <1>1, <2>1, BeginStep
<1> QED BY <1>2, <1>3

(* A step of p on its way through roots.toml leaves the rest.              *)
LEMMA NamesStep ==
  ASSUME SyncIInv, TypeOK', NEW p \in Procs, pc[p] # "idle", Updating(p)',
         UNCHANGED <<index, temp, root, disturbed, synced, contents, parts, handle>>,
         raced => raced', ~raced' => registry' = registry,
         \A q \in Procs \ {p} : pc'[q] = pc[q] /\ wanted'[q] = wanted[q],
         Alone(p) => EndsAsBegun(p)'
  PROVE  RootsAreApart' /\ SyncedIsFound' /\ BuiltIsSound' /\ OwnRootIsKept' /\ PreviousIntact'
<1>1. ~Building(p)' /\ pc'[p] \notin {"idle", "previous", "create", "superblock", "body", "table", "rename"}
  BY DEF Building, Updating
<1>2. RootsAreApart'
  BY <1>1, RootsKeep
<1>3. SyncedIsFound'
  BY FoundKeep
<1>4. Touches(p, root[p])
  BY DEF Touches
<1>5. Alone(p)' => Own(p)'
  <2>1. WritesAsBuilt(p)' /\ SucceedsPrevious(p)'
    BY <1>1 DEF WritesAsBuilt, Soundly, SucceedsPrevious
  <2>2. Alone(p)' => Alone(p)
    BY DEF Alone
  <2> QED BY <2>1, <2>2 DEF Own
<1>6. root[p] \in Roots \ disturbed' => index'[root[p]] = NoFile \/ Readable(index'[root[p]])
  BY DEF SyncIInv, PreviousIntact
<1> QED BY <1>1, <1>2, <1>3, <1>4, <1>5, <1>6, OthersKeep

LEMMA UpdatesStep ==
  ASSUME SyncIInv, TypeOK', Domains', NEW p \in Procs, NEW from, NEW all, from # "idle",
         Updates(p, from, all),
         UNCHANGED <<index, temp, registry, registryTmp, disturbed, synced>>,
         all \in {LoadRegistry(registry) \cup {root[p]}, LoadRegistry(registry) \ {root[p]}},
         Alone(p) => EndsAsBegun(p)'
  PROVE  SyncIInv'
<1>1. /\ pc[p] = from /\ pc' = [pc EXCEPT ![p] = "open names"]
      /\ raced' = (raced \/ \E q \in Procs \ {p} : Updating(q))
      /\ wanted' = [wanted EXCEPT ![p] = all]
      /\ UNCHANGED <<root, contents, parts, handle, naming>>
  BY DEF Updates, Goto, built
<1>2. /\ \A q \in Procs \ {p} : pc'[q] = pc[q] /\ wanted'[q] = wanted[q]
      /\ pc'[p] = "open names" /\ wanted'[p] = all
  BY <1>1 DEF SyncIInv, TypeOK
<1>3. Updating(p)'
  BY <1>2 DEF Updating
<1>4. NamesAreApart'
  <2>1. ASSUME ~raced', NEW q \in Procs, q # p PROVE ~Updating(q)' /\ pc'[q] = pc[q]
    BY <1>1, <1>2, <2>1 DEF Updating
  <2>2. \A q \in Procs : pc'[q] \in {"write names", "rename names"} => Updating(q)' /\ q # p
    BY <1>2 DEF Updating
  <2> QED BY <1>1, <1>2, <2>1, <2>2 DEF NamesAreApart
<1>5. RootsAreApart' /\ SyncedIsFound' /\ BuiltIsSound' /\ OwnRootIsKept' /\ PreviousIntact'
  BY <1>1, <1>2, <1>3, NamesStep
<1> QED BY <1>4, <1>5 DEF SyncIInv, Domains

LEMMA RegisterStep ==
  ASSUME SyncIInv, TypeOK', Domains', NEW p \in Procs, Register(p)
  PROVE  SyncIInv'
<1> DEFINE all == LoadRegistry(registry) \cup {root[p]}
<1>1. /\ Updates(p, "register", all)
      /\ UNCHANGED <<index, temp, registry, registryTmp, disturbed, synced>>
  BY DEF Register, files, names
<1>2. Alone(p) => EndsAsBegun(p)'
  <2>1. /\ pc[p] = "register" /\ pc'[p] = "open names" /\ wanted'[p] = all /\ root' = root
    BY <1>1 DEF Updates, Goto, SyncIInv, TypeOK
  <2>2. Alone(p) => index[root[p]] # NoFile
    BY <2>1 DEF SyncIInv, OwnRootIsKept, EndsAsBegun, Entering
  <2> QED BY <1>1, <2>1, <2>2 DEF EndsAsBegun, Entering, Leaving, Updating
<1> QED BY <1>1, <1>2, UpdatesStep

LEMMA DeregisterStep ==
  ASSUME SyncIInv, TypeOK', Domains', NEW p \in Procs, Deregister(p)
  PROVE  SyncIInv'
<1> DEFINE all == LoadRegistry(registry) \ {root[p]}
<1>1. /\ pc[p] = "deregister"
      /\ UNCHANGED <<index, temp, registry, registryTmp, disturbed, synced, uuids, started>>
  BY DEF Deregister, files, names
<1>2. CASE root[p] \notin LoadRegistry(registry)
  <2>1. Stop(p) /\ UNCHANGED raced
    BY <1>2 DEF Deregister
  <2> QED BY <1>1, <2>1, StopStep
<1>3. CASE root[p] \in LoadRegistry(registry)
  <2>1. Updates(p, "deregister", all)
    BY <1>3 DEF Deregister
  <2>2. Alone(p) => EndsAsBegun(p)'
    <3>1. pc'[p] = "open names" /\ wanted'[p] = all /\ root' = root
      BY <2>1 DEF Updates, Goto, SyncIInv, TypeOK
    <3>2. Alone(p) => root[p] \notin synced
      BY <1>1 DEF SyncIInv, OwnRootIsKept, EndsAsBegun, Leaving
    <3> QED BY <1>1, <3>1, <3>2 DEF EndsAsBegun, Entering, Leaving, Updating
  <2> QED BY <1>1, <2>1, <2>2, UpdatesStep
<1> QED BY <1>2, <1>3

LEMMA OpenNamesStep ==
  ASSUME SyncIInv, TypeOK', Domains', NEW p \in Procs, OpenNames(p)
  PROVE  SyncIInv'
<1>1. /\ pc[p] = "open names" /\ pc' = [pc EXCEPT ![p] = "write names"]
      /\ registryTmp' = Blank /\ naming' = [naming EXCEPT ![p] = "temp"]
      /\ UNCHANGED <<index, temp, registry, root, contents, parts, handle, wanted, disturbed,
                     raced, synced>>
  BY DEF OpenNames, Goto, files, built, history
<1>2. /\ \A q \in Procs \ {p} : pc'[q] = pc[q] /\ naming'[q] = naming[q]
      /\ pc'[p] = "write names" /\ naming'[p] = "temp"
      /\ Updating(p) /\ Updating(p)'
  BY <1>1 DEF SyncIInv, TypeOK, Updating
<1>3. NamesAreApart'
  <2>1. ASSUME ~raced, NEW q \in Procs, q # p PROVE ~Updating(q)' /\ pc'[q] = pc[q]
    BY <1>2, <2>1 DEF SyncIInv, NamesAreApart, Updating
  <2>2. \A q \in Procs : pc'[q] \in {"write names", "rename names"} => Updating(q)'
    BY DEF Updating
  <2> QED BY <1>1, <1>2, <2>1, <2>2 DEF SyncIInv, NamesAreApart
<1>4. Alone(p) => EndsAsBegun(p)'
  BY <1>1, <1>2 DEF SyncIInv, OwnRootIsKept, EndsAsBegun, Entering, Leaving
<1>5. RootsAreApart' /\ SyncedIsFound' /\ BuiltIsSound' /\ OwnRootIsKept' /\ PreviousIntact'
  BY <1>1, <1>2, <1>4, NamesStep
<1> QED BY <1>3, <1>5 DEF SyncIInv, Domains

LEMMA WriteNamesStep ==
  ASSUME SyncIInv, TypeOK', Domains', NEW p \in Procs, WriteNames(p)
  PROVE  SyncIInv'
<1>1. /\ pc[p] = "write names" /\ pc' = [pc EXCEPT ![p] = "rename names"]
      /\ registry' = IF naming[p] = "live" THEN Overwritten(registry, wanted[p]) ELSE registry
      /\ registryTmp' = IF naming[p] = "temp" THEN Overwritten(registryTmp, wanted[p])
                        ELSE registryTmp
      /\ naming' = [naming EXCEPT ![p] = "none"]
      /\ UNCHANGED <<index, temp, root, contents, parts, handle, wanted, disturbed, raced, synced>>
  BY DEF WriteNames, Goto, files, built, history
<1>2. /\ \A q \in Procs \ {p} : pc'[q] = pc[q]
      /\ pc'[p] = "rename names" /\ Updating(p) /\ Updating(p)' /\ wanted[p] \in SUBSET Roots
  BY <1>1 DEF SyncIInv, TypeOK, Updating
<1>3. ~raced => registry' = registry /\ registryTmp' = <<"roots", wanted[p]>>
  BY <1>1, <1>2, RegistryFacts DEF SyncIInv, NamesAreApart
<1>4. NamesAreApart'
  <2>1. ASSUME ~raced, NEW q \in Procs, q # p PROVE ~Updating(q)'
    BY <1>2, <2>1 DEF SyncIInv, NamesAreApart, Updating
  <2>2. \A q \in Procs : pc'[q] \in {"write names", "rename names"} => Updating(q)'
    BY DEF Updating
  <2>3. ~raced => \/ wanted[p] = LoadRegistry(registry) \cup {root[p]}
                  \/ wanted[p] = LoadRegistry(registry) \ {root[p]}
    BY <1>2 DEF SyncIInv, NamesAreApart
  <2> QED BY <1>1, <1>2, <1>3, <2>1, <2>2, <2>3 DEF NamesAreApart
<1>5. Alone(p) => EndsAsBegun(p)'
  BY <1>1, <1>2 DEF SyncIInv, OwnRootIsKept, EndsAsBegun, Entering, Leaving
<1>6. RootsAreApart' /\ SyncedIsFound' /\ BuiltIsSound' /\ OwnRootIsKept' /\ PreviousIntact'
  BY <1>1, <1>2, <1>3, <1>5, NamesStep
<1> QED BY <1>4, <1>6 DEF SyncIInv, Domains

LEMMA RenameNamesStep ==
  ASSUME SyncIInv, TypeOK', Domains', NEW p \in Procs, RenameNames(p)
  PROVE  SyncIInv'
<1>1. /\ pc[p] = "rename names"
      /\ UNCHANGED <<index, temp, disturbed, raced, uuids, started>>
  BY DEF RenameNames, files
<1>2. CASE registryTmp = NoNames
  <2>1. Stop(p) /\ UNCHANGED <<registry, registryTmp, synced>>
    BY <1>2 DEF RenameNames, names
  <2> QED BY <1>1, <2>1, StopStep
<1>3. CASE registryTmp # NoNames
  <2>1. /\ registry' = registryTmp /\ Ended(p)
        /\ synced' = IF root[p] \in wanted[p] THEN synced \cup {root[p]} ELSE synced
    BY <1>3 DEF RenameNames
  <2>2. /\ \A q \in Procs \ {p} :
             /\ pc'[q] = pc[q] /\ root'[q] = root[q] /\ contents'[q] = contents[q]
             /\ parts'[q] = parts[q] /\ wanted'[q] = wanted[q] /\ handle'[q] = handle[q]
        /\ pc'[p] = "idle" /\ Updating(p) /\ root[p] \in Roots /\ wanted[p] \in SUBSET Roots
    BY <1>1, <2>1 DEF Ended, SyncIInv, TypeOK, Updating
  <2>3. RootsAreApart'
    BY <1>1, <2>1, RootsEnd
  <2>4. NamesAreApart'
    <3>1. ASSUME ~raced, NEW q \in Procs PROVE ~Updating(q)'
      <4>1. CASE q = p
        BY <2>2, <4>1 DEF Updating
      <4>2. CASE q # p
        BY <2>2, <3>1, <4>2 DEF SyncIInv, NamesAreApart, Updating
      <4> QED BY <4>1, <4>2
    <3>2. \A q \in Procs : pc'[q] \in {"write names", "rename names"} => Updating(q)'
      BY DEF Updating
    <3> QED BY <1>1, <3>1, <3>2 DEF NamesAreApart
  <2>5. BuiltIsSound' /\ OwnRootIsKept' /\ PreviousIntact'
    <3>1. Touches(p, root[p])
      BY <1>1, <2>1, <2>2 DEF Touches
    <3>2. ~Alone(p)' /\ ~Building(p)' /\ pc'[p] # "previous"
      BY <2>2 DEF Alone, Building
    <3>3. root[p] \in Roots \ disturbed' => index'[root[p]] = NoFile \/ Readable(index'[root[p]])
      BY <1>1 DEF SyncIInv, PreviousIntact
    <3> QED BY <2>3, <3>1, <3>2, <3>3, OthersKeep
  <2>6. SyncedIsFound'
    <3> SUFFICES ASSUME ~raced, NEW r \in synced' \ disturbed
                 PROVE  r \in LoadRegistry(registryTmp) /\ index[r] # NoFile
      BY <1>1, <2>1 DEF SyncedIsFound
    <3>1. /\ registryTmp = <<"roots", wanted[p]>>
          /\ \/ wanted[p] = LoadRegistry(registry) \cup {root[p]}
             \/ wanted[p] = LoadRegistry(registry) \ {root[p]}
      BY <1>1, <2>2 DEF SyncIInv, NamesAreApart
    <3>2. LoadRegistry(registryTmp) = wanted[p]
      BY <2>2, <3>1, RegistryFacts
    <3>3. CASE r = root[p]
      <4>1. Alone(p)
        BY <1>1, <3>3 DEF Alone
      <4>2. EndsAsBegun(p)
        BY <4>1 DEF SyncIInv, OwnRootIsKept
      <4>3. root[p] \in wanted[p]
        BY <2>1, <2>2, <3>3, <4>2 DEF EndsAsBegun, Leaving
      <4> QED BY <2>2, <3>2, <3>3, <4>2, <4>3 DEF EndsAsBegun, Entering
    <3>4. CASE r # root[p]
      <4>1. r \in synced
        BY <2>1, <3>4
      <4>2. r \in LoadRegistry(registry) /\ index[r] # NoFile
        BY <4>1 DEF SyncIInv, SyncedIsFound
      <4> QED BY <3>1, <3>2, <3>4, <4>2
    <3> QED BY <3>3, <3>4
  <2> QED BY <2>3, <2>4, <2>5, <2>6 DEF SyncIInv, Domains
<1> QED BY <1>2, <1>3

LEMMA SyncStart == Init => SyncIInv
<1> SUFFICES ASSUME Init PROVE SyncIInv
  OBVIOUS
<1>1. TypeOK /\ Domains
  <2>1. started \in 0..MaxCommands /\ uuids \in Nat
    <3>1. \A m \in Nat : 0 \in 0..m
      OBVIOUS
    <3> QED BY <3>1, SyncAssumption DEF Init
  <2>2. /\ registry \in NamesFile /\ registryTmp \in NamesFile
        /\ pc \in [Procs -> Steps] /\ root \in [Procs -> Roots \cup {Nowhere}]
        /\ \A p \in Procs : pc[p] = "idle"
        /\ handle \in [Procs -> Handles] /\ naming \in [Procs -> Handles]
        /\ wanted \in [Procs -> SUBSET Roots]
        /\ disturbed = {} /\ raced = FALSE /\ synced = {}
    BY RegistryFacts DEF Init, Steps, Handles
  <2>3. Domains
    BY DEF Init, Domains
  <2> QED BY <2>1, <2>2, <2>3 DEF TypeOK
<1>2. BuiltIsSound /\ RootsAreApart /\ OwnRootIsKept
  BY DEF Init, BuiltIsSound, Building, RootsAreApart, OwnRootIsKept, Alone
<1>3. NamesAreApart /\ PreviousIntact /\ SyncedIsFound
  BY DEF Init, NamesAreApart, Updating, PreviousIntact, SyncedIsFound
<1> QED BY <1>1, <1>2, <1>3 DEF SyncIInv, Domains

LEMMA SyncStep == SyncIInv /\ [Next]_vars => SyncIInv'
<1> SUFFICES ASSUME SyncIInv, [Next]_vars PROVE SyncIInv'
  OBVIOUS
<1>1. CASE UNCHANGED vars
  <2>1. UNCHANGED <<index, temp, registry, registryTmp, pc, root, contents, parts, handle, wanted,
                    naming, uuids, started, disturbed, raced, synced>>
    BY <1>1 DEF vars, files, names, command, built, history
  <2>2. TypeOK' /\ Domains'
    BY <2>1 DEF SyncIInv, TypeOK, Domains
  <2>3. RootsAreApart' /\ NamesAreApart' /\ SyncedIsFound' /\ PreviousIntact' /\ BuiltIsSound'
    BY <2>1 DEF SyncIInv, RootsAreApart, Alone, NamesAreApart, Updating, SyncedIsFound,
                PreviousIntact, BuiltIsSound, Building
  <2>4. OwnRootIsKept'
    BY <2>1 DEF SyncIInv, OwnRootIsKept, Alone, WritesAsBuilt, Soundly, SucceedsPrevious, Building,
                EndsAsBegun, Entering, Leaving, Updating
  <2> QED BY <2>2, <2>3, <2>4 DEF SyncIInv, Domains
<1>2. ASSUME NEW p \in Procs,
             Step(p) \/ \E r \in Roots : Unsync(p, r) \/ \E found \in Trees : Scan(p, r, found)
      PROVE  SyncIInv'
  <2>1. TypeOK' /\ Domains'
    BY <1>2, SyncTypes DEF SyncIInv, Domains
  <2>2. ASSUME NEW r \in Roots, NEW found \in Trees, Scan(p, r, found) PROVE SyncIInv'
    BY <2>1, <2>2, ScanStep
  <2>3. ASSUME NEW r \in Roots, Unsync(p, r) PROVE SyncIInv'
    BY <2>1, <2>3, UnsyncStep
  <2>4. CASE ReadPrevious(p)
    BY <2>1, <2>4, ReadPreviousStep
  <2>5. CASE Create(p)
    BY <2>1, <2>5, CreateStep
  <2>6. CASE WriteSuperblock(p) \/ WriteBody(p) \/ WriteTable(p)
    BY <2>1, <2>6, WritesStep
  <2>7. CASE Rename(p)
    BY <2>1, <2>7, RenameStep
  <2>8. CASE WriteProject(p)
    BY <2>1, <2>8, WriteProjectStep
  <2>9. CASE RemoveIndex(p)
    BY <2>1, <2>9, RemoveIndexStep
  <2>10. CASE RemoveProject(p)
    BY <2>1, <2>10, RemoveProjectStep
  <2>11. CASE Register(p)
    BY <2>1, <2>11, RegisterStep
  <2>12. CASE Deregister(p)
    BY <2>1, <2>12, DeregisterStep
  <2>13. CASE OpenNames(p)
    BY <2>1, <2>13, OpenNamesStep
  <2>14. CASE WriteNames(p)
    BY <2>1, <2>14, WriteNamesStep
  <2>15. CASE RenameNames(p)
    BY <2>1, <2>15, RenameNamesStep
  <2>16. CASE Crash(p)
    <3>1. /\ pc[p] # "idle" /\ Stop(p)
          /\ UNCHANGED <<index, temp, registry, registryTmp, uuids, started, disturbed, raced, synced>>
      BY <2>16 DEF Crash, files, names, history
    <3> QED BY <3>1, StopStep
  <2> QED BY <1>2, <2>2, <2>3, <2>4, <2>5, <2>6, <2>7, <2>8, <2>9, <2>10, <2>11, <2>12, <2>13,
             <2>14, <2>15, <2>16 DEF Step
<1> QED BY <1>1, <1>2 DEF Next

(* The inductive invariant of the commands: what is built is complete      *)
(* before it is written, a process that has its root to itself finds what  *)
(* it wrote, and one that has roots.toml to itself writes what it read     *)
(* (app/sync.rs, tqi/codec.rs, tqi/registry.rs).                           *)
THEOREM SyncInvariance == Spec => []SyncIInv
BY SyncStart, SyncStep, PTL DEF Spec

(* The types of the commands' state.                                       *)
THEOREM SyncTypeSafety == Spec => []TypeOK
<1>1. SyncIInv => TypeOK
  BY DEF SyncIInv
<1> QED BY <1>1, SyncInvariance, PTL

(* An interrupted sync leaves the previous index intact, whatever the      *)
(* commands on other roots do (tqi/codec.rs write).                        *)
THEOREM PreviousSafety == Spec => []PreviousIntact
<1>1. SyncIInv => PreviousIntact
  BY DEF SyncIInv
<1> QED BY <1>1, SyncInvariance, PTL

(* A server finds what was synced and not unsynced since, as long as no    *)
(* two commands rewrote roots.toml at once and none shared the root        *)
(* (tqi/registry.rs register, deregister).                                 *)
THEOREM SyncedSafety == Spec => []SyncedIsFound
<1>1. SyncIInv => SyncedIsFound
  BY DEF SyncIInv
<1> QED BY <1>1, SyncInvariance, PTL

(* A step that replaces the index of a root that one command works on.     *)
LEMMA IdentityStep ==
  ASSUME SyncIInv, [Next]_vars, NEW r \in Roots \ disturbed',
         Readable(index[r]), index'[r] # index[r], index'[r] # NoFile
  PROVE  /\ Readable(index'[r])
         /\ ReadIndex(index'[r]).uuid = ReadIndex(index[r]).uuid
         /\ ReadIndex(index'[r]).generation = ReadIndex(index[r]).generation + 1
<1>1. PICK p \in Procs : Rename(p)
  <2>1. ~UNCHANGED vars
    BY DEF vars, files
  <2>2. PICK p \in Procs :
          Step(p) \/ \E s \in Roots : Unsync(p, s) \/ \E found \in Trees : Scan(p, s, found)
    BY <2>1 DEF Next
  <2>3. ~UNCHANGED index
    OBVIOUS
  <2>4. ~(\E s \in Roots : Unsync(p, s) \/ \E found \in Trees : Scan(p, s, found))
    BY <2>3 DEF Unsync, Scan, files
  <2>5. ~(ReadPrevious(p) \/ Create(p) \/ WriteProject(p) \/ RemoveProject(p) \/ Register(p)
          \/ Deregister(p) \/ OpenNames(p) \/ WriteNames(p) \/ RenameNames(p) \/ Crash(p))
    BY <2>3 DEF ReadPrevious, Create, WriteProject, RemoveProject, Register, Deregister, OpenNames,
                WriteNames, RenameNames, Crash, files
  <2>6. ~RemoveIndex(p)
    BY DEF RemoveIndex, SyncIInv
  <2>7. ASSUME NEW at, NEW cells, Through(p, at, cells), pc[p] \in {"superblock", "body", "table"},
               disturbed' = disturbed
        PROVE  FALSE
    <3>1. root[p] \in Roots
      BY <2>7 DEF SyncIInv, TypeOK
    <3>2. /\ \A s \in Roots \ {root[p]} : index'[s] = index[s]
          /\ handle[p] = "temp" => index' = index
      BY <2>7, <3>1, ThroughFacts
    <3>3. r = root[p] /\ Alone(p)
      BY <2>7, <3>2 DEF Alone
    <3>4. handle[p] = "temp"
      BY <2>7, <3>3 DEF SyncIInv, OwnRootIsKept, WritesAsBuilt, Soundly
    <3> QED BY <2>3, <3>2, <3>4
  <2>8. ~(WriteSuperblock(p) \/ WriteBody(p) \/ WriteTable(p))
    BY <2>7 DEF WriteSuperblock, WriteBody, WriteTable, Goto, history
  <2> QED BY <2>2, <2>4, <2>5, <2>6, <2>8 DEF Step
<1>2. /\ pc[p] = "rename" /\ root[p] \in Roots /\ disturbed' = disturbed
      /\ index' = [index EXCEPT ![root[p]] = temp[root[p]]]
  BY <1>1 DEF Rename, history, SyncIInv, TypeOK
<1>3. r = root[p] /\ index'[r] = temp[r] /\ Alone(p)
  BY <1>2 DEF SyncIInv, Alone
<1>4. index'[r] = FileOf(parts[p]) /\ Sound(parts[p])
  BY <1>2, <1>3 DEF SyncIInv, OwnRootIsKept, WritesAsBuilt, Soundly, BuiltIsSound, Building
<1>5. /\ parts[p].superblock[2].uuid = index[r][1][2].uuid
      /\ parts[p].superblock[2].generation = index[r][1][2].generation + 1
  BY <1>2, <1>3 DEF SyncIInv, OwnRootIsKept, SucceedsPrevious, Building
<1>6. \A file : ReadIndex(file).uuid = file[1][2].uuid /\ ReadIndex(file).generation = file[1][2].generation
  BY DEF ReadIndex
<1> QED BY <1>4, <1>5, <1>6 DEF Sound

(* A rewritten index is the same index, one generation on, unless two      *)
(* commands worked on the root at once (tqi/codec.rs write).               *)
THEOREM IdentitySafety == Spec => IdentityKept
<1>1. SyncIInv /\ [Next]_vars =>
        [\A r \in Roots \ disturbed' :
           /\ Readable(index[r]) /\ index'[r] # index[r] /\ index'[r] # NoFile
           => /\ Readable(index'[r])
              /\ ReadIndex(index'[r]).uuid = ReadIndex(index[r]).uuid
              /\ ReadIndex(index'[r]).generation = ReadIndex(index[r]).generation + 1]_vars
  BY IdentityStep
<1> QED BY <1>1, SyncInvariance, PTL DEF Spec, IdentityKept

-----------------------------------------------------------------------------
(* The answers are those of one sync.                                      *)
LEMMA WriteBeginsVouched ==
  ASSUME NEW r, NEW file, BeginsVouched(r, file), NEW at \in Nat \ {0},
         NEW cells, NEW m \in Nat, Len(cells) = m,
         at = 1 => m = 1 /\ Vouched(r, cells[1][2])
  PROVE  BeginsVouched(r, WriteAt(file, at, cells))
<1> DEFINE n == Len(file)
           last == at + m - 1
           size == IF n > last THEN n ELSE last
           value(i) == IF i >= at /\ i <= last THEN cells[i - at + 1]
                       ELSE IF i <= n THEN file[i] ELSE Hole
           new == WriteAt(file, at, cells)
<1>1. n \in Nat /\ size \in Nat
  <2>1. n \in Nat
    BY LenProperties DEF BeginsVouched
  <2> HIDE DEF n
  <2> QED BY <2>1
<1>2. new = [i \in 1..size |-> value(i)]
  BY DEF WriteAt
<1>3. new \in Seq(ToSet(new))
  <2> HIDE DEF new, size, value
  <2>1. new = [i \in 1..size |-> new[i]]
    BY <1>2
  <2> QED BY <1>1, <2>1, FunctionIsSequence
<1>4. ASSUME new # <<>>, new[1][1] = "superblock" PROVE Vouched(r, new[1][2])
  <2>1. 1 \in 1..size
    <3>1. size # 0
      <4>1. size = 0 => new = [i \in 1..0 |-> value(i)]
        BY <1>2
      <4>2. [i \in 1..0 |-> value(i)] = <<>>
        <5> HIDE DEF value
        <5> QED OBVIOUS
      <4> QED BY <1>4, <4>1, <4>2
    <3> HIDE DEF size
    <3> QED BY <1>1, <3>1
  <2>2. new[1] = value(1)
    <3> HIDE DEF size, value
    <3> QED BY <1>2, <2>1
  <2> HIDE DEF new
  <2>3. CASE at = 1
    <3>1. value(1) = cells[1]
      BY <2>3
    <3> QED BY <2>2, <2>3, <3>1
  <2>4. CASE at # 1
    <3>1. value(1) = IF 1 <= n THEN file[1] ELSE Hole
      <4> HIDE DEF n, last
      <4>1. ~(1 >= at)
        BY <2>4
      <4> QED BY <4>1
    <3>2. 1 <= n
      <4>1. Hole[1] # "superblock"
        BY DEF Hole
      <4> HIDE DEF n
      <4> QED BY <1>4, <2>2, <3>1, <4>1
    <3>3. file # <<>>
      <4>1. Len(<<>>) = 0
        BY EmptySeq
      <4>2. n # 0
        <5> HIDE DEF n
        <5> QED BY <1>1, <3>2
      <4> QED BY <4>1, <4>2
    <3>4. value(1) = file[1]
      BY <3>1, <3>2
    <3> HIDE DEF value, n
    <3> QED BY <1>4, <2>2, <3>3, <3>4 DEF BeginsVouched
  <2> QED BY <2>3, <2>4
<1> QED BY <1>3, <1>4 DEF BeginsVouched

(* Every file on disk is one that began vouched.                           *)
AllBeginVouched ==
  \A r \in Roots : BeginsVouched(r, index[r]) /\ BeginsVouched(r, temp[r])

LEMMA ThroughBeginsVouched ==
  ASSUME Domains, AllBeginVouched, assembled' = assembled, NEW p \in Procs, root[p] \in Roots,
         NEW at \in Nat \ {0}, NEW cells, NEW m \in Nat, Len(cells) = m, Through(p, at, cells),
         at = 1 => m = 1 /\ Vouched(root[p], cells[1][2])
  PROVE  AllBeginVouched'
<1>1. /\ BeginsVouched(root[p], WriteAt(index[root[p]], at, cells))
      /\ BeginsVouched(root[p], WriteAt(temp[root[p]], at, cells))
  BY WriteBeginsVouched DEF AllBeginVouched
<1>2. ASSUME NEW r \in Roots
      PROVE  BeginsVouched(r, index'[r]) /\ BeginsVouched(r, temp'[r])
  <2>1. /\ index'[r] = index[r] \/ (r = root[p] /\ index'[r] = WriteAt(index[r], at, cells))
        /\ temp'[r] = temp[r] \/ (r = root[p] /\ temp'[r] = WriteAt(temp[r], at, cells))
    BY DEF Through, Domains
  <2> QED BY <1>1, <2>1 DEF AllBeginVouched
<1>3. \A r, f : BeginsVouched(r, f) => BeginsVouched(r, f)'
  BY DEF BeginsVouched, Vouched
<1> QED BY <1>2 DEF AllBeginVouched, BeginsVouched, Vouched

(* What a step other than the reading of the previous index leaves alone.  *)
Settles(p) ==
  /\ assembled' = assembled /\ DOMAIN docs' = Procs
  /\ \A q \in Procs : Building(q)' => /\ Building(q) /\ root'[q] = root[q]
                                      /\ parts'[q] = parts[q]
  /\ \A q \in Procs : pc'[q] = "previous" =>
       \/ BuiltOfAWalk(docs'[q], contents'[q])
       \/ pc[q] = "previous" /\ docs'[q] = docs[q] /\ contents'[q] = contents[q]

LEMMA AnswersKeep ==
  ASSUME SyncsAreOfAWalk, FilesBeginVouched, NEW p, Settles(p), AllBeginVouched'
  PROVE  SyncsAreOfAWalk' /\ FilesBeginVouched'
<1>1. SyncsAreOfAWalk'
  BY DEF SyncsAreOfAWalk, Settles
<1>2. ASSUME NEW q \in Procs, Building(q)'
      PROVE  parts'[q].superblock[1] = "superblock" /\ Vouched(root'[q], parts'[q].superblock[2])
  BY <1>2 DEF FilesBeginVouched, Settles
<1>3. \A r, s : Vouched(r, s) => Vouched(r, s)'
  BY DEF Settles, Vouched
<1> QED BY <1>1, <1>2 DEF FilesBeginVouched, AllBeginVouched, Settles, Vouched

LEMMA StopSettles ==
  ASSUME Domains, TypeOK, DOMAIN docs = Procs, NEW p \in Procs, Stop(p), assembled' = assembled
  PROVE  Settles(p)
BY DEF Stop, Ended, Settles, Building, TypeOK, Domains

(* A step that goes on, and builds nothing.                                *)
LEMMA GoesOnSettles ==
  ASSUME Domains, TypeOK, DOMAIN docs = Procs, NEW p \in Procs, NEW to,
         pc' = [pc EXCEPT ![p] = to], to # "previous", UNCHANGED <<docs, contents, assembled>>,
         \A q \in Procs \ {p} : root'[q] = root[q] /\ parts'[q] = parts[q],
         Building(p)' => Building(p) /\ root' = root /\ parts' = parts
  PROVE  Settles(p)
BY DEF Settles, Building, TypeOK, Domains

LEMMA ScanSettles ==
  ASSUME Domains, TypeOK, DOMAIN docs = Procs, NEW p \in Procs, NEW r \in Roots,
         NEW found \in Trees, Scan(p, r, found)
  PROVE  Settles(p)
<1> DEFINE plan == FullCorrectnessWalk(found, <<>>)
           new == BuildContents(BuildLexical(Documents(plan)), plan.contents)
<1>1. /\ pc' = [pc EXCEPT ![p] = "previous"] /\ root' = [root EXCEPT ![p] = r]
      /\ docs' = [docs EXCEPT ![p] = Documents(plan)]
      /\ contents' = [contents EXCEPT ![p] = new]
      /\ UNCHANGED <<parts, assembled>>
  BY DEF Scan, Begin, Goto
<1>2. BuiltOfAWalk(Documents(plan), new)
  BY DEF BuiltOfAWalk
<1> HIDE DEF new, plan
<1>3. BuiltOfAWalk(docs'[p], contents'[p])
  BY <1>1, <1>2 DEF Domains
<1>4. \A q \in Procs \ {p} : /\ pc'[q] = pc[q] /\ root'[q] = root[q] /\ docs'[q] = docs[q]
                             /\ contents'[q] = contents[q] /\ parts'[q] = parts[q]
  BY <1>1 DEF TypeOK, Domains
<1>5. pc'[p] = "previous" /\ DOMAIN docs' = Procs
  BY <1>1 DEF TypeOK
<1> QED BY <1>1, <1>3, <1>4, <1>5 DEF Settles, Building

LEMMA StepSettles ==
  ASSUME Domains, TypeOK, DOMAIN docs = Procs, NEW p \in Procs,
         Step(p) \/ \E r \in Roots : Unsync(p, r) \/ \E found \in Trees : Scan(p, r, found),
         ~ReadPrevious(p)
  PROVE  Settles(p)
<1> USE DEF built, history
<1>1. ASSUME NEW r \in Roots, NEW found \in Trees, Scan(p, r, found) PROVE Settles(p)
  BY <1>1, ScanSettles
<1>2. ASSUME NEW r \in Roots, Unsync(p, r) PROVE Settles(p)
  <2>1. UNCHANGED <<docs, contents, parts, assembled>>
    BY <1>2 DEF Unsync
  <2>2. CASE index[r] = NoFile
    <3>1. UNCHANGED <<pc, root>>
      BY <1>2, <2>2 DEF Unsync
    <3> QED BY <2>1, <3>1 DEF Settles, Building
  <2>3. CASE index[r] # NoFile
    <3>1. pc' = [pc EXCEPT ![p] = "forget"] /\ root' = [root EXCEPT ![p] = r]
      BY <1>2, <2>3 DEF Unsync, Begin, Goto
    <3>2. ~Building(p)' /\ \A q \in Procs \ {p} : root'[q] = root[q]
      BY <3>1 DEF Building, TypeOK
    <3> QED BY <2>1, <3>1, <3>2, GoesOnSettles
  <2> QED BY <2>2, <2>3
<1>3. CASE Create(p)
  BY <1>3, GoesOnSettles DEF Create, Goto, Building
<1>4. CASE WriteSuperblock(p)
  BY <1>4, GoesOnSettles DEF WriteSuperblock, Goto, Building
<1>5. CASE WriteBody(p)
  BY <1>5, GoesOnSettles DEF WriteBody, Goto, Building
<1>6. CASE WriteTable(p)
  BY <1>6, GoesOnSettles DEF WriteTable, Goto, Building
<1>7. CASE Rename(p)
  BY <1>7, GoesOnSettles, StopSettles DEF Rename, Goto, Building
<1>8. CASE WriteProject(p)
  <2>1. CASE Stop(p) /\ assembled' = assembled
    BY <2>1, StopSettles
  <2>2. CASE Goto(p, "project", "register") /\ UNCHANGED <<root, docs, contents, parts, assembled>>
    <3>1. ~Building(p)'
      BY <2>2 DEF Goto, Building, TypeOK
    <3> QED BY <2>2, <3>1, GoesOnSettles DEF Goto
  <2> QED BY <1>8, <2>1, <2>2 DEF WriteProject
<1>9. CASE RemoveIndex(p)
  <2>1. CASE Stop(p) /\ assembled' = assembled
    BY <2>1, StopSettles
  <2>2. CASE Goto(p, "forget", "unproject") /\ UNCHANGED <<root, docs, contents, parts, assembled>>
    <3>1. ~Building(p)'
      BY <2>2 DEF Goto, Building, TypeOK
    <3> QED BY <2>2, <3>1, GoesOnSettles DEF Goto
  <2> QED BY <1>9, <2>1, <2>2 DEF RemoveIndex
<1>10. CASE RemoveProject(p)
  <2>1. ~Building(p)'
    BY <1>10 DEF RemoveProject, Goto, Building, TypeOK
  <2> QED BY <1>10, <2>1, GoesOnSettles DEF RemoveProject, Goto
<1>11. ASSUME NEW from, NEW all, Updates(p, from, all), assembled' = assembled PROVE Settles(p)
  <2>1. ~Building(p)'
    BY <1>11 DEF Updates, Goto, Building, TypeOK
  <2> QED BY <1>11, <2>1, GoesOnSettles DEF Updates, Goto
<1>12. CASE Register(p)
  BY <1>11, <1>12 DEF Register
<1>13. CASE Deregister(p)
  BY <1>11, <1>13, StopSettles DEF Deregister
<1>14. CASE OpenNames(p)
  <2>1. ~Building(p)'
    BY <1>14 DEF OpenNames, Goto, Building, TypeOK
  <2> QED BY <1>14, <2>1, GoesOnSettles DEF OpenNames, Goto
<1>15. CASE WriteNames(p)
  <2>1. ~Building(p)'
    BY <1>15 DEF WriteNames, Goto, Building, TypeOK
  <2> QED BY <1>15, <2>1, GoesOnSettles DEF WriteNames, Goto
<1>16. CASE RenameNames(p)
  <2>1. CASE Stop(p) /\ assembled' = assembled
    BY <2>1, StopSettles
  <2>2. CASE Ended(p) /\ assembled' = assembled
    BY <2>2 DEF Ended, Settles, Building, TypeOK, Domains
  <2> QED BY <1>16, <2>1, <2>2 DEF RenameNames
<1>17. CASE Crash(p)
  BY <1>17, StopSettles DEF Crash
<1> QED BY <1>1, <1>2, <1>3, <1>4, <1>5, <1>6, <1>7, <1>8, <1>9, <1>10, <1>12, <1>13, <1>14,
           <1>15, <1>16, <1>17 DEF Step

(* The superblock vouches for the table of its own generation.             *)
LEMMA EncodeVouches ==
  ASSUME NEW new, NEW previous, NEW fresh
  PROVE  LET e == Encode(new, previous, fresh)
         IN /\ e.superblock[1] = "superblock"
            /\ e.superblock[2].hash =
                 <<"table", GenerationTable(new, e.superblock[2].generation)>>
<1> DEFINE first == previous = <<>>
           generation == IF first THEN 1 ELSE previous[1].generation + 1
           t == GenerationTable(new, generation)
<1>1. t.generation = generation
  <2> HIDE DEF generation
  <2> QED BY DEF GenerationTable
<1>2. Encode(new, previous, fresh).superblock =
        <<"superblock", [uuid |-> IF first THEN fresh ELSE previous[1].uuid,
                         generation |-> t.generation, offset |-> 2 + Len(Body(new)),
                         hash |-> <<"table", t>>]>>
  BY DEF Encode
<1> HIDE DEF generation
<1> QED BY <1>1, <1>2

LEMMA ReadPreviousAnswers ==
  ASSUME Domains, TypeOK, SyncsAreOfAWalk, FilesBeginVouched, NEW p \in Procs, ReadPrevious(p)
  PROVE  SyncsAreOfAWalk' /\ FilesBeginVouched'
<1> DEFINE r == root[p]
           previous == IF Readable(index[r]) THEN <<ReadIndex(index[r])>> ELSE <<>>
           new == Encode(contents[p], previous, uuids + 1)
           sync == [superblock |-> new.superblock[2], docs |-> docs[p]]
<1>1. /\ pc[p] = "previous" /\ pc' = [pc EXCEPT ![p] = "create"]
      /\ parts' = [parts EXCEPT ![p] = new]
      /\ assembled' = [assembled EXCEPT ![r] = @ \cup {sync}]
      /\ UNCHANGED <<index, temp, root, docs, contents>>
  <2> HIDE DEF previous
  <2> QED BY DEF ReadPrevious, Goto, files, previous
<1>2. r \in Roots
  BY <1>1 DEF TypeOK
<1>3. /\ new.superblock[1] = "superblock"
      /\ new.superblock[2].hash =
           <<"table", GenerationTable(contents[p], new.superblock[2].generation)>>
  <2> HIDE DEF previous
  <2> QED BY EncodeVouches
<1> HIDE DEF new
<1>4. VouchesForAWalk(sync)
  <2>1. BuiltOfAWalk(docs[p], contents[p])
    BY <1>1 DEF SyncsAreOfAWalk
  <2>2. sync.docs = docs[p] /\ sync.superblock = new.superblock[2]
    OBVIOUS
  <2> HIDE DEF sync
  <2> QED BY <1>3, <2>1, <2>2 DEF BuiltOfAWalk, VouchesForAWalk
<1>5. sync.superblock = new.superblock[2]
  OBVIOUS
<1> HIDE DEF sync
<1>6. /\ DOMAIN assembled' = Roots /\ sync \in assembled'[r]
      /\ \A s \in Roots : assembled[s] \subseteq assembled'[s]
      /\ \A s \in Roots : \A x \in assembled'[s] : x \in assembled[s] \/ x = sync
  BY <1>1, <1>2 DEF SyncsAreOfAWalk
<1>7. /\ pc'[p] = "create" /\ parts'[p] = new
      /\ \A q \in Procs \ {p} : pc'[q] = pc[q] /\ parts'[q] = parts[q]
  BY <1>1 DEF TypeOK, Domains
<1>8. SyncsAreOfAWalk'
  BY <1>1, <1>4, <1>6, <1>7 DEF SyncsAreOfAWalk
<1>9. \A s \in Roots : \A x : Vouched(s, x) => \E y \in assembled'[s] : y.superblock = x
  BY <1>6 DEF Vouched
<1>10. ASSUME NEW q \in Procs, Building(q)'
       PROVE  /\ parts'[q].superblock[1] = "superblock"
              /\ \E y \in assembled'[root[q]] : y.superblock = parts'[q].superblock[2]
  <2>1. CASE q = p
    <3>1. \E y \in assembled'[r] : y.superblock = new.superblock[2]
      BY <1>5, <1>6
    <3> QED BY <1>1, <1>3, <1>7, <2>1, <3>1
  <2>2. CASE q # p
    <3>1. Building(q) /\ root[q] \in Roots
      BY <1>7, <1>10, <2>2 DEF Building, TypeOK
    <3>2. /\ parts[q].superblock[1] = "superblock"
          /\ Vouched(root[q], parts[q].superblock[2])
      BY <3>1 DEF FilesBeginVouched
    <3> QED BY <1>7, <1>9, <2>2, <3>1, <3>2
  <2> QED BY <2>1, <2>2
<1>11. ASSUME NEW s \in Roots, NEW file, BeginsVouched(s, file)
       PROVE  /\ file \in Seq(ToSet(file))
              /\ file # <<>> /\ file[1][1] = "superblock" =>
                   \E y \in assembled'[s] : y.superblock = file[1][2]
  BY <1>9, <1>11 DEF BeginsVouched
<1>12. FilesBeginVouched'
  <2>1. \A s \in Roots : BeginsVouched(s, index[s]) /\ BeginsVouched(s, temp[s])
    BY DEF FilesBeginVouched
  <2> QED BY <1>1, <1>10, <1>11, <2>1 DEF FilesBeginVouched, BeginsVouched, Vouched
<1> QED BY <1>8, <1>12

LEMMA FilesKept ==
  ASSUME assembled' = assembled,
         \A r \in Roots : BeginsVouched(r, index'[r]) /\ BeginsVouched(r, temp'[r])
  PROVE  AllBeginVouched'
BY DEF AllBeginVouched, BeginsVouched, Vouched

(* The files after any other step.                                         *)
LEMMA FilesStep ==
  ASSUME SyncIInv, SyncsAreOfAWalk, FilesBeginVouched, assembled' = assembled, NEW p \in Procs,
         Step(p) \/ \E r \in Roots : Unsync(p, r) \/ \E found \in Trees : Scan(p, r, found)
  PROVE  AllBeginVouched'
<1> DEFINE Same == index' = index /\ temp' = temp
<1>0. Domains /\ AllBeginVouched /\ (pc[p] # "idle" => root[p] \in Roots)
  BY DEF SyncIInv, Domains, FilesBeginVouched, AllBeginVouched, TypeOK
<1>1. CASE Same
  BY <1>0, <1>1 DEF AllBeginVouched, BeginsVouched, Vouched
<1>2. \A r \in Roots : BeginsVouched(r, <<>>) /\ BeginsVouched(r, NoFile)
  <2>1. <<>> \in Seq(ToSet(<<>>))
    BY EmptySeq
  <2>2. NoFile \in Seq(ToSet(NoFile)) /\ NoFile[1][1] # "superblock"
    <3>1. NoFile = [k \in 1..1 |-> NoFile[k]] /\ NoFile[1][1] = "no file"
      BY DEF NoFile
    <3> QED BY <3>1, FunctionIsSequence
  <2> QED BY <2>1, <2>2 DEF BeginsVouched
<1>3. CASE Create(p)
  <2>1. index' = index /\ temp' = [temp EXCEPT ![root[p]] = <<>>] /\ root[p] \in Roots
    BY <1>0, <1>3 DEF Create, Goto
  <2>2. \A r \in Roots : temp'[r] = temp[r] \/ temp'[r] = <<>>
    BY <1>0, <2>1 DEF Domains
  <2>9. \A r \in Roots : BeginsVouched(r, index'[r]) /\ BeginsVouched(r, temp'[r])
    BY <1>0, <1>2, <2>1, <2>2 DEF AllBeginVouched
  <2> QED BY ONLY <2>9, FilesKept, assembled' = assembled
<1>4. CASE WriteSuperblock(p)
  <2>1. /\ pc[p] = "superblock" /\ Through(p, 1, <<parts[p].superblock>>) /\ root[p] \in Roots
    BY <1>0, <1>4 DEF WriteSuperblock, Goto
  <2> DEFINE cells == <<parts[p].superblock>>
  <2>2. Vouched(root[p], cells[1][2]) /\ Len(cells) = 1
    BY <2>1 DEF FilesBeginVouched, Building
  <2>3. 1 \in Nat \ {0} /\ 1 \in Nat
    OBVIOUS
  <2> HIDE DEF cells
  <2>4. Through(p, 1, cells)
    BY <2>1 DEF cells
  <2> QED BY ONLY <1>0, <2>1, <2>2, <2>3, <2>4, assembled' = assembled, ThroughBeginsVouched
<1>5. CASE WriteBody(p) \/ WriteTable(p)
  <2>1. /\ pc[p] \in {"body", "table"} /\ root[p] \in Roots
        /\ \/ Through(p, 2, parts[p].body)
           \/ Through(p, 2 + Len(parts[p].body), <<parts[p].table>>)
    BY <1>0, <1>5 DEF WriteBody, WriteTable, Goto
  <2>2. Len(parts[p].body) \in Nat
    BY <2>1, LenProperties DEF SyncIInv, BuiltIsSound, Building, Sound
  <2>3. Len(<<parts[p].table>>) = 1
    OBVIOUS
  <2> DEFINE n == Len(parts[p].body)
  <2>4. 2 \in Nat \ {0} /\ 2 # 1 /\ 2 + n \in Nat \ {0} /\ 2 + n # 1
    <3> HIDE DEF n
    <3> QED BY <2>2 DEF n
  <2>5. CASE Through(p, 2, parts[p].body)
    BY <1>0, <2>1, <2>2, <2>4, <2>5, ThroughBeginsVouched
  <2>6. CASE Through(p, 2 + n, <<parts[p].table>>)
    <3> DEFINE cells == <<parts[p].table>>
    <3> HIDE DEF cells, n
    <3>1. Through(p, 2 + n, cells) /\ Len(cells) = 1 /\ 1 \in Nat
      BY <2>3, <2>6 DEF cells, n
    <3> QED BY ONLY <1>0, <2>1, <2>4, <3>1, assembled' = assembled, ThroughBeginsVouched
  <2> QED BY <2>1, <2>5, <2>6
<1>6. CASE Rename(p)
  <2>1. root[p] \in Roots
    BY <1>0, <1>6 DEF Rename
  <2>2. \/ Same
        \/ /\ index' = [index EXCEPT ![root[p]] = temp[root[p]]]
           /\ temp' = [temp EXCEPT ![root[p]] = NoFile]
    BY <1>6 DEF Rename
  <2>3. \A r \in Roots : /\ index'[r] \in {index[r], temp[r]}
                         /\ temp'[r] \in {temp[r], NoFile}
    BY <1>0, <2>1, <2>2 DEF Domains
  <2>9. \A r \in Roots : BeginsVouched(r, index'[r]) /\ BeginsVouched(r, temp'[r])
    BY <1>0, <1>2, <2>3 DEF AllBeginVouched
  <2> QED BY ONLY <2>9, FilesKept, assembled' = assembled
<1>7. CASE RemoveIndex(p)
  <2>1. temp' = temp /\ (index' = index \/ index' = [index EXCEPT ![root[p]] = NoFile])
    BY <1>7 DEF RemoveIndex
  <2>2. \A r \in Roots : index'[r] \in {index[r], NoFile}
    BY <1>0, <2>1 DEF Domains
  <2>9. \A r \in Roots : BeginsVouched(r, index'[r]) /\ BeginsVouched(r, temp'[r])
    BY <1>0, <1>2, <2>1, <2>2 DEF AllBeginVouched
  <2> QED BY ONLY <2>9, FilesKept, assembled' = assembled
<1>8. CASE ReadPrevious(p) \/ RemoveProject(p) \/ Register(p) \/ Deregister(p) \/ OpenNames(p)
           \/ WriteNames(p) \/ RenameNames(p) \/ Crash(p)
  <2>1. Same
    BY <1>8 DEF ReadPrevious, RemoveProject, Register, Deregister, OpenNames, WriteNames,
                RenameNames, Crash, files
  <2> QED BY <1>1, <2>1
<1>9. CASE WriteProject(p)
  BY <1>1, <1>9 DEF WriteProject
<1>10. CASE \E r \in Roots : Unsync(p, r) \/ \E found \in Trees : Scan(p, r, found)
  <2>1. Same
    BY <1>10 DEF Unsync, Scan, files
  <2> QED BY <1>1, <2>1
<1> QED BY <1>3, <1>4, <1>5, <1>6, <1>7, <1>8, <1>9, <1>10 DEF Step

LEMMA AnswersStart == Init => AnswersIInv
<1> SUFFICES ASSUME Init PROVE AnswersIInv
  OBVIOUS
<1>1. SyncsAreOfAWalk
  BY DEF Init, SyncsAreOfAWalk
<1>2. NoFile \in Seq(ToSet(NoFile)) /\ NoFile[1][1] # "superblock"
  <2>1. NoFile = [k \in 1..1 |-> NoFile[k]] /\ NoFile[1][1] = "no file"
    BY DEF NoFile
  <2> QED BY <2>1, FunctionIsSequence
<1>3. FilesBeginVouched
  BY <1>2 DEF Init, FilesBeginVouched, Building, BeginsVouched
<1> QED BY <1>1, <1>3, SyncStart DEF AnswersIInv

LEMMA AnswersStep == AnswersIInv /\ [Next]_vars => AnswersIInv'
<1> SUFFICES ASSUME AnswersIInv, [Next]_vars PROVE AnswersIInv'
  OBVIOUS
<1>1. /\ SyncIInv /\ SyncsAreOfAWalk /\ FilesBeginVouched /\ SyncIInv'
      /\ Domains /\ TypeOK /\ DOMAIN docs = Procs
  BY SyncStep DEF AnswersIInv, SyncIInv, Domains, SyncsAreOfAWalk
<1>2. CASE UNCHANGED vars
  <2>1. UNCHANGED <<index, temp, pc, root, docs, contents, parts, assembled>>
    BY <1>2 DEF vars, files, command, built, history
  <2>2. SyncsAreOfAWalk' /\ FilesBeginVouched'
    BY <1>1, <2>1 DEF SyncsAreOfAWalk, FilesBeginVouched, Building, BeginsVouched, Vouched
  <2> QED BY <1>1, <2>2 DEF AnswersIInv
<1>3. ASSUME NEW p \in Procs,
             Step(p) \/ \E r \in Roots : Unsync(p, r) \/ \E found \in Trees : Scan(p, r, found)
      PROVE  SyncsAreOfAWalk' /\ FilesBeginVouched'
  <2>1. CASE ReadPrevious(p)
    BY <1>1, <2>1, ReadPreviousAnswers
  <2>2. CASE ~ReadPrevious(p)
    <3>1. Settles(p)
      BY <1>1, <1>3, <2>2, StepSettles
    <3>2. AllBeginVouched'
      BY <1>1, <1>3, <3>1, FilesStep DEF Settles
    <3> QED BY <1>1, <3>1, <3>2, AnswersKeep
  <2> QED BY <2>1, <2>2
<1>4. ASSUME NEW p \in Procs,
             Step(p) \/ \E r \in Roots : Unsync(p, r) \/ \E found \in Trees : Scan(p, r, found)
      PROVE  AnswersIInv'
  BY <1>1, <1>3, <1>4 DEF AnswersIInv
<1> QED BY <1>2, <1>4 DEF Next

(* The lists of an exported index hold the documents they are listed for.  *)
Having(d, x) == {i \in DOMAIN d : x \in ToSet(d[i].text)}
Bearing(d, t) == {i \in DOMAIN d : t \in ToSet(Tokenize(d[i].text))}
Firsts(list) == {list[k][1] : k \in DOMAIN list}

LEMMA ExactExport ==
  ASSUME NEW n \in Nat, NEW d, DOMAIN d = 1..n, Len(d) = n
  PROVE  LET exact == ExportLexical(BuildLexical(d)).exact
         IN /\ DOMAIN exact = UNION {ToSet(d[i].text) : i \in DOMAIN d}
            /\ \A raw \in DOMAIN exact : ToSet(exact[raw]) = Having(d, raw)
<1> DEFINE x == BuildLexical(d)
           exact == ExportLexical(x).exact
<1>1. Len(x.chunks) = n
  <2> DEFINE c == x.chunks
  <2>1. DOMAIN c = 1..n /\ c = [i \in DOMAIN c |-> c[i]]
    BY DEF BuildLexical
  <2> HIDE DEF c
  <2>2. Len(c) = n
    BY <2>1, FunctionIsSequence
  <2> QED BY <2>2 DEF c
<1>2. /\ DOMAIN x.exact = UNION {ToSet(d[i].text) : i \in DOMAIN d}
      /\ DOMAIN exact = DOMAIN x.exact
      /\ \A raw \in DOMAIN x.exact : exact[raw] = InOrder(ToSet(x.exact[raw]), Len(x.chunks))
  BY DEF BuildLexical, ExportLexical
<1>3. \A S \in SUBSET (1..n) : ToSet(InOrder(S, n)) = S
  BY InOrderFacts
<1>4. ASSUME NEW raw \in DOMAIN exact PROVE ToSet(exact[raw]) = Having(d, raw)
  <2>1. x.exact[raw] = InOrder(Having(d, raw), n)
    <3>1. x.exact[raw] = InOrder(Having(d, raw), Len(d))
      BY <1>2 DEF BuildLexical, Having
    <3> QED BY <3>1
  <2>2. Having(d, raw) \in SUBSET (1..n)
    BY DEF Having
  <2> HIDE DEF x, exact
  <2> QED BY <1>1, <1>2, <1>3, <2>1, <2>2
<1> QED BY <1>2, <1>4

LEMMA PostingsExport ==
  ASSUME NEW n \in Nat, NEW d, DOMAIN d = 1..n, Len(d) = n
  PROVE  LET postings == ExportLexical(BuildLexical(d)).postings
         IN /\ DOMAIN postings = UNION {ToSet(Tokenize(d[i].text)) : i \in DOMAIN d}
            /\ \A t \in DOMAIN postings : Firsts(postings[t]) = Bearing(d, t)
<1> DEFINE x == BuildLexical(d)
           postings == ExportLexical(x).postings
           sorted(list) == InOrder(Firsts(list), Len(x.chunks))
           entry(list, id) == list[CHOOSE k \in DOMAIN list : list[k][1] = id]
<1>1. Len(x.chunks) = n
  <2> DEFINE c == x.chunks
  <2>1. DOMAIN c = 1..n /\ c = [i \in DOMAIN c |-> c[i]]
    BY DEF BuildLexical
  <2> HIDE DEF c
  <2>2. Len(c) = n
    BY <2>1, FunctionIsSequence
  <2> QED BY <2>2 DEF c
<1>2. /\ DOMAIN x.postings = UNION {ToSet(Tokenize(d[i].text)) : i \in DOMAIN d}
      /\ DOMAIN postings = DOMAIN x.postings
  BY DEF BuildLexical, ExportLexical
<1>3. \A S \in SUBSET (1..n) :
        InOrder(S, n) \in Seq(S) /\ ToSet(InOrder(S, n)) = S
  BY InOrderFacts
<1>4. ASSUME NEW t \in DOMAIN postings PROVE Firsts(postings[t]) = Bearing(d, t)
  <2> DEFINE S == Bearing(d, t)
             listed == InOrder(S, n)
             list == x.postings[t]
             ids == sorted(list)
  <2>1. S \in SUBSET (1..n) /\ ToSet(listed) = S
    BY <1>3 DEF Bearing
  <2>2. list = [k \in DOMAIN listed |->
                  <<listed[k], Occurrences(Tokenize(d[listed[k]].text), t)>>]
    <3>1. x.postings[t] =
            [k \in DOMAIN InOrder(S, Len(d)) |->
               <<InOrder(S, Len(d))[k], Occurrences(Tokenize(d[InOrder(S, Len(d))[k]].text), t)>>]
      BY <1>2 DEF BuildLexical, Bearing
    <3> QED BY <3>1
  <2>3. Firsts(list) = S
    <3>1. Firsts(list) = {listed[k] : k \in DOMAIN listed}
      <4> HIDE DEF list, listed
      <4> QED BY <2>2 DEF Firsts
    <3> QED BY <2>1, <3>1 DEF ToSet
  <2>4. postings[t] = [k \in DOMAIN ids |-> entry(list, ids[k])]
    BY <1>2 DEF ExportLexical, Firsts
  <2>5. ids = InOrder(S, n)
    <3> HIDE DEF x, list, S
    <3> QED BY <1>1, <2>3
  <2>6. ToSet(ids) = S
    BY <2>1, <2>5
  <2>7. ASSUME NEW k \in DOMAIN ids PROVE entry(list, ids[k])[1] = ids[k]
    <3>1. ids[k] \in Firsts(list)
      <4>1. ids[k] \in ToSet(ids)
        <5> HIDE DEF ids
        <5> QED BY DEF ToSet
      <4> HIDE DEF ids, list, S
      <4> QED BY <2>3, <2>6, <4>1
    <3> HIDE DEF ids, list
    <3>2. \E j \in DOMAIN list : list[j][1] = ids[k]
      BY <3>1 DEF Firsts
    <3> QED BY <3>2
  <2> HIDE DEF ids, list, entry
  <2>8. Firsts(postings[t]) = {ids[k] : k \in DOMAIN ids}
    <3> HIDE DEF postings
    <3> QED BY <2>4, <2>7 DEF Firsts
  <2> QED BY <2>6, <2>8 DEF ToSet
<1> QED BY <1>2, <1>4

(* The record of each kind is the one that was written for it.             *)
LEMMA RecordFacts ==
  ASSUME NEW new, NEW generation, NEW i \in 1..6
  PROVE  LET segs == GenerationTable(new, generation).segments
         IN /\ RecordOf(segs, Kinds[i]) = segs[i]
            /\ segs[i].hash = Segment(new, Kinds[i])
            /\ segs[i].cells = Len(Segment(new, Kinds[i]))
<1> DEFINE segs == GenerationTable(new, generation).segments
           Is(j) == segs[j].kind = Kinds[i] /\ \A k \in 1..(j - 1) : segs[k].kind # Kinds[i]
<1>1. /\ DOMAIN segs = 1..6
      /\ \A j \in 1..6 : /\ segs[j].kind = Kinds[j]
                         /\ segs[j].hash = Segment(new, Kinds[j])
                         /\ segs[j].cells = Len(Segment(new, Kinds[j]))
  <2>1. DOMAIN Kinds = 1..6
    BY DEF Kinds
  <2>2. segs = [j \in 1..6 |->
                 [kind |-> Kinds[j],
                  offset |-> 2 + Len(FlattenSeq([k \in 1..(j - 1) |-> Segment(new, Kinds[k])])),
                  cells |-> Len(Segment(new, Kinds[j])), hash |-> Segment(new, Kinds[j])]]
    BY <2>1 DEF GenerationTable
  <2> HIDE DEF segs
  <2> QED BY <2>2
<1>2. \A j, k \in 1..6 : Kinds[j] = Kinds[k] => j = k
  BY DEF Kinds
<1> HIDE DEF segs
<1>3. Is(i)
  <2>1. \A k \in 1..(i - 1) : k \in 1..6 /\ k # i
    OBVIOUS
  <2> QED BY <1>1, <1>2, <2>1
<1>4. \A j \in 1..6 : Is(j) => j = i
  BY <1>1, <1>2
<1>5. (CHOOSE j \in DOMAIN segs : Is(j)) = i
  <2> HIDE DEF Is
  <2> QED BY <1>1, <1>3, <1>4
<1>6. RecordOf(segs, Kinds[i]) = segs[CHOOSE j \in DOMAIN segs : Is(j)]
  BY DEF RecordOf
<1> QED BY <1>1, <1>5, <1>6 DEF segs


(* codec::read: what the checksums vouch for is what was encoded.          *)
LEMMA SliceFacts ==
  ASSUME NEW file, Readable(file), NEW new,
         file[1][2].hash = <<"table", GenerationTable(new, file[1][2].generation)>>,
         NEW i \in 1..5
  PROVE  SegmentSlice(file, RecordOf(file[file[1][2].offset][2].segments, Kinds[i])) =
           Segment(new, Kinds[i])
<1> DEFINE segs == GenerationTable(new, file[1][2].generation).segments
<1>1. file[file[1][2].offset][2].segments = segs
  <2>1. file[file[1][2].offset] = file[1][2].hash
    BY DEF Readable
  <2> QED BY <2>1
<1>2. SegmentIntact(file, segs[i])
  <2>1. i \in DOMAIN Kinds /\ Kinds[i] # "statistics"
    BY DEF Kinds
  <2>2. SegmentIntact(file, file[file[1][2].offset][2].segments[i])
    BY <2>1 DEF Readable
  <2> QED BY <1>1, <2>2
<1>3. i \in 1..6
  OBVIOUS
<1>4. RecordOf(segs, Kinds[i]) = segs[i] /\ segs[i].hash = Segment(new, Kinds[i])
  BY <1>3, RecordFacts
<1> HIDE DEF segs
<1> QED BY <1>1, <1>2, <1>4 DEF SegmentIntact

LEMMA ReadFacts ==
  ASSUME NEW file, Readable(file), NEW new, NEW n \in Nat, DOMAIN new.files = 1..n,
         file[1][2].hash = <<"table", GenerationTable(new, file[1][2].generation)>>
  PROVE  LET loaded == ReadIndex(file)
         IN /\ loaded.files = [i \in 1..n |-> new.files[i]] /\ loaded.lengths = new.lengths
            /\ loaded.postings = new.postings /\ loaded.exact = new.exact
<1> DEFINE slice(kind) == SegmentSlice(file, RecordOf(file[file[1][2].offset][2].segments, kind))
<1>1. /\ slice("files") = Segment(new, "files") /\ slice("chunks") = Segment(new, "chunks")
      /\ slice("postings") = Segment(new, "postings") /\ slice("exact") = Segment(new, "exact")
  <2>1. /\ Kinds[2] = "files" /\ Kinds[3] = "chunks" /\ Kinds[4] = "postings" /\ Kinds[5] = "exact"
        /\ 2 \in 1..5 /\ 3 \in 1..5 /\ 4 \in 1..5 /\ 5 \in 1..5
    BY DEF Kinds
  <2>2. \A i \in 1..5 : slice(Kinds[i]) = Segment(new, Kinds[i])
    BY SliceFacts
  <2> HIDE DEF slice
  <2> QED BY <2>1, <2>2
<1>2. /\ Segment(new, "files") = [i \in 1..n |-> <<"files", new.files[i]>>]
      /\ Segment(new, "chunks") = <<<<"chunks", new.lengths>>>>
      /\ Segment(new, "postings") = <<<<"postings", new.postings>>>>
      /\ Segment(new, "exact") = <<<<"exact", new.exact>>>>
  BY DEF Segment
<1>3. /\ ReadIndex(file).files = [i \in DOMAIN slice("files") |-> slice("files")[i][2]]
      /\ ReadIndex(file).lengths = slice("chunks")[1][2]
      /\ ReadIndex(file).postings = slice("postings")[1][2]
      /\ ReadIndex(file).exact = slice("exact")[1][2]
  BY DEF ReadIndex
<1> HIDE DEF slice
<1>4. [i \in DOMAIN slice("files") |-> slice("files")[i][2]] = [i \in 1..n |-> new.files[i]]
  BY <1>1, <1>2
<1> QED BY <1>1, <1>2, <1>3, <1>4

(* load_root: the index that is served is that of the documents.           *)
LEMMA LoadFacts ==
  ASSUME NEW file, Readable(file), NEW d, NEW read, NEW n \in Nat, DOMAIN d = 1..n, Len(d) = n,
         file[1][2].hash =
           <<"table", GenerationTable(BuildContents(BuildLexical(d), read), file[1][2].generation)>>
  PROVE  LET loaded == LoadRoot(file)
             out == ExportLexical(BuildLexical(d))
         IN /\ loaded.paths = [i \in DOMAIN d |-> d[i].path]
            /\ DOMAIN loaded.lexical.chunks = 1..n
            /\ \A i \in 1..n : loaded.lexical.chunks[i].path = d[i].path
            /\ loaded.lexical.exact = out.exact /\ loaded.lexical.postings = out.postings
<1> DEFINE x == BuildLexical(d)
           out == ExportLexical(x)
           new == BuildContents(x, read)
           loaded == ReadIndex(file)
           paths == [i \in DOMAIN loaded.files |-> loaded.files[i].path]
           served == FromParts(loaded.postings, loaded.exact, loaded.lengths, paths)
<1>1. DOMAIN out.paths = 1..n /\ DOMAIN out.lengths = 1..n /\ \A i \in 1..n : out.paths[i] = d[i].path
  BY DEF ExportLexical, BuildLexical
<1>2. out.lengths = [i \in 1..n |-> out.lengths[i]]
  <2>1. out.lengths = [i \in DOMAIN x.chunks |-> x.chunks[i].tokens]
    BY DEF ExportLexical
  <2> HIDE DEF out, x
  <2> QED BY <1>1, <2>1
<1>3. /\ DOMAIN new.files = 1..n /\ \A i \in 1..n : new.files[i].path = d[i].path
      /\ new.lengths = out.lengths /\ new.postings = out.postings /\ new.exact = out.exact
  <2> HIDE DEF out
  <2>1. /\ new.files = [i \in DOMAIN out.paths |->
                         [id |-> i, path |-> out.paths[i], hash |-> read[out.paths[i]],
                          firstChunk |-> i, chunkCount |-> 1]]
        /\ new.lengths = out.lengths /\ new.postings = out.postings /\ new.exact = out.exact
    BY DEF BuildContents, out
  <2> HIDE DEF new
  <2> QED BY <1>1, <2>1
<1>4. /\ loaded.files = [i \in 1..n |-> new.files[i]] /\ loaded.lengths = new.lengths
      /\ loaded.postings = new.postings /\ loaded.exact = new.exact
  <2>1. file[1][2].hash = <<"table", GenerationTable(new, file[1][2].generation)>>
    OBVIOUS
  <2>2. Readable(file) /\ n \in Nat /\ DOMAIN new.files = 1..n
    BY <1>3
  <2> HIDE DEF new, loaded
  <2> QED BY ONLY <2>1, <2>2, ReadFacts DEF loaded
<1> HIDE DEF out, new, loaded, x
<1>5. paths = [i \in 1..n |-> d[i].path]
  BY <1>3, <1>4
<1>6. Len(paths) = n /\ Len(loaded.lengths) = n
  <2>1. \A f : f = [i \in 1..n |-> f[i]] => Len(f) = n
    BY FunctionIsSequence
  <2> DEFINE l == loaded.lengths
  <2>2. paths = [i \in 1..n |-> paths[i]] /\ l = [i \in 1..n |-> l[i]]
    BY <1>2, <1>3, <1>4, <1>5
  <2> HIDE DEF paths, l
  <2>3. Len(paths) = n /\ Len(l) = n
    BY <2>1, <2>2
  <2> QED BY <2>3 DEF l
<1>7. /\ served.chunks = [i \in 1..n |-> [path |-> paths[i], tokens |-> loaded.lengths[i]]]
      /\ served.postings = loaded.postings /\ served.exact = loaded.exact
  <2> HIDE DEF paths
  <2> QED BY <1>6 DEF FromParts
<1>8. LoadRoot(file).paths = paths /\ LoadRoot(file).lexical = served
  BY DEF LoadRoot, loaded
<1> HIDE DEF served, paths
<1>9. DOMAIN served.chunks = 1..n /\ \A i \in 1..n : served.chunks[i].path = d[i].path
  BY <1>5, <1>7
<1> QED BY <1>3, <1>4, <1>5, <1>7, <1>8, <1>9 DEF out, x

(* A query of one word asks for the terms of that word.                    *)
LEMMA TokenizeWord ==
  ASSUME NEW raw \in Tokens
  PROVE  ToSet(Tokenize(<<raw>>)) = ToSet(TermsOf[raw])
<1> DEFINE V == ToSet(TermsOf[raw])
           s == [j \in 1..1 |-> TermsOf[raw]]
<1>1. TermsOf[raw] \in Seq(V)
  BY TqiAssumption DEF Tokens
<1>2. s \in [1..1 -> Seq(V)]
  BY <1>1
<1>3. PICK f : AddsUp(f, s, 1, V) /\ Partial(f, s, 1)
  <2> HIDE DEF s, V
  <2>1. 1 \in Nat
    OBVIOUS
  <2> QED BY <1>2, <2>1, FlattenFacts
<1>4. FlattenSeq([j \in 1..1 |-> s[j]]) = f[1]
  <2>1. 1 \in 0..1
    OBVIOUS
  <2> QED BY <1>3, <2>1 DEF Partial
<1>5. f[1] = f[0] \o s[1] /\ f[0] = <<>>
  <2>1. 1 \in 1..1 /\ 1 - 1 = 0
    OBVIOUS
  <2> QED BY <1>3, <2>1 DEF AddsUp
<1>6. f[1] = TermsOf[raw]
  <2>1. s[1] = TermsOf[raw]
    OBVIOUS
  <2> HIDE DEF s, V
  <2> QED BY <1>1, <1>5, <2>1, ConcatEmptySeq
<1>7. Tokenize(<<raw>>) = FlattenSeq([j \in 1..1 |-> s[j]])
  <2>1. [i \in DOMAIN <<raw>> |-> TermsOf[<<raw>>[i]]] = [j \in 1..1 |-> s[j]]
    OBVIOUS
  <2> QED BY <2>1 DEF Tokenize
<1> QED BY <1>4, <1>6, <1>7

(* The answers of an index that is loaded are those of its documents.      *)
LEMMA AnswersOf ==
  ASSUME NEW n \in Nat, NEW d, DOMAIN d = 1..n, Len(d) = n, NEW x,
         DOMAIN x.chunks = 1..n, \A i \in 1..n : x.chunks[i].path = d[i].path,
         x.exact = ExportLexical(BuildLexical(d)).exact,
         x.postings = ExportLexical(BuildLexical(d)).postings
  PROVE  /\ IdsResolve(x)
         /\ \A raw \in Tokens : /\ ExactLookup(x, raw) = Holding(d, raw)
                                /\ Ranked(x, <<raw>>) = Answering(d, raw)
<1>1. /\ DOMAIN x.exact = UNION {ToSet(d[i].text) : i \in DOMAIN d}
      /\ \A raw \in DOMAIN x.exact : ToSet(x.exact[raw]) = Having(d, raw)
  BY ExactExport
<1>2. /\ DOMAIN x.postings = UNION {ToSet(Tokenize(d[i].text)) : i \in DOMAIN d}
      /\ \A t \in DOMAIN x.postings : Firsts(x.postings[t]) = Bearing(d, t)
  BY PostingsExport
<1>3. \A r : Having(d, r) \subseteq 1..n /\ Bearing(d, r) \subseteq 1..n
  BY DEF Having, Bearing
<1>4. IdsResolve(x)
  <2>1. ASSUME NEW t \in DOMAIN x.postings, NEW k \in DOMAIN x.postings[t]
        PROVE  x.postings[t][k][1] \in DOMAIN x.chunks
    <3>1. x.postings[t][k][1] \in Firsts(x.postings[t])
      BY DEF Firsts
    <3>2. Firsts(x.postings[t]) = Bearing(d, t)
      BY <1>2
    <3> QED BY <1>3, <3>1, <3>2
  <2>2. \A raw \in DOMAIN x.exact : ToSet(x.exact[raw]) \subseteq DOMAIN x.chunks
    BY <1>1, <1>3
  <2> QED BY <2>1, <2>2 DEF IdsResolve
<1>5. ASSUME NEW raw \in Tokens PROVE ExactLookup(x, raw) = Holding(d, raw)
  <2>0. Holding(d, raw) = {d[i].path : i \in Having(d, raw)}
    BY DEF Holding, Having
  <2>1. CASE raw \in DOMAIN x.exact
    <3>1. ExactLookup(x, raw) = {x.chunks[x.exact[raw][k]].path : k \in DOMAIN x.exact[raw]}
      BY <2>1 DEF ExactLookup
    <3>2. Having(d, raw) = {x.exact[raw][k] : k \in DOMAIN x.exact[raw]}
      BY <1>1, <2>1 DEF ToSet
    <3>3. ExactLookup(x, raw) = {x.chunks[i].path : i \in Having(d, raw)}
      BY <3>1, <3>2
    <3> QED BY <1>3, <2>0, <3>3
  <2>2. CASE raw \notin DOMAIN x.exact
    <3>1. Having(d, raw) = {}
      BY <1>1, <2>2 DEF Having
    <3> QED BY <2>0, <2>2, <3>1 DEF ExactLookup
  <2> QED BY <2>1, <2>2
<1>6. ASSUME NEW raw \in Tokens PROVE Ranked(x, <<raw>>) = Answering(d, raw)
  <2> DEFINE asked == ToSet(TermsOf[raw])
             ranked(t) == {x.chunks[x.postings[t][k][1]].path : k \in DOMAIN x.postings[t]}
  <2>1. Ranked(x, <<raw>>) = UNION {ranked(t) : t \in asked \cap DOMAIN x.postings}
    BY TokenizeWord DEF Ranked
  <2>2. ASSUME NEW t \in DOMAIN x.postings PROVE ranked(t) = {d[i].path : i \in Bearing(d, t)}
    <3>1. Bearing(d, t) = {x.postings[t][k][1] : k \in DOMAIN x.postings[t]}
      BY <1>2 DEF Firsts
    <3>2. ranked(t) = {x.chunks[i].path : i \in Bearing(d, t)}
      BY <3>1
    <3> QED BY <1>3, <3>2
  <2>3. ASSUME NEW p PROVE p \in Ranked(x, <<raw>>) <=> p \in Answering(d, raw)
    <3>1. p \in Ranked(x, <<raw>>) <=>
            \E t \in asked \cap DOMAIN x.postings : p \in {d[i].path : i \in Bearing(d, t)}
      <4> HIDE DEF asked, ranked
      <4> QED BY <2>1, <2>2
    <3>2. p \in Answering(d, raw) <=>
            \E i \in DOMAIN d : p = d[i].path /\ ToSet(Tokenize(d[i].text)) \cap asked # {}
      BY DEF Answering
    <3>3. \A i \in DOMAIN d : \A t \in ToSet(Tokenize(d[i].text)) : t \in DOMAIN x.postings
      BY <1>2
    <3> HIDE DEF asked, ranked
    <3> QED BY <3>1, <3>2, <3>3 DEF Bearing
  <2> QED BY <2>3
<1> QED BY <1>4, <1>5, <1>6

(* What makes the answers those of one sync: an index is built of one      *)
(* walk, its superblock vouches for it, and a file begins with no other    *)
(* cell than such a superblock (tqi/codec.rs, tqi/loaded.rs).              *)
THEOREM AnswersInvariance == Spec => []AnswersIInv
BY AnswersStart, AnswersStep, PTL DEF Spec

(* A server that starts now and accepts an index answers from the files of *)
(* one walk, whatever two syncs wrote into one another's file              *)
(* (tqi/codec.rs segment_slice, tqi/loaded.rs load_root).                  *)
THEOREM AnswersSafety == Spec => []AnswersAreOfOneSync
<1>1. ASSUME AnswersIInv, NEW r \in Roots, Readable(index[r])
      PROVE  LET loaded == LoadRoot(index[r])
             IN \E sync \in assembled[r] :
                  /\ sync.superblock = index[r][1][2]
                  /\ loaded.paths = [i \in DOMAIN sync.docs |-> sync.docs[i].path]
                  /\ IdsResolve(loaded.lexical)
                  /\ \A raw \in Tokens :
                       /\ ExactLookup(loaded.lexical, raw) = Holding(sync.docs, raw)
                       /\ Ranked(loaded.lexical, <<raw>>) = Answering(sync.docs, raw)
  <2>1. PICK sync \in assembled[r] : sync.superblock = index[r][1][2]
    BY <1>1 DEF AnswersIInv, FilesBeginVouched, BeginsVouched, Vouched, Readable
  <2>2. PICK found \in Trees :
          LET plan == FullCorrectnessWalk(found, <<>>)
              new  == BuildContents(BuildLexical(sync.docs), plan.contents)
          IN /\ sync.docs = Documents(plan)
             /\ sync.superblock.hash = <<"table", GenerationTable(new, sync.superblock.generation)>>
    BY <1>1 DEF AnswersIInv, SyncsAreOfAWalk, VouchesForAWalk
  <2> DEFINE d == sync.docs
             n == Len(d)
             x == LoadRoot(index[r]).lexical
             read == FullCorrectnessWalk(found, <<>>).contents
  <2>3. n \in Nat /\ DOMAIN d = 1..n
    BY <2>2, DocumentsFacts
  <2>4. index[r][1][2].hash =
          <<"table", GenerationTable(BuildContents(BuildLexical(d), read), index[r][1][2].generation)>>
    BY <2>1, <2>2
  <2> HIDE DEF n, d, read, x
  <2>5. /\ LoadRoot(index[r]).paths = [i \in DOMAIN d |-> d[i].path]
        /\ DOMAIN x.chunks = 1..n /\ \A i \in 1..n : x.chunks[i].path = d[i].path
        /\ x.exact = ExportLexical(BuildLexical(d)).exact
        /\ x.postings = ExportLexical(BuildLexical(d)).postings
    <3>1. Readable(index[r]) /\ n \in Nat /\ DOMAIN d = 1..n /\ Len(d) = n
      BY <1>1, <2>3 DEF n
    <3> QED BY ONLY <2>4, <3>1, LoadFacts DEF x
  <2>6. /\ IdsResolve(x)
        /\ \A raw \in Tokens : /\ ExactLookup(x, raw) = Holding(d, raw)
                               /\ Ranked(x, <<raw>>) = Answering(d, raw)
    BY <2>3, <2>5, AnswersOf DEF n
  <2> QED BY <2>1, <2>5, <2>6 DEF d, x
<1>2. AnswersIInv => AnswersAreOfOneSync
  BY <1>1 DEF AnswersAreOfOneSync
<1> QED BY <1>2, AnswersInvariance, PTL

===============================================================================
