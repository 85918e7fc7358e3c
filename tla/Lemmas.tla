------------------------------- MODULE Lemmas -------------------------------
(***************************************************************************)
(* Facts about naturals, sequences and finite sets that the proofs of      *)
(* several components rest on.  Induction over an index is by the smallest *)
(* one at which a statement would fail; that there is one follows from the *)
(* well-foundedness of strict inclusion on finite sets, applied to 0..k.   *)
(***************************************************************************)
EXTENDS SequencesExt, FiniteSetTheorems, SequenceTheorems, WellFoundedInduction, TLAPS

(* A set of naturals that has a member has a smallest one.                 *)
LEMMA SmallestMember ==
  ASSUME NEW S \in SUBSET Nat, S # {}
  PROVE  \E m \in S : \A n \in S : m <= n
<1> DEFINE T == {0..k : k \in S}
<1> DEFINE R == StrictSubsetOrdering(Nat)
<1>1. IsWellFoundedOn(R, FiniteSubsetsOf(Nat))
  BY FS_StrictSubsetOrderingWellFounded
<1>2. T \subseteq FiniteSubsetsOf(Nat)
  <2> SUFFICES ASSUME NEW k \in S PROVE 0..k \in FiniteSubsetsOf(Nat)
    OBVIOUS
  <2>1. k \in Int /\ 0 \in Int /\ 0..k \in SUBSET Nat
    OBVIOUS
  <2>2. IsFiniteSet(0..k)
    BY <2>1, FS_Interval
  <2> QED BY <2>1, <2>2 DEF FiniteSubsetsOf
<1>3. T # {}
  OBVIOUS
<1>4. PICK x \in T : \A y \in T : ~(<<y, x>> \in R)
  <2> HIDE DEF T, R
  <2> QED BY <1>1, <1>2, <1>3, WFMin
<1>5. PICK m \in S : x = 0..m
  BY <1>4
<1>6. ASSUME NEW n \in S, n < m PROVE FALSE
  <2>1. 0..n \in T /\ n \in Nat /\ m \in Nat
    OBVIOUS
  <2>2. m \in 0..m /\ m \notin 0..n /\ 0..n \subseteq 0..m
    BY <2>1, <1>6
  <2>3. 0..n \in SUBSET Nat /\ 0..m \in SUBSET Nat
    BY <2>1
  <2>4. <<0..n, 0..m>> \in R
    BY <2>2, <2>3 DEF StrictSubsetOrdering
  <2> QED BY <1>4, <1>5, <2>1, <2>4
<1>7. \A n \in S : m <= n
  <2> SUFFICES ASSUME NEW n \in S PROVE m <= n
    OBVIOUS
  <2>1. n \in Nat /\ m \in Nat /\ ~(n < m)
    BY <1>6
  <2> QED BY <2>1
<1> QED BY <1>7

LEMMA LeastIsIn ==
  ASSUME NEW S \in SUBSET Nat, S # {}
  PROVE  Min(S) \in S
<1>1. \E m \in S : \A n \in S : m <= n
  BY SmallestMember
<1> QED BY <1>1 DEF Min

(* Induction over an index, when a set holds those that a fact holds for.   *)
LEMMA ClimbingTo ==
  ASSUME NEW n \in Nat, NEW S, 0 \in S, \A k \in 0..(n - 1) : k \in S => k + 1 \in S
  PROVE  0..n \subseteq S
<1> DEFINE B == {k \in 0..n : k \notin S}
<1>1. ASSUME B # {} PROVE FALSE
  <2>1. B \in SUBSET Nat
    OBVIOUS
  <2>2. PICK m \in B : \A k \in B : m <= k
    <3> HIDE DEF B
    <3> QED BY <1>1, <2>1, SmallestMember
  <2>3. m \in 0..n /\ m \notin S /\ m # 0
    OBVIOUS
  <2>4. m - 1 \in 0..(n - 1) /\ m - 1 \in 0..n /\ ~(m <= m - 1) /\ (m - 1) + 1 = m
    BY <2>3
  <2>5. m - 1 \in S
    BY <2>2, <2>4
  <2> QED BY <2>3, <2>4, <2>5
<1> QED BY <1>1

(* Two functions that take the same steps from the same start.             *)
LEMMA SameSteps ==
  ASSUME NEW n \in Nat, NEW f, NEW g, f[0] = g[0],
         \A k \in 1..n : f[k - 1] = g[k - 1] => f[k] = g[k]
  PROVE  f[n] = g[n]
<1> DEFINE S == {k \in 0..n : f[k] = g[k]}
<1>1. 0 \in S
  OBVIOUS
<1>2. ASSUME NEW k \in 0..(n - 1), k \in S PROVE k + 1 \in S
  <2>1. k + 1 \in 1..n /\ k + 1 \in 0..n /\ (k + 1) - 1 = k
    OBVIOUS
  <2> QED BY <1>2, <2>1
<1>3. 0..n \subseteq S
  <2> HIDE DEF S
  <2> QED BY <1>1, <1>2, ClimbingTo
<1> QED BY <1>3

(* A step repeated n times, each on what the one before it made.           *)
Repeats(f, n, V, first, step) ==
  f \in [0..n -> V] /\ f[0] = first /\ \A i \in 1..n : f[i] = step[i][f[i - 1]]

LEMMA Iterates ==
  ASSUME NEW V, NEW first \in V, NEW n \in Nat, NEW step,
         \A i \in 1..n, v \in V : step[i][v] \in V
  PROVE  \E f : Repeats(f, n, V, first, step)
<1> DEFINE Solves(f, k) ==
             f \in [0..k -> V] /\ f[0] = first /\ \A i \in 1..k : f[i] = step[i][f[i - 1]]
<1> DEFINE Bad == {k \in 0..n : ~\E f : Solves(f, k)}
<1>1. ASSUME Bad # {} PROVE FALSE
  <2>1. PICK m \in Bad : \A k \in Bad : m <= k
    <3>1. Bad \in SUBSET Nat
      OBVIOUS
    <3> HIDE DEF Bad
    <3> QED BY <1>1, <3>1, SmallestMember
  <2>2. m \in 0..n /\ m \in Nat /\ ~\E f : Solves(f, m)
    OBVIOUS
  <2>3. m # 0
    <3>1. Solves([i \in 0..0 |-> first], 0)
      OBVIOUS
    <3> HIDE DEF Solves
    <3> QED BY <2>2, <3>1
  <2>4. m - 1 \in 0..n /\ m - 1 \in Nat /\ ~(m <= m - 1) /\ m \in 1..n
    BY <2>2, <2>3
  <2>5. PICK f : Solves(f, m - 1)
    <3> HIDE DEF Solves
    <3> QED BY <2>1, <2>4
  <2> DEFINE g == [i \in 0..m |-> IF i = m THEN step[m][f[m - 1]] ELSE f[i]]
  <2>6. f[m - 1] \in V /\ step[m][f[m - 1]] \in V
    BY <2>4, <2>5
  <2>7. g \in [0..m -> V]
    <3> SUFFICES ASSUME NEW i \in 0..m PROVE (IF i = m THEN step[m][f[m - 1]] ELSE f[i]) \in V
      OBVIOUS
    <3>1. i # m => i \in 0..(m - 1)
      BY <2>2
    <3> QED BY <2>5, <2>6, <3>1
  <2>8. g[0] = first
    BY <2>2, <2>3, <2>5
  <2>9. ASSUME NEW i \in 1..m PROVE g[i] = step[i][g[i - 1]]
    <3>1. i \in 0..m /\ i - 1 \in 0..m /\ i - 1 # m /\ (i # m => i \in 1..(m - 1))
      BY <2>2
    <3>2. g[i - 1] = f[i - 1]
      BY <3>1
    <3>3. CASE i = m
      BY <3>1, <3>2, <3>3
    <3>4. CASE i # m
      <4>1. f[i] = step[i][f[i - 1]]
        BY <2>5, <3>1, <3>4
      <4> QED BY <3>1, <3>2, <3>4, <4>1
    <3> QED BY <3>3, <3>4
  <2> HIDE DEF g
  <2>10. Solves(g, m)
    BY <2>7, <2>8, <2>9
  <2> QED BY <2>2, <2>10
<1>2. n \in 0..n
  OBVIOUS
<1>3. \E f : Solves(f, n)
  <2> HIDE DEF Solves
  <2> QED BY <1>1, <1>2
<1> QED BY <1>3 DEF Repeats

(* The largest member of a set of indices.                                 *)
LEMMA LargestMember ==
  ASSUME NEW n \in Nat, NEW S \in SUBSET (1..n), S # {}
  PROVE  Max(S) \in S /\ \A i \in S : i <= Max(S)
<1> DEFINE T == {n - i : i \in S}
<1>1. T \in SUBSET Nat /\ T # {}
  <2>1. PICK x \in S : TRUE
    OBVIOUS
  <2>2. n - x \in T
    BY <2>1
  <2>3. \A i \in S : i \in Nat /\ n - i \in Nat
    OBVIOUS
  <2>4. T \in SUBSET Nat
    BY ONLY <2>3
  <2> QED BY <2>2, <2>4
<1>2. PICK m \in T : \A k \in T : m <= k
  BY <1>1, SmallestMember
<1>3. PICK i \in S : m = n - i
  BY <1>2
<1>4. \A j \in S : i >= j
  <2> SUFFICES ASSUME NEW j \in S PROVE i >= j
    OBVIOUS
  <2>1. n - i <= n - j
    BY <1>2, <1>3
  <2>2. n \in Nat /\ i \in Nat /\ j \in Nat
    <3>1. n \in Nat /\ i \in 1..n /\ j \in 1..n
      OBVIOUS
    <3> QED BY ONLY <3>1
  <2> QED BY ONLY <2>1, <2>2
<1> QED BY <1>3, <1>4 DEF Max

(* The largest of a set of indices, or 0 when there is none.               *)
LEMMA LargestOfSome ==
  ASSUME NEW n \in Nat, NEW S \in SUBSET (1..n)
  PROVE  Max({0} \union S) \in 0..n
<1> DEFINE Z == {0} \union S
<1>1. \E x \in Z : \A y \in Z : x >= y
  <2>1. CASE S = {}
    BY <2>1
  <2>2. CASE S # {}
    <3>1. Max(S) \in S /\ \A i \in S : i <= Max(S)
      BY <2>2, LargestMember
    <3>2. PICK m \in S : \A i \in S : i <= m
      BY <3>1
    <3>3. m \in 1..n
      OBVIOUS
    <3>4. m \in Z /\ \A y \in Z : m >= y
      <4> SUFFICES ASSUME NEW y \in Z PROVE m >= y
        OBVIOUS
      <4>1. y = 0 \/ (y \in 1..n /\ y <= m)
        BY <3>2
      <4> QED BY ONLY <3>3, <4>1
    <3> QED BY <3>4
  <2> QED BY <2>1, <2>2
<1>2. Max(Z) \in Z
  <2> HIDE DEF Z
  <2> QED BY <1>1 DEF Max
<1>3. Z \subseteq 0..n
  OBVIOUS
<1> HIDE DEF Z
<1>4. Max(Z) \in 0..n
  BY <1>2, <1>3
<1> QED BY <1>4 DEF Z

(* Division of naturals: what is left is less than the divisor, and rows   *)
(* of n cells laid end to end are told apart by quotient and remainder.    *)
LEMMA RemainderIsLess ==
  ASSUME NEW n \in Nat \ {0}, NEW a \in Nat
  PROVE  a % n \in 0..(n - 1)
OBVIOUS

LEMMA Division ==
  ASSUME NEW n \in Nat \ {0}, NEW a \in Nat
  PROVE  a = n * (a \div n) + (a % n)
OBVIOUS

LEMMA QuotientIsInteger ==
  ASSUME NEW n \in Nat \ {0}, NEW a \in Nat
  PROVE  a \div n \in Int
OBVIOUS

LEMMA QuotientIsNatural ==
  ASSUME NEW n \in Nat \ {0}, NEW a \in Nat
  PROVE  a \div n \in Nat
<1>1. a \div n \in Int /\ a = n * (a \div n) + (a % n) /\ a % n \in 0..(n - 1)
  BY RemainderIsLess, Division, QuotientIsInteger
<1> DEFINE q == a \div n
           m == a % n
<1> HIDE DEF q, m
<1>2. q \in Int /\ a = n * q + m /\ m \in 0..(n - 1)
  BY <1>1 DEF q, m
<1>3. ~(q <= -1)
  <2> SUFFICES ASSUME q <= -1 PROVE FALSE
    OBVIOUS
  <2>1. n * q <= -n
    BY <1>2
  <2> QED BY <1>2, <2>1
<1> QED BY <1>2, <1>3 DEF q

LEMMA RowMajor ==
  ASSUME NEW n \in Nat \ {0}, NEW r \in Nat, NEW c \in 0..(n - 1)
  PROVE  (r * n + c) \div n = r /\ (r * n + c) % n = c
OBVIOUS

LEMMA RemainderOfSum ==
  ASSUME NEW n \in Nat \ {0}, NEW a \in Nat
  PROVE  (a + n) % n = a % n
<1> DEFINE q == a \div n
           m == a % n
<1>1. q \in Nat /\ a = n * q + m /\ m \in 0..(n - 1)
  BY RemainderIsLess, Division, QuotientIsNatural
<1>2. m = a % n
  OBVIOUS
<1> HIDE DEF q, m
<1>3. a + n = (q + 1) * n + m /\ q + 1 \in Nat
  BY <1>1
<1>4. ((q + 1) * n + m) % n = m
  BY <1>1, <1>3, RowMajor
<1> QED BY <1>2, <1>3, <1>4

LEMMA ProductsGrow ==
  ASSUME NEW n \in Nat, NEW q \in Nat, NEW p \in Nat, q < p
  PROVE  n * q + n <= n * p
OBVIOUS

LEMMA SameRemainder ==
  ASSUME NEW n \in Nat \ {0}, NEW a \in Nat, NEW b \in Nat, a % n = b % n, a < b
  PROVE  a + n <= b
<1> DEFINE q == a \div n
           p == b \div n
           m == a % n
<1>1. q \in Nat /\ a = n * q + m /\ m \in 0..(n - 1) /\ p \in Nat /\ b = n * p + m
  BY RemainderIsLess, Division, QuotientIsNatural
<1> HIDE DEF q, m, p
<1>2. q < p
  <2> SUFFICES ASSUME p <= q PROVE FALSE
    BY <1>1
  <2>1. n * p <= n * q
    <3>1. p = q \/ p < q
      BY <1>1
    <3>2. p < q => n * p + n <= n * q
      BY <1>1, ProductsGrow
    <3>3. n * p \in Nat /\ n * q \in Nat
      BY <1>1
    <3> QED BY <3>1, <3>2, <3>3
  <2>2. n * p \in Nat /\ n * q \in Nat
    BY <1>1
  <2> QED BY <1>1, <2>1, <2>2
<1>3. n * q + n <= n * p
  BY <1>1, <1>2, ProductsGrow
<1>4. n * p \in Nat /\ n * q \in Nat
  BY <1>1
<1> QED BY <1>1, <1>3, <1>4

(* What an element added to a sequence changes.                            *)
LEMMA AppendFacts ==
  ASSUME NEW L, NEW s \in Seq(L), NEW e \in L
  PROVE  /\ Append(s, e) \in Seq(L) /\ Len(Append(s, e)) = Len(s) + 1
         /\ DOMAIN Append(s, e) = 1..(Len(s) + 1)
         /\ \A i \in 1..Len(s) : Append(s, e)[i] = s[i]
         /\ Append(s, e)[Len(s) + 1] = e
         /\ ToSet(Append(s, e)) = ToSet(s) \union {e}
<1>1. /\ Append(s, e) \in Seq(L) /\ Len(Append(s, e)) = Len(s) + 1 /\ Len(s) \in Nat
      /\ DOMAIN s = 1..Len(s) /\ DOMAIN Append(s, e) = 1..(Len(s) + 1)
      /\ \A i \in 1..Len(s) : Append(s, e)[i] = s[i]
      /\ Append(s, e)[Len(s) + 1] = e
  BY AppendProperties, LenProperties
<1>2. 1..(Len(s) + 1) = 1..Len(s) \union {Len(s) + 1}
  BY <1>1
<1>3. ToSet(Append(s, e)) = ToSet(s) \union {e}
  BY <1>1, <1>2 DEF ToSet
<1> QED BY <1>1, <1>3

(* Adding, taking from the front and removing an element of a sequence     *)
(* that names nothing twice.                                               *)
LEMMA AppendKeepsInjective ==
  ASSUME NEW S, NEW s \in Seq(S), IsInjective(s), NEW e \in S, e \notin ToSet(s)
  PROVE  /\ Append(s, e) \in Seq(S) /\ IsInjective(Append(s, e))
         /\ ToSet(Append(s, e)) = ToSet(s) \union {e}
<1>1. /\ Append(s, e) \in Seq(S) /\ Len(Append(s, e)) = Len(s) + 1 /\ Len(s) \in Nat
      /\ DOMAIN s = 1..Len(s) /\ DOMAIN Append(s, e) = 1..(Len(s) + 1)
      /\ \A i \in 1..Len(s) : Append(s, e)[i] = s[i]
      /\ Append(s, e)[Len(s) + 1] = e
  BY AppendProperties, LenProperties
<1>2. IsInjective(Append(s, e))
  BY <1>1 DEF IsInjective, ToSet
<1>3. ToSet(Append(s, e)) = ToSet(s) \union {e}
  BY <1>1 DEF ToSet
<1> QED BY <1>1, <1>2, <1>3

LEMMA TailKeepsInjective ==
  ASSUME NEW S, NEW s \in Seq(S), IsInjective(s), s # <<>>
  PROVE  /\ Tail(s) \in Seq(S) /\ IsInjective(Tail(s))
         /\ ToSet(Tail(s)) = ToSet(s) \ {Head(s)}
<1>1. /\ Tail(s) \in Seq(S) /\ Len(Tail(s)) = Len(s) - 1 /\ Len(s) \in Nat \ {0}
      /\ DOMAIN s = 1..Len(s) /\ DOMAIN Tail(s) = 1..(Len(s) - 1)
      /\ \A i \in 1..(Len(s) - 1) : Tail(s)[i] = s[i + 1]
      /\ Head(s) = s[1]
  BY HeadTailProperties, LenProperties, EmptySeq
<1>2. IsInjective(Tail(s))
  BY <1>1 DEF IsInjective
<1>3. \A x \in ToSet(Tail(s)) : x \in ToSet(s) \ {Head(s)}
  BY <1>1 DEF ToSet, IsInjective
<1>4. ASSUME NEW x \in ToSet(s) \ {Head(s)} PROVE x \in ToSet(Tail(s))
  <2>1. PICK i \in 1..Len(s) : x = s[i]
    BY <1>1 DEF ToSet
  <2>2. i - 1 \in 1..(Len(s) - 1) /\ Tail(s)[i - 1] = s[i]
    BY <1>1, <1>4, <2>1
  <2> QED BY <1>1, <2>1, <2>2 DEF ToSet
<1> QED BY <1>1, <1>2, <1>3, <1>4

LEMMA RemoveKeepsInjective ==
  ASSUME NEW S, NEW s \in Seq(S), IsInjective(s), NEW k \in DOMAIN s
  PROVE  /\ RemoveAt(s, k) \in Seq(S) /\ IsInjective(RemoveAt(s, k))
         /\ ToSet(RemoveAt(s, k)) = ToSet(s) \ {s[k]}
<1> DEFINE n == Len(s)
<1> DEFINE t == RemoveAt(s, k)
<1>1. n \in Nat /\ DOMAIN s = 1..n /\ k \in 1..n /\ \A i \in 1..n : s[i] \in S
  BY LenProperties
<1>2. /\ t \in Seq(S) /\ DOMAIN t = 1..(n - 1)
      /\ \A i \in 1..(n - 1) : t[i] = IF i < k THEN s[i] ELSE s[i + 1]
  <2>1. /\ SubSeq(s, 1, k - 1) \in Seq(S) /\ Len(SubSeq(s, 1, k - 1)) = k - 1
        /\ \A i \in 1..(k - 1) : SubSeq(s, 1, k - 1)[i] = s[i]
    <3>1. \A i \in 1..(k - 1) : s[i] \in S
      BY <1>1
    <3> QED BY <1>1, <3>1, SubSeqProperties
  <2>2. /\ SubSeq(s, k + 1, n) \in Seq(S) /\ Len(SubSeq(s, k + 1, n)) = n - k
        /\ \A i \in 1..(n - k) : SubSeq(s, k + 1, n)[i] = s[k + i]
    <3>1. \A i \in (k + 1)..n : s[i] \in S
      BY <1>1
    <3>2. k + 1 \in Int /\ n \in Int
      BY <1>1
    <3>3. /\ SubSeq(s, k + 1, n) \in Seq(S)
          /\ Len(SubSeq(s, k + 1, n)) = IF k + 1 <= n THEN n - (k + 1) + 1 ELSE 0
          /\ \A i \in 1..(n - (k + 1) + 1) : SubSeq(s, k + 1, n)[i] = s[(k + 1) + i - 1]
      BY <3>1, <3>2, SubSeqProperties
    <3> DEFINE u == SubSeq(s, k + 1, n)
    <3> HIDE DEF u, n
    <3>4. n - (k + 1) + 1 = n - k /\ (k + 1 <= n => n - k >= 1) /\ (~(k + 1 <= n) => n - k = 0)
      BY <1>1
    <3>5. ASSUME NEW i \in 1..(n - k) PROVE u[i] = s[k + i]
      <4>1. (k + 1) + i - 1 = k + i
        BY <1>1
      <4> QED BY <3>3, <3>4, <4>1 DEF u
    <3>6. Len(u) = n - k
      BY <3>3, <3>4 DEF u
    <3> QED BY <3>3, <3>5, <3>6 DEF u
  <2>3. /\ t \in Seq(S) /\ Len(t) = n - 1
        /\ \A i \in 1..(n - 1) :
             t[i] = IF i <= k - 1 THEN SubSeq(s, 1, k - 1)[i] ELSE SubSeq(s, k + 1, n)[i - (k - 1)]
    <3> DEFINE u == SubSeq(s, 1, k - 1)
    <3> DEFINE v == SubSeq(s, k + 1, n)
    <3>1. t = u \o v
      BY DEF RemoveAt
    <3>2. u \in Seq(S) /\ v \in Seq(S) /\ Len(u) = k - 1 /\ Len(v) = n - k
      BY <2>1, <2>2
    <3>3. k - 1 + (n - k) = n - 1
      BY <1>1
    <3> HIDE DEF t, u, v, n
    <3>4. /\ u \o v \in Seq(S) /\ Len(u \o v) = n - 1
          /\ \A i \in 1..(n - 1) : (u \o v)[i] = IF i <= k - 1 THEN u[i] ELSE v[i - (k - 1)]
      <4>1. /\ u \o v \in Seq(S) /\ Len(u \o v) = Len(u) + Len(v)
            /\ \A i \in 1..(Len(u) + Len(v)) : (u \o v)[i] = IF i <= Len(u) THEN u[i] ELSE v[i - Len(u)]
        BY <3>2, ConcatProperties
      <4>2. Len(u) + Len(v) = n - 1
        BY <3>2, <3>3
      <4> QED BY <3>2, <4>1, <4>2
    <3> QED BY <3>1, <3>4 DEF u, v
  <2>4. DOMAIN t = 1..(n - 1)
    BY <2>3, LenProperties
  <2> HIDE DEF t, n
  <2>5. ASSUME NEW i \in 1..(n - 1) PROVE t[i] = IF i < k THEN s[i] ELSE s[i + 1]
    <3>1. CASE i < k
      BY <1>1, <2>1, <2>3, <3>1
    <3>2. CASE ~(i < k)
      <4>1. i - (k - 1) \in 1..(n - k)
        BY <1>1, <3>2
      <4>2. k + (i - (k - 1)) = i + 1 /\ ~(i <= k - 1)
        BY <1>1, <3>2
      <4>3. t[i] = SubSeq(s, k + 1, n)[i - (k - 1)]
        BY <2>3, <4>2
      <4>4. SubSeq(s, k + 1, n)[i - (k - 1)] = s[k + (i - (k - 1))]
        BY <2>2, <4>1
      <4> QED BY <3>2, <4>2, <4>3, <4>4
    <3> QED BY <3>1, <3>2
  <2> QED BY <2>3, <2>4, <2>5
<1> HIDE DEF t
<1>3. IsInjective(t)
  <2> SUFFICES ASSUME NEW i \in 1..(n - 1), NEW j \in 1..(n - 1), t[i] = t[j] PROVE i = j
    BY <1>2 DEF IsInjective
  <2> DEFINE at(m) == IF m < k THEN m ELSE m + 1
  <2>1. at(i) \in 1..n /\ at(j) \in 1..n /\ t[i] = s[at(i)] /\ t[j] = s[at(j)]
    BY <1>1, <1>2
  <2>2. at(i) = at(j)
    BY <1>1, <2>1 DEF IsInjective
  <2> QED BY <1>1, <2>2
<1>4. ASSUME NEW x \in ToSet(t) PROVE x \in ToSet(s) \ {s[k]}
  <2>1. PICK i \in 1..(n - 1) : x = t[i]
    BY <1>2 DEF ToSet
  <2>2. PICK j \in 1..n : x = s[j] /\ j # k
    BY <1>1, <1>2, <2>1
  <2> QED BY <1>1, <2>2 DEF ToSet, IsInjective
<1>5. ASSUME NEW x \in ToSet(s) \ {s[k]} PROVE x \in ToSet(t)
  <2>1. PICK i \in 1..n : x = s[i]
    BY <1>1 DEF ToSet
  <2>2. i # k
    BY <2>1
  <2>3. CASE i < k
    BY <1>1, <1>2, <2>1, <2>3 DEF ToSet
  <2>4. CASE i > k
    <3>1. i - 1 \in 1..(n - 1) /\ t[i - 1] = s[i]
      BY <1>1, <1>2, <2>4
    <3> QED BY <1>2, <2>1, <3>1 DEF ToSet
  <2> QED BY <1>1, <2>2, <2>3, <2>4
<1> QED BY <1>2, <1>3, <1>4, <1>5 DEF t

LEMMA FirstNaturals ==
  ASSUME NEW n \in Nat
  PROVE  IsFiniteSet(1..n) /\ Cardinality(1..n) = n
<1>1. 1 \in Int /\ n \in Int
  OBVIOUS
<1>2. IsFiniteSet(1..n) /\ Cardinality(1..n) = IF 1 > n THEN 0 ELSE n - 1 + 1
  BY <1>1, FS_Interval
<1> QED BY <1>2

(* A set can be listed, each member once.                                  *)
LEMMA SetToSeqFacts ==
  ASSUME NEW S, IsFiniteSet(S)
  PROVE  /\ SetToSeq(S) \in [1..Cardinality(S) -> S]
         /\ IsInjective(SetToSeq(S))
         /\ \A x \in S : \E k \in 1..Cardinality(S) : SetToSeq(S)[k] = x
<1> DEFINE D == 1..Cardinality(S)
<1>1. Cardinality(S) \in Nat /\ ExistsBijection(D, S)
  BY FS_CardinalityType
<1>2. \E f \in [D -> S] : IsInjective(f)
  BY <1>1 DEF ExistsBijection, Bijection, Injection
<1>3. SetToSeq(S) \in [D -> S] /\ IsInjective(SetToSeq(S))
  BY <1>2 DEF SetToSeq
<1>4. SetToSeq(S) \in Injection(D, S)
  BY <1>3 DEF Injection
<1>5. Cardinality(D) = Cardinality(S)
  BY <1>1, FirstNaturals
<1>6. SetToSeq(S) \in Surjection(D, S)
  BY <1>4, <1>5, FS_Injection
<1> QED BY <1>3, <1>6 DEF Surjection

(* A function on 1..n is a sequence of its values.                         *)
LEMMA FunctionIsSequenceOf ==
  ASSUME NEW S, NEW n \in Nat, NEW f, DOMAIN f = 1..n, f = [i \in 1..n |-> f[i]],
         \A i \in 1..n : f[i] \in S
  PROVE  f \in Seq(S) /\ Len(f) = n
<1>1. f \in [1..n -> S]
  OBVIOUS
<1>2. f \in Seq(S)
  BY <1>1
<1> QED BY <1>1, <1>2, LenProperties

LEMMA QuotientBelow ==
  ASSUME NEW n \in Nat \ {0}, NEW k \in Nat, NEW a \in Nat, a < k * n
  PROVE  a \div n \in 0..(k - 1)
<1> DEFINE q == a \div n
           r == a % n
<1>1. q \in Nat /\ a = n * q + r /\ r \in 0..(n - 1)
  BY QuotientIsNatural, Division, RemainderIsLess
<1> HIDE DEF q, r
<1>2. q < k
  <2> SUFFICES ASSUME k <= q PROVE FALSE
    BY <1>1
  <2>1. CASE k = q
    BY <1>1, <2>1
  <2>2. CASE k < q
    <3>1. n * k + n <= n * q
      BY <1>1, <2>2, ProductsGrow
    <3>2. n * k = k * n /\ n * k \in Nat /\ n * q \in Nat
      BY <1>1
    <3> QED BY <1>1, <3>1, <3>2
  <2> QED BY <1>1, <2>1, <2>2
<1> QED BY <1>1, <1>2 DEF q

(* Cells in rows of w cells: the last of row r - 1 is within the rows.     *)
LEMMA InRows ==
  ASSUME NEW w \in Nat \ {0}, NEW rows \in Nat, NEW r \in 0..(rows - 1), NEW c \in 0..(w - 1)
  PROVE  r * w + c \in 0..(rows * w - 1) /\ rows * w \in Nat
<1>1. r * w + w <= rows * w /\ r * w \in Nat /\ rows * w \in Nat
  <2>1. r + 1 <= rows /\ r \in Nat
    OBVIOUS
  <2>2. (r + 1) * w <= rows * w
    BY <2>1
  <2>3. (r + 1) * w = r * w + w /\ r * w \in Nat /\ rows * w \in Nat
    BY <2>1
  <2> QED BY <2>2, <2>3
<1> QED BY <1>1

(* The parts of a concatenation by their places.                           *)
LEMMA SliceBefore ==
  ASSUME NEW V, NEW s \in Seq(V), NEW t \in Seq(V), NEW m \in Nat \ {0}, NEW k \in Nat, k <= Len(s)
  PROVE  SubSeq(s \o t, m, k) = SubSeq(s, m, k)
<1>1. CASE k < m
  BY <1>1, SubSeqEmpty
<1>2. CASE m <= k
  <2>1. m \in 1..Len(s) /\ k \in 1..Len(s)
    BY <1>2, LenProperties
  <2> QED BY <2>1, SubSeqOfConcat1
<1> QED BY <1>1, <1>2

LEMMA SliceLast ==
  ASSUME NEW V, NEW s \in Seq(V), NEW t \in Seq(V)
  PROVE  SubSeq(s \o t, Len(s) + 1, Len(s) + Len(t)) = t
<1>1. Len(s) \in Nat /\ Len(t) \in Nat
  BY LenProperties
<1>2. CASE Len(t) = 0
  <2>1. t = <<>>
    BY <1>2, EmptySeq
  <2>2. SubSeq(s \o t, Len(s) + 1, Len(s) + Len(t)) = <<>>
    BY <1>1, <1>2, SubSeqEmpty
  <2> QED BY <2>1, <2>2
<1>3. CASE Len(t) # 0
  <2>1. /\ Len(s) + 1 \in (Len(s) + 1)..(Len(s) + Len(t))
        /\ Len(s) + Len(t) \in (Len(s) + 1)..(Len(s) + Len(t))
        /\ (Len(s) + 1) - Len(s) = 1 /\ (Len(s) + Len(t)) - Len(s) = Len(t)
    BY <1>1, <1>3
  <2>2. SubSeq(s \o t, Len(s) + 1, Len(s) + Len(t)) = SubSeq(t, 1, Len(t))
    BY <2>1, SubSeqOfConcat2
  <2> QED BY <2>2, SubSeqFull
<1> QED BY <1>2, <1>3

(* A sequence that is not empty, by its last element.                      *)
LEMMA FrontAndLast ==
  ASSUME NEW V, NEW s \in Seq(V), s # <<>>
  PROVE  /\ Front(s) \in Seq(V) /\ Last(s) \in V /\ s = Append(Front(s), Last(s))
         /\ Len(Front(s)) = Len(s) - 1 /\ \A i \in 1..(Len(s) - 1) : Front(s)[i] = s[i]
<1> DEFINE n == Len(s)
<1>1. n \in Nat \ {0} /\ \A i \in 1..n : s[i] \in V
  BY EmptySeq, LenProperties
<1>2. n \in 1..n /\ n - 1 \in Nat /\ 1 \in 1..n /\ n - 1 \in Int
  BY <1>1
<1>3. /\ SubSeq(s, 1, n - 1) \in Seq(V) /\ Len(SubSeq(s, 1, n - 1)) = n - 1
      /\ \A i \in 1..(n - 1) : SubSeq(s, 1, n - 1)[i] = s[i]
  <2>1. \A i \in 1..(n - 1) : s[i] \in V
    BY <1>1
  <2> DEFINE k == n - 1
  <2>2. /\ SubSeq(s, 1, k) \in Seq(V) /\ Len(SubSeq(s, 1, k)) = (IF 1 <= k THEN k - 1 + 1 ELSE 0)
        /\ \A i \in 1..(k - 1 + 1) : SubSeq(s, 1, k)[i] = s[1 + i - 1]
    <3> HIDE DEF n
    <3> QED BY <1>2, <2>1, SubSeqProperties
  <2>3. k \in Nat
    BY <1>2
  <2> HIDE DEF k
  <2>4. Len(SubSeq(s, 1, k)) = k
    BY <2>2, <2>3
  <2>5. ASSUME NEW i \in 1..k PROVE SubSeq(s, 1, k)[i] = s[i]
    <3>1. i \in 1..(k - 1 + 1) /\ 1 + i - 1 = i
      BY <2>3
    <3> QED BY <2>2, <3>1
  <2> QED BY <2>2, <2>4, <2>5 DEF k
<1>4. s = Append(SubSeq(s, 1, n - 1), s[n])
  <2>1. SubSeq(s, 1, n) = SubSeq(s, 1, n - 1) \o <<s[n]>>
    BY <1>2, SubSeqRecursiveSecond
  <2>2. SubSeq(s, 1, n) = s
    BY SubSeqFull
  <2>3. s[n] \in V
    BY <1>1, <1>2
  <2>4. Append(SubSeq(s, 1, n - 1), s[n]) = SubSeq(s, 1, n - 1) \o <<s[n]>>
    <3> HIDE DEF n
    <3> QED BY <1>3, <2>3, AppendIsConcat
  <2> QED BY <2>1, <2>2, <2>4
<1> QED BY <1>1, <1>2, <1>3, <1>4 DEF Front, Last

(* A prefix, one element longer.                                           *)
LEMMA PrefixGrows ==
  ASSUME NEW V, NEW s \in Seq(V), NEW k \in 0..(Len(s) - 1)
  PROVE  /\ SubSeq(s, 1, k) \in Seq(V) /\ s[k + 1] \in V
         /\ SubSeq(s, 1, k + 1) = Append(SubSeq(s, 1, k), s[k + 1])
<1> DEFINE n == Len(s)
           m == k + 1
<1>1. n \in Nat /\ \A i \in 1..n : s[i] \in V
  BY LenProperties
<1> HIDE DEF n
<1>2. k \in 0..(n - 1)
  BY DEF n
<1>3. /\ 1 \in 1..n /\ m \in 1..n /\ k \in Nat /\ 1 \in Int /\ k \in Int
      /\ m - 1 = k /\ \A i \in 1..k : i \in 1..n
  BY <1>1, <1>2
<1>4. SubSeq(s, 1, k) \in Seq(V)
  BY <1>1, <1>3, SubSeqProperties
<1> HIDE DEF m
<1>5. SubSeq(s, 1, m) = SubSeq(s, 1, m - 1) \o <<s[m]>>
  BY <1>3, SubSeqRecursiveSecond DEF n
<1>6. s[m] \in V
  BY <1>1, <1>3
<1>7. Append(SubSeq(s, 1, k), s[m]) = SubSeq(s, 1, k) \o <<s[m]>>
  BY <1>4, <1>6, AppendIsConcat
<1> QED BY <1>3, <1>4, <1>5, <1>6, <1>7 DEF m

(* Induction over a sequence, when a set holds those a fact holds for.     *)
LEMMA ClimbingSequences ==
  ASSUME NEW V, NEW B, <<>> \in B, \A s \in Seq(V), e \in V : s \in B => Append(s, e) \in B
  PROVE  Seq(V) \subseteq B
<1> SUFFICES ASSUME NEW s \in Seq(V) PROVE s \in B
  OBVIOUS
<1> DEFINE n == Len(s)
           S == {k \in 0..n : SubSeq(s, 1, k) \in B}
<1>1. n \in Nat /\ \A i \in 1..n : s[i] \in V
  BY LenProperties
<1> HIDE DEF n
<1>2. 0 \in S
  <2>1. SubSeq(s, 1, 0) = <<>>
    BY SubSeqEmpty
  <2>2. 0 \in 0..n
    BY <1>1
  <2>3. SubSeq(s, 1, 0) \in B
    BY ONLY <2>1, <<>> \in B
  <2> QED BY ONLY <2>2, <2>3
<1>3. ASSUME NEW k \in 0..(n - 1), k \in S PROVE k + 1 \in S
  <2>1. /\ k \in Nat /\ k + 1 \in 1..n /\ k + 1 \in 0..n /\ 1 \in 1..n
        /\ k + 1 \in 1..(k + 1) /\ (k + 1) - 1 = k /\ k \in Int
    BY <1>1
  <2>2. SubSeq(s, 1, k) \in Seq(V) /\ s[k + 1] \in V
    <3>1. \A i \in 1..k : s[i] \in V
      BY <1>1, <2>1
    <3> QED BY <1>1, <2>1, <3>1, SubSeqProperties
  <2>3. SubSeq(s, 1, k + 1) = SubSeq(s, 1, k) \o <<s[k + 1]>>
    <3>1. k + 1 \in 1..Len(s) /\ 1 \in 1..Len(s)
      BY <2>1 DEF n
    <3> QED BY <2>1, <3>1, SubSeqRecursiveSecond
  <2>4. Append(SubSeq(s, 1, k), s[k + 1]) = SubSeq(s, 1, k) \o <<s[k + 1]>>
    BY <2>2, AppendIsConcat
  <2> QED BY <1>3, <2>1, <2>2, <2>3, <2>4
<1>4. 0..n \subseteq S
  <2> HIDE DEF S
  <2> QED BY <1>1, <1>2, <1>3, ClimbingTo
<1>5. n \in S
  <2> HIDE DEF S
  <2> QED BY <1>1, <1>4
<1>6. SubSeq(s, 1, n) = s
  BY SubSeqFull DEF n
<1> QED BY <1>5, <1>6

(* FlattenSeq, one sequence after another.                                 *)
LEMMA FlattenedInSteps ==
  ASSUME NEW S, NEW n \in Nat, NEW seqs \in Seq(Seq(S)), Len(seqs) = n, NEW f \in [0..n -> Seq(S)],
         f[0] = <<>>, \A i \in 1..n : f[i] = f[i - 1] \o seqs[i]
  PROVE  FlattenSeq(seqs) = f[n]
<1> DEFINE Solves(g) == g = [i \in 1..n |-> IF i = 1 THEN seqs[i] ELSE g[i - 1] \o seqs[i]]
           g == CHOOSE h : Solves(h)
           h == [i \in 1..n |-> f[i]]
<1>1. CASE n = 0
  <2>1. seqs = <<>>
    BY <1>1, EmptySeq
  <2> QED BY <1>1, <2>1 DEF FlattenSeq
<1>2. CASE n # 0
  <2>1. \A i \in 1..n : seqs[i] \in Seq(S) /\ f[i] = (IF i = 1 THEN seqs[i] ELSE f[i - 1] \o seqs[i])
    <3> SUFFICES ASSUME NEW i \in 1..n
                 PROVE  seqs[i] \in Seq(S) /\ f[i] = (IF i = 1 THEN seqs[i] ELSE f[i - 1] \o seqs[i])
      OBVIOUS
    <3>1. seqs[i] \in Seq(S)
      BY ElementOfSeq
    <3>2. <<>> \o seqs[i] = seqs[i]
      BY <3>1, ConcatEmptySeq
    <3>3. 1 - 1 = 0
      OBVIOUS
    <3> QED BY <3>1, <3>2, <3>3
  <2>2. \A i \in 1..n : i # 1 => i - 1 \in 1..n
    OBVIOUS
  <2>3. Solves(h)
    <3>1. \A i \in 1..n : f[i] = IF i = 1 THEN seqs[i] ELSE h[i - 1] \o seqs[i]
      BY <2>1, <2>2
    <3> HIDE DEF h
    <3>2. h = [i \in 1..n |-> IF i = 1 THEN seqs[i] ELSE h[i - 1] \o seqs[i]]
      BY <3>1 DEF h
    <3> QED BY <3>2
  <2>4. Solves(g)
    <3> HIDE DEF Solves, h
    <3> QED BY <2>3
  <2>5. FlattenSeq(seqs) = g[n]
    <3>1. Len(seqs) # 0
      BY <1>2
    <3> QED BY <3>1 DEF FlattenSeq
  <2> HIDE DEF g
  <2>6. \A i \in 1..n : g[i] = IF i = 1 THEN seqs[i] ELSE g[i - 1] \o seqs[i]
    BY <2>4
  <2> DEFINE a == [i \in 0..n |-> IF i = 0 THEN <<>> ELSE g[i]]
  <2>7. a[0] = f[0] /\ a[n] = g[n]
    BY <1>2
  <2>8. ASSUME NEW k \in 1..n, a[k - 1] = f[k - 1] PROVE a[k] = f[k]
    <3>1. k # 0 /\ k \in 0..n /\ k - 1 \in 0..n /\ (k # 1 => k - 1 # 0)
      BY ONLY n \in Nat, k \in 1..n
    <3>2. a[k] = g[k] /\ (k # 1 => a[k - 1] = g[k - 1])
      <4> HIDE DEF Solves
      <4> QED BY <3>1
    <3> HIDE DEF a, Solves
    <3>3. g[k] = IF k = 1 THEN seqs[k] ELSE g[k - 1] \o seqs[k]
      BY <2>6
    <3>4. f[k] = IF k = 1 THEN seqs[k] ELSE f[k - 1] \o seqs[k]
      BY <2>1
    <3> QED BY <2>8, <3>2, <3>3, <3>4
  <2>9. a[n] = f[n]
    <3> HIDE DEF a
    <3> QED BY <2>7, <2>8, SameSteps
  <2> QED BY <2>5, <2>7, <2>9
<1> QED BY <1>1, <1>2

(* FlattenSeq of a sequence that grows by one.                             *)
LEMMA FlattenAppend ==
  ASSUME NEW S, NEW s \in Seq(Seq(S)), NEW x \in Seq(S)
  PROVE  /\ FlattenSeq(<<>>) = <<>>
         /\ FlattenSeq(s) \in Seq(S)
         /\ FlattenSeq(Append(s, x)) = FlattenSeq(s) \o x
<1> DEFINE n == Len(s)
           t == Append(s, x)
           V == Seq(S)
           step == [i \in 1..(n + 1) |-> [v \in V |-> v \o t[i]]]
<1>1. /\ n \in Nat /\ t \in Seq(V) /\ Len(t) = n + 1 /\ n + 1 \in Nat /\ n + 1 \in 1..(n + 1)
      /\ \A i \in 1..n : t[i] = s[i]
      /\ t[n + 1] = x /\ (n + 1) - 1 = n /\ n \in 0..(n + 1)
  BY LenProperties, AppendProperties
<1>2. <<>> \in V /\ \A i \in 1..(n + 1), v \in V : step[i][v] = v \o t[i] /\ step[i][v] \in V
  <2>1. <<>> \in V
    OBVIOUS
  <2> SUFFICES ASSUME NEW i \in 1..(n + 1), NEW v \in V PROVE v \o t[i] \in V
    BY <2>1
  <2>2. t[i] \in V
    <3> HIDE DEF t, V, n
    <3> QED BY <1>1, ElementOfSeq
  <2>3. t[i] \in Seq(S) /\ v \in Seq(S)
    BY <2>2
  <2> HIDE DEF t
  <2> QED BY <2>3, ConcatProperties
<1> HIDE DEF step
<1>3. PICK f : Repeats(f, n + 1, V, <<>>, step)
  <2> HIDE DEF V, n
  <2> QED BY <1>1, <1>2, Iterates
<1> HIDE DEF t, n
<1>4. /\ f \in [0..(n + 1) -> V] /\ f[0] = <<>>
      /\ \A i \in 1..(n + 1) : f[i] = f[i - 1] \o t[i]
  <2>1. \A i \in 1..(n + 1) : i - 1 \in 0..(n + 1)
    BY <1>1
  <2> HIDE DEF V
  <2> QED BY <1>2, <1>3, <2>1 DEF Repeats
<1>5. FlattenSeq(t) = f[n + 1]
  BY <1>1, <1>4, FlattenedInSteps
<1> DEFINE g == [i \in 0..n |-> f[i]]
<1>6. FlattenSeq(s) = g[n]
  <2>1. \A i \in 0..n : i \in 0..(n + 1)
    BY <1>1
  <2>2. g \in [0..n -> Seq(S)] /\ g[0] = <<>>
    BY <1>1, <1>4, <2>1
  <2>3. \A i \in 1..n : g[i] = g[i - 1] \o s[i]
    <3> SUFFICES ASSUME NEW i \in 1..n PROVE g[i] = g[i - 1] \o s[i]
      OBVIOUS
    <3>1. i \in 0..n /\ i - 1 \in 0..n /\ i \in 1..(n + 1)
      BY <1>1
    <3> HIDE DEF V
    <3> QED BY <1>1, <1>4, <3>1
  <2> HIDE DEF g
  <2> QED BY <1>1, <2>2, <2>3, FlattenedInSteps DEF n
<1>7. g[n] = f[n] /\ f[n] \in Seq(S)
  BY <1>1, <1>4
<1>8. FlattenSeq(<<>>) = <<>>
  <2>1. Len(<<>>) = 0
    OBVIOUS
  <2> QED BY <2>1 DEF FlattenSeq
<1> HIDE DEF g, V
<1> QED BY <1>1, <1>4, <1>5, <1>6, <1>7, <1>8 DEF t

(* A sequence of what a function makes of the elements of another.         *)
Mapped(h, s) == [i \in 1..Len(s) |-> h[s[i]]]

LEMMA MappedIsTyped ==
  ASSUME NEW V, NEW W, NEW h, NEW m \in Nat, NEW t, Len(t) = m, \A i \in 1..m : t[i] \in V,
         \A x \in V : h[x] \in W
  PROVE  Mapped(h, t) \in Seq(W) /\ Len(Mapped(h, t)) = m /\ \A i \in 1..m : Mapped(h, t)[i] = h[t[i]]
<1> DEFINE c == Mapped(h, t)
<1>1. DOMAIN c = 1..m /\ c = [i \in 1..m |-> c[i]] /\ \A i \in 1..m : c[i] = h[t[i]] /\ c[i] \in W
  BY DEF Mapped
<1> HIDE DEF c
<1>2. c \in Seq(W) /\ Len(c) = m
  BY <1>1, FunctionIsSequenceOf
<1> QED BY <1>1, <1>2 DEF c

(* One more element.                                                       *)
LEMMA MappedAppend ==
  ASSUME NEW V, NEW h, NEW s \in Seq(V), NEW e \in V
  PROVE  Mapped(h, Append(s, e)) = Append(Mapped(h, s), h[e])
<1> DEFINE n == Len(s)
           u == Append(s, e)
<1>1. /\ n \in Nat /\ u \in Seq(V) /\ Len(u) = n + 1 /\ n + 1 \in Nat
      /\ \A i \in 1..n : u[i] = s[i] /\ s[i] \in V
      /\ u[n + 1] = e
      /\ \A i \in 1..(n + 1) : i \in 1..n \/ i = n + 1
  BY LenProperties, AppendProperties
<1>0. PICK W : \A x \in V : h[x] \in W
  <2>1. \A x \in V : h[x] \in {h[y] : y \in V}
    OBVIOUS
  <2> QED BY <2>1
<1> HIDE DEF n, u
<1>2. ASSUME NEW m \in Nat, NEW t, Len(t) = m, \A i \in 1..m : t[i] \in V
      PROVE  Mapped(h, t) \in Seq(W) /\ Len(Mapped(h, t)) = m /\ \A i \in 1..m : Mapped(h, t)[i] = h[t[i]]
  <2> DEFINE c == Mapped(h, t)
  <2>1. DOMAIN c = 1..m /\ c = [i \in 1..m |-> c[i]] /\ \A i \in 1..m : c[i] = h[t[i]] /\ c[i] \in W
    BY <1>0, <1>2 DEF Mapped
  <2> HIDE DEF c
  <2>2. c \in Seq(W) /\ Len(c) = m
    BY <2>1, FunctionIsSequenceOf
  <2> QED BY <2>1, <2>2 DEF c
<1> DEFINE a == Mapped(h, s)
           b == Mapped(h, u)
<1>3. a \in Seq(W) /\ Len(a) = n /\ \A i \in 1..n : a[i] = h[s[i]]
  <2>1. Len(s) = n
    BY DEF n
  <2> QED BY <1>1, <1>2, <2>1
<1>4. b \in Seq(W) /\ Len(b) = n + 1 /\ \A i \in 1..(n + 1) : b[i] = h[u[i]]
  <2>1. \A i \in 1..(n + 1) : u[i] \in V
    BY <1>1
  <2> QED BY <1>1, <1>2, <2>1
<1> DEFINE v == Append(a, h[e])
<1>5. v \in Seq(W) /\ Len(v) = n + 1 /\ v[n + 1] = h[e] /\ \A i \in 1..n : v[i] = a[i]
  <2> HIDE DEF a
  <2>1. h[e] \in W
    BY <1>0
  <2> QED BY <1>3, <2>1, AppendProperties
<1>6. v = b
  <2> HIDE DEF a, b, v
  <2>1. Len(v) = Len(b) /\ \A i \in 1..Len(v) : v[i] = b[i]
    BY <1>1, <1>3, <1>4, <1>5
  <2> QED BY <1>4, <1>5, <2>1, SeqEqual
<1> QED BY <1>6 DEF u

-----------------------------------------------------------------------------
(* Cuts and concatenations.                                                *)

(* The places of a concatenation and of a cut.                             *)
LEMMA CatFacts ==
  ASSUME NEW V, NEW s \in Seq(V), NEW t \in Seq(V)
  PROVE  /\ s \o t \in Seq(V) /\ Len(s) \in Nat /\ Len(t) \in Nat /\ Len(s \o t) = Len(s) + Len(t)
         /\ \A i \in 1..Len(s) : (s \o t)[i] = s[i]
         /\ \A i \in 1..Len(t) : (s \o t)[Len(s) + i] = t[i]
<1> DEFINE m == Len(s)
           n == Len(t)
           u == s \o t
<1>1. m \in Nat /\ n \in Nat
  BY LenProperties
<1>2. u \in Seq(V) /\ Len(u) = m + n /\ \A i \in 1..(m + n) : u[i] = IF i <= m THEN s[i] ELSE t[i - m]
  BY ConcatProperties
<1> HIDE DEF m, n, u
<1>3. ASSUME NEW i \in 1..m PROVE u[i] = s[i]
  <2>1. i \in 1..(m + n) /\ i <= m
    BY <1>1
  <2> QED BY <1>2, <2>1
<1>4. ASSUME NEW i \in 1..n PROVE u[m + i] = t[i]
  <2>1. m + i \in 1..(m + n) /\ ~(m + i <= m) /\ (m + i) - m = i
    BY <1>1
  <2> QED BY <1>2, <2>1
<1> QED BY <1>1, <1>2, <1>3, <1>4 DEF m, n, u

LEMMA CutFacts ==
  ASSUME NEW V, NEW s \in Seq(V), NEW a \in 1..(Len(s) + 1), NEW b \in (a - 1)..Len(s)
  PROVE  /\ SubSeq(s, a, b) \in Seq(V) /\ Len(SubSeq(s, a, b)) = b - a + 1
         /\ \A i \in 1..(b - a + 1) : SubSeq(s, a, b)[i] = s[a + i - 1]
<1> DEFINE n == Len(s)
           u == SubSeq(s, a, b)
<1>1. n \in Nat /\ \A i \in 1..n : s[i] \in V
  BY LenProperties
<1> HIDE DEF n
<1>2. a \in 1..(n + 1) /\ b \in (a - 1)..n
  BY DEF n
<1>3. a \in Int /\ b \in Int /\ \A i \in a..b : s[i] \in V
  BY <1>1, <1>2
<1>4. /\ u \in Seq(V) /\ Len(u) = (IF a <= b THEN b - a + 1 ELSE 0)
      /\ \A i \in 1..(b - a + 1) : u[i] = s[a + i - 1]
  BY ONLY <1>3, SubSeqProperties
<1>5. (IF a <= b THEN b - a + 1 ELSE 0) = b - a + 1
  BY <1>1, <1>2
<1> QED BY <1>4, <1>5

(* A sequence is what is in front of a place and what is behind it.        *)
LEMMA CutInTwo ==
  ASSUME NEW V, NEW s \in Seq(V), NEW a \in 0..Len(s)
  PROVE  s = SubSeq(s, 1, a) \o SubSeq(s, a + 1, Len(s))
<1>1. Len(s) \in Nat
  BY LenProperties
<1>2. 1 \in 1..(Len(s) + 1) /\ a \in (1 - 1)..Len(s) /\ Len(s) \in a..Len(s)
  BY <1>1
<1>3. SubSeq(s, 1, a) \o SubSeq(s, a + 1, Len(s)) = SubSeq(s, 1, Len(s))
  BY <1>2, ConcatAdjacentSubSeq
<1> QED BY <1>3, SubSeqFull

(* Prefixes of sequences.                                                  *)
LEMMA PrefixOfConcat ==
  ASSUME NEW V, NEW s \in Seq(V), NEW t \in Seq(V)
  PROVE  IsPrefix(s, s \o t)
<1>1. Len(s) \in Nat /\ Len(t) \in Nat /\ Len(s \o t) = Len(s) + Len(t)
  BY CatFacts
<1>2. SubSeq(s \o t, 1, Len(s)) = SubSeq(s, 1, Len(s))
  BY <1>1, SliceBefore
<1>3. Len(s) <= Len(s \o t)
  BY <1>1
<1> QED BY <1>2, <1>3 DEF IsPrefix

LEMMA PrefixAndRest ==
  ASSUME NEW V, NEW s \in Seq(V), NEW t \in Seq(V), IsPrefix(s, t)
  PROVE  \E u \in Seq(V) : t = s \o u
<1>1. Len(s) \in Nat /\ Len(t) \in Nat /\ Len(s) <= Len(t) /\ SubSeq(s, 1, Len(s)) = SubSeq(t, 1, Len(s))
  BY LenProperties DEF IsPrefix
<1> DEFINE a == Len(s)
           u == SubSeq(t, a + 1, Len(t))
<1>2. SubSeq(s, 1, Len(s)) = s
  BY SubSeqFull
<1>3. a \in 0..Len(t) /\ a + 1 \in 1..(Len(t) + 1) /\ Len(t) \in (a + 1 - 1)..Len(t)
  BY <1>1
<1>4. t = SubSeq(t, 1, a) \o u
  BY <1>3, CutInTwo
<1>5. u \in Seq(V)
  <2> HIDE DEF a
  <2> QED BY <1>3, CutFacts
<1> HIDE DEF u
<1>6. t = s \o u
  BY <1>1, <1>2, <1>4
<1> QED BY <1>5, <1>6

LEMMA PrefixOfPrefix ==
  ASSUME NEW V, NEW s \in Seq(V), NEW t \in Seq(V), NEW u \in Seq(V), IsPrefix(s, t), IsPrefix(t, u)
  PROVE  IsPrefix(s, u)
<1>1. PICK x \in Seq(V) : t = s \o x
  BY PrefixAndRest
<1>2. PICK y \in Seq(V) : u = t \o y
  BY PrefixAndRest
<1>3. u = s \o (x \o y) /\ x \o y \in Seq(V)
  BY <1>1, <1>2, ConcatAssociative, CatFacts
<1> QED BY <1>3, PrefixOfConcat

(* No member of a set exceeds the largest.                                 *)
LEMMA LargestBounds ==
  ASSUME NEW n \in Nat, NEW S \in SUBSET (1..n), NEW i \in S
  PROVE  i <= Max({0} \union S)
<1> DEFINE Z == {0} \union S
<1>1. \E x \in Z : \A y \in Z : x >= y
  <2>1. Max(S) \in S /\ \A j \in S : j <= Max(S)
    BY LargestMember
  <2>2. PICK m \in S : \A j \in S : j <= m
    BY <2>1
  <2>3. m \in 1..n /\ m \in Z
    OBVIOUS
  <2>4. ASSUME NEW y \in Z PROVE m >= y
    <3>1. y = 0 \/ (y \in 1..n /\ y <= m)
      BY <2>2
    <3> QED BY ONLY <2>3, <3>1
  <2> QED BY <2>3, <2>4
<1>2. Max(Z) \in Z /\ \A y \in Z : Max(Z) >= y
  <2> HIDE DEF Z
  <2> QED BY <1>1 DEF Max
<1>3. i \in Z /\ Z \subseteq Nat
  OBVIOUS
<1> HIDE DEF Z
<1>4. i <= Max(Z)
  BY <1>2, <1>3
<1> QED BY <1>4 DEF Z

(* The cuts of a concatenation, by the place of the cut.                   *)
LEMMA CutParts ==
  ASSUME NEW V, NEW s \in Seq(V), NEW a \in 0..Len(s)
  PROVE  LET f == SubSeq(s, 1, a)
             g == SubSeq(s, a + 1, Len(s))
         IN /\ s = f \o g /\ f \in Seq(V) /\ g \in Seq(V)
            /\ Len(f) = a /\ Len(g) = Len(s) - a
<1> DEFINE f == SubSeq(s, 1, a)
           g == SubSeq(s, a + 1, Len(s))
           b == a + 1
<1>1. Len(s) \in Nat
  BY LenProperties
<1>2. /\ 1 \in 1..(Len(s) + 1) /\ a \in (1 - 1)..Len(s) /\ b \in 1..(Len(s) + 1) /\ Len(s) \in (b - 1)..Len(s)
      /\ a - 1 + 1 = a /\ Len(s) - b + 1 = Len(s) - a
  BY <1>1
<1>3. f \in Seq(V) /\ Len(f) = a - 1 + 1
  BY <1>2, CutFacts
<1>4. SubSeq(s, b, Len(s)) \in Seq(V) /\ Len(SubSeq(s, b, Len(s))) = Len(s) - b + 1
  <2> HIDE DEF b
  <2> QED BY <1>2, CutFacts
<1>5. s = f \o g
  BY CutInTwo
<1> QED BY <1>2, <1>3, <1>4, <1>5

LEMMA CutBeforeSeam ==
  ASSUME NEW V, NEW s \in Seq(V), NEW t \in Seq(V), NEW a \in 0..Len(s)
  PROVE  SubSeq(s \o t, a + 1, Len(s \o t)) = SubSeq(s, a + 1, Len(s)) \o t
<1> DEFINE f == SubSeq(s, 1, a)
           g == SubSeq(s, a + 1, Len(s))
           u == g \o t
<1>1. s = f \o g /\ f \in Seq(V) /\ g \in Seq(V) /\ Len(f) = a
  BY CutParts
<1> HIDE DEF f, g
<1>2. s \o t = f \o u /\ u \in Seq(V)
  BY <1>1, ConcatAssociative, CatFacts
<1> HIDE DEF u
<1>3. Len(f \o u) = Len(f) + Len(u)
  BY <1>1, <1>2, CatFacts
<1>4. SubSeq(f \o u, Len(f) + 1, Len(f) + Len(u)) = u
  BY <1>1, <1>2, SliceLast
<1> QED BY <1>1, <1>2, <1>3, <1>4 DEF u, g

LEMMA CutBehindSeam ==
  ASSUME NEW V, NEW s \in Seq(V), NEW t \in Seq(V), NEW a \in 0..Len(t)
  PROVE  /\ SubSeq(s \o t, Len(s) + a + 1, Len(s \o t)) = SubSeq(t, a + 1, Len(t))
         /\ SubSeq(s \o t, 1, Len(s) + a) = s \o SubSeq(t, 1, a)
<1> DEFINE f == SubSeq(t, 1, a)
           g == SubSeq(t, a + 1, Len(t))
           u == s \o f
<1>1. t = f \o g /\ f \in Seq(V) /\ g \in Seq(V) /\ Len(f) = a
  BY CutParts
<1> HIDE DEF f, g
<1>2. s \o t = u \o g /\ u \in Seq(V) /\ Len(u) = Len(s) + a /\ Len(s) \in Nat /\ Len(u) \in Nat
  <2>1. u \in Seq(V) /\ Len(s) \in Nat /\ Len(u) = Len(s) + Len(f)
    BY <1>1, CatFacts
  <2>2. (s \o f) \o g = s \o (f \o g)
    BY <1>1, ConcatAssociative
  <2>3. s \o t = u \o g
    BY <1>1, <2>2
  <2> HIDE DEF u
  <2>4. Len(u) = Len(s) + a /\ Len(u) \in Nat
    BY <1>1, <2>1
  <2> QED BY <2>1, <2>3, <2>4
<1> HIDE DEF u
<1>3. Len(u \o g) = Len(u) + Len(g)
  BY <1>1, <1>2, CatFacts
<1>4. SubSeq(u \o g, Len(u) + 1, Len(u) + Len(g)) = g
  BY <1>1, <1>2, SliceLast
<1>5. SubSeq(u \o g, 1, Len(u)) = u
  <2>1. Len(u) <= Len(u)
    BY <1>2
  <2>2. SubSeq(u \o g, 1, Len(u)) = SubSeq(u, 1, Len(u))
    BY <1>1, <1>2, <2>1, SliceBefore
  <2> QED BY <1>2, <2>2, SubSeqFull
<1>6. SubSeq(s \o t, Len(s) + a + 1, Len(s \o t)) = g
  BY <1>2, <1>3, <1>4
<1>7. SubSeq(s \o t, 1, Len(s) + a) = u
  BY <1>2, <1>5
<1> QED BY <1>6, <1>7 DEF u, f, g

LEMMA PrefixBehind ==
  ASSUME NEW V, NEW s \in Seq(V), NEW t \in Seq(V), NEW u \in Seq(V), IsPrefix(t, u)
  PROVE  IsPrefix(s \o t, s \o u)
<1>1. PICK x \in Seq(V) : u = t \o x
  BY PrefixAndRest
<1>2. s \o u = (s \o t) \o x /\ s \o t \in Seq(V)
  BY <1>1, ConcatAssociative, CatFacts
<1> QED BY <1>2, PrefixOfConcat
=============================================================================
