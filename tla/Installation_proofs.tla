------------------------ MODULE Installation_proofs ------------------------
(***************************************************************************)
(* Download, conversion and receipt, for any number of chunks, payloads,   *)
(* attempts and faults, and any files a user points at; and, for any plan, *)
(* the container an interrupted conversion writes once it is resumed.      *)
(***************************************************************************)
EXTENDS Installation, Container, Lemmas

(* Journals.  What Front leaves of a sequence.                             *)
LEMMA FrontFacts ==
  ASSUME NEW L, NEW s \in Seq(L), s # <<>>
  PROVE  /\ Front(s) \in Seq(L) /\ Len(Front(s)) = Len(s) - 1 /\ Len(s) \in Nat \ {0}
         /\ DOMAIN Front(s) = 1..(Len(s) - 1)
         /\ \A i \in 1..(Len(s) - 1) : Front(s)[i] = s[i]
         /\ Last(s) = s[Len(s)]
<1>1. Len(s) \in Nat \ {0}
  BY EmptySeq, LenProperties
<1>2. \A i \in 1..(Len(s) - 1) : s[i] \in L
  BY LenProperties
<1>3. 1 \in Int /\ Len(s) - 1 \in Int
  BY <1>1
<1>4. /\ SubSeq(s, 1, Len(s) - 1) \in Seq(L)
      /\ Len(SubSeq(s, 1, Len(s) - 1)) = (IF 1 <= Len(s) - 1 THEN Len(s) - 1 - 1 + 1 ELSE 0)
      /\ \A i \in 1..(Len(s) - 1 - 1 + 1) : SubSeq(s, 1, Len(s) - 1)[i] = s[1 + i - 1]
  BY <1>2, <1>3, SubSeqProperties
<1>5. /\ Len(SubSeq(s, 1, Len(s) - 1)) = Len(s) - 1
      /\ \A i \in 1..(Len(s) - 1) : SubSeq(s, 1, Len(s) - 1)[i] = s[i]
  <2> DEFINE n == Len(s)
  <2> DEFINE u == SubSeq(s, 1, n - 1)
  <2>1. /\ n \in Nat \ {0} /\ Len(u) = (IF 1 <= n - 1 THEN n - 1 - 1 + 1 ELSE 0)
        /\ \A i \in 1..(n - 1 - 1 + 1) : u[i] = s[1 + i - 1]
    BY <1>1, <1>4
  <2> HIDE DEF n, u
  <2>2. Len(u) = n - 1
    BY <2>1
  <2>3. ASSUME NEW i \in 1..(n - 1) PROVE u[i] = s[i]
    <3>1. i \in 1..(n - 1 - 1 + 1) /\ 1 + i - 1 = i
      BY <2>1
    <3> QED BY <2>1, <3>1
  <2> QED BY <2>2, <2>3 DEF n, u
<1> QED BY <1>1, <1>4, <1>5, LenProperties DEF Front, Last

(* The recursion of Select has a solution, by induction on the number of   *)
(* lines looked at.                                                        *)
LEMMA SelectRecursion ==
  ASSUME NEW L, NEW s \in Seq(L), NEW event
  PROVE  \E f : /\ Select(s, event) = f[Len(s)]
                /\ f[0] = <<>>
                /\ \A n \in 1..Len(s) :
                     f[n] = IF s[n].event = event THEN Append(f[n - 1], s[n]) ELSE f[n - 1]
<1> DEFINE Longer(f, n) == IF s[n].event = event THEN Append(f[n - 1], s[n]) ELSE f[n - 1]
<1> DEFINE Solves(f, n) == f = [i \in 0..n |-> IF i = 0 THEN <<>> ELSE Longer(f, i)]
<1> DEFINE N == Len(s)
<1>1. N \in Nat
  BY LenProperties
<1>2. ASSUME NEW S \in SUBSET Nat, S = {n \in 0..N : ~\E f : Solves(f, n)}, S # {}
      PROVE  FALSE
  <2>1. PICK m \in S : \A n \in S : m <= n
    BY <1>2, SmallestMember
  <2>2. m \in 0..N /\ m \in Nat
    BY <1>1, <1>2, <2>1
  <2>3. m # 0
    <3> DEFINE zero == [i \in 0..0 |-> <<>>]
    <3>1. zero = [i \in 0..0 |-> IF i = 0 THEN <<>> ELSE Longer(zero, i)]
      OBVIOUS
    <3>2. Solves(zero, 0)
      BY <3>1
    <3> QED BY <3>2, <1>2, <2>1
  <2>4. m - 1 \in 0..N /\ m - 1 \notin S
    BY <1>1, <2>1, <2>2, <2>3
  <2>5. PICK f : Solves(f, m - 1)
    BY <1>2, <2>4
  <2> DEFINE g == [i \in 0..m |-> IF i = m THEN Longer(f, m) ELSE f[i]]
  <2>6. \A i \in 0..m : g[i] = IF i = 0 THEN <<>> ELSE Longer(g, i)
    <3> SUFFICES ASSUME NEW i \in 0..m PROVE g[i] = IF i = 0 THEN <<>> ELSE Longer(g, i)
      OBVIOUS
    <3>1. CASE i = 0
      BY <3>1, <2>2, <2>3, <2>5
    <3>2. CASE i # 0
      <4>1. i - 1 \in 0..(m - 1) /\ i - 1 \in 0..m /\ i - 1 # m
        BY <2>2, <3>2
      <4>2. g[i - 1] = f[i - 1]
        BY <4>1
      <4>3. Longer(g, i) = Longer(f, i)
        BY <4>2
      <4>4. CASE i = m
        BY <3>2, <4>3, <4>4
      <4>5. CASE i # m
        <5>1. i \in 0..(m - 1)
          BY <2>2, <4>5
        <5>2. f[i] = Longer(f, i)
          BY <2>5, <3>2, <5>1
        <5> QED BY <3>2, <4>3, <4>5, <5>2
      <4> QED BY <4>4, <4>5
    <3> QED BY <3>1, <3>2
  <2>7. Solves(g, m)
    <3>1. g = [i \in 0..m |-> g[i]]
      OBVIOUS
    <3> HIDE DEF g, Longer
    <3> QED BY <3>1, <2>6
  <2> HIDE DEF g, Solves
  <2> QED BY <2>7, <1>2, <2>1
<1>3. \E f : Solves(f, N)
  <2>1. {n \in 0..N : ~\E f : Solves(f, n)} \in SUBSET Nat
    <3> HIDE DEF Solves, N
    <3> QED BY <1>1
  <2>2. N \in 0..N
    BY <1>1
  <2>3. {n \in 0..N : ~\E f : Solves(f, n)} = {}
    BY <2>1, <1>2
  <2> HIDE DEF Solves, N
  <2> QED BY <2>2, <2>3
<1> DEFINE F == CHOOSE f : Solves(f, N)
<1>4. Solves(F, N)
  <2> HIDE DEF Solves, N
  <2> QED BY <1>3
<1>5. Select(s, event) = F[N]
  BY DEF Select
<1>6. F[0] = <<>> /\ \A n \in 1..N : F[n] = Longer(F, n)
  <2> HIDE DEF F, N
  <2>1. 0 \in 0..N /\ \A n \in 1..N : n \in 0..N /\ n # 0
    BY <1>1
  <2> QED BY <1>4, <2>1
<1> HIDE DEF F
<1> QED BY <1>5, <1>6

(* What is selected are the lines of the kind asked for; a first line of   *)
(* another kind is all that is left out where there is no other.           *)
LEMMA SelectMembers ==
  ASSUME NEW L, NEW s \in Seq(L), NEW event
  PROVE  /\ Select(s, event) \in Seq(L)
         /\ ToSet(Select(s, event)) = {e \in ToSet(s) : e.event = event}
<1> DEFINE N == Len(s)
<1> DEFINE Upto(n) == {e \in {s[j] : j \in 1..n} : e.event = event}
<1>1. N \in Nat /\ \A n \in 1..N : s[n] \in L
  BY LenProperties
<1>2. PICK f : /\ Select(s, event) = f[N]
               /\ f[0] = <<>>
               /\ \A n \in 1..N :
                    f[n] = IF s[n].event = event THEN Append(f[n - 1], s[n]) ELSE f[n - 1]
  BY SelectRecursion
<1> DEFINE Bad == {n \in 0..N : ~(f[n] \in Seq(L) /\ ToSet(f[n]) = Upto(n))}
<1>3. ASSUME Bad # {} PROVE FALSE
  <2>1. PICK m \in Bad : \A n \in Bad : m <= n
    <3>1. Bad \in SUBSET Nat
      BY <1>1
    <3> HIDE DEF Bad
    <3> QED BY <1>3, <3>1, SmallestMember
  <2>2. m \in 0..N /\ m \in Nat
    BY <1>1
  <2>3. m # 0
    <3>1. <<>> \in Seq(L) /\ ToSet(<<>>) = {}
      BY EmptySeq DEF ToSet
    <3>2. Upto(0) = {}
      OBVIOUS
    <3> QED BY <1>2, <3>1, <3>2
  <2>4. m - 1 \in 0..N /\ m - 1 \notin Bad /\ m \in 1..N
    <3>1. m - 1 \in 0..N /\ m \in 1..N /\ m - 1 \in Nat /\ ~(m <= m - 1)
      BY <1>1, <2>2, <2>3
    <3> HIDE DEF Bad
    <3> QED BY <2>1, <3>1
  <2>5. f[m - 1] \in Seq(L) /\ ToSet(f[m - 1]) = Upto(m - 1)
    BY <2>4
  <2>6. {s[j] : j \in 1..m} = {s[j] : j \in 1..(m - 1)} \union {s[m]}
    <3>1. 1..m = 1..(m - 1) \union {m}
      BY <2>2, <2>3
    <3> QED BY <3>1
  <2>7. Upto(m) = Upto(m - 1) \union (IF s[m].event = event THEN {s[m]} ELSE {})
    BY <2>6
  <2>8. s[m] \in L
    BY <1>1, <2>4
  <2>9. f[m] \in Seq(L) /\ ToSet(f[m]) = Upto(m)
    <3> HIDE DEF Bad, Upto
    <3>1. CASE s[m].event = event
      <4>1. f[m] = Append(f[m - 1], s[m])
        BY <1>2, <2>4, <3>1
      <4>2. f[m] \in Seq(L) /\ ToSet(f[m]) = ToSet(f[m - 1]) \union {s[m]}
        BY <4>1, <2>5, <2>8, AppendFacts
      <4> QED BY <3>1, <4>2, <2>5, <2>7
    <3>2. CASE s[m].event # event
      BY <1>2, <2>4, <2>5, <2>7, <3>2
    <3> QED BY <3>1, <3>2
  <2> QED BY <2>1, <2>9
<1>4. N \in 0..N /\ N \notin Bad
  <2>1. N \in 0..N
    BY <1>1
  <2> HIDE DEF Bad
  <2> QED BY <2>1, <1>3
<1>5. f[N] \in Seq(L) /\ ToSet(f[N]) = Upto(N)
  BY <1>4
<1>6. {s[j] : j \in 1..N} = ToSet(s)
  BY LenProperties DEF ToSet
<1> QED BY <1>2, <1>5, <1>6

LEMMA SelectAllButFirst ==
  ASSUME NEW L, NEW s \in Seq(L), s # <<>>, NEW event, s[1].event # event,
         \A i \in 2..Len(s) : s[i].event = event
  PROVE  /\ Len(Select(s, event)) = Len(s) - 1
         /\ DOMAIN Select(s, event) = 1..(Len(s) - 1)
         /\ \A i \in 1..(Len(s) - 1) : Select(s, event)[i] = s[i + 1]
<1> DEFINE N == Len(s)
<1> DEFINE Good(n, t) ==
      t \in Seq(L) /\ Len(t) = n - 1 /\ \A i \in 1..(n - 1) : t[i] = s[i + 1]
<1>1. N \in Nat \ {0} /\ \A n \in 1..N : s[n] \in L
  BY LenProperties, EmptySeq
<1>2. PICK f : /\ Select(s, event) = f[N]
               /\ f[0] = <<>>
               /\ \A n \in 1..N :
                    f[n] = IF s[n].event = event THEN Append(f[n - 1], s[n]) ELSE f[n - 1]
  BY SelectRecursion
<1> DEFINE Bad == {n \in 1..N : ~Good(n, f[n])}
<1>3. ASSUME Bad # {} PROVE FALSE
  <2>1. PICK m \in Bad : \A n \in Bad : m <= n
    <3>1. Bad \in SUBSET Nat
      BY <1>1
    <3> HIDE DEF Bad
    <3> QED BY <1>3, <3>1, SmallestMember
  <2>2. m \in 1..N /\ m \in Nat \ {0}
    BY <1>1
  <2>3. CASE m = 1
    <3>1. f[1] = <<>>
      <4>1. 1 \in 1..N /\ 1 - 1 = 0
        BY <1>1
      <4> QED BY <1>2, <4>1
    <3>2. <<>> \in Seq(L) /\ Len(<<>>) = 0
      BY EmptySeq
    <3>3. Good(1, f[1])
      BY <3>1, <3>2
    <3> QED BY <2>1, <2>3, <3>3
  <2>4. CASE m # 1
    <3>1. m - 1 \in 1..N /\ m \in 2..N /\ m - 1 \notin Bad
      <4>1. m - 1 \in 1..N /\ m \in 2..N /\ m - 1 \in Nat /\ ~(m <= m - 1)
        BY <1>1, <2>2, <2>4
      <4> HIDE DEF Bad
      <4> QED BY <2>1, <4>1
    <3>2. Good(m - 1, f[m - 1])
      BY <3>1
    <3>3. f[m] = Append(f[m - 1], s[m]) /\ s[m] \in L
      BY <1>1, <1>2, <2>2, <3>1
    <3>4. /\ f[m] \in Seq(L) /\ Len(f[m]) = Len(f[m - 1]) + 1
          /\ \A i \in 1..Len(f[m - 1]) : f[m][i] = f[m - 1][i]
          /\ f[m][Len(f[m - 1]) + 1] = s[m]
      <4>1. f[m - 1] \in Seq(L)
        BY <3>2
      <4> HIDE DEF Bad, Good
      <4> QED BY <3>3, <4>1, AppendFacts
    <3>5. Len(f[m - 1]) = m - 2 /\ Len(f[m - 1]) + 1 = m - 1
      BY <2>2, <3>2
    <3>6. f[m][m - 1] = s[m - 1 + 1]
      <4>1. m - 1 + 1 = m
        BY <2>2
      <4> QED BY <3>4, <3>5, <4>1
    <3>7. \A i \in 1..(m - 2) : f[m][i] = s[i + 1]
      <4>1. \A i \in 1..(m - 2) : f[m - 1][i] = s[i + 1]
        BY <2>2, <3>2
      <4> QED BY <3>4, <3>5, <4>1
    <3>8. \A i \in 1..(m - 1) : i \in 1..(m - 2) \/ i = m - 1
      BY <2>2
    <3>9. Good(m, f[m])
      BY <3>4, <3>5, <3>6, <3>7, <3>8
    <3> QED BY <2>1, <3>9
  <2> QED BY <2>3, <2>4
<1>4. N \in 1..N /\ N \notin Bad
  BY <1>1, <1>3
<1>5. Good(N, f[N])
  BY <1>4
<1> QED BY <1>2, <1>5, LenProperties

(* The lines that count: all but a malformed last one.                     *)
Sound(lines) ==
  IF lines # <<>> /\ lines[Len(lines)] = Garbage THEN Len(lines) - 1 ELSE Len(lines)

JournalOf(L) == [lines : Seq(L), ended : BOOLEAN]

LEMMA EntriesFacts ==
  ASSUME NEW L, NEW j \in JournalOf(L)
  PROVE  /\ Entries(j) \in Seq(L) /\ Len(Entries(j)) = Sound(j.lines)
         /\ \A i \in 1..Sound(j.lines) : Entries(j)[i] = j.lines[i]
         /\ Sound(j.lines) \in Nat /\ Len(j.lines) \in Nat
         /\ Sound(j.lines) = Len(j.lines)
              \/ (Sound(j.lines) = Len(j.lines) - 1 /\ j.lines[Len(j.lines)] = Garbage)
<1>1. j.lines \in Seq(L)
  BY DEF JournalOf
<1>2. CASE j.lines # <<>> /\ j.lines[Len(j.lines)] = Garbage
  <2>1. Last(j.lines) = Garbage
    BY <1>1, <1>2, FrontFacts
  <2>2. Entries(j) = Front(j.lines) /\ Sound(j.lines) = Len(j.lines) - 1
    BY <1>2, <2>1 DEF Entries, Sound
  <2>3. Len(j.lines) - 1 \in Nat
    BY <1>1, <1>2, FrontFacts
  <2> QED BY <1>1, <1>2, <2>2, <2>3, FrontFacts
<1>3. CASE ~(j.lines # <<>> /\ j.lines[Len(j.lines)] = Garbage)
  <2>1. ~(j.lines # <<>> /\ Last(j.lines) = Garbage)
    BY <1>1, <1>3, FrontFacts
  <2>2. Entries(j) = j.lines /\ Sound(j.lines) = Len(j.lines)
    BY <1>3, <2>1 DEF Entries, Sound
  <2> QED BY <1>1, <2>2, LenProperties
<1> QED BY <1>2, <1>3

LEMMA ReadableIs ==
  ASSUME NEW L, NEW j \in JournalOf(L)
  PROVE  Readable(j) <=>
           /\ Sound(j.lines) >= 1 /\ j.lines[1].event = "Header"
           /\ \A i \in 1..Sound(j.lines) : j.lines[i] # Garbage
<1> DEFINE E == Entries(j)
<1> DEFINE n == Sound(j.lines)
<1>1. /\ E \in Seq(L) /\ Len(E) = n /\ n \in Nat
      /\ \A i \in 1..n : E[i] = j.lines[i]
  BY EntriesFacts
<1>2. E # <<>> <=> n >= 1
  <2> HIDE DEF E, n
  <2>1. E = <<>> <=> n = 0
    BY <1>1, EmptySeq
  <2> QED BY <1>1, <2>1
<1>3. E # <<>> => Head(E) = j.lines[1]
  <2> SUFFICES ASSUME E # <<>> PROVE Head(E) = j.lines[1]
    OBVIOUS
  <2>1. 1 \in 1..n
    BY <1>1, <1>2
  <2>2. Head(E) = E[1]
    BY <1>1, HeadTailProperties
  <2> QED BY <1>1, <2>1, <2>2
<1>4. (\A i \in 1..Len(E) : E[i] # Garbage) <=> \A i \in 1..n : j.lines[i] # Garbage
  <2> HIDE DEF E, n
  <2> QED BY <1>1
<1>5. Readable(j) <=> /\ \A i \in 1..Len(E) : E[i] # Garbage
                      /\ E # <<>> /\ Head(E).event = "Header"
  BY DEF Readable
<1> HIDE DEF E, n
<1>6. Readable(j) <=> /\ \A i \in 1..n : j.lines[i] # Garbage
                      /\ n >= 1 /\ j.lines[1].event = "Header"
  BY <1>2, <1>3, <1>4, <1>5
<1> QED BY <1>6 DEF n

LEMMA EntriesOfMembers ==
  ASSUME NEW L, NEW j \in JournalOf(L), j # NoFile, NEW event
  PROVE  \A e : e \in ToSet(EntriesOf(j, event)) <=>
           Readable(j) /\ e.event = event /\ \E i \in 1..Sound(j.lines) : e = j.lines[i]
<1>1. Readable(j) => j.lines # <<>>
  <2> SUFFICES ASSUME Readable(j), j.lines = <<>> PROVE FALSE
    OBVIOUS
  <2>1. Sound(j.lines) >= 1
    BY ReadableIs
  <2>2. Sound(j.lines) = Len(<<>>)
    BY DEF Sound
  <2>3. Sound(j.lines) = 0
    BY <2>2, EmptySeq
  <2> QED BY <2>1, <2>3
<1>2. NoJournal(j) <=> j.lines = <<>>
  BY DEF NoJournal
<1>3. CASE ~Readable(j)
  <2>1. EntriesOf(j, event) = <<>>
    BY <1>3 DEF EntriesOf
  <2>2. ToSet(<<>>) = {}
    BY EmptySeq DEF ToSet
  <2> QED BY <1>3, <2>1, <2>2
<1>4. CASE Readable(j)
  <2>1. EntriesOf(j, event) = Select(Entries(j), event)
    BY <1>1, <1>2, <1>4 DEF EntriesOf
  <2>2. ToSet(EntriesOf(j, event)) = {e \in ToSet(Entries(j)) : e.event = event}
    BY <2>1, EntriesFacts, SelectMembers
  <2>3. \A e : e \in ToSet(Entries(j)) <=> \E i \in 1..Sound(j.lines) : e = j.lines[i]
    <3>1. DOMAIN Entries(j) = 1..Sound(j.lines)
      BY EntriesFacts, LenProperties
    <3> QED BY <3>1, EntriesFacts DEF ToSet
  <2> QED BY <1>4, <2>2, <2>3
<1> QED BY <1>3, <1>4

(* A line added: behind the others, or in the place of a last one that was *)
(* cut off.                                                                *)
Added(s, ended, e, t) ==
  \E n \in Nat : /\ n <= Len(s) /\ Len(t) = n + 1
                 /\ IF ended THEN n = Len(s) /\ t[n + 1] = e
                    ELSE t[n + 1] = Garbage /\ (s # <<>> => n = Len(s) - 1)
                 /\ \A i \in 1..n : t[i] = s[i]

LEMMA AddLineFacts ==
  ASSUME NEW L, NEW s \in Seq(L), NEW ended \in BOOLEAN, NEW e \in L, Garbage \in L,
         NEW t, t = AddLine(s, ended, e)
  PROVE  t \in Seq(L) /\ t # <<>> /\ Added(s, ended, e, t)
<1>1. CASE ended
  <2>1. t = Append(s, e)
    BY <1>1 DEF AddLine
  <2>2. t # <<>> /\ Len(s) \in Nat
    BY <2>1, AppendProperties, LenProperties
  <2>3. /\ t \in Seq(L) /\ Len(t) = Len(s) + 1 /\ t[Len(s) + 1] = e
        /\ \A i \in 1..Len(s) : t[i] = s[i]
    BY <2>1, AppendFacts
  <2>4. Len(s) <= Len(s)
    BY <2>2
  <2> QED BY <1>1, <2>2, <2>3, <2>4 DEF Added
<1>2. CASE ~ended
  <2>1. t = Append(Front(s), Garbage)
    BY <1>2 DEF AddLine
  <2>2. /\ Front(s) \in Seq(L) /\ Len(Front(s)) \in Nat /\ Len(Front(s)) <= Len(s)
        /\ s # <<>> => Len(Front(s)) = Len(s) - 1
        /\ \A i \in 1..Len(Front(s)) : Front(s)[i] = s[i]
    <3>1. CASE s # <<>>
      <4>1. /\ Front(s) \in Seq(L) /\ Len(Front(s)) = Len(s) - 1 /\ Len(s) \in Nat \ {0}
            /\ \A i \in 1..(Len(s) - 1) : Front(s)[i] = s[i]
        BY <3>1, FrontFacts
      <4> QED BY <4>1
    <3>2. CASE s = <<>>
      <4>1. Len(s) = 0
        BY <3>2, EmptySeq
      <4>2. /\ SubSeq(s, 1, 0 - 1) \in Seq(L)
            /\ Len(SubSeq(s, 1, 0 - 1)) = (IF 1 <= 0 - 1 THEN 0 - 1 - 1 + 1 ELSE 0)
        <5>1. 1 \in Int /\ 0 - 1 \in Int /\ \A i \in 1..(0 - 1) : s[i] \in L
          OBVIOUS
        <5> QED BY <5>1, SubSeqProperties
      <4>3. Front(s) \in Seq(L) /\ Len(Front(s)) = 0
        BY <4>1, <4>2 DEF Front
      <4> QED BY <3>2, <4>1, <4>3
    <3> QED BY <3>1, <3>2
  <2>3. /\ Append(Front(s), Garbage) \in Seq(L) /\ Append(Front(s), Garbage) # <<>>
        /\ Len(Append(Front(s), Garbage)) = Len(Front(s)) + 1
        /\ \A i \in 1..Len(Front(s)) : Append(Front(s), Garbage)[i] = Front(s)[i]
        /\ Append(Front(s), Garbage)[Len(Front(s)) + 1] = Garbage
    BY <2>2, AppendFacts, AppendProperties
  <2> QED BY <1>2, <2>1, <2>2, <2>3 DEF Added
<1> QED BY <1>1, <1>2

-----------------------------------------------------------------------------
(* The download.  What an append adds to the verified chunks is at most    *)
(* what it writes; what it loses is a line that had been cut off.          *)
LEMMA JournalTypes ==
  /\ Journals = JournalOf(Lines) /\ NoFile \notin Journals
  /\ {Header, Finalized, Garbage} \subseteq Lines
  /\ \A c \in Chunks, x \in {"good", "bad"} : ChunkVerified(c, x) \in Lines
BY NoFileAssumption DEF Journals, JournalOf, Lines

LEMMA VerifiedAppend ==
  ASSUME NEW j \in Journals, NEW k \in Journals, NEW x \in Lines,
         k.lines = AddLine(j.lines, j.ended, x)
  PROVE  Verified(k) \subseteq Verified(j) \union {y \in {x} : y.event = "ChunkVerified"}
<1> SUFFICES ASSUME NEW e \in Verified(k), e # x PROVE e \in Verified(j)
  <2>1. Verified(k) \subseteq {y : y \in Verified(k)}
    OBVIOUS
  <2>2. \A e \in Verified(k) : e.event = "ChunkVerified"
    BY JournalTypes, EntriesOfMembers DEF Verified
  <2> QED BY <2>2
<1> DEFINE s == j.lines
<1> DEFINE t == k.lines
<1>1. j \in JournalOf(Lines) /\ k \in JournalOf(Lines) /\ j # NoFile /\ k # NoFile
  BY JournalTypes
<1>2. s \in Seq(Lines) /\ j.ended \in BOOLEAN /\ Garbage \in Lines /\ t = AddLine(s, j.ended, x)
  BY <1>1, JournalTypes DEF JournalOf
<1>3. /\ Readable(k) /\ e.event = "ChunkVerified" /\ \E i \in 1..Sound(t) : e = t[i]
  BY <1>1, EntriesOfMembers DEF Verified
<1>4. /\ Sound(t) >= 1 /\ t[1].event = "Header" /\ \A i \in 1..Sound(t) : t[i] # Garbage
  BY <1>1, <1>3, ReadableIs
<1>5. /\ Sound(s) \in Nat /\ Len(s) \in Nat /\ Sound(t) \in Nat /\ Len(t) \in Nat
      /\ Sound(s) = Len(s) \/ (Sound(s) = Len(s) - 1 /\ s[Len(s)] = Garbage)
      /\ Sound(t) = Len(t) \/ (Sound(t) = Len(t) - 1 /\ t[Len(t)] = Garbage)
  BY <1>1, EntriesFacts
<1>6. PICK n \in Nat : /\ n <= Len(s) /\ Len(t) = n + 1 /\ (s # <<>> /\ ~j.ended => n = Len(s) - 1)
                       /\ j.ended => n = Len(s) /\ t[n + 1] = x
                       /\ ~j.ended => t[n + 1] = Garbage
                       /\ \A i \in 1..n : t[i] = s[i]
  <2> HIDE DEF s, t
  <2>1. PICK n \in Nat : /\ n <= Len(s) /\ Len(t) = n + 1
                         /\ IF j.ended THEN n = Len(s) /\ t[n + 1] = x
                            ELSE t[n + 1] = Garbage /\ (s # <<>> => n = Len(s) - 1)
                         /\ \A i \in 1..n : t[i] = s[i]
    <3>1. Added(s, j.ended, x, t)
      BY <1>2, AddLineFacts
    <3> QED BY <3>1 DEF Added
  <2> QED BY <2>1
<1> HIDE DEF s, t
<1>7. PICK i \in 1..n : e = s[i]
  <2>1. PICK i \in 1..Sound(t) : e = t[i]
    BY <1>3
  <2>2. i # n + 1
    <3> SUFFICES ASSUME i = n + 1 PROVE FALSE
      OBVIOUS
    <3>1. t[i] # Garbage
      BY <1>4
    <3> QED BY <1>6, <2>1, <3>1
  <2>3. i \in 1..n
    BY <1>5, <1>6, <2>1, <2>2
  <2> QED BY <1>6, <2>1, <2>3
<1>8. \A m \in 1..n : s[m] # Garbage
  <2>1. n <= Sound(t)
    BY <1>5, <1>6
  <2> QED BY <1>4, <1>5, <1>6, <2>1
<1>9. n <= Sound(s)
  <2>1. CASE j.ended
    <3>1. n = Len(s)
      BY <1>6, <2>1
    <3>2. n >= 1
      BY <1>7
    <3>3. s[Len(s)] # Garbage
      BY <3>1, <3>2, <1>5, <1>8
    <3> QED BY <1>5, <3>1, <3>3
  <2>2. CASE ~j.ended
    <3>1. s # <<>>
      <4>1. Len(s) >= 1
        BY <1>5, <1>6, <1>7
      <4> QED BY <4>1, <1>5, <1>2, EmptySeq
    <3> QED BY <1>5, <1>6, <2>2, <3>1
  <2> QED BY <2>1, <2>2
<1>10. \A m \in 1..Sound(s) : s[m] # Garbage
  <2> SUFFICES ASSUME NEW m \in 1..Sound(s) PROVE s[m] # Garbage
    OBVIOUS
  <2>1. CASE m <= n
    BY <2>1, <1>8, <1>5
  <2>2. CASE m > n
    <3>1. m = Len(s) /\ Sound(s) = Len(s) /\ n = Len(s) - 1
      <4>1. ~j.ended
        BY <2>2, <1>5, <1>6
      <4>2. Len(s) >= 1
        BY <1>5, <2>2
      <4>3. s # <<>>
        BY <1>2, <4>2, EmptySeq
      <4>4. n = Len(s) - 1
        BY <1>6, <4>1, <4>3
      <4> QED BY <4>4, <1>5, <2>2
    <3>2. s[Len(s)] = Garbage => Sound(s) = Len(s) - 1
      <4>1. s # <<>>
        BY <1>2, <1>5, <3>1, EmptySeq
      <4> QED BY <4>1 DEF Sound
    <3> QED BY <1>5, <3>1, <3>2
  <2> QED BY <1>5, <2>1, <2>2
<1>11. Readable(j)
  <2>1. Sound(s) >= 1 /\ 1 \in 1..n
    BY <1>5, <1>7, <1>9
  <2>2. s[1].event = "Header"
    BY <1>4, <1>6, <2>1
  <2> QED BY <1>1, <1>10, <2>1, <2>2, ReadableIs DEF s
<1>12. i \in 1..Sound(s)
  BY <1>5, <1>7, <1>9
<1> QED BY <1>1, <1>3, <1>7, <1>11, <1>12, EntriesOfMembers DEF Verified, s

LEMMA EmptyJournals ==
  /\ EmptyJournal \in Journals /\ Verified(EmptyJournal) = {}
  /\ \A j : NoJournal(j) => Verified(j) = {}
<1>1. <<>> \in Seq(Lines) /\ ToSet(<<>>) = {}
  BY EmptySeq DEF ToSet
<1>2. \A j : NoJournal(j) => Verified(j) = {}
  BY <1>1 DEF Verified, EntriesOf
<1>3. EmptyJournal \in Journals /\ NoJournal(EmptyJournal)
  BY <1>1 DEF EmptyJournal, Journals, NoJournal
<1> QED BY <1>2, <1>3

LEMMA AppendedJournal ==
  ASSUME NEW j \in Journals, NEW x \in Lines,
         NEW k, k = Appended(j, x) \/ k \in CutOff(j, x)
  PROVE  k \in Journals /\ Verified(k) \subseteq Verified(j) \union {y \in {x} : y.event = "ChunkVerified"}
<1>1. PICK y \in {x, Garbage} : k.lines = AddLine(j.lines, j.ended, y) /\ k.ended \in BOOLEAN
                                /\ k = [lines |-> k.lines, ended |-> k.ended]
  <2>1. CASE k = Appended(j, x)
    <3>1. k = [lines |-> AddLine(j.lines, j.ended, x), ended |-> TRUE]
      BY <2>1 DEF Appended
    <3>2. k.lines = AddLine(j.lines, j.ended, x) /\ k.ended = TRUE
      BY <3>1
    <3> QED BY <3>1, <3>2
  <2>2. CASE k \in CutOff(j, x)
    <3>1. PICK y \in {x, Garbage} : k = [lines |-> AddLine(j.lines, j.ended, y), ended |-> FALSE]
      BY <2>2 DEF CutOff
    <3>2. k.lines = AddLine(j.lines, j.ended, y) /\ k.ended = FALSE
      BY <3>1
    <3> QED BY <3>1, <3>2
  <2> QED BY <2>1, <2>2
<1>2. y \in Lines /\ Garbage \in Lines /\ j.lines \in Seq(Lines) /\ j.ended \in BOOLEAN
  BY JournalTypes DEF Journals
<1>3. k.lines \in Seq(Lines)
  BY <1>1, <1>2, AddLineFacts
<1>4. k \in Journals
  BY <1>1, <1>3 DEF Journals
<1>5. Garbage.event # "ChunkVerified"
  BY DEF Garbage
<1>6. Verified(k) \subseteq Verified(j) \union {z \in {y} : z.event = "ChunkVerified"}
  BY <1>1, <1>2, <1>4, VerifiedAppend
<1> QED BY <1>1, <1>4, <1>5, <1>6

(* Chunks that are verified exist.                                         *)
LEMMA VerifiedChunks ==
  ASSUME NEW j \in Journals \union {NoFile}
  PROVE  \A e \in Verified(j) : e.chunk \in Chunks /\ e.content \in {"good", "bad"}
<1>1. CASE j = NoFile
  BY <1>1, EmptyJournals DEF NoJournal
<1>2. CASE j # NoFile
  <2>1. j \in JournalOf(Lines) /\ j.lines \in Seq(Lines)
    BY <1>2, JournalTypes DEF JournalOf
  <2>2. SUFFICES ASSUME NEW e \in Verified(j) PROVE e.chunk \in Chunks /\ e.content \in {"good", "bad"}
    OBVIOUS
  <2>3. e.event = "ChunkVerified" /\ \E i \in 1..Sound(j.lines) : e = j.lines[i]
    BY <1>2, <2>1, EntriesOfMembers DEF Verified
  <2>4. e \in Lines
    <3>1. Sound(j.lines) \in Nat /\ Len(j.lines) \in Nat /\ Sound(j.lines) <= Len(j.lines)
      BY <2>1, EntriesFacts
    <3>2. \A i \in 1..Sound(j.lines) : i \in 1..Len(j.lines)
      BY <3>1
    <3> QED BY <2>1, <2>3, <3>2, LenProperties
  <2> QED BY <2>3, <2>4 DEF Lines, Header, Finalized, Garbage, ChunkVerified
<1> QED BY <1>1, <1>2

LEMMA FetchInit == Init => FetchIInv
<1> SUFFICES ASSUME Init PROVE FetchIInv
  OBVIOUS
<1>1. TypeOK
  <2>1. 1 \in 1..(NumChunks + 1) /\ 0 \in 0..(MaxAttempts - 1) /\ 0 \in 0..MaxFaults
    BY SourceFetchAssumption
  <2> QED BY <2>1 DEF Init, TypeOK, Files, Contents
<1>2. PublishedIsVerified /\ JournalledIsOnDisk
  BY DEF Init, PublishedIsVerified, JournalledIsOnDisk
<1> QED BY <1>1, <1>2 DEF Init, FetchIInv

(* A call that is over leaves only what is on disk.                        *)
LEMMA FetchLeaves ==
  ASSUME FetchIInv, Leave, faults' \in 0..MaxFaults,
         part' \in Files, final' \in Files, journal' \in Journals \union {NoFile},
         manifest' \in BOOLEAN, PublishedIsVerified', JournalledIsOnDisk'
  PROVE  FetchIInv'
<1>1. 1 \in 1..(NumChunks + 1) /\ 0 \in 0..(MaxAttempts - 1)
  BY SourceFetchAssumption
<1>2. TypeOK'
  BY <1>1 DEF Leave, TypeOK, Contents
<1> QED BY <1>2 DEF Leave, FetchIInv

LEMMA FetchLeavesDisk ==
  ASSUME FetchIInv, Leave, UNCHANGED disk, faults' \in 0..MaxFaults
  PROVE  FetchIInv'
<1>1. UNCHANGED <<part, final, journal, manifest>>
  BY DEF disk
<1> QED BY <1>1, FetchLeaves
        DEF FetchIInv, TypeOK, PublishedIsVerified, JournalledIsOnDisk

(* A step that leaves the disk, and a chunk's place, alone.                *)
LEMMA FetchStays ==
  ASSUME FetchIInv, UNCHANGED <<disk, pc, locals>>, faults' \in 0..MaxFaults
  PROVE  FetchIInv'
<1>1. UNCHANGED <<part, final, journal, manifest, pc, offset, skip, attempt, bytes>>
  BY DEF disk, locals
<1>2. TypeOK'
  BY <1>1 DEF FetchIInv, TypeOK
<1>3. Journalled' = Journalled
  BY <1>1 DEF Journalled
<1> QED BY <1>1, <1>2, <1>3
        DEF FetchIInv, PublishedIsVerified, JournalledIsOnDisk

LEMMA FetchFault ==
  ASSUME TypeOK, Fault
  PROVE  Leave /\ faults' \in 0..MaxFaults
<1>1. faults \in 0..MaxFaults
  BY DEF TypeOK
<1>2. faults < MaxFaults /\ faults' = faults + 1 /\ Leave
  BY DEF Fault
<1>3. faults' \in 0..MaxFaults
  BY <1>1, <1>2, SourceFetchAssumption
<1> QED BY <1>2, <1>3

LEMMA FetchNext == FetchIInv /\ [Next]_vars => FetchIInv'
<1> SUFFICES ASSUME FetchIInv, [Next]_vars PROVE FetchIInv'
  OBVIOUS
<1> DEFINE Types == TypeOK /\ PublishedIsVerified /\ JournalledIsOnDisk
<1>0. Types
  BY DEF FetchIInv
<1>1. CASE Begin
  <2>1. pc' = "manifest?" /\ UNCHANGED <<part, final, journal, manifest, offset, skip, attempt, bytes, faults>>
    BY <1>1 DEF Begin, Goto, disk, locals
  <2>2. Types'
    BY <1>0, <2>1 DEF TypeOK, PublishedIsVerified, JournalledIsOnDisk
  <2> QED BY <2>1, <2>2 DEF FetchIInv
<1>2. CASE CheckManifest
  <2>1. CASE Published
    BY <1>2, <2>1, FetchLeavesDisk DEF CheckManifest, FetchIInv, TypeOK
  <2>2. CASE ~Published
    <3>1. pc' = "read journal" /\ UNCHANGED <<part, final, journal, manifest, offset, skip, attempt, bytes, faults>>
      BY <1>2, <2>2 DEF CheckManifest, Goto, disk, locals
    <3>2. Types'
      BY <1>0, <3>1 DEF TypeOK, PublishedIsVerified, JournalledIsOnDisk
    <3> QED BY <3>1, <3>2 DEF FetchIInv
  <2> QED BY <2>1, <2>2
<1>3. CASE ReadJournal
  <2>1. UNCHANGED <<part, final, journal, manifest, faults>>
    BY <1>3 DEF ReadJournal, disk
  <2>2. CASE NoJournal(journal) /\ pc' = "preallocate" /\ UNCHANGED locals
    <3>1. Types'
      BY <1>0, <2>1, <2>2 DEF TypeOK, PublishedIsVerified, JournalledIsOnDisk, locals
    <3> QED BY <2>1, <2>2, <3>1 DEF FetchIInv
  <2>3. CASE /\ ~NoJournal(journal) /\ pc' = "loop" /\ skip' = Journalled
             /\ UNCHANGED <<offset, attempt, bytes>>
    <3>1. Journalled' = Journalled
      BY <2>1 DEF Journalled
    <3>2. journal \in Journals
      BY <2>3, <1>0 DEF TypeOK, NoJournal
    <3>3. Journalled \subseteq Chunks
      BY <3>2, VerifiedChunks DEF Journalled
    <3>4. Types'
      BY <1>0, <2>1, <2>3, <3>3 DEF TypeOK, PublishedIsVerified, JournalledIsOnDisk
    <3> QED BY <2>1, <2>3, <3>1, <3>2, <3>4 DEF FetchIInv
  <2>4. CASE Leave
    BY <2>1, <2>4, FetchLeavesDisk DEF disk, FetchIInv, TypeOK
  <2> QED BY <1>3, <2>2, <2>3, <2>4 DEF ReadJournal
<1>4. CASE Preallocate
  <2>1. /\ pc = "preallocate" /\ pc' = "create journal" /\ part' = [c \in Chunks |-> "hole"]
        /\ UNCHANGED <<final, journal, manifest, offset, skip, attempt, bytes, faults>>
    BY <1>4 DEF Preallocate, Goto, locals
  <2>2. NoJournal(journal) /\ Verified(journal) = {}
    BY <2>1, EmptyJournals DEF FetchIInv
  <2>3. part' \in Files
    BY <2>1 DEF Files, Contents
  <2>4. Types'
    BY <1>0, <2>1, <2>2, <2>3 DEF TypeOK, PublishedIsVerified, JournalledIsOnDisk
  <2> QED BY <2>1, <2>2, <2>4 DEF FetchIInv
<1>5. CASE CreateJournal
  <2>1. /\ pc' = "header" /\ journal' = EmptyJournal
        /\ UNCHANGED <<part, final, manifest, offset, skip, attempt, bytes, faults>>
    BY <1>5 DEF CreateJournal, Goto, locals
  <2>2. Types'
    BY <1>0, <2>1, EmptyJournals DEF TypeOK, PublishedIsVerified, JournalledIsOnDisk
  <2> QED BY <2>1, <2>2 DEF FetchIInv
<1>6. CASE AppendHeader
  <2>1. /\ pc = "header" /\ pc' = "loop" /\ journal' = Appended(journal, Header)
        /\ UNCHANGED <<part, final, manifest, offset, skip, attempt, bytes, faults>>
    BY <1>6 DEF AppendHeader, Goto, locals
  <2>2. journal = EmptyJournal /\ Header \in Lines /\ Header.event # "ChunkVerified"
    BY <2>1, JournalTypes DEF FetchIInv, Header
  <2>3. journal' \in Journals /\ Verified(journal') = {}
    BY <2>1, <2>2, EmptyJournals, AppendedJournal
  <2>4. Types'
    BY <1>0, <2>1, <2>3 DEF TypeOK, PublishedIsVerified, JournalledIsOnDisk
  <2>5. Journalled' = {}
    BY <2>3 DEF Journalled
  <2> QED BY <2>1, <2>3, <2>4, <2>5 DEF FetchIInv
<1>7. CASE NextChunk
  <2>1. pc = "loop" /\ UNCHANGED <<part, final, journal, manifest, faults>>
    BY <1>7 DEF NextChunk, disk
  <2>2. Journalled' = Journalled
    BY <2>1 DEF Journalled
  <2>3. CASE Leave
    BY <2>1, <2>3, FetchLeavesDisk DEF disk, FetchIInv, TypeOK
  <2>4. CASE pc' \in {"hash", "fetch"} /\ UNCHANGED locals /\ (pc' = "fetch" => offset \in Chunks \ skip)
    <3>1. Types'
      BY <1>0, <2>1, <2>4 DEF TypeOK, PublishedIsVerified, JournalledIsOnDisk, locals
    <3> QED BY <2>1, <2>2, <2>4, <3>1 DEF FetchIInv, locals
  <2>5. CASE offset \in skip /\ offset' = offset + 1 /\ UNCHANGED <<pc, skip, attempt, bytes>>
    <3>1. offset \in Chunks /\ skip \subseteq Chunks
      BY <1>0, <2>5 DEF TypeOK
    <3>2. offset + 1 \in 1..(NumChunks + 1)
      BY <3>1, SourceFetchAssumption DEF Chunks
    <3>3. Types'
      BY <1>0, <2>1, <2>5, <3>2 DEF TypeOK, PublishedIsVerified, JournalledIsOnDisk
    <3>4. Journalled \subseteq skip \union {c \in Chunks : c < offset}
      BY <2>1 DEF FetchIInv
    <3>5. {c \in Chunks : c < offset} \subseteq {c \in Chunks : c < offset + 1}
      BY <3>1 DEF Chunks
    <3> QED BY <2>1, <2>2, <2>5, <3>3, <3>4, <3>5 DEF FetchIInv
  <2> QED BY <1>7, <2>3, <2>4, <2>5 DEF NextChunk
<1>8. CASE ReadRange
  <2>1. pc = "fetch" /\ UNCHANGED <<part, final, journal, manifest, faults>>
    BY <1>8 DEF ReadRange, disk
  <2>2. Journalled' = Journalled
    BY <2>1 DEF Journalled
  <2>3. CASE Leave
    BY <2>1, <2>3, FetchLeavesDisk DEF disk, FetchIInv, TypeOK
  <2>4. CASE bytes' \in {"good", "bad"} /\ pc' = "write" /\ attempt' = 0 /\ UNCHANGED <<offset, skip>>
    <3>1. 0 \in 0..(MaxAttempts - 1)
      BY SourceFetchAssumption
    <3>2. Types'
      BY <1>0, <2>1, <2>4, <3>1 DEF TypeOK, PublishedIsVerified, JournalledIsOnDisk, Contents
    <3> QED BY <2>1, <2>2, <2>4, <3>2 DEF FetchIInv
  <2>5. CASE attempt + 1 < MaxAttempts /\ attempt' = attempt + 1 /\ UNCHANGED <<pc, offset, skip, bytes>>
    <3>1. attempt' \in 0..(MaxAttempts - 1)
      <4>1. attempt \in 0..(MaxAttempts - 1)
        BY <1>0 DEF TypeOK
      <4> QED BY <2>5, <4>1, SourceFetchAssumption
    <3>2. Types'
      BY <1>0, <2>1, <2>5, <3>1 DEF TypeOK, PublishedIsVerified, JournalledIsOnDisk
    <3> QED BY <2>1, <2>2, <2>5, <3>2 DEF FetchIInv
  <2> QED BY <1>8, <2>3, <2>4, <2>5 DEF ReadRange
<1>9. CASE WriteChunk
  <2>1. pc = "write" /\ UNCHANGED <<final, journal, manifest>>
    BY <1>9 DEF WriteChunk
  <2>2. /\ journal \in Journals /\ offset \in Chunks \ skip /\ bytes # "hole"
        /\ Journalled \subseteq skip \union {c \in Chunks : c < offset}
    BY <2>1 DEF FetchIInv
  <2>3. CASE part = NoFile
    BY <1>9, <2>1, <2>3, FetchLeavesDisk DEF WriteChunk, disk, FetchIInv, TypeOK
  <2>4. CASE part # NoFile
    <3>1. /\ part' = [part EXCEPT ![offset] = bytes] /\ pc' = "append"
          /\ UNCHANGED <<offset, skip, attempt, bytes, faults>>
      BY <1>9, <2>4 DEF WriteChunk, Goto, locals
    <3>2. part \in [Chunks -> Contents] /\ bytes \in Contents
      BY <1>0, <2>4 DEF TypeOK, Files
    <3>3. part' \in [Chunks -> Contents] /\ part'[offset] = bytes
      BY <2>2, <3>1, <3>2
    <3>4. offset \notin Journalled
      BY <2>2 DEF Chunks
    <3>5. ASSUME NEW e \in Verified(journal) PROVE part'[e.chunk] = e.content
      <4>1. e.chunk # offset /\ e.chunk \in Chunks /\ part[e.chunk] = e.content
        BY <1>0, <2>2, <2>4, <3>4, VerifiedChunks DEF Journalled, JournalledIsOnDisk
      <4> QED BY <3>1, <3>2, <4>1
    <3>6. part' # NoFile
      BY <3>3, NoFileAssumption
    <3>7. Types'
      BY <1>0, <2>1, <3>1, <3>3, <3>5 DEF TypeOK, PublishedIsVerified, JournalledIsOnDisk, Files
    <3>8. Journalled' = Journalled
      BY <2>1 DEF Journalled
    <3> QED BY <2>1, <2>2, <3>1, <3>3, <3>6, <3>7, <3>8 DEF FetchIInv
  <2> QED BY <2>3, <2>4
<1>10. CASE AppendChunk
  <2>1. /\ pc = "append" /\ pc' = "loop" /\ offset' = offset + 1 /\ bytes' = "hole"
        /\ journal' = Appended(journal, ChunkVerified(offset, bytes))
        /\ UNCHANGED <<part, final, manifest, skip, attempt, faults>>
    BY <1>10 DEF AppendChunk
  <2>2. /\ journal \in Journals /\ offset \in Chunks \ skip /\ bytes # "hole"
        /\ Journalled \subseteq skip \union {c \in Chunks : c < offset}
        /\ part # NoFile /\ part[offset] = bytes
    BY <2>1 DEF FetchIInv
  <2>3. ChunkVerified(offset, bytes) \in Lines
    BY <1>0, <2>2, JournalTypes DEF TypeOK, Contents
  <2>4. journal' \in Journals /\ Verified(journal') \subseteq Verified(journal) \union {ChunkVerified(offset, bytes)}
    BY <2>1, <2>2, <2>3, AppendedJournal
  <2>5. offset + 1 \in 1..(NumChunks + 1)
    BY <2>2, SourceFetchAssumption DEF Chunks
  <2>6. JournalledIsOnDisk'
    BY <1>0, <2>1, <2>2, <2>4 DEF JournalledIsOnDisk, ChunkVerified
  <2>7. Types'
    BY <1>0, <2>1, <2>4, <2>5, <2>6 DEF TypeOK, PublishedIsVerified, Contents
  <2>8. Journalled' \subseteq Journalled \union {offset}
    BY <2>4 DEF Journalled, ChunkVerified
  <2>9. {c \in Chunks : c < offset} \union {offset} \subseteq {c \in Chunks : c < offset + 1}
    BY <2>2 DEF Chunks
  <2>10. Journalled' \subseteq skip' \union {c \in Chunks : c < offset'}
    BY <2>1, <2>2, <2>8, <2>9
  <2> QED BY <2>1, <2>4, <2>7, <2>10 DEF FetchIInv
<1>11. CASE CheckHash
  <2>1. CASE Matches(part)
    <3>1. /\ pc = "hash" /\ pc' = "finalize"
          /\ UNCHANGED <<part, final, journal, manifest, offset, skip, attempt, bytes, faults>>
      BY <1>11, <2>1 DEF CheckHash, Goto, locals, disk
    <3>2. Types' /\ Journalled' = Journalled /\ Matches(part)'
      BY <1>0, <2>1, <3>1 DEF TypeOK, PublishedIsVerified, JournalledIsOnDisk, Journalled, Matches
    <3> QED BY <3>1, <3>2 DEF FetchIInv
  <2>2. CASE ~Matches(part)
    BY <1>11, <2>2, FetchLeavesDisk DEF CheckHash, FetchIInv, TypeOK
  <2> QED BY <2>1, <2>2
<1>12. CASE AppendFinalized
  <2>1. /\ pc = "finalize" /\ pc' = "rename" /\ journal' = Appended(journal, Finalized)
        /\ UNCHANGED <<part, final, manifest, offset, skip, attempt, bytes, faults>>
    BY <1>12 DEF AppendFinalized, Goto, locals
  <2>2. /\ journal \in Journals /\ Matches(part) /\ Finalized \in Lines
        /\ Finalized.event # "ChunkVerified"
    BY <2>1, JournalTypes DEF FetchIInv, Finalized
  <2>3. journal' \in Journals /\ Verified(journal') \subseteq Verified(journal)
    BY <2>1, <2>2, AppendedJournal
  <2>4. Types' /\ Matches(part)'
    BY <1>0, <2>1, <2>2, <2>3 DEF TypeOK, PublishedIsVerified, JournalledIsOnDisk, Matches
  <2> QED BY <2>1, <2>4 DEF FetchIInv
<1>13. CASE Rename
  <2>1. /\ pc = "rename" /\ pc' = "save manifest" /\ final' = part /\ part' = NoFile
        /\ UNCHANGED <<journal, manifest, offset, skip, attempt, bytes, faults>>
    BY <1>13 DEF Rename, Goto, locals
  <2>2. Matches(part)
    BY <2>1 DEF FetchIInv
  <2>3. final' # NoFile /\ PublishedIsVerified'
    BY <2>1, <2>2 DEF Matches, PublishedIsVerified
  <2>4. Types'
    BY <1>0, <2>1, <2>3 DEF TypeOK, JournalledIsOnDisk, Files
  <2> QED BY <2>1, <2>3, <2>4 DEF FetchIInv
<1>14. CASE SaveManifest
  <2>1. /\ pc = "save manifest" /\ pc' = "remove journal" /\ manifest' = TRUE
        /\ UNCHANGED <<part, final, journal, offset, skip, attempt, bytes, faults>>
    BY <1>14 DEF SaveManifest, Goto, locals
  <2>2. final # NoFile
    BY <2>1 DEF FetchIInv
  <2>3. Types'
    BY <1>0, <2>1, <2>2 DEF TypeOK, PublishedIsVerified, JournalledIsOnDisk
  <2> QED BY <2>1, <2>3 DEF FetchIInv
<1>15. CASE RemoveJournal
  <2>1. /\ Leave /\ journal' \in {NoFile, journal} /\ UNCHANGED <<part, final, manifest, faults>>
    BY <1>15 DEF RemoveJournal
  <2>2. Verified(NoFile) = {}
    BY EmptyJournals DEF NoJournal
  <2>3. JournalledIsOnDisk' /\ PublishedIsVerified'
    BY <1>0, <2>1, <2>2 DEF JournalledIsOnDisk, PublishedIsVerified
  <2> QED BY <1>0, <2>1, <2>3, FetchLeaves DEF TypeOK
<1>16. CASE CutBetweenSteps
  <2>1. Leave /\ UNCHANGED disk /\ faults' \in 0..MaxFaults
    BY <1>0, <1>16, FetchFault DEF CutBetweenSteps
  <2> QED BY <2>1, FetchLeavesDisk
<1>17. CASE CutWrite
  <2>1. /\ Leave /\ pc = "write" /\ part # NoFile /\ part' = [part EXCEPT ![offset] = "bad"]
        /\ UNCHANGED <<final, journal, manifest>> /\ faults' \in 0..MaxFaults
    BY <1>0, <1>17, FetchFault DEF CutWrite
  <2>2. /\ journal \in Journals /\ offset \in Chunks \ skip
        /\ Journalled \subseteq skip \union {c \in Chunks : c < offset}
    BY <2>1 DEF FetchIInv
  <2>3. part \in [Chunks -> Contents] /\ "bad" \in Contents
    BY <1>0, <2>1 DEF TypeOK, Files, Contents
  <2>4. part' \in Files
    BY <2>1, <2>2, <2>3 DEF Files
  <2>5. offset \notin Journalled
    BY <2>2 DEF Chunks
  <2>6. ASSUME NEW e \in Verified(journal) PROVE part'[e.chunk] = e.content
    <3>1. e.chunk # offset /\ e.chunk \in Chunks /\ part[e.chunk] = e.content
      BY <1>0, <2>1, <2>2, <2>5, VerifiedChunks DEF Journalled, JournalledIsOnDisk
    <3> QED BY <2>1, <2>3, <3>1
  <2>7. PublishedIsVerified' /\ JournalledIsOnDisk'
    BY <1>0, <2>1, <2>6 DEF PublishedIsVerified, JournalledIsOnDisk
  <2> QED BY <1>0, <2>1, <2>4, <2>7, FetchLeaves DEF TypeOK
<1>18. CASE CutAppend
  <2>1. PICK x \in Appending : journal' \in CutOff(journal, x)
    BY <1>18 DEF CutAppend
  <2>2. /\ Leave /\ UNCHANGED <<part, final, manifest>> /\ faults' \in 0..MaxFaults
    BY <1>0, <1>18, FetchFault DEF CutAppend
  <2>3. /\ x \in Lines /\ journal \in Journals
        /\ x.event = "ChunkVerified" => part # NoFile /\ part[x.chunk] = x.content
    <3>1. CASE pc = "header"
      BY <3>1, JournalTypes, EmptyJournals DEF Appending, FetchIInv, Header
    <3>2. CASE pc = "append"
      <4>1. x = ChunkVerified(offset, bytes)
        BY <3>2 DEF Appending
      <4>2. offset \in Chunks /\ bytes \in {"good", "bad"} /\ journal \in Journals
            /\ part # NoFile /\ part[offset] = bytes
        BY <1>0, <3>2 DEF FetchIInv, TypeOK, Contents
      <4> QED BY <4>1, <4>2, JournalTypes DEF ChunkVerified
    <3>3. CASE pc = "finalize"
      BY <3>3, JournalTypes DEF Appending, FetchIInv, Finalized
    <3> QED BY <3>1, <3>2, <3>3 DEF Appending
  <2>4. journal' \in Journals /\ Verified(journal') \subseteq Verified(journal) \union {y \in {x} : y.event = "ChunkVerified"}
    BY <2>1, <2>3, AppendedJournal
  <2>5. PublishedIsVerified' /\ JournalledIsOnDisk'
    BY <1>0, <2>2, <2>3, <2>4 DEF PublishedIsVerified, JournalledIsOnDisk
  <2> QED BY <1>0, <2>2, <2>4, <2>5, FetchLeaves DEF TypeOK
<1>19. CASE UNCHANGED vars
  <2>1. UNCHANGED <<disk, pc, locals>> /\ faults' \in 0..MaxFaults
    BY <1>0, <1>19 DEF vars, locals, TypeOK
  <2> QED BY <2>1, FetchStays
<1> QED BY <1>1, <1>2, <1>3, <1>4, <1>5, <1>6, <1>7, <1>8, <1>9, <1>10, <1>11, <1>12, <1>13,
           <1>14, <1>15, <1>16, <1>17, <1>18, <1>19 DEF Next, Step

-----------------------------------------------------------------------------
(* The conversion.  Its journal is one of the same kind.                   *)
ConvLines ==
  {Conv!ItemHeader(s) : s \in Sources} \union {Conv!Verified(rec) : rec \in Conv!Records}
    \union {Conv!ItemsFinalized, Garbage}

LEMMA ConvJournals ==
  /\ Conv!Garbage = Garbage /\ Conv!EmptyJournal = EmptyJournal
  /\ \A j : /\ Conv!Entries(j) = Entries(j)
            /\ Conv!NoJournal(j) <=> NoJournal(j)
            /\ Conv!Readable(j) <=> Readable(j)
  /\ \A j, e : /\ Conv!EntriesOf(j, e) = EntriesOf(j, e)
               /\ Conv!Appended(j, e) = Appended(j, e)
               /\ Conv!CutOff(j, e) = CutOff(j, e)
  /\ \A s : Conv!ToSet(s) = ToSet(s) /\ Conv!Last(s) = Last(s)
  /\ Conv!Journals = JournalOf(ConvLines) /\ NoFile \notin Conv!Journals
<1>1. Conv!Garbage = Garbage /\ Conv!EmptyJournal = EmptyJournal
  BY DEF Conv!Garbage, Garbage, Conv!EmptyJournal, EmptyJournal
<1>2. \A s : Conv!ToSet(s) = ToSet(s) /\ Conv!Last(s) = Last(s) /\ Conv!Front(s) = Front(s)
  BY DEF Conv!ToSet, ToSet, Conv!Last, Last, Conv!Front, Front
<1>3. \A j : Conv!Entries(j) = Entries(j) /\ (Conv!NoJournal(j) <=> NoJournal(j))
  BY <1>1, <1>2 DEF Conv!Entries, Entries, Conv!NoJournal, NoJournal
<1>4. \A j : Conv!Readable(j) <=> Readable(j)
  BY <1>1, <1>3 DEF Conv!Readable, Readable
<1>5. \A s, e : Conv!Select(s, e) = Select(s, e)
  BY DEF Conv!Select, Select
<1>6. \A j, e : Conv!EntriesOf(j, e) = EntriesOf(j, e)
  BY <1>3, <1>4, <1>5 DEF Conv!EntriesOf, EntriesOf
<1>7. \A s, b, e : Conv!AddLine(s, b, e) = AddLine(s, b, e)
  BY <1>1, <1>2 DEF Conv!AddLine, AddLine
<1>8. \A j, e : Conv!Appended(j, e) = Appended(j, e)
  BY <1>7 DEF Conv!Appended, Appended
<1>9. \A j, e : Conv!CutOff(j, e) = CutOff(j, e)
  BY <1>1, <1>7 DEF Conv!CutOff, CutOff
<1>10. Conv!Journals = JournalOf(ConvLines) /\ NoFile \notin Conv!Journals
  BY <1>1, NoFileAssumption DEF Conv!Journals, JournalOf, ConvLines
<1> QED BY <1>1, <1>2, <1>3, <1>4, <1>6, <1>8, <1>9, <1>10

LEMMA JournalAppend ==
  ASSUME NEW L, Garbage \in L, NEW j \in JournalOf(L), NEW e \in L,
         NEW k, k = Appended(j, e) \/ k \in CutOff(j, e)
  PROVE  /\ k \in JournalOf(L) /\ k.lines # <<>>
         /\ Added(j.lines, j.ended, e, k.lines) \/ Added(j.lines, j.ended, Garbage, k.lines)
         /\ k = Appended(j, e) => Added(j.lines, j.ended, e, k.lines)
<1>1. j.lines \in Seq(L) /\ j.ended \in BOOLEAN
  BY DEF JournalOf
<1>2. CASE k = Appended(j, e)
  <2>1. k = [lines |-> AddLine(j.lines, j.ended, e), ended |-> TRUE]
    BY <1>2 DEF Appended
  <2>2. k.lines = AddLine(j.lines, j.ended, e)
    BY <2>1
  <2>3. k.lines \in Seq(L) /\ k.lines # <<>> /\ Added(j.lines, j.ended, e, k.lines)
    BY <1>1, <2>2, AddLineFacts
  <2> QED BY <2>1, <2>2, <2>3 DEF JournalOf
<1>3. CASE k \in CutOff(j, e)
  <2>1. PICK y \in {e, Garbage} : k = [lines |-> AddLine(j.lines, j.ended, y), ended |-> FALSE]
    BY <1>3 DEF CutOff
  <2>2. k.lines = AddLine(j.lines, j.ended, y)
    BY <2>1
  <2>3. k.lines \in Seq(L) /\ k.lines # <<>> /\ Added(j.lines, j.ended, y, k.lines)
    <3>1. y \in L
      OBVIOUS
    <3> QED BY <1>1, <2>2, <3>1, AddLineFacts
  <2>4. k # Appended(j, e)
    BY <2>1 DEF Appended
  <2> QED BY <2>1, <2>2, <2>3, <2>4 DEF JournalOf
<1> QED BY <1>2, <1>3

(* A line belongs behind the lines there, if these are well-formed.        *)
Belongs(e, j, file) ==
  j.ended /\ Conv!Wellformed(j.lines, Len(j.lines)) =>
    \/ j.lines = <<>> /\ \E s : e = Conv!ItemHeader(s)
    \/ /\ j.lines # <<>>
       /\ e = Conv!Verified(Conv!RecordOf(j.lines[1].source, Len(j.lines)))
       /\ file # NoFile => file[Len(j.lines)] = Conv!Digest(j.lines[1].source, Len(j.lines))

(* The new line is malformed, or the last of well-formed ones.             *)
LEMMA AddedLine ==
  ASSUME NEW L, NEW s \in Seq(L), NEW t \in Seq(L), NEW ended \in BOOLEAN, NEW y,
         Added(s, ended, y, t), NEW i \in DOMAIN t, Conv!Wellformed(t, i)
  PROVE  /\ i \in Nat /\ Len(s) \in Nat
         /\ \/ i \in DOMAIN s /\ Conv!Wellformed(s, i) /\ t[i] = s[i] /\ t[1] = s[1]
            \/ /\ ended /\ Conv!Wellformed(s, Len(s)) /\ t[i] = y /\ y # Garbage
               /\ i = Len(s) + 1 /\ (s # <<>> => t[1] = s[1])
<1>1. PICK n \in Nat : /\ n <= Len(s) /\ Len(t) = n + 1
                       /\ IF ended THEN n = Len(s) /\ t[n + 1] = y
                          ELSE t[n + 1] = Garbage /\ (s # <<>> => n = Len(s) - 1)
                       /\ \A m \in 1..n : t[m] = s[m]
  BY DEF Added
<1>2. /\ DOMAIN s = 1..Len(s) /\ DOMAIN t = 1..(n + 1) /\ Len(s) \in Nat
      /\ s # <<>> => Len(s) # 0
  BY <1>1, LenProperties, EmptySeq
<1>3. \A m \in 1..i : t[m] # Garbage
  BY ConvJournals DEF Conv!Wellformed
<1> DEFINE N == Len(s)
<1>4. /\ DOMAIN s = 1..N /\ N \in Nat /\ i \in 1..(n + 1) /\ n <= N
      /\ s # <<>> => N # 0
  BY <1>1, <1>2
<1> HIDE DEF N
<1>5. CASE i # n + 1
  <2>1. i \in 1..N /\ i \in 1..n /\ 1 \in 1..n /\ \A m \in 1..i : m \in 1..n
    BY <1>4, <1>5
  <2>2. \A m \in 1..i : s[m] # Garbage
    BY <1>1, <1>3, <2>1
  <2>3. Conv!Wellformed(s, i)
    BY <2>2, ConvJournals DEF Conv!Wellformed
  <2>4. i \in Nat /\ N \in Nat /\ i \in DOMAIN s
    BY <1>4, <2>1
  <2>5. t[i] = s[i] /\ t[1] = s[1]
    BY <1>1, <2>1
  <2> QED BY <2>3, <2>4, <2>5 DEF N
<1>6. CASE i = n + 1
  <2>1. i \in 1..i
    BY <1>4
  <2>2. t[n + 1] # Garbage
    BY <1>3, <1>6, <2>1
  <2>3. ended /\ n = N /\ t[i] = y /\ y # Garbage
    BY <1>1, <1>6, <2>2 DEF N
  <2>4. \A m \in 1..N : m \in 1..i /\ m \in 1..n
    BY <1>4, <1>6, <2>3
  <2>5. \A m \in 1..N : s[m] # Garbage
    BY <1>1, <1>3, <2>4
  <2>6. Conv!Wellformed(s, N)
    BY <2>5, ConvJournals DEF Conv!Wellformed
  <2>7. s # <<>> => t[1] = s[1]
    <3>1. s # <<>> => 1 \in 1..n
      BY <1>4, <2>3
    <3> QED BY <1>1, <3>1
  <2>8. i \in Nat /\ N \in Nat
    BY <1>4
  <2> QED BY <1>6, <2>3, <2>6, <2>7, <2>8 DEF N
<1> QED BY <1>5, <1>6

LEMMA AppendKeepsOrder ==
  ASSUME NEW j \in Conv!Journals, NEW e \in ConvLines,
         NEW k, k = Appended(j, e) \/ k \in CutOff(j, e),
         NEW file, Conv!InOrder(j.lines, file), Belongs(e, j, file)
  PROVE  k \in Conv!Journals /\ k.lines # <<>> /\ Conv!InOrder(k.lines, file)
<1>1. j \in JournalOf(ConvLines) /\ Garbage \in ConvLines
  BY ConvJournals DEF ConvLines
<1>2. /\ k \in JournalOf(ConvLines) /\ k.lines # <<>>
      /\ Added(j.lines, j.ended, e, k.lines) \/ Added(j.lines, j.ended, Garbage, k.lines)
  BY <1>1, JournalAppend
<1>3. PICK y \in {e, Garbage} : Added(j.lines, j.ended, y, k.lines)
  BY <1>2
<1>4. j.lines \in Seq(ConvLines) /\ k.lines \in Seq(ConvLines) /\ j.ended \in BOOLEAN
  BY <1>1, <1>2 DEF JournalOf
<1>5. ASSUME NEW i \in DOMAIN k.lines, Conv!Wellformed(k.lines, i)
      PROVE  Conv!InPlace(k.lines, file, i)
  <2>1. i \in Nat /\ Len(j.lines) \in Nat
    BY <1>3, <1>4, <1>5, AddedLine
  <2>2. CASE /\ i \in DOMAIN j.lines /\ Conv!Wellformed(j.lines, i)
             /\ k.lines[i] = j.lines[i] /\ k.lines[1] = j.lines[1]
    BY <2>2 DEF Conv!InOrder, Conv!InPlace
  <2>3. CASE /\ j.ended /\ Conv!Wellformed(j.lines, Len(j.lines)) /\ k.lines[i] = y /\ y # Garbage
             /\ i = Len(j.lines) + 1 /\ (j.lines # <<>> => k.lines[1] = j.lines[1])
    <3>1. y = e
      BY <2>3
    <3>2. CASE j.lines = <<>>
      <4>1. i = 1
        BY <1>4, <2>3, <3>2, EmptySeq
      <4>2. PICK s : e = Conv!ItemHeader(s)
        BY <2>3, <3>2 DEF Belongs
      <4>3. k.lines[1] = Conv!ItemHeader(k.lines[1].source)
        BY <2>3, <3>1, <4>1, <4>2 DEF Conv!ItemHeader
      <4> QED BY <4>1, <4>3 DEF Conv!InPlace
    <3>3. CASE j.lines # <<>>
      <4>1. Len(j.lines) > 0
        BY <1>4, <3>3, EmptySeq
      <4>2. i # 1 /\ i > 1 /\ i - 1 = Len(j.lines)
        BY <2>1, <2>3, <4>1
      <4>3. /\ e = Conv!Verified(Conv!RecordOf(j.lines[1].source, Len(j.lines)))
            /\ file # NoFile => file[Len(j.lines)] = Conv!Digest(j.lines[1].source, Len(j.lines))
        BY <2>3, <3>3 DEF Belongs
      <4> QED BY <2>3, <3>1, <3>3, <4>2, <4>3 DEF Conv!InPlace
    <3> QED BY <3>2, <3>3
  <2> QED BY <1>3, <1>4, <1>5, <2>2, <2>3, AddedLine
<1>6. Conv!InOrder(k.lines, file)
  BY <1>5 DEF Conv!InOrder
<1> QED BY <1>2, <1>6, ConvJournals

LEMMA AppendLists ==
  ASSUME NEW j \in Conv!Journals, NEW e \in ConvLines, NEW m \in Int, Conv!Lists(j, m)
  PROVE  /\ Conv!Lists(Appended(j, e), m + 1)
         /\ Conv!Wellformed(Appended(j, e).lines, 1) =>
              \/ j.lines = <<>> /\ Appended(j, e).lines[1] = e
              \/ /\ j.lines # <<>> /\ Conv!Wellformed(j.lines, 1)
                 /\ Appended(j, e).lines[1] = j.lines[1]
<1> DEFINE k == Appended(j, e)
<1>1. j \in JournalOf(ConvLines) /\ Garbage \in ConvLines
  BY ConvJournals DEF ConvLines
<1>2. /\ k \in JournalOf(ConvLines) /\ k.lines # <<>>
      /\ Added(j.lines, j.ended, e, k.lines)
  BY <1>1, JournalAppend
<1> HIDE DEF k
<1>3. j.lines \in Seq(ConvLines) /\ k.lines \in Seq(ConvLines) /\ j.ended \in BOOLEAN
  BY <1>1, <1>2 DEF JournalOf
<1>4. ASSUME NEW i \in DOMAIN k.lines, Conv!Wellformed(k.lines, i)
      PROVE  /\ i \in Nat /\ Len(j.lines) \in Nat
             /\ \/ i \in DOMAIN j.lines /\ Conv!Wellformed(j.lines, i) /\ k.lines[1] = j.lines[1]
                \/ /\ j.ended /\ Conv!Wellformed(j.lines, Len(j.lines)) /\ k.lines[i] = e
                   /\ i = Len(j.lines) + 1
  BY <1>2, <1>3, <1>4, AddedLine
<1>5. ASSUME NEW i \in DOMAIN k.lines, Conv!Wellformed(k.lines, i)
      PROVE  i <= m + 1 + 1
  <2>1. i \in Nat /\ Len(j.lines) \in Nat
    BY <1>4, <1>5
  <2>2. CASE i \in DOMAIN j.lines /\ Conv!Wellformed(j.lines, i)
    <3>1. i <= m + 1
      BY <2>2 DEF Conv!Lists
    <3> QED BY <2>1, <3>1
  <2>3. CASE j.ended /\ Conv!Wellformed(j.lines, Len(j.lines)) /\ i = Len(j.lines) + 1
    <3>1. Len(j.lines) = m + 1
      BY <2>3 DEF Conv!Lists
    <3> QED BY <2>1, <2>3, <3>1
  <2> QED BY <1>4, <1>5, <2>2, <2>3
<1>6. Conv!Wellformed(k.lines, Len(k.lines)) => Len(k.lines) = m + 1 + 1
  <2> SUFFICES ASSUME Conv!Wellformed(k.lines, Len(k.lines)) PROVE Len(k.lines) = m + 1 + 1
    OBVIOUS
  <2>1. k.lines[Len(k.lines)] # Garbage
    <3>1. Len(k.lines) \in 1..Len(k.lines)
      BY <1>2, <1>3, LenProperties, EmptySeq
    <3> QED BY <3>1, ConvJournals DEF Conv!Wellformed
  <2>2. j.ended /\ Len(k.lines) = Len(j.lines) + 1
    BY <1>2, <2>1 DEF Added
  <2>3. Conv!Wellformed(j.lines, Len(j.lines))
    <3>1. \A i \in 1..Len(j.lines) : k.lines[i] = j.lines[i]
      BY <1>2, <2>2 DEF Added
    <3>2. \A i \in 1..Len(j.lines) : i \in 1..Len(k.lines)
      BY <2>2, <1>3, LenProperties
    <3> QED BY <3>1, <3>2 DEF Conv!Wellformed
  <2>4. Len(j.lines) = m + 1
    BY <2>2, <2>3 DEF Conv!Lists
  <2> QED BY <2>2, <2>4
<1>7. Conv!Lists(k, m + 1)
  BY <1>5, <1>6 DEF Conv!Lists
<1>8. Conv!Wellformed(k.lines, 1) =>
        \/ j.lines = <<>> /\ k.lines[1] = e
        \/ j.lines # <<>> /\ Conv!Wellformed(j.lines, 1) /\ k.lines[1] = j.lines[1]
  <2> SUFFICES ASSUME Conv!Wellformed(k.lines, 1)
               PROVE  \/ j.lines = <<>> /\ k.lines[1] = e
                      \/ j.lines # <<>> /\ Conv!Wellformed(j.lines, 1) /\ k.lines[1] = j.lines[1]
    OBVIOUS
  <2>1. 1 \in DOMAIN k.lines
    BY <1>2, <1>3, LenProperties, EmptySeq
  <2>2. CASE 1 = Len(j.lines) + 1 /\ k.lines[1] = e
    <3>1. j.lines = <<>>
      BY <1>3, <2>2, LenProperties, EmptySeq
    <3> QED BY <2>2, <3>1
  <2>3. CASE 1 \in DOMAIN j.lines /\ Conv!Wellformed(j.lines, 1) /\ k.lines[1] = j.lines[1]
    <3>1. DOMAIN <<>> = {}
      BY EmptySeq
    <3> QED BY <2>3, <3>1
  <2> QED BY <1>4, <2>1, <2>2, <2>3
<1> QED BY <1>7, <1>8 DEF k

(* The writer's table is the first payloads of the source, and the next    *)
(* payload the one behind them.                                            *)
LEMMA PendingFacts ==
  ASSUME NEW t \in Seq(Conv!Records), NEW s, Conv!Tabled(t, s)
  PROVE  /\ Len(t) \in 0..NumItems
         /\ {rec.item : rec \in ToSet(t)} = 1..Len(t)
         /\ {rec.place : rec \in ToSet(t)} = 1..Len(t)
         /\ \A rec \in ToSet(t) : \E i \in 1..Len(t) : rec = Conv!RecordOf(s, i)
<1>1. Len(t) \in Nat /\ DOMAIN t = 1..Len(t) /\ \A i \in 1..Len(t) : t[i] \in Conv!Records
  BY LenProperties
<1>2. \A i \in 1..Len(t) : t[i] = Conv!RecordOf(s, i)
  BY <1>1 DEF Conv!Tabled
<1>3. \A i \in 1..Len(t) : t[i].item = i /\ t[i].place = i
  <2>1. \A i : Conv!RecordOf(s, i).item = i /\ Conv!RecordOf(s, i).place = i
    BY DEF Conv!RecordOf
  <2> QED BY <1>2, <2>1
<1>4. \A i \in 1..Len(t) : i \in 1..NumItems
  BY <1>1, <1>3 DEF Conv!Records, Conv!Items
<1>5. Len(t) \in 0..NumItems
  <2>1. CASE Len(t) = 0
    BY <2>1, InstallationAssumption
  <2>2. CASE Len(t) # 0
    <3>1. Len(t) \in 1..Len(t)
      BY <1>1, <2>2
    <3>2. Len(t) \in 1..NumItems
      BY <1>4, <3>1
    <3> QED BY <3>2, <1>1
  <2> QED BY <2>1, <2>2
<1>6. ToSet(t) = {t[i] : i \in 1..Len(t)}
  BY <1>1 DEF ToSet
<1> QED BY <1>2, <1>3, <1>5, <1>6

LEMMA NextPending ==
  ASSUME table \in Seq(Conv!Records), Conv!Tabled(table, source)
  PROVE  /\ Len(table) \in 0..NumItems
         /\ Conv!Pending = {} => Len(table) = NumItems
         /\ Conv!Pending # {} => /\ Len(table) + 1 \in Conv!Items
                                 /\ Conv!Min(Conv!Pending) = Len(table) + 1
<1> DEFINE n == Len(table)
<1>1. n \in 0..NumItems /\ {rec.item : rec \in ToSet(table)} = 1..n
  BY PendingFacts
<1>2. Conv!Pending = Conv!Items \ (1..n)
  BY <1>1, ConvJournals DEF Conv!Pending, Conv!Recorded
<1> HIDE DEF n
<1>3. Conv!Pending = (n + 1)..NumItems
  BY <1>1, <1>2, InstallationAssumption DEF Conv!Items
<1>4. Conv!Pending = {} => n = NumItems
  <2>1. n # NumItems => n + 1 \in (n + 1)..NumItems
    BY <1>1, InstallationAssumption
  <2> QED BY <1>3, <2>1
<1>5. ASSUME Conv!Pending # {} PROVE n + 1 \in Conv!Items /\ Conv!Min(Conv!Pending) = n + 1
  <2>1. n + 1 \in (n + 1)..NumItems /\ \A y \in (n + 1)..NumItems : n + 1 <= y
    BY <1>1, <1>3, <1>5, InstallationAssumption
  <2>2. \A x \in (n + 1)..NumItems : (\A y \in (n + 1)..NumItems : x <= y) => x = n + 1
    BY <1>1, <2>1, InstallationAssumption
  <2>3. Conv!Min((n + 1)..NumItems) = n + 1
    BY <2>1, <2>2 DEF Conv!Min
  <2>4. n + 1 \in Conv!Items
    BY <1>1, <2>1, InstallationAssumption DEF Conv!Items
  <2> QED BY <1>3, <2>3, <2>4
<1> QED BY <1>1, <1>4, <1>5 DEF n

(* What a resumed conversion takes from the journal.                       *)
LEMMA RecoveredFacts ==
  ASSUME cjournal \in Conv!Journals, Readable(cjournal), Conv!InOrder(cjournal.lines, partial)
  PROVE  /\ cjournal.lines # <<>> /\ Head(Entries(cjournal)) = cjournal.lines[1]
         /\ Conv!Recovered \in Seq(Conv!Records)
         /\ Conv!Tabled(Conv!Recovered, cjournal.lines[1].source)
         /\ Conv!Lists(cjournal, Len(Conv!Recovered))
         /\ partial # NoFile => \A i \in DOMAIN Conv!Recovered :
                                  partial[i] = Conv!Digest(cjournal.lines[1].source, i)
<1> DEFINE lines == cjournal.lines
<1> DEFINE E == Entries(cjournal)
<1> DEFINE s == lines[1].source
<1> DEFINE N == Sound(lines)
<1>1. cjournal \in JournalOf(ConvLines) /\ lines \in Seq(ConvLines) /\ cjournal # NoFile
  BY ConvJournals DEF JournalOf
<1>2. N >= 1 /\ lines[1].event = "Header" /\ \A i \in 1..N : lines[i] # Garbage
  BY <1>1, ReadableIs
<1>3. /\ E \in Seq(ConvLines) /\ Len(E) = N /\ N \in Nat /\ Len(lines) \in Nat
      /\ \A i \in 1..N : E[i] = lines[i]
      /\ N = Len(lines) \/ (N = Len(lines) - 1 /\ lines[Len(lines)] = Garbage)
  BY <1>1, EntriesFacts
<1>4. DOMAIN lines = 1..Len(lines) /\ (lines = <<>> <=> Len(lines) = 0) /\ (E = <<>> <=> N = 0)
  BY <1>1, <1>3, LenProperties, EmptySeq
<1> HIDE DEF E, N, lines, s
<1>5. lines # <<>> /\ E # <<>> /\ Len(lines) # 0
  <2>1. N # 0 /\ Len(lines) # 0
    BY <1>2, <1>3
  <2> QED BY <1>4, <2>1
<1>6. Head(E) = lines[1]
  <2>1. Head(E) = E[1]
    BY <1>3, <1>5, HeadTailProperties
  <2>2. 1 \in 1..N
    BY <1>2, <1>3
  <2> QED BY <1>3, <2>1, <2>2
<1>7. \A i \in 1..N : i \in DOMAIN lines /\ Conv!Wellformed(lines, i)
  <2>1. \A i \in 1..N : i \in 1..Len(lines) /\ \A m \in 1..i : m \in 1..N
    BY <1>3
  <2> QED BY <1>2, <1>4, <2>1, ConvJournals DEF Conv!Wellformed
<1>8. \A i \in 1..N : Conv!InPlace(lines, partial, i)
  BY <1>7 DEF Conv!InOrder, lines
<1>9. \A i \in 2..N : /\ E[i] = Conv!Verified(Conv!RecordOf(s, i - 1))
                      /\ partial # NoFile => partial[i - 1] = Conv!Digest(s, i - 1)
  <2> SUFFICES ASSUME NEW i \in 2..N
               PROVE  /\ E[i] = Conv!Verified(Conv!RecordOf(s, i - 1))
                      /\ partial # NoFile => partial[i - 1] = Conv!Digest(s, i - 1)
    OBVIOUS
  <2>1. i \in 1..N /\ i # 1 /\ i > 1
    BY <1>3
  <2> QED BY <1>3, <1>8, <2>1 DEF Conv!InPlace, s
<1>10. E[1].event # "Verified" /\ \A i \in 2..N : E[i].event = "Verified"
  <2>1. E[1] = lines[1]
    <3>1. 1 \in 1..N
      BY <1>2, <1>3
    <3> QED BY <1>3, <3>1
  <2>2. \A rec : Conv!Verified(rec).event = "Verified"
    BY DEF Conv!Verified
  <2>3. \A i \in 2..N : E[i].event = "Verified"
    BY <1>9, <2>2
  <2>4. "Header" # "Verified"
    OBVIOUS
  <2> QED BY <1>2, <2>1, <2>3, <2>4
<1> DEFINE V == EntriesOf(cjournal, "Verified")
<1>11. V = Select(E, "Verified")
  <2>1. ~NoJournal(cjournal)
    BY <1>1, <1>5 DEF NoJournal, lines
  <2> QED BY <2>1 DEF EntriesOf, E
<1>12. /\ Len(V) = N - 1 /\ DOMAIN V = 1..(N - 1)
       /\ \A i \in 1..(N - 1) : V[i] = E[i + 1]
  <2>1. /\ Len(Select(E, "Verified")) = Len(E) - 1
        /\ DOMAIN Select(E, "Verified") = 1..(Len(E) - 1)
        /\ \A i \in 1..(Len(E) - 1) : Select(E, "Verified")[i] = E[i + 1]
    BY <1>3, <1>5, <1>10, SelectAllButFirst
  <2> QED BY <1>3, <1>11, <2>1
<1> HIDE DEF V
<1>13. \A i \in 1..(N - 1) : V[i] = Conv!Verified(Conv!RecordOf(s, i)) /\ V[i] \in ConvLines
  <2> SUFFICES ASSUME NEW i \in 1..(N - 1)
               PROVE  V[i] = Conv!Verified(Conv!RecordOf(s, i)) /\ V[i] \in ConvLines
    OBVIOUS
  <2>1. i + 1 \in 2..N /\ i + 1 \in 1..N /\ i + 1 - 1 = i
    BY <1>3
  <2>2. E[i + 1] \in ConvLines
    BY <1>3, <2>1, LenProperties
  <2> QED BY <1>9, <1>12, <2>1, <2>2
<1>14. \A i \in 1..(N - 1) : V[i].record = Conv!RecordOf(s, i) /\ Conv!RecordOf(s, i) \in Conv!Records
  <2> SUFFICES ASSUME NEW i \in 1..(N - 1)
               PROVE  V[i].record = Conv!RecordOf(s, i) /\ Conv!RecordOf(s, i) \in Conv!Records
    OBVIOUS
  <2>1. V[i] = Conv!Verified(Conv!RecordOf(s, i)) /\ V[i] \in ConvLines
    BY <1>13
  <2>2. V[i].event = "Verified" /\ V[i].record = Conv!RecordOf(s, i)
    BY <2>1 DEF Conv!Verified
  <2>3. PICK rec \in Conv!Records : V[i] = Conv!Verified(rec)
    BY <2>1, <2>2 DEF ConvLines, Conv!ItemHeader, Conv!ItemsFinalized, Garbage
  <2> QED BY <2>2, <2>3 DEF Conv!Verified
<1> DEFINE R == Conv!Recovered
<1>15. R = [i \in 1..(N - 1) |-> Conv!RecordOf(s, i)]
  <2>1. R = [i \in 1..Len(V) |-> V[i].record]
    BY ConvJournals DEF Conv!Recovered, V
  <2> QED BY <1>12, <1>14, <2>1
<1> HIDE DEF R
<1>16. N - 1 \in Nat
  BY <1>2, <1>3
<1>17. /\ R \in Seq(Conv!Records) /\ Len(R) = N - 1 /\ DOMAIN R = 1..(N - 1)
       /\ \A i \in 1..(N - 1) : R[i] = Conv!RecordOf(s, i)
  <2>1. R \in [1..(N - 1) -> Conv!Records]
    BY <1>14, <1>15
  <2>2. R \in Seq(Conv!Records)
    BY <1>16, <2>1, IsASeq
  <2>3. DOMAIN R = 1..(N - 1)
    BY <2>1
  <2>4. Len(R) = N - 1
    BY <1>16, <2>2, <2>3, LenProperties
  <2> QED BY <1>15, <2>2, <2>3, <2>4
<1>18. Conv!Tabled(R, s)
  BY <1>17 DEF Conv!Tabled
<1>19. Conv!Lists(cjournal, N - 1)
  <2>1. \A i \in 1..Len(lines) : Conv!Wellformed(lines, i) => i <= N
    <3> SUFFICES ASSUME NEW i \in 1..Len(lines), Conv!Wellformed(lines, i), i > N PROVE FALSE
      BY <1>3
    <3>1. i = Len(lines) /\ lines[Len(lines)] = Garbage /\ i \in 1..i
      BY <1>3
    <3> QED BY <3>1, ConvJournals DEF Conv!Wellformed
  <2>2. Conv!Wellformed(lines, Len(lines)) => Len(lines) = N
    <3>1. Len(lines) \in 1..Len(lines)
      BY <1>3, <1>5
    <3>2. Conv!Wellformed(lines, Len(lines)) => Len(lines) <= N
      BY <2>1, <3>1
    <3> QED BY <3>2, <1>3
  <2>3. N - 1 + 1 = N
    BY <1>3
  <2> QED BY <1>4, <2>1, <2>2, <2>3 DEF Conv!Lists, lines
<1>20. partial # NoFile => \A i \in 1..(N - 1) : partial[i] = Conv!Digest(s, i)
  <2> SUFFICES ASSUME partial # NoFile, NEW i \in 1..(N - 1) PROVE partial[i] = Conv!Digest(s, i)
    OBVIOUS
  <2>1. i + 1 \in 2..N /\ i + 1 - 1 = i
    BY <1>3
  <2> QED BY <1>9, <2>1
<1> QED BY <1>5, <1>6, <1>17, <1>18, <1>19, <1>20 DEF lines, E, s, R

LEMMA ConvConstants ==
  /\ NumItems \in Nat \ {0} /\ NoFile \notin Sources /\ NoFile \notin Conv!Containers
  /\ 1 \in 1..(NumItems + 2) /\ 0 \in 0..NumItems
  /\ NumItems + 1 \in Conv!Places /\ Conv!Items \subseteq Conv!Places
  /\ <<>> \in Seq(Conv!Records) /\ DOMAIN <<>> = {} /\ \A s : Conv!Tabled(<<>>, s)
<1>1. NumItems \in Nat \ {0}
  BY InstallationAssumption
<1>2. 1 \in 1..(NumItems + 2) /\ 0 \in 0..NumItems /\ NumItems + 1 \in 1..(NumItems + 1)
      /\ 1..NumItems \subseteq 1..(NumItems + 1)
  BY <1>1
<1>3. <<>> \in Seq(Conv!Records) /\ DOMAIN <<>> = {}
  BY EmptySeq
<1> QED BY <1>1, <1>2, <1>3, NoFileAssumption DEF Conv!Places, Conv!Items, Conv!Tabled

(* A writer keeps a journal in order if it leaves the payloads listed.     *)
LEMMA OrderFrame ==
  ASSUME NEW j \in Conv!Journals, NEW file, NEW file2, NEW s, NEW m \in Int,
         Conv!InOrder(j.lines, file), Conv!Lists(j, m),
         Conv!Wellformed(j.lines, 1) => j.lines[1].source = s,
         \A i \in 1..m : file2[i] = Conv!Digest(s, i)
  PROVE  Conv!InOrder(j.lines, file2)
<1>1. j.lines \in Seq(ConvLines)
  BY ConvJournals DEF JournalOf
<1>2. DOMAIN j.lines = 1..Len(j.lines) /\ Len(j.lines) \in Nat
  BY <1>1, LenProperties
<1>3. SUFFICES ASSUME NEW i \in DOMAIN j.lines, Conv!Wellformed(j.lines, i)
               PROVE  Conv!InPlace(j.lines, file2, i)
  BY DEF Conv!InOrder
<1>4. Conv!InPlace(j.lines, file, i) /\ i <= m + 1 /\ i \in Nat \ {0}
  BY <1>2, <1>3 DEF Conv!InOrder, Conv!Lists
<1>5. j.lines[1].source = s
  <2>1. 1 \in 1..i /\ \A n \in 1..1 : n \in 1..i
    BY <1>4
  <2>2. Conv!Wellformed(j.lines, 1)
    BY <1>3, <2>1 DEF Conv!Wellformed
  <2> QED BY <2>2
<1>6. i > 1 => i - 1 \in 1..m
  BY <1>4
<1> QED BY <1>4, <1>5, <1>6 DEF Conv!InPlace

(* A conversion that is over, or only begins, leaves what is on disk.      *)
LEMMA ConvLeaves ==
  ASSUME cpc' \in {"idle", "begin", "done", "failed"},
         source' \in Sources \union {NoFile}, cpc' = "begin" => source' \in Sources,
         table' = <<>>, cursor' = 1, dirty' = 0,
         partial' \in [Conv!Places -> Conv!Bytes] \union {NoFile},
         cjournal' \in Conv!Journals \union {NoFile},
         container' \in Conv!Containers \union {NoFile},
         Conv!InstalledInOrder', Conv!JournalInOrder'
  PROVE  Conv!ConversionIInv'
<1>1. Conv!ConversionTypeOK'
  BY ConvConstants DEF Conv!ConversionTypeOK
<1>2. Conv!WriterInOrder'
  BY DEF Conv!WriterInOrder, Conv!Writing
<1>3. Conv!StepsInOrder'
  BY ConvConstants DEF Conv!StepsInOrder, Conv!Writing
<1> QED BY <1>1, <1>2, <1>3 DEF Conv!ConversionIInv

LEMMA ConvLeavesDisk ==
  ASSUME Conv!ConversionIInv, UNCHANGED <<partial, cjournal, container>>,
         cpc' \in {"idle", "begin", "done", "failed"},
         source' \in Sources \union {NoFile}, cpc' = "begin" => source' \in Sources,
         table' = <<>>, cursor' = 1, dirty' = 0
  PROVE  Conv!ConversionIInv'
<1>1. Conv!InstalledInOrder' /\ Conv!JournalInOrder'
  BY DEF Conv!ConversionIInv, Conv!InstalledInOrder, Conv!JournalInOrder
<1> QED BY <1>1, ConvLeaves DEF Conv!ConversionIInv, Conv!ConversionTypeOK

LEMMA ConvStays ==
  ASSUME Conv!ConversionIInv, UNCHANGED convVars
  PROVE  Conv!ConversionIInv'
<1>1. UNCHANGED <<partial, cjournal, container, cpc, source, table, cursor, dirty>>
  BY DEF convVars
<1>2. Conv!InstalledInOrder' /\ Conv!JournalInOrder' /\ Conv!ConversionTypeOK'
  BY <1>1 DEF Conv!ConversionIInv, Conv!InstalledInOrder, Conv!JournalInOrder, Conv!ConversionTypeOK
<1>3. Conv!WriterInOrder'
  BY <1>1 DEF Conv!ConversionIInv, Conv!WriterInOrder, Conv!Writing, Conv!Settled
<1>4. Conv!StepsInOrder'
  BY <1>1 DEF Conv!ConversionIInv, Conv!StepsInOrder, Conv!Writing, Conv!Pending, Conv!Recorded
<1> QED BY <1>2, <1>3, <1>4 DEF Conv!ConversionIInv

LEMMA ConvInit ==
  ASSUME Conv!CInit PROVE Conv!ConversionIInv
<1>1. /\ partial = NoFile /\ cjournal = NoFile /\ container = NoFile /\ cpc = "idle"
      /\ source = NoFile /\ table = <<>> /\ cursor = 1 /\ dirty = 0
  BY DEF Conv!CInit
<1>2. Conv!ConversionTypeOK
  BY <1>1, ConvConstants DEF Conv!ConversionTypeOK
<1>3. Conv!StepsInOrder
  BY <1>1, ConvConstants DEF Conv!StepsInOrder, Conv!Writing
<1> QED BY <1>1, <1>2, <1>3 DEF Conv!ConversionIInv, Conv!InstalledInOrder, Conv!JournalInOrder,
           Conv!WriterInOrder, Conv!Writing

(* While the writer is at work.                                            *)
LEMMA WriterFacts ==
  ASSUME Conv!ConversionIInv, Conv!Writing
  PROVE  /\ container = NoFile /\ source \in Sources
         /\ partial \in [Conv!Places -> Conv!Bytes]
         /\ table \in Seq(Conv!Records) /\ Conv!Tabled(table, source)
         /\ Len(table) \in 0..NumItems /\ DOMAIN table = 1..Len(table)
         /\ cursor = Len(table) + 1
         /\ \A i \in 1..Len(table) : partial[i] = Conv!Digest(source, i)
         /\ cjournal \in Conv!Journals /\ cjournal # NoFile /\ cjournal.lines # <<>>
         /\ Conv!InOrder(cjournal.lines, partial)
         /\ Conv!Wellformed(cjournal.lines, 1) => cjournal.lines[1].source = source
         /\ Conv!Lists(cjournal, Conv!Settled)
         /\ Conv!Settled \in Int /\ Conv!Settled <= Len(table)
         /\ dirty = IF cpc = "sync" THEN Len(table) ELSE 0
<1>1. /\ container = NoFile /\ source \in Sources /\ Conv!Tabled(table, source)
      /\ dirty = IF cpc = "sync" THEN Len(table) ELSE 0
  BY DEF Conv!ConversionIInv, Conv!StepsInOrder, Conv!Writing
<1>2. table \in Seq(Conv!Records)
  BY DEF Conv!ConversionIInv, Conv!ConversionTypeOK
<1>3. Len(table) \in 0..NumItems /\ DOMAIN table = 1..Len(table)
  BY <1>1, <1>2, PendingFacts, LenProperties
<1>4. /\ partial \in [Conv!Places -> Conv!Bytes] /\ cursor = Len(table) + 1
      /\ \A i \in DOMAIN table : partial[i] = Conv!Digest(source, i)
      /\ cjournal \in Conv!Journals /\ cjournal.lines # <<>>
      /\ Conv!Wellformed(cjournal.lines, 1) => cjournal.lines[1].source = source
      /\ Conv!Lists(cjournal, Conv!Settled)
  BY DEF Conv!ConversionIInv, Conv!WriterInOrder
<1>5. cjournal # NoFile
  BY <1>4, ConvJournals
<1>6. Conv!InOrder(cjournal.lines, partial)
  BY <1>1, <1>5 DEF Conv!ConversionIInv, Conv!JournalInOrder
<1>7. Conv!Settled \in Int /\ Conv!Settled <= Len(table)
  BY <1>3 DEF Conv!Settled
<1> QED BY <1>1, <1>2, <1>3, <1>4, <1>5, <1>6, <1>7

(* The call ends while the writer is at work, with other bytes in the file *)
(* behind what the journal lists.                                          *)
LEMMA WriterFails ==
  ASSUME Conv!ConversionIInv, Conv!Writing, Conv!CFail, UNCHANGED <<cjournal, container>>,
         NEW p \in Conv!Places, NEW x \in Conv!Bytes, p > Conv!Settled,
         partial' = [partial EXCEPT ![p] = x]
  PROVE  Conv!ConversionIInv'
<1>1. cpc' = "failed" /\ table' = <<>> /\ cursor' = 1 /\ dirty' = 0 /\ source' = source
  BY DEF Conv!CFail, Conv!CReturn
<1>2. container = NoFile /\ source \in Sources /\ partial' \in [Conv!Places -> Conv!Bytes]
  BY WriterFacts
<1>3. \A i \in 1..Conv!Settled : partial'[i] = Conv!Digest(source, i)
  <2> SUFFICES ASSUME NEW i \in 1..Conv!Settled PROVE partial'[i] = Conv!Digest(source, i)
    OBVIOUS
  <2>1. /\ Conv!Settled \in Int /\ Conv!Settled <= Len(table) /\ Len(table) \in 0..NumItems
        /\ partial \in [Conv!Places -> Conv!Bytes]
        /\ \A n \in 1..Len(table) : partial[n] = Conv!Digest(source, n)
    BY WriterFacts
  <2>2. i # p /\ i \in 1..Len(table) /\ i \in 1..(NumItems + 1)
    BY <2>1, ConvConstants DEF Conv!Places
  <2> QED BY <2>1, <2>2 DEF Conv!Places
<1>4. Conv!InOrder(cjournal.lines, partial')
  <2>1. /\ cjournal \in Conv!Journals /\ Conv!InOrder(cjournal.lines, partial)
        /\ Conv!Wellformed(cjournal.lines, 1) => cjournal.lines[1].source = source
        /\ Conv!Lists(cjournal, Conv!Settled) /\ Conv!Settled \in Int
    BY WriterFacts
  <2> QED BY <1>3, <2>1, OrderFrame
<1>5. Conv!InstalledInOrder' /\ Conv!JournalInOrder'
  BY <1>2, <1>4 DEF Conv!InstalledInOrder, Conv!JournalInOrder
<1> QED BY <1>1, <1>2, <1>5, ConvLeaves DEF Conv!ConversionIInv, Conv!ConversionTypeOK

LEMMA ConvBegins ==
  ASSUME Conv!ConversionIInv, NEW s \in Sources, Conv!CBegin(s)
  PROVE  Conv!ConversionIInv'
<1>1. /\ cpc = "idle" /\ source' = s /\ cpc' \in {"begin", "failed"}
      /\ UNCHANGED <<partial, cjournal, container, table, cursor, dirty>>
  BY DEF Conv!CBegin, Conv!cdisk
<1>2. table = <<>> /\ cursor = 1 /\ dirty = 0
  BY <1>1 DEF Conv!ConversionIInv, Conv!StepsInOrder, Conv!Writing
<1> QED BY <1>1, <1>2, ConvLeavesDisk

LEMMA ConvFirstSteps ==
  ASSUME Conv!ConversionIInv,
         \/ Conv!BeginTransaction \/ Conv!CreatePartial \/ Conv!CreateConversionJournal
         \/ Conv!AppendItemsFinalized \/ Conv!RemoveConversionJournal \/ Conv!OpenContainer
  PROVE  Conv!ConversionIInv'
<1>0. /\ partial \in [Conv!Places -> Conv!Bytes] \union {NoFile}
      /\ cjournal \in Conv!Journals \union {NoFile} /\ container \in Conv!Containers \union {NoFile}
      /\ source \in Sources \union {NoFile} /\ table \in Seq(Conv!Records)
      /\ cursor \in 1..(NumItems + 2) /\ dirty \in 0..NumItems
      /\ Conv!Tabled(table, source)
  BY DEF Conv!ConversionIInv, Conv!ConversionTypeOK, Conv!StepsInOrder
<1>1. CASE Conv!BeginTransaction
  <2>1. /\ cpc = "begin" /\ UNCHANGED <<partial, cjournal, container>>
        /\ source \in Sources /\ table = <<>> /\ cursor = 1 /\ dirty = 0
    BY <1>1 DEF Conv!BeginTransaction, Conv!cdisk, Conv!ConversionIInv, Conv!StepsInOrder, Conv!Writing
  <2>2. CASE container = NoFile
    <3>1. cpc' = "read journal" /\ UNCHANGED <<source, table, cursor, dirty>>
      BY <1>1, <2>2 DEF Conv!BeginTransaction, Conv!CGoto, Conv!clocals
    <3>2. Conv!ConversionTypeOK' /\ Conv!InstalledInOrder' /\ Conv!JournalInOrder'
      BY <1>0, <2>1, <3>1 DEF Conv!ConversionTypeOK, Conv!InstalledInOrder, Conv!JournalInOrder, Conv!ConversionIInv
    <3>3. Conv!WriterInOrder' /\ Conv!StepsInOrder'
      BY <1>0, <2>1, <2>2, <3>1 DEF Conv!WriterInOrder, Conv!Writing, Conv!StepsInOrder
    <3> QED BY <3>2, <3>3 DEF Conv!ConversionIInv
  <2>3. CASE container # NoFile /\ container.source = source
    <3>1. cpc' = "open" /\ UNCHANGED <<source, table, cursor, dirty>>
      BY <1>1, <2>3 DEF Conv!BeginTransaction, Conv!CGoto, Conv!clocals
    <3>2. Conv!ConversionTypeOK' /\ Conv!InstalledInOrder' /\ Conv!JournalInOrder'
      BY <1>0, <2>1, <3>1 DEF Conv!ConversionTypeOK, Conv!InstalledInOrder, Conv!JournalInOrder, Conv!ConversionIInv
    <3>3. Conv!WriterInOrder' /\ Conv!StepsInOrder'
      BY <1>0, <2>1, <2>3, <3>1 DEF Conv!WriterInOrder, Conv!Writing, Conv!StepsInOrder
    <3> QED BY <3>2, <3>3 DEF Conv!ConversionIInv
  <2>4. CASE container # NoFile /\ container.source # source
    <3>1. Conv!CFail
      BY <1>1, <2>4 DEF Conv!BeginTransaction
    <3> QED BY <1>0, <2>1, <3>1, ConvLeavesDisk DEF Conv!CFail, Conv!CReturn
  <2> QED BY <2>2, <2>3, <2>4
<1>2. CASE Conv!CreatePartial
  <2>1. /\ cpc = "create partial" /\ cpc' = "create journal"
        /\ partial' = [p \in Conv!Places |-> Conv!Hole]
        /\ UNCHANGED <<cjournal, container, source, table, cursor, dirty>>
    BY <1>2 DEF Conv!CreatePartial, Conv!CGoto, Conv!clocals
  <2>2. /\ container = NoFile /\ NoJournal(cjournal) /\ source \in Sources
        /\ table = <<>> /\ cursor = 1 /\ dirty = 0
    BY <2>1, ConvJournals DEF Conv!ConversionIInv, Conv!StepsInOrder, Conv!Writing
  <2>3. partial' \in [Conv!Places -> Conv!Bytes]
    BY <2>1 DEF Conv!Bytes
  <2>4. cjournal # NoFile => DOMAIN cjournal.lines = {}
    BY <2>2, ConvConstants DEF NoJournal
  <2>5. Conv!ConversionTypeOK' /\ Conv!InstalledInOrder' /\ Conv!JournalInOrder'
    BY <1>0, <2>1, <2>2, <2>3, <2>4 DEF Conv!ConversionTypeOK, Conv!InstalledInOrder, Conv!JournalInOrder, Conv!InOrder
  <2>6. Conv!WriterInOrder' /\ Conv!StepsInOrder'
    BY <1>0, <2>1, <2>2, <2>3, ConvJournals DEF Conv!WriterInOrder, Conv!Writing, Conv!StepsInOrder
  <2> QED BY <2>5, <2>6 DEF Conv!ConversionIInv
<1>3. CASE Conv!CreateConversionJournal
  <2>1. /\ cpc = "create journal" /\ cpc' = "header" /\ cjournal' = EmptyJournal
        /\ UNCHANGED <<partial, container, source, table, cursor, dirty>>
    BY <1>3, ConvJournals DEF Conv!CreateConversionJournal, Conv!CGoto, Conv!clocals
  <2>2. /\ container = NoFile /\ source \in Sources /\ partial \in [Conv!Places -> Conv!Bytes]
        /\ table = <<>> /\ cursor = 1 /\ dirty = 0
    BY <2>1 DEF Conv!ConversionIInv, Conv!StepsInOrder, Conv!Writing
  <2>3. EmptyJournal \in Conv!Journals /\ DOMAIN EmptyJournal.lines = {}
    <3>1. <<>> \in Seq(ConvLines) /\ DOMAIN <<>> = {}
      BY EmptySeq
    <3>2. EmptyJournal.lines = <<>> /\ EmptyJournal \in JournalOf(ConvLines)
      BY <3>1 DEF EmptyJournal, JournalOf
    <3> QED BY <3>1, <3>2, ConvJournals
  <2>4. Conv!ConversionTypeOK' /\ Conv!InstalledInOrder' /\ Conv!JournalInOrder'
    BY <1>0, <2>1, <2>2, <2>3 DEF Conv!ConversionTypeOK, Conv!InstalledInOrder, Conv!JournalInOrder, Conv!InOrder
  <2>5. Conv!WriterInOrder' /\ Conv!StepsInOrder'
    BY <1>0, <2>1, <2>2, ConvJournals DEF Conv!WriterInOrder, Conv!Writing, Conv!StepsInOrder
  <2> QED BY <2>4, <2>5 DEF Conv!ConversionIInv
<1>4. CASE Conv!AppendItemsFinalized
  <2>1. /\ cpc = "finalize" /\ cpc' = "remove journal" /\ cjournal' = Appended(cjournal, Conv!ItemsFinalized)
        /\ UNCHANGED <<partial, container, source, table, cursor, dirty>>
    BY <1>4, ConvJournals DEF Conv!AppendItemsFinalized, Conv!CGoto, Conv!clocals
  <2>2. container # NoFile /\ cjournal \in Conv!Journals /\ source \in Sources /\ dirty = 0
    BY <2>1 DEF Conv!ConversionIInv, Conv!StepsInOrder, Conv!Writing
  <2>3. cjournal' \in Conv!Journals
    <3>1. Conv!ItemsFinalized \in ConvLines /\ Garbage \in ConvLines
      BY DEF ConvLines
    <3> QED BY <2>1, <2>2, <3>1, JournalAppend, ConvJournals
  <2>4. Conv!ConversionTypeOK' /\ Conv!InstalledInOrder' /\ Conv!JournalInOrder'
    BY <1>0, <2>1, <2>2, <2>3 DEF Conv!ConversionTypeOK, Conv!InstalledInOrder, Conv!JournalInOrder, Conv!ConversionIInv
  <2>5. Conv!WriterInOrder' /\ Conv!StepsInOrder'
    BY <1>0, <2>1, <2>2, <2>3 DEF Conv!WriterInOrder, Conv!Writing, Conv!StepsInOrder
  <2> QED BY <2>4, <2>5 DEF Conv!ConversionIInv
<1>5. CASE Conv!RemoveConversionJournal
  <2>1. /\ cpc = "remove journal" /\ cpc' = "open" /\ cjournal' \in {NoFile, cjournal}
        /\ UNCHANGED <<partial, container, source, table, cursor, dirty>>
    BY <1>5 DEF Conv!RemoveConversionJournal, Conv!CGoto, Conv!clocals
  <2>2. container # NoFile /\ source \in Sources /\ dirty = 0
    BY <2>1 DEF Conv!ConversionIInv, Conv!StepsInOrder, Conv!Writing
  <2>3. Conv!ConversionTypeOK' /\ Conv!InstalledInOrder' /\ Conv!JournalInOrder'
    BY <1>0, <2>1, <2>2 DEF Conv!ConversionTypeOK, Conv!InstalledInOrder, Conv!JournalInOrder, Conv!ConversionIInv
  <2>4. Conv!WriterInOrder' /\ Conv!StepsInOrder'
    BY <1>0, <2>1, <2>2 DEF Conv!WriterInOrder, Conv!Writing, Conv!StepsInOrder
  <2> QED BY <2>3, <2>4 DEF Conv!ConversionIInv
<1>6. CASE Conv!OpenContainer
  <2>1. UNCHANGED <<partial, cjournal, container>> /\ (Conv!CReturn("done") \/ Conv!CReturn("failed"))
    BY <1>6 DEF Conv!OpenContainer, Conv!cdisk, Conv!CFail
  <2> QED BY <1>0, <2>1, ConvLeavesDisk DEF Conv!CReturn
<1> QED BY <1>1, <1>2, <1>3, <1>4, <1>5, <1>6

LEMMA ConvResumes ==
  ASSUME Conv!ConversionIInv, Conv!ReadConversionJournal
  PROVE  Conv!ConversionIInv'
<1>1. /\ cpc = "read journal" /\ UNCHANGED <<partial, cjournal, container>>
  BY DEF Conv!ReadConversionJournal, Conv!cdisk
<1>2. /\ container = NoFile /\ source \in Sources /\ table = <<>> /\ cursor = 1 /\ dirty = 0
      /\ Conv!Tabled(table, source)
  BY <1>1 DEF Conv!ConversionIInv, Conv!StepsInOrder, Conv!Writing
<1>3. /\ partial \in [Conv!Places -> Conv!Bytes] \union {NoFile}
      /\ cjournal \in Conv!Journals \union {NoFile} /\ container \in Conv!Containers \union {NoFile}
  BY DEF Conv!ConversionIInv, Conv!ConversionTypeOK
<1>4. Conv!InstalledInOrder' /\ Conv!JournalInOrder'
  BY <1>1 DEF Conv!ConversionIInv, Conv!InstalledInOrder, Conv!JournalInOrder
<1>5. CASE NoJournal(cjournal) /\ cpc' = "create partial" /\ UNCHANGED <<source, table, cursor, dirty>>
  <2>1. Conv!ConversionTypeOK'
    BY <1>1, <1>3, <1>5 DEF Conv!ConversionTypeOK, Conv!ConversionIInv
  <2>2. Conv!WriterInOrder' /\ Conv!StepsInOrder'
    BY <1>1, <1>2, <1>5, ConvJournals DEF Conv!WriterInOrder, Conv!Writing, Conv!StepsInOrder
  <2> QED BY <1>4, <2>1, <2>2 DEF Conv!ConversionIInv
<1>6. CASE Conv!CFail
  BY <1>1, <1>2, <1>6, ConvLeavesDisk DEF Conv!CFail, Conv!CReturn
<1>7. CASE /\ ~NoJournal(cjournal) /\ Readable(cjournal) /\ Conv!HeaderMatches
           /\ partial # NoFile /\ Conv!Resume
  <2>1. cjournal # NoFile /\ cjournal \in Conv!Journals /\ partial \in [Conv!Places -> Conv!Bytes]
    BY <1>3, <1>7 DEF NoJournal
  <2>2. Conv!InOrder(cjournal.lines, partial)
    BY <1>2, <2>1 DEF Conv!ConversionIInv, Conv!JournalInOrder
  <2> DEFINE R == Conv!Recovered
  <2>3. /\ cjournal.lines # <<>> /\ Head(Entries(cjournal)) = cjournal.lines[1]
        /\ R \in Seq(Conv!Records) /\ Conv!Tabled(R, cjournal.lines[1].source)
        /\ Conv!Lists(cjournal, Len(R))
        /\ \A i \in DOMAIN R : partial[i] = Conv!Digest(cjournal.lines[1].source, i)
    BY <1>7, <2>1, <2>2, RecoveredFacts
  <2>4. cjournal.lines[1].source = source
    BY <1>7, <2>3, ConvJournals DEF Conv!HeaderMatches
  <2>5. /\ table' = R /\ cpc' = "next item" /\ UNCHANGED <<source, dirty>>
        /\ cursor' = Conv!Max({0} \union {rec.place : rec \in ToSet(R)}) + 1
    BY <1>7, ConvJournals DEF Conv!Resume
  <2> HIDE DEF R
  <2>6. Len(R) \in 0..NumItems /\ {rec.place : rec \in ToSet(R)} = 1..Len(R)
    BY <2>3, PendingFacts
  <2>7. cursor' = Len(R) + 1
    <3> DEFINE m == Len(R)
    <3>1. m \in Nat /\ {0} \union (1..m) = 0..m
      BY <2>6, ConvConstants
    <3> HIDE DEF m
    <3>2. m \in 0..m /\ \A y \in 0..m : m >= y
      BY <3>1
    <3>3. \A x \in 0..m : (\A y \in 0..m : x >= y) => x = m
      BY <3>1, <3>2
    <3>4. Conv!Max(0..m) = m
      BY <3>2, <3>3 DEF Conv!Max
    <3>5. cursor' = m + 1
      BY <2>5, <2>6, <3>1, <3>4 DEF m
    <3> QED BY <3>5 DEF m
  <2>8. cursor' \in 1..(NumItems + 2) /\ Len(R) <= NumItems
    BY <2>6, <2>7, ConvConstants
  <2>9. Conv!ConversionTypeOK'
    BY <1>1, <1>3, <2>3, <2>5, <2>8 DEF Conv!ConversionTypeOK, Conv!ConversionIInv
  <2>10. Conv!WriterInOrder'
    <3>1. Conv!Settled' = Len(R)
      BY <2>5 DEF Conv!Settled
    <3>2. \A i \in DOMAIN table' : partial'[i] = Conv!Digest(source', i)
      BY <1>1, <2>3, <2>4, <2>5
    <3> QED BY <1>1, <2>1, <2>3, <2>4, <2>5, <2>7, <3>1, <3>2 DEF Conv!WriterInOrder
  <2>11. Conv!StepsInOrder'
    BY <1>1, <1>2, <2>3, <2>4, <2>5 DEF Conv!StepsInOrder, Conv!Writing
  <2> QED BY <1>4, <2>9, <2>10, <2>11 DEF Conv!ConversionIInv
<1> QED BY <1>5, <1>6, <1>7, ConvJournals DEF Conv!ReadConversionJournal, Conv!clocals

(* The record of the payload just written belongs behind the others.       *)
LEMMA LastRecord ==
  ASSUME table \in Seq(Conv!Records), Conv!Tabled(table, source),
         Len(table) \in 0..NumItems, Len(table) > 0,
         \A i \in 1..Len(table) : partial[i] = Conv!Digest(source, i),
         cjournal.lines # <<>>,
         Conv!Wellformed(cjournal.lines, 1) => cjournal.lines[1].source = source,
         Conv!Lists(cjournal, Len(table) - 1)
  PROVE  /\ Conv!Verified(Last(table)) \in ConvLines
         /\ Belongs(Conv!Verified(Last(table)), cjournal, partial)
<1> DEFINE n == Len(table)
<1> DEFINE e == Conv!Verified(Last(table))
<1>1. n \in 1..n /\ n - 1 + 1 = n /\ \A i \in 1..1 : i \in 1..n
  OBVIOUS
<1>2. e = Conv!Verified(Conv!RecordOf(source, n)) /\ e \in ConvLines
  <2>1. Last(table) = table[n] /\ DOMAIN table = 1..n
    BY LenProperties DEF Last
  <2>2. table[n] = Conv!RecordOf(source, n) /\ table[n] \in Conv!Records
    BY <1>1, <2>1, LenProperties DEF Conv!Tabled
  <2> QED BY <2>1, <2>2 DEF ConvLines
<1> HIDE DEF e
<1>3. ASSUME cjournal.ended, Conv!Wellformed(cjournal.lines, Len(cjournal.lines))
      PROVE  /\ e = Conv!Verified(Conv!RecordOf(cjournal.lines[1].source, Len(cjournal.lines)))
             /\ partial[Len(cjournal.lines)] =
                  Conv!Digest(cjournal.lines[1].source, Len(cjournal.lines))
  <2>1. Len(cjournal.lines) = n
    BY <1>1, <1>3 DEF Conv!Lists
  <2>2. cjournal.lines[1].source = source
    BY <1>1, <1>3, <2>1 DEF Conv!Wellformed
  <2> QED BY <1>1, <1>2, <2>1, <2>2
<1> QED BY <1>2, <1>3 DEF Belongs, e

(* The header, and a payload's record, behind the lines there.             *)
LEMMA ConvAppends ==
  ASSUME Conv!ConversionIInv, Conv!AppendItemHeader \/ Conv!AppendItem
  PROVE  Conv!ConversionIInv'
<1>0. Conv!ConversionTypeOK
  BY DEF Conv!ConversionIInv
<1>1. CASE Conv!AppendItemHeader
  <2>1. /\ cpc = "header" /\ cpc' = "next item"
        /\ cjournal' = Appended(cjournal, Conv!ItemHeader(source))
        /\ UNCHANGED <<partial, container, source, table, cursor, dirty>>
    BY <1>1, ConvJournals DEF Conv!AppendItemHeader, Conv!CGoto, Conv!clocals
  <2>2. /\ container = NoFile /\ cjournal = EmptyJournal /\ source \in Sources
        /\ partial \in [Conv!Places -> Conv!Bytes]
        /\ table = <<>> /\ cursor = 1 /\ dirty = 0
    BY <2>1, ConvJournals DEF Conv!ConversionIInv, Conv!StepsInOrder, Conv!Writing
  <2>3. /\ cjournal \in Conv!Journals /\ cjournal # NoFile
        /\ cjournal.lines = <<>> /\ cjournal.ended /\ DOMAIN cjournal.lines = {}
        /\ Len(cjournal.lines) = 0
    <3>1. <<>> \in Seq(ConvLines) /\ DOMAIN <<>> = {} /\ Len(<<>>) = 0
      BY EmptySeq
    <3>2. EmptyJournal.lines = <<>> /\ EmptyJournal.ended /\ EmptyJournal \in JournalOf(ConvLines)
      BY <3>1 DEF EmptyJournal, JournalOf
    <3> QED BY <2>2, <3>1, <3>2, ConvJournals
  <2>4. Conv!InOrder(cjournal.lines, partial) /\ Conv!Lists(cjournal, 0 - 1)
    BY <2>3 DEF Conv!InOrder, Conv!Lists
  <2>5. Conv!ItemHeader(source) \in ConvLines
    BY <2>2 DEF ConvLines
  <2>6. Belongs(Conv!ItemHeader(source), cjournal, partial)
    BY <2>3 DEF Belongs
  <2>7. cjournal' \in Conv!Journals /\ cjournal'.lines # <<>> /\ Conv!InOrder(cjournal'.lines, partial)
    BY <2>1, <2>3, <2>4, <2>5, <2>6, AppendKeepsOrder
  <2>8. /\ Conv!Lists(cjournal', 0 - 1 + 1)
        /\ Conv!Wellformed(cjournal'.lines, 1) =>
             cjournal'.lines[1] = Conv!ItemHeader(source)
    <3>1. 0 - 1 \in Int
      OBVIOUS
    <3> QED BY <2>1, <2>3, <2>4, <2>5, <3>1, AppendLists
  <2>9. Conv!ConversionTypeOK'
    BY <1>0, <2>1, <2>7 DEF Conv!ConversionTypeOK
  <2>10. Conv!InstalledInOrder' /\ Conv!JournalInOrder'
    BY <2>1, <2>2, <2>7 DEF Conv!InstalledInOrder, Conv!JournalInOrder
  <2>11. Conv!WriterInOrder'
    <3>1. Conv!Settled' = Len(<<>>) /\ cursor' = 1 /\ table' = <<>>
      BY <2>1, <2>2 DEF Conv!Settled
    <3>2. Len(<<>>) = 0 /\ DOMAIN <<>> = {}
      BY EmptySeq
    <3>3. Conv!Settled' = 0 - 1 + 1 /\ cursor' = Len(table') + 1 /\ DOMAIN table' = {}
      BY <3>1, <3>2
    <3>4. Conv!Lists(cjournal', Conv!Settled')
      BY <2>8, <3>3
    <3>5. Conv!Wellformed(cjournal'.lines, 1) => cjournal'.lines[1].source = source'
      <4>1. Conv!ItemHeader(source).source = source /\ source' = source
        BY <2>1 DEF Conv!ItemHeader
      <4> QED BY <2>8, <4>1
    <3> QED BY <2>1, <2>2, <2>7, <3>3, <3>4, <3>5 DEF Conv!WriterInOrder
  <2>12. Conv!StepsInOrder'
    BY <2>1, <2>2, ConvConstants DEF Conv!StepsInOrder, Conv!Writing
  <2> QED BY <2>9, <2>10, <2>11, <2>12 DEF Conv!ConversionIInv
<1>2. CASE Conv!AppendItem
  <2> DEFINE n == Len(table)
  <2> DEFINE e == Conv!Verified(Last(table))
  <2>1. /\ cpc = "append" /\ cpc' = "next item" /\ cjournal' = Appended(cjournal, e)
        /\ UNCHANGED <<partial, container, source, table, cursor, dirty>>
    BY <1>2, ConvJournals DEF Conv!AppendItem, Conv!CGoto, Conv!clocals
  <2>2. /\ container = NoFile /\ source \in Sources
        /\ partial \in [Conv!Places -> Conv!Bytes]
        /\ table \in Seq(Conv!Records) /\ Conv!Tabled(table, source)
        /\ n \in 0..NumItems /\ DOMAIN table = 1..n
        /\ cursor = n + 1
        /\ \A i \in 1..n : partial[i] = Conv!Digest(source, i)
        /\ cjournal \in Conv!Journals /\ cjournal # NoFile /\ cjournal.lines # <<>>
        /\ Conv!InOrder(cjournal.lines, partial)
        /\ Conv!Wellformed(cjournal.lines, 1) => cjournal.lines[1].source = source
        /\ Conv!Lists(cjournal, Conv!Settled)
        /\ dirty = 0
    BY <2>1, WriterFacts DEF Conv!Writing
  <2>3. n > 0 /\ Conv!Settled = n - 1
    BY <2>1 DEF Conv!ConversionIInv, Conv!StepsInOrder, Conv!Settled
  <2>4. e \in ConvLines /\ Belongs(e, cjournal, partial)
    BY <2>2, <2>3, LastRecord
  <2> HIDE DEF e
  <2>6. cjournal' \in Conv!Journals /\ cjournal'.lines # <<>> /\ Conv!InOrder(cjournal'.lines, partial)
    BY <2>1, <2>2, <2>4, AppendKeepsOrder
  <2>7. /\ Conv!Lists(cjournal', n - 1 + 1)
        /\ Conv!Wellformed(cjournal'.lines, 1) =>
             Conv!Wellformed(cjournal.lines, 1) /\ cjournal'.lines[1] = cjournal.lines[1]
    <3>1. n - 1 \in Int
      BY <2>2
    <3> QED BY <2>1, <2>2, <2>3, <2>4, <3>1, AppendLists
  <2>8. Conv!ConversionTypeOK'
    BY <1>0, <2>1, <2>6 DEF Conv!ConversionTypeOK
  <2>9. Conv!InstalledInOrder' /\ Conv!JournalInOrder'
    BY <2>1, <2>2, <2>6 DEF Conv!InstalledInOrder, Conv!JournalInOrder
  <2>10. Conv!WriterInOrder'
    <3>1. Conv!Settled' = n - 1 + 1
      <4>1. Conv!Settled' = n
        BY <2>1 DEF Conv!Settled
      <4>2. n - 1 + 1 = n
        BY <2>2
      <4> QED BY <4>1, <4>2
    <3> QED BY <2>1, <2>2, <2>6, <2>7, <3>1 DEF Conv!WriterInOrder
  <2>11. Conv!StepsInOrder'
    BY <2>1, <2>2 DEF Conv!StepsInOrder, Conv!Writing
  <2> QED BY <2>8, <2>9, <2>10, <2>11 DEF Conv!ConversionIInv
<1> QED BY <1>1, <1>2

LEMMA ConvWrites ==
  ASSUME Conv!ConversionIInv,
         \/ Conv!NextItem \/ Conv!WriteItem \/ Conv!SyncPayload
         \/ Conv!WriteTables \/ Conv!RenamePartial
  PROVE  Conv!ConversionIInv'
<1> DEFINE n == Len(table)
<1>1. Conv!Writing
  BY DEF Conv!Writing, Conv!NextItem, Conv!WriteItem, Conv!SyncPayload, Conv!WriteTables,
         Conv!RenamePartial
<1>2. /\ container = NoFile /\ source \in Sources
      /\ partial \in [Conv!Places -> Conv!Bytes]
      /\ table \in Seq(Conv!Records) /\ Conv!Tabled(table, source)
      /\ n \in 0..NumItems /\ DOMAIN table = 1..n
      /\ cursor = n + 1
      /\ \A i \in 1..n : partial[i] = Conv!Digest(source, i)
      /\ cjournal \in Conv!Journals /\ cjournal # NoFile /\ cjournal.lines # <<>>
      /\ Conv!InOrder(cjournal.lines, partial)
      /\ Conv!Wellformed(cjournal.lines, 1) => cjournal.lines[1].source = source
      /\ Conv!Lists(cjournal, Conv!Settled)
      /\ Conv!Settled \in Int /\ Conv!Settled <= n
      /\ dirty = IF cpc = "sync" THEN n ELSE 0
  BY <1>1, WriterFacts
<1>3. /\ Conv!Pending = {} => n = NumItems
      /\ Conv!Pending # {} => n + 1 \in Conv!Items /\ Conv!Min(Conv!Pending) = n + 1
  BY <1>2, NextPending
<1>4. /\ Conv!ConversionTypeOK
      /\ cpc = "write" => Conv!Pending # {}
      /\ cpc \in {"tables", "rename"} => n = NumItems
      /\ cpc \in {"sync", "append"} => n > 0
      /\ cpc = "rename" => partial[NumItems + 1] = Conv!Tables
  BY DEF Conv!ConversionIInv, Conv!StepsInOrder
<1> HIDE DEF n
<1>5. CASE Conv!NextItem
  <2>1. /\ cpc = "next item" /\ cpc' \in {"tables", "write"}
        /\ cpc' = "tables" => Conv!Pending = {}
        /\ cpc' = "write" => Conv!Pending # {}
        /\ UNCHANGED <<partial, cjournal, container, source, table, cursor, dirty>>
    BY <1>5 DEF Conv!NextItem, Conv!CGoto, Conv!clocals, Conv!cdisk
  <2>2. Conv!ConversionTypeOK'
    BY <1>4, <2>1 DEF Conv!ConversionTypeOK
  <2>3. Conv!InstalledInOrder' /\ Conv!JournalInOrder'
    BY <1>2, <2>1 DEF Conv!InstalledInOrder, Conv!JournalInOrder
  <2>4. Conv!WriterInOrder'
    <3>1. Conv!Settled' = Conv!Settled
      BY <2>1 DEF Conv!Settled
    <3> QED BY <1>2, <2>1, <3>1 DEF Conv!WriterInOrder, n
  <2>5. Conv!StepsInOrder'
    <3>1. Conv!Pending' = Conv!Pending
      BY <2>1 DEF Conv!Pending, Conv!Recorded
    <3> QED BY <1>2, <1>3, <2>1, <3>1 DEF Conv!StepsInOrder, Conv!Writing, n
  <2> QED BY <2>2, <2>3, <2>4, <2>5 DEF Conv!ConversionIInv
<1>6. CASE Conv!WriteItem
  <2>1. cpc = "write" /\ UNCHANGED <<cjournal, container>> /\ Conv!Settled = n
    BY <1>6 DEF Conv!WriteItem, Conv!Settled, n
  <2>2. n + 1 \in Conv!Items /\ Conv!Min(Conv!Pending) = n + 1
    BY <1>3, <1>4, <2>1
  <2>3. CASE Conv!CFail /\ UNCHANGED partial
    BY <1>2, <1>4, <2>1, <2>3, ConvLeavesDisk DEF Conv!CFail, Conv!CReturn, Conv!ConversionTypeOK
  <2>4. CASE /\ partial' = [partial EXCEPT ![cursor] = Conv!Digest(source, n + 1)]
             /\ table' = Append(table, Conv!RecordOf(source, n + 1))
             /\ dirty' = cursor /\ cursor' = cursor + 1
             /\ cpc' = "sync" /\ UNCHANGED source
    <3> DEFINE x == Conv!Digest(source, n + 1)
    <3> DEFINE rec == Conv!RecordOf(source, n + 1)
    <3>1. n + 1 \in Conv!Places /\ n + 1 \in 1..NumItems /\ n \in Nat
      BY <1>2, <2>2, ConvConstants DEF Conv!Items
    <3>2. x \in Sources \X Conv!Items /\ x \in Conv!Bytes /\ rec \in Conv!Records
      BY <1>2, <2>2 DEF Conv!Digest, Conv!Bytes, Conv!RecordOf, Conv!Records
    <3> HIDE DEF x, rec
    <3>3. /\ table' \in Seq(Conv!Records) /\ Len(table') = n + 1 /\ DOMAIN table' = 1..(n + 1)
          /\ \A i \in 1..n : table'[i] = table[i]
          /\ table'[n + 1] = rec
      <4>1. table' = Append(table, rec)
        BY <2>4 DEF rec
      <4> QED BY <1>2, <3>2, <4>1, AppendFacts DEF n
    <3>4. \A i \in 1..(n + 1) : i \in 1..n \/ i = n + 1
      BY <3>1
    <3>5. Conv!Tabled(table', source)
      <4>1. \A i \in 1..n : table[i] = Conv!RecordOf(source, i)
        BY <1>2 DEF Conv!Tabled
      <4> QED BY <3>3, <3>4, <4>1 DEF Conv!Tabled, rec
    <3>6. /\ partial' \in [Conv!Places -> Conv!Bytes] /\ partial'[n + 1] = x
          /\ \A i \in 1..n : partial'[i] = partial[i]
      <4>1. partial' = [partial EXCEPT ![n + 1] = x]
        BY <1>2, <2>4 DEF x
      <4>2. \A i \in 1..n : i \in Conv!Places /\ i # n + 1
        BY <1>2, ConvConstants DEF Conv!Places
      <4> QED BY <1>2, <3>1, <3>2, <4>1, <4>2
    <3>7. \A i \in 1..(n + 1) : partial'[i] = Conv!Digest(source, i)
      BY <1>2, <3>4, <3>6 DEF x
    <3>8. Conv!InOrder(cjournal.lines, partial')
      <4>1. \A i \in 1..Conv!Settled : partial'[i] = Conv!Digest(source, i)
        BY <1>2, <2>1, <3>6
      <4>2. /\ cjournal \in Conv!Journals /\ Conv!Settled \in Int
            /\ Conv!InOrder(cjournal.lines, partial) /\ Conv!Lists(cjournal, Conv!Settled)
            /\ Conv!Wellformed(cjournal.lines, 1) => cjournal.lines[1].source = source
        BY <1>2
      <4> QED BY <4>1, <4>2, OrderFrame
    <3>9. Conv!ConversionTypeOK'
      <4>1. cursor' \in 1..(NumItems + 2) /\ dirty' \in 0..NumItems
        BY <1>2, <2>4, <3>1, ConvConstants
      <4> QED BY <1>4, <2>1, <2>4, <3>3, <3>6, <4>1 DEF Conv!ConversionTypeOK
    <3>10. Conv!InstalledInOrder' /\ Conv!JournalInOrder'
      BY <1>2, <2>1, <3>8 DEF Conv!InstalledInOrder, Conv!JournalInOrder
    <3>11. Conv!WriterInOrder'
      <4>1. Conv!Settled' = Conv!Settled
        <5>1. Conv!Settled' = Len(table') - 1
          BY <2>4 DEF Conv!Settled
        <5>2. Len(table') = n + 1 /\ n \in Nat
          BY <3>1, <3>3
        <5>3. Conv!Settled' = n
          BY <5>1, <5>2
        <5> QED BY <2>1, <5>3
      <4>2. cursor' = Len(table') + 1
        BY <1>2, <2>4, <3>3
      <4> QED BY <1>2, <2>1, <2>4, <3>3, <3>6, <3>7, <4>1, <4>2 DEF Conv!WriterInOrder
    <3>12. Conv!StepsInOrder'
      <4>1. Len(table') > 0 /\ dirty' = Len(table')
        BY <1>2, <2>4, <3>1, <3>3
      <4> QED BY <1>2, <2>1, <2>4, <3>5, <3>6, <4>1 DEF Conv!StepsInOrder, Conv!Writing
    <3> QED BY <3>9, <3>10, <3>11, <3>12 DEF Conv!ConversionIInv
  <2>5. Len(table) + 1 = n + 1
    BY DEF n
  <2> QED BY <1>6, <2>2, <2>3, <2>4, <2>5 DEF Conv!WriteItem, Conv!RecordOf
<1>7. CASE Conv!SyncPayload
  <2>1. /\ cpc = "sync" /\ cpc' = "append" /\ dirty' = 0
        /\ UNCHANGED <<partial, cjournal, container, source, table, cursor>>
    BY <1>7 DEF Conv!SyncPayload, Conv!cdisk
  <2>2. Conv!ConversionTypeOK'
    BY <1>4, <2>1, ConvConstants DEF Conv!ConversionTypeOK
  <2>3. Conv!InstalledInOrder' /\ Conv!JournalInOrder'
    BY <1>2, <2>1 DEF Conv!InstalledInOrder, Conv!JournalInOrder
  <2>4. Conv!WriterInOrder'
    <3>1. Conv!Settled' = Conv!Settled
      BY <2>1 DEF Conv!Settled
    <3> QED BY <1>2, <2>1, <3>1 DEF Conv!WriterInOrder, n
  <2>5. Conv!StepsInOrder'
    BY <1>2, <1>4, <2>1 DEF Conv!StepsInOrder, Conv!Writing, n
  <2> QED BY <2>2, <2>3, <2>4, <2>5 DEF Conv!ConversionIInv
<1>8. CASE Conv!WriteTables
  <2>1. /\ cpc = "tables" /\ cpc' = "rename" /\ partial' = [partial EXCEPT ![cursor] = Conv!Tables]
        /\ UNCHANGED <<cjournal, container, source, table, cursor, dirty>>
    BY <1>8 DEF Conv!WriteTables, Conv!CGoto, Conv!clocals
  <2>2. n = NumItems /\ cursor = NumItems + 1 /\ Conv!Settled = n /\ dirty = 0
    BY <1>2, <1>4, <2>1 DEF Conv!Settled, n
  <2>3. /\ partial' \in [Conv!Places -> Conv!Bytes] /\ partial'[NumItems + 1] = Conv!Tables
        /\ \A i \in 1..n : partial'[i] = partial[i]
    <3>1. Conv!Tables \in Conv!Bytes /\ NumItems + 1 \in Conv!Places
      BY ConvConstants DEF Conv!Bytes
    <3>2. \A i \in 1..n : i \in Conv!Places /\ i # NumItems + 1
      BY <2>2, ConvConstants DEF Conv!Places
    <3> QED BY <1>2, <2>1, <2>2, <3>1, <3>2
  <2>4. Conv!InOrder(cjournal.lines, partial')
    <3>1. \A i \in 1..Conv!Settled : partial'[i] = Conv!Digest(source, i)
      BY <1>2, <2>2, <2>3
    <3>2. /\ cjournal \in Conv!Journals /\ Conv!Settled \in Int
          /\ Conv!InOrder(cjournal.lines, partial) /\ Conv!Lists(cjournal, Conv!Settled)
          /\ Conv!Wellformed(cjournal.lines, 1) => cjournal.lines[1].source = source
      BY <1>2
    <3> QED BY <3>1, <3>2, OrderFrame
  <2>5. Conv!ConversionTypeOK'
    BY <1>4, <2>1, <2>3 DEF Conv!ConversionTypeOK
  <2>6. Conv!InstalledInOrder' /\ Conv!JournalInOrder'
    BY <1>2, <2>1, <2>4 DEF Conv!InstalledInOrder, Conv!JournalInOrder
  <2>7. Conv!WriterInOrder'
    <3>1. Conv!Settled' = Conv!Settled
      BY <2>1 DEF Conv!Settled
    <3> QED BY <1>2, <2>1, <2>3, <3>1 DEF Conv!WriterInOrder, n
  <2>8. Conv!StepsInOrder'
    BY <1>2, <2>1, <2>2, <2>3 DEF Conv!StepsInOrder, Conv!Writing, n
  <2> QED BY <2>5, <2>6, <2>7, <2>8 DEF Conv!ConversionIInv
<1>9. CASE Conv!RenamePartial
  <2>1. /\ cpc = "rename" /\ cpc' = "finalize" /\ partial' = NoFile
        /\ container' = [source |-> source, table |-> table, places |-> partial]
        /\ UNCHANGED <<cjournal, source, table, cursor, dirty>>
    BY <1>9 DEF Conv!RenamePartial, Conv!CGoto, Conv!clocals
  <2>2. n = NumItems /\ dirty = 0 /\ partial[NumItems + 1] = Conv!Tables
    BY <1>2, <1>4, <2>1
  <2>3. container' \in Conv!Containers /\ container' # NoFile
    BY <1>2, <2>1, ConvConstants DEF Conv!Containers
  <2>4. /\ container'.source = source /\ container'.table = table /\ container'.places = partial
    BY <2>1
  <2>5. Conv!ConversionTypeOK'
    BY <1>4, <2>1, <2>3 DEF Conv!ConversionTypeOK
  <2>6. Conv!InstalledInOrder' /\ Conv!JournalInOrder'
    BY <1>2, <2>1, <2>2, <2>3, <2>4 DEF Conv!InstalledInOrder, Conv!JournalInOrder, Conv!Items, n
  <2>7. Conv!WriterInOrder'
    BY <2>1 DEF Conv!WriterInOrder, Conv!Writing
  <2>8. Conv!StepsInOrder'
    BY <1>2, <2>1, <2>2, <2>3 DEF Conv!StepsInOrder, Conv!Writing, n
  <2> QED BY <2>5, <2>6, <2>7, <2>8 DEF Conv!ConversionIInv
<1> QED BY <1>5, <1>6, <1>7, <1>8, <1>9

LEMMA ConvCuts ==
  ASSUME Conv!ConversionIInv, Conv!CCut
  PROVE  Conv!ConversionIInv'
<1>0. Conv!ConversionTypeOK
  BY DEF Conv!ConversionIInv
<1>1. /\ Conv!CFail /\ cpc \notin {"idle", "done", "failed"}
      /\ cpc' = "failed" /\ table' = <<>> /\ cursor' = 1 /\ dirty' = 0 /\ source' = source
  BY DEF Conv!CCut, Conv!CutConversion, Conv!CutItem, Conv!CutConversionAppend, Conv!CFault,
         Conv!CFail, Conv!CReturn
<1>2. Conv!Torn \in Conv!Bytes
  BY DEF Conv!Bytes
<1>3. CASE UNCHANGED <<partial, cjournal, container>>
  BY <1>0, <1>1, <1>3, ConvLeavesDisk DEF Conv!ConversionTypeOK
<1>4. CASE Conv!CutConversion
  <2>1. UNCHANGED <<cjournal, container>>
    BY <1>4 DEF Conv!CutConversion
  <2>2. CASE partial' = [partial EXCEPT ![dirty] = Conv!Torn] /\ dirty # 0
    <3>1. cpc = "sync" /\ dirty = Len(table) /\ Len(table) > 0
      BY <2>2 DEF Conv!ConversionIInv, Conv!StepsInOrder
    <3>2. Conv!Writing /\ Conv!Settled = Len(table) - 1
      BY <3>1 DEF Conv!Writing, Conv!Settled
    <3>3. dirty \in Conv!Places /\ dirty > Conv!Settled
      <4>1. Len(table) \in 0..NumItems
        BY <3>2, WriterFacts
      <4>2. dirty \in 1..(NumItems + 1)
        BY <3>1, <4>1, ConvConstants
      <4>3. dirty > Conv!Settled
        BY <3>1, <3>2, <4>1, ConvConstants
      <4> QED BY <4>2, <4>3 DEF Conv!Places
    <3> QED BY <1>1, <1>2, <2>1, <2>2, <3>2, <3>3, WriterFails
  <2> QED BY <1>3, <1>4, <2>1, <2>2 DEF Conv!CutConversion
<1>5. CASE Conv!CutItem
  <2>1. /\ cpc \in {"write", "tables"} /\ partial' = [partial EXCEPT ![cursor] = Conv!Torn]
        /\ UNCHANGED <<cjournal, container>>
    BY <1>5 DEF Conv!CutItem
  <2>2. Conv!Writing /\ Conv!Settled = Len(table)
    BY <2>1 DEF Conv!Writing, Conv!Settled
  <2>3. Len(table) \in 0..NumItems /\ cursor = Len(table) + 1
    BY <2>2, WriterFacts
  <2>4. cursor \in Conv!Places /\ cursor > Conv!Settled
    BY <2>2, <2>3, ConvConstants DEF Conv!Places
  <2> QED BY <1>1, <1>2, <2>1, <2>2, <2>4, WriterFails
<1>6. CASE Conv!CutConversionAppend
  <2>1. PICK e \in Conv!CAppending : cjournal' \in CutOff(cjournal, e)
    BY <1>6, ConvJournals DEF Conv!CutConversionAppend
  <2>2. UNCHANGED <<partial, container>>
    BY <1>6 DEF Conv!CutConversionAppend
  <2>3. /\ cjournal \in Conv!Journals /\ e \in ConvLines /\ cjournal # NoFile
        /\ container = NoFile => Belongs(e, cjournal, partial)
    <3>1. CASE cpc = "header"
      <4>1. e = Conv!ItemHeader(source)
        BY <3>1, <2>1 DEF Conv!CAppending
      <4>2. cjournal = EmptyJournal /\ source \in Sources
        BY <3>1, ConvJournals DEF Conv!ConversionIInv, Conv!StepsInOrder
      <4>3. EmptyJournal \in JournalOf(ConvLines) /\ EmptyJournal.lines = <<>>
        <5>1. <<>> \in Seq(ConvLines)
          BY EmptySeq
        <5> QED BY <5>1 DEF EmptyJournal, JournalOf
      <4> QED BY <4>1, <4>2, <4>3, ConvJournals DEF Belongs, ConvLines
    <3>2. CASE cpc = "append"
      <4> DEFINE n == Len(table)
      <4>1. e = Conv!Verified(Last(table))
        BY <3>2, <2>1, ConvJournals DEF Conv!CAppending
      <4>2. /\ n > 0 /\ Conv!Writing /\ Conv!Settled = n - 1
        BY <3>2 DEF Conv!ConversionIInv, Conv!StepsInOrder, Conv!Writing, Conv!Settled
      <4>3. /\ table \in Seq(Conv!Records) /\ Conv!Tabled(table, source)
            /\ n \in 0..NumItems /\ DOMAIN table = 1..n
            /\ \A i \in 1..n : partial[i] = Conv!Digest(source, i)
            /\ cjournal \in Conv!Journals /\ cjournal # NoFile /\ cjournal.lines # <<>>
            /\ Conv!Wellformed(cjournal.lines, 1) => cjournal.lines[1].source = source
            /\ Conv!Lists(cjournal, Conv!Settled)
        BY <4>2, WriterFacts
      <4> QED BY <4>1, <4>2, <4>3, LastRecord
    <3>3. CASE cpc = "finalize"
      <4>1. e = Conv!ItemsFinalized
        BY <3>3, <2>1 DEF Conv!CAppending
      <4>2. cjournal \in Conv!Journals /\ container # NoFile
        BY <3>3 DEF Conv!ConversionIInv, Conv!StepsInOrder
      <4> QED BY <4>1, <4>2, ConvJournals DEF ConvLines
    <3> QED BY <2>1, <3>1, <3>2, <3>3 DEF Conv!CAppending
  <2>4. cjournal' \in Conv!Journals /\ Conv!JournalInOrder'
    <3>1. CASE container = NoFile
      <4>1. Conv!InOrder(cjournal.lines, partial)
        BY <2>3, <3>1 DEF Conv!ConversionIInv, Conv!JournalInOrder
      <4>2. cjournal' \in Conv!Journals /\ Conv!InOrder(cjournal'.lines, partial)
        BY <2>1, <2>3, <3>1, <4>1, AppendKeepsOrder
      <4> QED BY <2>2, <4>2 DEF Conv!JournalInOrder
    <3>2. CASE container # NoFile
      <4>1. cjournal' \in Conv!Journals
        BY <2>1, <2>3, JournalAppend, ConvJournals DEF ConvLines
      <4> QED BY <2>2, <3>2, <4>1 DEF Conv!JournalInOrder
    <3> QED BY <3>1, <3>2
  <2>5. Conv!InstalledInOrder'
    BY <2>2 DEF Conv!ConversionIInv, Conv!InstalledInOrder
  <2> QED BY <1>0, <1>1, <2>2, <2>4, <2>5, ConvLeaves DEF Conv!ConversionTypeOK
<1> QED BY <1>4, <1>5, <1>6 DEF Conv!CCut

LEMMA ConvNext ==
  ASSUME Conv!ConversionIInv, Conv!CStep \/ Conv!CCut
  PROVE  Conv!ConversionIInv'
BY ConvFirstSteps, ConvResumes, ConvAppends, ConvWrites, ConvCuts DEF Conv!CStep

LEMMA ConvKeeps ==
  ASSUME TypeOK, Conv!ConversionIInv, Conv!CStep \/ Conv!CCut
  PROVE  faults' \in 0..MaxFaults /\ (container # NoFile => container' = container)
<1>1. faults \in 0..MaxFaults
  BY DEF TypeOK
<1>2. faults' \in 0..MaxFaults
  <2>1. CASE Conv!CStep
    <3>1. faults' = faults
      BY <2>1 DEF Conv!CStep, Conv!BeginTransaction, Conv!ReadConversionJournal,
                  Conv!CreatePartial, Conv!CreateConversionJournal, Conv!AppendItemHeader,
                  Conv!NextItem, Conv!WriteItem, Conv!SyncPayload, Conv!AppendItem,
                  Conv!WriteTables, Conv!RenamePartial, Conv!AppendItemsFinalized,
                  Conv!RemoveConversionJournal, Conv!OpenContainer, Conv!CGoto
    <3> QED BY <1>1, <3>1
  <2>2. CASE Conv!CCut
    <3>1. faults < MaxFaults /\ faults' = faults + 1
      BY <2>2 DEF Conv!CCut, Conv!CutConversion, Conv!CutItem, Conv!CutConversionAppend, Conv!CFault
    <3> QED BY <1>1, <3>1, SourceFetchAssumption
  <2> QED BY <2>1, <2>2
<1>3. ASSUME container # NoFile PROVE container' = container
  <2>1. cpc # "rename"
    BY <1>3 DEF Conv!ConversionIInv, Conv!StepsInOrder, Conv!Writing
  <2> QED BY <2>1 DEF Conv!CStep, Conv!BeginTransaction, Conv!ReadConversionJournal,
                  Conv!CreatePartial, Conv!CreateConversionJournal, Conv!AppendItemHeader,
                  Conv!NextItem, Conv!WriteItem, Conv!SyncPayload, Conv!AppendItem,
                  Conv!WriteTables, Conv!RenamePartial, Conv!AppendItemsFinalized,
                  Conv!RemoveConversionJournal, Conv!OpenContainer, Conv!cdisk,
                  Conv!CCut, Conv!CutConversion, Conv!CutItem, Conv!CutConversionAppend
<1> QED BY <1>2, <1>3

(* What the invariant says of a conversion is what is asked of one.        *)
LEMMA ConversionSound == Conv!ConversionIInv => ConversionIsSound
<1> SUFFICES ASSUME Conv!ConversionIInv PROVE ConversionIsSound
  OBVIOUS
<1>0. /\ cjournal \in Conv!Journals \union {NoFile} /\ container \in Conv!Containers \union {NoFile}
      /\ table \in Seq(Conv!Records) /\ Conv!Tabled(table, source)
      /\ Conv!InstalledInOrder /\ Conv!JournalInOrder
  BY DEF Conv!ConversionIInv, Conv!ConversionTypeOK, Conv!StepsInOrder
<1>1. ASSUME container # NoFile PROVE Conv!InstalledIsComplete
  <2> DEFINE t == container.table
  <2>1. /\ t \in Seq(Conv!Records) /\ Len(t) = NumItems /\ Conv!Tabled(t, container.source)
        /\ \A i \in Conv!Items : container.places[i] = Conv!Digest(container.source, i)
        /\ container.places[NumItems + 1] = Conv!Tables
    BY <1>0, <1>1 DEF Conv!InstalledInOrder, Conv!Containers
  <2> HIDE DEF t
  <2>2. /\ {rec.item : rec \in ToSet(t)} = 1..NumItems
        /\ \A rec \in ToSet(t) : \E i \in 1..NumItems : rec = Conv!RecordOf(container.source, i)
    BY <2>1, PendingFacts
  <2>3. \A i \in Conv!Items : \E rec \in ToSet(t) : rec.item = i
    BY <2>2 DEF Conv!Items
  <2>4. ASSUME NEW rec \in ToSet(t)
        PROVE  /\ rec.digest = Conv!Digest(container.source, rec.item)
               /\ container.places[rec.place] = rec.digest
    <3>1. PICK i \in 1..NumItems : rec = Conv!RecordOf(container.source, i)
      BY <2>2
    <3>2. rec.item = i /\ rec.place = i /\ rec.digest = Conv!Digest(container.source, i)
      BY <3>1 DEF Conv!RecordOf
    <3> QED BY <2>1, <3>2 DEF Conv!Items
  <2> QED BY <2>1, <2>3, <2>4, ConvJournals DEF Conv!InstalledIsComplete, t
<1>2. ASSUME partial # NoFile, NEW e \in ToSet(EntriesOf(cjournal, "Verified"))
      PROVE  partial[e.record.place] = e.record.digest
  <2>1. CASE cjournal = NoFile
    <3>1. EntriesOf(cjournal, "Verified") = <<>> /\ ToSet(<<>>) = {}
      BY <2>1, EmptySeq DEF EntriesOf, NoJournal, ToSet
    <3> QED BY <1>2, <3>1
  <2>2. CASE cjournal # NoFile
    <3> DEFINE lines == cjournal.lines
    <3> DEFINE s == lines[1].source
    <3>1. cjournal \in JournalOf(ConvLines) /\ lines \in Seq(ConvLines)
      BY <1>0, <2>2, ConvJournals DEF JournalOf
    <3>2. Readable(cjournal) /\ e.event = "Verified" /\ \E i \in 1..Sound(lines) : e = lines[i]
      BY <1>2, <2>2, <3>1, EntriesOfMembers
    <3>3. PICK i \in 1..Sound(lines) : e = lines[i]
      BY <3>2
    <3>4. lines[1].event = "Header" /\ \A m \in 1..Sound(lines) : lines[m] # Garbage
      BY <3>1, <3>2, ReadableIs
    <3>5. Sound(lines) \in Nat /\ Len(lines) \in Nat /\ Sound(lines) <= Len(lines)
      BY <3>1, EntriesFacts
    <3>6. i \in DOMAIN lines /\ i \in Nat
      <4>1. i \in 1..Len(lines) /\ i \in Nat
        BY <3>5
      <4> QED BY <3>1, <4>1, LenProperties
    <3>7. Conv!Wellformed(lines, i)
      <4>1. \A m \in 1..i : m \in 1..Sound(lines)
        BY <3>5
      <4> QED BY <3>4, <4>1, ConvJournals DEF Conv!Wellformed
    <3>8. Conv!InPlace(lines, partial, i)
      <4>1. container = NoFile
        BY <1>0, <1>2 DEF Conv!InstalledInOrder
      <4> QED BY <1>0, <2>2, <3>6, <3>7, <4>1 DEF Conv!JournalInOrder, Conv!InOrder
    <3>9. i # 1 /\ i > 1
      <4>1. i # 1
        BY <3>2, <3>3, <3>4
      <4> QED BY <3>5, <4>1
    <3>10. e = Conv!Verified(Conv!RecordOf(s, i - 1)) /\ partial[i - 1] = Conv!Digest(s, i - 1)
      BY <1>2, <3>3, <3>8, <3>9 DEF Conv!InPlace
    <3>11. e.record.place = i - 1 /\ e.record.digest = Conv!Digest(s, i - 1)
      BY <3>10 DEF Conv!Verified, Conv!RecordOf
    <3> QED BY <3>10, <3>11
  <2> QED BY <2>1, <2>2
<1>3. Conv!ConversionJournalIsOnDisk
  BY <1>2, ConvJournals DEF Conv!ConversionJournalIsOnDisk, Conv!PayloadMatches
<1>4. Conv!ConversionsDoNotMix
  <2> SUFFICES ASSUME NEW rec \in ToSet(table) PROVE rec.digest[1] = source
    BY ConvJournals DEF Conv!ConversionsDoNotMix
  <2>1. PICK i \in 1..Len(table) : rec = Conv!RecordOf(source, i)
    BY <1>0, PendingFacts
  <2> QED BY <2>1 DEF Conv!RecordOf, Conv!Digest
<1> QED BY <1>1, <1>3, <1>4 DEF ConversionIsSound, Conv!InstalledIsComplete

-----------------------------------------------------------------------------
(* The installation.                                                       *)
LEMMA InstallStart == InstallInit => InstallIInv
<1> SUFFICES ASSUME InstallInit PROVE InstallIInv
  OBVIOUS
<1>1. FetchIInv /\ Conv!ConversionIInv /\ cpc = "idle"
  BY FetchInit, ConvInit DEF InstallInit, Conv!CInit
<1> QED BY <1>1 DEF InstallInit, InstallIInv, InstallTypeOK, ReceiptVouches, FetchIInv,
                    Conv!ConversionIInv

LEMMA InstallSteps == InstallIInv /\ [InstallNext]_allVars => InstallIInv'
<1> SUFFICES ASSUME InstallIInv, [InstallNext]_allVars PROVE InstallIInv'
  OBVIOUS
<1>0. /\ InstallTypeOK /\ FetchIInv /\ Conv!ConversionIInv /\ ReceiptVouches
      /\ phase # "convert" => cpc = "idle"
      /\ TypeOK /\ Conv!ConversionTypeOK
  BY DEF InstallIInv, InstallTypeOK
<1> DEFINE Kept ==
      /\ FetchIInv' /\ Conv!ConversionIInv' /\ ReceiptVouches'
      /\ phase' # "convert" => cpc' = "idle"
      /\ receipt' = NoFile \/ receipt' \in [source : Sources, tokenizer : Sources]
      /\ own' \in BOOLEAN
      /\ phase' \in {"stopped", "fetch", "convert", "validate", "load", "serving"}
<1>1. SUFFICES Kept
  BY DEF InstallIInv, InstallTypeOK, FetchIInv, Conv!ConversionIInv
<1>2. /\ receipt = NoFile \/ receipt \in [source : Sources, tokenizer : Sources]
      /\ own \in BOOLEAN
      /\ phase \in {"stopped", "fetch", "convert", "validate", "load", "serving"}
      /\ receipt # NoFile =>
           /\ container # NoFile /\ container.source = receipt.source
           /\ receipt.source \in Complete /\ receipt.tokenizer = receipt.source
      /\ phase = "serving" => receipt # NoFile
  BY <1>0 DEF InstallTypeOK, ReceiptVouches
<1>3. UNCHANGED vars => FetchIInv'
  BY <1>0, FetchNext
<1>4. UNCHANGED convVars => Conv!ConversionIInv' /\ UNCHANGED <<container, cpc, source>>
  BY <1>0, ConvStays DEF convVars
<1>5. cpc \in {"idle", "done", "failed"} => table = <<>> /\ cursor = 1 /\ dirty = 0
  BY <1>0 DEF Conv!ConversionIInv, Conv!StepsInOrder, Conv!Writing
<1>6. ASSUME UNCHANGED <<partial, cjournal, container, table, cursor, dirty>>,
             cpc \in {"idle", "done", "failed"}, cpc' = "idle", source' \in {source, NoFile}
      PROVE  Conv!ConversionIInv'
  <2>1. source' \in Sources \union {NoFile}
    BY <1>0, <1>6 DEF Conv!ConversionTypeOK
  <2> QED BY <1>0, <1>5, <1>6, <2>1, ConvLeavesDisk
<1>7. ASSUME NEW s \in Sources, Start(s) PROVE Kept
  <2>1. phase = "stopped" /\ cpc = "idle" /\ UNCHANGED <<receipt, own>>
    BY <1>0, <1>7 DEF Start
  <2>2. CASE Trusted /\ phase' = "load" /\ UNCHANGED <<vars, convVars>>
    BY <1>2, <1>3, <1>4, <2>1, <2>2 DEF ReceiptVouches
  <2>3. CASE phase' = "fetch" /\ Begin /\ UNCHANGED convVars
    <3>1. FetchIInv'
      BY <1>0, <2>3, FetchNext DEF Next
    <3> QED BY <1>2, <1>4, <2>1, <2>3, <3>1 DEF ReceiptVouches
  <2>4. CASE phase' = "convert" /\ Conv!CBegin(s) /\ UNCHANGED vars
    <3>1. Conv!ConversionIInv' /\ container' = container
      BY <1>0, <2>4, ConvBegins DEF Conv!CBegin, Conv!cdisk
    <3> QED BY <1>2, <1>3, <2>1, <2>4, <3>1 DEF ReceiptVouches
  <2> QED BY <1>7, <2>2, <2>3, <2>4 DEF Start
<1>9. CASE Fetch(Step) \/ Fetch(CutBetweenSteps) \/ Fetch(CutWrite) \/ Fetch(CutAppend)
  <2>1. Next /\ phase = "fetch" /\ UNCHANGED <<convVars, receipt, own, phase>>
    BY <1>9 DEF Fetch, Next
  <2>2. FetchIInv'
    BY <1>0, <2>1, FetchNext
  <2> QED BY <1>0, <1>2, <1>4, <2>1, <2>2 DEF ReceiptVouches
<1>10. CASE FetchOver
  <2>1. phase = "fetch" /\ UNCHANGED vars /\ cpc = "idle"
    BY <1>0, <1>10 DEF FetchOver
  <2>2. CASE Conv!CBegin(Pinned) /\ phase' = "convert" /\ UNCHANGED <<receipt, own>>
    <3>1. Pinned \in Sources
      BY DEF Sources
    <3>2. Conv!ConversionIInv' /\ container' = container
      BY <1>0, <2>2, <3>1, ConvBegins DEF Conv!CBegin, Conv!cdisk
    <3> QED BY <1>2, <1>3, <2>1, <2>2, <3>2 DEF ReceiptVouches
  <2>3. CASE Exit /\ UNCHANGED convVars
    BY <1>2, <1>3, <1>4, <2>1, <2>3 DEF ReceiptVouches, Exit
  <2> QED BY <1>10, <2>2, <2>3 DEF FetchOver
<1>11. CASE Convert(Conv!CStep) \/ Convert(Conv!CCut)
  <2>1. /\ phase = "convert" /\ UNCHANGED <<disk, pc, locals, receipt, own, phase>>
        /\ Conv!CStep \/ Conv!CCut
    BY <1>11 DEF Convert
  <2>2. Conv!ConversionIInv'
    BY <1>0, <2>1, ConvNext
  <2>3. faults' \in 0..MaxFaults /\ (container # NoFile => container' = container)
    BY <1>0, <2>1, ConvKeeps
  <2>4. FetchIInv'
    BY <1>0, <2>1, <2>3, FetchStays
  <2> QED BY <1>1, <1>2, <2>1, <2>2, <2>3, <2>4 DEF ReceiptVouches
<1>12. CASE ConvertOver
  <2>1. /\ phase = "convert" /\ cpc \in {"done", "failed"} /\ cpc' = "idle"
        /\ source' \in {source, NoFile} /\ phase' \in {"validate", "stopped"}
        /\ UNCHANGED <<vars, partial, cjournal, container, table, cursor, dirty, receipt, own>>
    BY <1>12 DEF ConvertOver
  <2>2. Conv!ConversionIInv'
    BY <1>6, <2>1
  <2> QED BY <1>2, <1>3, <2>1, <2>2 DEF ReceiptVouches
<1>13. CASE WriteReceipt
  <2> DEFINE r == [source |-> container.source, tokenizer |-> source]
  <2>1. /\ phase = "validate" /\ cpc = "idle" /\ cpc' = "idle" /\ source' = NoFile
        /\ UNCHANGED <<vars, partial, cjournal, container, table, cursor, dirty, own>>
    BY <1>0, <1>13 DEF WriteReceipt
  <2>2. Conv!ConversionIInv'
    BY <1>6, <2>1
  <2>3. CASE Valid(r) /\ receipt' = r /\ phase' = "load"
    <3>1. /\ container # NoFile /\ container.source = r.source
          /\ r.source \in Complete /\ r.tokenizer = r.source
      BY <2>3 DEF Valid
    <3>2. r.source \in Sources /\ r.tokenizer \in Sources
      BY <3>1 DEF Complete, Sources
    <3>3. r \in [source : Sources, tokenizer : Sources]
      BY <3>2
    <3> HIDE DEF r
    <3> QED BY <1>2, <1>3, <2>1, <2>2, <2>3, <3>1, <3>3 DEF ReceiptVouches
  <2>4. CASE phase' = "stopped" /\ UNCHANGED receipt
    BY <1>2, <1>3, <2>1, <2>2, <2>4 DEF ReceiptVouches
  <2> QED BY <1>13, <2>3, <2>4 DEF WriteReceipt
<1>14. CASE Load
  <2>1. /\ phase = "load" /\ UNCHANGED <<vars, convVars, receipt, own>>
        /\ phase' \in {"serving", "stopped"} /\ (phase' = "serving" => Trusted)
    BY <1>14 DEF Load
  <2> QED BY <1>0, <1>2, <1>3, <1>4, <2>1 DEF ReceiptVouches, Trusted
<1>15. CASE Stop
  <2>1. /\ phase # "convert" /\ phase' = "stopped" /\ source' = NoFile
        /\ UNCHANGED <<vars, partial, cjournal, container, cpc, table, cursor, dirty, receipt, own>>
    BY <1>15 DEF Stop, Exit
  <2>2. cpc = "idle" /\ cpc' = "idle"
    BY <1>0, <2>1
  <2>3. Conv!ConversionIInv'
    BY <1>6, <2>1, <2>2
  <2> QED BY <1>2, <1>3, <2>1, <2>2, <2>3 DEF ReceiptVouches
<1>16. CASE MoveFiles
  <2>1. own' = ~own /\ UNCHANGED <<vars, convVars, receipt, phase>>
    BY <1>16 DEF MoveFiles
  <2> QED BY <1>0, <1>2, <1>3, <1>4, <2>1 DEF ReceiptVouches
<1>17. CASE UNCHANGED allVars
  <2>1. UNCHANGED <<vars, convVars, receipt, own, phase>>
    BY <1>17 DEF allVars
  <2> QED BY <1>0, <1>2, <1>3, <1>4, <2>1 DEF ReceiptVouches
<1> QED BY <1>7, <1>9, <1>10, <1>11, <1>12, <1>13, <1>14, <1>15, <1>16, <1>17
        DEF InstallNext, InstallStep

(* Download, conversion and receipt keep their orders, whatever is cut off *)
(* where, resumed, started with another model or moved away.               *)
THEOREM InstallInvariance == InstallSpec => []InstallIInv
BY InstallStart, InstallSteps, PTL DEF InstallSpec

(* What is published is the checkpoint, and what the journal of a download *)
(* lists is on disk (source/mod.rs): a resumed fetch may skip it unread.   *)
THEOREM DownloadSoundness == InstallSpec => []DownloadIsSound
<1>1. InstallIInv => DownloadIsSound
  BY DEF InstallIInv, FetchIInv, DownloadIsSound
<1> QED BY <1>1, InstallInvariance, PTL

(* An installed container holds every payload of the one source it names,  *)
(* and a conversion's journal lists only what is on disk                   *)
(* (format/tqf/conversion.rs).                                             *)
THEOREM ConversionSoundness == InstallSpec => []ConversionIsSound
<1>1. InstallIInv => ConversionIsSound
  BY ConversionSound DEF InstallIInv
<1> QED BY <1>1, InstallInvariance, PTL

(* A receipt vouches for a complete container of the source it names, and  *)
(* no server runs without one (app/serve.rs, setup/receipt.rs).            *)
THEOREM Receipts == InstallSpec => []ReceiptVouches
<1>1. InstallIInv => ReceiptVouches
  BY DEF InstallIInv
<1> QED BY <1>1, InstallInvariance, PTL

(* No chunk is fetched that the journal lists (source/mod.rs): resuming    *)
(* repeats no transfer.                                                    *)
THEOREM TransferOnce == InstallSpec => NoRepeatedTransfer
<1>1. InstallIInv => [ReadRange => offset \notin Journalled]_vars
  <2> SUFFICES ASSUME InstallIInv, ReadRange PROVE offset \notin Journalled
    OBVIOUS
  <2>1. /\ offset \in Chunks \ skip
        /\ Journalled \subseteq skip \union {c \in Chunks : c < offset}
    BY DEF InstallIInv, FetchIInv, ReadRange
  <2> QED BY <2>1 DEF Chunks
<1> QED BY <1>1, InstallInvariance, PTL DEF NoRepeatedTransfer

(* As far as g goes, file holds g; behind its own end it reads as zeros.   *)
Covers(V, file, g) ==
  \E rest \in Seq(V) : file \o Padding(Len(g) - Len(file)) = g \o rest

LEMMA PaddingFacts ==
  ASSUME NEW V, Pad \in V, NEW n \in Int
  PROVE  /\ Padding(n) \in Seq(V) /\ Len(Padding(n)) = (IF n <= 0 THEN 0 ELSE n)
         /\ n <= 0 => Padding(n) = <<>>
<1> DEFINE m == IF n <= 0 THEN 0 ELSE n
           u == Padding(n)
<1>1. m \in Nat /\ 1..n = 1..m /\ (n <= 0 => m = 0)
  OBVIOUS
<1>2. u = [i \in 1..m |-> Pad]
  BY <1>1 DEF Padding
<1> HIDE DEF m, u
<1>3. DOMAIN u = 1..m /\ u = [i \in 1..m |-> u[i]] /\ \A i \in 1..m : u[i] \in V
  BY <1>2
<1>4. u \in Seq(V) /\ Len(u) = m
  BY <1>1, <1>3, FunctionIsSequenceOf
<1>5. m = 0 => u = <<>>
  BY <1>4, EmptySeq
<1> QED BY <1>1, <1>4, <1>5 DEF m, u

LEMMA NothingBehind ==
  ASSUME NEW V, NEW s \in Seq(V)
  PROVE  s \o <<>> = s /\ <<>> \o s = s
BY ConcatEmptySeq

(* write_all where g ends: the file then holds what was written behind g.  *)
LEMMA PutCovers ==
  ASSUME NEW V, Pad \in V, NEW f \in Seq(V), NEW g \in Seq(V), NEW c \in Seq(V), Covers(V, f, g)
  PROVE  /\ Put(f, Len(g), c) \in Seq(V) /\ g \o c \in Seq(V) /\ Len(g \o c) = Len(g) + Len(c)
         /\ Covers(V, Put(f, Len(g), c), g \o c)
         /\ Len(Put(f, Len(g), c)) = IF Len(f) <= Len(g) + Len(c) THEN Len(g) + Len(c) ELSE Len(f)
<1> DEFINE n == Len(g)
           m == Len(c)
           k == n + m + 1
           long == f \o Padding(n - Len(f))
           tail == SubSeq(long, k, Len(long))
           u == g \o c
<1>1. n \in Nat /\ m \in Nat /\ Len(f) \in Nat
  BY LenProperties
<1>2. PICK rest \in Seq(V) : long = g \o rest
  BY DEF Covers
<1>3. /\ Padding(n - Len(f)) \in Seq(V)
      /\ Len(Padding(n - Len(f))) = IF n - Len(f) <= 0 THEN 0 ELSE n - Len(f)
  <2> DEFINE d == n - Len(f)
  <2>1. d \in Int
    BY <1>1
  <2> HIDE DEF d
  <2>2. Padding(d) \in Seq(V) /\ Len(Padding(d)) = IF d <= 0 THEN 0 ELSE d
    BY <2>1, PaddingFacts
  <2> QED BY <2>2 DEF d
<1>4. long \in Seq(V) /\ Len(long) = Len(f) + Len(Padding(n - Len(f)))
  BY <1>3, CatFacts
<1>5. Len(long) = IF Len(f) <= n THEN n ELSE Len(f)
  <2> DEFINE a == Len(f)
             b == Len(Padding(n - Len(f)))
             x == Len(long)
  <2>1. a \in Nat /\ n \in Nat /\ b = (IF n - a <= 0 THEN 0 ELSE n - a) /\ x = a + b
    BY <1>1, <1>3, <1>4
  <2> HIDE DEF a, b, x, n
  <2>2. x = IF a <= n THEN n ELSE a
    BY <2>1
  <2> QED BY <2>2 DEF a, x
<1>6. SubSeq(long, 1, n) = g
  <2>1. SubSeq(g \o rest, 1, n) = SubSeq(g, 1, n)
    BY <1>1, SliceBefore
  <2> QED BY <1>2, <2>1, SubSeqFull
<1>7. tail \in Seq(V) /\ Len(tail) = IF k <= Len(long) THEN Len(long) - k + 1 ELSE 0
  <2> HIDE DEF k, long
  <2>1. Len(long) \in Nat /\ \A i \in 1..Len(long) : long[i] \in V
    BY <1>4, LenProperties
  <2>2. k \in Int /\ k >= 1
    BY <1>1 DEF k
  <2>3. \A i \in k..Len(long) : long[i] \in V
    BY <2>1, <2>2
  <2>4. k \in Int /\ Len(long) \in Int
    BY <2>1, <2>2
  <2> QED BY ONLY <2>3, <2>4, SubSeqProperties
<1>8. Put(f, n, c) = u \o tail
  <2>1. Put(f, n, c) = SubSeq(long, 1, n) \o c \o tail
    BY DEF Put
  <2> QED BY <1>6, <2>1
<1>9. u \in Seq(V) /\ Len(u) = n + m
  BY CatFacts
<1> HIDE DEF n, m, k, long, tail, u
<1>10. u \o tail \in Seq(V) /\ Len(u \o tail) = n + m + Len(tail)
  BY <1>7, <1>9, CatFacts
<1>11. Len(u \o tail) = IF Len(f) <= n + m THEN n + m ELSE Len(f)
  <2> DEFINE a == Len(f)
             x == Len(long)
             y == Len(tail)
  <2>1. /\ a \in Nat /\ n \in Nat /\ m \in Nat /\ x = (IF a <= n THEN n ELSE a)
        /\ y = (IF n + m + 1 <= x THEN x - (n + m + 1) + 1 ELSE 0)
    BY <1>1, <1>5, <1>7 DEF k
  <2> HIDE DEF a, x, y
  <2>2. n + m + y = IF a <= n + m THEN n + m ELSE a
    BY <2>1
  <2> QED BY <1>10, <2>2 DEF a, y
<1>12. Covers(V, u \o tail, u)
  <2>1. Len(u) - Len(u \o tail) \in Int /\ Len(u) - Len(u \o tail) <= 0
    BY <1>1, <1>9, <1>11
  <2>2. Padding(Len(u) - Len(u \o tail)) = <<>>
    BY <2>1, PaddingFacts
  <2>3. (u \o tail) \o <<>> = u \o tail
    BY <1>10, NothingBehind
  <2> QED BY <1>7, <2>2, <2>3 DEF Covers
<1> QED BY <1>8, <1>9, <1>10, <1>11, <1>12 DEF n, m, u

(* A file that is as long as what it holds holds nothing else.             *)
LEMMA CoversExactly ==
  ASSUME NEW V, Pad \in V, NEW f \in Seq(V), NEW g \in Seq(V), Covers(V, f, g), Len(f) <= Len(g)
  PROVE  f \o Padding(Len(g) - Len(f)) = g
<1> DEFINE p == Padding(Len(g) - Len(f))
<1>1. Len(f) \in Nat /\ Len(g) \in Nat
  BY LenProperties
<1>2. p \in Seq(V) /\ Len(p) = Len(g) - Len(f)
  <2>1. Len(g) - Len(f) \in Int /\ Len(g) - Len(f) = IF Len(g) - Len(f) <= 0 THEN 0 ELSE Len(g) - Len(f)
    BY <1>1
  <2> QED BY <2>1, PaddingFacts
<1>3. PICK rest \in Seq(V) : f \o p = g \o rest
  BY DEF Covers
<1> HIDE DEF p
<1>4. Len(rest) \in Nat /\ Len(f \o p) = Len(g) /\ Len(g \o rest) = Len(g) + Len(rest)
  BY <1>1, <1>2, CatFacts
<1>5. rest = <<>>
  <2>1. Len(rest) = 0
    BY <1>1, <1>3, <1>4
  <2> QED BY <2>1, EmptySeq
<1> QED BY <1>3, <1>5, NothingBehind DEF p

LEMMA CoversItself ==
  ASSUME NEW V, Pad \in V, NEW g \in Seq(V)
  PROVE  Covers(V, g, g)
<1>1. Len(g) \in Nat /\ Len(g) - Len(g) = 0
  BY LenProperties
<1>2. Padding(Len(g) - Len(g)) = <<>>
  BY <1>1, PaddingFacts
<1>3. <<>> \in Seq(V)
  OBVIOUS
<1> QED BY <1>2, <1>3 DEF Covers

LEMMA SameWhenCovered ==
  ASSUME NEW V, Pad \in V, NEW f \in Seq(V), NEW g \in Seq(V), Covers(V, f, g), Len(f) = Len(g)
  PROVE  f = g
<1>1. Len(f) \in Nat /\ Len(g) - Len(f) = 0
  BY LenProperties
<1>2. Padding(Len(g) - Len(f)) = <<>>
  BY <1>1, PaddingFacts
<1>3. f \o Padding(Len(g) - Len(f)) = g
  BY <1>1, CoversExactly
<1> QED BY <1>2, <1>3, NothingBehind

(* A writer that is at its file's end only appends.                        *)
LEMMA PutAppends ==
  ASSUME NEW V, Pad \in V, NEW g \in Seq(V), NEW c \in Seq(V)
  PROVE  Put(g, Len(g), c) = g \o c
<1>1. Covers(V, g, g)
  BY CoversItself
<1>2. Len(g) \in Nat /\ Len(c) \in Nat
  BY LenProperties
<1> DEFINE u == Put(g, Len(g), c)
<1>3. /\ u \in Seq(V) /\ g \o c \in Seq(V) /\ Len(g \o c) = Len(g) + Len(c)
      /\ Covers(V, u, g \o c) /\ Len(u) = IF Len(g) <= Len(g) + Len(c) THEN Len(g) + Len(c) ELSE Len(g)
  BY <1>1, PutCovers
<1> HIDE DEF u
<1>4. Len(u) = Len(g \o c)
  BY <1>2, <1>3
<1>5. u = g \o c
  BY <1>3, <1>4, SameWhenCovered
<1> QED BY <1>5 DEF u

-----------------------------------------------------------------------------
LEMMA AlignUpFacts ==
  ASSUME NEW n \in Nat, NEW a \in Nat \ {0}
  PROVE  AlignUp(n, a) \in Nat /\ AlignUp(n, a) >= n
<1> DEFINE m == n + a - 1
           q == m \div a
           r == m % a
<1>1. m \in Nat
  OBVIOUS
<1>2. q \in Nat /\ m = a * q + r /\ r \in 0..(a - 1)
  <2> HIDE DEF m
  <2> QED BY <1>1, QuotientIsNatural, Division, RemainderIsLess
<1>3. AlignUp(n, a) = q * a
  BY DEF AlignUp
<1> HIDE DEF q, r
<1>4. q * a = a * q /\ a * q \in Nat
  BY <1>2
<1> DEFINE p == a * q
<1> HIDE DEF p
<1>5. p \in Nat /\ n + a - 1 = p + r /\ r \in 0..(a - 1)
  BY <1>2, <1>4 DEF p
<1>6. p >= n
  BY <1>5
<1> QED BY <1>3, <1>4, <1>5, <1>6 DEF p

(* A sequence, of whatever.                                                *)
IsSeq(s) == s \in Seq(ToSet(s))

LEMMA SequenceIs ==
  ASSUME NEW V, NEW s \in Seq(V)
  PROVE  IsSeq(s)
<1>1. Len(s) \in Nat /\ DOMAIN s = 1..Len(s) /\ s = [i \in 1..Len(s) |-> s[i]]
  BY LenProperties
<1>2. \A i \in 1..Len(s) : s[i] \in ToSet(s)
  BY <1>1 DEF ToSet
<1> QED BY <1>1, <1>2, FunctionIsSequenceOf DEF IsSeq

LEMMA SequenceWithin ==
  ASSUME NEW s, IsSeq(s), NEW V, ToSet(s) \subseteq V
  PROVE  s \in Seq(V)
<1>1. Len(s) \in Nat /\ DOMAIN s = 1..Len(s) /\ s = [i \in 1..Len(s) |-> s[i]]
      /\ \A i \in 1..Len(s) : s[i] \in ToSet(s)
  BY LenProperties DEF IsSeq
<1> QED BY <1>1, FunctionIsSequenceOf

LEMMA SequenceGrows ==
  ASSUME NEW s, IsSeq(s), NEW e
  PROVE  IsSeq(Append(s, e)) /\ ToSet(Append(s, e)) = ToSet(s) \union {e}
<1> DEFINE V == ToSet(s) \union {e}
<1>1. s \in Seq(V) /\ e \in V
  BY SequenceWithin
<1> HIDE DEF V
<1>2. Append(s, e) \in Seq(V) /\ ToSet(Append(s, e)) = ToSet(s) \union {e}
  BY <1>1, AppendFacts
<1> QED BY <1>2, SequenceIs

LEMMA FunctionIs ==
  ASSUME NEW n \in Nat, NEW f, f = [i \in 1..n |-> f[i]]
  PROVE  IsSeq(f) /\ Len(f) = n
<1>1. DOMAIN f = 1..n /\ \A i \in 1..n : f[i] \in {f[j] : j \in 1..n}
  OBVIOUS
<1>2. f \in Seq({f[j] : j \in 1..n}) /\ Len(f) = n
  BY <1>1, FunctionIsSequenceOf
<1> QED BY <1>2, SequenceIs

(* What the theorem takes of a plan, and of the sizes.                     *)
Sizes ==
  /\ ExpertAlignment \in Nat \ {0} /\ TableAlignment \in Nat \ {0}
  /\ \A width \in DOMAIN GateUpTile :
       GateUpTile[width] \in Nat \ {0} /\ DownTile[width] \in Nat \ {0}

IsItem(V, item) ==
  IF item.kind = "extent" THEN item.align \in Nat \ {0} /\ item.data \in Seq(V)
  ELSE /\ {item.gate, item.up, item.down} \subseteq Seq(V)
       /\ item.width \in DOMAIN GateUpTile \union {"whole"}

LEMMA SuperblockSizeFacts ==
  ASSUME Sizes
  PROVE  SuperblockSize \in Nat
<1>1. Len(Fields) \in Nat
  BY DEF Fields
<1> QED BY <1>1, AlignUpFacts DEF SuperblockSize, Sizes

LEMMA TilesAre ==
  ASSUME Sizes, NEW V, NEW item, item.kind # "extent", IsItem(V, item)
  PROVE  IsSeq(TilesOf(item.width, item.gate, item.up, item.down))
<1> DEFINE width == item.width
           gate  == item.gate
           up    == item.up
           down  == item.down
<1>1. gate \in Seq(V) /\ up \in Seq(V) /\ down \in Seq(V) /\ width \in DOMAIN GateUpTile \union {"whole"}
  BY DEF IsItem
<1>2. Len(gate) \in Nat /\ Len(up) \in Nat /\ Len(down) \in Nat
  BY <1>1, LenProperties
<1> HIDE DEF width, gate, up, down
<1>3. IsSeq(WholeTiles(gate, up, down))
  <2> DEFINE a == [matrix |-> "gateUp", offset |-> 0, bytes |-> Len(gate) + Len(up)]
             b == [matrix |-> "down", offset |-> Len(gate) + Len(up), bytes |-> Len(down)]
  <2>1. WholeTiles(gate, up, down) = <<a, b>>
    BY DEF WholeTiles
  <2> HIDE DEF a, b
  <2>2. <<a, b>> \in Seq({a, b})
    OBVIOUS
  <2> QED BY <2>1, <2>2, SequenceIs
<1>4. ASSUME width \in DOMAIN GateUpTile PROVE width = "whole" \/ IsSeq(TilePlan(width, gate, up, down))
  <2> SUFFICES ASSUME width # "whole" PROVE IsSeq(TilePlan(width, gate, up, down))
    OBVIOUS
  <2> DEFINE g == GateUpTile[width]
             d == DownTile[width]
             rows == (Len(gate) + Len(up)) \div g
             n == rows + Len(down) \div d
             u == TilePlan(width, gate, up, down)
  <2>1. g \in Nat \ {0} /\ d \in Nat \ {0}
    BY <1>4 DEF Sizes
  <2>2. rows \in Nat /\ Len(down) \div d \in Nat
    <3> HIDE DEF g, d
    <3>1. Len(gate) + Len(up) \in Nat
      BY <1>2
    <3> QED BY <1>2, <2>1, <3>1, QuotientIsNatural
  <2>3. u = [t \in 1..n |->
              IF t <= rows THEN [matrix |-> "gateUp", offset |-> (t - 1) * g, bytes |-> g]
              ELSE [matrix |-> "down", offset |-> rows * g + (t - rows - 1) * d, bytes |-> d]]
    BY DEF TilePlan
  <2> HIDE DEF u, rows, g, d
  <2>4. n \in Nat
    BY <2>2
  <2> HIDE DEF n
  <2>5. u = [t \in 1..n |-> u[t]]
    BY <2>3
  <2>6. IsSeq(u)
    BY <2>4, <2>5, FunctionIs
  <2> QED BY <2>6 DEF u
<1>5. IsSeq(TilesOf(width, gate, up, down))
  BY <1>1, <1>3, <1>4 DEF TilesOf, TilePlan
<1> QED BY <1>5 DEF width, gate, up, down
-----------------------------------------------------------------------------
Writer(V, w) ==
  /\ w = [file |-> w.file, next |-> w.next, extents |-> w.extents, experts |-> w.experts]
  /\ w.file \in Seq(V) /\ w.next \in Nat
  /\ IsSeq(w.extents) /\ IsSeq(w.experts)
  /\ \A e \in ToSet(w.experts) : IsSeq(e.tiles) /\ IsSeq(e.tileDigests)

Payloads(w) == ToSet(w.extents) \union ToSet(w.experts)

(* A writer that was never broken off is at its file's end, behind the     *)
(* last payload.                                                           *)
Unbroken(V, w) ==
  /\ Writer(V, w) /\ Len(w.file) = w.next /\ SuperblockSize <= w.next
  /\ \A e \in Payloads(w) : e.offset + e.bytes \in Nat /\ e.offset + e.bytes <= w.next
  /\ w.next \in {SuperblockSize} \union {e.offset + e.bytes : e \in Payloads(w)}

(* A resumed writer w is where the unbroken writer u is: only what stands  *)
(* behind the cursor differs.                                              *)
Alike(V, w, u) ==
  /\ Writer(V, w) /\ w.next = u.next /\ w.extents = u.extents /\ w.experts = u.experts
  /\ Covers(V, w.file, u.file)

StaysWithin(w, length) == Len(w.file) <= length \/ Len(w.file) = w.next

(* pad_to and write_all, by both.                                          *)
LEMMA BothPut ==
  ASSUME NEW V, Pad \in V, NEW w, NEW u, Alike(V, w, u), Unbroken(V, u),
         NEW at \in Nat, at >= u.next, NEW cells \in Seq(V), NEW length \in Nat, StaysWithin(w, length)
  PROVE  /\ IsPrefix(u.file, PadAndPut(u, at, cells))
         /\ PadAndPut(u, at, cells) \in Seq(V) /\ Len(PadAndPut(u, at, cells)) = at + Len(cells)
         /\ PadAndPut(w, at, cells) \in Seq(V)
         /\ Covers(V, PadAndPut(w, at, cells), PadAndPut(u, at, cells))
         /\ Len(PadAndPut(w, at, cells)) <= length \/ Len(PadAndPut(w, at, cells)) = at + Len(cells)
<1> DEFINE p == Padding(at - u.next) \o cells
           f == w.file
           g == u.file
           a == PadAndPut(w, at, cells)
           b == PadAndPut(u, at, cells)
           n == u.next
<1>1. n \in Nat /\ Len(g) = n /\ f \in Seq(V) /\ g \in Seq(V) /\ w.next = n /\ Covers(V, f, g)
  BY DEF Alike, Unbroken, Writer
<1>2. Len(f) \in Nat /\ Len(cells) \in Nat /\ (Len(f) <= length \/ Len(f) = n)
  BY <1>1, LenProperties DEF StaysWithin
<1>3. p \in Seq(V) /\ Len(p) = at - n + Len(cells)
  <2> HIDE DEF n
  <2>1. at - n \in Int /\ (IF at - n <= 0 THEN 0 ELSE at - n) = at - n
    BY <1>1 DEF n
  <2>2. Padding(at - n) \in Seq(V) /\ Len(Padding(at - n)) = at - n
    BY <2>1, PaddingFacts
  <2>3. Padding(at - n) \o cells \in Seq(V) /\ Len(Padding(at - n) \o cells) = at - n + Len(cells)
    BY <2>2, CatFacts
  <2> QED BY <2>3 DEF n
<1>4. a = Put(f, Len(g), p) /\ b = Put(g, Len(g), p)
  BY <1>1 DEF PadAndPut
<1>5. at >= n
  OBVIOUS
<1> HIDE DEF a, b, f, g, n, p
<1>6. b = g \o p
  BY <1>1, <1>3, <1>4, PutAppends
<1>7. /\ a \in Seq(V) /\ g \o p \in Seq(V) /\ Len(g \o p) = n + Len(p) /\ Covers(V, a, g \o p)
      /\ Len(a) = IF Len(f) <= n + Len(p) THEN n + Len(p) ELSE Len(f)
  <2> DEFINE x == Put(f, Len(g), p)
  <2>1. /\ x \in Seq(V) /\ g \o p \in Seq(V) /\ Len(g \o p) = Len(g) + Len(p) /\ Covers(V, x, g \o p)
        /\ Len(x) = IF Len(f) <= Len(g) + Len(p) THEN Len(g) + Len(p) ELSE Len(f)
    BY <1>1, <1>3, PutCovers
  <2> HIDE DEF x
  <2>2. a = x
    BY <1>4 DEF x
  <2> QED BY ONLY <1>1, <2>1, <2>2
<1>8. n + Len(p) = at + Len(cells)
  BY <1>1, <1>2, <1>3
<1>9. Len(a) <= length \/ Len(a) = at + Len(cells)
  <2> DEFINE x == Len(f)
             y == at + Len(cells)
             z == Len(a)
  <2>1. x \in Nat /\ y \in Nat /\ n <= y /\ (x <= length \/ x = n) /\ z = IF x <= y THEN y ELSE x
    BY <1>1, <1>2, <1>5, <1>7, <1>8
  <2> HIDE DEF x, y, z
  <2>2. z <= length \/ z = y
    BY <1>1, <2>1
  <2> QED BY <2>2 DEF y, z
<1>10. IsPrefix(g, b)
  BY <1>1, <1>3, <1>6, PrefixOfConcat
<1> QED BY <1>3, <1>6, <1>7, <1>8, <1>9, <1>10 DEF a, b, g

(* The writer behind a payload.                                            *)
Advanced(w, at, cells, extents, experts) ==
  [file |-> PadAndPut(w, at, cells), next |-> at + Len(cells), extents |-> extents, experts |-> experts]

LEMMA BothAdvance ==
  ASSUME Sizes, NEW V, Pad \in V, NEW w, NEW u, Alike(V, w, u), Unbroken(V, u),
         NEW at \in Nat, at >= u.next, NEW cells \in Seq(V), NEW length \in Nat, StaysWithin(w, length),
         NEW e, e.offset = at, e.bytes = Len(cells), NEW extents, NEW experts,
         \/ extents = Append(u.extents, e) /\ experts = u.experts
         \/ /\ extents = u.extents /\ experts = Append(u.experts, e)
            /\ IsSeq(e.tiles) /\ IsSeq(e.tileDigests)
  PROVE  LET x == Advanced(w, at, cells, extents, experts)
             y == Advanced(u, at, cells, extents, experts)
         IN /\ Alike(V, x, y) /\ Unbroken(V, y) /\ StaysWithin(x, length)
            /\ IsPrefix(u.file, y.file)
<1> DEFINE x == Advanced(w, at, cells, extents, experts)
           y == Advanced(u, at, cells, extents, experts)
           end == at + Len(cells)
<1>1. /\ IsPrefix(u.file, y.file)
      /\ y.file \in Seq(V) /\ Len(y.file) = end /\ x.file \in Seq(V) /\ Covers(V, x.file, y.file)
      /\ Len(x.file) <= length \/ Len(x.file) = end
  <2>1. x.file = PadAndPut(w, at, cells) /\ y.file = PadAndPut(u, at, cells)
    BY DEF Advanced
  <2> DEFINE a == PadAndPut(w, at, cells)
             b == PadAndPut(u, at, cells)
  <2> HIDE DEF x, y
  <2>2. /\ IsPrefix(u.file, b)
        /\ b \in Seq(V) /\ Len(b) = end /\ a \in Seq(V) /\ Covers(V, a, b)
        /\ Len(a) <= length \/ Len(a) = end
    <3>1. IsPrefix(u.file, b)
      BY BothPut
    <3>2. b \in Seq(V) /\ Len(b) = end
      BY BothPut
    <3>3. a \in Seq(V) /\ Covers(V, a, b)
      BY BothPut
    <3>4. Len(a) <= length \/ Len(a) = end
      BY BothPut
    <3> QED BY <3>1, <3>2, <3>3, <3>4
  <2> HIDE DEF a, b, end
  <2> QED BY <2>1, <2>2 DEF a, b
<1>2. /\ x.next = end /\ y.next = end /\ x.extents = extents /\ x.experts = experts
      /\ y.extents = extents /\ y.experts = experts
      /\ x = [file |-> x.file, next |-> x.next, extents |-> x.extents, experts |-> x.experts]
      /\ y = [file |-> y.file, next |-> y.next, extents |-> y.extents, experts |-> y.experts]
  BY DEF Advanced
<1> HIDE DEF x, y
<1>3. /\ IsSeq(u.extents) /\ IsSeq(u.experts)
      /\ \A s \in ToSet(u.experts) : IsSeq(s.tiles) /\ IsSeq(s.tileDigests)
      /\ u.next \in Nat /\ SuperblockSize <= u.next
      /\ \A s \in Payloads(u) : s.offset + s.bytes \in Nat /\ s.offset + s.bytes <= u.next
  BY DEF Unbroken, Writer
<1>4. /\ IsSeq(extents) /\ IsSeq(experts)
      /\ \A s \in ToSet(experts) : IsSeq(s.tiles) /\ IsSeq(s.tileDigests)
      /\ ToSet(extents) \union ToSet(experts) = Payloads(u) \union {e}
  <2>1. CASE extents = Append(u.extents, e) /\ experts = u.experts
    <3>1. IsSeq(extents) /\ ToSet(extents) = ToSet(u.extents) \union {e}
      BY <1>3, <2>1, SequenceGrows
    <3> QED BY <1>3, <2>1, <3>1 DEF Payloads
  <2>2. CASE /\ extents = u.extents /\ experts = Append(u.experts, e)
             /\ IsSeq(e.tiles) /\ IsSeq(e.tileDigests)
    <3>1. IsSeq(experts) /\ ToSet(experts) = ToSet(u.experts) \union {e}
      BY <1>3, <2>2, SequenceGrows
    <3> QED BY <1>3, <2>2, <3>1 DEF Payloads
  <2> QED BY <2>1, <2>2
<1>5. end \in Nat /\ u.next <= end /\ Len(cells) \in Nat /\ e.offset + e.bytes = end
  BY <1>3, LenProperties
<1> HIDE DEF end
<1>6. Writer(V, x) /\ Writer(V, y)
  BY <1>1, <1>2, <1>4, <1>5 DEF Writer
<1>7. Payloads(y) = Payloads(u) \union {e}
  BY <1>2, <1>4 DEF Payloads
<1>8. ASSUME NEW s \in Payloads(y) PROVE s.offset + s.bytes \in Nat /\ s.offset + s.bytes <= end
  <2>1. CASE s = e
    BY <1>5, <2>1
  <2>2. CASE s \in Payloads(u)
    BY <1>3, <1>5, <2>2
  <2> QED BY <1>7, <2>1, <2>2
<1>9. Unbroken(V, y)
  <2>1. SuperblockSize <= end
    <3>1. SuperblockSize \in Nat
      BY SuperblockSizeFacts
    <3> QED BY <1>3, <1>5, <3>1
  <2>2. e.offset + e.bytes \in {s.offset + s.bytes : s \in Payloads(y)}
    BY <1>7
  <2> QED BY <1>1, <1>2, <1>5, <1>6, <1>8, <2>1, <2>2 DEF Unbroken
<1>10. Alike(V, x, y)
  BY <1>1, <1>2, <1>6 DEF Alike
<1>11. StaysWithin(x, length)
  BY <1>1, <1>2 DEF StaysWithin
<1> QED BY <1>1, <1>9, <1>10, <1>11 DEF x, y

-----------------------------------------------------------------------------
(* The writer has the item already.                                        *)
Has(w, item) ==
  IF item.kind = "extent" THEN \E e \in ToSet(w.extents) : e.name = item.name
  ELSE \E e \in ToSet(w.experts) : e.layer = item.layer /\ e.expert = item.expert

ExtentEntry(item, at) ==
  [role |-> item.role, name |-> item.name, layer |-> item.layer, section |-> item.section,
   offset |-> at, bytes |-> Len(item.data), digest |-> item.data]

ExpertEntry(item, at) ==
  LET cells == Superextent(item)
      tiles == TilesOf(item.width, item.gate, item.up, item.down)
  IN  [layer |-> item.layer, expert |-> item.expert,
       offset |-> at, bytes |-> Len(cells), tiles |-> tiles, digest |-> cells,
       tileDigests |-> IF item.width = "whole" THEN <<>>
         ELSE [t \in DOMAIN tiles |-> TileDigest(tiles[t], item.gate, item.up, item.down)]]

LEMMA WhatWriteDoes ==
  ASSUME NEW V, NEW w, Writer(V, w), NEW item
  PROVE  /\ Has(w, item) => Write(w, item) = w
         /\ ~Has(w, item) /\ item.kind = "extent" =>
              LET at == AlignUp(w.next, item.align) IN
              Write(w, item) = Advanced(w, at, item.data,
                                        Append(w.extents, ExtentEntry(item, at)), w.experts)
         /\ ~Has(w, item) /\ item.kind # "extent" =>
              LET at == AlignUp(w.next, ExpertAlignment) IN
              Write(w, item) = Advanced(w, at, Superextent(item),
                                        w.extents, Append(w.experts, ExpertEntry(item, at)))
<1> DEFINE f == w.file
           n == w.next
           x == w.extents
           y == w.experts
<1>1. w = [file |-> f, next |-> n, extents |-> x, experts |-> y]
  BY DEF Writer
<1>2. ASSUME NEW F, NEW N, NEW X
      PROVE  [w EXCEPT !.file = F, !.next = N, !.extents = Append(@, X)]
               = [file |-> F, next |-> N, extents |-> Append(x, X), experts |-> y]
  <2>1. /\ w.extents = x /\ w.experts = y /\ DOMAIN w = {"file", "next", "extents", "experts"}
        /\ w = [i \in DOMAIN w |-> w[i]]
    BY <1>1
  <2> DEFINE r == [w EXCEPT !.file = F, !.next = N, !.extents = Append(@, X)]
  <2> HIDE DEF f, n, x, y
  <2>2. r = [i \in DOMAIN r |-> r[i]] /\ DOMAIN r = {"file", "next", "extents", "experts"}
    BY <2>1
  <2>3. r.file = F /\ r.next = N /\ r.extents = Append(x, X) /\ r.experts = y
    BY <2>1
  <2> HIDE DEF r
  <2>4. r = [file |-> F, next |-> N, extents |-> Append(x, X), experts |-> y]
    BY <2>2, <2>3
  <2> QED BY <2>4 DEF r
<1>3. ASSUME NEW F, NEW N, NEW X
      PROVE  [w EXCEPT !.file = F, !.next = N, !.experts = Append(@, X)]
               = [file |-> F, next |-> N, extents |-> x, experts |-> Append(y, X)]
  <2>1. /\ w.extents = x /\ w.experts = y /\ DOMAIN w = {"file", "next", "extents", "experts"}
        /\ w = [i \in DOMAIN w |-> w[i]]
    BY <1>1
  <2> DEFINE r == [w EXCEPT !.file = F, !.next = N, !.experts = Append(@, X)]
  <2> HIDE DEF f, n, x, y
  <2>2. r = [i \in DOMAIN r |-> r[i]] /\ DOMAIN r = {"file", "next", "extents", "experts"}
    BY <2>1
  <2>3. r.file = F /\ r.next = N /\ r.extents = x /\ r.experts = Append(y, X)
    BY <2>1
  <2> HIDE DEF r
  <2>4. r = [file |-> F, next |-> N, extents |-> x, experts |-> Append(y, X)]
    BY <2>2, <2>3
  <2> QED BY <2>4 DEF r
<1>4. Has(w, item) => Write(w, item) = w
  BY DEF Has, Write, WriteExtent, WriteExpert
<1>5. ASSUME ~Has(w, item), item.kind = "extent"
      PROVE  LET at == AlignUp(w.next, item.align) IN
             Write(w, item) = Advanced(w, at, item.data,
                                       Append(w.extents, ExtentEntry(item, at)), w.experts)
  <2> DEFINE at == AlignUp(w.next, item.align)
             F == PadAndPut(w, at, item.data)
             N == at + Len(item.data)
             X == ExtentEntry(item, at)
  <2>1. Write(w, item) = [w EXCEPT !.file = F, !.next = N, !.extents = Append(@, X)]
    BY <1>5 DEF Has, Write, WriteExtent, ExtentEntry
  <2> HIDE DEF F, N, X
  <2>2. Write(w, item) = [file |-> F, next |-> N, extents |-> Append(x, X), experts |-> y]
    BY <1>2, <2>1
  <2> QED BY <2>2 DEF F, N, X, Advanced
<1>6. ASSUME ~Has(w, item), item.kind # "extent"
      PROVE  LET at == AlignUp(w.next, ExpertAlignment) IN
             Write(w, item) = Advanced(w, at, Superextent(item),
                                       w.extents, Append(w.experts, ExpertEntry(item, at)))
  <2> DEFINE at == AlignUp(w.next, ExpertAlignment)
             F == PadAndPut(w, at, Superextent(item))
             N == at + Len(Superextent(item))
             X == ExpertEntry(item, at)
  <2>1. Write(w, item) = [w EXCEPT !.file = F, !.next = N, !.experts = Append(@, X)]
    BY <1>6 DEF Has, Write, WriteExpert, ExpertEntry
  <2> HIDE DEF F, N, X
  <2>2. Write(w, item) = [file |-> F, next |-> N, extents |-> x, experts |-> Append(y, X)]
    BY <1>3, <2>1
  <2> QED BY <2>2 DEF F, N, X, Advanced
<1> QED BY <1>4, <1>5, <1>6

(* What is written is found, and stays found.                              *)
LEMMA WrittenIsFound ==
  ASSUME NEW V, NEW w, Writer(V, w), NEW item
  PROVE  /\ Has(Write(w, item), item)
         /\ \A x : Has(w, x) => Has(Write(w, item), x)
<1> DEFINE u == Write(w, item)
<1>1. CASE Has(w, item)
  BY <1>1, WhatWriteDoes
<1>2. CASE ~Has(w, item) /\ item.kind = "extent"
  <2> DEFINE at == AlignUp(w.next, item.align)
             e == ExtentEntry(item, at)
  <2>1. u = Advanced(w, at, item.data, Append(w.extents, e), w.experts)
    BY <1>2, WhatWriteDoes
  <2>2. u.extents = Append(w.extents, e) /\ u.experts = w.experts /\ e.name = item.name
    BY <2>1 DEF Advanced, ExtentEntry
  <2> HIDE DEF u, e, at
  <2>3. ToSet(u.extents) = ToSet(w.extents) \union {e}
    BY <2>2, SequenceGrows DEF Writer
  <2>4. Has(u, item) /\ \A x : Has(w, x) => Has(u, x)
    BY <1>2, <2>2, <2>3 DEF Has
  <2> QED BY <2>4 DEF u
<1>3. CASE ~Has(w, item) /\ item.kind # "extent"
  <2> DEFINE at == AlignUp(w.next, ExpertAlignment)
             e == ExpertEntry(item, at)
  <2>1. u = Advanced(w, at, Superextent(item), w.extents, Append(w.experts, e))
    BY <1>3, WhatWriteDoes
  <2>2. /\ u.extents = w.extents /\ u.experts = Append(w.experts, e)
        /\ e.layer = item.layer /\ e.expert = item.expert
    BY <2>1 DEF Advanced, ExpertEntry
  <2> HIDE DEF u, e, at
  <2>3. ToSet(u.experts) = ToSet(w.experts) \union {e}
    BY <2>2, SequenceGrows DEF Writer
  <2>4. Has(u, item) /\ \A x : Has(w, x) => Has(u, x)
    BY <1>3, <2>2, <2>3 DEF Has
  <2> QED BY <2>4 DEF u
<1> QED BY <1>1, <1>2, <1>3

LEMMA BothWrite ==
  ASSUME Sizes, NEW V, Pad \in V, NEW w, NEW u, Alike(V, w, u), Unbroken(V, u),
         NEW length \in Nat, StaysWithin(w, length), NEW item, IsItem(V, item)
  PROVE  /\ Alike(V, Write(w, item), Write(u, item)) /\ Unbroken(V, Write(u, item))
         /\ StaysWithin(Write(w, item), length) /\ IsPrefix(u.file, Write(u, item).file)
<1>1. Writer(V, w) /\ Writer(V, u) /\ w.next = u.next /\ w.extents = u.extents /\ w.experts = u.experts
  BY DEF Alike, Unbroken
<1>2. (Has(w, item) <=> Has(u, item)) /\ u.next \in Nat /\ u.file \in Seq(V)
  BY <1>1 DEF Has, Writer
<1>3. CASE Has(u, item)
  <2>1. Write(w, item) = w /\ Write(u, item) = u
    BY <1>1, <1>2, <1>3, WhatWriteDoes
  <2>2. IsPrefix(u.file, u.file)
    <3>1. Len(u.file) \in Nat
      BY <1>2, LenProperties
    <3> QED BY <3>1 DEF IsPrefix
  <2> QED BY <2>1, <2>2
<1>4. CASE ~Has(u, item) /\ item.kind = "extent"
  <2> DEFINE at == AlignUp(u.next, item.align)
             e == ExtentEntry(item, at)
             cells == item.data
             extents == Append(u.extents, e)
             experts == u.experts
  <2>1. /\ Write(w, item) = Advanced(w, at, cells, extents, experts)
        /\ Write(u, item) = Advanced(u, at, cells, extents, experts)
    <3>1. Write(u, item) = Advanced(u, at, cells, extents, experts)
      BY <1>1, <1>4, WhatWriteDoes
    <3>2. Write(w, item) = Advanced(w, at, cells, extents, experts)
      BY <1>1, <1>2, <1>4, WhatWriteDoes
    <3> QED BY <3>1, <3>2
  <2>2. at \in Nat /\ at >= u.next /\ cells \in Seq(V)
    BY <1>2, <1>4, AlignUpFacts DEF IsItem
  <2>3. e.offset = at /\ e.bytes = Len(cells)
    BY DEF ExtentEntry
  <2> HIDE DEF at, e, cells
  <2>4. extents = Append(u.extents, e) /\ experts = u.experts
    OBVIOUS
  <2> HIDE DEF extents, experts
  <2> DEFINE x == Advanced(w, at, cells, extents, experts)
             y == Advanced(u, at, cells, extents, experts)
  <2>5. Alike(V, x, y) /\ Unbroken(V, y) /\ StaysWithin(x, length) /\ IsPrefix(u.file, y.file)
    BY <2>2, <2>3, <2>4, BothAdvance
  <2> QED BY <2>1, <2>5
<1>5. CASE ~Has(u, item) /\ item.kind # "extent"
  <2> DEFINE at == AlignUp(u.next, ExpertAlignment)
             e == ExpertEntry(item, at)
             cells == Superextent(item)
             extents == u.extents
             experts == Append(u.experts, e)
  <2>1. /\ Write(w, item) = Advanced(w, at, cells, extents, experts)
        /\ Write(u, item) = Advanced(u, at, cells, extents, experts)
    <3>1. Write(u, item) = Advanced(u, at, cells, extents, experts)
      BY <1>1, <1>5, WhatWriteDoes
    <3>2. Write(w, item) = Advanced(w, at, cells, extents, experts)
      BY <1>1, <1>2, <1>5, WhatWriteDoes
    <3> QED BY <3>1, <3>2
  <2>2. at \in Nat /\ at >= u.next
    BY <1>2, AlignUpFacts DEF Sizes
  <2>3. cells \in Seq(V)
    <3>1. item.gate \in Seq(V) /\ item.up \in Seq(V) /\ item.down \in Seq(V)
      BY <1>5 DEF IsItem
    <3>2. item.gate \o item.up \in Seq(V)
      BY <3>1, CatFacts
    <3>3. (item.gate \o item.up) \o item.down \in Seq(V)
      BY <3>1, <3>2, CatFacts
    <3> QED BY <3>3 DEF Superextent
  <2>4. e.offset = at /\ e.bytes = Len(cells)
    BY DEF ExpertEntry
  <2>5. IsSeq(e.tiles) /\ IsSeq(e.tileDigests)
    <3> DEFINE tiles == TilesOf(item.width, item.gate, item.up, item.down)
               digests == [t \in DOMAIN tiles |-> TileDigest(tiles[t], item.gate, item.up, item.down)]
    <3>1. e.tiles = tiles /\ e.tileDigests \in {<<>>, digests}
      BY DEF ExpertEntry
    <3>2. IsSeq(tiles)
      BY <1>5, TilesAre
    <3>3. <<>> \in Seq({})
      OBVIOUS
    <3>4. IsSeq(<<>>)
      BY <3>3, SequenceIs
    <3>5. IsSeq(digests)
      <4>1. Len(tiles) \in Nat /\ DOMAIN tiles = 1..Len(tiles)
        BY <3>2, LenProperties DEF IsSeq
      <4> DEFINE n == Len(tiles)
      <4>2. n \in Nat /\ digests = [t \in 1..n |-> digests[t]]
        <5> HIDE DEF tiles
        <5> QED BY <4>1
      <4> HIDE DEF digests, n, tiles
      <4> QED BY <4>2, FunctionIs
    <3> QED BY <3>1, <3>2, <3>4, <3>5
  <2> HIDE DEF at, e, cells
  <2>6. extents = u.extents /\ experts = Append(u.experts, e)
    OBVIOUS
  <2> HIDE DEF extents, experts
  <2> DEFINE x == Advanced(w, at, cells, extents, experts)
             y == Advanced(u, at, cells, extents, experts)
  <2>7. Alike(V, x, y) /\ Unbroken(V, y) /\ StaysWithin(x, length) /\ IsPrefix(u.file, y.file)
    <3>1. /\ Sizes /\ Pad \in V /\ Alike(V, w, u) /\ Unbroken(V, u) /\ length \in Nat
          /\ StaysWithin(w, length)
      OBVIOUS
    <3>2. \/ extents = Append(u.extents, e) /\ experts = u.experts
          \/ /\ extents = u.extents /\ experts = Append(u.experts, e)
             /\ IsSeq(e.tiles) /\ IsSeq(e.tileDigests)
      BY <2>5, <2>6
    <3> QED BY ONLY <2>2, <2>3, <2>4, <3>1, <3>2, BothAdvance
  <2> QED BY <2>1, <2>7
<1> QED BY <1>3, <1>4, <1>5

-----------------------------------------------------------------------------
(* WriteAll, for any function that takes its steps.                        *)
Run(f, w, items) ==
  f[0] = w /\ \A n \in 1..Len(items) : f[n] = Write(f[n - 1], items[n])

LEMMA WriteAllInSteps ==
  ASSUME NEW U, NEW items \in Seq(U), NEW w
  PROVE  \E f : Run(f, w, items) /\ WriteAll(w, items) = f[Len(items)]
<1> DEFINE Solves(f, n) == f = [i \in 0..n |-> IF i = 0 THEN w ELSE Write(f[i - 1], items[i])]
           N == Len(items)
<1>1. N \in Nat
  BY LenProperties
<1>2. ASSUME NEW S \in SUBSET Nat, S = {n \in 0..N : ~\E f : Solves(f, n)}, S # {}
      PROVE  FALSE
  <2>1. PICK m \in S : \A n \in S : m <= n
    BY <1>2, SmallestMember
  <2>2. m \in 0..N /\ m \in Nat
    BY <1>1, <1>2, <2>1
  <2>3. m # 0
    <3> DEFINE zero == [i \in 0..0 |-> w]
    <3>1. zero = [i \in 0..0 |-> IF i = 0 THEN w ELSE Write(zero[i - 1], items[i])]
      OBVIOUS
    <3>2. Solves(zero, 0)
      BY <3>1
    <3> QED BY <3>2, <1>2, <2>1
  <2>4. m - 1 \in 0..N /\ m - 1 \notin S
    BY <1>1, <2>1, <2>2, <2>3
  <2>5. PICK f : Solves(f, m - 1)
    BY <1>2, <2>4
  <2> DEFINE g == [i \in 0..m |-> IF i = m THEN Write(f[m - 1], items[m]) ELSE f[i]]
  <2>6. \A i \in 0..m : g[i] = IF i = 0 THEN w ELSE Write(g[i - 1], items[i])
    <3> SUFFICES ASSUME NEW i \in 0..m PROVE g[i] = IF i = 0 THEN w ELSE Write(g[i - 1], items[i])
      OBVIOUS
    <3>1. CASE i = 0
      BY <3>1, <2>2, <2>3, <2>5
    <3>2. CASE i # 0
      <4>1. i - 1 \in 0..(m - 1) /\ i - 1 \in 0..m /\ i - 1 # m
        BY <2>2, <3>2
      <4>2. g[i - 1] = f[i - 1]
        BY <4>1
      <4>3. CASE i = m
        BY <3>2, <4>2, <4>3
      <4>4. CASE i # m
        <5>1. i \in 0..(m - 1)
          BY <2>2, <4>4
        <5>2. f[i] = Write(f[i - 1], items[i])
          BY <2>5, <3>2, <5>1
        <5> QED BY <3>2, <4>2, <4>4, <5>2
      <4> QED BY <4>3, <4>4
    <3> QED BY <3>1, <3>2
  <2>7. Solves(g, m)
    <3>1. g = [i \in 0..m |-> g[i]]
      OBVIOUS
    <3> HIDE DEF g
    <3> QED BY <3>1, <2>6
  <2> HIDE DEF g, Solves
  <2> QED BY <2>7, <1>2, <2>1
<1>3. \E f : Solves(f, N)
  <2>1. {n \in 0..N : ~\E f : Solves(f, n)} \in SUBSET Nat
    <3> HIDE DEF Solves, N
    <3> QED BY <1>1
  <2>2. N \in 0..N
    BY <1>1
  <2>3. {n \in 0..N : ~\E f : Solves(f, n)} = {}
    BY <2>1, <1>2
  <2> HIDE DEF Solves, N
  <2> QED BY <2>2, <2>3
<1> DEFINE f == CHOOSE f : Solves(f, N)
<1>4. Solves(f, N)
  BY <1>3
<1>5. WriteAll(w, items) = f[N]
  BY DEF WriteAll
<1> HIDE DEF f
<1>6. f[0] = w /\ \A n \in 1..N : f[n] = Write(f[n - 1], items[n])
  BY <1>1, <1>4
<1> QED BY <1>5, <1>6 DEF Run

(* A plan of writable items.                                               *)
IsPlan(V, items) == \E U : items \in Seq(U) /\ \A item \in U : IsItem(V, item)

LEMMA PlanFacts ==
  ASSUME NEW V, NEW items, IsPlan(V, items)
  PROVE  Len(items) \in Nat /\ \A n \in 1..Len(items) : IsItem(V, items[n])
BY LenProperties DEF IsPlan

(* The unbroken writer.                                                    *)
LEMMA StartsUnbroken ==
  ASSUME Sizes, NEW V, Pad \in V
  PROVE  Unbroken(V, EmptyWriter) /\ EmptyWriter.file = Padding(SuperblockSize)
<1>1. SuperblockSize \in Nat
  BY SuperblockSizeFacts
<1> DEFINE n == SuperblockSize
           w == EmptyWriter
<1>2. w = [file |-> Padding(n), next |-> n, extents |-> <<>>, experts |-> <<>>]
  BY DEF EmptyWriter
<1> HIDE DEF n, w
<1>3. w.file = Padding(n) /\ w.next = n /\ w.extents = <<>> /\ w.experts = <<>>
      /\ w = [file |-> w.file, next |-> w.next, extents |-> w.extents, experts |-> w.experts]
  BY <1>2
<1>4. n \in Nat /\ n \in Int /\ n = IF n <= 0 THEN 0 ELSE n
  BY <1>1 DEF n
<1>5. Padding(n) \in Seq(V) /\ Len(Padding(n)) = n
  BY <1>4, PaddingFacts
<1>6. IsSeq(<<>>) /\ ToSet(<<>>) = {}
  <2>1. <<>> \in Seq({}) /\ DOMAIN <<>> = {}
    OBVIOUS
  <2>2. ToSet(<<>>) = {}
    BY <2>1 DEF ToSet
  <2> QED BY <2>1, <2>2, SequenceIs
<1>7. Writer(V, w)
  BY <1>3, <1>4, <1>5, <1>6 DEF Writer
<1>8. Payloads(w) = {}
  BY <1>3, <1>6 DEF Payloads
<1>9. Unbroken(V, w)
  BY <1>3, <1>4, <1>5, <1>7, <1>8 DEF Unbroken, n
<1> QED BY <1>3, <1>9 DEF w, n

LEMMA UnbrokenRun ==
  ASSUME Sizes, NEW V, Pad \in V, NEW items, IsPlan(V, items), NEW u, Run(u, EmptyWriter, items)
  PROVE  \A j \in 0..Len(items) :
           /\ Unbroken(V, u[j])
           /\ \A i \in 1..j : Has(u[j], items[i])
           /\ \A i \in 0..j : IsPrefix(u[i].file, u[j].file)
<1> DEFINE N == Len(items)
           Good(j) == /\ Unbroken(V, u[j])
                      /\ \A i \in 1..j : Has(u[j], items[i])
                      /\ \A i \in 0..j : u[i].file \in Seq(V) /\ IsPrefix(u[i].file, u[j].file)
           S == {j \in 0..N : Good(j)}
<1>1. N \in Nat /\ \A n \in 1..N : IsItem(V, items[n])
  BY PlanFacts
<1>2. u[0] = EmptyWriter /\ \A n \in 1..N : u[n] = Write(u[n - 1], items[n])
  BY DEF Run
<1> HIDE DEF N
<1>3. 0 \in S
  <2>1. Unbroken(V, u[0])
    BY <1>2, StartsUnbroken
  <2>2. u[0].file \in Seq(V) /\ IsPrefix(u[0].file, u[0].file)
    <3>1. u[0].file \in Seq(V)
      BY <2>1 DEF Unbroken, Writer
    <3> QED BY <3>1, LenProperties DEF IsPrefix
  <2>3. Good(0)
    BY <2>1, <2>2
  <2> QED BY <1>1, <2>3
<1>4. ASSUME NEW j \in 0..(N - 1), j \in S PROVE j + 1 \in S
  <2> DEFINE k == j + 1
  <2>1. k \in 1..N /\ k \in 0..N /\ k - 1 = j /\ j \in 0..N
    BY <1>1
  <2> HIDE DEF k
  <2>2. u[k] = Write(u[j], items[k]) /\ IsItem(V, items[k])
    BY <1>1, <1>2, <2>1
  <2>3. Unbroken(V, u[j]) /\ Writer(V, u[j]) /\ u[j].file \in Seq(V)
    BY <1>4 DEF Unbroken, Writer
  <2>4. Alike(V, u[j], u[j]) /\ 0 \in Nat /\ StaysWithin(u[j], 0)
    BY <2>3, CoversItself DEF Alike, StaysWithin, Unbroken
  <2>5. Unbroken(V, u[k]) /\ IsPrefix(u[j].file, u[k].file)
    BY <2>2, <2>3, <2>4, BothWrite
  <2>6. Has(u[k], items[k]) /\ \A x : Has(u[j], x) => Has(u[k], x)
    BY <2>2, <2>3, WrittenIsFound
  <2>7. \A i \in 1..k : Has(u[k], items[i])
    <3> SUFFICES ASSUME NEW i \in 1..k PROVE Has(u[k], items[i])
      OBVIOUS
    <3>1. i = k \/ i \in 1..j
      BY <2>1
    <3> QED BY <1>4, <2>6, <3>1
  <2>8. \A i \in 0..k : u[i].file \in Seq(V) /\ IsPrefix(u[i].file, u[k].file)
    <3> SUFFICES ASSUME NEW i \in 0..k PROVE u[i].file \in Seq(V) /\ IsPrefix(u[i].file, u[k].file)
      OBVIOUS
    <3>1. u[k].file \in Seq(V)
      BY <2>5 DEF Unbroken, Writer
    <3>2. CASE i = k
      BY <3>1, <3>2, LenProperties DEF IsPrefix
    <3>3. CASE i \in 0..j
      <4>1. IsPrefix(u[i].file, u[j].file)
        BY <1>4, <3>3
      <4>2. u[i].file \in Seq(V)
        BY <1>4, <3>3
      <4> QED BY <2>3, <2>5, <3>1, <4>1, <4>2, PrefixOfPrefix
    <3> QED BY <2>1, <3>2, <3>3
  <2>9. k \in S
    BY <2>1, <2>5, <2>7, <2>8
  <2> QED BY <2>9 DEF k
<1>5. 0..N \subseteq S
  <2> HIDE DEF S
  <2> QED BY <1>1, <1>3, <1>4, ClimbingTo
<1> QED BY <1>5 DEF N

-----------------------------------------------------------------------------
(* The tables are sequences.                                               *)
LEMMA CellsAre ==
  ASSUME NEW n \in Nat, NEW records, DOMAIN records = 1..n, NEW kind
  PROVE  IsSeq(Cells(kind, records)) /\ Len(Cells(kind, records)) = n
<1> DEFINE f == Cells(kind, records)
<1>1. f = [i \in 1..n |-> <<kind, records[i]>>]
  BY DEF Cells
<1> HIDE DEF f
<1>2. f = [i \in 1..n |-> f[i]]
  BY <1>1
<1> QED BY <1>2, FunctionIs DEF f

LEMMA DomainIs ==
  ASSUME NEW s, IsSeq(s)
  PROVE  Len(s) \in Nat /\ DOMAIN s = 1..Len(s)
BY LenProperties DEF IsSeq

LEMMA ConcatIs ==
  ASSUME NEW s, IsSeq(s), NEW t, IsSeq(t)
  PROVE  IsSeq(s \o t) /\ Len(s \o t) = Len(s) + Len(t)
<1> DEFINE V == ToSet(s) \union ToSet(t)
<1>1. s \in Seq(V) /\ t \in Seq(V)
  BY SequenceWithin
<1> HIDE DEF V
<1>2. s \o t \in Seq(V) /\ Len(s \o t) = Len(s) + Len(t)
  BY <1>1, CatFacts
<1> QED BY <1>2, SequenceIs

LEMMA FlattenIs ==
  ASSUME NEW n \in Nat, NEW seqs, seqs = [i \in 1..n |-> seqs[i]], \A i \in 1..n : IsSeq(seqs[i])
  PROVE  IsSeq(FlattenSeq(seqs))
<1> DEFINE V == UNION {ToSet(seqs[i]) : i \in 1..n}
<1>1. ASSUME NEW i \in 1..n PROVE seqs[i] \in Seq(V)
  <2>1. ToSet(seqs[i]) \subseteq V
    OBVIOUS
  <2> HIDE DEF V
  <2> QED BY <2>1, SequenceWithin
<1> HIDE DEF V
<1>2. seqs \in Seq(Seq(V))
  BY <1>1, FunctionIsSequenceOf
<1>3. FlattenSeq(seqs) \in Seq(V)
  BY <1>2, FlattenAppend
<1> QED BY <1>3, SequenceIs

LEMMA TablesAre ==
  ASSUME NEW w, IsSeq(w.extents), IsSeq(w.experts),
         \A e \in ToSet(w.experts) : IsSeq(e.tiles) /\ IsSeq(e.tileDigests)
  PROVE  /\ IsSeq(StringTable(w)) /\ Len(StringTable(w)) = Len(w.extents)
         /\ IsSeq(ExtentTable(w)) /\ Len(ExtentTable(w)) = Len(w.extents)
         /\ IsSeq(ExpertIndex(w)) /\ IsSeq(ChecksumTable(w)) /\ IsSeq(SectionTable(w))
<1> DEFINE m == Len(w.extents)
           n == Len(w.experts)
<1>1. m \in Nat /\ n \in Nat /\ DOMAIN w.extents = 1..m /\ DOMAIN w.experts = 1..n
  BY DomainIs
<1>2. \A i \in 1..n : IsSeq(w.experts[i].tiles) /\ IsSeq(w.experts[i].tileDigests)
  BY <1>1 DEF ToSet
<1> HIDE DEF m, n
<1>3. IsSeq(StringTable(w)) /\ Len(StringTable(w)) = m
  <2> DEFINE records == [i \in DOMAIN w.extents |-> w.extents[i].name]
  <2>1. DOMAIN records = 1..m
    BY <1>1
  <2>2. StringTable(w) = Cells("name", records)
    BY DEF StringTable
  <2> HIDE DEF records
  <2> QED BY <1>1, <2>1, <2>2, CellsAre
<1>4. IsSeq(ExtentTable(w)) /\ Len(ExtentTable(w)) = m
  <2> DEFINE records == [i \in DOMAIN w.extents |->
                LET e == w.extents[i] IN
                [role |-> e.role, layer |-> e.layer, name |-> i - 1, offset |-> e.offset,
                 bytes |-> e.bytes, checksum |-> i - 1]]
  <2>1. DOMAIN records = 1..m
    BY <1>1
  <2>2. ExtentTable(w) = Cells("extent", records)
    BY DEF ExtentTable
  <2> HIDE DEF records
  <2> QED BY <1>1, <2>1, <2>2, CellsAre
<1>5. IsSeq(ExpertIndex(w))
  <2> DEFINE tilesBefore(i) == SumOf([k \in 1..(i - 1) |-> Len(w.experts[k].tiles)])
             digestsBefore(i) == SumOf([k \in 1..(i - 1) |-> 1 + Len(w.experts[k].tileDigests)])
             records == [i \in DOMAIN w.experts |->
                LET e == w.experts[i] IN
                [layer |-> e.layer, expert |-> e.expert, offset |-> e.offset, bytes |-> e.bytes,
                 vouched |-> e.tileDigests # <<>>, tileFirst |-> tilesBefore(i),
                 tileCount |-> Len(e.tiles), checksum |-> Len(w.extents) + digestsBefore(i)]]
             tiles == [i \in DOMAIN w.experts |-> Cells("tile", w.experts[i].tiles)]
  <2>1. DOMAIN records = 1..n
    BY <1>1
  <2>2. ExpertIndex(w) = Cells("expert", records) \o FlattenSeq(tiles)
    BY DEF ExpertIndex
  <2> HIDE DEF records
  <2>3. tiles = [i \in 1..n |-> tiles[i]] /\ \A i \in 1..n : tiles[i] = Cells("tile", w.experts[i].tiles)
    BY <1>1
  <2> HIDE DEF tiles
  <2>4. \A i \in 1..n : IsSeq(tiles[i])
    BY <1>2, <2>3, DomainIs, CellsAre
  <2>5. IsSeq(FlattenSeq(tiles))
    BY <1>1, <2>3, <2>4, FlattenIs
  <2>6. IsSeq(Cells("expert", records))
    BY <1>1, <2>1, CellsAre
  <2> QED BY <2>2, <2>5, <2>6, ConcatIs
<1>6. IsSeq(ChecksumTable(w))
  <2> DEFINE records == [i \in DOMAIN w.extents |-> w.extents[i].digest]
             sums(i) == Cells("digest", <<w.experts[i].digest>> \o w.experts[i].tileDigests)
             digests == [i \in DOMAIN w.experts |-> sums(i)]
  <2>1. DOMAIN records = 1..m
    BY <1>1
  <2>2. ChecksumTable(w) = Cells("digest", records) \o FlattenSeq(digests)
    BY DEF ChecksumTable
  <2> HIDE DEF records
  <2>3. ASSUME NEW i \in 1..n PROVE IsSeq(sums(i))
    <3> DEFINE e == w.experts[i]
               one == <<e.digest>>
    <3>1. one \in Seq({e.digest})
      OBVIOUS
    <3>2. IsSeq(one)
      <4> HIDE DEF one
      <4> QED BY <3>1, SequenceIs
    <3> HIDE DEF one
    <3>3. IsSeq(one \o e.tileDigests)
      BY <1>2, <3>2, ConcatIs
    <3>4. IsSeq(Cells("digest", one \o e.tileDigests))
      BY <3>3, DomainIs, CellsAre
    <3> QED BY <3>4 DEF one
  <2>4. digests = [i \in 1..n |-> digests[i]] /\ \A i \in 1..n : digests[i] = sums(i)
    BY <1>1
  <2> HIDE DEF digests, sums
  <2>5. IsSeq(FlattenSeq(digests))
    BY <1>1, <2>3, <2>4, FlattenIs
  <2>6. IsSeq(Cells("digest", records))
    BY <1>1, <2>1, CellsAre
  <2> QED BY <2>2, <2>5, <2>6, ConcatIs
<1>7. IsSeq(SectionTable(w))
  <2> DEFINE spans   == TableSpans(w)
             kinds   == {e.section : e \in ToSet(w.extents)}
             of(k)   == {e \in ToSet(w.extents) : e.section = k}
             kind(i) == CHOOSE k \in kinds : Cardinality({j \in kinds : j < k}) = i - 1
             c == Cardinality(kinds)
             first == [i \in 1..Cardinality(kinds) |->
                         Section(kind(i), Bounds(of(kind(i))), Cardinality(of(kind(i))))]
             x == Section(RoutedExperts, Bounds(ToSet(w.experts)), Len(w.experts))
             y == Section(ExpertIndexKind, spans.index, Len(w.experts))
             second == IF w.experts = <<>> THEN <<>> ELSE <<x, y>>
             a == Section(StringTableKind, spans.strings, 0)
             b == Section(ExtentsKind, spans.extents, Len(w.extents))
             d == Section(ChecksumsKind, spans.checksums, spans.checksums.bytes)
             third == <<a, b, d>>
  <2>1. SectionTable(w) = Cells("section", first \o second \o third)
    BY DEF SectionTable
  <2>2. c \in Nat
    <3>1. IsFiniteSet(1..m)
      BY <1>1, FirstNaturals
    <3>2. kinds = {w.extents[i].section : i \in 1..m}
      BY <1>1 DEF ToSet
    <3>3. IsFiniteSet(kinds)
      <4> DEFINE h == [i \in 1..m |-> w.extents[i].section]
      <4>1. h \in Surjection(1..m, kinds)
        <5> HIDE DEF kinds
        <5>1. h \in [1..m -> kinds] /\ \A k \in kinds : \E i \in 1..m : h[i] = k
          BY <3>2
        <5> QED BY <5>1 DEF Surjection
      <4> HIDE DEF h, kinds
      <4> QED BY <3>1, <4>1, FS_Surjection
    <3> QED BY <3>3, FS_CardinalityType
  <2>3. first = [i \in 1..c |-> first[i]]
    OBVIOUS
  <2> HIDE DEF first, c, kinds
  <2>4. IsSeq(first)
    BY <2>2, <2>3, FunctionIs
  <2> HIDE DEF spans, x, y, a, b, d
  <2>5. <<x, y>> \in Seq({x, y}) /\ <<>> \in Seq({}) /\ <<a, b, d>> \in Seq({a, b, d})
    OBVIOUS
  <2>6. IsSeq(second) /\ IsSeq(third)
    BY <2>5, SequenceIs
  <2> HIDE DEF second, third
  <2>7. IsSeq(first \o second)
    BY <2>4, <2>6, ConcatIs
  <2>8. IsSeq((first \o second) \o third)
    BY <2>6, <2>7, ConcatIs
  <2> QED BY <2>1, <2>8, DomainIs, CellsAre
<1> QED BY <1>3, <1>4, <1>5, <1>6, <1>7 DEF m

-----------------------------------------------------------------------------
(* What was done to two files, f and g, of which f is covered by g: a and  *)
(* b go on so, and f's length tells only while it exceeds b's.             *)
Grows(V, f, g, a, b) ==
  /\ {f, g, a, b} \subseteq Seq(V) /\ Covers(V, a, b) /\ IsPrefix(g, b) /\ Len(g) <= Len(b)
  /\ Len(a) = IF Len(f) <= Len(b) THEN Len(b) ELSE Len(f)

LEMMA GrowsOn ==
  ASSUME NEW V, NEW f, NEW g, NEW a, NEW b, NEW c, NEW d, Grows(V, f, g, a, b), Grows(V, a, b, c, d)
  PROVE  Grows(V, f, g, c, d)
<1>1. {f, g, a, b, c, d} \subseteq Seq(V) /\ IsPrefix(g, b) /\ IsPrefix(b, d) /\ Covers(V, c, d)
  BY DEF Grows
<1>2. IsPrefix(g, d)
  BY <1>1, PrefixOfPrefix
<1> DEFINE lf == Len(f)
           lg == Len(g)
           la == Len(a)
           lb == Len(b)
           lc == Len(c)
           ld == Len(d)
<1>3. /\ lf \in Nat /\ lg \in Nat /\ lb \in Nat /\ ld \in Nat
      /\ lg <= lb /\ lb <= ld
      /\ la = (IF lf <= lb THEN lb ELSE lf) /\ lc = (IF la <= ld THEN ld ELSE la)
  BY <1>1, LenProperties DEF Grows
<1> HIDE DEF lf, lg, la, lb, lc, ld
<1>4. lg <= ld /\ lc = IF lf <= ld THEN ld ELSE lf
  BY <1>3
<1> QED BY <1>1, <1>2, <1>4 DEF Grows, lf, lg, lc, ld

LEMMA PutGrows ==
  ASSUME NEW V, Pad \in V, NEW f \in Seq(V), NEW g \in Seq(V), NEW c \in Seq(V), Covers(V, f, g)
  PROVE  /\ Grows(V, f, g, Put(f, Len(g), c), Put(g, Len(g), c))
         /\ Len(Put(g, Len(g), c)) = Len(g) + Len(c)
<1> DEFINE a == Put(f, Len(g), c)
           b == Put(g, Len(g), c)
<1>1. b = g \o c
  BY PutAppends
<1>2. /\ a \in Seq(V) /\ g \o c \in Seq(V) /\ Len(g \o c) = Len(g) + Len(c) /\ Covers(V, a, g \o c)
      /\ Len(a) = IF Len(f) <= Len(g) + Len(c) THEN Len(g) + Len(c) ELSE Len(f)
  BY PutCovers
<1>3. IsPrefix(g, g \o c) /\ Len(g) \in Nat /\ Len(c) \in Nat
  BY PrefixOfConcat, LenProperties
<1> HIDE DEF a, b
<1>4. Len(g) <= Len(g) + Len(c)
  BY <1>3
<1>5. Grows(V, f, g, a, b)
  BY <1>1, <1>2, <1>3, <1>4 DEF Grows
<1> QED BY <1>1, <1>2, <1>5 DEF a, b

LEMMA PutTableGrows ==
  ASSUME NEW V, Pad \in V, NEW f \in Seq(V), NEW g \in Seq(V), Covers(V, f, g), NEW c \in Seq(V),
         NEW span, span.offset \in Nat, span.offset >= Len(g)
  PROVE  /\ Grows(V, f, g, PutTable(f, Len(g), span, c), PutTable(g, Len(g), span, c))
         /\ Len(PutTable(g, Len(g), span, c)) = span.offset + Len(c)
<1> DEFINE n == span.offset - Len(g)
           p == Padding(n)
           f1 == Put(f, Len(g), p)
           g1 == Put(g, Len(g), p)
<1>1. Len(g) \in Nat
  BY LenProperties
<1>2. n \in Int /\ (IF n <= 0 THEN 0 ELSE n) = n /\ Len(g) + n = span.offset
  BY <1>1
<1> HIDE DEF n
<1>3. p \in Seq(V) /\ Len(p) = n
  BY <1>2, PaddingFacts
<1>4. PutTable(f, Len(g), span, c) = Put(f1, span.offset, c)
      /\ PutTable(g, Len(g), span, c) = Put(g1, span.offset, c)
  BY DEF PutTable, n
<1> HIDE DEF p
<1>5. Grows(V, f, g, f1, g1) /\ Len(g1) = span.offset
  BY <1>2, <1>3, PutGrows
<1> HIDE DEF f1, g1
<1>6. f1 \in Seq(V) /\ g1 \in Seq(V) /\ Covers(V, f1, g1)
  BY <1>5 DEF Grows
<1>7. /\ Grows(V, f1, g1, Put(f1, Len(g1), c), Put(g1, Len(g1), c))
      /\ Len(Put(g1, Len(g1), c)) = Len(g1) + Len(c)
  BY <1>6, PutGrows
<1>8. Grows(V, f, g, Put(f1, Len(g1), c), Put(g1, Len(g1), c))
  BY <1>5, <1>7, GrowsOn
<1> QED BY <1>4, <1>5, <1>7, <1>8

LEMMA TablesGrow ==
  ASSUME Sizes, NEW V, Pad \in V, NEW f \in Seq(V), NEW g \in Seq(V), Covers(V, f, g),
         NEW w, w.next = Len(g), IsSeq(w.extents), IsSeq(w.experts),
         \A e \in ToSet(w.experts) : IsSeq(e.tiles) /\ IsSeq(e.tileDigests),
         UNION {ToSet(StringTable(w)), ToSet(ExtentTable(w)), ToSet(ExpertIndex(w)),
                ToSet(ChecksumTable(w)), ToSet(SectionTable(w))} \subseteq V
  PROVE  Grows(V, f, g, WithTables(f, w), WithTables(g, w))
<1> DEFINE t1 == StringTable(w)
           t2 == ExtentTable(w)
           t3 == ExpertIndex(w)
           t4 == ChecksumTable(w)
           t5 == SectionTable(w)
           spans == TableSpans(w)
           s1 == spans.strings
           s2 == spans.extents
           s3 == spans.index
           s4 == spans.checksums
           s5 == SectionSpan(w)
           m == Len(w.extents)
<1>1. /\ IsSeq(t1) /\ IsSeq(t2) /\ IsSeq(t3) /\ IsSeq(t4) /\ IsSeq(t5) /\ Len(t1) = m /\ Len(t2) = m
  BY TablesAre
<1>2. t1 \in Seq(V) /\ t2 \in Seq(V) /\ t3 \in Seq(V) /\ t4 \in Seq(V) /\ t5 \in Seq(V)
  <2> HIDE DEF t1, t2, t3, t4, t5
  <2>1. /\ ToSet(t1) \subseteq V /\ ToSet(t2) \subseteq V /\ ToSet(t3) \subseteq V /\ ToSet(t4) \subseteq V
        /\ ToSet(t5) \subseteq V
    BY DEF t1, t2, t3, t4, t5
  <2> QED BY <1>1, <2>1, SequenceWithin
<1>3. Len(g) \in Nat /\ m \in Nat /\ Len(t3) \in Nat /\ Len(t4) \in Nat /\ Len(t5) \in Nat
  BY <1>1, <1>2, LenProperties, DomainIs
<1>4. /\ s1.offset = AlignUp(w.next, TableAlignment) /\ s1.bytes = m
      /\ s2.offset = AlignUp(EndOf(s1), TableAlignment) /\ s2.bytes = m
      /\ s3.offset = AlignUp(EndOf(s2), TableAlignment) /\ s3.bytes = Len(t3)
      /\ s4.offset = AlignUp(EndOf(s3), TableAlignment) /\ s4.bytes = Len(t4)
      /\ s5.offset = AlignUp(EndOf(s4), TableAlignment)
  BY DEF TableSpans, SectionSpan
<1> DEFINE f1 == PutTable(f, w.next, s1, t1)
           f2 == PutTable(f1, EndOf(s1), s2, t2)
           f3 == PutTable(f2, EndOf(s2), s3, t3)
           f4 == PutTable(f3, EndOf(s3), s4, t4)
           f5 == PutTable(f4, EndOf(s4), s5, t5)
           g1 == PutTable(g, w.next, s1, t1)
           g2 == PutTable(g1, EndOf(s1), s2, t2)
           g3 == PutTable(g2, EndOf(s2), s3, t3)
           g4 == PutTable(g3, EndOf(s3), s4, t4)
           g5 == PutTable(g4, EndOf(s4), s5, t5)
<1>5. WithTables(f, w) = f5 /\ WithTables(g, w) = g5
  BY DEF WithTables
<1> HIDE DEF t1, t2, t3, t4, t5, spans, s1, s2, s3, s4, s5, m, f1, f2, f3, f4, f5, g1, g2, g3, g4, g5
<1>6. Grows(V, f, g, f1, g1) /\ Len(g1) = EndOf(s1) /\ EndOf(s1) \in Nat
  <2>1. s1.offset \in Nat /\ s1.offset >= Len(g)
    BY <1>3, <1>4, AlignUpFacts DEF Sizes
  <2> QED BY <1>1, <1>2, <1>3, <1>4, <2>1, PutTableGrows DEF f1, g1, EndOf
<1>7. Grows(V, f1, g1, f2, g2) /\ Len(g2) = EndOf(s2) /\ EndOf(s2) \in Nat
  <2>1. s2.offset \in Nat /\ s2.offset >= Len(g1)
    BY <1>4, <1>6, AlignUpFacts DEF Sizes
  <2>2. f1 \in Seq(V) /\ g1 \in Seq(V) /\ Covers(V, f1, g1)
    BY <1>6 DEF Grows
  <2> QED BY <1>1, <1>2, <1>3, <1>4, <1>6, <2>1, <2>2, PutTableGrows DEF f2, g2, EndOf
<1>8. Grows(V, f2, g2, f3, g3) /\ Len(g3) = EndOf(s3) /\ EndOf(s3) \in Nat
  <2>1. s3.offset \in Nat /\ s3.offset >= Len(g2)
    BY <1>4, <1>7, AlignUpFacts DEF Sizes
  <2>2. f2 \in Seq(V) /\ g2 \in Seq(V) /\ Covers(V, f2, g2)
    BY <1>7 DEF Grows
  <2> QED BY <1>2, <1>3, <1>4, <1>7, <2>1, <2>2, PutTableGrows DEF f3, g3, EndOf
<1>9. Grows(V, f3, g3, f4, g4) /\ Len(g4) = EndOf(s4) /\ EndOf(s4) \in Nat
  <2>1. s4.offset \in Nat /\ s4.offset >= Len(g3)
    BY <1>4, <1>8, AlignUpFacts DEF Sizes
  <2>2. f3 \in Seq(V) /\ g3 \in Seq(V) /\ Covers(V, f3, g3)
    BY <1>8 DEF Grows
  <2> QED BY <1>2, <1>3, <1>4, <1>8, <2>1, <2>2, PutTableGrows DEF f4, g4, EndOf
<1>10. Grows(V, f4, g4, f5, g5)
  <2>1. s5.offset \in Nat /\ s5.offset >= Len(g4)
    BY <1>4, <1>9, AlignUpFacts DEF Sizes
  <2>2. f4 \in Seq(V) /\ g4 \in Seq(V) /\ Covers(V, f4, g4)
    BY <1>9 DEF Grows
  <2> QED BY <1>2, <1>9, <2>1, <2>2, PutTableGrows DEF f5, g5
<1>11. Grows(V, f, g, f5, g5)
  BY <1>6, <1>7, <1>8, <1>9, <1>10, GrowsOn
<1> QED BY <1>5, <1>11

-----------------------------------------------------------------------------
(* Writing over the front of a file.                                       *)
LEMMA PutInFront ==
  ASSUME NEW V, Pad \in V, NEW d \in Seq(V), NEW r \in Seq(V), NEW c \in Seq(V), Len(c) = Len(d)
  PROVE  Put(d \o r, 0, c) = c \o r
<1> DEFINE f == d \o r
           n == Len(d)
<1>1. f \in Seq(V) /\ n \in Nat /\ Len(r) \in Nat /\ Len(f) = n + Len(r)
  BY CatFacts
<1>2. f \o Padding(0 - Len(f)) = f
  <2> HIDE DEF f, n
  <2>1. 0 - Len(f) \in Int /\ 0 - Len(f) <= 0
    BY <1>1
  <2>2. Padding(0 - Len(f)) = <<>>
    BY <2>1, PaddingFacts
  <2> QED BY <1>1, <2>2, NothingBehind
<1>3. SubSeq(f, 1, 0) = <<>>
  <2> HIDE DEF f
  <2> QED BY <1>1, SubSeqEmpty
<1>4. SubSeq(f, 0 + Len(c) + 1, Len(f)) = r
  <2>1. SubSeq(d \o r, Len(d) + 1, Len(d) + Len(r)) = r
    BY SliceLast
  <2>2. 0 + Len(c) + 1 = Len(d) + 1 /\ Len(f) = Len(d) + Len(r)
    BY <1>1
  <2> QED BY <2>1, <2>2
<1>5. Put(f, 0, c) = (SubSeq(f, 1, 0) \o c) \o SubSeq(f, 0 + Len(c) + 1, Len(f))
  BY <1>2 DEF Put
<1> HIDE DEF f, n
<1>6. Put(f, 0, c) = c \o r
  BY <1>3, <1>4, <1>5, NothingBehind
<1> QED BY <1>6 DEF f

(* What was cut off a file still covers what it begins with.               *)
LEMMA CutCovers ==
  ASSUME NEW V, Pad \in V, NEW B \in Seq(V), NEW g \in Seq(V), IsPrefix(g, B), NEW n \in 0..Len(B),
         Len(g) <= n
  PROVE  Covers(V, SubSeq(B, 1, n), g)
<1> DEFINE f == SubSeq(B, 1, n)
           r == SubSeq(B, n + 1, Len(B))
<1>1. B = f \o r /\ f \in Seq(V) /\ r \in Seq(V) /\ Len(f) = n
  BY CutParts
<1> HIDE DEF f, r
<1>2. Len(g) \in Nat /\ SubSeq(g, 1, Len(g)) = SubSeq(B, 1, Len(g))
  BY LenProperties DEF IsPrefix
<1>3. SubSeq(f \o r, 1, Len(g)) = SubSeq(f, 1, Len(g))
  BY <1>1, <1>2, SliceBefore
<1>4. IsPrefix(g, f)
  BY <1>1, <1>2, <1>3 DEF IsPrefix
<1>5. PICK x \in Seq(V) : f = g \o x
  BY <1>1, <1>4, PrefixAndRest
<1>6. Len(g) - Len(f) \in Int /\ Len(g) - Len(f) <= 0
  BY <1>1, <1>2
<1>7. Padding(Len(g) - Len(f)) = <<>>
  BY <1>6, PaddingFacts
<1>8. f \o <<>> = f
  BY <1>1, NothingBehind
<1>9. Covers(V, f, g)
  BY <1>5, <1>7, <1>8 DEF Covers
<1> QED BY <1>9 DEF f

(* Nothing but padding, cut off: it reads as the zeros it was.             *)
LEMMA CutPadding ==
  ASSUME NEW V, Pad \in V, NEW m \in Nat, NEW n \in 0..m
  PROVE  Covers(V, SubSeq(Padding(m), 1, n), Padding(m))
<1> DEFINE g == Padding(m)
           f == SubSeq(g, 1, n)
           r == SubSeq(g, n + 1, Len(g))
<1>1. m \in Int /\ m = (IF m <= 0 THEN 0 ELSE m)
  OBVIOUS
<1>2. g \in Seq(V) /\ Len(g) = m
  BY <1>1, PaddingFacts
<1>3. \A i \in 1..m : g[i] = Pad
  BY DEF Padding
<1> HIDE DEF g
<1>4. /\ g = f \o r /\ f \in Seq(V) /\ r \in Seq(V) /\ Len(f) = n /\ Len(r) = m - n
  <2>1. n \in 0..Len(g)
    BY <1>2
  <2> QED BY <1>2, <2>1, CutParts
<1> DEFINE p == Padding(Len(g) - Len(f))
<1>5. p \in Seq(V) /\ Len(p) = m - n /\ \A i \in 1..(m - n) : p[i] = Pad
  <2>1. Len(g) - Len(f) = m - n /\ m - n \in Int /\ m - n = (IF m - n <= 0 THEN 0 ELSE m - n)
    BY <1>2, <1>4
  <2> DEFINE k == m - n
  <2>2. p = Padding(k) /\ k \in Int /\ k = (IF k <= 0 THEN 0 ELSE k)
    BY <2>1
  <2> HIDE DEF p, k
  <2>3. p \in Seq(V) /\ Len(p) = k
    BY <2>2, PaddingFacts
  <2>4. \A i \in 1..k : p[i] = Pad
    BY <2>2 DEF Padding
  <2> QED BY <2>3, <2>4 DEF k
<1> HIDE DEF f, r, p
<1>6. \A i \in 1..(m - n) : r[i] = Pad
  <2> SUFFICES ASSUME NEW i \in 1..(m - n) PROVE r[i] = Pad
    OBVIOUS
  <2>1. i \in 1..Len(r) /\ n + i \in 1..m
    BY <1>4
  <2>2. (f \o r)[Len(f) + i] = r[i]
    BY <1>4, <2>1, CatFacts
  <2> QED BY <1>3, <1>4, <2>1, <2>2
<1>7. p = r
  <2>1. Len(p) = Len(r) /\ \A i \in 1..Len(p) : p[i] = r[i]
    BY <1>4, <1>5, <1>6
  <2> QED BY <1>4, <1>5, <2>1, SeqEqual
<1>8. <<>> \in Seq(V) /\ g \o <<>> = g
  BY <1>2, NothingBehind
<1>9. f \o p = g \o <<>>
  BY <1>4, <1>7, <1>8
<1>10. Covers(V, f, g)
  BY <1>8, <1>9 DEF Covers, p
<1> QED BY <1>10 DEF f, g

(* What resume_partial makes of a file that was cut off anywhere.          *)
LEMMA ResumedIsAlike ==
  ASSUME Sizes, NEW V, Pad \in V, NEW u, Unbroken(V, u), IsPrefix(Padding(SuperblockSize), u.file),
         NEW B \in Seq(V), IsPrefix(u.file, B), NEW n \in 0..Len(B),
         NEW w, w = Resume(SubSeq(B, 1, n), u.extents, u.experts), w # Refused
  PROVE  Alike(V, w, u) /\ StaysWithin(w, Len(B))
<1> DEFINE f == SubSeq(B, 1, n)
           ends == {SuperblockSize} \union {e.offset + e.bytes : e \in Payloads(u)}
           top == CHOOSE k \in ends : \A m \in ends : m <= k
<1>1. /\ Writer(V, u) /\ u.next \in Nat /\ Len(u.file) = u.next /\ u.file \in Seq(V)
      /\ SuperblockSize <= u.next /\ SuperblockSize \in Nat
      /\ \A e \in Payloads(u) : e.offset + e.bytes \in Nat /\ e.offset + e.bytes <= u.next
      /\ u.next \in ends
  BY SuperblockSizeFacts DEF Unbroken, Writer
<1>2. f \in Seq(V) /\ Len(f) = n /\ n \in Nat /\ Len(B) \in Nat /\ n <= Len(B)
  BY CutParts, LenProperties
<1>3. Intact(f, u.extents) /\ Intact(f, u.experts)
  BY DEF Resume
<1>4. w = [file |-> f, extents |-> u.extents, experts |-> u.experts, next |-> top]
  BY <1>3 DEF Resume, Payloads
<1> HIDE DEF f
<1>5. top = u.next
  <2>1. \A m \in ends : m \in Nat /\ m <= u.next
    BY <1>1
  <2> HIDE DEF ends
  <2>2. top \in ends /\ \A m \in ends : m <= top
    BY <1>1, <2>1
  <2> HIDE DEF top
  <2>3. top \in Nat /\ top <= u.next /\ u.next <= top
    BY <1>1, <2>1, <2>2
  <2> QED BY <1>1, <2>3
<1>6. \A e \in Payloads(u) : e.offset + e.bytes <= n
  BY <1>2, <1>3 DEF Intact, Payloads
<1>7. Covers(V, f, u.file)
  <2>1. CASE u.next <= n
    BY <1>1, <1>2, <2>1, CutCovers DEF f
  <2>2. CASE ~(u.next <= n)
    <3>1. u.next = SuperblockSize
      BY <1>1, <1>6, <2>2
    <3> DEFINE p == Padding(SuperblockSize)
    <3>2. p \in Seq(V) /\ Len(p) = SuperblockSize
      <4> DEFINE m == SuperblockSize
      <4>1. m \in Int /\ m = IF m <= 0 THEN 0 ELSE m
        BY <1>1
      <4> HIDE DEF m
      <4>2. Padding(m) \in Seq(V) /\ Len(Padding(m)) = m
        BY <4>1, PaddingFacts
      <4> QED BY <4>2 DEF m
    <3>3. u.file = p
      <4> HIDE DEF p
      <4>1. SubSeq(p, 1, Len(p)) = SubSeq(u.file, 1, Len(p)) /\ Len(p) = Len(u.file)
        BY <1>1, <3>1, <3>2 DEF IsPrefix, p
      <4>2. SubSeq(p, 1, Len(p)) = p /\ SubSeq(u.file, 1, Len(u.file)) = u.file
        BY <1>1, <3>2, SubSeqFull
      <4> QED BY <4>1, <4>2
    <3>4. f = SubSeq(p, 1, n)
      <4>1. SubSeq(p, 1, Len(p)) = SubSeq(B, 1, Len(p)) /\ Len(p) <= Len(B)
        BY <3>3 DEF IsPrefix
      <4>2. PICK x \in Seq(V) : B = p \o x
        <5> HIDE DEF p
        <5> QED BY <3>2, <3>3, PrefixAndRest
      <4> HIDE DEF p
      <4>3. 1 \in Nat \ {0} /\ n \in Nat /\ n <= Len(p)
        BY <1>1, <1>2, <2>2, <3>1, <3>2
      <4>4. SubSeq(p \o x, 1, n) = SubSeq(p, 1, n)
        BY <3>2, <4>3, SliceBefore
      <4> QED BY <4>2, <4>4 DEF f
    <3>5. n \in 0..SuperblockSize
      BY <1>1, <1>2, <2>2, <3>1
    <3> QED BY <1>1, <3>3, <3>4, <3>5, CutPadding
  <2> QED BY <2>1, <2>2
<1> HIDE DEF top, ends
<1>8. /\ w.file = f /\ w.next = u.next /\ w.extents = u.extents /\ w.experts = u.experts
      /\ w = [file |-> w.file, next |-> w.next, extents |-> w.extents, experts |-> w.experts]
  BY <1>4, <1>5
<1>9. Writer(V, w)
  BY <1>1, <1>2, <1>8 DEF Writer
<1> QED BY <1>2, <1>7, <1>8, <1>9 DEF Alike, StaysWithin

-----------------------------------------------------------------------------
(* The resumed writer catches up: it skips what its journal has, then      *)
(* writes what the unbroken writer writes.                                 *)
LEMMA ResumedRun ==
  ASSUME Sizes, NEW V, Pad \in V, NEW items, IsPlan(V, items),
         NEW u, Run(u, EmptyWriter, items), NEW k \in 0..Len(items),
         NEW w, NEW length \in Nat, Alike(V, w, u[k]), StaysWithin(w, length), NEW v, Run(v, w, items)
  PROVE  Alike(V, v[Len(items)], u[Len(items)]) /\ StaysWithin(v[Len(items)], length)
<1> DEFINE N == Len(items)
           Good(j) == /\ j <= k => v[j] = w
                      /\ j >= k => Alike(V, v[j], u[j]) /\ StaysWithin(v[j], length)
           S == {j \in 0..N : Good(j)}
<1>1. N \in Nat /\ \A n \in 1..N : IsItem(V, items[n])
  BY PlanFacts
<1>2. u[0] = EmptyWriter /\ \A n \in 1..N : u[n] = Write(u[n - 1], items[n])
  BY DEF Run
<1>3. v[0] = w /\ \A n \in 1..N : v[n] = Write(v[n - 1], items[n])
  BY DEF Run
<1>4. \A j \in 0..N : Unbroken(V, u[j]) /\ \A i \in 1..j : Has(u[j], items[i])
  BY UnbrokenRun
<1>5. k \in 0..N
  OBVIOUS
<1> HIDE DEF N
<1>6. 0 \in S
  <2>1. 0 >= k => k = 0
    BY <1>1, <1>5
  <2> QED BY <1>1, <1>3, <2>1
<1>7. ASSUME NEW j \in 0..(N - 1), j \in S PROVE j + 1 \in S
  <2> DEFINE m == j + 1
  <2>1. m \in 1..N /\ m \in 0..N /\ m - 1 = j /\ j \in 0..N
    BY <1>1
  <2>2. /\ m <= k => j <= k
        /\ m >= k => m = k \/ j >= k
        /\ m <= k /\ m >= k => m = k
        /\ m <= k => m \in 1..k
        /\ ~(m <= k) => j >= k
    BY <1>1, <1>5, <2>1
  <2> HIDE DEF m
  <2>3. v[m] = Write(v[j], items[m]) /\ u[m] = Write(u[j], items[m]) /\ IsItem(V, items[m])
    BY <1>1, <1>2, <1>3, <2>1
  <2>4. CASE m <= k
    <3>1. v[j] = w
      BY <1>7, <2>2, <2>4
    <3>2. Has(u[k], items[m])
      BY <1>4, <1>5, <2>2, <2>4
    <3>3. Writer(V, w) /\ Has(w, items[m])
      BY <3>2 DEF Alike, Has
    <3>4. v[m] = w
      BY <2>3, <3>1, <3>3, WhatWriteDoes
    <3>5. m >= k => Alike(V, v[m], u[m]) /\ StaysWithin(v[m], length)
      BY <2>2, <2>4, <3>4
    <3> QED BY <2>1, <3>4, <3>5 DEF m
  <2>5. CASE ~(m <= k)
    <3>1. Alike(V, v[j], u[j]) /\ StaysWithin(v[j], length) /\ Unbroken(V, u[j])
      BY <1>4, <1>7, <2>1, <2>2, <2>5
    <3>2. Alike(V, v[m], u[m]) /\ StaysWithin(v[m], length)
      BY <2>3, <3>1, BothWrite
    <3> QED BY <2>1, <2>5, <3>2 DEF m
  <2> QED BY <2>4, <2>5
<1>8. 0..N \subseteq S
  <2> HIDE DEF S
  <2> QED BY <1>1, <1>6, <1>7, ClimbingTo
<1>9. N \in 0..N /\ N >= k
  BY <1>1, <1>5
<1> QED BY <1>8, <1>9 DEF N

LEMMA PlanWithin ==
  ASSUME NEW V, NEW W, V \subseteq W, NEW items, IsPlan(V, items)
  PROVE  IsPlan(W, items)
<1>1. PICK U : items \in Seq(U) /\ \A item \in U : IsItem(V, item)
  BY DEF IsPlan
<1>2. ASSUME NEW s \in Seq(V) PROVE s \in Seq(W)
  <2>1. IsSeq(s) /\ ToSet(s) \subseteq V
    BY SequenceIs, LenProperties DEF ToSet
  <2> QED BY <2>1, SequenceWithin
<1>3. ASSUME NEW item \in U PROVE IsItem(W, item)
  BY <1>1, <1>2 DEF IsItem
<1> QED BY <1>1, <1>3 DEF IsPlan

(* The cells of a file from an offset on.                                  *)
Stands(file, place, cells) ==
  /\ place \in Nat /\ place + Len(cells) <= Len(file)
  /\ \A i \in 1..Len(cells) : file[place + i] = cells[i]

LEMMA StandsSlice ==
  ASSUME NEW V, NEW file \in Seq(V), NEW cells \in Seq(V), NEW place, Stands(file, place, cells)
  PROVE  Slice(file, place, Len(cells)) = cells
<1> DEFINE m == Len(cells)
           a == place + 1
           b == place + m
           s == SubSeq(file, a, b)
<1>1. m \in Nat /\ Len(file) \in Nat /\ place \in Nat /\ b <= Len(file)
  BY LenProperties DEF Stands
<1>2. a \in 1..(Len(file) + 1) /\ b \in (a - 1)..Len(file) /\ b - a + 1 = m
  BY <1>1
<1> HIDE DEF a, b
<1>3. s \in Seq(V) /\ Len(s) = m /\ \A i \in 1..m : s[i] = file[a + i - 1]
  BY <1>2, CutFacts
<1>4. ASSUME NEW i \in 1..m PROVE s[i] = cells[i]
  <2>1. a + i - 1 = place + i
    BY <1>1 DEF a
  <2> QED BY <1>3, <2>1 DEF Stands
<1> HIDE DEF s
<1>5. s = cells
  BY <1>3, <1>4, SeqEqual
<1> QED BY <1>5 DEF Slice, s, a, b

LEMMA StandsBehind ==
  ASSUME NEW V, NEW g \in Seq(V), NEW c \in Seq(V)
  PROVE  Stands(g \o c, Len(g), c)
BY CatFacts DEF Stands

LEMMA StandsBefore ==
  ASSUME NEW V, NEW g \in Seq(V), NEW c \in Seq(V), NEW d, Len(d) \in Nat, NEW place,
         Stands(g, place, d)
  PROVE  Stands(g \o c, place, d)
<1> DEFINE n == Len(g)
           m == Len(d)
           gc == g \o c
<1>1. n \in Nat /\ Len(gc) = n + Len(c) /\ Len(c) \in Nat /\ \A i \in 1..n : gc[i] = g[i]
  BY CatFacts
<1>2. place \in Nat /\ place + m <= n /\ \A i \in 1..m : g[place + i] = d[i]
  BY DEF Stands
<1> HIDE DEF gc
<1>3. place + m <= Len(gc)
  BY <1>1, <1>2
<1>4. ASSUME NEW i \in 1..m PROVE gc[place + i] = d[i]
  <2>1. place + i \in 1..n
    BY <1>1, <1>2
  <2> QED BY <1>1, <1>2, <2>1
<1> QED BY <1>2, <1>3, <1>4 DEF Stands, gc

LEMMA StandsStill ==
  ASSUME NEW V, NEW g \in Seq(V), NEW b \in Seq(V), IsPrefix(g, b), NEW d, Len(d) \in Nat,
         NEW place, Stands(g, place, d)
  PROVE  Stands(b, place, d)
<1>1. PICK c \in Seq(V) : b = g \o c
  BY PrefixAndRest
<1> QED BY <1>1, StandsBefore

LEMMA StandsWithin ==
  ASSUME NEW file, NEW c, NEW d, Len(file) \in Nat, Len(c) \in Nat, Len(d) \in Nat,
         NEW place, NEW inner, Stands(file, place, c), Stands(c, inner, d)
  PROVE  Stands(file, place + inner, d)
<1>1. /\ place \in Nat /\ inner \in Nat /\ place + Len(c) <= Len(file) /\ inner + Len(d) <= Len(c)
      /\ \A i \in 1..Len(c) : file[place + i] = c[i]
      /\ \A i \in 1..Len(d) : c[inner + i] = d[i]
  BY DEF Stands
<1>2. ASSUME NEW i \in 1..Len(d) PROVE file[(place + inner) + i] = d[i]
  <2>1. inner + i \in 1..Len(c) /\ (place + inner) + i = place + (inner + i)
    BY <1>1
  <2> QED BY <1>1, <2>1
<1>3. place + inner \in Nat /\ place + inner + Len(d) <= Len(file)
  BY <1>1
<1> QED BY <1>2, <1>3 DEF Stands

(* Other cells of the same number before them change nothing.              *)
LEMMA StandsBeyond ==
  ASSUME NEW V, NEW d \in Seq(V), NEW e \in Seq(V), NEW r \in Seq(V), Len(d) = Len(e),
         NEW c, Len(c) \in Nat, NEW place, place >= Len(d), Stands(d \o r, place, c)
  PROVE  Stands(e \o r, place, c)
<1> DEFINE n == Len(d)
           k == Len(r)
           m == Len(c)
           dr == d \o r
           er == e \o r
<1>1. /\ n \in Nat /\ k \in Nat /\ Len(dr) = n + k /\ Len(er) = n + k
      /\ \A i \in 1..k : dr[n + i] = r[i] /\ er[n + i] = r[i]
  <2>1. n \in Nat /\ k \in Nat
    BY LenProperties
  <2>2. \A s \in Seq(V) : Len(s \o r) = Len(s) + Len(r)
                          /\ \A i \in 1..Len(r) : (s \o r)[Len(s) + i] = r[i]
    BY CatFacts
  <2>3. Len(dr) = n + k /\ \A i \in 1..k : dr[n + i] = r[i]
    BY <2>2
  <2>4. Len(er) = Len(e) + k /\ \A i \in 1..k : er[Len(e) + i] = r[i]
    BY <2>2
  <2> HIDE DEF dr, er
  <2> QED BY <2>1, <2>3, <2>4
<1>2. place \in Nat /\ place + m <= Len(dr) /\ \A i \in 1..m : dr[place + i] = c[i]
  BY DEF Stands
<1> HIDE DEF dr, er
<1>3. ASSUME NEW i \in 1..m PROVE er[place + i] = c[i]
  <2> DEFINE j == place + i - n
  <2>1. j \in 1..k /\ n + j = place + i
    BY <1>1, <1>2
  <2> HIDE DEF j
  <2>2. dr[n + j] = r[j] /\ er[n + j] = r[j]
    BY <1>1, <2>1
  <2> QED BY <1>2, <2>1, <2>2
<1>4. place + m <= Len(er)
  BY <1>1, <1>2
<1> QED BY <1>2, <1>3, <1>4 DEF Stands, er

LEMMA AlignUpIsAligned ==
  ASSUME NEW n \in Nat, NEW a \in Nat \ {0}
  PROVE  AlignUp(n, a) % a = 0
<1> DEFINE q == (n + a - 1) \div a
<1>1. n + a - 1 \in Nat
  OBVIOUS
<1>2. q \in Nat
  BY <1>1, QuotientIsNatural
<1>3. 0 \in 0..(a - 1)
  OBVIOUS
<1> HIDE DEF q
<1>4. (q * a + 0) % a = 0
  BY <1>2, <1>3, RowMajor
<1>5. q * a + 0 = q * a
  <2>1. q * a \in Int
    BY <1>2
  <2> DEFINE p == q * a
  <2> HIDE DEF p
  <2>2. p \in Int => p + 0 = p
    OBVIOUS
  <2> QED BY <2>1, <2>2 DEF p
<1> QED BY <1>4, <1>5 DEF AlignUp, q

-----------------------------------------------------------------------------
(* Sums of sequences and sequences laid end to end.                        *)
LEMMA SumInSteps ==
  ASSUME NEW n \in Nat, NEW s, Len(s) = n, NEW g, g[0] = 0, \A k \in 1..n : g[k] = g[k - 1] + s[k]
  PROVE  SumOf(s) = g[n]
<1> DEFINE Solves(f) == f = [i \in 0..n |-> IF i = 0 THEN 0 ELSE f[i - 1] + s[i]]
           f == CHOOSE f : Solves(f)
           h == [i \in 0..n |-> g[i]]
<1>1. ASSUME NEW i \in 0..n PROVE h[i] = IF i = 0 THEN 0 ELSE h[i - 1] + s[i]
  <2>1. CASE i = 0
    BY <2>1
  <2>2. CASE i # 0
    <3>1. i \in 1..n /\ i - 1 \in 0..n
      BY <2>2
    <3> QED BY <2>2, <3>1
  <2> QED BY <2>1, <2>2
<1>2. Solves(h)
  <2>1. h = [i \in 0..n |-> h[i]]
    OBVIOUS
  <2> HIDE DEF h
  <2> QED BY <1>1, <2>1
<1>3. Solves(f)
  <2> HIDE DEF Solves, h
  <2> QED BY <1>2
<1>4. SumOf(s) = f[n]
  BY DEF SumOf
<1> HIDE DEF f, h
<1>5. f[0] = g[0] /\ \A k \in 1..n : f[k - 1] = g[k - 1] => f[k] = g[k]
  <2>1. f[0] = 0
    BY <1>3
  <2>2. ASSUME NEW k \in 1..n PROVE f[k] = f[k - 1] + s[k]
    <3>1. k \in 0..n /\ k # 0
      OBVIOUS
    <3> QED BY <1>3, <3>1
  <2> HIDE DEF Solves
  <2> QED BY <2>1, <2>2
<1>6. f[n] = g[n]
  <2> HIDE DEF Solves
  <2> QED BY <1>5, SameSteps
<1> QED BY <1>4, <1>6

LEMMA FlattenParts ==
  ASSUME NEW n \in Nat, NEW seqs, seqs = [i \in 1..n |-> seqs[i]], \A i \in 1..n : IsSeq(seqs[i])
  PROVE  /\ IsSeq(FlattenSeq(seqs))
         /\ \A i \in 1..n : Stands(FlattenSeq(seqs), SumOf([k \in 1..(i - 1) |-> Len(seqs[k])]), seqs[i])
<1> DEFINE V == UNION {ToSet(seqs[i]) : i \in 1..n}
           all == FlattenSeq(seqs)
<1>1. ASSUME NEW i \in 1..n PROVE seqs[i] \in Seq(V)
  <2>1. ToSet(seqs[i]) \subseteq V
    OBVIOUS
  <2> HIDE DEF V
  <2> QED BY <2>1, SequenceWithin
<1> HIDE DEF V
<1>2. seqs \in Seq(Seq(V)) /\ Len(seqs) = n
  BY <1>1, FunctionIsSequenceOf
<1> DEFINE step == [i \in 1..n |-> [s \in Seq(V) |-> s \o seqs[i]]]
<1>3. \A i \in 1..n, s \in Seq(V) : step[i][s] = s \o seqs[i] /\ step[i][s] \in Seq(V)
  BY <1>1, CatFacts
<1>4. <<>> \in Seq(V)
  BY EmptySeq
<1> HIDE DEF step
<1>5. PICK f : Repeats(f, n, Seq(V), <<>>, step)
  <2> DEFINE W == Seq(V)
  <2> HIDE DEF W
  <2>1. <<>> \in W /\ \A i \in 1..n, s \in W : step[i][s] \in W
    BY <1>3, <1>4 DEF W
  <2>2. \E f : Repeats(f, n, W, <<>>, step)
    BY <2>1, Iterates
  <2> QED BY <2>2 DEF W
<1>6. f \in [0..n -> Seq(V)] /\ f[0] = <<>> /\ \A i \in 1..n : f[i] = f[i - 1] \o seqs[i]
  <2>1. f \in [0..n -> Seq(V)] /\ f[0] = <<>> /\ \A i \in 1..n : f[i] = step[i][f[i - 1]]
    BY <1>5 DEF Repeats
  <2>2. ASSUME NEW i \in 1..n PROVE f[i] = f[i - 1] \o seqs[i]
    <3>1. i - 1 \in 0..n
      OBVIOUS
    <3>2. f[i - 1] \in Seq(V)
      BY <2>1, <3>1
    <3> QED BY <1>3, <2>1, <3>2
  <2> QED BY <2>1, <2>2
<1>7. all = f[n]
  BY <1>2, <1>6, FlattenedInSteps
<1> DEFINE long == [i \in 0..n |-> Len(f[i])]
<1>8. /\ \A i \in 0..n : long[i] \in Nat /\ long[i] = Len(f[i])
      /\ long[0] = 0 /\ \A i \in 1..n : long[i] = long[i - 1] + Len(seqs[i])
  <2>1. ASSUME NEW i \in 0..n PROVE long[i] \in Nat /\ long[i] = Len(f[i])
    BY <1>6, LenProperties
  <2>2. long[0] = 0
    BY <1>6, EmptySeq
  <2>3. ASSUME NEW i \in 1..n PROVE long[i] = long[i - 1] + Len(seqs[i])
    <3>1. i \in 0..n /\ i - 1 \in 0..n
      OBVIOUS
    <3>2. f[i - 1] \in Seq(V) /\ seqs[i] \in Seq(V)
      BY <1>1, <1>6, <3>1
    <3>3. Len(f[i - 1] \o seqs[i]) = Len(f[i - 1]) + Len(seqs[i])
      BY <3>2, CatFacts
    <3> QED BY <1>6, <3>1, <3>3
  <2> HIDE DEF long
  <2> QED BY <2>1, <2>2, <2>3
<1> HIDE DEF long
<1>9. ASSUME NEW i \in 1..n PROVE SumOf([k \in 1..(i - 1) |-> Len(seqs[k])]) = long[i - 1]
  <2> DEFINE m == i - 1
             s == [k \in 1..m |-> Len(seqs[k])]
  <2>1. m \in Nat /\ \A k \in 1..m : k \in 1..n
    OBVIOUS
  <2> HIDE DEF m
  <2>2. \A k \in 1..m : s[k] \in Nat /\ s[k] = Len(seqs[k])
    BY <1>1, <2>1, LenProperties
  <2>3. Len(s) = m
    <3>1. DOMAIN s = 1..m /\ s = [k \in 1..m |-> s[k]]
      OBVIOUS
    <3> HIDE DEF s
    <3> QED BY <2>1, <2>2, <3>1, FunctionIsSequenceOf
  <2>4. \A k \in 1..m : long[k] = long[k - 1] + s[k]
    BY <1>8, <2>1, <2>2
  <2> HIDE DEF s
  <2>5. SumOf(s) = long[m]
    <3>1. long[0] = 0
      BY <1>8
    <3> QED BY <2>1, <2>3, <2>4, <3>1, SumInSteps
  <2> QED BY <2>5 DEF m, s
<1>10. ASSUME NEW i \in 1..n PROVE IsPrefix(f[i], f[n])
  <2> DEFINE S == {k \in 0..(n - i) : IsPrefix(f[i], f[i + k])}
  <2>1. i \in 0..n /\ n - i \in Nat /\ i + 0 = i /\ i + (n - i) = n /\ n - i \in 0..(n - i) /\ 0 \in 0..(n - i)
    OBVIOUS
  <2>2. f[i] \in Seq(V)
    BY <1>6, <2>1
  <2>3. 0 \in S
    <3>1. f[i] \o <<>> = f[i] /\ IsPrefix(f[i], f[i] \o <<>>)
      BY <1>4, <2>2, NothingBehind, PrefixOfConcat
    <3> QED BY <2>1, <3>1
  <2>4. ASSUME NEW k \in 0..(n - i - 1), k \in S PROVE k + 1 \in S
    <3>1. k + 1 \in 0..(n - i) /\ i + k \in 0..n /\ i + (k + 1) \in 1..n /\ i + (k + 1) - 1 = i + k
          /\ i + (k + 1) \in 0..n
      BY <2>1
    <3>2. f[i + (k + 1)] = f[i + k] \o seqs[i + (k + 1)]
      <4> DEFINE j == i + (k + 1)
      <4>1. j \in 1..n /\ j - 1 = i + k
        BY <3>1
      <4> HIDE DEF j
      <4>2. f[j] = f[j - 1] \o seqs[j]
        BY <1>6, <4>1
      <4> QED BY <4>1, <4>2 DEF j
    <3>3. f[i + k] \in Seq(V) /\ f[i + (k + 1)] \in Seq(V) /\ seqs[i + (k + 1)] \in Seq(V)
      BY <1>1, <1>6, <3>1
    <3>4. IsPrefix(f[i + k], f[i + (k + 1)])
      BY <3>2, <3>3, PrefixOfConcat
    <3>5. IsPrefix(f[i], f[i + (k + 1)])
      BY <2>2, <2>4, <3>3, <3>4, PrefixOfPrefix
    <3> QED BY <3>1, <3>5
  <2>5. 0..(n - i) \subseteq S
    <3> DEFINE m == n - i
    <3>1. m \in Nat /\ \A k \in 0..(m - 1) : k \in S => k + 1 \in S
      BY <2>1, <2>4
    <3> HIDE DEF m, S
    <3>2. 0..m \subseteq S
      BY <2>3, <3>1, ClimbingTo
    <3> QED BY <3>2 DEF m
  <2> QED BY <2>1, <2>5
<1>11. ASSUME NEW i \in 1..n
       PROVE  Stands(all, SumOf([k \in 1..(i - 1) |-> Len(seqs[k])]), seqs[i])
  <2>1. i \in 0..n /\ i - 1 \in 0..n /\ n \in 0..n
    OBVIOUS
  <2>2. f[i - 1] \in Seq(V) /\ f[i] \in Seq(V) /\ f[n] \in Seq(V) /\ seqs[i] \in Seq(V)
    BY <1>1, <1>6, <2>1
  <2>3. Stands(f[i], Len(f[i - 1]), seqs[i])
    BY <1>6, <2>2, StandsBehind
  <2>4. Len(seqs[i]) \in Nat
    BY <2>2, LenProperties
  <2>5. Stands(f[n], Len(f[i - 1]), seqs[i])
    BY <1>10, <2>2, <2>3, <2>4, StandsStill
  <2>6. long[i - 1] = Len(f[i - 1])
    BY <1>8, <2>1
  <2> QED BY <1>7, <1>9, <2>5, <2>6
<1>12. IsSeq(all)
  BY FlattenIs
<1> QED BY <1>11, <1>12

(* The tiles of an expert: one behind the other from its first cell to its *)
(* last, none of them empty.                                               *)
Partition(tiles, total) ==
  /\ IsSeq(tiles) /\ Len(tiles) >= 1
  /\ \A t \in 1..Len(tiles) : tiles[t].offset \in Nat /\ tiles[t].bytes \in Nat \ {0}
  /\ tiles[1].offset = 0
  /\ \A t \in 2..Len(tiles) : tiles[t].offset = tiles[t - 1].offset + tiles[t - 1].bytes
  /\ tiles[Len(tiles)].offset + tiles[Len(tiles)].bytes = total

LEMMA PartitionIsContiguous ==
  ASSUME NEW tiles, NEW total, Partition(tiles, total)
  PROVE  IsContiguous(tiles, total)
<1> DEFINE n == Len(tiles)
           g == [k \in 0..n |-> IF k = 0 THEN 0 ELSE tiles[k].offset + tiles[k].bytes]
<1>1. n \in Nat /\ n >= 1 /\ DOMAIN tiles = 1..n
  BY DomainIs DEF Partition
<1>2. \A t \in 1..n : tiles[t].offset \in Nat /\ tiles[t].bytes \in Nat \ {0}
  BY DEF Partition
<1>3. g[0] = 0 /\ \A k \in 1..n : g[k] = tiles[k].offset + tiles[k].bytes
  BY <1>1
<1> HIDE DEF g
<1>4. ASSUME NEW k \in 1..n PROVE tiles[k].offset = g[k - 1]
  <2>1. CASE k = 1
    BY <1>3, <2>1 DEF Partition
  <2>2. CASE k # 1
    <3>1. k \in 2..n /\ k - 1 \in 1..n
      BY <1>1, <2>2
    <3> QED BY <1>3, <3>1 DEF Partition
  <2> QED BY <2>1, <2>2
<1>5. ASSUME NEW m \in 0..n, NEW s, s = [k \in 1..m |-> tiles[k].bytes] PROVE SumOf(s) = g[m]
  <2>1. m \in Nat /\ \A k \in 1..m : k \in 1..n
    BY <1>1
  <2>2. \A k \in 1..m : s[k] = tiles[k].bytes /\ s[k] \in Nat
    BY <1>2, <1>5, <2>1
  <2>3. Len(s) = m
    <3>1. DOMAIN s = 1..m /\ s = [k \in 1..m |-> s[k]]
      BY <1>5
    <3> QED BY <2>1, <2>2, <3>1, FunctionIsSequenceOf
  <2>4. \A k \in 1..m : g[k] = g[k - 1] + s[k]
    BY <1>3, <1>4, <2>1, <2>2
  <2>5. g[0] = 0
    BY <1>3
  <2> QED BY <2>1, <2>3, <2>4, <2>5, SumInSteps
<1>6. ASSUME NEW t \in 1..n
      PROVE  tiles[t].bytes > 0 /\ tiles[t].offset = SumOf([k \in 1..(t - 1) |-> tiles[k].bytes])
  <2>1. t - 1 \in 0..n /\ tiles[t].bytes > 0
    BY <1>1, <1>2
  <2> QED BY <1>4, <1>5, <2>1
<1>7. SumOf([k \in 1..n |-> tiles[k].bytes]) = total
  <2>1. n \in 0..n /\ n \in 1..n
    BY <1>1
  <2>2. g[n] = total
    BY <1>3, <2>1 DEF Partition
  <2> QED BY <1>5, <2>1, <2>2
<1> QED BY <1>1, <1>6, <1>7 DEF IsContiguous

LEMMA WholeTilesPart ==
  ASSUME NEW V, NEW gate \in Seq(V), NEW up \in Seq(V), NEW down \in Seq(V),
         Len(gate) + Len(up) > 0, Len(down) > 0
  PROVE  Partition(WholeTiles(gate, up, down), Len(gate) + Len(up) + Len(down))
<1> DEFINE n == Len(gate) + Len(up)
           m == Len(down)
           a == [matrix |-> "gateUp", offset |-> 0, bytes |-> n]
           b == [matrix |-> "down", offset |-> n, bytes |-> m]
           tiles == <<a, b>>
<1>1. n \in Nat /\ m \in Nat /\ n > 0 /\ m > 0
  BY LenProperties
<1>2. WholeTiles(gate, up, down) = tiles
  BY DEF WholeTiles
<1>3. a.offset = 0 /\ a.bytes = n /\ b.offset = n /\ b.bytes = m
  OBVIOUS
<1> HIDE DEF n, m, a, b
<1>4. Len(tiles) = 2 /\ tiles[1] = a /\ tiles[2] = b /\ tiles \in Seq({a, b})
  OBVIOUS
<1>5. IsSeq(tiles)
  BY <1>4, SequenceIs
<1> HIDE DEF tiles
<1>6. Partition(tiles, n + m)
  <2>1. \A t \in 1..2 : t = 1 \/ t = 2
    OBVIOUS
  <2>2. \A t \in 2..2 : t = 2 /\ t - 1 = 1
    OBVIOUS
  <2>3. \A t \in 1..2 : tiles[t].offset \in Nat /\ tiles[t].bytes \in Nat \ {0}
    BY <1>1, <1>3, <1>4, <2>1
  <2>4. \A t \in 2..2 : tiles[t].offset = tiles[t - 1].offset + tiles[t - 1].bytes
    BY <1>1, <1>3, <1>4, <2>2
  <2> QED BY <1>1, <1>3, <1>4, <1>5, <2>3, <2>4 DEF Partition
<1> QED BY <1>2, <1>6 DEF n, m

(* Rows of a width that divides the matrices.                              *)
LEMMA DividedPart ==
  ASSUME NEW g \in Nat \ {0}, NEW d \in Nat \ {0}, NEW rows \in Nat \ {0}, NEW cols \in Nat,
         NEW tiles,
         tiles = [t \in 1..(rows + cols) |->
                    IF t <= rows THEN [matrix |-> "gateUp", offset |-> (t - 1) * g, bytes |-> g]
                    ELSE [matrix |-> "down", offset |-> rows * g + (t - rows - 1) * d, bytes |-> d]]
  PROVE  Partition(tiles, rows * g + cols * d)
<1> DEFINE n == rows + cols
<1>1. n \in Nat /\ n >= 1
  OBVIOUS
<1>2. IsSeq(tiles) /\ Len(tiles) = n
  <2>1. tiles = [t \in 1..n |-> tiles[t]]
    OBVIOUS
  <2> HIDE DEF n
  <2> QED BY <1>1, <2>1, FunctionIs
<1>3. \A t \in 1..n : /\ t <= rows => tiles[t].offset = (t - 1) * g /\ tiles[t].bytes = g
                      /\ t > rows => /\ tiles[t].offset = rows * g + (t - rows - 1) * d
                                     /\ tiles[t].bytes = d
  OBVIOUS
<1> HIDE DEF n
<1>4. ASSUME NEW t \in 1..n PROVE tiles[t].offset \in Nat /\ tiles[t].bytes \in Nat \ {0}
  <2>1. CASE t <= rows
    <3>1. t - 1 \in Nat
      OBVIOUS
    <3>2. (t - 1) * g \in Nat
      BY <3>1
    <3> QED BY <1>3, <2>1, <3>2
  <2>2. CASE t > rows
    <3>1. t - rows - 1 \in Nat
      BY <2>2
    <3>2. rows * g \in Nat /\ (t - rows - 1) * d \in Nat
      BY <3>1
    <3>3. rows * g + (t - rows - 1) * d \in Nat
      <4> DEFINE x == rows * g
                 y == (t - rows - 1) * d
      <4>1. x \in Nat /\ y \in Nat
        BY <3>2
      <4> HIDE DEF x, y
      <4>2. x + y \in Nat
        BY <4>1
      <4> QED BY <4>2 DEF x, y
    <3> QED BY <1>3, <2>2, <3>3
  <2> QED BY <2>1, <2>2
<1>5. tiles[1].offset = 0
  <2>1. 1 \in 1..n /\ 1 <= rows /\ (1 - 1) * g = 0
    BY <1>1
  <2> QED BY <1>3, <2>1
<1>6. ASSUME NEW t \in 2..n PROVE tiles[t].offset = tiles[t - 1].offset + tiles[t - 1].bytes
  <2>1. t \in 1..n /\ t - 1 \in 1..n /\ t \in Int
    BY <1>1
  <2>2. CASE t <= rows
    <3>1. t - 1 <= rows
      BY <2>1, <2>2
    <3>2. tiles[t].offset = (t - 1) * g /\ tiles[t - 1].offset = (t - 1 - 1) * g /\ tiles[t - 1].bytes = g
      BY <1>3, <2>1, <2>2, <3>1
    <3>3. (t - 1) * g = (t - 1 - 1) * g + g
      BY <2>1
    <3> QED BY <3>2, <3>3
  <2>3. CASE t = rows + 1
    <3>1. t > rows /\ t - 1 = rows /\ t - rows - 1 = 0
      BY <2>1, <2>3
    <3>2. /\ tiles[t].offset = rows * g + 0 * d
          /\ tiles[t - 1].offset = (rows - 1) * g /\ tiles[t - 1].bytes = g
      BY <1>3, <2>1, <3>1
    <3>3. rows * g + 0 * d = (rows - 1) * g + g
      OBVIOUS
    <3> QED BY <3>2, <3>3
  <2>4. CASE t > rows + 1
    <3>1. t > rows /\ t - 1 > rows
      BY <2>1, <2>4
    <3>2. /\ tiles[t].offset = rows * g + (t - rows - 1) * d
          /\ tiles[t - 1].offset = rows * g + (t - 1 - rows - 1) * d /\ tiles[t - 1].bytes = d
      BY <1>3, <2>1, <3>1
    <3>3. rows * g + (t - rows - 1) * d = rows * g + (t - 1 - rows - 1) * d + d
      BY <2>1
    <3> QED BY <3>2, <3>3
  <2> QED BY <2>1, <2>2, <2>3, <2>4
<1>7. tiles[n].offset + tiles[n].bytes = rows * g + cols * d
  <2>1. n \in 1..n /\ n = rows + cols
    BY <1>1 DEF n
  <2>2. CASE cols = 0
    <3>1. n = rows /\ n <= rows
      BY <2>1, <2>2
    <3>2. tiles[n].offset = (rows - 1) * g /\ tiles[n].bytes = g
      BY <1>3, <2>1, <3>1
    <3>3. (rows - 1) * g + g = rows * g + 0 * d
      OBVIOUS
    <3> QED BY <2>2, <3>2, <3>3
  <2>3. CASE cols # 0
    <3>1. n > rows /\ n - rows - 1 = cols - 1
      BY <2>1, <2>3
    <3>2. tiles[n].offset = rows * g + (cols - 1) * d /\ tiles[n].bytes = d
      BY <1>3, <2>1, <3>1
    <3>3. rows * g + (cols - 1) * d + d = rows * g + cols * d
      OBVIOUS
    <3> QED BY <3>2, <3>3
  <2> QED BY <2>2, <2>3
<1> QED BY <1>1, <1>2, <1>4, <1>5, <1>6, <1>7 DEF Partition

LEMMA DividesExactly ==
  ASSUME NEW a \in Nat, NEW d \in Nat \ {0}, a % d = 0
  PROVE  a \div d \in Nat /\ a = (a \div d) * d
<1> DEFINE q == a \div d
           r == a % d
<1>1. q \in Nat /\ a = d * q + r /\ r = 0
  BY QuotientIsNatural, Division
<1> HIDE DEF q, r
<1>2. d * q + 0 = q * d
  BY <1>1
<1> QED BY <1>1, <1>2 DEF q

(* How a width cuts an expert's matrices.                                  *)
LEMMA RowsAre ==
  ASSUME NEW a \in Nat, NEW b \in Nat, NEW g \in Nat \ {0}, a % g = 0, b % g = 0
  PROVE  \E q \in Nat, p \in Nat : /\ a = q * g /\ b = p * g /\ (a + b) \div g = q + p
                                   /\ a + b = (q + p) * g
<1>1. PICK q \in Nat : a = q * g
  BY DividesExactly
<1>2. PICK p \in Nat : b = p * g
  BY DividesExactly
<1>3. q + p \in Nat /\ 0 \in 0..(g - 1)
  OBVIOUS
<1>4. ((q + p) * g + 0) \div g = q + p
  BY <1>3, RowMajor
<1>5. a + b = (q + p) * g /\ (q + p) * g + 0 = (q + p) * g
  BY <1>1, <1>2
<1> QED BY <1>1, <1>2, <1>4, <1>5

LEMMA PartSlice ==
  ASSUME NEW V, NEW file \in Seq(V), NEW inner \in Seq(V), NEW base, Stands(file, base, inner),
         NEW k \in Nat, NEW n \in Nat, k + n <= Len(inner)
  PROVE  Slice(inner, k, n) = Slice(file, base + k, n)
<1> DEFINE a == k + 1
           b == k + n
           x == SubSeq(inner, a, b)
<1>1. /\ base \in Nat /\ Len(inner) \in Nat /\ Len(file) \in Nat /\ base + Len(inner) <= Len(file)
      /\ \A i \in 1..Len(inner) : file[base + i] = inner[i]
  BY LenProperties DEF Stands
<1>2. a \in 1..(Len(inner) + 1) /\ b \in (a - 1)..Len(inner) /\ b - a + 1 = n
  BY <1>1
<1>3. \A i \in 1..n : a + i - 1 \in 1..Len(inner) /\ base + (a + i - 1) = (base + k) + i
  BY <1>1
<1> HIDE DEF a, b
<1>4. x \in Seq(V) /\ Len(x) = n /\ \A i \in 1..n : x[i] = inner[a + i - 1]
  BY <1>2, CutFacts
<1> HIDE DEF x
<1>5. \A i \in 1..n : file[(base + k) + i] = x[i]
  BY <1>1, <1>3, <1>4
<1>6. base + k \in Nat /\ (base + k) + n <= Len(file)
  BY <1>1
<1>7. Stands(file, base + k, x)
  BY <1>4, <1>5, <1>6 DEF Stands
<1>8. Slice(file, base + k, Len(x)) = x
  BY <1>4, <1>7, StandsSlice
<1> QED BY <1>4, <1>8 DEF Slice, x, a, b

(* Where the matrices of an expert stand.                                  *)
LEMMA MatricesStand ==
  ASSUME NEW V, NEW gate \in Seq(V), NEW up \in Seq(V), NEW down \in Seq(V)
  PROVE  LET cells == gate \o up \o down IN
         /\ cells \in Seq(V) /\ Len(cells) = Len(gate) + Len(up) + Len(down)
         /\ Stands(cells, 0, gate) /\ Stands(cells, Len(gate), up)
         /\ Stands(cells, Len(gate) + Len(up), down)
<1> DEFINE front == gate \o up
           cells == front \o down
<1>1. /\ Len(gate) \in Nat /\ Len(up) \in Nat /\ Len(down) \in Nat
      /\ front \in Seq(V) /\ Len(front) = Len(gate) + Len(up)
      /\ \A i \in 1..Len(gate) : front[i] = gate[i]
  BY CatFacts
<1>2. Stands(front, Len(gate), up)
  BY StandsBehind
<1>3. Stands(front, 0, gate)
  <2> HIDE DEF front
  <2>1. \A i \in 1..Len(gate) : front[0 + i] = gate[i]
    BY <1>1
  <2> QED BY <1>1, <2>1 DEF Stands
<1> HIDE DEF front
<1>4. cells \in Seq(V) /\ Len(cells) = Len(front) + Len(down)
  BY <1>1, CatFacts
<1>5. Stands(cells, Len(front), down)
  BY <1>1, StandsBehind
<1>6. Stands(cells, 0, gate) /\ Stands(cells, Len(gate), up)
  BY <1>1, <1>2, <1>3, StandsBefore
<1> HIDE DEF cells
<1>7. /\ cells \in Seq(V) /\ Len(cells) = Len(gate) + Len(up) + Len(down)
      /\ Stands(cells, 0, gate) /\ Stands(cells, Len(gate), up)
      /\ Stands(cells, Len(gate) + Len(up), down)
  BY <1>1, <1>4, <1>5, <1>6
<1> QED BY <1>7 DEF cells, front

(* A tile within one matrix: its digest is that of its cells.              *)
LEMMA DigestIs ==
  ASSUME NEW V, NEW gate \in Seq(V), NEW up \in Seq(V), NEW down \in Seq(V), NEW tile,
         tile.offset \in Nat, tile.bytes \in Nat,
         tile.matrix = "gateUp" =>
           /\ tile.offset < Len(gate) => tile.offset + tile.bytes <= Len(gate)
           /\ tile.offset + tile.bytes <= Len(gate) + Len(up),
         tile.matrix # "gateUp" =>
           /\ tile.offset >= Len(gate) + Len(up)
           /\ tile.offset + tile.bytes <= Len(gate) + Len(up) + Len(down)
  PROVE  TileDigest(tile, gate, up, down) = Slice(gate \o up \o down, tile.offset, tile.bytes)
<1> DEFINE cells == gate \o up \o down
           first == tile.offset
           n == tile.bytes
           last == first + n
           x == Len(gate)
           y == Len(gate) + Len(up)
           zero == 0
<1>1. /\ cells \in Seq(V) /\ Stands(cells, 0, gate) /\ Stands(cells, x, up) /\ Stands(cells, y, down)
  BY MatricesStand
<1>2. x \in Nat /\ Len(up) \in Nat /\ Len(down) \in Nat /\ y = x + Len(up) /\ y \in Nat
      /\ first \in Nat /\ n \in Nat
  BY LenProperties
<1> HIDE DEF cells, x, y, zero
<1>3. CASE tile.matrix = "gateUp" /\ first < Len(gate)
  <2> DEFINE k == first - zero
  <2>1. TileDigest(tile, gate, up, down)
          = IF last - zero <= Len(gate) THEN SubSeq(gate, k + 1, last - zero) ELSE None
    BY <1>3 DEF TileDigest, zero
  <2>2. last - zero <= Len(gate) /\ k \in Nat /\ k + n <= Len(gate) /\ last - zero = k + n /\ zero + k = first
    BY <1>2, <1>3 DEF zero
  <2> HIDE DEF k
  <2>3. Slice(gate, k, n) = Slice(cells, zero + k, n)
    BY <1>1, <1>2, <2>2, PartSlice DEF zero
  <2>4. TileDigest(tile, gate, up, down) = SubSeq(gate, k + 1, k + n)
    BY <2>1, <2>2
  <2> QED BY <2>2, <2>3, <2>4 DEF cells, Slice
<1>4. CASE tile.matrix = "gateUp" /\ ~(first < Len(gate))
  <2> DEFINE k == first - x
  <2>1. TileDigest(tile, gate, up, down)
          = IF last - x <= Len(up) THEN SubSeq(up, k + 1, last - x) ELSE None
    BY <1>4 DEF TileDigest, x
  <2>2. last - x <= Len(up) /\ k \in Nat /\ k + n <= Len(up) /\ last - x = k + n /\ x + k = first
    BY <1>2, <1>4 DEF x
  <2> HIDE DEF k
  <2>3. Slice(up, k, n) = Slice(cells, x + k, n)
    BY <1>1, <1>2, <2>2, PartSlice
  <2>4. TileDigest(tile, gate, up, down) = SubSeq(up, k + 1, k + n)
    BY <2>1, <2>2
  <2> QED BY <2>2, <2>3, <2>4 DEF cells, Slice
<1>5. CASE tile.matrix # "gateUp"
  <2> DEFINE k == first - y
  <2>1. TileDigest(tile, gate, up, down)
          = IF last - y <= Len(down) THEN SubSeq(down, k + 1, last - y) ELSE None
    BY <1>5 DEF TileDigest, x, y
  <2>2. last - y <= Len(down) /\ k \in Nat /\ k + n <= Len(down) /\ last - y = k + n /\ y + k = first
    BY <1>2, <1>5 DEF x, y
  <2> HIDE DEF k
  <2>3. Slice(down, k, n) = Slice(cells, y + k, n)
    BY <1>1, <1>2, <2>2, PartSlice
  <2>4. TileDigest(tile, gate, up, down) = SubSeq(down, k + 1, k + n)
    BY <2>1, <2>2
  <2> QED BY <2>2, <2>3, <2>4 DEF cells, Slice
<1> QED BY <1>3, <1>4, <1>5

(* What the theorem takes of an expert: there is something to cut, and no  *)
(* tile that has a digest runs from gate into up.                          *)
IsCuttable(item) ==
  /\ Len(item.gate) + Len(item.up) > 0 /\ Len(item.down) > 0
  /\ Divisible(item.width, item.gate, item.up, item.down) \/ item.up = <<>>

LEMMA TilesFit ==
  ASSUME Sizes, NEW V, NEW item, item.kind # "extent", IsItem(V, item), IsCuttable(item)
  PROVE  LET tiles == TilesOf(item.width, item.gate, item.up, item.down)
             cells == Superextent(item)
         IN  /\ Partition(tiles, Len(cells))
             /\ item.width # "whole" => \A t \in 1..Len(tiles) :
                  TileDigest(tiles[t], item.gate, item.up, item.down)
                    = Slice(cells, tiles[t].offset, tiles[t].bytes)
<1> DEFINE width == item.width
           gate  == item.gate
           up    == item.up
           down  == item.down
           x == Len(gate)
           y == Len(up)
           z == Len(down)
           tiles == TilesOf(width, gate, up, down)
           cells == gate \o up \o down
           Fits(tile) == TileDigest(tile, gate, up, down) = Slice(cells, tile.offset, tile.bytes)
           Right == /\ Partition(tiles, Len(cells))
                    /\ width # "whole" => \A t \in 1..Len(tiles) : Fits(tiles[t])
<1>1. gate \in Seq(V) /\ up \in Seq(V) /\ down \in Seq(V) /\ width \in DOMAIN GateUpTile \union {"whole"}
  BY DEF IsItem
<1>2. /\ x \in Nat /\ y \in Nat /\ z \in Nat /\ x + y > 0 /\ z > 0
      /\ Divisible(width, gate, up, down) \/ up = <<>>
  BY <1>1, LenProperties DEF IsCuttable
<1>3. Superextent(item) = cells
  BY DEF Superextent
<1> HIDE DEF width, gate, up, down
<1>4. Len(cells) = x + y + z
  BY <1>1, MatricesStand
<1> HIDE DEF cells
<1>5. ASSUME tiles = WholeTiles(gate, up, down), width = "whole" \/ up = <<>> PROVE Right
  <2>1. Partition(tiles, x + y + z)
    BY <1>1, <1>2, <1>5, WholeTilesPart
  <2>2. ASSUME width # "whole", NEW t \in 1..Len(tiles) PROVE Fits(tiles[t])
    <3> DEFINE a == [matrix |-> "gateUp", offset |-> 0, bytes |-> x + y]
               b == [matrix |-> "down", offset |-> x + y, bytes |-> z]
    <3>1. tiles = <<a, b>> /\ y = 0
      BY <1>5, <2>2, EmptySeq DEF WholeTiles
    <3>2. /\ a.matrix = "gateUp" /\ a.offset = 0 /\ a.bytes = x + y
          /\ b.matrix # "gateUp" /\ b.offset = x + y /\ b.bytes = z
      OBVIOUS
    <3> HIDE DEF a, b
    <3>3. tiles[t] = a \/ tiles[t] = b
      <4>1. Len(<<a, b>>) = 2 /\ <<a, b>>[1] = a /\ <<a, b>>[2] = b
        OBVIOUS
      <4>2. t = 1 \/ t = 2
        BY <3>1, <4>1
      <4> QED BY <3>1, <4>1, <4>2
    <3>4. Fits(a)
      <4>1. /\ a.offset \in Nat /\ a.bytes \in Nat
            /\ a.offset < Len(gate) => a.offset + a.bytes <= Len(gate)
            /\ a.offset + a.bytes <= Len(gate) + Len(up)
        BY <1>2, <3>1, <3>2
      <4>2. a.matrix = "gateUp"
        BY <3>2
      <4> HIDE DEF x, y, z
      <4> QED BY <1>1, <4>1, <4>2, DigestIs DEF cells
    <3>5. Fits(b)
      <4>1. /\ b.offset \in Nat /\ b.bytes \in Nat /\ b.offset >= Len(gate) + Len(up)
            /\ b.offset + b.bytes <= Len(gate) + Len(up) + Len(down)
        BY <1>2, <3>2
      <4> QED BY <1>1, <3>2, <4>1, DigestIs DEF cells
    <3> HIDE DEF Fits
    <3> QED BY <3>3, <3>4, <3>5
  <2> HIDE DEF Fits
  <2> QED BY <1>4, <2>1, <2>2
<1>6. ASSUME ~(tiles = WholeTiles(gate, up, down) /\ (width = "whole" \/ up = <<>>)) PROVE Right
  <2> DEFINE g == GateUpTile[width]
             d == DownTile[width]
             rows == (x + y) \div g
             cols == z \div d
  <2>1. width # "whole" /\ Divisible(width, gate, up, down) /\ tiles = TilePlan(width, gate, up, down)
    BY <1>2, <1>6 DEF TilesOf, TilePlan, Divisible
  <2>2. g \in Nat \ {0} /\ d \in Nat \ {0}
    BY <1>1, <2>1 DEF Sizes
  <2>3. x % g = 0 /\ y % g = 0 /\ z % d = 0
    BY <2>1 DEF Divisible
  <2>4. tiles = [t \in 1..(rows + cols) |->
                   IF t <= rows THEN [matrix |-> "gateUp", offset |-> (t - 1) * g, bytes |-> g]
                   ELSE [matrix |-> "down", offset |-> rows * g + (t - rows - 1) * d, bytes |-> d]]
    BY <2>1 DEF TilePlan
  <2> HIDE DEF g, d, tiles
  <2>5. PICK q \in Nat, p \in Nat : x = q * g /\ y = p * g /\ rows = q + p /\ x + y = (q + p) * g
    BY <1>2, <2>2, <2>3, RowsAre
  <2>6. cols \in Nat /\ z = cols * d
    BY <1>2, <2>2, <2>3, DividesExactly
  <2> HIDE DEF x, y, z, rows, cols
  <2>7. rows \in Nat \ {0} /\ x + y = rows * g
    <3>1. rows = 0 => rows * g = 0
      BY <2>2
    <3> QED BY <1>2, <2>5, <3>1
  <2>8. Partition(tiles, rows * g + cols * d)
    BY <2>2, <2>4, <2>6, <2>7, DividedPart
  <2>9. rows * g + cols * d = x + y + z
    BY <2>6, <2>7
  <2>10. IsSeq(tiles) /\ Len(tiles) = rows + cols
    <3> DEFINE n == rows + cols
    <3>1. n \in Nat /\ tiles = [t \in 1..n |-> tiles[t]]
      BY <2>4, <2>6, <2>7
    <3> HIDE DEF n
    <3>2. IsSeq(tiles) /\ Len(tiles) = n
      BY <3>1, FunctionIs
    <3> QED BY <3>2 DEF n
  <2>11. ASSUME NEW t \in 1..(rows + cols), t <= rows PROVE Fits(tiles[t])
    <3>1. tiles[t] = [matrix |-> "gateUp", offset |-> (t - 1) * g, bytes |-> g]
      BY <2>4, <2>11
    <3> DEFINE o == (t - 1) * g
    <3>2. t \in Nat /\ t - 1 \in Nat /\ t - 1 < rows /\ o \in Nat /\ o = g * (t - 1)
      BY <2>2, <2>7, <2>11
    <3>3. o + g <= rows * g
      <4>1. g * (t - 1) + g <= g * rows
        BY <2>2, <2>7, <3>2, ProductsGrow
      <4>2. g * rows = rows * g
        BY <2>2, <2>7
      <4> QED BY <3>2, <4>1, <4>2
    <3>4. o < x => o + g <= x
      <4> SUFFICES ASSUME o < x PROVE o + g <= x
        OBVIOUS
      <4>1. t - 1 < q
        <5> SUFFICES ASSUME t - 1 >= q PROVE FALSE
          BY <2>5, <3>2
        <5>1. t - 1 = q \/ q < t - 1
          BY <2>5, <3>2
        <5>2. g * q + g <= g * (t - 1) \/ g * q = g * (t - 1)
          BY <2>2, <2>5, <3>2, <5>1, ProductsGrow
        <5>3. g * q = x
          BY <2>2, <2>5
        <5> QED BY <1>2, <2>2, <3>2, <5>2, <5>3
      <4>2. g * (t - 1) + g <= g * q
        BY <2>2, <2>5, <3>2, <4>1, ProductsGrow
      <4>3. g * q = x
        BY <2>2, <2>5
      <4> QED BY <3>2, <4>2, <4>3
    <3>5. tiles[t].matrix = "gateUp" /\ tiles[t].offset = o /\ tiles[t].bytes = g
      BY <3>1
    <3> HIDE DEF o
    <3>6. o \in Nat /\ g \in Nat /\ o + g <= x + y
      BY <2>2, <2>7, <3>2, <3>3
    <3> QED BY <1>1, <3>4, <3>5, <3>6, DigestIs DEF cells, x, y
  <2>12. ASSUME NEW t \in 1..(rows + cols), t > rows PROVE Fits(tiles[t])
    <3>1. tiles[t] = [matrix |-> "down", offset |-> rows * g + (t - rows - 1) * d, bytes |-> d]
      BY <2>4, <2>7, <2>12
    <3> DEFINE k == t - rows - 1
               o == d * k
    <3>2. k \in Nat /\ k < cols /\ k * d = o
      BY <2>2, <2>6, <2>7, <2>12
    <3>3. o \in Nat /\ o + d <= d * cols /\ d * cols = z
      <4> HIDE DEF k
      <4>1. d * k + d <= d * cols
        BY <2>2, <2>6, <3>2, ProductsGrow
      <4> QED BY <2>2, <2>6, <3>2, <4>1
    <3>4. tiles[t].matrix # "gateUp" /\ tiles[t].offset = x + y + o /\ tiles[t].bytes = d
      BY <2>7, <3>1, <3>2
    <3> HIDE DEF o, k
    <3>5. /\ x + y + o \in Nat /\ d \in Nat /\ x + y + o >= x + y
          /\ x + y + o + d <= x + y + z
      BY <1>2, <2>2, <3>3
    <3> QED BY <1>1, <3>4, <3>5, DigestIs DEF cells, x, y, z
  <2>13. ASSUME NEW t \in 1..Len(tiles) PROVE Fits(tiles[t])
    <3>1. t \in 1..(rows + cols) /\ (t <= rows \/ t > rows)
      BY <2>6, <2>7, <2>10
    <3> QED BY <2>11, <2>12, <3>1
  <2> HIDE DEF Fits
  <2> QED BY <1>4, <2>8, <2>9, <2>13
<1>7. Right
  <2> HIDE DEF Right
  <2> QED BY <1>5, <1>6
<1> QED BY <1>3, <1>7 DEF width, gate, up, down

(* An entry of a writer's tables and the item it was written for.          *)
LaidExtent(file, e, item) ==
  /\ item.kind = "extent" /\ e = ExtentEntry(item, e.offset)
  /\ Stands(file, e.offset, item.data)
  /\ e.offset >= SuperblockSize /\ e.offset % item.align = 0
LaidExpert(file, e, item) ==
  /\ item.kind # "extent" /\ e = ExpertEntry(item, e.offset)
  /\ Stands(file, e.offset, Superextent(item))
  /\ e.offset >= SuperblockSize /\ e.offset % ExpertAlignment = 0
Laid(w, items, j) ==
  /\ \A e \in ToSet(w.extents) : \E i \in 1..j : LaidExtent(w.file, e, items[i])
  /\ \A e \in ToSet(w.experts) : \E i \in 1..j : LaidExpert(w.file, e, items[i])

LEMMA PayloadIs ==
  ASSUME NEW V, NEW item, IsItem(V, item)
  PROVE  IF item.kind = "extent" THEN item.data \in Seq(V) /\ Len(item.data) \in Nat
         ELSE Superextent(item) \in Seq(V) /\ Len(Superextent(item)) \in Nat
<1>1. CASE item.kind = "extent"
  BY <1>1, LenProperties DEF IsItem
<1>2. CASE item.kind # "extent"
  <2>1. item.gate \in Seq(V) /\ item.up \in Seq(V) /\ item.down \in Seq(V)
    BY <1>2 DEF IsItem
  <2>2. item.gate \o item.up \o item.down \in Seq(V)
    BY <2>1, MatricesStand
  <2>3. Superextent(item) \in Seq(V)
    BY <2>2 DEF Superextent
  <2> QED BY <1>2, <2>3, LenProperties
<1> QED BY <1>1, <1>2

LEMMA PutStands ==
  ASSUME NEW V, Pad \in V, NEW u, Unbroken(V, u), NEW at \in Nat, at >= u.next, NEW cells \in Seq(V)
  PROVE  Stands(PadAndPut(u, at, cells), at, cells)
<1> DEFINE g == u.file
           n == u.next
           p == Padding(at - n)
           q == p \o cells
<1>1. n \in Nat /\ Len(g) = n /\ g \in Seq(V)
  BY DEF Unbroken, Writer
<1>2. p \in Seq(V) /\ Len(p) = at - n
  <2> HIDE DEF n
  <2>1. at - n \in Int /\ (IF at - n <= 0 THEN 0 ELSE at - n) = at - n
    BY <1>1 DEF n
  <2> DEFINE k == at - n
  <2> HIDE DEF k
  <2>2. Padding(k) \in Seq(V) /\ Len(Padding(k)) = k
    BY <2>1, PaddingFacts DEF k
  <2> QED BY <2>2 DEF k
<1>3. PadAndPut(u, at, cells) = Put(g, Len(g), q)
  BY <1>1 DEF PadAndPut
<1> HIDE DEF g, n, p
<1>4. q \in Seq(V) /\ Stands(q, Len(p), cells)
  BY <1>2, CatFacts, StandsBehind
<1> HIDE DEF q
<1>5. Put(g, Len(g), q) = g \o q /\ Stands(g \o q, Len(g), q) /\ g \o q \in Seq(V)
  BY <1>1, <1>4, PutAppends, StandsBehind, CatFacts
<1>6. Len(g \o q) \in Nat /\ Len(q) \in Nat /\ Len(cells) \in Nat
  BY <1>4, <1>5, LenProperties
<1>7. Stands(g \o q, Len(g) + Len(p), cells)
  BY <1>4, <1>5, <1>6, StandsWithin
<1>8. Len(g) + Len(p) = at
  BY <1>1, <1>2
<1> QED BY <1>3, <1>5, <1>7, <1>8

LEMMA LaidStays ==
  ASSUME NEW V, NEW f \in Seq(V), NEW g \in Seq(V), IsPrefix(f, g), NEW item, IsItem(V, item), NEW e
  PROVE  /\ LaidExtent(f, e, item) => LaidExtent(g, e, item)
         /\ LaidExpert(f, e, item) => LaidExpert(g, e, item)
<1>1. ASSUME item.kind = "extent", Stands(f, e.offset, item.data) PROVE Stands(g, e.offset, item.data)
  <2>1. Len(item.data) \in Nat
    BY <1>1, PayloadIs
  <2> QED BY <1>1, <2>1, StandsStill
<1>2. ASSUME item.kind # "extent", Stands(f, e.offset, Superextent(item))
      PROVE  Stands(g, e.offset, Superextent(item))
  <2>1. Len(Superextent(item)) \in Nat
    BY <1>2, PayloadIs
  <2> QED BY <1>2, <2>1, StandsStill
<1> QED BY <1>1, <1>2 DEF LaidExtent, LaidExpert

LEMMA WriteLays ==
  ASSUME Sizes, NEW V, Pad \in V, NEW u, Unbroken(V, u), NEW items, NEW k \in Nat \ {0},
         \A i \in 1..k : IsItem(V, items[i]), Laid(u, items, k - 1),
         NEW x, x = Write(u, items[k]), x.file \in Seq(V), IsPrefix(u.file, x.file)
  PROVE  Laid(x, items, k)
<1> DEFINE item == items[k]
<1>1. /\ Writer(V, u) /\ u.file \in Seq(V) /\ u.next \in Nat /\ SuperblockSize <= u.next
      /\ IsSeq(u.extents) /\ IsSeq(u.experts)
  BY DEF Unbroken, Writer
<1>2. IsItem(V, item) /\ k \in 1..k /\ \A i \in 1..(k - 1) : i \in 1..k
  OBVIOUS
<1>3. /\ \A e \in ToSet(u.extents) : \E i \in 1..k : LaidExtent(x.file, e, items[i])
      /\ \A e \in ToSet(u.experts) : \E i \in 1..k : LaidExpert(x.file, e, items[i])
  <2>1. ASSUME NEW e \in ToSet(u.extents) PROVE \E i \in 1..k : LaidExtent(x.file, e, items[i])
    <3>1. PICK i \in 1..(k - 1) : LaidExtent(u.file, e, items[i])
      BY DEF Laid
    <3> QED BY <1>1, <1>2, <3>1, LaidStays
  <2>2. ASSUME NEW e \in ToSet(u.experts) PROVE \E i \in 1..k : LaidExpert(x.file, e, items[i])
    <3>1. PICK i \in 1..(k - 1) : LaidExpert(u.file, e, items[i])
      BY DEF Laid
    <3> QED BY <1>1, <1>2, <3>1, LaidStays
  <2> QED BY <2>1, <2>2
<1> HIDE DEF item
<1>4. x = Write(u, item)
  BY DEF item
<1>5. CASE Has(u, item)
  <2>1. x = u
    BY <1>1, <1>4, <1>5, WhatWriteDoes
  <2> QED BY <1>3, <2>1 DEF Laid
<1>6. CASE ~Has(u, item) /\ item.kind = "extent"
  <2> DEFINE at == AlignUp(u.next, item.align)
             e == ExtentEntry(item, at)
  <2>1. item.align \in Nat \ {0} /\ item.data \in Seq(V)
    BY <1>2, <1>6 DEF IsItem
  <2>2. at \in Nat /\ at >= u.next /\ at % item.align = 0
    BY <1>1, <2>1, AlignUpFacts, AlignUpIsAligned
  <2>3. x = Advanced(u, at, item.data, Append(u.extents, e), u.experts)
    BY <1>1, <1>4, <1>6, WhatWriteDoes
  <2>4. e.offset = at /\ e = ExtentEntry(item, e.offset)
    BY DEF ExtentEntry
  <2> HIDE DEF at, e
  <2>5. /\ x.file = PadAndPut(u, at, item.data) /\ x.extents = Append(u.extents, e)
        /\ x.experts = u.experts
    BY <2>3 DEF Advanced
  <2>6. Stands(x.file, at, item.data)
    BY <2>1, <2>2, <2>5, PutStands
  <2>7. at >= SuperblockSize
    BY <1>1, <2>2, SuperblockSizeFacts
  <2>8. LaidExtent(x.file, e, item)
    BY <1>6, <2>2, <2>4, <2>6, <2>7 DEF LaidExtent
  <2>9. ToSet(x.extents) = ToSet(u.extents) \union {e}
    BY <1>1, <2>5, SequenceGrows
  <2>10. \E i \in 1..k : LaidExtent(x.file, e, items[i])
    BY <1>2, <2>8 DEF item
  <2> QED BY <1>3, <2>5, <2>9, <2>10 DEF Laid
<1>7. CASE ~Has(u, item) /\ item.kind # "extent"
  <2> DEFINE at == AlignUp(u.next, ExpertAlignment)
             e == ExpertEntry(item, at)
             cells == Superextent(item)
  <2>1. ExpertAlignment \in Nat \ {0} /\ cells \in Seq(V)
    BY <1>2, <1>7, PayloadIs DEF Sizes
  <2>2. at \in Nat /\ at >= u.next /\ at % ExpertAlignment = 0
    BY <1>1, <2>1, AlignUpFacts, AlignUpIsAligned
  <2>3. x = Advanced(u, at, cells, u.extents, Append(u.experts, e))
    BY <1>1, <1>4, <1>7, WhatWriteDoes
  <2>4. e.offset = at /\ e = ExpertEntry(item, e.offset)
    BY DEF ExpertEntry
  <2> HIDE DEF at, e, cells
  <2>5. /\ x.file = PadAndPut(u, at, cells) /\ x.experts = Append(u.experts, e)
        /\ x.extents = u.extents
    BY <2>3 DEF Advanced
  <2>6. Stands(x.file, at, cells)
    BY <2>1, <2>2, <2>5, PutStands
  <2>7. at >= SuperblockSize
    BY <1>1, <2>2, SuperblockSizeFacts
  <2>8. LaidExpert(x.file, e, item)
    BY <1>7, <2>2, <2>4, <2>6, <2>7 DEF LaidExpert, cells
  <2>9. ToSet(x.experts) = ToSet(u.experts) \union {e}
    BY <1>1, <2>5, SequenceGrows
  <2>10. \E i \in 1..k : LaidExpert(x.file, e, items[i])
    BY <1>2, <2>8 DEF item
  <2> QED BY <1>3, <2>5, <2>9, <2>10 DEF Laid
<1> QED BY <1>5, <1>6, <1>7

LEMMA LaidRun ==
  ASSUME Sizes, NEW V, Pad \in V, NEW items, IsPlan(V, items), NEW u, Run(u, EmptyWriter, items)
  PROVE  \A j \in 0..Len(items) : Laid(u[j], items, j)
<1> DEFINE N == Len(items)
           S == {j \in 0..N : Laid(u[j], items, j)}
<1>1. N \in Nat /\ \A n \in 1..N : IsItem(V, items[n])
  BY PlanFacts
<1>2. u[0] = EmptyWriter /\ \A n \in 1..N : u[n] = Write(u[n - 1], items[n])
  BY DEF Run
<1>3. \A j \in 0..N : /\ Unbroken(V, u[j]) /\ u[j].file \in Seq(V)
                      /\ \A i \in 0..j : IsPrefix(u[i].file, u[j].file)
  BY UnbrokenRun DEF Unbroken, Writer
<1> HIDE DEF N
<1>4. 0 \in S
  <2>1. ToSet(u[0].extents) = {} /\ ToSet(u[0].experts) = {}
    BY <1>2 DEF EmptyWriter, ToSet
  <2> QED BY <1>1, <2>1 DEF Laid
<1>5. ASSUME NEW j \in 0..(N - 1), j \in S PROVE j + 1 \in S
  <2> DEFINE k == j + 1
  <2>1. k \in 1..N /\ k \in 0..N /\ k - 1 = j /\ j \in 0..N /\ k \in Nat \ {0} /\ j \in 0..k
        /\ \A i \in 1..k : i \in 1..N
    BY <1>1
  <2> HIDE DEF k
  <2>2. u[k] = Write(u[j], items[k]) /\ \A i \in 1..k : IsItem(V, items[i])
    BY <1>1, <1>2, <2>1
  <2>3. Unbroken(V, u[j]) /\ u[k].file \in Seq(V) /\ IsPrefix(u[j].file, u[k].file)
    BY <1>3, <2>1
  <2>4. Laid(u[j], items, k - 1)
    BY <1>5, <2>1
  <2>5. Laid(u[k], items, k)
    BY <2>1, <2>2, <2>3, <2>4, WriteLays
  <2>6. k \in S
    BY <2>1, <2>5
  <2> QED BY <2>6 DEF k
<1>6. 0..N \subseteq S
  <2> HIDE DEF S
  <2> QED BY <1>1, <1>4, <1>5, ClimbingTo
<1> QED BY <1>6 DEF N

(* What commit() leaves: behind the superblock's cells everything that was *)
(* written, u[n] being the writer behind the n-th item.                    *)
TableCells(w) ==
  UNION {ToSet(StringTable(w)), ToSet(ExtentTable(w)), ToSet(ExpertIndex(w)),
         ToSet(ChecksumTable(w)), ToSet(SectionTable(w))}

Committed(V, items, u, r) ==
  LET last == u[Len(items)]
      kept == Books(last)
      seal == Encode(Superblock(kept))
  IN  /\ Pad \in V /\ IsPlan(V, items) /\ TableCells(kept) \subseteq V
      /\ Run(u, EmptyWriter, items)
      /\ seal \in Seq(V) /\ Len(seal) = SuperblockSize /\ r \in Seq(V)
      /\ Padding(SuperblockSize) \in Seq(V) /\ Len(Padding(SuperblockSize)) = SuperblockSize
      /\ WithTables(last.file, kept) = Padding(SuperblockSize) \o r
      /\ Uninterrupted(items) = seal \o r

LEMMA CommitLeaves ==
  ASSUME Sizes, NEW Payload, NEW items, IsPlan(Payload, items)
  PROVE  \E V, u, r : Committed(V, items, u, r)
<1> DEFINE N == Len(items)
           whole == Uninterrupted(items)
<1>1. PICK u : Run(u, EmptyWriter, items) /\ WriteAll(EmptyWriter, items) = u[N]
  <2>1. PICK U : items \in Seq(U)
    BY DEF IsPlan
  <2> QED BY <2>1, WriteAllInSteps
<1>2. N \in Nat /\ SuperblockSize \in Nat
  BY PlanFacts, SuperblockSizeFacts
<1> DEFINE last == u[N]
           kept == Books(last)
           B == WithTables(last.file, kept)
           seal == Encode(Superblock(kept))
           tables == TableCells(kept)
           V == Payload \union {Pad} \union tables \union ToSet(seal)
           pad == Padding(SuperblockSize)
<1>3. Pad \in V /\ IsPlan(V, items) /\ tables \subseteq V /\ ToSet(seal) \subseteq V
  <2>1. Payload \subseteq V
    OBVIOUS
  <2>2. Pad \in V /\ tables \subseteq V /\ ToSet(seal) \subseteq V
    OBVIOUS
  <2> HIDE DEF V, tables, seal
  <2> QED BY <2>1, <2>2, PlanWithin
<1>4. whole = Put(B, 0, seal)
  BY <1>1 DEF Uninterrupted, Commit
<1>5. seal \in Seq(V) /\ Len(seal) = SuperblockSize
  <2> DEFINE n == SuperblockSize
  <2>1. n \in Nat /\ seal = [i \in 1..n |-> seal[i]]
    BY <1>2 DEF Encode
  <2> HIDE DEF n, seal
  <2>2. IsSeq(seal) /\ Len(seal) = n
    BY <2>1, FunctionIs
  <2> HIDE DEF V
  <2> QED BY <1>3, <2>2, SequenceWithin DEF n
<1>6. pad \in Seq(V) /\ Len(pad) = SuperblockSize
  <2> DEFINE m == SuperblockSize
  <2>1. m \in Int /\ m = IF m <= 0 THEN 0 ELSE m
    BY <1>2
  <2> HIDE DEF m, V
  <2>2. Padding(m) \in Seq(V) /\ Len(Padding(m)) = m
    BY <1>3, <2>1, PaddingFacts
  <2> QED BY <2>2 DEF m
<1>7. kept.next = last.next /\ kept.extents = last.extents /\ kept.experts = last.experts
  BY DEF Books
<1> HIDE DEF kept, seal, tables, V, pad
<1>8. Unbroken(V, last) /\ IsPrefix(pad, last.file)
  <2>1. \A j \in 0..N : Unbroken(V, u[j]) /\ \A i \in 0..j : IsPrefix(u[i].file, u[j].file)
    BY <1>1, <1>3, UnbrokenRun
  <2>2. u[0].file = pad
    <3>1. u[0] = EmptyWriter
      BY <1>1 DEF Run
    <3> QED BY <1>3, <3>1, StartsUnbroken DEF pad
  <2>3. 0 \in 0..N /\ N \in 0..N
    BY <1>2
  <2> HIDE DEF N
  <2> QED BY <2>1, <2>2, <2>3
<1>9. Writer(V, last) /\ last.file \in Seq(V) /\ last.next = Len(last.file)
  <2> HIDE DEF last
  <2> QED BY <1>8 DEF Unbroken, Writer
<1>10. /\ IsSeq(kept.extents) /\ IsSeq(kept.experts)
       /\ \A e \in ToSet(kept.experts) : IsSeq(e.tiles) /\ IsSeq(e.tileDigests)
  BY <1>7, <1>9 DEF Writer
<1>11. B \in Seq(V) /\ IsPrefix(last.file, B)
  <2>1. Covers(V, last.file, last.file)
    BY <1>3, <1>9, CoversItself
  <2>2. kept.next = Len(last.file)
    BY <1>7, <1>9
  <2> HIDE DEF last
  <2>3. Grows(V, last.file, last.file, B, B)
    BY <1>3, <1>9, <1>10, <2>1, <2>2, TablesGrow DEF tables, TableCells
  <2> QED BY <2>3 DEF Grows
<1> HIDE DEF B
<1>12. IsPrefix(pad, B)
  BY <1>6, <1>8, <1>9, <1>11, PrefixOfPrefix
<1>13. PICK r \in Seq(V) : B = pad \o r
  BY <1>6, <1>11, <1>12, PrefixAndRest
<1>14. whole = seal \o r
  BY <1>3, <1>4, <1>5, <1>6, <1>13, PutInFront
<1>15. Committed(V, items, u, r)
  BY <1>1, <1>3, <1>5, <1>6, <1>13, <1>14 DEF Committed, kept, seal, tables, pad, B
<1> QED BY <1>15

(* An interrupted conversion ends as if it had not been: cut off anywhere  *)
(* before its superblock is written, with any number of payloads in its    *)
(* journal, resume_partial either refuses the file or the conversion goes  *)
(* on to the very cells an uninterrupted one writes, its padding, tables   *)
(* and superblock among them, for any plan, any widths and alignments.     *)
THEOREM ConversionsResume ==
  ASSUME Sizes, NEW Payload, NEW items, IsPlan(Payload, items)
  PROVE  ResumesToTheSame(items)
<1> DEFINE N == Len(items)
           whole == Uninterrupted(items)
           unsealed == Put(whole, 0, Padding(SuperblockSize))
<1>1. PICK V, u, r : Committed(V, items, u, r)
  BY CommitLeaves
<1>2. N \in Nat /\ SuperblockSize \in Nat
  BY PlanFacts, SuperblockSizeFacts
<1> DEFINE last == u[N]
           kept == Books(last)
           B == WithTables(last.file, kept)
           seal == Encode(Superblock(kept))
           pad == Padding(SuperblockSize)
<1>3. Pad \in V /\ IsPlan(V, items) /\ TableCells(kept) \subseteq V /\ Run(u, EmptyWriter, items)
  BY <1>1 DEF Committed
<1>4. r \in Seq(V) /\ B = pad \o r /\ whole = seal \o r
  BY <1>1 DEF Committed
<1>5. seal \in Seq(V) /\ Len(seal) = SuperblockSize
  BY <1>1 DEF Committed
<1>6. pad \in Seq(V) /\ Len(pad) = SuperblockSize
  BY <1>1 DEF Committed
<1>7. kept.next = last.next /\ kept.extents = last.extents /\ kept.experts = last.experts
  BY DEF Books
<1> HIDE DEF kept, seal, pad
<1>8. \A j \in 0..N : /\ Unbroken(V, u[j])
                      /\ IsPrefix(u[j].file, last.file)
                      /\ IsPrefix(pad, u[j].file)
  <2>1. \A j \in 0..N : Unbroken(V, u[j]) /\ \A i \in 0..j : IsPrefix(u[i].file, u[j].file)
    BY <1>3, UnbrokenRun
  <2>2. u[0].file = pad
    <3>1. u[0] = EmptyWriter
      BY <1>3 DEF Run
    <3> QED BY <1>3, <3>1, StartsUnbroken DEF pad
  <2>3. ASSUME NEW j \in 0..N PROVE 0 \in 0..j /\ j \in 0..N /\ N \in 0..N
    BY <1>2
  <2> HIDE DEF N
  <2> QED BY <2>1, <2>2, <2>3
<1>9. N \in 0..N /\ Unbroken(V, last) /\ Writer(V, last) /\ last.file \in Seq(V) /\ last.next = Len(last.file)
  <2>1. N \in 0..N
    <3> HIDE DEF N
    <3> QED BY <1>2
  <2>2. Unbroken(V, last)
    BY <1>8, <2>1
  <2> HIDE DEF last
  <2> QED BY <2>1, <2>2 DEF Unbroken, Writer
<1>10. /\ IsSeq(kept.extents) /\ IsSeq(kept.experts)
       /\ \A e \in ToSet(kept.experts) : IsSeq(e.tiles) /\ IsSeq(e.tileDigests)
  BY <1>7, <1>9 DEF Writer
<1>11. ASSUME NEW f \in Seq(V), Covers(V, f, last.file)
       PROVE  Grows(V, f, last.file, WithTables(f, kept), B)
  <2>1. kept.next = Len(last.file)
    BY <1>7, <1>9
  <2> HIDE DEF last
  <2> QED BY <1>3, <1>9, <1>10, <1>11, <2>1, TablesGrow DEF TableCells
<1>12. B \in Seq(V) /\ IsPrefix(last.file, B) /\ Len(last.file) <= Len(B)
  <2>1. Covers(V, last.file, last.file)
    BY <1>3, <1>9, CoversItself
  <2> QED BY <1>9, <1>11, <2>1 DEF Grows
<1> HIDE DEF B
<1>13. unsealed = B /\ Len(whole) = Len(B)
  <2>4. Put(seal \o r, 0, pad) = pad \o r
    BY <1>3, <1>4, <1>5, <1>6, PutInFront
  <2>5. Len(seal \o r) = Len(pad \o r)
    <3>1. Len(seal \o r) = Len(seal) + Len(r)
      BY <1>4, <1>5, CatFacts
    <3>2. Len(pad \o r) = Len(pad) + Len(r)
      BY <1>4, <1>6, CatFacts
    <3> QED BY <1>5, <1>6, <3>1, <3>2
  <2> HIDE DEF whole
  <2> QED BY <1>4, <2>4, <2>5 DEF pad
<1> SUFFICES ASSUME NEW k \in 0..N, NEW length \in 0..Len(whole),
                    NEW log, log = WriteAll(EmptyWriter, SubSeq(items, 1, k)),
                    NEW w, w = Resume(SubSeq(unsealed, 1, length), log.extents, log.experts),
                    w # Refused
             PROVE  Commit(WriteAll(w, items)) = whole
  BY DEF ResumesToTheSame
<1>14. log = u[k]
  <2> DEFINE first == SubSeq(items, 1, k)
  <2>1. PICK U : items \in Seq(U)
    BY DEF IsPlan
  <2>2. k \in Nat /\ k <= N /\ 1 \in 1..(N + 1) /\ k \in (1 - 1)..N /\ k - 1 + 1 = k
    BY <1>2
  <2>3. first \in Seq(U) /\ Len(first) = k - 1 + 1 /\ \A i \in 1..(k - 1 + 1) : first[i] = items[1 + i - 1]
    BY <2>1, <2>2, CutFacts
  <2> HIDE DEF first
  <2>4. Len(first) = k /\ \A i \in 1..k : first[i] = items[i]
    <3>1. \A i \in 1..k : 1 + i - 1 = i
      BY <2>2
    <3> QED BY <2>2, <2>3, <3>1
  <2>5. PICK f : Run(f, EmptyWriter, first) /\ WriteAll(EmptyWriter, first) = f[k]
    BY <2>3, <2>4, WriteAllInSteps
  <2>6. f[0] = u[0] /\ \A i \in 1..k : f[i - 1] = u[i - 1] => f[i] = u[i]
    <3>1. \A i \in 1..k : i \in 1..N
      BY <1>2
    <3> HIDE DEF N
    <3> QED BY <1>3, <2>4, <2>5, <3>1 DEF Run, N
  <2>7. f[k] = u[k]
    BY <2>2, <2>6, SameSteps
  <2> QED BY <2>5, <2>7 DEF first
<1>15. Alike(V, w, u[k]) /\ StaysWithin(w, Len(B)) /\ Len(B) \in Nat
  <2>1. Unbroken(V, u[k]) /\ IsPrefix(pad, u[k].file) /\ IsPrefix(u[k].file, last.file)
    BY <1>8
  <2>2. u[k].file \in Seq(V)
    BY <2>1 DEF Unbroken, Writer
  <2>3. IsPrefix(u[k].file, B)
    BY <1>9, <1>12, <2>1, <2>2, PrefixOfPrefix
  <2>4. length \in 0..Len(B) /\ Len(B) \in Nat /\ w = Resume(SubSeq(B, 1, length), u[k].extents, u[k].experts)
    BY <1>12, <1>13, <1>14, LenProperties
  <2> QED BY <1>3, <1>12, <2>1, <2>3, <2>4, ResumedIsAlike DEF pad
<1>16. PICK v : Run(v, w, items) /\ WriteAll(w, items) = v[N]
  <2>1. PICK U : items \in Seq(U)
    BY DEF IsPlan
  <2> QED BY <2>1, WriteAllInSteps
<1> DEFINE x == v[N]
<1>17. Alike(V, x, last) /\ StaysWithin(x, Len(B))
  BY <1>3, <1>15, <1>16, ResumedRun
<1>18. /\ x.file \in Seq(V) /\ Covers(V, x.file, last.file) /\ Books(x) = kept
       /\ Len(x.file) <= Len(B)
  <2>1. x.next = last.next /\ x.extents = last.extents /\ x.experts = last.experts
        /\ x.file \in Seq(V) /\ Covers(V, x.file, last.file)
    BY <1>17 DEF Alike, Writer
  <2>2. Books(x) = kept
    BY <2>1 DEF Books, kept
  <2>3. Len(x.file) <= Len(B)
    BY <1>9, <1>12, <1>17, <2>1 DEF StaysWithin
  <2> QED BY <2>1, <2>2, <2>3
<1> HIDE DEF x
<1>19. WithTables(x.file, kept) = B
  <2> DEFINE a == WithTables(x.file, kept)
  <2>1. Grows(V, x.file, last.file, a, B)
    BY <1>11, <1>18
  <2>2. a \in Seq(V) /\ Covers(V, a, B) /\ Len(a) = Len(B)
    BY <1>18, <2>1 DEF Grows
  <2> HIDE DEF a
  <2>3. a = B
    BY <1>3, <1>12, <2>2, SameWhenCovered
  <2> QED BY <2>3 DEF a
<1>20. Commit(x) = Put(B, 0, seal)
  BY <1>18, <1>19 DEF Commit, seal
<1>21. Put(B, 0, seal) = whole
  BY <1>3, <1>4, <1>5, <1>6, PutInFront
<1> QED BY <1>16, <1>20, <1>21 DEF x

-----------------------------------------------------------------------------
(* The tables of a writer's books stand in a file where their spans say,   *)
(* behind everything up to `from`.                                         *)
TablesStand(file, w, from) ==
  LET spans == TableSpans(w)
      at(span, cells) == /\ span.offset \in Nat /\ span.offset >= from
                         /\ span.bytes = Len(cells) /\ Stands(file, span.offset, cells)
  IN  /\ at(spans.strings, StringTable(w)) /\ at(spans.extents, ExtentTable(w))
      /\ at(spans.index, ExpertIndex(w)) /\ at(spans.checksums, ChecksumTable(w))
      /\ at(SectionSpan(w), SectionTable(w)) /\ Len(file) = EndOf(SectionSpan(w))

LEMMA TablePut ==
  ASSUME NEW V, Pad \in V, NEW g \in Seq(V), NEW c \in Seq(V), NEW span, span.offset \in Nat,
         span.offset >= Len(g)
  PROVE  LET h == PutTable(g, Len(g), span, c) IN
         /\ h \in Seq(V) /\ Len(h) = span.offset + Len(c) /\ IsPrefix(g, h)
         /\ Stands(h, span.offset, c)
<1> DEFINE o == span.offset
           n == Len(g)
           k == o - n
           p == Padding(k)
           gp == g \o p
<1>1. n \in Nat /\ k \in Int /\ k >= 0 /\ n + k = o
  BY LenProperties
<1>2. p \in Seq(V) /\ Len(p) = k
  <2> HIDE DEF k
  <2> QED BY <1>1, PaddingFacts
<1>3. gp \in Seq(V) /\ Len(gp) = o /\ IsPrefix(g, gp) /\ Put(g, n, p) = gp
  <2> HIDE DEF p, k
  <2> QED BY <1>1, <1>2, CatFacts, PrefixOfConcat, PutAppends
<1>4. PutTable(g, n, span, c) = Put(Put(g, n, p), o, c)
  BY DEF PutTable
<1> HIDE DEF p, gp
<1>5. Put(gp, o, c) = gp \o c
  BY <1>3, PutAppends
<1>6. gp \o c \in Seq(V) /\ Len(gp \o c) = Len(gp) + Len(c) /\ IsPrefix(gp, gp \o c)
  BY <1>3, CatFacts, PrefixOfConcat
<1>7. Stands(gp \o c, Len(gp), c)
  BY <1>3, StandsBehind
<1>8. IsPrefix(g, gp \o c)
  BY <1>3, <1>6, PrefixOfPrefix
<1> DEFINE h == PutTable(g, n, span, c)
<1>9. h = gp \o c
  BY <1>3, <1>4, <1>5
<1> HIDE DEF h, n, o
<1>10. h \in Seq(V) /\ Len(h) = o + Len(c) /\ IsPrefix(g, h) /\ Stands(h, o, c)
  BY <1>3, <1>6, <1>7, <1>8, <1>9
<1> QED BY <1>10 DEF h, n, o

LEMMA TablesLaid ==
  ASSUME Sizes, NEW V, Pad \in V, NEW g \in Seq(V), NEW w, w.next = Len(g),
         IsSeq(w.extents), IsSeq(w.experts),
         \A e \in ToSet(w.experts) : IsSeq(e.tiles) /\ IsSeq(e.tileDigests),
         TableCells(w) \subseteq V
  PROVE  TablesStand(WithTables(g, w), w, Len(g)) /\ WithTables(g, w) \in Seq(V)
<1> DEFINE T1 == StringTable(w)
           T2 == ExtentTable(w)
           T3 == ExpertIndex(w)
           T4 == ChecksumTable(w)
           T5 == SectionTable(w)
           s == TableSpans(w)
           s1 == s.strings
           s2 == s.extents
           s3 == s.index
           s4 == s.checksums
           s5 == SectionSpan(w)
           n == Len(g)
           A(end) == AlignUp(end, TableAlignment)
<1>1. /\ {T1, T2, T3, T4, T5} \subseteq Seq(V)
      /\ Len(T1) = Len(w.extents) /\ Len(T2) = Len(w.extents)
  <2>1. IsSeq(T1) /\ IsSeq(T2) /\ IsSeq(T3) /\ IsSeq(T4) /\ IsSeq(T5)
        /\ Len(T1) = Len(w.extents) /\ Len(T2) = Len(w.extents)
    BY TablesAre
  <2>2. ToSet(T1) \subseteq V /\ ToSet(T2) \subseteq V /\ ToSet(T3) \subseteq V
        /\ ToSet(T4) \subseteq V /\ ToSet(T5) \subseteq V
    BY DEF TableCells
  <2> HIDE DEF T1, T2, T3, T4, T5
  <2> QED BY <2>1, <2>2, SequenceWithin
<1>2. /\ s1.offset = A(n) /\ s1.bytes = Len(w.extents)
      /\ s2.offset = A(EndOf(s1)) /\ s2.bytes = Len(w.extents)
      /\ s3.offset = A(EndOf(s2)) /\ s3.bytes = Len(T3)
      /\ s4.offset = A(EndOf(s3)) /\ s4.bytes = Len(T4)
      /\ s5.offset = A(EndOf(s4)) /\ s5.bytes = Len(T5)
  BY DEF TableSpans, SectionSpan
<1> DEFINE f1 == PutTable(g, n, s1, T1)
           f2 == PutTable(f1, EndOf(s1), s2, T2)
           f3 == PutTable(f2, EndOf(s2), s3, T3)
           f4 == PutTable(f3, EndOf(s3), s4, T4)
           f5 == PutTable(f4, EndOf(s4), s5, T5)
<1>3. WithTables(g, w) = f5
  BY DEF WithTables
<1> HIDE DEF s, s5, T1, T2, T3, T4, T5, f1, f2, f3, f4, f5
<1>4. \A m \in Nat : A(m) \in Nat /\ A(m) >= m
  BY AlignUpFacts DEF Sizes
<1> HIDE DEF A
<1> DEFINE Laid1(h, f, span, T) ==
             /\ f \in Seq(V) /\ Len(f) = EndOf(span) /\ IsPrefix(h, f)
             /\ Stands(f, span.offset, T) /\ span.offset \in Nat /\ span.offset >= Len(h)
             /\ Len(h) <= Len(f) /\ span.bytes = Len(T)
<1>5. ASSUME NEW h \in Seq(V), NEW span, NEW T \in Seq(V), span.offset = A(Len(h)), span.bytes = Len(T)
      PROVE  Laid1(h, PutTable(h, Len(h), span, T), span, T)
  <2>1. Len(h) \in Nat /\ Len(T) \in Nat
    BY LenProperties
  <2>2. span.offset \in Nat /\ span.offset >= Len(h)
    BY <1>4, <1>5, <2>1
  <2> DEFINE f == PutTable(h, Len(h), span, T)
  <2>3. f \in Seq(V) /\ Len(f) = span.offset + Len(T) /\ IsPrefix(h, f) /\ Stands(f, span.offset, T)
    BY <2>2, TablePut
  <2> HIDE DEF f
  <2>4. Len(f) = EndOf(span) /\ Len(h) <= Len(f)
    BY <1>5, <2>1, <2>2, <2>3 DEF EndOf
  <2> QED BY <1>5, <2>2, <2>3, <2>4 DEF f
<1>6. Laid1(g, f1, s1, T1)
  BY <1>1, <1>2, <1>5 DEF f1
<1>7. Laid1(f1, f2, s2, T2)
  <2>1. f1 \in Seq(V) /\ Len(f1) = EndOf(s1)
    BY <1>6
  <2> HIDE DEF Laid1
  <2> QED BY <1>1, <1>2, <1>5, <2>1 DEF f2
<1>8. Laid1(f2, f3, s3, T3)
  <2>1. f2 \in Seq(V) /\ Len(f2) = EndOf(s2)
    BY <1>7
  <2> HIDE DEF Laid1
  <2> QED BY <1>1, <1>2, <1>5, <2>1 DEF f3
<1>9. Laid1(f3, f4, s4, T4)
  <2>1. f3 \in Seq(V) /\ Len(f3) = EndOf(s3)
    BY <1>8
  <2> HIDE DEF Laid1
  <2> QED BY <1>1, <1>2, <1>5, <2>1 DEF f4
<1>10. Laid1(f4, f5, s5, T5)
  <2>1. f4 \in Seq(V) /\ Len(f4) = EndOf(s4)
    BY <1>9
  <2> HIDE DEF Laid1
  <2> QED BY <1>1, <1>2, <1>5, <2>1 DEF f5
<1>11. n \in Nat /\ Len(f1) \in Nat /\ Len(f2) \in Nat /\ Len(f3) \in Nat /\ Len(f4) \in Nat
       /\ Len(f5) \in Nat
  BY <1>6, <1>7, <1>8, <1>9, <1>10, LenProperties
<1>12. n <= Len(f1) /\ n <= Len(f2) /\ n <= Len(f3) /\ n <= Len(f4)
  BY <1>6, <1>7, <1>8, <1>9, <1>11
<1>13. ASSUME NEW h, NEW f, NEW span, NEW T, Laid1(h, f, span, T), Len(h) \in Nat, n <= Len(h), f \in Seq(V),
              NEW k, k \in Seq(V), IsPrefix(f, k), T \in Seq(V)
       PROVE  span.offset \in Nat /\ span.offset >= n /\ span.bytes = Len(T) /\ Stands(k, span.offset, T)
  <2>1. span.offset \in Nat /\ span.offset >= n /\ span.bytes = Len(T)
    BY <1>11, <1>13
  <2>2. Len(T) \in Nat
    BY <1>13, LenProperties
  <2>3. Stands(k, span.offset, T)
    BY <1>13, <2>2, StandsStill
  <2> QED BY <2>1, <2>3
<1>14. {g, f1, f2, f3, f4, f5} \subseteq Seq(V)
  BY <1>6, <1>7, <1>8, <1>9, <1>10
<1>15. IsPrefix(f4, f5) /\ IsPrefix(f3, f5) /\ IsPrefix(f2, f5) /\ IsPrefix(f1, f5)
  <2>1. IsPrefix(f4, f5) /\ IsPrefix(f3, f4) /\ IsPrefix(f2, f3) /\ IsPrefix(f1, f2)
    BY <1>7, <1>8, <1>9, <1>10
  <2> HIDE DEF Laid1
  <2>2. IsPrefix(f3, f5)
    BY <1>14, <2>1, PrefixOfPrefix
  <2>3. IsPrefix(f2, f5)
    BY <1>14, <2>1, <2>2, PrefixOfPrefix
  <2> QED BY <1>14, <2>1, <2>2, <2>3, PrefixOfPrefix
<1> DEFINE Right(span, T) == span.offset \in Nat /\ span.offset >= n /\ span.bytes = Len(T)
                             /\ Stands(f5, span.offset, T)
<1>16. Right(s5, T5)
  <2>1. s5.offset \in Nat /\ s5.offset >= Len(f4) /\ s5.bytes = Len(T5) /\ Stands(f5, s5.offset, T5)
    BY <1>10
  <2> QED BY <1>11, <1>12, <2>1
<1>17. Len(f5) = EndOf(s5)
  BY <1>10
<1> HIDE DEF Laid1
<1>18. Right(s1, T1)
  <2>1. n <= n
    BY <1>11
  <2> QED BY <1>1, <1>6, <1>11, <1>13, <1>14, <1>15, <2>1
<1>19. Right(s2, T2)
  BY <1>1, <1>7, <1>11, <1>12, <1>13, <1>14, <1>15
<1>20. Right(s3, T3)
  BY <1>1, <1>8, <1>11, <1>12, <1>13, <1>14, <1>15
<1>21. Right(s4, T4)
  BY <1>1, <1>9, <1>11, <1>12, <1>13, <1>14, <1>15
<1>22. TablesStand(f5, w, n)
  BY <1>16, <1>17, <1>18, <1>19, <1>20, <1>21 DEF TablesStand, s, s5, T1, T2, T3, T4, T5
<1> QED BY <1>3, <1>14, <1>22

(* The same tables behind a superblock.                                    *)
LEMMA CommittedTables ==
  ASSUME Sizes, NEW V, NEW items, NEW u, NEW r, Committed(V, items, u, r)
  PROVE  LET last == u[Len(items)] IN
         /\ Unbroken(V, last) /\ Uninterrupted(items) \in Seq(V)
         /\ IsPrefix(last.file, Padding(SuperblockSize) \o r)
         /\ TablesStand(Uninterrupted(items), Books(last), Len(last.file))
<1> DEFINE N == Len(items)
           last == u[N]
           kept == Books(last)
           seal == Encode(Superblock(kept))
           pad == Padding(SuperblockSize)
           B == pad \o r
           whole == Uninterrupted(items)
           n == Len(last.file)
<1>1. /\ Pad \in V /\ IsPlan(V, items) /\ TableCells(kept) \subseteq V /\ Run(u, EmptyWriter, items)
      /\ seal \in Seq(V) /\ Len(seal) = SuperblockSize /\ r \in Seq(V)
      /\ pad \in Seq(V) /\ Len(pad) = SuperblockSize
      /\ WithTables(last.file, kept) = B /\ whole = seal \o r
  BY DEF Committed
<1>2. N \in Nat /\ SuperblockSize \in Nat
  BY <1>1, PlanFacts, SuperblockSizeFacts
<1>3. kept.next = last.next /\ kept.extents = last.extents /\ kept.experts = last.experts
  BY DEF Books
<1> HIDE DEF kept, seal, pad
<1>4. Unbroken(V, last)
  <2>1. N \in 0..N
    BY <1>2
  <2> HIDE DEF N
  <2> QED BY <1>1, <2>1, UnbrokenRun DEF N
<1> HIDE DEF last
<1>5. Writer(V, last) /\ last.file \in Seq(V) /\ last.next = n /\ SuperblockSize <= n /\ n \in Nat
  BY <1>4 DEF Unbroken, Writer
<1>6. /\ IsSeq(kept.extents) /\ IsSeq(kept.experts)
      /\ \A e \in ToSet(kept.experts) : IsSeq(e.tiles) /\ IsSeq(e.tileDigests)
  BY <1>3, <1>5 DEF Writer
<1>7. TablesStand(B, kept, n) /\ B \in Seq(V)
  BY <1>1, <1>3, <1>5, <1>6, TablesLaid
<1>8. whole \in Seq(V) /\ Len(whole) = Len(B)
  <2>1. whole \in Seq(V) /\ Len(whole) = Len(seal) + Len(r)
    BY <1>1, CatFacts
  <2>2. Len(B) = Len(pad) + Len(r)
    BY <1>1, CatFacts
  <2> QED BY <1>1, <2>1, <2>2
<1>9. ASSUME NEW place, NEW T, Stands(B, place, T), place >= n, T \in Seq(V)
      PROVE  Stands(whole, place, T)
  <2>1. Len(T) \in Nat /\ place \in Nat
    BY <1>9, LenProperties DEF Stands
  <2>2. Len(pad) = Len(seal) /\ place >= Len(pad)
    BY <1>1, <1>2, <1>5, <1>9, <2>1
  <2>3. Stands(seal \o r, place, T)
    BY <1>1, <1>9, <2>1, <2>2, StandsBeyond
  <2> QED BY <1>1, <2>3
<1>10. ASSUME NEW T, IsSeq(T), ToSet(T) \subseteq TableCells(kept) PROVE T \in Seq(V)
  BY <1>1, <1>10, SequenceWithin
<1>11. \A T \in {StringTable(kept), ExtentTable(kept), ExpertIndex(kept), ChecksumTable(kept),
                 SectionTable(kept)} : T \in Seq(V)
  <2>1. IsSeq(StringTable(kept)) /\ IsSeq(ExtentTable(kept)) /\ IsSeq(ExpertIndex(kept))
        /\ IsSeq(ChecksumTable(kept)) /\ IsSeq(SectionTable(kept))
    BY <1>6, TablesAre
  <2>2. \A T \in {StringTable(kept), ExtentTable(kept), ExpertIndex(kept), ChecksumTable(kept),
                 SectionTable(kept)} : ToSet(T) \subseteq TableCells(kept)
    BY DEF TableCells
  <2> QED BY <1>10, <2>1, <2>2
<1> HIDE DEF B, whole, n
<1>12. TablesStand(whole, kept, n)
  <2> DEFINE spans == TableSpans(kept)
             at(file, span, cells) == /\ span.offset \in Nat /\ span.offset >= n
                         /\ span.bytes = Len(cells) /\ Stands(file, span.offset, cells)
  <2>1. ASSUME NEW span, NEW T, T \in Seq(V), at(B, span, T) PROVE at(whole, span, T)
    BY <1>9, <2>1
  <2>2. /\ at(B, spans.strings, StringTable(kept)) /\ at(B, spans.extents, ExtentTable(kept))
        /\ at(B, spans.index, ExpertIndex(kept)) /\ at(B, spans.checksums, ChecksumTable(kept))
        /\ at(B, SectionSpan(kept), SectionTable(kept)) /\ Len(B) = EndOf(SectionSpan(kept))
    BY <1>7 DEF TablesStand
  <2> HIDE DEF spans, at
  <2>3. /\ at(whole, spans.strings, StringTable(kept)) /\ at(whole, spans.extents, ExtentTable(kept))
        /\ at(whole, spans.index, ExpertIndex(kept)) /\ at(whole, spans.checksums, ChecksumTable(kept))
        /\ at(whole, SectionSpan(kept), SectionTable(kept))
    BY <1>11, <2>1, <2>2
  <2>4. Len(whole) = EndOf(SectionSpan(kept))
    BY <1>8, <2>2
  <2> QED BY <2>3, <2>4 DEF TablesStand, spans, at
<1>13. IsPrefix(last.file, B)
  <2>1. Covers(V, last.file, last.file)
    BY <1>1, <1>5, CoversItself
  <2>2. kept.next = Len(last.file)
    BY <1>3, <1>5 DEF n
  <2>3. Grows(V, last.file, last.file, B, B)
    BY <1>1, <1>5, <1>6, <2>1, <2>2, TablesGrow DEF TableCells
  <2> QED BY <2>3 DEF Grows
<1> QED BY <1>4, <1>8, <1>12, <1>13 DEF B, whole, n, last, kept, pad

(* The first cells of a file are a superblock's.                           *)
FieldNames == {Fields[i] : i \in 1..18}
Headed(file, superblock) ==
  \A i \in 1..18 : file[i] = <<"field", Fields[i], superblock[Fields[i]]>>

LEMMA EighteenFields == Len(Fields) = 18 /\ DOMAIN Fields = 1..18
BY DEF Fields

LEMMA FieldIs ==
  ASSUME NEW file, NEW superblock, Headed(file, superblock), NEW name \in FieldNames
  PROVE  Field(file, name) = superblock[name]
<1> DEFINE j == CHOOSE i \in DOMAIN Fields : Fields[i] = name
<1>1. \E i \in DOMAIN Fields : Fields[i] = name
  BY EighteenFields DEF FieldNames
<1>2. j \in DOMAIN Fields /\ Fields[j] = name
  BY <1>1
<1>3. Field(file, name) = file[j][3]
  BY DEF Field
<1> HIDE DEF j
<1>4. file[j] = <<"field", Fields[j], superblock[Fields[j]]>>
  BY <1>2, EighteenFields DEF Headed
<1> QED BY <1>2, <1>3, <1>4

LEMMA SealIsHead ==
  ASSUME Sizes, NEW V, NEW superblock, NEW r \in Seq(V), Encode(superblock) \in Seq(V),
         Len(Encode(superblock)) = SuperblockSize
  PROVE  Headed(Encode(superblock) \o r, superblock) /\ SuperblockSize >= 18
<1> DEFINE seal == Encode(superblock)
           whole == seal \o r
           n == SuperblockSize
<1>1. n >= 18 /\ n \in Nat
  <2>1. Len(Fields) \in Nat /\ Len(Fields) = 18
    BY EighteenFields
  <2>2. AlignUp(Len(Fields), ExpertAlignment) >= Len(Fields) /\ AlignUp(Len(Fields), ExpertAlignment) \in Nat
    BY <2>1, AlignUpFacts DEF Sizes
  <2> QED BY <2>1, <2>2 DEF SuperblockSize
<1>2. \A i \in 1..n : seal[i] = IF i <= 18 THEN <<"field", Fields[i], superblock[Fields[i]]>> ELSE Pad
  BY EighteenFields DEF Encode
<1>3. \A i \in 1..Len(seal) : whole[i] = seal[i]
  BY CatFacts
<1>4. Len(seal) = n
  OBVIOUS
<1> HIDE DEF seal, whole, n
<1>5. ASSUME NEW i \in 1..18 PROVE whole[i] = <<"field", Fields[i], superblock[Fields[i]]>>
  <2>1. i \in 1..n /\ i <= 18
    BY <1>1
  <2> QED BY <1>2, <1>3, <1>4, <2>1
<1> QED BY <1>1, <1>5 DEF Headed, whole, seal, n

LEMMA SuperblockSays ==
  ASSUME NEW w
  PROVE  LET b == Superblock(w)
             spans == TableSpans(w) IN
         /\ b["magic"] = Identity["magic"] /\ b["size"] = Identity["size"]
         /\ b["endian"] = Identity["endian"] /\ b["major"] = Identity["major"]
         /\ b["length"] = EndOf(SectionSpan(w))
         /\ b["sectionOffset"] = SectionSpan(w).offset /\ b["sectionCount"] = SectionSpan(w).bytes
         /\ b["extentOffset"] = spans.extents.offset /\ b["extentCount"] = spans.extents.bytes
         /\ b["stringOffset"] = spans.strings.offset /\ b["stringBytes"] = spans.strings.bytes
         /\ b["expertOffset"] = spans.index.offset /\ b["expertBytes"] = spans.index.bytes
         /\ b["checksumOffset"] = spans.checksums.offset /\ b["checksumBytes"] = spans.checksums.bytes
         /\ b["root"] = Root(SectionTable(w), ExtentTable(w), StringTable(w), ExpertIndex(w),
                             ChecksumTable(w))
         /\ b["source"] = "source" /\ b["created"] = "now"
<1> DEFINE spans == TableSpans(w)
           root == Root(SectionTable(w), ExtentTable(w), StringTable(w), ExpertIndex(w),
                        ChecksumTable(w))
           last == SectionSpan(w)
           m == Identity
<1>1. Superblock(w) =
        [magic |-> m.magic, size |-> m.size, endian |-> m.endian, major |-> m.major,
         source |-> "source", length |-> EndOf(last),
         sectionOffset |-> last.offset, sectionCount |-> last.bytes,
         extentOffset |-> spans.extents.offset, extentCount |-> spans.extents.bytes,
         stringOffset |-> spans.strings.offset, stringBytes |-> spans.strings.bytes,
         expertOffset |-> spans.index.offset, expertBytes |-> spans.index.bytes,
         checksumOffset |-> spans.checksums.offset, checksumBytes |-> spans.checksums.bytes,
         root |-> root, created |-> "now"]
  BY DEF Superblock
<1> HIDE DEF spans, root, last, m
<1> QED BY <1>1 DEF spans, root, last, m

(* What the reader finds where the superblock points.                      *)
TablesRead(file, w) ==
  /\ TableOf(file, "sectionOffset", "sectionCount") = SectionTable(w)
  /\ TableOf(file, "extentOffset", "extentCount") = ExtentTable(w)
  /\ TableOf(file, "stringOffset", "stringBytes") = StringTable(w)
  /\ TableOf(file, "expertOffset", "expertBytes") = ExpertIndex(w)
  /\ TableOf(file, "checksumOffset", "checksumBytes") = ChecksumTable(w)

LEMMA TablesFound ==
  ASSUME NEW V, NEW file \in Seq(V), NEW w, NEW from, Headed(file, Superblock(w)),
         TablesStand(file, w, from), Len(file) >= SuperblockSize,
         \A T \in {StringTable(w), ExtentTable(w), ExpertIndex(w), ChecksumTable(w),
                   SectionTable(w)} : T \in Seq(V)
  PROVE  TablesRead(file, w) /\ SuperblockAccepted(file) /\ TablesInBounds(file) /\ RootMatches(file)
<1> DEFINE b == Superblock(w)
           spans == TableSpans(w)
           at(span, cells) == span.bytes = Len(cells) /\ Stands(file, span.offset, cells)
<1>1. \A name \in FieldNames : Field(file, name) = b[name]
  BY FieldIs
<1>2. FieldNames = {"magic", "size", "endian", "major", "source", "length",
            "sectionOffset", "sectionCount", "extentOffset", "extentCount",
            "stringOffset", "stringBytes", "expertOffset", "expertBytes",
            "checksumOffset", "checksumBytes", "root", "created"}
  BY DEF FieldNames, Fields
<1>3. /\ at(spans.strings, StringTable(w)) /\ at(spans.extents, ExtentTable(w))
      /\ at(spans.index, ExpertIndex(w)) /\ at(spans.checksums, ChecksumTable(w))
      /\ at(SectionSpan(w), SectionTable(w)) /\ Len(file) = EndOf(SectionSpan(w))
  BY DEF TablesStand
<1>4. ASSUME NEW span, NEW T \in Seq(V), at(span, T), NEW place \in FieldNames, NEW count \in FieldNames,
             b[place] = span.offset, b[count] = span.bytes
      PROVE  TableOf(file, place, count) = T /\ InBounds(file, place, count)
  <2>1. Field(file, place) = span.offset /\ Field(file, count) = Len(T)
    BY <1>1, <1>4
  <2>2. Slice(file, span.offset, Len(T)) = T
    BY <1>4, StandsSlice
  <2>3. span.offset + Len(T) <= Len(file)
    BY <1>4 DEF Stands
  <2> QED BY <2>1, <2>2, <2>3 DEF TableOf, InBounds
<1> HIDE DEF at
<1>5. /\ b["magic"] = Identity["magic"] /\ b["size"] = Identity["size"]
      /\ b["endian"] = Identity["endian"] /\ b["major"] = Identity["major"]
      /\ b["length"] = EndOf(SectionSpan(w))
      /\ b["root"] = Root(SectionTable(w), ExtentTable(w), StringTable(w), ExpertIndex(w),
                          ChecksumTable(w))
  BY SuperblockSays
<1>6. /\ b["sectionOffset"] = SectionSpan(w).offset /\ b["sectionCount"] = SectionSpan(w).bytes
      /\ b["extentOffset"] = spans.extents.offset /\ b["extentCount"] = spans.extents.bytes
      /\ b["stringOffset"] = spans.strings.offset /\ b["stringBytes"] = spans.strings.bytes
      /\ b["expertOffset"] = spans.index.offset /\ b["expertBytes"] = spans.index.bytes
      /\ b["checksumOffset"] = spans.checksums.offset /\ b["checksumBytes"] = spans.checksums.bytes
  BY SuperblockSays
<1> HIDE DEF b, spans
<1>7. /\ TableOf(file, "sectionOffset", "sectionCount") = SectionTable(w)
      /\ InBounds(file, "sectionOffset", "sectionCount")
  <2>1. "sectionOffset" \in FieldNames /\ "sectionCount" \in FieldNames
    BY <1>2
  <2> QED BY <1>3, <1>4, <1>6, <2>1
<1>8. /\ TableOf(file, "extentOffset", "extentCount") = ExtentTable(w)
      /\ InBounds(file, "extentOffset", "extentCount")
  <2>1. "extentOffset" \in FieldNames /\ "extentCount" \in FieldNames
    BY <1>2
  <2> QED BY <1>3, <1>4, <1>6, <2>1
<1>9. /\ TableOf(file, "stringOffset", "stringBytes") = StringTable(w)
      /\ InBounds(file, "stringOffset", "stringBytes")
  <2>1. "stringOffset" \in FieldNames /\ "stringBytes" \in FieldNames
    BY <1>2
  <2> QED BY <1>3, <1>4, <1>6, <2>1
<1>10. /\ TableOf(file, "expertOffset", "expertBytes") = ExpertIndex(w)
       /\ InBounds(file, "expertOffset", "expertBytes")
  <2>1. "expertOffset" \in FieldNames /\ "expertBytes" \in FieldNames
    BY <1>2
  <2> QED BY <1>3, <1>4, <1>6, <2>1
<1>11. /\ TableOf(file, "checksumOffset", "checksumBytes") = ChecksumTable(w)
       /\ InBounds(file, "checksumOffset", "checksumBytes")
  <2>1. "checksumOffset" \in FieldNames /\ "checksumBytes" \in FieldNames
    BY <1>2
  <2> QED BY <1>3, <1>4, <1>6, <2>1
<1>12. SuperblockAccepted(file)
  <2>1. \A name \in DOMAIN Identity : name \in FieldNames /\ b[name] = Identity[name]
    <3>1. DOMAIN Identity = {"magic", "size", "endian", "major"}
      BY DEF Identity
    <3> QED BY <1>2, <1>5, <3>1
  <2>2. "length" \in FieldNames
    BY <1>2
  <2> QED BY <1>1, <1>3, <1>5, <2>1, <2>2 DEF SuperblockAccepted
<1>13. RootMatches(file)
  <2>1. "root" \in FieldNames
    BY <1>2
  <2> QED BY <1>1, <1>5, <1>7, <1>8, <1>9, <1>10, <1>11, <2>1 DEF RootMatches
<1> QED BY <1>7, <1>8, <1>9, <1>10, <1>11, <1>12, <1>13 DEF TablesRead, TablesInBounds

(* Among n numbers one has i of them below it, for every i < n.            *)
LEMMA RanksExist ==
  ASSUME NEW S \in SUBSET Nat, IsFiniteSet(S)
  PROVE  \A i \in 0..(Cardinality(S) - 1) : \E k \in S : Cardinality({j \in S : j < k}) = i
<1> DEFINE n == Cardinality(S)
           Below(k) == {j \in S : j < k}
           R == {i \in 0..(n - 1) : \E k \in S : Cardinality(Below(k)) = i}
<1>0. \A j \in S : j \in Nat
  OBVIOUS
<1>1. n \in Nat
  BY FS_CardinalityType
<1>2. CASE n = 0
  BY <1>2
<1>3. CASE n # 0
  <2>1. n - 1 \in Nat /\ 0 \in 0..(n - 1)
    BY <1>1, <1>3
  <2>2. S # {}
    BY <1>3, FS_EmptySet
  <2>3. 0 \in R
    <3>1. PICK m \in S : \A k \in S : m <= k
      BY <2>2, SmallestMember
    <3>2. \A j \in S : ~(j < m)
      BY <1>0, <3>1
    <3>4. Below(m) = {}
      BY <3>2
    <3>3. Cardinality(Below(m)) = 0
      BY <3>4, FS_EmptySet
    <3> QED BY <2>1, <3>3
  <2>4. ASSUME NEW i \in 0..(n - 1 - 1), i \in R PROVE i + 1 \in R
    <3>1. PICK k \in S : Cardinality(Below(k)) = i
      BY <2>4
    <3> DEFINE T == {j \in S : k < j}
    <3>2. IsFiniteSet(Below(k)) /\ k \notin Below(k)
      <4>1. Below(k) \subseteq S
        OBVIOUS
      <4> QED BY <4>1, FS_Subset
    <3>3. IsFiniteSet(Below(k) \union {k}) /\ Cardinality(Below(k) \union {k}) = i + 1
      <4> DEFINE b == Below(k)
      <4> HIDE DEF b
      <4> QED BY <3>1, <3>2, FS_AddElement DEF b
    <3>4. T # {}
      <4> SUFFICES ASSUME T = {} PROVE FALSE
        OBVIOUS
      <4>1. S = Below(k) \union {k}
        <5>1. \A j \in S : ~(k < j)
          OBVIOUS
        <5>2. \A j \in S : j \in Below(k) \/ j = k
          BY <1>0, <5>1
        <5> HIDE DEF Below
        <5>3. Below(k) \subseteq S
          BY DEF Below
        <5> QED BY <5>2, <5>3
      <4>2. n = i + 1
        BY <3>3, <4>1
      <4> QED BY <1>1, <4>2
    <3>5. PICK m \in T : \A j \in T : m <= j
      <4>1. T \in SUBSET Nat
        OBVIOUS
      <4> HIDE DEF T
      <4> QED BY <3>4, <4>1, SmallestMember
    <3>6. Below(m) = Below(k) \union {k}
      <4>1. \A j \in S : j < m <=> j < k \/ j = k
        BY <3>5
      <4> QED BY <4>1
    <3>7. i + 1 \in 0..(n - 1) /\ m \in S
      BY <1>1, <3>5
    <3>8. Cardinality(Below(m)) = i + 1
      BY <3>3, <3>6
    <3> QED BY <3>7, <3>8
  <2>5. 0..(n - 1) \subseteq R
    <3> DEFINE h == n - 1
    <3>1. h \in Nat /\ \A i \in 0..(h - 1) : i \in R => i + 1 \in R
      BY <2>1, <2>4
    <3> HIDE DEF h, R
    <3>2. 0..h \subseteq R
      BY <2>3, <3>1, ClimbingTo
    <3> QED BY <3>2 DEF h
  <2> QED BY <2>5
<1> QED BY <1>2, <1>3

-----------------------------------------------------------------------------
(* Records behind their kinds.                                             *)
LEMMA DecodedIs ==
  ASSUME NEW f, IsSeq(f)
  PROVE  /\ IsSeq(Decoded(f)) /\ Len(Decoded(f)) = Len(f)
         /\ \A i \in 1..Len(f) : Decoded(f)[i] = f[i][2]
<1> DEFINE n == Len(f)
           d == Decoded(f)
<1>1. n \in Nat /\ DOMAIN f = 1..n
  BY DomainIs
<1>2. d = [i \in 1..n |-> f[i][2]]
  BY <1>1 DEF Decoded
<1>3. d = [i \in 1..n |-> d[i]] /\ \A i \in 1..n : d[i] = f[i][2]
  BY <1>2
<1> HIDE DEF d, n
<1>4. IsSeq(d) /\ Len(d) = n
  BY <1>1, <1>3, FunctionIs
<1> QED BY <1>3, <1>4 DEF d, n

LEMMA CellsIs ==
  ASSUME NEW s, IsSeq(s), NEW kind
  PROVE  /\ IsSeq(Cells(kind, s)) /\ Len(Cells(kind, s)) = Len(s)
         /\ \A i \in 1..Len(s) : Cells(kind, s)[i] = <<kind, s[i]>>
<1>1. Len(s) \in Nat /\ DOMAIN s = 1..Len(s)
  BY DomainIs
<1>2. \A i \in 1..Len(s) : Cells(kind, s)[i] = <<kind, s[i]>>
  BY <1>1 DEF Cells
<1> QED BY <1>1, <1>2, CellsAre

LEMMA SameSequence ==
  ASSUME NEW s, NEW t, IsSeq(s), IsSeq(t), Len(s) = Len(t), \A i \in 1..Len(s) : s[i] = t[i]
  PROVE  s = t
<1> DEFINE V == ToSet(s) \union ToSet(t)
<1>1. ToSet(s) \subseteq V /\ ToSet(t) \subseteq V
  OBVIOUS
<1> HIDE DEF V
<1>2. s \in Seq(V) /\ t \in Seq(V)
  BY <1>1, SequenceWithin
<1> QED BY <1>2, SeqEqual

LEMMA CellsDecode ==
  ASSUME NEW s, IsSeq(s), NEW kind
  PROVE  Decoded(Cells(kind, s)) = s
<1> DEFINE c == Cells(kind, s)
           d == Decoded(c)
<1>1. IsSeq(c) /\ Len(c) = Len(s) /\ \A i \in 1..Len(s) : c[i] = <<kind, s[i]>>
  BY CellsIs
<1> HIDE DEF c
<1>2. IsSeq(d) /\ Len(d) = Len(c) /\ \A i \in 1..Len(c) : d[i] = c[i][2]
  BY <1>1, DecodedIs
<1> HIDE DEF d
<1>3. \A i \in 1..Len(d) : d[i] = s[i]
  BY <1>1, <1>2
<1>4. d = s
  BY <1>1, <1>2, <1>3, SameSequence
<1> QED BY <1>4 DEF d, c

LEMMA DecodedStands ==
  ASSUME NEW f, IsSeq(f), NEW s, IsSeq(s), NEW kind, NEW place, Stands(f, place, Cells(kind, s))
  PROVE  Stands(Decoded(f), place, s)
<1> DEFINE c == Cells(kind, s)
           d == Decoded(f)
<1>1. IsSeq(c) /\ Len(c) = Len(s) /\ \A i \in 1..Len(s) : c[i] = <<kind, s[i]>>
  BY CellsIs
<1>2. IsSeq(d) /\ Len(d) = Len(f) /\ \A i \in 1..Len(f) : d[i] = f[i][2]
  BY DecodedIs
<1>3. Len(f) \in Nat /\ Len(s) \in Nat
  BY DomainIs
<1> HIDE DEF c, d
<1>4. place \in Nat /\ place + Len(c) <= Len(f) /\ \A i \in 1..Len(c) : f[place + i] = c[i]
  BY DEF Stands, c
<1>5. ASSUME NEW i \in 1..Len(s) PROVE d[place + i] = s[i]
  <2>1. place + i \in 1..Len(f) /\ i \in 1..Len(c)
    BY <1>1, <1>3, <1>4
  <2>2. d[place + i] = f[place + i][2] /\ f[place + i] = c[i]
    BY <1>2, <1>4, <2>1
  <2>3. c[i] = <<kind, s[i]>>
    BY <1>1
  <2> QED BY <2>2, <2>3
<1>6. place + Len(s) <= Len(d)
  BY <1>1, <1>2, <1>4
<1>7. Stands(d, place, s)
  BY <1>4, <1>5, <1>6 DEF Stands
<1> QED BY <1>7 DEF d

LEMMA ConcatFacts ==
  ASSUME NEW s, IsSeq(s), NEW t, IsSeq(t)
  PROVE  /\ IsSeq(s \o t) /\ Len(s) \in Nat /\ Len(t) \in Nat /\ Len(s \o t) = Len(s) + Len(t)
         /\ \A i \in 1..Len(s) : (s \o t)[i] = s[i]
         /\ \A i \in 1..Len(t) : (s \o t)[Len(s) + i] = t[i]
<1> DEFINE V == ToSet(s) \union ToSet(t)
<1>1. ToSet(s) \subseteq V /\ ToSet(t) \subseteq V
  OBVIOUS
<1> HIDE DEF V
<1>2. s \in Seq(V) /\ t \in Seq(V)
  BY <1>1, SequenceWithin
<1>3. IsSeq(s \o t)
  BY ConcatIs
<1> QED BY <1>2, <1>3, CatFacts

LEMMA DecodedConcat ==
  ASSUME NEW s, IsSeq(s), NEW t, IsSeq(t)
  PROVE  Decoded(s \o t) = Decoded(s) \o Decoded(t)
<1> DEFINE n == Len(s)
           m == Len(t)
           st == s \o t
           a == Decoded(s)
           b == Decoded(t)
           d == Decoded(st)
<1>1. /\ IsSeq(st) /\ n \in Nat /\ m \in Nat /\ Len(st) = n + m
      /\ \A i \in 1..n : st[i] = s[i]
      /\ \A i \in 1..m : st[n + i] = t[i]
  BY ConcatFacts
<1>2. /\ IsSeq(a) /\ Len(a) = n /\ \A i \in 1..n : a[i] = s[i][2]
      /\ IsSeq(b) /\ Len(b) = m /\ \A i \in 1..m : b[i] = t[i][2]
  BY DecodedIs
<1> HIDE DEF st
<1>3. IsSeq(d) /\ Len(d) = n + m /\ \A i \in 1..(n + m) : d[i] = st[i][2]
  BY <1>1, DecodedIs
<1> HIDE DEF a, b, d
<1> DEFINE ab == a \o b
<1>4. /\ IsSeq(ab) /\ Len(ab) = n + m
      /\ \A i \in 1..n : ab[i] = a[i]
      /\ \A i \in 1..m : ab[n + i] = b[i]
  <2>0. IsSeq(a) /\ IsSeq(b)
    BY <1>2
  <2>1. /\ IsSeq(ab) /\ Len(ab) = Len(a) + Len(b)
        /\ \A i \in 1..Len(a) : ab[i] = a[i]
        /\ \A i \in 1..Len(b) : ab[Len(a) + i] = b[i]
    BY <2>0, ConcatFacts
  <2>2. Len(a) = n /\ Len(b) = m
    BY <1>2
  <2> HIDE DEF ab, n, m
  <2> QED BY <2>1, <2>2
<1> HIDE DEF ab, n, m
<1>5. ASSUME NEW i \in 1..(n + m) PROVE d[i] = ab[i]
  <2>1. CASE i <= n
    <3>1. i \in 1..n
      BY <1>1, <2>1
    <3> QED BY <1>1, <1>2, <1>3, <1>4, <3>1
  <2>2. CASE ~(i <= n)
    <3> DEFINE j == i - n
    <3>1. j \in 1..m /\ i = n + j
      BY <1>1, <2>2
    <3> HIDE DEF j
    <3>2. ab[n + j] = t[j][2] /\ st[n + j] = t[j]
      BY <1>1, <1>2, <1>4, <3>1
    <3> QED BY <1>3, <3>1, <3>2
  <2> QED BY <2>1, <2>2
<1>6. d = ab
  BY <1>3, <1>4, <1>5, SameSequence
<1> QED BY <1>6 DEF d, ab, a, b, st

(* A writer's books whose tables can be read back.                         *)
BooksOk(w) ==
  /\ IsSeq(w.extents) /\ IsSeq(w.experts)
  /\ \A e \in ToSet(w.experts) : IsSeq(e.tiles) /\ IsSeq(e.tileDigests)
  /\ \A e \in ToSet(w.extents) : e.section \in Nat \ {ExpertIndexKind}

ExtentRecord(w, i) ==
  [role |-> w.extents[i].role, layer |-> w.extents[i].layer, name |-> i - 1,
   offset |-> w.extents[i].offset, bytes |-> w.extents[i].bytes, checksum |-> i - 1]
TilesBefore(w, i) == SumOf([k \in 1..(i - 1) |-> Len(w.experts[k].tiles)])
DigestsBefore(w, i) == SumOf([k \in 1..(i - 1) |-> 1 + Len(w.experts[k].tileDigests)])
ExpertRecord(w, i) ==
  [layer |-> w.experts[i].layer, expert |-> w.experts[i].expert, offset |-> w.experts[i].offset,
   bytes |-> w.experts[i].bytes, vouched |-> w.experts[i].tileDigests # <<>>,
   tileFirst |-> TilesBefore(w, i), tileCount |-> Len(w.experts[i].tiles),
   checksum |-> Len(w.extents) + DigestsBefore(w, i)]
Digests(w, i) == <<w.experts[i].digest>> \o w.experts[i].tileDigests

LEMMA BooksFacts ==
  ASSUME NEW w, BooksOk(w)
  PROVE  /\ Len(w.extents) \in Nat /\ Len(w.experts) \in Nat
         /\ DOMAIN w.extents = 1..Len(w.extents) /\ DOMAIN w.experts = 1..Len(w.experts)
         /\ \A i \in 1..Len(w.extents) : w.extents[i] \in ToSet(w.extents)
         /\ \A i \in 1..Len(w.experts) : /\ w.experts[i] \in ToSet(w.experts)
                                         /\ IsSeq(w.experts[i].tiles) /\ IsSeq(w.experts[i].tileDigests)
<1>1. /\ Len(w.extents) \in Nat /\ Len(w.experts) \in Nat
      /\ DOMAIN w.extents = 1..Len(w.extents) /\ DOMAIN w.experts = 1..Len(w.experts)
  BY DomainIs DEF BooksOk
<1>2. \A i \in 1..Len(w.extents) : w.extents[i] \in ToSet(w.extents)
  BY <1>1 DEF ToSet
<1>3. \A i \in 1..Len(w.experts) : w.experts[i] \in ToSet(w.experts)
  BY <1>1 DEF ToSet
<1> QED BY <1>1, <1>2, <1>3 DEF BooksOk

LEMMA NamesDecode ==
  ASSUME NEW w, BooksOk(w)
  PROVE  LET x == Decoded(ExtentTable(w))
             y == Decoded(StringTable(w))
             m == Len(w.extents)
         IN  /\ IsSeq(x) /\ Len(x) = m /\ \A i \in 1..m : x[i] = ExtentRecord(w, i)
             /\ IsSeq(y) /\ Len(y) = m /\ \A i \in 1..m : y[i] = w.extents[i].name
<1> DEFINE m == Len(w.extents)
           records == [i \in DOMAIN w.extents |->
             LET e == w.extents[i] IN
             [role |-> e.role, layer |-> e.layer, name |-> i - 1, offset |-> e.offset,
              bytes |-> e.bytes, checksum |-> i - 1]]
           names == [i \in DOMAIN w.extents |-> w.extents[i].name]
<1>1. m \in Nat /\ DOMAIN w.extents = 1..m
  BY BooksFacts
<1>2. ExtentTable(w) = Cells("extent", records) /\ StringTable(w) = Cells("name", names)
  BY DEF ExtentTable, StringTable
<1>3. \A i \in 1..m : records[i] = ExtentRecord(w, i) /\ names[i] = w.extents[i].name
  BY <1>1 DEF ExtentRecord
<1>4. records = [i \in 1..m |-> records[i]] /\ names = [i \in 1..m |-> names[i]]
  BY <1>1
<1> HIDE DEF records, names, m
<1>5. IsSeq(records) /\ Len(records) = m /\ IsSeq(names) /\ Len(names) = m
  BY <1>1, <1>4, FunctionIs
<1>6. Decoded(ExtentTable(w)) = records /\ Decoded(StringTable(w)) = names
  BY <1>2, <1>5, CellsDecode
<1> QED BY <1>3, <1>5, <1>6 DEF m

LEMMA IndexDecodes ==
  ASSUME NEW w, BooksOk(w)
  PROVE  LET x == Decoded(ExpertIndex(w))
             n == Len(w.experts)
             experts == SubSeq(x, 1, n)
             tiles == SubSeq(x, n + 1, Len(x))
         IN  /\ n <= Len(x) /\ IsSeq(experts) /\ Len(experts) = n
             /\ \A i \in 1..n : experts[i] = ExpertRecord(w, i)
             /\ IsSeq(tiles) /\ \A i \in 1..n : Stands(tiles, TilesBefore(w, i), w.experts[i].tiles)
<1> DEFINE n == Len(w.experts)
           tilesBefore(i) == SumOf([k \in 1..(i - 1) |-> Len(w.experts[k].tiles)])
           digestsBefore(i) == SumOf([k \in 1..(i - 1) |-> 1 + Len(w.experts[k].tileDigests)])
           records == [i \in DOMAIN w.experts |->
             LET e == w.experts[i] IN
             [layer |-> e.layer, expert |-> e.expert, offset |-> e.offset, bytes |-> e.bytes,
              vouched |-> e.tileDigests # <<>>, tileFirst |-> tilesBefore(i),
              tileCount |-> Len(e.tiles), checksum |-> Len(w.extents) + digestsBefore(i)]]
           parts == [i \in DOMAIN w.experts |-> Cells("tile", w.experts[i].tiles)]
           A == Cells("expert", records)
           F == FlattenSeq(parts)
           x == Decoded(ExpertIndex(w))
<1>1. n \in Nat /\ DOMAIN w.experts = 1..n /\ \A i \in 1..n : IsSeq(w.experts[i].tiles)
  BY BooksFacts
<1>2. ExpertIndex(w) = A \o F
  BY DEF ExpertIndex
<1>3. \A i \in 1..n : records[i] = ExpertRecord(w, i)
  BY <1>1 DEF ExpertRecord, TilesBefore, DigestsBefore
<1>4. records = [i \in 1..n |-> records[i]] /\ parts = [i \in 1..n |-> parts[i]]
      /\ \A i \in 1..n : parts[i] = Cells("tile", w.experts[i].tiles)
  BY <1>1
<1> HIDE DEF records, parts, n
<1>5. IsSeq(records) /\ Len(records) = n
  BY <1>1, <1>4, FunctionIs
<1>6. IsSeq(A) /\ Len(A) = n /\ Decoded(A) = records
  BY <1>5, CellsIs, CellsDecode
<1>7. \A i \in 1..n : IsSeq(parts[i]) /\ Len(parts[i]) = Len(w.experts[i].tiles)
  BY <1>1, <1>4, CellsIs
<1>8. IsSeq(F) /\ \A i \in 1..n : Stands(F, SumOf([k \in 1..(i - 1) |-> Len(parts[k])]), parts[i])
  BY <1>1, <1>4, <1>7, FlattenParts
<1> HIDE DEF A, F
<1> DEFINE tiles == Decoded(F)
<1>9. IsSeq(tiles)
  BY <1>8, DecodedIs
<1>10. ASSUME NEW i \in 1..n PROVE Stands(tiles, TilesBefore(w, i), w.experts[i].tiles)
  <2>1. [k \in 1..(i - 1) |-> Len(parts[k])] = [k \in 1..(i - 1) |-> Len(w.experts[k].tiles)]
    <3>1. \A k \in 1..(i - 1) : k \in 1..n
      BY <1>1
    <3>2. \A k \in 1..(i - 1) : Len(parts[k]) = Len(w.experts[k].tiles)
      BY <1>7, <3>1
    <3> QED BY <3>2
  <2>2. Stands(F, TilesBefore(w, i), Cells("tile", w.experts[i].tiles))
    BY <1>4, <1>8, <2>1 DEF TilesBefore
  <2> QED BY <1>1, <1>8, <2>2, DecodedStands
<1>11. x = records \o tiles
  BY <1>2, <1>6, <1>8, DecodedConcat
<1> HIDE DEF x, tiles
<1> DEFINE U == ToSet(records) \union ToSet(tiles)
<1>12. records \in Seq(U) /\ tiles \in Seq(U)
  <2>1. ToSet(records) \subseteq U /\ ToSet(tiles) \subseteq U
    OBVIOUS
  <2> HIDE DEF U
  <2> QED BY <1>5, <1>9, <2>1, SequenceWithin
<1> HIDE DEF U
<1>13. Len(x) = n + Len(tiles) /\ Len(tiles) \in Nat /\ x \in Seq(U)
  BY <1>5, <1>11, <1>12, CatFacts
<1>14. SubSeq(x, 1, n) = records
  <2>1. n + 1 \in 1..(Len(x) + 1) /\ 1 \in 1..(Len(x) + 1) /\ n \in (1 - 1)..Len(x) /\ n - 1 + 1 = n
    BY <1>1, <1>13
  <2> DEFINE s == SubSeq(x, 1, n)
  <2>2. s \in Seq(U) /\ Len(s) = n - 1 + 1 /\ \A i \in 1..(n - 1 + 1) : s[i] = x[1 + i - 1]
    BY <1>13, <2>1, CutFacts
  <2> HIDE DEF s
  <2>3. ASSUME NEW i \in 1..n PROVE s[i] = records[i]
    <3>1. s[i] = x[i]
      <4>1. 1 + i - 1 = i
        OBVIOUS
      <4> QED BY <2>1, <2>2, <4>1
    <3>2. x[i] = records[i]
      BY <1>5, <1>11, <1>12, CatFacts
    <3> QED BY <3>1, <3>2
  <2>4. s = records
    BY <1>5, <1>12, <2>1, <2>2, <2>3, SeqEqual
  <2> QED BY <2>4 DEF s
<1>15. SubSeq(x, n + 1, Len(x)) = tiles
  <2>1. SubSeq(records \o tiles, Len(records) + 1, Len(records) + Len(tiles)) = tiles
    BY <1>12, SliceLast
  <2> QED BY <1>5, <1>11, <1>13, <2>1
<1>16. n <= Len(x)
  BY <1>1, <1>13
<1> QED BY <1>3, <1>5, <1>9, <1>10, <1>14, <1>15, <1>16 DEF x, n

LEMMA ChecksumsDecode ==
  ASSUME NEW w, BooksOk(w)
  PROVE  LET x == Decoded(ChecksumTable(w))
             m == Len(w.extents)
         IN  /\ IsSeq(x) /\ m <= Len(x) /\ \A i \in 1..m : x[i] = w.extents[i].digest
             /\ \A i \in 1..Len(w.experts) : Stands(x, m + DigestsBefore(w, i), Digests(w, i))
             /\ \A i \in 1..Len(w.experts) :
                  IsSeq(Digests(w, i)) /\ Len(Digests(w, i)) = 1 + Len(w.experts[i].tileDigests)
<1> DEFINE n == Len(w.experts)
           m == Len(w.extents)
           first == [i \in DOMAIN w.extents |-> w.extents[i].digest]
           sums(i) == Cells("digest", <<w.experts[i].digest>> \o w.experts[i].tileDigests)
           parts == [i \in DOMAIN w.experts |-> sums(i)]
           A == Cells("digest", first)
           F == FlattenSeq(parts)
           x == Decoded(ChecksumTable(w))
<1>1. n \in Nat /\ DOMAIN w.experts = 1..n /\ m \in Nat /\ DOMAIN w.extents = 1..m
      /\ \A i \in 1..n : IsSeq(w.experts[i].tileDigests)
  BY BooksFacts
<1>2. ChecksumTable(w) = A \o F
  BY DEF ChecksumTable
<1>3. first = [i \in 1..m |-> first[i]] /\ \A i \in 1..m : first[i] = w.extents[i].digest
  BY <1>1
<1>4. parts = [i \in 1..n |-> parts[i]] /\ \A i \in 1..n : parts[i] = Cells("digest", Digests(w, i))
  BY <1>1 DEF Digests
<1> HIDE DEF first, parts, n, m
<1>5. IsSeq(first) /\ Len(first) = m
  BY <1>1, <1>3, FunctionIs
<1>6. IsSeq(A) /\ Len(A) = m /\ Decoded(A) = first
  BY <1>5, CellsIs, CellsDecode
<1>7. ASSUME NEW i \in 1..n
      PROVE  IsSeq(Digests(w, i)) /\ Len(Digests(w, i)) = 1 + Len(w.experts[i].tileDigests)
  <2> DEFINE d == w.experts[i].digest
             one == <<d>>
             t == w.experts[i].tileDigests
  <2>1. one \in Seq({d}) /\ Len(one) = 1
    OBVIOUS
  <2>2. IsSeq(t)
    BY <1>1
  <2>3. Digests(w, i) = one \o t
    BY DEF Digests
  <2> HIDE DEF one, t
  <2>4. IsSeq(one)
    BY <2>1, SequenceIs
  <2>5. IsSeq(one \o t) /\ Len(one \o t) = Len(one) + Len(t)
    BY <2>2, <2>4, ConcatFacts
  <2> QED BY <2>1, <2>3, <2>5 DEF t
<1>8. \A i \in 1..n : IsSeq(parts[i]) /\ Len(parts[i]) = 1 + Len(w.experts[i].tileDigests)
  BY <1>4, <1>7, CellsIs
<1>9. IsSeq(F) /\ \A i \in 1..n : Stands(F, SumOf([k \in 1..(i - 1) |-> Len(parts[k])]), parts[i])
  BY <1>1, <1>4, <1>8, FlattenParts
<1> HIDE DEF A, F
<1> DEFINE rest == Decoded(F)
<1>10. IsSeq(rest) /\ Len(rest) \in Nat
  BY <1>9, DecodedIs, DomainIs
<1>11. ASSUME NEW i \in 1..n PROVE Stands(rest, DigestsBefore(w, i), Digests(w, i))
  <2>1. [k \in 1..(i - 1) |-> Len(parts[k])] = [k \in 1..(i - 1) |-> 1 + Len(w.experts[k].tileDigests)]
    <3>1. \A k \in 1..(i - 1) : k \in 1..n
      BY <1>1
    <3>2. \A k \in 1..(i - 1) : Len(parts[k]) = 1 + Len(w.experts[k].tileDigests)
      BY <1>8, <3>1
    <3> QED BY <3>2
  <2>2. Stands(F, DigestsBefore(w, i), Cells("digest", Digests(w, i)))
    BY <1>4, <1>9, <2>1 DEF DigestsBefore
  <2> QED BY <1>7, <1>9, <2>2, DecodedStands
<1>12. x = first \o rest
  BY <1>2, <1>6, <1>9, DecodedConcat
<1> HIDE DEF x, rest
<1>13. /\ IsSeq(x) /\ Len(x) = Len(first) + Len(rest) /\ \A i \in 1..Len(first) : x[i] = first[i]
       /\ \A i \in 1..Len(rest) : x[Len(first) + i] = rest[i]
  <2> DEFINE y == first \o rest
  <2>1. IsSeq(first) /\ IsSeq(rest)
    BY <1>5, <1>10
  <2>2. /\ IsSeq(y) /\ Len(y) = Len(first) + Len(rest) /\ \A i \in 1..Len(first) : y[i] = first[i]
        /\ \A i \in 1..Len(rest) : y[Len(first) + i] = rest[i]
    BY <2>1, ConcatFacts
  <2> QED BY <1>12, <2>2
<1>14. m <= Len(x) /\ \A i \in 1..m : x[i] = w.extents[i].digest
  BY <1>1, <1>3, <1>5, <1>10, <1>13
<1>15. ASSUME NEW i \in 1..n PROVE Stands(x, m + DigestsBefore(w, i), Digests(w, i))
  <2> DEFINE o == DigestsBefore(w, i)
             c == Digests(w, i)
  <2>1. o \in Nat /\ o + Len(c) <= Len(rest) /\ \A k \in 1..Len(c) : rest[o + k] = c[k]
    BY <1>11 DEF Stands
  <2>2. Len(c) \in Nat
    BY <1>7, DomainIs
  <2> HIDE DEF o, c
  <2>3. ASSUME NEW k \in 1..Len(c) PROVE x[(m + o) + k] = c[k]
    <3>1. o + k \in 1..Len(rest) /\ (m + o) + k = m + (o + k)
      BY <1>1, <1>10, <2>1, <2>2
    <3>2. x[m + (o + k)] = rest[o + k]
      BY <1>5, <1>13, <3>1
    <3> QED BY <2>1, <3>1, <3>2
  <2>4. m + o \in Nat /\ (m + o) + Len(c) <= Len(x)
    BY <1>1, <1>5, <1>10, <1>13, <2>1, <2>2
  <2>5. Stands(x, m + o, c)
    BY <2>3, <2>4 DEF Stands
  <2> QED BY <2>5 DEF o, c
<1> QED BY <1>7, <1>13, <1>14, <1>15 DEF x, n, m

LEMMA MembersOfConcat ==
  ASSUME NEW s, IsSeq(s), NEW t, IsSeq(t)
  PROVE  ToSet(s \o t) = ToSet(s) \union ToSet(t)
<1> DEFINE st == s \o t
           n == Len(s)
           m == Len(t)
<1>1. /\ IsSeq(st) /\ n \in Nat /\ m \in Nat /\ Len(st) = n + m
      /\ \A i \in 1..n : st[i] = s[i]
      /\ \A i \in 1..m : st[n + i] = t[i]
  BY ConcatFacts
<1>2. DOMAIN s = 1..n /\ DOMAIN t = 1..m
  BY DomainIs
<1> HIDE DEF st
<1>3. DOMAIN st = 1..(n + m)
  BY <1>1, DomainIs
<1> HIDE DEF n, m
<1>4. ASSUME NEW i \in 1..(n + m) PROVE st[i] \in ToSet(s) \union ToSet(t)
  <2>1. CASE i <= n
    <3>1. i \in 1..n
      BY <1>1, <2>1
    <3> QED BY <1>1, <1>2, <3>1 DEF ToSet
  <2>2. CASE ~(i <= n)
    <3> DEFINE j == i - n
    <3>1. j \in 1..m /\ i = n + j
      BY <1>1, <2>2
    <3> HIDE DEF j
    <3> QED BY <1>1, <1>2, <3>1 DEF ToSet
  <2> QED BY <2>1, <2>2
<1>5. ASSUME NEW i \in 1..n PROVE s[i] \in ToSet(st)
  <2>1. i \in 1..(n + m)
    BY <1>1
  <2> QED BY <1>1, <1>3, <2>1 DEF ToSet
<1>6. ASSUME NEW i \in 1..m PROVE t[i] \in ToSet(st)
  <2>1. n + i \in 1..(n + m)
    BY <1>1
  <2>2. st[n + i] = t[i]
    BY <1>1
  <2> QED BY <1>3, <2>1, <2>2 DEF ToSet
<1>7. ToSet(st) = ToSet(s) \union ToSet(t)
  <2>1. ToSet(st) = {st[i] : i \in 1..(n + m)} /\ ToSet(s) = {s[i] : i \in 1..n} /\ ToSet(t) = {t[i] : i \in 1..m}
    BY <1>2, <1>3 DEF ToSet
  <2> QED BY <1>4, <1>5, <1>6, <2>1
<1> QED BY <1>7 DEF st

LEMMA CountDecodes ==
  ASSUME NEW w, BooksOk(w)
  PROVE  /\ ExpertCount(Decoded(SectionTable(w))) = Len(w.experts)
         /\ IsSeq(SectionTable(w)) /\ Len(SectionTable(w)) > 0
<1> DEFINE spans   == TableSpans(w)
           n == Len(w.experts)
           m == Len(w.extents)
           kinds   == {e.section : e \in ToSet(w.extents)}
           of(k)   == {e \in ToSet(w.extents) : e.section = k}
           kind(i) == CHOOSE k \in kinds : Cardinality({j \in kinds : j < k}) = i - 1
           c == Cardinality(kinds)
           first == [i \in 1..Cardinality(kinds) |->
                       Section(kind(i), Bounds(of(kind(i))), Cardinality(of(kind(i))))]
           x == Section(RoutedExperts, Bounds(ToSet(w.experts)), Len(w.experts))
           y == Section(ExpertIndexKind, spans.index, Len(w.experts))
           second == IF w.experts = <<>> THEN <<>> ELSE <<x, y>>
           a == Section(StringTableKind, spans.strings, 0)
           b == Section(ExtentsKind, spans.extents, Len(w.extents))
           d == Section(ChecksumsKind, spans.checksums, spans.checksums.bytes)
           third == <<a, b, d>>
           all == first \o second \o third
<1>1. n \in Nat /\ m \in Nat /\ DOMAIN w.extents = 1..m
  BY BooksFacts
<1>2. SectionTable(w) = Cells("section", all)
  BY DEF SectionTable
<1>3. kinds \in SUBSET (Nat \ {ExpertIndexKind}) /\ IsFiniteSet(kinds)
  <2>1. IsFiniteSet(1..m)
    BY <1>1, FirstNaturals
  <2>2. kinds = {w.extents[i].section : i \in 1..m}
    BY <1>1 DEF ToSet
  <2>3. kinds \in SUBSET (Nat \ {ExpertIndexKind})
    BY DEF BooksOk
  <2> DEFINE h == [i \in 1..m |-> w.extents[i].section]
  <2>4. h \in Surjection(1..m, kinds)
    <3> HIDE DEF kinds
    <3>1. h \in [1..m -> kinds] /\ \A k \in kinds : \E i \in 1..m : h[i] = k
      BY <2>2
    <3> QED BY <3>1 DEF Surjection
  <2> HIDE DEF h, kinds
  <2> QED BY <2>1, <2>3, <2>4, FS_Surjection
<1>4. c \in Nat
  BY <1>3, FS_CardinalityType
<1>5. ASSUME NEW i \in 1..c PROVE kind(i) \in Nat /\ kind(i) # ExpertIndexKind
  <2> HIDE DEF kinds
  <2>1. i - 1 \in 0..(c - 1)
    BY <1>4
  <2>2. kinds \in SUBSET Nat
    BY <1>3
  <2>3. \E k \in kinds : Cardinality({j \in kinds : j < k}) = i - 1
    BY <1>3, <2>1, <2>2, RanksExist
  <2>4. kind(i) \in kinds
    BY <2>3
  <2> QED BY <1>3, <2>4
<1>6. \A i \in 1..c : first[i].kind = kind(i)
  BY DEF Section
<1>7. first = [i \in 1..c |-> first[i]]
  OBVIOUS
<1> HIDE DEF first, c, kinds, kind
<1>8. IsSeq(first) /\ \A s \in ToSet(first) : s.kind # ExpertIndexKind
  <2>1. IsSeq(first)
    BY <1>4, <1>7, FunctionIs
  <2>2. DOMAIN first = 1..c
    BY <1>7
  <2> QED BY <1>5, <1>6, <2>1, <2>2 DEF ToSet
<1>9. /\ x.kind = RoutedExperts /\ y.kind = ExpertIndexKind /\ y.elements = n
      /\ a.kind = StringTableKind /\ b.kind = ExtentsKind /\ d.kind = ChecksumsKind
  BY DEF Section
<1>10. {RoutedExperts, StringTableKind, ExtentsKind, ChecksumsKind} \subseteq Nat \ {ExpertIndexKind}
  BY DEF RoutedExperts, StringTableKind, ExtentsKind, ChecksumsKind, ExpertIndexKind
<1> HIDE DEF x, y, a, b, d, spans
<1>11. /\ <<x, y>> \in Seq({x, y}) /\ <<>> \in Seq({}) /\ <<a, b, d>> \in Seq({a, b, d})
       /\ ToSet(<<x, y>>) = {x, y} /\ ToSet(<<a, b, d>>) = {a, b, d}
  BY DEF ToSet
<1>12. IsSeq(second) /\ IsSeq(third) /\ ToSet(third) = {a, b, d} /\ Len(third) = 3
  BY <1>11, SequenceIs
<1>13. /\ w.experts # <<>> => ToSet(second) = {x, y}
       /\ w.experts = <<>> => ToSet(second) = {}
  BY <1>11 DEF ToSet
<1> HIDE DEF second, third
<1>14. IsSeq(first \o second) /\ ToSet(first \o second) = ToSet(first) \union ToSet(second)
  BY <1>8, <1>12, ConcatIs, MembersOfConcat
<1>15. /\ IsSeq(all) /\ ToSet(all) = ToSet(first) \union ToSet(second) \union ToSet(third)
       /\ Len(all) = Len(first \o second) + Len(third)
  <2> DEFINE f == first \o second
  <2> HIDE DEF f
  <2>1. IsSeq(f)
    BY <1>14 DEF f
  <2>2. IsSeq(f \o third) /\ ToSet(f \o third) = ToSet(f) \union ToSet(third)
        /\ Len(f \o third) = Len(f) + Len(third)
    BY <1>12, <2>1, ConcatIs, MembersOfConcat
  <2> QED BY <1>14, <2>2 DEF f
<1>16. Len(all) > 0
  <2>1. Len(first \o second) \in Nat
    BY <1>14, DomainIs
  <2> QED BY <1>12, <1>15, <2>1
<1> HIDE DEF all
<1>17. Decoded(SectionTable(w)) = all
  BY <1>2, <1>15, CellsDecode
<1>18. ExpertCount(all) = n
  <2>1. CASE w.experts = <<>>
    <3>1. ~\E s \in ToSet(all) : s.kind = ExpertIndexKind
      BY <1>8, <1>9, <1>10, <1>12, <1>13, <1>15, <2>1
    <3>2. n = 0
      BY <2>1
    <3> QED BY <3>1, <3>2 DEF ExpertCount
  <2>2. CASE w.experts # <<>>
    <3>1. y \in ToSet(all) /\ y.kind = ExpertIndexKind
      BY <1>9, <1>13, <1>15, <2>2
    <3>2. \A s \in ToSet(all) : s.kind = ExpertIndexKind => s = y
      BY <1>8, <1>9, <1>10, <1>12, <1>13, <1>15, <2>2
    <3>3. (CHOOSE s \in ToSet(all) : s.kind = ExpertIndexKind) = y
      BY <3>1, <3>2
    <3> QED BY <1>9, <3>1, <3>3 DEF ExpertCount
  <2> QED BY <2>1, <2>2
<1>19. IsSeq(SectionTable(w)) /\ Len(SectionTable(w)) = Len(all)
  BY <1>2, <1>15, CellsIs
<1> QED BY <1>16, <1>17, <1>18, <1>19 DEF n

-----------------------------------------------------------------------------
(* A reader that knows what a writer knew.                                 *)
ReaderOf(reader, w) ==
  LET m == Len(w.extents)
      n == Len(w.experts)
  IN  /\ reader.ok
      /\ IsSeq(reader.extents) /\ Len(reader.extents) = m
      /\ \A i \in 1..m : reader.extents[i] = ExtentRecord(w, i)
      /\ IsSeq(reader.strings) /\ Len(reader.strings) = m
      /\ \A i \in 1..m : reader.strings[i] = w.extents[i].name
      /\ IsSeq(reader.experts) /\ Len(reader.experts) = n
      /\ \A i \in 1..n : reader.experts[i] = ExpertRecord(w, i)
      /\ IsSeq(reader.tiles)
      /\ \A i \in 1..n : Stands(reader.tiles, TilesBefore(w, i), w.experts[i].tiles)
      /\ IsSeq(reader.checksums) /\ m <= Len(reader.checksums)
      /\ \A i \in 1..m : reader.checksums[i] = w.extents[i].digest
      /\ \A i \in 1..n : Stands(reader.checksums, m + DigestsBefore(w, i), Digests(w, i))

LEMMA TablesDecode ==
  ASSUME NEW w, BooksOk(w), NEW file, TablesRead(file, w)
  PROVE  ReaderOf(Tables(file), w)
<1> DEFINE sections == Decoded(SectionTable(w))
           index == Decoded(ExpertIndex(w))
           n == Len(w.experts)
           reader == Tables(file)
<1>1. ExpertCount(sections) = n
  BY CountDecodes
<1>2. reader = [ok |-> n <= Len(index), extents |-> Decoded(ExtentTable(w)),
                strings |-> Decoded(StringTable(w)),
                experts |-> SubSeq(index, 1, n), tiles |-> SubSeq(index, n + 1, Len(index)),
                checksums |-> Decoded(ChecksumTable(w))]
  BY <1>1 DEF Tables, TablesRead
<1>3. /\ reader.ok = (n <= Len(index)) /\ reader.extents = Decoded(ExtentTable(w))
      /\ reader.strings = Decoded(StringTable(w))
      /\ reader.experts = SubSeq(index, 1, n) /\ reader.tiles = SubSeq(index, n + 1, Len(index))
      /\ reader.checksums = Decoded(ChecksumTable(w))
  BY <1>2
<1> HIDE DEF reader
<1>4. /\ n <= Len(index) /\ IsSeq(reader.experts) /\ Len(reader.experts) = n
      /\ \A i \in 1..n : reader.experts[i] = ExpertRecord(w, i)
      /\ IsSeq(reader.tiles)
      /\ \A i \in 1..n : Stands(reader.tiles, TilesBefore(w, i), w.experts[i].tiles)
  BY <1>3, IndexDecodes
<1>5. reader.ok
  BY <1>3, <1>4
<1> HIDE DEF index, sections
<1> QED BY <1>3, <1>4, <1>5, NamesDecode, ChecksumsDecode DEF ReaderOf, reader

(* A plan as the importer makes one: an extent's name and its role and     *)
(* layer, an expert's layer and number are those of one item only, the     *)
(* index's own section is no extent's, and an expert can be cut into tiles *)
(* with digests, its width dividing its matrices or up being packed into   *)
(* gate.                                                                   *)
IsDistinct(items) ==
  \A x \in ToSet(items), y \in ToSet(items) :
    /\ /\ x.kind = "extent" /\ y.kind = "extent"
       /\ x.name = y.name \/ (x.role = y.role /\ x.layer = y.layer)
       => x = y
    /\ /\ x.kind # "extent" /\ y.kind # "extent"
       /\ x.layer = y.layer /\ x.expert = y.expert
       => x = y
IsReadable(items) ==
  /\ IsDistinct(items)
  /\ \A item \in ToSet(items) : IF item.kind = "extent" THEN item.section \in Nat \ {ExpertIndexKind}
                                ELSE IsCuttable(item)

(* Every entry of the books is an item's, and stands in the file.          *)
Entered(file, w, items) ==
  /\ \A i \in 1..Len(w.extents) : \E item \in ToSet(items) : LaidExtent(file, w.extents[i], item)
  /\ \A i \in 1..Len(w.experts) : \E item \in ToSet(items) : LaidExpert(file, w.experts[i], item)

LEMMA StandsThere ==
  ASSUME NEW file, IsSeq(file), NEW cells, IsSeq(cells), NEW place, Stands(file, place, cells)
  PROVE  Slice(file, place, Len(cells)) = cells
<1> DEFINE V == ToSet(file) \union ToSet(cells)
<1>1. ToSet(file) \subseteq V /\ ToSet(cells) \subseteq V
  OBVIOUS
<1> HIDE DEF V
<1>2. file \in Seq(V) /\ cells \in Seq(V)
  BY <1>1, SequenceWithin
<1> QED BY <1>2, StandsSlice

LEMMA BooksOfPlan ==
  ASSUME NEW V, NEW w, IsSeq(w.extents), IsSeq(w.experts), NEW items, IsPlan(V, items),
         IsReadable(items), NEW file, Entered(file, w, items), Sizes
  PROVE  BooksOk(w)
<1>1. /\ DOMAIN w.extents = 1..Len(w.extents) /\ DOMAIN w.experts = 1..Len(w.experts)
  BY DomainIs
<1>2. ASSUME NEW e \in ToSet(w.extents) PROVE e.section \in Nat \ {ExpertIndexKind}
  <2>1. PICK i \in 1..Len(w.extents) : e = w.extents[i]
    BY <1>1 DEF ToSet
  <2>2. PICK item \in ToSet(items) : LaidExtent(file, e, item)
    BY <2>1 DEF Entered
  <2>3. item.kind = "extent" /\ e = ExtentEntry(item, e.offset)
    BY <2>2 DEF LaidExtent
  <2>4. ExtentEntry(item, e.offset).section = item.section
    BY DEF ExtentEntry
  <2> QED BY <2>3, <2>4 DEF IsReadable
<1>3. ASSUME NEW e \in ToSet(w.experts) PROVE IsSeq(e.tiles) /\ IsSeq(e.tileDigests)
  <2>1. PICK i \in 1..Len(w.experts) : e = w.experts[i]
    BY <1>1 DEF ToSet
  <2>2. PICK item \in ToSet(items) : LaidExpert(file, e, item)
    BY <2>1 DEF Entered
  <2> DEFINE tiles == TilesOf(item.width, item.gate, item.up, item.down)
             n == Len(tiles)
             digests == [t \in DOMAIN tiles |-> TileDigest(tiles[t], item.gate, item.up, item.down)]
  <2>3. item.kind # "extent" /\ e = ExpertEntry(item, e.offset)
    BY <2>2 DEF LaidExpert
  <2>4. /\ ExpertEntry(item, e.offset).tiles = tiles
        /\ ExpertEntry(item, e.offset).tileDigests = IF item.width = "whole" THEN <<>> ELSE digests
    BY DEF ExpertEntry
  <2>5. IsItem(V, item)
    BY DEF IsPlan, ToSet
  <2>6. IsSeq(tiles)
    BY <2>3, <2>5, TilesAre
  <2>7. n \in Nat /\ DOMAIN tiles = 1..n
    BY <2>6, DomainIs
  <2>8. digests = [t \in 1..n |-> digests[t]]
    BY <2>7
  <2> HIDE DEF digests, n, tiles
  <2>9. IsSeq(digests)
    BY <2>7, <2>8, FunctionIs
  <2>10. IsSeq(<<>>)
    <3>1. <<>> \in Seq({})
      OBVIOUS
    <3> QED BY <3>1, SequenceIs
  <2>11. e.tiles = tiles /\ (e.tileDigests = <<>> \/ e.tileDigests = digests)
    BY <2>3, <2>4
  <2> QED BY <2>6, <2>9, <2>10, <2>11
<1> QED BY <1>2, <1>3 DEF BooksOk

LEMMA ItemsOf ==
  ASSUME NEW V, NEW items, IsPlan(V, items)
  PROVE  /\ Len(items) \in Nat /\ DOMAIN items = 1..Len(items)
         /\ \A i \in 1..Len(items) : items[i] \in ToSet(items)
         /\ \A item \in ToSet(items) : IsItem(V, item) /\ \E i \in 1..Len(items) : item = items[i]
<1>1. PICK U : items \in Seq(U) /\ \A item \in U : IsItem(V, item)
  BY DEF IsPlan
<1>2. Len(items) \in Nat /\ DOMAIN items = 1..Len(items)
  BY <1>1, LenProperties
<1>3. \A i \in 1..Len(items) : items[i] \in ToSet(items)
  BY <1>2 DEF ToSet
<1>4. \A item \in ToSet(items) : \E i \in 1..Len(items) : item = items[i]
  BY <1>2 DEF ToSet
<1>5. \A i \in 1..Len(items) : IsItem(V, items[i])
  BY PlanFacts
<1> QED BY <1>2, <1>3, <1>4, <1>5

(* What an entry of an expert says.                                        *)
LEMMA ExpertSays ==
  ASSUME Sizes, NEW V, NEW item, IsItem(V, item), item.kind # "extent", IsCuttable(item),
         NEW file, NEW e, LaidExpert(file, e, item)
  PROVE  /\ e.layer = item.layer /\ e.expert = item.expert
         /\ e.bytes = Len(Superextent(item)) /\ e.digest = Superextent(item)
         /\ e.offset \in Nat /\ e.offset + e.bytes <= Len(file)
         /\ IsSeq(e.tiles) /\ Len(e.tiles) >= 1 /\ Partition(e.tiles, e.bytes)
         /\ item.width = "whole" => e.tileDigests = <<>>
         /\ item.width # "whole" =>
              /\ IsSeq(e.tileDigests) /\ Len(e.tileDigests) = Len(e.tiles) /\ e.tileDigests # <<>>
              /\ \A t \in 1..Len(e.tiles) :
                   e.tileDigests[t] = Slice(Superextent(item), e.tiles[t].offset, e.tiles[t].bytes)
<1> DEFINE tiles == TilesOf(item.width, item.gate, item.up, item.down)
           n == Len(tiles)
           digests == [t \in DOMAIN tiles |-> TileDigest(tiles[t], item.gate, item.up, item.down)]
           x == ExpertEntry(item, e.offset)
<1>1. e = x /\ Stands(file, e.offset, Superextent(item))
  BY DEF LaidExpert
<1>2. /\ x.layer = item.layer /\ x.expert = item.expert
      /\ x.bytes = Len(Superextent(item)) /\ x.digest = Superextent(item) /\ x.tiles = tiles
      /\ x.tileDigests = IF item.width = "whole" THEN <<>> ELSE digests
  BY DEF ExpertEntry
<1>3. /\ Partition(tiles, Len(Superextent(item)))
      /\ item.width # "whole" => \A t \in 1..n :
           TileDigest(tiles[t], item.gate, item.up, item.down)
             = Slice(Superextent(item), tiles[t].offset, tiles[t].bytes)
  BY TilesFit
<1>4. IsSeq(tiles) /\ n \in Nat /\ n >= 1 /\ DOMAIN tiles = 1..n
  <2>1. IsSeq(tiles) /\ n >= 1
    BY <1>3 DEF Partition
  <2> QED BY <2>1, DomainIs
<1>5. digests = [t \in 1..n |-> digests[t]]
      /\ \A t \in 1..n : digests[t] = TileDigest(tiles[t], item.gate, item.up, item.down)
  BY <1>4
<1> HIDE DEF tiles, digests, n, x
<1>6. IsSeq(digests) /\ Len(digests) = n
  BY <1>4, <1>5, FunctionIs
<1>7. digests # <<>>
  <2>1. Len(<<>>) = 0
    OBVIOUS
  <2> QED BY <1>4, <1>6, <2>1
<1>8. e.offset \in Nat /\ e.offset + e.bytes <= Len(file)
  BY <1>1, <1>2 DEF Stands
<1>9. /\ e.layer = item.layer /\ e.expert = item.expert
      /\ e.bytes = Len(Superextent(item)) /\ e.digest = Superextent(item) /\ e.tiles = tiles
      /\ e.tileDigests = IF item.width = "whole" THEN <<>> ELSE digests
  BY <1>1, <1>2
<1>10. n = Len(tiles)
  BY DEF n
<1> QED BY <1>3, <1>4, <1>5, <1>6, <1>7, <1>8, <1>9, <1>10

(* The reader accepts its entries.                                         *)
LEMMA EntriesHold ==
  ASSUME Sizes, NEW V, NEW items, IsPlan(V, items), IsReadable(items), NEW w, BooksOk(w),
         NEW whole, Entered(whole, w, items), NEW reader, ReaderOf(reader, w),
         NEW file, Len(file) = Len(whole), Len(whole) \in Nat
  PROVE  EntriesAccepted(file, reader)
<1> DEFINE m == Len(w.extents)
           n == Len(w.experts)
<1>1. m \in Nat /\ n \in Nat
  BY BooksFacts
<1>2. ASSUME NEW e \in ToSet(reader.extents) PROVE e.offset + e.bytes <= Len(file)
  <2>1. DOMAIN reader.extents = 1..m
    BY DomainIs DEF ReaderOf
  <2>2. PICK i \in 1..m : e = reader.extents[i]
    BY <2>1 DEF ToSet
  <2>3. e = ExtentRecord(w, i)
    BY <2>2 DEF ReaderOf
  <2>4. PICK item \in ToSet(items) : LaidExtent(whole, w.extents[i], item)
    BY DEF Entered
  <2> DEFINE x == w.extents[i]
  <2>5. x = ExtentEntry(item, x.offset) /\ Stands(whole, x.offset, item.data)
    BY <2>4 DEF LaidExtent
  <2>6. x.bytes = Len(item.data)
    <3> HIDE DEF x
    <3>1. ExtentEntry(item, x.offset).bytes = Len(item.data)
      BY DEF ExtentEntry
    <3> QED BY <2>5, <3>1
  <2>7. e.offset = x.offset /\ e.bytes = x.bytes
    BY <2>3 DEF ExtentRecord
  <2> QED BY <2>5, <2>6, <2>7 DEF Stands
<1>3. ASSUME NEW e \in ToSet(reader.experts)
      PROVE  /\ e.offset + e.bytes <= Len(file)
             /\ e.tileFirst + e.tileCount <= Len(reader.tiles)
             /\ IsContiguous(TilesOfExpert(reader, e), e.bytes)
             /\ e.vouched => e.checksum + 1 + e.tileCount <= Len(reader.checksums)
  <2>1. DOMAIN reader.experts = 1..n
    BY DomainIs DEF ReaderOf
  <2>2. PICK i \in 1..n : e = reader.experts[i]
    BY <2>1 DEF ToSet
  <2>3. e = ExpertRecord(w, i)
    BY <2>2 DEF ReaderOf
  <2>4. PICK item \in ToSet(items) : LaidExpert(whole, w.experts[i], item)
    BY DEF Entered
  <2> DEFINE x == w.experts[i]
  <2>5. IsItem(V, item) /\ item.kind # "extent" /\ IsCuttable(item)
    BY <2>4, ItemsOf DEF LaidExpert, IsReadable
  <2>6. /\ e.offset = x.offset /\ e.bytes = x.bytes /\ e.vouched = (x.tileDigests # <<>>)
        /\ e.tileFirst = TilesBefore(w, i) /\ e.tileCount = Len(x.tiles)
        /\ e.checksum = m + DigestsBefore(w, i)
    BY <2>3 DEF ExpertRecord
  <2>7. Stands(reader.tiles, TilesBefore(w, i), x.tiles) /\ IsSeq(reader.tiles)
        /\ Stands(reader.checksums, m + DigestsBefore(w, i), Digests(w, i))
    BY DEF ReaderOf
  <2>8. Len(Digests(w, i)) = 1 + Len(x.tileDigests)
    BY ChecksumsDecode
  <2> HIDE DEF x
  <2>9. /\ x.offset + x.bytes <= Len(whole) /\ IsSeq(x.tiles) /\ Partition(x.tiles, x.bytes)
        /\ item.width = "whole" => x.tileDigests = <<>>
        /\ item.width # "whole" => IsSeq(x.tileDigests) /\ Len(x.tileDigests) = Len(x.tiles)
    BY <2>4, <2>5, ExpertSays DEF x
  <2>10. e.tileFirst + e.tileCount <= Len(reader.tiles)
    BY <2>6, <2>7 DEF Stands
  <2>11. TilesOfExpert(reader, e) = x.tiles
    BY <2>6, <2>7, <2>9, StandsThere DEF TilesOfExpert
  <2>12. IsContiguous(x.tiles, x.bytes)
    BY <2>9, PartitionIsContiguous
  <2>13. ASSUME e.vouched PROVE e.checksum + 1 + e.tileCount <= Len(reader.checksums)
    <3>1. item.width # "whole"
      BY <2>6, <2>9, <2>13
    <3> DEFINE k == m + DigestsBefore(w, i)
    <3>2. k \in Nat /\ k + Len(Digests(w, i)) <= Len(reader.checksums)
      BY <2>7 DEF Stands
    <3>3. Len(Digests(w, i)) = 1 + Len(x.tiles) /\ Len(x.tiles) \in Nat
      BY <2>8, <2>9, <3>1, DomainIs
    <3> HIDE DEF k
    <3>4. e.checksum = k /\ e.tileCount = Len(x.tiles)
      BY <2>6 DEF k
    <3>5. Len(reader.checksums) \in Nat
      BY DomainIs DEF ReaderOf
    <3>6. k + (1 + Len(x.tiles)) <= Len(reader.checksums)
      BY <3>2, <3>3
    <3> DEFINE l == Len(x.tiles)
               c == Len(reader.checksums)
    <3>7. k + (1 + l) <= c => k + 1 + l <= c
      <4>1. k \in Nat /\ l \in Nat /\ c \in Nat
        BY <3>2, <3>3, <3>5
      <4> HIDE DEF l, c
      <4> QED BY <4>1
    <3> QED BY <3>4, <3>6, <3>7
  <2> QED BY <2>6, <2>9, <2>10, <2>11, <2>12, <2>13
<1> QED BY <1>2, <1>3 DEF EntriesAccepted

LEMMA PartitionWithin ==
  ASSUME NEW tiles, NEW total, Partition(tiles, total), NEW t \in 1..Len(tiles)
  PROVE  tiles[t].offset + tiles[t].bytes <= total
<1> DEFINE n == Len(tiles)
           End(i) == tiles[i].offset + tiles[i].bytes
           S == {k \in 0..(n - 1) : End(n - k) <= total}
<1>1. n \in Nat /\ n >= 1
  BY DomainIs DEF Partition
<1>2. /\ \A i \in 1..n : tiles[i].offset \in Nat /\ tiles[i].bytes \in Nat
      /\ \A i \in 2..n : tiles[i].offset = End(i - 1)
      /\ End(n) = total
  BY DEF Partition
<1> HIDE DEF n
<1>3. \A i \in 2..n : End(i - 1) <= End(i) /\ End(i) \in Nat
  <2>1. ASSUME NEW i \in 2..n PROVE End(i - 1) <= End(i) /\ End(i) \in Nat
    <3>1. i \in 1..n
      BY <1>1
    <3>2. tiles[i].offset = End(i - 1) /\ tiles[i].offset \in Nat /\ tiles[i].bytes \in Nat
      BY <1>2, <3>1
    <3> HIDE DEF End
    <3>3. End(i) = tiles[i].offset + tiles[i].bytes
      BY DEF End
    <3> QED BY <3>2, <3>3
  <2> QED BY <2>1
<1>4. \A i \in 1..n : End(i) \in Nat
  BY <1>2
<1> HIDE DEF End
<1>5. 0 \in S
  BY <1>1, <1>2, <1>4
<1>6. ASSUME NEW k \in 0..(n - 1 - 1), k \in S PROVE k + 1 \in S
  <2> DEFINE i == n - k
  <2>1. i \in 2..n /\ n - (k + 1) = i - 1 /\ k + 1 \in 0..(n - 1) /\ i - 1 \in 1..n /\ i \in 1..n
    BY <1>1
  <2>2. End(i) <= total
    BY <1>6
  <2> HIDE DEF i
  <2>3. End(i - 1) <= End(i) /\ End(i) \in Nat /\ End(i - 1) \in Nat /\ total \in Nat
    <3>1. n \in 1..n
      BY <1>1
    <3> QED BY <1>2, <1>3, <1>4, <2>1, <3>1
  <2>4. End(i - 1) <= total
    BY <2>2, <2>3
  <2> QED BY <2>1, <2>4
<1>7. 0..(n - 1) \subseteq S
  <2> DEFINE h == n - 1
  <2>1. h \in Nat /\ \A k \in 0..(h - 1) : k \in S => k + 1 \in S
    BY <1>1, <1>6
  <2> HIDE DEF h, S
  <2>2. 0..h \subseteq S
    BY <1>5, <2>1, ClimbingTo
  <2> QED BY <2>2 DEF h
<1>8. n - t \in 0..(n - 1) /\ n - (n - t) = t
  BY <1>1 DEF n
<1>9. End(t) <= total
  BY <1>7, <1>8
<1> QED BY <1>9 DEF End

(* The first that fits is one that fits.                                   *)
LEMMA FirstFits ==
  ASSUME NEW n \in Nat, NEW entries, NEW fitting \in SUBSET (1..n)
  PROVE  \/ fitting = {} /\ FirstOf(entries, fitting) = Missing
         \/ \E q \in fitting : FirstOf(entries, fitting) = entries[q]
<1>1. CASE fitting = {}
  BY <1>1 DEF FirstOf
<1>2. CASE fitting # {}
  <2>1. fitting \in SUBSET Nat
    OBVIOUS
  <2>2. Min(fitting) \in fitting
    BY <1>2, <2>1, LeastIsIn
  <2> QED BY <1>2, <2>2 DEF FirstOf
<1> QED BY <1>1, <1>2

(* tensor() finds the entry of the item asked for, if any.                 *)
LEMMA TensorIs ==
  ASSUME Sizes, NEW V, NEW items, IsPlan(V, items), IsReadable(items), NEW w, BooksOk(w),
         NEW whole, Entered(whole, w, items), NEW reader, ReaderOf(reader, w),
         NEW item \in ToSet(items), item.kind = "extent"
  PROVE  LET e == Tensor(reader, item.role, item.layer)
         IN  /\ \/ e = Missing
                \/ \E q \in 1..Len(w.extents) :
                     e = ExtentRecord(w, q) /\ LaidExtent(whole, w.extents[q], item)
             /\ Has(w, item) => e # Missing
<1> DEFINE m == Len(w.extents)
           F == {i \in DOMAIN reader.extents : /\ reader.extents[i].role = item.role
                                               /\ reader.extents[i].layer = item.layer}
           e == Tensor(reader, item.role, item.layer)
<1>1. m \in Nat /\ DOMAIN reader.extents = 1..m /\ \A i \in 1..m : reader.extents[i] = ExtentRecord(w, i)
  BY BooksFacts, DomainIs DEF ReaderOf
<1>2. e = FirstOf(reader.extents, F)
  BY DEF Tensor
<1>3. F \in SUBSET (1..m)
  BY <1>1
<1>4. ASSUME NEW i \in 1..m
      PROVE  /\ i \in F <=> w.extents[i].role = item.role /\ w.extents[i].layer = item.layer
             /\ w.extents[i].name = item.name \/ i \in F => LaidExtent(whole, w.extents[i], item)
  <2> DEFINE x == w.extents[i]
  <2>1. reader.extents[i].role = x.role /\ reader.extents[i].layer = x.layer
    <3>1. reader.extents[i] = ExtentRecord(w, i)
      BY <1>1
    <3>2. ExtentRecord(w, i).role = x.role /\ ExtentRecord(w, i).layer = x.layer
      BY DEF ExtentRecord
    <3> QED BY <3>1, <3>2
  <2>2. i \in F <=> x.role = item.role /\ x.layer = item.layer
    BY <1>1, <2>1
  <2>3. PICK y \in ToSet(items) : LaidExtent(whole, x, y)
    BY DEF Entered
  <2> HIDE DEF x, F
  <2>4. y.kind = "extent" /\ x = ExtentEntry(y, x.offset)
    BY <2>3 DEF LaidExtent
  <2>5. x.role = y.role /\ x.layer = y.layer /\ x.name = y.name
    <3>1. /\ ExtentEntry(y, x.offset).role = y.role /\ ExtentEntry(y, x.offset).layer = y.layer
          /\ ExtentEntry(y, x.offset).name = y.name
      BY DEF ExtentEntry
    <3> QED BY <2>4, <3>1
  <2>6. x.name = item.name \/ i \in F => y = item
    BY <2>2, <2>4, <2>5 DEF IsReadable, IsDistinct
  <2> QED BY <2>2, <2>3, <2>6 DEF x
<1> HIDE DEF F, e
<1>5. ASSUME NEW q \in F, e = reader.extents[q]
      PROVE  \E p \in 1..m : e = ExtentRecord(w, p) /\ LaidExtent(whole, w.extents[p], item)
  BY <1>1, <1>3, <1>4, <1>5
<1>6. \/ F = {} /\ e = Missing
      \/ \E p \in 1..m : e = ExtentRecord(w, p) /\ LaidExtent(whole, w.extents[p], item)
  <2>1. \/ F = {} /\ FirstOf(reader.extents, F) = Missing
        \/ \E q \in F : FirstOf(reader.extents, F) = reader.extents[q]
    BY <1>1, <1>3, FirstFits
  <2> QED BY <1>2, <1>5, <2>1
<1>7. ASSUME Has(w, item) PROVE F # {}
  <2>1. PICK x \in ToSet(w.extents) : x.name = item.name
    BY <1>7 DEF Has
  <2>2. PICK i \in 1..m : x = w.extents[i]
    BY BooksFacts DEF ToSet
  <2>3. LaidExtent(whole, x, item)
    BY <1>4, <2>1, <2>2
  <2>4. x = ExtentEntry(item, x.offset)
    BY <2>3 DEF LaidExtent
  <2>5. ExtentEntry(item, x.offset).role = item.role /\ ExtentEntry(item, x.offset).layer = item.layer
    BY DEF ExtentEntry
  <2> QED BY <1>4, <2>2, <2>4, <2>5
<1>8. ASSUME NEW p \in 1..m, e = ExtentRecord(w, p) PROVE e # Missing
  <2>1. "role" \in DOMAIN ExtentRecord(w, p) /\ "role" \notin DOMAIN Missing
    BY DEF ExtentRecord, Missing
  <2> QED BY <1>8, <2>1
<1> QED BY <1>6, <1>7, <1>8 DEF e, m

LEMMA ExpertIs ==
  ASSUME Sizes, NEW V, NEW items, IsPlan(V, items), IsReadable(items), NEW w, BooksOk(w),
         NEW whole, Entered(whole, w, items), NEW reader, ReaderOf(reader, w),
         NEW item \in ToSet(items), item.kind # "extent"
  PROVE  LET e == Expert(reader, item.layer, item.expert)
         IN  /\ \/ e = Missing
                \/ \E q \in 1..Len(w.experts) :
                     e = ExpertRecord(w, q) /\ LaidExpert(whole, w.experts[q], item)
             /\ Has(w, item) => e # Missing
<1> DEFINE n == Len(w.experts)
           F == {i \in DOMAIN reader.experts : /\ reader.experts[i].layer = item.layer
                                               /\ reader.experts[i].expert = item.expert}
           e == Expert(reader, item.layer, item.expert)
<1>1. n \in Nat /\ DOMAIN reader.experts = 1..n /\ \A i \in 1..n : reader.experts[i] = ExpertRecord(w, i)
  BY BooksFacts, DomainIs DEF ReaderOf
<1>2. e = FirstOf(reader.experts, F)
  BY DEF Expert
<1>3. F \in SUBSET (1..n)
  BY <1>1
<1>4. ASSUME NEW i \in 1..n
      PROVE  /\ i \in F <=> w.experts[i].layer = item.layer /\ w.experts[i].expert = item.expert
             /\ i \in F => LaidExpert(whole, w.experts[i], item)
  <2> DEFINE x == w.experts[i]
  <2>1. reader.experts[i].layer = x.layer /\ reader.experts[i].expert = x.expert
    <3>1. reader.experts[i] = ExpertRecord(w, i)
      BY <1>1
    <3>2. ExpertRecord(w, i).layer = x.layer /\ ExpertRecord(w, i).expert = x.expert
      BY DEF ExpertRecord
    <3> QED BY <3>1, <3>2
  <2>2. i \in F <=> x.layer = item.layer /\ x.expert = item.expert
    BY <1>1, <2>1
  <2>3. PICK y \in ToSet(items) : LaidExpert(whole, x, y)
    BY DEF Entered
  <2> HIDE DEF x, F
  <2>4. y.kind # "extent" /\ x = ExpertEntry(y, x.offset)
    BY <2>3 DEF LaidExpert
  <2>5. x.layer = y.layer /\ x.expert = y.expert
    <3>1. /\ ExpertEntry(y, x.offset).layer = y.layer /\ ExpertEntry(y, x.offset).expert = y.expert
      BY DEF ExpertEntry
    <3> QED BY <2>4, <3>1
  <2>6. i \in F => y = item
    BY <2>2, <2>4, <2>5 DEF IsReadable, IsDistinct
  <2> QED BY <2>2, <2>3, <2>6 DEF x
<1> HIDE DEF F, e
<1>5. ASSUME NEW q \in F, e = reader.experts[q]
      PROVE  \E p \in 1..n : e = ExpertRecord(w, p) /\ LaidExpert(whole, w.experts[p], item)
  BY <1>1, <1>3, <1>4, <1>5
<1>6. \/ F = {} /\ e = Missing
      \/ \E p \in 1..n : e = ExpertRecord(w, p) /\ LaidExpert(whole, w.experts[p], item)
  <2>1. \/ F = {} /\ FirstOf(reader.experts, F) = Missing
        \/ \E q \in F : FirstOf(reader.experts, F) = reader.experts[q]
    BY <1>1, <1>3, FirstFits
  <2> QED BY <1>2, <1>5, <2>1
<1>7. ASSUME Has(w, item) PROVE F # {}
  <2>1. PICK x \in ToSet(w.experts) : x.layer = item.layer /\ x.expert = item.expert
    BY <1>7 DEF Has
  <2>2. PICK i \in 1..n : x = w.experts[i]
    BY BooksFacts DEF ToSet
  <2> QED BY <1>4, <2>1, <2>2
<1>8. ASSUME NEW p \in 1..n, e = ExpertRecord(w, p) PROVE e # Missing
  <2>1. "layer" \in DOMAIN ExpertRecord(w, p) /\ "layer" \notin DOMAIN Missing
    BY DEF ExpertRecord, Missing
  <2> QED BY <1>8, <2>1
<1> QED BY <1>6, <1>7, <1>8 DEF e, n

-----------------------------------------------------------------------------
(* Reads of an item, of any file whose tables are the writer's: they give  *)
(* what was written or nothing; and of a file in which the item stands,    *)
(* they succeed.                                                           *)
LEMMA CheckedIs ==
  ASSUME NEW reader, NEW index \in Nat, index < Len(reader.checksums), NEW cells, NEW read,
         reader.checksums[index + 1] = cells
  PROVE  /\ Checked(reader, index, read) \in {Refused, [ok |-> TRUE, cells |-> cells]}
         /\ read = cells => Checked(reader, index, read).ok
BY DEF Checked

LEMMA ExtentReads ==
  ASSUME Sizes, NEW V, NEW items, IsPlan(V, items), IsReadable(items), NEW w, BooksOk(w),
         NEW whole \in Seq(V), Entered(whole, w, items), NEW reader, ReaderOf(reader, w), NEW file,
         NEW item \in ToSet(items), item.kind = "extent"
  PROVE  /\ ReadsOnly(file, reader, item)
         /\ Has(w, item) => Reads(whole, reader, item)
<1> DEFINE e == Tensor(reader, item.role, item.layer)
           m == Len(w.extents)
<1>1. /\ \/ e = Missing
         \/ \E q \in 1..m : e = ExtentRecord(w, q) /\ LaidExtent(whole, w.extents[q], item)
      /\ Has(w, item) => e # Missing
  BY TensorIs
<1> HIDE DEF e
<1> DEFINE only(f) == reader.strings[e.name + 1] = item.name
                      /\ ReadWhole(f, reader, e) \in {Refused, [ok |-> TRUE, cells |-> item.data]}
<1>2. ASSUME e # Missing
      PROVE  /\ only(file) /\ only(whole)
             /\ ReadWhole(whole, reader, e).ok /\ e.offset % item.align = 0
  <2>1. PICK q \in 1..m : e = ExtentRecord(w, q) /\ LaidExtent(whole, w.extents[q], item)
    BY <1>1, <1>2
  <2> DEFINE x == w.extents[q]
  <2>2. /\ x = ExtentEntry(item, x.offset) /\ Stands(whole, x.offset, item.data)
        /\ x.offset % item.align = 0
    BY <2>1 DEF LaidExtent
  <2>3. e.name = q - 1 /\ e.checksum = q - 1 /\ e.offset = x.offset /\ e.bytes = x.bytes
    BY <2>1 DEF ExtentRecord
  <2> HIDE DEF x
  <2>4. x.name = item.name /\ x.bytes = Len(item.data) /\ x.digest = item.data
    <3>1. /\ ExtentEntry(item, x.offset).name = item.name
          /\ ExtentEntry(item, x.offset).bytes = Len(item.data)
          /\ ExtentEntry(item, x.offset).digest = item.data
      BY DEF ExtentEntry
    <3> QED BY <2>2, <3>1
  <2>5. m \in Nat /\ Len(reader.checksums) \in Nat /\ m <= Len(reader.checksums)
    BY BooksFacts, DomainIs DEF ReaderOf
  <2>6. q - 1 \in Nat /\ (q - 1) + 1 = q /\ q - 1 < Len(reader.checksums)
    BY <2>5
  <2>7. reader.strings[q] = x.name /\ reader.checksums[q] = x.digest
    BY DEF ReaderOf, x
  <2>8. reader.strings[e.name + 1] = item.name
    BY <2>3, <2>4, <2>6, <2>7
  <2>9. \A f : ReadWhole(f, reader, e) = Checked(reader, q - 1, Slice(f, x.offset, Len(item.data)))
    BY <2>3, <2>4 DEF ReadWhole
  <2>10. ASSUME NEW read
         PROVE  /\ Checked(reader, q - 1, read) \in {Refused, [ok |-> TRUE, cells |-> item.data]}
                /\ read = item.data => Checked(reader, q - 1, read).ok
    <3>1. reader.checksums[(q - 1) + 1] = item.data
      BY <2>4, <2>6, <2>7
    <3> QED BY <2>6, <3>1, CheckedIs
  <2>11. Slice(whole, x.offset, Len(item.data)) = item.data
    <3>1. item.data \in Seq(V)
      BY ItemsOf DEF IsItem
    <3> QED BY <2>2, <3>1, StandsSlice
  <2> QED BY <2>2, <2>3, <2>8, <2>9, <2>10, <2>11
<1> HIDE DEF only
<1>3. ReadsOnly(file, reader, item)
  BY <1>2 DEF ReadsOnly, e, only
<1>4. ASSUME Has(w, item) PROVE Reads(whole, reader, item)
  <2>1. e # Missing
    BY <1>1, <1>4
  <2>2. only(whole) /\ ReadWhole(whole, reader, e).ok /\ e.offset % item.align = 0
    BY <1>2, <2>1
  <2>3. ReadsOnly(whole, reader, item)
    BY <2>2 DEF ReadsOnly, e, only
  <2> QED BY <2>1, <2>2, <2>3 DEF Reads, e
<1> QED BY <1>3, <1>4

LEMMA ExpertReads ==
  ASSUME Sizes, NEW V, NEW items, IsPlan(V, items), IsReadable(items), NEW w, BooksOk(w),
         NEW whole \in Seq(V), Entered(whole, w, items), NEW reader, ReaderOf(reader, w), NEW file,
         NEW item \in ToSet(items), item.kind # "extent"
  PROVE  /\ ReadsOnly(file, reader, item)
         /\ Has(w, item) => Reads(whole, reader, item)
<1> DEFINE e == Expert(reader, item.layer, item.expert)
           n == Len(w.experts)
           cells == Superextent(item)
           tileOf(t) == TilesOfExpert(reader, e)[t]
           only(f) == /\ ReadWhole(f, reader, e) \in {Refused, [ok |-> TRUE, cells |-> cells]}
                      /\ \A t \in 1..e.tileCount :
                           ReadTile(f, reader, e, t - 1) \in
                             {Refused, [ok |-> TRUE, cells |-> Slice(cells, tileOf(t).offset, tileOf(t).bytes)]}
           all(f) == /\ ReadWhole(f, reader, e).ok /\ e.offset % ExpertAlignment = 0
                     /\ item.width # "whole" => \A t \in 1..e.tileCount : ReadTile(f, reader, e, t - 1).ok
<1>1. /\ \/ e = Missing
         \/ \E q \in 1..n : e = ExpertRecord(w, q) /\ LaidExpert(whole, w.experts[q], item)
      /\ Has(w, item) => e # Missing
  BY ExpertIs
<1> HIDE DEF e, cells
<1>2. ASSUME e # Missing PROVE only(file) /\ only(whole) /\ all(whole)
  <2>1. PICK q \in 1..n : e = ExpertRecord(w, q) /\ LaidExpert(whole, w.experts[q], item)
    BY <1>1, <1>2
  <2> DEFINE x == w.experts[q]
             base == Len(w.extents) + DigestsBefore(w, q)
             c == Digests(w, q)
  <2>2. Stands(whole, x.offset, cells) /\ x.offset % ExpertAlignment = 0
    BY <2>1 DEF LaidExpert, cells
  <2>3. /\ e.offset = x.offset /\ e.bytes = x.bytes /\ e.vouched = (x.tileDigests # <<>>)
        /\ e.tileFirst = TilesBefore(w, q) /\ e.tileCount = Len(x.tiles) /\ e.checksum = base
    BY <2>1 DEF ExpertRecord
  <2>4. /\ Stands(reader.tiles, TilesBefore(w, q), x.tiles) /\ IsSeq(reader.tiles)
        /\ Stands(reader.checksums, base, c) /\ IsSeq(reader.checksums)
    BY DEF ReaderOf
  <2>5. IsSeq(c) /\ Len(c) = 1 + Len(x.tileDigests) /\ IsSeq(x.tileDigests)
    BY ChecksumsDecode, BooksFacts
  <2>6. IsItem(V, item) /\ IsCuttable(item)
    BY ItemsOf DEF IsReadable
  <2>7. c[1] = x.digest /\ \A t \in 1..Len(x.tileDigests) : c[1 + t] = x.tileDigests[t]
    <3> DEFINE d == x.digest
               one == <<d>>
    <3>1. one \in Seq({d}) /\ Len(one) = 1 /\ one[1] = d
      OBVIOUS
    <3>2. c = one \o x.tileDigests
      BY DEF Digests
    <3> HIDE DEF c, x, one
    <3>3. IsSeq(one)
      BY <3>1, SequenceIs
    <3> DEFINE y == one \o x.tileDigests
    <3>4. /\ \A i \in 1..Len(one) : y[i] = one[i]
          /\ \A t \in 1..Len(x.tileDigests) : y[Len(one) + t] = x.tileDigests[t]
      BY <2>5, <3>3, ConcatFacts
    <3> HIDE DEF y
    <3>5. c = y
      BY <3>2 DEF y
    <3> QED BY <3>1, <3>4, <3>5 DEF x
  <2> HIDE DEF x, c, base
  <2>8. /\ x.bytes = Len(cells) /\ x.digest = cells /\ IsSeq(x.tiles) /\ Len(x.tiles) >= 1
        /\ Partition(x.tiles, x.bytes)
        /\ item.width = "whole" => x.tileDigests = <<>>
        /\ item.width # "whole" =>
             /\ Len(x.tileDigests) = Len(x.tiles) /\ x.tileDigests # <<>>
             /\ \A t \in 1..Len(x.tiles) :
                  x.tileDigests[t] = Slice(cells, x.tiles[t].offset, x.tiles[t].bytes)
    BY <2>1, <2>6, ExpertSays DEF x, cells
  <2>9. cells \in Seq(V) /\ Len(cells) \in Nat
    BY <2>6, PayloadIs DEF cells
  <2>10. TilesOfExpert(reader, e) = x.tiles
    BY <2>3, <2>4, <2>8, StandsThere DEF TilesOfExpert
  <2>11. /\ base \in Nat /\ base + Len(c) <= Len(reader.checksums)
         /\ \A i \in 1..Len(c) : reader.checksums[base + i] = c[i]
         /\ Len(c) \in Nat /\ Len(reader.checksums) \in Nat /\ Len(x.tiles) \in Nat
         /\ Len(x.tileDigests) \in Nat
    BY <2>4, <2>5, <2>8, DomainIs DEF Stands
  <2>12. ASSUME NEW read
         PROVE  /\ Checked(reader, base, read) \in {Refused, [ok |-> TRUE, cells |-> cells]}
                /\ read = cells => Checked(reader, base, read).ok
    <3>1. 1 \in 1..Len(c) /\ base < Len(reader.checksums)
      BY <2>5, <2>11
    <3>2. reader.checksums[base + 1] = cells
      BY <2>7, <2>8, <2>11, <3>1
    <3> QED BY <2>11, <3>1, <3>2, CheckedIs
  <2>13. \A f : ReadWhole(f, reader, e) = Checked(reader, base, Slice(f, x.offset, Len(cells)))
    BY <2>3, <2>8 DEF ReadWhole
  <2>14. Slice(whole, x.offset, Len(cells)) = cells
    BY <2>2, <2>9, StandsSlice
  <2>15. ASSUME NEW t \in 1..Len(x.tiles)
         PROVE  LET k == x.tiles[t].offset
                    b == x.tiles[t].bytes IN
                /\ k \in Nat /\ b \in Nat
                /\ \A f : ReadTile(f, reader, e, t - 1) =
                          IF item.width = "whole" THEN Refused
                          ELSE Checked(reader, base + 1 + (t - 1), Slice(f, x.offset + k, b))
                /\ item.width # "whole" => \A read :
                     /\ Checked(reader, base + 1 + (t - 1), read)
                          \in {Refused, [ok |-> TRUE, cells |-> Slice(cells, k, b)]}
                     /\ read = Slice(cells, k, b) => Checked(reader, base + 1 + (t - 1), read).ok
                /\ Slice(whole, x.offset + k, b) = Slice(cells, k, b)
    <3> DEFINE k == x.tiles[t].offset
               b == x.tiles[t].bytes
    <3>1. k \in Nat /\ b \in Nat
      BY <2>8 DEF Partition
    <3>2. k + b <= Len(cells)
      <4>1. Partition(x.tiles, Len(cells))
        BY <2>8
      <4> QED BY <4>1, PartitionWithin
    <3>3. (t - 1) + 1 = t
      OBVIOUS
    <3>4. ASSUME NEW f
          PROVE  ReadTile(f, reader, e, t - 1) =
                   IF item.width = "whole" THEN Refused
                   ELSE Checked(reader, base + 1 + (t - 1), Slice(f, x.offset + k, b))
      <4>1. TilesOfExpert(reader, e)[(t - 1) + 1] = x.tiles[t]
        BY <2>10, <3>3
      <4>2. e.vouched <=> item.width # "whole"
        BY <2>3, <2>8
      <4> QED BY <2>3, <4>1, <4>2 DEF ReadTile
    <3>5. ASSUME item.width # "whole", NEW read
          PROVE  /\ Checked(reader, base + 1 + (t - 1), read)
                      \in {Refused, [ok |-> TRUE, cells |-> Slice(cells, k, b)]}
                 /\ read = Slice(cells, k, b) => Checked(reader, base + 1 + (t - 1), read).ok
      <4> DEFINE index == base + 1 + (t - 1)
      <4>1. t \in 1..Len(x.tileDigests) /\ x.tileDigests[t] = Slice(cells, k, b)
        BY <2>8, <3>5
      <4>2. 1 + t \in 1..Len(c) /\ index + 1 = base + (1 + t) /\ index \in Nat
            /\ index < Len(reader.checksums)
        BY <2>5, <2>11, <4>1
      <4>3. reader.checksums[base + (1 + t)] = Slice(cells, k, b)
        BY <2>7, <2>11, <4>1, <4>2
      <4> HIDE DEF index
      <4>4. reader.checksums[index + 1] = Slice(cells, k, b)
        BY <4>2, <4>3
      <4>5. /\ Checked(reader, index, read) \in {Refused, [ok |-> TRUE, cells |-> Slice(cells, k, b)]}
            /\ read = Slice(cells, k, b) => Checked(reader, index, read).ok
        BY <4>2, <4>4, CheckedIs
      <4> QED BY <4>5 DEF index
    <3>6. Slice(whole, x.offset + k, b) = Slice(cells, k, b)
      BY <2>2, <2>9, <3>1, <3>2, PartSlice
    <3> QED BY <3>1, <3>4, <3>5, <3>6
  <2>16. \A t : tileOf(t) = x.tiles[t]
    BY <2>10
  <2>17. ASSUME NEW f PROVE only(f)
    <3>1. ReadWhole(f, reader, e) \in {Refused, [ok |-> TRUE, cells |-> cells]}
      BY <2>12, <2>13
    <3>2. ASSUME NEW t \in 1..e.tileCount
          PROVE  ReadTile(f, reader, e, t - 1) \in
                   {Refused, [ok |-> TRUE, cells |-> Slice(cells, x.tiles[t].offset, x.tiles[t].bytes)]}
      <4>1. t \in 1..Len(x.tiles)
        BY <2>3
      <4> QED BY <2>15, <4>1
    <3> QED BY <2>16, <3>1, <3>2
  <2>18. all(whole)
    <3>1. ReadWhole(whole, reader, e).ok
      BY <2>12, <2>13, <2>14
    <3>2. ASSUME item.width # "whole", NEW t \in 1..e.tileCount PROVE ReadTile(whole, reader, e, t - 1).ok
      <4>1. t \in 1..Len(x.tiles)
        BY <2>3
      <4> QED BY <2>15, <3>2, <4>1
    <3> QED BY <2>2, <2>3, <3>1, <3>2
  <2> HIDE DEF only, all
  <2> QED BY <2>17, <2>18
<1> HIDE DEF only, all, tileOf
<1>3. ASSUME NEW f, e # Missing => only(f) PROVE ReadsOnly(f, reader, item)
  BY <1>3 DEF ReadsOnly, e, only, cells, tileOf
<1>4. ReadsOnly(file, reader, item)
  BY <1>2, <1>3
<1>5. ASSUME Has(w, item) PROVE Reads(whole, reader, item)
  <2>1. e # Missing
    BY <1>1, <1>5
  <2>2. all(whole) /\ ReadsOnly(whole, reader, item)
    BY <1>2, <1>3, <2>1
  <2> QED BY <2>1, <2>2 DEF Reads, e, all
<1> QED BY <1>4, <1>5

(* Everything that was written stands in the committed file, and every     *)
(* item has its entry.                                                     *)
LEMMA CommittedEntries ==
  ASSUME Sizes, NEW V, NEW items, NEW u, NEW r, Committed(V, items, u, r), IsReadable(items)
  PROVE  LET whole == Uninterrupted(items)
             kept == Books(u[Len(items)])
         IN  /\ Entered(whole, kept, items) /\ BooksOk(kept)
             /\ \A item \in ToSet(items) : Has(kept, item)
<1> DEFINE N == Len(items)
           last == u[N]
           kept == Books(last)
           seal == Encode(Superblock(kept))
           pad == Padding(SuperblockSize)
           B == pad \o r
           whole == Uninterrupted(items)
<1>1. /\ Pad \in V /\ IsPlan(V, items) /\ Run(u, EmptyWriter, items)
      /\ seal \in Seq(V) /\ Len(seal) = SuperblockSize /\ r \in Seq(V)
      /\ pad \in Seq(V) /\ Len(pad) = SuperblockSize /\ whole = seal \o r
  BY DEF Committed
<1>2. kept.extents = last.extents /\ kept.experts = last.experts
  BY DEF Books
<1>3. Unbroken(V, last) /\ IsPrefix(last.file, B)
  BY CommittedTables
<1>4. N \in 0..N /\ N \in Nat /\ SuperblockSize \in Nat
  BY <1>1, PlanFacts, SuperblockSizeFacts
<1>5. Laid(last, items, N)
  <2> HIDE DEF N
  <2>1. \A j \in 0..N : Laid(u[j], items, j)
    BY <1>1, LaidRun DEF N
  <2> QED BY <1>4, <2>1
<1>6. \A i \in 1..N : Has(last, items[i])
  <2> HIDE DEF N
  <2>1. \A j \in 0..N : \A i \in 1..j : Has(u[j], items[i])
    BY <1>1, UnbrokenRun DEF N
  <2> QED BY <1>4, <2>1
<1> HIDE DEF kept, seal, pad, last
<1>7. last.file \in Seq(V) /\ IsSeq(last.extents) /\ IsSeq(last.experts) /\ B \in Seq(V)
  <2>1. B \in Seq(V)
    BY <1>1, CatFacts
  <2> QED BY <1>3, <2>1 DEF Unbroken, Writer
<1>8. ASSUME NEW place, place >= SuperblockSize, NEW c, Len(c) \in Nat, Stands(B, place, c)
      PROVE  Stands(whole, place, c)
  <2>1. Len(pad) = Len(seal) /\ place >= Len(pad)
    BY <1>1, <1>8
  <2>2. Stands(seal \o r, place, c)
    BY <1>1, <1>8, <2>1, StandsBeyond
  <2> QED BY <1>1, <2>2
<1>9. ASSUME NEW item, IsItem(V, item), NEW e
      PROVE  /\ LaidExtent(last.file, e, item) => LaidExtent(whole, e, item)
             /\ LaidExpert(last.file, e, item) => LaidExpert(whole, e, item)
  <2>1. /\ LaidExtent(last.file, e, item) => LaidExtent(B, e, item)
        /\ LaidExpert(last.file, e, item) => LaidExpert(B, e, item)
    BY <1>3, <1>7, <1>9, LaidStays
  <2> HIDE DEF B
  <2>2. ASSUME item.kind = "extent", e.offset >= SuperblockSize, Stands(B, e.offset, item.data)
        PROVE  Stands(whole, e.offset, item.data)
    <3>1. Len(item.data) \in Nat
      BY <1>9, <2>2, PayloadIs
    <3> QED BY <1>8, <2>2, <3>1
  <2>3. ASSUME item.kind # "extent", e.offset >= SuperblockSize, Stands(B, e.offset, Superextent(item))
        PROVE  Stands(whole, e.offset, Superextent(item))
    <3>1. Len(Superextent(item)) \in Nat
      BY <1>9, <2>3, PayloadIs
    <3> QED BY <1>8, <2>3, <3>1
  <2> HIDE DEF whole
  <2>4. LaidExtent(B, e, item) => LaidExtent(whole, e, item)
    BY <2>2 DEF LaidExtent
  <2>5. LaidExpert(B, e, item) => LaidExpert(whole, e, item)
    BY <2>3 DEF LaidExpert
  <2> QED BY <2>1, <2>4, <2>5
<1> HIDE DEF whole, B
<1>10. /\ \A i \in 1..N : items[i] \in ToSet(items) /\ IsItem(V, items[i])
       /\ \A item \in ToSet(items) : \E i \in 1..N : item = items[i]
  BY <1>1, ItemsOf
<1> HIDE DEF N
<1>11. ASSUME NEW i \in 1..Len(kept.extents)
       PROVE  \E item \in ToSet(items) : LaidExtent(whole, kept.extents[i], item)
  <2>1. kept.extents[i] \in ToSet(last.extents)
    <3>1. DOMAIN last.extents = 1..Len(last.extents)
      BY <1>7, DomainIs
    <3> QED BY <1>2, <3>1 DEF ToSet
  <2>2. PICK k \in 1..N : LaidExtent(last.file, kept.extents[i], items[k])
    BY <1>5, <2>1 DEF Laid
  <2> QED BY <1>9, <1>10, <2>2
<1>12. ASSUME NEW i \in 1..Len(kept.experts)
       PROVE  \E item \in ToSet(items) : LaidExpert(whole, kept.experts[i], item)
  <2>1. kept.experts[i] \in ToSet(last.experts)
    <3>1. DOMAIN last.experts = 1..Len(last.experts)
      BY <1>7, DomainIs
    <3> QED BY <1>2, <3>1 DEF ToSet
  <2>2. PICK k \in 1..N : LaidExpert(last.file, kept.experts[i], items[k])
    BY <1>5, <2>1 DEF Laid
  <2> QED BY <1>9, <1>10, <2>2
<1>13. Entered(whole, kept, items)
  BY <1>11, <1>12 DEF Entered
<1>14. IsSeq(kept.extents) /\ IsSeq(kept.experts)
  BY <1>2, <1>7
<1>15. BooksOk(kept)
  BY <1>1, <1>13, <1>14, BooksOfPlan
<1>16. ASSUME NEW item \in ToSet(items) PROVE Has(kept, item)
  <2>1. Has(last, item)
    BY <1>6, <1>10
  <2> QED BY <1>2, <2>1 DEF Has
<1> QED BY <1>13, <1>15, <1>16 DEF whole, kept, last, N

LEMMA CommittedReads ==
  ASSUME Sizes, NEW V, NEW items, NEW u, NEW r, Committed(V, items, u, r), IsReadable(items)
  PROVE  LET whole == Uninterrupted(items)
             kept == Books(u[Len(items)])
         IN  /\ Headed(whole, Superblock(kept)) /\ SuperblockSize >= 18 /\ SuperblockSize \in Nat
             /\ whole \in Seq(V) /\ Len(whole) >= SuperblockSize
             /\ \A T \in {StringTable(kept), ExtentTable(kept), ExpertIndex(kept), ChecksumTable(kept),
                          SectionTable(kept)} : T \in Seq(V)
             /\ TablesStand(whole, kept, SuperblockSize)
             /\ TablesRead(whole, kept) /\ Open(whole) = Tables(whole)
             /\ ReaderOf(Tables(whole), kept)
<1> DEFINE N == Len(items)
           last == u[N]
           kept == Books(last)
           seal == Encode(Superblock(kept))
           whole == Uninterrupted(items)
           n == SuperblockSize
<1>1. /\ Pad \in V /\ IsPlan(V, items) /\ TableCells(kept) \subseteq V
      /\ seal \in Seq(V) /\ Len(seal) = n /\ r \in Seq(V) /\ whole = seal \o r
  BY DEF Committed
<1>2. Unbroken(V, last) /\ whole \in Seq(V) /\ TablesStand(whole, kept, Len(last.file))
  BY CommittedTables
<1>3. Entered(whole, kept, items) /\ BooksOk(kept)
  BY CommittedEntries
<1>4. Headed(whole, Superblock(kept)) /\ n >= 18
  BY <1>1, SealIsHead
<1>5. n \in Nat
  BY SuperblockSizeFacts
<1> HIDE DEF kept, seal, last
<1>6. Len(whole) >= n /\ Len(whole) \in Nat
  <2>1. Len(whole) = Len(seal) + Len(r) /\ Len(r) \in Nat
    BY <1>1, CatFacts
  <2> HIDE DEF whole, n
  <2> QED BY <1>1, <1>5, <2>1
<1>7. Len(last.file) >= n /\ Len(last.file) \in Nat
  BY <1>2, LenProperties DEF Unbroken, Writer
<1>8. TablesStand(whole, kept, n)
  <2> DEFINE at(from, span, cells) == /\ span.offset \in Nat /\ span.offset >= from
                             /\ span.bytes = Len(cells) /\ Stands(whole, span.offset, cells)
             f == Len(last.file)
  <2> HIDE DEF n, f, whole
  <2>1. ASSUME NEW span, NEW T, at(f, span, T) PROVE at(n, span, T)
    BY <1>5, <1>7, <2>1 DEF f
  <2>2. TablesStand(whole, kept, f)
    BY <1>2 DEF f
  <2> DEFINE spans == TableSpans(kept)
  <2>3. /\ at(f, spans.strings, StringTable(kept)) /\ at(f, spans.extents, ExtentTable(kept))
        /\ at(f, spans.index, ExpertIndex(kept)) /\ at(f, spans.checksums, ChecksumTable(kept))
        /\ at(f, SectionSpan(kept), SectionTable(kept)) /\ Len(whole) = EndOf(SectionSpan(kept))
    BY <2>2 DEF TablesStand
  <2> HIDE DEF at, spans
  <2>4. /\ at(n, spans.strings, StringTable(kept)) /\ at(n, spans.extents, ExtentTable(kept))
        /\ at(n, spans.index, ExpertIndex(kept)) /\ at(n, spans.checksums, ChecksumTable(kept))
        /\ at(n, SectionSpan(kept), SectionTable(kept))
    BY <2>1, <2>3
  <2> QED BY <2>3, <2>4 DEF TablesStand, at, spans
<1>9. \A T \in {StringTable(kept), ExtentTable(kept), ExpertIndex(kept), ChecksumTable(kept),
                SectionTable(kept)} : T \in Seq(V)
  <2>1. IsSeq(StringTable(kept)) /\ IsSeq(ExtentTable(kept)) /\ IsSeq(ExpertIndex(kept))
        /\ IsSeq(ChecksumTable(kept)) /\ IsSeq(SectionTable(kept))
    BY <1>3, TablesAre DEF BooksOk
  <2>2. \A T \in {StringTable(kept), ExtentTable(kept), ExpertIndex(kept), ChecksumTable(kept),
                 SectionTable(kept)} : ToSet(T) \subseteq V
    BY <1>1 DEF TableCells
  <2> QED BY <2>1, <2>2, SequenceWithin
<1> HIDE DEF whole
<1>10. TablesRead(whole, kept) /\ SuperblockAccepted(whole) /\ TablesInBounds(whole) /\ RootMatches(whole)
  BY <1>2, <1>4, <1>6, <1>8, <1>9, TablesFound
<1>11. ReaderOf(Tables(whole), kept)
  BY <1>3, <1>10, TablesDecode
<1>12. EntriesAccepted(whole, Tables(whole))
  BY <1>1, <1>3, <1>6, <1>11, EntriesHold
<1>13. Open(whole) = Tables(whole)
  <2>1. Tables(whole).ok
    BY <1>11 DEF ReaderOf
  <2> QED BY <1>10, <1>12, <2>1 DEF Open
<1> QED BY <1>2, <1>4, <1>5, <1>6, <1>8, <1>9, <1>10, <1>11, <1>13 DEF whole, kept, last

(* A committed container opens, and gives every item of the plan back,     *)
(* whole, under its name and aligned, and, where an expert was tiled, tile *)
(* by tile: what TqfWriter lays out TqfReader finds.                       *)
THEOREM ContainersReadBack ==
  ASSUME Sizes, NEW Payload, NEW items, IsPlan(Payload, items), IsReadable(items)
  PROVE  ReadsBack(items)
<1>1. PICK V, u, r : Committed(V, items, u, r)
  BY CommitLeaves
<1> DEFINE whole == Uninterrupted(items)
           kept == Books(u[Len(items)])
           reader == Open(whole)
<1>2. Entered(whole, kept, items) /\ BooksOk(kept) /\ \A item \in ToSet(items) : Has(kept, item)
  BY <1>1, CommittedEntries
<1>3. whole \in Seq(V) /\ reader = Tables(whole) /\ ReaderOf(reader, kept)
  BY <1>1, CommittedReads
<1>4. IsPlan(V, items)
  BY <1>1 DEF Committed
<1> HIDE DEF whole, kept, reader
<1>5. ASSUME NEW item \in ToSet(items) PROVE Reads(whole, reader, item)
  <2>1. CASE item.kind = "extent"
    BY <1>2, <1>3, <1>4, <2>1, ExtentReads
  <2>2. CASE item.kind # "extent"
    BY <1>2, <1>3, <1>4, <2>2, ExpertReads
  <2> QED BY <2>1, <2>2
<1>6. reader.ok
  BY <1>3 DEF ReaderOf
<1> QED BY <1>5, <1>6 DEF ReadsBack, whole, reader

(* Sequences laid end to end, of the same lengths, are told by the whole.  *)
LEMMA ConcatTells ==
  ASSUME NEW V, NEW a \in Seq(V), NEW b \in Seq(V), NEW c \in Seq(V), NEW d \in Seq(V)
  PROVE  a \o b = c \o d /\ Len(b) = Len(d) => a = c /\ b = d
<1> DEFINE n == Len(a)
           m == Len(b)
           ab == a \o b
           cd == c \o d
<1>1. /\ n \in Nat /\ m \in Nat /\ Len(ab) = n + m
      /\ \A i \in 1..n : ab[i] = a[i]
      /\ \A i \in 1..m : ab[n + i] = b[i]
  BY CatFacts
<1>2. /\ Len(c) \in Nat /\ Len(cd) = Len(c) + Len(d)
      /\ \A i \in 1..Len(c) : cd[i] = c[i]
      /\ \A i \in 1..Len(d) : cd[Len(c) + i] = d[i]
  BY CatFacts
<1>3. SUFFICES ASSUME ab = cd, Len(d) = m PROVE a = c /\ b = d
  OBVIOUS
<1> HIDE DEF ab, cd, n, m
<1>4. Len(c) = n
  BY <1>1, <1>2, <1>3
<1>5. \A i \in 1..n : a[i] = c[i]
  BY <1>1, <1>2, <1>3, <1>4
<1>6. \A i \in 1..m : b[i] = d[i]
  BY <1>1, <1>2, <1>3, <1>4
<1>7. a = c
  BY <1>4, <1>5, SeqEqual DEF n
<1>8. b = d
  BY <1>3, <1>6, SeqEqual DEF m
<1> QED BY <1>7, <1>8

(* The cells the root hash is taken of.                                    *)
AllCells(a, b, c, d, e) == Len(a) + Len(b) + Len(c) + Len(d) + Len(e)

RootOf(s) == Root(s[1], s[2], s[3], s[4], s[5])
AreParts(V, s) == \A k \in 1..5 : s[k] \in Seq(V)
AllEqual(s, t) ==
  /\ AllCells(s[1], s[2], s[3], s[4], s[5]) = AllCells(t[1], t[2], t[3], t[4], t[5])
  /\ (\A k \in 2..5 : Len(s[k]) = Len(t[k])) => \A k \in 1..5 : s[k] = t[k]
LEMMA RootTells ==
  ASSUME NEW V, NEW s, NEW t, AreParts(V, s), AreParts(V, t), RootOf(s) = RootOf(t)
  PROVE  AllEqual(s, t)
<1> DEFINE a == s[1]
           b == s[2]
           c == s[3]
           d == s[4]
           e == s[5]
           f == t[1]
           g == t[2]
           h == t[3]
           i == t[4]
           j == t[5]
<1>0. /\ a \in Seq(V) /\ b \in Seq(V) /\ c \in Seq(V) /\ d \in Seq(V) /\ e \in Seq(V)
      /\ f \in Seq(V) /\ g \in Seq(V) /\ h \in Seq(V) /\ i \in Seq(V) /\ j \in Seq(V)
      /\ Root(a, b, c, d, e) = Root(f, g, h, i, j)
  BY DEF RootOf, AreParts
<1> HIDE DEF a, b, c, d, e, f, g, h, i, j
<1> DEFINE ab == a \o b
           fg == f \o g
<1>1. ab \in Seq(V) /\ fg \in Seq(V) /\ Len(ab) = Len(a) + Len(b) /\ Len(fg) = Len(f) + Len(g)
  BY <1>0, CatFacts
<1> DEFINE abc == (a \o b) \o c
           fgh == (f \o g) \o h
<1>2. abc \in Seq(V) /\ fgh \in Seq(V) /\ Len(abc) = Len(ab) + Len(c) /\ Len(fgh) = Len(fg) + Len(h)
  BY <1>0, <1>1, CatFacts
<1> DEFINE abcd == ((a \o b) \o c) \o d
           fghi == ((f \o g) \o h) \o i
<1>3. abcd \in Seq(V) /\ fghi \in Seq(V) /\ Len(abcd) = Len(abc) + Len(d) /\ Len(fghi) = Len(fgh) + Len(i)
  BY <1>0, <1>2, CatFacts
<1>4. Len(abcd \o e) = Len(abcd) + Len(e) /\ Len(fghi \o j) = Len(fghi) + Len(j)
  <2> HIDE DEF abcd, fghi
  <2> QED BY <1>0, <1>3, CatFacts
<1>5. abcd \o e = fghi \o j
  BY <1>0 DEF Root
<1>6. Len(abcd) + Len(e) = Len(fghi) + Len(j)
  <2> HIDE DEF abcd, fghi
  <2> QED BY <1>4, <1>5
<1>7. /\ Len(a) \in Nat /\ Len(b) \in Nat /\ Len(c) \in Nat /\ Len(d) \in Nat /\ Len(e) \in Nat
      /\ Len(f) \in Nat /\ Len(g) \in Nat /\ Len(h) \in Nat /\ Len(i) \in Nat /\ Len(j) \in Nat
  BY <1>0, LenProperties
<1>8. abcd = abc \o d /\ fghi = fgh \o i /\ abc = ab \o c /\ fgh = fg \o h /\ ab = a \o b /\ fg = f \o g
  OBVIOUS
<1> HIDE DEF ab, abc, abcd, fg, fgh, fghi
<1>9. AllCells(a, b, c, d, e) = AllCells(f, g, h, i, j)
  BY <1>1, <1>2, <1>3, <1>6, <1>7 DEF AllCells
<1>10. ASSUME Len(b) = Len(g), Len(c) = Len(h), Len(d) = Len(i), Len(e) = Len(j)
       PROVE  a = f /\ b = g /\ c = h /\ d = i /\ e = j
  <2>0. \A p, q, x, y \in Seq(V) : p \o q = x \o y /\ Len(q) = Len(y) => p = x /\ q = y
    BY ConcatTells
  <2>1. abcd = fghi /\ e = j
    <3>1. abcd \in Seq(V) /\ fghi \in Seq(V)
      BY <1>3
    <3>2. Len(e) = Len(j)
      BY <1>10
    <3>3. abcd \o e = fghi \o j
      BY <1>5
    <3>4. abcd \o e = fghi \o j /\ Len(e) = Len(j) => abcd = fghi /\ e = j
      BY <1>0, <2>0, <3>1, Zenon
    <3> QED BY <3>2, <3>3, <3>4
  <2>2. abc = fgh /\ d = i
    <3>1. abc \o d = fgh \o i /\ abc \in Seq(V) /\ fgh \in Seq(V)
      BY <1>2, <1>8, <2>1
    <3>2. abc \o d = fgh \o i /\ Len(d) = Len(i) => abc = fgh /\ d = i
      BY <1>0, <2>0, <3>1, Zenon
    <3> QED BY <1>10, <3>1, <3>2
  <2>3. ab = fg /\ c = h
    <3>1. ab \o c = fg \o h /\ ab \in Seq(V) /\ fg \in Seq(V)
      BY <1>1, <1>8, <2>2
    <3>2. ab \o c = fg \o h /\ Len(c) = Len(h) => ab = fg /\ c = h
      BY <1>0, <2>0, <3>1, Zenon
    <3> QED BY <1>10, <3>1, <3>2
  <2>4. a = f /\ b = g
    <3>1. a \o b = f \o g
      BY <1>8, <2>3
    <3>2. a \o b = f \o g /\ Len(b) = Len(g) => a = f /\ b = g
      BY <1>0, <2>0, <3>1, Zenon
    <3> QED BY <1>10, <3>1, <3>2
  <2> QED BY <2>1, <2>2, <2>3, <2>4
<1>11. ASSUME \A k \in 2..5 : Len(s[k]) = Len(t[k]) PROVE \A k \in 1..5 : s[k] = t[k]
  <2>1. Len(b) = Len(g) /\ Len(c) = Len(h) /\ Len(d) = Len(i) /\ Len(e) = Len(j)
    BY <1>11 DEF b, c, d, e, g, h, i, j
  <2>2. a = f /\ b = g /\ c = h /\ d = i /\ e = j
    BY <1>10, <2>1
  <2>3. \A k \in 1..5 : k = 1 \/ k = 2 \/ k = 3 \/ k = 4 \/ k = 5
    OBVIOUS
  <2> QED BY <2>2, <2>3 DEF a, b, c, d, e, f, g, h, i, j
<1> QED BY <1>9, <1>11 DEF a, b, c, d, e, f, g, h, i, j, AllEqual

Offsets == {"sectionOffset", "extentOffset", "stringOffset", "expertOffset", "checksumOffset"}
Counts == {"sectionCount", "extentCount", "stringBytes", "expertBytes", "checksumBytes"}
FieldsSay(file, g) == \A name \in FieldNames : Field(file, name) = g[name]

LEMMA TheFields ==
  /\ FieldNames = {"magic", "size", "endian", "major", "source", "length",
            "sectionOffset", "sectionCount", "extentOffset", "extentCount",
            "stringOffset", "stringBytes", "expertOffset", "expertBytes",
            "checksumOffset", "checksumBytes", "root", "created"}
  /\ Numbers = {"length"} \union Offsets \union Counts
  /\ \A i \in 1..18, j \in 1..18 : Fields[i] = Fields[j] => i = j
<1>1. FieldNames = {"magic", "size", "endian", "major", "source", "length",
            "sectionOffset", "sectionCount", "extentOffset", "extentCount",
            "stringOffset", "stringBytes", "expertOffset", "expertBytes",
            "checksumOffset", "checksumBytes", "root", "created"}
  BY DEF FieldNames, Fields
<1>2. Numbers = {"length"} \union Offsets \union Counts
  BY DEF Numbers, Offsets, Counts
<1>3. \A i \in 1..18, j \in 1..18 : Fields[i] = Fields[j] => i = j
  BY DEF Fields
<1> QED BY <1>1, <1>2, <1>3

(* The tables an open file is cut into.                                    *)
LEMMA TablesCut ==
  ASSUME NEW V, NEW file \in Seq(V), NEW g, FieldsSay(file, g),
         \A name \in Offsets \union Counts : g[name] \in Nat, TablesInBounds(file)
  PROVE  LET S == TableOf(file, "sectionOffset", "sectionCount")
             E == TableOf(file, "extentOffset", "extentCount")
             N == TableOf(file, "stringOffset", "stringBytes")
             X == TableOf(file, "expertOffset", "expertBytes")
             C == TableOf(file, "checksumOffset", "checksumBytes")
         IN  /\ S \in Seq(V) /\ Len(S) = g["sectionCount"] /\ E \in Seq(V) /\ Len(E) = g["extentCount"]
             /\ N \in Seq(V) /\ Len(N) = g["stringBytes"] /\ X \in Seq(V) /\ Len(X) = g["expertBytes"]
             /\ C \in Seq(V) /\ Len(C) = g["checksumBytes"]
<1>1. ASSUME NEW place \in Offsets, NEW count \in Counts, InBounds(file, place, count)
      PROVE  TableOf(file, place, count) \in Seq(V) /\ Len(TableOf(file, place, count)) = g[count]
  <2> DEFINE o == g[place]
             n == g[count]
  <2>1. place \in FieldNames /\ count \in FieldNames
    BY TheFields DEF Offsets, Counts
  <2>2. Field(file, place) = o /\ Field(file, count) = n /\ o \in Nat /\ n \in Nat
    BY <2>1 DEF FieldsSay
  <2> HIDE DEF o, n
  <2>3. o + n <= Len(file) /\ Len(file) \in Nat
    BY <1>1, <2>2, LenProperties DEF InBounds
  <2> DEFINE a == o + 1
             b == o + n
  <2>5. a \in 1..(Len(file) + 1) /\ b \in (a - 1)..Len(file) /\ b - a + 1 = n
    BY <2>2, <2>3
  <2> HIDE DEF a, b
  <2>6. SubSeq(file, a, b) \in Seq(V) /\ Len(SubSeq(file, a, b)) = n
    BY <2>5, CutFacts
  <2> QED BY <2>2, <2>6 DEF TableOf, Slice, a, b, n
<1> DEFINE S == TableOf(file, "sectionOffset", "sectionCount")
           E == TableOf(file, "extentOffset", "extentCount")
           N == TableOf(file, "stringOffset", "stringBytes")
           X == TableOf(file, "expertOffset", "expertBytes")
           C == TableOf(file, "checksumOffset", "checksumBytes")
<1>2. S \in Seq(V) /\ Len(S) = g["sectionCount"]
  BY <1>1 DEF TablesInBounds, Offsets, Counts
<1>3. E \in Seq(V) /\ Len(E) = g["extentCount"]
  BY <1>1 DEF TablesInBounds, Offsets, Counts
<1>4. N \in Seq(V) /\ Len(N) = g["stringBytes"]
  BY <1>1 DEF TablesInBounds, Offsets, Counts
<1>5. X \in Seq(V) /\ Len(X) = g["expertBytes"]
  BY <1>1 DEF TablesInBounds, Offsets, Counts
<1>6. C \in Seq(V) /\ Len(C) = g["checksumBytes"]
  BY <1>1 DEF TablesInBounds, Offsets, Counts
<1> HIDE DEF S, E, N, X, C
<1> QED BY <1>2, <1>3, <1>4, <1>5, <1>6 DEF S, E, N, X, C

(* The root hash vouches for the tables: where it and the lengths are what *)
(* the writer put there, so are they.                                      *)
LEMMA TablesVouched ==
  ASSUME NEW V, NEW file \in Seq(V), NEW w, NEW g, FieldsSay(file, g),
         \A T \in {StringTable(w), ExtentTable(w), ExpertIndex(w), ChecksumTable(w),
                   SectionTable(w)} : T \in Seq(V),
         \A name \in Offsets \union Counts : g[name] \in Nat,
         g["root"] = Superblock(w)["root"], TablesInBounds(file), RootMatches(file)
  PROVE  /\ g["sectionCount"] + g["extentCount"] + g["stringBytes"] + g["expertBytes"]
              + g["checksumBytes"]
            = Len(SectionTable(w)) + Len(ExtentTable(w)) + Len(StringTable(w)) + Len(ExpertIndex(w))
                + Len(ChecksumTable(w))
         /\ /\ g["sectionCount"] = Len(SectionTable(w)) /\ g["extentCount"] = Len(ExtentTable(w))
            /\ g["stringBytes"] = Len(StringTable(w)) /\ g["expertBytes"] = Len(ExpertIndex(w))
            /\ g["checksumBytes"] = Len(ChecksumTable(w))
            => TablesRead(file, w)
<1> DEFINE S == TableOf(file, "sectionOffset", "sectionCount")
           E == TableOf(file, "extentOffset", "extentCount")
           N == TableOf(file, "stringOffset", "stringBytes")
           X == TableOf(file, "expertOffset", "expertBytes")
           C == TableOf(file, "checksumOffset", "checksumBytes")
<1>2. /\ S \in Seq(V) /\ Len(S) = g["sectionCount"] /\ E \in Seq(V) /\ Len(E) = g["extentCount"]
      /\ N \in Seq(V) /\ Len(N) = g["stringBytes"] /\ X \in Seq(V) /\ Len(X) = g["expertBytes"]
      /\ C \in Seq(V) /\ Len(C) = g["checksumBytes"]
  BY TablesCut
<1>7. Root(S, E, N, X, C) =
        Root(SectionTable(w), ExtentTable(w), StringTable(w), ExpertIndex(w), ChecksumTable(w))
  <2>1. "root" \in FieldNames
    BY TheFields
  <2>2. Field(file, "root") = g["root"]
    BY <2>1 DEF FieldsSay
  <2>3. Superblock(w)["root"] =
          Root(SectionTable(w), ExtentTable(w), StringTable(w), ExpertIndex(w), ChecksumTable(w))
    BY SuperblockSays
  <2> QED BY <2>2, <2>3 DEF RootMatches
<1> HIDE DEF S, E, N, X, C
<1> DEFINE S0 == SectionTable(w)
           E0 == ExtentTable(w)
           N0 == StringTable(w)
           X0 == ExpertIndex(w)
           C0 == ChecksumTable(w)
<1>8. S0 \in Seq(V) /\ E0 \in Seq(V) /\ N0 \in Seq(V) /\ X0 \in Seq(V) /\ C0 \in Seq(V)
  OBVIOUS
<1> HIDE DEF S0, E0, N0, X0, C0
<1>9. Root(S, E, N, X, C) = Root(S0, E0, N0, X0, C0)
  BY <1>7 DEF S0, E0, N0, X0, C0
<1>10. /\ AllCells(S, E, N, X, C) = AllCells(S0, E0, N0, X0, C0)
       /\ Len(E) = Len(E0) /\ Len(N) = Len(N0) /\ Len(X) = Len(X0) /\ Len(C) = Len(C0) =>
            S = S0 /\ E = E0 /\ N = N0 /\ X = X0 /\ C = C0
  <2>1. S \in Seq(V) /\ E \in Seq(V) /\ N \in Seq(V) /\ X \in Seq(V) /\ C \in Seq(V)
    BY <1>2
  <2> DEFINE s == <<S, E, N, X, C>>
             t == <<S0, E0, N0, X0, C0>>
  <2>2. /\ s[1] = S /\ s[2] = E /\ s[3] = N /\ s[4] = X /\ s[5] = C
        /\ t[1] = S0 /\ t[2] = E0 /\ t[3] = N0 /\ t[4] = X0 /\ t[5] = C0
    OBVIOUS
  <2> HIDE DEF s, t
  <2>3. \A k \in 1..5 : k = 1 \/ k = 2 \/ k = 3 \/ k = 4 \/ k = 5
    OBVIOUS
  <2>4. AreParts(V, s) /\ AreParts(V, t)
    BY <1>8, <2>1, <2>2, <2>3 DEF AreParts
  <2>5. RootOf(s) = RootOf(t)
    BY <1>9, <2>2 DEF RootOf
  <2>6. /\ AllCells(s[1], s[2], s[3], s[4], s[5]) = AllCells(t[1], t[2], t[3], t[4], t[5])
        /\ (\A k \in 2..5 : Len(s[k]) = Len(t[k])) => \A k \in 1..5 : s[k] = t[k]
    <3>1. AllEqual(s, t)
      BY <2>4, <2>5, RootTells
    <3> QED BY <3>1 DEF AllEqual
  <2>7. ASSUME Len(E) = Len(E0), Len(N) = Len(N0), Len(X) = Len(X0), Len(C) = Len(C0)
        PROVE  S = S0 /\ E = E0 /\ N = N0 /\ X = X0 /\ C = C0
    <3>1. \A k \in 2..5 : k = 2 \/ k = 3 \/ k = 4 \/ k = 5
      OBVIOUS
    <3>2. \A k \in 2..5 : Len(s[k]) = Len(t[k])
      BY <2>2, <2>7, <3>1
    <3>3. \A k \in 1..5 : s[k] = t[k]
      BY <2>6, <3>2
    <3>4. s[1] = t[1] /\ s[2] = t[2] /\ s[3] = t[3] /\ s[4] = t[4] /\ s[5] = t[5]
      BY <3>3
    <3> QED BY <2>2, <3>4
  <2> QED BY <2>2, <2>6, <2>7
<1>11. /\ g["sectionCount"] + g["extentCount"] + g["stringBytes"] + g["expertBytes"]
            + g["checksumBytes"] = Len(S0) + Len(E0) + Len(N0) + Len(X0) + Len(C0)
  BY <1>2, <1>10 DEF AllCells
<1>12. ASSUME g["sectionCount"] = Len(S0), g["extentCount"] = Len(E0), g["stringBytes"] = Len(N0),
              g["expertBytes"] = Len(X0), g["checksumBytes"] = Len(C0)
       PROVE  TablesRead(file, w)
  <2>1. S = S0 /\ E = E0 /\ N = N0 /\ X = X0 /\ C = C0
    BY <1>2, <1>10, <1>12
  <2> QED BY <2>1 DEF TablesRead, S, E, N, X, C, S0, E0, N0, X0, C0
<1> QED BY <1>11, <1>12 DEF S0, E0, N0, X0, C0

(* What the superblock of a committed file says.                           *)
HeadSays(b, w, n) ==
  /\ b["length"] = n /\ n \in Nat
  /\ \A name \in Offsets \union Counts : b[name] \in Nat
  /\ b["sectionCount"] = Len(SectionTable(w)) /\ b["extentCount"] = Len(ExtentTable(w))
  /\ b["stringBytes"] = Len(StringTable(w)) /\ b["expertBytes"] = Len(ExpertIndex(w))
  /\ b["checksumBytes"] = Len(ChecksumTable(w))

LEMMA HeadOfStanding ==
  ASSUME NEW V, NEW file \in Seq(V), NEW w, NEW from, TablesStand(file, w, from),
         \A T \in {StringTable(w), ExtentTable(w), ExpertIndex(w), ChecksumTable(w),
                   SectionTable(w)} : T \in Seq(V)
  PROVE  HeadSays(Superblock(w), w, Len(file))
<1> DEFINE spans == TableSpans(w)
           b == Superblock(w)
           S == SectionTable(w)
           E == ExtentTable(w)
           N == StringTable(w)
           X == ExpertIndex(w)
           C == ChecksumTable(w)
<1>1. /\ b["length"] = EndOf(SectionSpan(w))
      /\ b["sectionOffset"] = SectionSpan(w).offset /\ b["sectionCount"] = SectionSpan(w).bytes
      /\ b["extentOffset"] = spans.extents.offset /\ b["extentCount"] = spans.extents.bytes
      /\ b["stringOffset"] = spans.strings.offset /\ b["stringBytes"] = spans.strings.bytes
      /\ b["expertOffset"] = spans.index.offset /\ b["expertBytes"] = spans.index.bytes
      /\ b["checksumOffset"] = spans.checksums.offset /\ b["checksumBytes"] = spans.checksums.bytes
  BY SuperblockSays
<1>2. /\ spans.strings.offset \in Nat /\ spans.strings.bytes = Len(N)
      /\ spans.extents.offset \in Nat /\ spans.extents.bytes = Len(E)
      /\ spans.index.offset \in Nat /\ spans.index.bytes = Len(X)
      /\ spans.checksums.offset \in Nat /\ spans.checksums.bytes = Len(C)
      /\ SectionSpan(w).offset \in Nat /\ SectionSpan(w).bytes = Len(S)
      /\ Len(file) = EndOf(SectionSpan(w))
  BY DEF TablesStand
<1>3. Len(S) \in Nat /\ Len(E) \in Nat /\ Len(N) \in Nat /\ Len(X) \in Nat /\ Len(C) \in Nat
      /\ Len(file) \in Nat
  BY LenProperties
<1> HIDE DEF spans, b, S, E, N, X, C
<1>4. ASSUME NEW name \in Offsets \union Counts PROVE b[name] \in Nat
  BY <1>1, <1>2, <1>3 DEF Offsets, Counts
<1> QED BY <1>1, <1>2, <1>3, <1>4 DEF HeadSays, S, E, N, X, C, b

(* A file that opens has passed every check of the reader.                 *)
LEMMA OpenedIs ==
  ASSUME NEW file, Open(file).ok
  PROVE  SuperblockAccepted(file) /\ TablesInBounds(file) /\ RootMatches(file)
         /\ Open(file) = Tables(file)
<1>1. ~Refused.ok
  BY DEF Refused
<1> QED BY <1>1 DEF Open

LEMMA SaysOfHead ==
  ASSUME NEW file, NEW g, Headed(file, g)
  PROVE  FieldsSay(file, g)
BY FieldIs DEF FieldsSay

(* Behind an intact superblock, a file that opens has its tables.          *)
LEMMA HeadKept ==
  ASSUME NEW V, NEW file \in Seq(V), NEW w, NEW n, Headed(file, Superblock(w)),
         HeadSays(Superblock(w), w, n), SuperblockAccepted(file), TablesInBounds(file),
         RootMatches(file),
         \A T \in {StringTable(w), ExtentTable(w), ExpertIndex(w), ChecksumTable(w),
                   SectionTable(w)} : T \in Seq(V)
  PROVE  Len(file) = n /\ TablesRead(file, w)
<1> DEFINE b == Superblock(w)
<1>1. FieldsSay(file, b)
  BY SaysOfHead
<1>2. "length" \in FieldNames
  BY TheFields
<1>3. Len(file) = n
  BY <1>1, <1>2 DEF FieldsSay, SuperblockAccepted, HeadSays
<1>4. /\ \A name \in Offsets \union Counts : b[name] \in Nat
      /\ b["sectionCount"] = Len(SectionTable(w)) /\ b["extentCount"] = Len(ExtentTable(w))
      /\ b["stringBytes"] = Len(StringTable(w)) /\ b["expertBytes"] = Len(ExpertIndex(w))
      /\ b["checksumBytes"] = Len(ChecksumTable(w)) /\ b["root"] = Superblock(w)["root"]
  BY DEF HeadSays
<1> HIDE DEF b
<1>5. TablesRead(file, w)
  BY <1>1, <1>4, TablesVouched
<1> QED BY <1>3, <1>5

LEMMA WrongFieldIs ==
  ASSUME NEW name, NEW value, name \in Numbers => value \in Nat,
         NEW cell \in WrongField(<<"field", name, value>>)
  PROVE  \E v : /\ cell = <<"field", name, v>>
                /\ name \in Numbers => v \in Nat /\ v # value
                /\ name \notin Numbers => v = IF name = "root" THEN <<>> ELSE "other"
<1> DEFINE c == <<"field", name, value>>
<1>1. c[2] = name /\ c[3] = value
  OBVIOUS
<1>2. CASE name \in Numbers
  <2>1. cell \in {<<"field", name, value + by>> : by \in {-1, 1}}
        /\ cell \in {<<"field", name, n>> : n \in 0..(value + 1)}
    BY <1>1, <1>2 DEF WrongField
  <2>2. PICK by \in {-1, 1} : cell = <<"field", name, value + by>>
    BY <2>1
  <2>3. PICK n \in 0..(value + 1) : cell = <<"field", name, n>>
    BY <2>1
  <2>4. n = value + by
    BY <2>2, <2>3
  <2>5. n \in Nat /\ n # value
    BY <1>2, <2>4
  <2> QED BY <1>2, <2>3, <2>5
<1>3. CASE name \notin Numbers
  <2>1. cell = <<"field", name, IF name = "root" THEN <<>> ELSE "other">>
    BY <1>1, <1>3 DEF WrongField
  <2> QED BY <1>3, <2>1
<1> QED BY <1>2, <1>3

(* An empty root is the root of empty tables only.                         *)
LEMMA EmptyRoot ==
  ASSUME NEW V, NEW file \in Seq(V), NEW g, FieldsSay(file, g),
         \A name \in Offsets \union Counts : g[name] \in Nat,
         g["root"] = <<>>, TablesInBounds(file), RootMatches(file)
  PROVE  g["sectionCount"] = 0
<1> DEFINE S == TableOf(file, "sectionOffset", "sectionCount")
           E == TableOf(file, "extentOffset", "extentCount")
           N == TableOf(file, "stringOffset", "stringBytes")
           X == TableOf(file, "expertOffset", "expertBytes")
           C == TableOf(file, "checksumOffset", "checksumBytes")
<1>1. /\ S \in Seq(V) /\ Len(S) = g["sectionCount"] /\ E \in Seq(V) /\ Len(E) = g["extentCount"]
      /\ N \in Seq(V) /\ Len(N) = g["stringBytes"] /\ X \in Seq(V) /\ Len(X) = g["expertBytes"]
      /\ C \in Seq(V) /\ Len(C) = g["checksumBytes"]
  BY TablesCut
<1>2. Root(S, E, N, X, C) = <<>>
  <2>1. "root" \in FieldNames
    BY TheFields
  <2> QED BY <2>1 DEF FieldsSay, RootMatches
<1> HIDE DEF S, E, N, X, C
<1> DEFINE s == <<S, E, N, X, C>>
           none == << >>
           t == <<none, none, none, none, none>>
<1>3. /\ s[1] = S /\ s[2] = E /\ s[3] = N /\ s[4] = X /\ s[5] = C
      /\ t[1] = none /\ t[2] = none /\ t[3] = none /\ t[4] = none /\ t[5] = none
  OBVIOUS
<1>4. none \in Seq(V) /\ Len(none) = 0 /\ none \o none = none
  OBVIOUS
<1>5. \A k \in 1..5 : k = 1 \/ k = 2 \/ k = 3 \/ k = 4 \/ k = 5
  OBVIOUS
<1>6. Root(S, E, N, X, C) = none
  BY <1>2
<1> HIDE DEF s, t, none
<1>7. AreParts(V, s) /\ AreParts(V, t)
  BY <1>1, <1>3, <1>4, <1>5 DEF AreParts
<1>8. Root(none, none, none, none, none) = none
  BY <1>4 DEF Root
<1>9. RootOf(s) = RootOf(t)
  BY <1>3, <1>6, <1>8 DEF RootOf
<1>10. AllEqual(s, t)
  BY <1>7, <1>9, RootTells
<1>11. Len(S) + Len(E) + Len(N) + Len(X) + Len(C) = 0
  BY <1>3, <1>4, <1>10 DEF AllEqual, AllCells
<1>12. Len(S) \in Nat /\ Len(E) \in Nat /\ Len(N) \in Nat /\ Len(X) \in Nat /\ Len(C) \in Nat
  BY <1>1, LenProperties
<1>13. Len(S) = 0
  BY <1>11, <1>12
<1> QED BY <1>1, <1>13

(* A superblock but for one field.                                         *)
Altered(superblock, name, v, g) ==
  /\ name \in FieldNames
  /\ \A x \in FieldNames : g[x] = IF x = name THEN v ELSE superblock[x]
  /\ name \in Numbers => v \in Nat /\ v # superblock[name]
  /\ name \notin Numbers => v = IF name = "root" THEN <<>> ELSE "other"

(* One wrong field of the superblock: refused, or the tables are read all  *)
(* the same.                                                               *)
LEMMA FieldChanged ==
  ASSUME NEW V, NEW file \in Seq(V), NEW w, NEW n, HeadSays(Superblock(w), w, n), Len(file) = n,
         Len(SectionTable(w)) > 0,
         \A T \in {StringTable(w), ExtentTable(w), ExpertIndex(w), ChecksumTable(w),
                   SectionTable(w)} : T \in Seq(V),
         NEW name, NEW v, NEW g, Altered(Superblock(w), name, v, g), FieldsSay(file, g),
         SuperblockAccepted(file), TablesInBounds(file), RootMatches(file)
  PROVE  TablesRead(file, w)
<1> DEFINE b == Superblock(w)
<1>0. /\ name \in FieldNames
      /\ \A x \in FieldNames : g[x] = IF x = name THEN v ELSE b[x]
      /\ name \in Numbers => v \in Nat /\ v # b[name]
      /\ name \notin Numbers => v = IF name = "root" THEN <<>> ELSE "other"
  BY DEF Altered
<1>1. /\ Numbers = {"length"} \union Offsets \union Counts
      /\ Offsets \subseteq FieldNames /\ Counts \subseteq FieldNames
      /\ "length" \in FieldNames /\ "root" \in FieldNames
      /\ "magic" \in FieldNames /\ "size" \in FieldNames /\ "endian" \in FieldNames
      /\ "major" \in FieldNames
  BY TheFields DEF Offsets, Counts
<1>2. name \notin DOMAIN Identity
  <2>1. SUFFICES ASSUME name \in DOMAIN Identity PROVE FALSE
    OBVIOUS
  <2>2. DOMAIN Identity = {"magic", "size", "endian", "major"}
    BY DEF Identity
  <2>3. name \notin Numbers /\ name # "root"
    BY <2>1, <2>2 DEF Numbers
  <2>4. v = "other"
    BY <1>0, <2>3
  <2>5. Field(file, name) = Identity[name]
    BY <2>1 DEF SuperblockAccepted
  <2>6. Field(file, name) = "other"
    BY <1>0, <2>4 DEF FieldsSay
  <2>7. /\ Identity["magic"] = "TQFMODEL" /\ Identity["size"] = "4096"
        /\ Identity["endian"] = "01020304" /\ Identity["major"] = "1"
    BY DEF Identity
  <2> QED BY <2>1, <2>2, <2>5, <2>6, <2>7
<1>3. name # "length"
  <2>1. SUFFICES ASSUME name = "length" PROVE FALSE
    OBVIOUS
  <2>2. v # b["length"] /\ Field(file, "length") = v
    BY <1>0, <1>1, <2>1 DEF FieldsSay
  <2> QED BY <2>2 DEF SuperblockAccepted, HeadSays
<1> HIDE DEF b
<1>4. /\ \A x \in Offsets \union Counts : b[x] \in Nat
      /\ b["sectionCount"] = Len(SectionTable(w)) /\ b["extentCount"] = Len(ExtentTable(w))
      /\ b["stringBytes"] = Len(StringTable(w)) /\ b["expertBytes"] = Len(ExpertIndex(w))
      /\ b["checksumBytes"] = Len(ChecksumTable(w))
  BY DEF HeadSays, b
<1>5. \A x \in FieldNames : g[x] = IF x = name THEN v ELSE b[x]
  BY <1>0
<1>6. name \in Numbers => v \in Nat /\ v # b[name]
  BY <1>0
<1>7. \A x \in Offsets \union Counts : g[x] \in Nat
  <2> TAKE x \in Offsets \union Counts
  <2>1. x \in FieldNames /\ x \in Numbers
    BY <1>1
  <2>2. CASE x = name
    BY <1>5, <1>6, <2>1, <2>2
  <2>3. CASE x # name
    BY <1>4, <1>5, <2>1, <2>3
  <2> QED BY <2>2, <2>3
<1>8. name # "root"
  <2>1. SUFFICES ASSUME name = "root" PROVE FALSE
    OBVIOUS
  <2>2. "root" \notin Numbers
    BY DEF Numbers
  <2>3. g["root"] = <<>>
    BY <1>0, <1>1, <1>5, <2>1, <2>2
  <2>4. g["sectionCount"] = 0
    BY <1>7, <2>3, EmptyRoot
  <2>5. g["sectionCount"] = b["sectionCount"]
    <3>1. "sectionCount" \in FieldNames
      BY TheFields
    <3> QED BY <1>5, <2>1, <3>1
  <2> QED BY <1>4, <2>4, <2>5
<1>9. g["root"] = b["root"]
  BY <1>1, <1>5, <1>8
<1>10. /\ g["sectionCount"] + g["extentCount"] + g["stringBytes"] + g["expertBytes"]
            + g["checksumBytes"]
          = Len(SectionTable(w)) + Len(ExtentTable(w)) + Len(StringTable(w)) + Len(ExpertIndex(w))
              + Len(ChecksumTable(w))
       /\ /\ g["sectionCount"] = Len(SectionTable(w)) /\ g["extentCount"] = Len(ExtentTable(w))
          /\ g["stringBytes"] = Len(StringTable(w)) /\ g["expertBytes"] = Len(ExpertIndex(w))
          /\ g["checksumBytes"] = Len(ChecksumTable(w))
          => TablesRead(file, w)
  <2>1. g["root"] = Superblock(w)["root"]
    BY <1>9 DEF b
  <2> QED BY <1>7, <2>1, TablesVouched
<1>11. Counts = {"sectionCount", "extentCount", "stringBytes", "expertBytes", "checksumBytes"}
  BY DEF Counts
<1>12. \A x \in Counts : b[x] \in Nat /\ x \in FieldNames /\ x \in Numbers
  BY <1>1, <1>4
<1>13. name \notin Counts
  <2>1. SUFFICES ASSUME name \in Counts PROVE FALSE
    OBVIOUS
  <2>2. v \in Nat /\ v # b[name]
    BY <1>6, <1>12, <2>1
  <2> DEFINE p == b["sectionCount"]
             q == b["extentCount"]
             r == b["stringBytes"]
             s == b["expertBytes"]
             t == b["checksumBytes"]
  <2>3. g["sectionCount"] + g["extentCount"] + g["stringBytes"] + g["expertBytes"] + g["checksumBytes"]
        = p + q + r + s + t
    BY <1>4, <1>10
  <2>4. \A x \in Counts : g[x] = IF x = name THEN v ELSE b[x]
    BY <1>5, <1>12
  <2>5. /\ "sectionCount" \in Counts /\ "extentCount" \in Counts /\ "stringBytes" \in Counts
        /\ "expertBytes" \in Counts /\ "checksumBytes" \in Counts
    BY <1>11
  <2>6. /\ p \in Nat /\ q \in Nat /\ r \in Nat
        /\ s \in Nat /\ t \in Nat
    BY <1>12, <2>5
  <2>7. \A x \in Counts : x # name => g[x] = b[x]
    BY <2>4
  <2>8. g[name] = v
    BY <2>1, <2>4
  <2>9. CASE name = "sectionCount"
    <3>1. g["extentCount"] = q /\ g["stringBytes"] = r
          /\ g["expertBytes"] = s /\ g["checksumBytes"] = t
      BY <2>5, <2>7, <2>9
    <3>2. g["sectionCount"] = v /\ v # p /\ v \in Nat
      BY <2>2, <2>8, <2>9
    <3>3. v + q + r + s + t
          = p + q + r + s + t
      BY <2>3, <3>1, <3>2
    <3> HIDE DEF p, q, r, s, t
    <3> QED BY <2>6, <3>2, <3>3
  <2>10. CASE name = "extentCount"
    <3>1. g["sectionCount"] = p /\ g["stringBytes"] = r
          /\ g["expertBytes"] = s /\ g["checksumBytes"] = t
      BY <2>5, <2>7, <2>10
    <3>2. g["extentCount"] = v /\ v # q /\ v \in Nat
      BY <2>2, <2>8, <2>10
    <3>3. p + v + r + s + t
          = p + q + r + s + t
      BY <2>3, <3>1, <3>2
    <3> HIDE DEF p, q, r, s, t
    <3> QED BY <2>6, <3>2, <3>3
  <2>11. CASE name = "stringBytes"
    <3>1. g["sectionCount"] = p /\ g["extentCount"] = q
          /\ g["expertBytes"] = s /\ g["checksumBytes"] = t
      BY <2>5, <2>7, <2>11
    <3>2. g["stringBytes"] = v /\ v # r /\ v \in Nat
      BY <2>2, <2>8, <2>11
    <3>3. p + q + v + s + t
          = p + q + r + s + t
      BY <2>3, <3>1, <3>2
    <3> HIDE DEF p, q, r, s, t
    <3> QED BY <2>6, <3>2, <3>3
  <2>12. CASE name = "expertBytes"
    <3>1. g["sectionCount"] = p /\ g["extentCount"] = q
          /\ g["stringBytes"] = r /\ g["checksumBytes"] = t
      BY <2>5, <2>7, <2>12
    <3>2. g["expertBytes"] = v /\ v # s /\ v \in Nat
      BY <2>2, <2>8, <2>12
    <3>3. p + q + r + v + t
          = p + q + r + s + t
      BY <2>3, <3>1, <3>2
    <3> HIDE DEF p, q, r, s, t
    <3> QED BY <2>6, <3>2, <3>3
  <2>13. CASE name = "checksumBytes"
    <3>1. g["sectionCount"] = p /\ g["extentCount"] = q
          /\ g["stringBytes"] = r /\ g["expertBytes"] = s
      BY <2>5, <2>7, <2>13
    <3>2. g["checksumBytes"] = v /\ v # t /\ v \in Nat
      BY <2>2, <2>8, <2>13
    <3>3. p + q + r + s + v
          = p + q + r + s + t
      BY <2>3, <3>1, <3>2
    <3> HIDE DEF p, q, r, s, t
    <3> QED BY <2>6, <3>2, <3>3
  <2> QED BY <1>11, <2>1, <2>9, <2>10, <2>11, <2>12, <2>13
<1>14. \A x \in Counts : g[x] = b[x]
  BY <1>5, <1>12, <1>13
<1>15. /\ g["sectionCount"] = b["sectionCount"] /\ g["extentCount"] = b["extentCount"]
       /\ g["stringBytes"] = b["stringBytes"] /\ g["expertBytes"] = b["expertBytes"]
       /\ g["checksumBytes"] = b["checksumBytes"]
  BY <1>11, <1>14
<1> QED BY <1>4, <1>10, <1>15

(* Another cell in place of one.                                           *)
LEMMA CellChanged ==
  ASSUME NEW V, NEW whole \in Seq(V), NEW j \in 1..Len(whole), NEW c, NEW W, W = V \union {c}
  PROVE  /\ [whole EXCEPT ![j] = c] \in Seq(W)
         /\ Len([whole EXCEPT ![j] = c]) = Len(whole)
         /\ \A i \in 1..Len(whole) : [whole EXCEPT ![j] = c][i] = IF i = j THEN c ELSE whole[i]
<1>1. c \in W /\ V \subseteq W
  OBVIOUS
<1>2. whole \in Seq(W)
  BY <1>1, SequenceGrows
<1> QED BY <1>1, <1>2, ExceptSeq

LEMMA WrongCell ==
  ASSUME NEW V, NEW whole \in Seq(V), NEW w, Headed(whole, Superblock(w)),
         HeadSays(Superblock(w), w, Len(whole)),
         \A T \in {StringTable(w), ExtentTable(w), ExpertIndex(w), ChecksumTable(w),
                   SectionTable(w)} : T \in Seq(V),
         NEW j \in 1..Len(whole), j > 18, NEW file, file = [whole EXCEPT ![j] = Damaged],
         SuperblockAccepted(file), TablesInBounds(file), RootMatches(file), Len(whole) >= 18
  PROVE  TablesRead(file, w)
<1> DEFINE W == V \union {Damaged}
<1>1. /\ file \in Seq(W) /\ Len(file) = Len(whole)
      /\ \A i \in 1..Len(whole) : file[i] = IF i = j THEN Damaged ELSE whole[i]
  <2> HIDE DEF W
  <2>1. W = V \union {Damaged}
    BY DEF W
  <2> QED BY <2>1, CellChanged
<1>2. \A i \in 1..18 : i \in 1..Len(whole) /\ i # j
  BY LenProperties
<1>3. Headed(file, Superblock(w))
  BY <1>1, <1>2 DEF Headed
<1>4. V \subseteq W
  OBVIOUS
<1>5. \A T \in {StringTable(w), ExtentTable(w), ExpertIndex(w), ChecksumTable(w),
                SectionTable(w)} : T \in Seq(W)
  <2> HIDE DEF W
  <2>1. \A T \in Seq(V) : T \in Seq(W)
    BY <1>4, SequenceGrows
  <2> QED BY <2>1
<1> HIDE DEF W
<1> QED BY <1>1, <1>3, <1>5, HeadKept

LEMMA WrongHead ==
  ASSUME NEW V, NEW whole \in Seq(V), NEW w, Headed(whole, Superblock(w)),
         HeadSays(Superblock(w), w, Len(whole)), Len(SectionTable(w)) > 0,
         \A T \in {StringTable(w), ExtentTable(w), ExpertIndex(w), ChecksumTable(w),
                   SectionTable(w)} : T \in Seq(V),
         NEW j \in 1..18, NEW cell \in WrongField(whole[j]),
         NEW file, file = [whole EXCEPT ![j] = cell],
         SuperblockAccepted(file), TablesInBounds(file), RootMatches(file), Len(whole) >= 18
  PROVE  TablesRead(file, w)
<1> DEFINE W == V \union {cell}
           b == Superblock(w)
           name == Fields[j]
<1>1. j \in 1..Len(whole) /\ \A i \in 1..18 : i \in 1..Len(whole)
  BY LenProperties
<1>2. /\ file \in Seq(W) /\ Len(file) = Len(whole)
      /\ \A i \in 1..Len(whole) : file[i] = IF i = j THEN cell ELSE whole[i]
  <2> HIDE DEF W, b, name
  <2>1. W = V \union {cell}
    BY DEF W
  <2>2. j \in 1..Len(whole)
    BY <1>1
  <2> QED BY <2>1, <2>2, CellChanged
<1>3. V \subseteq W
  OBVIOUS
<1>4. \A T \in {StringTable(w), ExtentTable(w), ExpertIndex(w), ChecksumTable(w),
                SectionTable(w)} : T \in Seq(W)
  <2> HIDE DEF W
  <2>1. \A T \in Seq(V) : T \in Seq(W)
    BY <1>3, SequenceGrows
  <2> QED BY <2>1
<1> HIDE DEF W
<1>5. whole[j] = <<"field", name, b[name]>> /\ name \in FieldNames
  BY DEF Headed, FieldNames
<1>6. name \in Numbers => b[name] \in Nat
  <2>1. b["length"] \in Nat /\ \A x \in Offsets \union Counts : b[x] \in Nat
    BY LenProperties DEF HeadSays
  <2> HIDE DEF name, b
  <2>2. Numbers = {"length"} \union Offsets \union Counts
    BY TheFields
  <2> QED BY <2>1, <2>2
<1>7. \A i \in 1..18 : whole[i] = <<"field", Fields[i], b[Fields[i]]>>
  BY DEF Headed
<1>8. \A i \in 1..18 : Fields[i] = name => i = j
  BY TheFields
<1>9. \A i \in 1..18 : Fields[i] \in FieldNames
  BY DEF FieldNames
<1> HIDE DEF name
<1>10. PICK v : /\ cell = <<"field", name, v>>
                /\ name \in Numbers => v \in Nat /\ v # b[name]
                /\ name \notin Numbers => v = IF name = "root" THEN <<>> ELSE "other"
  <2> HIDE DEF b
  <2>1. cell \in WrongField(<<"field", name, b[name]>>)
    BY <1>5
  <2> QED BY <1>6, <2>1, WrongFieldIs
<1> DEFINE g == [x \in FieldNames |-> IF x = name THEN v ELSE b[x]]
<1>11. \A x \in FieldNames : g[x] = IF x = name THEN v ELSE b[x]
  OBVIOUS
<1> HIDE DEF g
<1>12. ASSUME NEW i \in 1..18 PROVE file[i] = <<"field", Fields[i], g[Fields[i]]>>
  <2> HIDE DEF b
  <2>1. CASE i = j
    <3>1. file[i] = cell /\ Fields[i] = name
      BY <1>1, <1>2, <2>1 DEF name
    <3>2. g[name] = v
      BY <1>5, <1>11
    <3> QED BY <1>10, <3>1, <3>2
  <2>2. CASE i # j
    <3>1. file[i] = whole[i] /\ Fields[i] # name
      BY <1>1, <1>2, <1>8, <2>2
    <3>2. g[Fields[i]] = b[Fields[i]]
      BY <1>9, <1>11, <3>1
    <3> QED BY <1>7, <3>1, <3>2
  <2> QED BY <2>1, <2>2
<1>13. FieldsSay(file, g)
  <2>1. Headed(file, g)
    BY <1>12 DEF Headed
  <2> QED BY <2>1, SaysOfHead
<1>14. Altered(b, name, v, g)
  <2> HIDE DEF b
  <2> QED BY <1>5, <1>10, <1>11 DEF Altered
<1> QED BY <1>2, <1>4, <1>13, <1>14, FieldChanged

(* A file of another length is refused.                                    *)
LEMMA WrongLength ==
  ASSUME NEW file, NEW superblock, Headed(file, superblock), SuperblockAccepted(file)
  PROVE  Len(file) = superblock["length"]
<1>1. "length" \in FieldNames
  BY TheFields
<1> QED BY <1>1, FieldIs DEF SuperblockAccepted

(* A wrong file that opens has the tables that were written.               *)
LEMMA DamageSeen ==
  ASSUME NEW V, NEW whole \in Seq(V), NEW w, Headed(whole, Superblock(w)),
         HeadSays(Superblock(w), w, Len(whole)), Len(SectionTable(w)) > 0,
         \A T \in {StringTable(w), ExtentTable(w), ExpertIndex(w), ChecksumTable(w),
                   SectionTable(w)} : T \in Seq(V),
         SuperblockSize \in Nat, SuperblockSize >= 18, Len(whole) >= SuperblockSize,
         NEW file \in WrongFiles(whole), Open(file).ok
  PROVE  TablesRead(file, w)
<1>1. SuperblockAccepted(file) /\ TablesInBounds(file) /\ RootMatches(file)
  BY OpenedIs
<1>2. Len(whole) \in Nat /\ Len(whole) >= 18
  BY LenProperties
<1>3. Len(Fields) = 18 /\ DOMAIN Fields = 1..18
  BY EighteenFields
<1>4. Superblock(w)["length"] = Len(whole)
  BY DEF HeadSays
<1>5. \/ \E i \in 19..Len(whole) : file = [whole EXCEPT ![i] = Damaged]
      \/ \E i \in 1..18 : \E cell \in WrongField(whole[i]) : file = [whole EXCEPT ![i] = cell]
      \/ \E n \in 0..(Len(whole) - 1) : file = SubSeq(whole, 1, n)
      \/ file = Append(whole, Damaged)
  <2>1. \/ file \in {[whole EXCEPT ![i] = Damaged] : i \in (Len(Fields) + 1)..Len(whole)}
        \/ file \in UNION {{[whole EXCEPT ![i] = cell] : cell \in WrongField(whole[i])} : i \in DOMAIN Fields}
        \/ file \in {SubSeq(whole, 1, n) : n \in 0..(Len(whole) - 1)}
        \/ file \in {Append(whole, Damaged)}
    BY DEF WrongFiles
  <2>2. Len(Fields) + 1 = 19
    BY <1>3
  <2> QED BY <1>3, <2>1, <2>2
<1>6. ASSUME NEW i \in 19..Len(whole), file = [whole EXCEPT ![i] = Damaged] PROVE TablesRead(file, w)
  <2>1. i \in 1..Len(whole) /\ i > 18
    BY <1>2
  <2> QED BY <1>1, <1>2, <1>6, <2>1, WrongCell
<1>7. ASSUME NEW i \in 1..18, NEW cell \in WrongField(whole[i]), file = [whole EXCEPT ![i] = cell]
      PROVE  TablesRead(file, w)
  BY <1>1, <1>2, <1>7, WrongHead
<1>8. ASSUME NEW n \in 0..(Len(whole) - 1), file = SubSeq(whole, 1, n) PROVE FALSE
  <2>1. n \in Nat /\ n < Len(whole) /\ 1 \in 1..(Len(whole) + 1) /\ n \in (1 - 1)..Len(whole)
    BY <1>2
  <2>2. Len(file) = n - 1 + 1 /\ \A i \in 1..(n - 1 + 1) : file[i] = whole[1 + i - 1]
    BY <1>8, <2>1, CutFacts
  <2>3. Len(file) = n /\ \A i \in 1..n : file[i] = whole[i]
    BY <2>1, <2>2
  <2>4. n >= 18
    BY <1>1, <2>1, <2>3 DEF SuperblockAccepted
  <2>5. \A i \in 1..18 : i \in 1..n
    BY <2>1, <2>4
  <2>6. Headed(file, Superblock(w))
    BY <2>3, <2>5 DEF Headed
  <2>7. Len(file) = Len(whole)
    BY <1>1, <1>4, <2>6, WrongLength
  <2> QED BY <2>1, <2>3, <2>7
<1>9. ASSUME file = Append(whole, Damaged) PROVE FALSE
  <2> DEFINE W == V \union {Damaged}
  <2>1. V \subseteq W /\ Damaged \in W
    OBVIOUS
  <2> HIDE DEF W
  <2>2. whole \in Seq(W)
    BY <2>1, SequenceGrows
  <2>3. Len(file) = Len(whole) + 1 /\ \A i \in 1..Len(whole) : file[i] = whole[i]
    BY <1>9, <2>1, <2>2, AppendFacts
  <2>4. \A i \in 1..18 : i \in 1..Len(whole)
    BY <1>2
  <2>5. Headed(file, Superblock(w))
    BY <2>3, <2>4 DEF Headed
  <2>6. Len(file) = Len(whole)
    BY <1>1, <1>4, <2>5, WrongLength
  <2> QED BY <1>2, <2>3, <2>6
<1> QED BY <1>5, <1>6, <1>7, <1>8, <1>9

(* One wrong cell anywhere in a container, one wrong field of its          *)
(* superblock, a cut anywhere or an addition: TqfReader refuses to open    *)
(* the file, or whatever a read of it still gives is what was written --   *)
(* for every plan of tensors and experts.                                  *)
THEOREM DamageIsNoticed ==
  ASSUME Sizes, NEW Payload, NEW items, IsPlan(Payload, items), IsReadable(items)
  PROVE  NoticesDamage(items)
<1>1. PICK V, u, r : Committed(V, items, u, r)
  BY CommitLeaves
<1> DEFINE whole == Uninterrupted(items)
           kept == Books(u[Len(items)])
<1>2. Entered(whole, kept, items) /\ BooksOk(kept)
  BY <1>1, CommittedEntries
<1>3. /\ Headed(whole, Superblock(kept)) /\ SuperblockSize >= 18 /\ SuperblockSize \in Nat
      /\ whole \in Seq(V) /\ Len(whole) >= SuperblockSize
      /\ \A T \in {StringTable(kept), ExtentTable(kept), ExpertIndex(kept), ChecksumTable(kept),
                   SectionTable(kept)} : T \in Seq(V)
      /\ TablesStand(whole, kept, SuperblockSize)
  BY <1>1, CommittedReads
<1>4. IsPlan(V, items)
  BY <1>1 DEF Committed
<1> HIDE DEF whole, kept
<1>5. HeadSays(Superblock(kept), kept, Len(whole))
  BY <1>3, HeadOfStanding
<1>6. Len(SectionTable(kept)) > 0
  BY <1>2, CountDecodes
<1>7. ASSUME NEW file \in WrongFiles(whole), Open(file).ok, NEW item \in ToSet(items)
      PROVE  ReadsOnly(file, Open(file), item)
  <2>1. TablesRead(file, kept)
    BY <1>3, <1>5, <1>6, <1>7, DamageSeen
  <2>2. ReaderOf(Open(file), kept)
    <3>1. ReaderOf(Tables(file), kept)
      BY <1>2, <2>1, TablesDecode
    <3> QED BY <1>7, <3>1, OpenedIs
  <2>3. CASE item.kind = "extent"
    BY <1>2, <1>3, <1>4, <2>2, <2>3, ExtentReads
  <2>4. CASE item.kind # "extent"
    BY <1>2, <1>3, <1>4, <2>2, <2>4, ExpertReads
  <2> QED BY <2>3, <2>4
<1> QED BY <1>7 DEF NoticesDamage, whole
=============================================================================
