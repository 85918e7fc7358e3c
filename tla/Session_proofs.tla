---------------------------- MODULE Session_proofs ---------------------------
(***************************************************************************)
(* Sessions that are decoded, reset, restarted, snapshotted and restored,  *)
(* for any tokens, texts, layers, backends and numbers: the recurrent states *)
(* first, then the sealed pages of the attention layers, and what both make *)
(* of a session.                                                           *)
(***************************************************************************)
EXTENDS Session, Lemmas

-----------------------------------------------------------------------------
(***************************************************************************)
(* The recurrent states, the convolution windows and the positions of a    *)
(* session are those of its history, and a snapshot is as sound as the     *)
(* session it was taken of.                                                *)
(***************************************************************************)
LEMMA SessionSizes ==
  /\ ConvTaps \in Nat /\ LayerKinds \in Seq({"gdn", "full"}) /\ Len(LayerKinds) \in Nat
  /\ Beyond = Len(LayerKinds) + 1
  /\ LayerIds = 1..Len(LayerKinds)
  /\ AttentionLayers \subseteq LayerIds /\ GdnLayers \subseteq LayerIds
BY SessionAssumption, LenProperties DEF LayerIds, AttentionLayers, GdnLayers, Beyond

(* ConvTailState::step keeps the window at the end of what was absorbed.   *)
LEMMA WindowSlides ==
  ASSUME NEW tokens \in Seq(Tokens), NEW next \in Tokens
  PROVE  Slide(Window(tokens), next) = Window(Append(tokens, next))
<1> DEFINE w == Window(tokens)
           grown == Append(tokens, next)
           Cell == Tokens \cup {0}
<1>1. /\ ConvTaps \in Nat /\ Len(tokens) \in Nat /\ Len(grown) = Len(tokens) + 1
      /\ grown[Len(tokens) + 1] = next
      /\ \A i \in 1..Len(tokens) : grown[i] = tokens[i] /\ tokens[i] \in Tokens
  BY SessionSizes, LenProperties, AppendProperties
<1>2. w \in Seq(Cell) /\ Len(w) = ConvTaps
  <2>1. \A i \in 1..ConvTaps : w[i] \in Cell
    BY <1>1 DEF Window
  <2>2. w = [i \in 1..ConvTaps |-> w[i]]
    BY DEF Window
  <2> HIDE DEF w
  <2> QED BY <1>1, <2>1, <2>2
<1>3. /\ Append(w, next) \in Seq(Cell) /\ Append(w, next) # <<>>
      /\ Len(Append(w, next)) = ConvTaps + 1
      /\ \A i \in 1..ConvTaps : Append(w, next)[i] = w[i]
      /\ Append(w, next)[ConvTaps + 1] = next
  <2> HIDE DEF w
  <2>1. next \in Cell
    OBVIOUS
  <2> QED BY <1>2, <2>1, AppendProperties
<1>4. Tail(Append(w, next)) = [i \in 1..ConvTaps |-> Append(w, next)[i + 1]]
  <2> DEFINE a == Append(w, next)
  <2>1. a \in Seq(Cell) /\ Len(a) = ConvTaps + 1 /\ a # <<>>
    BY <1>3
  <2>2. Tail(a) \in Seq(Cell) /\ Len(Tail(a)) = ConvTaps /\ \A i \in 1..ConvTaps : Tail(a)[i] = a[i + 1]
    <3> HIDE DEF a
    <3> QED BY <1>1, <2>1, HeadTailProperties
  <2> HIDE DEF a
  <2>3. Tail(a) = [i \in 1..ConvTaps |-> a[i + 1]]
    BY <2>2, LenProperties
  <2> QED BY <2>3 DEF a
<1>5. ASSUME NEW i \in 1..ConvTaps PROVE Append(w, next)[i + 1] = Window(grown)[i]
  <2>1. Window(grown)[i] =
          IF Len(tokens) + 1 + i <= ConvTaps THEN 0 ELSE grown[Len(tokens) + 1 - ConvTaps + i]
    BY <1>1 DEF Window
  <2>2. CASE i = ConvTaps
    <3>1. ~(Len(tokens) + 1 + i <= ConvTaps) /\ Len(tokens) + 1 - ConvTaps + i = Len(tokens) + 1
      BY <1>1, <2>2
    <3> HIDE DEF w, grown
    <3> QED BY <1>1, <1>3, <2>1, <2>2, <3>1
  <2>3. CASE i # ConvTaps
    <3>1. i + 1 \in 1..ConvTaps
      BY <1>1, <2>3
    <3>2. w[i + 1] = IF Len(tokens) + (i + 1) <= ConvTaps THEN 0
                     ELSE tokens[Len(tokens) - ConvTaps + (i + 1)]
      BY <3>1 DEF Window
    <3>3. Append(w, next)[i + 1] = w[i + 1]
      BY <1>3, <3>1
    <3>4. CASE Len(tokens) + 1 + i <= ConvTaps
      <4>1. Len(tokens) + (i + 1) <= ConvTaps
        BY <1>1, <3>4
      <4> QED BY <2>1, <3>2, <3>3, <3>4, <4>1
    <3>5. CASE ~(Len(tokens) + 1 + i <= ConvTaps)
      <4>1. /\ ~(Len(tokens) + (i + 1) <= ConvTaps)
            /\ Len(tokens) - ConvTaps + (i + 1) \in 1..Len(tokens)
            /\ Len(tokens) + 1 - ConvTaps + i = Len(tokens) - ConvTaps + (i + 1)
        BY <1>1, <2>3, <3>5
      <4>2. grown[Len(tokens) + 1 - ConvTaps + i] = tokens[Len(tokens) - ConvTaps + (i + 1)]
        BY <1>1, <4>1
      <4> QED BY <2>1, <3>2, <3>3, <3>5, <4>1, <4>2
    <3> QED BY <3>4, <3>5
  <2> QED BY <2>2, <2>3
<1>6. Window(grown) = [i \in 1..ConvTaps |-> Window(grown)[i]]
  BY DEF Window
<1>7. Tail(Append(w, next)) = Window(grown)
  <2> HIDE DEF w, grown
  <2> QED BY <1>4, <1>5, <1>6
<1> QED BY <1>7 DEF Slide

LEMMA NothingYet == <<>> \in Seq(Tokens) /\ Len(<<>>) = 0 /\ Window(<<>>) = Padding
<1>1. <<>> \in Seq(Tokens) /\ Len(<<>>) = 0
  BY EmptySeq
<1>2. \A i \in 1..ConvTaps : 0 + i <= ConvTaps
  BY SessionSizes
<1> QED BY <1>1, <1>2 DEF Window, Padding

LEMMA StatesInit == SessionInit => StatesIInv
<1> SUFFICES ASSUME SessionInit PROVE StatesIInv
  OBVIOUS
<1>1. history = <<>> /\ snapshots = <<>> /\ nextIndex = 0
  BY DEF SessionInit
<1>2. StatesAreTheHistory /\ history \in Seq(Tokens)
  BY <1>1, NothingYet DEF SessionInit, StatesAreTheHistory
<1>3. DOMAIN snapshots = {}
  BY <1>1
<1>4. position \in [AttentionLayers -> Nat] /\ DOMAIN rec = GdnLayers /\ DOMAIN conv = GdnLayers
  BY DEF SessionInit
<1> QED BY <1>2, <1>3, <1>4 DEF StatesIInv

(* An empty session is one whose history is empty.                         *)
LEMMA StatesEmpty == StatesIInv /\ EmptySession /\ UNCHANGED snapshots => StatesIInv'
<1> SUFFICES ASSUME StatesIInv, EmptySession, UNCHANGED snapshots PROVE StatesIInv'
  OBVIOUS
<1>1. history' = <<>> /\ nextIndex' = 0
  BY DEF EmptySession
<1>2. StatesAreTheHistory' /\ history' \in Seq(Tokens)
  BY <1>1, NothingYet DEF EmptySession, StatesAreTheHistory
<1>3. position' \in [AttentionLayers -> Nat] /\ DOMAIN rec' = GdnLayers /\ DOMAIN conv' = GdnLayers
  BY DEF EmptySession
<1> QED BY <1>2, <1>3 DEF StatesIInv

(* A token that went through every layer, and one that went through none,  *)
(* leave a clean session; after any other the session is not clean.        *)
LEMMA StatesDecode ==
  ASSUME StatesIInv, NEW next \in Tokens, NEW depth \in 1..Beyond, NEW stage \in Stages,
         Decode(next, depth, stage)
  PROVE  StatesIInv'
<1>1. /\ history \in Seq(Tokens) /\ position \in [AttentionLayers -> Nat]
      /\ StatesAreTheHistory /\ clean
      /\ UNCHANGED snapshots
      /\ stage = "done" => depth = Beyond
      /\ stage = "convolved" => depth \in GdnLayers
      /\ position' = [l \in AttentionLayers |-> position[l] + (IF l < depth THEN 1 ELSE 0)]
      /\ conv' = [l \in GdnLayers |->
           IF l < depth \/ (l = depth /\ stage = "convolved") THEN Slide(conv[l], next) ELSE conv[l]]
      /\ rec' = [l \in GdnLayers |-> IF l < depth THEN Append(rec[l], next) ELSE rec[l]]
      /\ IF stage = "done"
         THEN nextIndex' = nextIndex + 1 /\ history' = Append(history, next)
         ELSE UNCHANGED <<nextIndex, history>>
      /\ clean' = (stage = "done" \/ (depth = 1 /\ stage = "before"))
  BY DEF StatesIInv, Decode, store
<1>2. /\ nextIndex = Len(history) /\ Len(history) \in Nat
      /\ \A l \in AttentionLayers : position[l] = Len(history)
      /\ \A l \in GdnLayers : rec[l] = history /\ conv[l] = Window(history)
  BY <1>1, LenProperties DEF StatesAreTheHistory
<1>3. /\ Append(history, next) \in Seq(Tokens) /\ Len(Append(history, next)) = Len(history) + 1
      /\ Slide(Window(history), next) = Window(Append(history, next))
  BY <1>1, AppendProperties, WindowSlides
<1>4. history' \in Seq(Tokens)
  BY <1>1, <1>3
<1>5. position' \in [AttentionLayers -> Nat]
  BY <1>1
<1>6. StatesAreTheHistory'
  <2>1. CASE stage = "done"
    <3>1. \A l \in AttentionLayers \cup GdnLayers : l < depth
      BY <1>1, <2>1, SessionSizes
    <3> QED BY <1>1, <1>2, <1>3, <2>1, <3>1 DEF StatesAreTheHistory
  <2>2. CASE depth = 1 /\ stage = "before"
    <3>1. \A l \in AttentionLayers \cup GdnLayers : ~(l < depth)
      BY <2>2, SessionSizes
    <3>2. stage # "done" /\ stage # "convolved"
      BY <2>2
    <3>3. /\ \A l \in AttentionLayers : position'[l] = Len(history) + 0
          /\ \A l \in GdnLayers : rec'[l] = history /\ conv'[l] = Window(history)
      BY <1>1, <1>2, <3>1, <3>2
    <3>4. /\ \A l \in AttentionLayers : position'[l] = Len(history')
          /\ nextIndex' = Len(history') /\ history' = history
      BY <1>1, <1>2, <3>2, <3>3
    <3> QED BY <3>3, <3>4 DEF StatesAreTheHistory
  <2>3. CASE ~(stage = "done" \/ (depth = 1 /\ stage = "before"))
    BY <1>1, <2>3 DEF StatesAreTheHistory
  <2> QED BY <2>1, <2>2, <2>3
<1> QED BY <1>1, <1>4, <1>5, <1>6 DEF StatesIInv

LEMMA StatesSnapshot == StatesIInv /\ Snapshot => StatesIInv'
<1> SUFFICES ASSUME StatesIInv, Snapshot PROVE StatesIInv'
  OBVIOUS
<1>1. /\ clean /\ UNCHANGED <<session, history, clean>>
      /\ snapshots' = [h \in DOMAIN snapshots \cup {history} |->
                         IF h = history THEN Capture ELSE snapshots[h]]
  BY DEF Snapshot
<1>2. StatesAreTheHistory /\ history \in Seq(Tokens)
  BY DEF StatesIInv
<1>3. StatesAreTheHistory'
  BY <1>1, <1>2 DEF StatesAreTheHistory, session
<1>4. /\ Capture.count = Len(history)
      /\ Capture.full = <<>> \/ \A l \in AttentionLayers :
                                 l \in DOMAIN Capture.full /\ Capture.full[l].position = Len(history)
      /\ \A l \in GdnLayers : Capture.gdn[l].rec = history /\ Capture.gdn[l].conv = Window(history)
  <2>1. /\ \A l \in AttentionLayers : position[l] = Len(history)
        /\ \A l \in GdnLayers : rec[l] = history /\ conv[l] = Window(history)
    BY <1>1, <1>2 DEF StatesAreTheHistory
  <2>2. Capture.count = Len(history)
    BY DEF Capture
  <2>3. Capture.gdn = [l \in GdnLayers |-> [conv |-> conv[l], rec |-> rec[l]]]
    BY DEF Capture
  <2>4. Capture.full = IF backend = "bf16" THEN <<>>
            ELSE [l \in AttentionLayers |->
                    [ids |-> [i \in DOMAIN kv[l].sealed |-> ContentId(kv[l].sealed[i])],
                     tail |-> kv[l].tail, position |-> position[l]]]
    BY DEF Capture
  <2> QED BY <2>1, <2>2, <2>3, <2>4
<1>5. ASSUME NEW tokens \in DOMAIN snapshots'
      PROVE  /\ tokens \in Seq(Tokens) /\ snapshots'[tokens].count = Len(tokens)
             /\ \/ snapshots'[tokens].full = <<>>
                \/ \A l \in AttentionLayers :
                     /\ l \in DOMAIN snapshots'[tokens].full
                     /\ snapshots'[tokens].full[l].position = Len(tokens)
             /\ \A l \in GdnLayers : /\ snapshots'[tokens].gdn[l].rec = tokens
                                     /\ snapshots'[tokens].gdn[l].conv = Window(tokens)
  <2>1. CASE tokens = history
    <3>1. snapshots'[tokens] = Capture
      BY <1>1, <1>5, <2>1
    <3> QED BY <1>2, <1>4, <2>1, <3>1
  <2>2. CASE tokens # history
    <3>1. tokens \in DOMAIN snapshots /\ snapshots'[tokens] = snapshots[tokens]
      BY <1>1, <1>5, <2>2
    <3> QED BY <3>1 DEF StatesIInv
  <2> QED BY <2>1, <2>2
<1>6. /\ history' \in Seq(Tokens) /\ position' \in [AttentionLayers -> Nat]
      /\ DOMAIN rec' = GdnLayers /\ DOMAIN conv' = GdnLayers
  BY <1>1 DEF StatesIInv, session
<1> QED BY <1>3, <1>5, <1>6 DEF StatesIInv

LEMMA StatesRestore ==
  ASSUME StatesIInv, NEW tokens \in DOMAIN snapshots, RestoreHit(tokens)
  PROVE  StatesIInv'
<1> DEFINE s == snapshots[tokens]
<1>1. /\ tokens \in Seq(Tokens) /\ s.count = Len(tokens)
      /\ s.full = <<>> \/ \A l \in AttentionLayers :
                            l \in DOMAIN s.full /\ s.full[l].position = Len(tokens)
      /\ \A l \in GdnLayers : s.gdn[l].rec = tokens /\ s.gdn[l].conv = Window(tokens)
  BY DEF StatesIInv
<1>2. UNCHANGED snapshots /\ Len(tokens) \in Nat
  BY <1>1, LenProperties DEF RestoreHit, store
<1>3. CASE UNCHANGED <<session, history, clean>>
  BY <1>2, <1>3 DEF StatesIInv, StatesAreTheHistory, session
<1>4. CASE /\ position' = [l \in AttentionLayers |->
                IF l \in DOMAIN s.full THEN s.full[l].position ELSE position[l]]
           /\ conv' = [l \in GdnLayers |-> s.gdn[l].conv]
           /\ rec' = [l \in GdnLayers |-> s.gdn[l].rec]
           /\ nextIndex' = s.count
           /\ history' = tokens /\ clean' = (s.full # <<>>)
  <2> HIDE DEF s
  <2>1. s.full # <<>> => \A l \in AttentionLayers : position'[l] = Len(tokens)
    BY <1>1, <1>4
  <2>2. StatesAreTheHistory'
    BY <1>1, <1>4, <2>1 DEF StatesAreTheHistory
  <2>3. position' \in [AttentionLayers -> Nat]
    <3>1. CASE s.full # <<>>
      BY <1>2, <1>4, <2>1, <3>1
    <3>2. CASE s.full = <<>>
      <4>1. DOMAIN s.full = {}
        BY <3>2
      <4>2. position' = [l \in AttentionLayers |-> position[l]]
        BY <1>4, <4>1
      <4> QED BY <4>2 DEF StatesIInv
    <3> QED BY <3>1, <3>2
  <2>4. history' \in Seq(Tokens) /\ DOMAIN rec' = GdnLayers /\ DOMAIN conv' = GdnLayers
    BY <1>1, <1>4
  <2> QED BY <1>2, <2>2, <2>3, <2>4 DEF StatesIInv
<1> QED BY <1>3, <1>4 DEF RestoreHit

LEMMA StatesStep == StatesIInv /\ [SessionNext]_sessionVars => StatesIInv'
<1> SUFFICES ASSUME StatesIInv, [SessionNext]_sessionVars PROVE StatesIInv'
  OBVIOUS
<1>1. CASE UNCHANGED <<session, store, history, clean>>
  BY <1>1 DEF StatesIInv, StatesAreTheHistory, session, store
<1>2. CASE \E next \in Tokens, depth \in 1..Beyond, stage \in Stages : Decode(next, depth, stage)
  BY <1>2, StatesDecode
<1>3. CASE Reset \/ \E b \in Backends, c \in Capacities : Restart(b, c)
  BY <1>3, StatesEmpty DEF Reset, Restart, store
<1>4. CASE Snapshot
  BY <1>4, StatesSnapshot
<1>5. ASSUME NEW tokens \in DOMAIN snapshots \cup {<<>>},
             RestoreMiss(tokens) \/ RestoreUnreadable(tokens) \/ RestoreHit(tokens)
      PROVE  StatesIInv'
  <2>1. CASE RestoreMiss(tokens) \/ RestoreUnreadable(tokens)
    BY <1>1, <2>1 DEF RestoreMiss, RestoreUnreadable
  <2>2. CASE RestoreHit(tokens)
    BY <2>2, StatesRestore DEF RestoreHit
  <2> QED BY <1>5, <2>1, <2>2
<1>6. CASE UNCHANGED sessionVars
  BY <1>1, <1>6 DEF sessionVars
<1> QED BY <1>2, <1>3, <1>4, <1>5, <1>6 DEF SessionNext

(* The recurrent states, the positions and the decode index of a session   *)
(* are those of its tokens, however it was stored, restored, restarted and *)
(* cut short by errors (runtime.rs:620-716, gdn.rs).                       *)
THEOREM SessionStates == SessionSpec => []StatesAreTheHistory
<1>1. SessionSpec => []StatesIInv
  BY StatesInit, StatesStep, PTL DEF SessionSpec
<1>2. StatesIInv => StatesAreTheHistory
  BY DEF StatesIInv
<1> QED BY <1>1, <1>2, PTL

(* A restoration that misses or fails leaves the session alone.            *)
THEOREM RestoresAreAtomic == SessionSpec => FailedRestoreChangesNothing
<1>1. ASSUME [SessionNext]_sessionVars
      PROVE  [result' \in {"miss", "unrestored"} => UNCHANGED <<session, history>>]_sessionVars
  <2> SUFFICES ASSUME SessionNext, result' \in {"miss", "unrestored"}
               PROVE  UNCHANGED <<session, history>>
    BY <1>1
  <2>1. CASE \E next \in Tokens, depth \in 1..Beyond, stage \in Stages : Decode(next, depth, stage)
    BY <2>1 DEF Decode
  <2>2. CASE Reset \/ Snapshot \/ \E b \in Backends, c \in Capacities : Restart(b, c)
    BY <2>2 DEF Reset, Snapshot, Restart
  <2>3. ASSUME NEW tokens \in DOMAIN snapshots \cup {<<>>},
               RestoreMiss(tokens) \/ RestoreUnreadable(tokens)
        PROVE  UNCHANGED <<session, history>>
    BY <2>3 DEF RestoreMiss, RestoreUnreadable
  <2>4. ASSUME NEW tokens \in DOMAIN snapshots \cup {<<>>}, RestoreHit(tokens)
        PROVE  UNCHANGED <<session, history>>
    BY <2>4 DEF RestoreHit
  <2> QED BY <2>1, <2>2, <2>3, <2>4 DEF SessionNext
<1> QED BY <1>1, PTL DEF SessionSpec, FailedRestoreChangesNothing

-----------------------------------------------------------------------------
(***************************************************************************)
(* A page of PageTokens tokens: the scales cover its numbers, the codes are *)
(* packed and unpacked without loss, and every number is read within half a *)
(* step of what was written, from the page that was sealed and from the one *)
(* that from_bytes makes of its bytes.                                     *)
(***************************************************************************)
(* A maximum and a minimum over finitely many numbers.                     *)
LEMMA LargestOf ==
  ASSUME NEW n \in Nat \ {0}, NEW f, \A i \in 1..n : f[i] \in Int
  PROVE  /\ Largest({f[i] : i \in 1..n}) \in {f[i] : i \in 1..n}
         /\ \A i \in 1..n : f[i] <= Largest({f[j] : j \in 1..n})
<1> DEFINE S == {k \in 0..(n - 1) : \E m \in 1..(k + 1) : \A i \in 1..(k + 1) : f[i] <= f[m]}
<1>1. 0 \in S
  OBVIOUS
<1>2. ASSUME NEW k \in 0..((n - 1) - 1), k \in S PROVE k + 1 \in S
  <2>1. PICK m \in 1..(k + 1) : \A i \in 1..(k + 1) : f[i] <= f[m]
    BY <1>2
  <2>2. /\ k + 1 \in 0..(n - 1) /\ k + 2 \in 1..n /\ f[k + 2] \in Int /\ f[m] \in Int
        /\ 1..((k + 1) + 1) = 1..(k + 1) \cup {k + 2} /\ 1..(k + 1) \subseteq 1..n
    OBVIOUS
  <2>3. CASE f[k + 2] <= f[m]
    <3>1. \A i \in 1..((k + 1) + 1) : f[i] <= f[m]
      BY <2>1, <2>2, <2>3
    <3> QED BY <2>2, <3>1
  <2>4. CASE ~(f[k + 2] <= f[m])
    <3>1. \A i \in 1..((k + 1) + 1) : f[i] <= f[k + 2]
      BY <2>1, <2>2, <2>4
    <3> QED BY <2>2, <3>1
  <2> QED BY <2>3, <2>4
<1>3. n - 1 \in Nat /\ n - 1 \in 0..(n - 1) /\ (n - 1) + 1 = n
  OBVIOUS
<1>4. 0..(n - 1) \subseteq S
  <2> HIDE DEF S
  <2> QED BY <1>1, <1>2, <1>3, ClimbingTo
<1>5. PICK m \in 1..n : \A i \in 1..n : f[i] <= f[m]
  BY <1>3, <1>4
<1>6. f[m] \in {f[i] : i \in 1..n} /\ \A y \in {f[i] : i \in 1..n} : y <= f[m]
  BY <1>5
<1>7. /\ Largest({f[i] : i \in 1..n}) \in {f[i] : i \in 1..n}
      /\ \A y \in {f[i] : i \in 1..n} : y <= Largest({f[i] : i \in 1..n})
  BY <1>6 DEF Largest
<1> QED BY <1>7

LEMMA SmallestOf ==
  ASSUME NEW n \in Nat \ {0}, NEW f, \A i \in 1..n : f[i] \in Int
  PROVE  Smallest({f[i] : i \in 1..n}) \in {f[i] : i \in 1..n}
<1> DEFINE g == [i \in 1..n |-> -f[i]]
<1>1. \A i \in 1..n : g[i] \in Int
  OBVIOUS
<1>2. PICK m \in 1..n : g[m] = Largest({g[i] : i \in 1..n})
  <2> HIDE DEF g
  <2>1. Largest({g[i] : i \in 1..n}) \in {g[i] : i \in 1..n}
    BY <1>1, LargestOf
  <2> QED BY <2>1
<1>3. \A i \in 1..n : g[i] <= g[m]
  <2> HIDE DEF g
  <2> QED BY <1>1, <1>2, LargestOf
<1>4. \A i \in 1..n : f[m] <= f[i]
  <2>1. \A i \in 1..n : -f[i] <= -f[m] /\ f[i] \in Int /\ f[m] \in Int
    BY <1>3
  <2>2. \A a, b \in Int : -a <= -b => b <= a
    OBVIOUS
  <2> QED BY ONLY <2>1, <2>2
<1>5. f[m] \in {f[i] : i \in 1..n} /\ \A y \in {f[i] : i \in 1..n} : f[m] <= y
  BY <1>4
<1> QED BY <1>5 DEF Smallest

(* A rational q/d is rounded to the nearest integer, and the rounded one   *)
(* is not beyond any integer that the rational is not beyond.              *)
LEMMA NearestQuotient ==
  ASSUME NEW a \in Nat, NEW m \in Nat \ {0}, NEW c \in Nat, a <= m * c
  PROVE  LET q == (2 * a + m) \div (2 * m)
         IN  q \in Nat /\ q <= c /\ 2 * (q * m) <= 2 * a + m /\ 2 * a <= 2 * (q * m) + m
<1> DEFINE b == 2 * a + m
           d == 2 * m
           q == b \div d
           r == b % d
<1>1. b \in Nat /\ d \in Nat \ {0}
  OBVIOUS
<1>2. q \in Nat /\ b = d * q + r /\ r \in 0..(d - 1)
  <2> HIDE DEF b, d
  <2> QED BY <1>1, Division, QuotientIsNatural, RemainderIsLess
<1> HIDE DEF q, r
<1>3. q * m \in Nat /\ d * q = 2 * (q * m) /\ m * c \in Nat
  BY <1>2
<1>4. 2 * (q * m) <= 2 * a + m /\ 2 * a <= 2 * (q * m) + m
  BY <1>2, <1>3
<1>5. q <= c
  <2> SUFFICES ASSUME c < q PROVE FALSE
    BY <1>2
  <2>1. m * c + m <= m * q
    BY <1>2, ProductsGrow
  <2>2. m * q = q * m
    BY <1>2
  <2> QED BY <1>3, <1>4, <2>1, <2>2
<1> QED BY <1>2, <1>4, <1>5 DEF q

(* A number quantized by a scale that it does not exceed is within half a  *)
(* step of what its code decodes to.                                       *)
LEMMA QuantizesNear ==
  ASSUME NEW n \in Int, NEW m \in Nat, NEW c \in Nat \ {0}, Abs(n) <= m
  PROVE  LET scale == Scale(m, c)
             code  == Quantize(n, scale, c)
         IN  /\ scale \in (Nat \ {0}) \X (Nat \ {0}) /\ scale[2] <= c
             /\ code \in (-c)..c
             /\ 2 * Abs(code * scale[1] - n * scale[2]) <= m /\ (m > 0 => scale[2] = c)
<1>1. CASE m = 0
  <2>1. n = 0
    BY <1>1 DEF Abs
  <2>2. Scale(m, c) = <<1, 1>>
    BY <1>1 DEF Scale
  <2>3. (2 * 0 + 1) \div (2 * 1) = 0
    OBVIOUS
  <2>4. Quantize(0, <<1, 1>>, c) = 0
    <3>1. RoundDiv(0 * 1, 1) = 0
      BY <2>3 DEF RoundDiv, Abs
    <3> QED BY <3>1 DEF Quantize, Clamped
  <2>5. Abs(0 * 1 - 0 * 1) = 0
    BY DEF Abs
  <2> QED BY <1>1, <2>1, <2>2, <2>4, <2>5
<1>2. CASE m # 0
  <2> DEFINE a == Abs(n) * c
             q == (2 * a + m) \div (2 * m)
  <2>1. Scale(m, c) = <<m, c>> /\ m \in Nat \ {0}
    BY <1>2 DEF Scale
  <2>2. Abs(n) \in Nat /\ a \in Nat
    BY DEF Abs
  <2>3. a <= m * c
    BY <2>1, <2>2
  <2>4. q \in Nat /\ q <= c /\ 2 * (q * m) <= 2 * a + m /\ 2 * a <= 2 * (q * m) + m
    <3> HIDE DEF a
    <3> QED BY <2>1, <2>2, <2>3, NearestQuotient DEF q
  <2>5. Abs(n * c) = a /\ (n * c < 0 <=> n < 0) /\ n * c \in Int
    BY DEF Abs
  <2>6. RoundDiv(n * c, m) = IF n < 0 THEN -q ELSE q
    <3> HIDE DEF a
    <3> QED BY <2>5 DEF RoundDiv, q
  <2> HIDE DEF q
  <2>7. Quantize(n, Scale(m, c), c) = IF n < 0 THEN -q ELSE q
    BY <2>1, <2>4, <2>6 DEF Quantize, Clamped
  <2>8. 2 * Abs((IF n < 0 THEN -q ELSE q) * m - n * c) <= m
    <3>1. CASE n < 0
      <4>1. n * c = -a /\ (-q) * m = -(q * m) /\ q * m \in Nat
        BY <2>4, <3>1 DEF Abs
      <4> HIDE DEF a
      <4> QED BY <2>2, <2>4, <3>1, <4>1 DEF Abs
    <3>2. CASE ~(n < 0)
      <4>1. n * c = a /\ q * m \in Nat
        BY <2>4, <3>2 DEF Abs
      <4> HIDE DEF a
      <4> QED BY <2>2, <2>4, <3>2, <4>1 DEF Abs
    <3> QED BY <3>1, <3>2
  <2>9. (IF n < 0 THEN -q ELSE q) \in (-c)..c
    BY <2>4
  <2> QED BY <2>1, <2>7, <2>8, <2>9
<1> QED BY <1>1, <1>2

LEMMA CodesOfBytes ==
  ASSUME NEW code \in (-127)..127
  PROVE  code % 256 \in 0..255 /\ Signed(code % 256, 128) = code
<1>1. CASE code < 0
  <2>1. code % 256 = code + 256
    BY <1>1
  <2> QED BY <1>1, <2>1 DEF Signed
<1>2. CASE ~(code < 0)
  <2>1. code % 256 = code
    BY <1>2
  <2> QED BY <1>2, <2>1 DEF Signed
<1> QED BY <1>1, <1>2

LEMMA CodesOfHalves ==
  ASSUME NEW low \in (-7)..7, NEW high \in (-7)..7
  PROVE  LET byte == (low % 16) + 16 * (high % 16)
         IN  /\ byte \in 0..255
             /\ Signed(byte % 16, 8) = low /\ Signed(byte \div 16, 8) = high
<1> DEFINE a == low % 16
           b == high % 16
<1>1. a \in 0..15 /\ b \in 0..15 /\ Signed(a, 8) = low /\ Signed(b, 8) = high
  <2>1. \A x \in (-7)..7 : (x % 16) \in 0..15 /\ Signed(x % 16, 8) = x
    <3> SUFFICES ASSUME NEW x \in (-7)..7 PROVE (x % 16) \in 0..15 /\ Signed(x % 16, 8) = x
      OBVIOUS
    <3>1. CASE x < 0
      <4>1. x % 16 = x + 16
        BY <3>1
      <4> QED BY <3>1, <4>1 DEF Signed
    <3>2. CASE ~(x < 0)
      <4>1. x % 16 = x
        BY <3>2
      <4> QED BY <3>2, <4>1 DEF Signed
    <3> QED BY <3>1, <3>2
  <2> QED BY <2>1
<1> HIDE DEF a, b
<1>2. (a + 16 * b) % 16 = a /\ (a + 16 * b) \div 16 = b /\ (a + 16 * b) \in 0..255
  BY <1>1
<1> QED BY <1>1, <1>2 DEF a, b

(* What a page is made of.                                                 *)
LEMMA PageSizes ==
  /\ {KvHeads, HeadDim, ValueGroup, PageTokens, KvWidth, ValueGroups} \subseteq Nat \ {0}
  /\ KvWidth = KvHeads * HeadDim /\ HeadDim = ValueGroups * ValueGroup
  /\ KvWidth % 2 = 0
<1>1. /\ KvHeads \in Nat \ {0} /\ HeadDim \in Nat \ {0} /\ ValueGroup \in Nat \ {0}
      /\ PageTokens \in Nat \ {0} /\ HeadDim % ValueGroup = 0 /\ (KvHeads * HeadDim) % 2 = 0
  BY KvPagesAssumption
<1>2. KvWidth \in Nat \ {0} /\ KvWidth = KvHeads * HeadDim /\ KvWidth % 2 = 0
  BY <1>1 DEF KvWidth
<1>3. ValueGroups \in Nat /\ HeadDim = ValueGroup * ValueGroups
  <2>1. HeadDim \div ValueGroup \in Nat
    BY <1>1, QuotientIsNatural
  <2>2. HeadDim = ValueGroup * (HeadDim \div ValueGroup) + (HeadDim % ValueGroup)
    BY <1>1, Division
  <2> QED BY <1>1, <2>1, <2>2 DEF ValueGroups
<1>4. ValueGroups # 0 /\ HeadDim = ValueGroups * ValueGroup
  BY <1>1, <1>3
<1> QED BY <1>1, <1>2, <1>3, <1>4

AreCodes(codes, precision, n) ==
  LET c == ClampAbs[precision]
  IN  codes = [i \in 1..n |-> codes[i]] /\ \A i \in 1..n : codes[i] \in (-c)..c

ArePacked(bytes, codes, precision, n) ==
  /\ bytes \in Seq(0..255) /\ Len(bytes) = PackedBytes(precision, n)
  /\ PackedBytes(precision, n) \in Nat
  /\ \A i \in 1..n : UnpackCode(bytes, i - 1, precision) = codes[i]

(* pack_codes and unpack_codes.                                            *)
LEMMA CodesSurvive ==
  ASSUME NEW precision \in Precisions, NEW n \in Nat, NEW codes, AreCodes(codes, precision, n)
  PROVE  ArePacked(PackCodes(codes, precision), codes, precision, n)
<1> DEFINE c == ClampAbs[precision]
<1>0. codes = [i \in 1..n |-> codes[i]] /\ \A i \in 1..n : codes[i] \in (-c)..c
  BY DEF AreCodes
<1> DEFINE bytes == PackCodes(codes, precision)
<1>1. DOMAIN codes = 1..n /\ Len(codes) = n
  <2>1. DOMAIN codes = 1..n
    BY <1>0
  <2>2. codes \in Seq(Int)
    BY <1>0 DEF Precisions, ClampAbs
  <2> QED BY <2>1, <2>2, LenProperties
<1>2. CASE precision = "q8"
  <2>1. c = 127
    BY <1>2 DEF ClampAbs
  <2>2. bytes = [i \in 1..n |-> codes[i] % 256]
    BY <1>1, <1>2 DEF PackCodes
  <2>3. \A i \in 1..n : codes[i] % 256 \in 0..255 /\ Signed(codes[i] % 256, 128) = codes[i]
    BY <1>0, <2>1, CodesOfBytes
  <2>4. bytes \in Seq(0..255)
    <3>1. DOMAIN bytes = 1..n /\ \A i \in 1..n : bytes[i] \in 0..255
      <4> HIDE DEF bytes
      <4> QED BY <2>2, <2>3
    <3>2. bytes = [i \in 1..n |-> bytes[i]]
      BY <2>2
    <3> HIDE DEF bytes
    <3> QED BY <3>1, <3>2, FunctionIsSequenceOf
  <2>5. Len(bytes) = n
    <3> HIDE DEF bytes
    <3> QED BY <2>2, <2>4, LenProperties
  <2>6. PackedBytes(precision, n) = n
    BY <1>2 DEF PackedBytes
  <2>7. \A i \in 1..n : UnpackCode(bytes, i - 1, precision) = codes[i]
    <3> SUFFICES ASSUME NEW i \in 1..n PROVE UnpackCode(bytes, i - 1, precision) = codes[i]
      OBVIOUS
    <3>1. (i - 1) + 1 = i
      OBVIOUS
    <3>2. bytes[i] = codes[i] % 256
      BY <2>2
    <3> HIDE DEF bytes
    <3> QED BY <1>2, <2>3, <3>1, <3>2 DEF UnpackCode
  <2> QED BY <2>4, <2>5, <2>6, <2>7 DEF ArePacked
<1>3. CASE precision = "q4"
  <2> DEFINE half == (n + 1) \div 2
             byte(b) == (codes[2 * b - 1] % 16) + 16 * (IF 2 * b <= n THEN codes[2 * b] % 16 ELSE 0)
             high(b) == IF 2 * b <= n THEN codes[2 * b] ELSE 0
  <2>1. c = 7
    BY <1>3 DEF ClampAbs
  <2>2. half \in Nat /\ n <= 2 * half /\ 2 * half <= n + 1 /\ PackedBytes("q4", n) = half
    BY DEF PackedBytes
  <2>3. bytes = [b \in 1..half |-> byte(b)]
    BY <1>1, <1>3, <2>2 DEF PackCodes
  <2> HIDE DEF half
  <2>4. ASSUME NEW b \in 1..half
        PROVE  /\ byte(b) \in 0..255 /\ Signed(byte(b) % 16, 8) = codes[2 * b - 1]
               /\ Signed(byte(b) \div 16, 8) = high(b)
    <3>1. 2 * b - 1 \in 1..n /\ (2 * b <= n => 2 * b \in 1..n)
      BY <2>2
    <3>2. codes[2 * b - 1] \in (-7)..7 /\ (2 * b <= n => codes[2 * b] \in (-7)..7)
      BY <1>0, <2>1, <3>1
    <3>4. high(b) \in (-7)..7
      BY <3>2
    <3>3. byte(b) = (codes[2 * b - 1] % 16) + 16 * (high(b) % 16)
      OBVIOUS
    <3> HIDE DEF high, byte
    <3> QED BY <3>2, <3>3, <3>4, CodesOfHalves
  <2>5. bytes \in Seq(0..255) /\ Len(bytes) = half
    <3>1. DOMAIN bytes = 1..half /\ \A b \in 1..half : bytes[b] \in 0..255
      <4> HIDE DEF byte, bytes
      <4> QED BY <2>3, <2>4
    <3>2. bytes = [b \in 1..half |-> bytes[b]]
      BY <2>3
    <3>3. half \in Nat
      BY <2>2
    <3> DEFINE range == 0..255
    <3>4. \A b \in 1..half : bytes[b] \in range
      BY <3>1
    <3> HIDE DEF byte, bytes, range
    <3>5. bytes \in Seq(range) /\ Len(bytes) = half
      BY ONLY <3>1, <3>2, <3>3, <3>4, FunctionIsSequenceOf
    <3> QED BY <3>5 DEF range
  <2>6. \A i \in 1..n : UnpackCode(bytes, i - 1, precision) = codes[i]
    <3> SUFFICES ASSUME NEW i \in 1..n PROVE UnpackCode(bytes, i - 1, precision) = codes[i]
      OBVIOUS
    <3> DEFINE b == ((i - 1) \div 2) + 1
    <3>1. b \in 1..half /\ (i - 1) % 2 \in {0, 1} /\ i - 1 = 2 * (b - 1) + ((i - 1) % 2)
      <4>1. i - 1 \in Nat /\ i <= n /\ i \in Nat
        OBVIOUS
      <4> DEFINE x == i - 1
                 q == x \div 2
                 r == x % 2
      <4>2. r \in 0..(2 - 1) /\ x = 2 * q + r /\ q \in Nat
        <5>1. x \in Nat /\ 2 \in Nat \ {0}
          BY <4>1
        <5> HIDE DEF x
        <5> QED BY <5>1, Division, QuotientIsNatural, RemainderIsLess
      <4>3. x = i - 1
        OBVIOUS
      <4> HIDE DEF x, q, r
      <4>4. q + 1 \in 1..half /\ r \in {0, 1} /\ x = 2 * ((q + 1) - 1) + r
        BY ONLY <2>2, <4>1, <4>2, <4>3, n \in Nat
      <4> QED BY <4>3, <4>4 DEF q, r, x
    <3>2. bytes[b] = byte(b)
      BY <2>3, <3>1
    <3>3. UnpackCode(bytes, i - 1, precision) =
            Signed(IF (i - 1) % 2 = 0 THEN byte(b) % 16 ELSE byte(b) \div 16, 8)
      <4> HIDE DEF byte, bytes
      <4> QED BY <1>3, <3>2 DEF UnpackCode
    <3> HIDE DEF b
    <3>4. CASE (i - 1) % 2 = 0
      <4>1. i = 2 * b - 1
        <5>1. i \in Nat /\ b \in Nat
          BY <2>2, <3>1
        <5> QED BY ONLY <5>1, <3>1, <3>4
      <4> HIDE DEF byte, bytes
      <4> QED BY <2>4, <3>1, <3>3, <3>4, <4>1
    <3>5. CASE (i - 1) % 2 # 0
      <4>1. i = 2 * b /\ i <= n
        <5>1. i \in Nat /\ b \in Nat /\ i <= n
          BY <2>2, <3>1
        <5> QED BY ONLY <5>1, <3>1, <3>5
      <4>2. high(b) = codes[i]
        BY <4>1
      <4> HIDE DEF byte, bytes, high
      <4> QED BY <2>4, <3>1, <3>3, <3>5, <4>2
    <3> QED BY <3>4, <3>5
  <2> HIDE DEF bytes
  <2>7. PackedBytes(precision, n) = half /\ half \in Nat
    BY <1>3, <2>2
  <2> QED BY <2>5, <2>6, <2>7 DEF bytes, ArePacked
<1> QED BY <1>2, <1>3 DEF Precisions

(* What is decoded of a number is near it, whatever larger bound is named. *)
LEMMA DecodesNear ==
  ASSUME NEW precision \in Precisions, NEW n \in Int, NEW m \in Nat, NEW most \in Nat,
         Abs(n) <= m, m <= most
  PROVE  LET c == ClampAbs[precision]
         IN  Near(Decoded(Quantize(n, Scale(m, c), c), Scale(m, c)), n, most)
<1> DEFINE c == ClampAbs[precision]
           scale == Scale(m, c)
           code == Quantize(n, scale, c)
           off == Abs(code * scale[1] - n * scale[2])
<1>1. c \in {7, 127} /\ c \in Nat \ {0} /\ ClampAbs.q4 = 7
  BY DEF ClampAbs, Precisions
<1>2. /\ scale \in (Nat \ {0}) \X (Nat \ {0}) /\ code \in (-c)..c
      /\ 2 * off <= m /\ (m > 0 => scale[2] = c)
  BY <1>1, QuantizesNear
<1>3. scale[1] \in Nat /\ scale[2] \in Nat /\ off \in Nat
  <2>1. scale[1] \in Nat /\ scale[2] \in Nat
    <3> HIDE DEF scale
    <3> QED BY <1>2
  <2>2. code \in Int /\ code * scale[1] - n * scale[2] \in Int
    <3> HIDE DEF scale, code
    <3> QED BY <1>1, <1>2, <2>1
  <2> HIDE DEF scale, code
  <2>3. off \in Nat
    BY <2>2 DEF Abs
  <2> QED BY <2>1, <2>3
<1>4. Near(Decoded(code, scale), n, most) <=> 2 * 7 * off <= most * scale[2]
  <2> HIDE DEF scale, code
  <2> QED BY <1>1 DEF Near, Decoded
<1> HIDE DEF off, scale, code, c
<1>5. 2 * 7 * off <= most * scale[2]
  <2>1. CASE m = 0
    BY <1>2, <1>3, <2>1
  <2>2. CASE m > 0
    <3>1. scale[2] = c /\ 7 * most <= most * c /\ 2 * off <= most
      BY <1>1, <1>2, <1>3, <2>2
    <3> QED BY <1>1, <1>3, <3>1
  <2> QED BY <2>1, <2>2
<1> QED BY <1>4, <1>5 DEF code, scale, c

(* Where a number of a token's head is: in its token's row, and in the     *)
(* group of dimensions that shares its value scale.                        *)
LEMMA Places ==
  ASSUME NEW t \in 1..PageTokens, NEW head \in 0..(KvHeads - 1), NEW d \in 1..HeadDim
  PROVE  LET at    == SlotAt(t - 1, head, d - 1)
             slot  == head * HeadDim + d
             group == ((t - 1) * KvHeads + head) * ValueGroups + ((d - 1) \div ValueGroup)
             inRow == KvHeads * ValueGroups
         IN  /\ at \in 0..(PageTokens * KvWidth - 1) /\ slot \in 1..KvWidth
             /\ at \div KvWidth = t - 1 /\ at % KvWidth = slot - 1
             /\ group \in 0..(PageTokens * inRow - 1) /\ at \div ValueGroup = group
             /\ group \div inRow = t - 1
             /\ slot - (group % inRow) * ValueGroup \in 1..ValueGroup
<1> DEFINE at    == SlotAt(t - 1, head, d - 1)
           slot  == head * HeadDim + d
           inRow == KvHeads * ValueGroups
           e == (d - 1) \div ValueGroup
           f == (d - 1) % ValueGroup
           col == head * ValueGroups + e
<1>1. /\ KvHeads \in Nat \ {0} /\ HeadDim \in Nat \ {0} /\ ValueGroup \in Nat \ {0}
      /\ PageTokens \in Nat \ {0} /\ KvWidth \in Nat \ {0} /\ ValueGroups \in Nat \ {0}
      /\ KvWidth = KvHeads * HeadDim /\ HeadDim = ValueGroups * ValueGroup
  BY PageSizes
<1>2. t - 1 \in 0..(PageTokens - 1) /\ t - 1 \in Nat /\ d - 1 \in 0..(HeadDim - 1) /\ head \in Nat
      /\ d - 1 \in Nat /\ d \in Nat
  BY <1>1
<1>3. head * HeadDim + (d - 1) \in 0..(KvWidth - 1) /\ head * HeadDim \in Nat
  BY <1>1, <1>2, InRows
<1>4. slot - 1 \in 0..(KvWidth - 1) /\ slot \in 1..KvWidth /\ slot - 1 = head * HeadDim + (d - 1)
  BY <1>1, <1>2, <1>3
<1>5. at = (t - 1) * KvWidth + (slot - 1)
  <2>1. \A a, b, c, x, y \in Nat : (a * b + c) * x + y = a * (b * x) + (c * x + y)
    OBVIOUS
  <2>2. at = (t - 1) * KvWidth + (head * HeadDim + (d - 1))
    <3> HIDE DEF slot
    <3> QED BY <1>1, <1>2, <2>1 DEF SlotAt
  <2> QED BY <1>4, <2>2
<1> HIDE DEF at, slot
<1>6. /\ at \in 0..(PageTokens * KvWidth - 1)
      /\ at \div KvWidth = t - 1 /\ at % KvWidth = slot - 1
  <2>1. (t - 1) * KvWidth + (slot - 1) \in 0..(PageTokens * KvWidth - 1)
    BY <1>1, <1>2, <1>4, InRows
  <2>2. /\ ((t - 1) * KvWidth + (slot - 1)) \div KvWidth = t - 1
        /\ ((t - 1) * KvWidth + (slot - 1)) % KvWidth = slot - 1
    <3>1. KvWidth \in Nat \ {0} /\ t - 1 \in Nat /\ slot - 1 \in 0..(KvWidth - 1)
      BY <1>1, <1>2, <1>4
    <3> QED BY ONLY <3>1, RowMajor
  <2> QED BY <1>5, <2>1, <2>2
<1>7. e \in 0..(ValueGroups - 1) /\ f \in 0..(ValueGroup - 1) /\ d - 1 = e * ValueGroup + f
  <2>1. d - 1 < ValueGroups * ValueGroup
    BY <1>1, <1>2
  <2>2. e \in 0..(ValueGroups - 1) /\ f \in 0..(ValueGroup - 1) /\ d - 1 = ValueGroup * e + f
    BY <1>1, <1>2, <2>1, QuotientBelow, Division, RemainderIsLess
  <2> QED BY <1>1, <2>2
<1> HIDE DEF e, f
<1>8. col \in 0..(inRow - 1) /\ inRow \in Nat \ {0}
  BY <1>1, <1>2, <1>7, InRows
<1> HIDE DEF inRow
<1>9. /\ (t - 1) * inRow + col \in 0..(PageTokens * inRow - 1)
      /\ ((t - 1) * inRow + col) \div inRow = t - 1 /\ ((t - 1) * inRow + col) % inRow = col
  <2> HIDE DEF col
  <2> QED BY <1>1, <1>2, <1>8, InRows, RowMajor
<1>10. ((t - 1) * KvHeads + head) * ValueGroups + e = (t - 1) * inRow + col
  <2>1. \A a, b, c, x, y \in Nat : (a * b + c) * x + y = a * (b * x) + (c * x + y)
    OBVIOUS
  <2>2. e \in Nat
    BY <1>7
  <2> QED BY <1>1, <1>2, <2>1, <2>2 DEF inRow
<1>11. at = ((t - 1) * inRow + col) * ValueGroup + f
  <2>1. \A a, h, v, g, k, x, y \in Nat :
          a * (h * (v * g)) + (k * (v * g) + (x * g + y)) = (a * (h * v) + (k * v + x)) * g + y
    OBVIOUS
  <2>2. at = (t - 1) * (KvHeads * (ValueGroups * ValueGroup))
             + (head * (ValueGroups * ValueGroup) + (e * ValueGroup + f))
    BY <1>1, <1>4, <1>5, <1>7
  <2>3. e \in Nat /\ f \in Nat
    BY <1>7
  <2> QED BY ONLY <1>1, <1>2, <2>1, <2>2, <2>3 DEF inRow, col
<1>12. at \div ValueGroup = (t - 1) * inRow + col
  <2>1. (t - 1) * inRow + col \in Nat
    BY <1>9
  <2> HIDE DEF col
  <2> QED BY <1>1, <1>7, <1>11, <2>1, RowMajor
<1>13. slot - col * ValueGroup \in 1..ValueGroup
  <2>1. slot = head * (ValueGroups * ValueGroup) + (e * ValueGroup + f) + 1
    BY <1>1, <1>2, <1>4, <1>7
  <2>2. \A h, v, g, x, y \in Nat : h * (v * g) + (x * g + y) + 1 - (h * v + x) * g = y + 1
    OBVIOUS
  <2>3. e \in Nat /\ f \in Nat
    BY <1>7
  <2>4. slot - col * ValueGroup = f + 1
    BY <1>1, <1>2, <2>1, <2>2, <2>3
  <2> QED BY <1>1, <1>7, <2>4
<1> HIDE DEF col
<1> QED BY <1>4, <1>6, <1>9, <1>10, <1>12, <1>13 DEF at, slot, inRow, e

(* Every number of a page is at such a place.                              *)
LEMMA EveryPlace ==
  ASSUME NEW a \in 0..(PageTokens * KvWidth - 1)
  PROVE  \E t \in 1..PageTokens, head \in 0..(KvHeads - 1), d \in 1..HeadDim :
           a = SlotAt(t - 1, head, d - 1)
<1>1. /\ KvHeads \in Nat \ {0} /\ HeadDim \in Nat \ {0}
      /\ PageTokens \in Nat \ {0} /\ KvWidth \in Nat \ {0} /\ KvWidth = KvHeads * HeadDim
  BY PageSizes
<1> DEFINE t == a \div KvWidth
           b == a % KvWidth
           head == b \div HeadDim
           d == b % HeadDim
<1>2. t \in 0..(PageTokens - 1) /\ b \in 0..(KvWidth - 1) /\ a = KvWidth * t + b
  <2>1. a \in Nat /\ a < PageTokens * KvWidth
    <3>1. PageTokens * KvWidth \in Nat
      BY <1>1
    <3> QED BY <3>1
  <2> QED BY <1>1, <2>1, QuotientBelow, Division, RemainderIsLess
<1> HIDE DEF t, b
<1>3. head \in 0..(KvHeads - 1) /\ d \in 0..(HeadDim - 1) /\ b = HeadDim * head + d
  <2>1. b \in Nat /\ b < KvHeads * HeadDim
    BY <1>1, <1>2
  <2> QED BY <1>1, <2>1, QuotientBelow, Division, RemainderIsLess
<1> HIDE DEF head, d
<1>4. a = SlotAt((t + 1) - 1, head, (d + 1) - 1)
  <2>1. \A n, h, k, x, y \in Nat : (h * k) * n + (k * x + y) = (n * h + x) * k + y
    OBVIOUS
  <2>2. t \in Nat /\ head \in Nat /\ d \in Nat /\ (t + 1) - 1 = t /\ (d + 1) - 1 = d
    BY <1>2, <1>3
  <2> QED BY <1>1, <1>2, <1>3, <2>1, <2>2 DEF SlotAt
<1>5. t + 1 \in 1..PageTokens /\ d + 1 \in 1..HeadDim
  BY <1>1, <1>2, <1>3
<1> QED BY <1>3, <1>4, <1>5

(* The largest of what shares a scale: a dimension of the keys of a page,  *)
(* and a group, counted from 0, of the values.                             *)
InRow == KvHeads * ValueGroups
KeyPeak(keys, slot) == Largest({Abs(keys[t][slot]) : t \in 1..PageTokens})
ValuePeak(values, g) ==
  Largest({Abs(values[(g \div InRow) + 1][(g % InRow) * ValueGroup + d]) : d \in 1..ValueGroup})

TokenRows(rows) ==
  /\ DOMAIN rows = 1..PageTokens /\ Len(rows) = PageTokens
  /\ \A t \in 1..PageTokens : rows[t] \in [1..KvWidth -> Int]

ScalesAreLargest(keys, values, clamp) ==
  /\ \A slot \in 1..KvWidth :
       /\ KeyPeak(keys, slot) \in Nat
       /\ KeyScales(keys, clamp)[slot] = Scale(KeyPeak(keys, slot), clamp)
       /\ \A t \in 1..PageTokens : Abs(keys[t][slot]) <= KeyPeak(keys, slot)
       /\ \E t \in 1..PageTokens : KeyPeak(keys, slot) = Abs(keys[t][slot])
  /\ \A g \in 0..(PageTokens * InRow - 1) :
       /\ ValuePeak(values, g) \in Nat
       /\ ValueScales(values, clamp)[g + 1] = Scale(ValuePeak(values, g), clamp)
       /\ \A d \in 1..ValueGroup :
            Abs(values[(g \div InRow) + 1][(g % InRow) * ValueGroup + d]) <= ValuePeak(values, g)
       /\ \E slot \in 1..KvWidth : ValuePeak(values, g) = Abs(values[(g \div InRow) + 1][slot])

(* The scales of SealedPage::seal cover what shares them.                  *)
LEMMA ScalesCover ==
  ASSUME NEW keys, NEW values, NEW clamp \in Nat \ {0}, TokenRows(keys), TokenRows(values)
  PROVE  ScalesAreLargest(keys, values, clamp)
<1>0. /\ DOMAIN keys = 1..PageTokens /\ DOMAIN values = 1..PageTokens /\ Len(values) = PageTokens
      /\ \A t \in 1..PageTokens : keys[t] \in [1..KvWidth -> Int] /\ values[t] \in [1..KvWidth -> Int]
  BY DEF TokenRows
<1> DEFINE inRow == InRow
           most(slot) == KeyPeak(keys, slot)
           first(g) == (g % inRow) * ValueGroup
           peak(g) == ValuePeak(values, g)
<1>1. /\ KvHeads \in Nat \ {0} /\ ValueGroup \in Nat \ {0} /\ PageTokens \in Nat \ {0}
      /\ KvWidth \in Nat \ {0} /\ ValueGroups \in Nat \ {0} /\ inRow \in Nat \ {0}
      /\ KvWidth = inRow * ValueGroup
  <2>1. /\ KvHeads \in Nat \ {0} /\ HeadDim \in Nat \ {0} /\ ValueGroup \in Nat \ {0}
        /\ PageTokens \in Nat \ {0} /\ KvWidth \in Nat \ {0} /\ ValueGroups \in Nat \ {0}
        /\ KvWidth = KvHeads * HeadDim /\ HeadDim = ValueGroups * ValueGroup
    BY PageSizes
  <2>2. \A a, b, c \in Nat : a * (b * c) = (a * b) * c
    OBVIOUS
  <2>3. KvWidth = inRow * ValueGroup
    BY <2>1, <2>2 DEF InRow
  <2> QED BY <2>1, <2>3 DEF InRow
<1>2. \A n \in Int : Abs(n) \in Nat
  BY DEF Abs
<1>3. ASSUME NEW slot \in 1..KvWidth
      PROVE  /\ most(slot) \in Nat /\ KeyScales(keys, clamp)[slot] = Scale(most(slot), clamp)
             /\ \A t \in 1..PageTokens : Abs(keys[t][slot]) <= most(slot)
             /\ \E t \in 1..PageTokens : most(slot) = Abs(keys[t][slot])
  <2> DEFINE f == [t \in 1..PageTokens |-> Abs(keys[t][slot])]
             M == Largest({f[t] : t \in 1..PageTokens})
  <2>1. \A t \in 1..PageTokens : f[t] = Abs(keys[t][slot]) /\ f[t] \in Nat
    BY <1>0, <1>2
  <2>2. {f[t] : t \in 1..PageTokens} = {Abs(keys[t][slot]) : t \in 1..PageTokens}
    BY <2>1
  <2>3. most(slot) = M
    BY <2>2 DEF KeyPeak
  <2>4. M \in {f[t] : t \in 1..PageTokens} /\ \A t \in 1..PageTokens : f[t] <= M
    <3>1. PageTokens \in Nat \ {0} /\ \A t \in 1..PageTokens : f[t] \in Int
      BY <1>1, <2>1
    <3> HIDE DEF f
    <3> QED BY ONLY <3>1, LargestOf
  <2>5. KeyScales(keys, clamp)[slot] = Scale(most(slot), clamp)
    BY <1>0 DEF KeyScales, KeyPeak
  <2> HIDE DEF f, M, most
  <2> QED BY <2>1, <2>3, <2>4, <2>5
<1>4. ASSUME NEW g \in 0..(PageTokens * inRow - 1)
      PROVE  /\ g \div inRow \in 0..(PageTokens - 1)
             /\ peak(g) \in Nat /\ ValueScales(values, clamp)[g + 1] = Scale(peak(g), clamp)
             /\ \A d \in 1..ValueGroup :
                  /\ first(g) + d \in 1..KvWidth
                  /\ Abs(values[(g \div inRow) + 1][first(g) + d]) <= peak(g)
             /\ \E slot \in 1..KvWidth : peak(g) = Abs(values[(g \div inRow) + 1][slot])
  <2> DEFINE t == (g \div inRow) + 1
             f == [d \in 1..ValueGroup |-> Abs(values[t][first(g) + d])]
             M == Largest({f[d] : d \in 1..ValueGroup})
  <2>1. g \in Nat /\ g < PageTokens * inRow /\ g + 1 \in 1..(PageTokens * inRow) /\ (g + 1) - 1 = g
    <3> HIDE DEF inRow
    <3>1. PageTokens * inRow \in Nat
      BY <1>1
    <3> QED BY <3>1
  <2>2. g \div inRow \in 0..(PageTokens - 1) /\ t \in 1..PageTokens /\ g % inRow \in 0..(inRow - 1)
    <3>1. inRow \in Nat \ {0} /\ PageTokens \in Nat
      BY <1>1
    <3> HIDE DEF inRow
    <3>2. g \div inRow \in 0..(PageTokens - 1)
      BY ONLY <2>1, <3>1, QuotientBelow
    <3>3. g % inRow \in 0..(inRow - 1)
      BY ONLY <2>1, <3>1, RemainderIsLess
    <3> QED BY <3>1, <3>2, <3>3
  <2>3. \A d \in 1..ValueGroup : first(g) + d \in 1..KvWidth
    <3> DEFINE m == g % inRow
    <3> HIDE DEF inRow, m
    <3> SUFFICES ASSUME NEW d \in 1..ValueGroup PROVE m * ValueGroup + d \in 1..KvWidth
      BY DEF m
    <3>1. m * ValueGroup + (d - 1) \in 0..(inRow * ValueGroup - 1) /\ m * ValueGroup \in Nat
      <4>1. m \in 0..(inRow - 1) /\ d - 1 \in 0..(ValueGroup - 1) /\ inRow \in Nat
        BY <1>1, <2>2 DEF m
      <4>2. ValueGroup \in Nat \ {0}
        BY <1>1
      <4>3. m * ValueGroup \in Nat
        BY <4>1, <4>2
      <4> QED BY ONLY <4>1, <4>2, <4>3, InRows
    <3> QED BY <1>1, <3>1
  <2> HIDE DEF t, first
  <2>4. \A d \in 1..ValueGroup : f[d] = Abs(values[t][first(g) + d]) /\ f[d] \in Nat
    BY <1>0, <1>2, <2>2, <2>3
  <2>5. {f[d] : d \in 1..ValueGroup} = {Abs(values[t][first(g) + d]) : d \in 1..ValueGroup}
    BY <2>4
  <2>6. peak(g) = M
    BY <2>5 DEF t, ValuePeak, first
  <2>7. M \in {f[d] : d \in 1..ValueGroup} /\ \A d \in 1..ValueGroup : f[d] <= M
    <3>1. ValueGroup \in Nat \ {0} /\ \A d \in 1..ValueGroup : f[d] \in Int
      BY <1>1, <2>4
    <3> HIDE DEF f
    <3> QED BY ONLY <3>1, LargestOf
  <2>8. ValueScales(values, clamp)[g + 1] = Scale(peak(g), clamp)
    <3>1. Len(values) * KvHeads * ValueGroups = PageTokens * inRow
      <4>1. \A a, b, c \in Nat : a * b * c = a * (b * c)
        OBVIOUS
      <4> QED BY <1>0, <1>1, <4>1 DEF InRow
    <3>2. ValueScales(values, clamp)[g + 1] =
            LET u == (((g + 1) - 1) \div (KvHeads * ValueGroups)) + 1
                v == (((g + 1) - 1) % (KvHeads * ValueGroups)) * ValueGroup
            IN  Scale(Largest({Abs(values[u][v + d]) : d \in 1..ValueGroup}), clamp)
      BY <2>1, <3>1 DEF ValueScales
    <3> QED BY <2>1, <3>2 DEF first, ValuePeak, InRow
  <2> HIDE DEF f, M, peak
  <2>9. peak(g) \in Nat /\ \A d \in 1..ValueGroup : Abs(values[t][first(g) + d]) <= peak(g)
    BY <2>4, <2>6, <2>7
  <2>10. \E slot \in 1..KvWidth : peak(g) = Abs(values[t][slot])
    <3>1. PICK d \in 1..ValueGroup : f[d] = M
      BY <2>7
    <3> QED BY <2>3, <2>4, <2>6, <3>1
  <2> QED BY <2>2, <2>3, <2>8, <2>9, <2>10 DEF t
<1> HIDE DEF most, peak, first, inRow
<1> QED BY <1>3, <1>4 DEF most, peak, first, inRow, ScalesAreLargest

ReadsNear(p, keys, values) ==
  \A t \in 1..PageTokens, head \in 0..(KvHeads - 1), d \in 1..HeadDim, most \in Nat :
    LET slot == head * HeadDim + d
    IN  /\ (\A u \in 1..PageTokens : Abs(keys[u][slot]) <= most)
             => Near(DecodeKey(p, t - 1, head)[d], keys[t][slot], most)
        /\ (\A s \in 1..KvWidth : Abs(values[t][s]) <= most)
             => Near(DecodeValue(p, t - 1, head)[d], values[t][slot], most)

(* SealedPage::seal: the parts have the lengths that the offsets of the    *)
(* bytes go by, and every key and value is read within half a step of what *)
(* was written, a step being that of any bound on what shares its scale    *)
(* (tqkv/mod.rs).                                                          *)
THEOREM SealsPages ==
  ASSUME NEW precision \in Precisions, NEW id, NEW layer, NEW start, NEW keys, NEW values,
         TokenRows(keys), TokenRows(values)
  PROVE  LET p == Seal(id, layer, start, keys, values, precision)
         IN  IsSealed(p) /\ ReadsNear(p, keys, values)
<1>0. /\ DOMAIN keys = 1..PageTokens /\ DOMAIN values = 1..PageTokens
      /\ Len(keys) = PageTokens /\ Len(values) = PageTokens
      /\ \A t \in 1..PageTokens : keys[t] \in [1..KvWidth -> Int] /\ values[t] \in [1..KvWidth -> Int]
  BY DEF TokenRows
<1> DEFINE p  == Seal(id, layer, start, keys, values, precision)
           c  == ClampAbs[precision]
           n  == PageTokens * KvWidth
           inRow == InRow
           ks == KeyScales(keys, c)
           vs == ValueScales(values, c)
           keyCodes == [i \in 1..n |->
             Quantize(keys[((i - 1) \div KvWidth) + 1][((i - 1) % KvWidth) + 1],
                      ks[((i - 1) % KvWidth) + 1], c)]
           valueCodes == [i \in 1..n |->
             Quantize(values[((i - 1) \div KvWidth) + 1][((i - 1) % KvWidth) + 1],
                      vs[((i - 1) \div ValueGroup) + 1], c)]
           low  == [s \in 1..KvWidth |-> Smallest({keys[t][s] : t \in 1..PageTokens})]
           high == [s \in 1..KvWidth |-> Largest({keys[t][s] : t \in 1..PageTokens})]
<1>1. /\ KvHeads \in Nat \ {0} /\ ValueGroup \in Nat \ {0} /\ PageTokens \in Nat \ {0}
      /\ KvWidth \in Nat \ {0} /\ ValueGroups \in Nat \ {0} /\ HeadDim \in Nat \ {0}
      /\ inRow \in Nat \ {0} /\ n \in Nat /\ PageTokens * inRow \in Nat
      /\ PageTokens * KvHeads * ValueGroups = PageTokens * inRow
  <2>1. /\ KvHeads \in Nat \ {0} /\ ValueGroup \in Nat \ {0} /\ PageTokens \in Nat \ {0}
        /\ KvWidth \in Nat \ {0} /\ ValueGroups \in Nat \ {0} /\ HeadDim \in Nat \ {0}
    BY PageSizes
  <2>2. \A x, y, z \in Nat : x * y * z = x * (y * z)
    OBVIOUS
  <2> QED BY <2>1, <2>2 DEF InRow
<1>2. c \in Nat \ {0}
  BY DEF ClampAbs, Precisions
<1>3. /\ p.precision = precision
      /\ p.header.count = PageTokens /\ p.header.encoding = EncodingId[precision]
      /\ p.header.keyLen = Len(p.page.keyBytes) /\ p.header.valueLen = Len(p.page.valueBytes)
      /\ p.header.hash = ContentHash(p.page)
      /\ p.page.keyBytes = PackCodes(keyCodes, precision)
      /\ p.page.valueBytes = PackCodes(valueCodes, precision)
      /\ p.page.keyScales = ks /\ p.page.valueScales = vs
      /\ p.page.keyMin = low /\ p.page.keyMax = high
  <2>1. Len(keys) = PageTokens
    BY <1>0
  <2> QED BY <2>1, Zenon DEF Seal
<1> HIDE DEF p, c, n, keyCodes, valueCodes, ks, vs, low, high, inRow
<1> DEFINE most(slot) == KeyPeak(keys, slot)
           peak(g) == ValuePeak(values, g)
           group(t, head, d) == ((t - 1) * KvHeads + head) * ValueGroups + ((d - 1) \div ValueGroup)
           slotOf(head, d) == head * HeadDim + d
<1>4. /\ \A slot \in 1..KvWidth :
           /\ most(slot) \in Nat /\ ks[slot] = Scale(most(slot), c)
           /\ \A t \in 1..PageTokens : Abs(keys[t][slot]) <= most(slot)
           /\ \E t \in 1..PageTokens : most(slot) = Abs(keys[t][slot])
      /\ \A g \in 0..(PageTokens * inRow - 1) :
           /\ peak(g) \in Nat /\ vs[g + 1] = Scale(peak(g), c)
           /\ \A d \in 1..ValueGroup :
                Abs(values[(g \div inRow) + 1][(g % inRow) * ValueGroup + d]) <= peak(g)
           /\ \E slot \in 1..KvWidth : peak(g) = Abs(values[(g \div inRow) + 1][slot])
  <2>1. ScalesAreLargest(keys, values, c)
    BY <1>2, ScalesCover
  <2> QED BY <2>1 DEF ScalesAreLargest, ks, vs, inRow, most, peak
<1> HIDE DEF most, peak, group, slotOf
<1>5. ASSUME NEW t \in 1..PageTokens, NEW head \in 0..(KvHeads - 1), NEW d \in 1..HeadDim
      PROVE  /\ slotOf(head, d) \in 1..KvWidth
             /\ SlotAt(t - 1, head, d - 1) \in 0..(n - 1)
             /\ group(t, head, d) \in 0..(PageTokens * inRow - 1)
             /\ Abs(keys[t][slotOf(head, d)]) <= most(slotOf(head, d))
             /\ Abs(values[t][slotOf(head, d)]) <= peak(group(t, head, d))
             /\ \E s \in 1..KvWidth : peak(group(t, head, d)) = Abs(values[t][s])
             /\ keyCodes[SlotAt(t - 1, head, d - 1) + 1] =
                  Quantize(keys[t][slotOf(head, d)], Scale(most(slotOf(head, d)), c), c)
             /\ valueCodes[SlotAt(t - 1, head, d - 1) + 1] =
                  Quantize(values[t][slotOf(head, d)], Scale(peak(group(t, head, d)), c), c)
  <2> DEFINE at == SlotAt(t - 1, head, d - 1)
             s == slotOf(head, d)
             g == group(t, head, d)
  <2>1. /\ at \in 0..(n - 1) /\ s \in 1..KvWidth
        /\ at \div KvWidth = t - 1 /\ at % KvWidth = s - 1
        /\ g \in 0..(PageTokens * inRow - 1) /\ at \div ValueGroup = g
        /\ g \div inRow = t - 1
        /\ s - (g % inRow) * ValueGroup \in 1..ValueGroup
    BY Places DEF n, inRow, slotOf, group, InRow
  <2> HIDE DEF at, s, g
  <2>2. /\ at + 1 \in 1..n /\ (at + 1) - 1 = at /\ (t - 1) + 1 = t /\ (s - 1) + 1 = s
        /\ g + 1 \in 1..(PageTokens * inRow)
    BY <1>1, <2>1
  <2>3. keyCodes[at + 1] = Quantize(keys[t][s], ks[s], c)
    BY <2>1, <2>2 DEF keyCodes
  <2>4. valueCodes[at + 1] = Quantize(values[t][s], vs[g + 1], c)
    BY <2>1, <2>2 DEF valueCodes
  <2>5. (g % inRow) * ValueGroup + (s - (g % inRow) * ValueGroup) = s
    <3>1. (g % inRow) * ValueGroup \in Int /\ s \in Int
      <4>1. g \in Nat
        BY <1>1, <2>1
      <4>2. g % inRow \in 0..(inRow - 1)
        BY <1>1, <4>1, RemainderIsLess
      <4>3. g % inRow \in Nat /\ s \in Int
        BY <1>1, <2>1, <4>2
      <4> QED BY <1>1, <4>3
    <3> QED BY ONLY <3>1
  <2>6. Abs(values[t][s]) <= peak(g)
    BY <1>4, <2>1, <2>2, <2>5
  <2>7. \E u \in 1..KvWidth : peak(g) = Abs(values[t][u])
    BY <1>4, <2>1, <2>2
  <2> QED BY <1>4, <2>1, <2>3, <2>4, <2>6, <2>7 DEF at, s, g
<1>6. ASSUME NEW i \in 1..n PROVE keyCodes[i] \in (-c)..c /\ valueCodes[i] \in (-c)..c
  <2>1. i - 1 \in 0..(n - 1) /\ (i - 1) + 1 = i
    BY <1>1
  <2>2. PICK t \in 1..PageTokens, head \in 0..(KvHeads - 1), d \in 1..HeadDim :
          i - 1 = SlotAt(t - 1, head, d - 1)
    BY <2>1, EveryPlace DEF n
  <2>3. keys[t][slotOf(head, d)] \in Int /\ values[t][slotOf(head, d)] \in Int
    BY <1>0, <1>5
  <2>4. most(slotOf(head, d)) \in Nat /\ peak(group(t, head, d)) \in Nat
    BY <1>4, <1>5
  <2>5. Quantize(keys[t][slotOf(head, d)], Scale(most(slotOf(head, d)), c), c) \in (-c)..c
    BY ONLY <1>2, <1>5, <2>3, <2>4, QuantizesNear
  <2>6. Quantize(values[t][slotOf(head, d)], Scale(peak(group(t, head, d)), c), c) \in (-c)..c
    BY ONLY <1>2, <1>5, <2>3, <2>4, QuantizesNear
  <2> QED BY <1>5, <2>1, <2>2, <2>5, <2>6
<1>7. /\ p.page.keyBytes \in Seq(0..255) /\ p.page.valueBytes \in Seq(0..255)
      /\ Len(p.page.keyBytes) = PackedBytes(precision, n)
      /\ Len(p.page.valueBytes) = PackedBytes(precision, n)
      /\ \A i \in 1..n : /\ UnpackCode(p.page.keyBytes, i - 1, precision) = keyCodes[i]
                         /\ UnpackCode(p.page.valueBytes, i - 1, precision) = valueCodes[i]
  <2>0. c = ClampAbs[precision]
    BY DEF c
  <2>1. keyCodes = [i \in 1..n |-> keyCodes[i]] /\ valueCodes = [i \in 1..n |-> valueCodes[i]]
    BY DEF keyCodes, valueCodes
  <2>2. AreCodes(keyCodes, precision, n) /\ AreCodes(valueCodes, precision, n)
    BY <1>6, <2>0, <2>1 DEF AreCodes
  <2>3. /\ ArePacked(PackCodes(keyCodes, precision), keyCodes, precision, n)
        /\ ArePacked(PackCodes(valueCodes, precision), valueCodes, precision, n)
    BY <1>1, <2>2, CodesSurvive
  <2> QED BY <1>3, <2>3 DEF ArePacked
<1>8. /\ ks \in Seq(Nat \X Nat) /\ Len(ks) = KvWidth
      /\ vs \in Seq(Nat \X Nat) /\ Len(vs) = PageTokens * inRow
  <2>1. \A x \in Nat : Scale(x, c) \in Nat \X Nat
    BY <1>2 DEF Scale
  <2>2. DOMAIN ks = 1..KvWidth /\ ks = [s \in 1..KvWidth |-> ks[s]]
    BY DEF ks, KeyScales
  <2>3. DOMAIN vs = 1..(PageTokens * inRow) /\ vs = [g \in 1..(PageTokens * inRow) |-> vs[g]]
    BY <1>0, <1>1 DEF vs, ValueScales
  <2>4. \A s \in 1..KvWidth : ks[s] \in Nat \X Nat
    BY <1>4, <2>1
  <2>5. \A g \in 1..(PageTokens * inRow) : vs[g] \in Nat \X Nat
    <3> SUFFICES ASSUME NEW g \in 1..(PageTokens * inRow) PROVE vs[g] \in Nat \X Nat
      OBVIOUS
    <3>1. g - 1 \in 0..(PageTokens * inRow - 1) /\ (g - 1) + 1 = g
      BY <1>1
    <3> QED BY <1>4, <2>1, <3>1
  <2>6. ks \in Seq(Nat \X Nat) /\ Len(ks) = KvWidth
    <3> DEFINE Pairs == Nat \X Nat
    <3>1. KvWidth \in Nat /\ \A s \in 1..KvWidth : ks[s] \in Pairs
      BY <1>1, <2>4
    <3> HIDE DEF Pairs
    <3>2. ks \in Seq(Pairs) /\ Len(ks) = KvWidth
      BY ONLY <3>1, <2>2, FunctionIsSequenceOf
    <3> QED BY <3>2 DEF Pairs
  <2>7. vs \in Seq(Nat \X Nat) /\ Len(vs) = PageTokens * inRow
    BY ONLY <1>1, <2>3, <2>5, FunctionIsSequenceOf
  <2> QED BY <2>6, <2>7
<1>9. /\ low \in Seq(Int) /\ Len(low) = KvWidth /\ high \in Seq(Int) /\ Len(high) = KvWidth
  <2>1. ASSUME NEW s \in 1..KvWidth PROVE low[s] \in Int /\ high[s] \in Int
    <3> DEFINE f == [t \in 1..PageTokens |-> keys[t][s]]
    <3>1. \A t \in 1..PageTokens : f[t] = keys[t][s] /\ f[t] \in Int
      BY <1>0
    <3>2. {f[t] : t \in 1..PageTokens} = {keys[t][s] : t \in 1..PageTokens}
      BY <3>1
    <3> HIDE DEF f
    <3>3. /\ Smallest({f[t] : t \in 1..PageTokens}) \in {f[t] : t \in 1..PageTokens}
          /\ Largest({f[t] : t \in 1..PageTokens}) \in {f[t] : t \in 1..PageTokens}
      BY ONLY <1>1, <3>1, SmallestOf, LargestOf
    <3>4. /\ low[s] = Smallest({f[t] : t \in 1..PageTokens})
          /\ high[s] = Largest({f[t] : t \in 1..PageTokens})
      BY <3>2 DEF low, high
    <3> QED BY <3>1, <3>3, <3>4
  <2>2. DOMAIN low = 1..KvWidth /\ low = [s \in 1..KvWidth |-> low[s]]
    BY DEF low
  <2>3. DOMAIN high = 1..KvWidth /\ high = [s \in 1..KvWidth |-> high[s]]
    BY DEF high
  <2> QED BY <1>1, <2>1, <2>2, <2>3, FunctionIsSequenceOf
<1>10. IsSealed(p)
  BY <1>1, <1>3, <1>7, <1>8, <1>9 DEF IsSealed, TokenCount, ContentId, n
<1>11. ASSUME NEW t \in 1..PageTokens, NEW head \in 0..(KvHeads - 1), NEW d \in 1..HeadDim,
              NEW bound \in Nat
       PROVE  /\ (\A u \in 1..PageTokens : Abs(keys[u][slotOf(head, d)]) <= bound)
                   => Near(DecodeKey(p, t - 1, head)[d], keys[t][slotOf(head, d)], bound)
              /\ (\A s \in 1..KvWidth : Abs(values[t][s]) <= bound)
                   => Near(DecodeValue(p, t - 1, head)[d], values[t][slotOf(head, d)], bound)
  <2> DEFINE at == SlotAt(t - 1, head, d - 1)
             s == slotOf(head, d)
             g == group(t, head, d)
  <2>1. /\ s \in 1..KvWidth /\ at \in 0..(n - 1) /\ g \in 0..(PageTokens * inRow - 1)
        /\ Abs(keys[t][s]) <= most(s) /\ Abs(values[t][s]) <= peak(g)
        /\ \E u \in 1..KvWidth : peak(g) = Abs(values[t][u])
        /\ keyCodes[at + 1] = Quantize(keys[t][s], Scale(most(s), c), c)
        /\ valueCodes[at + 1] = Quantize(values[t][s], Scale(peak(g), c), c)
    BY <1>5
  <2>2. DecodeKey(p, t - 1, head)[d] =
          Decoded(UnpackCode(p.page.keyBytes, at, p.precision), p.page.keyScales[s])
    BY DEF DecodeKey, slotOf
  <2>3. DecodeValue(p, t - 1, head)[d] =
          Decoded(UnpackCode(p.page.valueBytes, at, p.precision), p.page.valueScales[g + 1])
    BY DEF DecodeValue, group
  <2> HIDE DEF at, s, g
  <2>4. at + 1 \in 1..n /\ (at + 1) - 1 = at
    BY <1>1, <2>1
  <2>5. DecodeKey(p, t - 1, head)[d]
          = Decoded(Quantize(keys[t][s], Scale(most(s), c), c), Scale(most(s), c))
    BY <1>3, <1>4, <1>7, <2>1, <2>2, <2>4
  <2>6. DecodeValue(p, t - 1, head)[d]
          = Decoded(Quantize(values[t][s], Scale(peak(g), c), c), Scale(peak(g), c))
    BY <1>3, <1>4, <1>7, <2>1, <2>3, <2>4
  <2>7. keys[t][s] \in Int /\ values[t][s] \in Int /\ most(s) \in Nat /\ peak(g) \in Nat
    BY <1>0, <1>4, <2>1
  <2>8. ASSUME \A u \in 1..PageTokens : Abs(keys[u][s]) <= bound
        PROVE  Near(DecodeKey(p, t - 1, head)[d], keys[t][s], bound)
    <3>1. most(s) <= bound
      BY <1>4, <2>1, <2>8
    <3> QED BY <2>1, <2>5, <2>7, <3>1, DecodesNear DEF c
  <2>9. ASSUME \A u \in 1..KvWidth : Abs(values[t][u]) <= bound
        PROVE  Near(DecodeValue(p, t - 1, head)[d], values[t][s], bound)
    <3>1. peak(g) <= bound
      BY <2>1, <2>9
    <3> QED BY <2>1, <2>6, <2>7, <3>1, DecodesNear DEF c
  <2> QED BY <2>8, <2>9 DEF s
<1>12. ReadsNear(p, keys, values)
  BY <1>11 DEF ReadsNear, slotOf
<1> QED BY <1>10, <1>12 DEF p

(* The places of the parts of a body: each ends where the next begins.     *)
EndAt(a, b, c, d, e, i, j, k, l, m) ==
  /\ {i, j, k, l, m} \subseteq Nat
  /\ i = Len(a) /\ j = i + Len(b) /\ k = j + Len(c) /\ l = k + Len(d) /\ m = l + Len(e)

ArePartsOf(all, a, b, c, d, e, f, i, j, k, l, m) ==
  /\ Len(all) = m + Len(f)
  /\ SubSeq(all, 1, i) = a /\ SubSeq(all, i + 1, j) = b /\ SubSeq(all, j + 1, k) = c
  /\ SubSeq(all, k + 1, l) = d /\ SubSeq(all, l + 1, m) = e
  /\ SubSeq(all, m + 1, m + Len(f)) = f

LEMMA SixParts ==
  ASSUME NEW V, NEW a \in Seq(V), NEW b \in Seq(V), NEW c \in Seq(V),
         NEW d \in Seq(V), NEW e \in Seq(V), NEW f \in Seq(V),
         NEW i, NEW j, NEW k, NEW l, NEW m, EndAt(a, b, c, d, e, i, j, k, l, m)
  PROVE  ArePartsOf(a \o b \o c \o d \o e \o f, a, b, c, d, e, f, i, j, k, l, m)
<1>0. /\ {i, j, k, l, m} \subseteq Nat
      /\ i = Len(a) /\ j = i + Len(b) /\ k = j + Len(c) /\ l = k + Len(d) /\ m = l + Len(e)
  BY DEF EndAt
<1> DEFINE ab == a \o b
           abc == ab \o c
           abcd == abc \o d
           abcde == abcd \o e
           all == abcde \o f
<1>1. /\ Len(a) \in Nat /\ Len(b) \in Nat /\ Len(c) \in Nat /\ Len(d) \in Nat
      /\ Len(e) \in Nat /\ Len(f) \in Nat
  BY LenProperties
<1>2. ab \in Seq(V) /\ Len(ab) = j
  BY <1>0, ConcatProperties
<1> HIDE DEF ab
<1>3. abc \in Seq(V) /\ Len(abc) = k
  BY <1>0, <1>2, ConcatProperties
<1> HIDE DEF abc
<1>4. abcd \in Seq(V) /\ Len(abcd) = l
  BY <1>0, <1>3, ConcatProperties
<1> HIDE DEF abcd
<1>5. abcde \in Seq(V) /\ Len(abcde) = m
  BY <1>0, <1>4, ConcatProperties
<1> HIDE DEF abcde
<1>6. Len(all) = m + Len(f)
  BY <1>0, <1>5, ConcatProperties
<1>7. SubSeq(all, m + 1, m + Len(f)) = f
  BY <1>0, <1>5, SliceLast
<1>8. \A p, q \in Nat : p # 0 /\ q <= m => SubSeq(all, p, q) = SubSeq(abcde, p, q)
  BY <1>0, <1>5, SliceBefore
<1>9. \A p, q \in Nat : p # 0 /\ q <= l => SubSeq(abcde, p, q) = SubSeq(abcd, p, q)
  BY <1>0, <1>4, SliceBefore DEF abcde
<1>10. \A p, q \in Nat : p # 0 /\ q <= k => SubSeq(abcd, p, q) = SubSeq(abc, p, q)
  BY <1>0, <1>3, SliceBefore DEF abcd
<1>11. \A p, q \in Nat : p # 0 /\ q <= j => SubSeq(abc, p, q) = SubSeq(ab, p, q)
  BY <1>0, <1>2, SliceBefore DEF abc
<1>12. \A p, q \in Nat : p # 0 /\ q <= i => SubSeq(ab, p, q) = SubSeq(a, p, q)
  BY <1>0, SliceBefore DEF ab
<1>13. SubSeq(a, 1, i) = a
  BY <1>0, SubSeqFull
<1>14. SubSeq(ab, i + 1, j) = b
  BY <1>0, SliceLast DEF ab
<1>15. SubSeq(abc, j + 1, k) = c
  BY <1>0, <1>2, SliceLast DEF abc
<1>16. SubSeq(abcd, k + 1, l) = d
  BY <1>0, <1>3, SliceLast DEF abcd
<1>17. SubSeq(abcde, l + 1, m) = e
  BY <1>0, <1>4, SliceLast DEF abcde
<1>18. /\ {1, i, j, k, l, m, i + 1, j + 1, k + 1, l + 1} \subseteq Nat
       /\ 1 # 0 /\ i + 1 # 0 /\ j + 1 # 0 /\ k + 1 # 0 /\ l + 1 # 0
       /\ i <= i /\ i <= j /\ i <= k /\ i <= l /\ i <= m
       /\ j <= j /\ j <= k /\ j <= l /\ j <= m
       /\ k <= k /\ k <= l /\ k <= m /\ l <= l /\ l <= m /\ m <= m
  BY <1>0, <1>1
<1> HIDE DEF all
<1>19. SubSeq(all, 1, i) = a
  <2>1. SubSeq(all, 1, i) = SubSeq(abcde, 1, i)
    BY ONLY <1>8, <1>18, Zenon
  <2>2. SubSeq(abcde, 1, i) = SubSeq(abcd, 1, i)
    BY ONLY <1>9, <1>18, Zenon
  <2>3. SubSeq(abcd, 1, i) = SubSeq(abc, 1, i)
    BY ONLY <1>10, <1>18, Zenon
  <2>4. SubSeq(abc, 1, i) = SubSeq(ab, 1, i)
    BY ONLY <1>11, <1>18, Zenon
  <2>5. SubSeq(ab, 1, i) = SubSeq(a, 1, i)
    BY ONLY <1>12, <1>18, Zenon
  <2> QED BY ONLY <2>1, <2>2, <2>3, <2>4, <2>5, <1>13, Zenon
<1>20. SubSeq(all, i + 1, j) = b
  <2>1. SubSeq(all, i + 1, j) = SubSeq(abcde, i + 1, j)
    BY ONLY <1>8, <1>18, Zenon
  <2>2. SubSeq(abcde, i + 1, j) = SubSeq(abcd, i + 1, j)
    BY ONLY <1>9, <1>18, Zenon
  <2>3. SubSeq(abcd, i + 1, j) = SubSeq(abc, i + 1, j)
    BY ONLY <1>10, <1>18, Zenon
  <2>4. SubSeq(abc, i + 1, j) = SubSeq(ab, i + 1, j)
    BY ONLY <1>11, <1>18, Zenon
  <2> QED BY ONLY <2>1, <2>2, <2>3, <2>4, <1>14, Zenon
<1>21. SubSeq(all, j + 1, k) = c
  <2>1. SubSeq(all, j + 1, k) = SubSeq(abcde, j + 1, k)
    BY ONLY <1>8, <1>18, Zenon
  <2>2. SubSeq(abcde, j + 1, k) = SubSeq(abcd, j + 1, k)
    BY ONLY <1>9, <1>18, Zenon
  <2>3. SubSeq(abcd, j + 1, k) = SubSeq(abc, j + 1, k)
    BY ONLY <1>10, <1>18, Zenon
  <2> QED BY ONLY <2>1, <2>2, <2>3, <1>15, Zenon
<1>22. SubSeq(all, k + 1, l) = d
  BY ONLY <1>8, <1>9, <1>16, <1>18, Zenon
<1>23. SubSeq(all, l + 1, m) = e
  BY ONLY <1>8, <1>17, <1>18, Zenon
<1> QED BY <1>6, <1>7, <1>19, <1>20, <1>21, <1>22, <1>23 DEF all, abcde, abcd, abc, ab, ArePartsOf

(* to_bytes and from_bytes of a page that seal made: the page reopened is  *)
(* sealed, and of the same content id (tqkv/mod.rs).                       *)
THEOREM PagesReopen ==
  ASSUME NEW p, IsSealed(p)
  PROVE  /\ IsSealed(FromBytes(ToBytes(p)))
         /\ ContentId(FromBytes(ToBytes(p))) = ContentId(p)
<1> DEFINE a == p.page.keyBytes
           b == p.page.valueBytes
           c == p.page.keyScales
           d == p.page.valueScales
           e == p.page.keyMin
           f == p.page.keyMax
           i == p.header.keyLen
           j == i + p.header.valueLen
           k == j + KvWidth
           l == k + p.header.count * KvHeads * ValueGroups
           m == l + KvWidth
           V == Int \cup (Nat \X Nat)
           all == a \o b \o c \o d \o e \o f
           q == FromBytes(ToBytes(p))
<1>1. /\ a \in Seq(0..255) /\ b \in Seq(0..255) /\ c \in Seq(Nat \X Nat) /\ d \in Seq(Nat \X Nat)
      /\ e \in Seq(Int) /\ f \in Seq(Int)
  BY DEF IsSealed
<1>2. a \in Seq(V) /\ b \in Seq(V) /\ c \in Seq(V) /\ d \in Seq(V) /\ e \in Seq(V) /\ f \in Seq(V)
  <2> DEFINE Bytes == 0..255
             Scales == Nat \X Nat
  <2>1. Bytes \subseteq V /\ Scales \subseteq V /\ Int \subseteq V
    OBVIOUS
  <2>2. /\ a \in Seq(Bytes) /\ b \in Seq(Bytes) /\ c \in Seq(Scales) /\ d \in Seq(Scales)
        /\ e \in Seq(Int) /\ f \in Seq(Int)
    BY <1>1
  <2> HIDE DEF V, Bytes, Scales, a, b, c, d, e, f
  <2>3. Seq(Bytes) \subseteq Seq(V) /\ Seq(Scales) \subseteq Seq(V) /\ Seq(Int) \subseteq Seq(V)
    BY ONLY <2>1, SeqMonotonic
  <2> QED BY ONLY <2>2, <2>3
<1>3. /\ p.precision \in Precisions /\ p.header.encoding = EncodingId[p.precision]
      /\ p.header.count = PageTokens
      /\ i = Len(a) /\ j = i + Len(b) /\ Len(c) = KvWidth
      /\ Len(d) = PageTokens * KvHeads * ValueGroups /\ Len(e) = KvWidth /\ Len(f) = KvWidth
      /\ p.header.hash = <<a, b, c, d, e, f>>
  BY DEF IsSealed, TokenCount, ContentId, ContentHash
<1>4. i \in Nat /\ j \in Nat /\ k \in Nat /\ l \in Nat /\ m \in Nat /\ KvWidth \in Nat
  <2>1. /\ Len(a) \in Nat /\ Len(b) \in Nat /\ Len(c) \in Nat /\ Len(d) \in Nat /\ Len(e) \in Nat
    BY <1>1, LenProperties
  <2>2. /\ i = Len(a) /\ j = i + Len(b) /\ k = j + Len(c) /\ l = k + Len(d) /\ m = l + Len(e)
        /\ KvWidth = Len(c)
    BY <1>3
  <2> HIDE DEF a, b, c, d, e, i, j, k, l, m
  <2> QED BY <2>1, <2>2
<1>5. k = j + Len(c) /\ l = k + Len(d) /\ m = l + Len(e)
  BY <1>3
<1>6. ToBytes(p).header = p.header /\ ToBytes(p).body = all
  BY DEF ToBytes
<1>7. PrecisionOf(p.header.encoding) = p.precision /\ p.precision # "none"
  BY <1>3 DEF PrecisionOf, EncodingId, Precisions
<1>8. q = IF PrecisionOf(p.header.encoding) = "none" \/ Len(all) < l + 2 * KvWidth THEN NoPage
          ELSE [header |-> p.header, precision |-> PrecisionOf(p.header.encoding),
                page |-> [keyBytes |-> SubSeq(all, 1, i),
                          valueBytes |-> SubSeq(all, i + 1, j),
                          keyScales |-> SubSeq(all, j + 1, k),
                          valueScales |-> SubSeq(all, k + 1, l),
                          keyMin |-> SubSeq(all, l + 1, m),
                          keyMax |-> SubSeq(all, m + 1, l + 2 * KvWidth)]]
  <2> HIDE DEF all
  <2> QED BY <1>6 DEF FromBytes
<1> HIDE DEF V, a, b, c, d, e, f, i, j, k, l, m, all, q
<1>9. ArePartsOf(all, a, b, c, d, e, f, i, j, k, l, m)
  <2>1. EndAt(a, b, c, d, e, i, j, k, l, m)
    BY <1>3, <1>4, <1>5 DEF EndAt
  <2> QED BY ONLY <1>2, <2>1, SixParts DEF all
<1>10. m + Len(f) = l + 2 * KvWidth
  BY <1>3, <1>4 DEF m
<1>11. ~(Len(all) < l + 2 * KvWidth)
  BY <1>4, <1>9, <1>10 DEF ArePartsOf
<1>12. q = [header |-> p.header, precision |-> p.precision,
            page |-> [keyBytes |-> a, valueBytes |-> b, keyScales |-> c,
                      valueScales |-> d, keyMin |-> e, keyMax |-> f]]
  BY <1>7, <1>8, <1>9, <1>10, <1>11 DEF ArePartsOf
<1>13. /\ q.header = p.header /\ q.precision = p.precision
       /\ q.page.keyBytes = a /\ q.page.valueBytes = b /\ q.page.keyScales = c
       /\ q.page.valueScales = d /\ q.page.keyMin = e /\ q.page.keyMax = f
  BY <1>12
<1>14. ContentId(q) = ContentId(p) /\ ContentId(q) = ContentHash(q.page)
  BY <1>3, <1>13 DEF ContentId, ContentHash
<1>15. IsSealed(q)
  BY <1>13, <1>14 DEF IsSealed, TokenCount, a, b, c, d, e, f
<1> QED BY <1>14, <1>15 DEF q

(* A content id names what a page says of its tokens: pages of one content *)
(* id are of one precision.                                                *)
LEMMA IdsNamePages ==
  ASSUME NEW p, NEW q, IsSealed(p), IsSealed(q), ContentId(p) = ContentId(q),
         NEW tokens, NEW base, PageKeeps(p, tokens, base)
  PROVE  PageKeeps(q, tokens, base)
<1> DEFINE n == PageTokens * KvWidth
<1>1. /\ p.page.keyBytes = q.page.keyBytes /\ p.page.valueBytes = q.page.valueBytes
      /\ p.page.keyScales = q.page.keyScales /\ p.page.valueScales = q.page.valueScales
  <2>1. ContentHash(p.page) = ContentHash(q.page)
    BY DEF IsSealed
  <2> QED BY <2>1 DEF ContentHash
<1>2. n \in Nat /\ n >= 2
  <2>1. PageTokens \in Nat \ {0} /\ KvWidth \in Nat \ {0}
    BY PageSizes
  <2>2. KvWidth % 2 = 0
    BY KvPagesAssumption DEF KvWidth
  <2>3. KvWidth >= 2
    BY <2>1, <2>2
  <2>4. \A x \in Nat \ {0}, y \in Nat : y >= 2 => x * y \in Nat /\ x * y >= 2
    <3> SUFFICES ASSUME NEW x \in Nat \ {0}, NEW y \in Nat, y >= 2
                 PROVE  x * y \in Nat /\ x * y >= 2
      OBVIOUS
    <3>1. x * y = (x - 1) * y + y /\ (x - 1) * y \in Nat
      OBVIOUS
    <3> QED BY <3>1
  <2> QED BY <2>1, <2>3, <2>4
<1> HIDE DEF n
<1>3. PackedBytes("q8", n) # PackedBytes("q4", n)
  BY <1>2 DEF PackedBytes
<1>4. /\ Len(p.page.keyBytes) = PackedBytes(p.precision, n) /\ p.precision \in {"q8", "q4"}
      /\ Len(q.page.keyBytes) = PackedBytes(q.precision, n) /\ q.precision \in {"q8", "q4"}
  BY DEF IsSealed, Precisions, n
<1>5. p.precision = q.precision
  BY <1>1, <1>3, <1>4
<1>6. \A t, head : /\ DecodeKey(p, t, head) = DecodeKey(q, t, head)
                   /\ DecodeValue(p, t, head) = DecodeValue(q, t, head)
  BY <1>1, <1>5, Zenon DEF DecodeKey, DecodeValue
<1> QED BY <1>6, Zenon DEF PageKeeps

-----------------------------------------------------------------------------
(***************************************************************************)
(* A layer's cache: whole pages of the tokens at their places and a tail of *)
(* fewer, kept by every push, every seal of a tail and every restoration.  *)
(***************************************************************************)
(* TqkvPagedCache::len of a cache of whole pages and a tail.               *)
LEMMA CacheLenOf ==
  ASSUME NEW c, NEW n \in Nat, Len(c.sealed) = n, \A i \in 1..n : TokenCount(c.sealed[i]) = PageTokens
  PROVE  CacheLen(c) = n * PageTokens + TailLen(c)
<1> DEFINE value(u, i) == IF i = 0 THEN 0 ELSE u[i - 1] + TokenCount(c.sealed[i])
           Solves(u) == u = [i \in 0..n |-> value(u, i)]
           held == CHOOSE u : Solves(u)
<1>1. PageTokens \in Nat
  BY PageSizes
<1>2. \E u : Solves(u)
  <2> DEFINE g == [i \in 0..n |-> i * PageTokens]
  <2>1. \A i \in 0..n : g[i] = value(g, i)
    <3> SUFFICES ASSUME NEW i \in 0..n PROVE g[i] = value(g, i)
      OBVIOUS
    <3>1. CASE i = 0
      BY <1>1, <3>1
    <3>2. CASE i # 0
      <4>1. i - 1 \in 0..n /\ i \in 1..n /\ (i - 1) * PageTokens + PageTokens = i * PageTokens
        BY <1>1, <3>2
      <4>2. g[i - 1] = (i - 1) * PageTokens
        BY <4>1
      <4> HIDE DEF g
      <4>3. value(g, i) = g[i - 1] + TokenCount(c.sealed[i])
        BY <3>2
      <4> QED BY <4>1, <4>2, <4>3 DEF g
    <3> QED BY <3>1, <3>2
  <2>2. Solves(g)
    <3>1. g = [i \in 0..n |-> g[i]]
      OBVIOUS
    <3> HIDE DEF g, value
    <3> QED BY <2>1, <3>1
  <2> QED BY <2>2
<1>3. Solves(held)
  <2> HIDE DEF Solves
  <2> QED BY <1>2
<1> HIDE DEF held
<1>4. \A i \in 0..n : held[i] = value(held, i)
  <2> HIDE DEF value
  <2> QED BY <1>3
<1> DEFINE S == {k \in 0..n : held[k] = k * PageTokens}
<1>5. 0 \in S
  BY <1>1, <1>4
<1>6. ASSUME NEW k \in 0..(n - 1), k \in S PROVE k + 1 \in S
  <2>1. k + 1 \in 0..n /\ k + 1 # 0 /\ (k + 1) - 1 = k /\ k + 1 \in 1..n
    OBVIOUS
  <2>3. k * PageTokens + PageTokens = (k + 1) * PageTokens
    <3>1. \A x, y \in Nat : x * y + y = (x + 1) * y
      OBVIOUS
    <3> QED BY <1>1, <3>1
  <2>2. held[k + 1] = held[k] + TokenCount(c.sealed[k + 1])
    BY <1>4, <2>1
  <2> QED BY <1>6, <2>1, <2>2, <2>3
<1> HIDE DEF S
<1>7. 0..n \subseteq S
  BY <1>5, <1>6, ClimbingTo
<1>8. held[n] = n * PageTokens
  BY <1>7 DEF S
<1>9. CacheLen(c) = held[n] + TailLen(c)
  BY Zenon DEF CacheLen, held
<1> QED BY <1>8, <1>9

(* The bounds of a history's keys, and of a token's value.                 *)
LEMMA MaxKeyCovers ==
  ASSUME NEW tokens, NEW n \in Nat \ {0}, DOMAIN tokens = 1..n, Len(tokens) = n,
         HasNumbers(tokens), NEW slot \in 1..KvWidth
  PROVE  /\ MaxKey(tokens, slot) \in Nat
         /\ \A i \in 1..n : Abs(KeyOf[tokens[i]][i - 1][slot]) <= MaxKey(tokens, slot)
         /\ \E i \in 1..n : MaxKey(tokens, slot) = Abs(KeyOf[tokens[i]][i - 1][slot])
<1> DEFINE f == [i \in 1..n |-> Abs(KeyOf[tokens[i]][i - 1][slot])]
           M == Largest({f[i] : i \in 1..n})
<1>1. \A i \in 1..n : f[i] = Abs(KeyOf[tokens[i]][i - 1][slot]) /\ f[i] \in Nat
  <2>1. \A x \in Int : Abs(x) \in Nat
    BY DEF Abs
  <2>2. \A i \in 1..n : KeyOf[tokens[i]][i - 1] \in [1..KvWidth -> Int]
    BY DEF HasNumbers
  <2>3. \A i \in 1..n : KeyOf[tokens[i]][i - 1][slot] \in Int
    BY <2>2
  <2>4. \A i \in 1..n : f[i] = Abs(KeyOf[tokens[i]][i - 1][slot])
    OBVIOUS
  <2> HIDE DEF f
  <2> QED BY <2>1, <2>3, <2>4
<1>2. {f[i] : i \in 1..n} = {Abs(KeyOf[tokens[i]][i - 1][slot]) : i \in DOMAIN tokens}
  BY <1>1
<1>3. MaxKey(tokens, slot) = M
  BY <1>2 DEF MaxKey
<1>4. M \in {f[i] : i \in 1..n} /\ \A i \in 1..n : f[i] <= M
  <2>1. n \in Nat \ {0} /\ \A i \in 1..n : f[i] \in Int
    BY <1>1
  <2> HIDE DEF f
  <2> QED BY ONLY <2>1, LargestOf
<1> HIDE DEF f, M
<1> QED BY <1>1, <1>3, <1>4

LEMMA MaxValueCovers ==
  ASSUME NEW token, ValueOf[token] \in [1..KvWidth -> Int]
  PROVE  /\ MaxValue(token) \in Nat
         /\ \A slot \in 1..KvWidth : Abs(ValueOf[token][slot]) <= MaxValue(token)
<1> DEFINE f == [slot \in 1..KvWidth |-> Abs(ValueOf[token][slot])]
           M == Largest({f[slot] : slot \in 1..KvWidth})
<1>1. \A slot \in 1..KvWidth : f[slot] = Abs(ValueOf[token][slot]) /\ f[slot] \in Nat
  <2>1. \A x \in Int : Abs(x) \in Nat
    BY DEF Abs
  <2>3. \A slot \in 1..KvWidth : ValueOf[token][slot] \in Int
    OBVIOUS
  <2>4. \A slot \in 1..KvWidth : f[slot] = Abs(ValueOf[token][slot])
    OBVIOUS
  <2> HIDE DEF f
  <2> QED BY <2>1, <2>3, <2>4
<1>2. {f[slot] : slot \in 1..KvWidth} = {Abs(ValueOf[token][slot]) : slot \in 1..KvWidth}
  BY <1>1
<1>3. MaxValue(token) = M
  BY <1>2 DEF MaxValue
<1>4. M \in {f[slot] : slot \in 1..KvWidth} /\ \A slot \in 1..KvWidth : f[slot] <= M
  <2>1. KvWidth \in Nat \ {0} /\ \A slot \in 1..KvWidth : f[slot] \in Int
    BY <1>1, PageSizes
  <2> HIDE DEF f
  <2> QED BY ONLY <2>1, LargestOf
<1> HIDE DEF f, M
<1> QED BY <1>1, <1>3, <1>4

(* What is near under a bound is near under a larger one.                  *)
LEMMA NearGrows ==
  ASSUME NEW read \in Int \X Nat, NEW n \in Int, NEW most \in Nat, NEW more \in Nat,
         most <= more, Near(read, n, most)
  PROVE  Near(read, n, more)
<1>1. read[1] \in Int /\ read[2] \in Nat /\ read[1] - n * read[2] \in Int
  OBVIOUS
<1>2. most * read[2] \in Int /\ more * read[2] \in Int /\ most * read[2] <= more * read[2]
  <2>1. \A x, y, z \in Nat : x <= y => x * z \in Int /\ y * z \in Int /\ x * z <= y * z
    OBVIOUS
  <2> QED BY <1>1, <2>1
<1>3. 2 * ClampAbs.q4 * Abs(read[1] - n * read[2]) \in Int
  BY <1>1 DEF Abs, ClampAbs
<1> QED BY <1>2, <1>3 DEF Near

(* unpack_codes and the scales give numbers wherever a page has a token.   *)
LEMMA CodesAreNumbers ==
  ASSUME NEW precision \in Precisions, NEW n \in Nat, NEW bytes \in Seq(0..255),
         Len(bytes) = PackedBytes(precision, n), NEW at \in 0..(n - 1)
  PROVE  UnpackCode(bytes, at, precision) \in Int
<1>1. \A x \in Int, half \in Int : Signed(x, half) \in Int
  BY DEF Signed
<1>2. DOMAIN bytes = 1..Len(bytes) /\ \A i \in 1..Len(bytes) : bytes[i] \in Int
  <2> DEFINE Bytes == 0..255
  <2>1. bytes \in Seq(Bytes) /\ Bytes \subseteq Int
    OBVIOUS
  <2> HIDE DEF Bytes
  <2>2. DOMAIN bytes = 1..Len(bytes) /\ \A i \in 1..Len(bytes) : bytes[i] \in Bytes
    BY ONLY <2>1, ElementOfSeq, LenProperties
  <2> QED BY <2>1, <2>2
<1>3. CASE precision = "q8"
  <2>1. at + 1 \in 1..Len(bytes)
    BY <1>3 DEF PackedBytes
  <2> DEFINE code == bytes[at + 1]
  <2>2. code \in Int
    BY <1>2, <2>1
  <2>3. UnpackCode(bytes, at, precision) = Signed(code, 128)
    BY <1>3 DEF UnpackCode
  <2> HIDE DEF code
  <2>4. Signed(code, 128) \in Int
    BY ONLY <1>1, <2>2
  <2> QED BY <2>3, <2>4
<1>4. CASE precision = "q4"
  <2> DEFINE byte == bytes[(at \div 2) + 1]
  <2>1. (at \div 2) + 1 \in 1..Len(bytes)
    BY <1>4 DEF PackedBytes
  <2>2. byte \in Int
    BY <1>2, <2>1
  <2> HIDE DEF byte
  <2> DEFINE code == IF at % 2 = 0 THEN byte % 16 ELSE byte \div 16
  <2>3. code \in Int
    BY <2>2
  <2>4. UnpackCode(bytes, at, precision) = Signed(code, 8)
    BY <1>4 DEF UnpackCode, byte
  <2> HIDE DEF code
  <2>5. Signed(code, 8) \in Int
    BY ONLY <1>1, <2>3
  <2> QED BY <2>4, <2>5
<1> QED BY <1>3, <1>4 DEF Precisions

LEMMA DecodesToNumbers ==
  ASSUME NEW p, IsSealed(p), NEW t \in 1..PageTokens,
         NEW head \in 0..(KvHeads - 1), NEW d \in 1..HeadDim
  PROVE  DecodeKey(p, t - 1, head)[d] \in Int \X Nat /\ DecodeValue(p, t - 1, head)[d] \in Int \X Nat
<1> DEFINE at == SlotAt(t - 1, head, d - 1)
           slot == head * HeadDim + d
           group == ((t - 1) * KvHeads + head) * ValueGroups + ((d - 1) \div ValueGroup)
           n == PageTokens * KvWidth
<1>1. /\ KvHeads \in Nat \ {0} /\ PageTokens \in Nat \ {0} /\ KvWidth \in Nat \ {0}
      /\ ValueGroups \in Nat \ {0}
  BY PageSizes
<1>2. /\ at \in 0..(n - 1) /\ slot \in 1..KvWidth
      /\ group \in 0..(PageTokens * (KvHeads * ValueGroups) - 1)
  BY Places
<1>3. /\ p.page.keyBytes \in Seq(0..255) /\ p.page.valueBytes \in Seq(0..255)
      /\ Len(p.page.keyBytes) = PackedBytes(p.precision, n)
      /\ Len(p.page.valueBytes) = PackedBytes(p.precision, n)
      /\ p.page.keyScales \in Seq(Nat \X Nat) /\ p.page.valueScales \in Seq(Nat \X Nat)
      /\ Len(p.page.keyScales) = KvWidth /\ Len(p.page.valueScales) = PageTokens * KvHeads * ValueGroups
      /\ p.precision \in Precisions
  BY DEF IsSealed
<1>4. n \in Nat
  BY <1>1
<1>5. PageTokens * KvHeads * ValueGroups = PageTokens * (KvHeads * ValueGroups)
  <2>1. \A x, y, z \in Nat : x * y * z = x * (y * z)
    OBVIOUS
  <2> QED BY <1>1, <2>1
<1>6. DecodeKey(p, t - 1, head)[d]
        = Decoded(UnpackCode(p.page.keyBytes, at, p.precision), p.page.keyScales[slot])
  BY DEF DecodeKey
<1>7. DecodeValue(p, t - 1, head)[d] =
        Decoded(UnpackCode(p.page.valueBytes, at, p.precision), p.page.valueScales[group + 1])
  BY DEF DecodeValue
<1>8. group + 1 \in 1..(PageTokens * (KvHeads * ValueGroups))
  <2>1. PageTokens * (KvHeads * ValueGroups) \in Nat
    BY <1>1
  <2> HIDE DEF group
  <2> QED BY <1>2, <2>1
<1> HIDE DEF at, slot, group, n
<1>9. /\ UnpackCode(p.page.keyBytes, at, p.precision) \in Int
      /\ UnpackCode(p.page.valueBytes, at, p.precision) \in Int
  BY ONLY <1>2, <1>3, <1>4, CodesAreNumbers
<1>10. p.page.keyScales[slot] \in Nat \X Nat /\ p.page.valueScales[group + 1] \in Nat \X Nat
  <2> DEFINE Pairs == Nat \X Nat
             ks == p.page.keyScales
             vs == p.page.valueScales
  <2>1. ks \in Seq(Pairs) /\ vs \in Seq(Pairs) /\ slot \in 1..Len(ks) /\ group + 1 \in 1..Len(vs)
    BY <1>2, <1>3, <1>5, <1>8
  <2> HIDE DEF Pairs, ks, vs
  <2>2. ks[slot] \in Pairs /\ vs[group + 1] \in Pairs
    BY ONLY <2>1, ElementOfSeq
  <2> QED BY <2>2 DEF Pairs, ks, vs
<1>11. \A code \in Int, scale \in Nat \X Nat : Decoded(code, scale) \in Int \X Nat
  BY DEF Decoded
<1> QED BY <1>6, <1>7, <1>9, <1>10, <1>11

(* A page that kept its tokens still does when another token follows.      *)
LEMMA PageStays ==
  ASSUME NEW p, IsSealed(p), NEW S, NEW tokens \in Seq(S), NEW token \in S,
         HasNumbers(Append(tokens, token)), NEW base \in Nat, base + PageTokens <= Len(tokens),
         PageKeeps(p, tokens, base)
  PROVE  PageKeeps(p, Append(tokens, token), base)
<1> DEFINE more == Append(tokens, token)
           n == Len(tokens)
<1>1. /\ more \in Seq(S) /\ Len(more) = n + 1 /\ \A i \in 1..n : more[i] = tokens[i]
      /\ DOMAIN tokens = 1..n /\ DOMAIN more = 1..(n + 1) /\ n \in Nat
  BY AppendProperties, LenProperties
<1>2. PageTokens \in Nat \ {0}
  BY PageSizes
<1> HIDE DEF more, n
<1>3. HasNumbers(more) /\ HasNumbers(tokens)
  <2>1. HasNumbers(more)
    BY DEF more
  <2>2. ASSUME NEW i \in 1..n
        PROVE  KeyOf[tokens[i]][i - 1] \in [1..KvWidth -> Int] /\ ValueOf[tokens[i]] \in [1..KvWidth -> Int]
    <3>1. i \in 1..(n + 1) /\ more[i] = tokens[i]
      BY <1>1
    <3> QED BY <1>1, <2>1, <3>1 DEF HasNumbers
  <2> QED BY <2>1, <2>2 DEF HasNumbers, n
<1>4. ASSUME NEW slot \in 1..KvWidth
      PROVE  /\ MaxKey(tokens, slot) \in Nat /\ MaxKey(more, slot) \in Nat
             /\ MaxKey(tokens, slot) <= MaxKey(more, slot)
  <2>1. n \in Nat \ {0} /\ n + 1 \in Nat \ {0} /\ 1..n \subseteq 1..(n + 1) /\ Len(tokens) = n
    BY <1>1, <1>2 DEF n
  <2>2. /\ MaxKey(tokens, slot) \in Nat
        /\ \E i \in 1..n : MaxKey(tokens, slot) = Abs(KeyOf[tokens[i]][i - 1][slot])
    BY <1>1, <1>3, <2>1, MaxKeyCovers
  <2>3. /\ MaxKey(more, slot) \in Nat
        /\ \A i \in 1..(n + 1) : Abs(KeyOf[more[i]][i - 1][slot]) <= MaxKey(more, slot)
    BY <1>1, <1>3, <2>1, MaxKeyCovers
  <2>4. PICK i \in 1..n : MaxKey(tokens, slot) = Abs(KeyOf[tokens[i]][i - 1][slot])
    BY <2>2
  <2>5. Abs(KeyOf[more[i]][i - 1][slot]) <= MaxKey(more, slot) /\ more[i] = tokens[i]
    BY <1>1, <2>1, <2>3
  <2> QED BY <2>2, <2>3, <2>4, <2>5
<1>5. ASSUME NEW t \in 1..PageTokens, NEW head \in 0..(KvHeads - 1), NEW d \in 1..HeadDim
      PROVE  LET slot == head * HeadDim + d
             IN  /\ Near(DecodeKey(p, t - 1, head)[d], KeyOf[more[base + t]][base + t - 1][slot],
                         MaxKey(more, slot))
                 /\ Near(DecodeValue(p, t - 1, head)[d], ValueOf[more[base + t]][slot],
                         MaxValue(more[base + t]))
  <2> DEFINE slot == head * HeadDim + d
             at == base + t
  <2>1. slot \in 1..KvWidth
    BY Places
  <2>2. at \in 1..n
    BY <1>1, <1>2 DEF n
  <2>3. more[at] = tokens[at]
    BY <1>1, <2>2
  <2>4. /\ Near(DecodeKey(p, t - 1, head)[d], KeyOf[tokens[at]][at - 1][slot], MaxKey(tokens, slot))
        /\ Near(DecodeValue(p, t - 1, head)[d], ValueOf[tokens[at]][slot], MaxValue(tokens[at]))
    BY DEF PageKeeps, IsNear
  <2> HIDE DEF slot, at
  <2>5. KeyOf[tokens[at]][at - 1][slot] \in Int
    <3>1. KeyOf[tokens[at]][at - 1] \in [1..KvWidth -> Int]
      BY <1>3, <2>2 DEF HasNumbers, n
    <3> QED BY <2>1, <3>1
  <2>6. DecodeKey(p, t - 1, head)[d] \in Int \X Nat
    BY DecodesToNumbers
  <2>7. Near(DecodeKey(p, t - 1, head)[d], KeyOf[tokens[at]][at - 1][slot], MaxKey(more, slot))
    BY <1>4, <2>1, <2>4, <2>5, <2>6, NearGrows
  <2> QED BY <2>3, <2>4, <2>7 DEF at, slot
<1>6. PageKeeps(p, more, base)
  BY <1>5 DEF PageKeeps, IsNear
<1> QED BY <1>6 DEF more

(* SealedPage::seal of a page of the tokens behind `base`.                 *)
LEMMA SealedPageKeeps ==
  ASSUME NEW p, NEW keys, NEW values, ReadsNear(p, keys, values),
         NEW S, NEW tokens \in Seq(S), HasNumbers(tokens),
         NEW base \in Nat, base + PageTokens <= Len(tokens),
         \A t \in 1..PageTokens :
           keys[t] = Row(tokens, base + t).key /\ values[t] = Row(tokens, base + t).value
  PROVE  PageKeeps(p, tokens, base)
<1> DEFINE n == Len(tokens)
<1>1. DOMAIN tokens = 1..n /\ n \in Nat
  BY LenProperties
<1>2. PageTokens \in Nat \ {0}
  BY PageSizes
<1>3. n \in Nat \ {0}
  BY <1>1, <1>2
<1>4. \A t \in 1..PageTokens : /\ base + t \in 1..n
                               /\ keys[t] = KeyOf[tokens[base + t]][(base + t) - 1]
                               /\ values[t] = ValueOf[tokens[base + t]]
  BY <1>1, <1>2 DEF Row
<1>5. ASSUME NEW t \in 1..PageTokens, NEW head \in 0..(KvHeads - 1), NEW d \in 1..HeadDim
      PROVE  LET slot == head * HeadDim + d
             IN  /\ Near(DecodeKey(p, t - 1, head)[d], KeyOf[tokens[base + t]][base + t - 1][slot],
                         MaxKey(tokens, slot))
                 /\ Near(DecodeValue(p, t - 1, head)[d], ValueOf[tokens[base + t]][slot],
                         MaxValue(tokens[base + t]))
  <2> DEFINE slot == head * HeadDim + d
             token == tokens[base + t]
  <2>1. slot \in 1..KvWidth
    BY Places
  <2>2. \A most \in Nat :
          /\ (\A u \in 1..PageTokens : Abs(keys[u][slot]) <= most)
                => Near(DecodeKey(p, t - 1, head)[d], keys[t][slot], most)
          /\ (\A s \in 1..KvWidth : Abs(values[t][s]) <= most)
                => Near(DecodeValue(p, t - 1, head)[d], values[t][slot], most)
    BY DEF ReadsNear
  <2> HIDE DEF slot, n
  <2>3. /\ MaxKey(tokens, slot) \in Nat
        /\ \A i \in 1..n : Abs(KeyOf[tokens[i]][i - 1][slot]) <= MaxKey(tokens, slot)
    BY <1>1, <1>3, <2>1, MaxKeyCovers DEF n
  <2>4. \A u \in 1..PageTokens : Abs(keys[u][slot]) <= MaxKey(tokens, slot)
    BY <1>4, <2>3
  <2>5. ValueOf[token] \in [1..KvWidth -> Int]
    BY <1>4 DEF HasNumbers, n
  <2> HIDE DEF token
  <2>6. MaxValue(token) \in Nat /\ \A s \in 1..KvWidth : Abs(ValueOf[token][s]) <= MaxValue(token)
    BY <2>5, MaxValueCovers
  <2>7. values[t] = ValueOf[token]
    BY <1>4 DEF token
  <2>8. Near(DecodeKey(p, t - 1, head)[d], keys[t][slot], MaxKey(tokens, slot))
    BY <2>2, <2>3, <2>4
  <2>9. Near(DecodeValue(p, t - 1, head)[d], values[t][slot], MaxValue(token))
    BY <2>2, <2>6, <2>7
  <2> QED BY <1>4, <2>8, <2>9 DEF token, slot
<1> QED BY <1>5 DEF PageKeeps, IsNear

(* key() and value() of a cache that holds a history.                      *)
LEMMA HoldsReads ==
  ASSUME NEW c, NEW S, NEW tokens \in Seq(S), HasNumbers(tokens), CacheHolds(c, tokens)
  PROVE  /\ CacheLen(c) = Len(tokens)
         /\ \A i \in 1..Len(tokens), head \in 0..(KvHeads - 1) :
              IsNear(KeyAt(c, i - 1, head), ValueAt(c, i - 1, head), tokens, i, head)
<1> DEFINE n == Len(tokens)
           k == Len(c.sealed)
           m == k * PageTokens
<1>1. DOMAIN tokens = 1..n /\ n \in Nat
  BY LenProperties
<1>2. PageTokens \in Nat \ {0}
  BY PageSizes
<1>3. /\ c.sealed \in Seq(ToSet(c.sealed)) /\ c.tail \in Seq(ToSet(c.tail))
      /\ m + Len(c.tail) = n
      /\ \A i \in 1..k : IsSealed(c.sealed[i]) /\ PageKeeps(c.sealed[i], tokens, (i - 1) * PageTokens)
      /\ \A i \in 1..Len(c.tail) : c.tail[i] = Row(tokens, m + i)
  BY DEF CacheHolds
<1>4. k \in Nat /\ Len(c.tail) \in Nat /\ m \in Nat
  BY <1>2, <1>3, LenProperties
<1>5. CacheLen(c) = m + TailLen(c)
  <2>1. \A i \in 1..k : TokenCount(c.sealed[i]) = PageTokens
    BY <1>3 DEF IsSealed
  <2> QED BY <1>4, <2>1, CacheLenOf
<1>6. CacheLen(c) = n /\ CacheLen(c) - TailLen(c) = m
  BY <1>1, <1>3, <1>4, <1>5 DEF TailLen
<1>7. ASSUME NEW i \in 1..n, NEW head \in 0..(KvHeads - 1)
      PROVE  IsNear(KeyAt(c, i - 1, head), ValueAt(c, i - 1, head), tokens, i, head)
  <2>1. CASE i - 1 < m
    <3> DEFINE q == (i - 1) \div PageTokens
               r == (i - 1) % PageTokens
               page == c.sealed[q + 1]
    <3>1. /\ KeyAt(c, i - 1, head) = DecodeKey(page, r, head)
          /\ ValueAt(c, i - 1, head) = DecodeValue(page, r, head)
      <4> HIDE DEF m
      <4> QED BY <1>6, <2>1 DEF KeyAt, ValueAt
    <3>2. q \in 0..(k - 1) /\ r \in 0..(PageTokens - 1) /\ i - 1 = PageTokens * q + r
      <4> DEFINE a == i - 1
      <4>1. a \in Nat /\ a < k * PageTokens
        BY <1>1, <2>1
      <4> HIDE DEF a
      <4> QED BY <1>2, <1>4, <4>1, QuotientBelow, RemainderIsLess, Division DEF a
    <3> HIDE DEF q, r, m, n
    <3>3. /\ q + 1 \in 1..k /\ r + 1 \in 1..PageTokens /\ (q + 1) - 1 = q /\ (r + 1) - 1 = r
          /\ q * PageTokens + (r + 1) = i
      <4>1. \A x, y \in Nat : x * y = y * x /\ x * y \in Nat
        OBVIOUS
      <4>2. i \in Nat /\ q \in Nat /\ r \in Nat
        BY <1>1, <1>2, <1>4, <3>2
      <4>3. PageTokens * q = q * PageTokens /\ PageTokens * q \in Nat
        BY <1>2, <4>1, <4>2
      <4> QED BY <1>2, <1>4, <3>2, <4>2, <4>3
    <3>4. PageKeeps(page, tokens, q * PageTokens)
      BY <1>3, <3>3
    <3> HIDE DEF page
    <3>5. IsNear(DecodeKey(page, r, head), DecodeValue(page, r, head), tokens, i, head)
      <4>1. IsNear(DecodeKey(page, (r + 1) - 1, head), DecodeValue(page, (r + 1) - 1, head), tokens,
                   q * PageTokens + (r + 1), head)
        BY <3>3, <3>4 DEF PageKeeps
      <4> QED BY <3>3, <4>1
    <3> QED BY <3>1, <3>5
  <2>2. CASE ~(i - 1 < m)
    <3>1. /\ KeyAt(c, i - 1, head) = Exact(c.tail[i - 1 - m + 1].key, head)
          /\ ValueAt(c, i - 1, head) = Exact(c.tail[i - 1 - m + 1].value, head)
      <4> HIDE DEF m
      <4> QED BY <1>6, <2>2 DEF KeyAt, ValueAt
    <3> HIDE DEF m
    <3>2. i - 1 - m + 1 \in 1..Len(c.tail) /\ m + (i - 1 - m + 1) = i
      BY <1>1, <1>3, <1>4, <2>2
    <3>3. c.tail[i - 1 - m + 1] = Row(tokens, i)
      BY <1>3, <3>2
    <3>4. /\ KeyAt(c, i - 1, head) = Exact(KeyOf[tokens[i]][i - 1], head)
          /\ ValueAt(c, i - 1, head) = Exact(ValueOf[tokens[i]], head)
      BY <3>1, <3>3 DEF Row
    <3>5. KeyOf[tokens[i]][i - 1] \in [1..KvWidth -> Int] /\ ValueOf[tokens[i]] \in [1..KvWidth -> Int]
      BY DEF HasNumbers
    <3>6. n \in Nat \ {0}
      BY <1>1
    <3>7. \A x \in Int, most \in Nat : Near(<<x, 1>>, x, most)
      BY DEF Near, Abs, ClampAbs
    <3>8. MaxValue(tokens[i]) \in Nat
      BY <3>5, MaxValueCovers
    <3>9. ASSUME NEW d \in 1..HeadDim
          PROVE  LET slot == head * HeadDim + d
                 IN  /\ Near(Exact(KeyOf[tokens[i]][i - 1], head)[d], KeyOf[tokens[i]][i - 1][slot],
                             MaxKey(tokens, slot))
                     /\ Near(Exact(ValueOf[tokens[i]], head)[d], ValueOf[tokens[i]][slot],
                             MaxValue(tokens[i]))
      <4> DEFINE slot == head * HeadDim + d
      <4>1. slot \in 1..KvWidth
        <5>1. 1 \in 1..PageTokens
          BY <1>2
        <5> QED BY <5>1, Places
      <4>2. /\ Exact(KeyOf[tokens[i]][i - 1], head)[d] = <<KeyOf[tokens[i]][i - 1][slot], 1>>
            /\ Exact(ValueOf[tokens[i]], head)[d] = <<ValueOf[tokens[i]][slot], 1>>
        BY DEF Exact
      <4> HIDE DEF slot
      <4>3. MaxKey(tokens, slot) \in Nat
        BY <1>1, <3>6, <4>1, MaxKeyCovers
      <4>4. KeyOf[tokens[i]][i - 1][slot] \in Int /\ ValueOf[tokens[i]][slot] \in Int
        BY <3>5, <4>1
      <4> QED BY <3>7, <3>8, <4>2, <4>3, <4>4 DEF slot
    <3>10. IsNear(Exact(KeyOf[tokens[i]][i - 1], head), Exact(ValueOf[tokens[i]], head), tokens, i, head)
      BY <3>9 DEF IsNear
    <3> QED BY <3>4, <3>10
  <2> QED BY <2>1, <2>2
<1> QED BY <1>6, <1>7

(* What a snapshot refers to holds the history, if the page files are what *)
(* their content ids name.                                                 *)
LEMMA ReopenHolds ==
  ASSUME NEW c, NEW tokens, CacheHolds(c, tokens), NEW files,
         \A i \in 1..Len(c.sealed) :
           /\ IsSealed(FromBytes(files[ContentId(c.sealed[i])]))
           /\ ContentId(FromBytes(files[ContentId(c.sealed[i])])) = ContentId(c.sealed[i])
  PROVE  LET ids == [i \in DOMAIN c.sealed |-> ContentId(c.sealed[i])]
         IN  CacheHolds([sealed |-> [i \in DOMAIN ids |-> FromBytes(files[ids[i]])],
                         tail |-> c.tail, nextId |-> Len(ids)], tokens)
<1> DEFINE k == Len(c.sealed)
           ids == [i \in DOMAIN c.sealed |-> ContentId(c.sealed[i])]
           pages == [i \in DOMAIN ids |-> FromBytes(files[ids[i]])]
           d == [sealed |-> pages, tail |-> c.tail, nextId |-> Len(ids)]
<1>1. /\ c.sealed \in Seq(ToSet(c.sealed)) /\ c.tail \in Seq(ToSet(c.tail))
      /\ k * PageTokens + Len(c.tail) = Len(tokens)
      /\ \A i \in 1..k : IsSealed(c.sealed[i]) /\ PageKeeps(c.sealed[i], tokens, (i - 1) * PageTokens)
      /\ \A i \in 1..Len(c.tail) : c.tail[i] = Row(tokens, k * PageTokens + i)
  BY DEF CacheHolds
<1>2. k \in Nat /\ DOMAIN c.sealed = 1..k
  BY <1>1, LenProperties
<1>3. DOMAIN ids = 1..k /\ \A i \in 1..k : ids[i] = ContentId(c.sealed[i])
  BY <1>2
<1>4. DOMAIN pages = 1..k /\ \A i \in 1..k : pages[i] = FromBytes(files[ContentId(c.sealed[i])])
  BY <1>3
<1>5. Len(ids) = k
  <2> DEFINE Ids == {ids[i] : i \in 1..k}
  <2>1. ids = [i \in 1..k |-> ids[i]] /\ \A i \in 1..k : ids[i] \in Ids
    BY <1>3
  <2> HIDE DEF ids, Ids
  <2> QED BY ONLY <1>2, <1>3, <2>1, FunctionIsSequenceOf
<1>6. pages \in Seq(ToSet(pages)) /\ Len(pages) = k
  <2>1. pages = [i \in 1..k |-> pages[i]] /\ \A i \in 1..k : pages[i] \in ToSet(pages)
    <3>1. pages = [i \in 1..k |-> pages[i]]
      BY <1>4
    <3> HIDE DEF pages
    <3> QED BY <1>4, <3>1 DEF ToSet
  <2> HIDE DEF pages
  <2> QED BY ONLY <1>2, <1>4, <2>1, FunctionIsSequenceOf
<1> HIDE DEF ids, pages
<1>7. /\ d.sealed = pages /\ d.tail = c.tail
      /\ d \in [sealed : Seq(ToSet(pages)), tail : Seq(ToSet(c.tail)), nextId : Nat]
  BY <1>1, <1>2, <1>5, <1>6
<1>8. \A i \in 1..k : IsSealed(pages[i]) /\ PageKeeps(pages[i], tokens, (i - 1) * PageTokens)
  BY <1>1, <1>4, IdsNamePages
<1> HIDE DEF d, k
<1>9. CacheHolds(d, tokens)
  BY <1>1, <1>6, <1>7, <1>8 DEF CacheHolds
<1> QED BY <1>9 DEF d, pages, ids

(* TqkvPagedCache::push without seal_tail.                                 *)
LEMMA GrownHolds ==
  ASSUME NEW c, NEW S, NEW tokens \in Seq(S), NEW token \in S, CacheHolds(c, tokens),
         HasNumbers(Append(tokens, token))
  PROVE  LET grown == [c EXCEPT !.tail = Append(@, Row(Append(tokens, token), Len(tokens) + 1))]
         IN  /\ CacheHolds(grown, Append(tokens, token))
             /\ grown.sealed = c.sealed /\ grown.nextId = c.nextId
             /\ TailLen(grown) = TailLen(c) + 1
<1> DEFINE n == Len(tokens)
           k == Len(c.sealed)
           m == k * PageTokens
           more == Append(tokens, token)
           row == Row(more, n + 1)
           tail == Append(c.tail, row)
           grown == [c EXCEPT !.tail = tail]
           j == Len(c.tail)
<1>1. /\ n \in Nat /\ more \in Seq(S) /\ Len(more) = n + 1 /\ \A i \in 1..n : more[i] = tokens[i]
  BY AppendProperties, LenProperties
<1>2. PageTokens \in Nat \ {0}
  BY PageSizes
<1>3. /\ c \in [sealed : Seq(ToSet(c.sealed)), tail : Seq(ToSet(c.tail)), nextId : Nat]
      /\ m + j = n
      /\ \A i \in 1..k : IsSealed(c.sealed[i]) /\ PageKeeps(c.sealed[i], tokens, (i - 1) * PageTokens)
      /\ \A i \in 1..j : c.tail[i] = Row(tokens, m + i)
  BY DEF CacheHolds
<1>4. k \in Nat /\ j \in Nat /\ m \in Nat
  BY <1>2, <1>3, LenProperties
<1>5. /\ tail \in Seq(ToSet(c.tail) \cup {row}) /\ Len(tail) = j + 1
      /\ \A i \in 1..j : tail[i] = c.tail[i] 
      /\ tail[j + 1] = row
  <2> DEFINE T == ToSet(c.tail) \cup {row}
  <2> HIDE DEF row
  <2>1. c.tail \in Seq(ToSet(c.tail)) /\ ToSet(c.tail) \subseteq T /\ row \in T
    BY <1>3
  <2> HIDE DEF T
  <2>2. c.tail \in Seq(T)
    BY ONLY <2>1, SeqMonotonic
  <2>3. /\ Append(c.tail, row) \in Seq(T) /\ Len(Append(c.tail, row)) = Len(c.tail) + 1
        /\ \A i \in 1..Len(c.tail) : Append(c.tail, row)[i] = c.tail[i]
        /\ Append(c.tail, row)[Len(c.tail) + 1] = row
    BY ONLY <2>1, <2>2, AppendProperties
  <2> QED BY <2>3 DEF T
<1> HIDE DEF row, tail, more, n, j, k, m
<1>6. tail \in Seq(ToSet(tail))
  <2>1. DOMAIN tail = 1..(j + 1) /\ tail = [i \in 1..(j + 1) |-> tail[i]]
    BY <1>5, LenProperties
  <2>2. \A i \in 1..(j + 1) : tail[i] \in ToSet(tail)
    BY <2>1 DEF ToSet
  <2>3. j + 1 \in Nat
    BY <1>4
  <2> QED BY ONLY <2>1, <2>2, <2>3, FunctionIsSequenceOf
<1>7. /\ grown.sealed = c.sealed /\ grown.tail = tail /\ grown.nextId = c.nextId
      /\ grown \in [sealed : Seq(ToSet(c.sealed)), tail : Seq(ToSet(tail)), nextId : Nat]
  BY <1>3, <1>6
<1>8. \A i \in 1..k : PageKeeps(c.sealed[i], more, (i - 1) * PageTokens)
  <2> SUFFICES ASSUME NEW i \in 1..k PROVE PageKeeps(c.sealed[i], more, (i - 1) * PageTokens)
    OBVIOUS
  <2> DEFINE base == (i - 1) * PageTokens
  <2>1. base \in Nat /\ base + PageTokens <= n
    <3>1. i \in Nat /\ i - 1 \in Nat /\ i <= k
      BY <1>4
    <3>2. \A x, y, z \in Nat : x \in Nat \ {0} /\ x <= y =>
            /\ (x - 1) * z \in Nat /\ (x - 1) * z + z = x * z /\ x * z <= y * z
      OBVIOUS
    <3>3. base + PageTokens <= m
      BY <1>2, <1>4, <3>1, <3>2 DEF m
    <3>4. base \in Nat
      BY <1>2, <3>1
    <3> HIDE DEF base
    <3>5. m <= n
      BY <1>3, <1>4
    <3> QED BY <1>1, <1>2, <1>4, <3>3, <3>4, <3>5
  <2>2. IsSealed(c.sealed[i]) /\ PageKeeps(c.sealed[i], tokens, base)
    BY <1>3
  <2> HIDE DEF base
  <2>3. PageKeeps(c.sealed[i], more, base)
    BY <2>1, <2>2, PageStays DEF more, n
  <2> QED BY <2>3 DEF base
<1>9. \A i \in 1..(j + 1) : tail[i] = Row(more, m + i)
  <2> SUFFICES ASSUME NEW i \in 1..(j + 1) PROVE tail[i] = Row(more, m + i)
    OBVIOUS
  <2>1. CASE i = j + 1
    BY <1>1, <1>3, <1>4, <1>5, <2>1 DEF row
  <2>2. CASE i # j + 1
    <3>1. i \in 1..j /\ m + i \in 1..n
      BY <1>1, <1>3, <1>4, <2>2
    <3>2. Row(more, m + i) = Row(tokens, m + i)
      BY <1>1, <3>1 DEF Row
    <3> QED BY <1>3, <1>5, <3>1, <3>2
  <2> QED BY <2>1, <2>2
<1>10. m + Len(tail) = Len(more)
  BY <1>1, <1>3, <1>4, <1>5
<1> HIDE DEF grown
<1>11. CacheHolds(grown, more)
  BY <1>3, <1>5, <1>7, <1>8, <1>9, <1>10 DEF CacheHolds, k, m
<1>12. TailLen(grown) = TailLen(c) + 1
  BY <1>5, <1>7 DEF TailLen, j
<1> QED BY <1>7, <1>11, <1>12 DEF grown, tail, row, more, n

(* seal_tail of a cache whose tail is a page.                              *)
LEMMA SealTailHolds ==
  ASSUME NEW c, NEW S, NEW tokens \in Seq(S), HasNumbers(tokens), CacheHolds(c, tokens),
         TailLen(c) = PageTokens, NEW layer, NEW precision \in Precisions
  PROVE  /\ CacheHolds(SealTail(c, layer, precision), tokens)
         /\ TailLen(SealTail(c, layer, precision)) < PageTokens
<1> DEFINE n == Len(tokens)
           k == Len(c.sealed)
           m == k * PageTokens
           keys == [i \in DOMAIN c.tail |-> c.tail[i].key]
           values == [i \in DOMAIN c.tail |-> c.tail[i].value]
           page == Seal(c.nextId, layer, CacheLen(c) - TailLen(c), keys, values, precision)
           sealed == Append(c.sealed, page)
           d == SealTail(c, layer, precision)
<1>1. n \in Nat
  BY LenProperties
<1>2. PageTokens \in Nat \ {0}
  BY PageSizes
<1>3. /\ c \in [sealed : Seq(ToSet(c.sealed)), tail : Seq(ToSet(c.tail)), nextId : Nat]
      /\ m + Len(c.tail) = n /\ Len(c.tail) = PageTokens
      /\ \A i \in 1..k : IsSealed(c.sealed[i]) /\ PageKeeps(c.sealed[i], tokens, (i - 1) * PageTokens)
      /\ \A i \in 1..Len(c.tail) : c.tail[i] = Row(tokens, m + i)
  BY DEF CacheHolds, TailLen
<1>4. k \in Nat /\ m \in Nat /\ DOMAIN c.tail = 1..PageTokens
  BY <1>2, <1>3, LenProperties
<1>5. ASSUME NEW t \in 1..PageTokens
      PROVE  /\ keys[t] = Row(tokens, m + t).key /\ values[t] = Row(tokens, m + t).value
             /\ keys[t] \in [1..KvWidth -> Int] /\ values[t] \in [1..KvWidth -> Int]
  <2>1. keys[t] = Row(tokens, m + t).key /\ values[t] = Row(tokens, m + t).value
    BY <1>3, <1>4
  <2>2. m + t \in 1..n
    <3> HIDE DEF m, n
    <3> QED BY <1>1, <1>2, <1>3, <1>4
  <2>3. /\ Row(tokens, m + t).key \in [1..KvWidth -> Int]
        /\ Row(tokens, m + t).value \in [1..KvWidth -> Int]
    <3> HIDE DEF m
    <3> QED BY <2>2 DEF HasNumbers, Row
  <2> QED BY <2>1, <2>3
<1>6. TokenRows(keys) /\ TokenRows(values)
  <2> DEFINE Rows == [1..KvWidth -> Int]
  <2>1. DOMAIN keys = 1..PageTokens /\ DOMAIN values = 1..PageTokens
    BY <1>4
  <2>2. keys = [i \in 1..PageTokens |-> keys[i]] /\ values = [i \in 1..PageTokens |-> values[i]]
    BY <1>4
  <2>3. \A t \in 1..PageTokens : keys[t] \in Rows /\ values[t] \in Rows
    BY <1>5
  <2>4. PageTokens \in Nat
    BY <1>2
  <2> HIDE DEF keys, values, Rows
  <2>5. Len(keys) = PageTokens /\ Len(values) = PageTokens
    BY ONLY <2>1, <2>2, <2>3, <2>4, FunctionIsSequenceOf
  <2> QED BY <2>1, <2>3, <2>5 DEF TokenRows, Rows
<1> HIDE DEF keys, values
<1>7. IsSealed(page) /\ ReadsNear(page, keys, values)
  BY <1>6, SealsPages
<1> HIDE DEF page
<1>8. PageKeeps(page, tokens, m)
  <2>1. m + PageTokens <= n
    <3> HIDE DEF m, n
    <3> QED BY <1>1, <1>2, <1>3, <1>4
  <2>2. \A t \in 1..PageTokens :
          keys[t] = Row(tokens, m + t).key /\ values[t] = Row(tokens, m + t).value
    BY <1>5
  <2> HIDE DEF m
  <2> QED BY <1>4, <1>7, <2>1, <2>2, SealedPageKeeps DEF n
<1>9. /\ Len(sealed) = k + 1 /\ sealed[k + 1] = page /\ \A i \in 1..k : sealed[i] = c.sealed[i]
      /\ sealed \in Seq(ToSet(sealed))
  <2> DEFINE T == ToSet(c.sealed) \cup {page}
  <2>1. c.sealed \in Seq(ToSet(c.sealed)) /\ ToSet(c.sealed) \subseteq T /\ page \in T
    BY <1>3
  <2> HIDE DEF T
  <2>2. c.sealed \in Seq(T)
    BY ONLY <2>1, SeqMonotonic
  <2>3. /\ Append(c.sealed, page) \in Seq(T) /\ Len(Append(c.sealed, page)) = Len(c.sealed) + 1
        /\ \A i \in 1..Len(c.sealed) : Append(c.sealed, page)[i] = c.sealed[i]
        /\ Append(c.sealed, page)[Len(c.sealed) + 1] = page
    BY ONLY <2>1, <2>2, AppendProperties
  <2> HIDE DEF sealed
  <2>4. DOMAIN sealed = 1..(k + 1) /\ sealed = [i \in 1..(k + 1) |-> sealed[i]]
    BY <2>3, LenProperties DEF sealed
  <2>5. \A i \in 1..(k + 1) : sealed[i] \in ToSet(sealed)
    BY <2>4 DEF ToSet
  <2>6. k + 1 \in Nat
    BY <1>4
  <2>7. sealed \in Seq(ToSet(sealed))
    BY ONLY <2>4, <2>5, <2>6, FunctionIsSequenceOf
  <2> QED BY <2>3, <2>7 DEF sealed
<1> HIDE DEF sealed
<1>10. d = [sealed |-> sealed, tail |-> <<>>, nextId |-> c.nextId + 1]
  BY Zenon DEF SealTail, sealed, page, keys, values
<1> HIDE DEF d, k
<1>11. /\ d.sealed = sealed /\ d.tail = <<>> /\ Len(d.tail) = 0
       /\ d \in [sealed : Seq(ToSet(sealed)), tail : Seq(ToSet(<<>>)), nextId : Nat]
  <2>1. <<>> \in Seq(ToSet(<<>>)) /\ Len(<<>>) = 0
    BY EmptySeq
  <2>2. c.nextId + 1 \in Nat
    BY <1>3
  <2> QED BY <1>9, <1>10, <2>1, <2>2
<1>12. (k + 1) * PageTokens + Len(d.tail) = Len(tokens)
  <2>1. (k + 1) * PageTokens = m + PageTokens
    BY <1>2, <1>4
  <2> HIDE DEF m
  <2> QED BY <1>1, <1>2, <1>3, <1>4, <1>11, <2>1
<1>13. \A i \in 1..(k + 1) : IsSealed(sealed[i]) /\ PageKeeps(sealed[i], tokens, (i - 1) * PageTokens)
  <2> SUFFICES ASSUME NEW i \in 1..(k + 1)
               PROVE  IsSealed(sealed[i]) /\ PageKeeps(sealed[i], tokens, (i - 1) * PageTokens)
    OBVIOUS
  <2>1. CASE i = k + 1
    <3>1. i - 1 = k
      BY <1>4, <2>1
    <3> QED BY <1>7, <1>8, <1>9, <2>1, <3>1
  <2>2. CASE i # k + 1
    <3>1. i \in 1..k
      BY <1>4, <2>2
    <3> QED BY <1>3, <1>9, <3>1
  <2> QED BY <2>1, <2>2
<1>14. \A i \in 1..Len(d.tail) : d.tail[i] = Row(tokens, (k + 1) * PageTokens + i)
  BY <1>11
<1>15. CacheHolds(d, tokens)
  BY <1>9, <1>11, <1>12, <1>13, <1>14 DEF CacheHolds
<1>16. TailLen(d) < PageTokens
  BY <1>2, <1>11 DEF TailLen
<1> QED BY <1>15, <1>16 DEF d

(* TqkvPagedCache::push.                                                   *)
LEMMA PushHolds ==
  ASSUME NEW c, NEW S, NEW tokens \in Seq(S), NEW token \in S, CacheHolds(c, tokens),
         HasNumbers(Append(tokens, token)), NEW layer, backend \in {"bf16"} \cup Precisions,
         backend # "bf16" => TailLen(c) < PageTokens
  PROVE  LET d == Push(c, layer, KeyOf[token][Len(tokens)], ValueOf[token])
         IN  /\ CacheHolds(d, Append(tokens, token))
             /\ backend # "bf16" => TailLen(d) < PageTokens
<1> DEFINE more == Append(tokens, token)
           row == [key |-> KeyOf[token][Len(tokens)], value |-> ValueOf[token]]
           grown == [c EXCEPT !.tail = Append(@, row)]
           d == Push(c, layer, KeyOf[token][Len(tokens)], ValueOf[token])
<1>1. more \in Seq(S) /\ more[Len(tokens) + 1] = token /\ Len(tokens) \in Nat
  BY AppendProperties, LenProperties
<1>2. Row(more, Len(tokens) + 1) = row
  <2>1. (Len(tokens) + 1) - 1 = Len(tokens)
    BY <1>1
  <2> QED BY <1>1, <2>1 DEF Row
<1>3. CacheHolds(grown, more) /\ TailLen(grown) = TailLen(c) + 1
  <2> HIDE DEF row
  <2> QED BY <1>2, GrownHolds
<1>4. d = IF backend # "bf16" /\ TailLen(grown) = PageTokens
          THEN SealTail(grown, layer, backend) ELSE grown
  BY Zenon DEF Push
<1>5. TailLen(c) \in Nat /\ PageTokens \in Nat
  BY LenProperties, PageSizes DEF CacheHolds, TailLen
<1> HIDE DEF more, grown, d
<1>6. CASE backend # "bf16" /\ TailLen(grown) = PageTokens
  <2>1. HasNumbers(more) /\ backend \in Precisions
    BY <1>6 DEF more
  <2> QED BY <1>1, <1>3, <1>4, <1>6, <2>1, SealTailHolds DEF more, d
<1>7. CASE ~(backend # "bf16" /\ TailLen(grown) = PageTokens)
  BY <1>3, <1>4, <1>5, <1>7 DEF more, d
<1> QED BY <1>6, <1>7

-----------------------------------------------------------------------------
(***************************************************************************)
(* Every step of a session keeps that of its caches, of the page files and of *)
(* the snapshots that refer to them.                                       *)
(***************************************************************************)
(* A session of no tokens holds its history.                               *)
LEMMA NothingHeld ==
  HasNumbers(<<>>) /\ CacheHolds(EmptyCache, <<>>) /\ TailLen(EmptyCache) < PageTokens
<1>1. Len(<<>>) = 0 /\ <<>> \in Seq(ToSet(<<>>)) /\ PageTokens \in Nat \ {0}
  BY EmptySeq, PageSizes
<1>2. /\ EmptyCache.sealed = <<>> /\ EmptyCache.tail = <<>>
      /\ EmptyCache \in [sealed : Seq(ToSet(<<>>)), tail : Seq(ToSet(<<>>)), nextId : Nat]
  BY <1>1 DEF EmptyCache
<1>3. Len(EmptyCache.sealed) = 0 /\ Len(EmptyCache.tail) = 0
  BY <1>1, <1>2
<1>4. 0 * PageTokens + 0 = 0 /\ 1..0 = {}
  BY <1>1
<1>5. CacheHolds(EmptyCache, <<>>)
  BY <1>1, <1>2, <1>3, <1>4 DEF CacheHolds
<1> QED BY <1>1, <1>3, <1>4, <1>5 DEF HasNumbers, TailLen

LEMMA PagesInit == SessionInit => PagesIInv
<1> SUFFICES ASSUME SessionInit PROVE PagesIInv
  OBVIOUS
<1>1. /\ history = <<>> /\ backend \in Backends /\ kv = [l \in AttentionLayers |-> EmptyCache]
      /\ DOMAIN snapshots = {} /\ DOMAIN pageFiles = {}
  BY DEF SessionInit
<1>2. SessionHolds
  BY <1>1, NothingHeld DEF SessionHolds
<1>3. FilesAreTheirIds /\ SnapshotsHold
  BY <1>1 DEF FilesAreTheirIds, SnapshotsHold
<1> QED BY <1>2, <1>3 DEF PagesIInv

(* What is in the store stays sound when the store stays as it is.         *)
LEMMA StoreStays ==
  ASSUME PagesIInv, UNCHANGED store PROVE FilesAreTheirIds' /\ SnapshotsHold'
<1>1. snapshots' = snapshots /\ pageFiles' = pageFiles
  BY DEF store
<1> QED BY <1>1 DEF PagesIInv, FilesAreTheirIds, SnapshotsHold, Reopened

LEMMA PagesEmpty ==
  ASSUME PagesIInv, EmptySession, UNCHANGED store, backend' \in Backends PROVE PagesIInv'
<1>1. history' = <<>> /\ kv' = [l \in AttentionLayers |-> EmptyCache]
  BY DEF EmptySession
<1>2. SessionHolds'
  BY <1>1, NothingHeld DEF SessionHolds
<1> QED BY <1>2, StoreStays DEF PagesIInv

(* The keys and values of a token come from a text it is in.               *)
LEMMA TextsHaveNumbers ==
  ASSUME NEW tokens, NEW S, tokens \in Seq(S), NEW text \in Texts, IsPrefix(tokens, text)
  PROVE  HasNumbers(tokens)
<1>1. /\ text \in Seq(ToSet(text))
      /\ \A i \in 1..Len(text) :
           /\ KeyOf[text[i]][i - 1] \in [1..KvWidth -> Int]
           /\ ValueOf[text[i]] \in [1..KvWidth -> Int]
  BY SessionNumbers DEF KvWidth
<1>2. Len(tokens) \in Nat /\ Len(text) \in Nat /\ Len(tokens) <= Len(text)
  BY <1>1, LenProperties DEF IsPrefix
<1>3. \A i \in 1..Len(tokens) : tokens[i] = text[i] /\ i \in 1..Len(text)
  <2>1. SubSeq(tokens, 1, Len(tokens)) = SubSeq(text, 1, Len(tokens))
    BY DEF IsPrefix
  <2>2. SubSeq(tokens, 1, Len(tokens)) = tokens
    BY SubSeqFull
  <2>3. \A i \in 1..Len(tokens) : SubSeq(text, 1, Len(tokens))[i] = text[i]
    <3>1. \A i \in 1..Len(tokens) : text[i] \in ToSet(text) /\ i \in 1..Len(text)
      BY <1>1, <1>2, ElementOfSeq
    <3>2. \A i \in 1..(Len(tokens) - 1 + 1) : SubSeq(text, 1, Len(tokens))[i] = text[1 + i - 1]
      BY <1>2, <3>1, SubSeqProperties
    <3> QED BY <1>2, <3>2
  <2> QED BY <1>2, <2>1, <2>2, <2>3
<1> QED BY <1>1, <1>3 DEF HasNumbers

LEMMA PagesDecode ==
  ASSUME StatesIInv, PagesIInv, NEW token \in Tokens, NEW depth \in 1..Beyond, NEW stage \in Stages,
         Decode(token, depth, stage)
  PROVE  PagesIInv'
<1> DEFINE more == Append(history, token)
<1>1. /\ clean /\ UNCHANGED <<store, backend>>
      /\ \E text \in Texts : IsPrefix(more, text)
      /\ stage = "done" => depth = Beyond
      /\ kv' = [l \in AttentionLayers |->
           IF l < depth THEN Push(kv[l], l, KeyOf[token][position[l]], ValueOf[token]) ELSE kv[l]]
      /\ IF stage = "done" THEN history' = more ELSE UNCHANGED history
      /\ clean' = (stage = "done" \/ (depth = 1 /\ stage = "before"))
  BY DEF Decode, config
<1>2. /\ history \in Seq(Tokens) /\ \A l \in AttentionLayers : position[l] = Len(history)
  BY <1>1 DEF StatesIInv, StatesAreTheHistory
<1>3. /\ backend \in Backends /\ backend \in {"bf16"} \cup Precisions /\ HasNumbers(history)
      /\ \A l \in AttentionLayers :
           CacheHolds(kv[l], history) /\ (backend # "bf16" => TailLen(kv[l]) < PageTokens)
  BY <1>1, SessionAssumption DEF PagesIInv, SessionHolds
<1>4. more \in Seq(Tokens)
  BY <1>2, AppendProperties
<1>5. HasNumbers(more)
  BY <1>1, <1>4, TextsHaveNumbers
<1>6. SessionHolds'
  <2>1. CASE stage = "done"
    <3>1. \A l \in AttentionLayers : l < depth
      BY <1>1, <2>1, SessionSizes
    <3>2. ASSUME NEW l \in AttentionLayers
          PROVE  CacheHolds(kv'[l], more) /\ (backend # "bf16" => TailLen(kv'[l]) < PageTokens)
      <4>1. kv'[l] = Push(kv[l], l, KeyOf[token][Len(history)], ValueOf[token])
        BY <1>1, <1>2, <3>1
      <4> QED BY <1>2, <1>3, <1>5, <4>1, PushHolds
    <3>3. history' = more /\ backend' = backend
      BY <1>1, <2>1
    <3> HIDE DEF more
    <3> QED BY <1>3, <1>5, <3>2, <3>3 DEF SessionHolds
  <2>2. CASE depth = 1 /\ stage = "before"
    <3>1. \A l \in AttentionLayers : ~(l < depth)
      BY <2>2, SessionSizes
    <3>2. \A l \in AttentionLayers : kv'[l] = kv[l]
      BY <1>1, <3>1
    <3>3. history' = history /\ backend' = backend
      BY <1>1, <2>2
    <3> QED BY <1>3, <3>2, <3>3 DEF SessionHolds
  <2>3. CASE ~(stage = "done" \/ (depth = 1 /\ stage = "before"))
    <3>1. history' = history /\ backend' = backend /\ ~clean'
      BY <1>1, <2>3
    <3> QED BY <1>3, <3>1 DEF SessionHolds
  <2> QED BY <2>1, <2>2, <2>3
<1> QED BY <1>1, <1>6, StoreStays DEF PagesIInv

(* The page whose bytes become the file of a content id.                   *)
LEMMA FirstOfId ==
  ASSUME PagesIInv, clean, NEW id \in {ContentId(p) : p \in PagesHeld}
  PROVE  IsSealed(FirstWith(id)) /\ ContentId(FirstWith(id)) = id
<1> DEFINE L == {m \in AttentionLayers : \E p \in ToSet(kv[m].sealed) : ContentId(p) = id}
           l == Smallest(L)
           J == {j \in DOMAIN kv[l].sealed : ContentId(kv[l].sealed[j]) = id}
           i == Smallest(J)
<1>1. \A S \in SUBSET Nat : S # {} => Smallest(S) \in S
  BY SmallestMember DEF Smallest
<1>2. L \in SUBSET Nat /\ L # {}
  <2>1. AttentionLayers \subseteq Nat
    BY SessionSizes
  <2>2. L # {}
    BY DEF PagesHeld
  <2> QED BY <2>1, <2>2
<1>3. l \in L
  BY <1>1, <1>2
<1>4. l \in AttentionLayers /\ \E p \in ToSet(kv[l].sealed) : ContentId(p) = id
  BY <1>3
<1> HIDE DEF L, l
<1>5. /\ kv[l].sealed \in Seq(ToSet(kv[l].sealed))
      /\ \A j \in 1..Len(kv[l].sealed) : IsSealed(kv[l].sealed[j])
  BY <1>4 DEF PagesIInv, SessionHolds, CacheHolds
<1>6. DOMAIN kv[l].sealed = 1..Len(kv[l].sealed)
  BY <1>5, LenProperties
<1>7. J \in SUBSET Nat /\ J # {}
  BY <1>4, <1>6 DEF ToSet
<1>8. i \in J
  BY <1>1, <1>7
<1> HIDE DEF i
<1>9. IsSealed(kv[l].sealed[i]) /\ ContentId(kv[l].sealed[i]) = id
  BY <1>5, <1>6, <1>8
<1>10. FirstWith(id) = kv[l].sealed[i]
  BY Zenon DEF FirstWith, i, l, L
<1> QED BY <1>9, <1>10

LEMMA PagesSnapshot ==
  ASSUME StatesIInv, PagesIInv, Snapshot PROVE PagesIInv'
<1> DEFINE new == IF backend = "bf16" THEN {} ELSE {ContentId(p) : p \in PagesHeld} \ DOMAIN pageFiles
<1>1. /\ clean /\ UNCHANGED <<kv, backend, history, clean>>
      /\ snapshots' = [h \in DOMAIN snapshots \cup {history} |->
                         IF h = history THEN Capture ELSE snapshots[h]]
      /\ pageFiles' = [id \in DOMAIN pageFiles \cup new |->
                         IF id \in new THEN ToBytes(FirstWith(id)) ELSE pageFiles[id]]
  BY DEF Snapshot, session, config
<1>2. SessionHolds'
  BY <1>1 DEF PagesIInv, SessionHolds
<1>3. /\ DOMAIN pageFiles' = DOMAIN pageFiles \cup new
      /\ \A id \in DOMAIN pageFiles : id \notin new /\ pageFiles'[id] = pageFiles[id]
      /\ \A id \in new : pageFiles'[id] = ToBytes(FirstWith(id))
  BY <1>1
<1>4. \A id \in new : id \in {ContentId(p) : p \in PagesHeld}
  OBVIOUS
<1> HIDE DEF new
<1>5. FilesAreTheirIds'
  <2> SUFFICES ASSUME NEW id \in DOMAIN pageFiles'
               PROVE  IsSealed(FromBytes(pageFiles'[id])) /\ ContentId(FromBytes(pageFiles'[id])) = id
    BY DEF FilesAreTheirIds
  <2>1. CASE id \in new
    <3>1. IsSealed(FirstWith(id)) /\ ContentId(FirstWith(id)) = id
      BY <1>1, <1>4, <2>1, FirstOfId
    <3>2. /\ IsSealed(FromBytes(ToBytes(FirstWith(id))))
          /\ ContentId(FromBytes(ToBytes(FirstWith(id)))) = id
      BY <3>1, PagesReopen
    <3> QED BY <1>3, <2>1, <3>2
  <2>2. CASE id \notin new
    BY <1>3, <2>2 DEF PagesIInv, FilesAreTheirIds
  <2> QED BY <2>1, <2>2
<1>6. ASSUME NEW tokens \in DOMAIN snapshots, tokens # history, snapshots[tokens].full # <<>>,
             NEW l \in AttentionLayers
      PROVE  LET full == snapshots[tokens].full[l]
             IN  /\ ToSet(full.ids) \subseteq DOMAIN pageFiles'
                 /\ CacheHolds(Reopened(full)', tokens) /\ Len(full.tail) < PageTokens
  <2> DEFINE full == snapshots[tokens].full[l]
  <2>1. /\ ToSet(full.ids) \subseteq DOMAIN pageFiles
        /\ CacheHolds(Reopened(full), tokens) /\ Len(full.tail) < PageTokens
    BY <1>6 DEF PagesIInv, SnapshotsHold
  <2>2. Reopened(full)' = Reopened(full)
    <3>1. full' = full
      BY <1>1, <1>6
    <3>2. \A i \in DOMAIN full.ids : pageFiles'[full.ids[i]] = pageFiles[full.ids[i]]
      BY <1>3, <2>1 DEF ToSet
    <3> HIDE DEF full
    <3> QED BY <3>1, <3>2 DEF Reopened
  <2> QED BY <1>3, <2>1, <2>2
<1>7. ASSUME backend # "bf16", NEW l \in AttentionLayers
      PROVE  /\ ToSet(Capture.full[l].ids) \subseteq DOMAIN pageFiles'
             /\ CacheHolds([sealed |-> [i \in DOMAIN Capture.full[l].ids |->
                                          FromBytes(pageFiles'[Capture.full[l].ids[i]])],
                            tail |-> Capture.full[l].tail, nextId |-> Len(Capture.full[l].ids)], history)
             /\ Len(Capture.full[l].tail) < PageTokens
  <2> DEFINE ids == [i \in DOMAIN kv[l].sealed |-> ContentId(kv[l].sealed[i])]
  <2>1. /\ Capture.full[l].ids = ids /\ Capture.full[l].tail = kv[l].tail
    BY <1>7 DEF Capture
  <2>2. CacheHolds(kv[l], history) /\ TailLen(kv[l]) < PageTokens
    BY <1>1, <1>7 DEF PagesIInv, SessionHolds
  <2>3. /\ kv[l].sealed \in Seq(ToSet(kv[l].sealed)) /\ DOMAIN kv[l].sealed = 1..Len(kv[l].sealed)
    BY <2>2, LenProperties DEF CacheHolds
  <2>4. \A i \in DOMAIN kv[l].sealed : ids[i] \in DOMAIN pageFiles'
    <3> SUFFICES ASSUME NEW i \in DOMAIN kv[l].sealed
                 PROVE ContentId(kv[l].sealed[i]) \in DOMAIN pageFiles'
      OBVIOUS
    <3>1. kv[l].sealed[i] \in PagesHeld
      BY DEF PagesHeld, ToSet
    <3> QED BY <1>3, <1>7, <3>1 DEF new
  <2>5. \A i \in 1..Len(kv[l].sealed) :
          /\ IsSealed(FromBytes(pageFiles'[ContentId(kv[l].sealed[i])]))
          /\ ContentId(FromBytes(pageFiles'[ContentId(kv[l].sealed[i])])) = ContentId(kv[l].sealed[i])
    BY <1>5, <2>3, <2>4 DEF FilesAreTheirIds
  <2>6. CacheHolds([sealed |-> [i \in DOMAIN ids |-> FromBytes(pageFiles'[ids[i]])],
                    tail |-> kv[l].tail, nextId |-> Len(ids)], history)
    BY <2>2, <2>5, ReopenHolds
  <2>7. ToSet(ids) \subseteq DOMAIN pageFiles'
    BY <2>4 DEF ToSet
  <2> HIDE DEF ids
  <2> QED BY <2>1, <2>2, <2>6, <2>7 DEF TailLen
<1>8. SnapshotsHold'
  <2> SUFFICES ASSUME NEW tokens \in DOMAIN snapshots'
               PROVE  /\ HasNumbers(tokens)
                      /\ snapshots'[tokens].full # <<>> => \A l \in AttentionLayers :
                           LET full == snapshots'[tokens].full[l]
                           IN  /\ ToSet(full.ids) \subseteq DOMAIN pageFiles'
                               /\ CacheHolds([sealed |-> [i \in DOMAIN full.ids |-> FromBytes(pageFiles'[full.ids[i]])],
                                              tail |-> full.tail, nextId |-> Len(full.ids)], tokens)
                               /\ Len(full.tail) < PageTokens
    BY DEF SnapshotsHold, Reopened
  <2>1. CASE tokens = history
    <3>1. snapshots'[tokens] = Capture /\ HasNumbers(tokens)
      BY <1>1, <2>1 DEF PagesIInv, SessionHolds
    <3>2. Capture.full # <<>> => backend # "bf16"
      BY DEF Capture
    <3> QED BY <1>7, <2>1, <3>1, <3>2
  <2>2. CASE tokens # history
    <3>1. tokens \in DOMAIN snapshots /\ snapshots'[tokens] = snapshots[tokens]
      BY <1>1, <2>2
    <3>2. HasNumbers(tokens)
      BY <3>1 DEF PagesIInv, SnapshotsHold
    <3> QED BY <1>6, <2>2, <3>1, <3>2 DEF Reopened
  <2> QED BY <2>1, <2>2
<1> QED BY <1>2, <1>5, <1>8 DEF PagesIInv

LEMMA PagesRestore ==
  ASSUME StatesIInv, PagesIInv, NEW tokens \in DOMAIN snapshots, RestoreHit(tokens)
  PROVE  PagesIInv'
<1> DEFINE s == snapshots[tokens]
<1>1. /\ UNCHANGED <<store, backend>>
      /\ \/ UNCHANGED <<kv, history, clean>>
         \/ /\ kv' = [l \in AttentionLayers |->
                 IF l \in DOMAIN s.full THEN Reopened(s.full[l]) ELSE kv[l]]
            /\ history' = tokens /\ clean' = (s.full # <<>>)
  BY DEF RestoreHit, session, config
<1>2. SessionHolds'
  <2>1. CASE UNCHANGED <<kv, history, clean>>
    BY <1>1, <2>1 DEF PagesIInv, SessionHolds
  <2>2. CASE /\ kv' = [l \in AttentionLayers |->
                  IF l \in DOMAIN s.full THEN Reopened(s.full[l]) ELSE kv[l]]
             /\ history' = tokens /\ clean' = (s.full # <<>>)
    <3>1. HasNumbers(tokens)
      BY DEF PagesIInv, SnapshotsHold
    <3>2. ASSUME s.full # <<>>, NEW l \in AttentionLayers
          PROVE  CacheHolds(kv'[l], tokens) /\ TailLen(kv'[l]) < PageTokens
      <4>1. l \in DOMAIN s.full
        BY <3>2 DEF StatesIInv
      <4>2. CacheHolds(Reopened(s.full[l]), tokens) /\ Len(s.full[l].tail) < PageTokens
        BY <3>2 DEF PagesIInv, SnapshotsHold
      <4>3. Reopened(s.full[l]).tail = s.full[l].tail
        BY DEF Reopened
      <4>4. kv'[l] = Reopened(s.full[l])
        BY <2>2, <4>1
      <4> QED BY <4>2, <4>3, <4>4 DEF TailLen
    <3>3. backend' = backend /\ backend \in Backends
      BY <1>1 DEF PagesIInv, SessionHolds
    <3> HIDE DEF s
    <3> QED BY <2>2, <3>1, <3>2, <3>3 DEF SessionHolds
  <2> QED BY <1>1, <2>1, <2>2
<1> QED BY <1>1, <1>2, StoreStays DEF PagesIInv

LEMMA PagesStep ==
  ASSUME StatesIInv, PagesIInv, [SessionNext]_sessionVars PROVE PagesIInv'
<1>1. CASE UNCHANGED <<kv, history, clean, backend, store>>
  <2>1. SessionHolds'
    BY <1>1 DEF PagesIInv, SessionHolds
  <2> QED BY <1>1, <2>1, StoreStays DEF PagesIInv
<1>2. CASE \E token \in Tokens, depth \in 1..Beyond, stage \in Stages : Decode(token, depth, stage)
  BY <1>2, PagesDecode
<1>3. CASE Reset
  <2>1. EmptySession /\ UNCHANGED store /\ backend' \in Backends
    BY <1>3 DEF Reset, PagesIInv, SessionHolds, config
  <2> QED BY <2>1, PagesEmpty
<1>4. ASSUME NEW b \in Backends, NEW c \in Capacities, Restart(b, c) PROVE PagesIInv'
  BY <1>4, PagesEmpty DEF Restart
<1>5. CASE Snapshot
  BY <1>5, PagesSnapshot
<1>6. ASSUME NEW tokens \in DOMAIN snapshots \cup {<<>>},
             RestoreMiss(tokens) \/ RestoreUnreadable(tokens) \/ RestoreHit(tokens)
      PROVE  PagesIInv'
  <2>1. CASE RestoreMiss(tokens) \/ RestoreUnreadable(tokens)
    BY <1>1, <2>1 DEF RestoreMiss, RestoreUnreadable, session, config
  <2>2. CASE RestoreHit(tokens)
    <3>1. tokens \in DOMAIN snapshots
      BY <2>2 DEF RestoreHit
    <3> QED BY <2>2, <3>1, PagesRestore
  <2> QED BY <1>6, <2>1, <2>2
<1>7. CASE UNCHANGED sessionVars
  BY <1>1, <1>7 DEF sessionVars, session, config
<1> QED BY <1>2, <1>3, <1>4, <1>5, <1>6, <1>7 DEF SessionNext

(* What holds a history remembers it.                                      *)
LEMMA HoldsRemembers ==
  ASSUME StatesIInv, PagesIInv PROVE SessionIsItsTokens
<1> SUFFICES ASSUME clean PROVE ReadyFor
  BY DEF SessionIsItsTokens
<1>1. /\ nextIndex = Len(history) /\ history \in Seq(Tokens)
      /\ \A l \in AttentionLayers : position[l] = Len(history)
      /\ \A l \in GdnLayers : rec[l] = history /\ conv[l] = Window(history)
  BY DEF StatesIInv, StatesAreTheHistory
<1>2. DOMAIN history = 1..Len(history)
  BY <1>1, LenProperties
<1>3. ASSUME NEW l \in AttentionLayers PROVE Remembers(l)
  <2>1. HasNumbers(history) /\ CacheHolds(kv[l], history)
    BY DEF PagesIInv, SessionHolds
  <2>2. /\ CacheLen(kv[l]) = Len(history)
        /\ \A i \in 1..Len(history), head \in 0..(KvHeads - 1) :
             IsNear(KeyAt(kv[l], i - 1, head), ValueAt(kv[l], i - 1, head), history, i, head)
    BY <1>1, <2>1, HoldsReads
  <2> QED BY <1>1, <1>2, <2>2 DEF Remembers
<1> QED BY <1>1, <1>3 DEF ReadyFor

(* The inductive invariant of the pages: a clean session, and every        *)
(* snapshot with a layer, holds the history in its caches, and every page  *)
(* file is what its content id names.                                      *)
THEOREM PagesInvariance == SessionSpec => []PagesIInv
<1>1. SessionInit => StatesIInv /\ PagesIInv
  BY StatesInit, PagesInit
<1>2. StatesIInv /\ PagesIInv /\ [SessionNext]_sessionVars => StatesIInv' /\ PagesIInv'
  BY StatesStep, PagesStep
<1> QED BY <1>1, <1>2, PTL DEF SessionSpec

(* SessionIsItsTokens, the property of the run `model`: a session that is  *)
(* clean is the session of its tokens: every layer is at their end, the    *)
(* recurrent states have absorbed them in order, and the caches give every *)
(* key and value back within half a step of what was pushed, whatever was  *)
(* sealed, stored, restored, restarted and cut short on the way            *)
(* (runtime.rs:620-716, tqkv/mod.rs).                                      *)
THEOREM SessionRemembers == SessionSpec => []SessionIsItsTokens
<1>1. SessionSpec => []StatesIInv
  BY StatesInit, StatesStep, PTL DEF SessionSpec
<1> QED BY <1>1, PagesInvariance, HoldsRemembers, PTL
=============================================================================
