------------------------- MODULE ExpertCache_proofs -------------------------
(***************************************************************************)
(* Pins, bytes, leases and counters of the expert cache, for any number of *)
(* layers and experts, any cap, any budget and any prefetch depth.         *)
(***************************************************************************)
EXTENDS ExpertCache, Lemmas

(* Layers and experts are finite in number.                                *)
LEMMA Counts ==
  /\ NumLayers \in Nat \ {0} /\ NumExperts \in Nat /\ Capacity \in Nat
  /\ BrokerUnits \in Nat /\ Depth \in Nat /\ MaxHints \in Nat
  /\ \A S \in SUBSET Experts : IsFiniteSet(S) /\ Cardinality(S) \in Nat
<1>1. NumExperts \in Int /\ 1 \in Int
  BY CacheAssumption
<1>2. IsFiniteSet(Experts)
  BY <1>1, FS_Interval DEF Experts
<1>3. \A S \in SUBSET Experts : IsFiniteSet(S) /\ Cardinality(S) \in Nat
  BY <1>2, FS_Subset, FS_CardinalityType
<1> QED BY <1>3, CacheAssumption

LEMMA NextLayerType == ASSUME layer \in Layers PROVE NextLayer \in Layers
BY Counts DEF NextLayer, Layers

(* What swap_remove leaves, and how many of it are on probation.           *)
Waiting(s) == {i \in DOMAIN s : s[i].probation}

LEMMA SwapRemoveFacts ==
  ASSUME NEW S, NEW s \in Seq(S), NEW i \in 1..Len(s)
  PROVE  /\ SwapRemove(s, i) \in Seq(S)
         /\ Len(SwapRemove(s, i)) = Len(s) - 1
         /\ DOMAIN SwapRemove(s, i) = 1..(Len(s) - 1)
         /\ \A j \in 1..(Len(s) - 1) : SwapRemove(s, i)[j] = IF j = i THEN s[Len(s)] ELSE s[j]
<1> DEFINE n == Len(s)
<1> DEFINE u == SubSeq(s, 1, n - 1)
<1>1. n \in Nat /\ \A j \in 1..n : s[j] \in S
  BY LenProperties
<1>2. /\ u \in Seq(S) /\ Len(u) = n - 1 /\ \A j \in 1..(n - 1) : u[j] = s[j]
  <2>1. \A j \in 1..(n - 1) : s[j] \in S
    BY <1>1
  <2>2. 1 \in Int /\ n - 1 \in Int
    BY <1>1
  <2> HIDE DEF n
  <2>3. /\ u \in Seq(S) /\ Len(u) = IF 1 <= n - 1 THEN n - 1 - 1 + 1 ELSE 0
        /\ \A j \in 1..(n - 1 - 1 + 1) : u[j] = s[1 + j - 1]
    BY <2>1, <2>2, SubSeqProperties
  <2>4. n >= 1 /\ n - 1 - 1 + 1 = n - 1 /\ \A j \in 1..(n - 1) : 1 + j - 1 = j
    BY <1>1 DEF n
  <2> QED BY <1>1, <2>3, <2>4
<1>3. CASE i = n
  <2>1. SwapRemove(s, i) = u
    BY <1>3 DEF SwapRemove, Front
  <2>2. DOMAIN u = 1..(n - 1)
    BY <1>2, LenProperties
  <2> HIDE DEF u
  <2> QED BY <1>1, <1>2, <1>3, <2>1, <2>2
<1>4. CASE i # n
  <2>1. SwapRemove(s, i) = [u EXCEPT ![i] = s[n]]
    BY <1>4 DEF SwapRemove, Front, Last
  <2>2. i \in 1..(n - 1) /\ s[n] \in S
    BY <1>1, <1>4
  <2>3. i \in 1..Len(u)
    BY <1>2, <2>2
  <2> HIDE DEF u, n
  <2>4. /\ [u EXCEPT ![i] = s[n]] \in Seq(S)
        /\ Len([u EXCEPT ![i] = s[n]]) = Len(u)
        /\ \A j \in 1..Len(u) : [u EXCEPT ![i] = s[n]][j] = IF j = i THEN s[n] ELSE u[j]
    BY <1>2, <2>2, <2>3, ExceptSeq
  <2>5. DOMAIN [u EXCEPT ![i] = s[n]] = 1..(n - 1)
    BY <1>2, <2>4, LenProperties
  <2> QED BY <1>2, <2>1, <2>4, <2>5 DEF n
<1> QED BY <1>3, <1>4

LEMMA WaitingFinite ==
  ASSUME NEW s \in Seq(EntryType)
  PROVE  IsFiniteSet(Waiting(s)) /\ Cardinality(Waiting(s)) \in Nat
<1>1. Len(s) \in Nat /\ DOMAIN s = 1..Len(s)
  BY LenProperties
<1>2. IsFiniteSet(1..Len(s)) /\ Waiting(s) \in SUBSET (1..Len(s))
  BY <1>1, FS_Interval DEF Waiting
<1> QED BY <1>2, FS_Subset, FS_CardinalityType

LEMMA SwapRemoveWaiting ==
  ASSUME NEW s \in Seq(EntryType), NEW i \in 1..Len(s)
  PROVE  Cardinality(Waiting(s)) =
           Cardinality(Waiting(SwapRemove(s, i))) + (IF s[i].probation THEN 1 ELSE 0)
<1> DEFINE n == Len(s)
<1> DEFINE P == Waiting(s)
<1> DEFINE Q == Waiting(SwapRemove(s, i))
<1>1. n \in Nat /\ DOMAIN s = 1..n /\ \A j \in 1..n : s[j].probation \in BOOLEAN
  <2>1. n \in Nat /\ DOMAIN s = 1..n /\ \A j \in 1..n : s[j] \in EntryType
    BY LenProperties
  <2> QED BY <2>1 DEF EntryType
<1>2. /\ DOMAIN SwapRemove(s, i) = 1..(n - 1)
      /\ \A j \in 1..(n - 1) : SwapRemove(s, i)[j] = IF j = i THEN s[n] ELSE s[j]
  BY SwapRemoveFacts
<1>3. IsFiniteSet(P) /\ Cardinality(P) \in Nat
  BY WaitingFinite
<1>4. \A j : j \in P <=> j \in 1..n /\ s[j].probation
  BY <1>1 DEF Waiting
<1>5. \A j : j \in Q <=> j \in 1..(n - 1) /\ (IF j = i THEN s[n] ELSE s[j]).probation
  BY <1>2 DEF Waiting
<1> HIDE DEF P, Q, n
<1>6. CASE i = n \/ n \notin P
  <2>1. Q = P \ {i}
    BY <1>1, <1>4, <1>5, <1>6
  <2>2. Cardinality(Q) = IF i \in P THEN Cardinality(P) - 1 ELSE Cardinality(P)
    BY <1>3, <2>1, FS_RemoveElement
  <2> QED BY <1>3, <1>4, <2>2 DEF P, Q, n
<1>7. CASE i # n /\ n \in P
  <2>1. Q = (P \ {n}) \union {i}
    BY <1>1, <1>4, <1>5, <1>7
  <2>2. IsFiniteSet(P \ {n}) /\ Cardinality(P \ {n}) = Cardinality(P) - 1
    BY <1>3, <1>7, FS_RemoveElement
  <2>3. Cardinality(Q) = IF i \in P \ {n} THEN Cardinality(P) - 1 ELSE Cardinality(P) - 1 + 1
    BY <2>1, <2>2, FS_AddElement
  <2>4. i \in P \ {n} <=> s[i].probation
    BY <1>4, <1>7 DEF n
  <2> QED BY <1>3, <2>3, <2>4 DEF P, Q
<1> QED BY <1>6, <1>7

(* What a drain adds: the deliveries it keeps, unpinned and on probation.  *)
LEMMA DrainFacts ==
  ASSUME TypeOK, NEW experts \in SUBSET Experts, Drain(experts)
  PROVE  \E n \in 0..Len(inbox) :
           /\ entries' \in Seq(EntryType) /\ Len(entries') = Len(entries) + n
           /\ \A i \in 1..Len(entries) : entries'[i] = entries[i]
           /\ \A i \in (Len(entries) + 1)..(Len(entries) + n) :
                 entries'[i].pins = 0 /\ entries'[i].probation
           /\ resident' = resident + n
           /\ stats' = [stats EXCEPT !.prefetched = @ + Len(inbox), !.wasted = @ + (Len(inbox) - n)]
<1> DEFINE kept == Kept(experts)
<1> DEFINE n == Cardinality(kept)
<1> DEFINE m == Len(entries)
<1>1. /\ m \in Nat /\ Len(inbox) \in Nat /\ DOMAIN inbox = 1..Len(inbox)
      /\ entries \in Seq(EntryType) /\ inbox \in Seq(Ids)
      /\ \A i \in 1..Len(inbox) : inbox[i] \in Ids
  BY LenProperties DEF TypeOK
<1>2. n \in 0..Len(inbox)
  <2>1. IsFiniteSet(1..Len(inbox)) /\ Cardinality(1..Len(inbox)) = Len(inbox)
    BY <1>1, FirstNaturals
  <2>2. kept \in SUBSET (1..Len(inbox))
    BY <1>1 DEF Kept
  <2>3. IsFiniteSet(kept) /\ n <= Len(inbox)
    BY <2>1, <2>2, FS_Subset
  <2> QED BY <1>1, <2>3, FS_CardinalityType
<1>3. PICK order \in [1..n -> kept] :
        entries' = entries \o [k \in DOMAIN order |-> Arrival(inbox[order[k]])]
  BY DEF Drain
<1> DEFINE added == [k \in 1..n |-> Arrival(inbox[order[k]])]
<1>4. /\ added \in Seq(EntryType) /\ Len(added) = n
      /\ \A k \in 1..n : added[k].pins = 0 /\ added[k].probation
  <2>1. \A k \in 1..n : order[k] \in 1..Len(inbox)
    BY <1>1 DEF Kept
  <2>2. \A k \in 1..n : Arrival(inbox[order[k]]) \in EntryType
    BY <1>1, <2>1 DEF Arrival, EntryType
  <2>3. added \in [1..n -> EntryType]
    BY <2>2
  <2>4. added \in Seq(EntryType) /\ Len(added) = n
    BY <1>2, <2>3
  <2>5. \A k \in 1..n : added[k].pins = 0 /\ added[k].probation
    BY DEF Arrival
  <2> QED BY <2>4, <2>5
<1>5. entries' = entries \o added
  BY <1>3
<1>6. resident' = resident + n
      /\ stats' = [stats EXCEPT !.prefetched = @ + Len(inbox), !.wasted = @ + (Len(inbox) - n)]
  BY DEF Drain
<1> HIDE DEF added, n, kept
<1>7. /\ entries' \in Seq(EntryType) /\ Len(entries') = m + n
      /\ \A i \in 1..(m + n) : entries'[i] = IF i <= m THEN entries[i] ELSE added[i - m]
  BY <1>1, <1>4, <1>5, ConcatProperties
<1>8. \A i \in 1..m : entries'[i] = entries[i]
  BY <1>1, <1>2, <1>7
<1>9. ASSUME NEW i \in (m + 1)..(m + n) PROVE entries'[i].pins = 0 /\ entries'[i].probation
  <2>1. i \in 1..(m + n) /\ ~(i <= m) /\ i - m \in 1..n
    BY <1>1, <1>2
  <2> QED BY <1>4, <1>7, <2>1
<1> QED BY <1>2, <1>6, <1>7, <1>8, <1>9

(* A list that grows by entries on probation: so many more wait.           *)
LEMMA GrownWaiting ==
  ASSUME NEW s \in Seq(EntryType), NEW t \in Seq(EntryType), NEW n \in Nat,
         Len(t) = Len(s) + n, \A i \in 1..Len(s) : t[i] = s[i],
         \A i \in (Len(s) + 1)..(Len(s) + n) : t[i].probation
  PROVE  Cardinality(Waiting(t)) = Cardinality(Waiting(s)) + n
<1> DEFINE m == Len(s)
<1> DEFINE new == (m + 1)..(m + n)
<1>1. m \in Nat /\ DOMAIN s = 1..m /\ DOMAIN t = 1..(m + n)
  BY LenProperties
<1>2. IsFiniteSet(Waiting(s)) /\ Cardinality(Waiting(s)) \in Nat
  BY WaitingFinite
<1>3. IsFiniteSet(new) /\ Cardinality(new) = n
  <2>1. m + 1 \in Int /\ m + n \in Int /\ (m + 1 > m + n <=> n = 0) /\ m + n - (m + 1) + 1 = n
    BY <1>1
  <2> QED BY <2>1, FS_Interval
<1>4. Waiting(t) = Waiting(s) \union new
  BY <1>1 DEF Waiting
<1>5. Waiting(s) \cap new = {}
  BY <1>1 DEF Waiting
<1> HIDE DEF new
<1>6. Cardinality(Waiting(t)) = Cardinality(Waiting(s)) + n - Cardinality({})
  BY <1>2, <1>3, <1>4, <1>5, FS_Union
<1> QED BY <1>2, <1>6, FS_EmptySet

-----------------------------------------------------------------------------
Untyped == PinsFollowPlan /\ PlanWithinCapacity /\ PlanIsCurrent /\ DemandNotStarved /\ PrefetchAccounted

LEMMA InitInv == Init => IInv
<1> SUFFICES ASSUME Init PROVE IInv
  OBVIOUS
<1> USE DEF Init
<1>1. DOMAIN <<>> = {} /\ Len(<<>>) = 0
  OBVIOUS
<1>2. TypeOK
  BY <1>1, Counts DEF TypeOK, NoPlan, IdleWorker, Layers
<1>3. PinsFollowPlan /\ PlanWithinCapacity
  BY <1>1 DEF PinsFollowPlan, PlanWithinCapacity, Active
<1>4. PlanIsCurrent
  BY DEF PlanIsCurrent, NoPlan
<1>5. SpeculationBounded
  BY <1>1, Counts, FS_EmptySet DEF SpeculationBounded, Pending, IdleWorker
<1>6. DemandNotStarved
  BY DEF DemandNotStarved
<1>7. PrefetchAccounted
  <2>1. {i \in DOMAIN entries : entries[i].probation} = {}
    BY <1>1
  <2> QED BY <2>1, FS_EmptySet DEF PrefetchAccounted
<1> QED BY <1>2, <1>3, <1>4, <1>5, <1>6, <1>7 DEF IInv, PlanIsHeld

(* What the invariant says of lengths and counts.                          *)
LEMMA Shapes ==
  ASSUME TypeOK
  PROVE  /\ Len(entries) \in Nat /\ DOMAIN entries = 1..Len(entries)
         /\ \A i \in 1..Len(entries) : entries[i] \in EntryType /\ entries[i].pins \in {0, 1}
         /\ Len(inbox) \in Nat /\ Len(worker.got) \in Nat
         /\ IsFiniteSet(worker.todo) /\ Cardinality(worker.todo) \in Nat /\ Pending \in Nat
         /\ \A S \in {plan.experts, plan.misses, plan.staged, plan.failed} :
               S \subseteq Experts /\ IsFiniteSet(S) /\ Cardinality(S) \in Nat
<1>1. Len(entries) \in Nat /\ DOMAIN entries = 1..Len(entries)
      /\ \A i \in 1..Len(entries) : entries[i] \in EntryType
  BY LenProperties DEF TypeOK
<1>2. \A i \in 1..Len(entries) : entries[i].pins \in {0, 1}
  <2> SUFFICES ASSUME NEW i \in 1..Len(entries) PROVE entries[i].pins \in {0, 1}
    OBVIOUS
  <2>1. entries[i].pins \in Nat /\ entries[i].pins <= 1
    BY <1>1 DEF TypeOK, EntryType
  <2> QED BY <2>1
<1>3. Len(inbox) \in Nat /\ Len(worker.got) \in Nat
  BY LenProperties DEF TypeOK
<1>4. IsFiniteSet(worker.todo) /\ Cardinality(worker.todo) \in Nat
  BY Counts DEF TypeOK
<1>5. \A S \in {plan.experts, plan.misses, plan.staged, plan.failed} : S \subseteq Experts
  BY DEF TypeOK
<1> QED BY <1>1, <1>2, <1>3, <1>4, <1>5, Counts DEF Pending

(* The worker's steps touch nothing but the worker and the inbox.          *)
LEMMA WorkerLoadInv ==
  ASSUME IInv, NEW e \in Experts, WorkerLoad(e)
  PROVE  IInv'
<1>1. TypeOK /\ Untyped /\ SpeculationBounded
  BY DEF IInv, PlanIsHeld, Untyped
<1>2. /\ UNCHANGED <<entries, resident, pc, sweep, layer, plan, refusal, predictor, inbox, hints, stats>>
      /\ worker.phase = "loading" /\ e \in worker.todo
      /\ \E got \in {worker.got, Append(worker.got, <<worker.layer, e>>)} :
            worker' = [worker EXCEPT !.todo = @ \ {e}, !.got = got]
  <2>1. \E got \in {worker.got, Append(worker.got, <<worker.layer, e>>)} :
            worker' = [worker EXCEPT !.todo = @ \ {e}, !.got = got]
    BY <1>1 DEF WorkerLoad, TypeOK
  <2> QED BY <2>1 DEF WorkerLoad
<1>3. PICK got \in {worker.got, Append(worker.got, <<worker.layer, e>>)} :
        worker' = [worker EXCEPT !.todo = @ \ {e}, !.got = got]
  BY <1>2
<1>4. got \in Seq(Ids) /\ Len(got) <= Len(worker.got) + 1 /\ Len(got) \in Nat
  <2>1. worker.got \in Seq(Ids) /\ Len(worker.got) \in Nat /\ <<worker.layer, e>> \in Ids
    BY <1>1, Shapes DEF TypeOK, Ids
  <2>2. CASE got = worker.got
    BY <2>1, <2>2
  <2>3. CASE got = Append(worker.got, <<worker.layer, e>>)
    <3>1. got \in Seq(Ids) /\ Len(got) = Len(worker.got) + 1
      BY <2>1, <2>3, AppendProperties
    <3> QED BY <2>1, <3>1
  <2> QED BY <1>3, <2>2, <2>3
<1>5. TypeOK'
  BY <1>1, <1>2, <1>3, <1>4 DEF TypeOK
<1>6. Untyped'
  BY <1>1, <1>2 DEF Untyped, PinsFollowPlan, PlanWithinCapacity, PlanIsCurrent, DemandNotStarved,
        PrefetchAccounted, Active, Bound, Selected, Fits
<1>7. worker'.phase = "loading" /\ Pending' \in Nat /\ Pending' <= Pending
  <2>1. worker'.todo = worker.todo \ {e} /\ worker'.got = got /\ worker'.phase = "loading"
    BY <1>1, <1>2, <1>3 DEF TypeOK
  <2>2. Cardinality(worker'.todo) = Cardinality(worker.todo) - 1
    <3>1. IsFiniteSet(worker.todo) /\ e \in worker.todo
      BY <1>1, <1>2, Shapes
    <3>2. Cardinality(worker.todo \ {e}) = Cardinality(worker.todo) - 1
      BY <3>1, FS_RemoveElement
    <3> QED BY <2>1, <3>2
  <2>3. Len(worker.got) \in Nat /\ Cardinality(worker.todo) \in Nat /\ Cardinality(worker'.todo) \in Nat
    BY <1>1, <1>5, Shapes, Counts DEF TypeOK
  <2> QED BY <1>4, <2>1, <2>2, <2>3 DEF Pending
<1>8. SpeculationBounded'
  <2>1. Len(inbox) \in Nat /\ Len(entries) \in Nat /\ Pending \in Nat /\ Depth \in Nat /\ Capacity \in Nat
    BY <1>1, Shapes, Counts
  <2> QED BY <1>1, <1>2, <1>7, <2>1 DEF SpeculationBounded
<1> QED BY <1>5, <1>6, <1>8 DEF IInv, PlanIsHeld, Untyped

LEMMA WorkerHandOverInv ==
  ASSUME IInv, WorkerDeliver \/ WorkerRetire
  PROVE  IInv'
<1>1. TypeOK /\ Untyped /\ SpeculationBounded
  BY DEF IInv, PlanIsHeld, Untyped
<1>2. UNCHANGED <<entries, resident, pc, sweep, layer, plan, refusal, predictor, hints, stats>>
  BY DEF WorkerDeliver, WorkerRetire
<1>3. Untyped'
  BY <1>1, <1>2 DEF Untyped, PinsFollowPlan, PlanWithinCapacity, PlanIsCurrent, DemandNotStarved,
        PrefetchAccounted, Active, Bound, Selected, Fits
<1>4. CASE WorkerDeliver
  <2>1. inbox \in Seq(Ids) /\ worker.got \in Seq(Ids) /\ worker.todo = {}
    BY <1>1, <1>4 DEF TypeOK, WorkerDeliver
  <2>2. inbox' \in Seq(Ids) /\ Len(inbox') = Len(inbox) + Len(worker.got)
    BY <1>4, <2>1, ConcatProperties DEF WorkerDeliver
  <2>3. worker' = [worker EXCEPT !.phase = "delivered", !.got = <<>>]
    BY <1>4 DEF WorkerDeliver
  <2>4. TypeOK'
    <3>1. worker' \in [phase : {"idle", "loading", "delivered"}, layer : Layers,
                       todo : SUBSET Experts, got : Seq(Ids)]
      <4>1. <<>> \in Seq(Ids)
        OBVIOUS
      <4> QED BY <1>1, <2>3, <4>1 DEF TypeOK
    <3> QED BY <1>1, <1>2, <2>2, <3>1 DEF TypeOK
  <2>5. worker'.phase = "delivered" /\ worker'.got = <<>> /\ worker'.todo = {}
    BY <1>1, <2>1, <2>3 DEF TypeOK
  <2>6. Pending = Len(worker.got) /\ Pending' = 0 /\ Len(<<>>) = 0
    BY <1>1, <2>1, <2>5, Shapes, FS_EmptySet DEF Pending
  <2>7. Len(inbox) \in Nat /\ Len(entries) \in Nat /\ Len(worker.got) \in Nat /\ Depth \in Nat
        /\ Capacity \in Nat
    BY <1>1, Shapes, Counts
  <2>8. SpeculationBounded'
    <3>1. pc' = pc /\ sweep' = sweep /\ Len(entries') = Len(entries)
      BY <1>2
    <3>2. Len(inbox') = Len(inbox) + Pending
      BY <2>2, <2>6
    <3>3. Pending' <= Depth /\ Len(inbox') + Pending' = Len(inbox) + Pending
      BY <1>1, <2>6, <2>7, <3>2 DEF SpeculationBounded
    <3>4. Len(entries') + Len(inbox') + Pending' = Len(entries) + Len(inbox) + Pending
      <4>1. Pending \in Nat /\ Len(inbox) \in Nat /\ Len(entries) \in Nat
        BY <1>1, Shapes
      <4>2. Len(entries) + (Len(inbox) + Pending) + 0 = Len(entries) + Len(inbox) + Pending
        BY <4>1
      <4>3. Pending' = 0 /\ Len(entries') = Len(entries) /\ Len(inbox') = Len(inbox) + Pending
        BY <2>6, <3>1, <3>2
      <4> QED BY <4>2, <4>3, Zenon
    <3>5. /\ Len(inbox) + Pending <= 2 * Depth
          /\ sweep = "exact" /\ pc \in {"evict", "fetch", "hint"} => Len(inbox) + Pending <= Depth
          /\ Len(entries) + Len(inbox) + Pending <= Capacity + 2 * Depth
      BY <1>1 DEF SpeculationBounded
    <3>6. /\ Len(inbox') + Pending' <= 2 * Depth
          /\ sweep' = "exact" /\ pc' \in {"evict", "fetch", "hint"} => Len(inbox') + Pending' <= Depth
          /\ Len(entries') + Len(inbox') + Pending' <= Capacity + 2 * Depth
      BY <3>1, <3>3, <3>4, <3>5
    <3> QED BY <2>5, <3>3, <3>6 DEF SpeculationBounded
  <2> QED BY <1>3, <2>4, <2>8 DEF IInv, PlanIsHeld, Untyped
<1>5. CASE WorkerRetire
  <2>1. worker.phase = "delivered" /\ worker' = IdleWorker /\ UNCHANGED inbox
    BY <1>5 DEF WorkerRetire
  <2>2. worker.got = <<>> /\ worker.todo = {}
    BY <1>1, <2>1 DEF SpeculationBounded
  <2>3. worker'.got = <<>> /\ worker'.todo = {} /\ worker'.phase = "idle"
    BY <2>1 DEF IdleWorker
  <2>4. TypeOK'
    BY <1>1, <1>2, <2>1, Counts DEF TypeOK, IdleWorker, Layers
  <2>5. SpeculationBounded'
    BY <1>1, <1>2, <2>1, <2>2, <2>3 DEF SpeculationBounded, Pending
  <2> QED BY <1>3, <2>4, <2>5 DEF IInv, PlanIsHeld, Untyped
<1> QED BY <1>4, <1>5

(* A cache whose entries all are unpinned while no plan is active: pins,   *)
(* bytes and counters, without the route being prepared.                   *)
LEMMA Unpinned ==
  ASSUME TypeOK, PinsFollowPlan, ~Active
  PROVE  \A i \in 1..Len(entries) : entries[i].pins = 0
BY Shapes DEF PinsFollowPlan

(* A route is either refused or waits for room with its misses known.      *)
LEMMA PlanRouteFacts ==
  ASSUME TypeOK, NEW experts \in SUBSET Experts, NEW cached, PlanRoute(experts, cached)
  PROVE  /\ plan' \in [experts : SUBSET Experts, misses : SUBSET Experts,
                        staged : SUBSET Experts, failed : SUBSET Experts]
         /\ pc' \in {"idle", "evict"} /\ refusal' \in {"none", "capacity"} /\ layer' \in Layers
         /\ plan'.staged = {}
         /\ pc' = "idle" => plan' = NoPlan
         /\ pc' = "evict" =>
              plan'.misses = {e \in plan'.experts : ~Holds(cached, <<layer', e>>)}
<1> DEFINE misses == {e \in experts : ~Holds(cached, <<layer, e>>)}
<1>1. 1 \in Layers
  BY Counts DEF Layers
<1>2. CASE Refuse("capacity")
  BY <1>1, <1>2 DEF Refuse, NoPlan
<1>3. CASE /\ plan' = [NoPlan EXCEPT !.experts = experts, !.misses = misses]
           /\ pc' = "evict" /\ refusal' = "none" /\ UNCHANGED layer
  <2>1. plan' = [experts |-> experts, misses |-> misses, staged |-> {}, failed |-> {}]
    BY <1>3 DEF NoPlan
  <2>2. misses \in SUBSET Experts /\ layer \in Layers
    BY DEF TypeOK
  <2>3. plan'.misses = {e \in plan'.experts : ~Holds(cached, <<layer', e>>)}
    BY <1>3, <2>1
  <2> HIDE DEF misses
  <2>4. /\ plan' \in [experts : SUBSET Experts, misses : SUBSET Experts,
                      staged : SUBSET Experts, failed : SUBSET Experts]
        /\ plan'.staged = {}
    BY <2>1, <2>2
  <2>5. layer' \in Layers /\ pc' = "evict" /\ refusal' = "none"
    BY <1>3, <2>2
  <2> QED BY <2>3, <2>4, <2>5
<1>4. \/ Refuse("capacity")
      \/ /\ plan' = [NoPlan EXCEPT !.experts = experts, !.misses = misses]
         /\ pc' = "evict" /\ refusal' = "none" /\ UNCHANGED layer
  BY DEF PlanRoute
<1> HIDE DEF misses
<1> QED BY <1>2, <1>3, <1>4

LEMMA PrepareExactInv ==
  ASSUME IInv, NEW experts \in SUBSET Experts, PrepareExact(experts)
  PROVE  IInv'
<1>1. TypeOK /\ PinsFollowPlan /\ PlanWithinCapacity /\ PlanIsCurrent /\ SpeculationBounded
      /\ DemandNotStarved /\ PrefetchAccounted
  BY DEF IInv, PlanIsHeld
<1>2. /\ pc = "idle" /\ sweep' = "exact" /\ Drain(experts) /\ inbox' = <<>>
      /\ PlanRoute(experts, entries') /\ UNCHANGED <<predictor, worker, hints>>
  BY DEF PrepareExact, Sweeps
<1>3. PICK n \in 0..Len(inbox) :
           /\ entries' \in Seq(EntryType) /\ Len(entries') = Len(entries) + n
           /\ \A i \in 1..Len(entries) : entries'[i] = entries[i]
           /\ \A i \in (Len(entries) + 1)..(Len(entries) + n) :
                 entries'[i].pins = 0 /\ entries'[i].probation
           /\ resident' = resident + n
           /\ stats' = [stats EXCEPT !.prefetched = @ + Len(inbox), !.wasted = @ + (Len(inbox) - n)]
  BY <1>1, <1>2, DrainFacts
<1>4. Len(entries) \in Nat /\ Len(inbox) \in Nat /\ n \in Nat /\ n <= Len(inbox)
      /\ DOMAIN entries' = 1..(Len(entries) + n)
  BY <1>1, <1>3, Shapes, LenProperties
<1>5. \A i \in 1..(Len(entries) + n) : entries'[i].pins = 0
  <2>1. \A i \in 1..Len(entries) : entries[i].pins = 0
    BY <1>1, <1>2, Unpinned DEF Active
  <2> QED BY <1>3, <1>4, <2>1
<1>6. /\ plan' \in [experts : SUBSET Experts, misses : SUBSET Experts,
                     staged : SUBSET Experts, failed : SUBSET Experts]
      /\ pc' \in {"idle", "evict"} /\ refusal' \in {"none", "capacity"} /\ layer' \in Layers
      /\ plan'.staged = {}
      /\ pc' = "idle" => plan' = NoPlan
      /\ pc' = "evict" => plan'.misses = {e \in plan'.experts : ~Holds(entries', <<layer', e>>)}
  BY <1>1, <1>2, PlanRouteFacts
<1>7. /\ stats.prefetched \in Nat /\ stats.hits \in Nat /\ stats.wasted \in Nat /\ resident \in Nat
      /\ stats'.prefetched = stats.prefetched + Len(inbox) /\ stats'.hits = stats.hits
      /\ stats'.wasted = stats.wasted + (Len(inbox) - n)
  BY <1>1, <1>3 DEF TypeOK
<1>8. TypeOK'
  <2>1. \A i \in DOMAIN entries' : entries'[i].pins <= 1
    BY <1>4, <1>5
  <2>2. resident' \in Nat
    BY <1>3, <1>4, <1>7
  <2>3. stats' \in [prefetched : Nat, hits : Nat, wasted : Nat]
    <3>1. stats.prefetched + Len(inbox) \in Nat /\ stats.wasted + (Len(inbox) - n) \in Nat
      BY <1>4, <1>7
    <3> QED BY <1>1, <1>3, <3>1 DEF TypeOK
  <2>4. inbox' \in Seq(Ids)
    BY <1>2
  <2> QED BY <1>1, <1>2, <1>3, <1>6, <2>1, <2>2, <2>3, <2>4 DEF TypeOK
<1>9. PinsFollowPlan'
  BY <1>4, <1>5, <1>6 DEF PinsFollowPlan, Active
<1>10. PlanWithinCapacity'
  BY <1>1, <1>3, <1>6 DEF PlanWithinCapacity, Active
<1>11. PlanIsCurrent'
  BY <1>6 DEF PlanIsCurrent
<1>12. SpeculationBounded'
  <2>1. Pending' = Pending /\ Pending \in Nat /\ Depth \in Nat /\ Capacity \in Nat
    BY <1>1, <1>2, Shapes, Counts DEF Pending
  <2>2. Len(inbox') = 0
    BY <1>2
  <2>3. /\ Pending <= Depth
        /\ Len(entries) + Len(inbox) + Pending <= Capacity + 2 * Depth
    BY <1>1 DEF SpeculationBounded
  <2>4. Len(entries') + Len(inbox') + Pending' <= Capacity + 2 * Depth
    BY <1>3, <1>4, <2>1, <2>2, <2>3
  <2>5. Pending' <= Depth /\ Len(inbox') + Pending' <= Depth /\ Len(inbox') + Pending' <= 2 * Depth
    BY <2>1, <2>2, <2>3
  <2>6. worker'.phase # "loading" => worker'.todo = {} /\ worker'.got = <<>>
    BY <1>1, <1>2 DEF SpeculationBounded
  <2> QED BY <2>4, <2>5, <2>6 DEF SpeculationBounded
<1>13. DemandNotStarved'
  BY <1>6 DEF DemandNotStarved
<1>14. PrefetchAccounted'
  <2>1. Cardinality(Waiting(entries')) = Cardinality(Waiting(entries)) + n
    <3>1. entries \in Seq(EntryType)
      BY <1>1 DEF TypeOK
    <3> QED BY <1>3, <1>4, <3>1, GrownWaiting
  <2>2. Cardinality(Waiting(entries)) \in Nat
    BY <1>1, WaitingFinite DEF TypeOK
  <2>3. stats.prefetched = stats.hits + stats.wasted + Cardinality(Waiting(entries))
    BY <1>1 DEF PrefetchAccounted, Waiting
  <2>4. stats'.prefetched = stats'.hits + stats'.wasted + Cardinality(Waiting(entries'))
    BY <1>4, <1>7, <2>1, <2>2, <2>3
  <2> QED BY <2>4 DEF PrefetchAccounted, Waiting
<1> QED BY <1>8, <1>9, <1>10, <1>11, <1>12, <1>13, <1>14 DEF IInv, PlanIsHeld

LEMMA PrepareBatchInv ==
  ASSUME IInv, NEW experts \in SUBSET Experts, PrepareBatch(experts)
  PROVE  IInv'
<1>1. TypeOK /\ PinsFollowPlan /\ PlanWithinCapacity /\ PlanIsCurrent /\ SpeculationBounded
      /\ DemandNotStarved /\ PrefetchAccounted
  BY DEF IInv, PlanIsHeld
<1>2. /\ pc = "idle" /\ sweep' = "batch" /\ PlanRoute(experts, entries)
      /\ UNCHANGED <<entries, resident, predictor, inbox, worker, hints, stats>>
  BY DEF PrepareBatch, Sweeps
<1>3. /\ plan' \in [experts : SUBSET Experts, misses : SUBSET Experts,
                     staged : SUBSET Experts, failed : SUBSET Experts]
      /\ pc' \in {"idle", "evict"} /\ refusal' \in {"none", "capacity"} /\ layer' \in Layers
      /\ plan'.staged = {}
      /\ pc' = "idle" => plan' = NoPlan
      /\ pc' = "evict" => plan'.misses = {e \in plan'.experts : ~Holds(entries, <<layer', e>>)}
  BY <1>1, <1>2, PlanRouteFacts
<1>4. TypeOK'
  BY <1>1, <1>2, <1>3 DEF TypeOK
<1>5. PinsFollowPlan'
  <2>1. \A i \in DOMAIN entries : entries[i].pins = 0
    BY <1>1, <1>2, Unpinned, Shapes DEF Active
  <2> QED BY <1>2, <1>3, <2>1 DEF PinsFollowPlan, Active
<1>6. PlanWithinCapacity'
  BY <1>1, <1>2, <1>3 DEF PlanWithinCapacity, Active
<1>7. PlanIsCurrent'
  BY <1>2, <1>3 DEF PlanIsCurrent
<1>8. SpeculationBounded' /\ PrefetchAccounted'
  BY <1>1, <1>2 DEF SpeculationBounded, Pending, PrefetchAccounted
<1>9. DemandNotStarved'
  BY <1>3 DEF DemandNotStarved
<1> QED BY <1>4, <1>5, <1>6, <1>7, <1>8, <1>9 DEF IInv, PlanIsHeld

(* Swapping an entry out keeps every other one, under some index.          *)
LEMMA EvictInv ==
  ASSUME IInv, NEW i \in DOMAIN entries, Evict(i)
  PROVE  IInv'
<1> DEFINE n == Len(entries)
<1>1. TypeOK /\ PinsFollowPlan /\ PlanWithinCapacity /\ PlanIsCurrent /\ SpeculationBounded
      /\ DemandNotStarved /\ PrefetchAccounted
  BY DEF IInv, PlanIsHeld
<1>2. /\ pc = "evict" /\ ~Selected(entries, i) /\ entries' = SwapRemove(entries, i)
      /\ resident' = IF resident = 0 THEN 0 ELSE resident - 1
      /\ stats' = [stats EXCEPT !.wasted = @ + IF entries[i].probation THEN 1 ELSE 0]
      /\ UNCHANGED <<pc, sweep, layer, plan, refusal, predictor, inbox, worker, hints>>
  BY DEF Evict, Coldest, Evictable
<1>3. /\ n \in Nat /\ DOMAIN entries = 1..n /\ i \in 1..n /\ entries \in Seq(EntryType)
      /\ \A j \in 1..n : entries[j] \in EntryType
  BY <1>1, Shapes DEF TypeOK
<1>4. /\ entries' \in Seq(EntryType) /\ Len(entries') = n - 1 /\ DOMAIN entries' = 1..(n - 1)
      /\ \A j \in 1..(n - 1) : entries'[j] = IF j = i THEN entries[n] ELSE entries[j]
  BY <1>2, <1>3, SwapRemoveFacts
<1>5. Cardinality(Waiting(entries)) =
        Cardinality(Waiting(entries')) + (IF entries[i].probation THEN 1 ELSE 0)
  BY <1>2, <1>3, SwapRemoveWaiting
<1> HIDE DEF n
<1>6. \A j \in 1..(n - 1) : entries'[j].pins = 0
  <2>1. \A j \in 1..n : entries[j].pins = 0
    BY <1>1, <1>2, Unpinned DEF Active, n
  <2> QED BY <1>3, <1>4, <2>1
<1>7. resident' = n - 1
  BY <1>1, <1>2, <1>3 DEF PlanWithinCapacity, n
<1>8. TypeOK'
  <2>1. \A j \in DOMAIN entries' : entries'[j].pins <= 1
    BY <1>4, <1>6
  <2>2. resident' \in Nat
    BY <1>3, <1>7
  <2>3. stats' \in [prefetched : Nat, hits : Nat, wasted : Nat]
    <3>1. stats.wasted + (IF entries[i].probation THEN 1 ELSE 0) \in Nat
      <4>1. stats.wasted \in Nat
        BY <1>1 DEF TypeOK
      <4> QED BY <4>1
    <3> QED BY <1>1, <1>2, <3>1 DEF TypeOK
  <2> QED BY <1>1, <1>2, <1>4, <2>1, <2>2, <2>3 DEF TypeOK
<1>9. PinsFollowPlan'
  BY <1>2, <1>4, <1>6 DEF PinsFollowPlan, Active
<1>10. PlanWithinCapacity'
  BY <1>2, <1>4, <1>7 DEF PlanWithinCapacity, Active
<1>11. PlanIsCurrent'
  <2>1. ASSUME NEW e \in plan.experts
        PROVE  Holds(entries', <<layer, e>>) <=> Holds(entries, <<layer, e>>)
    <3>1. entries[i].id # <<layer, e>>
      BY <1>2 DEF Selected
    <3>2. ASSUME NEW j \in 1..n, entries[j].id = <<layer, e>>
          PROVE  \E k \in 1..(n - 1) : entries'[k].id = <<layer, e>>
      <4>1. j # i
        BY <3>1, <3>2
      <4>2. CASE j = n
        BY <1>3, <1>4, <3>2, <4>1, <4>2
      <4>3. CASE j # n
        BY <1>3, <1>4, <3>2, <4>1, <4>3
      <4> QED BY <4>2, <4>3
    <3>3. ASSUME NEW j \in 1..(n - 1), entries'[j].id = <<layer, e>>
          PROVE  \E k \in 1..n : entries[k].id = <<layer, e>>
      BY <1>3, <1>4, <3>3
    <3> QED BY <1>3, <1>4, <3>2, <3>3 DEF Holds
  <2>2. plan.misses = {e \in plan.experts : ~Holds(entries', <<layer, e>>)}
    BY <1>1, <1>2, <2>1 DEF PlanIsCurrent
  <2> QED BY <1>1, <1>2, <2>2 DEF PlanIsCurrent
<1>12. SpeculationBounded'
  <2>1. Pending' = Pending /\ Pending \in Nat /\ Len(inbox) \in Nat
    BY <1>1, <1>2, Shapes DEF Pending
  <2>2. Len(entries') + Len(inbox) + Pending <= Len(entries) + Len(inbox) + Pending
    BY <1>3, <1>4, <2>1 DEF n
  <2>3. Len(entries') + Len(inbox) + Pending <= Capacity + 2 * Depth
    <3>1. Len(entries) + Len(inbox) + Pending <= Capacity + 2 * Depth
      BY <1>1 DEF SpeculationBounded
    <3> QED BY <1>3, <1>4, <2>1, <2>2, <3>1, Counts DEF n
  <2> QED BY <1>1, <1>2, <2>1, <2>3 DEF SpeculationBounded
<1>13. DemandNotStarved'
  BY <1>1, <1>2 DEF DemandNotStarved
<1>14. PrefetchAccounted'
  <2>1. Cardinality(Waiting(entries)) \in Nat /\ Cardinality(Waiting(entries')) \in Nat
    BY <1>3, <1>4, WaitingFinite
  <2>2. stats.prefetched = stats.hits + stats.wasted + Cardinality(Waiting(entries))
    BY <1>1 DEF PrefetchAccounted, Waiting
  <2>3. /\ stats.prefetched \in Nat /\ stats.hits \in Nat /\ stats.wasted \in Nat
        /\ stats'.prefetched = stats.prefetched /\ stats'.hits = stats.hits
        /\ stats'.wasted = stats.wasted + (IF entries[i].probation THEN 1 ELSE 0)
    BY <1>1, <1>2 DEF TypeOK
  <2>4. stats'.prefetched = stats'.hits + stats'.wasted + Cardinality(Waiting(entries'))
    <3>1. CASE entries[i].probation
      BY <1>5, <2>1, <2>2, <2>3, <3>1
    <3>2. CASE ~entries[i].probation
      BY <1>5, <2>1, <2>2, <2>3, <3>2
    <3> QED BY <3>1, <3>2
  <2> QED BY <2>4 DEF PrefetchAccounted, Waiting
<1> QED BY <1>8, <1>9, <1>10, <1>11, <1>12, <1>13, <1>14 DEF IInv, PlanIsHeld

(* A refusal gives up the plan; nothing was pinned for it yet.             *)
LEMMA RefuseInv ==
  ASSUME IInv, RefusePins \/ RefuseFetch
  PROVE  IInv'
<1>1. TypeOK /\ PinsFollowPlan /\ PlanWithinCapacity /\ PlanIsCurrent /\ SpeculationBounded
      /\ DemandNotStarved /\ PrefetchAccounted
  BY DEF IInv, PlanIsHeld
<1>2. /\ pc \in {"evict", "fetch"} /\ plan' = NoPlan /\ pc' = "idle" /\ layer' = 1
      /\ refusal' \in {"pin", refusal}
      /\ UNCHANGED <<entries, resident, sweep, predictor, inbox, worker, hints, stats>>
  BY DEF RefusePins, RefuseFetch, Refuse
<1>3. TypeOK'
  <2>1. plan' \in [experts : SUBSET Experts, misses : SUBSET Experts,
                   staged : SUBSET Experts, failed : SUBSET Experts]
    BY <1>2 DEF NoPlan
  <2>2. layer' \in Layers
    BY <1>2, Counts DEF Layers
  <2> QED BY <1>1, <1>2, <2>1, <2>2 DEF TypeOK
<1>4. PinsFollowPlan'
  <2>1. \A i \in DOMAIN entries : entries[i].pins = 0
    BY <1>1, <1>2, Unpinned, Shapes DEF Active
  <2> QED BY <1>2, <2>1 DEF PinsFollowPlan, Active
<1>5. PlanWithinCapacity' /\ DemandNotStarved'
  BY <1>1, <1>2 DEF PlanWithinCapacity, Active, DemandNotStarved
<1>6. PlanIsCurrent'
  BY <1>2 DEF PlanIsCurrent, NoPlan
<1>7. SpeculationBounded' /\ PrefetchAccounted'
  BY <1>1, <1>2 DEF SpeculationBounded, Pending, PrefetchAccounted
<1> QED BY <1>3, <1>4, <1>5, <1>6, <1>7 DEF IInv, PlanIsHeld

LEMMA StartFetchInv ==
  ASSUME IInv, StartFetch
  PROVE  IInv'
<1>1. TypeOK /\ PinsFollowPlan /\ PlanWithinCapacity /\ PlanIsCurrent /\ SpeculationBounded
      /\ DemandNotStarved /\ PrefetchAccounted
  BY DEF IInv, PlanIsHeld
<1>2. /\ pc = "evict" /\ Fits /\ pc' = "fetch"
      /\ UNCHANGED <<entries, resident, sweep, layer, plan, refusal, predictor,
                     inbox, worker, hints, stats>>
  BY DEF StartFetch
<1>3. TypeOK' /\ PlanWithinCapacity' /\ DemandNotStarved' /\ PrefetchAccounted'
  BY <1>1, <1>2 DEF TypeOK, PlanWithinCapacity, Active, DemandNotStarved, PrefetchAccounted
<1>4. PinsFollowPlan'
  BY <1>1, <1>2 DEF PinsFollowPlan, Active
<1>5. PlanIsCurrent' /\ SpeculationBounded'
  BY <1>1, <1>2 DEF PlanIsCurrent, SpeculationBounded, Pending, Fits
<1> QED BY <1>3, <1>4, <1>5 DEF IInv, PlanIsHeld

(* While a miss is not yet staged, there is room for it in the budget: the *)
(* cap covers the entries and all the misses.                              *)
LEMMA RoomForMiss ==
  ASSUME TypeOK, PlanWithinCapacity, PlanIsCurrent, SpeculationBounded,
         pc = "fetch", NEW e \in Unfetched
  PROVE  Leased < Capacity + 2 * Depth
<1>1. /\ Len(entries) \in Nat /\ Len(inbox) \in Nat /\ Len(worker.got) \in Nat
      /\ Cardinality(worker.todo) \in Nat
      /\ IsFiniteSet(plan.misses) /\ Cardinality(plan.misses) \in Nat
      /\ Cardinality(plan.staged) \in Nat
  BY Shapes
<1>2. Cardinality(plan.staged) < Cardinality(plan.misses)
  <2>1. e \in plan.misses /\ plan.staged \subseteq plan.misses \ {e}
    BY DEF Unfetched, PlanIsCurrent
  <2>2. IsFiniteSet(plan.misses \ {e})
        /\ Cardinality(plan.misses \ {e}) = Cardinality(plan.misses) - 1
    BY <1>1, <2>1, FS_RemoveElement
  <2>3. Cardinality(plan.staged) <= Cardinality(plan.misses \ {e})
    BY <2>1, <2>2, FS_Subset
  <2> QED BY <1>1, <2>2, <2>3
<1>3. Len(entries) + Cardinality(plan.misses) <= Capacity
  BY DEF PlanIsCurrent, PlanWithinCapacity, Fits
<1>4. Len(inbox) + (Len(worker.got) + Cardinality(worker.todo)) <= 2 * Depth
  BY DEF SpeculationBounded, Pending
<1> DEFINE a == Len(entries)
<1> DEFINE b == Len(inbox)
<1> DEFINE c == Len(worker.got)
<1> DEFINE d == Cardinality(worker.todo)
<1> DEFINE m == Cardinality(plan.misses)
<1> DEFINE s == Cardinality(plan.staged)
<1>5. a + s + b + c < Capacity + 2 * Depth
  <2>1. Capacity \in Nat /\ Depth \in Nat
    BY Counts
  <2> HIDE DEF a, b, c, d, m, s
  <2> QED BY <1>1, <1>2, <1>3, <1>4, <2>1 DEF a, b, c, d, m, s
<1> QED BY <1>5 DEF Leased

LEMMA FetchMissInv ==
  ASSUME IInv, NEW e \in Experts, FetchMiss(e)
  PROVE  IInv'
<1>1. TypeOK /\ PinsFollowPlan /\ PlanWithinCapacity /\ PlanIsCurrent /\ SpeculationBounded
      /\ DemandNotStarved /\ PrefetchAccounted
  BY DEF IInv, PlanIsHeld
<1>2. /\ pc = "fetch" /\ e \in Unfetched
      /\ UNCHANGED <<entries, resident, pc, sweep, layer, predictor, inbox, worker, hints, stats>>
  BY DEF FetchMiss
<1>3. \/ plan' = [plan EXCEPT !.staged = @ \union {e}] /\ refusal' = refusal
      \/ plan' = [plan EXCEPT !.failed = @ \union {e}] /\ refusal' \in {"io", "budget"}
  BY DEF FetchMiss
<1>4. /\ plan' \in [experts : SUBSET Experts, misses : SUBSET Experts,
                     staged : SUBSET Experts, failed : SUBSET Experts]
      /\ plan'.experts = plan.experts /\ plan'.misses = plan.misses
      /\ plan'.staged \subseteq plan.staged \union {e}
  <2>1. plan \in [experts : SUBSET Experts, misses : SUBSET Experts,
                  staged : SUBSET Experts, failed : SUBSET Experts]
    BY <1>1 DEF TypeOK
  <2> QED BY <1>3, <2>1
<1>5. TypeOK'
  BY <1>1, <1>2, <1>3, <1>4 DEF TypeOK
<1>6. PinsFollowPlan'
  BY <1>1, <1>2, <1>4 DEF PinsFollowPlan, Active, Bound, Selected
<1>7. PlanWithinCapacity' /\ PrefetchAccounted'
  BY <1>1, <1>2 DEF PlanWithinCapacity, Active, PrefetchAccounted
<1>8. PlanIsCurrent'
  <2>1. e \in plan.misses /\ plan.staged \subseteq plan.misses
    BY <1>1, <1>2 DEF PlanIsCurrent, Unfetched
  <2>2. Fits'
    BY <1>1, <1>2, <1>4 DEF PlanIsCurrent, Fits
  <2> QED BY <1>1, <1>2, <1>4, <2>1, <2>2 DEF PlanIsCurrent
<1>9. SpeculationBounded'
  BY <1>1, <1>2 DEF SpeculationBounded, Pending
<1>10. DemandNotStarved'
  <2> SUFFICES ASSUME BrokerUnits >= Capacity + 2 * Depth PROVE refusal' # "budget"
    BY DEF DemandNotStarved
  <2>1. CanReserve
    <3>1. Leased < Capacity + 2 * Depth
      BY <1>1, <1>2, RoomForMiss
    <3>2. Leased \in Nat
      BY <1>1, Shapes DEF Leased
    <3> QED BY <3>1, <3>2, Counts DEF CanReserve
  <2>2. refusal' \in {refusal, "io"}
    BY <2>1 DEF FetchMiss
  <2> QED BY <1>1, <2>2 DEF DemandNotStarved
<1> QED BY <1>5, <1>6, <1>7, <1>8, <1>9, <1>10 DEF IInv, PlanIsHeld

(* Pinning an unpinned entry leaves its id, one pin, and no probation.     *)
LEMMA PinEntry ==
  ASSUME NEW r \in EntryType, r.pins = 0
  PROVE  LET t == [r EXCEPT !.pins = @ + 1, !.probation = FALSE] IN
         t \in EntryType /\ t.id = r.id /\ t.pins = 1 /\ t.probation = FALSE
<1> DEFINE t == [r EXCEPT !.pins = 1, !.probation = FALSE]
<1>1. t \in EntryType /\ t.id = r.id /\ t.pins = 1 /\ t.probation = FALSE
  BY DEF EntryType
<1>2. r.pins + 1 = 1
  OBVIOUS
<1>3. [r EXCEPT !.pins = @ + 1, !.probation = FALSE] = t
  BY <1>2
<1> QED BY <1>1, <1>3

(* What activation leaves in the cache: the old entries under their ids,   *)
(* those the route names pinned and off probation, and then each missing   *)
(* expert once, pinned.                                                    *)
OldPinned(m) ==
  \A i \in 1..m :
     /\ entries'[i].id = entries[i].id
     /\ entries'[i].pins = (IF Bound(entries, i) THEN 1 ELSE 0)
     /\ entries'[i].probation <=> entries[i].probation /\ ~Bound(entries, i)
NewPinned(m, c) ==
  \E q \in [1..c -> plan.staged] :
     /\ IsInjective(q) /\ \A e \in plan.staged : \E k \in 1..c : q[k] = e
     /\ \A i \in (m + 1)..(m + c) :
          /\ entries'[i].id = <<layer, q[i - m]>>
          /\ entries'[i].pins = 1 /\ ~entries'[i].probation

LEMMA ActivateFacts ==
  ASSUME TypeOK, PinsFollowPlan, PlanIsCurrent, Activate
  PROVE  /\ entries' \in Seq(EntryType)
         /\ Len(entries') = Len(entries) + Cardinality(plan.staged)
         /\ DOMAIN entries' = 1..(Len(entries) + Cardinality(plan.staged))
         /\ resident' = resident + Cardinality(plan.staged)
         /\ OldPinned(Len(entries)) /\ NewPinned(Len(entries), Cardinality(plan.staged))
<1> DEFINE m == Len(entries)
<1> DEFINE c == Cardinality(plan.staged)
<1> DEFINE q == SetToSeq(plan.staged)
<1> DEFINE pinned == [i \in DOMAIN entries |->
                       IF Bound(entries, i)
                       THEN [entries[i] EXCEPT !.pins = @ + 1, !.probation = FALSE]
                       ELSE entries[i]]
<1> DEFINE loaded == [k \in 1..c |-> [id |-> <<layer, q[k]>>, pins |-> 1, probation |-> FALSE]]
<1>1. /\ m \in Nat /\ DOMAIN entries = 1..m /\ \A i \in 1..m : entries[i] \in EntryType
      /\ plan.staged \subseteq Experts /\ IsFiniteSet(plan.staged) /\ c \in Nat /\ layer \in Layers
  BY Shapes DEF TypeOK
<1>2. \A i \in 1..m : entries[i].pins = 0
  BY Unpinned DEF Activate, Active
<1>3. /\ q \in [1..c -> plan.staged] /\ IsInjective(q)
      /\ \A e \in plan.staged : \E k \in 1..c : q[k] = e
  BY <1>1, SetToSeqFacts
<1>4. entries' = pinned \o loaded /\ resident' = resident + Len(loaded)
  BY DEF Activate
<1> HIDE DEF q, m, c
<1>5. \A i \in 1..m :
        /\ pinned[i] \in EntryType
        /\ pinned[i].id = entries[i].id
        /\ pinned[i].pins = (IF Bound(entries, i) THEN 1 ELSE 0)
        /\ pinned[i].probation <=> entries[i].probation /\ ~Bound(entries, i)
  <2> SUFFICES ASSUME NEW i \in 1..m
               PROVE  /\ pinned[i] \in EntryType
                      /\ pinned[i].id = entries[i].id
                      /\ pinned[i].pins = (IF Bound(entries, i) THEN 1 ELSE 0)
                      /\ pinned[i].probation <=> entries[i].probation /\ ~Bound(entries, i)
    OBVIOUS
  <2>1. entries[i] \in EntryType /\ entries[i].pins = 0 /\ i \in DOMAIN entries
    BY <1>1, <1>2
  <2>2. CASE Bound(entries, i)
    <3>1. pinned[i] = [entries[i] EXCEPT !.pins = @ + 1, !.probation = FALSE]
      BY <2>1, <2>2
    <3> HIDE DEF pinned
    <3> QED BY <2>1, <2>2, <3>1, PinEntry
  <2>3. CASE ~Bound(entries, i)
    <3>1. pinned[i] = entries[i]
      BY <2>1, <2>3
    <3> HIDE DEF pinned
    <3> QED BY <2>1, <2>3, <3>1 DEF EntryType
  <2> QED BY <2>2, <2>3
<1>6. pinned \in Seq(EntryType) /\ Len(pinned) = m
  <2>1. pinned = [i \in 1..m |-> pinned[i]]
    BY <1>1
  <2> HIDE DEF pinned
  <2>2. pinned \in [1..m -> EntryType]
    BY <1>5, <2>1
  <2> QED BY <1>1, <2>2
<1>7. /\ loaded \in Seq(EntryType) /\ Len(loaded) = c
      /\ \A k \in 1..c : /\ loaded[k].id = <<layer, q[k]>>
                          /\ loaded[k].pins = 1 /\ ~loaded[k].probation
  <2>1. \A k \in 1..c : [id |-> <<layer, q[k]>>, pins |-> 1, probation |-> FALSE] \in EntryType
    BY <1>1, <1>3 DEF EntryType, Ids
  <2>2. loaded \in [1..c -> EntryType]
    BY <2>1
  <2>3. \A k \in 1..c : /\ loaded[k].id = <<layer, q[k]>>
                         /\ loaded[k].pins = 1 /\ ~loaded[k].probation
    OBVIOUS
  <2> HIDE DEF loaded
  <2>4. loaded \in Seq(EntryType) /\ Len(loaded) = c
    BY <1>1, <2>2
  <2> QED BY <2>3, <2>4
<1> HIDE DEF pinned, loaded
<1>8. /\ entries' \in Seq(EntryType) /\ Len(entries') = m + c
      /\ \A i \in 1..(m + c) : entries'[i] = IF i <= m THEN pinned[i] ELSE loaded[i - m]
  BY <1>4, <1>6, <1>7, ConcatProperties
<1>9. DOMAIN entries' = 1..(m + c)
  BY <1>8, LenProperties
<1>10. \A i \in 1..m : entries'[i] = pinned[i]
  BY <1>1, <1>8
<1>11. \A i \in (m + 1)..(m + c) : entries'[i] = loaded[i - m] /\ i - m \in 1..c
  BY <1>1, <1>8
<1>12. resident' = resident + c
  BY <1>4, <1>7
<1>13. \A i \in (m + 1)..(m + c) :
         /\ entries'[i].id = <<layer, q[i - m]>>
         /\ entries'[i].pins = 1 /\ ~entries'[i].probation
  BY <1>7, <1>11
<1>14. OldPinned(m)
  BY <1>5, <1>10 DEF OldPinned
<1>15. NewPinned(m, c)
  BY <1>3, <1>13 DEF NewPinned
<1> QED BY <1>8, <1>9, <1>12, <1>14, <1>15 DEF m, c

(* After activation exactly the entries that find() returns for the        *)
(* route's experts are pinned, and every expert of the route has one.      *)
LEMMA ActivatePins ==
  ASSUME TypeOK, PinsFollowPlan, PlanIsCurrent, Activate
  PROVE  PinsFollowPlan'
<1> DEFINE m == Len(entries)
<1> DEFINE c == Cardinality(plan.staged)
<1>1. /\ m \in Nat /\ c \in Nat /\ DOMAIN entries' = 1..(m + c)
      /\ OldPinned(m) /\ NewPinned(m, c)
  BY Shapes, ActivateFacts
<1>2. DOMAIN entries = 1..m
  BY Shapes
<1> HIDE DEF m, c
<1>3. PICK q \in [1..c -> plan.staged] :
        /\ IsInjective(q) /\ \A e \in plan.staged : \E k \in 1..c : q[k] = e
        /\ \A i \in (m + 1)..(m + c) :
             entries'[i].id = <<layer, q[i - m]>> /\ entries'[i].pins = 1
  BY <1>1 DEF NewPinned
<1>4. /\ plan.staged = {e \in plan.experts : ~Holds(entries, <<layer, e>>)}
      /\ plan'.experts = plan.experts /\ layer' = layer /\ Active'
  BY DEF Activate, PlanIsCurrent, Active, TypeOK
<1>5. \A i \in 1..m, e \in plan.staged : entries[i].id # <<layer, e>>
  BY <1>2, <1>4 DEF Holds
<1>6. \A i \in 1..m : Bound(entries, i)' <=> Bound(entries, i)
  <2> SUFFICES ASSUME NEW i \in 1..m PROVE Bound(entries, i)' <=> Bound(entries, i)
    OBVIOUS
  <2>1. Selected(entries, i)' <=> Selected(entries, i)
    BY <1>1, <1>4 DEF Selected, OldPinned
  <2>2. \A j \in 1..(i - 1) : j \in 1..m
    BY <1>1
  <2>3. IsFirst(entries, i)' <=> IsFirst(entries, i)
    BY <1>1, <2>2 DEF IsFirst, OldPinned
  <2> QED BY <2>1, <2>3 DEF Bound
<1>7. \A i \in (m + 1)..(m + c) : Bound(entries, i)'
  <2> SUFFICES ASSUME NEW i \in (m + 1)..(m + c) PROVE Bound(entries, i)'
    OBVIOUS
  <2>1. i - m \in 1..c /\ q[i - m] \in plan.staged /\ entries'[i].id = <<layer, q[i - m]>>
    BY <1>1, <1>3
  <2>2. Selected(entries, i)'
    BY <1>4, <2>1 DEF Selected
  <2>3. ASSUME NEW j \in 1..(i - 1) PROVE entries'[j].id # entries'[i].id
    <3>1. CASE j <= m
      <4>1. j \in 1..m
        BY <1>1, <3>1
      <4>2. entries'[j].id = entries[j].id
        BY <1>1, <4>1 DEF OldPinned
      <4>3. entries[j].id # <<layer, q[i - m]>>
        BY <1>5, <2>1, <4>1
      <4> QED BY <2>1, <4>2, <4>3
    <3>2. CASE ~(j <= m)
      <4>1. j \in (m + 1)..(m + c) /\ j - m \in 1..c /\ j - m # i - m
        BY <1>1, <3>2
      <4>2. q[j - m] # q[i - m]
        <5>1. DOMAIN q = 1..c
          BY <1>3
        <5> QED BY <1>3, <2>1, <4>1, <5>1 DEF IsInjective
      <4> QED BY <1>3, <2>1, <4>1, <4>2
    <3> QED BY <3>1, <3>2
  <2>4. IsFirst(entries, i)'
    BY <2>3 DEF IsFirst
  <2> QED BY <2>2, <2>4 DEF Bound
<1>8. \A i \in DOMAIN entries' : entries'[i].pins = IF Active' /\ Bound(entries, i)' THEN 1 ELSE 0
  <2> SUFFICES ASSUME NEW i \in 1..(m + c) PROVE entries'[i].pins = IF Bound(entries, i)' THEN 1 ELSE 0
    BY <1>1, <1>4
  <2>1. CASE i <= m
    <3>1. i \in 1..m
      BY <1>1, <2>1
    <3> QED BY <1>1, <1>6, <3>1 DEF OldPinned
  <2>2. CASE ~(i <= m)
    <3>1. i \in (m + 1)..(m + c)
      BY <1>1, <2>2
    <3> QED BY <1>3, <1>7, <3>1
  <2> QED BY <2>1, <2>2
<1>9. \A e \in plan'.experts : Holds(entries', <<layer', e>>)
  <2> SUFFICES ASSUME NEW e \in plan.experts PROVE Holds(entries', <<layer, e>>)
    BY <1>4
  <2>1. CASE e \in plan.staged
    <3>1. PICK k \in 1..c : q[k] = e
      BY <1>3, <2>1
    <3>2. PICK i \in (m + 1)..(m + c) : i - m = k /\ i \in 1..(m + c)
      <4> DEFINE i == m + k
      <4>1. i \in (m + 1)..(m + c) /\ i - m = k /\ i \in 1..(m + c)
        BY <1>1
      <4> HIDE DEF i
      <4> QED BY <4>1
    <3>3. entries'[i].id = <<layer, e>>
      BY <1>3, <3>1, <3>2
    <3> QED BY <1>1, <3>2, <3>3 DEF Holds
  <2>2. CASE e \notin plan.staged
    <3>1. PICK i \in 1..m : entries[i].id = <<layer, e>>
      BY <1>2, <1>4, <2>2 DEF Holds
    <3>2. i \in 1..(m + c)
      BY <1>1
    <3> QED BY <1>1, <3>1, <3>2 DEF Holds, OldPinned
  <2> QED BY <2>1, <2>2
<1> QED BY <1>8, <1>9 DEF PinsFollowPlan

LEMMA ActivateInv ==
  ASSUME IInv, Activate
  PROVE  IInv'
<1> DEFINE m == Len(entries)
<1> DEFINE c == Cardinality(plan.staged)
<1> DEFINE used == {i \in DOMAIN entries : Bound(entries, i) /\ entries[i].probation}
<1>1. TypeOK /\ PinsFollowPlan /\ PlanWithinCapacity /\ PlanIsCurrent /\ SpeculationBounded
      /\ DemandNotStarved /\ PrefetchAccounted
  BY DEF IInv, PlanIsHeld
<1>2. /\ pc = "fetch" /\ plan.misses = plan.staged /\ plan' = [plan EXCEPT !.staged = {}]
      /\ stats' = [stats EXCEPT !.hits = @ + Cardinality(used)]
      /\ pc' = IF sweep = "exact" THEN "hint" ELSE "compute"
      /\ UNCHANGED <<sweep, layer, refusal, predictor, inbox, worker, hints>>
  BY DEF Activate
<1>3. /\ entries' \in Seq(EntryType) /\ Len(entries') = m + c /\ DOMAIN entries' = 1..(m + c)
      /\ resident' = resident + c /\ OldPinned(m) /\ NewPinned(m, c)
  BY <1>1, ActivateFacts
<1>4. m \in Nat /\ c \in Nat /\ DOMAIN entries = 1..m /\ entries \in Seq(EntryType)
  BY <1>1, Shapes DEF TypeOK
<1>5. resident = m /\ m + c <= Capacity
  BY <1>1, <1>2 DEF PlanWithinCapacity, PlanIsCurrent, Fits
<1>6. PinsFollowPlan'
  BY <1>1, ActivatePins
<1>7. Waiting(entries') = Waiting(entries) \ used
  <2> HIDE DEF m, c
  <2>1. ASSUME NEW i \in 1..(m + c)
        PROVE  entries'[i].probation <=> i \in 1..m /\ entries[i].probation /\ ~Bound(entries, i)
    <3>1. CASE i <= m
      <4>1. i \in 1..m
        BY <1>4, <3>1
      <4> QED BY <1>3, <4>1 DEF OldPinned
    <3>2. CASE ~(i <= m)
      <4>1. i \in (m + 1)..(m + c) /\ i \notin 1..m
        BY <1>4, <3>2
      <4> QED BY <1>3, <4>1 DEF NewPinned
    <3> QED BY <3>1, <3>2
  <2>2. \A i \in 1..m : i \in 1..(m + c)
    BY <1>4
  <2> QED BY <1>3, <1>4, <2>1, <2>2 DEF Waiting
<1>8. /\ Cardinality(Waiting(entries)) \in Nat /\ Cardinality(used) \in Nat
      /\ Cardinality(Waiting(entries')) = Cardinality(Waiting(entries)) - Cardinality(used)
  <2>1. IsFiniteSet(Waiting(entries)) /\ Cardinality(Waiting(entries)) \in Nat
    BY <1>4, WaitingFinite
  <2>2. used \subseteq Waiting(entries) /\ Waiting(entries) \cap used = used
    BY DEF Waiting
  <2> HIDE DEF used
  <2>3. IsFiniteSet(used) /\ Cardinality(used) \in Nat
    BY <2>1, <2>2, FS_Subset, FS_CardinalityType
  <2>4. Cardinality(Waiting(entries) \ used)
          = Cardinality(Waiting(entries)) - Cardinality(Waiting(entries) \cap used)
    BY <2>1, FS_Difference
  <2> QED BY <1>7, <2>1, <2>2, <2>3, <2>4
<1> HIDE DEF used
<1>9. stats' \in [prefetched : Nat, hits : Nat, wasted : Nat]
      /\ stats'.prefetched = stats.prefetched /\ stats'.wasted = stats.wasted
      /\ stats'.hits = stats.hits + Cardinality(used)
  <2>1. stats.hits + Cardinality(used) \in Nat
    <3>1. stats.hits \in Nat
      BY <1>1 DEF TypeOK
    <3> QED BY <1>8, <3>1
  <2> QED BY <1>1, <1>2, <2>1 DEF TypeOK
<1>10. TypeOK'
  <2>1. \A i \in DOMAIN entries' : entries'[i].pins <= 1
    <3> SUFFICES ASSUME NEW i \in DOMAIN entries' PROVE entries'[i].pins <= 1
      OBVIOUS
    <3>1. entries'[i].pins = 0 \/ entries'[i].pins = 1
      BY <1>6 DEF PinsFollowPlan
    <3> QED BY <3>1
  <2>2. resident' \in Nat
    BY <1>3, <1>4, <1>5
  <2>3. plan' \in [experts : SUBSET Experts, misses : SUBSET Experts,
                   staged : SUBSET Experts, failed : SUBSET Experts]
    BY <1>1, <1>2 DEF TypeOK
  <2>4. pc' \in {"hint", "compute"}
    BY <1>2
  <2> QED BY <1>1, <1>2, <1>3, <1>9, <2>1, <2>2, <2>3, <2>4 DEF TypeOK
<1>11. PlanWithinCapacity'
  <2>1. resident' = Len(entries') /\ resident' <= Capacity
    BY <1>3, <1>5
  <2> QED BY <2>1 DEF PlanWithinCapacity
<1>12. PlanIsCurrent'
  <2>1. plan'.staged = {}
    BY <1>1, <1>2 DEF TypeOK
  <2> QED BY <1>2, <2>1 DEF PlanIsCurrent
<1>13. SpeculationBounded'
  <2>1. Pending' = Pending /\ Pending \in Nat /\ Len(inbox) \in Nat
    BY <1>1, <1>2, Shapes DEF Pending
  <2>2. Len(inbox) + Pending <= 2 * Depth
    BY <1>1 DEF SpeculationBounded
  <2>3. Len(entries') + Len(inbox) + Pending <= Capacity + 2 * Depth
    <3>1. Len(entries') \in Nat /\ Len(entries') <= Capacity
      BY <1>3, <1>4, <1>5
    <3> QED BY <2>1, <2>2, <3>1, Counts
  <2> QED BY <1>1, <1>2, <2>1, <2>3 DEF SpeculationBounded
<1>14. DemandNotStarved'
  BY <1>1, <1>2 DEF DemandNotStarved
<1>15. PrefetchAccounted'
  <2>1. stats.prefetched \in Nat /\ stats.hits \in Nat /\ stats.wasted \in Nat
    BY <1>1 DEF TypeOK
  <2>2. stats.prefetched = stats.hits + stats.wasted + Cardinality(Waiting(entries))
    BY <1>1 DEF PrefetchAccounted, Waiting
  <2>3. stats'.prefetched = stats'.hits + stats'.wasted + Cardinality(Waiting(entries'))
    BY <1>8, <1>9, <2>1, <2>2
  <2> QED BY <2>3 DEF PrefetchAccounted, Waiting
<1> QED BY <1>6, <1>10, <1>11, <1>12, <1>13, <1>14, <1>15 DEF IInv, PlanIsHeld

(* A hint is issued only when the last exact route has drained the inbox   *)
(* of all but one batch and the worker has none, so a second batch fits.   *)
LEMMA HintInv ==
  ASSUME IInv, NEW predicted \in SUBSET Experts, Hint(predicted)
  PROVE  IInv'
<1>1. TypeOK /\ PinsFollowPlan /\ PlanWithinCapacity /\ PlanIsCurrent /\ SpeculationBounded
      /\ DemandNotStarved /\ PrefetchAccounted
  BY DEF IInv, PlanIsHeld
<1>2. /\ pc = "hint" /\ pc' = "compute" /\ Cardinality(predicted) <= Depth
      /\ \E known \in {predictor.seen \union ({layer} \X plan.experts), predictor.seen} :
            predictor' = [previous |-> TRUE, seen |-> known]
      /\ UNCHANGED <<entries, resident, sweep, layer, plan, refusal, inbox, stats>>
  BY DEF Hint
<1>3. \/ worker' = worker /\ hints' = hints
      \/ /\ worker.phase = "idle" /\ hints < MaxHints /\ hints' = hints + 1
         /\ worker' = [phase |-> "loading", layer |-> NextLayer, todo |-> predicted, got |-> <<>>]
  BY DEF Hint
<1>4. TypeOK'
  <2>1. predictor' \in [previous : BOOLEAN, seen : SUBSET Ids]
    <3>1. predictor.seen \subseteq Ids /\ {layer} \X plan.experts \subseteq Ids
      BY <1>1 DEF TypeOK, Ids
    <3>2. PICK known \in SUBSET Ids : predictor' = [previous |-> TRUE, seen |-> known]
      <4>1. predictor.seen \union ({layer} \X plan.experts) \in SUBSET Ids /\ predictor.seen \in SUBSET Ids
        BY <3>1
      <4> QED BY <1>2, <4>1
    <3> QED BY <3>2
  <2>2. worker' \in [phase : {"idle", "loading", "delivered"}, layer : Layers,
                     todo : SUBSET Experts, got : Seq(Ids)]
    <3>1. NextLayer \in Layers /\ <<>> \in Seq(Ids)
      BY <1>1, NextLayerType DEF TypeOK
    <3>2. CASE worker' = worker
      BY <1>1, <3>2 DEF TypeOK
    <3>3. CASE worker' = [phase |-> "loading", layer |-> NextLayer, todo |-> predicted, got |-> <<>>]
      BY <3>1, <3>3
    <3> QED BY <1>3, <3>2, <3>3
  <2>3. hints' \in 0..MaxHints
    BY <1>1, <1>3, Counts DEF TypeOK
  <2> QED BY <1>1, <1>2, <2>1, <2>2, <2>3 DEF TypeOK
<1>5. PinsFollowPlan'
  BY <1>1, <1>2 DEF PinsFollowPlan, Active, Bound, Selected
<1>6. PlanWithinCapacity' /\ PlanIsCurrent' /\ DemandNotStarved' /\ PrefetchAccounted'
  BY <1>1, <1>2 DEF PlanWithinCapacity, PlanIsCurrent, DemandNotStarved, PrefetchAccounted, Active
<1>7. SpeculationBounded'
  <2>1. /\ Len(entries) \in Nat /\ Len(inbox) \in Nat /\ Pending \in Nat /\ Depth \in Nat
        /\ Capacity \in Nat
    BY <1>1, Shapes, Counts
  <2>2. CASE worker' = worker
    BY <1>1, <1>2, <2>2 DEF SpeculationBounded, Pending
  <2>3. CASE /\ worker.phase = "idle"
             /\ worker' = [phase |-> "loading", layer |-> NextLayer, todo |-> predicted, got |-> <<>>]
    <3>1. Len(inbox) <= Depth
      <4>1. Len(inbox) + Pending <= Depth
        BY <1>1, <1>2 DEF SpeculationBounded, PlanIsCurrent
      <4> QED BY <2>1, <4>1
    <3>2. Len(entries) <= Capacity
      BY <1>1, <1>2 DEF PlanWithinCapacity, Active
    <3>3. Pending' \in Nat /\ Pending' <= Depth
      <4>1. Pending' = 0 + Cardinality(predicted)
        <5>1. worker'.todo = predicted /\ Len(worker'.got) = 0
          BY <2>3
        <5> QED BY <5>1, Zenon DEF Pending
      <4>2. Cardinality(predicted) \in Nat
        BY Counts
      <4> QED BY <1>2, <4>1, <4>2
    <3>4. worker'.phase = "loading"
      BY <2>3
    <3>5. Len(inbox) + Pending' <= 2 * Depth /\ Len(entries) + Len(inbox) + Pending' <= Capacity + 2 * Depth
      BY <2>1, <3>1, <3>2, <3>3
    <3> QED BY <1>2, <3>3, <3>4, <3>5 DEF SpeculationBounded
  <2> QED BY <1>3, <2>2, <2>3
<1> QED BY <1>4, <1>5, <1>6, <1>7 DEF IInv, PlanIsHeld

(* Unpinning an entry that an active plan has pinned.                      *)
LEMMA UnpinEntry ==
  ASSUME NEW r \in EntryType, r.pins = 1
  PROVE  LET t == [r EXCEPT !.pins = @ - 1] IN
         t \in EntryType /\ t.id = r.id /\ t.pins = 0 /\ t.probation = r.probation
<1> DEFINE t == [r EXCEPT !.pins = 0]
<1>1. t \in EntryType /\ t.id = r.id /\ t.pins = 0 /\ t.probation = r.probation
  BY DEF EntryType
<1>2. r.pins - 1 = 0
  OBVIOUS
<1>3. [r EXCEPT !.pins = @ - 1] = t
  BY <1>2
<1> QED BY <1>1, <1>3

LEMMA FinishInv ==
  ASSUME IInv, NEW ok \in BOOLEAN, Finish(ok)
  PROVE  IInv'
<1> DEFINE n == Len(entries)
<1>1. TypeOK /\ PinsFollowPlan /\ PlanWithinCapacity /\ PlanIsCurrent /\ SpeculationBounded
      /\ DemandNotStarved /\ PrefetchAccounted
  BY DEF IInv, PlanIsHeld
<1>2. /\ pc = "compute" /\ plan' = NoPlan /\ pc' = "idle"
      /\ entries' = [i \in DOMAIN entries |->
                        IF Bound(entries, i) /\ entries[i].pins > 0
                        THEN [entries[i] EXCEPT !.pins = @ - 1] ELSE entries[i]]
      /\ UNCHANGED <<resident, sweep, refusal, predictor, inbox, worker, hints, stats>>
  BY DEF Finish
<1>3. n \in Nat /\ DOMAIN entries = 1..n /\ \A i \in 1..n : entries[i] \in EntryType
  BY <1>1, Shapes
<1>4. layer' \in Layers
  <2>1. NextLayer \in Layers /\ 1 \in Layers
    BY <1>1, NextLayerType, Counts DEF TypeOK, Layers
  <2> QED BY <2>1 DEF Finish
<1> HIDE DEF n
<1>5. ASSUME NEW i \in 1..n
      PROVE  /\ entries'[i] \in EntryType /\ entries'[i].pins = 0
             /\ entries'[i].probation = entries[i].probation
  <2>1. entries[i].pins = IF Bound(entries, i) THEN 1 ELSE 0
    BY <1>1, <1>2, <1>3 DEF PinsFollowPlan, Active
  <2>2. CASE Bound(entries, i)
    <3>1. entries[i].pins = 1 /\ entries[i].pins > 0
      BY <2>1, <2>2
    <3>2. entries'[i] = [entries[i] EXCEPT !.pins = @ - 1]
      BY <1>2, <1>3, <2>2, <3>1
    <3> QED BY <1>3, <3>1, <3>2, UnpinEntry
  <2>3. CASE ~Bound(entries, i)
    <3>1. entries'[i] = entries[i] /\ entries[i].pins = 0
      BY <1>2, <1>3, <2>1, <2>3
    <3> QED BY <1>3, <3>1
  <2> QED BY <2>2, <2>3
<1>6. DOMAIN entries' = 1..n /\ entries' \in Seq(EntryType) /\ Len(entries') = n
  <2>1. entries' = [i \in 1..n |-> entries'[i]]
    BY <1>2, <1>3
  <2>2. entries' \in [1..n -> EntryType]
    BY <1>5, <2>1
  <2> QED BY <1>3, <2>2
<1>7. Waiting(entries') = Waiting(entries)
  BY <1>3, <1>5, <1>6 DEF Waiting
<1>8. TypeOK'
  <2>1. plan' \in [experts : SUBSET Experts, misses : SUBSET Experts,
                   staged : SUBSET Experts, failed : SUBSET Experts]
    BY <1>2 DEF NoPlan
  <2>2. \A i \in DOMAIN entries' : entries'[i].pins <= 1
    BY <1>5, <1>6
  <2> QED BY <1>1, <1>2, <1>4, <1>6, <2>1, <2>2 DEF TypeOK
<1>9. PinsFollowPlan'
  BY <1>2, <1>5, <1>6 DEF PinsFollowPlan, Active
<1>10. PlanWithinCapacity'
  BY <1>1, <1>2, <1>6 DEF PlanWithinCapacity, Active, n
<1>11. PlanIsCurrent'
  BY <1>2 DEF PlanIsCurrent, NoPlan
<1>12. SpeculationBounded'
  <2>1. Len(entries') = Len(entries) /\ Pending' = Pending
    BY <1>2, <1>6 DEF n, Pending
  <2> QED BY <1>1, <1>2, <2>1 DEF SpeculationBounded
<1>13. DemandNotStarved'
  BY <1>1, <1>2 DEF DemandNotStarved
<1>14. PrefetchAccounted'
  BY <1>1, <1>2, <1>7 DEF PrefetchAccounted, Waiting
<1> QED BY <1>8, <1>9, <1>10, <1>11, <1>12, <1>13, <1>14 DEF IInv, PlanIsHeld

LEMMA StepInv == IInv /\ [Next]_vars => IInv'
<1> SUFFICES ASSUME IInv, [Next]_vars PROVE IInv'
  OBVIOUS
<1>1. ASSUME NEW S \in Routes, PrepareExact(S) PROVE IInv'
  BY <1>1, PrepareExactInv DEF Routes
<1>2. ASSUME NEW S \in Unions, PrepareBatch(S) PROVE IInv'
  BY <1>2, PrepareBatchInv DEF Unions
<1>3. ASSUME NEW i \in DOMAIN entries, Evict(i) PROVE IInv'
  BY <1>3, EvictInv
<1>4. CASE RefusePins \/ RefuseFetch
  BY <1>4, RefuseInv
<1>5. CASE StartFetch
  BY <1>5, StartFetchInv
<1>6. ASSUME NEW e \in Experts, FetchMiss(e) PROVE IInv'
  BY <1>6, FetchMissInv
<1>7. CASE Activate
  BY <1>7, ActivateInv
<1>8. ASSUME NEW S \in SUBSET Experts, Hint(S) PROVE IInv'
  BY <1>8, HintInv
<1>9. ASSUME NEW ok \in BOOLEAN, Finish(ok) PROVE IInv'
  BY <1>9, FinishInv
<1>10. ASSUME NEW e \in Experts, WorkerLoad(e) PROVE IInv'
  BY <1>10, WorkerLoadInv
<1>11. CASE WorkerDeliver \/ WorkerRetire
  BY <1>11, WorkerHandOverInv
<1>12. CASE UNCHANGED vars
  BY <1>12 DEF vars, IInv, PlanIsHeld, TypeOK, PinsFollowPlan, PlanWithinCapacity, PlanIsCurrent,
        SpeculationBounded, DemandNotStarved, PrefetchAccounted, Active, Bound, Selected, Fits, Pending
<1> QED BY <1>1, <1>2, <1>3, <1>4, <1>5, <1>6, <1>7, <1>8, <1>9, <1>10, <1>11, <1>12
        DEF Next, Decode, Prefetch

(* The invariant that the rest follows from: what a route has missed and   *)
(* staged (prepare_exact_route, mod.rs:729-860), and how much speculation  *)
(* can be under way (advance_prefetch, mod.rs:629-698).                    *)
THEOREM Invariance == Spec => []IInv
<1>1. Init => IInv
  BY InitInv
<1>2. IInv /\ [Next]_vars => IInv'
  BY StepInv
<1> QED BY <1>1, <1>2, PTL DEF Spec

(* From prepare to finish every expert of the plan is resident, exactly    *)
(* those are pinned, and the cache is within its cap                       *)
(* (mod.rs:729-860), for every size of cache and model.                    *)
THEOREM PlanHeld == Spec => []PlanIsHeld
<1>1. IInv => PlanIsHeld
  BY DEF IInv
<1> QED BY <1>1, Invariance, PTL

(* The cache, the experts being loaded and the two speculative batches     *)
(* never lease more than the cap and twice the prefetch depth, even when   *)
(* deliveries are kept over the cap (mod.rs:576-617).                      *)
THEOREM Footprint == Spec => []FootprintBounded
<1>1. IInv => FootprintBounded
  <2> SUFFICES ASSUME IInv PROVE FootprintBounded
    OBVIOUS
  <2>1. TypeOK /\ PlanWithinCapacity /\ PlanIsCurrent /\ SpeculationBounded
    BY DEF IInv, PlanIsHeld
  <2>2. /\ Len(entries) \in Nat /\ Len(inbox) \in Nat /\ Len(worker.got) \in Nat
        /\ Cardinality(worker.todo) \in Nat
        /\ IsFiniteSet(plan.misses) /\ Cardinality(plan.misses) \in Nat
        /\ Cardinality(plan.staged) \in Nat
    BY <2>1, Shapes
  <2> DEFINE a == Len(entries)
  <2> DEFINE b == Len(inbox)
  <2> DEFINE c == Len(worker.got)
  <2> DEFINE d == Cardinality(worker.todo)
  <2> DEFINE m == Cardinality(plan.misses)
  <2> DEFINE s == Cardinality(plan.staged)
  <2>3. b + (c + d) <= 2 * Depth /\ a + b + (c + d) <= Capacity + 2 * Depth
    BY <2>1 DEF SpeculationBounded, Pending
  <2>4. CASE pc = "fetch"
    <3>1. a + m <= Capacity
      BY <2>1, <2>4 DEF PlanIsCurrent, PlanWithinCapacity, Fits
    <3>2. s <= m
      BY <2>1, <2>2, <2>4, FS_Subset DEF PlanIsCurrent
    <3>3. a \in Nat /\ b \in Nat /\ c \in Nat /\ d \in Nat /\ m \in Nat /\ s \in Nat
      BY <2>2
    <3>4. a + s + b + c <= Capacity + 2 * Depth
      <4> HIDE DEF a, b, c, d, m, s
      <4> QED BY <2>3, <3>1, <3>2, <3>3, Counts
    <3> QED BY <3>4 DEF FootprintBounded, Leased
  <2>5. CASE pc # "fetch"
    <3>1. s = 0
      BY <2>1, <2>5, FS_EmptySet DEF PlanIsCurrent
    <3>2. a + s + b + c <= Capacity + 2 * Depth
      <4>1. a \in Nat /\ b \in Nat /\ c \in Nat /\ d \in Nat /\ Capacity \in Nat /\ Depth \in Nat
        BY <2>2, Counts
      <4> HIDE DEF a, b, c, d, m, s
      <4> QED BY <2>3, <3>1, <4>1
    <3> QED BY <3>2 DEF FootprintBounded, Leased
  <2> QED BY <2>4, <2>5
<1> QED BY <1>1, Invariance, PTL

(* A budget that covers the cap and two speculative batches never denies   *)
(* a demanded expert its lease (load_expert in fetch_all, mod.rs:783-798). *)
THEOREM DemandServed == Spec => []DemandNotStarved
<1>1. IInv => DemandNotStarved
  BY DEF IInv
<1> QED BY <1>1, Invariance, PTL

(* Every speculative read is counted once: used, wasted, or on probation   *)
(* (drain_prefetch_inbox, remove_entry, activation).                       *)
THEOREM PrefetchCounted == Spec => []PrefetchAccounted
<1>1. IInv => PrefetchAccounted
  BY DEF IInv
<1> QED BY <1>1, Invariance, PTL

(* When nothing can be evicted, every entry serves the route, and if none  *)
(* serves it twice, route and cap disagree.                                *)
LEMMA RefusalStep ==
  ASSUME IInv, RefusePins, ~Twice
  PROVE  Cardinality(plan.experts) > Capacity
<1> DEFINE n == Len(entries)
<1> DEFINE hits == plan.experts \ plan.misses
<1> DEFINE serves == [i \in 1..n |-> entries[i].id[2]]
<1>1. TypeOK /\ PinsFollowPlan /\ PlanWithinCapacity /\ PlanIsCurrent
  BY DEF IInv, PlanIsHeld
<1>2. /\ n \in Nat /\ DOMAIN entries = 1..n /\ \A i \in 1..n : entries[i] \in EntryType
      /\ IsFiniteSet(plan.experts) /\ Cardinality(plan.experts) \in Nat
      /\ Cardinality(plan.misses) \in Nat
  BY <1>1, Shapes
<1>3. pc = "evict" /\ ~Fits /\ \A i \in DOMAIN entries : ~Evictable(i)
  BY DEF RefusePins
<1>4. \A i \in 1..n : Selected(entries, i)
  <2>1. \A i \in 1..n : entries[i].pins = 0
    BY <1>1, <1>3, Unpinned DEF Active
  <2> QED BY <1>2, <1>3, <2>1 DEF Evictable
<1>5. plan.misses = {e \in plan.experts : ~Holds(entries, <<layer, e>>)}
  BY <1>1, <1>3 DEF PlanIsCurrent
<1>6. n + Cardinality(plan.misses) > Capacity
  BY <1>1, <1>2, <1>3, Counts DEF Fits, PlanWithinCapacity
<1> HIDE DEF n
<1>7. \A i \in 1..n : entries[i].id = <<layer, entries[i].id[2]>> /\ entries[i].id[2] \in plan.experts
  <2> SUFFICES ASSUME NEW i \in 1..n
               PROVE  entries[i].id = <<layer, entries[i].id[2]>> /\ entries[i].id[2] \in plan.experts
    OBVIOUS
  <2>1. entries[i].id \in Ids
    BY <1>2 DEF EntryType
  <2> QED BY <1>4, <2>1 DEF Selected, Ids
<1>8. serves \in Injection(1..n, hits)
  <2>1. ASSUME NEW i \in 1..n PROVE entries[i].id[2] \in hits
    <3>1. Holds(entries, <<layer, entries[i].id[2]>>)
      BY <1>2, <1>7 DEF Holds
    <3> QED BY <1>5, <1>7, <3>1
  <2>2. ASSUME NEW i \in 1..n, NEW j \in 1..n, entries[i].id[2] = entries[j].id[2] PROVE i = j
    <3>1. entries[i].id = entries[j].id
      BY <1>7, <2>2
    <3> QED BY <1>2, <1>4, <3>1 DEF Twice
  <2>3. serves \in [1..n -> hits]
    BY <2>1
  <2>4. IsInjective(serves)
    BY <2>2 DEF IsInjective
  <2> QED BY <2>3, <2>4 DEF Injection
<1>9. n <= Cardinality(hits)
  <2>1. IsFiniteSet(hits) /\ IsFiniteSet(1..n) /\ Cardinality(1..n) = n
    BY <1>2, FS_Difference, FirstNaturals
  <2> HIDE DEF hits, serves
  <2> QED BY <1>8, <2>1, FS_Injection
<1>10. Cardinality(hits) = Cardinality(plan.experts) - Cardinality(plan.misses)
  <2>1. plan.experts \cap plan.misses = plan.misses
    BY <1>5
  <2>2. /\ IsFiniteSet(plan.experts)
        /\ Cardinality(hits) =
             Cardinality(plan.experts) - Cardinality(plan.experts \cap plan.misses)
    BY <1>2, FS_Difference
  <2> QED BY <2>1, <2>2
<1>11. Cardinality(hits) \in Nat
  BY <1>2, FS_Difference, FS_CardinalityType
<1> HIDE DEF hits
<1> QED BY <1>2, <1>6, <1>9, <1>10, <1>11, Counts

(* A route is refused for want of unpinned entries only if it is too large *)
(* for the cap or served twice (mod.rs:770-781): no pin is ever left over  *)
(* from an earlier route.                                                  *)
THEOREM RefusalsAreJustified == Spec => RefusalJustified
<1> DEFINE A == refusal' = "pin" /\ pc = "evict" /\ pc' = "idle" =>
                  Cardinality(plan.experts) > Capacity \/ Twice
<1>1. IInv /\ [Next]_vars => [A]_vars
  <2> SUFFICES ASSUME IInv, Next, refusal' = "pin", pc = "evict", pc' = "idle", ~Twice
               PROVE  Cardinality(plan.experts) > Capacity
    OBVIOUS
  <2>1. RefusePins
    BY DEF Next, Decode, Prefetch, PrepareExact, PrepareBatch, Sweeps, Evict, RefusePins, StartFetch,
       FetchMiss, RefuseFetch, Activate, Hint, Finish, WorkerLoad, WorkerDeliver, WorkerRetire
  <2> QED BY <2>1, RefusalStep
<1> QED BY <1>1, Invariance, PTL DEF Spec, RefusalJustified
=============================================================================
