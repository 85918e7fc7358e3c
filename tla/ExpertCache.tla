---------------------------- MODULE ExpertCache ----------------------------
(***************************************************************************)
(* src/src/experts/mod.rs: the whole-expert cache, driven by the one       *)
(* generation thread that sweeps the layers, and the prefetch worker that  *)
(* loads predicted experts on a thread of its own.                         *)
(*                                                                         *)
(* Every routed expert has the same stored size (load_expert accepts no    *)
(* other), so bytes are counted in experts.  The eviction policy's utility *)
(* and the predictor's scores are left open: any candidate the code's      *)
(* guards admit may be evicted, and any expert seen at a layer may be      *)
(* predicted for it.  What the experts compute is left out.                *)
(*                                                                         *)
(* The two threads share the inbox (a mutex), the in-flight count (an      *)
(* atomic) and the broker.  Each step touches at most one of the three.    *)
(***************************************************************************)
EXTENDS Naturals, Sequences, FiniteSets, SequencesExt

CONSTANTS
  NumLayers,
  NumExperts,   \* experts of one layer
  TopK,         \* experts of one exact route
  Capacity,     \* the cache's byte cap
  BrokerUnits,  \* experts the broker's budget can hold
  Depth,        \* prefetch_depth, 0 when prefetch is off
  MaxUnion,     \* most distinct experts one prefill chunk demands (bound)
  MaxHints      \* speculative batches that are issued (bound)

ASSUME CacheAssumption ==
  /\ NumLayers \in Nat \ {0}
  /\ NumExperts \in Nat
  /\ TopK \in 1..NumExperts
  /\ Capacity \in Nat
  /\ BrokerUnits \in Nat
  /\ Depth \in Nat
  /\ MaxUnion \in TopK..NumExperts
  /\ MaxHints \in Nat

Layers  == 1..NumLayers
Experts == 1..NumExperts
Ids     == Layers \X Experts    \* an expert is named by layer and number

VARIABLES
  entries,   \* the resident experts, in the Vec's order
  resident,  \* resident_bytes
  pc,        \* how far the generation thread is with the current layer
  sweep,     \* forward_with_observer ("exact") or forward_batch ("batch")
  layer,     \* the layer the generation thread is at
  plan,      \* the route being prepared, then the active plan
  refusal,   \* why the last prepare failed
  predictor, \* previous_route is set; experts counted as demanded
  inbox,     \* prefetch_inbox
  worker,    \* the prefetch thread; a batch is in flight unless idle
  hints,     \* batches issued so far (only to bound them)
  stats      \* speculative reads: drained, used, wasted

vars == <<entries, resident, pc, sweep, layer, plan, refusal, predictor,
          inbox, worker, hints, stats>>

NoPlan     == [experts |-> {}, misses |-> {}, staged |-> {}, failed |-> {}]
IdleWorker == [phase |-> "idle", layer |-> 1, todo |-> {}, got |-> <<>>]

Init ==
  /\ entries = <<>>
  /\ resident = 0
  /\ pc = "idle"
  /\ sweep = "exact"
  /\ layer = 1
  /\ plan = NoPlan
  /\ refusal = "none"
  /\ predictor = [previous |-> FALSE, seen |-> {}]
  /\ inbox = <<>>
  /\ worker = IdleWorker
  /\ hints = 0
  /\ stats = [prefetched |-> 0, hits |-> 0, wasted |-> 0]
-----------------------------------------------------------------------------
Holds(s, id) == \E i \in DOMAIN s : s[i].id = id

(* iter().find(..): the first entry of an expert the plan names.           *)
IsFirst(s, i)    == \A j \in 1..(i - 1) : s[j].id # s[i].id
Selected(s, i)   == s[i].id[1] = layer /\ s[i].id[2] \in plan.experts
Bound(s, i)      == Selected(s, i) /\ IsFirst(s, i)

(* Vec::swap_remove.                                                       *)
SwapRemove(s, i) ==
  IF i = Len(s) THEN Front(s) ELSE [Front(s) EXCEPT ![i] = Last(s)]

(* Every cached, staged, queued or loading expert owns a broker lease.     *)
Leased == Len(entries) + Cardinality(plan.staged) + Len(inbox) + Len(worker.got)
CanReserve == Leased < BrokerUnits

NextLayer == IF layer = NumLayers THEN 1 ELSE layer + 1

(* A failed prepare or compute fails the generation; the next one starts   *)
(* again at the first layer.                                               *)
Refuse(why) ==
  /\ refusal' = why
  /\ plan' = NoPlan
  /\ pc' = "idle"
  /\ layer' = 1

(* drain_prefetch_inbox: keep a delivery on probation if it fits or its    *)
(* number is demanded (whatever its layer), else count it as wasted.       *)
(* Every delivery that finds room is kept, so while there is room the i-th *)
(* one finds i - 1 more residents, and once there is none none fits.       *)
Kept(experts) == {i \in DOMAIN inbox : resident + i <= Capacity \/ inbox[i][2] \in experts}
Arrival(id)   == [id |-> id, pins |-> 0, probation |-> TRUE]

Drain(experts) ==
  LET kept == Kept(experts) IN
  /\ \E order \in [1..Cardinality(kept) -> kept] :
       /\ \A j, k \in DOMAIN order : j < k => order[j] < order[k]
       /\ entries' = entries \o [k \in DOMAIN order |-> Arrival(inbox[order[k]])]
  /\ resident' = resident + Cardinality(kept)
  /\ stats' = [stats EXCEPT !.prefetched = @ + Len(inbox),
                            !.wasted = @ + (Len(inbox) - Cardinality(kept))]

(* plan_exact_route, and the same in prepare_batch_route: what is missing, *)
(* and the refusal of a route that could not fit an empty cache.           *)
PlanRoute(experts, cached) ==
  LET misses == {e \in experts : ~Holds(cached, <<layer, e>>)} IN
  IF Cardinality(misses) > Capacity
  THEN Refuse("capacity")
  ELSE /\ plan' = [NoPlan EXCEPT !.experts = experts, !.misses = misses]
       /\ pc' = "evict"
       /\ refusal' = "none"
       /\ UNCHANGED layer

(* A sweep is of one kind from its first layer to its last.                *)
Sweeps(kind) ==
  /\ pc = "idle"
  /\ layer = 1 \/ sweep = kind
  /\ sweep' = kind

(* Mutant: the inbox is copied where the code takes it.                    *)
PrepareExactCopiesInbox(experts) ==
  /\ Sweeps("exact")
  /\ Drain(experts)
  /\ PlanRoute(experts, entries')
  /\ UNCHANGED <<predictor, inbox, worker, hints>>

(* prepare_exact_route up to its eviction loop.                            *)
PrepareExact(experts) ==
  /\ Sweeps("exact")
  /\ Drain(experts)
  /\ inbox' = <<>>
  /\ PlanRoute(experts, entries')
  /\ UNCHANGED <<predictor, worker, hints>>

(* prepare_batch_route up to its eviction loop; it leaves the inbox alone. *)
PrepareBatch(experts) ==
  /\ Sweeps("batch")
  /\ PlanRoute(experts, entries)
  /\ UNCHANGED <<entries, resident, predictor, inbox, worker, hints, stats>>

Fits == resident + Cardinality(plan.misses) <= Capacity

(* Mutants: the route's own entries may go; the layer is not compared.     *)
EvictableIfUnpinned(i) == entries[i].pins = 0
EvictableByNumber(i)   == entries[i].pins = 0 /\ entries[i].id[2] \notin plan.experts

Evictable(i) == entries[i].pins = 0 /\ ~Selected(entries, i)
Coldest(i) ==
  /\ Evictable(i)
  /\ entries[i].probation \/ \A j \in DOMAIN entries : Evictable(j) => ~entries[j].probation

(* Mutant: a speculative entry that goes unused is not counted.            *)
EvictUncounted(i) ==
  /\ pc = "evict"
  /\ ~Fits
  /\ Coldest(i)
  /\ entries' = SwapRemove(entries, i)
  /\ resident' = IF resident = 0 THEN 0 ELSE resident - 1
  /\ UNCHANGED <<pc, sweep, layer, plan, refusal, predictor, inbox, worker, hints, stats>>

(* One turn of the eviction loop: eviction_order takes speculative entries *)
(* first, remove_entry drops the lease.                                    *)
Evict(i) ==
  /\ pc = "evict"
  /\ ~Fits
  /\ Coldest(i)
  /\ entries' = SwapRemove(entries, i)
  /\ resident' = IF resident = 0 THEN 0 ELSE resident - 1
  /\ stats' = [stats EXCEPT !.wasted = @ + IF entries[i].probation THEN 1 ELSE 0]
  /\ UNCHANGED <<pc, sweep, layer, plan, refusal, predictor, inbox, worker, hints>>

(* Nothing is left to evict.                                               *)
RefusePins ==
  /\ pc = "evict"
  /\ ~Fits
  /\ \A i \in DOMAIN entries : ~Evictable(i)
  /\ Refuse("pin")
  /\ UNCHANGED <<entries, resident, sweep, predictor, inbox, worker, hints, stats>>

(* Mutant: the misses are loaded before room is made for them.             *)
StartFetchAnyway ==
  /\ pc = "evict"
  /\ pc' = "fetch"
  /\ UNCHANGED <<entries, resident, sweep, layer, plan, refusal, predictor,
                 inbox, worker, hints, stats>>

StartFetch ==
  /\ pc = "evict"
  /\ Fits
  /\ pc' = "fetch"
  /\ UNCHANGED <<entries, resident, sweep, layer, plan, refusal, predictor,
                 inbox, worker, hints, stats>>

(* fetch_all: every miss is loaded, in any order and each once.            *)
Unfetched == plan.misses \ (plan.staged \union plan.failed)

FetchMiss(e) ==
  /\ pc = "fetch"
  /\ e \in Unfetched
  /\ \/ /\ CanReserve
        /\ plan' = [plan EXCEPT !.staged = @ \union {e}]
        /\ UNCHANGED refusal
     \/ \* load_expert fails: the broker is out of budget, or the read fails
        /\ plan' = [plan EXCEPT !.failed = @ \union {e}]
        /\ refusal' = IF CanReserve THEN "io" ELSE "budget"
  /\ UNCHANGED <<entries, resident, pc, sweep, layer, predictor, inbox, worker, hints, stats>>

(* One failed load drops every staged expert and its lease.                *)
RefuseFetch ==
  /\ pc = "fetch"
  /\ Unfetched = {} /\ plan.failed # {}
  /\ Refuse(refusal)
  /\ UNCHANGED <<entries, resident, sweep, predictor, inbox, worker, hints, stats>>

(* Pin the hits, which ends their probation, push the misses pinned, and   *)
(* make the plan active.                                                   *)
Activate ==
  /\ pc = "fetch"
  /\ plan.misses = plan.staged
  /\ LET pinned == [i \in DOMAIN entries |->
                      IF Bound(entries, i)
                      THEN [entries[i] EXCEPT !.pins = @ + 1, !.probation = FALSE]
                      ELSE entries[i]]
         loaded == [k \in 1..Cardinality(plan.staged) |->
                      [id |-> <<layer, SetToSeq(plan.staged)[k]>>, pins |-> 1, probation |-> FALSE]]
         used   == {i \in DOMAIN entries : Bound(entries, i) /\ entries[i].probation}
     IN  /\ entries' = pinned \o loaded
         /\ resident' = resident + Len(loaded)
         /\ stats' = [stats EXCEPT !.hits = @ + Cardinality(used)]
  /\ plan' = [plan EXCEPT !.staged = {}]
  /\ pc' = IF sweep = "exact" THEN "hint" ELSE "compute"
  /\ UNCHANGED <<sweep, layer, refusal, predictor, inbox, worker, hints>>

(* advance_prefetch: count the transition, and issue one batch for the     *)
(* next layer unless one is in flight.  It looks at the entries only, not  *)
(* at what the inbox already holds.                                        *)
Predictable(known) == {e \in Experts : <<NextLayer, e>> \in known /\ ~Holds(entries, <<NextLayer, e>>)}

Hint(predicted) ==
  LET known == IF predictor.previous
               THEN predictor.seen \union ({layer} \X plan.experts) ELSE predictor.seen
  IN  /\ pc = "hint"
      /\ predictor' = [previous |-> TRUE, seen |-> known]
      /\ predicted \subseteq Predictable(known)
      /\ Cardinality(predicted) <= Depth
      /\ predicted # {} => worker.phase = "idle" /\ hints < MaxHints
      /\ IF predicted = {}
         THEN UNCHANGED <<worker, hints>>
         ELSE /\ worker' = [phase |-> "loading", layer |-> NextLayer,
                            todo |-> predicted, got |-> <<>>]
              /\ hints' = hints + 1
      /\ pc' = "compute"
      /\ UNCHANGED <<entries, resident, sweep, layer, plan, refusal, inbox, stats>>

(* finish_exact_route, finish_batch_route: unpin what the plan names and   *)
(* clear it, whether the computation succeeded or not.                     *)
Finish(ok) ==
  /\ pc = "compute"
  /\ entries' = [i \in DOMAIN entries |->
                   IF Bound(entries, i) /\ entries[i].pins > 0
                   THEN [entries[i] EXCEPT !.pins = @ - 1] ELSE entries[i]]
  /\ plan' = NoPlan
  /\ pc' = "idle"
  /\ layer' = IF ok THEN NextLayer ELSE 1
  /\ UNCHANGED <<resident, sweep, refusal, predictor, inbox, worker, hints, stats>>
-----------------------------------------------------------------------------
(* The prefetch thread: load what was predicted, skipping what fails ...   *)
WorkerLoad(e) ==
  /\ worker.phase = "loading"
  /\ e \in worker.todo
  /\ \/ /\ CanReserve
        /\ worker' = [worker EXCEPT !.todo = @ \ {e}, !.got = Append(@, <<worker.layer, e>>)]
     \/ worker' = [worker EXCEPT !.todo = @ \ {e}]
  /\ UNCHANGED <<entries, resident, pc, sweep, layer, plan, refusal, predictor,
                 inbox, hints, stats>>

(* ... hand the batch over ...                                             *)
WorkerDeliver ==
  /\ worker.phase = "loading"
  /\ worker.todo = {}
  /\ inbox' = inbox \o worker.got
  /\ worker' = [worker EXCEPT !.phase = "delivered", !.got = <<>>]
  /\ UNCHANGED <<entries, resident, pc, sweep, layer, plan, refusal, predictor, hints, stats>>

(* ... and lower the in-flight count, a step of its own.                   *)
WorkerRetire ==
  /\ worker.phase = "delivered"
  /\ worker' = IdleWorker
  /\ UNCHANGED <<entries, resident, pc, sweep, layer, plan, refusal, predictor,
                 inbox, hints, stats>>

Routes == {S \in SUBSET Experts : Cardinality(S) = TopK}
Unions == {S \in SUBSET Experts : Cardinality(S) \in TopK..MaxUnion}

Decode ==
  \/ \E S \in Routes : PrepareExact(S)
  \/ \E S \in Unions : PrepareBatch(S)
  \/ \E i \in DOMAIN entries : Evict(i)
  \/ RefusePins
  \/ StartFetch
  \/ \E e \in Experts : FetchMiss(e)
  \/ RefuseFetch
  \/ Activate
  \/ \E S \in SUBSET Experts : Hint(S)
  \/ \E ok \in BOOLEAN : Finish(ok)

Prefetch == (\E e \in Experts : WorkerLoad(e)) \/ WorkerDeliver \/ WorkerRetire

Next == Decode \/ Prefetch
Spec == Init /\ [][Next]_vars
-----------------------------------------------------------------------------
Active == pc \in {"hint", "compute"}

EntryType == [id : Ids, pins : Nat, probation : BOOLEAN]

(* The shape of the state.  pins stays 0 or 1: a plan names an expert once *)
(* and no two plans overlap.                                               *)
TypeOK ==
  /\ entries \in Seq(EntryType) /\ \A i \in DOMAIN entries : entries[i].pins <= 1
  /\ resident \in Nat
  /\ pc \in {"idle", "evict", "fetch", "hint", "compute"}
  /\ sweep \in {"exact", "batch"}
  /\ layer \in Layers
  /\ plan \in [experts : SUBSET Experts, misses : SUBSET Experts,
               staged : SUBSET Experts, failed : SUBSET Experts]
  /\ refusal \in {"none", "capacity", "pin", "io", "budget"}
  /\ predictor \in [previous : BOOLEAN, seen : SUBSET Ids]
  /\ inbox \in Seq(Ids)
  /\ worker \in [phase : {"idle", "loading", "delivered"}, layer : Layers,
                 todo : SUBSET Experts, got : Seq(Ids)]
  /\ hints \in 0..MaxHints
  /\ stats \in [prefetched : Nat, hits : Nat, wasted : Nat]

(* "an entry named by the plan cannot be evicted between routing and its   *)
(* final use" (mod.rs:729-732): an active plan's experts are all resident, *)
(* each pinned by the entry that find() returns, and nothing else is       *)
(* pinned; without an active plan no pin is left behind.                   *)
PinsFollowPlan ==
  /\ Active => \A e \in plan.experts : Holds(entries, <<layer, e>>)
  /\ \A i \in DOMAIN entries :
        entries[i].pins = IF Active /\ Bound(entries, i) THEN 1 ELSE 0

(* resident_bytes is what the entries hold, and an active plan is within   *)
(* the cache's cap, deliveries the drain let in over it included.          *)
PlanWithinCapacity ==
  /\ resident = Len(entries)
  /\ Active => resident <= Capacity

(* What a forward pass may rely on between prepare and finish              *)
(* (mod.rs:729-860).                                                       *)
PlanIsHeld == TypeOK /\ PinsFollowPlan /\ PlanWithinCapacity

(* However far deliveries overshoot the cap, the broker holds at most the  *)
(* cap and two speculative batches: the transient slack that                *)
(* model/qwen36/runtime.rs leaves must cover no more than that.            *)
FootprintBounded == Leased <= Capacity + 2 * Depth

(* With a budget that covers the cap and two speculative batches, neither  *)
(* prefetching nor batch plans starve a demanded load.                     *)
DemandNotStarved == BrokerUnits >= Capacity + 2 * Depth => refusal # "budget"

(* Every speculative read that was drained is a hit, was wasted, or still  *)
(* waits for its first use: the counters account for each exactly once.    *)
PrefetchAccounted ==
  stats.prefetched = stats.hits + stats.wasted
                     + Cardinality({i \in DOMAIN entries : entries[i].probation})

(* What is being prepared: the misses are what the cache lacks, only they  *)
(* are staged, and only once there is room for all of them.                *)
PlanIsCurrent ==
  /\ pc = "idle" => plan = NoPlan
  /\ pc \in {"evict", "fetch"} =>
       plan.misses = {e \in plan.experts : ~Holds(entries, <<layer, e>>)}
  /\ pc = "fetch" => Fits /\ plan.staged \subseteq plan.misses
  /\ pc # "fetch" => plan.staged = {}
  /\ pc = "hint" => sweep = "exact"

(* What speculation can have on its way: one batch with the worker, and    *)
(* one more in the inbox until the next exact route drains it.             *)
Pending == Len(worker.got) + Cardinality(worker.todo)
SpeculationBounded ==
  /\ worker.phase # "loading" => worker.todo = {} /\ worker.got = <<>>
  /\ Pending <= Depth
  /\ Len(inbox) + Pending <= 2 * Depth
  /\ sweep = "exact" /\ pc \in {"evict", "fetch", "hint"} => Len(inbox) + Pending <= Depth
  /\ Len(entries) + Len(inbox) + Pending <= Capacity + 2 * Depth

(* The inductive invariant.                                                *)
IInv ==
  /\ PlanIsHeld
  /\ PlanIsCurrent
  /\ SpeculationBounded
  /\ DemandNotStarved
  /\ PrefetchAccounted

(* A route is refused for want of unpinned entries only if it is too large *)
(* for the cap, or the cache holds an expert of it twice.                  *)
Twice == \E i, j \in DOMAIN entries :
            i # j /\ entries[i].id = entries[j].id /\ Selected(entries, i)
RefusalJustified ==
  [][refusal' = "pin" /\ pc = "evict" /\ pc' = "idle" =>
        Cardinality(plan.experts) > Capacity \/ Twice]_vars
=============================================================================
