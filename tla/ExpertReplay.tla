---------------------------- MODULE ExpertReplay ----------------------------
(***************************************************************************)
(* src/src/experts/policy.rs, tiling.rs and prefetch.rs: the three replays *)
(* of a recorded trace of routes that chose the expert cache's policy.     *)
(* One caches whole experts under a policy, one caches tiles in a slab     *)
(* threaded by an LRU list, one prefetches what a predictor expects.       *)
(*                                                                         *)
(* A trace is a sequence of events [layer, experts]; `experts` are those   *)
(* of one route, which are distinct.  A cache is a function from its keys  *)
(* where the order in the program's vector cannot be told.  A score is     *)
(* scaled by Scale^events, so that its decay by 97 / 100 stays integral.   *)
(***************************************************************************)
EXTENDS Integers, Sequences, FiniteSets, SequencesExt, TLC

Fail == [failed |-> TRUE]
Without(f, k) == [x \in DOMAIN f \ {k} |-> f[x]]
Demands(event) == {<<event.layer, event.experts[i]>> : i \in DOMAIN event.experts}

(* Folds a trace; an error ends the replay.                                *)
Replay(Route(_, _), empty, trace) ==
  FoldLeft(LAMBDA cache, event : IF cache = Fail THEN Fail ELSE Route(cache, event), empty, trace)

(* The key that is least by the given utility, then by age, layer, expert. *)
Coldest(entries, utility) ==
  CHOOSE k \in DOMAIN utility :
    \A o \in DOMAIN utility \ {k} :
      \/ utility[k] < utility[o]
      \/ utility[k] = utility[o] /\ entries[k].lastUse < entries[o].lastUse
      \/ /\ utility[k] = utility[o] /\ entries[k].lastUse = entries[o].lastUse
         /\ \/ k[1] < o[1]
            \/ k[1] = o[1] /\ k[2] < o[2]
-----------------------------------------------------------------------------
(* ReplayCache.  config: capacity, policy, halfLife, sizes by expert.      *)
EmptyCache(config) ==
  [failed |-> FALSE, config |-> config, clock |-> 0, resident |-> 0, entries |-> <<>>,
   hits |-> 0, misses |-> 0, evictions |-> 0, missBytes |-> 0, peak |-> 0]

(* frequency * 1e12 + last_use is exact below 2^53; the decayed one is     *)
(* compared by its power of the half-life.                                 *)
ClockBound == 12
Utility(cache, entry) ==
  LET cost == entry.frequency * entry.bytes IN
  CASE cache.config.policy = "lru"   -> entry.lastUse
    [] cache.config.policy = "lfu"   -> entry.frequency * 1000 + entry.lastUse
    [] cache.config.policy = "decay" ->
         cost ^ cache.config.halfLife * 2 ^ (ClockBound - (cache.clock - entry.lastUse))

(* Evicts until `missing` more fit; nothing of the current route may go.   *)
MakeRoom(cache, missing, selected) ==
  LET shrink[n \in 0..Cardinality(DOMAIN cache.entries)] ==
        LET c == IF n = 0 THEN cache ELSE shrink[n - 1]
            candidates == DOMAIN c.entries \ selected
            coldest == Coldest(c.entries, [k \in candidates |-> Utility(c, c.entries[k])])
        IN  IF c = Fail THEN Fail
            ELSE IF c.resident + missing <= c.config.capacity THEN c
            ELSE IF candidates = {} THEN Fail
            ELSE [c EXCEPT !.entries = Without(@, coldest), !.evictions = @ + 1,
                           !.resident = @ - c.entries[coldest].bytes]
      end == shrink[Cardinality(DOMAIN cache.entries)]
  IN  IF end = Fail \/ end.resident + missing > end.config.capacity THEN Fail ELSE end

Admit(cache, key) ==
  LET bytes == cache.config.sizes[key[2]] IN
  IF key \in DOMAIN cache.entries
  THEN [cache EXCEPT !.entries[key].frequency = @ + 1, !.entries[key].lastUse = cache.clock,
                     !.hits = @ + 1]
  ELSE [cache EXCEPT
          !.entries = @ @@ (key :> [bytes |-> bytes, frequency |-> 1, lastUse |-> cache.clock]),
          !.resident = @ + bytes, !.misses = @ + 1, !.missBytes = @ + bytes,
          !.peak = IF @ < cache.resident + bytes THEN cache.resident + bytes ELSE @]

RouteWhole(cache, event) ==
  LET ticked  == [cache EXCEPT !.clock = @ + 1]
      missing == FoldLeft(LAMBDA n, e :
                   IF <<event.layer, e>> \in DOMAIN cache.entries THEN n
                   ELSE n + cache.config.sizes[e], 0, event.experts)
      roomy   == MakeRoom(ticked, missing, Demands(event))
  IN  IF missing > cache.config.capacity \/ roomy = Fail THEN Fail
      ELSE FoldLeft(LAMBDA c, e : Admit(c, <<event.layer, e>>), roomy, event.experts)

ReplayTrace(trace, config) == Replay(RouteWhole, EmptyCache(config), trace)
-----------------------------------------------------------------------------
(* TileReplayCache: the slab `entries`, its index by key, and the ends of  *)
(* the list; 0 is no entry.                                                *)
EmptySlab(capacity, sizes) ==
  [failed |-> FALSE, capacity |-> capacity, sizes |-> sizes, resident |-> 0, index |-> <<>>,
   entries |-> <<>>, mru |-> 0, lru |-> 0, hits |-> 0, misses |-> 0, missBytes |-> 0,
   wasted |-> 0, evictions |-> 0]

Unlink(s, i) ==
  LET newer == s.entries[i].newer
      older == s.entries[i].older
      a == [s EXCEPT !.entries[i].newer = 0, !.entries[i].older = 0]
      b == IF newer # 0 THEN [a EXCEPT !.entries[newer].older = older] ELSE [a EXCEPT !.mru = older]
  IN  IF older # 0 THEN [b EXCEPT !.entries[older].newer = newer] ELSE [b EXCEPT !.lru = newer]

PushMru(s, i) ==
  LET a == [s EXCEPT !.entries[i].newer = 0, !.entries[i].older = s.mru]
      b == IF s.mru # 0 THEN [a EXCEPT !.entries[s.mru].newer = i] ELSE [a EXCEPT !.lru = i]
  IN  [b EXCEPT !.mru = i]

(* Mutant: the neighbours of the moved entry keep pointing at its old slot.*)
SwapRemoveOnly(s, i) ==
  LET last  == Len(s.entries)
      short == [s EXCEPT !.entries = SubSeq([@ EXCEPT ![i] = s.entries[last]], 1, last - 1)]
  IN  IF i = last THEN short ELSE [short EXCEPT !.index[s.entries[last].key] = i]

(* The last slab entry moves to the place that became free; its neighbours *)
(* and the index follow.                                                   *)
SwapRemove(s, i) ==
  LET last  == Len(s.entries)
      short == [s EXCEPT !.entries = SubSeq([@ EXCEPT ![i] = s.entries[last]], 1, last - 1)]
  IN  IF i = last THEN short
      ELSE LET moved == s.entries[last]
               a == [short EXCEPT !.index[moved.key] = i]
               b == IF moved.newer # 0 THEN [a EXCEPT !.entries[moved.newer].older = i]
                    ELSE [a EXCEPT !.mru = i]
           IN  IF moved.older # 0 THEN [b EXCEPT !.entries[moved.older].newer = i]
               ELSE [b EXCEPT !.lru = i]

EvictTile(s, i) ==
  LET gone == s.entries[i]
      unlinked == Unlink(s, i)
  IN  SwapRemove([unlinked EXCEPT !.index = Without(@, gone.key), !.resident = @ - gone.bytes,
                                  !.evictions = @ + 1,
                                  !.wasted = @ + IF gone.hits = 0 THEN gone.bytes ELSE 0], i)

(* Walks from the least recently used end past the tiles of the route.     *)
Victim(s, pinned) ==
  LET walk[n \in 0..Len(s.entries)] ==
        LET i == IF n = 0 THEN s.lru ELSE walk[n - 1]
        IN  IF i # 0 /\ s.entries[i].key \in pinned THEN s.entries[i].newer ELSE i
  IN  walk[Len(s.entries)]

MakeTileRoom(s, missing, pinned) ==
  LET shrink[n \in 0..Len(s.entries)] ==
        LET c == IF n = 0 THEN s ELSE shrink[n - 1]
        IN  IF c = Fail \/ c.resident + missing <= c.capacity THEN c
            ELSE IF Victim(c, pinned) = 0 THEN Fail ELSE EvictTile(c, Victim(c, pinned))
      end == shrink[Len(s.entries)]
  IN  IF end = Fail \/ end.resident + missing > end.capacity THEN Fail ELSE end

AdmitTile(s, key) ==
  LET bytes == s.sizes[key[3]]
      new   == Len(s.entries) + 1
      entry == [key |-> key, bytes |-> bytes, hits |-> 0, newer |-> 0, older |-> 0]
  IN  IF key \in DOMAIN s.index
      THEN LET i == s.index[key]
           IN  PushMru(Unlink([s EXCEPT !.entries[i].hits = @ + 1], i), i)
      ELSE PushMru([s EXCEPT !.entries = Append(@, entry), !.index = @ @@ (key :> new),
                             !.resident = @ + bytes, !.missBytes = @ + bytes], new)

TileDemands(s, event) ==
  FlattenSeq([e \in DOMAIN event.experts |->
                [t \in DOMAIN s.sizes |-> <<event.layer, event.experts[e], t>>]])

RouteTiles(s, event) ==
  LET demands == TileDemands(s, event)
      absent  == SelectSeq(demands, LAMBDA k : k \notin DOMAIN s.index)
      missing == FoldLeft(LAMBDA n, k : n + s.sizes[k[3]], 0, absent)
      counted == [s EXCEPT !.hits = @ + Len(demands) - Len(absent), !.misses = @ + Len(absent)]
      roomy   == MakeTileRoom(counted, missing, ToSet(demands))
  IN  IF roomy = Fail THEN Fail ELSE FoldLeft(AdmitTile, roomy, demands)

ReplayTiled(trace, capacity, sizes) == Replay(RouteTiles, EmptySlab(capacity, sizes), trace)

(* minimum_route_capacity                                                  *)
MinimumCapacity(sizes, topK) == topK * FoldLeft(LAMBDA n, b : n + b, 0, sizes)
-----------------------------------------------------------------------------
(* TransitionPredictor: scores of (layer, expert) pairs, each of the last  *)
(* event that touched it.                                                  *)
Scale == 100
Decay == 97
NoScore == [value |-> 0, at |-> 0]
NewPredictor == [scores |-> <<>>, events |-> 0]

Score(p, from, to) == IF <<from, to>> \in DOMAIN p.scores THEN p.scores[<<from, to>>] ELSE NoScore

Raised(score, events) ==
  [value |-> score.value * Decay ^ (events - score.at) + Scale ^ events, at |-> events]

Observe(p, from, to) ==
  LET events == p.events + 1
      pairs  == Demands(from) \X Demands(to)
  IN  [events |-> events,
       scores |-> [x \in pairs |-> Raised(Score(p, x[1], x[2]), events)] @@ p.scores]

DecayedScore(p, from, to) ==
  LET s == Score(p, from, to) IN s.value * Decay ^ (p.events - s.at)

(* The best `budget` experts of toLayer that are not resident.             *)
Predict(p, from, toLayer, budget, resident) ==
  LET known  == {x[2] : x \in {y \in DOMAIN p.scores : y[1] \in Demands(from) /\ y[2][1] = toLayer}}
      total(to) == FoldLeft(LAMBDA n, e : n + DecayedScore(p, <<from.layer, e>>, to), 0, from.experts)
      ranked == SetToSortSeq(known \ resident,
                  LAMBDA a, b : total(a) > total(b) \/ (total(a) = total(b) /\ a[2] < b[2]))
  IN  SubSeq(ranked, 1, IF Len(ranked) < budget THEN Len(ranked) ELSE budget)
-----------------------------------------------------------------------------
(* PrefetchReplayCache; every expert is one unit large.                    *)
EmptyPrefetch(capacity) ==
  [failed |-> FALSE, capacity |-> capacity, clock |-> 0, entries |-> <<>>, hits |-> 0, missed |-> 0,
   prefetched |-> 0, prefetchHits |-> 0, wasted |-> 0, predictions |-> 0, predicted |-> 0]

Resident(c) == Cardinality(DOMAIN c.entries)

(* The comparator puts demand entries before speculative ones.             *)
Disposable(entry) == (IF entry.probation THEN 1000 ELSE 0) + entry.lastUse

EvictFor(cache, required, pinned) ==
  LET shrink[n \in 0..Resident(cache)] ==
        LET c == IF n = 0 THEN cache ELSE shrink[n - 1]
            candidates == DOMAIN c.entries \ pinned
            k == Coldest(c.entries, [x \in candidates |-> Disposable(c.entries[x])])
        IN  IF Resident(c) + required <= c.capacity \/ candidates = {} THEN c
            ELSE [c EXCEPT !.entries = Without(@, k),
                           !.wasted = @ + IF c.entries[k].probation THEN 1 ELSE 0]
  IN  shrink[Resident(cache)]

Deliver(cache, key) ==
  IF key \in DOMAIN cache.entries THEN cache
  ELSE LET c == EvictFor(cache, 1, {})
       IN  [c EXCEPT !.entries = @ @@ (key :> [lastUse |-> c.clock, probation |-> TRUE]),
                     !.prefetched = @ + 1]

(* One demanded expert, found or not: what the metrics say of it.          *)
Demand(cache, key, predicted) ==
  LET counted == [cache EXCEPT !.predicted = @ + IF key[2] \in predicted THEN 1 ELSE 0]
  IN  IF key \notin DOMAIN cache.entries THEN counted
      ELSE [counted EXCEPT
              !.prefetchHits = @ + IF cache.entries[key].probation /\ key[2] \in predicted THEN 1 ELSE 0,
              !.entries[key] = [lastUse |-> cache.clock, probation |-> FALSE],
              !.hits = @ + 1]

RoutePrefetched(cache, event, delivered) ==
  LET predicted == {k[2] : k \in ToSet(delivered)}
      ticked == [cache EXCEPT !.clock = @ + 1, !.predictions = @ + Len(delivered)]
      served == FoldLeft(LAMBDA c, e : Demand(c, <<event.layer, e>>, predicted), ticked, event.experts)
      absent == Demands(event) \ DOMAIN served.entries
      roomy  == EvictFor(served, Cardinality(absent), Demands(event))
  IN  [roomy EXCEPT
         !.entries = @ @@ [k \in absent |-> [lastUse |-> roomy.clock, probation |-> FALSE]],
         !.missed = @ + Cardinality(absent)]

(* replay_prefetch: what one event predicts is delivered before the next.  *)
Predicting(cache, predictor, event, depth) ==
  [cache |-> cache, predictor |-> predictor,
   pending |-> Predict(predictor, event, event.nextLayer, depth, DOMAIN cache.entries)]

ReplayPrefetch(trace, capacity, depth) ==
  LET run[n \in 0..Len(trace)] ==
        IF n = 0
        THEN [cache |-> EmptyPrefetch(capacity), predictor |-> NewPredictor, pending |-> <<>>]
        ELSE LET was == run[n - 1]
             IN  Predicting(
                   RoutePrefetched(FoldLeft(Deliver, was.cache, was.pending), trace[n], was.pending),
                   IF n = 1 THEN was.predictor ELSE Observe(was.predictor, trace[n - 1], trace[n]),
                   trace[n], depth)
  IN  run[Len(trace)]
-----------------------------------------------------------------------------
(* The reference: the keys by recency, least recent first, of a demand     *)
(* sequence, and what of it a bound on their sizes keeps.                  *)
Recent(keys, k) == Append(SelectSeq(keys, LAMBDA x : x # k), k)

(* The list that threads the slab is a permutation of it in both           *)
(* directions, the index finds every entry, and the sizes add up.          *)
SlabIsSound(s) ==
  LET n == Len(s.entries)
      down[i \in 0..n] == IF i = 0 THEN s.mru
                          ELSE IF down[i - 1] = 0 THEN 0 ELSE s.entries[down[i - 1]].older
  IN  /\ {down[i] : i \in 0..n - 1} = (IF n = 0 THEN {0} ELSE 1..n) /\ down[n] = 0
      /\ \A i \in 1..n : s.entries[i].older # 0 => s.entries[s.entries[i].older].newer = i
      /\ s.lru = IF n = 0 THEN 0 ELSE down[n - 1]
      /\ DOMAIN s.index = {s.entries[i].key : i \in 1..n}
      /\ \A i \in 1..n : s.index[s.entries[i].key] = i
      /\ s.resident = FoldLeft(LAMBDA m, e : m + e.bytes, 0, s.entries)

(* Keys of the slab from the least to the most recently used.              *)
Order(s) ==
  LET n == Len(s.entries)
      up[i \in 1..n] == IF i = 1 THEN s.lru ELSE s.entries[up[i - 1]].newer
  IN  [i \in 1..n |-> s.entries[up[i]].key]

(* The tiled replay keeps the most recently demanded tiles, whatever the   *)
(* slab went through (tiling.rs:116-252).                                  *)
TiledIsLru(trace, capacity, sizes) ==
  LET s == ReplayTiled(trace, capacity, sizes)
      demands == FoldLeft(LAMBDA keys, event : FoldLeft(Recent, keys, TileDemands([sizes |-> sizes], event)),
                          <<>>, trace)
      kept == Order(s)
  IN  capacity >= MinimumCapacity(sizes, Len(trace[1].experts)) =>
        /\ s # Fail /\ SlabIsSound(s) /\ s.resident <= capacity
        /\ kept = SubSeq(demands, Len(demands) - Len(kept) + 1, Len(demands))
        /\ s.hits + s.misses = Len(trace) * Len(trace[1].experts) * Len(sizes)

(* Whole experts: a route fits or is refused; every demand is a hit or a   *)
(* miss, whatever the policy; of two LRU caches of equal experts the       *)
(* larger has the hits of the smaller (policy.rs:78-207).                  *)
WholeReplayIsSound(trace, capacity, policy, halfLife, sizes) ==
  LET c == ReplayTrace(trace, [capacity |-> capacity, policy |-> policy, halfLife |-> halfLife,
                               sizes |-> sizes])
      uniform(n) == ReplayTrace(trace, [capacity |-> n, policy |-> "lru", halfLife |-> 1,
                                        sizes |-> [e \in DOMAIN sizes |-> 1]])
      topK == Len(trace[1].experts)
  IN  /\ c # Fail =>
           /\ c.resident <= c.peak /\ c.peak <= capacity
           /\ c.resident = FoldLeft(LAMBDA n, k : n + c.entries[k].bytes, 0, SetToSeq(DOMAIN c.entries))
           /\ c.hits + c.misses = Len(trace) * topK
           /\ Cardinality(DOMAIN c.entries) = c.misses - c.evictions
           /\ Demands(trace[Len(trace)]) \subseteq DOMAIN c.entries
      /\ capacity >= topK => /\ uniform(capacity) # Fail
                             /\ uniform(capacity).hits <= uniform(capacity + 1).hits
                             /\ DOMAIN uniform(capacity).entries \subseteq DOMAIN uniform(capacity + 1).entries

(* Prefetch: nothing speculated is the LRU replay; what is speculated is   *)
(* used, wasted or still waiting; and a score is the sum of its aged       *)
(* observations (prefetch.rs:53-329).                                      *)
IsLru(plain, lru) ==
  /\ plain.hits = lru.hits /\ plain.missed = lru.misses
  /\ DOMAIN plain.entries = DOMAIN lru.entries

AccountsForAll(c, trace) ==
  LET waiting == {k \in DOMAIN c.entries : c.entries[k].probation}
  IN  /\ Resident(c) <= c.capacity /\ c.hits + c.missed = Len(trace) * Len(trace[1].experts)
      /\ c.prefetchHits + c.wasted + Cardinality(waiting) <= c.prefetched
      /\ c.prefetchHits <= c.predictions /\ c.prefetchHits <= c.predicted

HasSeen(predictor, trace) ==
  LET seen(x) == {n \in 2..Len(trace) : x[1] \in Demands(trace[n - 1]) /\ x[2] \in Demands(trace[n])}
  IN  \A x \in DOMAIN predictor.scores :
        DecayedScore(predictor, x[1], x[2]) =
          FoldLeft(LAMBDA m, n : m + Decay ^ (Len(trace) - n) * Scale ^ (n - 1), 0,
                   SetToSeq(seen(x)))

PrefetchIsSound(trace, capacity, depth) ==
  LET r == ReplayPrefetch(trace, capacity, depth)
  IN  capacity >= Len(trace[1].experts) =>
        /\ IsLru(ReplayPrefetch(trace, capacity, 0).cache,
                 ReplayTrace(trace, [capacity |-> capacity, policy |-> "lru", halfLife |-> 1,
                                     sizes |-> [e \in 0..9 |-> 1]]))
        /\ AccountsForAll(r.cache, trace) /\ HasSeen(r.predictor, trace)
=============================================================================
