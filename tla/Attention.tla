------------------------------ MODULE Attention ------------------------------
(***************************************************************************)
(* src/src/model/qwen36/attention.rs: a full-attention layer over its KV   *)
(* cache.  As for DeltaNet there is an oracle and an accounted form; both  *)
(* normalize and rotate a head, push it and attend over everything pushed. *)
(* A cached number is rounded to bfloat16, which here drops its last bit.  *)
(* The scores of a head are numbers of FiniteField; their maximum is taken *)
(* of the representatives 0..P-1.                                          *)
(***************************************************************************)
EXTENDS FiniteField

CONSTANTS Heads, KvHeads, HeadDim, RotaryDims, Hidden

KvWidth        == KvHeads * HeadDim
ProjectedQGate == Heads * HeadDim * 2
BytesForTokens(tokens) == tokens * KvHeads * HeadDim * 2 * 2
Failed         == <<>>

Bf16(x) == 2 * (x \div 2)

CheckedLen(values, expected) == Len(values) = expected
-----------------------------------------------------------------------------
(* split_query_gate_accounted, head by head: a head's query, then its gate.*)
SplitQueryGateAccounted(projected) ==
  IF ~CheckedLen(projected, ProjectedQGate) THEN Failed
  ELSE LET part(second) == FlattenSeq(
             [h \in 1..Heads |-> Slice(projected, 2 * (h - 1) + second, HeadDim)])
       IN  <<part(0), part(1)>>

(* split_query_gate, by positions.                                         *)
SplitQueryGate(projected) ==
  IF ~CheckedLen(projected, ProjectedQGate) THEN Failed
  ELSE LET from(i, second) ==
             projected[((i - 1) \div HeadDim) * HeadDim * 2 + second * HeadDim + ((i - 1) % HeadDim) + 1]
       IN  <<Vector([i \in 1..(Heads * HeadDim) |-> from(i, 0)]),
             Vector([i \in 1..(Heads * HeadDim) |-> from(i, 1)])>>
-----------------------------------------------------------------------------
RmsnormHead(values, weight) ==
  LET inverse == InverseRms(Over(Dot(values, values), HeadDim))
  IN  Vector([i \in 1..HeadDim |-> Times(values[i], Times(inverse, weight[i]))])

(* apply_partial_rope: the first half of the first RotaryDims dimensions   *)
(* turns against the second half; the rest stays.                          *)
ApplyPartialRope(values, position) ==
  LET half == RotaryDims \div 2 IN
  Vector([i \in 1..HeadDim |->
    IF i > RotaryDims THEN values[i]
    ELSE LET index == IF i <= half THEN i ELSE i - half
             turn  == Rotation(index, position)
         IN  IF i <= half
             THEN Minus(Times(values[i], turn[1]), Times(values[i + half], turn[2]))
             ELSE (Times(values[i], turn[1]) + Times(values[i - half], turn[2])) % P])

Prepared(values, heads, weight, position) ==
  FlattenSeq([h \in 1..heads |->
    ApplyPartialRope(RmsnormHead(Slice(values, h - 1, HeadDim), weight), position)])
-----------------------------------------------------------------------------
(* Bf16KvCache and the layer's position.                                   *)
NewLayer(maxTokens) == [max |-> maxTokens, keys |-> <<>>, values |-> <<>>, position |-> 0]
ResetLayer(layer)   == [layer EXCEPT !.keys = <<>>, !.values = <<>>, !.position = 0]
CacheTokens(layer)  == Len(layer.keys) \div KvWidth

Push(layer, key, value) ==
  IF ~CheckedLen(key, KvWidth) \/ ~CheckedLen(value, KvWidth) \/ CacheTokens(layer) = layer.max
  THEN Failed
  ELSE [layer EXCEPT !.keys = @ \o Vector([i \in 1..KvWidth |-> Bf16(key[i])]),
                     !.values = @ \o Vector([i \in 1..KvWidth |-> Bf16(value[i])])]

CachedKey(layer, token, kvHead)   == Slice(layer.keys, token * KvHeads + kvHead, HeadDim)
CachedValue(layer, token, kvHead) == Slice(layer.values, token * KvHeads + kvHead, HeadDim)

ScoreScale == InverseRms(HeadDim)      \* 0.0625

(* The scores of a head over the cache, their softmax over the maximum,    *)
(* and the values it mixes.                                                *)
HeadAttends(layer, q, kvHead) ==
  LET scores == Vector([t \in 1..CacheTokens(layer) |->
                  Times(Dot(q, CachedKey(layer, t - 1, kvHead)), ScoreScale)])
      max    == CHOOSE s \in ToSet(scores) : \A u \in ToSet(scores) : u <= s
      weight == Vector([t \in 1..Len(scores) |-> Exp(Minus(scores[t], max))])
      sum    == Sum(weight)
  IN  Vector([d \in 1..HeadDim |->
        Sum([t \in 1..Len(scores) |-> Over(weight[t], sum) * CachedValue(layer, t - 1, kvHead)[d]])])

(* decode_projected_accounted.  A full cache fails, and changes nothing.   *)
LengthsFit(query, gate, key, value, qNorm, kNorm) ==
  /\ CheckedLen(query, Heads * HeadDim) /\ CheckedLen(gate, Heads * HeadDim)
  /\ CheckedLen(key, KvWidth) /\ CheckedLen(value, KvWidth)
  /\ CheckedLen(qNorm, HeadDim) /\ CheckedLen(kNorm, HeadDim)

DecodeProjectedAccounted(layer, query, gate, key, value, qNorm, kNorm) ==
  LET q == Prepared(query, Heads, qNorm, layer.position)
      k == Prepared(key, KvHeads, kNorm, layer.position)
      pushed == Push(layer, k, value)
      attended == FlattenSeq([h \in 1..Heads |->
        HeadAttends(pushed, Slice(q, h - 1, HeadDim), (h - 1) \div (Heads \div KvHeads))])
  IN  IF ~LengthsFit(query, gate, key, value, qNorm, kNorm) \/ pushed = Failed
      THEN [out |-> Failed, layer |-> layer]
      ELSE [out |-> Vector([i \in 1..(Heads * HeadDim) |-> Times(attended[i], Sigmoid(gate[i]))]),
            layer |-> [pushed EXCEPT !.position = @ + 1]]

(* decode_projected: the oracle, an output element at a time.              *)
DecodeProjected(layer, query, gate, key, value, qNorm, kNorm) ==
  LET q == Prepared(query, Heads, qNorm, layer.position)
      pushed == Push(layer, Prepared(key, KvHeads, kNorm, layer.position), value)
      head(i) == (i - 1) \div HeadDim
  IN  IF ~LengthsFit(query, gate, key, value, qNorm, kNorm) \/ pushed = Failed
      THEN [out |-> Failed, layer |-> layer]
      ELSE [out |-> Vector([i \in 1..(Heads * HeadDim) |->
              Times(HeadAttends(pushed, Slice(q, head(i), HeadDim), head(i) \div (Heads \div KvHeads))
                      [((i - 1) % HeadDim) + 1],
                    Sigmoid(gate[i]))]),
            layer |-> [pushed EXCEPT !.position = @ + 1]]
-----------------------------------------------------------------------------
Matvec(weight, x, rows, cols) == Vector([r \in 1..rows |-> Dot(Slice(weight, r - 1, cols), x)])

(* Q4FullAttentionWeights::validate, elements for bytes.                   *)
ValidWeights(w) ==
  /\ CheckedLen(w.q, ProjectedQGate * Hidden)
  /\ CheckedLen(w.k, KvWidth * Hidden) /\ CheckedLen(w.v, KvWidth * Hidden)
  /\ CheckedLen(w.o, Hidden * Heads * HeadDim)
  /\ CheckedLen(w.qNorm, HeadDim) /\ CheckedLen(w.kNorm, HeadDim)

DecodeQ4(layer, hidden, w) ==
  IF ~CheckedLen(hidden, Hidden) \/ ~ValidWeights(w) THEN [out |-> Failed, layer |-> layer]
  ELSE LET split == SplitQueryGate(Matvec(w.q, hidden, ProjectedQGate, Hidden))
           step  == DecodeProjected(layer, split[1], split[2],
                      Matvec(w.k, hidden, KvWidth, Hidden), Matvec(w.v, hidden, KvWidth, Hidden),
                      w.qNorm, w.kNorm)
           projected == Matvec(w.o, step.out, Hidden, Heads * HeadDim)
       IN  IF step.out = Failed THEN step
           ELSE [step EXCEPT !.out = Vector([i \in 1..Hidden |-> (hidden[i] + projected[i]) % P])]

(* run_full_attention, and the residual_add of its caller.                 *)
RunFullAttention(layer, hidden, w) ==
  LET split == SplitQueryGateAccounted(Matvec(w.q, hidden, ProjectedQGate, Hidden))
      step  == DecodeProjectedAccounted(layer, split[1], split[2],
                 Matvec(w.k, hidden, KvWidth, Hidden), Matvec(w.v, hidden, KvWidth, Hidden),
                 w.qNorm, w.kNorm)
      projected == Matvec(w.o, step.out, Hidden, Heads * HeadDim)
  IN  IF step.out = Failed THEN step
      ELSE [step EXCEPT !.out = Vector([i \in 1..Hidden |-> (hidden[i] + projected[i]) % P])]

RECURSIVE After(_, _, _, _)
After(Run(_, _, _), inputs, w, max) ==
  IF inputs = <<>> THEN [outs |-> <<>>, layer |-> NewLayer(max)]
  ELSE LET before == After(Run, Front(inputs), w, max)
           last   == Run(before.layer, Last(inputs), w)
       IN  [outs |-> Append(before.outs, last.out), layer |-> last.layer]

(* Grouped causal attention without a cache: query head h of token t reads *)
(* key head h \div group of the tokens up to t.                            *)
WithoutCache(inputs, w) ==
  LET group == Heads \div KvHeads
      of(m, t, n) == Vector([d \in 1..HeadDim |->
                       Dot(Slice(m, n * HeadDim + d - 1, Hidden), inputs[t])])
      q(t, h) == ApplyPartialRope(RmsnormHead(of(w.q, t, 2 * h), w.qNorm), t - 1)
      gate(t, h) == of(w.q, t, (2 * h) + 1)
      k(t, g) == Vector([d \in 1..HeadDim |->
                   Bf16(ApplyPartialRope(RmsnormHead(of(w.k, t, g), w.kNorm), t - 1)[d])])
      v(t, g) == Vector([d \in 1..HeadDim |-> Bf16(of(w.v, t, g)[d])])
      head(t, h) ==
        LET g == h \div group
            query  == q(t, h)
            scores == Vector([j \in 1..t |-> Times(Dot(query, k(j, g)), ScoreScale)])
            max    == CHOOSE s \in ToSet(scores) : \A u \in ToSet(scores) : u <= s
            part   == Vector([j \in 1..t |-> Exp(Minus(scores[j], max))])
            sum    == Sum(part)
            mixed  == Vector([d \in 1..HeadDim |->
                        Sum([j \in 1..t |-> Over(Times(part[j], v(j, g)[d]), sum)])])
            open   == gate(t, h)
        IN  Vector([d \in 1..HeadDim |-> Times(mixed[d], Sigmoid(open[d]))])
      out(t) ==
        LET all == FlattenSeq([h \in 1..Heads |-> head(t, h - 1)])
        IN  Vector([i \in 1..Hidden |->
              (inputs[t][i] + Dot(Slice(w.o, i - 1, Heads * HeadDim), all)) % P])
  IN  Vector([t \in 1..Len(inputs) |-> out(t)])

(* The oracle, the accounted form and attention without a cache agree; a   *)
(* full cache refuses the next token and keeps what it has; a reset layer  *)
(* is a new one; and what a query scores on a rotated key depends on their *)
(* distance only (attention.rs:22-677).                                    *)
AttentionAgrees(inputs, w) ==
  LET n     == Len(inputs)
      graph == After(RunFullAttention, inputs, w, n)
      a     == Slice(w.q, 0, HeadDim)
      b     == Slice(w.k, 0, HeadDim)
  IN  /\ graph = After(DecodeQ4, inputs, w, n)
      /\ graph.outs = WithoutCache(inputs, w)
      /\ RunFullAttention(graph.layer, inputs[1], w) = [out |-> Failed, layer |-> graph.layer]
      /\ RunFullAttention(ResetLayer(graph.layer), inputs[1], w).out = graph.outs[1]
      /\ 2 * Len(graph.layer.keys \o graph.layer.values) = BytesForTokens(n)
      /\ \A i, j \in 0..n : i <= j =>
           Dot(ApplyPartialRope(a, j), ApplyPartialRope(b, i)) = Dot(ApplyPartialRope(a, j - i), b)
=============================================================================
