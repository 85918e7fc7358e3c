------------------------------ MODULE DeltaNet ------------------------------
(***************************************************************************)
(* src/src/model/qwen36/gdn.rs: the gated-delta layer.  Two forms of it    *)
(* live side by side, the oracle and the one the fixed graph runs, which   *)
(* never builds the repeated heads; both keep a state per layer that is    *)
(* snapshot, serialized and restored.  They are compared with each other   *)
(* and with the definition of the layer without a state: a sum over the    *)
(* whole history.                                                          *)
(*                                                                         *)
(* A vector is a flat sequence of numbers of FiniteField, as in the code.  *)
(***************************************************************************)
EXTENDS FiniteField

CONSTANTS KeyHeads, ValueHeads, KeyHeadDim, ValueHeadDim, ConvWidth, Hidden

KeyDim       == KeyHeads * KeyHeadDim
ValueDim     == ValueHeads * ValueHeadDim
ConvChannels == 2 * KeyDim + ValueDim
Taps         == ConvWidth - 1
ShapeError   == <<>>

Zeros(n) == Vector([i \in 1..n |-> 0])
-----------------------------------------------------------------------------
(* dense_matvec: a row-major matrix times a vector.                        *)
DenseMatvec(weight, x, rows, cols) == Vector([r \in 1..rows |-> Dot(Slice(weight, r - 1, cols), x)])

Project(hidden, w) ==
  LET qkv == DenseMatvec(w.qkv, hidden, ConvChannels, Hidden)
  IN  [q |-> SubSeq(qkv, 1, KeyDim), k |-> SubSeq(qkv, KeyDim + 1, 2 * KeyDim),
       v |-> SubSeq(qkv, 2 * KeyDim + 1, ConvChannels),
       a |-> DenseMatvec(w.alpha, hidden, ValueHeads, Hidden),
       b |-> DenseMatvec(w.beta, hidden, ValueHeads, Hidden),
       z |-> DenseMatvec(w.z, hidden, ValueDim, Hidden)]
-----------------------------------------------------------------------------
(* ConvTailState: per channel the last Taps inputs, the oldest first.      *)
NewConv == Zeros(ConvChannels * Taps)

(* A channel's taps over its history and its new input, from a bias.       *)
Filtered(history, qkv, weight, bias) ==
  Vector([c \in 1..ConvChannels |->
     LET w == Slice(weight, c - 1, ConvWidth)
         h == Slice(history, c - 1, Taps)
     IN  Silu((bias[c] + Sum([t \in 1..Taps |-> w[t] * h[t]]) + w[Taps + 1] * qkv[c]) % P)])

Slid(history, qkv) ==
  Vector([i \in 1..Len(history) |-> IF i % Taps = 0 THEN qkv[i \div Taps] ELSE history[i + 1]])

Step(history, qkv, weight, bias) ==
  [out |-> Filtered(history, qkv, weight, bias), history |-> Slid(history, qkv)]

(* step_into writes to storage of its caller.                              *)
StepInto(history, qkv, weight, bias, storage) ==
  [out |-> Vector([c \in 1..Len(storage) |-> Filtered(history, qkv, weight, bias)[c]]),
   history |-> Slid(history, qkv)]

StepWithoutBiasInto(history, qkv, weight, storage) ==
  [out |-> Vector([c \in 1..Len(storage) |->
              LET at == (c - 1) * Taps IN
              Silu((Sum([t \in 1..Taps |-> weight[(c - 1) * ConvWidth + t] * history[at + t]])
                    + weight[c * ConvWidth] * qkv[c]) % P)]),
   history |-> Slid(history, qkv)]
-----------------------------------------------------------------------------
L2Norm(values) ==
  Vector([i \in 1..Len(values) |->
    LET head == Slice(values, (i - 1) \div KeyHeadDim, KeyHeadDim)
     IN  Times(values[i], InverseNorm(Dot(head, head)))])

QkNorm(q, k) == <<L2Norm(q), L2Norm(k)>>

(* qk_norm_in_place: one head after the other, each over its own slice.    *)
NormHeadInPlace(values, h) ==
  LET head    == Slice(values, h, KeyHeadDim)
      inverse == InverseNorm(Dot(head, head))
  IN  Vector([i \in 1..Len(values) |->
      IF (i - 1) \div KeyHeadDim = h THEN Times(values[i], inverse) ELSE values[i]])

QkNormInPlace(q, k) ==
  IF Len(q) # KeyDim \/ Len(k) # KeyDim THEN ShapeError
  ELSE LET heads == Vector([h \in 1..KeyHeads |-> h - 1])
       IN  <<FoldLeft(NormHeadInPlace, q, heads), FoldLeft(NormHeadInPlace, k, heads)>>

(* repeat_heads: key head h goes to the value heads g * KeyHeads + h.      *)
RepeatHeads(x, dim) ==
  Vector([i \in 1..(ValueHeads * dim) |->
     LET dst == (i - 1) \div dim
         h   == CHOOSE h \in 0..KeyHeads - 1 :
                  \E g \in 0..(ValueHeads \div KeyHeads) - 1 : dst = g * KeyHeads + h
     IN  x[h * dim + ((i - 1) % dim) + 1]])
-----------------------------------------------------------------------------
(* GdnState: the recurrence of every value head, a KeyHeadDim by           *)
(* ValueHeadDim matrix, and the convolution's tail.                        *)
HeadSize     == KeyHeadDim * ValueHeadDim
StateElements == (ValueHeads * HeadSize) + (ConvChannels * Taps)
NewState     == [recurrent |-> Zeros(ValueHeads * HeadSize), conv |-> NewConv]
ResetState(state) == [recurrent |-> Vector([i \in 1..Len(state.recurrent) |-> 0]),
                      conv |-> Vector([i \in 1..Len(state.conv) |-> 0])]

Snapshot(state) == [NewState EXCEPT !.recurrent = state.recurrent, !.conv = state.conv]
Restore(state, snapshot) == [state EXCEPT !.recurrent = snapshot.recurrent, !.conv = snapshot.conv]

(* An element of four bytes is one symbol here.                            *)
ToBytes(state) == state.recurrent \o state.conv

FromBytes(bytes) ==
  IF Len(bytes) # StateElements THEN ShapeError
  ELSE LET n == ValueHeads * HeadSize
       IN  [recurrent |-> SubSeq(bytes, 1, n), conv |-> SubSeq(bytes, n + 1, Len(bytes))]
-----------------------------------------------------------------------------
(* exp(a * softplus(alpha + dt)) and sigmoid(beta) of a head.              *)
Decay(par, head) ==
  Exp(Times(par.aNegExp[head], Softplus((par.alpha[head] + par.dtBias[head]) % P)))
WriteGate(par, head) == Sigmoid(par.beta[head])

QueryScale == InverseRms(KeyHeadDim)       \* 1 / sqrt(KEY_HEAD_DIM)

HeadStep(matrix, q, k, v, decay, beta) ==
  LET at(m, i, j) == m[(i - 1) * ValueHeadDim + j]
      decayed == Vector([e \in 1..Len(matrix) |-> Times(matrix[e], decay)])
      pred  == Vector([j \in 1..ValueHeadDim |->
          Sum([i \in 1..KeyHeadDim |-> at(decayed, i, j) * k[i]])])
      delta == Vector([j \in 1..ValueHeadDim |-> Times(beta, Minus(v[j], pred[j]))])
      new   == Vector([e \in 1..Len(matrix) |-> (decayed[e] + k[((e - 1) \div ValueHeadDim) + 1]
                                * delta[((e - 1) % ValueHeadDim) + 1]) % P])
  IN  [matrix |-> new,
       y |-> Vector([j \in 1..ValueHeadDim |->
           Sum([i \in 1..KeyHeadDim |-> at(new, i, j) * Times(q[i], QueryScale)])])]

(* recurrent_step: over repeated heads.  A zero of the key or the query    *)
(* is skipped, which adds nothing.                                         *)
RecurrentStep(recurrent, q, k, v, par) ==
  LET qFull == RepeatHeads(q, KeyHeadDim)
      kFull == RepeatHeads(k, KeyHeadDim)
      step == Vector([h \in 1..ValueHeads |->
          HeadStep(Slice(recurrent, h - 1, HeadSize), Slice(qFull, h - 1, KeyHeadDim),
                 Slice(kFull, h - 1, KeyHeadDim), Slice(v, h - 1, ValueHeadDim),
                 Decay(par, h), WriteGate(par, h))])
  IN  [y |-> FlattenSeq([h \in 1..ValueHeads |-> step[h].y]),
       recurrent |-> FlattenSeq([h \in 1..ValueHeads |-> step[h].matrix])]

(* recurrent_step_accounted: head h reads key head h modulo KeyHeads.      *)
RecurrentStepAccounted(recurrent, q, k, v, par) ==
  IF \/ Len(q) # KeyDim \/ Len(k) # KeyDim \/ Len(v) # ValueDim
     \/ \E p \in {par.alpha, par.beta, par.aNegExp, par.dtBias} : Len(p) # ValueHeads
  THEN ShapeError
  ELSE LET step == Vector([h \in 1..ValueHeads |->
             LET keyHead == (h - 1) % KeyHeads IN
             HeadStep(Slice(recurrent, h - 1, HeadSize), Slice(q, keyHead, KeyHeadDim),
                      Slice(k, keyHead, KeyHeadDim), Slice(v, h - 1, ValueHeadDim),
                      Decay(par, h), WriteGate(par, h))])
       IN  [y |-> FlattenSeq([h \in 1..ValueHeads |-> step[h].y]),
            recurrent |-> FlattenSeq([h \in 1..ValueHeads |-> step[h].matrix])]
-----------------------------------------------------------------------------
MeanSquare(values) == Over(Dot(values, values), Len(values))

(* gated_norm: per head where the weight is as long as a head, otherwise   *)
(* over the whole vector.                                                  *)
GatedNorm(y, z, weight) ==
  IF Len(weight) = ValueHeadDim
  THEN FlattenSeq([h \in 1..ValueHeads |->
         LET input == Slice(y, h - 1, ValueHeadDim)
             gate  == Slice(z, h - 1, ValueHeadDim)
         IN  Vector([i \in 1..ValueHeadDim |->
             Times(Times(Times(input[i], InverseRms(MeanSquare(input))), weight[i]),
                      Silu(gate[i]))])])
  ELSE Vector([i \in 1..ValueDim |->
      Times(Times(Times(y[i], InverseRms(MeanSquare(y))), weight[i]), Silu(z[i]))])

GatedNormAccounted(y, z, weight) ==
  IF Len(y) # ValueDim \/ Len(z) # ValueDim \/ Len(weight) # ValueHeadDim THEN ShapeError
  ELSE Vector([position \in 1..ValueDim |->
          LET head  == (position - 1) \div ValueHeadDim
              index == ((position - 1) % ValueHeadDim) + 1
              input == Slice(y, head, ValueHeadDim)
          IN  Times(Times(Times(input[index], InverseRms(MeanSquare(input))), weight[index]),
                    Silu(z[position]))])

OutProjection(gated, weight) == DenseMatvec(weight, gated, Hidden, ValueDim)
-----------------------------------------------------------------------------
(* run_gdn: a token through the layer of the fixed graph.                  *)
RunGdn(state, input, w) ==
  LET qkv  == DenseMatvec(w.qkv, input, ConvChannels, Hidden)
      conv == StepWithoutBiasInto(state.conv, qkv, w.conv, Zeros(ConvChannels))
      qk   == QkNormInPlace(SubSeq(conv.out, 1, KeyDim), SubSeq(conv.out, KeyDim + 1, 2 * KeyDim))
      v    == SubSeq(conv.out, 2 * KeyDim + 1, ConvChannels)
      par  == [alpha |-> DenseMatvec(w.alpha, input, ValueHeads, Hidden),
               beta |-> DenseMatvec(w.beta, input, ValueHeads, Hidden),
               aNegExp |-> w.aNegExp, dtBias |-> w.dtBias]
      rec  == RecurrentStepAccounted(state.recurrent, qk[1], qk[2], v, par)
      z    == DenseMatvec(w.z, input, ValueDim, Hidden)
  IN  [out |-> DenseMatvec(w.out, GatedNormAccounted(rec.y, z, w.gatedNorm), Hidden, ValueDim),
       state |-> [recurrent |-> rec.recurrent, conv |-> conv.history]]

(* The same token through the oracle's stages.                             *)
RunOracle(state, input, w) ==
  LET p    == Project(input, w)
      conv == Step(state.conv, (p.q \o p.k) \o p.v, w.conv, Zeros(ConvChannels))
      qk   == QkNorm(SubSeq(conv.out, 1, KeyDim), SubSeq(conv.out, KeyDim + 1, 2 * KeyDim))
      rec  == RecurrentStep(state.recurrent, qk[1], qk[2], SubSeq(conv.out, 2 * KeyDim + 1, ConvChannels),
                [alpha |-> p.a, beta |-> p.b, aNegExp |-> w.aNegExp, dtBias |-> w.dtBias])
  IN  [out |-> OutProjection(GatedNorm(rec.y, p.z, w.gatedNorm), w.out),
       state |-> [recurrent |-> rec.recurrent, conv |-> conv.history]]

RECURSIVE After(_, _, _)
After(Run(_, _, _), inputs, w) ==     \* outputs and state, from an empty state
  IF inputs = <<>> THEN [outs |-> <<>>, state |-> NewState]
  ELSE LET before == After(Run, Front(inputs), w)
           last   == Run(before.state, Last(inputs), w)
       IN  [outs |-> Append(before.outs, last.out), state |-> last.state]

(* The layer without a state.  Channel c at time t convolves the inputs up *)
(* to t; value head h predicts v from what the earlier deltas stored under *)
(* keys like its own, faded by the decays in between.                      *)
WithoutState(inputs, w) ==
  LET p == Vector([t \in 1..Len(inputs) |-> Project(inputs[t], w)])
      x(c, t) == IF t < 1 THEN 0 ELSE ((p[t].q \o p[t].k) \o p[t].v)[c]
      conv == Vector([t \in 1..Len(inputs) |->
          Vector([c \in 1..ConvChannels |-> Silu(Sum([n \in 1..ConvWidth |->
                        w.conv[(c - 1) * ConvWidth + n] * x(c, t - ConvWidth + n)]))])])
      vec(t, first, dim) == Vector([i \in 1..dim |-> conv[t][first + i]])
      unit(a) == Vector([i \in 1..Len(a) |-> Times(a[i], InverseNorm(Dot(a, a)))])
      q(t, h) == unit(vec(t, ((h - 1) % KeyHeads) * KeyHeadDim, KeyHeadDim))
      k(t, h) == unit(vec(t, KeyDim + ((h - 1) % KeyHeads) * KeyHeadDim, KeyHeadDim))
      v(t, h) == vec(t, 2 * KeyDim + (h - 1) * ValueHeadDim, ValueHeadDim)
      par(t)  == [alpha |-> p[t].a, beta |-> p[t].b, aNegExp |-> w.aNegExp, dtBias |-> w.dtBias]
      faded(m, t, h) == FoldLeft(LAMBDA f, n : Times(f, Decay(par(n), h)), 1,
                                 Vector([n \in 1..(t - m) |-> m + n]))
      delta(h) == LET d[t \in DOMAIN inputs] ==
        Vector([j \in 1..ValueHeadDim |-> Times(WriteGate(par(t), h),
                 Minus(v(t, h)[j],
                       Sum([m \in 1..(t - 1) |-> Times(faded(m, t, h), Dot(k(m, h), k(t, h)))
                                               * d[m][j]])))])
        IN d
      deltas == Vector([h \in 1..ValueHeads |-> delta(h)])
      y(t, h) == Vector([j \in 1..ValueHeadDim |->
          Times(QueryScale, Sum([m \in 1..t |-> Times(faded(m, t, h), Dot(k(m, h), q(t, h)))
                                              * deltas[h][m][j]]))])
      gated(t) == FlattenSeq([h \in 1..ValueHeads |->
        LET read == y(t, h) IN
        Vector([j \in 1..ValueHeadDim |-> Times(Times(read[j], InverseRms(MeanSquare(read))),
                 Times(w.gatedNorm[j], Silu(p[t].z[(h - 1) * ValueHeadDim + j])))])])
  IN  Vector([t \in 1..Len(inputs) |-> OutProjection(gated(t), w.out)])

(* The fixed graph, the oracle and the definition without a state agree,   *)
(* also when the state is snapshot after any token, written to bytes and   *)
(* read back over a used or a reset state (gdn.rs:94-675).                 *)
DeltaNetAgrees(inputs, w) ==
  LET graph == After(RunGdn, inputs, w)
      n     == Len(inputs)
      middle == After(RunGdn, Front(inputs), w).state
      used   == Restore(graph.state, FromBytes(ToBytes(Snapshot(middle))))
      bias   == Vector([c \in 1..ConvChannels |-> c])
      qkv    == Vector([c \in 1..ConvChannels |-> (c * c) % P])
  IN  /\ graph = After(RunOracle, inputs, w)
      /\ graph.outs = WithoutState(inputs, w)
      /\ RunGdn(used, inputs[n], w).out = graph.outs[n]
      /\ ResetState(graph.state) = NewState
      /\ FromBytes(Tail(ToBytes(middle))) = ShapeError
      /\ StepInto(middle.conv, qkv, w.conv, bias, Zeros(ConvChannels))
           = Step(middle.conv, qkv, w.conv, bias)
=============================================================================
