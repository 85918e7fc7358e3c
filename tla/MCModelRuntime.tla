--------------------------- MODULE MCModelRuntime ---------------------------
(* A prompt of two chunks and the final token, the last of three layers    *)
(* full attention as in the checkpoint's pattern; a session of five tokens *)
(* over pages of two, on two cache formats besides BF16, restarted once;   *)
(* a store of three prefixes that share two blobs and fit the quota two at *)
(* a time; four threads on strips of two of three rows.                    *)
EXTENDS ModelRuntime

CONSTANTS p1, p2, p3, b1, b2

MCPrefixes == {p1, p2, p3}
MCBlobs == {b1, b2}

(* One gated-delta and two full-attention layers, two tokens whose keys    *)
(* change sign and size with their position.                               *)
MCLayerKinds == <<"gdn", "full", "full">>
MCKeyOf == <<[p \in 0..5 |-> <<p + 1, -p, 2 * p - 3, 5, 0, p, -1, 7 - p>>],
             [p \in 0..5 |-> <<-(p + 2), p + 1, 4 - p, 0, 3, -p, 1, p * p>>]>>
MCTexts == {<<1, 2, 1, 1, 2>>, <<1, 2, 2, 1, 1>>, <<2, 1, 1, 2, 1>>}
MCOneText == {<<1, 1>>}
MCValueOf == <<<<3, -1, 0, 6, 0, 0, -7, 2>>, <<-2, 5, 1, -6, 4, 9, -1, 0>>>>

MCWeight(row, block, cell) == 1 + row * 7 + block * 31 + 20 * cell
MCInput(block, element) == 1 + 5 * block + 2 * element

(* Every byte of a block alone against a background, every bit of the      *)
(* scales, the extremes, and mixed blocks.                                 *)
OneByte(n, where, value, rest) == [i \in 1..n |-> IF i = where THEN value ELSE rest]
Pattern(n, k, m) == [i \in 1..n |-> ((i * k) % m) - (m \div 2)]
Flat(n, v) == [i \in 1..n |-> v]
Mixed(n, k) == [i \in 1..n |-> (i * k) % 256]

HalfSubjects == {[kind |-> "half", bits |-> 1024 * h] : h \in 0..63}
Q4KSubjects ==
  {[kind |-> "q4k", scales |-> Mixed(12, 37), qs |-> OneByte(128, i, 226, 0),
    act |-> Pattern(256, 7, 255)] : i \in 1..128} \cup
  {[kind |-> "q4k", scales |-> OneByte(12, i, 2^b, 0), qs |-> Mixed(128, 29),
    act |-> Pattern(256, 7, 255)] : i \in 1..12, b \in 0..7} \cup
  {[kind |-> "q4k", scales |-> Flat(12, s), qs |-> Flat(128, q), act |-> Flat(256, a)] :
     s \in {255, 0}, q \in {255, 128}, a \in {-3, 0, 3}}
Q6KSubjects ==
  {[kind |-> "q6k", scales |-> Mixed(16, s), ql |-> Mixed(128, l), qh |-> Mixed(64, h),
    act |-> Pattern(256, a, 255)] : s \in {1, 37, 255}, l \in {29, 131}, h \in {83, 5}, a \in {7, 1, 100}} \cup
  {[kind |-> "q6k", scales |-> Mixed(16, 37), ql |-> OneByte(128, i, 226, 0),
    qh |-> OneByte(64, (i + 1) \div 2, 201, 0), act |-> Pattern(256, 7, 255)] : i \in 1..128}
Q8Subjects ==
  {[kind |-> "q8", qs |-> OneByte(32, i, v, r), act |-> a] :
     i \in 1..32, v \in {1, 128, 255}, r \in {127, 128}, a \in {Flat(32, -5), Pattern(32, 7, 31)}}
ActivationSubjects ==
  {[kind |-> "activation", act |-> Pattern(256, k, m)] : k \in 1..6, m \in {3, 16, 255, 401}}

(* Four pages of one or two keys, four query heads on two key heads.       *)
PageKeys ==
  {<<<<3, -1, 0, 2, 0, 2, -1, 1>>>>,
   <<<<-2, 2, 1, -3, 1, 0, -1, 2>>, <<1, -2, 4, 0, 0, 0, 3, -2>>>>,
   <<<<-1, -1, -2, 1, -2, 1, 0, 0>>>>}
PageSubjects ==
  {[kind |-> "pages", keys |-> <<a, b, c, <<<<0, 1, 0, 1, 0, 1, 1, 0>>>>>>,
    queries |-> <<<<-1, -1, 0, 2>>, <<-1, -2, 1, 0>>, <<-2, 0, 1, 1>>, <<-2, -1, 0, 0>>>>,
    config |-> [recent |-> r, budget |-> n, margin |-> g, minTokens |-> m],
    protected |-> p] :
   <<a, b, c, r, n, g, m, p>> \in
     PageKeys \X PageKeys \X PageKeys \X {0, 1} \X {0, 1} \X {0, 2} \X {0, 4}
     \X {{}, {1}}}

(* Layers of four heads on two, over inputs and weights that are arbitrary *)
(* but fixed numbers of the field; four tokens each.                       *)
Arbitrary(seed, n) == [i \in 1..n |-> (seed * i * i + 31 * i + seed) % Delta!P]
DeltaWeights(s) ==
  [qkv |-> Arbitrary(s, Delta!ConvChannels * Hidden), z |-> Arbitrary(s + 1, Delta!ValueDim * Hidden),
   alpha |-> Arbitrary(s + 2, ValueHeads * Hidden), beta |-> Arbitrary(s + 3, ValueHeads * Hidden),
   conv |-> Arbitrary(s + 4, Delta!ConvChannels * ConvWidth),
   aNegExp |-> Arbitrary(s + 5, ValueHeads), dtBias |-> Arbitrary(s + 6, ValueHeads),
   gatedNorm |-> Arbitrary(s + 7, ValueHeadDim), out |-> Arbitrary(s + 8, Hidden * Delta!ValueDim)]
AttentionWeights(s) ==
  [q |-> Arbitrary(s, Attn!ProjectedQGate * Hidden), k |-> Arbitrary(s + 1, Attn!KvWidth * Hidden),
   v |-> Arbitrary(s + 2, Attn!KvWidth * Hidden),
   o |-> Arbitrary(s + 3, Hidden * Heads * AttentionHeadDim),
   qNorm |-> Arbitrary(s + 5, AttentionHeadDim), kNorm |-> Arbitrary(s + 6, AttentionHeadDim)]
Planes(s) ==
  [gate |-> Arbitrary(s, ExpertWidth * Hidden), up |-> Arbitrary(s + 1, ExpertWidth * Hidden),
   down |-> Arbitrary(s + 2, ExpertWidth * Hidden)]
Experts(s) ==
  [router |-> [i \in 1..NumExperts * Hidden |-> (i * (s + i)) % 5],
   inputGate |-> Arbitrary(s, Hidden), shared |-> Planes(s + 20),
   routed |-> [e \in 1..NumExperts |-> Planes(s + 3 * e)]]

LayerSubjects ==
  {[kind |-> "delta", weights |-> DeltaWeights(s),
    inputs |-> [t \in 1..4 |-> Arbitrary(s + 10 * t, Hidden)]] : s \in {3, 8}} \cup
  {[kind |-> "attention", weights |-> AttentionWeights(s),
    inputs |-> [t \in 1..4 |-> Arbitrary(s + 10 * t, Hidden)]] : s \in {3, 8}} \cup
  {[kind |-> "experts", model |-> Experts(s),
    inputs |-> [t \in 1..3 |-> [i \in 1..Hidden |-> (s * t + i) % 4]]] : s \in {1, 2, 6}}

(* Logits that tie, underflow or are not finite; samples with and without  *)
(* each filter; routes of two experts over one and two layers.             *)
RouteSubjects ==
  {[kind |-> "route", logits |-> l] : l \in [1..NumExperts -> {-9, -4, 0, 3, Mix!NotFinite}]}
SampleSubjects ==
  {[kind |-> "logits", logits |-> l, history |-> h,
    params |-> [temperature |-> t, topP |-> p, topK |-> k, minP |-> m, repeat |-> r,
                repeatLastN |-> 2, frequency |-> f, presence |-> f \div 2]] :
     l \in {<<8, 4, -8>>, <<-8, -8, -8>>, <<0, 8, Sample!NotANumber>>,
            <<Sample!NotANumber, Sample!NotANumber, -8>>, <<0, 4, 8, 8>>},
     h \in {<<>>, <<1>>, <<0, 0, 1>>}, t \in {1, 4}, p \in {<<1, 2>>, <<1, 1>>}, k \in {0, 2},
     m \in {<<0, 1>>, <<1, 4>>}, r \in {<<1, 1>>, <<2, 1>>}, f \in {0, 4}}
Event(l, route, next) == [layer |-> l, experts |-> route, nextLayer |-> next]
Pairs == {<<0, 1>>, <<1, 2>>, <<2, 0>>, <<3, 1>>, <<2, 3>>}
TraceSubjects ==
  {[kind |-> "trace", capacity |-> c, sizes |-> [e \in 0..3 |-> 1 + (e % 2)],
    trace |-> <<Event(0, <<2, 0>>, 1), Event(1, t[1], 0), Event(0, t[2], 1), Event(1, t[3], 0)>>] :
     t \in Pairs \X Pairs \X Pairs, c \in {2, 3}} \cup
  {[kind |-> "trace", capacity |-> c, sizes |-> [e \in 0..3 |-> 1 + (e % 2)],
    trace |-> <<Event(0, <<0, 1>>, 0), Event(0, t[1], 0), Event(0, t[2], 0), Event(0, t[3], 0)>>] :
     t \in Pairs \X Pairs \X Pairs, c \in {2, 3}}

(* Pages of up to three tokens with an outlier, two key heads of four.     *)
Half ==
  {<<<<3, -1, 0, 2>>>>, <<<<-2, 2, 1, -30>>, <<1, -2, 40, 0>>>>,
   <<<<9, -9, 8, 7>>, <<0, -1, 1, 40>>, <<5, 5, -40, 0>>>>,
   <<<<0, 0, 0, 0>>, <<0, 8, 3, -1>>, <<0, 0, 0, 70>>>>}
EncodingSubjects ==
  {[kind |-> "keys", keys |-> [t \in DOMAIN a |-> a[t] \o b[((t - 1) % Len(b)) + 1]],
    signs |-> g, rotary |-> r, positions |-> [t \in DOMAIN a |-> p + t]] :
     a \in Half, b \in Half, g \in {<<1, 1, 1, 1>>, <<-1, 1, -1, -1>>}, r \in {2, 4}, p \in {0, 5}} \cup
  {[kind |-> "codes", bits |-> b, codes |-> [i \in 1..n |-> ((i * k) % (2^b)) - 2^(b - 1)]] :
     b \in 2..4, n \in 0..7, k \in {1, 3, 5}}

MCSubjects ==
  HalfSubjects \cup Q4KSubjects \cup Q6KSubjects \cup Q8Subjects \cup ActivationSubjects
  \cup PageSubjects \cup LayerSubjects \cup RouteSubjects \cup SampleSubjects \cup TraceSubjects
  \cup EncodingSubjects
=============================================================================
