---------------------------- MODULE ModelRuntime ----------------------------
(***************************************************************************)
(* What the resident runtime of the model is made of: the prefill of a     *)
(* prompt (Prefill), the decode session and its snapshots (Session), the   *)
(* store those are kept in (PrefixStore), the GPU's matrix kernel          *)
(* (StagedKernel), and what it computes: the arithmetic of blocks          *)
(* (Quantization), of layers (DeltaNet, Attention, Moe) and of cached      *)
(* pages (KvPages, KvCandidates), the choice of a token (Sampling) and the *)
(* replays that chose the expert cache (ExpertReplay).  Each is run on its *)
(* own; a behaviour is one of them.  The arithmetic has no state: it is    *)
(* asked of one subject, a record of a `kind`, and the behaviour is over.  *)
(***************************************************************************)
EXTENDS Prefill, PrefixStore, Session, StagedKernel

CONSTANTS
  Subjects,     \* of the arithmetic
  Hidden,
  KeyHeads, ValueHeads, KeyHeadDim, ValueHeadDim, ConvWidth,   \* of a gated-delta layer
  Heads, AttentionKvHeads, AttentionHeadDim, RotaryDims,       \* of a full-attention layer
  NumExperts, TopK, ExpertWidth,                               \* of a mixture of experts
  Underflow,     \* below which the exponential is zero
  Draws          \* the random numbers of a sampler

ASSUME ArithmeticAssumption ==
  /\ {Hidden, KeyHeads, ValueHeads, KeyHeadDim, ValueHeadDim, ConvWidth, Heads, AttentionKvHeads,
      AttentionHeadDim, RotaryDims, NumExperts, TopK, ExpertWidth, Underflow, Draws}
       \subseteq Nat \ {0}
  /\ ValueHeads % KeyHeads = 0 /\ Heads % AttentionKvHeads = 0
  /\ RotaryDims % 2 = 0 /\ RotaryDims <= AttentionHeadDim
  /\ TopK <= NumExperts

VARIABLES program, subject

Q      == INSTANCE Quantization
Delta  == INSTANCE DeltaNet
Attn   == INSTANCE Attention WITH KvHeads <- AttentionKvHeads, HeadDim <- AttentionHeadDim
Mix    == INSTANCE Moe
Replay == INSTANCE ExpertReplay
Sample == INSTANCE Sampling
Encode == INSTANCE KvCandidates

programVars == <<program, subject>>
allVars     == <<prefillVars, storeVars, sessionVars, kernelVars, programVars>>

None == [kind |-> "none"]

Programs == {"prefill", "session", "store", "kernel", "arithmetic"}

(* The choices of a program that is not run do not matter.                 *)
ModelInit ==
  /\ program \in Programs
  /\ PrefillInit /\ StoreInit /\ SessionInit /\ KernelInit
  /\ program # "kernel" => group = 0
  /\ program # "session" =>
       backend = (CHOOSE b \in Backends : TRUE) /\ capacity = CHOOSE c \in Capacities : TRUE
  /\ subject = None

PrefillAlone(A) ==
  program = "prefill" /\ A /\ UNCHANGED <<storeVars, sessionVars, kernelVars, programVars>>

PickSubject ==
  /\ program = "arithmetic" /\ subject = None
  /\ subject' \in Subjects
  /\ UNCHANGED <<prefillVars, storeVars, sessionVars, kernelVars, program>>

ModelNext ==
  \/ PrefillAlone(PrefillNext)
  \/ program = "session" /\ SessionNext
     /\ UNCHANGED <<prefillVars, storeVars, kernelVars, programVars>>
  \/ program = "store" /\ StoreNext
     /\ UNCHANGED <<prefillVars, sessionVars, kernelVars, programVars>>
  \/ program = "kernel" /\ KernelNext
     /\ UNCHANGED <<prefillVars, storeVars, sessionVars, programVars>>
  \/ PickSubject

ModelSpec == ModelInit /\ [][ModelNext]_allVars

(* The generation thread runs a prefill to its end.                        *)
FairModelSpec == ModelSpec /\ WF_allVars(PrefillAlone(Feed))
-----------------------------------------------------------------------------
(* The scalar, the NEON and the GPU's reading of a block of weights agree  *)
(* with an independent one, and half precision converts as IEEE 754 says   *)
(* (weights.rs:752-1099, simd/mod.rs, kernels.rs:130-213); the two forms   *)
(* of a layer, and for the experts its three, compute the same, token by   *)
(* token, in chunks, and after a restore (gdn.rs, attention.rs,            *)
(* experts/mod.rs).                                                        *)
KernelsAgreeOn(s) ==
  CASE s.kind = "half" ->
         \A low \in {0, 1, 2, 3, 256, 511, 512, 1023} : Q!HalfAgrees(s.bits + low)
    [] s.kind = "q4k" -> Q!Q4KAgrees([scales |-> s.scales, qs |-> s.qs], s.act)
    [] s.kind = "q6k" -> Q!Q6KAgrees([scales |-> s.scales, ql |-> s.ql, qh |-> s.qh], s.act)
    [] s.kind = "q8" -> Q!Q80Agrees(s.qs, s.act) /\ Q!Q40Agrees(s.qs)
    [] s.kind = "activation" ->
         /\ Q!ActivationIsNearest(s.act, Q!QuantizeQ8K(s.act).values)
         /\ Q!ActivationIsNearest(SubSeq(s.act, 1, 32), Q!QuantizeQ80(SubSeq(s.act, 1, 32)))
    [] s.kind = "delta"     -> Delta!DeltaNetAgrees(s.inputs, s.weights)
    [] s.kind = "attention" -> Attn!AttentionAgrees(s.inputs, s.weights)
    [] s.kind = "experts"   -> Mix!MoeAgrees(s.model, s.inputs)
    [] OTHER -> TRUE

(* The experts of a route are the k largest of all (experts/mod.rs:104-    *)
(* 206); a sampled token is one of those the request leaves, with the      *)
(* probability it has among them (sampling/mod.rs); and a replay of a      *)
(* recorded trace caches what the policy it measures would (policy.rs,     *)
(* tiling.rs, prefetch.rs).                                                *)
ChoosesRightly(s) ==
  CASE s.kind = "route"  -> Mix!RouteIsTop(s.logits)
    [] s.kind = "logits" -> Sample!SamplingIsSound(s.logits, s.history, s.params)
    [] s.kind = "trace"  ->
         /\ Replay!TiledIsLru(s.trace, s.capacity * 3, <<1, 2>>)
         /\ \A policy \in {"lru", "lfu", "decay"} :
              Replay!WholeReplayIsSound(s.trace, s.capacity, policy, 2, s.sizes)
         /\ Replay!PrefetchIsSound(s.trace, s.capacity, 1)
    [] OTHER -> TRUE

(* A candidate encoding gives back what it was made from to within its     *)
(* step, and its codes survive their packing (tqkv/candidates.rs).         *)
EncodingIsClose(s) ==
  CASE s.kind = "codes" -> Encode!PackingAgrees(s.codes, s.bits)
    [] s.kind = "keys"  -> Encode!ErrorsAreBounded(s.keys, s.signs, s.rotary, s.positions, 1)
    [] OTHER -> TRUE

(* A page that was left out cannot hold the key that scores best: no key   *)
(* scores above its page's bound, the recent and the protected pages are   *)
(* always there, and the others are better than those left out by a margin *)
(* (tqattn/mod.rs:56-152).                                                 *)
ChoiceIsBest(s, pages, choice) ==
  LET keys   == s.keys      \* of pages of tokens
      total  == Len(keys)
      always == s.protected \cup
                {i \in 1..total : i > total - s.config.recent}
      Score(query, head, key) ==
        SumTo(HeadDim, [d \in 1..HeadDim |-> query[d] * key[head * HeadDim + d]])
      Bound(i) == BestBound(s.queries, pages[i].page)
      headOf(q) == (q - 1) \div (Len(s.queries) \div KvHeads)
  IN  /\ \A i \in 1..total, q \in DOMAIN s.queries :
           \A k \in ToSet(keys[i]) : Score(s.queries[q], headOf(q), k) <= Bound(i)
      /\ always \subseteq choice.selected
      /\ \A i \in 1..total \ choice.selected, j \in choice.selected \ always :
           Bound(i) + s.config.margin <= Bound(j)
      /\ choice.tokens = FoldLeft(LAMBDA n, i : n + Len(keys[i]), 0, SetToSeq(choice.selected))
      /\ choice.tokens >= s.config.minTokens \/ choice.selected = 1..total

LeavesOutLower(s) ==
  s.kind = "pages" =>
    LET pages == [i \in DOMAIN s.keys |-> Seal(i, 1, 0, s.keys[i], s.keys[i], "q8")]
    IN  ChoiceIsBest(s, pages, Select(pages, s.queries, s.config, s.protected))
-----------------------------------------------------------------------------
(* A prefill ends: neither retries nor what a halved chunk leaves over go  *)
(* on forever (runtime.rs:263-300).                                        *)
PromptEnds == program = "prefill" /\ outcome = "running" ~> outcome # "running"

(* See KernelsAgreeOn: no two readings of the same numbers differ.         *)
KernelsAgree == KernelsAgreeOn(subject)

(* See ChoosesRightly: routes, samples and replays choose what they        *)
(* promise.                                                                *)
ChoicesAreRight == ChoosesRightly(subject)

(* See LeavesOutLower and EncodingIsClose: what a page keeps of its keys   *)
(* is enough to choose it by and to answer from.                           *)
PagesAnswer == LeavesOutLower(subject) /\ EncodingIsClose(subject)

=============================================================================
