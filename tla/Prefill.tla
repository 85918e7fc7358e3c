------------------------------- MODULE Prefill -------------------------------
(***************************************************************************)
(* src/src/model/qwen36/runtime.rs: how the resident runtimes feed a       *)
(* prompt to the layers, chunk by chunk and layer by layer within a chunk, *)
(* and halve a chunk whose scratch the broker refuses.                     *)
(*                                                                         *)
(* A token's effect on a layer is that it is appended to what the layer's  *)
(* state has seen.  A gated-delta layer has two states: the convolution    *)
(* tail, which moves first, and the recurrence.  A full-attention layer    *)
(* has its KV cache, of MaxContext tokens.  Between any two of these steps *)
(* stand allocations that the broker may refuse and reads that may fail.   *)
(* The last prompt token is an ordinary decode step: a chunk of its own.   *)
(***************************************************************************)
EXTENDS Naturals, Sequences, FiniteSets, SequencesExt

CONSTANTS
  NumLayers,
  FullLayers,   \* the full-attention layers; the others are gated-delta
  PromptLen,
  Seed,         \* TQF_PREFILL_CHUNK
  MaxContext    \* tokens a KV cache holds

ASSUME PrefillAssumption ==
  /\ NumLayers \in Nat \ {0}
  /\ FullLayers \subseteq 1..NumLayers
  /\ PromptLen \in Nat \ {0}
  /\ Seed \in Nat \ {0}
  /\ MaxContext \in Nat
  /\ PromptLen < MaxContext    \* run_generation refuses a longer prompt

Layers == 1..NumLayers
Prompt == [t \in 1..PromptLen |-> t]

VARIABLES
  tail,         \* tokens each convolution tail has seen
  state,        \* tokens each recurrence or KV cache has seen
  decodeIndex,  \* decode_index
  base,         \* first token of the outer chunk
  size,         \* chunk_size
  at,           \* first token of the call of prefill_chunk
  phase,        \* where that call is
  layer,
  token,        \* the call's token within the layer
  outcome,      \* "running", "done", "failed"
  halved        \* a chunk of this prompt has been halved (to state properties)

prefillVars   == <<tail, state, decodeIndex, base, size, at, phase, layer, token, outcome, halved>>
fed    == <<tail, state, decodeIndex>>
chunk  == <<base, size, at, halved>>
cursor == <<phase, layer, token>>

SmallerOf(a, b) == IF a < b THEN a ELSE b

(* prompt[..len - 1].chunks(seed), then the final token on its own.        *)
ChunkEnd(b)  == IF b = PromptLen THEN b ELSE SmallerOf(b + Seed - 1, PromptLen - 1)
ChunkSize(b) == ChunkEnd(b) - b + 1

(* One past the last token of the current call.                            *)
CallEnd == SmallerOf(at + size, ChunkEnd(base) + 1)

PrefillInit ==
  /\ tail = [l \in Layers |-> <<>>]
  /\ state = [l \in Layers |-> <<>>]
  /\ decodeIndex = 0
  /\ base = 1 /\ size = ChunkSize(1) /\ at = 1
  /\ phase = "embed" /\ layer = 1 /\ token = 1
  /\ outcome = "running"
  /\ halved = FALSE
-----------------------------------------------------------------------------
(* The embedding rows of the call.                                         *)
Embed ==
  /\ outcome = "running" /\ phase = "embed"
  /\ phase' = "attend" /\ layer' = 1 /\ token' = at
  /\ UNCHANGED <<fed, chunk, outcome>>

(* run_gdn: the convolution tail moves on ...                              *)
AdvanceTail ==
  /\ outcome = "running" /\ phase = "attend" /\ layer \notin FullLayers
  /\ tail' = [tail EXCEPT ![layer] = Append(@, token)]
  /\ phase' = "recur"
  /\ UNCHANGED <<state, decodeIndex, chunk, layer, token, outcome>>

(* ... and later the recurrence; or the KV cache takes the token.          *)
AdvanceState ==
  /\ outcome = "running"
  /\ phase = "recur" \/ (phase = "attend" /\ layer \in FullLayers
                                          /\ Len(state[layer]) < MaxContext)
  /\ state' = [state EXCEPT ![layer] = Append(@, token)]
  /\ IF token + 1 = CallEnd
     THEN phase' = "moe" /\ UNCHANGED token
     ELSE phase' = "attend" /\ token' = token + 1
  /\ UNCHANGED <<tail, decodeIndex, chunk, layer, outcome>>

(* The experts of the whole call at this layer, then the next layer.       *)
NextLayer ==
  /\ outcome = "running" /\ phase = "moe" /\ layer < NumLayers
  /\ phase' = "attend" /\ layer' = layer + 1 /\ token' = at
  /\ UNCHANGED <<fed, chunk, outcome>>

BeginCall ==
  phase' = "embed" /\ layer' = 1 /\ token' = at'

(* The call returns: on to the rest of a halved chunk, to the next chunk,  *)
(* or, after the final token, done.                                        *)
Return ==
  /\ outcome = "running" /\ phase = "moe" /\ layer = NumLayers
  /\ decodeIndex' = decodeIndex + (CallEnd - at)
  /\ IF CallEnd <= ChunkEnd(base)
     THEN at' = CallEnd /\ BeginCall /\ UNCHANGED <<base, size, outcome>>
     ELSE IF base = PromptLen
     THEN outcome' = "done" /\ UNCHANGED <<base, size, at, cursor>>
     ELSE /\ base' = ChunkEnd(base) + 1
          /\ at' = base' /\ size' = ChunkSize(base')
          /\ BeginCall
          /\ UNCHANGED outcome
  /\ UNCHANGED <<tail, state, halved>>

(* Mutants: the retry goes on from the layer that failed; the smallest     *)
(* chunk is retried too.                                                   *)
HalveInPlace ==
  /\ outcome = "running" /\ at = base /\ size > 1
  /\ size' = size \div 2 /\ halved' = TRUE
  /\ phase' = "attend" /\ token' = at
  /\ UNCHANGED <<fed, base, at, layer, outcome>>

HalveForever ==
  /\ outcome = "running" /\ at = base
  /\ size' = IF size = 1 THEN 1 ELSE size \div 2
  /\ halved' = TRUE
  /\ phase' = "embed" /\ layer' = 1 /\ token' = at
  /\ UNCHANGED <<fed, base, at, outcome>>

(* A reservation is refused.  The first call of a chunk is repeated with   *)
(* half of it, from the first layer; what the layers have seen stays.      *)
Halve ==
  /\ outcome = "running" /\ at = base /\ size > 1
  /\ size' = size \div 2 /\ halved' = TRUE
  /\ phase' = "embed" /\ layer' = 1 /\ token' = at
  /\ UNCHANGED <<fed, base, at, outcome>>

(* Any other error, a full KV cache, or a refusal that is not retried.     *)
Fail ==
  /\ outcome = "running"
  /\ outcome' = "failed"
  /\ UNCHANGED <<fed, chunk, cursor>>

(* reset_session, before the next prompt.                                  *)
ResetSession ==
  /\ outcome # "running"
  /\ tail' = [l \in Layers |-> <<>>]
  /\ state' = [l \in Layers |-> <<>>]
  /\ decodeIndex' = 0
  /\ base' = 1 /\ size' = ChunkSize(1) /\ at' = 1
  /\ BeginCall
  /\ outcome' = "running"
  /\ halved' = FALSE

Feed == Embed \/ AdvanceTail \/ AdvanceState \/ NextLayer \/ Return \/ Halve \/ Fail
PrefillNext == Feed \/ ResetSession
PrefillSpec == PrefillInit /\ [][PrefillNext]_prefillVars
-----------------------------------------------------------------------------
(* How often t occurs in s, and where it occurs last (0: nowhere).         *)
Times(s, t)    == Cardinality({i \in DOMAIN s : s[i] = t})
LastSeen(s, t) == SelectLastInSeq(s, LAMBDA x : x = t)

(* The shape of the state; no KV cache is fuller than its lease.           *)
PrefillTypeOK ==
  /\ tail \in [Layers -> Seq(1..PromptLen)] /\ state \in [Layers -> Seq(1..PromptLen)]
  /\ \A l \in FullLayers : Len(state[l]) <= MaxContext /\ tail[l] = <<>>
  /\ decodeIndex \in 0..PromptLen
  /\ base \in 1..PromptLen /\ size \in 1..Seed /\ at \in 1..PromptLen
  /\ phase \in {"embed", "attend", "recur", "moe"}
  /\ layer \in Layers /\ token \in 1..PromptLen
  /\ outcome \in {"running", "done", "failed"} /\ halved \in BOOLEAN

(* Layer-outer order survives retries: a deeper layer never has seen more  *)
(* of the prompt than a shallower one.                                     *)
DeeperLayersLag ==
  \A l, m \in Layers : l < m => Len(state[l]) >= Len(state[m])

(* Whatever was halved or repeated, a prefill that succeeds has shown the  *)
(* whole prompt to every layer, has shown each token for the last time     *)
(* after the one before it, and has counted the prompt once.               *)
WholePromptReachesEveryLayer ==
  outcome = "done" =>
    /\ decodeIndex = PromptLen
    /\ \A l \in Layers : LET s == state[l] IN
         /\ LastSeen(s, 1) > 0 /\ Last(s) = PromptLen
         /\ \A t \in 2..PromptLen : LastSeen(s, t - 1) < LastSeen(s, t)

(* "the result is identical to the per-token loop" (runtime.rs:255-258),   *)
(* as long as no chunk had to be halved: every layer has then seen a       *)
(* prefix of the prompt, and its tail is at most one token ahead.          *)
UnhalvedIsPerToken ==
  ~halved =>
    \A l \in Layers :
       /\ IsPrefix(state[l], Prompt)
       /\ l \notin FullLayers => /\ IsPrefix(tail[l], Prompt)
                                 /\ Len(tail[l]) \in {Len(state[l]), Len(state[l]) + 1}

(* 2^k, as far as it matters.                                              *)
Doublings[k \in 0..Seed] == IF k = 0 THEN 1 ELSE 2 * Doublings[k - 1]

(* Halving is logarithmic: a layer sees a token at most once for each      *)
(* halving of its chunk and once more.                                     *)
SeenFewTimes(l, t) ==
  \E k \in 0..Seed : Doublings[k] <= Seed /\ Times(state[l], t) <= k + 1
RepeatsAreLogarithmic == \A l \in Layers, t \in 1..PromptLen : SeenFewTimes(l, t)

(* A prefill: whatever chunks are halved, a layer never runs ahead of the  *)
(* one below it, every layer gets every token of the prompt, and the       *)
(* tokens that are run again are few (runtime.rs:209-420).                 *)
PrefillIsSound ==
  /\ PrefillTypeOK /\ DeeperLayersLag /\ WholePromptReachesEveryLayer
  /\ UnhalvedIsPerToken /\ RepeatsAreLogarithmic

(* The inductive invariant.  What layer l has seen of the current call,    *)
(* and the last token that it has seen in the right order:                 *)
Taken(l) ==
  IF phase = "embed" \/ l > layer THEN 0
  ELSE IF l < layer \/ phase = "moe" THEN CallEnd - at ELSE token - at
Covered(l) == at + Taken(l) - 1

(* where a call and a token of it stand;                                   *)
CallInChunk ==
  /\ at \in base..ChunkEnd(base) /\ size <= ChunkSize(base)
  /\ phase \in {"attend", "recur"} => token \in at..(CallEnd - 1)
  /\ phase = "recur" => layer \notin FullLayers
  /\ outcome = "done" => base = PromptLen /\ phase = "moe" /\ layer = NumLayers
  /\ decodeIndex = IF outcome = "done" THEN PromptLen ELSE at - 1

(* what a layer had seen before the call is at least what the next one had *)
(* seen;                                                                   *)
LaggedBefore ==
  \A l, m \in Layers : l < m => Len(state[l]) + Taken(m) >= Len(state[m]) + Taken(l)

(* the order of what is covered, and where it ends;                        *)
CoveredInOrder ==
  \A l \in Layers :
    /\ Taken(l) > 0 => state[l] # <<>> /\ Last(state[l]) = Covered(l)
    /\ \A t \in 1..Covered(l) : LastSeen(state[l], t) > 0
    /\ \A t \in 2..Covered(l) : LastSeen(state[l], t - 1) < LastSeen(state[l], t)

(* without a halving, what is covered is all there is;                     *)
OnlyCovered ==
  ~halved =>
    \A l \in Layers :
      /\ state[l] = [t \in 1..Covered(l) |-> t]
      /\ l \notin FullLayers =>
           tail[l] = [t \in 1..(Covered(l) + IF phase = "recur" /\ l = layer THEN 1 ELSE 0) |-> t]

(* and how often a token was seen, where the chunk was halved k times.     *)
HalvingsCounted ==
  \E k \in 0..Seed :
    /\ k < Doublings[k] /\ Doublings[k] * size <= Seed
    /\ \A l \in Layers, t \in 1..PromptLen :
         IF t < base THEN SeenFewTimes(l, t)
         ELSE /\ Times(state[l], t) <= k + (IF t <= Covered(l) THEN 1 ELSE 0)
              /\ t > ChunkEnd(base) => Times(state[l], t) = 0

PrefillIInv ==
  /\ PrefillTypeOK /\ CallInChunk
  /\ LaggedBefore /\ CoveredInOrder /\ OnlyCovered /\ HalvingsCounted

(* The same sentence without the reservation: "the result is identical to  *)
(* the per-token loop ... The chunk size auto-halves when the broker       *)
(* cannot reserve chunk scratch" (runtime.rs:255-262).                     *)
PromptFedOnce == outcome = "done" => \A l \in Layers : state[l] = Prompt
=============================================================================
