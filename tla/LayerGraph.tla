----------------------------- MODULE LayerGraph -----------------------------
(***************************************************************************)
(* src/src/model/qwen36/weights.rs and runtime.rs: which container is the  *)
(* fixed graph's, and the way of one token through that graph in its       *)
(* resident, its streaming and its bounded form.  A tensor is its extent:  *)
(* role, type, dimensions {columns, rows, ...} and stored bytes; an        *)
(* activation is its length, Fail what an operation refuses; the numbers   *)
(* are in DeltaNet, Attention and Moe.  Reservations all succeed here.     *)
(*                                                                         *)
(* The sizes are those of geometry.rs; the layers repeat with period four, *)
(* so that Layers, a subset of 0..39 with layer 0, may be small.           *)
(***************************************************************************)
EXTENDS Integers, Sequences, FiniteSets, SequencesExt

CONSTANTS Layers

Vocab        == 248320
HiddenSize   == 2048
AttnHeads    == 16
AttnKvHeads  == 2
AttnHeadDim  == 256
KeyDim       == 16 * 128
ValueHeads   == 32
ValueHeadDim == 128
ValueDim     == ValueHeads * ValueHeadDim
ConvChannels == 8192
ConvWidth    == 4
NumExperts   == 256
TopK         == 8
ExpertWidth  == 512
SharedWidth  == 512

Fail   == -1
Global == -1        \* the layer of a tensor that has none

IsFull(layer) == (layer + 1) % 4 = 0
-----------------------------------------------------------------------------
(* GgmlType: elements and bytes of a block, and the types of the wire.     *)
BlockSize(t) ==
  CASE t \in {"F32", "F16", "BF16", "I8", "I16", "I32", "I64", "F64"} -> 1
    [] t \in {"Q4_0", "Q4_1", "Q5_0", "Q5_1", "Q8_0", "Q8_1"} -> 32
    [] t \in {"Q2K", "Q3K", "Q4K", "Q5K", "Q6K", "Q8K"} -> 256

BlockBytes(t) ==
  CASE t = "I8" -> 1 [] t \in {"F16", "BF16", "I16"} -> 2 [] t \in {"F32", "I32"} -> 4
    [] t \in {"F64", "I64"} -> 8 [] t = "Q4_0" -> 18 [] t = "Q4_1" -> 20 [] t = "Q5_0" -> 22
    [] t = "Q5_1" -> 24 [] t = "Q8_0" -> 34 [] t = "Q8_1" -> 40 [] t = "Q2K" -> 84
    [] t = "Q3K" -> 110 [] t = "Q4K" -> 144 [] t = "Q5K" -> 176 [] t = "Q6K" -> 210
    [] t = "Q8K" -> 292

ByteSize(t, n) == ((n + BlockSize(t) - 1) \div BlockSize(t)) * BlockBytes(t)

WireIds == <<"F32", "F16", "Q4_0", "Q4_1", "", "", "Q5_0", "Q5_1", "Q8_0", "Q8_1", "Q2K", "Q3K",
             "Q4K", "Q5K", "Q6K", "Q8K", "", "", "", "", "", "", "", "", "I8", "I16", "I32", "I64",
             "F64", "", "BF16">>
FromGgmlId(id) == IF id + 1 \in DOMAIN WireIds THEN WireIds[id + 1] ELSE ""
GgmlId(t)      == (CHOOSE i \in DOMAIN WireIds : WireIds[i] = t) - 1
AllTypes       == ToSet(WireIds) \ {""}

(* The layouts a container stores: decode_values and matvec know these.    *)
QuantLayoutId(t) ==
  CASE t = "Q4_0" -> 1 [] t = "Q4K" -> 2 [] t = "Q8_0" -> 3 [] t = "F32" -> 4 [] t = "F16" -> 5
    [] t = "BF16" -> 6 [] t = "Q6K" -> 7 [] OTHER -> Fail
TypeOfLayout(id) ==
  CASE id = 1 -> "Q4_0" [] id = 2 -> "Q4K" [] id = 3 -> "Q8_0" [] id = 4 -> "F32" [] id = 5 -> "F16"
    [] id = 6 -> "BF16" [] id = 7 -> "Q6K" [] OTHER -> ""
Stored == {t \in AllTypes : QuantLayoutId(t) # Fail}
-----------------------------------------------------------------------------
GlobalRoles == {"TokenEmbedding", "FinalNorm", "LmHead"}
CommonRoles == {"AttnNorm", "FfnNorm", "RouterGate", "SharedExpertInputGate", "SharedExpertGate",
                "SharedExpertUp", "SharedExpertDown"}
FullRoles   == {"AttnQProj", "AttnKProj", "AttnVProj", "AttnOProj", "AttnQNorm", "AttnKNorm"}
GdnRoles    == {"GdnInProjQkv", "GdnInProjZ", "GdnInProjA", "GdnInProjB", "GdnConv1d", "GdnALog",
                "GdnDtBias", "GdnGatedNorm", "GdnOutProj"}
RoutedRoles == {"RoutedExpertGate", "RoutedExpertUp", "RoutedExpertDown"}
Roles       == GlobalRoles \cup CommonRoles \cup FullRoles \cup GdnRoles \cup RoutedRoles

ExpectedElements(role) ==
  CASE role \in {"TokenEmbedding", "LmHead"} -> Vocab * HiddenSize
    [] role \in {"FinalNorm", "AttnNorm", "FfnNorm", "SharedExpertInputGate"} -> HiddenSize
    [] role = "AttnQProj" -> HiddenSize * AttnHeads * AttnHeadDim * 2
    [] role \in {"AttnKProj", "AttnVProj"} -> HiddenSize * AttnKvHeads * AttnHeadDim
    [] role = "AttnOProj" -> HiddenSize * AttnHeads * AttnHeadDim
    [] role \in {"AttnQNorm", "AttnKNorm"} -> AttnHeadDim
    [] role = "GdnInProjQkv" -> HiddenSize * ConvChannels
    [] role = "GdnInProjZ" -> HiddenSize * ValueDim
    [] role \in {"GdnInProjA", "GdnInProjB"} -> KeyDim * ValueHeads
    [] role = "GdnConv1d" -> ConvChannels * ConvWidth
    [] role \in {"GdnALog", "GdnDtBias"} -> ValueHeads
    [] role = "GdnGatedNorm" -> ValueHeadDim
    [] role = "GdnOutProj" -> ValueDim * HiddenSize
    [] role = "RouterGate" -> HiddenSize * NumExperts
    [] role \in {"SharedExpertGate", "SharedExpertUp", "SharedExpertDown"} -> HiddenSize * SharedWidth
    [] role \in RoutedRoles -> HiddenSize * ExpertWidth * NumExperts

ExpectedShape(role) ==
  CASE role \in {"TokenEmbedding", "LmHead"} -> <<2048, 248320>>
    [] role \in {"FinalNorm", "AttnNorm", "FfnNorm", "SharedExpertInputGate"} -> <<2048>>
    [] role \in {"AttnQProj", "GdnInProjQkv"} -> <<2048, 8192>>
    [] role \in {"AttnKProj", "AttnVProj"} -> <<2048, 512>>
    [] role \in {"AttnOProj", "GdnOutProj"} -> <<4096, 2048>>
    [] role \in {"AttnQNorm", "AttnKNorm"} -> <<256>>
    [] role = "GdnInProjZ" -> <<2048, 4096>>
    [] role \in {"GdnInProjA", "GdnInProjB"} -> <<2048, 32>>
    [] role = "GdnConv1d" -> <<4, 8192>>
    [] role \in {"GdnALog", "GdnDtBias"} -> <<32>>
    [] role = "GdnGatedNorm" -> <<128>>
    [] role = "RouterGate" -> <<2048, 256>>
    [] role \in {"SharedExpertGate", "SharedExpertUp"} -> <<2048, 512>>
    [] role = "SharedExpertDown" -> <<512, 2048>>
    [] role \in {"RoutedExpertGate", "RoutedExpertUp"} -> <<2048, 512, 256>>
    [] role = "RoutedExpertDown" -> <<512, 2048, 256>>

Product(dims) == FoldLeft(LAMBDA n, d : n * d, 1, dims)
-----------------------------------------------------------------------------
(* A container: its tensors by role and layer, and its expert index.  Two  *)
(* tiles that cover an expert's gate and up, and its down, are canonical.  *)
PlaneBytes  == ByteSize("Q4K", HiddenSize * ExpertWidth)
Tile(matrix, offset, bytes) ==
  [matrix |-> matrix, offset |-> offset, bytes |-> bytes, layout |-> QuantLayoutId("Q4K")]
CanonicalExpert ==
  [layout |-> QuantLayoutId("Q4K"), bytes |-> 3 * PlaneBytes,
   tiles |-> <<Tile("GateUp", 0, 2 * PlaneBytes), Tile("Down", 2 * PlaneBytes, PlaneBytes)>>]

Has(c, role, layer) == <<role, layer>> \in DOMAIN c.tensors
Tensor(c, role, layer) == c.tensors[<<role, layer>>]

(* require_elements and require_shape: the extent's counts, not its type.  *)
RequireElements(c, role, layer) ==
  Has(c, role, layer) /\ Tensor(c, role, layer).elements = ExpectedElements(role)

RequireShape(c, role, layer) ==
  Has(c, role, layer) /\ Tensor(c, role, layer).dims = ExpectedShape(role)

(* Mutant: a transposed matrix has as many elements.                       *)
RequireEachByElements(c, layer, roles) == \A role \in roles : RequireElements(c, role, layer)

RequireEach(c, layer, roles) ==
  \A role \in roles : RequireElements(c, role, layer) /\ RequireShape(c, role, layer)

RequireRoutedExperts(c, layer) ==
  IF \A role \in RoutedRoles : Has(c, role, layer) THEN RequireEach(c, layer, RoutedRoles)
  ELSE \A e \in 0..NumExperts - 1 :
         <<layer, e>> \in DOMAIN c.experts /\ c.experts[<<layer, e>>] = CanonicalExpert

ValidateTopology(c) ==
  /\ RequireEach(c, Global, GlobalRoles)
  /\ \A layer \in Layers :
       /\ RequireEach(c, layer, CommonRoles)
       /\ RequireRoutedExperts(c, layer)
       /\ RequireEach(c, layer, IF IsFull(layer) THEN FullRoles ELSE GdnRoles)

UsesExpertSuperextents(c) ==
  ~Has(c, "RoutedExpertGate", 0) /\ <<0, 0>> \in DOMAIN c.experts
-----------------------------------------------------------------------------
(* Activations.  What is given a Fail fails.                               *)
ResidualAdd(left, right)  == IF left # Fail /\ left = right THEN left ELSE Fail
RmsNorm(input, weight)    == IF input # Fail /\ input = weight THEN input ELSE Fail
SiluMul(gate, up)         == IF gate # Fail /\ gate = up THEN gate ELSE Fail
AddScaled(target, source) == IF target # Fail /\ target = source THEN target ELSE Fail

DecodeValues(t, bytes, elements) ==
  IF bytes # ByteSize(t, elements) \/ t \notin Stored THEN Fail
  ELSE IF (bytes \div BlockBytes(t)) * BlockSize(t) = elements THEN elements ELSE Fail

(* The rows of a matrix times an input: whole blocks per row.              *)
MatvecPayload(t, bytes, rows, cols, input) ==
  IF /\ input = cols /\ bytes = ByteSize(t, rows * cols)
     /\ cols % BlockSize(t) = 0 /\ t \in Stored
  THEN rows ELSE Fail

AsVector(x) == IF Len(x.dims) # 1 THEN Fail ELSE DecodeValues(x.dtype, x.bytes, x.dims[1])
DotOf(x, input) == IF Len(x.dims) # 1 THEN Fail ELSE MatvecPayload(x.dtype, x.bytes, 1, x.dims[1], input)
Conv1dWeights(x) ==
  IF x.role # "GdnConv1d" \/ x.dims # ExpectedShape("GdnConv1d") THEN Fail
  ELSE DecodeValues(x.dtype, x.bytes, ExpectedElements("GdnConv1d"))

Row(x, row) ==
  IF Len(x.dims) # 2 THEN Fail
  ELSE LET n == ByteSize(x.dtype, x.dims[1])
       IN  IF row >= x.dims[2] \/ (row + 1) * n > x.bytes THEN Fail
           ELSE DecodeValues(x.dtype, n, x.dims[1])

Matvec(x, input) ==
  IF Len(x.dims) # 2 THEN Fail ELSE MatvecPayload(x.dtype, x.bytes, x.dims[2], x.dims[1], input)

MatvecExpert(x, expert, input) ==
  IF Len(x.dims) # 3 THEN Fail
  ELSE LET n == ByteSize(x.dtype, x.dims[1] * x.dims[2])
       IN  IF expert >= x.dims[3] \/ (expert + 1) * n > x.bytes THEN Fail
           ELSE MatvecPayload(x.dtype, n, x.dims[2], x.dims[1], input)

(* LoadedQwen36Expert::forward over a superextent of `bytes`.              *)
ExpertForward(bytes, input) ==
  IF bytes < 3 * PlaneBytes THEN Fail
  ELSE LET gate == MatvecPayload("Q4K", PlaneBytes, ExpertWidth, HiddenSize, input)
           up   == MatvecPayload("Q4K", PlaneBytes, ExpertWidth, HiddenSize, input)
       IN  MatvecPayload("Q4K", PlaneBytes, HiddenSize, ExpertWidth, SiluMul(gate, up))

(* load_expert: any tiles that partition gate and up, and then down.       *)
RECURSIVE Covers(_, _, _)
Covers(tiles, from, to) ==
  IF tiles = <<>> THEN from = to
  ELSE Head(tiles).bytes > 0 /\ Head(tiles).offset = from
       /\ Covers(Tail(tiles), from + Head(tiles).bytes, to)
ClassifiesAsPartition(tiles) ==
  LET first == SelectSeq(tiles, LAMBDA t : t.matrix = "GateUp")
      down  == SelectSeq(tiles, LAMBDA t : t.matrix = "Down")
  IN  /\ tiles # <<>> /\ Covers(tiles, 0, 3 * PlaneBytes)
      /\ \A t \in ToSet(first) : t.offset + t.bytes <= 2 * PlaneBytes
      /\ \A t \in ToSet(down) : t.offset >= 2 * PlaneBytes

LoadExpert(c, layer, e) ==
  IF <<layer, e>> \notin DOMAIN c.experts THEN Fail
  ELSE LET x == c.experts[<<layer, e>>]
       IN  IF /\ x.layout = QuantLayoutId("Q4K") /\ TypeOfLayout(x.layout) = "Q4K"
              /\ x.bytes = 3 * PlaneBytes
              /\ \A t \in ToSet(x.tiles) : t.layout = QuantLayoutId("Q4K")
              /\ ClassifiesAsPartition(x.tiles)
           THEN x.bytes ELSE Fail

-----------------------------------------------------------------------------
(* gdn.rs on lengths: the convolution, the norm of q and k, the recurrence *)
(* and the gated norm each check what they are given.                      *)
ConvStep(qkv, weights) ==
  IF qkv = ConvChannels /\ weights = ConvChannels * ConvWidth THEN ConvChannels ELSE Fail
QkNorm(q, k) == IF q = KeyDim /\ k = KeyDim THEN KeyDim ELSE Fail
Recurrence(q, v, alpha, beta, a, dt) ==
  IF q = KeyDim /\ v = ValueDim /\ {alpha, beta, a, dt} = {ValueHeads} THEN ValueDim ELSE Fail
GatedNorm(y, z, weight) ==
  IF y = ValueDim /\ z = ValueDim /\ weight = ValueHeadDim THEN ValueDim ELSE Fail

(* attention.rs on lengths.                                                *)
SplitQueryGate(projected) ==
  IF projected = AttnHeads * AttnHeadDim * 2 THEN AttnHeads * AttnHeadDim ELSE Fail
Attend(query, key, value, qNorm, kNorm) ==
  IF /\ query = AttnHeads * AttnHeadDim /\ {key, value} = {AttnKvHeads * AttnHeadDim}
     /\ {qNorm, kNorm} = {AttnHeadDim}
  THEN query ELSE Fail

(* run_gdn over loaded weights: q and k are the first two KeyDim of the    *)
(* convolved channels, v the rest.                                         *)
RunGdn(w, input) ==
  LET convolved == ConvStep(Matvec(w["GdnInProjQkv"], input), Conv1dWeights(w["GdnConv1d"]))
      v   == IF convolved < 2 * KeyDim THEN Fail ELSE convolved - 2 * KeyDim
      rec == Recurrence(QkNorm(KeyDim, KeyDim), v, Matvec(w["GdnInProjA"], input),
               Matvec(w["GdnInProjB"], input), AsVector(w["GdnALog"]), AsVector(w["GdnDtBias"]))
  IN  Matvec(w["GdnOutProj"],
             GatedNorm(rec, Matvec(w["GdnInProjZ"], input), AsVector(w["GdnGatedNorm"])))

RunFullAttention(w, input) ==
  LET query == SplitQueryGate(Matvec(w["AttnQProj"], input))
  IN  Matvec(w["AttnOProj"],
             Attend(query, Matvec(w["AttnKProj"], input), Matvec(w["AttnVProj"], input),
                    AsVector(w["AttnQNorm"]), AsVector(w["AttnKNorm"])))

(* bounded_gdn and bounded_full: each tensor is loaded where it is used.   *)
BoundedGdn(c, id, input) ==
  LET load(role) == Tensor(c, role, id)
      qkv == Matvec(load("GdnInProjQkv"), input)
      convolved == ConvStep(qkv, Conv1dWeights(load("GdnConv1d")))
      q == QkNorm(KeyDim, KeyDim)
      z == Matvec(load("GdnInProjZ"), input)
      recurrent == Recurrence(q, convolved - 2 * KeyDim, Matvec(load("GdnInProjA"), input),
                     Matvec(load("GdnInProjB"), input), AsVector(load("GdnALog")),
                     AsVector(load("GdnDtBias")))
      gated == GatedNorm(recurrent, z, AsVector(load("GdnGatedNorm")))
  IN  IF convolved = Fail THEN Fail ELSE Matvec(load("GdnOutProj"), gated)

BoundedFull(c, id, input) ==
  LET load(role) == Tensor(c, role, id)
      query == SplitQueryGate(Matvec(load("AttnQProj"), input))
      key   == Matvec(load("AttnKProj"), input)
      value == Matvec(load("AttnVProj"), input)
      attended == Attend(query, key, value, AsVector(load("AttnQNorm")), AsVector(load("AttnKNorm")))
  IN  Matvec(load("AttnOProj"), attended)
-----------------------------------------------------------------------------
(* The mixture of experts: the same shared expert, and the routed experts  *)
(* of a route, which may name any of them.                                 *)
Routes(logits) == logits = NumExperts

Shared(w, input) ==
  LET out == Matvec(w["SharedExpertDown"],
               SiluMul(Matvec(w["SharedExpertGate"], input), Matvec(w["SharedExpertUp"], input)))
  IN  IF DotOf(w["SharedExpertInputGate"], input) = Fail THEN Fail ELSE out

ResidentMoe(w, input) ==
  LET routed(e) == MatvecExpert(w["RoutedExpertDown"], e,
                     SiluMul(MatvecExpert(w["RoutedExpertGate"], e, input),
                             MatvecExpert(w["RoutedExpertUp"], e, input)))
      shared == Shared(w, input)
  IN  IF /\ input = HiddenSize /\ Routes(Matvec(w["RouterGate"], input))
         /\ \A e \in 0..NumExperts - 1 : AddScaled(shared, routed(e)) # Fail
      THEN shared ELSE Fail

StreamingMoe(c, layer, w, input) ==
  LET shared == Shared(w, input)
  IN  IF /\ input = HiddenSize /\ Routes(Matvec(w["RouterGate"], input))
         /\ \A e \in 0..NumExperts - 1 :
              AddScaled(shared, ExpertForward(LoadExpert(c, layer, e), input)) # Fail
      THEN shared ELSE Fail

MoeRoles == {"RouterGate", "SharedExpertInputGate", "SharedExpertGate", "SharedExpertUp",
             "SharedExpertDown"}
AttentionRoles(layer) == IF IsFull(layer) THEN FullRoles ELSE GdnRoles

(* Qwen36ResidentMoe::open and Qwen36StreamingMoe::open.                   *)
Loaded(c, layer, roles) == [role \in roles |-> Tensor(c, role, layer)]
OpenResidentMoe(c, layer)  == Loaded(c, layer, MoeRoles \cup RoutedRoles)
OpenStreamingMoe(c, layer) == Loaded(c, layer, MoeRoles)
-----------------------------------------------------------------------------
(* Qwen36Layer::forward.                                                   *)
LayerForward(c, layer, moe, input) ==
  LET w == Loaded(c, layer, AttentionRoles(layer))
      normalized == RmsNorm(input, AsVector(Tensor(c, "AttnNorm", layer)))
      attended   == IF IsFull(layer) THEN RunFullAttention(w, normalized) ELSE RunGdn(w, normalized)
      after      == ResidualAdd(input, attended)
      ffn        == RmsNorm(after, AsVector(Tensor(c, "FfnNorm", layer)))
      mixed      == IF "RoutedExpertGate" \in DOMAIN moe THEN ResidentMoe(moe, ffn)
                    ELSE StreamingMoe(c, layer, moe, ffn)
  IN  ResidualAdd(after, mixed)

BoundedLayerForward(c, layer, input) ==
  LET normalized == RmsNorm(input, AsVector(Tensor(c, "AttnNorm", layer)))
      attended   == IF IsFull(layer) THEN BoundedFull(c, layer, normalized)
                    ELSE BoundedGdn(c, layer, normalized)
      after      == ResidualAdd(input, attended)
      ffn        == RmsNorm(after, AsVector(Tensor(c, "FfnNorm", layer)))
  IN  ResidualAdd(after, StreamingMoe(c, layer, OpenStreamingMoe(c, layer), ffn))

InOrder == SetToSortSeq(Layers, <)

(* open_resident and open_streaming: every tensor of the form is loaded,   *)
(* and a missing one is an error; then decode_step.                        *)
OpenResident(c) ==
  /\ ValidateTopology(c)
  /\ \A layer \in Layers, role \in RoutedRoles : Has(c, role, layer)
OpenStreaming(c) == ValidateTopology(c) /\ UsesExpertSuperextents(c)

DecodeStep(c, moe, token) ==
  LET hidden == FoldLeft(LAMBDA h, layer : LayerForward(c, layer, moe[layer], h),
                         Row(Tensor(c, "TokenEmbedding", Global), token), InOrder)
  IN  IF token >= Vocab THEN Fail
      ELSE Matvec(Tensor(c, "LmHead", Global),
                  RmsNorm(hidden, AsVector(Tensor(c, "FinalNorm", Global))))

BoundedDecodeStep(c, token) ==
  LET hidden == FoldLeft(LAMBDA h, layer : BoundedLayerForward(c, layer, h),
                         Row(Tensor(c, "TokenEmbedding", Global), token), InOrder)
  IN  IF token >= Vocab THEN Fail
      ELSE Matvec(Tensor(c, "LmHead", Global),
                  RmsNorm(hidden, AsVector(Tensor(c, "FinalNorm", Global))))

(* Qwen36BoundedReferenceRuntime::open: how much of the bytes that are     *)
(* left the expert cache may take.                                         *)
Least(a, b)      == IF a < b THEN a ELSE b
Greatest(a, b)   == IF a > b THEN a ELSE b
TransientSlack   == 64 * 1024 * 1024
Headroom(c) ==
  Greatest(Tensor(c, "TokenEmbedding", Global).bytes, Tensor(c, "LmHead", Global).bytes) + TransientSlack
BoundedOpen(c, asked, available) ==
  LET capacity == Least(asked, Greatest(available - Headroom(c), 0))
  IN  IF ~OpenStreaming(c) \/ capacity < c.experts[<<0, 0>>].bytes THEN Fail ELSE capacity
-----------------------------------------------------------------------------
(* A container a conversion could have written (a row is whole blocks) and *)
(* that the manifest accepts runs in the form it was converted for, for    *)
(* the first and for the last token, to one logit per token.               *)
(* (weights.rs:1198-1309, runtime.rs:382-1096)                             *)
AcceptedGraphRuns(c) ==
  LET rowsAreBlocks == \A x \in DOMAIN c.tensors :
                         c.tensors[x].dims[1] % BlockSize(c.tensors[x].dtype) = 0
  IN  ValidateTopology(c) /\ rowsAreBlocks =>
        /\ OpenResident(c) \/ OpenStreaming(c)
        /\ \A token \in {0, Vocab - 1} :
             /\ OpenResident(c) => DecodeStep(c, [l \in Layers |-> OpenResidentMoe(c, l)], token) = Vocab
             /\ OpenStreaming(c) =>
                  /\ DecodeStep(c, [l \in Layers |-> OpenStreamingMoe(c, l)], token) = Vocab
                  /\ BoundedDecodeStep(c, token) = Vocab

(* The tables this acceptance rests on agree with each other: the count of *)
(* a role's elements with its shape, the ids a type is written under with  *)
(* those it is read under (weights.rs:20-83, quant/mod.rs:48-155,          *)
(* repack.rs:38-65).                                                       *)
TablesAgree ==
  /\ \A role \in Roles : Product(ExpectedShape(role)) = ExpectedElements(role)
  /\ \A t \in AllTypes : FromGgmlId(GgmlId(t)) = t
  /\ \A t \in Stored : TypeOfLayout(QuantLayoutId(t)) = t

(* The doc of load_expert (weights.rs:1399-1405) and the importer          *)
(* (importer.rs:30-35): a container with any tiles that cover its experts  *)
(* is read by the whole-expert path, so the manifest takes it.             *)
TiledContainerOpens(c) ==
  /\ \A x \in DOMAIN c.experts : LoadExpert(c, x[1], x[2]) # Fail
  /\ ValidateTopology([c EXCEPT !.experts = [x \in DOMAIN c.experts |-> CanonicalExpert]])
  => ValidateTopology(c)

(* Whatever the bounded runtime's expert cache fills, each core tensor of  *)
(* the graph still fits beside it with the slack, and the cache holds an   *)
(* expert (runtime.rs:504-530).                                            *)
CacheLeavesHeadroom(c) ==
  OpenStreaming(c) =>
    \A asked, available \in {0, 3 * PlaneBytes, Headroom(c) - 1, Headroom(c) + 3 * PlaneBytes - 1,
                             Headroom(c) + 3 * PlaneBytes, Headroom(c) + 9 * PlaneBytes} :
      LET capacity == BoundedOpen(c, asked, available) IN
      IF capacity = Fail
      THEN asked < 3 * PlaneBytes \/ available < Headroom(c) + 3 * PlaneBytes
      ELSE /\ 3 * PlaneBytes <= capacity /\ capacity <= asked
           /\ \A x \in DOMAIN c.tensors : capacity + c.tensors[x].bytes + TransientSlack <= available
=============================================================================
