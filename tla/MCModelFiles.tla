---------------------------- MODULE MCModelFiles ----------------------------
(* Two chunks and two items, two calls cut off.  Plans of up to three      *)
(* items: extents of two sections and alignments, whole and tiled experts. *)
(* Graphs of a gated-delta and a full-attention layer with all their       *)
(* experts, in the resident and the streaming form, and either with one    *)
(* tensor missing, transposed, of another type or of another size.         *)
EXTENDS ModelFiles

MCLayers == {0, 3}

MCGateUp == [row1 |-> 1, row2 |-> 2, col2 |-> 2]
MCDown == [row1 |-> 2, row2 |-> 2, col2 |-> 2]
Data(i, n) == [j \in 1..n |-> <<"data", i, j>>]
Extent(i, section, align) ==
  [kind |-> "extent", name |-> <<"w", i>>, role |-> i, layer |-> 0, section |-> section,
   align |-> align, data |-> Data(i, 1)]
Expert(i, width, g, u, d) ==
  [kind |-> "expert", layer |-> 0, expert |-> i, width |-> width,
   gate |-> Data(i, g), up |-> Data(i + 10, u), down |-> Data(i + 20, d)]
Items(i) ==
  {Extent(i, 4, 1), Extent(i, 5, 2), Expert(i, "whole", 1, 1, 1), Expert(i, "row2", 2, 2, 2),
   Expert(i, "row2", 3, 0, 2), Expert(i, "row1", 2, 2, 2)}
Plans ==
  {<<>>} \cup {<<a>> : a \in Items(1)} \cup {<<a, b>> : a \in Items(1), b \in Items(2)}
  \cup {<<a, b, Expert(3, "row2", 2, 2, 2)>> : a \in Items(1), b \in Items(2)}

Tensor(role, type, dims) ==
  [role |-> role, dtype |-> type, dims |-> dims, elements |-> Graph!Product(dims),
   bytes |-> Graph!ByteSize(type, Graph!Product(dims))]
Exact == {"FinalNorm", "AttnNorm", "FfnNorm", "AttnQNorm", "AttnKNorm", "GdnConv1d", "GdnALog",
          "GdnDtBias", "GdnGatedNorm", "SharedExpertInputGate", "GdnInProjA", "GdnInProjB",
          "RouterGate"}
TypeOf(role) == IF role \in Exact THEN "F32" ELSE IF role = "LmHead" THEN "Q6K" ELSE "Q4K"
Tensors(keys) == [k \in keys |-> Tensor(k[1], TypeOf(k[1]), Graph!ExpectedShape(k[1]))]
Resident ==
  [tensors |-> Tensors(CoreKeys \cup RoutedKeys), experts |-> <<>>]
Streaming ==
  [tensors |-> Tensors(CoreKeys),
   experts |-> [k \in MCLayers \X (0..Graph!NumExperts - 1) |-> Graph!CanonicalExpert]]
Without(f, k) == [x \in DOMAIN f \ {k} |-> f[x]]
Altered(c) ==
  {c} \cup UNION {
    {[c EXCEPT !.tensors = Without(@, k)],
     [c EXCEPT !.tensors[k] = Tensor(k[1], @.dtype, Reverse(@.dims))],
     [c EXCEPT !.tensors[k] = Tensor(k[1], "F32", @.dims)],
     [c EXCEPT !.tensors[k] = Tensor(k[1], "Q8_0", @.dims)],
     [c EXCEPT !.tensors[k] = Tensor(k[1], @.dtype, [@.dims EXCEPT ![1] = @ * 2])]} :
    k \in DOMAIN c.tensors}
(* The gate and up projections of one expert in two tiles.                 *)
Tiled ==
  [Streaming EXCEPT !.experts[<<0, 0>>].tiles =
     <<Graph!Tile("GateUp", 0, Graph!PlaneBytes),
       Graph!Tile("GateUp", Graph!PlaneBytes, Graph!PlaneBytes),
       Graph!Tile("Down", 2 * Graph!PlaneBytes, Graph!PlaneBytes)>>]
OddExperts ==
  {Tiled, [Streaming EXCEPT !.experts = Without(@, <<3, 17>>)],
   [Streaming EXCEPT !.experts[<<3, 200>>].tiles = Reverse(@)]}

-----------------------------------------------------------------------------
(* Checkpoints: types by their ids, 0 exact, 12 that of routed experts, 14 *)
(* another that is stored and 3 one that is not.                           *)
MCBlock == [t \in {0, 3, 12, 14} |->
  CASE t = 0  -> [elements |-> 1, cells |-> 1, layout |-> TRUE, routed |-> FALSE]
    [] t = 3  -> [elements |-> 2, cells |-> 1, layout |-> FALSE, routed |-> FALSE]
    [] t = 12 -> [elements |-> 2, cells |-> 1, layout |-> TRUE, routed |-> TRUE]
    [] t = 14 -> [elements |-> 2, cells |-> 3, layout |-> TRUE, routed |-> FALSE]]
MCRoutedDims == [role \in Graph!RoutedRoles |->
  IF role = "RoutedExpertDown" THEN <<4, 2, 2>> ELSE <<2, 4, 2>>]

InBlock(layer, parts) == Source!Words(<<"blk">>) \o <<Source!Number(layer)>> \o Source!Words(parts)
Named(layer, role) ==
  LET in(parts) == InBlock(layer, parts) IN
  CASE role = "TokenEmbedding" -> Source!Words(<<"token", "embd", "weight">>)
    [] role = "FinalNorm" -> Source!Words(<<"output", "norm", "weight">>)
    [] role = "LmHead" -> Source!Words(<<"output", "weight">>)
    [] role = "AttnNorm" -> in(<<"attn", "norm", "weight">>)
    [] role = "FfnNorm" -> in(<<"post", "attention", "norm", "weight">>)
    [] role = "RouterGate" -> in(<<"ffn", "gate", "inp", "weight">>)
    [] role = "SharedExpertInputGate" -> in(<<"ffn", "gate", "inp", "shexp", "weight">>)
    [] role = "SharedExpertGate" -> in(<<"ffn", "gate", "shexp", "weight">>)
    [] role = "SharedExpertUp" -> in(<<"ffn", "up", "shexp", "weight">>)
    [] role = "SharedExpertDown" -> in(<<"ffn", "down", "shexp", "weight">>)
    [] role = "RoutedExpertGate" -> in(<<"ffn", "gate", "exps", "weight">>)
    [] role = "RoutedExpertUp" -> in(<<"ffn", "up", "exps", "weight">>)
    [] role = "RoutedExpertDown" -> in(<<"ffn", "down", "exps", "weight">>)
    [] role = "AttnQProj" -> in(<<"attn", "q", "weight">>)
    [] role = "AttnKProj" -> in(<<"attn", "k", "weight">>)
    [] role = "AttnVProj" -> in(<<"attn", "v", "weight">>)
    [] role = "AttnOProj" -> in(<<"attn", "output", "weight">>)
    [] role = "AttnQNorm" -> in(<<"attn", "q", "norm", "weight">>)
    [] role = "AttnKNorm" -> in(<<"attn", "k", "norm", "weight">>)
    [] role = "GdnInProjQkv" -> in(<<"attn", "qkv", "weight">>)
    [] role = "GdnInProjZ" -> in(<<"attn", "gate", "weight">>)
    [] role = "GdnInProjA" -> in(<<"ssm", "alpha", "weight">>)
    [] role = "GdnInProjB" -> in(<<"ssm", "beta", "weight">>)
    [] role = "GdnConv1d" -> in(<<"ssm", "conv1d", "weight">>)
    [] role = "GdnALog" -> in(<<"ssm", "a">>)
    [] role = "GdnDtBias" -> in(<<"ssm", "dt", "bias">>)
    [] role = "GdnGatedNorm" -> in(<<"ssm", "norm", "weight">>)
    [] role = "GdnOutProj" -> in(<<"ssm", "out", "weight">>)
MCNames == {Named(k[2], k[1]) : k \in CoreKeys \cup RoutedKeys}

Stored(i, role, layer, type, dims) ==
  [name |-> Named(layer, role), role |-> role, layer |-> layer, type |-> type, dims |-> dims,
   data |-> Data(i, Source!ByteSize(type, Source!Elements(dims)))]
Routed(i, role, layer) == Stored(i, role, layer, 12, MCRoutedDims[role])
CoreTensors ==
  <<Stored(1, "TokenEmbedding", Graph!Global, 14, <<2, 5>>), Stored(2, "AttnNorm", 3, 0, <<3>>)>>
RoutedTensors ==
  <<Routed(3, "RoutedExpertDown", 0), Routed(4, "RoutedExpertUp", 3), Routed(5, "RoutedExpertGate", 0),
    Routed(6, "RoutedExpertDown", 3), Routed(7, "RoutedExpertUp", 0), Routed(8, "RoutedExpertGate", 3)>>
Checkpoint(alignment, tensors, importable) ==
  [kind |-> "checkpoint", alignment |-> alignment, tensors |-> tensors, importable |-> importable]
All == CoreTensors \o RoutedTensors
Checkpoints ==
  {Checkpoint(a, t, TRUE) : a \in {1, 4}, t \in {<<>>, CoreTensors, RoutedTensors \o CoreTensors}}
  \cup {Checkpoint(2, t, FALSE) : t \in
    {SubSeq(All, 1, 7), [All EXCEPT ![3].dims = Reverse(@)],
     [All EXCEPT ![1] = Stored(1, "TokenEmbedding", Graph!Global, 3, <<6>>)],
     [CoreTensors EXCEPT ![2].name = InBlock(3, <<"rope", "freqs">>)],
     [All EXCEPT ![4] = Stored(4, "RoutedExpertUp", 3, 14, @.dims)]}}

MCSubjects ==
  Checkpoints \cup {[kind |-> "names", names |-> MCNames]}
  \cup {[kind |-> "plan", items |-> p] : p \in Plans}
  \cup {[kind |-> "graph", container |-> c] : c \in Altered(Resident) \cup Altered(Streaming) \cup OddExperts}
=============================================================================
