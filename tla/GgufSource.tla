------------------------------ MODULE GgufSource ------------------------------
(***************************************************************************)
(* From a checkpoint to the payloads of a container: the strict GGUF       *)
(* reader (src/src/format/gguf/), the roles that tensors have by their     *)
(* names (dev/inventory.rs) and the importer's regrouping of the routed    *)
(* experts (format/tqf/importer.rs, format/quant/repack.rs).               *)
(*                                                                         *)
(* A file is a sequence of cells; a cell is a whole number, a word of a    *)
(* name or a byte of a tensor, and has the size 1.  A name is the words    *)
(* that its dots and underscores divide it into; a word between two dots   *)
(* that is a number is a whole number.  The bounds that keep a hostile     *)
(* count from being allocated are left out; reservations succeed.          *)
(***************************************************************************)
EXTENDS Integers, Sequences, SequencesExt, FiniteSetsExt

CONSTANTS
  Layers,             \* those of the graph
  DefaultAlignment, ProbeLength, BatchBlocks, MaxDims,
  MaxWord,            \* u64::MAX
  Block,              \* per type: elements and cells of a block
  ExtentAlignment,    \* 64
  NumPlanes,          \* Qwen36Geometry::NUM_EXPERTS
  RoutedDims          \* per routed role: the dimensions that are expected

Number(n) == <<"number", n>>
Words(s)  == [i \in DOMAIN s |-> <<"word", s[i]>>]
Magic     == <<"word", "GGUF">>
Fail      == [ok |-> FALSE]
Nowhere   == -1       \* the layer of a tensor that has none
-----------------------------------------------------------------------------
(* A reading: the cell behind it and what was read, or Fail.  ByteReader:  *)
(* cells from where another reading ended.                                 *)
Start(at) == [ok |-> TRUE, at |-> at, value |-> <<>>]
Take(cells, from, n) ==
  IF from.ok /\ from.at + n <= Len(cells)
  THEN [ok |-> TRUE, at |-> from.at + n, value |-> SubSeq(cells, from.at + 1, from.at + n)]
  ELSE Fail
As(reading, value) == IF reading.ok THEN [reading EXCEPT !.value = value] ELSE Fail

NumberOf(taken) == As(taken, taken.value[1][2])
ReadNumber(cells, from) == NumberOf(Take(cells, from, 1))
ReadString(cells, from) ==
  LET length == ReadNumber(cells, from) IN Take(cells, length, length.value)

(* n readings one after the other, each of which may fail.                 *)
Times(n, from, Read(_)) ==
  LET reading[i \in 0..n] ==
        IF i = 0 THEN As(from, <<>>)
        ELSE LET before == reading[i - 1]
                 next   == Read(before)
             IN  As(next, Append(before.value, next.value))
  IN  IF from.ok THEN reading[n] ELSE Fail

(* read_gguf_value.                                                        *)
Unsigned   == {0, 2, 4, 10}
StringType == 8
ArrayType  == 9
Scalars    == (0..12) \ {StringType, ArrayType}
ReadScalar(cells, from, type) ==
  IF type \in Scalars THEN ReadNumber(cells, from)
  ELSE IF type = StringType THEN ReadString(cells, from) ELSE Fail
ReadArray(cells, from) ==
  LET type  == ReadNumber(cells, from)
      count == ReadNumber(cells, type)
  IN  Times(count.value, count, LAMBDA r : ReadScalar(cells, r, type.value))
ReadValue(cells, type) ==
  IF ~type.ok THEN Fail
  ELSE IF type.value = ArrayType THEN ReadArray(cells, type)
  ELSE ReadScalar(cells, type, type.value)

EntryOf(key, type, value) ==
  As(value, [key |-> key.value, type |-> type.value, value |-> value.value])
ReadEntry(cells, from) ==
  LET key  == ReadString(cells, from)
      type == ReadNumber(cells, key)
  IN  EntryOf(key, type, ReadValue(cells, type))

(* One record of the tensor directory.                                     *)
Elements(dims)    ==
  LET product[i \in 0..Len(dims)] == IF i = 0 THEN 1 ELSE product[i - 1] * dims[i]
  IN  product[Len(dims)]
ByteSize(type, n) == ((n + Block[type].elements - 1) \div Block[type].elements) * Block[type].cells
ReadDims(cells, rank) ==
  IF rank.ok /\ rank.value \in 1..MaxDims
  THEN Times(rank.value, rank, LAMBDA r : ReadNumber(cells, r)) ELSE Fail
ReadOffset(cells, type) ==
  IF type.ok /\ type.value \in DOMAIN Block THEN ReadNumber(cells, type) ELSE Fail
TensorOf(name, dims, type, offset) ==
  IF offset.ok /\ Elements(dims.value) <= MaxWord
               /\ ByteSize(type.value, Elements(dims.value)) <= MaxWord
  THEN As(offset, [name |-> name.value, dims |-> dims.value, type |-> type.value,
                   offset |-> offset.value,
                   cells |-> ByteSize(type.value, Elements(dims.value))])
  ELSE Fail
ReadTensor(cells, from) ==
  LET name == ReadString(cells, from)
      dims == ReadDims(cells, ReadNumber(cells, name))
      type == ReadNumber(cells, dims)
  IN  TensorOf(name, dims, type, ReadOffset(cells, type))

AlignmentKey == Words(<<"general", "alignment">>)
AlignmentOf(metadata) ==
  LET given == SelectSeq(metadata, LAMBDA e : e.key = AlignmentKey /\ e.type \in Unsigned)
  IN  IF given = <<>> THEN DefaultAlignment ELSE given[1].value
AlignUp(n, alignment) == ((n + alignment - 1) \div alignment) * alignment
NamedOnce(records, NameOf(_)) == IsInjective([i \in DOMAIN records |-> NameOf(records[i])])

(* parse_header_and_metadata, of what the probe holds: version, number of  *)
(* tensors, number of entries; the entries; the tensors, within the file.  *)
ReadMetadata(probe, head) ==
  IF head.ok /\ head.value[1] \in {2, 3}
  THEN Times(head.value[3], head, LAMBDA r : ReadEntry(probe, r)) ELSE Fail
ReadTensors(probe, number, metadata) ==
  IF /\ metadata.ok /\ NamedOnce(metadata.value, LAMBDA e : e.key)
     /\ AlignmentOf(metadata.value) \in {2 ^ k : k \in 0..6}
  THEN Times(number, metadata, LAMBDA r : ReadTensor(probe, r)) ELSE Fail
Placed(tensors, alignment, length) ==
  LET start == AlignUp(tensors.at, alignment)
      section == IF length > start THEN length - start ELSE 0
  IN  IF /\ NamedOnce(tensors.value, LAMBDA t : t.name)
         /\ \A t \in ToSet(tensors.value) : t.offset + t.cells <= section
      THEN [ok |-> TRUE, tensors |-> [i \in DOMAIN tensors.value |->
                                        [tensors.value[i] EXCEPT !.offset = start + @]]]
      ELSE Fail
Directory(probe, length) ==
  LET head     == Times(3, Start(1), LAMBDA r : ReadNumber(probe, r))
      metadata == ReadMetadata(probe, head)
      tensors  == ReadTensors(probe, head.value[2], metadata)
  IN  IF tensors.ok THEN Placed(tensors, AlignmentOf(metadata.value), length) ELSE Fail

(* open_with_broker.                                                       *)
Open(file) ==
  IF file # <<>> /\ file[1] = Magic
  THEN Directory(SubSeq(file, 1, Min({Len(file), ProbeLength})), Len(file)) ELSE Fail

(* QuantBlockReader::next_batch: how many blocks, the last batch what is   *)
(* left.                                                                   *)
Batch(blocks, next) == Min({blocks - next, BatchBlocks})

(* repack_passthrough: all batches, each read where it should be.          *)
ReadBatch(file, tensor, next) ==
  LET size  == Block[tensor.type].cells
      n     == Batch(tensor.cells \div size, next)
      taken == Take(file, Start(tensor.offset + next * size), n * size)
  IN  IF taken.ok THEN [taken EXCEPT !.at = next + n] ELSE Fail
Whole(cells, n) == IF Len(cells) = n THEN [ok |-> TRUE, cells |-> cells] ELSE Fail
Joined(read, n) == IF read.ok THEN Whole(FlattenSeq(read.value), n) ELSE Fail
Repack(file, tensor) ==
  LET size    == Block[tensor.type].cells
      blocks  == tensor.cells \div size
      batches == (blocks + BatchBlocks - 1) \div BatchBlocks
  IN  Joined(Times(batches, Start(0), LAMBDA r : ReadBatch(file, tensor, r.at)), blocks * size)
-----------------------------------------------------------------------------
(* classify: the rules in their order.  The first one that a name fits     *)
(* gives its role: by its whole, by what it ends with, or by what it       *)
(* contains together and does not contain.                                 *)
Rule(role, ends)       == [role |-> role, whole |-> {}, ends |-> ends, holds |-> {}, lacks |-> {}]
Either(rule, holds)    == [rule EXCEPT !.holds = holds]
Shared(role, parts)    == Either(Rule(role, {}), {{<<"shared", "expert">>, parts}, {<<"shexp">>, parts}})
Routed(role, part)     ==
  Either(Rule(role, {}), {{<<"ffn", part, "exps">>}, {<<"experts">>, <<part>>}})

Rules == <<
  Either(Rule("TokenEmbedding", {<<"embed", "tokens", "weight">>}), {{<<"token", "embd">>}}),
  [Rule("FinalNorm", {<<"model", "norm", "weight">>}) EXCEPT !.whole = {<<"output", "norm", "weight">>}],
  [Rule("LmHead", {<<"lm", "head", "weight">>}) EXCEPT !.whole = {<<"output", "weight">>}],
  Either(Rule("VisionProjector", {}), {{<<"mmproj">>}, {<<"vision">>}}),
  Rule("AttnQProj", {<<"q", "proj", "weight">>, <<"attn", "q", "weight">>}),
  Rule("AttnKProj", {<<"k", "proj", "weight">>, <<"attn", "k", "weight">>}),
  Rule("AttnVProj", {<<"v", "proj", "weight">>, <<"attn", "v", "weight">>}),
  Rule("AttnOProj", {<<"o", "proj", "weight">>, <<"attn", "output", "weight">>}),
  Rule("AttnQNorm", {<<"q", "norm", "weight">>}),
  Rule("AttnKNorm", {<<"k", "norm", "weight">>}),
  Rule("AttnNorm", {<<"input", "layernorm", "weight">>, <<"attn", "norm", "weight">>}),
  Rule("GdnInProjQkv", {<<"in", "proj", "qkv", "weight">>, <<"attn", "qkv", "weight">>}),
  Rule("GdnInProjZ", {<<"in", "proj", "z", "weight">>, <<"attn", "gate", "weight">>}),
  Rule("GdnInProjA", {<<"in", "proj", "a", "weight">>, <<"ssm", "alpha", "weight">>}),
  Rule("GdnInProjB", {<<"in", "proj", "b", "weight">>, <<"ssm", "beta", "weight">>}),
  Rule("GdnConv1d", {<<"conv1d", "weight">>}),
  Rule("GdnALog", {<<"A", "log">>, <<"ssm", "a">>}),
  Rule("GdnDtBias", {<<"dt", "bias">>}),
  Rule("GdnGatedNorm", {<<"gated", "norm", "weight">>, <<"ssm", "norm", "weight">>}),
  Rule("GdnOutProj", {<<"out", "proj", "weight">>, <<"ssm", "out", "weight">>}),
  [Either(Rule("RouterGate", {<<"mlp", "gate", "weight">>}), {{<<"ffn", "gate", "inp">>}})
     EXCEPT !.lacks = {<<"shexp">>}],
  Shared("SharedExpertInputGate", <<"gate", "inp">>),
  Shared("SharedExpertGate", <<"gate">>),
  Shared("SharedExpertUp", <<"up">>),
  Shared("SharedExpertDown", <<"down">>),
  Routed("RoutedExpertGate", "gate"), Routed("RoutedExpertUp", "up"), Routed("RoutedExpertDown", "down"),
  Rule("FfnNorm", {<<"ffn", "norm", "weight">>, <<"post", "attention", "norm", "weight">>,
                   <<"post", "attention", "layernorm", "weight">>})>>

HoldsWords(name, part) ==
  \E i \in 0..(Len(name) - Len(part)) : SubSeq(name, i + 1, i + Len(part)) = Words(part)
Fits(rule, name) ==
  \/ \E s \in rule.whole : name = Words(s)
  \/ \E s \in rule.ends : IsSuffix(Words(s), name)
  \/ /\ \E parts \in rule.holds : \A part \in parts : HoldsWords(name, part)
     /\ \A part \in rule.lacks : ~HoldsWords(name, part)

Classify(name) ==
  LET i == SelectInSeq(Rules, LAMBDA r : Fits(r, name)) IN IF i = 0 THEN "" ELSE Rules[i].role

(* extract_layer_index: the first number of a name, if it is a byte.       *)
LayerOf(name) ==
  LET i == SelectInSeq(name, LAMBDA cell : cell[1] = "number")
  IN  IF i > 0 /\ name[i][2] < 256 THEN name[i][2] ELSE Nowhere

RoutedRoles == {"RoutedExpertGate", "RoutedExpertUp", "RoutedExpertDown"}
SectionOf(role) ==
  CASE role \in {"TokenEmbedding", "FinalNorm"} -> 5 [] role = "LmHead" -> 6
    [] role \in RoutedRoles -> 7 [] role = "VisionProjector" -> 9 [] OTHER -> 4
-----------------------------------------------------------------------------
(* The core tensors, in the order of the file.                             *)
Extent(file, tensor) ==
  LET data == Repack(file, tensor) IN
  [ok |-> Block[tensor.type].layout /\ data.ok,
   item |-> [kind |-> "extent", name |-> tensor.name, role |-> Classify(tensor.name),
             layer |-> LayerOf(tensor.name), section |-> SectionOf(Classify(tensor.name)),
             align |-> ExtentAlignment, data |-> IF data.ok THEN data.cells ELSE <<>>]]

(* The map of routed tensors: a later one takes the place of an earlier.   *)
RoutedTensor(tensors, layer, role) ==
  LET i == SelectLastInSeq(tensors, LAMBDA t : LayerOf(t.name) = layer /\ Classify(t.name) = role)
  IN  IF i = 0 THEN Fail ELSE [ok |-> TRUE, tensor |-> tensors[i]]

(* validate_routed_tensor, expert_plane_bytes: the whole of one of the     *)
(* three tensors of a layer.                                               *)
Divided(data) ==
  IF data.ok /\ Len(data.cells) > 0 /\ Len(data.cells) % NumPlanes = 0 THEN data ELSE Fail
PlanesIn(file, found, role) ==
  IF found.ok /\ found.tensor.dims = RoutedDims[role] /\ Block[found.tensor.type].routed
  THEN Divided(Repack(file, found.tensor)) ELSE Fail
Planes(file, tensors, layer, role) == PlanesIn(file, RoutedTensor(tensors, layer, role), role)
Plane(data, expert) ==
  LET size == Len(data.cells) \div NumPlanes
  IN  SubSeq(data.cells, expert * size + 1, (expert + 1) * size)

(* write_routed_expert_superextents, of one layer.                         *)
Superextents(layer, gate, up, down) ==
  IF gate.ok /\ up.ok /\ down.ok
  THEN [ok |-> TRUE, items |-> [e \in 1..NumPlanes |->
         [kind |-> "expert", layer |-> layer, expert |-> e - 1, width |-> "whole",
          gate |-> Plane(gate, e - 1), up |-> Plane(up, e - 1), down |-> Plane(down, e - 1)]]]
  ELSE Fail
ExpertsOf(file, tensors, layer) ==
  Superextents(layer, Planes(file, tensors, layer, "RoutedExpertGate"),
                      Planes(file, tensors, layer, "RoutedExpertUp"),
                      Planes(file, tensors, layer, "RoutedExpertDown"))

(* convert_canonical_gguf: what a finished conversion has written.         *)
CoreExtents(file, tensors) ==
  LET core == SelectSeq(tensors, LAMBDA t : Classify(t.name) \notin RoutedRoles)
  IN  [i \in DOMAIN core |-> Extent(file, core[i])]
AllExperts(file, tensors) ==
  LET order == SetToSortSeq(Layers, <)
  IN  IF \E t \in ToSet(tensors) : Classify(t.name) \in RoutedRoles
      THEN [i \in DOMAIN order |-> ExpertsOf(file, tensors, order[i])] ELSE <<>>

Written(extents, experts) ==
  IF \A part \in ToSet(extents) \cup ToSet(experts) : part.ok
  THEN [ok |-> TRUE,
        items |-> [i \in DOMAIN extents |-> extents[i].item]
                  \o FlattenSeq([i \in DOMAIN experts |-> experts[i].items])]
  ELSE Fail
Converted(file, source) ==
  IF /\ source.ok
     /\ \A t \in ToSet(source.tensors) :
          /\ Classify(t.name) # ""
          /\ Classify(t.name) \in RoutedRoles => LayerOf(t.name) # Nowhere
  THEN Written(CoreExtents(file, source.tensors), AllExperts(file, source.tensors))
  ELSE Fail
Import(file) == Converted(file, Open(file))
-----------------------------------------------------------------------------
(* A well-formed file of tensors, as llama.cpp writes one.                 *)
StringCells(s) == <<Number(Len(s))>> \o s
NumberCells(s) == [i \in DOMAIN s |-> Number(s[i])]
Build(alignment, tensors) ==
  LET Up(n) == CHOOSE m \in n..(n + alignment - 1) : m % alignment = 0
      offset[i \in 1..(Len(tensors) + 1)] ==
        IF i = 1 THEN 0 ELSE Up(offset[i - 1] + Len(tensors[i - 1].data))
      record(i) == StringCells(tensors[i].name) \o <<Number(Len(tensors[i].dims))>>
                   \o NumberCells(tensors[i].dims) \o NumberCells(<<tensors[i].type, offset[i]>>)
      entries == StringCells(Words(<<"tokenizer", "list">>))
                 \o NumberCells(<<ArrayType, StringType, 2>>)
                 \o StringCells(Words(<<"a", "b">>)) \o StringCells(<<>>)
                 \o StringCells(AlignmentKey) \o NumberCells(<<4, alignment>>)
      head == <<Magic>> \o NumberCells(<<3, Len(tensors), 2>>) \o entries
              \o FlattenSeq([i \in DOMAIN tensors |-> record(i)])
      Pad(cells, n) == cells \o NumberCells([i \in 1..(n - Len(cells)) |-> 0])
      start == Up(Len(head))
  IN  FoldLeft(LAMBDA cells, i : Pad(cells, start + offset[i]) \o tensors[i].data,
               Pad(head, start), [i \in DOMAIN tensors |-> i])

(* "a strict, lossless bridge": the checkpoint of these tensors opens,     *)
(* every tensor reads as it was written, and if they can be imported, each *)
(* core tensor has gone into one payload and each routed one into those of *)
(* its layer's experts (importer.rs:1-9).                                  *)
ReadsEvery(file, source, tensors) ==
  source.ok /\ \A i \in DOMAIN tensors :
    /\ source.tensors[i].name = tensors[i].name
    /\ Repack(file, source.tensors[i]) = [ok |-> TRUE, cells |-> tensors[i].data]
PlanesOf(items, layer, part) == FlattenSeq([e \in 1..NumPlanes |->
  SelectSeq(items, LAMBDA x : x.kind = "expert" /\ x.layer = layer /\ x.expert = e - 1)[1][part]])
HoldsEvery(items, tensors) == \A t \in ToSet(tensors) :
  CASE t.role = "RoutedExpertGate" -> t.data = PlanesOf(items, t.layer, "gate")
    [] t.role = "RoutedExpertUp"   -> t.data = PlanesOf(items, t.layer, "up")
    [] t.role = "RoutedExpertDown" -> t.data = PlanesOf(items, t.layer, "down")
    [] OTHER -> Len(SelectSeq(items, LAMBDA x :
         /\ x.kind = "extent" /\ x.name = t.name /\ x.role = t.role
         /\ x.layer = t.layer /\ x.data = t.data)) = 1
ImportIsLossless(file, import, tensors, importable) ==
  /\ ReadsEvery(file, Open(file), tensors)
  /\ import.ok = importable
  /\ importable => HoldsEvery(import.items, tensors)

(* A file that was cut off anywhere does not open, or whatever it still    *)
(* reads is what was written.                                              *)
CutIsNoticed(file, tensors) ==
  \A n \in 0..(Len(file) - 1) :
    LET part   == SubSeq(file, 1, n)
        source == Open(part)
    IN  source.ok => \A i \in DOMAIN tensors :
          Repack(part, source.tensors[i]) = [ok |-> TRUE, cells |-> tensors[i].data]
=============================================================================
