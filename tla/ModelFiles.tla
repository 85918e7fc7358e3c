----------------------------- MODULE ModelFiles -----------------------------
(***************************************************************************)
(* The model's files: how they come to be installed (Installation), what   *)
(* of a checkpoint is put into a container (GgufSource), what a container  *)
(* is (Container) and the graph the runtime makes of it (LayerGraph).  The *)
(* last three have no state: a behaviour is an installation, or picks one  *)
(* plan of a container, one checkpoint, one set of names or one graph and  *)
(* is over.                                                                *)
(***************************************************************************)
EXTENDS Installation

CONSTANTS
  ExpertAlignment, TableAlignment, GateUpTile, DownTile,   \* of Container
  Layers,                                                  \* of LayerGraph
  DefaultAlignment, ProbeLength, BatchBlocks, MaxDims, MaxWord, Block,
  ExtentAlignment, NumPlanes, RoutedDims,                  \* of GgufSource
  Subjects      \* plans of containers, checkpoints, names, and graphs

ASSUME ModelFilesAssumption ==
  /\ {ExpertAlignment, TableAlignment} \subseteq Nat \ {0}
  /\ DOMAIN GateUpTile = DOMAIN DownTile /\ "whole" \notin DOMAIN GateUpTile
  /\ 0 \in Layers /\ Layers \subseteq 0..39
  /\ {DefaultAlignment, ProbeLength, BatchBlocks, MaxDims, ExtentAlignment, NumPlanes}
       \subseteq Nat \ {0}

VARIABLES program, subject

Layout == INSTANCE Container
Source == INSTANCE GgufSource
Graph  == INSTANCE LayerGraph

programVars == <<program, subject>>
filesVars   == <<allVars, programVars>>
None == [kind |-> "none"]

FilesInit == InstallInit /\ program \in {"install", "files"} /\ subject = None

InstallAlone(A) == program = "install" /\ A /\ UNCHANGED programVars

PickSubject ==
  /\ program = "files" /\ subject = None
  /\ subject' \in Subjects
  /\ UNCHANGED <<allVars, program>>

FilesNext == InstallAlone(InstallNext) \/ PickSubject

FilesSpec == FilesInit /\ [][FilesNext]_filesVars /\ WF_filesVars(InstallAlone(InstallStep))
-----------------------------------------------------------------------------
ImportIsSound(file, import) ==
  /\ Source!ImportIsLossless(file, import, subject.tensors, subject.importable)
  /\ subject.importable => Layout!ReadsBack(import.items)
CheckpointIsSound(file) ==
  ImportIsSound(file, Source!Import(file)) /\ Source!CutIsNoticed(file, subject.tensors)

(* See Container: what a finished writer wrote is read back, also when the *)
(* writer was resumed, and a file that is not what was written does not    *)
(* open or gives only what was written (format/tqf/writer.rs, reader.rs).  *)
(* See GgufSource: a checkpoint is imported losslessly, and what is        *)
(* imported is a container that reads back (format/tqf/importer.rs).       *)
ContainersAreSound ==
  /\ subject.kind = "plan" =>
       /\ Layout!ReadsBack(subject.items)
       /\ Layout!ResumesToTheSame(subject.items)
       /\ Layout!NoticesDamage(subject.items)
  /\ subject.kind = "checkpoint" =>
       CheckpointIsSound(Source!Build(subject.alignment, subject.tensors))

(* The tensors the manifest asks a container for, by role and layer.       *)
CoreKeys ==
  (Graph!GlobalRoles \X {Graph!Global})
  \cup UNION {(Graph!CommonRoles \cup Graph!AttentionRoles(l)) \X {l} : l \in Layers}
RoutedKeys == Graph!RoutedRoles \X Layers

(* "Order matters": the inventory takes the canonical checkpoint's names   *)
(* one to one for the tensors the graph needs (dev/inventory.rs:122-125,   *)
(* docs/research/canonical-source-manifest.md:105-118).                    *)
InventoryServesManifest(names) ==
  /\ {<<Source!Classify(n), Source!LayerOf(n)>> : n \in names} = CoreKeys \cup RoutedKeys
  /\ Cardinality(names) = Cardinality(CoreKeys \cup RoutedKeys)

(* See LayerGraph: a container the manifest accepts runs, and the cache of *)
(* experts leaves room for the rest (model/qwen36/weights.rs, runtime.rs). *)
GraphRuns ==
  /\ Graph!TablesAgree
  /\ subject.kind = "names" => InventoryServesManifest(subject.names)
  /\ subject.kind = "graph" =>
       Graph!AcceptedGraphRuns(subject.container) /\ Graph!CacheLeavesHeadroom(subject.container)

(* "any Phase 22 tiled partition that exactly covers the canonical gate/   *)
(* up/down bytes" is read by the whole-expert path (weights.rs:1399-1405), *)
(* so a container of such experts opens.                                   *)
TiledContainersOpen ==
  subject.kind = "graph" => Graph!TiledContainerOpens(subject.container)
=============================================================================
