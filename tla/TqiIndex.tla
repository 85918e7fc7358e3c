------------------------------- MODULE TqiIndex -------------------------------
(***************************************************************************)
(* The lexical index of one root and its `.tqi` file: the walk's plan      *)
(* (retrieval/sync.rs), the index built from it (retrieval/lexical.rs),    *)
(* the parts `tqf sync` persists (app/sync.rs) and the file they become    *)
(* and are read back from (retrieval/tqi).  All of it is pure.             *)
(*                                                                         *)
(* A text is the sequence of its raw tokens; TermsOf gives the lexical     *)
(* terms of a raw token (its lower case, and its subtokens when it has     *)
(* several).  A file on disk is a sequence of cells: the superblock, the   *)
(* cells of the six segments (the file table has one per record, so files  *)
(* of different indexes differ in length), and the generation table.  A    *)
(* BLAKE3 digest is the value it is the digest of.  Chunk and file ids     *)
(* count from 1.  BM25 weights are left out: a search is the set it ranks. *)
(***************************************************************************)
EXTENDS Naturals, Sequences, FiniteSets, SequencesExt

CONSTANTS TermsOf,    \* raw token -> sequence of its lexical terms
          PathOrder   \* the indexable paths in the order the walk meets them

ASSUME TqiAssumption ==
  /\ PathOrder \in Seq(ToSet(PathOrder))
  /\ \A raw \in DOMAIN TermsOf : TermsOf[raw] \in Seq(ToSet(TermsOf[raw]))

Absent == <<"no such file">>
NoFile == <<<<"no file">>>>
Hole   == <<"zeros">> \* a cell that was skipped over and never written

Tokens   == DOMAIN TermsOf
AllPaths == ToSet(PathOrder)

-----------------------------------------------------------------------------
(* The members of S among 1..n, in increasing order: SelectSeq on indices, *)
(* with its recursion in view, so that facts about it can be proved.       *)
InOrder(S, n) ==
  LET listed[k \in 0..n] ==
        IF k = 0 THEN <<>>
        ELSE IF k \in S THEN Append(listed[k - 1], k) ELSE listed[k - 1]
  IN  listed[n]

(* The walk: which files are new, changed, unchanged or gone, and the      *)
(* texts it read on the way.                                               *)
FullCorrectnessWalk(tree, table) ==
  LET seen == {p \in AllPaths : tree[p] # Absent}
      known(p) == p \in DOMAIN table
  IN [new       |-> {p \in seen : ~known(p)},
      changed   |-> {p \in seen : known(p) /\ table[p].hash # tree[p]},
      unchanged |-> {p \in seen : known(p) /\ table[p].hash = tree[p]},
      deleted   |-> DOMAIN table \ seen,
      contents  |-> [p \in seen |-> tree[p]]]

(* The documents of a plan: what is new, then what changed, then the rest, *)
(* each part in the order of the walk.                                     *)
InWalkOrder(part) ==
  LET at == InOrder({i \in DOMAIN PathOrder : PathOrder[i] \in part}, Len(PathOrder))
  IN  [k \in DOMAIN at |-> PathOrder[at[k]]]

Documents(walk) ==
  LET paths == InWalkOrder(walk.new) \o InWalkOrder(walk.changed) \o InWalkOrder(walk.unchanged)
  IN [i \in DOMAIN paths |-> [path |-> paths[i], text |-> walk.contents[paths[i]]]]

-----------------------------------------------------------------------------
Tokenize(text) == FlattenSeq([i \in DOMAIN text |-> TermsOf[text[i]]])

Occurrences(s, x) == Cardinality({i \in DOMAIN s : s[i] = x})

(* LexicalIndex::build: one chunk per document, postings with the term's   *)
(* frequency, and the exact lane over the raw tokens.                      *)
BuildLexical(docs) ==
  LET terms(i) == Tokenize(docs[i].text)
      listed(t) == InOrder({i \in DOMAIN docs : t \in ToSet(terms(i))}, Len(docs))
  IN [chunks   |-> [i \in DOMAIN docs |-> [path |-> docs[i].path, tokens |-> Len(terms(i))]],
      postings |-> [t \in UNION {ToSet(terms(i)) : i \in DOMAIN docs} |->
                      [k \in DOMAIN listed(t) |->
                         <<listed(t)[k], Occurrences(terms(listed(t)[k]), t)>>]],
      exact    |-> [raw \in UNION {ToSet(docs[i].text) : i \in DOMAIN docs} |->
                      InOrder({i \in DOMAIN docs : raw \in ToSet(docs[i].text)}, Len(docs))]]

(* LexicalIndex::export: every list sorted by chunk id, of which no list    *)
(* has two alike.                                                          *)
ExportLexical(index) ==
  LET sorted(ids) == InOrder(ids, Len(index.chunks))
      posting(list, id) == list[CHOOSE k \in DOMAIN list : list[k][1] = id]
  IN [postings |-> [t \in DOMAIN index.postings |->
                      LET list == index.postings[t]
                          ids == sorted({list[k][1] : k \in DOMAIN list})
                      IN [k \in DOMAIN ids |-> posting(list, ids[k])]],
      exact    |-> [raw \in DOMAIN index.exact |-> sorted(ToSet(index.exact[raw]))],
      lengths  |-> [i \in DOMAIN index.chunks |-> index.chunks[i].tokens],
      paths    |-> [i \in DOMAIN index.chunks |-> index.chunks[i].path]]

(* LexicalIndex::from_parts pairs paths with lengths and stops at the end  *)
(* of the shorter.                                                         *)
FromParts(postings, exact, lengths, paths) ==
  LET n == IF Len(paths) < Len(lengths) THEN Len(paths) ELSE Len(lengths)
  IN [chunks   |-> [i \in 1..n |-> [path |-> paths[i], tokens |-> lengths[i]]],
      postings |-> postings,
      exact    |-> exact]

(* Every id in either lane is one of a chunk: what search and exact_lookup *)
(* index without a check.                                                  *)
IdsResolve(index) ==
  /\ \A t \in DOMAIN index.postings : \A k \in DOMAIN index.postings[t] :
       index.postings[t][k][1] \in DOMAIN index.chunks
  /\ \A raw \in DOMAIN index.exact : ToSet(index.exact[raw]) \subseteq DOMAIN index.chunks

ExactLookup(index, raw) ==
  IF raw \in DOMAIN index.exact
  THEN {index.chunks[index.exact[raw][k]].path : k \in DOMAIN index.exact[raw]}
  ELSE {}

Ranked(index, query) ==
  UNION {{index.chunks[index.postings[t][k][1]].path : k \in DOMAIN index.postings[t]} :
           t \in ToSet(Tokenize(query)) \cap DOMAIN index.postings}

-----------------------------------------------------------------------------
(* Mutant of BuildContents: the files are listed in an order of their own, *)
(* as iterating over the texts would give, not in the order of the chunks. *)
BuildContentsUnordered(index, texts) ==
  LET out == ExportLexical(index)
      paths == Reverse(out.paths)
  IN [files    |-> [i \in DOMAIN paths |->
                      [id |-> i, path |-> paths[i], hash |-> texts[paths[i]],
                       firstChunk |-> i, chunkCount |-> 1]],
      postings |-> out.postings,
      exact    |-> out.exact,
      lengths  |-> out.lengths,
      nextFile  |-> Len(out.paths) + 1,
      nextChunk |-> Len(out.lengths) + 1]

(* build_contents: one file record and one chunk per indexed path.         *)
BuildContents(index, texts) ==
  LET out == ExportLexical(index)
  IN [files    |-> [i \in DOMAIN out.paths |->
                      [id |-> i, path |-> out.paths[i], hash |-> texts[out.paths[i]],
                       firstChunk |-> i, chunkCount |-> 1]],
      postings |-> out.postings,
      exact    |-> out.exact,
      lengths  |-> out.lengths,
      nextFile  |-> Len(out.paths) + 1,
      nextChunk |-> Len(out.lengths) + 1]

(* StringTable: every path, term and identifier once.                      *)
Strings(contents) ==
  {contents.files[i].path : i \in DOMAIN contents.files}
    \cup DOMAIN contents.postings \cup DOMAIN contents.exact

(* The six segments in the order they lie in the file; a cell is a kind    *)
(* and what it holds.                                                      *)
Kinds == <<"strings", "files", "chunks", "postings", "exact", "statistics">>

Segment(contents, kind) ==
  CASE kind = "strings"  -> <<<<kind, Strings(contents)>>>>
    [] kind = "files"    -> [i \in DOMAIN contents.files |-> <<kind, contents.files[i]>>]
    [] kind = "chunks"   -> <<<<kind, contents.lengths>>>>
    [] kind = "postings" -> <<<<kind, contents.postings>>>>
    [] kind = "exact"    -> <<<<kind, contents.exact>>>>
    [] kind = "statistics" ->
         <<<<kind, <<Len(contents.files), Cardinality(DOMAIN contents.postings),
                     Cardinality(DOMAIN contents.exact)>>>>>>

Body(contents) == FlattenSeq([i \in DOMAIN Kinds |-> Segment(contents, Kinds[i])])

GenerationTable(contents, generation) ==
  [generation |-> generation,
   nextFile   |-> contents.nextFile,
   nextChunk  |-> contents.nextChunk,
   segments   |-> [i \in DOMAIN Kinds |->
     [kind   |-> Kinds[i],
      offset |-> 2 + Len(FlattenSeq([j \in 1..(i - 1) |-> Segment(contents, Kinds[j])])),
      cells  |-> Len(Segment(contents, Kinds[i])),
      hash   |-> Segment(contents, Kinds[i])]]]

(* The parts of a new file: the generation follows the previous one's and  *)
(* the identity is kept; without a readable previous index (<<>>) both are *)
(* new.                                                                    *)
Encode(contents, previous, freshUuid) ==
  LET first == previous = <<>>
      table == GenerationTable(contents, IF first THEN 1 ELSE previous[1].generation + 1)
  IN [superblock |-> <<"superblock",
                       [uuid       |-> IF first THEN freshUuid ELSE previous[1].uuid,
                        generation |-> table.generation,
                        offset     |-> 2 + Len(Body(contents)),
                        hash       |-> <<"table", table>>]>>,
      body  |-> Body(contents),
      table |-> <<"table", table>>]

-----------------------------------------------------------------------------
(* write_all through a handle that stands at a cell: what lies beyond the  *)
(* end is filled with zeros, what is already there is overwritten.         *)
WriteAt(file, at, cells) ==
  LET last == at + Len(cells) - 1
  IN [i \in 1..(IF Len(file) > last THEN Len(file) ELSE last) |->
        IF i >= at /\ i <= last THEN cells[i - at + 1]
        ELSE IF i <= Len(file) THEN file[i] ELSE Hole]

SegmentSlice(file, record) == SubSeq(file, record.offset, record.offset + record.cells - 1)

(* segment_slice: the bounds, then the checksum, before anything is parsed. *)
SegmentIntact(file, record) ==
  /\ record.offset + record.cells - 1 <= Len(file)
  /\ SegmentSlice(file, record) = record.hash

(* What codec::read accepts: a superblock, the generation table it vouches *)
(* for, and the segments which that one vouches for.  The statistics are   *)
(* written and never read.                                                 *)
Readable(file) ==
  /\ file # NoFile /\ file # <<>>
  /\ file[1][1] = "superblock"
  /\ LET superblock == file[1][2]
     IN /\ superblock.offset <= Len(file)
        /\ file[superblock.offset] = superblock.hash
        /\ \A i \in DOMAIN Kinds :
             \/ Kinds[i] = "statistics"
             \/ SegmentIntact(file, file[superblock.offset][2].segments[i])

(* GenerationTable::segment: the first record of a kind.                   *)
RecordOf(segments, kind) ==
  segments[CHOOSE i \in DOMAIN segments :
             segments[i].kind = kind /\ \A j \in 1..(i - 1) : segments[j].kind # kind]

(* codec::read of a file it accepts.                                       *)
ReadIndex(file) ==
  LET superblock == file[1][2]
      table == file[superblock.offset][2]
      slice(kind) == SegmentSlice(file, RecordOf(table.segments, kind))
  IN [uuid |-> superblock.uuid, generation |-> superblock.generation,
      files    |-> [i \in DOMAIN slice("files") |-> slice("files")[i][2]],
      lengths  |-> slice("chunks")[1][2],
      postings |-> slice("postings")[1][2],
      exact    |-> slice("exact")[1][2]]

(* load_root: the searchable index, without reading a source file again.   *)
LoadRoot(file) ==
  LET loaded == ReadIndex(file)
      paths == [i \in DOMAIN loaded.files |-> loaded.files[i].path]
  IN [uuid |-> loaded.uuid, generation |-> loaded.generation, paths |-> paths,
      lexical |-> FromParts(loaded.postings, loaded.exact, loaded.lengths, paths)]

=============================================================================
