------------------------------ MODULE Container ------------------------------
(***************************************************************************)
(* src/src/format/tqf/: the layout of a .tqf container, as TqfWriter lays  *)
(* it out and TqfReader opens it.                                          *)
(*                                                                         *)
(* A file is a sequence of cells; offsets count cells from 0.  A cell      *)
(* stands for a byte of a payload, a whole field of the superblock, a      *)
(* whole record of a table or a whole name, so that a record's size is 1;  *)
(* how a field is laid out within its record is left out.  The hash of     *)
(* cells is the cells themselves.                                          *)
(***************************************************************************)
EXTENDS Integers, Sequences, FiniteSets, SequencesExt

CONSTANTS
  ExpertAlignment,    \* EXPERT_SUPEREXTENT_ALIGNMENT
  TableAlignment,     \* METADATA_TABLE_ALIGNMENT
  GateUpTile, DownTile \* per width other than "whole": cells of a tile

Pad      == <<"pad">>
Damaged  == <<"damaged">>
None     == <<"none">>
Refused  == [ok |-> FALSE]
Missing  == [missing |-> TRUE]
Padding(n) == [i \in 1..n |-> Pad]
SumOf(s) ==
  LET upTo[i \in 0..Len(s)] == IF i = 0 THEN 0 ELSE upTo[i - 1] + s[i] IN upTo[Len(s)]

(* align_up.                                                               *)
AlignUp(n, alignment) == ((n + alignment - 1) \div alignment) * alignment

Slice(file, offset, n) == SubSeq(file, offset + 1, offset + n)
-----------------------------------------------------------------------------
(* The superblock: its fields, in the order of their offsets.  `source`    *)
(* stands for the provenance fields, `created` for the rest of them.       *)
Fields == <<"magic", "size", "endian", "major", "source", "length",
            "sectionOffset", "sectionCount", "extentOffset", "extentCount",
            "stringOffset", "stringBytes", "expertOffset", "expertBytes",
            "checksumOffset", "checksumBytes", "root", "created">>
Identity == [magic |-> "TQFMODEL", size |-> "4096", endian |-> "01020304", major |-> "1"]
SuperblockSize == AlignUp(Len(Fields), ExpertAlignment)

Encode(superblock) ==
  [i \in 1..SuperblockSize |->
     IF i <= Len(Fields) THEN <<"field", Fields[i], superblock[Fields[i]]>> ELSE Pad]

Field(file, name) == file[CHOOSE i \in DOMAIN Fields : Fields[i] = name][3]
-----------------------------------------------------------------------------
(* The writer: what it has put in the file, where it goes on, and the      *)
(* tables it keeps until commit().                                         *)
EmptyWriter ==
  [file |-> Padding(SuperblockSize), next |-> SuperblockSize, extents |-> <<>>, experts |-> <<>>]

(* write_all at the cursor: what stood there is overwritten; a gap before  *)
(* it reads as zeros.                                                      *)
Put(file, offset, cells) ==
  LET long == file \o Padding(offset - Len(file))
  IN  SubSeq(long, 1, offset) \o cells \o SubSeq(long, offset + Len(cells) + 1, Len(long))

PadAndPut(w, offset, cells) == Put(w.file, w.next, Padding(offset - w.next) \o cells)

(* write_extent, of a name the importer does not find written yet.         *)
WriteExtent(w, item) ==
  LET at == AlignUp(w.next, item.align) IN
  IF \E e \in ToSet(w.extents) : e.name = item.name THEN w
  ELSE [w EXCEPT
    !.file = PadAndPut(w, at, item.data),
    !.next = at + Len(item.data),
    !.extents = Append(@, [role |-> item.role, name |-> item.name, layer |-> item.layer,
                           section |-> item.section, offset |-> at, bytes |-> Len(item.data),
                           digest |-> item.data])]

(* tiling.rs: tiles of an expert in physical order.  A width that does not *)
(* divide the matrices gives way to one tile for gate and up and one for   *)
(* down.                                                                   *)
Divisible(width, gate, up, down) ==
  width = "whole" \/ (/\ Len(gate) % GateUpTile[width] = 0 /\ Len(up) % GateUpTile[width] = 0
                      /\ Len(down) % DownTile[width] = 0)

WholeTiles(gate, up, down) ==
  <<[matrix |-> "gateUp", offset |-> 0, bytes |-> Len(gate) + Len(up)],
    [matrix |-> "down", offset |-> Len(gate) + Len(up), bytes |-> Len(down)]>>

TilePlan(width, gate, up, down) ==
  IF width = "whole" THEN WholeTiles(gate, up, down)
  ELSE LET g == GateUpTile[width]
           d == DownTile[width]
           rows == (Len(gate) + Len(up)) \div g
       IN  [t \in 1..(rows + Len(down) \div d) |->
              IF t <= rows THEN [matrix |-> "gateUp", offset |-> (t - 1) * g, bytes |-> g]
              ELSE [matrix |-> "down", offset |-> rows * g + (t - rows - 1) * d, bytes |-> d]]

TilesOf(width, gate, up, down) ==
  IF Divisible(width, gate, up, down) THEN TilePlan(width, gate, up, down)
  ELSE WholeTiles(gate, up, down)

(* The digest of a tile is taken from the matrix it starts in; a range     *)
(* that leaves the matrix is a panic.                                      *)
TileDigest(tile, gate, up, down) ==
  LET first == tile.offset
      last  == tile.offset + tile.bytes
      from(matrix, base) == IF last - base <= Len(matrix)
                            THEN SubSeq(matrix, first - base + 1, last - base) ELSE None
  IN  IF tile.matrix # "gateUp" THEN from(down, Len(gate) + Len(up))
      ELSE IF first < Len(gate) THEN from(gate, 0) ELSE from(up, Len(gate))

Superextent(item) == item.gate \o item.up \o item.down

(* write_expert_parts_with_width, of an expert not written yet.            *)
WriteExpert(w, item) ==
  LET at    == AlignUp(w.next, ExpertAlignment)
      cells == Superextent(item)
      tiles == TilesOf(item.width, item.gate, item.up, item.down)
  IN
  IF \E e \in ToSet(w.experts) : e.layer = item.layer /\ e.expert = item.expert THEN w
  ELSE [w EXCEPT
    !.file = PadAndPut(w, at, cells),
    !.next = at + Len(cells),
    !.experts = Append(@, [layer |-> item.layer, expert |-> item.expert,
                           offset |-> at, bytes |-> Len(cells), tiles |-> tiles, digest |-> cells,
                           tileDigests |-> IF item.width = "whole" THEN <<>>
                             ELSE [t \in DOMAIN tiles |->
                                     TileDigest(tiles[t], item.gate, item.up, item.down)]])]

Write(w, item) == IF item.kind = "extent" THEN WriteExtent(w, item) ELSE WriteExpert(w, item)
WriteAll(w, items) ==
  LET after[n \in 0..Len(items)] == IF n = 0 THEN w ELSE Write(after[n - 1], items[n])
  IN  after[Len(items)]

(* resume_partial: the tables come from the journal, the cursor stands     *)
(* behind the last payload they name; what lies beyond it stays.  A        *)
(* payload that is not what the journal says ends the attempt.             *)
Intact(file, entries) ==
  \A e \in ToSet(entries) : /\ e.offset + e.bytes <= Len(file)
                            /\ Slice(file, e.offset, e.bytes) = e.digest
(* Mutant: the cursor stands at the start of the payload region.           *)
ResumeUnsought(file, extents, experts) ==
  IF ~(Intact(file, extents) /\ Intact(file, experts)) THEN Refused
  ELSE [file |-> file, extents |-> extents, experts |-> experts, next |-> SuperblockSize]

Resume(file, extents, experts) ==
  IF ~(Intact(file, extents) /\ Intact(file, experts)) THEN Refused
  ELSE [file |-> file, extents |-> extents, experts |-> experts,
        next |-> LET ends == {SuperblockSize} \cup
                             {e.offset + e.bytes : e \in ToSet(extents) \cup ToSet(experts)}
                 IN  CHOOSE n \in ends : \A m \in ends : m <= n]
-----------------------------------------------------------------------------
(* TqfSectionKind, as far as the writer and the reader name a kind.        *)
StringTableKind == 3
RoutedExperts   == 7
ExtentsKind     == 11
ExpertIndexKind == 12
ChecksumsKind   == 13

(* commit(): the tables behind the payload, each of them aligned, then the *)
(* superblock over the first cells.                                        *)
Cells(kind, records) == [i \in DOMAIN records |-> <<kind, records[i]>>]
Bounds(entries) ==
  LET starts == {e.offset : e \in entries}
      ends   == {e.offset + e.bytes : e \in entries}
      first  == CHOOSE n \in starts : \A k \in starts : n <= k
  IN  [offset |-> first, bytes |-> (CHOOSE n \in ends : \A k \in ends : n >= k) - first]

Section(kind, span, count) ==
  [kind |-> kind, offset |-> span.offset, bytes |-> span.bytes, elements |-> count]

ExtentTable(w) ==
  Cells("extent", [i \in DOMAIN w.extents |->
    LET e == w.extents[i] IN
    [role |-> e.role, layer |-> e.layer, name |-> i - 1, offset |-> e.offset,
     bytes |-> e.bytes, checksum |-> i - 1]])

ExpertIndex(w) ==
  LET tilesBefore(i) == SumOf([k \in 1..(i - 1) |-> Len(w.experts[k].tiles)])
      digestsBefore(i) == SumOf([k \in 1..(i - 1) |-> 1 + Len(w.experts[k].tileDigests)])
  IN  Cells("expert", [i \in DOMAIN w.experts |->
        LET e == w.experts[i] IN
        [layer |-> e.layer, expert |-> e.expert, offset |-> e.offset, bytes |-> e.bytes,
         vouched |-> e.tileDigests # <<>>, tileFirst |-> tilesBefore(i),
         tileCount |-> Len(e.tiles), checksum |-> Len(w.extents) + digestsBefore(i)]])
      \o FlattenSeq([i \in DOMAIN w.experts |-> Cells("tile", w.experts[i].tiles)])

ChecksumTable(w) ==
  Cells("digest", [i \in DOMAIN w.extents |-> w.extents[i].digest])
  \o FlattenSeq([i \in DOMAIN w.experts |->
       Cells("digest", <<w.experts[i].digest>> \o w.experts[i].tileDigests)])

StringTable(w) == Cells("name", [i \in DOMAIN w.extents |-> w.extents[i].name])

(* Where the tables go: behind the payload, each of them aligned.          *)
EndOf(span) == span.offset + span.bytes
TableSpans(w) ==
  LET after(end, bytes) == [offset |-> AlignUp(end, TableAlignment), bytes |-> bytes]
      strings   == after(w.next, Len(w.extents))
      extents   == after(EndOf(strings), Len(w.extents))
      index     == after(EndOf(extents), Len(ExpertIndex(w)))
      checksums == after(EndOf(index), Len(ChecksumTable(w)))
  IN  [strings |-> strings, extents |-> extents, index |-> index, checksums |-> checksums]

(* build_sections: one section per kind of extent, in the order of the     *)
(* kinds, then the tables.                                                 *)
SectionTable(w) ==
  LET spans   == TableSpans(w)
      kinds   == {e.section : e \in ToSet(w.extents)}
      of(k)   == {e \in ToSet(w.extents) : e.section = k}
      kind(i) == CHOOSE k \in kinds : Cardinality({j \in kinds : j < k}) = i - 1
  IN  Cells("section",
        [i \in 1..Cardinality(kinds) |->
           Section(kind(i), Bounds(of(kind(i))), Cardinality(of(kind(i))))]
        \o (IF w.experts = <<>> THEN <<>>
            ELSE <<Section(RoutedExperts, Bounds(ToSet(w.experts)), Len(w.experts)),
                   Section(ExpertIndexKind, spans.index, Len(w.experts))>>)
        \o <<Section(StringTableKind, spans.strings, 0),
             Section(ExtentsKind, spans.extents, Len(w.extents)),
             Section(ChecksumsKind, spans.checksums, spans.checksums.bytes)>>)

(* The metadata root hash.                                                 *)
Root(sections, extents, strings, index, checksums) ==
  sections \o extents \o strings \o index \o checksums

SectionSpan(w) ==
  [offset |-> AlignUp(EndOf(TableSpans(w).checksums), TableAlignment),
   bytes |-> Len(SectionTable(w))]

(* pad_to and write_all, of a table.                                       *)
PutTable(file, end, span, cells) ==
  Put(Put(file, end, Padding(span.offset - end)), span.offset, cells)

(* The file with its tables, but for the superblock.                       *)
WithTables(file, w) ==
  LET spans == TableSpans(w)
      f1 == PutTable(file, w.next, spans.strings, StringTable(w))
      f2 == PutTable(f1, EndOf(spans.strings), spans.extents, ExtentTable(w))
      f3 == PutTable(f2, EndOf(spans.extents), spans.index, ExpertIndex(w))
      f4 == PutTable(f3, EndOf(spans.index), spans.checksums, ChecksumTable(w))
  IN  PutTable(f4, EndOf(spans.checksums), SectionSpan(w), SectionTable(w))

Superblock(w) ==
  LET spans == TableSpans(w) IN
  [magic |-> Identity.magic, size |-> Identity.size, endian |-> Identity.endian,
   major |-> Identity.major, source |-> "source", length |-> EndOf(SectionSpan(w)),
   sectionOffset |-> SectionSpan(w).offset, sectionCount |-> SectionSpan(w).bytes,
   extentOffset |-> spans.extents.offset, extentCount |-> spans.extents.bytes,
   stringOffset |-> spans.strings.offset, stringBytes |-> spans.strings.bytes,
   expertOffset |-> spans.index.offset, expertBytes |-> spans.index.bytes,
   checksumOffset |-> spans.checksums.offset, checksumBytes |-> spans.checksums.bytes,
   root |-> Root(SectionTable(w), ExtentTable(w), StringTable(w), ExpertIndex(w),
               ChecksumTable(w)),
   created |-> "now"]

(* All but the file: commit() takes the tables from it.                    *)
Books(w) == [next |-> w.next, extents |-> w.extents, experts |-> w.experts]

Commit(w) == Put(WithTables(w.file, Books(w)), 0, Encode(Superblock(Books(w))))
-----------------------------------------------------------------------------
(* The reader.                                                             *)
SuperblockAccepted(file) ==
  /\ Len(file) >= SuperblockSize
  /\ \A name \in DOMAIN Identity : Field(file, name) = Identity[name]
  /\ Field(file, "length") = Len(file)

(* read_table: where and how many cells.                                   *)
TableOf(file, offset, count) == Slice(file, Field(file, offset), Field(file, count))
InBounds(file, offset, count) == Field(file, offset) + Field(file, count) <= Len(file)

TablesInBounds(file) ==
  /\ InBounds(file, "sectionOffset", "sectionCount")
  /\ InBounds(file, "extentOffset", "extentCount")
  /\ InBounds(file, "stringOffset", "stringBytes")
  /\ InBounds(file, "expertOffset", "expertBytes")
  /\ InBounds(file, "checksumOffset", "checksumBytes")

RootMatches(file) ==
  Field(file, "root") = Root(TableOf(file, "sectionOffset", "sectionCount"),
                             TableOf(file, "extentOffset", "extentCount"),
                             TableOf(file, "stringOffset", "stringBytes"),
                             TableOf(file, "expertOffset", "expertBytes"),
                             TableOf(file, "checksumOffset", "checksumBytes"))

Decoded(cells) == [i \in DOMAIN cells |-> cells[i][2]]

(* The number of experts stands in the section of their index.             *)
ExpertCount(sections) ==
  IF \E s \in ToSet(sections) : s.kind = ExpertIndexKind
  THEN (CHOOSE s \in ToSet(sections) : s.kind = ExpertIndexKind).elements ELSE 0

(* partition_is_contiguous.                                                *)
IsContiguous(tiles, total) ==
  /\ \A t \in DOMAIN tiles : /\ tiles[t].bytes > 0
                             /\ tiles[t].offset = SumOf([k \in 1..(t - 1) |-> tiles[k].bytes])
  /\ SumOf([k \in DOMAIN tiles |-> tiles[k].bytes]) = total

TilesOfExpert(reader, e) == Slice(reader.tiles, e.tileFirst, e.tileCount)

Tables(file) ==
  LET sections == Decoded(TableOf(file, "sectionOffset", "sectionCount"))
      index    == Decoded(TableOf(file, "expertOffset", "expertBytes"))
      count    == ExpertCount(sections)
  IN  [ok |-> count <= Len(index),
       extents |-> Decoded(TableOf(file, "extentOffset", "extentCount")),
       strings |-> Decoded(TableOf(file, "stringOffset", "stringBytes")),
       experts |-> SubSeq(index, 1, count), tiles |-> SubSeq(index, count + 1, Len(index)),
       checksums |-> Decoded(TableOf(file, "checksumOffset", "checksumBytes"))]

EntriesAccepted(file, reader) ==
  /\ \A e \in ToSet(reader.extents) : e.offset + e.bytes <= Len(file)
  /\ \A e \in ToSet(reader.experts) :
       /\ e.offset + e.bytes <= Len(file)
       /\ e.tileFirst + e.tileCount <= Len(reader.tiles)
       /\ IsContiguous(TilesOfExpert(reader, e), e.bytes)
       /\ e.vouched => e.checksum + 1 + e.tileCount <= Len(reader.checksums)

(* open_validated_with_broker.                                             *)
Open(file) ==
  IF ~SuperblockAccepted(file) THEN Refused
  ELSE IF ~TablesInBounds(file) THEN Refused
  ELSE IF ~RootMatches(file) THEN Refused
  ELSE LET reader == Tables(file) IN
       IF reader.ok /\ EntriesAccepted(file, reader) THEN reader ELSE Refused

(* tensor() and expert(): the first that fits, or Missing.                 *)
FirstOf(entries, fitting) == IF fitting = {} THEN Missing ELSE entries[Min(fitting)]
Tensor(reader, role, layer) ==
  LET fits(e) == e.role = role /\ e.layer = layer
  IN  FirstOf(reader.extents, {i \in DOMAIN reader.extents : fits(reader.extents[i])})
Expert(reader, layer, expert) ==
  LET fits(e) == e.layer = layer /\ e.expert = expert
  IN  FirstOf(reader.experts, {i \in DOMAIN reader.experts : fits(reader.experts[i])})

(* verify_checksum.                                                        *)
Checked(reader, index, cells) ==
  IF index < Len(reader.checksums) /\ reader.checksums[index + 1] = cells
  THEN [ok |-> TRUE, cells |-> cells] ELSE Refused

(* read_extent_into and read_expert_into.                                  *)
ReadWhole(file, reader, e) == Checked(reader, e.checksum, Slice(file, e.offset, e.bytes))

(* read_expert_tile_into: only of an expert whose tiles have digests.      *)
ReadTile(file, reader, e, ordinal) ==
  LET tile == TilesOfExpert(reader, e)[ordinal + 1] IN
  IF ~e.vouched THEN Refused
  ELSE Checked(reader, e.checksum + 1 + ordinal, Slice(file, e.offset + tile.offset, tile.bytes))
-----------------------------------------------------------------------------
(* What a container promises.                                              *)
Uninterrupted(items) == Commit(WriteAll(EmptyWriter, items))

(* What reading an item gave, wherever a read succeeded.                   *)
ReadsOnly(file, reader, item) ==
  IF item.kind = "extent"
  THEN LET e == Tensor(reader, item.role, item.layer) IN
       e # Missing => /\ reader.strings[e.name + 1] = item.name
                   /\ ReadWhole(file, reader, e) \in {Refused, [ok |-> TRUE, cells |-> item.data]}
  ELSE LET e == Expert(reader, item.layer, item.expert)
           cells == Superextent(item) IN
       e # Missing =>
         /\ ReadWhole(file, reader, e) \in {Refused, [ok |-> TRUE, cells |-> cells]}
         /\ \A t \in 1..e.tileCount :
              LET tile == TilesOfExpert(reader, e)[t] IN
              ReadTile(file, reader, e, t - 1) \in
                {Refused, [ok |-> TRUE, cells |-> Slice(cells, tile.offset, tile.bytes)]}

(* Every item is there, whole and, where it was tiled, tile by tile.       *)
Reads(file, reader, item) ==
  /\ ReadsOnly(file, reader, item)
  /\ IF item.kind = "extent"
     THEN LET e == Tensor(reader, item.role, item.layer) IN
          e # Missing /\ ReadWhole(file, reader, e).ok /\ e.offset % item.align = 0
     ELSE LET e == Expert(reader, item.layer, item.expert) IN
          /\ e # Missing /\ ReadWhole(file, reader, e).ok /\ e.offset % ExpertAlignment = 0
          /\ item.width # "whole" => \A t \in 1..e.tileCount : ReadTile(file, reader, e, t - 1).ok

(* A committed container opens and gives every item back, under its name   *)
(* and aligned.                                                            *)
ReadsBack(items) ==
  LET file == Uninterrupted(items)
      reader == Open(file)
  IN  reader.ok /\ \A item \in ToSet(items) : Reads(file, reader, item)

(* A conversion broken off anywhere before its superblock is written, with *)
(* the first k payloads in its journal, is refused or ends in the          *)
(* container an unbroken one writes.                                       *)
ResumesToTheSame(items) ==
  LET whole == Uninterrupted(items)
      unsealed == Put(whole, 0, Padding(SuperblockSize))
  IN  \A k \in 0..Len(items), length \in 0..Len(whole) :
        LET journal == WriteAll(EmptyWriter, SubSeq(items, 1, k))
            w == Resume(SubSeq(unsealed, 1, length), journal.extents, journal.experts)
        IN  w # Refused => Commit(WriteAll(w, items)) = whole

(* One wrong cell, one wrong field, a cut or an addition: the container    *)
(* does not open, or whatever it still gives is what was written.          *)
Numbers == {"length", "sectionOffset", "sectionCount", "extentOffset", "extentCount",
            "stringOffset", "stringBytes", "expertOffset", "expertBytes",
            "checksumOffset", "checksumBytes"}
WrongField(cell) ==
  IF cell[2] \in Numbers
  THEN {<<"field", cell[2], cell[3] + by>> : by \in {-1, 1}} \cap
       {<<"field", cell[2], n>> : n \in 0..(cell[3] + 1)}
  ELSE {<<"field", cell[2], IF cell[2] = "root" THEN <<>> ELSE "other">>}
WrongFiles(file) ==
  LET cells  == {[file EXCEPT ![i] = Damaged] : i \in (Len(Fields) + 1)..Len(file)}
      fields == UNION {{[file EXCEPT ![i] = cell] : cell \in WrongField(file[i])} :
                         i \in DOMAIN Fields}
  IN  cells \cup fields \cup {SubSeq(file, 1, n) : n \in 0..(Len(file) - 1)}
      \cup {Append(file, Damaged)}

NoticesDamage(items) ==
  \A file \in WrongFiles(Uninterrupted(items)) :
    LET reader == Open(file) IN
    reader.ok => \A item \in ToSet(items) : ReadsOnly(file, reader, item)
=============================================================================
