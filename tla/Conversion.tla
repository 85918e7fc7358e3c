---------------------------- MODULE Conversion -----------------------------
(***************************************************************************)
(* src/src/format/tqf/{conversion,writer,importer,reader}.rs: the          *)
(* resumable rewriting of a verified GGUF into a .tqf container.           *)
(*                                                                         *)
(* The .partial file, its journal and the container survive the process.   *)
(* Every payload (a tensor extent or an expert's superextent) is written   *)
(* behind the one before it, so a payload's place is its number; the       *)
(* metadata tables come behind the last one.  What a payload contains is   *)
(* its digest: the source it was read from, and which payload of it.       *)
(***************************************************************************)
EXTENDS LineJournal, FiniteSetsExt

CONSTANTS
  Sources,      \* GGUF files, by their SHA-256
  NumItems,     \* payloads of a container
  MaxFaults     \* bound: conversions cut off by a crash or an error

Items  == 1..NumItems
Places == 1..(NumItems + 1)

ItemHeader(s)  == [event |-> "Header", source |-> s]
Verified(rec)  == [event |-> "Verified", record |-> rec]
ItemsFinalized == [event |-> "Finalized"]

VARIABLES
  partial,      \* NoFile, or what is at each place of <container>.partial
  cjournal,     \* NoFile, or <container>.convert.journal
  container,    \* NoFile, or the installed file: source, table, places
  cpc,          \* next step of convert_canonical_gguf; "idle" when none runs
  source,       \* what it converts
  table,        \* TqfWriter::extents and experts: item, place and digest
  cursor,       \* where the file is written to next
  dirty,        \* the place written and not yet synced, or 0
  faults

cdisk   == <<partial, cjournal, container>>
clocals == <<source, table, cursor, dirty>>

Digest(s, i) == <<s, i>>
Hole   == <<NoFile, 0>>
Torn   == <<NoFile, 1>>
Tables == <<NoFile, 2>>

CInit ==
  /\ partial = NoFile /\ cjournal = NoFile /\ container = NoFile
  /\ cpc = "idle" /\ source = NoFile /\ table = <<>> /\ cursor = 1 /\ dirty = 0

-----------------------------------------------------------------------------
CGoto(p) == cpc' = p /\ UNCHANGED <<clocals, faults>>

(* The call returns; "done" is its Ok.                                     *)
CReturn(result) ==
  /\ cpc' = result
  /\ table' = <<>> /\ cursor' = 1 /\ dirty' = 0
  /\ UNCHANGED source
CFail == CReturn("failed")

(* The source is opened and its tensors classified: either may fail.       *)
CBegin(s) ==
  /\ cpc = "idle"
  /\ source' = s /\ cpc' \in {"begin", "failed"}
  /\ UNCHANGED <<cdisk, table, cursor, dirty, faults>>

(* ConversionTransaction::begin: an installed container is not converted   *)
(* again, but its provenance must be that of the source.                   *)
BeginTransaction ==
  /\ cpc = "begin"
  /\ CASE container = NoFile          -> CGoto("read journal")
       [] container # NoFile /\ container.source = source -> CGoto("open")
       [] OTHER                       -> CFail /\ UNCHANGED faults
  /\ UNCHANGED cdisk

Recovered == [i \in 1..Len(EntriesOf(cjournal, "Verified"))
                |-> EntriesOf(cjournal, "Verified")[i].record]

(* verify_recovered_payload: the bytes are hashed again.                   *)
PayloadMatches(rec) == partial[rec.place] = rec.digest

HeaderMatches == Head(Entries(cjournal)).source = source

(* Mutant: the file is not positioned behind the recovered payloads.       *)
ResumeUnseeked ==
  /\ table' = Recovered
  /\ cursor' = 1
  /\ cpc' = "next item" /\ UNCHANGED <<source, dirty>>

(* resume_partial: next_offset and the tables come from the journal alone, *)
(* and the file is positioned there.                                       *)
Resume ==
  /\ table' = Recovered
  /\ cursor' = Max({0} \union {rec.place : rec \in ToSet(Recovered)}) + 1
  /\ cpc' = "next item" /\ UNCHANGED <<source, dirty>>

ReadConversionJournal ==
  /\ cpc = "read journal"
  /\ UNCHANGED <<cdisk, faults>>
  /\ \/ NoJournal(cjournal) /\ cpc' = "create partial" /\ UNCHANGED clocals
     \/ /\ ~NoJournal(cjournal)
        /\ Readable(cjournal) /\ HeaderMatches
        /\ partial # NoFile
        /\ \A rec \in ToSet(Recovered) : PayloadMatches(rec)
        /\ Resume
     \/ /\ ~NoJournal(cjournal)
        /\ \/ ~Readable(cjournal)                                \* MalformedRecord
           \/ Readable(cjournal) /\ ~HeaderMatches
           \/ Readable(cjournal) /\ HeaderMatches /\ partial = NoFile
           \/ /\ Readable(cjournal) /\ HeaderMatches /\ partial # NoFile
              /\ \E rec \in ToSet(Recovered) : ~PayloadMatches(rec)
        /\ CFail

CreatePartial ==
  /\ cpc = "create partial"
  /\ partial' = [p \in Places |-> Hole]
  /\ CGoto("create journal")
  /\ UNCHANGED <<cjournal, container>>

CreateConversionJournal ==
  /\ cpc = "create journal"
  /\ cjournal' = EmptyJournal
  /\ CGoto("header")
  /\ UNCHANGED <<partial, container>>

AppendItemHeader ==
  /\ cpc = "header"
  /\ cjournal' = Appended(cjournal, ItemHeader(source))
  /\ CGoto("next item")
  /\ UNCHANGED <<partial, container>>

-----------------------------------------------------------------------------
(* The tensors in the order of the source, then the experts layer by       *)
(* layer; has_extent and has_expert pass over what was recovered.          *)
Recorded == {rec.item : rec \in ToSet(table)}
Pending  == Items \ Recorded

NextItem ==
  /\ cpc = "next item"
  /\ IF Pending = {} THEN CGoto("tables") ELSE CGoto("write")
  /\ UNCHANGED cdisk

(* write_extent, write_expert_parts: behind the last payload.  Reading the *)
(* source, the quantisation or the broker may refuse.                      *)
WriteItem ==
  /\ cpc = "write"
  /\ UNCHANGED <<cjournal, container, faults>>
  /\ LET i == Min(Pending)
         rec == [item |-> i, place |-> Len(table) + 1, digest |-> Digest(source, i)]
     IN \/ /\ partial' = [partial EXCEPT ![cursor] = Digest(source, i)]
           /\ table' = Append(table, rec)
           /\ dirty' = cursor /\ cursor' = cursor + 1
           /\ cpc' = "sync" /\ UNCHANGED source
        \/ CFail /\ UNCHANGED partial

SyncPayload ==
  /\ cpc = "sync"
  /\ dirty' = 0 /\ cpc' = "append"
  /\ UNCHANGED <<cdisk, source, table, cursor, faults>>

AppendItem ==
  /\ cpc = "append"
  /\ cjournal' = Appended(cjournal, Verified(Last(table)))
  /\ CGoto("next item")
  /\ UNCHANGED <<partial, container>>

-----------------------------------------------------------------------------
(* finish: tables and superblock behind the payloads, synced, ...          *)
WriteTables ==
  /\ cpc = "tables"
  /\ partial' = [partial EXCEPT ![cursor] = Tables]
  /\ CGoto("rename")
  /\ UNCHANGED <<cjournal, container>>

(* ... the rename, and only then the journal's last line.                  *)
RenamePartial ==
  /\ cpc = "rename"
  /\ container' = [source |-> source, table |-> table, places |-> partial]
  /\ partial' = NoFile
  /\ CGoto("finalize")
  /\ UNCHANGED cjournal

AppendItemsFinalized ==
  /\ cpc = "finalize"
  /\ cjournal' = Appended(cjournal, ItemsFinalized)
  /\ CGoto("remove journal")
  /\ UNCHANGED <<partial, container>>

(* An error of the removal is ignored.                                     *)
RemoveConversionJournal ==
  /\ cpc = "remove journal"
  /\ cjournal' \in {NoFile, cjournal}
  /\ CGoto("open")
  /\ UNCHANGED <<partial, container>>

(* TqfReader::open_validated reads the tables; payloads are checked when   *)
(* they are loaded.  The broker may refuse the tables' envelope.           *)
OpenContainer ==
  /\ cpc = "open"
  /\ \/ CReturn("done") \/ CFail
  /\ UNCHANGED <<cdisk, faults>>

-----------------------------------------------------------------------------
(* A crash or an error of the file system: what was written and not synced *)
(* may be lost.                                                            *)
CFault ==
  /\ cpc \notin {"idle", "done", "failed"} /\ faults < MaxFaults
  /\ faults' = faults + 1 /\ CFail

CutConversion ==
  /\ CFault
  /\ partial' \in IF dirty = 0 \/ partial = NoFile THEN {partial}
                  ELSE {partial, [partial EXCEPT ![dirty] = Torn]}
  /\ UNCHANGED <<cjournal, container>>

CutItem ==
  /\ CFault
  /\ cpc \in {"write", "tables"}
  /\ partial' = [partial EXCEPT ![cursor] = Torn]
  /\ UNCHANGED <<cjournal, container>>

CAppending ==
  CASE cpc = "header"   -> {ItemHeader(source)}
    [] cpc = "append"   -> {Verified(Last(table))}
    [] cpc = "finalize" -> {ItemsFinalized}
    [] OTHER            -> {}

CutConversionAppend ==
  /\ CFault
  /\ \E e \in CAppending : cjournal' \in CutOff(cjournal, e)
  /\ UNCHANGED <<partial, container>>

-----------------------------------------------------------------------------
CStep ==
  \/ BeginTransaction \/ ReadConversionJournal \/ CreatePartial
  \/ CreateConversionJournal \/ AppendItemHeader \/ NextItem \/ WriteItem
  \/ SyncPayload \/ AppendItem \/ WriteTables \/ RenamePartial
  \/ AppendItemsFinalized \/ RemoveConversionJournal \/ OpenContainer

CCut == CutConversion \/ CutItem \/ CutConversionAppend

-----------------------------------------------------------------------------
(* Properties.                                                             *)

Records == [item : Items, place : Items, digest : Sources \X Items]
Bytes   == {Hole, Torn, Tables} \union (Sources \X Items)
Journals ==
  [lines : Seq({ItemHeader(s) : s \in Sources} \union {Verified(rec) : rec \in Records}
               \union {ItemsFinalized, Garbage}),
   ended : BOOLEAN]
Containers == [source : Sources, table : Seq(Records), places : [Places -> Bytes]]

(* The types of the files and of the writer's fields.                      *)
ConversionTypeOK ==
  /\ partial \in [Places -> Bytes] \union {NoFile}
  /\ cjournal \in Journals \union {NoFile} /\ container \in Containers \union {NoFile}
  /\ cpc \in {"idle", "begin", "read journal", "create partial", "create journal", "header",
             "next item", "write", "sync", "append", "tables", "rename", "finalize",
             "remove journal", "open", "done", "failed"}
  /\ source \in Sources \union {NoFile}
  /\ table \in Seq(Records)
  /\ cursor \in 1..(NumItems + 2) /\ dirty \in 0..NumItems

(* Whatever was cut off, resumed or asked for in between, a file under the *)
(* container's name holds every payload of its source once, at the place   *)
(* and with the digest its table names, its tables behind them: the        *)
(* installed file is never a mixture and never incomplete.                 *)
InstalledIsComplete ==
  container # NoFile =>
    /\ \A i \in Items : \E rec \in ToSet(container.table) : rec.item = i
    /\ Len(container.table) = NumItems
    /\ \A rec \in ToSet(container.table) :
         /\ rec.digest = Digest(container.source, rec.item)
         /\ container.places[rec.place] = rec.digest
    /\ container.places[NumItems + 1] = Tables

(* "the two together are what 'verified' means" (conversion.rs:307-309):   *)
(* every payload the journal lists is in the .partial file with the digest *)
(* it lists, also after a crash that loses what was not synced.            *)
ConversionJournalIsOnDisk ==
  partial # NoFile => \A e \in ToSet(EntriesOf(cjournal, "Verified")) : PayloadMatches(e.record)

(* "resuming with a different source is rejected rather than silently      *)
(* mixing extents from two conversions" (conversion.rs:236-238).           *)
ConversionsDoNotMix ==
  \A rec \in ToSet(table) : rec.digest[1] = source
-----------------------------------------------------------------------------
(* Why these hold.  A payload's number is its place, and the writer goes   *)
(* through them in order; the journal, up to its first malformed line,     *)
(* names the source and then the payloads from the first one on.           *)
RecordOf(s, i) == [item |-> i, place |-> i, digest |-> Digest(s, i)]
Tabled(t, s)   == \A i \in DOMAIN t : t[i] = RecordOf(s, i)

Wellformed(lines, n) == \A i \in 1..n : lines[i] # Garbage

InPlace(lines, file, i) ==
  LET s == lines[1].source
  IN  /\ lines[i] = IF i = 1 THEN ItemHeader(s) ELSE Verified(RecordOf(s, i - 1))
      /\ i > 1 /\ file # NoFile => file[i - 1] = Digest(s, i - 1)

InOrder(lines, file) ==
  \A i \in DOMAIN lines : Wellformed(lines, i) => InPlace(lines, file, i)

JournalInOrder ==
  container = NoFile /\ cjournal # NoFile => InOrder(cjournal.lines, partial)

(* A journal that lists at most m payloads, and m if none of it is lost.   *)
Lists(j, m) ==
  /\ \A i \in DOMAIN j.lines : Wellformed(j.lines, i) => i <= m + 1
  /\ j.ended /\ Wellformed(j.lines, Len(j.lines)) => Len(j.lines) = m + 1

Writing == cpc \in {"next item", "write", "sync", "append", "tables", "rename"}

(* Payloads the journal should list: not yet the one just written.         *)
Settled == IF cpc \in {"sync", "append"} THEN Len(table) - 1 ELSE Len(table)

WriterInOrder ==
  Writing =>
    /\ partial \in [Places -> Bytes] /\ cursor = Len(table) + 1
    /\ \A i \in DOMAIN table : partial[i] = Digest(source, i)
    /\ cjournal \in Journals /\ cjournal.lines # <<>>
    /\ Wellformed(cjournal.lines, 1) => cjournal.lines[1].source = source
    /\ Lists(cjournal, Settled)

StepsInOrder ==
  /\ cpc \in {"read journal", "create partial", "create journal", "header"} \/ Writing => container = NoFile
  /\ cpc \in {"create partial", "create journal"} => NoJournal(cjournal)
  /\ cpc = "header" => cjournal = EmptyJournal
  /\ cpc \in {"finalize", "remove journal"} => container # NoFile /\ cjournal \in Journals
  /\ cpc \notin {"idle", "done", "failed"} => source \in Sources
  /\ Writing \/ cpc \in {"finalize", "remove journal", "open"} \/ (table = <<>> /\ cursor = 1)
  /\ cpc \in {"create journal", "header"} => partial \in [Places -> Bytes]
  /\ Tabled(table, source)
  /\ dirty = IF cpc = "sync" THEN Len(table) ELSE 0
  /\ cpc = "write" => Pending # {}
  /\ cpc \in {"tables", "rename"} => Len(table) = NumItems
  /\ cpc \in {"sync", "append"} => Len(table) > 0
  /\ cpc = "rename" => partial[NumItems + 1] = Tables

InstalledInOrder ==
  container # NoFile =>
    /\ partial = NoFile
    /\ Len(container.table) = NumItems /\ Tabled(container.table, container.source)
    /\ \A i \in Items : container.places[i] = Digest(container.source, i)
    /\ container.places[NumItems + 1] = Tables

ConversionIInv ==
  /\ ConversionTypeOK /\ InstalledInOrder
  /\ JournalInOrder /\ WriterInOrder /\ StepsInOrder
=============================================================================
