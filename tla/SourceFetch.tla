---------------------------- MODULE SourceFetch ----------------------------
(***************************************************************************)
(* src/src/source/mod.rs, journal.rs, manifest.rs and retry.rs: the        *)
(* resumable download of one pinned artifact into its directory.           *)
(*                                                                         *)
(* The disk holds the .part file, the append-only journal of verified      *)
(* chunks, the final file and the manifest.  It outlives the process; a    *)
(* call of fetch_verified starts from whatever an earlier one left there.  *)
(***************************************************************************)
EXTENDS LineJournal

CONSTANTS
  NumChunks,    \* chunks of the artifact
  MaxAttempts,  \* RetryPolicy::max_attempts
  MaxFaults     \* bound: calls cut off by a crash or a file-system error

ASSUME SourceFetchAssumption ==
  /\ NumChunks \in Nat \ {0}
  /\ MaxAttempts \in Nat \ {0}
  /\ MaxFaults \in Nat

Chunks   == 1..NumChunks
Contents == {"hole", "good", "bad"}    \* "good": the bytes the pin names

Header              == [event |-> "Header"]
ChunkVerified(c, x) == [event |-> "ChunkVerified", chunk |-> c, content |-> x]
Finalized           == [event |-> "Finalized"]

VARIABLES
  part, final,  \* NoFile, or what each chunk of the file holds
  journal,      \* NoFile, or its lines and whether the last has its newline
  manifest,     \* manifest.toml records the artifact
  pc,           \* the call's next step; "idle" when no call runs
  offset,       \* the chunk the loop is at
  skip,         \* already_verified
  attempt,      \* of the chunk's download
  bytes,        \* what that download returned
  faults

disk == <<part, final, journal, manifest>>
vars == <<disk, pc, offset, skip, attempt, bytes, faults>>

Init ==
  /\ part = NoFile /\ final = NoFile /\ journal = NoFile /\ manifest = FALSE
  /\ pc = "idle" /\ offset = 1 /\ skip = {} /\ attempt = 0 /\ bytes = "hole"
  /\ faults = 0

-----------------------------------------------------------------------------
(* The entries of the journal that count as verified chunks.               *)
Verified(j) == ToSet(EntriesOf(j, "ChunkVerified"))

Journalled == {e.chunk : e \in Verified(journal)}

-----------------------------------------------------------------------------
(* fetch_verified                                                          *)

(* The call is over, whatever its result: its locals are gone.             *)
Leave == pc' = "idle" /\ offset' = 1 /\ skip' = {} /\ attempt' = 0 /\ bytes' = "hole"

locals == <<offset, skip, attempt, bytes>>
Goto(p) == pc' = p /\ UNCHANGED <<locals, faults>>

Begin == pc = "idle" /\ Goto("manifest?") /\ UNCHANGED disk

Published == manifest /\ final # NoFile

CheckManifest ==
  /\ pc = "manifest?"
  /\ IF Published THEN Leave /\ UNCHANGED faults ELSE Goto("read journal")
  /\ UNCHANGED disk

ReadJournal ==
  /\ pc = "read journal"
  /\ UNCHANGED <<disk, faults>>
  /\ \/ NoJournal(journal) /\ pc' = "preallocate" /\ UNCHANGED locals
     \/ /\ ~NoJournal(journal) /\ Readable(journal)
        /\ pc' = "loop"
        /\ skip' = Journalled
        /\ UNCHANGED <<offset, attempt, bytes>>
     \/ ~NoJournal(journal) /\ ~Readable(journal) /\ Leave    \* JournalCorrupt

Preallocate ==
  /\ pc = "preallocate"
  /\ part' = [c \in Chunks |-> "hole"]
  /\ Goto("create journal")
  /\ UNCHANGED <<final, journal, manifest>>

CreateJournal ==
  /\ pc = "create journal"
  /\ journal' = EmptyJournal
  /\ Goto("header")
  /\ UNCHANGED <<part, final, manifest>>

AppendHeader ==
  /\ pc = "header"
  /\ journal' = Appended(journal, Header)
  /\ Goto("loop")
  /\ UNCHANGED <<part, final, manifest>>

(* Mutant: what the journal says is not consulted.                         *)
NextChunkUnskipped ==
  /\ pc = "loop"
  /\ UNCHANGED <<disk, faults>>
  /\ \/ offset > NumChunks /\ pc' = "hash" /\ UNCHANGED locals
     \/ offset \in Chunks /\ pc' = "fetch" /\ UNCHANGED locals
     \/ offset \in Chunks /\ Leave

(* while offset < total_size: an already verified chunk is passed over;    *)
(* for another one the broker's lease may be refused.                      *)
NextChunk ==
  /\ pc = "loop"
  /\ UNCHANGED <<disk, faults>>
  /\ \/ offset > NumChunks /\ pc' = "hash" /\ UNCHANGED locals
     \/ /\ offset \in skip
        /\ offset' = offset + 1
        /\ UNCHANGED <<pc, skip, attempt, bytes>>
     \/ offset \in Chunks \ skip /\ pc' = "fetch" /\ UNCHANGED locals
     \/ offset \in Chunks \ skip /\ Leave    \* BudgetExceeded

(* fetch_chunk_with_retry: one attempt.  The bytes returned need not be    *)
(* the pinned ones; a terminal error or a short read ends the call.        *)
ReadRange ==
  /\ pc = "fetch"
  /\ UNCHANGED <<disk, faults>>
  /\ \/ /\ bytes' \in {"good", "bad"}
        /\ pc' = "write" /\ attempt' = 0 /\ UNCHANGED <<offset, skip>>
     \/ /\ attempt + 1 < MaxAttempts
        /\ attempt' = attempt + 1 /\ UNCHANGED <<pc, offset, skip, bytes>>
     \/ Leave

(* write_chunk opens the .part file without creating it.                   *)
WriteChunk ==
  /\ pc = "write"
  /\ UNCHANGED <<final, journal, manifest>>
  /\ IF part # NoFile
     THEN part' = [part EXCEPT ![offset] = bytes] /\ Goto("append")
     ELSE UNCHANGED <<part, faults>> /\ Leave

AppendChunk ==
  /\ pc = "append"
  /\ journal' = Appended(journal, ChunkVerified(offset, bytes))
  /\ pc' = "loop" /\ offset' = offset + 1 /\ bytes' = "hole"
  /\ UNCHANGED <<part, final, manifest, skip, attempt, faults>>

(* Mutant: only the presence of the bytes is checked.                      *)
MatchesAnyBytes(file) == file # NoFile /\ \A c \in Chunks : file[c] # "hole"

(* The whole-file hash against the pin.                                    *)
Matches(file) == file # NoFile /\ \A c \in Chunks : file[c] = "good"

(* Mutant: a mismatch resumes from the journal instead of ending the call. *)
CheckHashAgain ==
  /\ pc = "hash"
  /\ IF Matches(part) THEN Goto("finalize")
     ELSE pc' = "read journal" /\ offset' = 1 /\ UNCHANGED <<skip, attempt, bytes, faults>>
  /\ UNCHANGED disk

CheckHash ==
  /\ pc = "hash"
  /\ IF Matches(part) THEN Goto("finalize") ELSE Leave /\ UNCHANGED faults
  /\ UNCHANGED disk

AppendFinalized ==
  /\ pc = "finalize"
  /\ journal' = Appended(journal, Finalized)
  /\ Goto("rename")
  /\ UNCHANGED <<part, final, manifest>>

Rename ==
  /\ pc = "rename"
  /\ final' = part /\ part' = NoFile
  /\ Goto("save manifest")
  /\ UNCHANGED <<journal, manifest>>

SaveManifest ==
  /\ pc = "save manifest"
  /\ manifest' = TRUE
  /\ Goto("remove journal")
  /\ UNCHANGED <<part, final, journal>>

(* An error of the removal is ignored.                                     *)
RemoveJournal ==
  /\ pc = "remove journal"
  /\ journal' \in {NoFile, journal}
  /\ Leave
  /\ UNCHANGED <<part, final, manifest, faults>>

-----------------------------------------------------------------------------
(* A crash, or an error of the file system, in the middle of a step: what  *)
(* the step had written stays on disk and the call is over.                *)
Fault == pc # "idle" /\ faults < MaxFaults /\ faults' = faults + 1 /\ Leave

CutBetweenSteps == Fault /\ UNCHANGED disk

CutWrite ==
  /\ Fault
  /\ pc = "write" /\ part # NoFile
  /\ part' = [part EXCEPT ![offset] = "bad"]
  /\ UNCHANGED <<final, journal, manifest>>

Appending ==
  CASE pc = "header"   -> {Header}
    [] pc = "append"   -> {ChunkVerified(offset, bytes)}
    [] pc = "finalize" -> {Finalized}
    [] OTHER           -> {}

CutAppend ==
  /\ Fault
  /\ \E e \in Appending : journal' \in CutOff(journal, e)
  /\ UNCHANGED <<part, final, manifest>>

-----------------------------------------------------------------------------
Step ==
  \/ CheckManifest \/ ReadJournal \/ Preallocate \/ CreateJournal \/ AppendHeader
  \/ NextChunk \/ ReadRange \/ WriteChunk \/ AppendChunk
  \/ CheckHash \/ AppendFinalized \/ Rename \/ SaveManifest \/ RemoveJournal

Next == Begin \/ Step \/ CutBetweenSteps \/ CutWrite \/ CutAppend

Spec == Init /\ [][Next]_vars

(* A call that runs goes on running; nobody is obliged to start one.       *)
FairSpec == Spec /\ WF_vars(Step)

-----------------------------------------------------------------------------
(* Properties.                                                             *)

Files == {NoFile} \cup [Chunks -> Contents]
Lines ==
  {Header, Finalized, Garbage} \cup {ChunkVerified(c, x) : c \in Chunks, x \in {"good", "bad"}}
Journals == [lines : Seq(Lines), ended : BOOLEAN]

(* Every variable has its type: the files, the journal's lines, and the    *)
(* locals of fetch_remote, source/mod.rs:184-323.                          *)
TypeOK ==
  /\ part \in Files /\ final \in Files
  /\ journal \in Journals \cup {NoFile}
  /\ manifest \in BOOLEAN
  /\ pc \in {"idle", "manifest?", "read journal", "preallocate", "create journal", "header",
            "loop", "fetch", "write", "append", "hash", "finalize", "rename",
            "save manifest", "remove journal"}
  /\ offset \in 1..(NumChunks + 1) /\ skip \subseteq Chunks
  /\ attempt \in 0..(MaxAttempts - 1) /\ bytes \in Contents
  /\ faults \in 0..MaxFaults

(* However many calls it took and wherever they were cut off, a file under *)
(* the final name has the pinned content, and a manifest is only there     *)
(* with that file: conversion takes both on trust.                         *)
PublishedIsVerified ==
  /\ final # NoFile => \A c \in Chunks : final[c] = "good"
  /\ manifest => final # NoFile

(* A chunk the journal says is verified is in the .part file with the very *)
(* bytes that were hashed: a later call skips it unread.                   *)
JournalledIsOnDisk ==
  part # NoFile => \A e \in Verified(journal) : part[e.chunk] = e.content

(* Why the two hold: what a call has taken from the journal stays true of  *)
(* it, because an append that lands on a cut line can only lose entries;   *)
(* the chunk being fetched is not journalled; and what is renamed matches. *)
FetchIInv ==
  /\ TypeOK /\ PublishedIsVerified /\ JournalledIsOnDisk
  /\ pc \in {"preallocate", "create journal"} => NoJournal(journal)
  /\ pc = "header" => journal = EmptyJournal
  /\ pc \in {"loop", "fetch", "write", "append", "hash", "finalize"} =>
       journal \in Journals /\ Journalled \subseteq skip \cup {c \in Chunks : c < offset}
  /\ pc \in {"fetch", "write", "append"} => offset \in Chunks \ skip
  /\ pc \in {"write", "append"} => bytes # "hole"
  /\ pc = "append" => part # NoFile /\ part[offset] = bytes
  /\ pc \in {"finalize", "rename"} => Matches(part)
  /\ pc = "save manifest" => final # NoFile

(* No call downloads a chunk again that the journal, as it can be read at  *)
(* that moment, says is verified: resuming repeats no transfer.            *)
NoRepeatedTransfer == [][ReadRange => offset \notin Journalled]_vars

(* source/mod.rs:126 "resuming from any prior partial state": between      *)
(* calls, an artifact not yet published is in a state from which a call    *)
(* with a good network and no fault succeeds.  It is not so: a header line *)
(* cut off is no header; a cut line that the next call appends to is       *)
(* malformed and, an append later, no longer the last; after the rename    *)
(* and before the manifest the journal speaks of a .part file that is      *)
(* gone; and a mismatch leaves the bad chunks journalled.                  *)
ResumesFromAnyPartialState ==
  pc = "idle" /\ ~Published /\ ~NoJournal(journal) =>
    /\ Readable(journal)
    /\ part # NoFile
    /\ \A e \in Verified(journal) : e.content = "good"

=============================================================================
