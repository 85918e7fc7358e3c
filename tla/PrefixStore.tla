---------------------------- MODULE PrefixStore ----------------------------
(***************************************************************************)
(* src/src/context/prefix/mod.rs: the on-disk store of prefix snapshots.   *)
(*                                                                         *)
(* A snapshot is a manifest that names content-addressed blobs; snapshots  *)
(* share blobs, and blob-refcounts.toml says how often each is named.      *)
(* index.toml lists the snapshots for eviction.  Every file is replaced    *)
(* atomically, one after the other; a crash, or an error of the file       *)
(* system, can fall between any two of them.                               *)
(*                                                                         *)
(* The index orders snapshots by a wall clock in seconds, which may stand  *)
(* still or step back: any listed snapshot may be the next one evicted.    *)
(* load() and touch() change nothing but that clock and are left out.      *)
(* A blob counts one unit of the quota, and a snapshot names it once.      *)
(***************************************************************************)
EXTENDS Naturals, FiniteSets, FiniteSetsExt

CONSTANTS
  PrefixIds,   \* token prefixes, by their hash
  Blobs,      \* pages and recurrent states, by their hash
  Quota,      \* quota_bytes
  MaxCrashes, \* operations that are cut off (bound)
  NoFile      \* a manifest that does not exist

ASSUME PrefixStoreAssumption ==
  /\ IsFiniteSet(PrefixIds) /\ IsFiniteSet(Blobs)
  /\ Quota \in Nat /\ MaxCrashes \in Nat
  /\ NoFile \notin PrefixIds /\ \A S \in SUBSET Blobs : S # NoFile

VARIABLES
  blobs,      \* the blob files
  counts,     \* blob-refcounts.toml
  manifests,  \* snapshots/<prefix>.toml: the blobs it names
  index,      \* index.toml
  pc,         \* the next step of the operation; "idle" when there is none
  job,        \* the prefix being stored, and its blobs
  refcounts,  \* the operation's copy of counts
  todo,       \* blobs still to write or to release
  victim,     \* the prefix whose snapshot is being removed
  kept,       \* while evicting: what is left of the index
  crashes

disk == <<blobs, counts, manifests, index>>
memory == <<job, refcounts, todo, victim, kept>>
storeVars == <<disk, pc, memory, crashes>>

NoCounts == [b \in Blobs |-> 0]
Nothing  == [prefix |-> NoFile, blobs |-> {}]

StoreInit ==
  /\ blobs = {} /\ counts = NoCounts
  /\ manifests = [p \in PrefixIds |-> NoFile] /\ index = {}
  /\ pc = "idle" /\ job = Nothing /\ refcounts = NoCounts /\ todo = {}
  /\ victim = NoFile /\ kept = {}
  /\ crashes = 0

Total(entries) == MapThenSumSet(LAMBDA e : e.bytes, entries)

-----------------------------------------------------------------------------
Leave ==
  /\ pc' = "idle" /\ job' = Nothing /\ refcounts' = NoCounts /\ todo' = {}
  /\ victim' = NoFile /\ kept' = {}

(* store: the counts are read first ...                                    *)
Store(p, S) ==
  /\ pc = "idle"
  /\ pc' = "blobs"
  /\ job' = [prefix |-> p, blobs |-> S]
  /\ refcounts' = counts
  /\ todo' = S
  /\ UNCHANGED <<disk, victim, kept, crashes>>

(* ... write_blob_if_absent: "absent" is what the counts say ...           *)
WriteBlob(b) ==
  /\ pc = "blobs" /\ b \in todo
  /\ blobs' = IF refcounts[b] = 0 THEN blobs \union {b} ELSE blobs
  /\ refcounts' = [refcounts EXCEPT ![b] = @ + 1]
  /\ todo' = todo \ {b}
  /\ UNCHANGED <<counts, manifests, index, pc, job, victim, kept, crashes>>

(* remove_snapshot_internal of p: nothing to do without a manifest.        *)
BeginRemove(p, next) ==
  IF manifests[p] = NoFile
  THEN pc' = next /\ UNCHANGED <<todo, victim>>
  ELSE pc' = "release" /\ todo' = manifests[p] /\ victim' = p

(* ... an earlier snapshot of the same prefix goes ...                     *)
ReplaceOld ==
  /\ pc = "blobs" /\ todo = {}
  /\ BeginRemove(job.prefix, "manifest")
  /\ UNCHANGED <<disk, job, refcounts, kept, crashes>>

(* Mutant: the file goes with any reference.                               *)
ReleaseBlobAlways(b) ==
  /\ pc = "release" /\ b \in todo
  /\ todo' = todo \ {b}
  /\ refcounts' = [refcounts EXCEPT ![b] = IF @ = 0 THEN 0 ELSE @ - 1]
  /\ blobs' = blobs \ {b}
  /\ UNCHANGED <<counts, manifests, index, pc, job, victim, kept, crashes>>

(* release_blob: the file goes with the last reference that is counted.    *)
ReleaseBlob(b) ==
  /\ pc = "release" /\ b \in todo
  /\ todo' = todo \ {b}
  /\ refcounts' = [refcounts EXCEPT ![b] = IF @ = 0 THEN 0 ELSE @ - 1]
  /\ blobs' = IF refcounts[b] = 1 THEN blobs \ {b} ELSE blobs
  /\ UNCHANGED <<counts, manifests, index, pc, job, victim, kept, crashes>>

Evicting == job = Nothing

RemoveManifest ==
  /\ pc = "release" /\ todo = {}
  /\ manifests' = [manifests EXCEPT ![victim] = NoFile]
  /\ victim' = NoFile
  /\ pc' = IF Evicting THEN "evict" ELSE "manifest"
  /\ UNCHANGED <<blobs, counts, index, job, refcounts, todo, kept, crashes>>

(* ... the new manifest, the counts and the index are written ...          *)
WriteManifest ==
  /\ pc = "manifest"
  /\ manifests' = [manifests EXCEPT ![job.prefix] = job.blobs]
  /\ pc' = "counts"
  /\ UNCHANGED <<blobs, counts, index, memory, crashes>>

SaveCounts ==
  /\ pc = "counts"
  /\ counts' = refcounts
  /\ IF Evicting THEN Leave ELSE pc' = "index" /\ UNCHANGED memory
  /\ UNCHANGED <<blobs, manifests, index, crashes>>

SaveIndex ==
  /\ pc = "index"
  /\ index' = {e \in index : e.prefix # job.prefix}
              \union {[prefix |-> job.prefix, bytes |-> Cardinality(job.blobs)]}
  /\ job' = Nothing
  /\ pc' = "quota"
  /\ UNCHANGED <<blobs, counts, manifests, refcounts, todo, victim, kept, crashes>>

(* ... and evict_to_quota reads index and counts again.                    *)
CheckQuota ==
  /\ pc = "quota"
  /\ IF Total(index) <= Quota
     THEN Leave
     ELSE /\ pc' = "evict" /\ kept' = index /\ refcounts' = counts
          /\ UNCHANGED <<job, todo, victim>>
  /\ UNCHANGED <<disk, crashes>>

EvictOne(e) ==
  /\ pc = "evict" /\ e \in kept
  /\ Total(kept) > Quota
  /\ kept' = kept \ {e}
  /\ BeginRemove(e.prefix, "evict")
  /\ UNCHANGED <<disk, job, refcounts, crashes>>

(* The index is saved before the counts.                                   *)
EvictDone ==
  /\ pc = "evict"
  /\ Total(kept) <= Quota
  /\ index' = kept
  /\ pc' = "counts"
  /\ UNCHANGED <<blobs, counts, manifests, memory, crashes>>

Crash ==
  /\ pc # "idle" /\ crashes < MaxCrashes
  /\ crashes' = crashes + 1
  /\ Leave
  /\ UNCHANGED disk

Snapshots == (SUBSET Blobs) \ {{}}

StoreNext ==
  \/ \E p \in PrefixIds, S \in Snapshots : Store(p, S)
  \/ \E b \in Blobs : WriteBlob(b) \/ ReleaseBlob(b)
  \/ ReplaceOld \/ RemoveManifest \/ WriteManifest \/ SaveCounts \/ SaveIndex
  \/ CheckQuota \/ (\E e \in kept : EvictOne(e)) \/ EvictDone
  \/ Crash

StoreSpec == StoreInit /\ [][StoreNext]_storeVars
-----------------------------------------------------------------------------
Stored == {p \in PrefixIds : manifests[p] # NoFile}
Named(b) == {p \in Stored : b \in manifests[p]}
Entries == [prefix : PrefixIds, bytes : 1..Cardinality(Blobs)]

(* The files and the operation's copies have their types; no count is     *)
(* below zero, not even one that a crash left too low.                     *)
StoreTypeOK ==
  /\ blobs \subseteq Blobs /\ index \subseteq Entries /\ kept \subseteq Entries
  /\ {counts, refcounts} \subseteq [Blobs -> Nat]
  /\ \A p \in Stored : manifests[p] \in Snapshots
  /\ pc \in {"idle", "blobs", "release", "manifest", "counts", "index", "quota", "evict"}
  /\ job = Nothing \/ job \in [prefix : PrefixIds, blobs : Snapshots]
  /\ todo \subseteq Blobs /\ victim \in PrefixIds \union {NoFile}
  /\ crashes \in 0..MaxCrashes

(* "two snapshots ... share the same TQKV page bytes on disk, and evicting *)
(* one snapshot never corrupts the other" (mod.rs:22-24): at every step of *)
(* a store or an eviction, every snapshot but the one being removed has    *)
(* all of its blobs, as long as no operation has been cut off.             *)
OthersIntact ==
  crashes = 0 => \A p \in Stored \ {victim} : manifests[p] \subseteq blobs

(* Between operations that were not cut off, the counts are the number of  *)
(* manifests that name a blob, and no file is left that none names.        *)
CountsExact ==
  crashes = 0 /\ pc = "idle" =>
    /\ \A b \in Blobs : counts[b] = Cardinality(Named(b))
    /\ blobs = {b \in Blobs : Named(b) # {}}

(* Between operations that were not cut off, what the manifests name is    *)
(* within the quota, and the index lists exactly them.                     *)
WithinQuota ==
  crashes = 0 /\ pc = "idle" =>
    /\ index = {[prefix |-> p, bytes |-> Cardinality(manifests[p])] : p \in Stored}
    /\ Total(index) <= Quota

(* The store of prefixes: no snapshot loses a blob to another's removal,   *)
(* the blobs' counts are those of the manifests, and the index is within   *)
(* the quota (context/prefix/mod.rs).                                      *)
StoreIsSound == StoreTypeOK /\ OthersIntact /\ CountsExact /\ WithinQuota

(* The same promise where an operation may be cut off between two files,   *)
(* each replaced atomically: every stored snapshot can be loaded.          *)
SurvivesCrash == pc = "idle" => \A p \in Stored : manifests[p] \subseteq blobs
-----------------------------------------------------------------------------
(* Why StoreIsSound holds: at every step of an operation, and not only     *)
(* between operations, the counts the operation works on are those of      *)
(* whoever has a claim to a blob.  A manifest has one, unless it is being  *)
(* removed and the blob is released already; so has the operation that     *)
(* stores, from the moment it has counted the blob to the moment the new   *)
(* manifest names it.  NoFile stands for that operation among the claims.  *)
Storing == job # Nothing
Tally   == IF pc = "idle" THEN counts ELSE refcounts

JobClaims(b) ==
  /\ Storing /\ pc \in {"blobs", "release", "manifest"} /\ b \in job.blobs
  /\ pc = "blobs" => b \notin todo
Claims(b) ==
  {p \in Stored : b \in manifests[p] /\ (p = victim => b \in todo)}
  \union (IF JobClaims(b) THEN {NoFile} ELSE {})

Entry(p)     == [prefix |-> p, bytes |-> Cardinality(manifests[p])]
Listing(ids) == {Entry(p) : p \in ids}

(* Which of the operation's variables are in use at which step.            *)
StepsAgree ==
  /\ manifests \in [PrefixIds -> Snapshots \union {NoFile}]
  /\ pc \in {"blobs", "manifest", "index"} => Storing
  /\ pc \in {"idle", "quota", "evict"} => ~Storing
  /\ pc = "release" => /\ victim \in Stored /\ todo \subseteq manifests[victim]
                       /\ Storing => victim = job.prefix
  /\ pc # "release" => victim = NoFile
  /\ pc = "blobs" => todo \subseteq job.blobs
  /\ pc = "manifest" => job.prefix \notin Stored
  /\ pc \in {"counts", "index"} /\ Storing => manifests[job.prefix] = job.blobs

ClaimsCounted ==
  crashes = 0 =>
    /\ \A b \in Blobs : Tally[b] = Cardinality(Claims(b))
    /\ blobs = {b \in Blobs : Claims(b) # {}}
    /\ pc \in {"index", "quota"} => counts = refcounts

(* The index lists the manifests, or, where it is not yet rewritten, what  *)
(* it will be rewritten from does.                                         *)
IndexFollows ==
  crashes = 0 =>
    /\ pc \in {"idle", "blobs", "quota"} \/ (pc = "counts" /\ ~Storing) => index = Listing(Stored)
    /\ pc = "idle" \/ (pc = "counts" /\ ~Storing) => Total(index) <= Quota
    /\ Storing => {e \in index : e.prefix # job.prefix} = Listing(Stored \ {job.prefix})
    /\ pc \in {"evict", "release"} /\ ~Storing => kept = Listing(Stored \ {victim})

StoreIInv == StoreTypeOK /\ StepsAgree /\ ClaimsCounted /\ IndexFollows
=============================================================================
