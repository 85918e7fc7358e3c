--------------------------- MODULE Runtime_proofs ---------------------------
(***************************************************************************)
(* The components of the resident runtime that keep state of their own     *)
(* beside its sessions, for any value of their constants: the prefix store *)
(* on disk, a forward pass over a prompt, and the threads of the staged    *)
(* product.                                                                *)
(***************************************************************************)
EXTENDS PrefixStore, Prefill, StagedKernel, Lemmas

(***************************************************************************)
(* The prefix store: blobs, counts and index, for any prefixes, any blobs,  *)
(* any quota and any number of operations cut off.                          *)
(***************************************************************************)
Jobs  == [prefix : PrefixIds, blobs : Snapshots]
Steps == {"idle", "blobs", "release", "manifest", "counts", "index", "quota", "evict"}

LEMMA Names ==
  /\ NoFile \notin PrefixIds /\ NoFile \notin Snapshots /\ NoFile \notin Stored
  /\ Nothing \notin Jobs
  /\ Quota \in Nat /\ MaxCrashes \in Nat
BY PrefixStoreAssumption DEF Snapshots, Stored, Nothing, Jobs

(* What a snapshot weighs, and what a removal of one looks like.           *)
LEMMA SnapshotSize ==
  ASSUME NEW S \in Snapshots PROVE Cardinality(S) \in 1..Cardinality(Blobs)
<1>1. S \subseteq Blobs /\ S # {}
  BY DEF Snapshots
<1>2. /\ IsFiniteSet(S) /\ Cardinality(S) <= Cardinality(Blobs)
      /\ Cardinality(S) \in Nat /\ Cardinality(Blobs) \in Nat
  BY <1>1, FS_Subset, FS_CardinalityType, PrefixStoreAssumption
<1>3. Cardinality(S) # 0
  BY <1>1, <1>2, FS_EmptySet
<1> QED BY <1>2, <1>3

(* The quota holds of a store that is empty.                               *)
LEMMA EmptyTotal == Total({}) = 0
<1> DEFINE Pick(S) == CHOOSE x \in S : TRUE
<1> DEFINE sum == [s \in SUBSET {} |-> 0]
<1> DEFINE IsSum(f) ==
      f = [s \in SUBSET {} |-> IF s = {} THEN 0 ELSE Pick(s).bytes + f[s \ {Pick(s)}]]
<1>1. IsSum(sum)
  OBVIOUS
<1>2. IsSum(CHOOSE f : IsSum(f))
  <2> HIDE DEF IsSum
  <2> QED BY <1>1
<1>3. (CHOOSE f : IsSum(f))[{}] = 0
  BY <1>2
<1>4. Total({}) = (CHOOSE f : IsSum(f))[{}]
  BY DEF Total, MapThenSumSet, MapThenFoldSet
<1> QED BY <1>3, <1>4

-----------------------------------------------------------------------------
(* Types, and which variable is in use at which step.                      *)
Shape == StoreTypeOK /\ StepsAgree

LEMMA ShapeInit == StoreInit => Shape
<1> SUFFICES ASSUME StoreInit PROVE Shape
  OBVIOUS
<1>1. Stored = {}
  BY DEF StoreInit, Stored
<1>2. 0 \in 0..MaxCrashes
  BY Names
<1>3. StoreTypeOK
  BY <1>1, <1>2 DEF StoreInit, StoreTypeOK, NoCounts, Entries
<1>4. StepsAgree
  BY <1>1, Names DEF StoreInit, StepsAgree, Storing
<1> QED BY <1>3, <1>4 DEF Shape

LEMMA LeaveShape ==
  ASSUME Shape, Leave, UNCHANGED <<blobs, index>>, manifests' = manifests,
         counts' \in {counts, refcounts}, crashes' \in 0..MaxCrashes
  PROVE  Shape'
<1>1. Stored' = Stored
  BY DEF Stored
<1>2. NoCounts \in [Blobs -> Nat]
  BY DEF NoCounts
<1>3. StoreTypeOK'
  BY <1>1, <1>2 DEF Shape, StoreTypeOK, Leave
<1>4. StepsAgree'
  BY <1>1 DEF Shape, StepsAgree, Leave, Storing
<1> QED BY <1>3, <1>4 DEF Shape

(* BeginRemove: of a prefix to be stored, or of one to be evicted.         *)
LEMMA RemoveShape ==
  ASSUME Shape, NEW p \in PrefixIds, NEW next \in {"manifest", "evict"},
         BeginRemove(p, next), pc # "release", UNCHANGED <<disk, job, refcounts, crashes>>,
         next = "manifest" => (Storing /\ p = job.prefix /\ todo = {}),
         next = "evict" => ~Storing,
         kept' \subseteq kept
  PROVE  Shape'
<1>1. /\ Stored' = Stored /\ manifests' = manifests /\ blobs' = blobs /\ index' = index
      /\ counts' = counts
  BY DEF Stored, disk
<1>2. CASE manifests[p] = NoFile
  <2>1. pc' = next /\ todo' = todo /\ victim' = victim /\ p \notin Stored
    BY <1>2 DEF BeginRemove, Stored
  <2>2. StoreTypeOK'
    BY <1>1, <2>1 DEF Shape, StoreTypeOK
  <2>3. StepsAgree'
    BY <1>1, <2>1 DEF Shape, StepsAgree, Storing
  <2> QED BY <2>2, <2>3 DEF Shape
<1>3. CASE manifests[p] # NoFile
  <2>1. pc' = "release" /\ todo' = manifests[p] /\ victim' = p /\ p \in Stored
    BY <1>3 DEF BeginRemove, Stored
  <2>2. manifests[p] \subseteq Blobs
    BY <2>1 DEF Shape, StoreTypeOK, Snapshots
  <2>3. StoreTypeOK'
    BY <1>1, <2>1, <2>2 DEF Shape, StoreTypeOK
  <2>4. StepsAgree'
    BY <1>1, <2>1 DEF Shape, StepsAgree, Storing
  <2> QED BY <2>3, <2>4 DEF Shape
<1> QED BY <1>2, <1>3

LEMMA ShapeNext == Shape /\ [StoreNext]_storeVars => Shape'
<1> SUFFICES ASSUME Shape, [StoreNext]_storeVars PROVE Shape'
  OBVIOUS
<1> USE DEF Shape
<1>1. ASSUME NEW p \in PrefixIds, NEW S \in Snapshots, Store(p, S) PROVE Shape'
  <2>1. Stored' = Stored /\ UNCHANGED <<blobs, counts, manifests, index, victim, kept, crashes>>
    BY <1>1 DEF Store, Stored, disk
  <2>2. /\ pc = "idle" /\ pc' = "blobs" /\ job' = [prefix |-> p, blobs |-> S]
        /\ refcounts' = counts /\ todo' = S
    BY <1>1 DEF Store
  <2>3. job' \in [prefix : PrefixIds, blobs : Snapshots] /\ job' # Nothing /\ S \subseteq Blobs
    BY <2>2, Names DEF Nothing, Snapshots
  <2>4. StoreTypeOK'
    BY <2>1, <2>2, <2>3 DEF StoreTypeOK
  <2>5. StepsAgree'
    BY <2>1, <2>2, <2>3 DEF StepsAgree, Storing
  <2> QED BY <2>4, <2>5
<1>2. ASSUME NEW b \in Blobs, WriteBlob(b) PROVE Shape'
  <2>1. Stored' = Stored
    BY <1>2 DEF WriteBlob, Stored
  <2>2. refcounts' \in [Blobs -> Nat]
    BY <1>2 DEF WriteBlob, StoreTypeOK
  <2>3. StoreTypeOK'
    BY <1>2, <2>1, <2>2 DEF WriteBlob, StoreTypeOK
  <2>4. StepsAgree'
    BY <1>2, <2>1 DEF WriteBlob, StepsAgree, Storing
  <2> QED BY <2>3, <2>4
<1>3. CASE ReplaceOld
  <2>1. Storing /\ job.prefix \in PrefixIds
    BY <1>3 DEF ReplaceOld, StepsAgree, StoreTypeOK, Storing
  <2>2. pc # "release" /\ BeginRemove(job.prefix, "manifest") /\ todo = {} /\ kept' \subseteq kept
    BY <1>3 DEF ReplaceOld
  <2>3. UNCHANGED <<disk, job, refcounts, crashes>>
    BY <1>3 DEF ReplaceOld
  <2> QED BY <2>1, <2>2, <2>3, RemoveShape
<1>4. ASSUME NEW b \in Blobs, ReleaseBlob(b) PROVE Shape'
  <2>1. Stored' = Stored
    BY <1>4 DEF ReleaseBlob, Stored
  <2>2. refcounts' \in [Blobs -> Nat]
    BY <1>4 DEF ReleaseBlob, StoreTypeOK
  <2>3. StoreTypeOK'
    BY <1>4, <2>1, <2>2 DEF ReleaseBlob, StoreTypeOK
  <2>4. StepsAgree'
    BY <1>4, <2>1 DEF ReleaseBlob, StepsAgree, Storing
  <2> QED BY <2>3, <2>4
<1>5. CASE RemoveManifest
  <2>1. /\ victim \in PrefixIds /\ victim \in Stored
        /\ manifests' = [manifests EXCEPT ![victim] = NoFile]
    BY <1>5 DEF RemoveManifest, StepsAgree, Stored
  <2>2. /\ Stored' = Stored \ {victim} /\ \A p \in Stored' : manifests'[p] = manifests[p]
        /\ manifests' \in [PrefixIds -> Snapshots \union {NoFile}]
    BY <2>1 DEF StepsAgree, Stored
  <2>3. /\ pc = "release" /\ pc' = (IF Storing THEN "manifest" ELSE "evict")
        /\ victim' = NoFile /\ UNCHANGED <<blobs, counts, index, job, refcounts, todo, kept, crashes>>
    BY <1>5 DEF RemoveManifest, Evicting, Storing
  <2>4. StoreTypeOK'
    BY <2>2, <2>3 DEF StoreTypeOK
  <2>5. StepsAgree'
    BY <2>2, <2>3 DEF StepsAgree, Storing
  <2> QED BY <2>4, <2>5
<1>6. CASE WriteManifest
  <2>1. /\ Storing /\ job.prefix \in PrefixIds /\ job.blobs \in Snapshots
        /\ manifests' = [manifests EXCEPT ![job.prefix] = job.blobs]
    BY <1>6 DEF WriteManifest, StepsAgree, StoreTypeOK, Storing
  <2>2. /\ manifests'[job.prefix] = job.blobs
        /\ \A p \in Stored' : p = job.prefix \/ (p \in Stored /\ manifests'[p] = manifests[p])
        /\ manifests' \in [PrefixIds -> Snapshots \union {NoFile}]
    BY <2>1 DEF StepsAgree, Stored
  <2>3. /\ pc = "manifest" /\ pc' = "counts" /\ victim = NoFile
        /\ UNCHANGED <<blobs, counts, index, job, refcounts, todo, victim, kept, crashes>>
    BY <1>6 DEF WriteManifest, memory, StepsAgree
  <2>4. StoreTypeOK'
    BY <2>1, <2>2, <2>3 DEF StoreTypeOK
  <2>5. StepsAgree'
    BY <2>2, <2>3 DEF StepsAgree, Storing
  <2> QED BY <2>4, <2>5
<1>7. CASE SaveCounts
  <2>1. CASE Evicting
    BY <1>7, <2>1, LeaveShape DEF SaveCounts, StoreTypeOK
  <2>2. CASE ~Evicting
    <3>1. /\ pc = "counts" /\ pc' = "index" /\ counts' = refcounts /\ Storing
          /\ UNCHANGED <<blobs, manifests, index, job, refcounts, todo, victim, kept, crashes>>
          /\ Stored' = Stored
      BY <1>7, <2>2 DEF SaveCounts, memory, Evicting, Storing, Stored
    <3>2. StoreTypeOK'
      BY <3>1 DEF StoreTypeOK
    <3>3. StepsAgree'
      BY <3>1 DEF StepsAgree, Storing
    <3> QED BY <3>2, <3>3
  <2> QED BY <2>1, <2>2
<1>8. CASE SaveIndex
  <2>1. Storing /\ job.prefix \in PrefixIds /\ job.blobs \in Snapshots
    BY <1>8 DEF SaveIndex, StepsAgree, StoreTypeOK, Storing
  <2>2. index' \subseteq Entries
    BY <1>8, <2>1, SnapshotSize DEF SaveIndex, StoreTypeOK, Entries
  <2>3. Stored' = Stored
    BY <1>8 DEF SaveIndex, Stored
  <2>4. StoreTypeOK'
    BY <1>8, <2>2, <2>3 DEF SaveIndex, StoreTypeOK
  <2>5. StepsAgree'
    BY <1>8, <2>3 DEF SaveIndex, StepsAgree, Storing
  <2> QED BY <2>4, <2>5
<1>9. CASE CheckQuota
  <2>1. CASE Total(index) <= Quota
    BY <1>9, <2>1, LeaveShape DEF CheckQuota, StoreTypeOK, disk
  <2>2. CASE ~(Total(index) <= Quota)
    <3>1. /\ pc = "quota" /\ pc' = "evict" /\ kept' = index /\ refcounts' = counts
          /\ UNCHANGED <<blobs, counts, manifests, index, job, todo, victim, crashes>>
          /\ Stored' = Stored
      BY <1>9, <2>2 DEF CheckQuota, disk, Stored
    <3>2. StoreTypeOK'
      BY <3>1 DEF StoreTypeOK
    <3>3. StepsAgree'
      BY <3>1 DEF StepsAgree, Storing
    <3> QED BY <3>2, <3>3
  <2> QED BY <2>1, <2>2
<1>10. ASSUME NEW e \in kept, EvictOne(e) PROVE Shape'
  <2>1. e.prefix \in PrefixIds
    BY DEF StoreTypeOK, Entries
  <2>2. /\ pc = "evict" /\ pc # "release" /\ ~Storing /\ BeginRemove(e.prefix, "evict")
        /\ kept' \subseteq kept
    BY <1>10 DEF EvictOne, StepsAgree
  <2>3. UNCHANGED <<disk, job, refcounts, crashes>>
    BY <1>10 DEF EvictOne
  <2> QED BY <2>1, <2>2, <2>3, RemoveShape
<1>11. CASE EvictDone
  <2>1. /\ pc = "evict" /\ pc' = "counts" /\ index' = kept /\ ~Storing
        /\ UNCHANGED <<blobs, counts, manifests, job, refcounts, todo, victim, kept, crashes>>
        /\ Stored' = Stored
    BY <1>11 DEF EvictDone, memory, Stored, StepsAgree
  <2>2. StoreTypeOK'
    BY <2>1 DEF StoreTypeOK
  <2>3. StepsAgree'
    BY <2>1 DEF StepsAgree, Storing
  <2> QED BY <2>2, <2>3
<1>12. CASE Crash
  <2>1. crashes' \in 0..MaxCrashes
    BY <1>12, Names DEF Crash, StoreTypeOK
  <2> QED BY <1>12, <2>1, LeaveShape DEF Crash, disk
<1>13. CASE UNCHANGED storeVars
  <2>1. UNCHANGED <<blobs, counts, manifests, index, pc, job, refcounts, todo, victim, kept, crashes>>
    BY <1>13 DEF storeVars, disk, memory
  <2>2. Stored' = Stored
    BY <2>1 DEF Stored
  <2>3. StoreTypeOK'
    BY <2>1, <2>2 DEF StoreTypeOK
  <2>4. StepsAgree'
    BY <2>1, <2>2 DEF StepsAgree, Storing
  <2> QED BY <2>3, <2>4
<1> QED BY <1>1, <1>2, <1>3, <1>4, <1>5, <1>6, <1>7, <1>8, <1>9, <1>10, <1>11, <1>12, <1>13
        DEF StoreNext
-----------------------------------------------------------------------------
(* The claims to a blob are finite in number; counted right, they say      *)
(* which blobs are there.                                                  *)
LEMMA ClaimsFinite ==
  ASSUME NEW b
  PROVE  /\ IsFiniteSet(Claims(b)) /\ Cardinality(Claims(b)) \in Nat
         /\ Cardinality(Claims(b)) = 0 <=> Claims(b) = {}
         /\ Claims(b) \subseteq PrefixIds \union {NoFile}
<1>1. Claims(b) \subseteq PrefixIds \union {NoFile}
  BY DEF Claims, Stored
<1>2. IsFiniteSet(PrefixIds \union {NoFile})
  BY PrefixStoreAssumption, FS_AddElement
<1> QED BY <1>1, <1>2, FS_Subset, FS_CardinalityType, FS_EmptySet

(* A step that moves no claim and changes no count.                        *)
LEMMA ClaimsStay ==
  ASSUME ClaimsCounted, crashes' = crashes, blobs' = blobs, Tally' = Tally,
         \A b \in Blobs : Claims(b)' = Claims(b),
         pc' \in {"index", "quota"} => counts' = refcounts'
  PROVE  ClaimsCounted'
BY DEF ClaimsCounted

(* A removal that begins takes no claim from the manifest yet.             *)
LEMMA ClaimsOfRemoval ==
  ASSUME Shape, NEW p \in PrefixIds, NEW next \in {"manifest", "evict"},
         BeginRemove(p, next), pc \in {"blobs", "evict"},
         UNCHANGED <<disk, job, refcounts, crashes>>,
         next = "manifest" => (Storing /\ p = job.prefix /\ todo = {}),
         next = "evict" => ~Storing,
         ClaimsCounted
  PROVE  ClaimsCounted'
<1>1. /\ Stored' = Stored /\ manifests' = manifests /\ blobs' = blobs /\ counts' = counts
      /\ refcounts' = refcounts /\ job' = job
  BY DEF Stored, disk
<1>2. pc' = next \/ pc' = "release"
  BY DEF BeginRemove
<1>3. Tally' = Tally
  BY <1>1, <1>2 DEF Tally
<1>4. \A b \in Blobs : JobClaims(b)' <=> JobClaims(b)
  <2>1. CASE Storing
    <3>1. next = "manifest" /\ todo = {} /\ pc = "blobs"
      BY <2>1 DEF Shape, StepsAgree
    <3> QED BY <3>1, <1>1, <1>2 DEF JobClaims, Storing
  <2>2. CASE ~Storing
    BY <2>2, <1>1 DEF JobClaims, Storing
  <2> QED BY <2>1, <2>2
<1>5. victim = NoFile
  BY DEF Shape, StepsAgree
<1>6. ASSUME NEW q \in Stored, NEW b
      PROVE  (q = victim' => b \in todo') <=> (q = victim' => b \in manifests[q])
  <2>1. CASE manifests[p] = NoFile
    BY <2>1, <1>5, Names DEF BeginRemove
  <2>2. CASE manifests[p] # NoFile
    BY <2>2 DEF BeginRemove
  <2> QED BY <2>1, <2>2
<1>7. \A b \in Blobs : Claims(b)' = Claims(b)
  <2> SUFFICES ASSUME NEW b \in Blobs PROVE Claims(b)' = Claims(b)
    OBVIOUS
  <2>1. {q \in Stored : b \in manifests[q] /\ (q = victim => b \in todo)}
          = {q \in Stored : b \in manifests[q]}
    BY <1>5, Names
  <2>2. {q \in Stored' : b \in manifests'[q] /\ (q = victim' => b \in todo')}
          = {q \in Stored : b \in manifests[q]}
    BY <1>1, <1>6
  <2> QED BY <1>4, <2>1, <2>2 DEF Claims
<1> QED BY <1>1, <1>2, <1>3, <1>7, ClaimsStay

LEMMA ClaimsInit == StoreInit => ClaimsCounted
<1> SUFFICES ASSUME StoreInit PROVE ClaimsCounted
  OBVIOUS
<1>1. \A b \in Blobs : Claims(b) = {}
  BY DEF StoreInit, Claims, Stored, JobClaims, Storing
<1>2. Cardinality({}) = 0
  BY FS_EmptySet
<1> QED BY <1>1, <1>2 DEF StoreInit, ClaimsCounted, Tally, NoCounts

LEMMA ClaimsNext ==
  Shape /\ ClaimsCounted /\ [StoreNext]_storeVars => ClaimsCounted'
<1> SUFFICES ASSUME Shape, ClaimsCounted, [StoreNext]_storeVars PROVE ClaimsCounted'
  OBVIOUS
<1>1. ASSUME NEW p \in PrefixIds, NEW S \in Snapshots, Store(p, S) PROVE ClaimsCounted'
  <2>1. Stored' = Stored /\ UNCHANGED <<blobs, counts, manifests, index, victim, kept, crashes>>
    BY <1>1 DEF Store, Stored, disk
  <2>2. /\ pc = "idle" /\ pc' = "blobs" /\ job' = [prefix |-> p, blobs |-> S]
        /\ refcounts' = counts /\ todo' = S
    BY <1>1 DEF Store
  <2>3. \A b \in Blobs : ~JobClaims(b) /\ ~JobClaims(b)'
    BY <2>2 DEF JobClaims
  <2>4. victim = NoFile
    BY <2>2 DEF Shape, StepsAgree
  <2>5. \A b \in Blobs : Claims(b)' = Claims(b)
    BY <2>1, <2>3, <2>4, Names DEF Claims
  <2>6. Tally' = Tally
    BY <2>2 DEF Tally
  <2> QED BY <2>1, <2>2, <2>5, <2>6, ClaimsStay
<1>2. ASSUME NEW b \in Blobs, WriteBlob(b) PROVE ClaimsCounted'
  <2>1. /\ pc = "blobs" /\ b \in todo
        /\ blobs' = (IF refcounts[b] = 0 THEN blobs \union {b} ELSE blobs)
        /\ refcounts' = [refcounts EXCEPT ![b] = @ + 1] /\ todo' = todo \ {b}
        /\ UNCHANGED <<counts, manifests, index, pc, job, victim, kept, crashes>>
        /\ Stored' = Stored
    BY <1>2 DEF WriteBlob, Stored
  <2>2. victim = NoFile /\ Storing /\ todo \subseteq job.blobs
    BY <2>1 DEF Shape, StepsAgree
  <2>3. /\ ~JobClaims(b) /\ JobClaims(b)'
        /\ \A c \in Blobs \ {b} : JobClaims(c)' <=> JobClaims(c)
    BY <2>1, <2>2 DEF JobClaims, Storing
  <2>4. /\ Claims(b)' = Claims(b) \union {NoFile} /\ NoFile \notin Claims(b)
        /\ \A c \in Blobs \ {b} : Claims(c)' = Claims(c)
    BY <2>1, <2>2, <2>3, Names DEF Claims
  <2>5. Cardinality(Claims(b)') = Cardinality(Claims(b)) + 1 /\ Claims(b)' # {}
    BY <2>4, ClaimsFinite, FS_AddElement
  <2>6. refcounts \in [Blobs -> Nat]
    BY DEF Shape, StoreTypeOK
  <2>7. Tally = refcounts /\ Tally' = refcounts'
    BY <2>1 DEF Tally
  <2> SUFFICES ASSUME crashes = 0
               PROVE  /\ \A c \in Blobs : refcounts'[c] = Cardinality(Claims(c)')
                      /\ blobs' = {c \in Blobs : Claims(c)' # {}}
    BY <2>1, <2>7 DEF ClaimsCounted
  <2>8. /\ \A c \in Blobs : refcounts[c] = Cardinality(Claims(c))
        /\ blobs = {c \in Blobs : Claims(c) # {}}
    BY <2>7 DEF ClaimsCounted
  <2>9. \A c \in Blobs : refcounts'[c] = Cardinality(Claims(c)')
    BY <2>1, <2>4, <2>5, <2>6, <2>8
  <2>10. refcounts[b] # 0 => b \in blobs
    BY <2>8, ClaimsFinite
  <2>11. blobs' = blobs \union {b}
    BY <2>1, <2>10
  <2> QED BY <2>4, <2>5, <2>8, <2>9, <2>11
<1>3. CASE ReplaceOld
  <2>1. pc = "blobs" /\ BeginRemove(job.prefix, "manifest") /\ todo = {}
    BY <1>3 DEF ReplaceOld
  <2>2. Storing /\ job.prefix \in PrefixIds
    BY <2>1 DEF Shape, StepsAgree, StoreTypeOK, Storing
  <2>3. UNCHANGED <<disk, job, refcounts, crashes>>
    BY <1>3 DEF ReplaceOld
  <2> QED BY <2>1, <2>2, <2>3, ClaimsOfRemoval
<1>4. ASSUME NEW b \in Blobs, ReleaseBlob(b) PROVE ClaimsCounted'
  <2>1. /\ pc = "release" /\ b \in todo /\ todo' = todo \ {b}
        /\ refcounts' = [refcounts EXCEPT ![b] = IF @ = 0 THEN 0 ELSE @ - 1]
        /\ blobs' = (IF refcounts[b] = 1 THEN blobs \ {b} ELSE blobs)
        /\ UNCHANGED <<counts, manifests, index, pc, job, victim, kept, crashes>>
        /\ Stored' = Stored
    BY <1>4 DEF ReleaseBlob, Stored
  <2>2. victim \in Stored /\ todo \subseteq manifests[victim]
    BY <2>1 DEF Shape, StepsAgree
  <2>3. \A c \in Blobs : JobClaims(c)' <=> JobClaims(c)
    BY <2>1 DEF JobClaims, Storing
  <2>4. /\ Claims(b)' = Claims(b) \ {victim} /\ victim \in Claims(b)
        /\ \A c \in Blobs \ {b} : Claims(c)' = Claims(c)
    BY <2>1, <2>2, <2>3, Names DEF Claims
  <2>5. /\ Cardinality(Claims(b)') = Cardinality(Claims(b)) - 1
        /\ Cardinality(Claims(b)) \in Nat /\ Cardinality(Claims(b)) # 0
    BY <2>4, ClaimsFinite, FS_RemoveElement
  <2>6. refcounts \in [Blobs -> Nat]
    BY DEF Shape, StoreTypeOK
  <2>7. Tally = refcounts /\ Tally' = refcounts'
    BY <2>1 DEF Tally
  <2> SUFFICES ASSUME crashes = 0
               PROVE  /\ \A c \in Blobs : refcounts'[c] = Cardinality(Claims(c)')
                      /\ blobs' = {c \in Blobs : Claims(c)' # {}}
    BY <2>1, <2>7 DEF ClaimsCounted
  <2>8. /\ \A c \in Blobs : refcounts[c] = Cardinality(Claims(c))
        /\ blobs = {c \in Blobs : Claims(c) # {}}
    BY <2>7 DEF ClaimsCounted
  <2>9. \A c \in Blobs : refcounts'[c] = Cardinality(Claims(c)')
    BY <2>1, <2>4, <2>5, <2>6, <2>8
  <2>10. refcounts[b] = 1 <=> Claims(b)' = {}
    <3>1. IsFiniteSet(Claims(b)')
      BY <2>4, ClaimsFinite, FS_RemoveElement
    <3>2. Cardinality(Claims(b)') = 0 <=> Claims(b)' = {}
      BY <3>1, FS_EmptySet
    <3> QED BY <3>2, <2>5, <2>8
  <2>11. blobs' = {c \in Blobs : Claims(c)' # {}}
    BY <2>1, <2>4, <2>8, <2>10
  <2> QED BY <2>9, <2>11
<1>5. CASE RemoveManifest
  <2>1. /\ pc = "release" /\ todo = {} /\ manifests' = [manifests EXCEPT ![victim] = NoFile]
        /\ victim' = NoFile /\ pc' = (IF Storing THEN "manifest" ELSE "evict")
        /\ UNCHANGED <<blobs, counts, index, job, refcounts, todo, kept, crashes>>
    BY <1>5 DEF RemoveManifest, Evicting, Storing
  <2>2. victim \in Stored /\ manifests \in [PrefixIds -> Snapshots \union {NoFile}]
    BY <2>1 DEF Shape, StepsAgree
  <2>3. Stored' = Stored \ {victim} /\ \A p \in Stored' : manifests'[p] = manifests[p]
    BY <2>1, <2>2 DEF Stored
  <2>4. \A c \in Blobs : JobClaims(c)' <=> JobClaims(c)
    BY <2>1 DEF JobClaims, Storing
  <2>5. \A b \in Blobs : Claims(b)' = Claims(b)
    BY <2>1, <2>3, <2>4, Names DEF Claims
  <2>6. Tally' = Tally
    BY <2>1 DEF Tally
  <2> QED BY <2>1, <2>5, <2>6, ClaimsStay
<1>6. CASE WriteManifest
  <2>1. /\ pc = "manifest" /\ pc' = "counts" 
        /\ manifests' = [manifests EXCEPT ![job.prefix] = job.blobs]
        /\ UNCHANGED <<blobs, counts, index, job, refcounts, todo, victim, kept, crashes>>
    BY <1>6 DEF WriteManifest, memory
  <2>2. /\ Storing /\ job.prefix \in PrefixIds \ Stored /\ job.blobs \in Snapshots
        /\ victim = NoFile /\ manifests \in [PrefixIds -> Snapshots \union {NoFile}]
    BY <2>1 DEF Shape, StepsAgree, StoreTypeOK, Storing
  <2>3. /\ Stored' = Stored \union {job.prefix} /\ manifests'[job.prefix] = job.blobs
        /\ \A p \in Stored : manifests'[p] = manifests[p]
    BY <2>1, <2>2, Names DEF Stored
  <2>4. \A c \in Blobs : (JobClaims(c) <=> c \in job.blobs) /\ ~JobClaims(c)'
    BY <2>1, <2>2 DEF JobClaims
  <2>5. ASSUME NEW b \in Blobs
        PROVE  /\ b \in job.blobs =>
                    /\ Claims(b)' = (Claims(b) \ {NoFile}) \union {job.prefix}
                    /\ NoFile \in Claims(b) /\ job.prefix \notin Claims(b)
               /\ b \notin job.blobs => Claims(b)' = Claims(b)
    <3> DEFINE Holders == {p \in Stored : b \in manifests[p]}
    <3>1. Claims(b) = Holders \union (IF b \in job.blobs THEN {NoFile} ELSE {})
      BY <2>2, <2>4, Names DEF Claims
    <3>2. Claims(b)' = Holders \union (IF b \in job.blobs THEN {job.prefix} ELSE {})
      BY <2>1, <2>2, <2>3, <2>4, Names DEF Claims
    <3>3. NoFile \notin Holders /\ job.prefix \notin Holders /\ job.prefix # NoFile
      BY <2>2, Names
    <3> HIDE DEF Holders
    <3> QED BY <3>1, <3>2, <3>3
  <2>6. ASSUME NEW b \in Blobs
        PROVE  Cardinality(Claims(b)') = Cardinality(Claims(b)) /\ (Claims(b)' = {} <=> Claims(b) = {})
    <3>1. CASE b \in job.blobs
      <4>1. /\ IsFiniteSet(Claims(b) \ {NoFile})
            /\ Cardinality(Claims(b) \ {NoFile}) = Cardinality(Claims(b)) - 1
            /\ Cardinality(Claims(b)) \in Nat
        BY <2>5, <3>1, ClaimsFinite, FS_RemoveElement
      <4>2. Cardinality(Claims(b)') = Cardinality(Claims(b) \ {NoFile}) + 1
        BY <2>5, <3>1, <4>1, FS_AddElement
      <4> QED BY <2>5, <3>1, <4>1, <4>2
    <3>2. CASE b \notin job.blobs
      BY <2>5, <3>2
    <3> QED BY <3>1, <3>2
  <2>7. Tally' = Tally
    BY <2>1 DEF Tally
  <2> QED BY <2>1, <2>6, <2>7 DEF ClaimsCounted
<1>7. CASE SaveCounts
  <2>1. /\ pc = "counts" /\ counts' = refcounts /\ pc' = (IF Storing THEN "index" ELSE "idle")
        /\ job' = job /\ UNCHANGED <<blobs, manifests, index, crashes>> /\ Stored' = Stored
        /\ Storing => refcounts' = refcounts
        /\ victim' = NoFile /\ victim = NoFile
    BY <1>7 DEF SaveCounts, memory, Evicting, Storing, Leave, Stored, Shape, StepsAgree
  <2>2. \A b \in Blobs : ~JobClaims(b) /\ ~JobClaims(b)'
    BY <2>1 DEF JobClaims, Storing
  <2>3. \A b \in Blobs : Claims(b)' = Claims(b)
    BY <2>1, <2>2, Names DEF Claims
  <2>4. Tally' = Tally
    BY <2>1 DEF Tally
  <2> QED BY <2>1, <2>3, <2>4, ClaimsStay
<1>8. CASE SaveIndex
  <2>1. /\ pc = "index" /\ pc' = "quota" /\ Stored' = Stored
        /\ UNCHANGED <<blobs, counts, manifests, refcounts, todo, victim, kept, crashes>>
    BY <1>8 DEF SaveIndex, Stored
  <2>2. \A b \in Blobs : ~JobClaims(b) /\ ~JobClaims(b)'
    BY <2>1 DEF JobClaims
  <2>3. \A b \in Blobs : Claims(b)' = Claims(b)
    BY <2>1, <2>2 DEF Claims
  <2> QED BY <2>1, <2>3 DEF ClaimsCounted, Tally
<1>9. CASE CheckQuota
  <2>1. /\ pc = "quota" /\ UNCHANGED <<blobs, counts, manifests, index, crashes>>
        /\ pc' \in {"idle", "evict"} /\ (pc' = "evict" => refcounts' = counts)
        /\ ~Storing /\ job' = job /\ victim = NoFile /\ victim' = NoFile /\ Stored' = Stored
    BY <1>9 DEF CheckQuota, Leave, Stored, disk, Shape, StepsAgree, Storing
  <2>2. \A b \in Blobs : ~JobClaims(b) /\ ~JobClaims(b)'
    BY <2>1 DEF JobClaims, Storing
  <2>3. \A b \in Blobs : Claims(b)' = Claims(b)
    BY <2>1, <2>2, Names DEF Claims
  <2> QED BY <2>1, <2>3 DEF ClaimsCounted, Tally
<1>10. ASSUME NEW e \in kept, EvictOne(e) PROVE ClaimsCounted'
  <2>1. e.prefix \in PrefixIds
    BY DEF Shape, StoreTypeOK, Entries
  <2>2. pc = "evict" /\ ~Storing /\ BeginRemove(e.prefix, "evict")
    BY <1>10 DEF EvictOne, Shape, StepsAgree
  <2>3. UNCHANGED <<disk, job, refcounts, crashes>>
    BY <1>10 DEF EvictOne
  <2> QED BY <2>1, <2>2, <2>3, ClaimsOfRemoval
<1>11. CASE EvictDone
  <2>1. /\ pc = "evict" /\ pc' = "counts" /\ Stored' = Stored
        /\ UNCHANGED <<blobs, counts, manifests, job, refcounts, todo, victim, kept, crashes>>
    BY <1>11 DEF EvictDone, memory, Stored
  <2>2. \A b \in Blobs : ~JobClaims(b) /\ ~JobClaims(b)'
    BY <2>1 DEF JobClaims
  <2>3. \A b \in Blobs : Claims(b)' = Claims(b)
    BY <2>1, <2>2 DEF Claims
  <2> QED BY <2>1, <2>3 DEF ClaimsCounted, Tally
<1>12. CASE Crash
  <2>1. crashes' # 0
    BY <1>12 DEF Crash, Shape, StoreTypeOK
  <2> QED BY <2>1 DEF ClaimsCounted
<1>13. CASE UNCHANGED storeVars
  <2>1. UNCHANGED <<blobs, counts, manifests, index, pc, job, refcounts, todo, victim, kept, crashes>>
    BY <1>13 DEF storeVars, disk, memory
  <2>2. Stored' = Stored /\ \A b \in Blobs : JobClaims(b)' <=> JobClaims(b)
    BY <2>1 DEF Stored, JobClaims, Storing
  <2>3. \A b \in Blobs : Claims(b)' = Claims(b)
    BY <2>1, <2>2 DEF Claims
  <2> QED BY <2>1, <2>3 DEF ClaimsCounted, Tally
<1> QED BY <1>1, <1>2, <1>3, <1>4, <1>5, <1>6, <1>7, <1>8, <1>9, <1>10, <1>11, <1>12, <1>13
        DEF StoreNext
-----------------------------------------------------------------------------
(* An entry says which manifest it is of.                                  *)
LEMMA EntryNamesPrefix ==
  /\ \A p : Entry(p).prefix = p
  /\ \A ids, p : {e \in Listing(ids) : e.prefix # p} = Listing(ids \ {p})
  /\ \A ids, e : e \in Listing(ids) => e.prefix \in ids /\ e = Entry(e.prefix)
<1>1. \A p : Entry(p).prefix = p
  BY DEF Entry
<1>2. \A ids, e : e \in Listing(ids) => e.prefix \in ids /\ e = Entry(e.prefix)
  BY <1>1 DEF Listing
<1>3. \A ids, p : {e \in Listing(ids) : e.prefix # p} = Listing(ids \ {p})
  BY <1>1 DEF Listing
<1> QED BY <1>1, <1>2, <1>3

(* Where no manifest of `ids` changes, neither does its listing.           *)
LEMMA ListingStays ==
  ASSUME NEW ids, \A p \in ids : manifests'[p] = manifests[p]
  PROVE  {Entry(p)' : p \in ids} = Listing(ids)
BY DEF Listing, Entry

LEMMA IndexInit == StoreInit => IndexFollows
<1> SUFFICES ASSUME StoreInit PROVE IndexFollows
  OBVIOUS
<1>1. Stored = {} /\ Listing({}) = {}
  BY DEF StoreInit, Stored, Listing
<1>2. Total(index) <= Quota
  BY EmptyTotal, Names DEF StoreInit
<1> QED BY <1>1, <1>2 DEF StoreInit, IndexFollows, Storing

(* A step that changes no manifest, no index and not what is left of it.   *)
LEMMA IndexStays ==
  ASSUME IndexFollows, UNCHANGED <<manifests, index, job, kept, victim, crashes, pc>>
  PROVE  IndexFollows'
<1>1. Stored' = Stored /\ \A ids : Listing(ids)' = Listing(ids)
  BY DEF Stored, Listing, Entry
<1> QED BY <1>1 DEF IndexFollows, Storing

LEMMA IndexNext ==
  Shape /\ IndexFollows /\ [StoreNext]_storeVars => IndexFollows'
<1> SUFFICES ASSUME Shape, IndexFollows, [StoreNext]_storeVars PROVE IndexFollows'
  OBVIOUS
<1>1. ASSUME NEW p \in PrefixIds, NEW S \in Snapshots, Store(p, S) PROVE IndexFollows'
  <2>1. /\ UNCHANGED <<manifests, index, crashes>> /\ Stored' = Stored
        /\ pc = "idle" /\ pc' = "blobs" /\ job'.prefix = p
    BY <1>1 DEF Store, Stored, disk
  <2>2. crashes = 0 => /\ index = Listing(Stored)
                       /\ {e \in index : e.prefix # p} = Listing(Stored \ {p})
    <3>1. crashes = 0 => index = Listing(Stored)
      BY <2>1 DEF IndexFollows
    <3>2. {e \in Listing(Stored) : e.prefix # p} = Listing(Stored \ {p})
      BY EntryNamesPrefix
    <3> QED BY <3>1, <3>2
  <2>3. Stored' \ {job'.prefix} = Stored \ {p}
    BY <2>1
  <2>4. Listing(Stored)' = Listing(Stored) /\ Listing(Stored \ {job.prefix})' = Listing(Stored \ {p})
    BY <2>1, <2>3 DEF Listing, Entry
  <2>5. {e \in index : e.prefix # job.prefix}' = {e \in index : e.prefix # p}
    BY <2>1
  <2> QED BY <2>1, <2>2, <2>4, <2>5 DEF IndexFollows
<1>2. ASSUME NEW b \in Blobs, WriteBlob(b) \/ ReleaseBlob(b) PROVE IndexFollows'
  BY <1>2, IndexStays DEF WriteBlob, ReleaseBlob
<1>3. CASE ReplaceOld
  <2>1. /\ UNCHANGED <<manifests, index, job, crashes>> /\ Stored' = Stored /\ Storing
        /\ pc' \in {"manifest", "release"}
    BY <1>3 DEF ReplaceOld, BeginRemove, Stored, disk, Shape, StepsAgree
  <2>2. \A ids : Listing(ids)' = Listing(ids)
    BY <2>1 DEF Listing, Entry
  <2> QED BY <2>1, <2>2 DEF IndexFollows, Storing
<1>4. CASE RemoveManifest
  <2>1. /\ pc = "release" /\ manifests' = [manifests EXCEPT ![victim] = NoFile]
        /\ victim' = NoFile /\ pc' = (IF Storing THEN "manifest" ELSE "evict")
        /\ UNCHANGED <<index, job, kept, crashes>>
    BY <1>4 DEF RemoveManifest, Evicting, Storing
  <2>2. /\ victim \in Stored /\ manifests \in [PrefixIds -> Snapshots \union {NoFile}]
        /\ Storing => victim = job.prefix
    BY <2>1 DEF Shape, StepsAgree
  <2>3. Stored' = Stored \ {victim} /\ \A p \in Stored' : manifests'[p] = manifests[p]
    BY <2>1, <2>2 DEF Stored
  <2>4. \A ids \in SUBSET Stored' : {Entry(p)' : p \in ids} = Listing(ids)
    BY <2>3, ListingStays
  <2>5. CASE Storing
    <3>1. Stored' \ {job.prefix} = Stored \ {job.prefix}
      BY <2>2, <2>3, <2>5
    <3>2. Listing(Stored \ {job.prefix})' = Listing(Stored \ {job.prefix})
      BY <3>1, <2>1, <2>4 DEF Listing
    <3> QED BY <2>1, <2>5, <3>2 DEF IndexFollows, Storing
  <2>6. CASE ~Storing
    <3>1. Stored' \ {victim'} = Stored \ {victim}
      BY <2>1, <2>3, Names DEF Stored
    <3>2. Listing(Stored \ {victim})' = Listing(Stored \ {victim})
      BY <3>1, <2>1, <2>3, <2>4 DEF Listing
    <3> QED BY <2>1, <2>6, <3>2 DEF IndexFollows, Storing
  <2> QED BY <2>5, <2>6
<1>5. CASE WriteManifest
  <2>1. /\ pc = "manifest" /\ pc' = "counts" 
        /\ manifests' = [manifests EXCEPT ![job.prefix] = job.blobs]
        /\ UNCHANGED <<index, job, crashes>>
    BY <1>5 DEF WriteManifest, memory
  <2>2. Storing /\ manifests \in [PrefixIds -> Snapshots \union {NoFile}]
    BY <2>1 DEF Shape, StepsAgree
  <2>3. \A p \in PrefixIds \ {job.prefix} : manifests'[p] = manifests[p]
    BY <2>1, <2>2
  <2>4. Stored' \ {job.prefix} = Stored \ {job.prefix}
    BY <2>3 DEF Stored
  <2>5. {Entry(p)' : p \in Stored \ {job.prefix}} = Listing(Stored \ {job.prefix})
    BY <2>3, ListingStays DEF Stored
  <2>6. Listing(Stored \ {job.prefix})' = Listing(Stored \ {job.prefix})
    BY <2>1, <2>4, <2>5 DEF Listing
  <2> QED BY <2>1, <2>2, <2>6 DEF IndexFollows, Storing
<1>6. CASE SaveCounts
  <2>1. /\ pc = "counts" /\ pc' = (IF Storing THEN "index" ELSE "idle") /\ job' = job
        /\ UNCHANGED <<manifests, index, crashes>> /\ Stored' = Stored
    BY <1>6 DEF SaveCounts, memory, Evicting, Storing, Leave, Stored
  <2>2. \A ids : Listing(ids)' = Listing(ids)
    BY <2>1 DEF Listing, Entry
  <2> QED BY <2>1, <2>2 DEF IndexFollows, Storing
<1>7. CASE SaveIndex
  <2>1. /\ pc = "index" /\ pc' = "quota" /\ Stored' = Stored /\ job' = Nothing
        /\ index' = {e \in index : e.prefix # job.prefix}
                    \union {[prefix |-> job.prefix, bytes |-> Cardinality(job.blobs)]}
        /\ UNCHANGED <<manifests, crashes>>
    BY <1>7 DEF SaveIndex, Stored
  <2>2. Storing /\ job.prefix \in PrefixIds /\ job.blobs \in Snapshots
        /\ manifests[job.prefix] = job.blobs
    BY <2>1 DEF Shape, StepsAgree, StoreTypeOK, Storing
  <2>3. job.prefix \in Stored /\ Entry(job.prefix) = [prefix |-> job.prefix, bytes |-> Cardinality(job.blobs)]
    BY <2>2, Names DEF Stored, Entry
  <2>4. Listing(Stored)' = Listing(Stored)
    BY <2>1 DEF Listing, Entry
  <2>5. Listing(Stored \ {job.prefix}) \union {Entry(job.prefix)} = Listing(Stored)
    BY <2>3 DEF Listing
  <2>6. crashes = 0 => index' = Listing(Stored)
    BY <2>1, <2>2, <2>3, <2>5 DEF IndexFollows
  <2> QED BY <2>1, <2>4, <2>6 DEF IndexFollows, Storing
<1>8. CASE CheckQuota
  <2>1. /\ pc = "quota" /\ UNCHANGED <<manifests, index, crashes>> /\ Stored' = Stored
        /\ \/ Total(index) <= Quota /\ pc' = "idle"
           \/ pc' = "evict" /\ kept' = index
        /\ ~Storing /\ job' = job /\ victim' = NoFile
    BY <1>8 DEF CheckQuota, Leave, Stored, disk, Shape, StepsAgree, Storing
  <2>2. \A ids : Listing(ids)' = Listing(ids)
    BY <2>1 DEF Listing, Entry
  <2>3. Stored \ {NoFile} = Stored
    BY Names
  <2> QED BY <2>1, <2>2, <2>3 DEF IndexFollows, Storing
<1>9. ASSUME NEW e \in kept, EvictOne(e) PROVE IndexFollows'
  <2>1. /\ pc = "evict" /\ kept' = kept \ {e} /\ BeginRemove(e.prefix, "evict")
        /\ UNCHANGED <<manifests, index, job, crashes>> /\ Stored' = Stored
        /\ ~Storing /\ victim = NoFile
    BY <1>9 DEF EvictOne, disk, Stored, Shape, StepsAgree
  <2>2. \A ids : Listing(ids)' = Listing(ids)
    BY <2>1 DEF Listing, Entry
  <2>3. pc' \in {"evict", "release"}
    BY <2>1 DEF BeginRemove
  <2>4. ASSUME crashes = 0 PROVE kept' = Listing(Stored \ {victim'})
    <3>1. kept = Listing(Stored)
      <4>1. Stored \ {victim} = Stored
        BY <2>1, Names
      <4> QED BY <4>1, <2>1, <2>4 DEF IndexFollows
    <3>2. e.prefix \in Stored /\ e = Entry(e.prefix)
      BY <3>1, EntryNamesPrefix
    <3>3. victim' = e.prefix
      BY <3>2, <2>1 DEF BeginRemove, Stored
    <3>4. kept \ {e} = {f \in kept : f.prefix # e.prefix}
      BY <3>1, <3>2, EntryNamesPrefix
    <3>5. kept \ {e} = Listing(Stored \ {e.prefix})
      BY <3>1, <3>4, EntryNamesPrefix
    <3> QED BY <2>1, <3>3, <3>5
  <2> QED BY <2>1, <2>2, <2>3, <2>4 DEF IndexFollows, Storing
<1>10. CASE EvictDone
  <2>1. /\ pc = "evict" /\ pc' = "counts" /\ index' = kept /\ Total(kept) <= Quota
        /\ UNCHANGED <<manifests, job, crashes>> /\ Stored' = Stored
        /\ ~Storing /\ victim = NoFile
    BY <1>10 DEF EvictDone, memory, Stored, Shape, StepsAgree
  <2>2. \A ids : Listing(ids)' = Listing(ids)
    BY <2>1 DEF Listing, Entry
  <2>3. Stored \ {victim} = Stored
    BY <2>1, Names
  <2> QED BY <2>1, <2>2, <2>3 DEF IndexFollows, Storing
<1>11. CASE Crash
  <2>1. crashes' # 0
    BY <1>11 DEF Crash, Shape, StoreTypeOK
  <2> QED BY <2>1 DEF IndexFollows
<1>12. CASE UNCHANGED storeVars
  BY <1>12, IndexStays DEF storeVars, disk, memory
<1> QED BY <1>1, <1>2, <1>3, <1>4, <1>5, <1>6, <1>7, <1>8, <1>9, <1>10, <1>11, <1>12
        DEF StoreNext

-----------------------------------------------------------------------------
(* The claims to the blobs are counted and the index follows the manifests *)
(* at every step of every operation (context/prefix/mod.rs:279-520).       *)
THEOREM StoreInvariance == StoreSpec => []StoreIInv
<1>1. StoreInit => StoreIInv
  BY ShapeInit, ClaimsInit, IndexInit DEF StoreIInv, Shape
<1>2. StoreIInv /\ [StoreNext]_storeVars => StoreIInv'
  BY ShapeNext, ClaimsNext, IndexNext DEF StoreIInv, Shape
<1> QED BY <1>1, <1>2, PTL DEF StoreSpec

LEMMA StoreIsSoundFromIInv == StoreIInv => StoreIsSound
<1> SUFFICES ASSUME StoreIInv PROVE StoreIsSound
  OBVIOUS
<1>1. StoreTypeOK /\ manifests \in [PrefixIds -> Snapshots \union {NoFile}]
  BY DEF StoreIInv, StepsAgree
<1>2. OthersIntact
  <2> SUFFICES ASSUME crashes = 0, NEW p \in Stored \ {victim}, NEW b \in manifests[p]
               PROVE  b \in blobs
    BY DEF OthersIntact
  <2>1. b \in Blobs
    BY <1>1 DEF StoreTypeOK, Snapshots
  <2>2. p \in Claims(b)
    BY DEF Claims
  <2> QED BY <2>1, <2>2 DEF StoreIInv, ClaimsCounted
<1>3. CountsExact
  <2> SUFFICES ASSUME crashes = 0, pc = "idle"
               PROVE  /\ \A b \in Blobs : counts[b] = Cardinality(Named(b))
                      /\ blobs = {b \in Blobs : Named(b) # {}}
    BY DEF CountsExact
  <2>1. victim = NoFile
    BY DEF StoreIInv, StepsAgree
  <2>2. \A b \in Blobs : Claims(b) = Named(b)
    BY <2>1, Names DEF Claims, Named, JobClaims
  <2> QED BY <2>2 DEF StoreIInv, ClaimsCounted, Tally
<1>4. WithinQuota
  BY DEF StoreIInv, IndexFollows, WithinQuota, Listing, Entry
<1> QED BY <1>1, <1>2, <1>3, <1>4 DEF StoreIsSound

(* "evicting one snapshot never corrupts the other" (mod.rs:22-24), the    *)
(* counts are the manifests', and the index is within the quota: for any   *)
(* prefixes, blobs and quota, as long as no operation has been cut off.    *)
THEOREM StoreSoundness == StoreSpec => []StoreIsSound
BY StoreInvariance, StoreIsSoundFromIInv, PTL

(***************************************************************************)
(* Prefill: what a pass computes, in which order and how often it holds a   *)
(* layer, for any number of layers, any chunk, any number of tokens and any *)
(* seed of the first chunk size.                                            *)
(***************************************************************************)
(* What another token changes in how often and where a layer has seen one. *)
LEMMA SeenBefore ==
  ASSUME NEW N \in Nat, NEW s \in Seq(1..N), NEW t
  PROVE  /\ Times(s, t) \in Nat
         /\ LastSeen(s, t) \in 0..Len(s)
         /\ s = <<>> => Times(s, t) = 0
<1> DEFINE I == {i \in DOMAIN s : s[i] = t}
<1>1. Len(s) \in Nat /\ DOMAIN s = 1..Len(s)
  BY LenProperties
<1>2. IsFiniteSet(I) /\ Cardinality(I) \in Nat
  <2>1. IsFiniteSet(1..Len(s))
    BY <1>1, FS_Interval
  <2> QED BY <1>1, <2>1, FS_Subset, FS_CardinalityType
<1>3. LastSeen(s, t) \in 0..Len(s)
  <2> DEFINE J == {i \in 1..Len(s) : s[i] = t}
  <2>1. J # {} => Max(J) \in J
    BY <1>1, LargestMember
  <2>2. LastSeen(s, t) = IF J # {} THEN Max(J) ELSE 0
    BY DEF LastSeen, SelectLastInSeq
  <2> QED BY <1>1, <2>1, <2>2
<1>4. s = <<>> => I = {}
  OBVIOUS
<1> QED BY <1>2, <1>3, <1>4, FS_EmptySet DEF Times

LEMMA SeenAgain ==
  ASSUME NEW N \in Nat, NEW s \in Seq(1..N), NEW u \in 1..N, NEW t
  PROVE  /\ Append(s, u) \in Seq(1..N) /\ Append(s, u) # <<>> /\ Last(Append(s, u)) = u
         /\ Len(Append(s, u)) = Len(s) + 1 /\ Len(s) \in Nat
         /\ Times(Append(s, u), t) = Times(s, t) + (IF t = u THEN 1 ELSE 0)
         /\ LastSeen(Append(s, u), t) = IF t = u THEN Len(s) + 1 ELSE LastSeen(s, t)
<1> DEFINE a == Append(s, u)
           n == Len(s)
<1>1. /\ a \in Seq(1..N) /\ Len(a) = n + 1 /\ n \in Nat /\ DOMAIN s = 1..n
      /\ DOMAIN a = 1..(n + 1) /\ a[n + 1] = u
      /\ \A i \in 1..n : a[i] = s[i]
  BY AppendProperties, LenProperties
<1> HIDE DEF a, n
<1>2. a # <<>> /\ Last(a) = u
  BY <1>1 DEF Last
<1>3. Times(a, t) = Times(s, t) + (IF t = u THEN 1 ELSE 0)
  <2> DEFINE I == {i \in DOMAIN s : s[i] = t}
             J == {i \in DOMAIN a : a[i] = t}
  <2>1. IsFiniteSet(I) /\ Cardinality(I) \in Nat
    <3>1. IsFiniteSet(1..n)
      BY <1>1, FS_Interval
    <3> QED BY <1>1, <3>1, FS_Subset, FS_CardinalityType
  <2>2. n + 1 \notin I
    BY <1>1
  <2>3. CASE t = u
    <3>1. J = I \cup {n + 1}
      BY <1>1, <2>3
    <3>2. Cardinality(J) = Cardinality(I) + 1
      BY <2>1, <2>2, <3>1, FS_AddElement
    <3> QED BY <2>3, <3>2 DEF Times
  <2>4. CASE t # u
    <3>1. J = I
      BY <1>1, <2>4
    <3>2. Times(a, t) = Cardinality(J) /\ Times(s, t) = Cardinality(I)
      BY DEF Times
    <3> HIDE DEF I, J
    <3> QED BY <2>1, <2>4, <3>1, <3>2
  <2> QED BY <2>3, <2>4
<1>4. LastSeen(a, t) = IF t = u THEN n + 1 ELSE LastSeen(s, t)
  <2> DEFINE I == {i \in 1..n : s[i] = t}
             J == {i \in 1..(n + 1) : a[i] = t}
  <2>1. LastSeen(a, t) = IF J # {} THEN Max(J) ELSE 0
    BY <1>1 DEF LastSeen, SelectLastInSeq
  <2>2. LastSeen(s, t) = IF I # {} THEN Max(I) ELSE 0
    BY <1>1 DEF LastSeen, SelectLastInSeq, n
  <2>3. CASE t = u
    <3>1. n + 1 \in J /\ J \in SUBSET (1..(n + 1)) /\ n + 1 \in Nat
      BY <1>1, <2>3
    <3>2. Max(J) \in J /\ \A i \in J : i <= Max(J)
      BY <3>1, LargestMember
    <3>3. Max(J) = n + 1
      BY <1>1, <3>1, <3>2
    <3> QED BY <2>1, <2>3, <3>1, <3>3
  <2>4. CASE t # u
    <3>1. J = I
      BY <1>1, <2>4
    <3> QED BY <2>1, <2>2, <2>4, <3>1
  <2> QED BY <2>3, <2>4
<1> QED BY <1>1, <1>2, <1>3, <1>4 DEF a, n

LEMMA Twofold ==
  /\ 0 \in 0..Seed /\ Doublings[0] = 1
  /\ \A k \in 1..Seed : k - 1 \in 0..Seed /\ Doublings[k] = 2 * Doublings[k - 1]
  /\ \A k \in 0..Seed : Doublings[k] \in Nat
<1> DEFINE Solves(f, n) == f = [k \in 0..n |-> IF k = 0 THEN 1 ELSE 2 * f[k - 1]]
<1>1. Seed \in Nat /\ Seed # 0
  BY PrefillAssumption
<1>2. ASSUME NEW S \in SUBSET Nat, S = {n \in 0..Seed : ~\E f : Solves(f, n)}, S # {}
      PROVE  FALSE
  <2>1. PICK m \in S : \A n \in S : m <= n
    BY <1>2, SmallestMember
  <2>2. m \in 0..Seed /\ m \in Nat
    BY <1>1, <1>2, <2>1
  <2>3. m # 0
    <3> DEFINE one == [k \in 0..0 |-> 1]
    <3>1. Solves(one, 0)
      OBVIOUS
    <3> QED BY <3>1, <1>2, <2>1
  <2>4. m - 1 \in 0..Seed /\ m - 1 \notin S
    BY <1>1, <2>1, <2>2, <2>3
  <2>5. PICK f : Solves(f, m - 1)
    BY <1>2, <2>4
  <2> DEFINE g == [k \in 0..m |-> IF k = m THEN 2 * f[m - 1] ELSE f[k]]
  <2>6. \A k \in 0..m : g[k] = IF k = 0 THEN 1 ELSE 2 * g[k - 1]
    BY <2>2, <2>3, <2>5
  <2>7. Solves(g, m)
    <3>1. g = [k \in 0..m |-> g[k]]
      OBVIOUS
    <3> HIDE DEF g
    <3> QED BY <3>1, <2>6
  <2> HIDE DEF g, Solves
  <2> QED BY <2>7, <1>2, <2>1
<1>3. \E f : Solves(f, Seed)
  <2> DEFINE S == {n \in 0..Seed : ~\E f : Solves(f, n)}
  <2>1. S \in SUBSET Nat /\ Seed \in 0..Seed
    <3> HIDE DEF Solves
    <3> QED BY <1>1
  <2>2. S = {}
    BY <2>1, <1>2
  <2> HIDE DEF Solves
  <2> QED BY <2>1, <2>2
<1>4. Doublings = [k \in 0..Seed |-> IF k = 0 THEN 1 ELSE 2 * Doublings[k - 1]]
  BY <1>3 DEF Doublings
<1>5. \A k \in 1..Seed : k \in 0..Seed /\ k - 1 \in 0..Seed /\ k # 0
  BY <1>1
<1>6. 0 \in 0..Seed /\ Doublings[0] = 1
  BY <1>1, <1>4
<1>7. \A k \in 1..Seed : Doublings[k] = 2 * Doublings[k - 1]
  BY <1>4, <1>5
<1>8. ASSUME NEW S \in SUBSET Nat, S = {k \in 0..Seed : Doublings[k] \notin Nat}, S # {}
      PROVE  FALSE
  <2>1. PICK m \in S : \A n \in S : m <= n
    BY <1>8, SmallestMember
  <2>2. m \in 1..Seed
    BY <1>1, <1>6, <1>8, <2>1
  <2>3. m - 1 \notin S /\ m - 1 \in 0..Seed
    BY <1>1, <2>1, <2>2
  <2>4. Doublings[m - 1] \in Nat
    BY <1>8, <2>3
  <2> QED BY <1>7, <1>8, <2>1, <2>2, <2>4
<1>9. \A k \in 0..Seed : Doublings[k] \in Nat
  <2>1. {k \in 0..Seed : Doublings[k] \notin Nat} \in SUBSET Nat
    BY <1>1
  <2> QED BY <1>8, <2>1
<1> QED BY <1>5, <1>6, <1>7, <1>9

-----------------------------------------------------------------------------
LEMMA Sizes ==
  /\ NumLayers \in Nat /\ NumLayers # 0 /\ Seed \in Nat /\ Seed # 0
  /\ PromptLen \in Nat /\ PromptLen # 0 /\ MaxContext \in Nat
  /\ FullLayers \subseteq Layers /\ 1 \in Layers /\ NumLayers \in Layers
  /\ Layers \subseteq Nat
BY PrefillAssumption DEF Layers

LEMMA Chunks ==
  ASSUME NEW b \in 1..PromptLen
  PROVE  /\ ChunkEnd(b) \in b..PromptLen /\ ChunkSize(b) \in 1..Seed
         /\ ChunkSize(b) = ChunkEnd(b) - b + 1
         /\ ChunkEnd(b) = PromptLen <=> b = PromptLen
BY Sizes DEF ChunkEnd, ChunkSize, SmallerOf

LEMMA Calls ==
  ASSUME PrefillTypeOK, CallInChunk
  PROVE  /\ CallEnd \in (at + 1)..(ChunkEnd(base) + 1)
         /\ at = base /\ size = ChunkSize(base) => CallEnd = ChunkEnd(base) + 1
         /\ base \in 1..PromptLen /\ ChunkEnd(base) \in base..PromptLen
         /\ at \in base..ChunkEnd(base) /\ at \in Nat /\ CallEnd \in Nat
         /\ base \in Nat /\ ChunkEnd(base) \in Nat /\ size \in 1..Seed
<1>1. base \in 1..PromptLen /\ size \in 1..Seed /\ at \in base..ChunkEnd(base)
  BY DEF PrefillTypeOK, CallInChunk
<1> QED BY <1>1, Chunks, Sizes DEF CallEnd, SmallerOf

LEMMA Takes ==
  ASSUME PrefillTypeOK, CallInChunk, NEW l \in Layers
  PROVE  /\ Taken(l) \in 0..(CallEnd - at) /\ Taken(l) \in Nat
         /\ Covered(l) = at + Taken(l) - 1
         /\ Covered(l) \in Nat /\ Covered(l) \in (at - 1)..(CallEnd - 1)
         /\ Covered(l) <= ChunkEnd(base)
         /\ \A m \in Layers : l < m => Taken(l) >= Taken(m)
<1>1. /\ base \in 1..PromptLen /\ size \in 1..Seed /\ at \in base..ChunkEnd(base)
      /\ phase \in {"embed", "attend", "recur", "moe"}
      /\ phase \in {"attend", "recur"} => token \in at..(CallEnd - 1)
      /\ layer \in Nat /\ l \in Nat /\ at \in Nat
  BY Sizes DEF PrefillTypeOK, CallInChunk
<1>2. CallEnd \in (at + 1)..(ChunkEnd(base) + 1) /\ ChunkEnd(base) \in Nat /\ CallEnd \in Nat
  BY <1>1, Calls, Chunks, Sizes
<1>3. \A m \in Layers : Taken(m) \in 0..(CallEnd - at)
  BY <1>1, <1>2, Sizes DEF Taken
<1>4. \A m \in Layers : l < m => Taken(l) >= Taken(m)
  <2> SUFFICES ASSUME NEW m \in Layers, l < m PROVE Taken(l) >= Taken(m)
    OBVIOUS
  <2>1. m \in Nat
    BY Sizes
  <2>2. CASE phase = "embed" \/ m > layer
    <3>1. Taken(m) = 0
      BY <2>2 DEF Taken
    <3> QED BY <1>2, <1>3, <3>1
  <2>3. CASE phase # "embed" /\ ~(m > layer)
    <3>1. Taken(l) = CallEnd - at
      BY <1>1, <2>1, <2>3 DEF Taken
    <3> QED BY <1>2, <1>3, <3>1
  <2> QED BY <2>2, <2>3
<1> QED BY <1>1, <1>2, <1>3, <1>4 DEF Covered

(* What the inductive invariant says of a layer.                           *)
LEMMA Lags ==
  ASSUME PrefillTypeOK, CallInChunk, LaggedBefore
  PROVE  DeeperLayersLag
<1> SUFFICES ASSUME NEW l \in Layers, NEW m \in Layers, l < m
             PROVE  Len(state[l]) >= Len(state[m])
  BY DEF DeeperLayersLag
<1>1. Len(state[l]) \in Nat /\ Len(state[m]) \in Nat
  BY LenProperties DEF PrefillTypeOK
<1>2. Taken(l) \in Nat /\ Taken(m) \in Nat /\ Taken(l) >= Taken(m)
  BY Takes
<1>3. Len(state[l]) + Taken(m) >= Len(state[m]) + Taken(l)
  BY DEF LaggedBefore
<1> QED BY <1>1, <1>2, <1>3

-----------------------------------------------------------------------------
LEMMA PrefillStart == PrefillInit => PrefillIInv
<1> SUFFICES ASSUME PrefillInit PROVE PrefillIInv
  OBVIOUS
<1>1. /\ ChunkEnd(1) \in 1..PromptLen /\ ChunkSize(1) \in 1..Seed /\ 1 \in 1..PromptLen
      /\ 1 \in 1..ChunkEnd(1)
  BY Chunks, Sizes
<1>2. <<>> \in Seq(1..PromptLen) /\ Len(<<>>) = 0
  BY EmptySeq
<1>3. PrefillTypeOK
  <2>1. /\ tail \in [Layers -> Seq(1..PromptLen)] /\ state \in [Layers -> Seq(1..PromptLen)]
        /\ \A l \in FullLayers : state[l] = <<>> /\ tail[l] = <<>>
    BY <1>2, Sizes DEF PrefillInit
  <2>2. \A l \in FullLayers : Len(state[l]) <= MaxContext
    BY <1>2, <2>1, Sizes
  <2>3. /\ decodeIndex \in 0..PromptLen /\ base \in 1..PromptLen /\ size \in 1..Seed
        /\ at \in 1..PromptLen /\ token \in 1..PromptLen /\ layer \in Layers
    BY <1>1, Sizes DEF PrefillInit
  <2> QED BY <2>1, <2>2, <2>3 DEF PrefillInit, PrefillTypeOK
<1>4. CallInChunk
  BY <1>1, Sizes DEF PrefillInit, CallInChunk
<1>5. \A l \in Layers : Taken(l) = 0 /\ Covered(l) = 0 /\ state[l] = <<>> /\ tail[l] = <<>>
  BY Sizes DEF PrefillInit, Taken, Covered
<1>6. LaggedBefore
  BY <1>2, <1>5 DEF LaggedBefore
<1>7. CoveredInOrder
  <2>1. 1..0 = {} /\ 2..0 = {} /\ ~(0 > 0)
    OBVIOUS
  <2> QED BY <1>5, <2>1 DEF CoveredInOrder
<1>8. OnlyCovered
  <2>1. phase # "recur" /\ 0 + 0 = 0 /\ [t \in 1..0 |-> t] = <<>>
    BY DEF PrefillInit
  <2> QED BY <1>5, <2>1 DEF OnlyCovered
<1>9. HalvingsCounted
  <2>1. Doublings[0] * size <= Seed /\ 0 < Doublings[0] /\ 0 \in 0..Seed
    BY <1>1, Twofold, Sizes DEF PrefillInit
  <2>2. ASSUME NEW l \in Layers, NEW t \in 1..PromptLen
        PROVE  IF t < base THEN SeenFewTimes(l, t)
               ELSE /\ Times(state[l], t) <= 0 + (IF t <= Covered(l) THEN 1 ELSE 0)
                    /\ t > ChunkEnd(base) => Times(state[l], t) = 0
    <3>1. Times(state[l], t) = 0
      BY <1>2, <1>5, SeenBefore, Sizes
    <3>2. ~(t < base)
      BY Sizes DEF PrefillInit
    <3> QED BY <3>1, <3>2
  <2> QED BY <2>1, <2>2 DEF HalvingsCounted
<1> QED BY <1>3, <1>4, <1>6, <1>7, <1>8, <1>9 DEF PrefillIInv

(* Steps that show nothing to a layer keep what has been seen in order.    *)
LEMMA OrderStays ==
  ASSUME PrefillTypeOK, CallInChunk, LaggedBefore, CoveredInOrder, UNCHANGED state,
         \A l \in Layers : Covered(l)' \in Int /\ Covered(l)' <= Covered(l),
         \/ \A l \in Layers : Taken(l)' = Taken(l) /\ Covered(l)' = Covered(l)
         \/ \A l \in Layers : Taken(l)' = 0
  PROVE  LaggedBefore' /\ CoveredInOrder'
<1>1. LaggedBefore'
  <2>1. CASE \A l \in Layers : Taken(l)' = Taken(l)
    BY <2>1 DEF LaggedBefore
  <2>2. CASE \A l \in Layers : Taken(l)' = 0
    <3>1. \A l \in Layers : Len(state[l]) \in Nat
      BY LenProperties DEF PrefillTypeOK
    <3>2. \A l, m \in Layers : l < m => Len(state[l]) >= Len(state[m])
      BY Lags DEF DeeperLayersLag
    <3> QED BY <2>2, <3>1, <3>2 DEF LaggedBefore
  <2> QED BY <2>1, <2>2
<1>2. ASSUME NEW l \in Layers
      PROVE  /\ Taken(l)' > 0 => state[l]' # <<>> /\ Last(state[l])' = Covered(l)'
             /\ \A t \in (1..Covered(l))' : LastSeen(state[l], t)' > 0
             /\ \A t \in (2..Covered(l))' : LastSeen(state[l], t - 1)' < LastSeen(state[l], t)'
  <2>1. Covered(l) \in Nat
    BY Takes
  <2>2. \A t \in (1..Covered(l))' : t \in 1..Covered(l)
    BY <2>1
  <2>3. \A t \in (2..Covered(l))' : t \in 2..Covered(l)
    BY <2>1
  <2>4. Taken(l)' > 0 => Taken(l)' = Taken(l) /\ Covered(l)' = Covered(l)
    OBVIOUS
  <2> QED BY <2>2, <2>3, <2>4 DEF CoveredInOrder
<1> QED BY <1>1, <1>2 DEF CoveredInOrder

LEMMA CountsStay ==
  ASSUME HalvingsCounted, UNCHANGED <<state, base, size>>,
         \A l \in Layers : Covered(l)' = Covered(l)
  PROVE  HalvingsCounted'
BY DEF HalvingsCounted, SeenFewTimes, ChunkEnd

(* The next step of a call that shows nothing to a layer.                  *)
LEMMA EmbedStep == PrefillIInv /\ Embed => PrefillIInv'
<1> SUFFICES ASSUME PrefillIInv, Embed PROVE PrefillIInv'
  OBVIOUS
<1> USE DEF PrefillIInv
<1>1. UNCHANGED <<tail, state, decodeIndex, base, size, at, halved, outcome>>
  BY DEF Embed, fed, chunk
<1>2. phase = "embed" /\ phase' = "attend" /\ layer' = 1 /\ token' = at
  BY DEF Embed
<1>3. CallEnd \in (at + 1)..(ChunkEnd(base) + 1) /\ at \in base..ChunkEnd(base)
      /\ ChunkEnd(base) \in Nat /\ base \in 1..PromptLen
  BY Calls
<1>4. \A l \in Layers : Taken(l)' = Taken(l) /\ Covered(l)' = Covered(l) /\ Covered(l) \in Nat
  <2> SUFFICES ASSUME NEW l \in Layers PROVE Taken(l)' = Taken(l) /\ Covered(l)' = Covered(l)
    BY Takes
  <2>1. Taken(l) = 0
    BY <1>2 DEF Taken
  <2>2. Taken(l)' = 0
    <3>1. l \in Nat /\ at - at = 0 /\ 1 \in Nat /\ ~(l < 1)
      BY <1>3, Sizes DEF Layers
    <3> QED BY <1>1, <1>2, <3>1 DEF Taken
  <2> QED BY <1>1, <2>1, <2>2 DEF Covered
<1>5. PrefillTypeOK'
  BY <1>1, <1>2, <1>3, Sizes DEF PrefillTypeOK
<1>6. CallInChunk'
  BY <1>1, <1>2, <1>3, Sizes DEF CallInChunk, CallEnd, ChunkEnd, ChunkSize
<1>7. LaggedBefore' /\ CoveredInOrder'
  BY <1>1, <1>4, OrderStays
<1>8. OnlyCovered'
  BY <1>1, <1>2, <1>4 DEF OnlyCovered
<1>9. HalvingsCounted'
  BY <1>1, <1>4, CountsStay
<1> QED BY <1>5, <1>6, <1>7, <1>8, <1>9

LEMMA TailStep == PrefillIInv /\ AdvanceTail => PrefillIInv'
<1> SUFFICES ASSUME PrefillIInv, AdvanceTail PROVE PrefillIInv'
  OBVIOUS
<1> USE DEF PrefillIInv
<1>1. /\ UNCHANGED <<state, decodeIndex, base, size, at, halved, layer, token, outcome>>
      /\ phase = "attend" /\ phase' = "recur" /\ layer \notin FullLayers
      /\ tail' = [tail EXCEPT ![layer] = Append(@, token)]
  BY DEF AdvanceTail, chunk
<1>2. CallEnd \in Nat /\ at \in Nat /\ token \in at..(CallEnd - 1) /\ token \in 1..PromptLen
      /\ layer \in Layers /\ layer \in Nat
  BY <1>1, Calls, Sizes DEF CallInChunk, PrefillTypeOK
<1>3. \A l \in Layers : Taken(l)' = Taken(l) /\ Covered(l)' = Covered(l) /\ Covered(l) \in Nat
  <2> SUFFICES ASSUME NEW l \in Layers PROVE Taken(l)' = Taken(l) /\ Covered(l)' = Covered(l)
    BY Takes
  <2>1. Taken(l)' = Taken(l)
    BY <1>1 DEF Taken, CallEnd, ChunkEnd
  <2> QED BY <1>1, <2>1 DEF Covered
<1>4. PrefillTypeOK'
  <2>1. tail' \in [Layers -> Seq(1..PromptLen)] /\ \A l \in FullLayers : tail'[l] = tail[l]
    BY <1>1, <1>2, AppendProperties DEF PrefillTypeOK
  <2> QED BY <1>1, <2>1 DEF PrefillTypeOK
<1>5. CallInChunk'
  BY <1>1, <1>2 DEF CallInChunk, CallEnd, ChunkEnd, ChunkSize
<1>6. LaggedBefore' /\ CoveredInOrder'
  BY <1>1, <1>3, OrderStays
<1>7. OnlyCovered'
  <2> SUFFICES ASSUME ~halved, NEW l \in Layers
               PROVE  /\ state[l] = [t \in 1..Covered(l) |-> t]
                      /\ l \notin FullLayers =>
                           tail'[l] = [t \in 1..(Covered(l) + IF l = layer THEN 1 ELSE 0) |-> t]
    BY <1>1, <1>3 DEF OnlyCovered
  <2>1. /\ state[l] = [t \in 1..Covered(l) |-> t]
        /\ l \notin FullLayers => tail[l] = [t \in 1..(Covered(l) + 0) |-> t]
    BY <1>1 DEF OnlyCovered
  <2>2. Covered(l) \in Nat
    BY <1>3
  <2>3. CASE l = layer
    <3>1. Covered(l) = token - 1
      BY <1>1, <1>2, <2>3 DEF Covered, Taken
    <3>2. tail[l] \in Seq(1..PromptLen) /\ tail[l] = [t \in 1..(token - 1) |-> t]
      BY <1>1, <1>2, <2>1, <2>3, <3>1 DEF PrefillTypeOK
    <3>3. Len(tail[l]) = token - 1
      BY <1>2, <2>2, <3>1, <3>2, LenProperties
    <3>4. Append(tail[l], token) = [t \in 1..token |-> t]
      BY <1>2, <3>2, <3>3, AppendProperties
    <3> QED BY <1>1, <1>2, <2>1, <2>3, <3>1, <3>4 DEF PrefillTypeOK
  <2>4. CASE l # layer
    BY <1>1, <2>1, <2>4 DEF PrefillTypeOK
  <2> QED BY <2>3, <2>4
<1>8. HalvingsCounted'
  BY <1>1, <1>3, CountsStay
<1> QED BY <1>4, <1>5, <1>6, <1>7, <1>8

LEMMA LayerStep == PrefillIInv /\ NextLayer => PrefillIInv'
<1> SUFFICES ASSUME PrefillIInv, NextLayer PROVE PrefillIInv'
  OBVIOUS
<1> USE DEF PrefillIInv
<1>1. /\ UNCHANGED <<tail, state, decodeIndex, base, size, at, halved, outcome>>
      /\ outcome = "running" /\ phase = "moe" /\ layer < NumLayers
      /\ phase' = "attend" /\ layer' = layer + 1 /\ token' = at
  BY DEF NextLayer, fed, chunk
<1>2. /\ CallEnd \in (at + 1)..(ChunkEnd(base) + 1) /\ at \in base..ChunkEnd(base)
      /\ at \in Nat /\ CallEnd \in Nat /\ base \in 1..PromptLen /\ ChunkEnd(base) \in base..PromptLen
  BY Calls
<1>3. layer \in Nat /\ layer' \in Layers
  BY <1>1, Sizes DEF Layers, PrefillTypeOK
<1>4. \A l \in Layers : Taken(l)' = Taken(l) /\ Covered(l)' = Covered(l) /\ Covered(l) \in Nat
  <2> SUFFICES ASSUME NEW l \in Layers PROVE Taken(l)' = Taken(l) /\ Covered(l)' = Covered(l)
    BY Takes
  <2>1. l \in Nat
    BY Sizes
  <2>2. Taken(l) = IF l > layer THEN 0 ELSE CallEnd - at
    BY <1>1, <1>3, <2>1 DEF Taken
  <2>3. Taken(l)' = IF l > layer + 1 THEN 0 ELSE IF l < layer + 1 THEN CallEnd - at ELSE at - at
    BY <1>1, <1>3, <2>1 DEF Taken, CallEnd, ChunkEnd
  <2>4. Taken(l)' = Taken(l)
    BY <1>2, <1>3, <2>1, <2>2, <2>3
  <2> QED BY <1>1, <2>4 DEF Covered
<1>5. PrefillTypeOK'
  BY <1>1, <1>2, <1>3, Sizes DEF PrefillTypeOK
<1>6. CallInChunk'
  BY <1>1, <1>2, <1>3, Sizes DEF CallInChunk, CallEnd, ChunkEnd, ChunkSize
<1>7. LaggedBefore' /\ CoveredInOrder'
  BY <1>1, <1>4, OrderStays
<1>8. OnlyCovered'
  BY <1>1, <1>4 DEF OnlyCovered
<1>9. HalvingsCounted'
  BY <1>1, <1>4, CountsStay
<1> QED BY <1>5, <1>6, <1>7, <1>8, <1>9

(* A token reaches a layer: it is now the last one that is covered there.  *)
LEMMA StateStep == PrefillIInv /\ AdvanceState => PrefillIInv'
<1> SUFFICES ASSUME PrefillIInv, AdvanceState PROVE PrefillIInv'
  OBVIOUS
<1> USE DEF PrefillIInv
<1>1. /\ UNCHANGED <<tail, decodeIndex, base, size, at, halved, layer, outcome>>
      /\ outcome = "running" /\ phase \in {"attend", "recur"}
      /\ layer \notin FullLayers => phase = "recur"
      /\ layer \in FullLayers => Len(state[layer]) < MaxContext
      /\ state' = [state EXCEPT ![layer] = Append(@, token)]
      /\ IF token + 1 = CallEnd
         THEN phase' = "moe" /\ token' = token
         ELSE phase' = "attend" /\ token' = token + 1
  BY DEF AdvanceState, chunk, CallInChunk
<1>2. /\ CallEnd \in Nat /\ at \in Nat /\ base \in Nat /\ at >= base /\ ChunkEnd(base) \in Nat
      /\ CallEnd <= ChunkEnd(base) + 1
      /\ token \in at..(CallEnd - 1) /\ token \in 1..PromptLen
      /\ layer \in Layers /\ layer \in Nat /\ PromptLen \in Nat
  BY <1>1, Calls, Sizes DEF CallInChunk, PrefillTypeOK
<1>3. UNCHANGED <<CallEnd, ChunkEnd(base)>>
  BY <1>1 DEF CallEnd, ChunkEnd
<1>0. PICK L \in Layers, T \in 1..PromptLen : L = layer /\ T = token
  BY <1>2
<1>4. \A l \in Layers :
        /\ Taken(l) \in Nat /\ Covered(l) \in Nat
        /\ Taken(l)' = Taken(l) + (IF l = L THEN 1 ELSE 0)
        /\ Covered(l)' = Covered(l) + (IF l = L THEN 1 ELSE 0)
  <2> SUFFICES ASSUME NEW l \in Layers
               PROVE  /\ Taken(l)' = Taken(l) + (IF l = L THEN 1 ELSE 0)
                      /\ Covered(l)' = Covered(l) + (IF l = L THEN 1 ELSE 0)
    BY Takes
  <2>1. l \in Nat /\ Taken(l) \in Nat
    BY Takes, Sizes
  <2>2. Taken(l)' = Taken(l) + (IF l = L THEN 1 ELSE 0)
    <3>1. Taken(l) = IF l > L THEN 0 ELSE IF l < L THEN CallEnd - at ELSE T - at
      BY <1>0, <1>1 DEF Taken
    <3>2. Taken(l)' = IF l > L THEN 0
                      ELSE IF l < L \/ phase' = "moe" THEN CallEnd - at ELSE token' - at
      BY <1>0, <1>1, <1>3 DEF Taken
    <3> QED BY <1>0, <1>1, <1>2, <2>1, <3>1, <3>2
  <2> QED BY <1>0, <1>1, <1>2, <2>1, <2>2 DEF Covered
<1>5. Covered(L) = T - 1 /\ Covered(L)' = T /\ Taken(L)' > 0
  <2>1. Covered(L) = T - 1
    BY <1>0, <1>1, <1>2 DEF Covered, Taken
  <2> QED BY <1>0, <1>2, <1>4, <2>1
<1>6. state[L] \in Seq(1..PromptLen) /\ Len(state[L]) \in Nat
      /\ \A l \in Layers : state[l] \in Seq(1..PromptLen) /\ Len(state[l]) \in Nat
  BY <1>0, <1>2, LenProperties DEF PrefillTypeOK
<1>7. /\ state'[L] = Append(state[L], T)
      /\ \A l \in Layers : l # L => state'[l] = state[l]
      /\ DOMAIN state' = Layers
  BY <1>0, <1>1, <1>2 DEF PrefillTypeOK
<1>8. /\ state'[L] \in Seq(1..PromptLen) /\ state'[L] # <<>>
      /\ Last(state'[L]) = T /\ Len(state'[L]) = Len(state[L]) + 1
  <2>1. /\ Append(state[L], T) \in Seq(1..PromptLen) /\ Append(state[L], T) # <<>>
        /\ Last(Append(state[L], T)) = T
        /\ Len(Append(state[L], T)) = Len(state[L]) + 1
    BY <1>2, <1>6, SeenAgain
  <2> QED BY <1>7, <2>1
<1>9. \A t \in 1..PromptLen :
        /\ Times(state'[L], t) = Times(state[L], t) + (IF t = T THEN 1 ELSE 0)
        /\ LastSeen(state'[L], t) =
             IF t = T THEN Len(state[L]) + 1 ELSE LastSeen(state[L], t)
        /\ Times(state[L], t) \in Nat
        /\ LastSeen(state[L], t) \in 0..Len(state[L])
  <2> SUFFICES ASSUME NEW t \in 1..PromptLen, NEW before \in Seq(1..PromptLen),
                      before = state[L]
               PROVE  /\ Times(Append(before, T), t) = Times(before, t) + (IF t = T THEN 1 ELSE 0)
                      /\ LastSeen(Append(before, T), t) =
                           IF t = T THEN Len(before) + 1 ELSE LastSeen(before, t)
                      /\ Times(before, t) \in Nat
                      /\ LastSeen(before, t) \in 0..Len(before)
    BY <1>6, <1>7
  <2>1. PromptLen \in Nat /\ T \in 1..PromptLen
    BY <1>0, <1>2, Sizes
  <2> QED BY <2>1, SeenAgain, SeenBefore
<1>10. PrefillTypeOK'
  <2>1. state' \in [Layers -> Seq(1..PromptLen)]
    BY <1>0, <1>1, <1>6, <1>7, <1>8 DEF PrefillTypeOK
  <2>2. \A l \in FullLayers : Len(state[l])' <= MaxContext /\ tail'[l] = <<>>
    <3> SUFFICES ASSUME NEW l \in FullLayers PROVE Len(state'[l]) <= MaxContext /\ tail[l] = <<>>
      BY <1>0, <1>1
    <3>1. l \in Layers /\ Len(state[l]) <= MaxContext /\ tail[l] = <<>> /\ MaxContext \in Nat
      BY Sizes DEF PrefillTypeOK
    <3> QED BY <1>0, <1>1, <1>6, <1>7, <1>8, <3>1
  <2>3. token' \in 1..PromptLen
    <3>1. ChunkEnd(base) <= PromptLen
      BY Calls, <1>2
    <3> QED BY <1>0, <1>1, <1>2, <3>1
  <2> QED BY <1>0, <1>1, <2>1, <2>2, <2>3 DEF PrefillTypeOK
<1>11. CallInChunk'
  BY <1>0, <1>1, <1>2, <1>3 DEF CallInChunk, ChunkSize
<1>12. LaggedBefore'
  <2> SUFFICES ASSUME NEW l \in Layers, NEW m \in Layers, l < m
               PROVE  Len(state'[l]) + Taken(m)' >= Len(state'[m]) + Taken(l)'
    BY DEF LaggedBefore
  <2>1. Len(state[l]) + Taken(m) >= Len(state[m]) + Taken(l)
    BY DEF LaggedBefore
  <2>2. /\ Len(state'[l]) = Len(state[l]) + (IF l = L THEN 1 ELSE 0)
        /\ Len(state'[m]) = Len(state[m]) + (IF m = L THEN 1 ELSE 0)
    <3>1. \A n \in Layers : n = L => Len(state'[n]) = Len(state[n]) + 1
      BY <1>8
    <3>2. \A n \in Layers : n # L => Len(state'[n]) = Len(state[n]) + 0
      BY <1>6, <1>7
    <3> QED BY <3>1, <3>2
  <2>3. /\ Len(state[l]) \in Nat /\ Len(state[m]) \in Nat
        /\ Taken(l) \in Nat /\ Taken(m) \in Nat
    BY <1>4, <1>6
  <2>4. /\ Taken(l)' = Taken(l) + (IF l = L THEN 1 ELSE 0)
        /\ Taken(m)' = Taken(m) + (IF m = L THEN 1 ELSE 0)
    BY <1>4
  <2>5. \A a, b, c, d \in Nat, i, j \in {0, 1} :
          a + d >= b + c => (a + i) + (d + j) >= (b + j) + (c + i)
    OBVIOUS
  <2>6. PICK i \in {0, 1}, j \in {0, 1} :
          i = (IF l = L THEN 1 ELSE 0) /\ j = (IF m = L THEN 1 ELSE 0)
    OBVIOUS
  <2>7. /\ Len(state'[l]) = Len(state[l]) + i /\ Len(state'[m]) = Len(state[m]) + j
        /\ Taken(l)' = Taken(l) + i /\ Taken(m)' = Taken(m) + j
    BY <2>2, <2>4, <2>6
  <2>8. (Len(state[l]) + i) + (Taken(m) + j) >= (Len(state[m]) + j) + (Taken(l) + i)
    BY <2>1, <2>3, <2>5
  <2> QED BY ONLY <2>7, <2>8
<1>13. CoveredInOrder'
  <2> SUFFICES ASSUME NEW l \in Layers
               PROVE  /\ Taken(l)' > 0 => state'[l] # <<>> /\ Last(state'[l]) = Covered(l)'
                      /\ \A t \in 1..Covered(l)' : LastSeen(state'[l], t) > 0
                      /\ \A t \in 2..Covered(l)' :
                           LastSeen(state'[l], t - 1) < LastSeen(state'[l], t)
    BY DEF CoveredInOrder
  <2>1. CASE l # L
    <3>1. state'[l] = state[l] /\ Taken(l)' = Taken(l) /\ Covered(l)' = Covered(l)
      BY <1>4, <1>7, <2>1
    <3> QED BY <3>1 DEF CoveredInOrder
  <2>2. CASE l = L
    <3>1. /\ \A t \in 1..(T - 1) : LastSeen(state[L], t) > 0
          /\ \A t \in 2..(T - 1) :
               LastSeen(state[L], t - 1) < LastSeen(state[L], t)
      BY <1>0, <1>2, <1>5 DEF CoveredInOrder
    <3>2. \A t \in 1..T : LastSeen(state'[L], t) > 0
      <4> SUFFICES ASSUME NEW t \in 1..T PROVE LastSeen(state'[L], t) > 0
        OBVIOUS
      <4>1. t \in 1..PromptLen /\ (t = T \/ t \in 1..(T - 1))
        BY <1>0, <1>2
      <4> QED BY <1>6, <1>9, <3>1, <4>1
    <3>3. \A t \in 2..T : LastSeen(state'[L], t - 1) < LastSeen(state'[L], t)
      <4> SUFFICES ASSUME NEW t \in 2..T
                   PROVE  LastSeen(state'[L], t - 1) < LastSeen(state'[L], t)
        OBVIOUS
      <4>1. /\ t \in 1..PromptLen /\ t - 1 \in 1..PromptLen /\ t - 1 # T
            /\ t = T \/ t \in 2..(T - 1)
        BY <1>0, <1>2
      <4>2. LastSeen(state'[L], t - 1) = LastSeen(state[L], t - 1)
            /\ LastSeen(state[L], t - 1) \in 0..Len(state[L])
        BY <1>9, <4>1
      <4>3. CASE t = T
        <5>1. LastSeen(state'[L], t) = Len(state[L]) + 1
          BY <1>9, <4>1, <4>3
        <5> QED BY <1>6, <4>2, <5>1
      <4>4. CASE t # T
        <5>1. LastSeen(state'[L], t) = LastSeen(state[L], t)
          BY <1>9, <4>1, <4>4
        <5> QED BY <3>1, <4>1, <4>2, <4>4, <5>1
      <4> QED BY <4>3, <4>4
    <3> QED BY <1>5, <1>8, <2>2, <3>2, <3>3
  <2> QED BY <2>1, <2>2
<1>14. OnlyCovered'
  <2> SUFFICES ASSUME ~halved, NEW l \in Layers
               PROVE  /\ state'[l] = [t \in 1..Covered(l)' |-> t]
                      /\ l \notin FullLayers => tail[l] = [t \in 1..(Covered(l)' + 0) |-> t]
    BY <1>0, <1>1 DEF OnlyCovered
  <2>1. /\ state[l] = [t \in 1..Covered(l) |-> t]
        /\ l \notin FullLayers =>
             tail[l] = [t \in 1..(Covered(l) + IF phase = "recur" /\ l = L THEN 1 ELSE 0) |-> t]
    BY <1>0 DEF OnlyCovered
  <2>2. CASE l = L
    <3>1. state[L] = [t \in 1..(T - 1) |-> t]
      BY <1>5, <2>1, <2>2
    <3>2. Len(state[L]) = T - 1
      BY <1>0, <1>2, <1>6, <3>1, LenProperties
    <3>3. Append(state[L], T) = [t \in 1..T |-> t]
      BY <1>0, <1>2, <1>6, <3>1, <3>2, AppendProperties
    <3>4. L \notin FullLayers => tail[L] = [t \in 1..(T - 1 + 1) |-> t]
      BY <1>0, <1>1, <1>5, <2>1, <2>2
    <3> QED BY <1>0, <1>2, <1>5, <1>7, <2>2, <3>3, <3>4
  <2>3. CASE l # L
    <3>1. Covered(l)' = Covered(l) + 0 /\ Covered(l) \in Nat /\ state'[l] = state[l]
      BY <1>4, <1>7, <2>3
    <3>2. l \notin FullLayers => tail[l] = [t \in 1..(Covered(l) + 0) |-> t]
      BY <2>1, <2>3
    <3> QED BY <2>1, <3>1, <3>2
  <2> QED BY <2>2, <2>3
<1>15. HalvingsCounted'
  <2>1. PICK k \in 0..Seed :
          /\ k < Doublings[k] /\ Doublings[k] * size <= Seed
          /\ \A l \in Layers, t \in 1..PromptLen :
               IF t < base THEN SeenFewTimes(l, t)
               ELSE /\ Times(state[l], t) <= k + (IF t <= Covered(l) THEN 1 ELSE 0)
                    /\ t > ChunkEnd(base) => Times(state[l], t) = 0
    BY DEF HalvingsCounted
  <2>2. ASSUME NEW l \in Layers, NEW t \in 1..PromptLen
        PROVE  IF t < base THEN SeenFewTimes(l, t)'
               ELSE /\ Times(state'[l], t) <= k + (IF t <= Covered(l)' THEN 1 ELSE 0)
                    /\ t > ChunkEnd(base) => Times(state'[l], t) = 0
    <3>1. CASE l # L \/ t # T
      <4>1. Times(state'[l], t) = Times(state[l], t)
        <5>1. CASE l # L
          BY <1>7, <5>1
        <5>2. CASE l = L
          BY <1>9, <3>1, <5>2
        <5> QED BY <5>1, <5>2
      <4>2. SeenFewTimes(l, t) => SeenFewTimes(l, t)'
        BY <4>1 DEF SeenFewTimes
      <4>3. t <= Covered(l)' <=> t <= Covered(l)
        BY <1>0, <1>2, <1>4, <1>5, <3>1
      <4> QED BY <2>1, <4>1, <4>2, <4>3
    <3>2. CASE l = L /\ t = T
      <4>1. ~(t < base) /\ ~(t <= Covered(l)) /\ t <= Covered(l)' /\ ~(t > ChunkEnd(base))
        BY <1>0, <1>2, <1>5, <3>2
      <4>2. Times(state[l], t) <= k + 0
        BY <2>1, <4>1
      <4>3. Times(state'[l], t) = Times(state[l], t) + 1 /\ Times(state[l], t) \in Nat
        BY <1>9, <3>2
      <4> QED BY <4>1, <4>2, <4>3
    <3> QED BY <3>1, <3>2
  <2> QED BY <1>0, <1>1, <1>3, <2>1, <2>2 DEF HalvingsCounted
<1> QED BY <1>0, <1>10, <1>11, <1>12, <1>13, <1>14, <1>15

(* The call is over: what it covered stays covered.                        *)
LEMMA ReturnStep == PrefillIInv /\ Return => PrefillIInv'
<1> SUFFICES ASSUME PrefillIInv, Return PROVE PrefillIInv'
  OBVIOUS
<1> USE DEF PrefillIInv
<1>1. /\ UNCHANGED <<tail, state, halved>>
      /\ outcome = "running" /\ phase = "moe" /\ layer = NumLayers
      /\ decodeIndex' = decodeIndex + (CallEnd - at)
  BY DEF Return
<1>2. /\ CallEnd \in (at + 1)..(ChunkEnd(base) + 1) /\ at \in base..ChunkEnd(base)
      /\ at \in Nat /\ CallEnd \in Nat /\ base \in 1..PromptLen /\ base \in Nat
      /\ ChunkEnd(base) \in base..PromptLen /\ ChunkEnd(base) \in Nat
      /\ size \in 1..Seed /\ PromptLen \in Nat
  BY Calls, Sizes
<1>3. decodeIndex' = CallEnd - 1
  BY <1>1, <1>2 DEF CallInChunk
<1>4. \A l \in Layers : Taken(l) = CallEnd - at /\ Covered(l) = CallEnd - 1 /\ l \in Nat
  <2> SUFFICES ASSUME NEW l \in Layers
               PROVE  Taken(l) = CallEnd - at /\ Covered(l) = CallEnd - 1 /\ l \in Nat
    OBVIOUS
  <2>1. Taken(l) = CallEnd - at /\ l \in Nat
    BY <1>1, Sizes DEF Taken, Layers
  <2> QED BY <1>2, <2>1 DEF Covered
<1>5. ASSUME base' \in 1..PromptLen, size' \in 1..ChunkSize(base)',
             at' = CallEnd, at' \in (base..ChunkEnd(base))', BeginCall, UNCHANGED outcome
      PROVE  /\ PrefillTypeOK' /\ CallInChunk' /\ LaggedBefore' /\ CoveredInOrder' /\ OnlyCovered'
             /\ \A l \in Layers : Covered(l)' = Covered(l)
  <2>1. phase' = "embed" /\ layer' = 1 /\ token' = CallEnd
    BY <1>5 DEF BeginCall
  <2>2. /\ ChunkEnd(base)' \in base'..PromptLen /\ ChunkSize(base)' \in 1..Seed
    <3>1. \A b \in 1..PromptLen : ChunkEnd(b) \in b..PromptLen /\ ChunkSize(b) \in 1..Seed
      BY Chunks
    <3> QED BY <1>5, <3>1 DEF ChunkEnd, ChunkSize
  <2>3. CallEnd \in 1..PromptLen
    BY <1>2, <1>5, <2>2
  <2>4. PrefillTypeOK'
    <3>1. /\ decodeIndex' \in 0..PromptLen /\ at' \in 1..PromptLen /\ token' \in 1..PromptLen
          /\ base' \in 1..PromptLen
      BY <1>2, <1>3, <1>5, <2>1, <2>3
    <3>2. size' \in 1..Seed /\ layer' \in Layers
      BY <1>2, <1>5, <2>1, <2>2, Sizes
    <3> QED BY <1>1, <1>5, <2>1, <3>1, <3>2 DEF PrefillTypeOK
  <2>5. CallInChunk'
    BY <1>1, <1>2, <1>3, <1>5, <2>1, <2>2 DEF CallInChunk
  <2>6. \A l \in Layers : Taken(l)' = 0 /\ Covered(l)' = Covered(l) /\ Covered(l) \in Nat
    BY <1>2, <1>4, <1>5, <2>1 DEF Taken, Covered
  <2>7. LaggedBefore' /\ CoveredInOrder'
    BY <1>1, <2>6, OrderStays
  <2>8. OnlyCovered'
    <3>1. phase # "recur" /\ phase' # "recur"
      BY <1>1, <2>1
    <3> QED BY <1>1, <2>6, <3>1 DEF OnlyCovered
  <2> QED BY <2>4, <2>5, <2>6, <2>7, <2>8
<1>6. CASE CallEnd <= ChunkEnd(base)
  <2>1. at' = CallEnd /\ BeginCall /\ UNCHANGED <<base, size, outcome>>
    BY <1>6 DEF Return
  <2>2. size' \in 1..ChunkSize(base)' /\ at' \in (base..ChunkEnd(base))' /\ base' \in 1..PromptLen
    BY <1>2, <1>6, <2>1 DEF CallInChunk, ChunkSize, ChunkEnd
  <2>3. HalvingsCounted'
    BY <1>1, <1>5, <2>1, <2>2, CountsStay
  <2> QED BY <1>5, <2>1, <2>2, <2>3
<1>7. CASE ~(CallEnd <= ChunkEnd(base)) /\ base = PromptLen
  <2>1. outcome' = "done" /\ UNCHANGED <<base, size, at, phase, layer, token>>
    BY <1>7 DEF Return, cursor
  <2>2. CallEnd = PromptLen + 1 /\ at = PromptLen
    BY <1>2, <1>7
  <2>3. PrefillTypeOK'
    BY <1>1, <1>2, <1>3, <2>1, <2>2 DEF PrefillTypeOK
  <2>4. CallInChunk'
    BY <1>1, <1>2, <1>3, <1>7, <2>1, <2>2 DEF CallInChunk, CallEnd, ChunkEnd, ChunkSize
  <2>5. \A l \in Layers : Taken(l)' = Taken(l) /\ Covered(l)' = Covered(l) /\ Covered(l) \in Nat
    BY <1>2, <1>4, <2>1 DEF Taken, Covered, CallEnd, ChunkEnd
  <2>6. LaggedBefore' /\ CoveredInOrder'
    BY <1>1, <2>5, OrderStays
  <2>7. OnlyCovered'
    BY <1>1, <2>1, <2>5 DEF OnlyCovered
  <2>8. HalvingsCounted'
    BY <1>1, <2>1, <2>5, CountsStay
  <2> QED BY <2>3, <2>4, <2>6, <2>7, <2>8
<1>8. CASE ~(CallEnd <= ChunkEnd(base)) /\ base # PromptLen
  <2>1. /\ base' = ChunkEnd(base) + 1 /\ at' = base' /\ size' = ChunkSize(base')
        /\ BeginCall /\ UNCHANGED outcome
    BY <1>8 DEF Return
  <2>2. CallEnd = ChunkEnd(base) + 1 /\ base' = CallEnd /\ base' \in Nat
    BY <1>2, <1>8, <2>1
  <2>3. base' \in 1..PromptLen
    <3>1. ChunkEnd(base) # PromptLen
      BY <1>2, <1>8, Chunks
    <3> QED BY <1>2, <2>1, <3>1
  <2>4. ChunkEnd(base') \in base'..PromptLen /\ ChunkSize(base') \in 1..Seed
    BY <2>3, Chunks
  <2>5. size' \in 1..ChunkSize(base)' /\ at' \in (base..ChunkEnd(base))'
    BY <2>1, <2>3, <2>4 DEF ChunkSize, ChunkEnd
  <2>6. HalvingsCounted'
    <3>1. Doublings[0] * size' <= Seed /\ 0 < Doublings[0] /\ 0 \in 0..Seed
      BY <2>1, <2>4, Twofold, Sizes
    <3>2. PICK k \in 0..Seed :
            /\ k < Doublings[k] /\ Doublings[k] * size <= Seed
            /\ \A l \in Layers, t \in 1..PromptLen :
                 IF t < base THEN SeenFewTimes(l, t)
                 ELSE /\ Times(state[l], t) <= k + (IF t <= Covered(l) THEN 1 ELSE 0)
                      /\ t > ChunkEnd(base) => Times(state[l], t) = 0
      BY DEF HalvingsCounted
    <3>3. Doublings[k] <= Seed /\ k \in Nat
      <4>1. Doublings[k] \in Nat /\ Seed \in Nat /\ size \in Nat /\ size >= 1
        BY <1>2, Twofold, Sizes
      <4>2. \A d, s \in Nat : s >= 1 => d * s >= d
        OBVIOUS
      <4>3. Doublings[k] * size >= Doublings[k]
        BY <4>1, <4>2
      <4> QED BY <3>2, <4>1, <4>3, Sizes
    <3>4. ASSUME NEW l \in Layers, NEW t \in 1..PromptLen
          PROVE  IF t < base' THEN SeenFewTimes(l, t)'
                 ELSE /\ Times(state'[l], t) <= 0 + (IF t <= Covered(l)' THEN 1 ELSE 0)
                      /\ t > ChunkEnd(base)' => Times(state'[l], t) = 0
      <4>1. Times(state[l], t) \in Nat
        BY SeenBefore, Sizes DEF PrefillTypeOK
      <4>2. CASE t < base'
        <5>1. SeenFewTimes(l, t)
          <6>1. CASE t < base
            BY <3>2, <6>1
          <6>2. CASE ~(t < base)
            <7>1. Times(state[l], t) <= k + 1
              BY <3>2, <3>3, <4>1, <6>2
            <7> QED BY <3>3, <7>1 DEF SeenFewTimes
          <6> QED BY <6>1, <6>2
        <5> QED BY <1>1, <4>2, <5>1 DEF SeenFewTimes
      <4>3. CASE ~(t < base')
        <5>1. t > ChunkEnd(base) /\ ~(t < base)
          BY <1>2, <2>1, <4>3
        <5>2. Times(state'[l], t) = 0
          BY <1>1, <3>2, <5>1
        <5> QED BY <4>3, <5>2
      <4> QED BY <4>2, <4>3
    <3> QED BY <3>1, <3>4 DEF HalvingsCounted
  <2> QED BY <1>5, <2>1, <2>2, <2>3, <2>5, <2>6
<1> QED BY <1>6, <1>7, <1>8

(* A halved chunk begins anew: what its tokens showed to a layer before    *)
(* counts for one more round.                                              *)
LEMMA HalveStep == PrefillIInv /\ Halve => PrefillIInv'
<1> SUFFICES ASSUME PrefillIInv, Halve PROVE PrefillIInv'
  OBVIOUS
<1> USE DEF PrefillIInv
<1>1. /\ UNCHANGED <<tail, state, decodeIndex, base, at, outcome>>
      /\ outcome = "running" /\ at = base /\ size > 1 /\ size' = size \div 2 /\ halved'
      /\ phase' = "embed" /\ layer' = 1 /\ token' = at
  BY DEF Halve, fed
<1>2. /\ at \in base..ChunkEnd(base) /\ at \in Nat /\ base \in 1..PromptLen /\ base \in Nat
      /\ ChunkEnd(base) \in base..PromptLen /\ size \in 1..Seed /\ Seed \in Nat
      /\ ChunkSize(base) \in 1..Seed
  BY Calls, Chunks, Sizes
<1>3. size' \in 1..Seed /\ size' <= size /\ 2 * size' <= size /\ size \in Nat /\ size' \in Nat
  BY <1>1, <1>2
<1>4. \A l \in Layers :
        /\ Taken(l)' = 0 /\ Covered(l)' = base - 1 /\ Covered(l)' \in Int
        /\ Covered(l)' <= Covered(l)
  <2> SUFFICES ASSUME NEW l \in Layers
               PROVE  Taken(l)' = 0 /\ Covered(l)' = base - 1 /\ base - 1 <= Covered(l)
    BY <1>2
  <2>1. Taken(l)' = 0
    BY <1>1 DEF Taken
  <2>2. Covered(l)' = at + 0 - 1
    BY <1>1, <2>1 DEF Covered
  <2>3. Taken(l) \in Nat /\ Covered(l) = at + Taken(l) - 1
    BY Takes
  <2> QED BY <1>1, <1>2, <2>1, <2>2, <2>3
<1>5. PrefillTypeOK'
  BY <1>1, <1>2, <1>3, Sizes DEF PrefillTypeOK
<1>6. CallInChunk'
  BY <1>1, <1>2, <1>3 DEF CallInChunk, ChunkSize, ChunkEnd
<1>7. LaggedBefore' /\ CoveredInOrder'
  BY <1>1, <1>4, OrderStays
<1>8. OnlyCovered'
  BY <1>1 DEF OnlyCovered
<1>9. HalvingsCounted'
  <2>1. PICK k \in 0..Seed :
          /\ k < Doublings[k] /\ Doublings[k] * size <= Seed
          /\ \A l \in Layers, t \in 1..PromptLen :
               IF t < base THEN SeenFewTimes(l, t)
               ELSE /\ Times(state[l], t) <= k + (IF t <= Covered(l) THEN 1 ELSE 0)
                    /\ t > ChunkEnd(base) => Times(state[l], t) = 0
    BY DEF HalvingsCounted
  <2>2. Doublings[k] \in Nat /\ k \in Nat
    BY <1>2, Twofold
  <2>3. k + 1 \in 0..Seed /\ 2 * Doublings[k] <= Seed
    <3>1. \A d, s \in Nat : s > 1 => d * s >= 2 * d
      OBVIOUS
    <3>2. Doublings[k] * size >= 2 * Doublings[k]
      BY <1>1, <1>3, <2>2, <3>1
    <3> QED BY <1>2, <1>3, <2>1, <2>2, <3>2
  <2>4. Doublings[k + 1] = 2 * Doublings[k]
    <3>1. k + 1 \in 1..Seed /\ (k + 1) - 1 = k
      BY <2>2, <2>3
    <3> QED BY <3>1, Twofold
  <2>5. k + 1 < Doublings[k + 1]
    BY <2>1, <2>2, <2>4
  <2>6. Doublings[k + 1] * size' <= Seed
    <3>1. \A d, s, h \in Nat : 2 * h <= s => (2 * d) * h <= d * s
      <4> SUFFICES ASSUME NEW d \in Nat, NEW s \in Nat, NEW h \in Nat, 2 * h <= s
                   PROVE  (2 * d) * h <= d * s
        OBVIOUS
      <4>1. PICK r \in Nat : s = 2 * h + r
        <5>1. s - 2 * h \in Nat /\ s = 2 * h + (s - 2 * h)
          OBVIOUS
        <5> QED BY <5>1
      <4>2. d * s = d * (2 * h) + d * r /\ d * r \in Nat
        BY <4>1
      <4>3. (2 * d) * h = d * (2 * h) /\ d * (2 * h) \in Nat
        OBVIOUS
      <4> QED BY <4>2, <4>3
    <3>2. (2 * Doublings[k]) * size' <= Doublings[k] * size
      BY <1>3, <2>2, <3>1
    <3>3. Doublings[k] * size \in Nat /\ (2 * Doublings[k]) * size' \in Nat
      BY <1>3, <2>2
    <3> QED BY <1>2, <2>1, <2>4, <3>2, <3>3
  <2>7. ASSUME NEW l \in Layers, NEW t \in 1..PromptLen
        PROVE  IF t < base THEN SeenFewTimes(l, t)'
               ELSE /\ Times(state'[l], t) <= (k + 1) + (IF t <= Covered(l)' THEN 1 ELSE 0)
                    /\ t > ChunkEnd(base)' => Times(state'[l], t) = 0
    <3>1. Times(state[l], t) \in Nat /\ ChunkEnd(base)' = ChunkEnd(base) /\ state'[l] = state[l]
      BY <1>1, SeenBefore, Sizes DEF PrefillTypeOK, ChunkEnd
    <3>2. CASE t < base
      BY <1>1, <2>1, <3>1, <3>2 DEF SeenFewTimes
    <3>3. CASE ~(t < base)
      <4>1. ~(t <= Covered(l)')
        BY <1>2, <1>4, <3>3
      <4>2. Times(state[l], t) <= k + 1 /\ (t > ChunkEnd(base) => Times(state[l], t) = 0)
        BY <2>1, <2>2, <3>1, <3>3
      <4> QED BY <2>2, <3>1, <3>3, <4>1, <4>2
    <3> QED BY <3>2, <3>3
  <2> QED BY <1>1, <2>3, <2>5, <2>6, <2>7 DEF HalvingsCounted
<1> QED BY <1>5, <1>6, <1>7, <1>8, <1>9

(* An error, or nothing at all.                                            *)
LEMMA IdleStep ==
  PrefillIInv /\ UNCHANGED <<fed, chunk, cursor>>
    /\ (UNCHANGED outcome \/ (outcome = "running" /\ outcome' = "failed")) => PrefillIInv'
<1> SUFFICES ASSUME PrefillIInv, UNCHANGED <<fed, chunk, cursor>>,
                    UNCHANGED outcome \/ (outcome = "running" /\ outcome' = "failed")
             PROVE  PrefillIInv'
  OBVIOUS
<1> USE DEF PrefillIInv, fed, chunk, cursor
<1>1. PrefillTypeOK'
  BY DEF PrefillTypeOK
<1>2. CallInChunk'
  BY DEF CallInChunk, CallEnd, ChunkEnd, ChunkSize
<1>3. \A l \in Layers : Taken(l)' = Taken(l) /\ Covered(l)' = Covered(l) /\ Covered(l) \in Nat
  <2> SUFFICES ASSUME NEW l \in Layers PROVE Taken(l)' = Taken(l) /\ Covered(l)' = Covered(l)
    BY Takes
  <2> QED BY DEF Taken, Covered, CallEnd, ChunkEnd
<1>4. LaggedBefore' /\ CoveredInOrder'
  BY <1>3, OrderStays
<1>5. OnlyCovered'
  BY <1>3 DEF OnlyCovered
<1>6. HalvingsCounted'
  BY <1>3, CountsStay
<1> QED BY <1>1, <1>2, <1>4, <1>5, <1>6

LEMMA ResetStep == ResetSession => PrefillIInv'
<1>1. ResetSession => PrefillInit'
  BY DEF ResetSession, BeginCall, PrefillInit, ChunkSize, ChunkEnd
<1> QED BY <1>1, PrefillStart, PTL

LEMMA PrefillSteps == PrefillIInv /\ [PrefillNext]_prefillVars => PrefillIInv'
<1> SUFFICES ASSUME PrefillIInv, [PrefillNext]_prefillVars PROVE PrefillIInv'
  OBVIOUS
<1>1. CASE Fail
  BY <1>1, IdleStep DEF Fail
<1>2. CASE UNCHANGED prefillVars
  <2>1. UNCHANGED <<fed, chunk, cursor>> /\ UNCHANGED outcome
    BY <1>2 DEF prefillVars, fed, chunk, cursor
  <2> QED BY <2>1, IdleStep
<1> QED BY <1>1, <1>2, EmbedStep, TailStep, StateStep, LayerStep, ReturnStep, HalveStep, ResetStep
        DEF PrefillNext, Feed

(* The invariant holds for any number of layers of either kind, any prompt *)
(* and any size of a chunk.                                                *)
THEOREM PrefillInvariance == PrefillSpec => []PrefillIInv
BY PrefillStart, PrefillSteps, PTL DEF PrefillSpec

LEMMA PrefillIsSoundFromIInv == PrefillIInv => PrefillIsSound
<1> SUFFICES ASSUME PrefillIInv PROVE PrefillIsSound
  OBVIOUS
<1> USE DEF PrefillIInv
<1>1. DeeperLayersLag
  BY Lags
<1>2. WholePromptReachesEveryLayer
  <2> SUFFICES ASSUME outcome = "done", NEW l \in Layers
               PROVE  /\ decodeIndex = PromptLen
                      /\ LastSeen(state[l], 1) > 0 /\ Last(state[l]) = PromptLen
                      /\ \A t \in 2..PromptLen : LastSeen(state[l], t - 1) < LastSeen(state[l], t)
    BY Sizes DEF WholePromptReachesEveryLayer
  <2>1. base = PromptLen /\ phase = "moe" /\ layer = NumLayers /\ decodeIndex = PromptLen
    BY DEF CallInChunk
  <2>2. CallEnd = PromptLen + 1 /\ at = PromptLen /\ PromptLen \in Nat /\ PromptLen # 0
    <3>1. ChunkEnd(base) = PromptLen
      BY <2>1 DEF ChunkEnd
    <3> QED BY <2>1, <3>1, Calls, Sizes
  <2>3. Taken(l) = CallEnd - at
    BY <2>1, Sizes DEF Taken, Layers
  <2>4. Taken(l) > 0 /\ Covered(l) = PromptLen
    BY <2>2, <2>3 DEF Covered
  <2>5. 1 \in 1..Covered(l)
    BY <2>2, <2>4
  <2> QED BY <2>1, <2>4, <2>5 DEF CoveredInOrder
<1>3. UnhalvedIsPerToken
  <2> SUFFICES ASSUME ~halved, NEW l \in Layers
               PROVE  /\ IsPrefix(state[l], Prompt)
                      /\ l \notin FullLayers =>
                           /\ IsPrefix(tail[l], Prompt)
                           /\ Len(tail[l]) \in {Len(state[l]), Len(state[l]) + 1}
    BY DEF UnhalvedIsPerToken
  <2>1. /\ Covered(l) \in Nat /\ Covered(l) <= PromptLen
        /\ phase = "recur" /\ l = layer => Covered(l) + 1 <= PromptLen
        /\ PromptLen \in Nat
    <3>1. /\ Covered(l) \in Nat /\ Covered(l) <= ChunkEnd(base)
          /\ ChunkEnd(base) \in Nat /\ ChunkEnd(base) <= PromptLen /\ PromptLen \in Nat
      BY Takes, Calls, Sizes
    <3>2. ASSUME phase = "recur", l = layer PROVE Covered(l) + 1 <= PromptLen
      <4>1. Taken(l) = token - at /\ token \in 1..PromptLen /\ at \in Nat /\ l \in Nat
        BY <3>2, Calls, Sizes DEF Taken, PrefillTypeOK
      <4> QED BY <3>1, <4>1 DEF Covered
    <3> QED BY <3>1, <3>2
  <2>2. ASSUME NEW n \in 0..PromptLen, NEW s \in Seq(1..PromptLen), s = [t \in 1..n |-> t]
        PROVE  IsPrefix(s, Prompt) /\ Len(s) = n
    <3>1. Len(s) = n /\ DOMAIN s = 1..n
      BY <2>1, <2>2, LenProperties
    <3>2. Prompt \in Seq(1..PromptLen) /\ Len(Prompt) = PromptLen
      BY <2>1 DEF Prompt
    <3>3. SubSeq(Prompt, 1, n) = s
      BY <2>1, <2>2, <3>1, <3>2 DEF Prompt
    <3> QED BY <2>1, <3>1, <3>2, <3>3 DEF IsPrefix
  <2>3. state[l] = [t \in 1..Covered(l) |-> t] /\ state[l] \in Seq(1..PromptLen)
    BY DEF OnlyCovered, PrefillTypeOK
  <2>4. IsPrefix(state[l], Prompt) /\ Len(state[l]) = Covered(l)
    BY <2>1, <2>2, <2>3
  <2>5. ASSUME l \notin FullLayers
        PROVE  IsPrefix(tail[l], Prompt) /\ Len(tail[l]) \in {Len(state[l]), Len(state[l]) + 1}
    <3>1. PICK n \in 0..PromptLen : /\ n \in {Covered(l), Covered(l) + 1}
                                    /\ tail[l] = [t \in 1..n |-> t]
      <4>1. tail[l] = [t \in 1..(Covered(l) + IF phase = "recur" /\ l = layer THEN 1 ELSE 0) |-> t]
        BY <2>5 DEF OnlyCovered
      <4>2. CASE phase = "recur" /\ l = layer
        <5>1. tail[l] = [t \in 1..(Covered(l) + 1) |-> t]
          BY <4>1, <4>2
        <5> QED BY <2>1, <4>2, <5>1
      <4>3. CASE ~(phase = "recur" /\ l = layer)
        <5>1. tail[l] = [t \in 1..(Covered(l) + 0) |-> t] /\ Covered(l) + 0 = Covered(l)
          BY <2>1, <4>1, <4>3
        <5> QED BY <2>1, <5>1
      <4> QED BY <4>2, <4>3
    <3>2. tail[l] \in Seq(1..PromptLen)
      BY DEF PrefillTypeOK
    <3>3. IsPrefix(tail[l], Prompt) /\ Len(tail[l]) = n
      BY <2>2, <3>1, <3>2
    <3> QED BY <2>4, <3>1, <3>3
  <2> QED BY <2>4, <2>5
<1>4. RepeatsAreLogarithmic
  <2> SUFFICES ASSUME NEW l \in Layers, NEW t \in 1..PromptLen PROVE SeenFewTimes(l, t)
    BY DEF RepeatsAreLogarithmic
  <2>1. PICK k \in 0..Seed :
          /\ Doublings[k] * size <= Seed
          /\ IF t < base THEN SeenFewTimes(l, t)
             ELSE Times(state[l], t) <= k + (IF t <= Covered(l) THEN 1 ELSE 0)
    BY DEF HalvingsCounted
  <2>2. Doublings[k] \in Nat /\ k \in Nat /\ Seed \in Nat /\ size \in Nat /\ size >= 1
    BY Twofold, Sizes DEF PrefillTypeOK
  <2>3. Doublings[k] <= Seed
    <3>1. \A d, s \in Nat : s >= 1 => d * s >= d
      OBVIOUS
    <3>2. Doublings[k] * size >= Doublings[k] /\ Doublings[k] * size \in Nat
      BY <2>2, <3>1
    <3> QED BY <2>1, <2>2, <3>2
  <2>4. Times(state[l], t) \in Nat
    BY SeenBefore, Sizes DEF PrefillTypeOK
  <2> QED BY <2>1, <2>2, <2>3, <2>4 DEF SeenFewTimes
<1> QED BY <1>1, <1>2, <1>3, <1>4 DEF PrefillIsSound

(* PrefillIsSound, the property of the run `model`: no refused reservation *)
(* and no error lets a layer run ahead of the one below it, a prefill that *)
(* succeeds has shown the whole prompt in order to every layer, is the     *)
(* per-token loop if nothing was halved, and repeats a token at most once  *)
(* per halving otherwise (runtime.rs:209-420).                             *)
THEOREM PrefillSoundness == PrefillSpec => []PrefillIsSound
BY PrefillInvariance, PrefillIsSoundFromIInv, PTL
-----------------------------------------------------------------------------
(***************************************************************************)
(* The staged product of the Metal kernel, for any matrix, any strip and   *)
(* any power of two of threads, in any order between the barriers.         *)
(***************************************************************************)
(* What the recursive sum does at each index, for any function.            *)
LEMMA SummedSteps ==
  ASSUME NEW f
  PROVE  /\ Summed(f, 0) = 0
         /\ \A n \in Nat : Summed(f, n + 1) = Summed(f, n) + f[n]
<1> DEFINE value(u, j) == IF j = 0 THEN 0 ELSE u[j - 1] + f[j - 1]
           Solves(u, n) == u = [j \in 0..n |-> value(u, j)]
           U(n) == CHOOSE u : Solves(u, n)
<1>1. ASSUME NEW S \in SUBSET Nat, S = {n \in Nat : ~\E u : Solves(u, n)}, S # {}
      PROVE  FALSE
  <2>1. PICK m \in S : \A n \in S : m <= n
    <3> HIDE DEF Solves
    <3> QED BY <1>1, SmallestMember
  <2>2. m \in Nat
    OBVIOUS
  <2>3. m # 0
    <3> DEFINE none == [j \in 0..0 |-> 0]
    <3>1. Solves(none, 0)
      OBVIOUS
    <3> HIDE DEF Solves, none
    <3> QED BY <3>1, <1>1, <2>1
  <2>4. m - 1 \in Nat /\ m - 1 \notin S
    BY <2>1, <2>2, <2>3
  <2>5. PICK u : Solves(u, m - 1)
    <3> HIDE DEF Solves
    <3> QED BY <1>1, <2>4
  <2> DEFINE g == [j \in 0..m |-> IF j = m THEN u[m - 1] + f[m - 1] ELSE u[j]]
  <2>6. \A j \in 0..m : g[j] = value(g, j)
    BY <2>2, <2>3, <2>5
  <2>7. Solves(g, m)
    <3>1. g = [j \in 0..m |-> g[j]]
      OBVIOUS
    <3> HIDE DEF g
    <3> QED BY <3>1, <2>6
  <2> HIDE DEF g, Solves
  <2> QED BY <2>7, <1>1, <2>1
<1>2. \A n \in Nat : Solves(U(n), n)
  <2> DEFINE S == {n \in Nat : ~\E u : Solves(u, n)}
  <2>1. S \in SUBSET Nat
    <3> HIDE DEF Solves
    <3> QED OBVIOUS
  <2>2. S = {}
    BY <2>1, <1>1
  <2> HIDE DEF Solves
  <2> QED BY <2>2
<1>3. ASSUME NEW n PROVE Summed(f, n) = U(n)[n]
  BY DEF Summed
<1> HIDE DEF U
<1>4. ASSUME NEW n \in Nat
      PROVE  /\ U(n)[0] = 0
             /\ \A j \in 0..n : j # 0 => U(n)[j] = U(n)[j - 1] + f[j - 1]
  <2>1. U(n) = [j \in 0..n |-> value(U(n), j)]
    BY <1>2
  <2>2. \A j \in 0..n : U(n)[j] = value(U(n), j)
    BY <2>1
  <2>3. 0 \in 0..n
    OBVIOUS
  <2> QED BY <2>2, <2>3
<1> HIDE DEF Solves, value
<1>5. ASSUME NEW S \in SUBSET Nat, S # {},
             S = {j \in Nat : \E n \in Nat : j <= n /\ U(n)[j] # Summed(f, j)}
      PROVE  FALSE
  <2>1. PICK m \in S : \A n \in S : m <= n
    BY <1>5, SmallestMember
  <2>2. m \in Nat
    OBVIOUS
  <2>3. m # 0
    <3>1. \A n \in Nat : U(n)[0] = Summed(f, 0)
      BY <1>3, <1>4
    <3> QED BY <3>1, <1>5
  <2>4. m - 1 \in Nat /\ m - 1 \notin S
    BY <2>1, <2>2, <2>3
  <2>5. \A n \in Nat : m <= n => U(n)[m] = Summed(f, m - 1) + f[m - 1]
    <3> SUFFICES ASSUME NEW n \in Nat, m <= n PROVE U(n)[m] = Summed(f, m - 1) + f[m - 1]
      OBVIOUS
    <3>1. m \in 0..n /\ m - 1 <= n
      BY <2>2
    <3>2. U(n)[m - 1] = Summed(f, m - 1)
      BY <1>5, <2>4, <3>1
    <3> QED BY <1>4, <2>3, <3>1, <3>2
  <2>6. Summed(f, m) = Summed(f, m - 1) + f[m - 1]
    <3>1. m <= m
      BY <2>2
    <3> QED BY <1>3, <2>2, <2>5, <3>1
  <2> QED BY <1>5, <2>1, <2>5, <2>6
<1>6. \A j \in Nat : \A n \in Nat : j <= n => U(n)[j] = Summed(f, j)
  <2> DEFINE S == {j \in Nat : \E n \in Nat : j <= n /\ U(n)[j] # Summed(f, j)}
  <2>1. S \in SUBSET Nat
    OBVIOUS
  <2>2. S = {}
    <3> HIDE DEF S
    <3>1. S = {j \in Nat : \E n \in Nat : j <= n /\ U(n)[j] # Summed(f, j)}
      BY DEF S
    <3> QED BY ONLY <2>1, <3>1, <1>5
  <2> QED BY <2>2
<1>7. ASSUME NEW n \in Nat PROVE Summed(f, n + 1) = Summed(f, n) + f[n]
  <2>1. n + 1 \in Nat /\ n + 1 \in 0..(n + 1) /\ n + 1 # 0 /\ (n + 1) - 1 = n /\ n <= n + 1
    OBVIOUS
  <2>2. U(n + 1)[n + 1] = U(n + 1)[n] + f[n]
    BY <1>4, <2>1
  <2> QED BY <1>3, <1>6, <2>1, <2>2
<1>8. Summed(f, 0) = 0
  BY <1>3, <1>4
<1> QED BY <1>7, <1>8

(* What each fold does, for any numbers.                                   *)
LEMMA FoldedSteps ==
  ASSUME NEW f
  PROVE  /\ Folded(f, 0) = f
         /\ \A n \in Nat : Folded(f, n + 1) =
              [t \in Threads |->
                 IF t < Power[LogThreads - (n + 1)]
                 THEN Folded(f, n)[t] + Folded(f, n)[t + Power[LogThreads - (n + 1)]]
                 ELSE Folded(f, n)[t]]
<1> DEFINE next(h, j) == LET s == Power[LogThreads - j]
                         IN  [t \in Threads |-> IF t < s THEN h[t] + h[t + s] ELSE h[t]]
           value(u, j) == IF j = 0 THEN f ELSE next(u[j - 1], j)
           Solves(u, n) == u = [j \in 0..n |-> value(u, j)]
           U(n) == CHOOSE u : Solves(u, n)
<1>1. ASSUME NEW S \in SUBSET Nat, S = {n \in Nat : ~\E u : Solves(u, n)}, S # {}
      PROVE  FALSE
  <2>1. PICK m \in S : \A n \in S : m <= n
    <3> HIDE DEF Solves
    <3> QED BY <1>1, SmallestMember
  <2>2. m \in Nat
    OBVIOUS
  <2>3. m # 0
    <3> DEFINE none == [j \in 0..0 |-> f]
    <3>1. Solves(none, 0)
      OBVIOUS
    <3> HIDE DEF Solves, none
    <3> QED BY <3>1, <1>1, <2>1
  <2>4. m - 1 \in Nat /\ m - 1 \notin S
    BY <2>1, <2>2, <2>3
  <2>5. PICK u : Solves(u, m - 1)
    <3> HIDE DEF Solves
    <3> QED BY <1>1, <2>4
  <2> DEFINE g == [j \in 0..m |-> IF j = m THEN next(u[m - 1], m) ELSE u[j]]
  <2>6. \A j \in 0..m : g[j] = value(g, j)
    <3> HIDE DEF next
    <3> QED BY <2>2, <2>3, <2>5
  <2>7. Solves(g, m)
    <3>1. g = [j \in 0..m |-> g[j]]
      OBVIOUS
    <3> HIDE DEF g
    <3> QED BY <3>1, <2>6
  <2> HIDE DEF g, Solves
  <2> QED BY <2>7, <1>1, <2>1
<1>2. \A n \in Nat : Solves(U(n), n)
  <2> DEFINE S == {n \in Nat : ~\E u : Solves(u, n)}
  <2>1. S \in SUBSET Nat
    <3> HIDE DEF Solves
    <3> QED OBVIOUS
  <2>2. S = {}
    BY <2>1, <1>1
  <2> HIDE DEF Solves
  <2> QED BY <2>2
<1>3. ASSUME NEW n PROVE Folded(f, n) = U(n)[n]
  BY DEF Folded
<1> HIDE DEF U, next
<1>4. ASSUME NEW n \in Nat
      PROVE  /\ U(n)[0] = f
             /\ \A j \in 0..n : j # 0 => U(n)[j] = next(U(n)[j - 1], j)
  <2>1. U(n) = [j \in 0..n |-> value(U(n), j)]
    BY <1>2
  <2>2. \A j \in 0..n : U(n)[j] = value(U(n), j)
    BY <2>1
  <2>3. 0 \in 0..n
    OBVIOUS
  <2> QED BY <2>2, <2>3
<1> HIDE DEF Solves, value
<1>5. ASSUME NEW S \in SUBSET Nat, S # {},
             S = {j \in Nat : \E n \in Nat : j <= n /\ U(n)[j] # Folded(f, j)}
      PROVE  FALSE
  <2>1. PICK m \in S : \A n \in S : m <= n
    BY <1>5, SmallestMember
  <2>2. m \in Nat
    OBVIOUS
  <2>3. m # 0
    <3>1. \A n \in Nat : U(n)[0] = Folded(f, 0)
      BY <1>3, <1>4
    <3> QED BY <3>1, <1>5
  <2>4. m - 1 \in Nat /\ m - 1 \notin S
    BY <2>1, <2>2, <2>3
  <2>5. \A n \in Nat : m <= n => U(n)[m] = next(Folded(f, m - 1), m)
    <3> SUFFICES ASSUME NEW n \in Nat, m <= n PROVE U(n)[m] = next(Folded(f, m - 1), m)
      OBVIOUS
    <3>1. m \in 0..n /\ m - 1 <= n
      BY <2>2
    <3>2. U(n)[m - 1] = Folded(f, m - 1)
      BY <1>5, <2>4, <3>1
    <3> QED BY <1>4, <2>3, <3>1, <3>2
  <2>6. Folded(f, m) = next(Folded(f, m - 1), m)
    <3>1. m <= m
      BY <2>2
    <3> QED BY <1>3, <2>2, <2>5, <3>1
  <2> QED BY <1>5, <2>1, <2>5, <2>6
<1>6. \A j \in Nat : \A n \in Nat : j <= n => U(n)[j] = Folded(f, j)
  <2> DEFINE S == {j \in Nat : \E n \in Nat : j <= n /\ U(n)[j] # Folded(f, j)}
  <2>1. S \in SUBSET Nat
    OBVIOUS
  <2>2. S = {}
    <3> HIDE DEF S
    <3>1. S = {j \in Nat : \E n \in Nat : j <= n /\ U(n)[j] # Folded(f, j)}
      BY DEF S
    <3> QED BY ONLY <2>1, <3>1, <1>5
  <2> QED BY <2>2
<1>7. ASSUME NEW n \in Nat PROVE Folded(f, n + 1) = next(Folded(f, n), n + 1)
  <2>1. n + 1 \in Nat /\ n + 1 \in 0..(n + 1) /\ n + 1 # 0 /\ (n + 1) - 1 = n /\ n <= n + 1
    OBVIOUS
  <2>2. U(n + 1)[n + 1] = next(U(n + 1)[n], n + 1)
    BY <1>4, <2>1
  <2> QED BY <1>3, <1>6, <2>1, <2>2
<1>8. Folded(f, 0) = f
  BY <1>3, <1>4
<1> QED BY <1>7, <1>8 DEF next

(* The strides: each is half of the one before, down to one.               *)
LEMMA PowerSteps ==
  /\ Power[0] = 1 /\ Power[LogThreads] = Count
  /\ \A k \in 1..LogThreads : k - 1 \in 0..LogThreads /\ Power[k] = 2 * Power[k - 1]
  /\ \A k \in 0..LogThreads : Power[k] \in Nat \ {0} /\ Power[k] <= Count
<1> DEFINE Solves(f, n) == f = [k \in 0..n |-> IF k = 0 THEN 1 ELSE 2 * f[k - 1]]
<1>1. LogThreads \in Nat /\ LogThreads # 0
  BY KernelAssumption
<1>2. ASSUME NEW S \in SUBSET Nat, S = {n \in 0..LogThreads : ~\E f : Solves(f, n)}, S # {}
      PROVE  FALSE
  <2>1. PICK m \in S : \A n \in S : m <= n
    BY <1>2, SmallestMember
  <2>2. m \in 0..LogThreads /\ m \in Nat
    BY <1>1, <1>2, <2>1
  <2>3. m # 0
    <3> DEFINE one == [k \in 0..0 |-> 1]
    <3>1. Solves(one, 0)
      OBVIOUS
    <3> QED BY <3>1, <1>2, <2>1
  <2>4. m - 1 \in 0..LogThreads /\ m - 1 \notin S
    BY <1>1, <2>1, <2>2, <2>3
  <2>5. PICK f : Solves(f, m - 1)
    BY <1>2, <2>4
  <2> DEFINE g == [k \in 0..m |-> IF k = m THEN 2 * f[m - 1] ELSE f[k]]
  <2>6. \A k \in 0..m : g[k] = IF k = 0 THEN 1 ELSE 2 * g[k - 1]
    BY <2>2, <2>3, <2>5
  <2>7. Solves(g, m)
    <3>1. g = [k \in 0..m |-> g[k]]
      OBVIOUS
    <3> HIDE DEF g
    <3> QED BY <3>1, <2>6
  <2> HIDE DEF g, Solves
  <2> QED BY <2>7, <1>2, <2>1
<1>3. \E f : Solves(f, LogThreads)
  <2> DEFINE S == {n \in 0..LogThreads : ~\E f : Solves(f, n)}
  <2>1. S \in SUBSET Nat /\ LogThreads \in 0..LogThreads
    <3> HIDE DEF Solves
    <3> QED BY <1>1
  <2>2. S = {}
    BY <2>1, <1>2
  <2> HIDE DEF Solves
  <2> QED BY <2>1, <2>2
<1>4. Power = [k \in 0..LogThreads |-> IF k = 0 THEN 1 ELSE 2 * Power[k - 1]]
  BY <1>3 DEF Power
<1>5. \A k \in 1..LogThreads : k \in 0..LogThreads /\ k - 1 \in 0..LogThreads /\ k # 0
  BY <1>1
<1>6. 0 \in 0..LogThreads /\ Power[0] = 1
  BY <1>1, <1>4
<1>7. \A k \in 1..LogThreads : Power[k] = 2 * Power[k - 1]
  BY <1>4, <1>5
<1>8. ASSUME NEW S \in SUBSET Nat, S # {},
             S = {k \in 0..LogThreads : Power[k] \notin Nat \ {0}}
      PROVE  FALSE
  <2>1. PICK m \in S : \A n \in S : m <= n
    BY <1>8, SmallestMember
  <2>2. m \in 1..LogThreads
    BY <1>1, <1>6, <1>8, <2>1
  <2>3. m - 1 \notin S /\ m - 1 \in 0..LogThreads
    BY <1>1, <2>1, <2>2
  <2>4. Power[m - 1] \in Nat \ {0}
    BY <1>8, <2>3
  <2> QED BY <1>7, <1>8, <2>1, <2>2, <2>4
<1>9. \A k \in 0..LogThreads : Power[k] \in Nat \ {0}
  <2>1. {k \in 0..LogThreads : Power[k] \notin Nat \ {0}} \in SUBSET Nat
    BY <1>1
  <2> QED BY <1>8, <2>1
<1>10. ASSUME NEW S \in SUBSET Nat, S # {},
              S = {d \in 0..LogThreads : ~(Power[LogThreads - d] <= Power[LogThreads])}
       PROVE  FALSE
  <2>1. PICK m \in S : \A n \in S : m <= n
    BY <1>10, SmallestMember
  <2>2. m \in 0..LogThreads /\ m \in Nat /\ LogThreads - m \in 0..LogThreads
    BY <1>1, <1>10, <2>1
  <2>3. m # 0
    <3>1. LogThreads - 0 = LogThreads /\ LogThreads \in 0..LogThreads
      BY <1>1
    <3>2. Power[LogThreads] \in Nat
      BY <1>9, <3>1
    <3> QED BY <1>10, <2>1, <3>1, <3>2
  <2>4. m - 1 \in 0..LogThreads /\ m - 1 \notin S
        /\ LogThreads - (m - 1) \in 1..LogThreads /\ (LogThreads - (m - 1)) - 1 = LogThreads - m
    BY <1>1, <2>1, <2>2, <2>3
  <2>5. Power[LogThreads - (m - 1)] = 2 * Power[LogThreads - m]
    BY <1>7, <2>4
  <2>6. Power[LogThreads - (m - 1)] <= Power[LogThreads]
    BY <1>10, <2>4
  <2>7. Power[LogThreads - m] \in Nat /\ Power[LogThreads] \in Nat
    <3>1. LogThreads \in 0..LogThreads
      BY <1>1
    <3> QED BY <1>9, <2>2, <3>1
  <2>8. ~(Power[LogThreads - m] <= Power[LogThreads])
    BY <1>10, <2>1
  <2> QED BY ONLY <2>5, <2>6, <2>7, <2>8
<1>11. \A k \in 0..LogThreads : Power[k] <= Count
  <2> DEFINE S == {d \in 0..LogThreads : ~(Power[LogThreads - d] <= Power[LogThreads])}
  <2>1. S \in SUBSET Nat
    BY <1>1
  <2>2. S = {}
    BY <1>10, <2>1
  <2>3. \A k \in 0..LogThreads :
          LogThreads - k \in 0..LogThreads /\ LogThreads - (LogThreads - k) = k
    BY <1>1
  <2>4. \A d \in 0..LogThreads : Power[LogThreads - d] <= Power[LogThreads]
    BY <2>2
  <2> HIDE DEF S
  <2> QED BY <2>3, <2>4 DEF Count
<1> QED BY <1>5, <1>6, <1>7, <1>9, <1>11 DEF Count

LEMMA SumsAreNumbers ==
  ASSUME NEW n \in Nat, NEW f, \A i \in 0..(n - 1) : f[i] \in Int
  PROVE  \A k \in 0..n : Summed(f, k) \in Int
<1> DEFINE S == {k \in 0..n : Summed(f, k) \in Int}
<1>1. 0 \in S
  BY SummedSteps
<1>2. ASSUME NEW k \in 0..(n - 1), k \in S PROVE k + 1 \in S
  <2>1. Summed(f, k + 1) = Summed(f, k) + f[k] /\ k + 1 \in 0..n
    BY SummedSteps
  <2> QED BY <1>2, <2>1
<1> HIDE DEF S
<1>3. 0..n \subseteq S
  BY <1>1, <1>2, ClimbingTo
<1> QED BY <1>3 DEF S

(* Numbers added in pairs, half of them apart, keep their sum.             *)
LEMMA HalvedSum ==
  ASSUME NEW s \in Nat, NEW f, NEW g, \A i \in 0..(2 * s - 1) : f[i] \in Int,
         \A i \in 0..(s - 1) : g[i] = f[i] + f[i + s]
  PROVE  Summed(g, s) = Summed(f, 2 * s)
<1> DEFINE S == {k \in 0..s : Summed(f, k) + Summed(f, s + k) - Summed(f, s) = Summed(g, k)}
<1>0. \A k \in 0..(2 * s) : Summed(f, k) \in Int
  BY SumsAreNumbers
<1>1. 0 \in S
  <2>1. Summed(f, s) \in Int /\ s + 0 = s
    BY <1>0
  <2> QED BY <2>1, SummedSteps
<1>2. ASSUME NEW k \in 0..(s - 1), k \in S PROVE k + 1 \in S
  <2>1. k \in Nat /\ s + k \in Nat /\ k + 1 \in 0..s /\ s + (k + 1) = (s + k) + 1 /\ k + s = s + k
    OBVIOUS
  <2>2. /\ Summed(f, k + 1) = Summed(f, k) + f[k]
        /\ Summed(f, (s + k) + 1) = Summed(f, s + k) + f[s + k]
        /\ Summed(g, k + 1) = Summed(g, k) + g[k]
    BY <2>1, SummedSteps
  <2>3. Summed(f, k) \in Int /\ Summed(f, s + k) \in Int /\ Summed(f, s) \in Int
    BY <1>0
  <2>4. f[k] \in Int /\ f[s + k] \in Int
    OBVIOUS
  <2>5. g[k] = f[k] + f[s + k]
    BY <2>1
  <2>6. Summed(g, k) = Summed(f, k) + Summed(f, s + k) - Summed(f, s)
    BY <1>2
  <2>7. Summed(f, k + 1) + Summed(f, (s + k) + 1) - Summed(f, s) = Summed(g, k + 1)
    BY ONLY <2>2, <2>3, <2>4, <2>5, <2>6
  <2> QED BY <2>1, <2>7
<1>3. 0..s \subseteq S
  <2> HIDE DEF S
  <2> QED BY <1>1, <1>2, ClimbingTo
<1>4. Summed(f, s) \in Int /\ Summed(f, s + s) \in Int /\ s + s = 2 * s /\ s \in S
  BY <1>0, <1>3
<1> QED BY <1>4

(* The reduction tree: after the last fold, number 0 is the sum of all.    *)
LEMMA FoldsAddUp ==
  ASSUME NEW f \in [Threads -> Int]
  PROVE  /\ \A k \in 0..LogThreads : Folded(f, k) \in [Threads -> Int]
         /\ Folded(f, LogThreads)[0] = Summed(f, Count)
<1> DEFINE S == {k \in 0..LogThreads :
                   /\ Folded(f, k) \in [Threads -> Int]
                   /\ Summed(Folded(f, k), Power[LogThreads - k]) = Summed(f, Count)}
<1>0. LogThreads \in Nat
  BY KernelAssumption
<1>1. 0 \in S
  <2>1. LogThreads - 0 = LogThreads /\ 0 \in 0..LogThreads
    BY <1>0
  <2>2. Folded(f, 0) = f
    BY FoldedSteps
  <2>3. Power[LogThreads] = Count
    BY PowerSteps
  <2> QED BY <2>1, <2>2, <2>3
<1>2. ASSUME NEW k \in 0..(LogThreads - 1), k \in S PROVE k + 1 \in S
  <2> DEFINE s == Power[LogThreads - (k + 1)]
             F == Folded(f, k)
             G == Folded(f, k + 1)
  <2>1. /\ LogThreads - k \in 1..LogThreads /\ (LogThreads - k) - 1 = LogThreads - (k + 1)
        /\ k \in Nat /\ k + 1 \in 0..LogThreads /\ LogThreads - (k + 1) \in 0..LogThreads
        /\ LogThreads - k \in 0..LogThreads
    BY <1>0
  <2>2. Power[LogThreads - k] = 2 * s /\ s \in Nat /\ 2 * s <= Count
    BY <2>1, PowerSteps
  <2>3. G = [t \in Threads |-> IF t < s THEN F[t] + F[t + s] ELSE F[t]]
    BY <2>1, FoldedSteps
  <2>4. F \in [Threads -> Int] /\ Summed(F, 2 * s) = Summed(f, Count)
    BY <1>2, <2>2
  <2> HIDE DEF F, G, s
  <2>5. Count \in Nat
    BY <1>0, PowerSteps
  <2>6. \A t \in Threads : t < s => t + s \in Threads
    BY <2>2, <2>5 DEF Threads
  <2>7. G \in [Threads -> Int]
    BY <2>3, <2>4, <2>6
  <2>8. Summed(G, s) = Summed(F, 2 * s)
    <3>1. \A i \in 0..(2 * s - 1) : i \in Threads
      BY <2>2, <2>5 DEF Threads
    <3>2. \A i \in 0..(s - 1) : G[i] = F[i] + F[i + s]
      <4>1. \A i \in 0..(s - 1) : i \in Threads /\ i < s
        BY <2>2, <2>5 DEF Threads
      <4> QED BY <2>3, <4>1
    <3>3. \A i \in 0..(2 * s - 1) : F[i] \in Int
      BY <2>4, <3>1
    <3> QED BY <2>2, <3>2, <3>3, HalvedSum
  <2> QED BY <2>1, <2>4, <2>7, <2>8 DEF G, s
<1>3. 0..LogThreads \subseteq S
  <2> HIDE DEF S
  <2> QED BY <1>0, <1>1, <1>2, ClimbingTo
<1>4. \A k \in 0..LogThreads : Folded(f, k) \in [Threads -> Int]
  BY <1>3
<1>5. Summed(Folded(f, LogThreads), 1) = Summed(f, Count)
  <2>1. LogThreads \in S /\ LogThreads - LogThreads = 0
    BY <1>0, <1>3
  <2> QED BY <2>1, PowerSteps
<1>6. Summed(Folded(f, LogThreads), 1) = Folded(f, LogThreads)[0]
  <2> DEFINE F == Folded(f, LogThreads)
  <2>1. 0 \in Threads /\ LogThreads \in 0..LogThreads
    <3>1. Count \in Nat \ {0} /\ LogThreads \in 0..LogThreads
      BY <1>0, PowerSteps
    <3> QED BY <3>1 DEF Threads
  <2>2. F[0] \in Int
    BY <1>4, <2>1
  <2> HIDE DEF F
  <2>3. Summed(F, 0 + 1) = Summed(F, 0) + F[0] /\ Summed(F, 0) = 0
    BY SummedSteps
  <2>4. Summed(F, 1) = F[0]
    BY <2>2, <2>3
  <2> QED BY <2>4 DEF F
<1> QED BY <1>4, <1>5, <1>6

(* Sizes of a group, of a block and of the strip.                          *)
LEMMA KernelSizes ==
  /\ Blocks \in Nat /\ LogThreads \in Nat /\ LogThreads # 0 /\ Rows \in Nat
  /\ StripRows \in Nat \ {0}
  /\ Count \in Nat \ {0} /\ Count \div 2 \in Nat \ {0} /\ 0 \in Threads
  /\ Threads = 0..(Count - 1) /\ Threads \subseteq Nat
  /\ Cells \in Nat \ {0} /\ Cells = 1 + (Count \div 2)
  /\ StripRows * Cells \in Nat
<1>1. /\ Blocks \in Nat /\ LogThreads \in Nat /\ LogThreads # 0 /\ Rows \in Nat
      /\ StripRows \in Nat \ {0}
  BY KernelAssumption
<1>2. /\ LogThreads \in 1..LogThreads /\ LogThreads - 1 \in 0..LogThreads
      /\ LogThreads \in 0..LogThreads
  BY <1>1
<1>3. /\ Power[LogThreads] = Count /\ Power[LogThreads] = 2 * Power[LogThreads - 1]
      /\ Power[LogThreads - 1] \in Nat \ {0}
  BY <1>2, PowerSteps
<1>4. Count \in Nat \ {0} /\ Count \div 2 \in Nat \ {0}
  <2> DEFINE h == Power[LogThreads - 1]
  <2>1. Count = 2 * h /\ h \in Nat \ {0}
    BY <1>3
  <2> HIDE DEF h
  <2> QED BY <2>1
<1>5. Cells \in Nat \ {0}
  BY <1>4 DEF Cells
<1>6. StripRows * Cells \in Nat
  BY <1>1, <1>5
<1> QED BY <1>1, <1>4, <1>5, <1>6 DEF Threads, Cells

(* Which phase follows which, and the block of each.                       *)
LEMMA KernelPhases ==
  ASSUME NEW p \in Nat
  PROVE  /\ Staging(p) => /\ p \div 2 \in 0..(Blocks - 1) /\ p = 2 * (p \div 2)
                          /\ Multiplying(p + 1) /\ ~Multiplying(p) /\ ~Staging(p + 1)
                          /\ (p + 1) \div 2 = p \div 2 /\ p < 2 * Blocks
         /\ Multiplying(p) => /\ p \div 2 \in 0..(Blocks - 1) /\ p = 2 * (p \div 2) + 1
                              /\ ~Multiplying(p + 1) /\ ~Staging(p)
                              /\ (p + 1) \div 2 = (p \div 2) + 1 /\ p < 2 * Blocks
         /\ p >= 2 * Blocks => /\ ~Staging(p) /\ ~Multiplying(p)
                               /\ ~Staging(p + 1) /\ ~Multiplying(p + 1)
                               /\ MinOf(p \div 2, Blocks) = Blocks
                               /\ MinOf((p + 1) \div 2, Blocks) = Blocks
         /\ p \div 2 \in Nat
BY KernelSizes DEF Staging, Multiplying, MinOf

(* The live rows of a strip are rows of the matrix.                        *)
LEMMA RowsOfStrip ==
  ASSUME KernelTypeOK
  PROVE  /\ RowBase \in Nat /\ RowCount \in Int /\ RowCount <= StripRows
         /\ Live = 0..(RowCount - 1) /\ Live \subseteq Strip /\ Live \subseteq Nat
         /\ \A r \in Live : RowBase + r \in 0..(Rows - 1)
<1>1. group \in Nat /\ StripRows \in Nat /\ Rows \in Nat
  BY KernelSizes DEF KernelTypeOK, Groups
<1>2. RowBase \in Nat
  BY <1>1 DEF RowBase
<1>3. RowCount \in Int /\ RowCount <= StripRows /\ RowCount <= Rows - RowBase
  BY <1>1, <1>2 DEF RowCount, MinOf
<1>4. Live = 0..(RowCount - 1)
  BY DEF Live
<1> QED BY <1>1, <1>2, <1>3, <1>4 DEF Strip

LEMMA SameStrip ==
  ASSUME group' = group
  PROVE  RowBase' = RowBase /\ RowCount' = RowCount /\ Live' = Live
BY DEF RowBase, RowCount, Live

LEMMA ElementIsNumber ==
  ASSUME NEW t \in Threads, NEW cells \in [0..(Cells - 1) -> Nat]
  PROVE  Element(t, cells) \in Int
<1> DEFINE i == t % (Count \div 2)
           half == Count \div 2
<1>1. t \in Nat /\ half \in Nat \ {0} /\ Cells = 1 + half
  BY KernelSizes
<1>2. i \in 0..(half - 1)
  <2> HIDE DEF half
  <2>1. t % half \in 0..(half - 1)
    BY <1>1, RemainderIsLess
  <2> QED BY <2>1 DEF half
<1>3. 1 + i \in 0..(Cells - 1) /\ 0 \in 0..(Cells - 1)
  <2> HIDE DEF i, half
  <2> QED BY <1>1, <1>2
<1>4. cells[1 + i] \in Nat /\ cells[0] \in Nat
  BY <1>3
<1>5. \A c \in Nat : c % 16 \in Int /\ c \div 16 \in Int
  OBVIOUS
<1>6. \A a, b \in Int : a * b \in Int
  OBVIOUS
<1> DEFINE c == cells[1 + i]
           e == IF t < half THEN c % 16 ELSE c \div 16
<1>7. e \in Int /\ cells[0] \in Int
  <2>1. c % 16 \in Int /\ c \div 16 \in Int
    BY <1>4, <1>5
  <2> HIDE DEF c
  <2> QED BY <1>4, <2>1
<1>8. Element(t, cells) = cells[0] * e
  BY DEF Element
<1> HIDE DEF e
<1> QED BY <1>6, <1>7, <1>8

(* What a thread multiplies are numbers, and so are its sums.              *)
LEMMA TermsAreNumbers ==
  ASSUME NEW row \in 0..(Rows - 1), NEW t \in Threads
  PROVE  /\ \A b \in 0..(Blocks - 1) : Terms(row, t)[b] \in Int
         /\ \A n \in 0..Blocks : Summed(Terms(row, t), n) \in Int
<1>1. ASSUME NEW b \in 0..(Blocks - 1) PROVE Terms(row, t)[b] \in Int
  <2> DEFINE w == [c \in 0..(Cells - 1) |-> Weight(row, b, c)]
  <2>1. w \in [0..(Cells - 1) -> Nat] /\ Input(b, t) \in Int
    BY KernelAssumption
  <2>2. Element(t, w) \in Int
    <3> HIDE DEF w
    <3> QED BY <2>1, ElementIsNumber
  <2>3. Terms(row, t)[b] = Input(b, t) * Element(t, w)
    BY DEF Terms
  <2>4. \A x, y \in Int : x * y \in Int
    OBVIOUS
  <2> HIDE DEF w
  <2> QED BY <2>1, <2>2, <2>3, <2>4
<1> HIDE DEF Terms
<1> QED BY <1>1, KernelSizes, SumsAreNumbers

(* Initially the threads stand before the first barrier.                   *)
LEMMA KernelBegins ==
  ASSUME KernelInit
  PROVE  KernelIInv
<1>1. KernelTypeOK
  <2>1. 0 \in 0..(2 * Blocks + LogThreads + 2)
    BY KernelSizes
  <2> QED BY <2>1, KernelSizes DEF KernelInit, KernelTypeOK
<1>2. InStep
  <2>1. \A t \in Threads : t % Count = t
    BY KernelSizes
  <2> QED BY <2>1 DEF KernelInit, InStep
<1>3. BlockIsStaged
  <2> SUFFICES ASSUME NEW t \in Threads
               PROVE  /\ Staging(arrived[t]) => Holds(wStage, t, arrived[t] \div 2, staged[t])
                      /\ ~Multiplying(arrived[t])
    BY DEF BlockIsStaged
  <2>1. arrived[t] = 0 /\ staged[t] = t
    BY DEF KernelInit
  <2>2. \A i \in 0..(StripRows * Cells - 1) : i < t => i % Count # t
    BY KernelSizes
  <2>3. ~Multiplying(0)
    BY DEF Multiplying
  <2> QED BY <2>1, <2>2, <2>3 DEF Holds
<1>4. BlocksAreAdded
  <2> SUFFICES ASSUME NEW t \in Threads, NEW r \in Live
               PROVE  acc[t][r] = Summed(Terms(RowBase + r, t), MinOf(arrived[t] \div 2, Blocks))
    BY DEF BlocksAreAdded
  <2>1. acc[t][r] = 0 /\ arrived[t] = 0
    BY <1>1, RowsOfStrip DEF KernelInit
  <2>2. MinOf(0 \div 2, Blocks) = 0
    BY KernelSizes DEF MinOf
  <2> QED BY <2>1, <2>2, SummedSteps
<1>5. SumsAreFolded
  <2>1. \A t \in Threads : ~(arrived[t] > 2 * Blocks)
    BY KernelSizes DEF KernelInit
  <2> QED BY <2>1 DEF SumsAreFolded
<1>6. RowsAreWritten
  <2>1. ~Writing(arrived[0] - 1)
    BY KernelSizes DEF KernelInit, Writing
  <2> QED BY <2>1 DEF RowsAreWritten
<1> QED BY <1>1, <1>2, <1>3, <1>4, <1>5, <1>6 DEF KernelIInv

(* A thread that goes past a barrier: the threads stay within a phase.     *)
LEMMA ThreadArrives ==
  ASSUME KernelTypeOK, InStep, NEW t \in Threads, AllArrived(t), Done(t),
         arrived[t] < 2 * Blocks + LogThreads + 2
  PROVE  /\ arrived' \in [Threads -> 0..(2 * Blocks + LogThreads + 2)]
         /\ arrived[t] \in Nat /\ arrived'[t] = arrived[t] + 1
         /\ \A u \in Threads : /\ u # t => arrived'[u] = arrived[u]
                               /\ arrived[u] \in Nat /\ arrived'[u] \in Nat
                               /\ arrived[t] <= arrived[u] /\ arrived[u] <= arrived[t] + 1
         /\ \A u, v \in Threads : arrived'[u] <= arrived'[v] + 1
<1>1. arrived \in [Threads -> 0..(2 * Blocks + LogThreads + 2)]
  BY DEF KernelTypeOK
<1>2. \A u \in Threads : arrived[u] \in 0..(2 * Blocks + LogThreads + 2) /\ arrived[u] \in Nat
  BY <1>1
<1>3. arrived[t] + 1 \in 0..(2 * Blocks + LogThreads + 2)
  BY <1>2, KernelSizes
<1>4. arrived' = [arrived EXCEPT ![t] = arrived[t] + 1]
  BY DEF Done
<1>5. /\ arrived' \in [Threads -> 0..(2 * Blocks + LogThreads + 2)]
      /\ arrived'[t] = arrived[t] + 1 /\ \A u \in Threads : u # t => arrived'[u] = arrived[u]
  BY <1>1, <1>3, <1>4
<1>6. \A u \in Threads : arrived[t] <= arrived[u] /\ arrived[u] <= arrived[t] + 1
  BY DEF AllArrived, InStep
<1>7. \A u, v \in Threads : arrived'[u] <= arrived'[v] + 1
  <2> SUFFICES ASSUME NEW u \in Threads, NEW v \in Threads PROVE arrived'[u] <= arrived'[v] + 1
    OBVIOUS
  <2>1. arrived[u] <= arrived[v] + 1
    BY DEF InStep
  <2> QED BY ONLY <1>2, <1>5, <1>6, <2>1
<1>8. \A u \in Threads : arrived'[u] \in Nat
  BY <1>5
<1> QED BY <1>2, <1>5, <1>6, <1>7, <1>8

(* What is staged after a step, said of the next cells.                    *)
LEMMA NextIsStaged ==
  ASSUME group' = group,
         \A t \in Threads : Staging(arrived'[t]) =>
           Holds(wStage', t, arrived'[t] \div 2, staged'[t]),
         \A t \in Threads : Multiplying(arrived'[t]) =>
           /\ vStage'[t] = Input(arrived'[t] \div 2, t)
           /\ \A u \in Threads : arrived'[u] >= arrived'[t] =>
                Holds(wStage', u, arrived'[t] \div 2, StripRows * Cells)
  PROVE  BlockIsStaged'
BY SameStrip DEF BlockIsStaged, Holds, Staging, Multiplying

(* A staged cell is one of the thread's own; no one multiplies meanwhile.  *)
LEMMA StagesACell ==
  ASSUME KernelIInv, NEW t \in Threads, Stage(t), staged[t] < StripRows * Cells
  PROVE  KernelIInv'
<1> DEFINE p == arrived[t]
           b == arrived[t] \div 2
           i == staged[t]
           r == i \div Cells
           W == StripRows * Cells
           cell == Weight(RowBase + r, b, i % Cells)
<1>1. /\ KernelTypeOK /\ InStep /\ BlockIsStaged
      /\ BlocksAreAdded /\ SumsAreFolded /\ RowsAreWritten
      /\ Staging(p) /\ AllArrived(t) /\ UNCHANGED <<group, acc, sums, out>>
      /\ wStage' = IF r < RowCount THEN [wStage EXCEPT ![i] = cell] ELSE wStage
      /\ staged' = [staged EXCEPT ![t] = i + Count]
      /\ vStage' = vStage /\ arrived' = arrived
  BY DEF KernelIInv, Stage
<1>2. /\ wStage \in [0..(W - 1) -> Nat] /\ staged \in [Threads -> Nat]
      /\ arrived \in [Threads -> 0..(2 * Blocks + LogThreads + 2)]
  BY <1>1 DEF KernelTypeOK
<1>3. /\ p \in Nat /\ i \in Nat /\ i % Count = t /\ W \in Nat /\ Count \in Nat \ {0}
      /\ \A u \in Threads : arrived[u] \in Nat /\ staged[u] \in Nat /\ u \in Nat
                            /\ staged[u] % Count = u
      /\ \A u \in Threads : arrived[u] >= p
  <2>1. W \in Nat /\ Count \in Nat \ {0} /\ \A u \in Threads : u \in Nat
    BY KernelSizes
  <2>2. \A u \in Threads : staged[u] % Count = u
    BY <1>1 DEF InStep
  <2>4. \A u \in Threads : arrived[u] >= p
    BY <1>1 DEF AllArrived
  <2>3. \A u \in Threads : arrived[u] \in Nat /\ staged[u] \in Nat
    BY <1>2
  <2> QED BY <2>1, <2>2, <2>3, <2>4
<1>4. b \in 0..(Blocks - 1) /\ ~Multiplying(p)
  BY <1>1, <1>3, KernelPhases
<1>5. RowBase' = RowBase /\ RowCount' = RowCount /\ Live' = Live
  BY <1>1, SameStrip
<1>6. staged'[t] = i + Count /\ \A u \in Threads : u # t => staged'[u] = staged[u]
  BY <1>1, <1>2
<1>7. i \in 0..(W - 1) /\ r \in Nat /\ i % Cells \in 0..(Cells - 1)
  <2>1. i \div Cells \in Nat /\ i % Cells \in 0..(Cells - 1)
    BY <1>3, KernelSizes, RemainderIsLess, QuotientIsNatural
  <2> HIDE DEF W
  <2> QED BY <1>3, <2>1 DEF W
<1>8. r < RowCount => cell \in Nat
  <2> HIDE DEF r, b
  <2>1. r < RowCount => r \in Live
    BY <1>1, <1>7, RowsOfStrip
  <2>2. r < RowCount => RowBase + r \in 0..(Rows - 1)
    BY <1>1, <2>1, RowsOfStrip
  <2> QED BY <1>4, <1>7, <2>2, KernelAssumption
<1>9. KernelTypeOK'
  <2>1. wStage' \in [0..(W - 1) -> Nat]
    <3> HIDE DEF cell, r, W
    <3> QED BY <1>1, <1>2, <1>7, <1>8
  <2>2. staged' \in [Threads -> Nat]
    BY <1>1, <1>2, <1>3
  <2> QED BY <1>1, <2>1, <2>2 DEF KernelTypeOK
<1>10. InStep'
  <2>1. (i + Count) % Count = t
    <3> HIDE DEF i
    <3> QED BY <1>3, RemainderOfSum
  <2>2. \A u \in Threads : staged'[u] % Count = u
    BY <1>3, <1>6, <2>1
  <2> QED BY <1>1, <1>6, <2>2 DEF InStep
<1>11. ASSUME NEW j \in 0..(W - 1)
       PROVE  IF j = i /\ r < RowCount THEN wStage'[j] = cell ELSE wStage'[j] = wStage[j]
  <2> HIDE DEF cell, r, W
  <2> QED BY <1>1, <1>2
(* The cells of the other threads are left alone.                          *)
<1>12. ASSUME NEW u \in Threads, u # t, NEW k, NEW n, Holds(wStage, u, k, n)
       PROVE  Holds(wStage', u, k, n)
  <2> SUFFICES ASSUME NEW j \in 0..(W - 1), j % Count = u, j < n, j \div Cells < RowCount
               PROVE  wStage'[j] = Weight(RowBase + (j \div Cells), k, j % Cells)
    BY DEF Holds
  <2>1. j # i
    BY <1>3, <1>12
  <2>2. wStage[j] = Weight(RowBase + (j \div Cells), k, j % Cells)
    BY <1>12 DEF Holds
  <2> QED BY <1>11, <2>1, <2>2
<1>13. Holds(wStage', t, b, staged'[t])
  <2> SUFFICES ASSUME NEW j \in 0..(W - 1), j % Count = t, j < i + Count, j \div Cells < RowCount
               PROVE  wStage'[j] = Weight(RowBase + (j \div Cells), b, j % Cells)
    BY <1>6 DEF Holds
  <2>1. CASE j = i
    BY <1>11, <2>1
  <2>2. CASE j # i
    <3>1. j < i
      <4> HIDE DEF i, W
      <4>1. j \in Nat
        BY <1>3
      <4>2. i < j => i + Count <= j
        BY <1>3, <4>1, SameRemainder
      <4> QED BY <1>3, <2>2, <4>1, <4>2
    <3>2. Holds(wStage, t, b, i)
      BY <1>1 DEF BlockIsStaged
    <3>3. wStage[j] = Weight(RowBase + (j \div Cells), b, j % Cells)
      BY <3>1, <3>2 DEF Holds
    <3> QED BY <1>11, <2>2, <3>3
  <2> QED BY <2>1, <2>2
<1>14. BlockIsStaged'
  <2>1. ASSUME NEW u \in Threads, Staging(arrived'[u])
        PROVE  Holds(wStage', u, arrived'[u] \div 2, staged'[u])
    <3>1. Holds(wStage, u, arrived[u] \div 2, staged[u]) /\ arrived' = arrived
      BY <1>1, <2>1 DEF BlockIsStaged
    <3>2. CASE u = t
      BY <1>13, <3>1, <3>2
    <3>3. CASE u # t
      BY <1>6, <1>12, <3>1, <3>3
    <3> QED BY <3>2, <3>3
  <2>2. ASSUME NEW u \in Threads, Multiplying(arrived'[u])
        PROVE  /\ vStage'[u] = Input(arrived'[u] \div 2, u)
               /\ \A v \in Threads : arrived'[v] >= arrived'[u] =>
                    Holds(wStage', v, arrived'[u] \div 2, W)
    <3>1. /\ vStage[u] = Input(arrived[u] \div 2, u) /\ arrived' = arrived /\ vStage' = vStage
          /\ \A v \in Threads : arrived[v] >= arrived[u] => Holds(wStage, v, arrived[u] \div 2, W)
      BY <1>1, <2>2 DEF BlockIsStaged
    <3>2. ~(p >= arrived[u])
      <4>1. arrived[u] >= p /\ arrived[u] # p /\ arrived[u] \in Nat /\ p \in Nat
        BY <1>3, <1>4, <2>2, <3>1
      <4> QED BY ONLY <4>1
    <3>3. \A v \in Threads : arrived[v] >= arrived[u] => v # t
      BY <3>2
    <3> QED BY <1>12, <3>1, <3>3
  <2> QED BY <1>1, <2>1, <2>2, NextIsStaged
<1>15. BlocksAreAdded' /\ SumsAreFolded' /\ RowsAreWritten'
  BY <1>1, <1>5 DEF BlocksAreAdded, SumsAreFolded, RowsAreWritten, MinOf, Writing
<1> QED BY <1>9, <1>10, <1>14, <1>15 DEF KernelIInv

(* With its cell of the vector a thread has staged all of its cells.       *)
LEMMA StagesItsCell ==
  ASSUME KernelIInv, NEW t \in Threads, Stage(t), ~(staged[t] < StripRows * Cells)
  PROVE  KernelIInv'
<1> DEFINE p == arrived[t]
           b == arrived[t] \div 2
           W == StripRows * Cells
<1>1. /\ KernelTypeOK /\ InStep /\ BlockIsStaged
      /\ BlocksAreAdded /\ SumsAreFolded /\ RowsAreWritten
      /\ Staging(p) /\ AllArrived(t) /\ UNCHANGED <<group, wStage, acc, sums, out>>
      /\ vStage' = [vStage EXCEPT ![t] = Input(b, t)]
      /\ staged' = [staged EXCEPT ![t] = t]
      /\ Done(t)
  BY DEF KernelIInv, Stage
<1>2. /\ staged \in [Threads -> Nat] /\ vStage \in [Threads -> Int]
      /\ arrived \in [Threads -> 0..(2 * Blocks + LogThreads + 2)]
  BY <1>1 DEF KernelTypeOK
<1>3. /\ p \in Nat /\ p < 2 * Blocks /\ b \in 0..(Blocks - 1) /\ Multiplying(p + 1)
      /\ ~Multiplying(p) /\ ~Staging(p + 1) /\ (p + 1) \div 2 = b
  <2>1. p \in Nat
    BY <1>2
  <2> QED BY <1>1, <2>1, KernelPhases
<1>4. /\ arrived' \in [Threads -> 0..(2 * Blocks + LogThreads + 2)] /\ arrived'[t] = p + 1
      /\ \A u \in Threads : /\ u # t => arrived'[u] = arrived[u]
                            /\ arrived[u] \in Nat /\ arrived'[u] \in Nat
                            /\ p <= arrived[u] /\ arrived[u] <= p + 1
      /\ \A u, v \in Threads : arrived'[u] <= arrived'[v] + 1
  <2>1. arrived[t] < 2 * Blocks + LogThreads + 2
    BY <1>3, KernelSizes
  <2> QED BY <1>1, <2>1, ThreadArrives
<1>5. RowBase' = RowBase /\ RowCount' = RowCount /\ Live' = Live
  BY <1>1, SameStrip
<1>6. /\ staged'[t] = t /\ vStage'[t] = Input(b, t)
      /\ \A u \in Threads : u # t => staged'[u] = staged[u] /\ vStage'[u] = vStage[u]
  BY <1>1, <1>2
<1>7. KernelTypeOK'
  <2>1. Input(b, t) \in Int /\ t \in Nat
    BY <1>3, KernelSizes, KernelAssumption
  <2>2. vStage' \in [Threads -> Int] /\ staged' \in [Threads -> Nat]
    BY <1>1, <1>2, <2>1
  <2> QED BY <1>1, <1>4, <2>2 DEF KernelTypeOK
<1>8. InStep'
  <2>1. t % Count = t
    BY KernelSizes
  <2>2. \A u \in Threads : staged[u] % Count = u /\ (~Staging(arrived[u]) => staged[u] = u)
    BY <1>1 DEF InStep
  <2>3. \A u \in Threads : staged'[u] % Count = u /\ (~Staging(arrived'[u]) => staged'[u] = u)
    BY <1>4, <1>6, <2>1, <2>2
  <2> QED BY <1>4, <2>3 DEF InStep, Staging
<1>9. Holds(wStage, t, b, W)
  <2>1. Holds(wStage, t, b, staged[t])
    BY <1>1 DEF BlockIsStaged
  <2>2. \A j \in 0..(W - 1) : j < staged[t]
    <3>1. W \in Nat /\ staged[t] \in Nat /\ ~(staged[t] < W)
      BY <1>2, KernelSizes
    <3> HIDE DEF W
    <3> QED BY <3>1
  <2> QED BY <2>1, <2>2 DEF Holds
<1>10. BlockIsStaged'
  <2>1. ASSUME NEW u \in Threads, Staging(arrived'[u])
        PROVE  Holds(wStage', u, arrived'[u] \div 2, staged'[u])
    <3>1. u # t
      BY <1>3, <1>4, <2>1
    <3> QED BY <1>1, <1>4, <1>6, <2>1, <3>1 DEF BlockIsStaged
  <2>2. ASSUME NEW u \in Threads, Multiplying(arrived'[u])
        PROVE  /\ vStage'[u] = Input(arrived'[u] \div 2, u)
               /\ \A v \in Threads : arrived'[v] >= arrived'[u] =>
                    Holds(wStage', v, arrived'[u] \div 2, W)
    <3>1. arrived'[u] = p + 1 /\ arrived'[u] \div 2 = b
      <4>1. u # t => arrived[u] # p
        BY <1>3, <1>4, <2>2
      <4>2. arrived'[u] = p + 1
        BY <1>3, <1>4, <4>1
      <4> QED BY <1>3, <4>2
    <3>2. vStage'[u] = Input(b, u)
      <4>1. CASE u = t
        BY <1>6, <4>1
      <4>2. CASE u # t
        BY <1>1, <1>4, <1>6, <2>2, <3>1, <4>2 DEF BlockIsStaged
      <4> QED BY <4>1, <4>2
    <3>3. ASSUME NEW v \in Threads, arrived'[v] >= arrived'[u] PROVE Holds(wStage', v, b, W)
      <4>1. CASE v = t
        BY <1>1, <1>9, <4>1
      <4>2. CASE v # t
        <5>1. arrived[v] = p + 1 /\ arrived[v] >= arrived[v]
          BY <1>3, <1>4, <3>1, <3>3, <4>2
        <5>2. Multiplying(arrived[v]) /\ arrived[v] \div 2 = b
          BY <1>3, <5>1
        <5> QED BY <1>1, <5>1, <5>2 DEF BlockIsStaged
      <4> QED BY <4>1, <4>2
    <3> QED BY <3>1, <3>2, <3>3
  <2> QED BY <1>1, <2>1, <2>2, NextIsStaged
<1>11. BlocksAreAdded'
  <2> SUFFICES ASSUME NEW u \in Threads, NEW r \in Live
               PROVE  acc'[u][r] = Summed(Terms(RowBase + r, u), MinOf(arrived'[u] \div 2, Blocks))
    BY <1>5 DEF BlocksAreAdded, MinOf
  <2>1. arrived'[u] \div 2 = arrived[u] \div 2
    BY <1>3, <1>4
  <2> QED BY <1>1, <2>1 DEF BlocksAreAdded
<1>12. SumsAreFolded'
  <2> SUFFICES ASSUME NEW u \in Threads, NEW r \in Live, arrived'[u] > 2 * Blocks
               PROVE  sums'[u][r] = FoldedRow(RowBase + r,
                                              MinOf(arrived'[u] - 2 * Blocks - 1, LogThreads))[u]
    BY <1>5 DEF SumsAreFolded, MinOf
  <2>1. u # t
    BY <1>3, <1>4, KernelSizes
  <2> QED BY <1>1, <1>4, <2>1 DEF SumsAreFolded
<1>13. RowsAreWritten'
  <2>1. Writing(arrived'[0] - 1) => Writing(arrived[0] - 1)
    <3>1. 0 \in Threads
      BY KernelSizes
    <3>2. CASE 0 = t
      BY <1>3, <1>4, <3>2, KernelSizes DEF Writing
    <3> QED BY <1>4, <3>1, <3>2
  <2> QED BY <1>1, <1>5, <2>1 DEF RowsAreWritten, Writing
<1> QED BY <1>7, <1>8, <1>10, <1>11, <1>12, <1>13 DEF KernelIInv

(* A multiplication reads cells that hold its block, whoever staged them.  *)
LEMMA MultipliesBlock ==
  ASSUME KernelIInv, NEW t \in Threads, Multiply(t)
  PROVE  KernelIInv'
<1> DEFINE p == arrived[t]
           b == arrived[t] \div 2
           W == StripRows * Cells
           read(r) == [c \in 0..(Cells - 1) |-> wStage[r * Cells + c]]
           term(r) == vStage[t] * Element(t, read(r))
<1>1. /\ KernelTypeOK /\ InStep /\ BlockIsStaged
      /\ BlocksAreAdded /\ SumsAreFolded /\ RowsAreWritten
      /\ Multiplying(p) /\ AllArrived(t) /\ Done(t)
      /\ UNCHANGED <<group, staged, wStage, vStage, sums, out>>
      /\ acc' = [acc EXCEPT ![t] = [r \in Strip |->
                   IF r \in Live THEN acc[t][r] + term(r) ELSE acc[t][r]]]
  BY DEF KernelIInv, Multiply
<1>2. /\ staged \in [Threads -> Nat] /\ vStage \in [Threads -> Int]
      /\ acc \in [Threads -> [Strip -> Int]]
      /\ arrived \in [Threads -> 0..(2 * Blocks + LogThreads + 2)]
  BY <1>1 DEF KernelTypeOK
<1>3. /\ p \in Nat /\ p < 2 * Blocks /\ b \in 0..(Blocks - 1) /\ p = 2 * b + 1
      /\ ~Multiplying(p + 1) /\ ~Staging(p) /\ (p + 1) \div 2 = b + 1
      /\ ~(p + 1 > 2 * Blocks) /\ ~Writing((p + 1) - 1)
  <2>1. p \in Nat
    BY <1>2
  <2> HIDE DEF p
  <2>2. p < 2 * Blocks
    BY <1>1, <2>1, KernelPhases
  <2>3. ~(p + 1 > 2 * Blocks) /\ ~Writing((p + 1) - 1)
    BY <2>1, <2>2, KernelSizes DEF Writing
  <2> QED BY <1>1, <2>1, <2>3, KernelPhases DEF p
<1>4. /\ arrived' \in [Threads -> 0..(2 * Blocks + LogThreads + 2)] /\ arrived'[t] = p + 1
      /\ \A u \in Threads : /\ u # t => arrived'[u] = arrived[u]
                            /\ arrived[u] \in Nat /\ arrived'[u] \in Nat
                            /\ p <= arrived[u] /\ arrived[u] <= p + 1
      /\ \A u, v \in Threads : arrived'[u] <= arrived'[v] + 1
  <2>1. arrived[t] < 2 * Blocks + LogThreads + 2
    BY <1>3, KernelSizes
  <2> QED BY <1>1, <2>1, ThreadArrives
<1>5. RowBase' = RowBase /\ RowCount' = RowCount /\ Live' = Live
  BY <1>1, SameStrip
(* The cells that t reads are those of its block, whoever staged them.     *)
<1>6. ASSUME NEW r \in Live, NEW c \in 0..(Cells - 1)
      PROVE  wStage[r * Cells + c] = Weight(RowBase + r, b, c)
  <2> DEFINE j == r * Cells + c
             u == (r * Cells + c) % Count
  <2>1. r \in Nat /\ r < StripRows /\ r < RowCount /\ Cells \in Nat \ {0} /\ StripRows \in Nat \ {0}
        /\ Count \in Nat \ {0}
    BY <1>1, KernelSizes, RowsOfStrip DEF Strip
  <2>2. j \div Cells = r /\ j % Cells = c
    BY <2>1, RowMajor
  <2>3. j \in 0..(W - 1)
    <3>1. Cells * r + Cells <= Cells * StripRows
      BY <2>1, ProductsGrow
    <3>2. Cells * r \in Nat /\ Cells * StripRows = W /\ j = Cells * r + c /\ c \in Nat /\ c < Cells
      BY <2>1
    <3>3. W \in Nat
      BY KernelSizes
    <3> HIDE DEF W, j
    <3> QED BY <2>1, <3>1, <3>2, <3>3
  <2>4. u \in Threads
    <3>1. j \in Nat
      BY <2>1, <2>3
    <3> HIDE DEF j
    <3>2. j % Count \in 0..(Count - 1)
      BY <2>1, <3>1, RemainderIsLess
    <3> QED BY <3>2 DEF Threads, j
  <2>5. Holds(wStage, u, b, W)
    <3>1. arrived[u] >= p
      BY <1>1, <2>4 DEF AllArrived
    <3> HIDE DEF u
    <3> QED BY <1>1, <2>4, <3>1 DEF BlockIsStaged
  <2>6. j < W
    BY <2>3, KernelSizes
  <2>7. wStage[j] = Weight(RowBase + (j \div Cells), b, j % Cells)
    <3> HIDE DEF j
    <3> QED BY <2>1, <2>2, <2>3, <2>5, <2>6 DEF Holds, j
  <2> QED BY <2>2, <2>7
<1>7. ASSUME NEW r \in Live PROVE term(r) = Terms(RowBase + r, t)[b]
  <2>1. read(r) = [c \in 0..(Cells - 1) |-> Weight(RowBase + r, b, c)]
    BY <1>6
  <2>2. vStage[t] = Input(b, t)
    BY <1>1 DEF BlockIsStaged
  <2> HIDE DEF read
  <2> QED BY <1>3, <2>1, <2>2 DEF Terms
<1>8. \A r \in Live : RowBase + r \in 0..(Rows - 1) /\ r \in Strip
  BY <1>1, RowsOfStrip
<1>9. \A r \in Live : term(r) \in Int
  <2> HIDE DEF term
  <2> QED BY <1>3, <1>7, <1>8, TermsAreNumbers
<1> HIDE DEF term
<1>10. /\ \A u \in Threads : u # t => acc'[u] = acc[u]
       /\ \A r \in Live : acc'[t][r] = acc[t][r] + term(r)
  BY <1>1, <1>2, <1>8
<1>11. KernelTypeOK'
  <2>1. [r \in Strip |-> IF r \in Live THEN acc[t][r] + term(r) ELSE acc[t][r]] \in [Strip -> Int]
    BY <1>2, <1>9
  <2>2. acc' \in [Threads -> [Strip -> Int]]
    BY <1>1, <1>2, <2>1
  <2> QED BY <1>1, <1>4, <2>2 DEF KernelTypeOK
<1>12. InStep'
  <2>1. \A u \in Threads : staged[u] % Count = u /\ (~Staging(arrived[u]) => staged[u] = u)
    BY <1>1 DEF InStep
  <2>2. \A u \in Threads : staged'[u] % Count = u /\ (~Staging(arrived'[u]) => staged'[u] = u)
    BY <1>1, <1>3, <1>4, <2>1
  <2> QED BY <1>4, <2>2 DEF InStep, Staging
<1>13. BlockIsStaged'
  <2>1. ASSUME NEW u \in Threads, Staging(arrived'[u])
        PROVE  Holds(wStage', u, arrived'[u] \div 2, staged'[u])
    <3>1. CASE u = t
      <4>1. staged'[t] = t
        BY <1>1, <1>3 DEF InStep
      <4>2. \A j \in 0..(W - 1) : j < t => j % Count # t
        BY KernelSizes
      <4> QED BY <3>1, <4>1, <4>2 DEF Holds
    <3>2. CASE u # t
      BY <1>1, <1>4, <2>1, <3>2 DEF BlockIsStaged
    <3> QED BY <3>1, <3>2
  <2>2. ASSUME NEW u \in Threads, Multiplying(arrived'[u])
        PROVE  /\ vStage'[u] = Input(arrived'[u] \div 2, u)
               /\ \A v \in Threads : arrived'[v] >= arrived'[u] =>
                    Holds(wStage', v, arrived'[u] \div 2, W)
    <3>1. u # t /\ arrived'[u] = arrived[u] /\ arrived[u] = p
      <4>1. u # t /\ arrived'[u] = arrived[u] /\ arrived[u] # p + 1
        BY <1>3, <1>4, <2>2
      <4>2. arrived[u] \in Nat /\ p \in Nat /\ p <= arrived[u] /\ arrived[u] <= p + 1
        BY <1>3, <1>4
      <4> QED BY ONLY <4>1, <4>2
    <3>2. \A v \in Threads : arrived[v] >= arrived[u]
      BY <1>4, <3>1
    <3> QED BY <1>1, <2>2, <3>1, <3>2 DEF BlockIsStaged
  <2> QED BY <1>1, <2>1, <2>2, NextIsStaged
<1>14. BlocksAreAdded'
  <2> SUFFICES ASSUME NEW u \in Threads, NEW r \in Live
               PROVE  acc'[u][r] = Summed(Terms(RowBase + r, u), MinOf(arrived'[u] \div 2, Blocks))
    BY <1>5 DEF BlocksAreAdded, MinOf
  <2>1. acc[u][r] = Summed(Terms(RowBase + r, u), MinOf(arrived[u] \div 2, Blocks))
    BY <1>1 DEF BlocksAreAdded
  <2>2. CASE u = t
    <3>1. MinOf(b, Blocks) = b /\ MinOf(b + 1, Blocks) = b + 1 /\ b \in Nat
      BY <1>3, KernelSizes DEF MinOf
    <3>2. Summed(Terms(RowBase + r, t), b + 1) =
            Summed(Terms(RowBase + r, t), b) + Terms(RowBase + r, t)[b]
      BY <3>1, SummedSteps
    <3> QED BY <1>3, <1>4, <1>7, <1>10, <2>1, <2>2, <3>1, <3>2
  <2>3. CASE u # t
    BY <1>4, <1>10, <2>1, <2>3
  <2> QED BY <2>2, <2>3
<1>15. SumsAreFolded'
  <2> SUFFICES ASSUME NEW u \in Threads, NEW r \in Live, arrived'[u] > 2 * Blocks
               PROVE  sums'[u][r] = FoldedRow(RowBase + r,
                                              MinOf(arrived'[u] - 2 * Blocks - 1, LogThreads))[u]
    BY <1>5 DEF SumsAreFolded, MinOf
  <2>1. u # t
    BY <1>3, <1>4
  <2> QED BY <1>1, <1>4, <2>1 DEF SumsAreFolded
<1>16. RowsAreWritten'
  <2>1. Writing(arrived'[0] - 1) => Writing(arrived[0] - 1)
    <3>1. 0 \in Threads
      BY KernelSizes
    <3>2. CASE 0 = t
      BY <1>3, <1>4, <3>2
    <3> QED BY <1>4, <3>1, <3>2
  <2> QED BY <1>1, <1>5, <2>1 DEF RowsAreWritten, Writing
<1> QED BY <1>11, <1>12, <1>13, <1>14, <1>15, <1>16 DEF KernelIInv

(* Past the last block, no thread stages or multiplies any more.           *)
LEMMA BlocksArePast ==
  ASSUME KernelIInv, NEW t \in Threads, arrived[t] >= 2 * Blocks,
         arrived[t] < 2 * Blocks + LogThreads + 2, AllArrived(t), Done(t),
         UNCHANGED <<group, staged, wStage, vStage, acc>>
  PROVE  /\ InStep' /\ BlockIsStaged' /\ BlocksAreAdded'
         /\ \A u \in Threads : /\ arrived[u] >= 2 * Blocks
                               /\ MinOf(arrived[u] \div 2, Blocks) = Blocks
<1> DEFINE p == arrived[t]
<1>1. KernelTypeOK /\ InStep /\ BlocksAreAdded
  BY DEF KernelIInv
<1>2. /\ arrived' \in [Threads -> 0..(2 * Blocks + LogThreads + 2)] /\ arrived'[t] = p + 1
      /\ \A u \in Threads : /\ u # t => arrived'[u] = arrived[u]
                            /\ arrived[u] \in Nat /\ arrived'[u] \in Nat
                            /\ p <= arrived[u] /\ arrived[u] <= p + 1
      /\ \A u, v \in Threads : arrived'[u] <= arrived'[v] + 1
  BY <1>1, ThreadArrives
<1>3. \A u \in Threads : arrived[u] >= 2 * Blocks /\ arrived'[u] >= 2 * Blocks
  <2> SUFFICES ASSUME NEW u \in Threads PROVE arrived[u] >= 2 * Blocks /\ arrived'[u] >= 2 * Blocks
    OBVIOUS
  <2>1. /\ p \in Nat /\ arrived[u] \in Nat /\ p <= arrived[u] /\ Blocks \in Nat
        /\ (arrived'[u] = arrived[u] \/ arrived'[u] = p + 1) /\ p >= 2 * Blocks
    BY <1>2, KernelSizes
  <2> QED BY ONLY <2>1
<1>4. \A u \in Threads :
        /\ ~Staging(arrived[u]) /\ ~Staging(arrived'[u]) /\ ~Multiplying(arrived'[u])
        /\ MinOf(arrived[u] \div 2, Blocks) = Blocks /\ MinOf(arrived'[u] \div 2, Blocks) = Blocks
  BY <1>2, <1>3, KernelPhases
<1>5. InStep'
  <2>1. \A u \in Threads : staged[u] % Count = u /\ staged[u] = u
    BY <1>1, <1>4 DEF InStep
  <2> QED BY <1>2, <2>1 DEF InStep, Staging
<1>6. BlockIsStaged'
  BY <1>4, NextIsStaged
<1>7. BlocksAreAdded'
  <2> SUFFICES ASSUME NEW u \in Threads, NEW r \in Live
               PROVE  acc'[u][r] = Summed(Terms(RowBase + r, u), MinOf(arrived'[u] \div 2, Blocks))
    BY SameStrip DEF BlocksAreAdded, MinOf
  <2> QED BY <1>1, <1>4 DEF BlocksAreAdded
<1> QED BY <1>3, <1>4, <1>5, <1>6, <1>7

(* The folds of one row.                                                   *)
LEMMA FoldedRows ==
  ASSUME NEW row \in 0..(Rows - 1)
  PROVE  /\ \A t \in Threads : FoldedRow(row, 0)[t] = Summed(Terms(row, t), Blocks)
         /\ \A k \in 0..LogThreads, t \in Threads : FoldedRow(row, k)[t] \in Int
         /\ FoldedRow(row, LogThreads)[0] = Product(row)
         /\ \A k \in 1..LogThreads, t \in Threads :
              LET s == Power[LogThreads - k]
              IN  FoldedRow(row, k)[t] =
                    IF t < s THEN FoldedRow(row, k - 1)[t] + FoldedRow(row, k - 1)[t + s]
                    ELSE FoldedRow(row, k - 1)[t]
<1> DEFINE f == [t \in Threads |-> Summed(Terms(row, t), Blocks)]
<1>1. \A k : FoldedRow(row, k) = Folded(f, k)
  BY DEF FoldedRow
<1>2. f \in [Threads -> Int]
  <2>1. Blocks \in 0..Blocks
    BY KernelSizes
  <2> QED BY <2>1, TermsAreNumbers
<1>3. Product(row) = Summed(f, Count)
  BY DEF Product
<1>4. \A t \in Threads : f[t] = Summed(Terms(row, t), Blocks)
  OBVIOUS
<1> HIDE DEF f
<1>5. Folded(f, 0) = f
  BY FoldedSteps
<1>6. ASSUME NEW k \in 1..LogThreads
      PROVE  Folded(f, k) = [t \in Threads |->
               IF t < Power[LogThreads - k]
               THEN Folded(f, k - 1)[t] + Folded(f, k - 1)[t + Power[LogThreads - k]]
               ELSE Folded(f, k - 1)[t]]
  <2> DEFINE j == k - 1
  <2>1. j \in Nat /\ j + 1 = k
    BY KernelSizes
  <2> HIDE DEF j
  <2>2. Folded(f, j + 1) = [t \in Threads |->
          IF t < Power[LogThreads - (j + 1)]
          THEN Folded(f, j)[t] + Folded(f, j)[t + Power[LogThreads - (j + 1)]]
          ELSE Folded(f, j)[t]]
    BY <2>1, FoldedSteps
  <2> QED BY ONLY <2>1, <2>2 DEF j
<1>7. \A k \in 0..LogThreads : Folded(f, k) \in [Threads -> Int]
  BY <1>2, FoldsAddUp
<1>8. Folded(f, LogThreads)[0] = Summed(f, Count)
  BY <1>2, FoldsAddUp
<1> QED BY <1>1, <1>3, <1>4, <1>5, <1>6, <1>7, <1>8

(* A thread lays out what it has added up of all the blocks.               *)
LEMMA LaysSumsOut ==
  ASSUME KernelIInv, NEW t \in Threads, LayOut(t)
  PROVE  KernelIInv'
<1> DEFINE p == arrived[t]
<1>1. /\ KernelTypeOK /\ InStep /\ BlockIsStaged
      /\ BlocksAreAdded /\ SumsAreFolded /\ RowsAreWritten
      /\ p = 2 * Blocks /\ AllArrived(t) /\ Done(t)
      /\ UNCHANGED <<group, staged, wStage, vStage, acc, out>>
      /\ sums' = [sums EXCEPT ![t] = [r \in Strip |-> IF r \in Live THEN acc[t][r] ELSE sums[t][r]]]
  BY DEF KernelIInv, LayOut, LayingOut
<1>2. /\ acc \in [Threads -> [Strip -> Int]] /\ sums \in [Threads -> [Strip -> Int]]
  BY <1>1 DEF KernelTypeOK
<1>3. /\ p \in Nat /\ p >= 2 * Blocks /\ p < 2 * Blocks + LogThreads + 2
      /\ ~Writing((p + 1) - 1) /\ MinOf((p + 1) - 2 * Blocks - 1, LogThreads) = 0
  BY <1>1, KernelSizes DEF Writing, MinOf
<1>4. /\ arrived' \in [Threads -> 0..(2 * Blocks + LogThreads + 2)] /\ arrived'[t] = p + 1
      /\ \A u \in Threads : u # t => arrived'[u] = arrived[u]
  BY <1>1, <1>3, ThreadArrives
<1>5. /\ InStep' /\ BlockIsStaged' /\ BlocksAreAdded'
      /\ MinOf(arrived[t] \div 2, Blocks) = Blocks
  BY <1>1, <1>3, BlocksArePast
<1>6. RowBase' = RowBase /\ RowCount' = RowCount /\ Live' = Live
  BY <1>1, SameStrip
<1>7. \A r \in Live : RowBase + r \in 0..(Rows - 1) /\ r \in Strip
  BY <1>1, RowsOfStrip
<1>8. /\ \A u \in Threads : u # t => sums'[u] = sums[u]
      /\ \A r \in Live : sums'[t][r] = acc[t][r]
  BY <1>1, <1>2, <1>7
<1>9. KernelTypeOK'
  <2>1. [r \in Strip |-> IF r \in Live THEN acc[t][r] ELSE sums[t][r]] \in [Strip -> Int]
    BY <1>2
  <2>2. sums' \in [Threads -> [Strip -> Int]]
    BY <1>1, <1>2, <2>1
  <2> QED BY <1>1, <1>4, <2>2 DEF KernelTypeOK
<1>10. SumsAreFolded'
  <2> SUFFICES ASSUME NEW u \in Threads, NEW r \in Live, arrived'[u] > 2 * Blocks
               PROVE  sums'[u][r] = FoldedRow(RowBase + r,
                                              MinOf(arrived'[u] - 2 * Blocks - 1, LogThreads))[u]
    BY <1>6 DEF SumsAreFolded, MinOf
  <2>1. CASE u = t
    <3>1. acc[t][r] = Summed(Terms(RowBase + r, t), Blocks)
      BY <1>1, <1>5 DEF BlocksAreAdded
    <3>2. FoldedRow(RowBase + r, 0)[t] = Summed(Terms(RowBase + r, t), Blocks)
      BY <1>7, FoldedRows
    <3> QED BY <1>3, <1>4, <1>8, <2>1, <3>1, <3>2
  <2>2. CASE u # t
    BY <1>1, <1>4, <1>8, <2>2 DEF SumsAreFolded
  <2> QED BY <2>1, <2>2
<1>11. RowsAreWritten'
  <2>1. Writing(arrived'[0] - 1) => Writing(arrived[0] - 1)
    <3>1. 0 \in Threads
      BY KernelSizes
    <3>2. CASE 0 = t
      BY <1>3, <1>4, <3>2
    <3> QED BY <1>4, <3>1, <3>2
  <2> QED BY <1>1, <1>6, <2>1 DEF RowsAreWritten, Writing
<1> QED BY <1>5, <1>9, <1>10, <1>11 DEF KernelIInv

(* A thread adds what its partner had before this fold.                    *)
LEMMA ReducesSums ==
  ASSUME KernelIInv, NEW t \in Threads, Reduce(t)
  PROVE  KernelIInv'
<1> DEFINE p == arrived[t]
           k == arrived[t] - 2 * Blocks
           s == Stride(arrived[t])
<1>1. /\ KernelTypeOK /\ InStep /\ BlockIsStaged
      /\ BlocksAreAdded /\ SumsAreFolded /\ RowsAreWritten
      /\ p > 2 * Blocks /\ p <= 2 * Blocks + LogThreads /\ AllArrived(t) /\ Done(t)
      /\ UNCHANGED <<group, staged, wStage, vStage, acc, out>>
      /\ sums' = IF t >= s THEN sums
                 ELSE [sums EXCEPT ![t] = [r \in Strip |->
                         IF r \in Live THEN sums[t][r] + sums[t + s][r] ELSE sums[t][r]]]
  BY DEF KernelIInv, Reduce, Reducing
<1>2. /\ sums \in [Threads -> [Strip -> Int]]
      /\ arrived \in [Threads -> 0..(2 * Blocks + LogThreads + 2)]
  BY <1>1 DEF KernelTypeOK
<1>3. /\ p \in Nat /\ p = 2 * Blocks + k /\ k \in 1..LogThreads /\ k - 1 \in 0..LogThreads
      /\ p >= 2 * Blocks /\ p < 2 * Blocks + LogThreads + 2
      /\ ~Writing((p + 1) - 1) /\ MinOf((p + 1) - 2 * Blocks - 1, LogThreads) = k
      /\ MinOf(p - 2 * Blocks - 1, LogThreads) = k - 1
      /\ LogThreads - k \in 0..LogThreads /\ LogThreads - (k - 1) \in 1..LogThreads
      /\ (LogThreads - (k - 1)) - 1 = LogThreads - k
  <2> DEFINE B == 2 * Blocks
  <2>1. p \in Nat /\ B \in Nat /\ LogThreads \in Nat /\ p > B /\ p <= B + LogThreads
    <3>1. p \in Nat
      BY <1>2
    <3>2. B \in Nat /\ LogThreads \in Nat
      BY KernelSizes
    <3> QED BY ONLY <1>1, <3>1, <3>2
  <2>2. ~Writing((p + 1) - 1)
    BY <2>1 DEF Writing
  <2> HIDE DEF B, p
  <2>3. /\ p = B + (p - B) /\ p - B \in 1..LogThreads /\ (p - B) - 1 \in 0..LogThreads
        /\ p >= B /\ p < B + LogThreads + 2
        /\ LogThreads - (p - B) \in 0..LogThreads
        /\ LogThreads - ((p - B) - 1) \in 1..LogThreads
        /\ (LogThreads - ((p - B) - 1)) - 1 = LogThreads - (p - B)
    BY <2>1
  <2>4. MinOf((p + 1) - B - 1, LogThreads) = p - B /\ MinOf(p - B - 1, LogThreads) = (p - B) - 1
    BY <2>1 DEF MinOf
  <2> QED BY <2>1, <2>2, <2>3, <2>4 DEF B, p
<1>4. /\ arrived' \in [Threads -> 0..(2 * Blocks + LogThreads + 2)] /\ arrived'[t] = p + 1
      /\ \A u \in Threads : /\ u # t => arrived'[u] = arrived[u]
                            /\ arrived[u] \in Nat /\ p <= arrived[u] /\ arrived[u] <= p + 1
  BY <1>1, <1>3, ThreadArrives
<1>5. InStep' /\ BlockIsStaged' /\ BlocksAreAdded'
  BY <1>1, <1>3, BlocksArePast
<1>6. RowBase' = RowBase /\ RowCount' = RowCount /\ Live' = Live
  BY <1>1, SameStrip
<1>7. \A r \in Live : RowBase + r \in 0..(Rows - 1) /\ r \in Strip
  BY <1>1, RowsOfStrip
<1>8. s = Power[LogThreads - k] /\ s \in Nat /\ t \in Nat /\ (t < s => t + s \in Threads)
  <2>1. s = Power[LogThreads - k] /\ s \in Nat
    BY <1>3, PowerSteps DEF Stride
  <2>2. 2 * s <= Count
    <3>1. Power[LogThreads - (k - 1)] = 2 * Power[LogThreads - k]
      BY <1>3, PowerSteps
    <3>2. Power[LogThreads - (k - 1)] <= Count
      BY <1>3, PowerSteps
    <3> QED BY <2>1, <3>1, <3>2
  <2> HIDE DEF s
  <2> QED BY <2>1, <2>2, KernelSizes
<1>9. \A u \in Threads : u # t => sums'[u] = sums[u]
  BY <1>1, <1>2
<1>10. KernelTypeOK'
  <2>1. t < s => [r \in Strip |-> IF r \in Live THEN sums[t][r] + sums[t + s][r] ELSE sums[t][r]]
                   \in [Strip -> Int]
    <3> HIDE DEF s
    <3> QED BY <1>2, <1>8
  <2>2. sums' \in [Threads -> [Strip -> Int]]
    <3> HIDE DEF s
    <3> QED BY <1>1, <1>2, <1>8, <2>1
  <2> QED BY <1>1, <1>4, <2>2 DEF KernelTypeOK
(* A partner that has folded already kept what it had.                     *)
<1>11. ASSUME NEW r \in Live PROVE sums'[t][r] = FoldedRow(RowBase + r, k)[t]
  <2> DEFINE F(j) == FoldedRow(RowBase + r, j)
  <2>1. RowBase + r \in 0..(Rows - 1) /\ r \in Strip
    BY <1>7
  <2>2. \A u \in Threads : F(k)[u] = IF u < s THEN F(k - 1)[u] + F(k - 1)[u + s] ELSE F(k - 1)[u]
    BY <1>3, <1>8, <2>1, FoldedRows
  <2>3. sums[t][r] = F(k - 1)[t]
    BY <1>1, <1>3 DEF SumsAreFolded
  <2>4. CASE t >= s
    <3>1. ~(t < s) /\ sums' = sums
      BY <1>1, <1>8, <2>4
    <3> HIDE DEF F, s, k
    <3> QED BY <2>2, <2>3, <3>1 DEF F
  <2>5. CASE t < s
    <3>1. ~(t >= s) /\ t + s \in Threads /\ ~(t + s < s) /\ t + s # t
      <4> HIDE DEF s
      <4> QED BY <1>8, <2>5
    <3>2. sums'[t][r] = sums[t][r] + sums[t + s][r]
      <4> HIDE DEF s
      <4> QED BY <1>1, <1>2, <2>1, <3>1
    <3>3. sums[t + s][r] = F(k - 1)[t + s]
      <4>1. arrived[t + s] = p \/ arrived[t + s] = p + 1
        <5> HIDE DEF s
        <5> QED BY <1>3, <1>4, <3>1
      <4>2. CASE arrived[t + s] = p
        BY <1>1, <1>3, <3>1, <4>2 DEF SumsAreFolded
      <4>3. CASE arrived[t + s] = p + 1
        <5>1. p + 1 > 2 * Blocks
          BY <1>1, <1>3, KernelSizes
        <5>2. sums[t + s][r] = F(k)[t + s]
          BY <1>1, <1>3, <3>1, <4>3, <5>1 DEF SumsAreFolded
        <5> HIDE DEF F, s, k
        <5> QED BY <2>2, <3>1, <5>2
      <4> QED BY <4>1, <4>2, <4>3
    <3> HIDE DEF F, s, k
    <3> QED BY <2>2, <2>3, <2>5, <3>2, <3>3 DEF F
  <2> QED BY <1>8, <2>4, <2>5
<1>12. SumsAreFolded'
  <2> SUFFICES ASSUME NEW u \in Threads, NEW r \in Live, arrived'[u] > 2 * Blocks
               PROVE  sums'[u][r] = FoldedRow(RowBase + r,
                                              MinOf(arrived'[u] - 2 * Blocks - 1, LogThreads))[u]
    BY <1>6 DEF SumsAreFolded, MinOf
  <2>1. CASE u = t
    BY <1>3, <1>4, <1>11, <2>1
  <2>2. CASE u # t
    BY <1>1, <1>4, <1>9, <2>2 DEF SumsAreFolded
  <2> QED BY <2>1, <2>2
<1>13. RowsAreWritten'
  <2>1. Writing(arrived'[0] - 1) => Writing(arrived[0] - 1)
    <3>1. 0 \in Threads
      BY KernelSizes
    <3>2. CASE 0 = t
      BY <1>3, <1>4, <3>2
    <3> QED BY <1>4, <3>1, <3>2
  <2> QED BY <1>1, <1>6, <2>1 DEF RowsAreWritten, Writing
<1> QED BY <1>5, <1>10, <1>12, <1>13 DEF KernelIInv

(* Thread 0 writes what the last fold left.                                *)
LEMMA WritesRows ==
  ASSUME KernelIInv, NEW t \in Threads, Write(t)
  PROVE  KernelIInv'
<1> DEFINE p == arrived[t]
<1>1. /\ KernelTypeOK /\ InStep /\ BlockIsStaged
      /\ BlocksAreAdded /\ SumsAreFolded /\ RowsAreWritten
      /\ p = 2 * Blocks + LogThreads + 1 /\ AllArrived(t) /\ Done(t)
      /\ UNCHANGED <<group, staged, wStage, vStage, acc, sums>>
      /\ out' = IF t # 0 THEN out ELSE [r \in Strip |-> IF r \in Live THEN sums[0][r] ELSE out[r]]
  BY DEF KernelIInv, Write, Writing
<1>2. sums \in [Threads -> [Strip -> Int]] /\ out \in [Strip -> Int] /\ 0 \in Threads
  BY <1>1, KernelSizes DEF KernelTypeOK
<1>3. /\ p \in Nat /\ p >= 2 * Blocks /\ p > 2 * Blocks /\ p < 2 * Blocks + LogThreads + 2
      /\ p + 1 > 2 * Blocks
      /\ MinOf((p + 1) - 2 * Blocks - 1, LogThreads) = LogThreads
      /\ MinOf(p - 2 * Blocks - 1, LogThreads) = LogThreads
  BY <1>1, KernelSizes DEF MinOf
<1>4. /\ arrived' \in [Threads -> 0..(2 * Blocks + LogThreads + 2)] /\ arrived'[t] = p + 1
      /\ \A u \in Threads : u # t => arrived'[u] = arrived[u]
  BY <1>1, <1>3, ThreadArrives
<1>5. InStep' /\ BlockIsStaged' /\ BlocksAreAdded'
  BY <1>1, <1>3, BlocksArePast
<1>6. RowBase' = RowBase /\ RowCount' = RowCount /\ Live' = Live
  BY <1>1, SameStrip
<1>7. \A r \in Live : r \in Strip
  BY <1>1, RowsOfStrip
<1>8. KernelTypeOK'
  <2>1. out' \in [Strip -> Int]
    BY <1>1, <1>2
  <2> QED BY <1>1, <1>4, <2>1 DEF KernelTypeOK
<1>9. SumsAreFolded'
  <2> SUFFICES ASSUME NEW u \in Threads, NEW r \in Live, arrived'[u] > 2 * Blocks
               PROVE  sums[u][r] = FoldedRow(RowBase + r,
                                              MinOf(arrived'[u] - 2 * Blocks - 1, LogThreads))[u]
    BY <1>1, <1>6 DEF SumsAreFolded, MinOf
  <2>1. CASE u = t
    BY <1>1, <1>3, <1>4, <2>1 DEF SumsAreFolded
  <2>2. CASE u # t
    BY <1>1, <1>4, <2>2 DEF SumsAreFolded
  <2> QED BY <2>1, <2>2
<1>10. RowsAreWritten'
  <2>1. CASE t = 0
    <3>1. \A r \in Live : sums[0][r] = FoldedRow(RowBase + r, LogThreads)[0]
      BY <1>1, <1>3, <2>1 DEF SumsAreFolded
    <3>2. \A r \in Live : out'[r] = sums[0][r]
      BY <1>1, <1>7, <2>1
    <3> QED BY <1>6, <3>1, <3>2 DEF RowsAreWritten
  <2>2. CASE t # 0
    BY <1>1, <1>2, <1>4, <1>6, <2>2 DEF RowsAreWritten, Writing
  <2> QED BY <2>1, <2>2
<1> QED BY <1>5, <1>8, <1>9, <1>10 DEF KernelIInv

(* The inductive invariant of the staged product holds in every behaviour. *)
THEOREM KernelInvariance == KernelSpec => []KernelIInv
<1>1. KernelInit => KernelIInv
  BY KernelBegins
<1>2. KernelIInv /\ [KernelNext]_kernelVars => KernelIInv'
  <2> SUFFICES ASSUME KernelIInv, [KernelNext]_kernelVars PROVE KernelIInv'
    OBVIOUS
  <2>1. ASSUME NEW t \in Threads, Stage(t) PROVE KernelIInv'
    BY <2>1, StagesACell, StagesItsCell
  <2>2. ASSUME NEW t \in Threads, Multiply(t) PROVE KernelIInv'
    BY <2>2, MultipliesBlock
  <2>3. ASSUME NEW t \in Threads, LayOut(t) PROVE KernelIInv'
    BY <2>3, LaysSumsOut
  <2>4. ASSUME NEW t \in Threads, Reduce(t) PROVE KernelIInv'
    BY <2>4, ReducesSums
  <2>5. ASSUME NEW t \in Threads, Write(t) PROVE KernelIInv'
    BY <2>5, WritesRows
  <2>6. CASE UNCHANGED kernelVars
    <3>1. UNCHANGED <<group, arrived, staged, wStage, vStage, acc, sums, out>>
      BY <2>6 DEF kernelVars
    <3>2. KernelTypeOK' /\ InStep'
      BY <3>1 DEF KernelIInv, KernelTypeOK, InStep, Staging
    <3>3. BlockIsStaged'
      BY <3>1, NextIsStaged DEF KernelIInv, BlockIsStaged
    <3>4. BlocksAreAdded' /\ SumsAreFolded' /\ RowsAreWritten'
      BY <3>1, SameStrip
      DEF KernelIInv, BlocksAreAdded, SumsAreFolded, RowsAreWritten, MinOf, Writing
    <3> QED BY <3>2, <3>3, <3>4 DEF KernelIInv
  <2> QED BY <2>1, <2>2, <2>3, <2>4, <2>5, <2>6 DEF KernelNext
<1> QED BY <1>1, <1>2, PTL DEF KernelSpec

(* Whatever the order the threads of a group run in, the rows that the     *)
(* staged product writes are the rows times the vector (gemv_staged16).    *)
THEOREM KernelSafety == KernelSpec => []EveryOrderMultiplies
<1>1. KernelIInv => EveryOrderMultiplies
  <2> SUFFICES ASSUME KernelIInv, Writing(arrived[0] - 1), NEW r \in Live
               PROVE  out[r] = Product(RowBase + r)
    BY DEF EveryOrderMultiplies
  <2>1. out[r] = FoldedRow(RowBase + r, LogThreads)[0]
    BY DEF KernelIInv, RowsAreWritten
  <2>2. RowBase + r \in 0..(Rows - 1)
    BY RowsOfStrip DEF KernelIInv
  <2> QED BY <2>1, <2>2, FoldedRows
<1> QED BY <1>1, KernelInvariance, PTL
=============================================================================
