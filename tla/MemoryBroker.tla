---------------------------- MODULE MemoryBroker ----------------------------
(***************************************************************************)
(* src/src/memory/mod.rs: the process-wide broker that every large         *)
(* allocation reserves from before it allocates.                           *)
(*                                                                         *)
(* The mutex `reserved` is the admission lock.  `reserve` and the Drop of  *)
(* a lease hold it while they change the total and then, in later steps,   *)
(* the per-owner table (under a second mutex, nested) and the high-water   *)
(* mark (an atomic).  `snapshot` takes the two mutexes one after the other *)
(* and reads the atomic last, so it interleaves with the steps of both.    *)
(*                                                                         *)
(* A refused request (zero bytes, a bad alignment, or more than is         *)
(* available) changes nothing and is no step here.                         *)
(***************************************************************************)
EXTENDS Naturals

CONSTANTS
  MaxLeases,   \* leases that may be alive at once (bound)
  NumOwners,   \* the variants of MemoryOwner, numbered
  Budget,      \* --memory
  U64Max,      \* where saturating_add stops
  MaxRequest,  \* largest request that is enumerated (bound)
  Readers      \* threads that call snapshot()

ASSUME BrokerAssumption ==
  /\ MaxLeases \in Nat
  /\ NumOwners \in Nat
  /\ Budget \in Nat
  /\ MaxRequest \in Nat
  /\ U64Max \in Nat
  /\ Budget <= U64Max

LeaseIds == 1..MaxLeases
Owners   == 1..NumOwners
Nobody   == 0            \* the admission lock is free

VARIABLES
  lease,     \* every MemoryLease and how far its reserve or drop has come
  holder,    \* the lease whose operation holds the mutex `reserved`
  reserved,  \* *reserved
  byOwner,   \* OwnerReserved
  peak,      \* AtomicU64
  snap       \* the snapshot each reader is taking

vars == <<lease, holder, reserved, byOwner, peak, snap>>

Phases    == {"free", "admitted", "credited", "live", "discharged"}
SnapSteps == {"idle", "total", "owners", "done"}

SatAdd(a, b) == IF a + b > U64Max THEN U64Max ELSE a + b
SatSub(a, b) == IF b > a THEN 0 ELSE a - b
MaxOf(a, b)  == IF a < b THEN b ELSE a

NoLease == [phase |-> "free", owner |-> 0, bytes |-> 0]
NoSnap  == [step |-> "idle", reserved |-> 0,
            byOwner |-> [o \in Owners |-> 0], peak |-> 0]

Init ==
  /\ lease = [l \in LeaseIds |-> NoLease]
  /\ holder = Nobody
  /\ reserved = 0
  /\ byOwner = [o \in Owners |-> 0]
  /\ peak = 0
  /\ snap = [r \in Readers |-> NoSnap]
-----------------------------------------------------------------------------
(* Mutant: the request is compared with nothing.                           *)
AdmitUnchecked(l, o, bytes) ==
  /\ holder = Nobody
  /\ lease[l].phase = "free"
  /\ bytes > 0
  /\ holder' = l
  /\ lease' = [lease EXCEPT ![l] = [phase |-> "admitted", owner |-> o, bytes |-> bytes]]
  /\ reserved' = reserved + bytes
  /\ UNCHANGED <<byOwner, peak, snap>>

(* Mutant: the request is compared with the budget, not with what is left, *)
(* and the total saturates there.                                          *)
AdmitWithinBudget(l, o, bytes) ==
  /\ holder = Nobody
  /\ lease[l].phase = "free"
  /\ bytes > 0
  /\ bytes <= Budget
  /\ holder' = l
  /\ lease' = [lease EXCEPT ![l] = [phase |-> "admitted", owner |-> o, bytes |-> bytes]]
  /\ reserved' = SatAdd(reserved, bytes)
  /\ UNCHANGED <<byOwner, peak, snap>>

(* reserve: take the lock, compare with what is available, add.            *)
Admit(l, o, bytes) ==
  /\ holder = Nobody
  /\ lease[l].phase = "free"
  /\ bytes > 0
  /\ bytes <= SatSub(Budget, reserved)
  /\ holder' = l
  /\ lease' = [lease EXCEPT ![l] = [phase |-> "admitted", owner |-> o, bytes |-> bytes]]
  /\ reserved' = reserved + bytes
  /\ UNCHANGED <<byOwner, peak, snap>>

(* reserve, lock held: by_owner.lock().add(owner, bytes).                  *)
CreditOwner(l) ==
  /\ lease[l].phase = "admitted"
  /\ byOwner' = [byOwner EXCEPT ![lease[l].owner] = SatAdd(@, lease[l].bytes)]
  /\ lease' = [lease EXCEPT ![l].phase = "credited"]
  /\ UNCHANGED <<holder, reserved, peak, snap>>

(* Mutants: the peak is stored, not maximised; the peak is left alone.     *)
RaisePeakByStore(l) ==
  /\ lease[l].phase = "credited"
  /\ peak' = reserved
  /\ lease' = [lease EXCEPT ![l].phase = "live"]
  /\ holder' = Nobody
  /\ UNCHANGED <<reserved, byOwner, snap>>

(* reserve: fetch_max on the peak, unlock, hand the lease out.            *)
RaisePeak(l) ==
  /\ lease[l].phase = "credited"
  /\ peak' = MaxOf(peak, reserved)
  /\ lease' = [lease EXCEPT ![l].phase = "live"]
  /\ holder' = Nobody
  /\ UNCHANGED <<reserved, byOwner, snap>>

(* Drop for MemoryLease: take the lock, subtract.                          *)
Discharge(l) ==
  /\ holder = Nobody
  /\ lease[l].phase = "live"
  /\ holder' = l
  /\ lease' = [lease EXCEPT ![l].phase = "discharged"]
  /\ reserved' = SatSub(reserved, lease[l].bytes)
  /\ UNCHANGED <<byOwner, peak, snap>>

(* Mutant: the drop forgets the table.                                     *)
DebitNobody(l) ==
  /\ lease[l].phase = "discharged"
  /\ lease' = [lease EXCEPT ![l] = NoLease]
  /\ holder' = Nobody
  /\ UNCHANGED <<reserved, byOwner, peak, snap>>

(* Drop, lock held: by_owner.lock().sub(owner, bytes), then both unlock.   *)
DebitOwner(l) ==
  /\ lease[l].phase = "discharged"
  /\ byOwner' = [byOwner EXCEPT ![lease[l].owner] = SatSub(@, lease[l].bytes)]
  /\ lease' = [lease EXCEPT ![l] = NoLease]
  /\ holder' = Nobody
  /\ UNCHANGED <<reserved, peak, snap>>

(* snapshot, three reads: the total under the admission lock ...           *)
SnapTotal(r) ==
  /\ snap[r].step = "idle"
  /\ holder = Nobody
  /\ snap' = [snap EXCEPT ![r].step = "total", ![r].reserved = reserved]
  /\ UNCHANGED <<lease, holder, reserved, byOwner, peak>>

(* ... the table under its own lock, which no step above keeps ...         *)
SnapOwners(r) ==
  /\ snap[r].step = "total"
  /\ snap' = [snap EXCEPT ![r].step = "owners", ![r].byOwner = byOwner]
  /\ UNCHANGED <<lease, holder, reserved, byOwner, peak>>

(* ... and the high-water mark under none.                                 *)
SnapPeak(r) ==
  /\ snap[r].step = "owners"
  /\ snap' = [snap EXCEPT ![r].step = "done", ![r].peak = peak]
  /\ UNCHANGED <<lease, holder, reserved, byOwner, peak>>

(* The caller is done with the copy it was given.                          *)
SnapForget(r) ==
  /\ snap[r].step = "done"
  /\ snap' = [snap EXCEPT ![r] = NoSnap]
  /\ UNCHANGED <<lease, holder, reserved, byOwner, peak>>

Reserve(l) == \E o \in Owners, bytes \in 1..MaxRequest : Admit(l, o, bytes)
Settle(l)  == CreditOwner(l) \/ RaisePeak(l) \/ DebitOwner(l)
Snapshot(r) == SnapTotal(r) \/ SnapOwners(r) \/ SnapPeak(r) \/ SnapForget(r)

Next ==
  \/ \E l \in LeaseIds : Reserve(l) \/ Settle(l) \/ Discharge(l)
  \/ \E r \in Readers : Snapshot(r)

Spec == Init /\ [][Next]_vars
-----------------------------------------------------------------------------
(* The bytes of a lease that the total counts, and that the table counts   *)
(* for an owner.  They differ only inside a locked section.                *)
Charge == [l \in LeaseIds |->
             IF lease[l].phase \in {"admitted", "credited", "live"}
             THEN lease[l].bytes ELSE 0]

OwnerCharge(o) == [l \in LeaseIds |->
             IF lease[l].phase \in {"credited", "live", "discharged"} /\ lease[l].owner = o
             THEN lease[l].bytes ELSE 0]

(* What a lease holds is what the contract calls granted.                  *)
Contract == INSTANCE MemoryBudget WITH granted <- Charge

(* The shape of the state, and the u64 fields stay within the budget: the  *)
(* saturating operations never saturate into a value the code does not     *)
(* expect.                                                                 *)
TypeOK ==
  /\ lease \in [LeaseIds -> [phase : Phases, owner : 0..NumOwners, bytes : 0..Budget]]
  /\ \A l \in LeaseIds : lease[l].phase # "free" =>
        lease[l].owner \in Owners /\ lease[l].bytes > 0
  /\ holder \in 0..MaxLeases
  /\ reserved \in 0..Budget
  /\ byOwner \in [Owners -> 0..Budget]
  /\ peak \in 0..Budget
  /\ snap \in [Readers -> [step : SnapSteps, reserved : 0..Budget,
                           byOwner : [Owners -> 0..Budget], peak : 0..Budget]]

(* Mutual exclusion: a lease is between two of its bookkeeping steps only  *)
(* while its own operation holds the admission lock.                       *)
OneAdmission ==
  \A l \in LeaseIds :
     lease[l].phase \in {"admitted", "credited", "discharged"} <=> holder = l

(* "--memory is a hard contract" (memory/mod.rs:2): the total is exactly   *)
(* the sum of the leases that hold budget, so dropping every lease gives   *)
(* everything back, and with TypeOK that sum never exceeds the budget.     *)
LedgerExact == Contract!SumsTo(Charge, MaxLeases, reserved)

(* Every entry of the per-owner table is the sum of that owner's leases.   *)
OwnerLedgerExact ==
  \A o \in Owners : Contract!SumsTo(OwnerCharge(o), MaxLeases, byOwner[o])

(* Whenever nobody holds the lock, the breakdown by owner adds up to the   *)
(* total and the high-water mark has caught up with it.                    *)
QuiescentAgreement ==
  holder = Nobody => /\ Contract!SumsTo(byOwner, NumOwners, reserved)
                     /\ reserved <= peak

(* What a finished snapshot() still guarantees although its three reads    *)
(* straddle other threads' reserve and drop: the peak covers the total it  *)
(* reports, and the breakdown is one the broker had, within the budget.    *)
SnapshotSound ==
  \A r \in Readers : snap[r].step = "done" =>
     /\ snap[r].reserved <= snap[r].peak
     /\ snap[r].peak <= Budget
     /\ \E used \in 0..Budget : Contract!SumsTo(snap[r].byOwner, NumOwners, used)

(* What the per-owner table adds up to: the total, except between the two  *)
(* updates of one reserve or one drop.                                     *)
Tabulated ==
  IF holder = Nobody THEN reserved
  ELSE CASE lease[holder].phase = "admitted"   -> reserved - lease[holder].bytes
         [] lease[holder].phase = "discharged" -> reserved + lease[holder].bytes
         [] OTHER                              -> reserved

TableTotal == Tabulated \in 0..Budget /\ Contract!SumsTo(byOwner, NumOwners, Tabulated)

PeakCovers ==
  (holder = Nobody \/ lease[holder].phase = "discharged") => reserved <= peak

SnapsCovered ==
  \A r \in Readers :
     /\ snap[r].step \in {"total", "owners"} => snap[r].reserved <= peak
     /\ snap[r].step = "done" => snap[r].reserved <= snap[r].peak
     /\ snap[r].step \in {"owners", "done"} =>
           \E used \in 0..Budget : Contract!SumsTo(snap[r].byOwner, NumOwners, used)

(* The inductive invariant: the properties above, and what makes them      *)
(* survive the steps inside a locked section.                              *)
IInv ==
  /\ TypeOK
  /\ OneAdmission
  /\ LedgerExact
  /\ OwnerLedgerExact
  /\ TableTotal
  /\ PeakCovers
  /\ SnapsCovered

(* The broker implements the contract a caller relies on.                  *)
ImplementsBudget == Contract!Spec
=============================================================================
