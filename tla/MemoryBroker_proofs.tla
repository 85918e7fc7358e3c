------------------------ MODULE MemoryBroker_proofs ------------------------
(***************************************************************************)
(* The broker's accounting, for any number of leases, owners and readers   *)
(* and any budget.  One lemma per action of Next shows that it preserves   *)
(* IInv; the theorems at the end are read off IInv.                        *)
(***************************************************************************)
EXTENDS MemoryBroker, Lemmas

(* A running total of natural amounts never decreases.                     *)
LEMMA RunningTotalGrows ==
  ASSUME NEW n \in Nat, NEW total \in Nat,
         NEW amount \in [1..n -> Nat],
         NEW run \in [0..n -> 0..total], Contract!RunningTotal(run, amount, n, total),
         NEW i \in 0..n, NEW j \in 0..n, i <= j
  PROVE  run[i] <= run[j]
<1> DEFINE Bad == {k \in i..n : run[k] < run[i]}
<1>1. SUFFICES ASSUME run[j] < run[i] PROVE FALSE
  <2>1. run[i] \in Int /\ run[j] \in Int
    OBVIOUS
  <2> QED BY <2>1
<1>2. Bad \in SUBSET Nat
  <2> SUFFICES ASSUME NEW k \in i..n PROVE k \in Nat
    OBVIOUS
  <2> QED OBVIOUS
<1>3. Bad # {}
  <2>1. j \in i..n
    OBVIOUS
  <2> QED BY <1>1, <2>1
<1>4. PICK k \in Bad : \A m \in Bad : k <= m
  <2> HIDE DEF Bad
  <2> QED BY <1>2, <1>3, SmallestMember
<1>5. k \in i..n /\ run[k] < run[i]
  BY <1>4
<1>6. k # i
  BY <1>5
<1>7. k - 1 \in i..n /\ k \in 1..n
  BY <1>5, <1>6
<1>8. ~(run[k - 1] < run[i])
  BY <1>4, <1>7
<1>9. run[k] = run[k - 1] + amount[k]
  BY <1>7 DEF Contract!RunningTotal
<1>10. run[k] \in Nat /\ run[k - 1] \in Nat /\ run[i] \in Nat /\ amount[k] \in Nat
  BY <1>7
<1> QED BY <1>5, <1>8, <1>9, <1>10

(* Nothing adds up to zero.                                                *)
LEMMA NothingSums ==
  ASSUME NEW n \in Nat, NEW amount, \A i \in 1..n : amount[i] = 0
  PROVE  Contract!SumsTo(amount, n, 0)
<1> DEFINE run == [i \in 0..n |-> 0]
<1>1. run \in [0..n -> 0..0]
  OBVIOUS
<1>2. Contract!RunningTotal(run, amount, n, 0)
  BY DEF Contract!RunningTotal
<1> QED BY <1>1, <1>2 DEF Contract!SumsTo

(* One entry never exceeds the sum.                                        *)
LEMMA EntryWithinSum ==
  ASSUME NEW n \in Nat, NEW total \in Nat, NEW amount \in [1..n -> Nat],
         NEW k \in 1..n, Contract!SumsTo(amount, n, total)
  PROVE  amount[k] <= total
<1>1. PICK run \in [0..n -> 0..total] : Contract!RunningTotal(run, amount, n, total)
  BY DEF Contract!SumsTo
<1>2. run[k] = run[k - 1] + amount[k]
  BY <1>1 DEF Contract!RunningTotal
<1>3. run[k] \in 0..total /\ run[k - 1] \in 0..total /\ amount[k] \in Nat
  BY <1>1
<1> QED BY <1>2, <1>3

(* Changing one entry changes the sum by the same amount.                  *)
LEMMA ReplaceEntry ==
  ASSUME NEW n \in Nat, NEW total \in Nat, NEW amount \in [1..n -> Nat],
         NEW k \in 1..n, NEW v \in Nat, Contract!SumsTo(amount, n, total)
  PROVE  /\ total - amount[k] + v \in Nat
         /\ Contract!SumsTo([amount EXCEPT ![k] = v], n, total - amount[k] + v)
<1> DEFINE new == total - amount[k] + v
<1> DEFINE changed == [amount EXCEPT ![k] = v]
<1>1. PICK run \in [0..n -> 0..total] : Contract!RunningTotal(run, amount, n, total)
  BY DEF Contract!SumsTo
<1> DEFINE next == [i \in 0..n |-> IF i < k THEN run[i] ELSE run[i] - amount[k] + v]
<1>2. \A i, j \in 0..n : i <= j => run[i] <= run[j]
  BY <1>1, RunningTotalGrows
<1>3. run[k] = run[k - 1] + amount[k] /\ run[0] = 0 /\ run[n] = total
  BY <1>1 DEF Contract!RunningTotal
<1>4. \A i \in 0..n : run[i] \in Nat
  BY <1>1
<1>5. /\ k - 1 \in 0..n /\ k \in 0..n /\ n \in 0..n /\ 0 \in 0..n
      /\ amount[k] \in Nat
  OBVIOUS
<1>6. amount[k] <= total
  BY <1>2, <1>3, <1>4, <1>5
<1>7. new \in Nat
  BY <1>5, <1>6
<1>8. next \in [0..n -> 0..new]
  <2> SUFFICES ASSUME NEW i \in 0..n
               PROVE  (IF i < k THEN run[i] ELSE run[i] - amount[k] + v) \in 0..new
    OBVIOUS
  <2>1. run[k] <= run[n] /\ run[i] <= run[n]
    BY <1>2, <1>5
  <2>2. CASE i < k
    <3>1. i <= k - 1
      BY <2>2
    <3>2. run[i] <= run[k - 1]
      BY <1>2, <1>5, <3>1
    <3> QED BY <1>3, <1>4, <1>5, <2>1, <2>2, <3>2
  <2>3. CASE ~(i < k)
    <3>1. k <= i
      BY <2>3
    <3>2. run[k] <= run[i]
      BY <1>2, <1>5, <3>1
    <3>3. amount[k] <= run[k]
      BY <1>3, <1>4, <1>5
    <3>4. run[i] \in Nat /\ run[k] \in Nat /\ run[i] <= total /\ total \in Nat /\ v \in Nat
      BY <1>3, <1>4, <1>5, <2>1
    <3>5. run[i] - amount[k] + v \in 0..(total - amount[k] + v)
      BY <1>5, <3>2, <3>3, <3>4
    <3> QED BY <2>3, <3>5
  <2> QED BY <2>2, <2>3
<1>9. Contract!RunningTotal(next, changed, n, new)
  <2>1. next[0] = 0 /\ next[n] = new
    BY <1>3, <1>5
  <2>2. ASSUME NEW i \in 1..n PROVE next[i] = next[i - 1] + changed[i]
    <3>1. i \in 0..n /\ i - 1 \in 0..n
      OBVIOUS
    <3>2. run[i] = run[i - 1] + amount[i]
      BY <1>1 DEF Contract!RunningTotal
    <3>3. run[i] \in Nat /\ run[i - 1] \in Nat /\ amount[i] \in Nat
      BY <1>4, <3>1
    <3>4. next[i] = IF i < k THEN run[i] ELSE run[i] - amount[k] + v
      BY <3>1
    <3>5. next[i - 1] = IF i - 1 < k THEN run[i - 1] ELSE run[i - 1] - amount[k] + v
      BY <3>1
    <3>6. changed[i] = IF i = k THEN v ELSE amount[i]
      OBVIOUS
    <3> HIDE DEF next, changed
    <3>7. CASE i < k
      BY <1>5, <3>2, <3>3, <3>4, <3>5, <3>6, <3>7
    <3>8. CASE i = k
      BY <1>5, <3>2, <3>3, <3>4, <3>5, <3>6, <3>8
    <3>9. CASE i > k
      <4>1. ~(i < k) /\ ~(i - 1 < k) /\ i # k
        BY <3>9
      <4> QED BY <1>5, <3>2, <3>3, <3>4, <3>5, <3>6, <4>1
    <3> QED BY <3>7, <3>8, <3>9
  <2> HIDE DEF next, changed, new
  <2> QED BY <2>1, <2>2 DEF Contract!RunningTotal
<1>10. Contract!SumsTo(changed, n, new)
  <2> HIDE DEF next, changed, new
  <2> QED BY <1>8, <1>9 DEF Contract!SumsTo
<1> QED BY <1>7, <1>10
-----------------------------------------------------------------------------
USE BrokerAssumption

(* The three ledgers have natural entries.                                 *)
LEMMA LedgerTypes ==
  ASSUME TypeOK
  PROVE  /\ Charge \in [1..MaxLeases -> Nat]
         /\ \A o \in Owners : OwnerCharge(o) \in [1..MaxLeases -> Nat]
         /\ byOwner \in [1..NumOwners -> Nat]
         /\ reserved \in Nat
<1>1. \A l \in LeaseIds : lease[l].bytes \in Nat
  BY DEF TypeOK
<1>2. Charge \in [1..MaxLeases -> Nat]
  BY <1>1 DEF Charge, LeaseIds
<1>3. \A o \in Owners : OwnerCharge(o) \in [1..MaxLeases -> Nat]
  BY <1>1 DEF OwnerCharge, LeaseIds
<1>4. byOwner \in [1..NumOwners -> Nat]
  BY DEF TypeOK, Owners
<1>5. reserved \in Nat
  BY DEF TypeOK
<1> QED BY <1>2, <1>3, <1>4, <1>5

(* The readers' copies are covered by a peak that did not decrease.        *)
LEMMA SnapsStayCovered ==
  ASSUME TypeOK, SnapsCovered, UNCHANGED snap, peak' \in Nat, peak <= peak'
  PROVE  SnapsCovered'
<1> SUFFICES ASSUME NEW r \in Readers
             PROVE  /\ snap[r].step \in {"total", "owners"} => snap[r].reserved <= peak'
                    /\ snap[r].step = "done" => snap[r].reserved <= snap[r].peak
                    /\ snap[r].step \in {"owners", "done"} =>
                          \E used \in 0..Budget : Contract!SumsTo(snap[r].byOwner, NumOwners, used)
  BY DEF SnapsCovered
<1>1. snap[r].reserved \in Nat /\ peak \in Nat
  BY DEF TypeOK
<1> QED BY <1>1 DEF SnapsCovered

LEMMA InitInv == Init => IInv
<1> SUFFICES ASSUME Init PROVE IInv
  OBVIOUS
<1> USE DEF Init
<1>1. TypeOK
  BY DEF TypeOK, NoLease, NoSnap, Phases, SnapSteps, LeaseIds, Owners, Nobody
<1>2. OneAdmission
  BY DEF OneAdmission, NoLease, LeaseIds, Nobody
<1>3. LedgerExact
  <2>1. \A i \in 1..MaxLeases : Charge[i] = 0
    BY DEF Charge, LeaseIds, NoLease
  <2> QED BY <2>1, NothingSums DEF LedgerExact
<1>4. OwnerLedgerExact
  <2> SUFFICES ASSUME NEW o \in Owners PROVE Contract!SumsTo(OwnerCharge(o), MaxLeases, 0)
    BY DEF OwnerLedgerExact
  <2>1. \A i \in 1..MaxLeases : OwnerCharge(o)[i] = 0
    BY DEF OwnerCharge, LeaseIds, NoLease
  <2> QED BY <2>1, NothingSums
<1>5. TableTotal
  <2>1. \A i \in 1..NumOwners : byOwner[i] = 0
    BY DEF Owners
  <2>2. Contract!SumsTo(byOwner, NumOwners, 0)
    BY <2>1, NothingSums
  <2>3. Tabulated = 0
    BY DEF Tabulated, Nobody
  <2> QED BY <2>2, <2>3 DEF TableTotal
<1>6. PeakCovers
  BY DEF PeakCovers
<1>7. SnapsCovered
  BY DEF SnapsCovered, NoSnap
<1> QED BY <1>1, <1>2, <1>3, <1>4, <1>5, <1>6, <1>7 DEF IInv

LEMMA AdmitInv ==
  ASSUME IInv, NEW l \in LeaseIds, NEW o \in Owners, NEW bytes \in 1..MaxRequest,
         Admit(l, o, bytes)
  PROVE  IInv'
<1>1. /\ TypeOK /\ OneAdmission /\ LedgerExact /\ OwnerLedgerExact
      /\ TableTotal /\ PeakCovers /\ SnapsCovered
  BY DEF IInv
<1>2. /\ holder = Nobody /\ holder' = l /\ l # Nobody /\ l \in 1..MaxLeases
      /\ lease[l].phase = "free"
      /\ lease' = [lease EXCEPT ![l] = [phase |-> "admitted", owner |-> o, bytes |-> bytes]]
      /\ UNCHANGED <<byOwner, peak, snap>>
  BY DEF Admit, LeaseIds, Nobody
<1>3. bytes \in Nat /\ bytes > 0 /\ reserved \in Nat
      /\ reserved' = reserved + bytes /\ reserved' \in 0..Budget
  BY <1>1 DEF Admit, SatSub, TypeOK
<1>4. TypeOK'
  <2>1. bytes \in 0..Budget
    BY <1>3
  <2>2. [phase |-> "admitted", owner |-> o, bytes |-> bytes]
           \in [phase : Phases, owner : 0..NumOwners, bytes : 0..Budget]
    BY <2>1 DEF Phases, Owners
  <2>3. lease' \in [LeaseIds -> [phase : Phases, owner : 0..NumOwners, bytes : 0..Budget]]
    BY <1>1, <1>2, <2>2 DEF TypeOK
  <2>4. ASSUME NEW x \in LeaseIds, lease'[x].phase # "free"
        PROVE  lease'[x].owner \in Owners /\ lease'[x].bytes > 0
    BY <1>1, <1>2, <1>3, <2>4 DEF TypeOK
  <2>5. holder' \in 0..MaxLeases
    BY <1>2
  <2> QED BY <1>1, <1>2, <1>3, <2>3, <2>4, <2>5 DEF TypeOK
<1>5. OneAdmission'
  <2>1. SUFFICES ASSUME NEW x \in LeaseIds
        PROVE  lease'[x].phase \in {"admitted", "credited", "discharged"} <=> holder' = x
    BY DEF OneAdmission
  <2>2. CASE x = l
    BY <1>1, <1>2, <2>2 DEF TypeOK
  <2>3. CASE x # l
    <3>1. lease'[x] = lease[x] /\ holder # x
      BY <1>1, <1>2, <2>3 DEF TypeOK, Nobody, LeaseIds
    <3> QED BY <1>1, <1>2, <2>3, <3>1 DEF OneAdmission
  <2> QED BY <2>2, <2>3
<1>6. LedgerExact'
  <2>1. Charge[l] = 0
    BY <1>2 DEF Charge
  <2>2. Charge' = [Charge EXCEPT ![l] = bytes]
    BY <1>1, <1>2 DEF Charge, TypeOK
  <2>3. Contract!SumsTo([Charge EXCEPT ![l] = bytes], MaxLeases, reserved - Charge[l] + bytes)
    BY <1>1, <1>2, <1>3, LedgerTypes, ReplaceEntry DEF LedgerExact
  <2>4. reserved - Charge[l] + bytes = reserved'
    BY <1>3, <2>1
  <2> QED BY <2>2, <2>3, <2>4 DEF LedgerExact
<1>7. OwnerLedgerExact'
  <2>1. \A x \in Owners : OwnerCharge(x)' = OwnerCharge(x)
    BY <1>1, <1>2 DEF OwnerCharge, TypeOK
  <2> QED BY <1>1, <1>2, <2>1 DEF OwnerLedgerExact
<1>8. TableTotal'
  <2>1. Tabulated = reserved
    BY <1>2 DEF Tabulated
  <2>2. Tabulated' = reserved' - bytes
    BY <1>1, <1>2 DEF Tabulated, TypeOK
  <2>3. Tabulated' = Tabulated
    BY <1>3, <2>1, <2>2
  <2> QED BY <1>1, <1>2, <2>3 DEF TableTotal
<1>9. PeakCovers'
  BY <1>1, <1>2 DEF PeakCovers, TypeOK
<1>10. SnapsCovered'
  BY <1>1, <1>2, SnapsStayCovered DEF TypeOK
<1> QED BY <1>4, <1>5, <1>6, <1>7, <1>8, <1>9, <1>10 DEF IInv

LEMMA CreditOwnerInv ==
  ASSUME IInv, NEW l \in LeaseIds, CreditOwner(l)
  PROVE  IInv'
<1> DEFINE o == lease[l].owner
<1> DEFINE b == lease[l].bytes
<1>1. /\ TypeOK /\ OneAdmission /\ LedgerExact /\ OwnerLedgerExact
      /\ TableTotal /\ PeakCovers /\ SnapsCovered
  BY DEF IInv
<1>2. /\ lease[l].phase = "admitted" /\ l \in 1..MaxLeases
      /\ lease' = [lease EXCEPT ![l].phase = "credited"]
      /\ byOwner' = [byOwner EXCEPT ![o] = SatAdd(@, b)]
      /\ UNCHANGED <<holder, reserved, peak, snap>>
  BY DEF CreditOwner, LeaseIds
<1>3. /\ holder = l /\ l # Nobody
      /\ o \in Owners /\ b \in Nat /\ b > 0
      /\ reserved \in 0..Budget /\ byOwner \in [Owners -> 0..Budget]
  BY <1>1, <1>2 DEF OneAdmission, TypeOK, LeaseIds, Nobody
<1>4. /\ lease' \in [LeaseIds -> [phase : Phases, owner : 0..NumOwners, bytes : 0..Budget]]
      /\ lease'[l] = [phase |-> "credited", owner |-> o, bytes |-> b]
      /\ \A x \in LeaseIds : x # l => lease'[x] = lease[x]
  BY <1>1, <1>2 DEF TypeOK, Phases
<1> HIDE DEF o, b
<1>5. Tabulated = reserved - b /\ Tabulated' = reserved
  BY <1>2, <1>3, <1>4 DEF Tabulated, b
<1>6. Contract!SumsTo(byOwner, NumOwners, reserved - b) /\ reserved - b \in 0..Budget
  BY <1>1, <1>5 DEF TableTotal
<1>7. /\ byOwner \in [1..NumOwners -> Nat] /\ o \in 1..NumOwners
      /\ byOwner[o] \in Nat /\ reserved \in Nat /\ reserved - b \in Nat
  BY <1>1, <1>3, <1>6, LedgerTypes DEF Owners
<1>8. byOwner[o] + b \in 0..Budget /\ ~(byOwner[o] + b > U64Max)
  <2>1. byOwner[o] <= reserved - b
    BY <1>6, <1>7, EntryWithinSum
  <2> QED BY <1>3, <1>7, <2>1
<1>9. byOwner' = [byOwner EXCEPT ![o] = byOwner[o] + b]
  <2>1. SatAdd(byOwner[o], b) = byOwner[o] + b
    BY <1>8 DEF SatAdd
  <2> QED BY <1>2, <2>1
<1>10. TypeOK'
  <2>1. byOwner' \in [Owners -> 0..Budget]
    BY <1>3, <1>8, <1>9
  <2>2. ASSUME NEW x \in LeaseIds, lease'[x].phase # "free"
        PROVE  lease'[x].owner \in Owners /\ lease'[x].bytes > 0
    BY <1>1, <1>3, <1>4, <2>2 DEF TypeOK
  <2> QED BY <1>1, <1>2, <1>4, <2>1, <2>2 DEF TypeOK
<1>11. OneAdmission'
  <2>1. SUFFICES ASSUME NEW x \in LeaseIds
        PROVE  lease'[x].phase \in {"admitted", "credited", "discharged"} <=> holder' = x
    BY DEF OneAdmission
  <2>2. CASE x = l
    BY <1>2, <1>3, <1>4, <2>2
  <2>3. CASE x # l
    BY <1>1, <1>2, <1>4, <2>3 DEF OneAdmission
  <2> QED BY <2>2, <2>3
<1>12. LedgerExact'
  <2>1. Charge' = Charge
    BY <1>2, <1>4 DEF Charge, b
  <2> QED BY <1>1, <1>2, <2>1 DEF LedgerExact
<1>13. OwnerLedgerExact'
  <2>1. SUFFICES ASSUME NEW x \in Owners
        PROVE  Contract!SumsTo(OwnerCharge(x)', MaxLeases, byOwner'[x])
    BY DEF OwnerLedgerExact
  <2>2. Contract!SumsTo(OwnerCharge(x), MaxLeases, byOwner[x])
    BY <1>1 DEF OwnerLedgerExact
  <2>3. CASE x # o
    <3>1. OwnerCharge(x)' = OwnerCharge(x)
      BY <1>2, <1>4, <2>3 DEF OwnerCharge, o
    <3>2. byOwner'[x] = byOwner[x]
      BY <1>3, <1>9, <2>3
    <3> QED BY <2>2, <3>1, <3>2
  <2>4. CASE x = o
    <3>1. OwnerCharge(x)[l] = 0
      BY <1>2 DEF OwnerCharge
    <3>2. OwnerCharge(x)' = [OwnerCharge(x) EXCEPT ![l] = b]
      <4>1. lease'[l].phase = "credited" /\ lease'[l].owner = x /\ lease'[l].bytes = b
        BY <1>4, <2>4
      <4> QED BY <1>4, <4>1 DEF OwnerCharge
    <3>3. OwnerCharge(x) \in [1..MaxLeases -> Nat] /\ byOwner[x] \in Nat
      BY <1>1, <1>7, <2>4, LedgerTypes
    <3>4. Contract!SumsTo([OwnerCharge(x) EXCEPT ![l] = b], MaxLeases, byOwner[x] - OwnerCharge(x)[l] + b)
      BY <1>2, <1>3, <2>2, <3>3, ReplaceEntry
    <3>5. byOwner[x] - OwnerCharge(x)[l] + b = byOwner'[x]
      BY <1>3, <1>7, <1>9, <2>4, <3>1
    <3> QED BY <3>2, <3>4, <3>5
  <2> QED BY <2>3, <2>4
<1>14. TableTotal'
  <2>1. Contract!SumsTo([byOwner EXCEPT ![o] = byOwner[o] + b], NumOwners,
               (reserved - b) - byOwner[o] + (byOwner[o] + b))
    <3>1. byOwner[o] + b \in Nat
      BY <1>3, <1>7
    <3> QED BY <1>6, <1>7, <3>1, ReplaceEntry
  <2>2. (reserved - b) - byOwner[o] + (byOwner[o] + b) = reserved
    BY <1>3, <1>7
  <2> QED BY <1>3, <1>5, <1>9, <2>1, <2>2 DEF TableTotal
<1>15. PeakCovers'
  BY <1>2, <1>3, <1>4 DEF PeakCovers
<1>16. SnapsCovered'
  BY <1>1, <1>2, SnapsStayCovered DEF TypeOK
<1> QED BY <1>10, <1>11, <1>12, <1>13, <1>14, <1>15, <1>16 DEF IInv

LEMMA RaisePeakInv ==
  ASSUME IInv, NEW l \in LeaseIds, RaisePeak(l)
  PROVE  IInv'
<1>1. /\ TypeOK /\ OneAdmission /\ LedgerExact /\ OwnerLedgerExact
      /\ TableTotal /\ PeakCovers /\ SnapsCovered
  BY DEF IInv
<1>2. /\ lease[l].phase = "credited"
      /\ lease' = [lease EXCEPT ![l].phase = "live"]
      /\ holder' = Nobody
      /\ peak' = MaxOf(peak, reserved)
      /\ UNCHANGED <<reserved, byOwner, snap>>
  BY DEF RaisePeak
<1>3. holder = l /\ l # Nobody
  BY <1>1, <1>2 DEF OneAdmission, LeaseIds, Nobody
<1>4. /\ lease' \in [LeaseIds -> [phase : Phases, owner : 0..NumOwners, bytes : 0..Budget]]
      /\ lease'[l].phase = "live"
      /\ lease'[l].owner = lease[l].owner
      /\ lease'[l].bytes = lease[l].bytes
      /\ \A x \in LeaseIds : x # l => lease'[x] = lease[x]
  BY <1>1, <1>2 DEF TypeOK, Phases
<1>5. /\ peak \in 0..Budget /\ reserved \in 0..Budget /\ peak' \in 0..Budget
      /\ peak <= peak' /\ reserved <= peak'
  BY <1>1, <1>2 DEF TypeOK, MaxOf
<1>6. TypeOK'
  <2>1. ASSUME NEW x \in LeaseIds, lease'[x].phase # "free"
        PROVE  lease'[x].owner \in Owners /\ lease'[x].bytes > 0
    BY <1>1, <1>2, <1>4, <2>1 DEF TypeOK
  <2>2. holder' \in 0..MaxLeases
    BY <1>2 DEF Nobody
  <2> QED BY <1>1, <1>2, <1>4, <1>5, <2>1, <2>2 DEF TypeOK
<1>7. OneAdmission'
  <2>1. SUFFICES ASSUME NEW x \in LeaseIds
        PROVE  lease'[x].phase \in {"admitted", "credited", "discharged"} <=> holder' = x
    BY DEF OneAdmission
  <2>2. holder' # x
    BY <1>2 DEF LeaseIds, Nobody
  <2>3. CASE x = l
    BY <1>4, <2>2, <2>3
  <2>4. CASE x # l
    BY <1>1, <1>3, <1>4, <2>2, <2>4 DEF OneAdmission
  <2> QED BY <2>3, <2>4
<1>8. LedgerExact'
  <2>1. Charge' = Charge
    BY <1>2, <1>4 DEF Charge
  <2> QED BY <1>1, <1>2, <2>1 DEF LedgerExact
<1>9. OwnerLedgerExact'
  <2>1. \A x \in Owners : OwnerCharge(x)' = OwnerCharge(x)
    BY <1>2, <1>4 DEF OwnerCharge
  <2> QED BY <1>1, <1>2, <2>1 DEF OwnerLedgerExact
<1>10. TableTotal'
  <2>1. Tabulated = reserved /\ Tabulated' = reserved
    BY <1>2, <1>3 DEF Tabulated
  <2> QED BY <1>1, <1>2, <2>1 DEF TableTotal
<1>11. PeakCovers'
  BY <1>2, <1>5 DEF PeakCovers
<1>12. SnapsCovered'
  <2>1. peak' \in Nat
    BY <1>5
  <2> QED BY <1>1, <1>2, <1>5, <2>1, SnapsStayCovered
<1> QED BY <1>6, <1>7, <1>8, <1>9, <1>10, <1>11, <1>12 DEF IInv

LEMMA DischargeInv ==
  ASSUME IInv, NEW l \in LeaseIds, Discharge(l)
  PROVE  IInv'
<1> DEFINE b == lease[l].bytes
<1>1. /\ TypeOK /\ OneAdmission /\ LedgerExact /\ OwnerLedgerExact
      /\ TableTotal /\ PeakCovers /\ SnapsCovered
  BY DEF IInv
<1>2. /\ holder = Nobody /\ holder' = l /\ l # Nobody /\ l \in 1..MaxLeases
      /\ lease[l].phase = "live"
      /\ lease' = [lease EXCEPT ![l].phase = "discharged"]
      /\ reserved' = SatSub(reserved, b)
      /\ UNCHANGED <<byOwner, peak, snap>>
  BY DEF Discharge, LeaseIds, Nobody
<1>3. /\ lease' \in [LeaseIds -> [phase : Phases, owner : 0..NumOwners, bytes : 0..Budget]]
      /\ lease'[l].phase = "discharged"
      /\ lease'[l].owner = lease[l].owner
      /\ lease'[l].bytes = b
      /\ \A x \in LeaseIds : x # l => lease'[x] = lease[x]
  BY <1>1, <1>2 DEF TypeOK, Phases
<1>4. b \in Nat /\ reserved \in 0..Budget /\ reserved \in Nat
  BY <1>1 DEF TypeOK
<1>5. Charge[l] = b
  BY <1>2 DEF Charge
<1> HIDE DEF b
<1>6. /\ b <= reserved
      /\ Charge \in [1..MaxLeases -> Nat]
      /\ Contract!SumsTo(Charge, MaxLeases, reserved)
  <2>1. Charge \in [1..MaxLeases -> Nat] /\ Contract!SumsTo(Charge, MaxLeases, reserved)
    BY <1>1, LedgerTypes DEF LedgerExact
  <2> QED BY <1>2, <1>4, <1>5, <2>1, EntryWithinSum
<1>7. reserved' = reserved - b /\ reserved' \in 0..Budget /\ reserved' <= reserved
  BY <1>2, <1>4, <1>6 DEF SatSub
<1>8. TypeOK'
  <2>1. ASSUME NEW x \in LeaseIds, lease'[x].phase # "free"
        PROVE  lease'[x].owner \in Owners /\ lease'[x].bytes > 0
    BY <1>1, <1>2, <1>3, <2>1 DEF TypeOK, b
  <2>2. holder' \in 0..MaxLeases
    BY <1>2
  <2> QED BY <1>1, <1>2, <1>3, <1>7, <2>1, <2>2 DEF TypeOK
<1>9. OneAdmission'
  <2>1. SUFFICES ASSUME NEW x \in LeaseIds
        PROVE  lease'[x].phase \in {"admitted", "credited", "discharged"} <=> holder' = x
    BY DEF OneAdmission
  <2>2. CASE x = l
    BY <1>2, <1>3, <2>2
  <2>3. CASE x # l
    <3>1. lease'[x] = lease[x] /\ holder # x
      BY <1>2, <1>3, <2>3 DEF Nobody, LeaseIds
    <3> QED BY <1>1, <1>2, <2>3, <3>1 DEF OneAdmission
  <2> QED BY <2>2, <2>3
<1>10. LedgerExact'
  <2>1. Charge' = [Charge EXCEPT ![l] = 0]
    BY <1>2, <1>3 DEF Charge
  <2>2. Contract!SumsTo([Charge EXCEPT ![l] = 0], MaxLeases, reserved - Charge[l] + 0)
    BY <1>2, <1>4, <1>6, ReplaceEntry
  <2>3. reserved - Charge[l] + 0 = reserved'
    BY <1>4, <1>5, <1>7
  <2> QED BY <2>1, <2>2, <2>3 DEF LedgerExact
<1>11. OwnerLedgerExact'
  <2>1. \A x \in Owners : OwnerCharge(x)' = OwnerCharge(x)
    BY <1>2, <1>3 DEF OwnerCharge, b
  <2> QED BY <1>1, <1>2, <2>1 DEF OwnerLedgerExact
<1>12. TableTotal'
  <2>1. Tabulated = reserved /\ Tabulated' = reserved' + b
    BY <1>2, <1>3 DEF Tabulated
  <2>2. Tabulated' = Tabulated
    BY <1>4, <1>7, <2>1
  <2> QED BY <1>1, <1>2, <2>2 DEF TableTotal
<1>13. PeakCovers'
  <2>1. reserved <= peak /\ peak \in Nat
    BY <1>1, <1>2 DEF PeakCovers, TypeOK
  <2> QED BY <1>2, <1>4, <1>7, <2>1 DEF PeakCovers
<1>14. SnapsCovered'
  BY <1>1, <1>2, SnapsStayCovered DEF TypeOK
<1> QED BY <1>8, <1>9, <1>10, <1>11, <1>12, <1>13, <1>14 DEF IInv

LEMMA DebitOwnerInv ==
  ASSUME IInv, NEW l \in LeaseIds, DebitOwner(l)
  PROVE  IInv'
<1> DEFINE o == lease[l].owner
<1> DEFINE b == lease[l].bytes
<1>1. /\ TypeOK /\ OneAdmission /\ LedgerExact /\ OwnerLedgerExact
      /\ TableTotal /\ PeakCovers /\ SnapsCovered
  BY DEF IInv
<1>2. /\ lease[l].phase = "discharged" /\ l \in 1..MaxLeases
      /\ lease' = [lease EXCEPT ![l] = NoLease]
      /\ byOwner' = [byOwner EXCEPT ![o] = SatSub(@, b)]
      /\ holder' = Nobody
      /\ UNCHANGED <<reserved, peak, snap>>
  BY DEF DebitOwner, LeaseIds
<1>3. /\ holder = l /\ l # Nobody
      /\ o \in Owners /\ b \in Nat
      /\ reserved \in 0..Budget /\ byOwner \in [Owners -> 0..Budget]
  BY <1>1, <1>2 DEF OneAdmission, TypeOK, LeaseIds, Nobody
<1>4. /\ lease' \in [LeaseIds -> [phase : Phases, owner : 0..NumOwners, bytes : 0..Budget]]
      /\ lease'[l] = NoLease
      /\ \A x \in LeaseIds : x # l => lease'[x] = lease[x]
  BY <1>1, <1>2 DEF TypeOK, Phases, NoLease
<1> HIDE DEF o, b
<1>5. Tabulated = reserved + b /\ Tabulated' = reserved
  BY <1>2, <1>3 DEF Tabulated, b
<1>6. Contract!SumsTo(byOwner, NumOwners, reserved + b)
  BY <1>1, <1>5 DEF TableTotal
<1>7. /\ byOwner \in [1..NumOwners -> Nat] /\ o \in 1..NumOwners
      /\ byOwner[o] \in Nat /\ reserved \in Nat /\ reserved + b \in Nat
      /\ byOwner[o] \in 0..Budget
  BY <1>1, <1>3, LedgerTypes DEF Owners
<1>8. /\ Contract!SumsTo(OwnerCharge(o), MaxLeases, byOwner[o])
      /\ OwnerCharge(o) \in [1..MaxLeases -> Nat]
      /\ OwnerCharge(o)[l] = b
  <2>1. OwnerCharge(o)[l] = b
    BY <1>2 DEF OwnerCharge, o, b
  <2>2. OwnerCharge(o) \in [1..MaxLeases -> Nat]
    BY <1>1, <1>3, LedgerTypes
  <2> QED BY <1>1, <1>3, <2>1, <2>2 DEF OwnerLedgerExact
<1>9. b <= byOwner[o]
  BY <1>2, <1>7, <1>8, EntryWithinSum
<1>10. byOwner[o] - b \in 0..Budget /\ byOwner[o] - b \in Nat
  BY <1>3, <1>7, <1>9
<1>11. byOwner' = [byOwner EXCEPT ![o] = byOwner[o] - b]
  <2>1. SatSub(byOwner[o], b) = byOwner[o] - b
    BY <1>3, <1>7, <1>9 DEF SatSub
  <2> QED BY <1>2, <2>1
<1>12. TypeOK'
  <2>1. byOwner' \in [Owners -> 0..Budget]
    BY <1>3, <1>10, <1>11
  <2>2. ASSUME NEW x \in LeaseIds, lease'[x].phase # "free"
        PROVE  lease'[x].owner \in Owners /\ lease'[x].bytes > 0
    BY <1>1, <1>4, <2>2 DEF TypeOK, NoLease
  <2>3. holder' \in 0..MaxLeases
    BY <1>2 DEF Nobody
  <2> QED BY <1>1, <1>2, <1>4, <2>1, <2>2, <2>3 DEF TypeOK
<1>13. OneAdmission'
  <2>1. SUFFICES ASSUME NEW x \in LeaseIds
        PROVE  lease'[x].phase \in {"admitted", "credited", "discharged"} <=> holder' = x
    BY DEF OneAdmission
  <2>2. holder' # x
    BY <1>2 DEF LeaseIds, Nobody
  <2>3. CASE x = l
    BY <1>4, <2>2, <2>3 DEF NoLease
  <2>4. CASE x # l
    BY <1>1, <1>3, <1>4, <2>2, <2>4 DEF OneAdmission
  <2> QED BY <2>3, <2>4
<1>14. LedgerExact'
  <2>1. Charge' = Charge
    <3>1. lease'[l].phase = "free"
      BY <1>4 DEF NoLease
    <3> QED BY <1>2, <1>4, <3>1 DEF Charge
  <2> QED BY <1>1, <1>2, <2>1 DEF LedgerExact
<1>15. OwnerLedgerExact'
  <2>1. SUFFICES ASSUME NEW x \in Owners
        PROVE  Contract!SumsTo(OwnerCharge(x)', MaxLeases, byOwner'[x])
    BY DEF OwnerLedgerExact
  <2>2. lease'[l].phase = "free"
    BY <1>4 DEF NoLease
  <2>3. CASE x # o
    <3>1. OwnerCharge(x)' = OwnerCharge(x)
      BY <1>2, <1>4, <2>2, <2>3 DEF OwnerCharge, o
    <3>2. byOwner'[x] = byOwner[x]
      BY <1>3, <1>11, <2>3
    <3> QED BY <1>1, <3>1, <3>2 DEF OwnerLedgerExact
  <2>4. CASE x = o
    <3>1. OwnerCharge(x)' = [OwnerCharge(x) EXCEPT ![l] = 0]
      BY <1>4, <2>2 DEF OwnerCharge
    <3>2. Contract!SumsTo([OwnerCharge(o) EXCEPT ![l] = 0], MaxLeases, byOwner[o] - OwnerCharge(o)[l] + 0)
      BY <1>2, <1>7, <1>8, ReplaceEntry
    <3>3. byOwner[o] - OwnerCharge(o)[l] + 0 = byOwner'[x]
      BY <1>3, <1>7, <1>8, <1>11, <2>4
    <3> QED BY <2>4, <3>1, <3>2, <3>3
  <2> QED BY <2>3, <2>4
<1>16. TableTotal'
  <2>1. Contract!SumsTo([byOwner EXCEPT ![o] = byOwner[o] - b], NumOwners,
               (reserved + b) - byOwner[o] + (byOwner[o] - b))
    BY <1>6, <1>7, <1>10, ReplaceEntry
  <2>2. (reserved + b) - byOwner[o] + (byOwner[o] - b) = reserved
    BY <1>3, <1>7
  <2> QED BY <1>2, <1>3, <1>5, <1>11, <2>1, <2>2 DEF TableTotal
<1>17. PeakCovers'
  BY <1>1, <1>2, <1>3 DEF PeakCovers
<1>18. SnapsCovered'
  BY <1>1, <1>2, SnapsStayCovered DEF TypeOK
<1> QED BY <1>12, <1>13, <1>14, <1>15, <1>16, <1>17, <1>18 DEF IInv

(* snapshot() changes nothing but the copy of the thread that takes it.    *)
LEMMA OnlySnapChanges ==
  ASSUME IInv, UNCHANGED <<lease, holder, reserved, byOwner, peak>>,
         snap' \in [Readers -> [step : SnapSteps, reserved : 0..Budget,
                                byOwner : [Owners -> 0..Budget], peak : 0..Budget]],
         SnapsCovered'
  PROVE  IInv'
<1>1. /\ TypeOK /\ OneAdmission /\ LedgerExact /\ OwnerLedgerExact
      /\ TableTotal /\ PeakCovers /\ SnapsCovered
  BY DEF IInv
<1>2. TypeOK'
  BY <1>1 DEF TypeOK
<1>3. OneAdmission'
  BY <1>1 DEF OneAdmission
<1>4. LedgerExact'
  BY <1>1 DEF LedgerExact, Charge
<1>5. OwnerLedgerExact'
  BY <1>1 DEF OwnerLedgerExact, OwnerCharge
<1>6. TableTotal'
  <2>1. Tabulated' = Tabulated
    BY DEF Tabulated
  <2> QED BY <1>1, <2>1 DEF TableTotal
<1>7. PeakCovers'
  BY <1>1 DEF PeakCovers
<1> QED BY <1>2, <1>3, <1>4, <1>5, <1>6, <1>7 DEF IInv

(* A reader's step keeps every copy covered when its own copy is.          *)
LEMMA OneSnapChanges ==
  ASSUME IInv, NEW r \in Readers, NEW copy, snap' = [snap EXCEPT ![r] = copy],
         UNCHANGED <<lease, holder, reserved, byOwner, peak>>,
         copy \in [step : SnapSteps, reserved : 0..Budget,
                   byOwner : [Owners -> 0..Budget], peak : 0..Budget],
         copy.step \in {"total", "owners"} => copy.reserved <= peak,
         copy.step = "done" => copy.reserved <= copy.peak,
         copy.step \in {"owners", "done"} =>
            \E used \in 0..Budget : Contract!SumsTo(copy.byOwner, NumOwners, used)
  PROVE  IInv'
<1>1. TypeOK /\ SnapsCovered
  BY DEF IInv
<1>2. snap' \in [Readers -> [step : SnapSteps, reserved : 0..Budget,
                            byOwner : [Owners -> 0..Budget], peak : 0..Budget]]
  BY <1>1 DEF TypeOK
<1>3. SnapsCovered'
  <2>1. SUFFICES ASSUME NEW q \in Readers
        PROVE  /\ snap'[q].step \in {"total", "owners"} => snap'[q].reserved <= peak
               /\ snap'[q].step = "done" => snap'[q].reserved <= snap'[q].peak
               /\ snap'[q].step \in {"owners", "done"} =>
                     \E used \in 0..Budget : Contract!SumsTo(snap'[q].byOwner, NumOwners, used)
    BY DEF SnapsCovered
  <2>2. CASE q = r
    <3>1. snap'[q] = copy
      BY <1>1, <2>2 DEF TypeOK
    <3> QED BY <3>1
  <2>3. CASE q # r
    <3>1. snap'[q] = snap[q]
      BY <1>1, <2>3 DEF TypeOK
    <3> QED BY <1>1, <3>1 DEF SnapsCovered
  <2> QED BY <2>2, <2>3
<1> QED BY <1>2, <1>3, OnlySnapChanges

LEMMA SnapshotInv ==
  ASSUME IInv, NEW r \in Readers, Snapshot(r)
  PROVE  IInv'
<1>1. TypeOK /\ TableTotal /\ PeakCovers /\ SnapsCovered
  BY DEF IInv
<1>2. /\ snap \in [Readers -> [step : SnapSteps, reserved : 0..Budget,
                              byOwner : [Owners -> 0..Budget], peak : 0..Budget]]
      /\ reserved \in 0..Budget /\ byOwner \in [Owners -> 0..Budget] /\ peak \in 0..Budget
  BY <1>1 DEF TypeOK
<1>3. CASE SnapTotal(r)
  <2> DEFINE copy == [snap[r] EXCEPT !.step = "total", !.reserved = reserved]
  <2>1. /\ snap' = [snap EXCEPT ![r] = copy]
        /\ UNCHANGED <<lease, holder, reserved, byOwner, peak>>
    BY <1>2, <1>3 DEF SnapTotal
  <2>2. /\ copy \in [step : SnapSteps, reserved : 0..Budget,
                     byOwner : [Owners -> 0..Budget], peak : 0..Budget]
        /\ copy.step = "total" /\ copy.reserved = reserved
    BY <1>2 DEF SnapSteps
  <2>3. reserved <= peak
    BY <1>1, <1>3 DEF SnapTotal, PeakCovers
  <2> HIDE DEF copy
  <2> QED BY <2>1, <2>2, <2>3, OneSnapChanges
<1>4. CASE SnapOwners(r)
  <2> DEFINE copy == [snap[r] EXCEPT !.step = "owners", !.byOwner = byOwner]
  <2>1. /\ snap' = [snap EXCEPT ![r] = copy]
        /\ UNCHANGED <<lease, holder, reserved, byOwner, peak>>
    BY <1>2, <1>4 DEF SnapOwners
  <2>2. /\ copy \in [step : SnapSteps, reserved : 0..Budget,
                     byOwner : [Owners -> 0..Budget], peak : 0..Budget]
        /\ copy.step = "owners" /\ copy.reserved = snap[r].reserved
        /\ copy.byOwner = byOwner
    BY <1>2 DEF SnapSteps
  <2>3. snap[r].reserved <= peak
    BY <1>1, <1>4 DEF SnapOwners, SnapsCovered
  <2>4. \E used \in 0..Budget : Contract!SumsTo(byOwner, NumOwners, used)
    BY <1>1 DEF TableTotal
  <2> HIDE DEF copy
  <2> QED BY <2>1, <2>2, <2>3, <2>4, OneSnapChanges
<1>5. CASE SnapPeak(r)
  <2> DEFINE copy == [snap[r] EXCEPT !.step = "done", !.peak = peak]
  <2>1. /\ snap' = [snap EXCEPT ![r] = copy]
        /\ UNCHANGED <<lease, holder, reserved, byOwner, peak>>
    BY <1>2, <1>5 DEF SnapPeak
  <2>2. /\ copy \in [step : SnapSteps, reserved : 0..Budget,
                     byOwner : [Owners -> 0..Budget], peak : 0..Budget]
        /\ copy.step = "done" /\ copy.reserved = snap[r].reserved
        /\ copy.byOwner = snap[r].byOwner /\ copy.peak = peak
    BY <1>2 DEF SnapSteps
  <2>3. /\ snap[r].reserved <= peak
        /\ \E used \in 0..Budget : Contract!SumsTo(snap[r].byOwner, NumOwners, used)
    BY <1>1, <1>5 DEF SnapPeak, SnapsCovered
  <2> HIDE DEF copy
  <2> QED BY <2>1, <2>2, <2>3, OneSnapChanges
<1>6. CASE SnapForget(r)
  <2>1. /\ snap' = [snap EXCEPT ![r] = NoSnap]
        /\ UNCHANGED <<lease, holder, reserved, byOwner, peak>>
    BY <1>6 DEF SnapForget
  <2>2. /\ NoSnap \in [step : SnapSteps, reserved : 0..Budget,
                       byOwner : [Owners -> 0..Budget], peak : 0..Budget]
        /\ NoSnap.step = "idle"
    BY DEF NoSnap, SnapSteps
  <2> QED BY <2>1, <2>2, OneSnapChanges
<1> QED BY <1>3, <1>4, <1>5, <1>6 DEF Snapshot

LEMMA StutterInv ==
  ASSUME IInv, UNCHANGED vars
  PROVE  IInv'
<1>1. TypeOK /\ SnapsCovered
  BY DEF IInv
<1>2. SnapsCovered'
  BY <1>1 DEF SnapsCovered, vars
<1>3. /\ UNCHANGED <<lease, holder, reserved, byOwner, peak>>
      /\ snap' \in [Readers -> [step : SnapSteps, reserved : 0..Budget,
                                byOwner : [Owners -> 0..Budget], peak : 0..Budget]]
  BY <1>1 DEF TypeOK, vars
<1> QED BY <1>2, <1>3, OnlySnapChanges

LEMMA NextInv ==
  ASSUME IInv, [Next]_vars
  PROVE  IInv'
<1>1. CASE UNCHANGED vars
  BY <1>1, StutterInv
<1>2. ASSUME NEW l \in LeaseIds, Reserve(l) PROVE IInv'
  BY <1>2, AdmitInv DEF Reserve
<1>3. ASSUME NEW l \in LeaseIds, Settle(l) PROVE IInv'
  BY <1>3, CreditOwnerInv, RaisePeakInv, DebitOwnerInv DEF Settle
<1>4. ASSUME NEW l \in LeaseIds, Discharge(l) PROVE IInv'
  BY <1>4, DischargeInv
<1>5. ASSUME NEW r \in Readers, Snapshot(r) PROVE IInv'
  BY <1>5, SnapshotInv
<1> QED BY <1>1, <1>2, <1>3, <1>4, <1>5 DEF Next

(* The strengthened invariant holds in every reachable state.              *)
THEOREM Inductive == Spec => []IInv
<1>1. IInv /\ [Next]_vars => IInv'
  BY NextInv
<1> QED BY <1>1, InitInv, PTL DEF Spec

(* reserve and Drop never leave a u64 outside the budget.                  *)
THEOREM TypeCorrect == Spec => []TypeOK
<1>1. IInv => TypeOK
  BY DEF IInv
<1> QED BY <1>1, Inductive, PTL

(* Only the thread that holds the admission lock is inside reserve or Drop. *)
THEOREM MutualExclusion == Spec => []OneAdmission
<1>1. IInv => OneAdmission
  BY DEF IInv
<1> QED BY <1>1, Inductive, PTL

(* "--memory is a hard contract": what the broker counts is what the live  *)
(* leases hold, always.                                                    *)
THEOREM HardContract == Spec => []LedgerExact
<1>1. IInv => LedgerExact
  BY DEF IInv
<1> QED BY <1>1, Inductive, PTL

(* Every owner's entry is what that owner's leases hold.                   *)
THEOREM OwnersExact == Spec => []OwnerLedgerExact
<1>1. IInv => OwnerLedgerExact
  BY DEF IInv
<1> QED BY <1>1, Inductive, PTL

(* With the lock free, the breakdown adds up to the total and the peak     *)
(* covers it.                                                              *)
THEOREM Agreement == Spec => []QuiescentAgreement
<1>1. IInv => QuiescentAgreement
  BY DEF IInv, TableTotal, PeakCovers, Tabulated, QuiescentAgreement
<1> QED BY <1>1, Inductive, PTL

(* A snapshot that straddles other threads' steps is still within bounds.  *)
THEOREM SnapshotsSound == Spec => []SnapshotSound
<1>1. IInv => SnapshotSound
  BY DEF IInv, SnapsCovered, SnapshotSound, TypeOK
<1> QED BY <1>1, Inductive, PTL
-----------------------------------------------------------------------------
(* Each step of the broker is a step of the contract or leaves what it     *)
(* grants alone.                                                           *)
LEMMA StepRefines ==
  ASSUME IInv, [Next]_vars
  PROVE  [Contract!Next]_Charge
<1>1. /\ TypeOK /\ LedgerExact
      /\ lease \in [LeaseIds -> [phase : Phases, owner : 0..NumOwners, bytes : 0..Budget]]
      /\ reserved \in 0..Budget
  BY DEF IInv, TypeOK
<1>2. ASSUME NEW l \in LeaseIds, NEW o \in Owners, NEW bytes \in 1..MaxRequest,
             Admit(l, o, bytes)
      PROVE  Contract!Next
  <2>1. Charge[l] = 0 /\ l \in 1..MaxLeases
    BY <1>2 DEF Admit, Charge, LeaseIds
  <2>2. Charge' = [Charge EXCEPT ![l] = bytes]
    BY <1>1, <1>2 DEF Admit, Charge
  <2>3. bytes \in 1..Budget /\ reserved + bytes <= Budget
    BY <1>1, <1>2 DEF Admit, SatSub
  <2>4. \E used \in 0..Budget : Contract!SumsTo(Charge, MaxLeases, used) /\ used + bytes <= Budget
    BY <1>1, <2>3 DEF LedgerExact
  <2>5. Contract!Grant(l, bytes)
    BY <2>1, <2>2, <2>4 DEF Contract!Grant
  <2> QED BY <2>1, <2>3, <2>5 DEF Contract!Next, Contract!Grants
<1>3. ASSUME NEW l \in LeaseIds, Discharge(l)
      PROVE  Contract!Next
  <2>1. Charge[l] > 0 /\ l \in 1..MaxLeases
    BY <1>1, <1>3 DEF Discharge, Charge, LeaseIds, TypeOK
  <2>2. Charge' = [Charge EXCEPT ![l] = 0]
    BY <1>1, <1>3 DEF Discharge, Charge
  <2>3. Contract!Release(l)
    BY <2>1, <2>2 DEF Contract!Release
  <2> QED BY <2>1, <2>3 DEF Contract!Next, Contract!Grants
<1>4. ASSUME NEW l \in LeaseIds, Settle(l)
      PROVE  UNCHANGED Charge
  <2>1. CASE CreditOwner(l)
    BY <1>1, <2>1 DEF CreditOwner, Charge
  <2>2. CASE RaisePeak(l)
    BY <1>1, <2>2 DEF RaisePeak, Charge
  <2>3. CASE DebitOwner(l)
    BY <1>1, <2>3 DEF DebitOwner, Charge, NoLease
  <2> QED BY <1>4, <2>1, <2>2, <2>3 DEF Settle
<1>5. ASSUME NEW r \in Readers, Snapshot(r)
      PROVE  UNCHANGED Charge
  BY <1>5 DEF Snapshot, SnapTotal, SnapOwners, SnapPeak, SnapForget, Charge
<1>6. CASE UNCHANGED vars
  BY <1>6 DEF vars, Charge
<1> QED BY <1>2, <1>3, <1>4, <1>5, <1>6 DEF Next, Reserve

(* The broker, with its locks, table and peak, implements the contract.    *)
THEOREM Implements == Spec => ImplementsBudget
<1>1. Init => Contract!Init
  BY DEF Init, Contract!Init, Contract!Grants, Charge, LeaseIds, NoLease
<1>2. IInv /\ [Next]_vars => [Contract!Next]_Charge
  BY StepRefines
<1> QED BY <1>1, <1>2, Inductive, PTL DEF Spec, ImplementsBudget, Contract!Spec
=============================================================================
