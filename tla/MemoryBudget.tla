---------------------------- MODULE MemoryBudget ----------------------------
(***************************************************************************)
(* The contract of `--memory` as a caller sees it: storage may be granted  *)
(* only while everything granted fits in the budget, and a grant lasts     *)
(* until its holder gives it back.  No locks, no per-owner table, no peak. *)
(* MemoryBroker.tla is shown to implement this specification.              *)
(***************************************************************************)
EXTENDS Naturals

CONSTANTS MaxLeases, Budget

VARIABLE granted   \* bytes granted to each lease, 0 when it holds nothing

Grants == 1..MaxLeases

-----------------------------------------------------------------------------
(* What it means for a table of amounts to add up to a total: there is a   *)
(* running total that starts at 0, grows by one entry at a time and ends   *)
(* at the total.  Stated as the existence of the running total, and not as *)
(* a fold, so that facts about it are first-order and can be proved.       *)
RunningTotal(run, amount, n, total) ==
  /\ run[0] = 0
  /\ run[n] = total
  /\ \A i \in 1..n : run[i] = run[i - 1] + amount[i]

SumsTo(amount, n, total) ==
  \E run \in [0..n -> 0..total] : RunningTotal(run, amount, n, total)
-----------------------------------------------------------------------------
Init == granted = [g \in Grants |-> 0]

(* Storage is granted at once, to a holder that had none, if it fits.      *)
Grant(g, bytes) ==
  /\ granted[g] = 0
  /\ \E used \in 0..Budget :
        SumsTo(granted, MaxLeases, used) /\ used + bytes <= Budget
  /\ granted' = [granted EXCEPT ![g] = bytes]

Release(g) ==
  /\ granted[g] > 0
  /\ granted' = [granted EXCEPT ![g] = 0]

Next == \E g \in Grants : Release(g) \/ \E bytes \in 1..Budget : Grant(g, bytes)

Spec == Init /\ [][Next]_granted
=============================================================================
