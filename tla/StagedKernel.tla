---------------------------- MODULE StagedKernel ----------------------------
(***************************************************************************)
(* tqf_q4k_gemv_staged16 of src/src/backend/metal/kernels.rs: the threads  *)
(* of one threadgroup multiply a strip of rows with a vector, block by     *)
(* block, through memory they share.                                       *)
(*                                                                         *)
(* Quantization has the layout of a block; here it has a scale and cells   *)
(* of two elements each, one element per thread.  Threads run in any       *)
(* order; only a barrier makes them wait for each other.                   *)
(***************************************************************************)
EXTENDS Integers

CONSTANTS
  LogThreads,   \* of the 2^LogThreads threads of a group (8 in the code)
  StripRows,    \* rows of a group (16 in the code)
  Rows, Blocks, \* of the matrix
  Weight(_, _, _), Input(_, _)  \* of row, block, cell; of block, element

Power[k \in 0..LogThreads] == IF k = 0 THEN 1 ELSE 2 * Power[k - 1]   \* 2^k
Count   == Power[LogThreads]
Threads == 0..(Count - 1)
Groups  == 0..((Rows + StripRows - 1) \div StripRows - 1)   \* the grid of the host
Cells   == 1 + (Count \div 2)                \* of a block: 144 bytes for 256 elements
MinOf(a, b) == IF a < b THEN a ELSE b

ASSUME KernelAssumption ==
  /\ LogThreads \in Nat \ {0} /\ StripRows \in Nat \ {0} /\ Rows \in Nat /\ Blocks \in Nat
  /\ \A row \in 0..(Rows - 1), b \in 0..(Blocks - 1), c \in 0..(Cells - 1) : Weight(row, b, c) \in Nat
  /\ \A b \in 0..(Blocks - 1), t \in Threads : Input(b, t) \in Int

VARIABLES group, arrived, staged, wStage, vStage, acc, sums, out

kernelVars == <<group, arrived, staged, wStage, vStage, acc, sums, out>>

RowBase  == group * StripRows
RowCount == MinOf(StripRows, Rows - RowBase)
Strip    == 0..(StripRows - 1)
Live     == 0..(RowCount - 1)

KernelInit ==
  /\ group \in Groups
  /\ arrived = [t \in Threads |-> 0] /\ staged = [t \in Threads |-> t]
  /\ wStage = [i \in 0..(StripRows * Cells - 1) |-> 0]    \* uninitialized in the code
  /\ vStage = [t \in Threads |-> 0]
  /\ acc = [t \in Threads |-> [r \in Strip |-> 0]]
  /\ sums = [t \in Threads |-> [r \in Strip |-> 0]]
  /\ out = [r \in Strip |-> 0]

(* The phases between barriers: stage and multiply each block, lay the     *)
(* partial sums out, halve their number, write.                            *)
Staging(p)     == p < 2 * Blocks /\ p % 2 = 0
Multiplying(p) == p < 2 * Blocks /\ p % 2 = 1
LayingOut(p)   == p = 2 * Blocks
Reducing(p)    == p > 2 * Blocks /\ p <= 2 * Blocks + LogThreads
Writing(p)     == p = 2 * Blocks + LogThreads + 1
Stride(p)      == Power[LogThreads - (p - 2 * Blocks)]

(* threadgroup_barrier: the next phase begins when all have done this one. *)
(* Mutant: no barrier behind the multiplication.                           *)
AllArrivedButMultiplying(t) ==
  ~Multiplying(arrived[t] - 1) => \A u \in Threads : arrived[u] >= arrived[t]
AllArrived(t) == \A u \in Threads : arrived[u] >= arrived[t]

Done(t) == arrived' = [arrived EXCEPT ![t] = @ + 1]

(* One cell of the strip, Count apart; with the last one the thread's      *)
(* cell of the vector.                                                     *)
Stage(t) ==
  /\ Staging(arrived[t]) /\ AllArrived(t)
  /\ LET b == arrived[t] \div 2
         i == staged[t]
         r == i \div Cells
     IN  IF i < StripRows * Cells
         THEN /\ wStage' = IF r < RowCount
                           THEN [wStage EXCEPT ![i] = Weight(RowBase + r, b, i % Cells)] ELSE wStage
              /\ staged' = [staged EXCEPT ![t] = i + Count]
              /\ UNCHANGED <<vStage, arrived>>
         ELSE /\ vStage' = [vStage EXCEPT ![t] = Input(b, t)]
              /\ staged' = [staged EXCEPT ![t] = t]
              /\ Done(t) /\ UNCHANGED wStage
  /\ UNCHANGED <<group, acc, sums, out>>

(* The element of thread t: its half of a cell, times the scale.           *)
Element(t, cells) ==
  LET cell == cells[1 + (t % (Count \div 2))]
  IN  cells[0] * (IF t < Count \div 2 THEN cell % 16 ELSE cell \div 16)

Multiply(t) ==
  /\ Multiplying(arrived[t]) /\ AllArrived(t) /\ Done(t)
  /\ acc' = [acc EXCEPT ![t] = [r \in Strip |->
       IF r \in Live THEN @[r] + vStage[t] * Element(t, [c \in 0..Cells - 1 |-> wStage[r * Cells + c]]) ELSE @[r]]]
  /\ UNCHANGED <<group, staged, wStage, vStage, sums, out>>

LayOut(t) ==
  /\ LayingOut(arrived[t]) /\ AllArrived(t) /\ Done(t)
  /\ sums' = [sums EXCEPT ![t] = [r \in Strip |-> IF r \in Live THEN acc[t][r] ELSE @[r]]]
  /\ UNCHANGED <<group, staged, wStage, vStage, acc, out>>

Reduce(t) ==
  /\ Reducing(arrived[t]) /\ AllArrived(t) /\ Done(t)
  /\ LET s == Stride(arrived[t]) IN
     sums' = IF t >= s THEN sums
             ELSE [sums EXCEPT ![t] = [r \in Strip |->
                     IF r \in Live THEN @[r] + sums[t + s][r] ELSE @[r]]]
  /\ UNCHANGED <<group, staged, wStage, vStage, acc, out>>

Write(t) ==
  /\ Writing(arrived[t]) /\ AllArrived(t) /\ Done(t)
  /\ out' = IF t # 0 THEN out ELSE [r \in Strip |-> IF r \in Live THEN sums[0][r] ELSE out[r]]
  /\ UNCHANGED <<group, staged, wStage, vStage, acc, sums>>

KernelNext == \E t \in Threads : Stage(t) \/ Multiply(t) \/ LayOut(t) \/ Reduce(t) \/ Write(t)

KernelSpec == KernelInit /\ [][KernelNext]_kernelVars

-----------------------------------------------------------------------------
(* f[0] and so on up to f[n - 1], added up.                                *)
Summed(f, n) ==
  LET upTo[k \in 0..n] == IF k = 0 THEN 0 ELSE upTo[k - 1] + f[k - 1]
  IN  upTo[n]

(* What thread t has to multiply of a row, block by block, and the row     *)
(* times the vector, whatever the order the threads ran in.                *)
Terms(row, t) ==
  [b \in 0..(Blocks - 1) |-> Input(b, t) * Element(t, [c \in 0..(Cells - 1) |-> Weight(row, b, c)])]
Product(row) == Summed([t \in Threads |-> Summed(Terms(row, t), Blocks)], Count)

(* When thread 0 has written, every row of the strip is its product with   *)
(* the vector: no interleaving of the threads mixes two blocks.            *)
EveryOrderMultiplies ==
  Writing(arrived[0] - 1) => \A r \in Live : out[r] = Product(RowBase + r)

(* The inductive invariant.  No thread is more than one phase ahead of     *)
(* another, and outside of a staging phase it begins with its own cell.    *)
KernelTypeOK ==
  /\ group \in Groups
  /\ arrived \in [Threads -> 0..(2 * Blocks + LogThreads + 2)]
  /\ staged \in [Threads -> Nat]
  /\ wStage \in [0..(StripRows * Cells - 1) -> Nat] /\ vStage \in [Threads -> Int]
  /\ acc \in [Threads -> [Strip -> Int]] /\ sums \in [Threads -> [Strip -> Int]]
  /\ out \in [Strip -> Int]

InStep ==
  /\ \A t, u \in Threads : arrived[t] <= arrived[u] + 1
  /\ \A t \in Threads : /\ staged[t] % Count = t
                        /\ ~Staging(arrived[t]) => staged[t] = t

(* A thread's cells of the strip, before one of them, are those of block b.*)
Holds(cells, t, b, before) ==
  \A i \in 0..(StripRows * Cells - 1) :
    i % Count = t /\ i < before /\ i \div Cells < RowCount =>
      cells[i] = Weight(RowBase + i \div Cells, b, i % Cells)

(* While a thread has a block to multiply, its cells and those of every    *)
(* thread that is as far hold that block; one that stages has staged the   *)
(* cells before its next.                                                  *)
BlockIsStaged ==
  /\ \A t \in Threads : Staging(arrived[t]) => Holds(wStage, t, arrived[t] \div 2, staged[t])
  /\ \A t \in Threads : Multiplying(arrived[t]) =>
       /\ vStage[t] = Input(arrived[t] \div 2, t)
       /\ \A u \in Threads :
            arrived[u] >= arrived[t] => Holds(wStage, u, arrived[t] \div 2, StripRows * Cells)

(* Each thread has added up its terms of the blocks that it is past.       *)
BlocksAreAdded ==
  \A t \in Threads : \A r \in Live :
    acc[t][r] = Summed(Terms(RowBase + r, t), MinOf(arrived[t] \div 2, Blocks))

(* n numbers, k times folded at the half of what was left of them.         *)
Folded(f, k) ==
  LET fold[j \in 0..k] ==
        IF j = 0 THEN f
        ELSE LET s == Power[LogThreads - j]
             IN  [t \in Threads |-> IF t < s THEN fold[j - 1][t] + fold[j - 1][t + s]
                                    ELSE fold[j - 1][t]]
  IN  fold[k]

FoldedRow(row, k) == Folded([t \in Threads |-> Summed(Terms(row, t), Blocks)], k)

SumsAreFolded ==
  \A t \in Threads : \A r \in Live : arrived[t] > 2 * Blocks =>
    sums[t][r] = FoldedRow(RowBase + r, MinOf(arrived[t] - 2 * Blocks - 1, LogThreads))[t]

RowsAreWritten ==
  Writing(arrived[0] - 1) => \A r \in Live : out[r] = FoldedRow(RowBase + r, LogThreads)[0]

KernelIInv ==
  /\ KernelTypeOK /\ InStep /\ BlockIsStaged /\ BlocksAreAdded /\ SumsAreFolded /\ RowsAreWritten
=============================================================================
