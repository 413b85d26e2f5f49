------------------------------ MODULE BatchTree ------------------------------
(* The commitment to a batch's transactions, crates/sena-stf/src/batch.rs: *)
(* a Merkle tree over the transactions and where each one's steps start,   *)
(* padded to a power of two.  A hash is the term that is hashed.           *)
EXTENDS Integers, SequencesExt

CONSTANTS
  Txs,        \* transactions
  StepsOf,    \* transaction -> how many steps it compiles to
  MaxBatch    \* bound: transactions in a batch

VARIABLE batch    \* the transactions sealed so far, in order

PADDING == <<>>
leaf_hash(index, start_pc, tx) == <<"batch-leaf", index, start_pc, tx>>
node_hash(left, right) == <<"batch-node", left, right>>

start_of(txs, i) == FoldLeft(LAMBDA n, tx : n + StepsOf[tx], 0, SubSeq(txs, 1, i - 1))
leaf_of(txs, i) == leaf_hash(i - 1, start_of(txs, i), txs[i])

Widths == {1, 2, 4, 8}
width(n) == CHOOSE w \in Widths : w >= n /\ \A v \in Widths : v >= n => w <= v

base_level(txs) ==
  [i \in 1..width(Len(txs)) |-> IF i <= Len(txs) THEN leaf_of(txs, i) ELSE PADDING]

next_level(level) == [i \in 1..(Len(level) \div 2) |-> node_hash(level[2 * i - 1], level[2 * i])]

RECURSIVE levels_over(_)
levels_over(level) ==
  IF Len(level) = 1 THEN <<level>> ELSE <<level>> \o levels_over(next_level(level))

build(txs) == levels_over(base_level(txs))

tx_root(txs) == Last(build(txs))[1]

(* Positions count from zero, as in the code.                              *)
neighbour(i) == IF i % 2 = 0 THEN i + 1 ELSE i - 1

prove_leaf_slip(txs, index) ==
  LET levels == build(txs)
  IN  [n \in 1..(Len(levels) - 1) |-> levels[n][index \div 2 ^ (n - 1) + 1]]

prove_leaf(txs, index) ==
  LET levels == build(txs)
  IN  [n \in 1..(Len(levels) - 1) |-> levels[n][neighbour(index \div 2 ^ (n - 1)) + 1]]

root_for(index, siblings, leaf) ==
  LET climb[n \in 0..Len(siblings)] ==
        IF n = 0 THEN leaf
        ELSE IF (index \div 2 ^ (n - 1)) % 2 = 0
        THEN node_hash(climb[n - 1], siblings[n])
        ELSE node_hash(siblings[n], climb[n - 1])
  IN  climb[Len(siblings)]
-----------------------------------------------------------------------------
BatchInit == batch = <<>>

BatchNext ==
  /\ Len(batch) < MaxBatch
  /\ \E tx \in Txs : batch' = Append(batch, tx)

Batches == BoundedSeq(Txs, MaxBatch)

(* A leaf proof opens the commitment to exactly its leaf: the path built   *)
(* for each transaction leads to the root the assertion commits to, and no *)
(* path of another batch does unless that batch has the same transaction   *)
(* at the same place with the same start, so L1 compiles the transaction   *)
(* and the step the sequencer executed.  An empty batch is never sealed.   *)
LeavesOpen ==
  batch # <<>> =>
    /\ \A i \in DOMAIN batch :
         root_for(i - 1, prove_leaf(batch, i - 1), leaf_of(batch, i)) = tx_root(batch)
    /\ \A root \in {tx_root(batch)} : \A other \in Batches : \A i \in DOMAIN other :
         root_for(i - 1, prove_leaf(other, i - 1), leaf_of(other, i)) = root =>
           i \in DOMAIN batch /\ leaf_of(batch, i) = leaf_of(other, i)
=============================================================================
