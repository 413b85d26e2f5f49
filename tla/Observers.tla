------------------------------ MODULE Observers ------------------------------
(***************************************************************************)
(* What others see of a node: the answers of its RPC that read the         *)
(* sequencer (rpc.rs), the batch data it publishes (da.rs), and the        *)
(* verifier that re-executes what is published (verifier_node.rs and       *)
(* check_assertion of crates/sena-fraudproof/src/verifier.rs).  None of    *)
(* them changes the node; they are the terms its properties are stated in. *)
(***************************************************************************)
EXTENDS Node

sealed_at(tx) == {h \in DOMAIN blocks : tx \in Range(blocks[h].transactions)}

(* The first block with the transaction decides.                           *)
confirmation(tx) ==
  IF sealed_at(tx) = {} THEN [status |-> "pending"]
  ELSE LET height == Min(sealed_at(tx))
       IN  [status |-> IF is_final(chain, assertions, height)
                       THEN "finalized" ELSE "soft_confirmed",
            height |-> height]

concerns(tx, address) ==
  \/ tx.sender = address
  \/ tx.payload.kind = "Transfer" /\ tx.payload.to = address

(* The transactions of the blocks, oldest first.                           *)
with_block(acc, block) == acc \o block.transactions

transactions_in(bs) == fold(with_block, <<>>, bs)

newest_first(seq) == [i \in DOMAIN seq |-> seq[Len(seq) + 1 - i]]

history(seq, address) ==
  newest_first(only(seq, {tx \in Range(seq) : concerns(tx, address)}))

(* Newest first, queued ones included.                                     *)
account_transactions(address) ==
  LET queued == history(mempool.queued, address)
      done == history(transactions_in(blocks), address)
  IN  [i \in DOMAIN queued |-> [tx |-> queued[i], confirmation |-> [status |-> "pending"]]]
      \o [i \in DOMAIN done |-> [tx |-> done[i], confirmation |-> confirmation(done[i])]]

fee_paid(tx, block) ==
  LET charge == fee_charge(tx, context(block)) IN charge.tip + charge.base

(* The quote for the next batch in a fee asset; None if it is not one.     *)
gas_price(asset) ==
  LET record == get(state, asset_slot(asset))
      base_fee == batch_context(next_timestamp).base_fee
  IN  IF record # None /\ record[1].enabled /\ can_native_to_asset(base_fee, record[1].rate)
      THEN LET per_gas == native_to_asset(base_fee, record[1].rate)
           IN  Some([base_fee_per_gas |-> per_gas,
                     suggested_max_fee_per_gas |-> smaller(2 * per_gas, U128_MAX)])
      ELSE None
-----------------------------------------------------------------------------
(* Published batch data.                                                   *)
from_block(block) ==
  LET trace == trace_of(block)
  IN  [block |-> block, tx_starts |-> trace.tx_starts,
       batch_commitment |-> batch_commitment(block, trace.tx_starts)]

verify_integrity(blob) ==
  /\ Len(blob.tx_starts) = Len(blob.block.transactions)
  /\ batch_commitment(blob.block, blob.tx_starts) = blob.batch_commitment

verify_execution(blob, starting_state) ==
  /\ verify_integrity(blob)
  /\ starting_state = blob.block.pre_state_root
  /\ LET trace == trace_of(blob.block)
     IN  /\ trace.err = "none"
         /\ trace.tx_starts = blob.tx_starts
         /\ final_state(trace) = blob.block.post_state_root
-----------------------------------------------------------------------------
(* A verifier re-executes each block on its own replica.                   *)
check_assertion(assertion, trace) ==
  CASE assertion.post_state_root # final_state(trace) -> "RootDiverges"
    [] assertion.trace_length # trace_length(trace)   -> "TraceLengthDiverges"
    [] OTHER                                          -> "Agrees"

checked(replica, assertion, trace) ==
  CASE trace.err # "none" -> [replica EXCEPT !.outcome = "Unexecutable"]
    [] trace.err = "none" /\ check_assertion(assertion, trace) # "Agrees" ->
         [replica EXCEPT !.outcome = "Divergent"]
    [] OTHER -> [state |-> final_state(trace), outcome |-> "Accepted"]

follow(replica, block, assertion) ==
  with(execute_batch(replica.state, context(block), block.transactions), LAMBDA trace :
    checked(replica, assertion, trace))

new_verifier == [state |-> build_state, outcome |-> "Accepted"]

(* The verifier stops at the first block it does not accept.               *)
follow_next(replica, height) ==
  IF replica.outcome # "Accepted" THEN replica
  ELSE follow(replica, blocks[height], assertions[height])

follow_all(heights) == fold(follow_next, new_verifier, heights)

following == follow_all([h \in DOMAIN blocks |-> h])
-----------------------------------------------------------------------------
(* Properties.                                                             *)
Sealed == transactions_in(blocks)

Accounts == {k \in DOMAIN state : k[1] = "account"}
Assets == UNION {DOMAIN state[k].balances : k \in Accounts}

Burned(tx, asset) ==
  IF tx.payload.kind # "DistributeFees" \/ tx.payload.asset # asset THEN 0
  ELSE tx.payload.amount - fold(LAMBDA n, s : n + s.value, 0,
                                shares_of(tx.payload.split, tx.payload.amount))

Distributed(tx, asset) ==
  IF tx.payload.kind # "DistributeFees" \/ tx.payload.asset # asset THEN 0
  ELSE tx.payload.amount

Sum(f(_), seq) == fold(LAMBDA n, x : n + f(x), 0, seq)

Paid(block, asset) ==
  Sum(LAMBDA tx : IF tx.fee_asset = asset THEN fee_paid(tx, block) ELSE 0,
      block.transactions)

Tips(block, asset) ==
  Sum(LAMBDA tx : IF tx.fee_asset = asset THEN fee_charge(tx, context(block)).tip ELSE 0,
      block.transactions)

BalanceOf(address, asset) == balance(decode_account(get(state, account(address))), asset)

(* No step mints or loses value: what all accounts hold, plus what fee     *)
(* distributions burned, is what genesis allocated.  A fee is held in one  *)
(* step and returned in up to three with rounding at each (gas.rs settle), *)
(* a block may be dropped half way (sequencer.rs produce), and a restart   *)
(* replays every block.  Nor does a fee end in the wrong place: the fee    *)
(* recipient holds exactly the tips and the vault exactly the rest of what *)
(* senders are told they paid (rpc.rs), less what was distributed.         *)
ValueConserved ==
  \A asset \in Assets :
    LET held == MapThenSumSet(LAMBDA k : balance(state[k], asset), Accounts)
        collected == BalanceOf(FEE_VAULT, asset)
                       + Sum(LAMBDA tx : Distributed(tx, asset), Sealed)
        tips == BalanceOf(fee_recipient, asset)
    IN  /\ held + Sum(LAMBDA tx : Burned(tx, asset), Sealed)
             = Sum(LAMBDA a : IF a.asset = asset THEN a.amount ELSE 0, genesis.allocations)
        /\ tips = Sum(LAMBDA b : Tips(b, asset), blocks)
        /\ tips + collected = Sum(LAMBDA b : Paid(b, asset), blocks)

(* No authorisation is used twice: a sender's nonce counts its sealed      *)
(* transactions, the council's epoch the sealed governance changes, and no *)
(* transaction is listed twice in its sender's history, queued or sealed,  *)
(* whatever was dropped, crashed and offered again.                        *)
AuthorisationsUsedOnce ==
  /\ \A sender \in {tx.sender : tx \in Offered} :
       \A listed \in {account_transactions(sender)} :
         \A i, j \in DOMAIN listed : listed[i].tx = listed[j].tx => i = j
  /\ \A tx \in Offered :
       decode_account(get(state, account(tx.sender))).nonce
         = Len(only(Sealed, {t \in Range(Sealed) : t.sender = tx.sender}))
  /\ genesis.council # None =>
       state[council_slot].epoch
         = Len(only(Sealed, {t \in Range(Sealed) : t.payload.kind = "Governance"}))

(* The mempool's indexes describe its queue after any mix of submissions,  *)
(* rebuilds and batches taken: `hashes` and `claimed` are those of the     *)
(* queue, and no sender claims a nonce twice.                              *)
PoolIndexed ==
  /\ mempool.hashes = Range(mempool.queued)
  /\ mempool.claimed = claims_of(mempool.queued)
  /\ \A i, j \in DOMAIN mempool.queued :
       /\ mempool.queued[i].sender = mempool.queued[j].sender
       /\ mempool.queued[i].nonce = mempool.queued[j].nonce
       => i = j

MovesMarket(tx) ==
  tx.payload.kind = "Governance" /\ tx.payload.update.op = "SetFeeMarket"

(* "A prefix of the queue still executes" (mempool.rs), as far as that is  *)
(* so: what admission accepts on the current state can be sealed at once,  *)
(* if the batch opens a new fee window and does not change the fee market. *)
(* Admission runs each transaction ahead of time, with the market put back *)
(* before it; sealing runs them in one window, with its budgets.           *)
AdmittedSeals ==
  mode = "up" /\ next_timestamp # fee_market.window_ts =>
    \A pool \in {rebuilt(mempool, state,
                   batch_context(next_timestamp + ADMISSION_EXPIRY_MARGIN_SECS))} :
    \A taken \in {take_from(pool).taken} :
      (\A tx \in Range(taken) : ~MovesMarket(tx)) =>
        execute_batch(state, batch_context(next_timestamp), taken).err = "none"

(* A verifier that starts from genesis and re-executes the published       *)
(* blocks accepts each of them and reaches the node's state; the batch     *)
(* data of each block passes its own checks; and a complete save resumes   *)
(* to exactly the same blocks, assertions, head and state.  This is so     *)
(* whatever was dropped from blocks, and after restarts from older saves.  *)
ReplayAgrees ==
  mode = "up" =>
    /\ following = [state |-> state, outcome |-> "Accepted"]
    /\ \A h \in DOMAIN blocks :
         verify_execution(from_block(blocks[h]),
                          IF h = 1 THEN build_state ELSE blocks[h - 1].post_state_root)
    /\ resume(chain, blocks)
         = [ok |-> TRUE, state |-> state, head |-> head,
            blocks |-> blocks, assertions |-> assertions]

(* A block once reported final is never lost or replaced: not by a crash   *)
(* at any point of a save, not by a restart from an older save, not by a   *)
(* clock that came back behind.                                            *)
FinalBlocksKept ==
  mode = "up" =>
    /\ Len(final_blocks) <= Len(blocks)
    /\ final_blocks = SubSeq(blocks, 1, Len(final_blocks))

(* Under the heaviest demand, after the coming window is full and the      *)
(* next one too, the base fee is still within the suggested maximum: a     *)
(* transaction built from a quote (rpc.rs gas_price) does not stop         *)
(* compiling while it waits for two windows.                               *)
QuoteLasts ==
  \A asset \in Assets : \A q \in {gas_price(asset)} :
    mode = "up" /\ q # None =>
      LET m == market_at(next_timestamp)
          full(base) == next_base_fee(base, window_limit(m), m.target, m.floor)
      IN  native_to_asset(full(full(m.base_fee)), state[asset_slot(asset)].rate)
            <= q[1].suggested_max_fee_per_gas
=============================================================================
