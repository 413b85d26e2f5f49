-------------------------------- MODULE Node --------------------------------
(***************************************************************************)
(* A sequencer node: the server loop that admits transactions, seals       *)
(* blocks and saves to disk on one thread (server.rs), the sequencer       *)
(* (sequencer.rs) over its mempool, its state and the assertion chain in   *)
(* its own process, the data directory (store.rs), crashes at any point of *)
(* a save, and the restart that replays what was saved.                    *)
(*                                                                         *)
(* The loop turns over several times a second and sets the chain's clock   *)
(* each time, so the two clocks move together, and not while a block or a  *)
(* save is due.                                                            *)
(***************************************************************************)
EXTENDS Mempool, AssertionChain

CONSTANTS
  genesis,                        \* the genesis configuration
  identity,                       \* the sequencer on the chain
  sequencer_bond,
  fee_recipient,                  \* where tips go
  keyless_config,                 \* the keyless parameters, if enabled
  fee_asset_limits,               \* asset -> permille of a window's gas
  ADMISSION_EXPIRY_MARGIN_SECS,
  block_interval_secs,
  persist_interval_secs,
  max_block_transactions,
  MaxTime,                        \* bound: the clock stops here
  MaxRestarts,                    \* bound: how often the node is restarted
  MaxClockLag                     \* bound: how far a restart sets the clock back

VARIABLES
  state,        \* the canonical L2 state
  mempool,
  blocks,       \* the blocks produced, oldest first
  chain,        \* the assertion chain
  assertions,   \* the assertion covering each block
  head,         \* the assertion the next one builds on
  clock,        \* the system clock
  last_block,   \* when block production last ran
  last_persist, \* when the node last saved
  disk,         \* file -> its contents, for the files that exist
  mode,         \* "up", "down", or "refused" to resume
  restarts,
  final_blocks  \* history: the blocks ever reported final

memory == <<state, mempool, blocks, chain, assertions, head>>
timers == <<last_block, last_persist>>
vars == <<memory, clock, timers, disk, mode, restarts, final_blocks>>
-----------------------------------------------------------------------------
(* The genesis state.                                                      *)
validate ==
  /\ \A i \in DOMAIN genesis.gas_assets : genesis.gas_assets[i].rate # 0
  /\ genesis.council # None =>
       LET council == genesis.council[1]
       IN  /\ council.threshold \in 1..Len(council.members)
           /\ council.guardian_threshold <= council.threshold
  /\ genesis.fee_market.floor # 0 /\ genesis.fee_market.target # 0
  /\ genesis.fee_split # None => check(genesis.fee_split[1])

genesis_steps ==
  [i \in DOMAIN genesis.gas_assets |->
     [op |-> "SetGasAsset", record |-> genesis.gas_assets[i]]]
  \o <<[op |-> "SetFeeMarket", floor |-> genesis.fee_market.floor,
        target |-> genesis.fee_market.target]>>
  \o [i \in DOMAIN genesis.fee_split |->
       [op |-> "SetFeeSplit", split |-> genesis.fee_split[i]]]
  \o [i \in DOMAIN genesis.jwks |->
       [op |-> "SetJwk", iss_hash |-> genesis.jwks[i].iss_hash,
        jwk_hash |-> genesis.jwks[i].jwk_hash, active |-> TRUE]]
  \o [i \in DOMAIN genesis.allocations |->
       LET a == genesis.allocations[i] IN move("Credit", a.address, a.asset, a.amount)]

genesis_base ==
  IF genesis.council = None THEN <<>>
  ELSE put(<<>>, council_slot,
           [members            |-> genesis.council[1].members,
            threshold          |-> genesis.council[1].threshold,
            guardian_threshold |-> genesis.council[1].guardian_threshold,
            epoch              |-> 0])

build_state == fold(apply, genesis_base, genesis_steps)

ASSUME GenesisAssumption == validate

ASSUME GenesisLists ==
  /\ genesis.gas_assets \in Seq(Range(genesis.gas_assets))
  /\ genesis.fee_split \in Seq(Range(genesis.fee_split))
  /\ genesis.jwks \in Seq(Range(genesis.jwks))
  /\ genesis.allocations \in Seq(Range(genesis.allocations))

ASSUME NodeAssumption ==
  /\ {persist_interval_secs, max_block_transactions, MaxTime, MaxRestarts, MaxClockLag}
       \subseteq Nat
  /\ block_interval_secs \in Nat \ {0}
-----------------------------------------------------------------------------
(* Sequencer: contexts and block data.                                     *)
fee_market == decode_fee_market(get(state, fee_market_slot))

market_at(timestamp) ==
  IF can_at(fee_market, timestamp) THEN at(fee_market, timestamp) ELSE fee_market

batch_context(timestamp) ==
  [timestamp     |-> timestamp,
   keyless       |-> keyless_config,
   base_fee      |-> market_at(timestamp).base_fee,
   fee_recipient |-> fee_recipient]

last_timestamp == IF blocks = <<>> THEN 0 ELSE Last(blocks).timestamp

next_timestamp_slip == clock

next_timestamp == larger(clock, last_timestamp)

context(block) ==
  [timestamp |-> block.timestamp, keyless |-> keyless_config,
   base_fee |-> block.base_fee, fee_recipient |-> block.fee_recipient]

trace_of(block) == execute_batch(block.pre_state_root, context(block), block.transactions)

trace_length(trace) == Len(trace.states) - 1

batch_commitment(block, tx_starts) ==
  [timestamp |-> block.timestamp, base_fee |-> block.base_fee,
   fee_recipient |-> block.fee_recipient, transactions |-> block.transactions,
   tx_starts |-> tx_starts]

assertion_over(parent, block, trace) ==
  [parent           |-> parent,
   proposer         |-> identity,
   pre_state_root   |-> block.pre_state_root,
   post_state_root  |-> block.post_state_root,
   batch_commitment |-> batch_commitment(block, trace.tx_starts),
   trace_length     |-> trace_length(trace),
   bond             |-> sequencer_bond]
-----------------------------------------------------------------------------
Init ==
  /\ state = build_state
  /\ mempool = empty_pool
  /\ blocks = <<>>
  /\ chain = new_chain(build_state)
  /\ assertions = <<>>
  /\ head = genesis_assertion(build_state)
  /\ clock = 0
  /\ last_block = 0
  /\ last_persist = 0
  /\ disk = <<>>
  /\ mode = "up"
  /\ restarts = 0
  /\ final_blocks = <<>>

(* sena_submitTransaction: admission judges expiry ahead of the clock.     *)
Submit(tx) ==
  /\ mode = "up"
  /\ \E ctx \in {batch_context(next_timestamp + ADMISSION_EXPIRY_MARGIN_SECS)} :
       mempool' = submit(mempool, state, ctx, tx)
  /\ UNCHANGED <<state, blocks, chain, assertions, head, clock, timers, disk, mode,
                 restarts, final_blocks>>
-----------------------------------------------------------------------------
(* Sealing: what no longer compiles is dropped and the rest tried again;   *)
(* any other failure loses the whole batch.                                *)
(* A cap is per mille of the window's gas.                                 *)
cap(asset) ==
  LET limit == window_limit(market_at(next_timestamp))
  IN  IF asset \in DOMAIN fee_asset_limits
      THEN (limit * fee_asset_limits[asset]) \div 1000 ELSE limit

budget ==
  LET window == market_at(next_timestamp)
  IN  larger(window_limit(window) - window.window_gas, 0)

take_from(pool) ==
  take_batch_fitting(pool, max_block_transactions, budget,
                     [asset \in {tx.fee_asset : tx \in Range(pool.queued)} |-> cap(asset)])

(* One attempt per transaction at most; an attempt that fails to compile   *)
(* at index drops that transaction.                                        *)
less_failed(transactions, trace) ==
  IF trace.err # "compile" THEN transactions
  ELSE SubSeq(transactions, 1, trace.index - 1)
       \o SubSeq(transactions, trace.index + 1, Len(transactions))

attempt(transactions, ctx) ==
  with(execute_batch(state, ctx, transactions), LAMBDA trace : less_failed(transactions, trace))

sealed(transactions, ctx) ==
  fold(LAMBDA acc, n : attempt(acc, ctx), transactions, transactions)

new_block_slip(transactions, ctx, trace) ==
  [timestamp       |-> ctx.timestamp,
   base_fee        |-> fee_market.base_fee,
   fee_recipient   |-> ctx.fee_recipient,
   transactions    |-> transactions,
   pre_state_root  |-> state,
   post_state_root |-> final_state(trace)]

new_block(transactions, ctx, trace) ==
  [timestamp       |-> ctx.timestamp,
   base_fee        |-> ctx.base_fee,
   fee_recipient   |-> ctx.fee_recipient,
   transactions    |-> transactions,
   pre_state_root  |-> state,
   post_state_root |-> final_state(trace)]

finalized_if_due(c, id) == IF can_finalize(c, id) THEN finalize(c, id) ELSE c

finalize_due(c, ids) == fold(finalized_if_due, c, ids)

is_final(c, ids, height) == height \in DOMAIN ids /\ status(c, ids[height]) = "finalized"

finalized_height(c, ids) == Max({0} \cup {h \in DOMAIN ids : is_final(c, ids, h)})

longer(s, t) == IF Len(t) > Len(s) THEN t ELSE s

(* The outcome of produce: the sequencer as it is left.                    *)
posted(transactions, ctx, trace) ==
  LET block == new_block(transactions, ctx, trace)
      id == assertion_over(head, block, trace)
  IN  IF transactions # <<>> /\ trace.err = "none" /\ can_post(chain, id)
      THEN [state |-> block.post_state_root, head |-> id, chain |-> post(chain, id),
            blocks |-> Append(blocks, block), assertions |-> Append(assertions, id)]
      ELSE [state |-> state, head |-> head, chain |-> chain,
            blocks |-> blocks, assertions |-> assertions]

produced(ctx, transactions) ==
  with(execute_batch(state, ctx, transactions), LAMBDA trace :
    posted(transactions, ctx, trace))

Produce ==
  /\ mode = "up"
  /\ clock - last_block >= block_interval_secs
  /\ last_block' = clock
  /\ \E t \in {take_from(mempool)}, ctx \in {batch_context(next_timestamp)} :
       /\ mempool' = t.pool
       /\ \E out \in {produced(ctx, sealed(t.taken, ctx))} :
            /\ state' = out.state
            /\ head' = out.head
            /\ blocks' = out.blocks
            /\ assertions' = out.assertions
            /\ chain' = finalize_due(out.chain, out.assertions)
  /\ final_blocks' = longer(final_blocks,
                            SubSeq(blocks', 1, finalized_height(chain', assertions')))
  /\ UNCHANGED <<clock, last_persist, disk, mode, restarts>>
-----------------------------------------------------------------------------
(* The data directory.  A save writes its files in this order, each by a   *)
(* rename; a crash may come after any of them.                             *)
files == <<"state.bin", "chain.json", "blocks.json", "metadata.json">>

contents(file) ==
  CASE file = "state.bin"     -> state
    [] file = "chain.json"    -> chain
    [] file = "blocks.json"   -> blocks
    [] file = "metadata.json" -> build_state

saved(count) ==
  LET written == {files[i] : i \in 1..count}
  IN  [f \in written \cup DOMAIN disk |-> IF f \in written THEN contents(f) ELSE disk[f]]

(* In one turn of the loop a block comes before a save.                    *)
persist_due ==
  /\ clock - last_persist >= persist_interval_secs
  /\ clock - last_block < block_interval_secs

Persist ==
  /\ mode = "up"
  /\ persist_due
  /\ last_persist' = clock
  /\ disk' = saved(Len(files))
  /\ UNCHANGED <<memory, clock, last_block, mode, restarts, final_blocks>>

(* What the sequencer holds when it has just been created.                 *)
starts_with(s, b, c, ids, h) ==
  /\ state' = s
  /\ mempool' = empty_pool
  /\ blocks' = b
  /\ chain' = c
  /\ assertions' = ids
  /\ head' = h

starts_afresh ==
  starts_with(build_state, <<>>, new_chain(build_state), <<>>, genesis_assertion(build_state))

(* Whatever was in memory is gone.                                         *)
stops ==
  /\ mode = "up"
  /\ restarts < MaxRestarts
  /\ mode' = "down"
  /\ starts_afresh
  /\ last_block' = 0
  /\ last_persist' = 0
  /\ UNCHANGED <<clock, restarts, final_blocks>>

(* A clean stop saves once more.                                           *)
Shutdown ==
  /\ stops
  /\ disk' = saved(Len(files))

(* A crash after the first count files of a save that is due, or outside   *)
(* a save: then count is zero.                                             *)
Crash(count) ==
  /\ stops
  /\ count > 0 => persist_due
  /\ disk' = saved(count)

(* Loading: nothing saved, an unusable directory, or what to resume from.  *)
load ==
  CASE "state.bin" \notin DOMAIN disk -> [result |-> "none"]
    [] "state.bin" \in DOMAIN disk /\ "chain.json" \notin DOMAIN disk ->
         [result |-> "error"]
    [] OTHER ->
         [result |-> "saved", state |-> disk["state.bin"], chain |-> disk["chain.json"],
          batches |-> IF "blocks.json" \in DOMAIN disk THEN disk["blocks.json"] ELSE <<>>]

(* Replaying the saved batches from genesis.  Nothing is taken on trust.   *)
replayed(saved_chain, acc, block, trace) ==
  LET id == assertion_over(acc.head, block, trace)
  IN  IF /\ acc.ok
         /\ trace.err = "none"
         /\ final_state(trace) = block.post_state_root
         /\ known(saved_chain, id)
      THEN [ok |-> TRUE, state |-> block.post_state_root, head |-> id,
            blocks |-> Append(acc.blocks, block),
            assertions |-> Append(acc.assertions, id)]
      ELSE [acc EXCEPT !.ok = FALSE]

replay(saved_chain, acc, batch) ==
  LET block == [batch EXCEPT !.pre_state_root = acc.state]
  IN  with(trace_of(block), LAMBDA trace : replayed(saved_chain, acc, block, trace))

unresumed ==
  [ok |-> TRUE, state |-> build_state, head |-> genesis_assertion(build_state),
   blocks |-> <<>>, assertions |-> <<>>]

resume(saved_chain, batches) ==
  fold(LAMBDA acc, batch : replay(saved_chain, acc, batch), unresumed, batches)

resumes(loaded) ==
  /\ loaded.result = "saved"
  /\ resume(loaded.chain, loaded.batches).ok
  /\ resume(loaded.chain, loaded.batches).state = loaded.state

(* A restart; the machine may come back with its clock behind.             *)
Restart(now) ==
  /\ mode = "down"
  /\ restarts' = restarts + 1
  /\ clock' = now
  /\ last_block' = now
  /\ last_persist' = now
  /\ \/ /\ load.result = "none"
        /\ mode' = "up"
        /\ starts_with(build_state, <<>>, advance_to(new_chain(build_state), now), <<>>,
                       genesis_assertion(build_state))
     \/ /\ resumes(load)
        /\ mode' = "up"
        /\ LET r == resume(load.chain, load.batches)
           IN  starts_with(r.state, r.blocks, advance_to(load.chain, now),
                           r.assertions, r.head)
     \/ /\ load.result # "none"
        /\ ~resumes(load)
        /\ mode' = "refused"
        /\ starts_afresh
  /\ UNCHANGED <<disk, final_blocks>>
-----------------------------------------------------------------------------
Tick ==
  /\ clock < MaxTime
  /\ mode = "up" => /\ clock - last_block < block_interval_secs
                    /\ clock - last_persist < persist_interval_secs
  /\ clock' = clock + 1
  /\ chain' = IF mode = "up" THEN advance_to(chain, clock') ELSE chain
  /\ UNCHANGED <<state, mempool, blocks, assertions, head, timers, disk, mode, restarts,
                 final_blocks>>

Next ==
  \/ \E tx \in Offered : Submit(tx)
  \/ Produce
  \/ Persist
  \/ Shutdown
  \/ \E count \in 0..(Len(files) - 1) : Crash(count)
  \/ \E now \in larger(clock - MaxClockLag, 0)..clock : Restart(now)
  \/ Tick

Spec == Init /\ [][Next]_vars
=============================================================================
