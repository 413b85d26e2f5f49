------------------------------- MODULE Mempool -------------------------------
(* Transaction admission, crates/sena-node/src/mempool.rs.  A pool is a    *)
(* value: the queue, the two indexes over it, and the tip -- the state     *)
(* after the queue, and the root before each queued transaction.           *)
EXTENDS Stf

CONSTANTS
  mempool_capacity,
  MAX_BATCH_BYTES

empty_pool == [queued |-> <<>>, hashes |-> {}, tip |-> None, claimed |-> <<>>]

(* The nonces claimed by a queue, by sender, in queue order.               *)
claims_of(queued) ==
  [s \in {queued[i].sender : i \in DOMAIN queued} |->
     LET own == only(queued, {tx \in Range(queued) : tx.sender = s})
     IN  [i \in DOMAIN own |-> own[i].nonce]]

reindex(pool) == [pool EXCEPT !.hashes = Range(pool.queued), !.claimed = claims_of(pool.queued)]

(* Executing one transaction on the tip, with the fee market of the base.  *)
admission_state(base, tip) ==
  put(tip, fee_market_slot, decode_fee_market(get(base, fee_market_slot)))

admit(base, tip, ctx, tx) == execute_batch(admission_state(base, tip), ctx, <<tx>>)

admits(base, tip, ctx, tx) == admit(base, tip, ctx, tx).err = "none"
-----------------------------------------------------------------------------
tip_valid(pool, state) ==
  /\ pool.tip # None
  /\ pool.tip[1].roots # <<>>
  /\ Head(pool.tip[1].roots) = state
  /\ Len(pool.tip[1].roots) = Len(pool.queued) + 1

(* Rebuilding drops what no longer executes after what is kept before it.  *)
kept(acc, tx, trace) ==
  IF trace.err # "none" THEN acc
  ELSE [kept  |-> Append(acc.kept, tx),
        roots |-> Append(acc.roots, final_state(trace)),
        state |-> final_state(trace)]

keep(state, ctx, acc, tx) ==
  with(admit(state, acc.state, ctx, tx), LAMBDA trace : kept(acc, tx, trace))

unbuilt(state) == [kept |-> <<>>, roots |-> <<state>>, state |-> state]

rebuilding(state, ctx, queued) ==
  fold(LAMBDA acc, tx : keep(state, ctx, acc, tx), unbuilt(state), queued)

rebuilt_from(pool, done) ==
  reindex([pool EXCEPT !.queued = done.kept,
                       !.tip = Some([roots |-> done.roots, state |-> done.state])])

rebuilt(pool, state, ctx) ==
  with(rebuilding(state, ctx, pool.queued), LAMBDA done : rebuilt_from(pool, done))

tip_over(pool, state, ctx) ==
  IF tip_valid(pool, state) THEN pool ELSE rebuilt(pool, state, ctx)

claimed_by(pool, sender) ==
  IF sender \in DOMAIN pool.claimed THEN pool.claimed[sender] ELSE <<>>

(* Full, Duplicate and NonceQueued are judged before the tip is rebuilt.   *)
can_offer(pool, tx) ==
  /\ Len(pool.queued) < mempool_capacity
  /\ tx \notin pool.hashes
  /\ tx.nonce \notin Range(claimed_by(pool, tx.sender))

enqueue(pool, tx, next) ==
  [pool EXCEPT !.queued = Append(@, tx),
               !.hashes = @ \cup {tx},
               !.claimed = put(@, tx.sender, Append(claimed_by(pool, tx.sender), tx.nonce)),
               !.tip = Some([roots |-> Append(pool.tip[1].roots, next), state |-> next])]

(* The pool after a transaction was offered, admitted or not.              *)
judged(pool, tx, trace) ==
  IF trace.err = "none" THEN enqueue(pool, tx, final_state(trace)) ELSE pool

offer(pool, state, ctx, tx) ==
  with(admit(state, pool.tip[1].state, ctx, tx), LAMBDA trace : judged(pool, tx, trace))

submit(pool, state, ctx, tx) ==
  IF ~can_offer(pool, tx) THEN pool
  ELSE with(tip_over(pool, state, ctx), LAMBDA over : offer(over, state, ctx, tx))
-----------------------------------------------------------------------------
(* How many transactions of the queue's front fit in a block.              *)
gas_of_prefix(queued, n, asset) ==
  fold(LAMBDA gas, tx : IF asset \in {None, Some(tx.fee_asset)}
                            THEN gas + gas_required(tx) ELSE gas,
           0, SubSeq(queued, 1, n))

fits_gas(queued, n, budget, caps) ==
  /\ gas_of_prefix(queued, n, None) <= budget
  /\ \A i \in 1..n :
       gas_of_prefix(queued, n, Some(queued[i].fee_asset)) <= caps[queued[i].fee_asset]

bytes_of_prefix(queued, n) ==
  fold(LAMBDA size, tx : size + tx.encoded_len, 0, SubSeq(queued, 1, n))

(* The longest prefix of at most n, all of whose prefixes fit.             *)
longest(n, fitting) == Max({0} \cup {k \in 1..n : 1..k \subseteq fitting})

(* The claims left once the taken transactions are gone.                   *)
released_slip(claimed, taken) == claimed

released(claimed, taken) ==
  LET of(s) == {tx.nonce : tx \in {t \in Range(taken) : t.sender = s}}
      left == [s \in DOMAIN claimed |-> only(claimed[s], Range(claimed[s]) \ of(s))]
  IN  [s \in {x \in DOMAIN left : left[x] # <<>>} |-> left[s]]

(* What is left of the queue builds on the state after what was taken.     *)
drained(tip, count) ==
  IF tip = None THEN None
  ELSE Some([tip[1] EXCEPT !.roots = SubSeq(@, count + 1, Len(@))])

take_batch_within(pool, limit) ==
  LET fitting == {n \in DOMAIN pool.queued :
                    n = 1 \/ bytes_of_prefix(pool.queued, n) <= MAX_BATCH_BYTES}
      count == longest(smaller(limit, Len(pool.queued)), fitting)
      taken == SubSeq(pool.queued, 1, count)
  IN  [taken |-> taken,
       pool  |-> [queued  |-> SubSeq(pool.queued, count + 1, Len(pool.queued)),
                  hashes  |-> pool.hashes \ Range(taken),
                  tip     |-> drained(pool.tip, count),
                  claimed |-> released(pool.claimed, taken)]]

take_batch_fitting(pool, limit, budget, caps) ==
  LET fitting == {n \in DOMAIN pool.queued : fits_gas(pool.queued, n, budget, caps)}
  IN  take_batch_within(pool, longest(smaller(limit, Len(pool.queued)), fitting))
=============================================================================
