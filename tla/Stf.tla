--------------------------------- MODULE Stf ---------------------------------
(***************************************************************************)
(* The state transition function, crates/sena-stf: what a transaction      *)
(* compiles to, what each instruction does to the one slot it touches, and *)
(* the execution of a batch.                                               *)
(*                                                                         *)
(* The state is a function from the slots in use to their contents.  Slot  *)
(* keys and roots are collision-free hashes, so a key is the tuple that is *)
(* hashed and a root is the state itself.  A signature is the key that     *)
(* made it and the digest it is over; a digest is what is hashed; a zero-  *)
(* knowledge proof is the statement it proves.                             *)
(*                                                                         *)
(* can_f says whether f returns Ok, f is what it returns then.             *)
(***************************************************************************)
EXTENDS Fees, FiniteSetsExt

CONSTANTS
  Offered,                   \* the transactions users offer
  FEE_VAULT,                 \* the address that collects base fees
  GOVERNABLE_PARAMETERS,     \* the parameters a council may set
  MAX_TRANSACTION_BYTES,
  MAX_COUNCIL_SIGNATURES

(* What the types of a transaction and its payload say (transaction.rs,    *)
(* governance.rs).                                                         *)
Updates ==
  {"SetGasAsset", "SetParameter", "SetJwk", "SetFeeMarket", "SetFeeSplit", "DisableGasAsset"}

ASSUME OfferedAssumption ==
  \A tx \in Offered :
    /\ tx.payload.kind \in {"Transfer", "BindIdentifier", "UnbindIdentifier", "Governance",
                            "DistributeFees"}
    /\ tx.payload.kind = "Governance" => tx.payload.update.op \in Updates
    /\ tx.payload.kind = "DistributeFees" =>
         tx.payload.split.beneficiaries \in Seq(Range(tx.payload.split.beneficiaries))

(* An Option is a sequence of at most one value.                           *)
None == <<>>
Some(v) == <<v>>

(* f(x), and op folded over seq from base, with each intermediate result   *)
(* computed once and not where it is used.                                 *)
with(x, f(_)) == CHOOSE y \in {f(v) : v \in {x}} : TRUE

fold(op(_, _), base, seq) ==
  with(seq, LAMBDA s :
    LET after[n \in 0..Len(s)] ==
          IF n = 0 THEN base ELSE with(after[n - 1], LAMBDA acc : op(acc, s[n]))
    IN  after[Len(s)])

(* The elements of seq that are in S, in order.                            *)
append_if(acc, x, S) == IF x \in S THEN Append(acc, x) ELSE acc

only(seq, S) == fold(LAMBDA acc, x : append_if(acc, x, S), <<>>, seq)

Last(seq) == seq[Len(seq)]

(* f with v at k.                                                          *)
put(f, k, v) == [x \in DOMAIN f \cup {k} |-> IF x = k THEN v ELSE f[x]]
-----------------------------------------------------------------------------
(* Slots (keys.rs).                                                        *)
account(address) == <<"account", address>>
social_by_identifier(identifier) == <<"social", identifier>>
asset_slot(asset) == <<"asset", asset>>
parameter(name) == <<"parameter", name>>
council_slot == <<"council">>
fee_market_slot == <<"fee_market">>
fee_split_slot == <<"fee_split">>
jwk_slot(iss_hash, jwk_hash) == <<"jwk", iss_hash, jwk_hash>>

get(st, key) == IF key \in DOMAIN st THEN Some(st[key]) ELSE None
-----------------------------------------------------------------------------
(* Accounts.  An asset whose balance is zero is not in the account.        *)
new_account == [nonce |-> 0, balances |-> <<>>]

decode_account(current) == IF current = None THEN new_account ELSE current[1]

balance(a, asset) == IF asset \in DOMAIN a.balances THEN a.balances[asset] ELSE 0

can_credit(a, asset, amount) == balance(a, asset) + amount <= U128_MAX

credit(a, asset, amount) ==
  IF amount = 0 THEN a
  ELSE [a EXCEPT !.balances = put(@, asset, balance(a, asset) + amount)]

can_debit(a, asset, amount) == balance(a, asset) >= amount

debit(a, asset, amount) ==
  IF amount = 0 THEN a
  ELSE IF balance(a, asset) = amount
  THEN [a EXCEPT !.balances = [x \in DOMAIN @ \ {asset} |-> @[x]]]
  ELSE [a EXCEPT !.balances = put(@, asset, balance(a, asset) - amount)]
-----------------------------------------------------------------------------
(* Governance.  An update is the instruction that writes it.               *)
check_permitted(update) ==
  CASE update.op = "SetParameter" -> update.name \in GOVERNABLE_PARAMETERS
    [] update.op = "SetGasAsset"  -> update.record.rate # 0
    [] update.op = "SetFeeMarket" -> update.floor # 0 /\ update.target # 0
    [] update.op = "SetFeeSplit"  -> check(update.split)
    [] OTHER                      -> TRUE

guardian_may_apply(update) == update.op = "DisableGasAsset"

update_digest(update, epoch) == [epoch |-> epoch, update |-> update]

required(council, guardian) ==
  IF guardian /\ council.guardian_threshold > 0
  THEN council.guardian_threshold
  ELSE council.threshold

(* Signatures name distinct members in order, and all of them verify.      *)
verify_council_signatures(council, digest, signatures, guardian) ==
  /\ required(council, guardian) # 0
  /\ \A i \in 1..(Len(signatures) - 1) : signatures[i].index < signatures[i + 1].index
  /\ \A i \in DOMAIN signatures :
       /\ signatures[i].index \in DOMAIN council.members
       /\ signatures[i].signature =
            [key |-> council.members[signatures[i].index], over |-> digest]
  /\ Len(signatures) >= required(council, guardian)
-----------------------------------------------------------------------------
(* Instructions: the one slot each touches, and what it does to it.        *)
slot(i) ==
  CASE i.op \in {"ConsumeNonce", "Debit", "Credit"} -> account(i.account)
    [] i.op \in {"BindIdentifier", "UnbindIdentifier"} -> social_by_identifier(i.identifier)
    [] i.op \in {"VerifyGasAsset", "DisableGasAsset"} -> asset_slot(i.asset)
    [] i.op \in {"ChargeBaseFee", "SetFeeMarket"} -> fee_market_slot
    [] i.op \in {"VerifyFeeSplit", "SetFeeSplit"} -> fee_split_slot
    [] i.op = "SetGasAsset" -> asset_slot(i.record.asset)
    [] i.op = "VerifyCouncil" -> council_slot
    [] i.op = "SetParameter" -> parameter(i.name)
    [] i.op \in {"VerifyJwk", "SetJwk"} -> jwk_slot(i.iss_hash, i.jwk_hash)

decode_fee_market(current) ==
  IF current = None THEN genesis_market(DEFAULT_BASE_FEE_FLOOR, DEFAULT_GAS_TARGET)
                    ELSE current[1]

can_charge_base_fee(i, current) ==
  LET market == decode_fee_market(current)
  IN  /\ can_at(market, i.timestamp)
      /\ at(market, i.timestamp).base_fee = i.base_fee
      /\ at(market, i.timestamp).window_gas + i.gas <= window_limit(market)

can_verify_gas_asset(i, current) ==
  /\ current # None
  /\ current[1].enabled
  /\ current[1].rate = i.rate
  /\ current[1].intrinsic_gas = i.intrinsic_gas

can_verify_council(i, current) ==
  /\ current # None
  /\ current[1].epoch = i.epoch
  /\ verify_council_signatures(current[1], i.digest, i.signatures, i.guardian)
  /\ i.epoch < U64_MAX

can_fee_transition(i, current) ==
  CASE i.op = "VerifyGasAsset" -> can_verify_gas_asset(i, current)
    [] i.op = "ChargeBaseFee"  -> can_charge_base_fee(i, current)
    [] i.op = "VerifyFeeSplit" -> current = Some(i.split)

fee_transition(i, current) ==
  IF i.op # "ChargeBaseFee" THEN current[1]
  ELSE [at(decode_fee_market(current), i.timestamp) EXCEPT !.window_gas = @ + i.gas]

can_governance_transition(i, current) ==
  CASE i.op = "VerifyCouncil"   -> can_verify_council(i, current)
    [] i.op = "DisableGasAsset" -> current # None
    [] OTHER                    -> check_permitted(i)

governance_transition_slip(i, current) ==
  CASE i.op = "VerifyCouncil"   -> current[1]
    [] i.op = "SetGasAsset"     -> i.record
    [] i.op = "SetParameter"    -> i.value
    [] i.op = "SetFeeMarket"    ->
         LET market == decode_fee_market(current)
         IN  [market EXCEPT !.base_fee = larger(@, i.floor),
                            !.floor = i.floor, !.target = i.target]
    [] i.op = "SetFeeSplit"     -> i.split
    [] i.op = "DisableGasAsset" -> [current[1] EXCEPT !.enabled = FALSE]

governance_transition(i, current) ==
  CASE i.op = "VerifyCouncil"   -> [current[1] EXCEPT !.epoch = @ + 1]
    [] i.op = "SetGasAsset"     -> i.record
    [] i.op = "SetParameter"    -> i.value
    [] i.op = "SetFeeMarket"    ->
         LET market == decode_fee_market(current)
         IN  [market EXCEPT !.base_fee = larger(@, i.floor),
                            !.floor = i.floor, !.target = i.target]
    [] i.op = "SetFeeSplit"     -> i.split
    [] i.op = "DisableGasAsset" -> [current[1] EXCEPT !.enabled = FALSE]

FeeOps == {"VerifyGasAsset", "ChargeBaseFee", "VerifyFeeSplit"}
GovernanceOps == {"VerifyCouncil", "SetGasAsset", "SetParameter", "SetFeeMarket",
                  "SetFeeSplit", "DisableGasAsset"}

bound(address) == [state |-> "bound", address |-> address]
vacant == [state |-> "vacant"]

can_transition(i, current) ==
  LET a == decode_account(current)
  IN  CASE i.op = "ConsumeNonce"     -> a.nonce = i.expected /\ a.nonce < U64_MAX
        [] i.op = "Debit"            -> can_debit(a, i.asset, i.amount)
        [] i.op = "Credit"           -> can_credit(a, i.asset, i.amount)
        [] i.op = "BindIdentifier"   ->
             current \in {None, Some(vacant), Some(bound(i.address))}
        [] i.op = "UnbindIdentifier" -> current = Some(bound(i.expected_owner))
        [] i.op = "VerifyJwk"        -> current = Some(TRUE)
        [] i.op = "SetJwk"           -> TRUE
        [] i.op \in FeeOps           -> can_fee_transition(i, current)
        [] i.op \in GovernanceOps    -> can_governance_transition(i, current)

transition(i, current) ==
  LET a == decode_account(current)
  IN  CASE i.op = "ConsumeNonce"     -> [a EXCEPT !.nonce = @ + 1]
        [] i.op = "Debit"            -> debit(a, i.asset, i.amount)
        [] i.op = "Credit"           -> credit(a, i.asset, i.amount)
        [] i.op = "BindIdentifier"   -> bound(i.address)
        [] i.op = "UnbindIdentifier" -> vacant
        [] i.op = "VerifyJwk"        -> current[1]
        [] i.op = "SetJwk"           -> i.active
        [] i.op \in FeeOps           -> fee_transition(i, current)
        [] i.op \in GovernanceOps    -> governance_transition(i, current)

can_apply(st, i) == can_transition(i, get(st, slot(i)))

apply(st, i) == put(st, slot(i), transition(i, get(st, slot(i))))
-----------------------------------------------------------------------------
(* Authentication.  An Ed25519 account's address is its key; a keyless     *)
(* one's is derived from the issuer and the identity commitment.           *)
derive_keyless(iss_hash, idc) == <<"keyless", iss_hash, idc>>

signing_digest(tx) == [f \in DOMAIN tx \ {"authenticator"} |-> tx[f]]

public_inputs(sig) ==
  [f \in DOMAIN sig \ {"scheme", "ephemeral_signature", "proof"} |-> sig[f]]

keyless_verify(sig, sender, digest, ctx) ==
  /\ ctx.keyless # None
  /\ derive_keyless(sig.iss_hash, sig.idc) = sender
  /\ sig.exp_horizon_secs <= ctx.keyless[1].max_exp_horizon_secs
  /\ ctx.timestamp < sig.exp_date_secs
  /\ sig.ephemeral_signature = [key |-> sig.ephemeral_public_key, over |-> digest]
  /\ sig.proof = public_inputs(sig)

is_keyless(tx) == tx.authenticator.scheme = "keyless"

authenticate(tx, ctx) ==
  LET sig == tx.authenticator
  IN  IF is_keyless(tx) THEN keyless_verify(sig, tx.sender, signing_digest(tx), ctx)
      ELSE /\ tx.sender = sig.public_key
           /\ sig.signature = [key |-> sig.public_key, over |-> signing_digest(tx)]
-----------------------------------------------------------------------------
(* Compilation: a pure function of the transaction and the batch header.   *)
instruction_gas(i) ==
  CASE i.op \in {"Debit", "Credit", "UnbindIdentifier"} -> 5
    [] i.op = "VerifyCouncil"  -> 10 + 3 * Len(i.signatures)
    [] i.op = "VerifyFeeSplit" -> 2
    [] i.op \in {"ConsumeNonce", "VerifyGasAsset", "ChargeBaseFee", "VerifyJwk"} -> 0
    [] OTHER                   -> 20

gas_used(tx, payload) ==
  fold(LAMBDA gas, i : gas + instruction_gas(i),
           INTRINSIC_GAS + tx.fee_intrinsic_gas
             + (IF is_keyless(tx) THEN KEYLESS_GAS ELSE 0),
           payload)

move(op, address, asset, amount) ==
  [op |-> op, account |-> address, asset |-> asset, amount |-> amount]

credits(asset, shares) ==
  LET paid == only(shares, {s \in Range(shares) : s.value > 0})
  IN  [n \in DOMAIN paid |-> move("Credit", paid[n].address, asset, paid[n].value)]

compile_distribution(asset, amount, split) ==
  <<[op |-> "VerifyFeeSplit", split |-> split],
    move("Debit", FEE_VAULT, asset, amount)>>
  \o credits(asset, shares_of(split, amount))

can_compile_payload(p, sender) ==
  CASE p.kind = "Transfer"       -> p.to # sender
    [] p.kind = "Governance"     -> check_permitted(p.update)
    [] p.kind = "DistributeFees" ->
         p.amount # 0 /\ check(p.split) /\ can_shares_of(p.split, p.amount)
    [] OTHER                     -> TRUE

compile_payload(p, sender) ==
  CASE p.kind = "Transfer" ->
         <<move("Debit", sender, p.asset, p.amount), move("Credit", p.to, p.asset, p.amount)>>
    [] p.kind = "BindIdentifier" ->
         <<[op |-> "BindIdentifier", identifier |-> p.identifier, address |-> sender]>>
    [] p.kind = "UnbindIdentifier" ->
         <<[op |-> "UnbindIdentifier", identifier |-> p.identifier, expected_owner |-> sender]>>
    [] p.kind = "Governance" ->
         <<[op |-> "VerifyCouncil", epoch |-> p.epoch, signatures |-> p.signatures,
            digest |-> update_digest(p.update, p.epoch),
            guardian |-> guardian_may_apply(p.update)],
           p.update>>
    [] p.kind = "DistributeFees" -> compile_distribution(p.asset, p.amount, p.split)

gas_required(tx) == gas_used(tx, compile_payload(tx.payload, tx.sender))

can_charge(tx, ctx) ==
  /\ can_compile_payload(tx.payload, tx.sender)
  /\ gas_required(tx) <= U64_MAX
  /\ can_settle(tx.gas_limit, gas_required(tx), tx.max_fee_per_gas,
                tx.max_priority_fee_per_gas, ctx.base_fee, tx.fee_rate)

fee_charge(tx, ctx) ==
  settle(tx.gas_limit, gas_required(tx), tx.max_fee_per_gas,
         tx.max_priority_fee_per_gas, ctx.base_fee, tx.fee_rate)

can_compile(tx, ctx) ==
  /\ tx.encoded_len <= MAX_TRANSACTION_BYTES
  /\ tx.payload.kind = "Governance" => Len(tx.payload.signatures) <= MAX_COUNCIL_SIGNATURES
  /\ authenticate(tx, ctx)
  /\ can_charge(tx, ctx)

compile(tx, ctx) ==
  LET sig == tx.authenticator
      charge == fee_charge(tx, ctx)
  IN  (IF is_keyless(tx)
       THEN <<[op |-> "VerifyJwk", iss_hash |-> sig.iss_hash, jwk_hash |-> sig.jwk_hash]>>
       ELSE <<>>)
      \o <<[op |-> "ConsumeNonce", account |-> tx.sender, expected |-> tx.nonce],
           [op |-> "VerifyGasAsset", asset |-> tx.fee_asset, rate |-> tx.fee_rate,
            intrinsic_gas |-> tx.fee_intrinsic_gas],
           [op |-> "ChargeBaseFee", timestamp |-> ctx.timestamp,
            base_fee |-> ctx.base_fee, gas |-> charge.gas_used],
           move("Debit", tx.sender, tx.fee_asset, charge.hold)>>
      \o compile_payload(tx.payload, tx.sender)
      \o credits(tx.fee_asset, <<[address |-> tx.sender, value |-> charge.refund],
                                 [address |-> ctx.fee_recipient, value |-> charge.tip],
                                 [address |-> FEE_VAULT, value |-> charge.base]>>)
-----------------------------------------------------------------------------
(* Executing a batch.  `states` has the state before each step and the     *)
(* final one; `tx_starts` where each transaction's steps begin; `err` is   *)
(* "none", or how the transaction at `index` failed.                       *)
run_step(acc, i) ==
  IF acc.err # "none" THEN acc
  ELSE IF can_apply(Last(acc.states), i)
  THEN [acc EXCEPT !.states = Append(@, apply(Last(@), i))]
  ELSE [acc EXCEPT !.err = "step"]

run_steps(acc, code) == fold(run_step, acc, code)

run_transaction(acc, tx, ctx) ==
  IF acc.err # "none" THEN acc
  ELSE LET next == [acc EXCEPT !.index = @ + 1,
                               !.tx_starts = Append(@, Len(acc.states) - 1)]
       IN  IF can_compile(tx, ctx)
           THEN run_steps(next, compile(tx, ctx))
           ELSE [next EXCEPT !.err = "compile"]

fresh_trace(st) == [err |-> "none", index |-> 0, states |-> <<st>>, tx_starts |-> <<>>]

execute_batch(st, ctx, transactions) ==
  with(ctx, LAMBDA c :
    fold(LAMBDA acc, tx : run_transaction(acc, tx, c), fresh_trace(st), transactions))

final_state(trace) == Last(trace.states)

genesis_credit(st, address, asset, amount) == apply(st, move("Credit", address, asset, amount))
=============================================================================
