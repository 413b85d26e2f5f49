------------------------------- MODULE Wallet -------------------------------
(***************************************************************************)
(* The wallet, crates/sena-wallet: a keyless sign-in, a transfer with its  *)
(* fee fields and its signature; sena-wasm and the command line send what  *)
(* it builds.  An Ed25519 wallet is its key.  A keyless wallet is a        *)
(* session, the token its identity provider issued, and the proof a        *)
(* proving service made of what the token says.                            *)
(***************************************************************************)
EXTENDS Observers

CONSTANT Wallets

(* The nonce the token must carry commits to the whole session.            *)
oauth_nonce(session) ==
  <<session.ephemeral_public_key, session.exp_date_secs, session.blinder>>

(* The authenticator for a sign-in, its ephemeral signature still missing. *)
assemble(w) ==
  [scheme |-> "keyless", iss_hash |-> w.jwt.iss, idc |-> w.idc, jwk_hash |-> w.jwk_hash,
   ephemeral_public_key |-> w.session.ephemeral_public_key,
   exp_date_secs |-> w.session.exp_date_secs, exp_horizon_secs |-> w.exp_horizon_secs,
   proof |-> w.proof, ephemeral_signature |-> None]

(* A token for another session, or a proof of other inputs, is refused.    *)
can_assemble(w) ==
  /\ w.jwt.nonce = oauth_nonce(w.session)
  /\ w.proof = public_inputs(assemble(w))

wallet_address(w) ==
  IF w.scheme = "ed25519" THEN w.secret ELSE derive_keyless(w.jwt.iss, w.idc)

(* The fields of sena_gasPrice a wallet copies into a transaction.         *)
gas_quote(asset, tip) ==
  LET record == state[asset_slot(asset)]
  IN  [asset |-> asset, rate |-> record.rate, intrinsic_gas |-> record.intrinsic_gas,
       max_fee_per_gas |-> gas_price(asset)[1].suggested_max_fee_per_gas,
       max_priority_fee_per_gas |-> tip]

(* The limit is what the transfer uses under a placeholder signature.      *)
transfer(sender, nonce, to, asset, amount, fee) ==
  LET tx == [sender |-> sender, nonce |-> nonce, fee_asset |-> fee.asset,
             fee_rate |-> fee.rate, fee_intrinsic_gas |-> fee.intrinsic_gas, gas_limit |-> 0,
             max_fee_per_gas |-> fee.max_fee_per_gas,
             max_priority_fee_per_gas |-> fee.max_priority_fee_per_gas,
             payload |-> [kind |-> "Transfer", to |-> to, asset |-> asset, amount |-> amount],
             encoded_len |-> 1,
             authenticator |-> [scheme |-> "ed25519", public_key |-> None, signature |-> None]]
  IN  [tx EXCEPT !.gas_limit = gas_required(tx)]

sign_ed25519(tx, secret) ==
  LET own == [tx EXCEPT !.sender = secret]
  IN  [own EXCEPT !.authenticator =
         [scheme |-> "ed25519", public_key |-> secret,
          signature |-> [key |-> secret, over |-> signing_digest(own)]]]

sign_slip(tx, session, signature) ==
  LET own == [tx EXCEPT !.sender = derive_keyless(signature.iss_hash, signature.idc),
                        !.authenticator = signature]
  IN  [own EXCEPT !.authenticator.ephemeral_signature =
         [key |-> session.ephemeral_public_key, over |-> signing_digest(own)]]

(* The limit is raised by what the keyless signature costs, and only then  *)
(* is the transaction signed.                                              *)
sign(tx, session, signature) ==
  LET own == [tx EXCEPT !.sender = derive_keyless(signature.iss_hash, signature.idc),
                        !.authenticator = signature]
      metered == [own EXCEPT !.gas_limit = larger(@, gas_required(own))]
  IN  [metered EXCEPT !.authenticator.ephemeral_signature =
         [key |-> session.ephemeral_public_key, over |-> signing_digest(metered)]]

signed_by(w, tx) ==
  IF w.scheme = "ed25519" THEN sign_ed25519(tx, w.secret) ELSE sign(tx, w.session, assemble(w))

send(w, nonce, to, asset, amount, tip) ==
  signed_by(w, transfer(wallet_address(w), nonce, to, asset, amount, gas_quote(asset, tip)))
-----------------------------------------------------------------------------
usable(w, timestamp) ==
  w.scheme = "keyless" => can_assemble(w) /\ timestamp < w.session.exp_date_secs

(* What a wallet builds from the node's own quote is admitted, behind      *)
(* whatever is queued, if the account can pay the most the transfer may    *)
(* cost and the sign-in has not expired: the fee fields, the limit and the *)
(* signature the wallet computes are those the node checks, in the window  *)
(* after the quoted one.  What is queued must leave the asset's terms be.  *)
WalletTransfersAdmitted ==
  mode = "up" /\ Len(mempool.queued) < mempool_capacity =>
    \A ctx \in {batch_context(next_timestamp + ADMISSION_EXPIRY_MARGIN_SECS)} :
    \A tip \in {tip_over(mempool, state, ctx).tip[1].state} :
    \A w \in {w \in Wallets : usable(w, ctx.timestamp)}, asset \in Assets :
      /\ gas_price(asset) # None
      /\ get(tip, asset_slot(asset)) = get(state, asset_slot(asset))
      => LET payer == decode_account(get(tip, account(wallet_address(w))))
         IN  \A tx \in {send(w, payer.nonce, fee_recipient, asset, 1, 1)} :
               balance(payer, asset) >= total(tx.gas_limit, tx.max_fee_per_gas) + 1
                 => admits(state, tip, ctx, tx)
=============================================================================
