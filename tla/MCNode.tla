------------------------------- MODULE MCNode -------------------------------
(* A small instance of Node for TLC: two users with keys, one keyless      *)
(* user, a council of one, one fee asset.                                  *)
EXTENDS Wallet

CONSTANTS alice, bob, sequencer, usdc, iss, jwk, idc, epk

carol == derive_keyless(iss, idc)

MCSplit == [beneficiaries |-> <<[address |-> bob, share |-> 5]>>, burn |-> 5]

MCGenesis ==
  [gas_assets  |-> <<[asset |-> usdc, rate |-> RATE_SCALE, intrinsic_gas |-> 10, enabled |-> TRUE]>>,
   council     |-> Some([members |-> <<alice>>, threshold |-> 1, guardian_threshold |-> 0]),
   fee_market  |-> [floor |-> DEFAULT_BASE_FEE_FLOOR, target |-> DEFAULT_GAS_TARGET],
   fee_split   |-> Some(MCSplit),
   jwks        |-> <<[iss_hash |-> iss, jwk_hash |-> jwk]>>,
   allocations |-> <<[address |-> alice, asset |-> usdc, amount |-> 60],
                     [address |-> bob, asset |-> usdc, amount |-> 21],
                     [address |-> carol, asset |-> usdc, amount |-> 40]>>]

MCKeyless == Some([max_exp_horizon_secs |-> 10])
MCNoLimits == <<>>
MCParameters == {"batch.max_transactions"}

MCSession == [ephemeral_public_key |-> epk, exp_date_secs |-> 2, blinder |-> 0]

MCCarol ==
  [scheme |-> "keyless", session |-> MCSession, idc |-> idc, jwk_hash |-> jwk,
   exp_horizon_secs |-> 5, jwt |-> [iss |-> iss, nonce |-> oauth_nonce(MCSession)],
   proof |-> [iss_hash |-> iss, idc |-> idc, jwk_hash |-> jwk, exp_horizon_secs |-> 5,
              exp_date_secs |-> MCSession.exp_date_secs, ephemeral_public_key |-> epk]]

(* A sign-in of an earlier session, kept with a new one.                   *)
MCStale == [MCCarol EXCEPT !.session.exp_date_secs = 4]

MCWallets ==
  {[scheme |-> "ed25519", secret |-> alice], [scheme |-> "ed25519", secret |-> bob],
   MCCarol, MCStale}

unsigned(sender, nonce, gas_limit, max_fee, payload) ==
  [sender |-> sender, nonce |-> nonce, fee_asset |-> usdc, fee_rate |-> RATE_SCALE,
   fee_intrinsic_gas |-> 10, gas_limit |-> gas_limit, max_fee_per_gas |-> max_fee,
   max_priority_fee_per_gas |-> 5, payload |-> payload, encoded_len |-> 1,
   authenticator |-> None]

signed(tx) == sign_ed25519(tx, tx.sender)

pays(to, amount) == [kind |-> "Transfer", to |-> to, asset |-> usdc, amount |-> amount]

governance(epoch, update) ==
  [kind |-> "Governance", epoch |-> epoch, update |-> update,
   signatures |-> <<[index |-> 1, signature |->
                     [key |-> alice, over |-> update_digest(update, epoch)]]>>]

raise_floor == [op |-> "SetFeeMarket", floor |-> DEFAULT_BASE_FEE_FLOOR + 2,
                target |-> DEFAULT_GAS_TARGET]

MCOffered ==
  {signed(unsigned(alice, 0, 50, 24, pays(bob, 5))),
   signed(unsigned(alice, 1, 70, 24, governance(0, raise_floor))),
   signed(unsigned(bob, 0, 51, DEFAULT_BASE_FEE_FLOOR,
                   [kind |-> "BindIdentifier", identifier |-> "bob"])),
   signed(unsigned(bob, 1, 50, 24, [kind |-> "DistributeFees", asset |-> usdc,
                                    amount |-> 5, split |-> MCSplit])),
   sign(unsigned(carol, 0, 141, 24, pays(bob, 12)), MCSession, assemble(MCCarol))}
=============================================================================
