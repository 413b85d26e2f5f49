-------------------------------- MODULE Fees --------------------------------
(* The fee arithmetic of crates/sena-stf/src/gas.rs: metered gas, the base *)
(* fee that follows demand, what one transaction pays, and how collected   *)
(* fees are shared out.  An operation that can fail is a pair: can_f says  *)
(* whether f returns Ok, and f is what it returns then.  The checked       *)
(* 128-bit and 64-bit operations are the bounds U128_MAX and U64_MAX.      *)
EXTENDS Integers, Sequences, FiniteSets

CONSTANTS
  RATE_SCALE,                  \* the denominator of an exchange rate
  PRICE_SCALE,                 \* the denominator of a price per gas
  SHARE_SCALE,                 \* the denominator of a share of the fees
  MAX_GAS_LIMIT,
  MAX_FEE_BENEFICIARIES,
  DEFAULT_BASE_FEE_FLOOR,
  DEFAULT_GAS_TARGET,
  U128_MAX,
  U64_MAX

ASSUME FeesAssumption ==
  /\ {RATE_SCALE, PRICE_SCALE, SHARE_SCALE} \subseteq Nat \ {0}
  /\ {MAX_GAS_LIMIT, MAX_FEE_BENEFICIARIES, U128_MAX, U64_MAX} \subseteq Nat
  /\ {DEFAULT_BASE_FEE_FLOOR, DEFAULT_GAS_TARGET} \subseteq Nat \ {0}

(* Gas is counted in thousands: every gas constant of the code is a        *)
(* multiple of a thousand.                                                 *)
INTRINSIC_GAS == 21
KEYLESS_GAS == 100
ELASTICITY == 2
BASE_FEE_CHANGE_DENOMINATOR == 8

larger(a, b) == IF a >= b THEN a ELSE b
smaller(a, b) == IF a <= b THEN a ELSE b
-----------------------------------------------------------------------------
(* The fee market: the base fee, and the demand it follows.  A window is   *)
(* one batch timestamp.                                                    *)
FeeMarket == [base_fee : Nat, floor : Nat, target : Nat,
              window_ts : Nat, window_gas : Nat]

genesis_market(floor, target) ==
  [base_fee |-> floor, floor |-> floor, target |-> target,
   window_ts |-> 0, window_gas |-> 0]

window_limit(m) == smaller(m.target * ELASTICITY, U64_MAX)

(* One step of the base fee after a window that used gas against target.   *)
excess(gas, target) == IF target = 0 THEN gas ELSE gas - target

raised_slip(base, gas, target) ==
  base + larger((base * excess(gas, target)) \div larger(target, 1), 1)

raised(base, gas, target) ==
  base + larger(((base * excess(gas, target)) \div larger(target, 1))
                  \div BASE_FEE_CHANGE_DENOMINATOR, 1)

lowered(base, gas, target) ==
  base - ((base * (target - gas)) \div target) \div BASE_FEE_CHANGE_DENOMINATOR

over_target(gas, target) == target = 0 \/ gas > target

can_next_base_fee(base, gas, target) ==
  IF over_target(gas, target)
  THEN /\ base * excess(gas, target) <= U128_MAX
       /\ raised(base, gas, target) <= U128_MAX
  ELSE base * (target - gas) <= U128_MAX

next_base_fee(base, gas, target, floor) ==
  larger(IF over_target(gas, target) THEN raised(base, gas, target)
                                     ELSE lowered(base, gas, target),
         floor)

(* The market as a batch stamped timestamp sees it.                        *)
can_at(m, timestamp) ==
  /\ timestamp >= m.window_ts
  /\ timestamp > m.window_ts =>
       can_next_base_fee(m.base_fee, m.window_gas, m.target)

at(m, timestamp) ==
  IF timestamp = m.window_ts THEN m
  ELSE [m EXCEPT !.base_fee = next_base_fee(@, m.window_gas, m.target, m.floor),
                 !.window_ts = timestamp,
                 !.window_gas = 0]
-----------------------------------------------------------------------------
(* What one transaction pays, in whole units of its fee asset.             *)
can_native_to_asset(native, rate) == rate # 0 /\ native * rate <= U128_MAX

native_to_asset(native, rate) == (native * rate) \div RATE_SCALE

total(gas, price) == (gas * price) \div PRICE_SCALE

tip_per_gas(max_fee, priority, base_per_gas) ==
  smaller(priority, max_fee - base_per_gas)

can_settle(gas_limit, gas_used, max_fee, priority, base_fee, rate) ==
  LET base_per_gas == native_to_asset(base_fee, rate)
      price == base_per_gas + tip_per_gas(max_fee, priority, base_per_gas)
  IN  /\ gas_limit <= MAX_GAS_LIMIT
      /\ gas_used <= gas_limit
      /\ can_native_to_asset(base_fee, rate)
      /\ max_fee >= base_per_gas
      /\ gas_limit * price <= U128_MAX
      /\ total(gas_limit, price) # 0

settle_slip(gas_limit, gas_used, max_fee, priority, base_fee, rate) ==
  LET base_per_gas == native_to_asset(base_fee, rate)
      tip == tip_per_gas(max_fee, priority, base_per_gas)
      price == base_per_gas + tip
  IN  [gas_used |-> gas_used,
       hold     |-> total(gas_limit, price),
       refund   |-> total(gas_limit - gas_used, price),
       tip      |-> total(gas_used, tip),
       base     |-> total(gas_used, base_per_gas)]

(* The rounding remainder of the hold is added to the base fee.            *)
settle(gas_limit, gas_used, max_fee, priority, base_fee, rate) ==
  LET base_per_gas == native_to_asset(base_fee, rate)
      tip == tip_per_gas(max_fee, priority, base_per_gas)
      price == base_per_gas + tip
      hold == total(gas_limit, price)
      refund == total(gas_limit - gas_used, price)
      base == total(gas_used, base_per_gas)
      remainder == hold - refund - total(gas_used, tip) - base
  IN  [gas_used |-> gas_used,
       hold     |-> hold,
       refund   |-> refund,
       tip      |-> total(gas_used, tip),
       base     |-> base + remainder]
-----------------------------------------------------------------------------
(* How collected fees are shared out: a split names the beneficiaries in   *)
(* order, each with its share, and the share that is burned.               *)
shares_total(split) ==
  LET sum[i \in 0..Len(split.beneficiaries)] ==
        IF i = 0 THEN split.burn ELSE sum[i - 1] + split.beneficiaries[i].share
  IN  sum[Len(split.beneficiaries)]

check(split) ==
  LET b == split.beneficiaries
  IN  /\ Len(b) <= MAX_FEE_BENEFICIARIES
      /\ \A i \in DOMAIN b : b[i].share # 0
      /\ \A i, j \in DOMAIN b : b[i].address = b[j].address => i = j
      /\ shares_total(split) = SHARE_SCALE

can_shares_of(split, amount) ==
  \A i \in DOMAIN split.beneficiaries :
    amount * split.beneficiaries[i].share <= U128_MAX

shares_of(split, amount) ==
  [i \in DOMAIN split.beneficiaries |->
     [address |-> split.beneficiaries[i].address,
      value   |-> (amount * split.beneficiaries[i].share) \div SHARE_SCALE]]
=============================================================================
