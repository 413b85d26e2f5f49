------------------------------- MODULE Params -------------------------------
(***************************************************************************)
(* The parameter set of crates/sena-params and the relationships it must   *)
(* keep.  The set is validated once, for the window it names and for the   *)
(* floor; a genesis may then ask for any other window.  The timeouts that  *)
(* are only compared with zero are one set, timeouts.                      *)
(***************************************************************************)
EXTENDS Integers

CONSTANTS
  Candidates,     \* parameter sets, consistent or not
  Windows         \* the windows a genesis may configure

ParamSets ==
  [challenge_window_secs : Nat, challenge_window_floor_secs : Nat, move_timeout_secs : Nat,
   clock_budget_divisor : Nat, bisection_arity : Nat, timeouts : SUBSET Nat,
   slash_reward_percent : Nat, gas_rate_scale : Nat]

ASSUME ParamsAssumption == Candidates \subseteq ParamSets /\ Windows \subseteq Nat

VARIABLES
  params,         \* the frozen set
  deployed        \* the window of the chain that was started

paramVars == <<params, deployed>>

clock_budget_secs(p, window_secs) == window_secs \div p.clock_budget_divisor

dispute_fits(p, window_secs) ==
  /\ 2 * clock_budget_secs(p, window_secs) < window_secs
  /\ p.move_timeout_secs <= clock_budget_secs(p, window_secs)

validate_at_window(p, window_secs) ==
  /\ window_secs >= p.challenge_window_floor_secs
  /\ p.bisection_arity >= 2
  /\ p.clock_budget_divisor >= 2
  /\ p.move_timeout_secs # 0
  /\ 0 \notin p.timeouts
  /\ p.slash_reward_percent \in 1..99
  /\ p.gas_rate_scale # 0
  /\ dispute_fits(p, window_secs)

validate_slip(p) == validate_at_window(p, p.challenge_window_secs)

validate(p) ==
  /\ validate_at_window(p, p.challenge_window_secs)
  /\ validate_at_window(p, p.challenge_window_floor_secs)

(* A chain clamps the window it is given to the floor.                     *)
clamped(p, window_secs) ==
  IF window_secs < p.challenge_window_floor_secs THEN p.challenge_window_floor_secs
                                                 ELSE window_secs

ParamsInit ==
  /\ params \in {p \in Candidates : validate(p)}
  /\ deployed = params.challenge_window_secs

Deploy(window_secs) ==
  /\ deployed' = clamped(params, window_secs)
  /\ UNCHANGED params

ParamsNext == \E w \in Windows : Deploy(w)

ParamsSpec == ParamsInit /\ [][ParamsNext]_paramVars
-----------------------------------------------------------------------------
(* A set validated at its own window and at the floor is consistent at     *)
(* every window a chain can be started with: both players' clocks fit in   *)
(* the window with time to spare, and a move fits in a clock.  A divisor   *)
(* of two passes validate at an odd floor and fails at the even windows    *)
(* above it; the frozen set uses four.                                     *)
DisputesFitAnyWindow ==
  params.clock_budget_divisor >= 3 => validate_at_window(params, deployed)
=============================================================================
