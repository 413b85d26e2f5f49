---------------------------- MODULE DisputeGame -----------------------------
(***************************************************************************)
(* The bisection game of move/sena/sources/disputes.move as operations on  *)
(* one Dispute record d: what each entry function requires of it at time   *)
(* `now` (can_...) and the record it leaves behind.  Bisection plays one   *)
(* game between two parties; L1 plays one per assertion and challenger on  *)
(* top of the assertion chain.                                             *)
(*                                                                         *)
(* A commitment is HONEST when it is the commitment of the state that      *)
(* honest execution reaches at that position, and FORGED otherwise.  The   *)
(* contract never compares commitments until one step is left.             *)
(*                                                                         *)
(* As in Assertions, f_slip is a wrong version of f that no specification  *)
(* uses.                                                                   *)
(***************************************************************************)
EXTENDS Integers, Sequences

CONSTANTS
  ARITY,                 \* segments per round
  MOVE_TIMEOUT,          \* how long a party has to make any single move
  CLOCK_BUDGET_DIVISOR   \* share of the window each party may consume

ASSUME GameAssumption ==
  /\ ARITY \in Nat \ {0, 1}
  /\ MOVE_TIMEOUT \in Nat
  /\ CLOCK_BUDGET_DIVISOR \in Nat \ {0}

DEFENDER == "defender"
CHALLENGER == "challenger"
NOBODY == "nobody"
Role == {DEFENDER, CHALLENGER}

BISECTING == "bisecting"
ONE_STEP == "one_step"
RESOLVED == "resolved"
Stage == {BISECTING, ONE_STEP, RESOLVED}

HONEST == "honest"
FORGED == "forged"
Commitment == {HONEST, FORGED}

opponent(role) == IF role = DEFENDER THEN CHALLENGER ELSE DEFENDER

lesser(a, b) == IF a < b THEN a ELSE b

-----------------------------------------------------------------------------
clock_budget(window) == window \div CLOCK_BUDGET_DIVISOR

(* How many segments [lo, hi] is divided into, and where segment i starts. *)
segments(lo, hi) ==
  LET n == lesser(ARITY, hi - lo) IN IF n = 0 THEN 1 ELSE n

(* Segments of the quotient, and the remainder added to the last.          *)
boundary_slip(lo, hi, i) ==
  IF i = segments(lo, hi) THEN hi
  ELSE lo + ((hi - lo) \div segments(lo, hi)) * i

boundary(lo, hi, i) == lo + ((hi - lo) * i) \div segments(lo, hi)

(* open: the game over a whole trace of at least one step.                 *)
new_dispute(trace_length, claim, window, now) ==
  LET budget == clock_budget(window)
  IN  [lo |-> 0, hi |-> trace_length,
       lo_commitment |-> HONEST, hi_commitment |-> claim,
       offered |-> <<>>, has_offer |-> FALSE,
       stage |-> IF trace_length = 1 THEN ONE_STEP ELSE BISECTING,
       turn |-> IF trace_length = 1 THEN CHALLENGER ELSE DEFENDER,
       deadline |-> now + lesser(MOVE_TIMEOUT, budget),
       defender_clock |-> budget, challenger_clock |-> budget,
       last_move_at |-> now, winner |-> NOBODY]

clock(d, role) ==
  IF role = DEFENDER THEN d.defender_clock ELSE d.challenger_clock

(* begin_move: a late move is refused, a move in time is charged.          *)
can_move(d, role, now) ==
  /\ d.stage # RESOLVED
  /\ d.turn = role
  /\ now <= d.deadline
  /\ now - d.last_move_at <= clock(d, role)

(* A move in time is free.                                                 *)
begin_move_slip(d, role, now) == d

begin_move(d, role, now) ==
  IF role = DEFENDER
  THEN [d EXCEPT !.defender_clock = @ - (now - d.last_move_at)]
  ELSE [d EXCEPT !.challenger_clock = @ - (now - d.last_move_at)]

(* The deadline of the next move comes from the clock of the one who moved.*)
pass_turn_clock_slip(d, now) ==
  [d EXCEPT !.turn = opponent(d.turn),
            !.last_move_at = now,
            !.deadline = now + lesser(MOVE_TIMEOUT, clock(d, d.turn))]

pass_turn(d, now) ==
  [d EXCEPT !.turn = opponent(d.turn),
            !.last_move_at = now,
            !.deadline = now + lesser(MOVE_TIMEOUT, clock(d, opponent(d.turn)))]

(* The turn becomes the challenger's; the deadline stays as pass_turn set  *)
(* it, from the defender's clock.                                          *)
enter_one_step_if_narrow(d) ==
  IF d.hi - d.lo = 1
  THEN [d EXCEPT !.stage = ONE_STEP, !.turn = CHALLENGER]
  ELSE d

can_dissect(d, commitments, now) ==
  /\ can_move(d, DEFENDER, now)
  /\ d.stage = BISECTING
  /\ Len(commitments) = segments(d.lo, d.hi) - 1

dissect(d, commitments, now) ==
  pass_turn([begin_move(d, DEFENDER, now) EXCEPT
               !.offered = commitments, !.has_offer = TRUE], now)

can_select(d, index, now) ==
  /\ can_move(d, CHALLENGER, now)
  /\ d.stage = BISECTING
  /\ d.has_offer
  /\ index < segments(d.lo, d.hi)

(* The commitment at boundary i of the interval under an offer: the agreed *)
(* one, those offered for the interior, and the disputed one.              *)
commitment_at(d, i) ==
  IF i = 0 THEN d.lo_commitment
  ELSE IF i = segments(d.lo, d.hi) THEN d.hi_commitment
  ELSE d.offered[i]

(* The end of the segment keeps the commitment of its start.               *)
select_slip(d, index, now) ==
  enter_one_step_if_narrow(
    pass_turn([begin_move(d, CHALLENGER, now) EXCEPT
                 !.lo = boundary(d.lo, d.hi, index),
                 !.hi = boundary(d.lo, d.hi, index + 1),
                 !.lo_commitment = commitment_at(d, index),
                 !.hi_commitment = commitment_at(d, index),
                 !.offered = <<>>, !.has_offer = FALSE], now))

select(d, index, now) ==
  enter_one_step_if_narrow(
    pass_turn([begin_move(d, CHALLENGER, now) EXCEPT
                 !.lo = boundary(d.lo, d.hi, index),
                 !.hi = boundary(d.lo, d.hi, index + 1),
                 !.lo_commitment = commitment_at(d, index),
                 !.hi_commitment = commitment_at(d, index + 1),
                 !.offered = <<>>, !.has_offer = FALSE], now))

can_one_step(d, now) == can_move(d, CHALLENGER, now) /\ d.stage = ONE_STEP

(* osp::adjudicate executes the step from the agreed state.  From a forged *)
(* state L1 computes some successor, which may or may not be the claim.    *)
adjudications(d) ==
  IF d.lo_commitment = FORGED THEN Role
  ELSE IF d.hi_commitment = HONEST THEN {DEFENDER} ELSE {CHALLENGER}

(* resolve_internal, without its effect on the assertion.                  *)
resolve(d, winner) == [d EXCEPT !.stage = RESOLVED, !.winner = winner]

one_step(d, winner, now) == resolve(begin_move(d, CHALLENGER, now), winner)

(* Only the defender can run out of time.                                  *)
can_claim_timeout_slip(d, now) ==
  /\ d.stage # RESOLVED
  /\ d.turn = DEFENDER
  /\ now > d.deadline \/ now - d.last_move_at > clock(d, d.turn)

can_claim_timeout(d, now) ==
  /\ d.stage # RESOLVED
  /\ now > d.deadline \/ now - d.last_move_at > clock(d, d.turn)

(* The party that ran out of time wins.                                    *)
claim_timeout_slip(d) == resolve(d, d.turn)

claim_timeout(d) == resolve(d, opponent(d.turn))
=============================================================================
