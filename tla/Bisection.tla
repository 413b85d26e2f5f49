----------------------------- MODULE Bisection ------------------------------
(***************************************************************************)
(* One bisection game, from disputes::open to its resolution, between a    *)
(* defender and a challenger of which either may play honestly: the        *)
(* relayer's defend (crates/sena-node/src/relayer.rs) dissects with the    *)
(* commitments of its own execution, the watcher's play (watcher.rs)       *)
(* selects the first segment whose end it disputes and proves the last     *)
(* step.  A party that is not honest makes any move the contract accepts,  *)
(* at any time, or none.  Time is counted from the opening of the game.    *)
(* Who is honest is chosen at the start and never changes.                 *)
(*                                                                         *)
(* The batch is structurally sound here: every step is covered by one      *)
(* transaction.  A batch that is not is rejected without a game.           *)
(***************************************************************************)
EXTENDS DisputeGame

CONSTANTS
  HonestRoles,  \* the sets of roles that may be played honestly
  TraceLength,  \* the trace lengths in dispute
  window,       \* the chain's challenge window
  Reaction,     \* how long an honest party takes to answer
  MaxTime       \* bound: the clock stops here

ASSUME BisectionAssumption ==
  /\ HonestRoles \subseteq SUBSET Role
  /\ TraceLength \subseteq Nat \ {0}
  /\ window \in Nat
  /\ Reaction \in Nat
  /\ MaxTime \in Nat

VARIABLES
  now,
  honest,       \* the roles that are played honestly
  d,            \* the Dispute record
  trace_length, \* the length of the trace in dispute
  reach,        \* history: ARITY to the number of rounds played
  ended         \* history: how the game was resolved

gameVars == <<now, honest, d, trace_length, reach, ended>>

UNDECIDED == "undecided"
BY_PROOF == "by proof"
BY_TIMEOUT == "by timeout"

budget == clock_budget(window)

(* An honest proposer claims the state it reached; an honest verifier      *)
(* disputes only a claim that its own execution contradicts.               *)
Init ==
  /\ now = 0
  /\ honest \in HonestRoles
  /\ trace_length \in TraceLength
  /\ \E claim \in Commitment :
       /\ DEFENDER \in honest => claim = HONEST
       /\ CHALLENGER \in honest => claim = FORGED
       /\ d = new_dispute(trace_length, claim, window, 0)
  /\ reach = 1
  /\ ended = UNDECIDED

-----------------------------------------------------------------------------
(* relayer::defend: the commitments of honest execution.                   *)
HonestDissection(commitments) ==
  \A i \in 1..Len(commitments) : commitments[i] = HONEST

(* watcher::play: the first segment whose end is not what it computed; the *)
(* last one when it agrees with everything offered.                        *)
HonestSelection(index) ==
  /\ \A i \in 1..index : commitment_at(d, i) = HONEST
  /\ \/ commitment_at(d, index + 1) # HONEST
     \/ index = segments(d.lo, d.hi) - 1

Dissect ==
  \E commitments \in [1..(segments(d.lo, d.hi) - 1) -> Commitment] :
    /\ can_dissect(d, commitments, now)
    /\ DEFENDER \in honest => HonestDissection(commitments)
    /\ d' = dissect(d, commitments, now)
    /\ UNCHANGED <<now, honest, trace_length, reach, ended>>

Select ==
  \E index \in 0..(segments(d.lo, d.hi) - 1) :
    /\ can_select(d, index, now)
    /\ CHALLENGER \in honest => HonestSelection(index)
    /\ d' = select(d, index, now)
    /\ reach' = reach * ARITY
    /\ UNCHANGED <<now, honest, trace_length, ended>>

OneStep ==
  /\ can_one_step(d, now)
  /\ \E winner \in adjudications(d) : d' = one_step(d, winner, now)
  /\ ended' = BY_PROOF
  /\ UNCHANGED <<now, honest, trace_length, reach>>

ClaimTimeout ==
  /\ can_claim_timeout(d, now)
  /\ d' = claim_timeout(d)
  /\ ended' = BY_TIMEOUT
  /\ UNCHANGED <<now, honest, trace_length, reach>>

(* An honest party answers within Reaction of the move it answers.         *)
Tick ==
  /\ now < MaxTime
  /\ d.stage # RESOLVED /\ d.turn \in honest => now - d.last_move_at < Reaction
  /\ now' = now + 1
  /\ UNCHANGED <<honest, d, trace_length, reach, ended>>

Next == Dissect \/ Select \/ OneStep \/ ClaimTimeout \/ Tick

Spec == Init /\ [][Next]_gameVars

HonestMove == d.turn \in honest /\ (Dissect \/ Select \/ OneStep)

(* Time passes, an honest party answers, and claim_timeout is              *)
(* permissionless: someone calls it.  Nothing is assumed of other parties. *)
FairSpec ==
  /\ Spec
  /\ WF_gameVars(Tick)
  /\ WF_gameVars(HonestMove)
  /\ WF_gameVars(ClaimTimeout)

-----------------------------------------------------------------------------
(* The record has its types; an offer fits the interval it divides; a game *)
(* over one step, and no other, is at the one-step stage.                  *)
TypeOK ==
  /\ now \in Nat
  /\ honest \in HonestRoles
  /\ trace_length \in TraceLength
  /\ reach \in Nat \ {0}
  /\ ended \in {UNDECIDED, BY_PROOF, BY_TIMEOUT}
  /\ d \in [lo : Nat, hi : Nat, lo_commitment : Commitment,
            hi_commitment : Commitment, offered : Seq(Commitment),
            has_offer : BOOLEAN, stage : Stage, turn : Role, deadline : Nat,
            defender_clock : Nat, challenger_clock : Nat, last_move_at : Nat,
            winner : Role \cup {NOBODY}]
  /\ d.lo < d.hi
  /\ d.last_move_at <= now
  /\ d.has_offer => Len(d.offered) = segments(d.lo, d.hi) - 1
  /\ d.stage = BISECTING => d.hi - d.lo > 1 /\ (d.has_offer <=> d.turn = CHALLENGER)
  /\ d.stage = ONE_STEP => d.hi - d.lo = 1 /\ d.turn = CHALLENGER
  /\ d.stage = RESOLVED <=> ended # UNDECIDED
  /\ d.stage = RESOLVED <=> d.winner # NOBODY

(* disputes.move: "An honest party never has to make a false claim at any  *)
(* round, so an honest party entering correctly cannot lose".  Whatever    *)
(* the other party offers or selects in every round, a game that reaches   *)
(* one_step is decided for the honest party.                               *)
HonestWinsByProof ==
  ended = BY_PROOF /\ honest # {} => d.winner \in honest

(* The two chess clocks account for all of the time the game has taken: no *)
(* move is free and none is charged twice, whatever the per-move deadlines.*)
ClocksAccountForTime ==
  d.stage # RESOLVED =>
    d.last_move_at + d.defender_clock + d.challenger_clock = 2 * budget

(* CLOCK_BUDGET_DIVISOR: "both parties together use at most half the       *)
(* window".  A game that has lasted longer than two budgets can be ended   *)
(* by anyone with claim_timeout, at whatever point it was stalled.         *)
OverlongGameIsForfeit ==
  d.stage # RESOLVED /\ now > 2 * budget => can_claim_timeout(d, now)

(* REQ-FRAUD-013: the interval shrinks by the arity every round, to within *)
(* rounding, so ARITY^rounds never exceeds the trace length by more than a *)
(* round, and no choice of segments avoids the one-step stage.             *)
LogarithmicRounds ==
  (d.hi - d.lo - 1) * reach < trace_length

(* The promise of disputes.move with the clocks included: an honest party  *)
(* that answers every move within Reaction never loses.                    *)
HonestNeverLoses ==
  d.stage = RESOLVED /\ honest # {} => d.winner \in honest

(* The defender's half of it: pass_turn computes every deadline of the     *)
(* defender from the defender's own clock, so no play of the challenger    *)
(* makes a defender that answers within Reaction run out of time.          *)
DefenderNeverLoses ==
  d.stage = RESOLVED /\ DEFENDER \in honest => d.winner = DEFENDER

(* NFR-PERF-006: a game that has been opened is resolved, even if both     *)
(* parties stop playing at any point.                                      *)
EveryGameEnds == <>(d.stage = RESOLVED)
=============================================================================
