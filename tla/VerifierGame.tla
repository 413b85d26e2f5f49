---------------------------- MODULE VerifierGame ----------------------------
(***************************************************************************)
(* The dispute game as the node plays it in its own process: the game of   *)
(* crates/sena-fraudproof/src/bisection.rs, the player and the check of    *)
(* verifier.rs, the adjudication of osp.rs and the verifier of             *)
(* crates/sena-node/src/verifier_node.rs.  The same moves are made in a    *)
(* second game that follows the L1 contract (DisputeGame), so that the two *)
(* implementations can be compared move by move.                           *)
(*                                                                         *)
(* A machine state is a root and a position; a commitment is an injective  *)
(* hash of it, and is the state itself here.  An instruction is what one   *)
(* step does to each root, STUCK where it cannot execute.  An operation    *)
(* that takes &mut self and can fail is the dispute it leaves behind.      *)
(***************************************************************************)
EXTENDS Integers, Sequences

CONSTANTS
  ARITY, MOVE_TIMEOUT, CLOCK_BUDGET_DIVISOR,   \* of the game, as on L1
  Roots, genesis_root, STUCK,
  Programs,       \* the batches, each compiled to its instructions
  TraceLengths,   \* the lengths an assertion may claim, right or wrong
  window,         \* the challenge window
  Reaction,       \* how long the honest player takes to move
  MaxBlocks,      \* how many blocks are followed
  MaxTime         \* when the clock of the model stops

ASSUME VerifierAssumption ==
  /\ ARITY \in Nat \ {0, 1} /\ MOVE_TIMEOUT \in Nat /\ CLOCK_BUDGET_DIVISOR \in Nat \ {0}
  /\ window \in Nat
  /\ TraceLengths \subseteq Nat \ {0}
  /\ \A program \in Programs : Len(program) \in Nat \ {0}

VARIABLES
  node,    \* the VerifierNode: its state and the trace it last computed
  games,   \* the one game in progress: the Rust dispute and the L1 dispute
  blocks,  \* how many blocks were followed
  now

gameVars == <<node, games, blocks, now>>

Move == INSTANCE DisputeGame

None == <<>>
opposite(party) == IF party = "defender" THEN "challenger" ELSE "defender"
at_most(a, b) == IF a <= b THEN a ELSE b
-----------------------------------------------------------------------------
(* ExecutionTrace: the root before each step and at the end.               *)
MachineState(root, pc) == [state_root |-> root, pc |-> pc]

execute_trace(program, pre) ==
  LET root[i \in 0..Len(program)] ==
        IF i = 0 THEN pre
        ELSE IF root[i - 1] = STUCK THEN STUCK ELSE program[i][root[i - 1]]
  IN  root

executable(program, pre) == execute_trace(program, pre)[Len(program)] # STUCK

TracePlayer(program, pre) == [program |-> program, roots |-> execute_trace(program, pre)]

(* Beyond the trace, the final state.                                      *)
state_at(p, step) ==
  LET i == at_most(step, Len(p.program)) IN MachineState(p.roots[i], i)

final_root(p) == p.roots[Len(p.program)]

check_assertion(claim, p) ==
  IF claim.post_state_root # final_root(p) THEN "RootDiverges"
  ELSE IF claim.trace_length # Len(p.program) THEN "TraceLengthDiverges"
  ELSE "Agrees"
-----------------------------------------------------------------------------
(* The Dispute.                                                            *)
rust_budget(challenge_window) == challenge_window \div CLOCK_BUDGET_DIVISOR

segment_count(lo, hi) == IF hi = lo THEN 1 ELSE at_most(ARITY, hi - lo)

(* The remainder goes to the last segment.                                 *)
boundaries_slip(lo, hi) ==
  [i \in 0..segment_count(lo, hi) |->
     IF i = segment_count(lo, hi) THEN hi
     ELSE lo + ((hi - lo) \div segment_count(lo, hi)) * i]

boundaries(lo, hi) ==
  [i \in 0..segment_count(lo, hi) |-> lo + ((hi - lo) * i) \div segment_count(lo, hi)]

dissection_len(d) == segment_count(d.lo, d.hi) - 1

narrowed(d) ==
  IF d.hi - d.lo = 1 THEN [d EXCEPT !.stage = "one_step", !.turn = "challenger"] ELSE d

open(trace_length, lo_commitment, hi_commitment) ==
  LET budget == rust_budget(window)
  IN  narrowed([lo |-> 0, hi |-> trace_length,
                lo_commitment |-> lo_commitment, hi_commitment |-> hi_commitment,
                stage |-> "bisecting", offered |-> None, winner |-> "nobody", reason |-> "none",
                turn |-> "defender", deadline |-> now + at_most(MOVE_TIMEOUT, budget),
                clock_budget |-> budget,
                clocks |-> [party \in {"defender", "challenger"} |-> budget],
                last_move_at |-> now])

ended(d, winner, reason) ==
  [d EXCEPT !.stage = "resolved", !.winner = winner, !.reason = reason]

over(d) == d.stage = "resolved"

(* A late move ends the game for the opponent; a move in time is charged,  *)
(* and stays charged when what follows refuses it.                         *)
elapsed(d) == now - d.last_move_at

late(d) == now > d.deadline

exhausted(d, party) == elapsed(d) > d.clocks[party]

may_move(d, party) ==
  ~over(d) /\ elapsed(d) >= 0 /\ d.turn = party /\ ~late(d) /\ ~exhausted(d, party)

charged(d, party) ==
  IF over(d) \/ elapsed(d) < 0 \/ d.turn # party THEN d
  ELSE IF late(d) THEN ended(d, opposite(party), "timeout")
  ELSE IF exhausted(d, party) THEN ended(d, opposite(party), "clock")
  ELSE [d EXCEPT !.clocks[party] = @ - elapsed(d)]

(* The deadline comes from the whole budget, not from what is left of it.  *)
turn_passed(d) ==
  [d EXCEPT !.turn = opposite(@), !.last_move_at = now,
            !.deadline = now + at_most(MOVE_TIMEOUT, d.clock_budget)]

dissect(d, commitments) ==
  IF /\ may_move(d, "defender")
     /\ d.stage = "bisecting"
     /\ Len(commitments) = dissection_len(d)
  THEN turn_passed([charged(d, "defender") EXCEPT !.offered = <<commitments>>])
  ELSE charged(d, "defender")

(* The commitments at the boundaries: the agreed one, those offered for    *)
(* the interior, and the disputed one.                                     *)
ends(d) == <<d.lo_commitment>> \o d.offered[1] \o <<d.hi_commitment>>

select(d, index) ==
  IF /\ may_move(d, "challenger")
     /\ d.stage = "bisecting"
     /\ d.offered # None
     /\ index < segment_count(d.lo, d.hi)
  THEN narrowed(turn_passed([charged(d, "challenger") EXCEPT
         !.lo = boundaries(d.lo, d.hi)[index],
         !.hi = boundaries(d.lo, d.hi)[index + 1],
         !.lo_commitment = ends(d)[index + 1],
         !.hi_commitment = ends(d)[index + 2],
         !.offered = None]))
  ELSE charged(d, "challenger")

resolve_by_one_step(d, winner) == ended(d, winner, "one_step")

check_timeout_slip(d) == IF over(d) \/ ~late(d) THEN d ELSE ended(d, d.turn, "timeout")

check_timeout(d) ==
  IF over(d) \/ ~late(d) THEN d ELSE ended(d, opposite(d.turn), "timeout")
-----------------------------------------------------------------------------
(* The honest player: it publishes its own states, names the first end it  *)
(* does not agree with, and proves the step that is left.                  *)
player_dissection(p, d) ==
  [i \in 1..dissection_len(d) |-> state_at(p, boundaries(d.lo, d.hi)[i])]

disagreements(p, d) ==
  {i \in 0..(segment_count(d.lo, d.hi) - 1) :
     state_at(p, boundaries(d.lo, d.hi)[i + 1]) # ends(d)[i + 2]}

first_disagreement_slip(p, d) ==
  CHOOSE i \in disagreements(p, d) : \A j \in disagreements(p, d) : i >= j

first_disagreement(p, d) ==
  CHOOSE i \in disagreements(p, d) : \A j \in disagreements(p, d) : i <= j

can_play(p, d, role) ==
  role = "challenger" => /\ d.stage = "bisecting"
                         /\ d.offered # None
                         /\ disagreements(p, d) # {}

(* Its state before the step with a witness of the slot the step touches;  *)
(* nothing for a step outside its own trace.                               *)
can_prove(p, d) == d.stage = "one_step" /\ d.lo < Len(p.program)

one_step_proof(p, d) == [pre_state |-> state_at(p, d.lo), witness |-> "sound"]

(* verify_step executes the one instruction; the challenger answers for a  *)
(* proof that does not fit, the defender for a step that cannot execute.   *)
adjudicate(program, d, proof) ==
  IF proof.pre_state # d.lo_commitment THEN "defender"
  ELSE IF d.lo >= Len(program) THEN "challenger"
  ELSE IF proof.witness # "sound" THEN "defender"
  ELSE LET post == program[d.lo + 1][proof.pre_state.state_root]
       IN  IF /\ post # STUCK
              /\ MachineState(post, proof.pre_state.pc + 1) = d.hi_commitment
           THEN "defender" ELSE "challenger"
-----------------------------------------------------------------------------
(* A game: the dispute here and on L1, who plays honestly and with which   *)
(* trace, whether that trace is of the disputed batch, and who was charged *)
(* for a move that was refused.                                            *)
opening(role, p, program, claim, own) ==
  LET lo == state_at(p, 0)
      hi == MachineState(claim.post_state_root, claim.trace_length)
  IN  <<[rust |-> open(claim.trace_length, lo, hi),
         l1 |-> [Move!new_dispute(claim.trace_length, hi, window, now)
                   EXCEPT !.lo_commitment = lo],
         role |-> role, player |-> p, program |-> program, claim |-> claim,
         own |-> own, refused |-> {}]>>

GameInit ==
  /\ node = [state |-> genesis_root, last_trace |-> None]
  /\ games = None
  /\ blocks = 0
  /\ now = 0

(* follow, then open_dispute when the outcome warrants a challenge: with   *)
(* the trace just computed, or with the last one when there is none.       *)
Follow(program, claim) ==
  LET p == TracePlayer(program, node.state)
  IN  /\ games = None
      /\ blocks < MaxBlocks
      /\ blocks' = blocks + 1
      /\ \/ /\ ~executable(program, node.state)
            /\ games' = IF node.last_trace = None THEN None
                        ELSE opening("challenger", node.last_trace[1], program, claim, FALSE)
            /\ UNCHANGED node
         \/ /\ executable(program, node.state)
            /\ check_assertion(claim, p) = "Agrees"
            /\ node' = [state |-> final_root(p), last_trace |-> <<p>>]
            /\ UNCHANGED games
         \/ /\ executable(program, node.state)
            /\ check_assertion(claim, p) # "Agrees"
            /\ node' = [node EXCEPT !.last_trace = <<p>>]
            /\ games' = opening("challenger", p, program, claim, TRUE)
      /\ UNCHANGED now

(* Somebody challenges an assertion of the honest proposer.                *)
Contest(program) ==
  LET p == TracePlayer(program, node.state)
  IN  /\ games = None
      /\ blocks < MaxBlocks
      /\ executable(program, node.state)
      /\ games' = opening("defender", p, program,
                          [post_state_root |-> final_root(p),
                           trace_length |-> Len(program)], TRUE)
      /\ blocks' = blocks + 1
      /\ UNCHANGED <<node, now>>

playing == games # None /\ ~over(games[1].rust)
g == games[1]

charged_in_vain(before, after) ==
  {party \in {"defender", "challenger"} :
     /\ after.clocks[party] # before.clocks[party]
     /\ after.last_move_at = before.last_move_at}

become(rust, l1) ==
  /\ games' = <<[g EXCEPT !.rust = rust, !.l1 = l1,
                         !.refused = @ \cup charged_in_vain(g.rust, rust)]>>
  /\ UNCHANGED <<node, blocks, now>>

(* A move is made in both games; the contract aborts where it refuses.     *)
Dissect(commitments) ==
  become(dissect(g.rust, commitments),
         IF Move!can_dissect(g.l1, commitments, now)
         THEN Move!dissect(g.l1, commitments, now) ELSE g.l1)

Select(index) ==
  become(select(g.rust, index),
         IF Move!can_select(g.l1, index, now) THEN Move!select(g.l1, index, now) ELSE g.l1)

Prove(proof) ==
  LET winner == adjudicate(g.program, g.rust, proof)
  IN  /\ g.rust.stage = "one_step"
      /\ become(resolve_by_one_step(g.rust, winner),
                IF Move!can_one_step(g.l1, now) THEN Move!one_step(g.l1, winner, now) ELSE g.l1)

CheckTimeout ==
  /\ playing
  /\ late(g.rust)
  /\ become(check_timeout(g.rust),
            IF Move!can_claim_timeout(g.l1, now) THEN Move!claim_timeout(g.l1) ELSE g.l1)

(* TracePlayer::play, and the proof once one step is left.                 *)
honest_turn == playing /\ g.rust.turn = g.role

HonestPlay ==
  /\ honest_turn
  /\ g.rust.stage = "bisecting"
  /\ can_play(g.player, g.rust, g.role)
  /\ \/ g.role = "defender" /\ Dissect(player_dissection(g.player, g.rust))
     \/ g.role = "challenger" /\ Select(first_disagreement(g.player, g.rust))

HonestProve ==
  /\ honest_turn
  /\ can_prove(g.player, g.rust)
  /\ Prove(one_step_proof(g.player, g.rust))

(* The opponent commits to any state, names any segment and proves with    *)
(* anything; a division of the wrong length and a segment that does not    *)
(* exist are refused.                                                      *)
claimable(position) ==
  {MachineState(r, position) : r \in Roots} \cup {state_at(g.player, Len(g.player.program))}

OtherDissects ==
  /\ playing
  /\ g.role = "challenger"
  /\ g.rust.turn = "defender"
  /\ LET n == dissection_len(g.rust)
         at == boundaries(g.rust.lo, g.rust.hi)
     IN  \/ \E commitments \in [1..n -> UNION {claimable(at[i]) : i \in 1..n}] :
              /\ \A i \in 1..n : commitments[i] \in claimable(at[i])
              /\ Dissect(commitments)
         \/ Dissect([i \in 1..(n + 1) |-> g.rust.hi_commitment])

OtherSelects ==
  /\ playing
  /\ g.role = "defender"
  /\ g.rust.turn = "challenger"
  /\ \E index \in 0..segment_count(g.rust.lo, g.rust.hi) : Select(index)

OtherProves ==
  /\ playing
  /\ g.role = "defender"
  /\ \E pre \in {g.rust.lo_commitment, g.rust.hi_commitment}, witness \in {"sound", "bad"} :
       Prove([pre_state |-> pre, witness |-> witness])

(* The honest player moves within Reaction and somebody looks at the       *)
(* deadline in every unit of time.                                         *)
GameTick ==
  /\ playing
  /\ now < MaxTime
  /\ ~late(g.rust)
  /\ honest_turn /\ (can_play(g.player, g.rust, g.role) \/ can_prove(g.player, g.rust))
       => elapsed(g.rust) < Reaction
  /\ now' = now + 1
  /\ UNCHANGED <<node, games, blocks>>

GameNext ==
  \/ \E program \in Programs :
       \/ \E root \in Roots, length \in TraceLengths :
            Follow(program, [post_state_root |-> root, trace_length |-> length])
       \/ Contest(program)
  \/ HonestPlay
  \/ HonestProve
  \/ OtherDissects
  \/ OtherSelects
  \/ OtherProves
  \/ CheckTimeout
  \/ GameTick

GameSpec == GameInit /\ [][GameNext]_gameVars
-----------------------------------------------------------------------------
(* While both run, the game here stands where the game on L1 stands after  *)
(* the same moves, accepted and refused: same interval, commitments,       *)
(* stage and turn.  Nobody has more time left here, for a refused move is  *)
(* charged here and rolled back there; and no deadline here is earlier.    *)
GamesAgree ==
  playing /\ g.l1.stage # "resolved" =>
    LET d == g.rust
        m == g.l1
    IN  /\ <<d.lo, d.hi, d.lo_commitment, d.hi_commitment, d.stage, d.turn>>
             = <<m.lo, m.hi, m.lo_commitment, m.hi_commitment, m.stage, m.turn>>
        /\ m.has_offer = (d.offered # None)
        /\ m.has_offer => d.offered[1] = m.offered
        /\ d.clocks["defender"] <= m.defender_clock
        /\ d.clocks["challenger"] <= m.challenger_clock
        /\ m.deadline <= d.deadline

(* Who wins here also wins on L1, or can claim the win there, save for the *)
(* two differences between the implementations: a proof that comes too     *)
(* late there still decides here, and a party that ran out of time here    *)
(* may have been charged for moves that were refused.                      *)
SameWinner ==
  games # None /\ over(g.rust) =>
    LET d == g.rust
        m == g.l1
        claims == Move!can_claim_timeout(m, now) /\ d.winner = opposite(m.turn)
    IN  \/ m.winner = d.winner
        \/ claims
        \/ d.reason = "one_step" /\ Move!can_claim_timeout(m, now)
        \/ d.reason = "clock" /\ opposite(d.winner) \in g.refused

(* The player that answers only from a trace it computed does not lose:    *)
(* not the proposer of a right assertion, and not the verifier, whatever   *)
(* the opponent commits to, names, proves or leaves undone.  The verifier  *)
(* must hold a trace of the disputed batch, which it does not when that    *)
(* batch stops executing; the asserted length must lie inside its trace,   *)
(* or it has no proof of the step that does not exist; and it must         *)
(* disagree with the asserted state at that length.                        *)
Winnable ==
  g.role = "challenger" =>
    /\ g.own
    /\ g.claim.trace_length <= Len(g.program)
    /\ state_at(g.player, g.claim.trace_length)
         # MachineState(g.claim.post_state_root, g.claim.trace_length)

HonestPlayerWins ==
  games # None /\ Winnable => g.rust.winner \in {"nobody", g.role}
=============================================================================
