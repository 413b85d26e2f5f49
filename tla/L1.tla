--------------------------------- MODULE L1 ---------------------------------
(***************************************************************************)
(* The assertion chain and the dispute registry together: every entry      *)
(* function of assertions.move and of disputes.move, several games at once *)
(* over several assertions, and the outcomes the games and the structural  *)
(* proofs apply to the chain (defender_won, challenger_won).               *)
(*                                                                         *)
(* Execution is a function of the parent's state root and the batch.  A    *)
(* transaction is known by its program: the number of instructions it      *)
(* compiles to, or UNCOMPILABLE.  Some parties are honest.  What that is   *)
(* is an assumption on the environment of the contracts, stated as the     *)
(* protocol has it and not as the node's loops carry it out: they post     *)
(* only what execution gives, on their own chain, defend it, dispute every *)
(* assertion that is not sound before its window closes, and make each     *)
(* move in the clock unit in which it becomes theirs.  All others do       *)
(* whatever the contracts accept.                                          *)
(***************************************************************************)
EXTENDS Assertions, DisputeGame

CONSTANTS
  Exec(_, _),       \* the root execution reaches from a root with a batch
  Program(_),       \* how many instructions a transaction compiles to
  UNCOMPILABLE,     \* ... or that it does not compile
  HonestParty,      \* the parties that follow the protocol
  LastOpen          \* bound: no challenge and no game after this time

ASSUME HonestAssumption == HonestParty \subseteq Party /\ LastOpen \in Nat

(* Start positions are integers, and a transaction that compiles has at    *)
(* least the instructions that consume its nonce and charge its fee.       *)
ASSUME BatchAssumption ==
  \A b \in Batch :
    /\ Len(b.tx_bytes) \in Nat
    /\ b.tx_starts \in Seq(Nat)
    /\ \A j \in 1..Len(b.tx_bytes) :
         Program(b.tx_bytes[j]) = UNCOMPILABLE \/ Program(b.tx_bytes[j]) \in Nat \ {0}

VARIABLES
  disputes          \* <<assertion, challenger>> -> Dispute, the registry

l1Vars == <<vars, disputes>>

L1Init == Init /\ disputes = [k \in {} |-> 0]

-----------------------------------------------------------------------------
(* What is true of an assertion, as anyone who executes its batch knows.   *)

compiles(tx) == Program(tx) # UNCOMPILABLE

(* The three structural faults of a batch, where prove_uncompilable,       *)
(* prove_start_gap and prove_trace_length accept them.                     *)
UncompilableAt(batch, index) ==
  index \in 1..Len(batch.tx_bytes) /\ ~compiles(batch.tx_bytes[index])

(* Steps that two transactions cover are not noticed.                      *)
StartGapAt_slip(batch, index) ==
  /\ index \in 1..(Len(batch.tx_bytes) - 1)
  /\ compiles(batch.tx_bytes[index]) =>
       batch.tx_starts[index + 1]
         > batch.tx_starts[index] + Program(batch.tx_bytes[index])

StartGapAt(batch, index) ==
  /\ index \in 1..(Len(batch.tx_bytes) - 1)
  /\ compiles(batch.tx_bytes[index]) =>
       batch.tx_starts[index + 1]
         # batch.tx_starts[index] + Program(batch.tx_bytes[index])

WrongTraceLength(batch, trace_length) ==
  LET last == Len(batch.tx_bytes)
  IN  /\ last > 0
      /\ compiles(batch.tx_bytes[last]) =>
           batch.tx_starts[last] + Program(batch.tx_bytes[last]) # trace_length

StructuralFault(batch, trace_length) ==
  \/ WrongTraceLength(batch, trace_length)
  \/ \E index \in 1..Len(batch.tx_bytes) :
       UncompilableAt(batch, index) \/ StartGapAt(batch, index)

SoundClaim(pre, batch, trace_length, root) ==
  ~StructuralFault(batch, trace_length) /\ root = Exec(pre, batch)

Faulty(id) == StructuralFault(assertions[id].batch, assertions[id].trace_length)

Sound(id) ==
  \/ id = Genesis
  \/ SoundClaim(assertions[assertions[id].parent].post_state_root,
                assertions[id].batch, assertions[id].trace_length,
                assertions[id].post_state_root)

-----------------------------------------------------------------------------
(* The dispute registry.                                                   *)

has_open_challenge(id, who) == who \in DOMAIN challenges[id]

(* A registry entry is added once per assertion and challenger: a second   *)
(* table::add under the same dispute_id aborts.                            *)
open(who, id) ==
  LET key == <<id, who>>
      game == new_dispute(assertions[id].trace_length,
                          IF Sound(id) THEN HONEST ELSE FORGED,
                          challenge_window, now)
  IN  /\ now <= LastOpen
      /\ assertions[id].status = CHALLENGED
      /\ has_open_challenge(id, who)
      /\ assertions[id].trace_length > 0
      /\ key \notin DOMAIN disputes
      /\ disputes' = [k \in DOMAIN disputes \cup {key} |->
                        IF k = key THEN game ELSE disputes[k]]
      /\ UNCHANGED vars

Dissect(key) ==
  LET d == disputes[key]
      honest == assertions[key[1]].proposer \in HonestParty
  IN  \E commitments \in [1..(segments(d.lo, d.hi) - 1) -> Commitment] :
        /\ can_dissect(d, commitments, now)
        /\ honest => \A i \in 1..Len(commitments) : commitments[i] = HONEST
        /\ disputes' = [disputes EXCEPT ![key] = dissect(d, commitments, now)]
        /\ UNCHANGED vars

Select(key) ==
  LET d == disputes[key]
      honest == key[2] \in HonestParty
  IN  \E index \in 0..(segments(d.lo, d.hi) - 1) :
        /\ can_select(d, index, now)
        /\ honest => /\ \A i \in 1..index : commitment_at(d, i) = HONEST
                     /\ commitment_at(d, index + 1) # HONEST
        /\ disputes' = [disputes EXCEPT ![key] = select(d, index, now)]
        /\ UNCHANGED vars

(* The outcome is applied even to an assertion that is already rejected.   *)
resolve_internal_moot_slip(key, game) ==
  /\ disputes' = [disputes EXCEPT ![key] = game]
  /\ IF game.winner = CHALLENGER
     THEN challenger_won(key[1], key[2])
     ELSE defender_won(key[1], key[2])

(* The registry records the outcome; the chain applies it, unless another  *)
(* challenger has had the assertion rejected in the meantime.              *)
resolve_internal(key, game) ==
  /\ disputes' = [disputes EXCEPT ![key] = game]
  /\ \/ /\ assertions[key[1]].status = REJECTED
        /\ UNCHANGED vars
     \/ /\ assertions[key[1]].status # REJECTED
        /\ IF game.winner = CHALLENGER
           THEN challenger_won(key[1], key[2])
           ELSE defender_won(key[1], key[2])

(* Who wins with the leaves the challenger may present for step pc: any    *)
(* leaf that does not compile wins; a leaf that covers the step has it     *)
(* executed; with no such leaf the call aborts.  When the batch is not     *)
(* structurally sound, execution is not defined and either party may win.  *)
one_step_winners(id, d) ==
  LET b == assertions[id].batch
      covered == \E i \in 1..Len(b.tx_bytes) :
                   /\ compiles(b.tx_bytes[i])
                   /\ b.tx_starts[i] <= d.lo
                   /\ d.lo < b.tx_starts[i] + Program(b.tx_bytes[i])
  IN  {w \in Role :
         \/ w = CHALLENGER /\ \E i \in 1..Len(b.tx_bytes) : UncompilableAt(b, i)
         \/ covered /\ (Faulty(id) \/ w \in adjudications(d))}

OneStep(key) ==
  LET d == disputes[key]
  IN  /\ can_one_step(d, now)
      /\ \E winner \in one_step_winners(key[1], d) :
           resolve_internal(key, one_step(d, winner, now))

ClaimTimeout(key) ==
  /\ can_claim_timeout(disputes[key], now)
  /\ resolve_internal(key, claim_timeout(disputes[key]))

apply_structural_win(id, who) ==
  /\ has_open_challenge(id, who)
  /\ challenger_won(id, who)
  /\ disputes' = [k \in DOMAIN disputes |->
                    IF k = <<id, who>> THEN resolve(disputes[k], CHALLENGER)
                    ELSE disputes[k]]

prove_uncompilable(who, id, index) ==
  UncompilableAt(assertions[id].batch, index) /\ apply_structural_win(id, who)

prove_start_gap(who, id, index) ==
  StartGapAt(assertions[id].batch, index) /\ apply_structural_win(id, who)

prove_trace_length(who, id) ==
  /\ WrongTraceLength(assertions[id].batch, assertions[id].trace_length)
  /\ apply_structural_win(id, who)

-----------------------------------------------------------------------------
(* The callers.  An honest proposer posts what execution gives, on its own *)
(* chain; an honest verifier disputes what is not sound and nothing else.  *)

L1Post ==
  /\ \E p \in Party, parent \in Ids, r \in Root, b \in Batch, bond \in Bond :
     \E timestamp \in 0..LastTimestamp, trace_length \in TraceLength :
       /\ p \in HonestParty =>
            /\ parent = Genesis \/ assertions[parent].proposer = p
            /\ SoundClaim(assertions[parent].post_state_root, b, trace_length, r)
       /\ post(p, parent, r, b, timestamp, trace_length, bond)
  /\ UNCHANGED disputes

L1OpenChallenge ==
  /\ now <= LastOpen
  /\ \E p \in Party, i \in Ids, bond \in Bond :
       /\ p \in HonestParty => ~Sound(i)
       /\ open_challenge(p, i, bond)
  /\ UNCHANGED disputes

Unresolved(key) == disputes[key].stage # RESOLVED

(* What an honest party does before the clock moves on: dispute an unsound *)
(* assertion while its window is open, go on with a challenge it has open, *)
(* answer a game over its own assertion.                                   *)
MustDispute(p, i) ==
  /\ Live(i) /\ ~Sound(i)
  /\ ~has_open_challenge(i, p)
  /\ wallet[p] >= minimum_bond
  /\ now + 1 >= assertions[i].posted_at + challenge_window

MustProceed(p, i) ==
  /\ has_open_challenge(i, p)
  /\ \/ Faulty(i)
     \/ <<i, p>> \notin DOMAIN disputes
     \/ can_move(disputes[<<i, p>>], CHALLENGER, now)

MustDefend(p, key) ==
  /\ assertions[key[1]].proposer = p
  /\ assertions[key[1]].status = CHALLENGED
  /\ can_move(disputes[key], DEFENDER, now)

L1Tick ==
  /\ \A p \in HonestParty :
       /\ \A i \in Ids : ~MustDispute(p, i) /\ ~MustProceed(p, i)
       /\ \A key \in DOMAIN disputes : ~MustDefend(p, key)
  /\ Tick
  /\ UNCHANGED disputes

L1Finalize(i) == finalize(i) /\ UNCHANGED disputes

Open == \E p \in Party, i \in Ids : open(p, i)

StructuralProof ==
  \E p \in Party, i \in Ids :
    \/ prove_trace_length(p, i)
    \/ \E index \in 1..Len(assertions[i].batch.tx_bytes) :
         prove_uncompilable(p, i, index) \/ prove_start_gap(p, i, index)

Move(key) == Dissect(key) \/ Select(key) \/ OneStep(key)

L1Next ==
  \/ L1Tick
  \/ L1Post
  \/ L1OpenChallenge
  \/ Open
  \/ StructuralProof
  \/ \E key \in DOMAIN disputes : Move(key) \/ ClaimTimeout(key)
  \/ \E i \in Ids : L1Finalize(i)

L1Spec == L1Init /\ [][L1Next]_l1Vars

(* Time passes and anyone may claim a timeout; nothing else is assumed.    *)
L1FairSpec ==
  /\ L1Spec
  /\ WF_l1Vars(L1Tick)
  /\ \A i \in 1..MaxAssertions, p \in Party :
       WF_l1Vars(<<i, p>> \in DOMAIN disputes /\ ClaimTimeout(<<i, p>>))

-----------------------------------------------------------------------------
(* NFR-SEC-007: no invalid state root is finalized while one honest party  *)
(* verifies and can reach L1 within the window, not even when others       *)
(* challenge first and lose on purpose (defender_won), and whatever was    *)
(* posted above or below the unsound assertion.                            *)
UnsoundNeverFinal ==
  HonestParty # {} =>
    \A i \in Ids : assertions[i].status = FINALIZED => Sound(i)

(* The converse, for the proposer: what an honest party posts on its own   *)
(* chain is never rejected, whoever challenges it and however they play.   *)
HonestNeverRejected ==
  \A i \in Ids :
    assertions[i].proposer \in HonestParty => assertions[i].status # REJECTED

(* "Bisection assumes every step is covered by exactly one transaction": a *)
(* batch that passes check_batch_shape tiles its trace exactly when none of*)
(* the three structural proofs succeeds against it.                        *)
StructuralProofsDecide ==
  \A i \in Ids :
    LET b == assertions[i].batch
        covers(j, pc) == /\ b.tx_starts[j] <= pc
                         /\ pc < b.tx_starts[j] + Program(b.tx_bytes[j])
        txs == 1..Len(b.tx_bytes)
    IN  ~Faulty(i) <=>
          /\ \A j \in txs : compiles(b.tx_bytes[j])
          /\ \A pc \in 0..(assertions[i].trace_length - 1) :
               Cardinality({j \in txs : covers(j, pc)}) = 1
          /\ \A j \in txs : ~covers(j, assertions[i].trace_length)

(* Every game that is opened is resolved in the end, even when both of its *)
(* parties stop, and even when the assertion falls in another game.        *)
EveryGameConcludes ==
  \A i \in 1..MaxAssertions, p \in Party :
    <<i, p>> \in DOMAIN disputes ~>
      (<<i, p>> \in DOMAIN disputes /\ ~Unresolved(<<i, p>>))

(* NFR-PERF-006: "A complete dispute, from challenge to on-L1 resolution,  *)
(* SHALL conclude within a bounded time".  A challenge whose game has been *)
(* opened is decided in the end.                                           *)
EveryDisputeConcludes ==
  \A i \in 1..MaxAssertions, p \in Party :
    (<<i, p>> \in DOMAIN disputes /\ has_open_challenge(i, p))
      ~> (i \in Ids /\ ~has_open_challenge(i, p))

(* CLOCK_BUDGET_DIVISOR: "both parties together use at most half the       *)
(* window and a dispute always concludes while the window is still open".  *)
DisputeFitsWindow ==
  \A key \in DOMAIN disputes :
    Unresolved(key) /\ now >= assertions[key[1]].posted_at + challenge_window
      => can_claim_timeout(disputes[key], now)
=============================================================================
