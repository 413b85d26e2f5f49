----------------------------- MODULE LocalChain -----------------------------
(***************************************************************************)
(* The in-process assertion chain over its whole life: assertions posted,  *)
(* challenged by several parties, decided either way and finalized, in any *)
(* order (the operations of crates/sena-fraudproof/src/assertion.rs).  It  *)
(* keeps the same promise as the chain on L1: it implements Settlement.    *)
(***************************************************************************)
EXTENDS AssertionChain, FiniteSets, TLC

CONSTANTS
  PostRoots,      \* the roots an assertion may claim
  Contestants,    \* who may challenge
  MaxPosted,      \* how many assertions are posted
  MaxChainTime    \* when the clock of the chain stops

VARIABLES
  chain,      \* the AssertionChain
  contests    \* the challenges opened and not decided

chainVars == <<chain, contests>>

start_root == CHOOSE r \in PostRoots : TRUE

ChainInit == chain = new_chain(start_root) /\ contests = {}

PostedIds == DOMAIN chain.records

Advance ==
  /\ chain.now < MaxChainTime
  /\ chain' = advance_to(chain, chain.now + 1)
  /\ UNCHANGED contests

(* The batch commitment covers the height, so that no batch is asserted    *)
(* twice; it is the number of assertions here.                             *)
PostOne(parent, pre, post_root, bond) ==
  LET a == [parent |-> parent, proposer |-> 1, pre_state_root |-> pre,
            post_state_root |-> post_root, batch_commitment |-> Cardinality(PostedIds),
            trace_length |-> 1, bond |-> bond]
  IN  /\ Cardinality(PostedIds) <= MaxPosted
      /\ can_post(chain, a)
      /\ chain' = post(chain, a)
      /\ UNCHANGED contests

OpenChallenge(id, who) ==
  /\ can_open_challenge(chain, id)
  /\ <<id, who>> \notin contests
  /\ chain' = open_challenge(chain, id)
  /\ contests' = contests \cup {<<id, who>>}

DefenderWon(id, who) ==
  /\ <<id, who>> \in contests
  /\ can_resolve(chain, id)
  /\ chain' = defender_won(chain, id)
  /\ contests' = contests \ {<<id, who>>}

ChallengerWon(id, who) ==
  /\ <<id, who>> \in contests
  /\ can_resolve(chain, id)
  /\ chain' = challenger_won(chain, id)
  /\ contests' = contests \ {<<id, who>>}

FinalizeOne(id) ==
  /\ can_finalize(chain, id)
  /\ chain' = finalize(chain, id)
  /\ UNCHANGED contests

ChainNext ==
  \/ Advance
  \/ \E id \in PostedIds :
       \/ \E pre, post_root \in PostRoots, bond \in {minimum_bond, minimum_bond - 1} :
            PostOne(id, pre, post_root, bond)
       \/ FinalizeOne(id)
       \/ \E who \in Contestants :
            OpenChallenge(id, who) \/ DefenderWon(id, who) \/ ChallengerWon(id, who)

ChainSpec == ChainInit /\ [][ChainNext]_chainVars
-----------------------------------------------------------------------------
(* The assertions that can be posted at all: the genesis, and those that   *)
(* build on one that can be, with a later batch.                           *)
later_batches(p) ==
  (IF p.batch_commitment = ZERO THEN 1 ELSE p.batch_commitment + 1)..MaxPosted

children(claims) ==
  UNION {{[parent |-> p, proposer |-> 1, pre_state_root |-> p.post_state_root,
           post_state_root |-> r, batch_commitment |-> k,
           trace_length |-> 1, bond |-> minimum_bond] :
            r \in PostRoots, k \in later_batches(p)} : p \in claims}

generation[n \in 0..MaxPosted] ==
  IF n = 0 THEN {genesis_assertion(start_root)} ELSE children(generation[n - 1])

Conceivable == UNION {generation[n] : n \in 0..MaxPosted}

(* The zero hash is the hash of no assertion.                              *)
ASSUME LocalAssumption == MaxPosted \in Nat /\ ZERO \notin Conceivable

fate_of(s) == CASE s = "finalized" -> "final"
                [] s = "rejected" -> "void"
                [] OTHER -> "open"

Promise ==
  INSTANCE Settlement WITH
    Claim <- Conceivable, RootClaim <- genesis_assertion(start_root), NoClaim <- ZERO,
    parent <- [id \in PostedIds |-> id.parent],
    fate <- [id \in PostedIds |-> fate_of(status(chain, id))]

(* What the chain promises: finality only on a final parent, a rejected    *)
(* assertion takes all that builds on it, and no fate is taken back,       *)
(* whatever the order of posts, challenges, verdicts and finalizations.    *)
ChainKeepsPromise == Promise!Spec

(* An assertion under an undecided challenge is not final and cannot       *)
(* become so: one challenge that fails does not clear the others.          *)
ContestedNotFinal ==
  \A c \in contests : /\ status(chain, c[1]) # "finalized"
                      /\ ~can_finalize(chain, c[1])
=============================================================================
