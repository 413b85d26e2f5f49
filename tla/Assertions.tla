----------------------------- MODULE Assertions -----------------------------
(***************************************************************************)
(* The bonded assertion chain on Aptos L1, move/sena/sources/              *)
(* assertions.move.  An assertion claims that a published batch takes its  *)
(* parent's state root to a new one; it is posted with a bond, may be      *)
(* challenged by anyone else with a bond, and becomes final only when its  *)
(* parent is final, its window has elapsed and no challenge is open.       *)
(*                                                                         *)
(* An assertion's id is a hash of its content.  Here it is the place of    *)
(* the assertion in the module's `order` vector: the n-th assertion posted *)
(* is n, genesis is 1.  A post whose content is already on the chain would *)
(* have the same hash, and aborts.                                         *)
(*                                                                         *)
(* A definition whose name has the form f_slip is a wrong version of f, as *)
(* a mistake in the code would have it; no specification uses it.  README  *)
(* says which property tells each of them from f.                          *)
(*                                                                         *)
(* The dispute module decides challenges and reports them with the friend  *)
(* functions defender_won and challenger_won.  This module lets it report  *)
(* any outcome of any open challenge at any time; L1 composes the chain    *)
(* with the games that decide the outcomes.                                *)
(***************************************************************************)
EXTENDS Integers, Sequences, FiniteSets, FiniteSetsExt

CONSTANTS
  Party,            \* addresses that post and challenge
  Treasury,         \* the address that receives what winners are not paid
  Admin,            \* the address that initialised the chain
  Root,             \* state roots
  GenesisRoot,      \* the state root of genesis
  Batch,            \* the batch data a proposer may publish
  TraceLength,      \* the trace lengths a proposer may claim
  Bond,             \* the bonds a caller may offer
  minimum_bond,
  requested_window, \* the window and the batch age `initialize` is called with
  requested_age,
  CHALLENGE_WINDOW_FLOOR,
  MAX_FUTURE_DRIFT_SECS,
  MIN_MAX_BATCH_AGE_SECS,
  MAX_MAX_BATCH_AGE_SECS,
  InitialFunds,     \* what every party owns at first
  MaxAssertions,    \* bound: assertions on the chain, genesis included
  LastPost,         \* bound: no post after this time
  LastTimestamp,    \* bound: the batch timestamps tried
  MaxTime           \* bound: the clock stops here

ASSUME PartyAssumption ==
  /\ IsFiniteSet(Party)
  /\ Admin \in Party
  /\ Treasury \notin Party

ASSUME ParameterAssumption ==
  /\ GenesisRoot \in Root
  /\ Bond \subseteq Nat
  /\ TraceLength \subseteq Nat
  /\ minimum_bond \in Nat
  /\ requested_window \in Nat
  /\ requested_age \in Nat
  /\ CHALLENGE_WINDOW_FLOOR \in Nat \ {0}
  /\ MAX_FUTURE_DRIFT_SECS \in Nat
  /\ MIN_MAX_BATCH_AGE_SECS \in Nat
  /\ MAX_MAX_BATCH_AGE_SECS \in Nat
  /\ InitialFunds \in Nat
  /\ MaxAssertions \in Nat \ {0}
  /\ LastPost \in Nat
  /\ LastTimestamp \in Nat
  /\ MaxTime \in Nat

VARIABLES
  now,              \* timestamp::now_seconds()
  assertions,       \* id -> record, the `assertions` table in `order`
  challenges,       \* id -> (challenger -> bond), the open challenges
  latest_finalized, \* the last id that was finalized
  escrow,           \* balance of the escrow store
  wallet            \* balance of every account in the bonded asset

vars == <<now, assertions, challenges, latest_finalized, escrow, wallet>>

Account == Party \cup {Treasury}

Genesis == 1

Ids == DOMAIN assertions

PENDING == "pending"
CHALLENGED == "challenged"
FINALIZED == "finalized"
REJECTED == "rejected"

Status == {PENDING, CHALLENGED, FINALIZED, REJECTED}

EmptyBatch == [tx_bytes |-> <<>>, tx_starts |-> <<>>]

(* The record's pre_state_root is its parent's post_state_root, which      *)
(* `post` checks.  The header fields that only execution reads (base_fee,  *)
(* fee_recipient, tx_root) are part of `batch`.                            *)
Assertion ==
  [parent : Nat, proposer : Party, post_state_root : Root,
   batch : Batch \cup {EmptyBatch}, timestamp : Nat, trace_length : Nat,
   bond : Nat, posted_at : Nat, status : Status, open_challenges : Nat]

(* The two fields of a record that change once it is posted.               *)
revised(a, status, open_challenges) ==
  [parent |-> a.parent, proposer |-> a.proposer,
   post_state_root |-> a.post_state_root, batch |-> a.batch,
   timestamp |-> a.timestamp, trace_length |-> a.trace_length,
   bond |-> a.bond, posted_at |-> a.posted_at,
   status |-> status, open_challenges |-> open_challenges]

-----------------------------------------------------------------------------
(* initialize: the window is raised to its floor and the batch age clamped *)
(* between its bounds, so no configuration can leave them unsafe.          *)

challenge_window ==
  IF requested_window < CHALLENGE_WINDOW_FLOOR
  THEN CHALLENGE_WINDOW_FLOOR ELSE requested_window

max_batch_age ==
  IF requested_age < MIN_MAX_BATCH_AGE_SECS THEN MIN_MAX_BATCH_AGE_SECS
  ELSE IF requested_age > MAX_MAX_BATCH_AGE_SECS THEN MAX_MAX_BATCH_AGE_SECS
  ELSE requested_age

initialize ==
  /\ assertions =
       [i \in {Genesis} |->
          [parent |-> 0, proposer |-> Admin, post_state_root |-> GenesisRoot,
           batch |-> EmptyBatch, timestamp |-> 0, trace_length |-> 0,
           bond |-> 0, posted_at |-> 0, status |-> FINALIZED,
           open_challenges |-> 0]]
  /\ challenges = [i \in {Genesis} |-> [p \in {} |-> 0]]
  /\ latest_finalized = Genesis
  /\ escrow = 0

Init ==
  /\ now = 0
  /\ initialize
  /\ wallet = [a \in Account |-> IF a = Treasury THEN 0 ELSE InitialFunds]

-----------------------------------------------------------------------------
(* Money.  Moving an amount that is not there aborts the transaction.      *)

take_bond(payer, amount) ==
  /\ wallet[payer] >= amount
  /\ wallet' = [wallet EXCEPT ![payer] = @ - amount]
  /\ escrow' = escrow + amount

(* Every payment of one transaction, as the total each account receives.   *)
pay_from_escrow(due) ==
  LET total == MapThenSumSet(LAMBDA a : due[a], Account)
  IN  /\ total <= escrow
      /\ escrow' = escrow - total
      /\ wallet' = [a \in Account |-> wallet[a] + due[a]]

SLASH_REWARD_PERCENT == 50

slash_reward(bond) == (bond * SLASH_REWARD_PERCENT) \div 100

(* The treasury is paid a half, rounded down, instead of the remainder.    *)
distribute_slashed_slip(winner, bond, account) ==
  (IF account = winner THEN slash_reward(bond) ELSE 0)
    + (IF account = Treasury THEN slash_reward(bond) ELSE 0)

(* What `account` gets when `bond` is forfeited to `winner`.               *)
distribute_slashed(winner, bond, account) ==
  (IF account = winner THEN slash_reward(bond) ELSE 0)
    + (IF account = Treasury THEN bond - slash_reward(bond) ELSE 0)

(* What `account` gets back when the challenges on `ids` are refunded.     *)
refund_challenges(ids, account) ==
  MapThenSumSet(LAMBDA i : challenges[i][account],
                {i \in ids : account \in DOMAIN challenges[i]})

-----------------------------------------------------------------------------
(* The entry functions.                                                    *)

(* Start positions begin at zero and increase, and the trace ends after    *)
(* the last of them; an empty batch has no steps and changes nothing.      *)
check_batch_shape(batch, trace_length, pre, post_root) ==
  LET starts == batch.tx_starts
      tx_count == Len(batch.tx_bytes)
  IN  /\ Len(starts) = tx_count
      /\ \/ tx_count = 0 /\ trace_length = 0 /\ pre = post_root
         \/ /\ tx_count > 0
            /\ starts[1] = 0
            /\ \A i \in 2..tx_count : starts[i] > starts[i - 1]
            /\ trace_length > starts[tx_count]

(* The content that assertion_id hashes.                                   *)
assertion_id(a) ==
  <<a.parent, a.post_state_root, a.batch, a.timestamp, a.trace_length, a.bond>>

(* The batch is not stamped before its parent, nor ahead of L1 by more     *)
(* than the drift, nor longer ago than the age.                            *)
timestamp_ok_slip(parent, timestamp) ==
  /\ timestamp >= assertions[parent].timestamp
  /\ now <= timestamp + max_batch_age

timestamp_ok(parent, timestamp) ==
  /\ timestamp >= assertions[parent].timestamp
  /\ timestamp <= now + MAX_FUTURE_DRIFT_SECS
  /\ now <= timestamp + max_batch_age

record(proposer, parent, post_root, batch, timestamp, trace_length, bond) ==
  [parent |-> parent, proposer |-> proposer, post_state_root |-> post_root,
   batch |-> batch, timestamp |-> timestamp, trace_length |-> trace_length,
   bond |-> bond, posted_at |-> now, status |-> PENDING,
   open_challenges |-> 0]

post(proposer, parent, post_root, batch, timestamp, trace_length, bond) ==
  LET new == Cardinality(Ids) + 1
      added == record(proposer, parent, post_root, batch, timestamp,
                      trace_length, bond)
  IN  /\ new <= MaxAssertions
      /\ now <= LastPost
      /\ parent \in Ids
      /\ check_batch_shape(batch, trace_length,
                           assertions[parent].post_state_root, post_root)
      /\ assertions[parent].status # REJECTED
      /\ bond >= minimum_bond
      /\ timestamp_ok(parent, timestamp)
      /\ \A i \in Ids : assertion_id(assertions[i]) # assertion_id(added)
      /\ take_bond(proposer, bond)
      /\ assertions' =
           [i \in Ids \cup {new} |-> IF i = new THEN added ELSE assertions[i]]
      /\ challenges' =
           [i \in Ids \cup {new} |->
              IF i = new THEN [p \in {} |-> 0] ELSE challenges[i]]
      /\ UNCHANGED <<now, latest_finalized>>

(* Anyone but the proposer, once at a time, while the assertion is live.   *)
(* There is no check that the window is still open.                        *)
may_challenge(who, id) ==
  /\ who # assertions[id].proposer
  /\ who \notin DOMAIN challenges[id]
  /\ assertions[id].status \in {PENDING, CHALLENGED}

open_challenge(who, id, bond) ==
  /\ bond >= minimum_bond
  /\ may_challenge(who, id)
  /\ take_bond(who, bond)
  /\ assertions' = [assertions EXCEPT
                      ![id] = revised(@, CHALLENGED, @.open_challenges + 1)]
  /\ challenges' = [challenges EXCEPT
                      ![id] = [p \in DOMAIN @ \cup {who} |->
                                 IF p = who THEN bond ELSE @[p]]]
  /\ UNCHANGED <<now, latest_finalized>>

(* Any challenge that fails makes the assertion pending.                   *)
status_after_defense_slip(a) == PENDING

status_after_defense(a) ==
  IF a.open_challenges = 1 THEN PENDING ELSE CHALLENGED

(* The challenger's bond is forfeited to the proposer; the assertion is    *)
(* pending again once no challenge is left.                                *)
defender_won(id, loser) ==
  /\ loser \in DOMAIN challenges[id]
  /\ assertions[id].status = CHALLENGED
  /\ pay_from_escrow([a \in Account |->
       distribute_slashed(assertions[id].proposer, challenges[id][loser], a)])
  /\ assertions' = [assertions EXCEPT
       ![id] = revised(@, status_after_defense(@), @.open_challenges - 1)]
  /\ challenges' = [challenges EXCEPT
       ![id] = [p \in DOMAIN @ \ {loser} |-> @[p]]]
  /\ UNCHANGED <<now, latest_finalized>>

Live(i) == assertions[i].status \in {PENDING, CHALLENGED}

(* The sweep stops at the children of the assertion that lost.             *)
IsSwept_slip(swept, id) ==
  swept = {i \in Ids \ {id} : Live(i) /\ assertions[i].parent = id}

(* What the sweep of `order` rejects after `id`: one pass in posting order *)
(* rejects every live assertion whose parent is rejected by then.  A       *)
(* parent is posted before its children, so a pass over `order` reaches    *)
(* the unique set with this property.                                      *)
IsSwept(swept, id) ==
  swept = {i \in Ids \ {id} :
             /\ Live(i)
             /\ assertions[i].parent \in Ids
             /\ \/ assertions[assertions[i].parent].status = REJECTED
                \/ assertions[i].parent \in swept \cup {id}}

(* The winner's bond comes back with a share of the proposer's; other      *)
(* challengers are refunded; the descendants' bonds go to the treasury.    *)
challenger_won(id, winner) ==
  /\ winner \in DOMAIN challenges[id]
  /\ assertions[id].status = CHALLENGED
  /\ \E swept \in SUBSET Ids :
       /\ IsSwept(swept, id)
       /\ pay_from_escrow([a \in Account |->
            distribute_slashed(winner, assertions[id].bond, a)
              + refund_challenges(swept \cup {id}, a)
              + (IF a = Treasury
                 THEN MapThenSumSet(LAMBDA i : assertions[i].bond, swept)
                 ELSE 0)])
       /\ assertions' = [i \in Ids |->
            IF i \in swept \cup {id}
            THEN revised(assertions[i], REJECTED, 0)
            ELSE assertions[i]]
       /\ challenges' = [i \in Ids |->
            IF i \in swept \cup {id} THEN [p \in {} |-> 0] ELSE challenges[i]]
  /\ UNCHANGED <<now, latest_finalized>>

can_finalize(id) ==
  /\ assertions[id].status = PENDING
  /\ assertions[id].parent \in Ids
  /\ assertions[assertions[id].parent].status = FINALIZED
  /\ now - assertions[id].posted_at >= challenge_window

finalize(id) ==
  /\ can_finalize(id)
  /\ assertions' = [assertions EXCEPT
                      ![id] = revised(@, FINALIZED, @.open_challenges)]
  /\ latest_finalized' = id
  /\ pay_from_escrow([a \in Account |->
       IF a = assertions[id].proposer THEN assertions[id].bond ELSE 0])
  /\ UNCHANGED <<now, challenges>>

(* The L1 clock.                                                           *)
Tick ==
  /\ now < MaxTime
  /\ now' = now + 1
  /\ UNCHANGED <<assertions, challenges, latest_finalized, escrow, wallet>>

-----------------------------------------------------------------------------
Post ==
  \E p \in Party, parent \in Ids, r \in Root, b \in Batch, bond \in Bond :
  \E timestamp \in 0..LastTimestamp :
  \E trace_length \in TraceLength :
    post(p, parent, r, b, timestamp, trace_length, bond)

OpenChallenge ==
  \E p \in Party, i \in Ids, bond \in Bond : open_challenge(p, i, bond)

Verdict(i) ==
  \E p \in Party : defender_won(i, p) \/ challenger_won(i, p)

Next ==
  \/ Tick
  \/ Post
  \/ OpenChallenge
  \/ \E i \in Ids : Verdict(i)
  \/ \E i \in Ids : finalize(i)

Spec == Init /\ [][Next]_vars

-----------------------------------------------------------------------------
(* The table and the order vector are indexed 1..n, the records have their *)
(* types, and a parent is posted before its children.                      *)
TypeOK ==
  /\ now \in Nat
  /\ \E n \in 1..MaxAssertions : Ids = 1..n
  /\ assertions \in [Ids -> Assertion]
  /\ DOMAIN challenges = Ids
  /\ \A i \in Ids :
       /\ assertions[i].parent \in 0..(i - 1)
       /\ i # Genesis => assertions[i].parent # 0
       /\ assertions[i].posted_at <= now
       /\ challenges[i] \in [DOMAIN challenges[i] -> Nat]
       /\ DOMAIN challenges[i] \subseteq Party
  /\ latest_finalized \in Ids

(* REQ-FRAUD-019: when challenger_won returns, nothing that is still       *)
(* standing builds on a rejected assertion, however deep the chain and     *)
(* whichever assertion of it lost.                                         *)
NoneStandsOnRejected ==
  \A i \in Ids :
    /\ assertions[i].parent \in Ids
    /\ assertions[i].status # REJECTED
    => assertions[assertions[i].parent].status # REJECTED

(* REQ-FRAUD-004 and REQ-FRAUD-006: a finalized assertion has a finalized  *)
(* parent, has been on the chain for the whole window, and has no          *)
(* challenge open; applied to the parent in turn, neither has any ancestor.*)
FinalizedIsSettled ==
  \A i \in Ids \ {Genesis} :
    assertions[i].status = FINALIZED =>
      /\ assertions[assertions[i].parent].status = FINALIZED
      /\ assertions[i].posted_at + challenge_window <= now
      /\ DOMAIN challenges[i] = {}

(* The counter that decides when defender_won reopens an assertion for     *)
(* finalization agrees with the list of challenges, and exactly the        *)
(* challenged assertions have one: a challenge is never orphaned on an     *)
(* assertion that no longer accepts outcomes.                              *)
ChallengesCounted ==
  \A i \in Ids :
    /\ assertions[i].open_challenges = Cardinality(DOMAIN challenges[i])
    /\ assertions[i].status = CHALLENGED <=> DOMAIN challenges[i] # {}

(* The comment on escrow_balance: "Should equal the sum of live assertion  *)
(* and challenge bonds; a divergence means value leaked."                  *)
EscrowBacksBonds ==
  escrow =
    MapThenSumSet(LAMBDA i : assertions[i].bond, {i \in Ids : Live(i)})
    + MapThenSumSet(
        LAMBDA i : MapThenSumSet(LAMBDA p : challenges[i][p],
                                 DOMAIN challenges[i]), Ids)

(* No entry point undoes a finalization or a rejection, and none rewrites  *)
(* what a posted assertion claims.                                         *)
SettledForever ==
  [][\A i \in Ids :
       /\ assertion_id(assertions'[i]) = assertion_id(assertions[i])
       /\ ~Live(i) => assertions'[i].status = assertions[i].status]_vars

(* A block producer whose clock agrees with L1 stamps a batch with the     *)
(* later of L1 time and its parent's timestamp (Sequencer::next_timestamp);*)
(* whatever others have posted, no assertion carries a timestamp that      *)
(* makes `post` refuse such a child.                                       *)
AlwaysExtendable ==
  \A i \in Ids :
    LET stamp == IF assertions[i].timestamp > now
                 THEN assertions[i].timestamp ELSE now
    IN  stamp <= now + MAX_FUTURE_DRIFT_SECS /\ now <= stamp + max_batch_age

(* The chain keeps the promise of Settlement: pending and challenged       *)
(* assertions are open claims, and one challenger_won is one fall.         *)
Fate(i) ==
  IF assertions[i].status = FINALIZED THEN "final"
  ELSE IF assertions[i].status = REJECTED THEN "void" ELSE "open"

Promise ==
  INSTANCE Settlement WITH
    Claim <- 1..MaxAssertions, RootClaim <- Genesis, NoClaim <- 0,
    parent <- [i \in Ids |-> assertions[i].parent],
    fate <- [i \in Ids |-> Fate(i)]

KeepsThePromise == Promise!Spec
=============================================================================
