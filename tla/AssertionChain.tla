--------------------------- MODULE AssertionChain ---------------------------
(* The assertion chain a node keeps in its own process,                    *)
(* crates/sena-fraudproof/src/assertion.rs.  A chain is a value: the       *)
(* records, the latest final assertion and the chain's clock.  An          *)
(* assertion is known by the hash of all its fields, so it is its own id.  *)
EXTENDS Integers

CONSTANTS
  ZERO,                    \* the zero hash
  CHALLENGE_WINDOW_FLOOR,
  configured_window,       \* the window a chain is created with
  minimum_bond

ASSUME ChainAssumption == {CHALLENGE_WINDOW_FLOOR, configured_window, minimum_bond} \subseteq Nat

challenge_window ==
  IF configured_window >= CHALLENGE_WINDOW_FLOOR THEN configured_window
                                                 ELSE CHALLENGE_WINDOW_FLOOR

genesis_assertion(genesis_root) ==
  [parent |-> ZERO, proposer |-> 0, pre_state_root |-> ZERO,
   post_state_root |-> genesis_root, batch_commitment |-> ZERO,
   trace_length |-> 0, bond |-> 0]

new_chain(genesis_root) ==
  LET id == genesis_assertion(genesis_root)
  IN  [records |-> [i \in {id} |->
         [status |-> "finalized", posted_at |-> 0, open_challenges |-> 0]],
       latest_finalized |-> id,
       now |-> 0]

known(c, id) == id \in DOMAIN c.records

(* A clock that went backwards is refused, and the caller ignores that.    *)
advance_to(c, to) == IF to < c.now THEN c ELSE [c EXCEPT !.now = to]

status(c, id) == c.records[id].status

can_post(c, a) ==
  /\ known(c, a.parent)
  /\ status(c, a.parent) # "rejected"
  /\ a.parent.post_state_root = a.pre_state_root
  /\ a.bond >= minimum_bond

post(c, a) ==
  [c EXCEPT !.records = [i \in DOMAIN @ \cup {a} |->
     IF i = a THEN [status |-> "pending", posted_at |-> c.now, open_challenges |-> 0]
              ELSE @[i]]]

can_open_challenge(c, id) == known(c, id) /\ status(c, id) \in {"pending", "challenged"}

open_challenge(c, id) ==
  [c EXCEPT !.records[id].status = "challenged",
            !.records[id].open_challenges = @ + 1]

can_resolve(c, id) == known(c, id) /\ status(c, id) = "challenged"

defender_won_slip(c, id) ==
  [c EXCEPT !.records[id].open_challenges = @ - 1, !.records[id].status = "pending"]

defender_won(c, id) ==
  [c EXCEPT !.records[id].open_challenges = @ - 1,
            !.records[id].status =
              IF c.records[id].open_challenges = 1 THEN "pending" ELSE @]

(* The least set with id and the children of its members that are not      *)
(* rejected yet: what the frontier loop visits.                            *)
IsSwept(swept, c, id) ==
  swept = {i \in DOMAIN c.records :
             i = id \/ (i.parent \in swept /\ status(c, i) # "rejected")}

challenger_won_slip(c, id) == [c EXCEPT !.records[id].status = "rejected"]

challenger_won(c, id) ==
  LET swept == CHOOSE s \in SUBSET DOMAIN c.records : IsSwept(s, c, id)
  IN  [c EXCEPT !.records = [i \in DOMAIN @ |->
         IF i \in swept THEN [@[i] EXCEPT !.status = "rejected", !.open_challenges = 0]
                        ELSE @[i]]]

can_finalize_slip(c, id) ==
  /\ known(c, id)
  /\ status(c, id) = "pending"
  /\ known(c, id.parent)
  /\ status(c, id.parent) = "finalized"

can_finalize(c, id) ==
  /\ known(c, id)
  /\ status(c, id) = "pending"
  /\ known(c, id.parent)
  /\ status(c, id.parent) = "finalized"
  /\ c.now - c.records[id].posted_at >= challenge_window

finalize(c, id) ==
  [c EXCEPT !.records[id].status = "finalized", !.latest_finalized = id]

is_withdrawable(c, root) ==
  \E id \in DOMAIN c.records :
    status(c, id) = "finalized" /\ id.post_state_root = root
=============================================================================
