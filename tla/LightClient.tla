----------------------------- MODULE LightClient -----------------------------
(***************************************************************************)
(* What is checked against a state root by those who do not hold the       *)
(* state: the account proofs and withdrawal proofs the RPC serves          *)
(* (crates/sena-node/src/rpc.rs), the light client that accepts the former *)
(* (crates/sena-light-client), and the witness of one disputed step        *)
(* (verify_step, crates/sena-stf/src/execute.rs).                          *)
(*                                                                         *)
(* A slot holds an account, and the roots held are those of the blocks:    *)
(* held[h + 1] is the state at height h.                                   *)
(***************************************************************************)
EXTENDS Trie

CONSTANTS
  Balances       \* the lists of asset and amount a payload may carry

no_account == [nonce |-> 0, balances |-> <<>>]

(* The account a list of balances stands for, when it is a proper one.     *)
can_collect(balances) ==
  /\ \A i \in DOMAIN balances : balances[i].amount # 0
  /\ \A i, j \in DOMAIN balances : balances[i].asset = balances[j].asset => i = j

collect(balances) ==
  [a \in {balances[i].asset : i \in DOMAIN balances} |->
     balances[CHOOSE i \in DOMAIN balances : balances[i].asset = a].amount]

listed(account) ==
  LET assets == SetToSeq(DOMAIN account.balances)
  IN  [i \in DOMAIN assets |-> [asset |-> assets[i], amount |-> account.balances[assets[i]]]]
-----------------------------------------------------------------------------
(* The RPC.  An answer is a sequence: empty when it is an error.           *)
current_height == Len(held) - 1

value_of(key) == IF key \in DOMAIN trie.values THEN <<trie.values[key]>> ELSE <<>>

(* The account at a past root is known only if the slot still holds it.    *)
past_account_slip(proof, key) ==
  IF proof.terminal = ZERO_HASH THEN <<no_account>> ELSE value_of(key)

past_account(proof, key) ==
  CASE proof.terminal = ZERO_HASH -> <<no_account>>
    [] proof.terminal # ZERO_HASH /\ value_of(key) = <<proof.terminal[3]>> -> value_of(key)
    [] OTHER -> <<>>

account_proof(key, height) ==
  IF height > current_height THEN <<>>
  ELSE LET root == held[height + 1].root
           proof == prove_at(trie, root, key)
           found == IF height # current_height THEN past_account(proof, key)
                    ELSE IF value_of(key) = <<>> THEN <<no_account>> ELSE value_of(key)
       IN  [i \in DOMAIN found |->
              [key |-> key, height |-> height, state_root |-> root,
               nonce |-> found[i].nonce, balances |-> listed(found[i]),
               proof |-> proof]]

withdrawal_proof(key, finalized_height) ==
  IF finalized_height = 0 THEN <<>>
  ELSE LET root == held[finalized_height + 1].root
       IN  <<[state_root |-> root, value |-> value_of(key),
              proof |-> prove_at(trie, root, key)]>>
-----------------------------------------------------------------------------
(* The light client trusts a final root, and perhaps a soft one.           *)
trust_level_of(client, root) ==
  CASE root = client.finalized -> "finalized"
    [] root # client.finalized /\ client.soft = <<root>> -> "soft_confirmed"
    [] OTHER -> "none"

claims_nothing(payload) == payload.nonce = 0 /\ payload.balances = <<>>

claimed(payload) == [nonce |-> payload.nonce, balances |-> collect(payload.balances)]

verify_account_standalone_slip(payload) ==
  /\ can_collect(payload.balances)
  /\ claims_nothing(payload)
       \/ verify_inclusion(payload.proof, payload.state_root, payload.key, claimed(payload))

verify_account_standalone(payload) ==
  /\ can_collect(payload.balances)
  /\ IF claims_nothing(payload)
     THEN verify_non_inclusion(payload.proof, payload.state_root, payload.key)
     ELSE verify_inclusion(payload.proof, payload.state_root, payload.key, claimed(payload))

verify_account_proof(client, payload) ==
  /\ trust_level_of(client, payload.state_root) # "none"
  /\ verify_account_standalone(payload)
-----------------------------------------------------------------------------
(* One step, from its witness alone; what it writes is any value.          *)
witness_holds(witness, root) ==
  IF witness.value = <<>>
  THEN verify_non_inclusion(witness.proof, root, witness.slot)
  ELSE verify_inclusion(witness.proof, root, witness.slot, witness.value[1])

can_verify_step(root, slot, witness) == witness.slot = slot /\ witness_holds(witness, root)

verify_step(slot, witness, updated) == compute_updated_root(witness.proof, slot, updated)
-----------------------------------------------------------------------------
(* Properties.  Proofs are put together from the parts of all the proofs   *)
(* the trie can give for the roots it held: a proof for another key, for   *)
(* an older root, or with the end of one path under another.               *)
Given == {prove_at(trie, held[h].root, key) : h \in DOMAIN held, key \in Keys}

Pieced == {[siblings |-> p.siblings, terminal |-> q.terminal] : p, q \in Given}

AccountAt(h, key) ==
  IF key \in DOMAIN held[h].values THEN held[h].values[key] ELSE no_account

(* The root is a function of the contents: whatever was inserted,          *)
(* overwritten and removed on the way, it is the root of a trie into which *)
(* the same pairs are inserted in key order.  So two nodes with the same   *)
(* contents have the same root, and a saved trie loads.                    *)
RootCanonical == loads(to_bytes(trie))

(* One step is settled without the state: a witness the verifier accepts   *)
(* reports what the slot really holds, and the root derived from it is the *)
(* one the trie has after the same write, the split of a leaf included.    *)
StepSettled ==
  \A p \in Pieced, slot \in Keys, value \in {<<>>} \cup {<<v>> : v \in Values} :
    LET witness == [slot |-> slot, value |-> value, proof |-> p]
    IN  can_verify_step(trie.root, slot, witness) =>
          /\ value = value_of(slot)
          /\ \A updated \in Values :
               verify_step(slot, witness, updated) = insert(trie, slot, updated).root

(* A light client believes only what is so: a payload it accepts shows the *)
(* account as it was at the root it trusts.                                *)
BelievedIsTrue ==
  \A h \in DOMAIN held, p \in Pieced, key \in Keys, balances \in Balances, nonce \in 0..1 :
    LET payload == [key |-> key, state_root |-> held[h].root, nonce |-> nonce,
                    balances |-> balances, proof |-> p]
        client == [finalized |-> held[1].root, soft |-> <<trie.root>>]
    IN  verify_account_proof(client, payload) => claimed(payload) = AccountAt(h, key)

(* What the node serves is accepted: an account proof at any height, and a *)
(* withdrawal proof while the account is as it was at the finalized        *)
(* height.  Two answers are refused.  An account stored with neither nonce *)
(* nor balances is taken for absent by the client.  And at a past height   *)
(* where the account was absent and its path ended in another's leaf, the  *)
(* node reports the account's present contents if they equal that leaf's.  *)
ServedIsAccepted ==
  \A key \in Keys, h \in DOMAIN held :
    /\ \A payload \in ToSet(account_proof(key, h - 1)) :
         \/ /\ is_leaf(payload.proof.terminal)
            /\ claims_nothing(payload) <=> payload.proof.terminal[2] = key
         \/ verify_account_standalone(payload)
    /\ \A w \in ToSet(withdrawal_proof(key, h - 1)) :
         /\ w.value # <<>>
         /\ AccountAt(h, key) = w.value[1]
         /\ key \in DOMAIN held[h].values
         => verify_inclusion(w.proof, w.state_root, key, w.value[1])
=============================================================================
