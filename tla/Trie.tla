-------------------------------- MODULE Trie --------------------------------
(***************************************************************************)
(* The sparse Merkle trie and its proofs, crates/sena-state.               *)
(*                                                                         *)
(* A hash is collision-free, so it is the term that is hashed: ZERO_HASH,  *)
(* a leaf with its key and value, or an internal node with its children.   *)
(* A key is its sequence of bits.  A trie is a value: what each key holds, *)
(* the hashes whose node is stored, and the root.                          *)
(***************************************************************************)
EXTENDS Integers, SequencesExt, TLC

CONSTANTS
  Keys,          \* the slots in use, bit sequences of one length
  Values,        \* what a slot may hold
  MaxWrites      \* bound: how many operations are done

ZERO_HASH == <<>>
leaf(key, value) == <<"leaf", key, value>>
internal(left, right) == <<"internal", left, right>>
is_leaf(hash) == hash # ZERO_HASH /\ hash[1] = "leaf"

MAX_DEPTH == Len(CHOOSE k \in Keys : TRUE)
bit(key, depth) == key[depth + 1] = 1

(* An internal node with child on the key's side, sibling on the other.    *)
joined(key, depth, child, sibling) ==
  IF bit(key, depth) THEN internal(sibling, child) ELSE internal(child, sibling)

(* The children of a node, the one on the key's side first.                *)
ways(node, key, depth) ==
  IF bit(key, depth) THEN <<node[3], node[2]>> ELSE <<node[2], node[3]>>
-----------------------------------------------------------------------------
(* Writing returns the new hash and the nodes stored on the way.           *)
new_trie == [values |-> <<>>, nodes |-> {}, root |-> ZERO_HASH]

store(hash, new) == [hash |-> hash, new |-> new \cup {hash}]

RECURSIVE split(_, _, _, _, _)
split(depth, key_a, value_a, key_b, value_b) ==
  IF bit(key_a, depth) = bit(key_b, depth)
  THEN LET child == split(depth + 1, key_a, value_a, key_b, value_b)
       IN  store(joined(key_a, depth, child.hash, ZERO_HASH), child.new)
  ELSE LET leaf_a == leaf(key_a, value_a)
           leaf_b == leaf(key_b, value_b)
       IN  store(joined(key_a, depth, leaf_a, leaf_b), {leaf_a, leaf_b})

RECURSIVE insert_at(_, _, _, _, _)
insert_at(nodes, node, depth, key, value) ==
  IF node \notin nodes \/ (is_leaf(node) /\ node[2] = key)
  THEN store(leaf(key, value), {})
  ELSE IF is_leaf(node) THEN split(depth, key, value, node[2], node[3])
  ELSE LET way == ways(node, key, depth)
           child == insert_at(nodes, way[1], depth + 1, key, value)
       IN  store(joined(key, depth, child.hash, way[2]), child.new)

insert(t, key, value) ==
  LET written == insert_at(t.nodes, t.root, 0, key, value)
  IN  [values |-> (key :> value) @@ t.values,
       nodes  |-> t.nodes \cup written.new,
       root   |-> written.hash]

lone_child(left, right) ==
  /\ (left = ZERO_HASH) # (right = ZERO_HASH)
  /\ is_leaf(IF left = ZERO_HASH THEN right ELSE left)

collapsed_slip(left, right) ==
  IF left = ZERO_HASH /\ right = ZERO_HASH THEN ZERO_HASH ELSE internal(left, right)

(* What stands for a branch whose child was removed.                       *)
collapsed(left, right) ==
  CASE lone_child(left, right) -> IF left = ZERO_HASH THEN right ELSE left
    [] left = ZERO_HASH /\ right = ZERO_HASH -> ZERO_HASH
    [] OTHER -> internal(left, right)

RECURSIVE remove_at(_, _, _, _)
remove_at(nodes, node, depth, key) ==
  CASE node \notin nodes -> [hash |-> ZERO_HASH, new |-> {}]
    [] node \in nodes /\ is_leaf(node) ->
         [hash |-> IF node[2] = key THEN ZERO_HASH ELSE node, new |-> {}]
    [] OTHER ->
         LET way == ways(node, key, depth)
             child == remove_at(nodes, way[1], depth + 1, key)
             hash == IF bit(key, depth) THEN collapsed(way[2], child.hash)
                                        ELSE collapsed(child.hash, way[2])
         IN  [hash |-> hash, new |-> child.new \cup ({hash} \ {ZERO_HASH})]

remove(t, key) ==
  IF key \notin DOMAIN t.values THEN t
  ELSE LET removed == remove_at(t.nodes, t.root, 0, key)
       IN  [values |-> [k \in DOMAIN t.values \ {key} |-> t.values[k]],
            nodes  |-> t.nodes \cup removed.new,
            root   |-> removed.hash]

(* A snapshot is the root and the pairs in key order; loading inserts the  *)
(* pairs into an empty trie, and checks the root it arrives at.            *)
KeyBefore(a, b) ==
  \E i \in DOMAIN a : a[i] < b[i] /\ \A j \in 1..(i - 1) : a[j] = b[j]

to_bytes(t) ==
  [root  |-> t.root,
   pairs |-> LET keys == SetToSortSeq(DOMAIN t.values, KeyBefore)
             IN  [i \in DOMAIN keys |-> [key |-> keys[i], value |-> t.values[keys[i]]]]]

from_bytes(bytes) ==
  FoldLeft(LAMBDA t, p : insert(t, p.key, p.value), new_trie, bytes.pairs)

loads(bytes) == from_bytes(bytes).root = bytes.root
-----------------------------------------------------------------------------
(* Proofs: the siblings from the root down, and what the path ends in --   *)
(* ZERO_HASH, or a leaf.                                                   *)
RECURSIVE prove_from(_, _, _, _, _)
prove_from(nodes, node, key, depth, siblings) ==
  IF node \notin nodes THEN [siblings |-> siblings, terminal |-> ZERO_HASH]
  ELSE IF is_leaf(node) THEN [siblings |-> siblings, terminal |-> node]
  ELSE LET way == ways(node, key, depth)
       IN  prove_from(nodes, way[1], key, depth + 1, Append(siblings, way[2]))

prove_at(t, root, key) == prove_from(t.nodes, root, key, 0, <<>>)
prove(t, key) == prove_at(t, t.root, key)

(* The root over terminal, with a proof's siblings, on the key's path.     *)
climb(key, siblings, terminal) ==
  LET depth == Len(siblings)
      up[level \in 0..depth] ==
        IF level = depth THEN terminal
        ELSE joined(key, level, up[level + 1], siblings[level + 1])
  IN  up[0]

on_path(p, key) ==
  \A i \in DOMAIN p.siblings : p.terminal[2][i] = key[i]

can_reconstruct(p, key) ==
  /\ Len(p.siblings) <= MAX_DEPTH
  /\ is_leaf(p.terminal) => on_path(p, key)

reconstructs(p, key, root) ==
  can_reconstruct(p, key) /\ climb(key, p.siblings, p.terminal) = root

verify_inclusion(p, root, key, value) ==
  /\ reconstructs(p, key, root)
  /\ is_leaf(p.terminal)
  /\ p.terminal[2] = key
  /\ p.terminal[3] = value

verify_non_inclusion(p, root, key) ==
  /\ reconstructs(p, key, root)
  /\ is_leaf(p.terminal) => p.terminal[2] # key

(* The subtree that separates two leaves, with no node store.              *)
RECURSIVE split_hash(_, _, _, _, _)
split_hash(depth, key_a, value_a, key_b, value_b) ==
  IF bit(key_a, depth) = bit(key_b, depth)
  THEN joined(key_a, depth, split_hash(depth + 1, key_a, value_a, key_b, value_b), ZERO_HASH)
  ELSE joined(key_a, depth, leaf(key_a, value_a), leaf(key_b, value_b))

compute_updated_root_slip(p, key, value) == climb(key, p.siblings, leaf(key, value))

compute_updated_root(p, key, value) ==
  climb(key, p.siblings,
        IF is_leaf(p.terminal) /\ p.terminal[2] # key
        THEN split_hash(Len(p.siblings), key, value, p.terminal[2], p.terminal[3])
        ELSE leaf(key, value))
-----------------------------------------------------------------------------
VARIABLES
  trie,
  held,     \* history: the roots held since the trie was created or loaded
  writes
vars == <<trie, held, writes>>

Init ==
  /\ trie = new_trie
  /\ held = <<[root |-> ZERO_HASH, values |-> <<>>]>>
  /\ writes = 0

writable == writes < MaxWrites /\ writes' = writes + 1

becomes(t) ==
  /\ trie' = t
  /\ held' = Append(held, [root |-> t.root, values |-> t.values])

Insert(key, value) == writable /\ becomes(insert(trie, key, value))

RemoveKey(key) == writable /\ key \in DOMAIN trie.values /\ becomes(remove(trie, key))

(* Saving and loading leaves the nodes of the past roots behind.           *)
Reload ==
  /\ writable
  /\ loads(to_bytes(trie))
  /\ trie' = from_bytes(to_bytes(trie))
  /\ held' = <<Last(held)>>

Next ==
  \/ \E key \in Keys, value \in Values : Insert(key, value)
  \/ \E key \in Keys : RemoveKey(key)
  \/ Reload

Spec == Init /\ [][Next]_vars
=============================================================================
