-------------------------- MODULE SettlementProofs --------------------------
(***************************************************************************)
(* The two components on either side of Settlement.  The chain a node      *)
(* keeps in its own process never finalizes what is still contested, and   *)
(* implements Settlement: for any roots, contestants and window, and any   *)
(* number of assertions.  The bridge relies on Settlement: over any chain  *)
(* that keeps the promise, any users and any balances, it pays each        *)
(* balance once, and only under final roots.  Last comes the arithmetic    *)
(* the node settles by: a transaction's hold is paid out exactly, the      *)
(* base fee keeps its floor and moves by an eighth at most, and parameters *)
(* valid at the shortest window are valid at every longer one.             *)
(***************************************************************************)
EXTENDS LocalChain, Bridge, Fees, Params, FiniteSetTheorems, TLAPS

-----------------------------------------------------------------------------
(* The in-process chain.                                                   *)
genesis == genesis_assertion(start_root)

(* How late in the chain an assertion was posted: its batch.               *)
rank(i) == IF i = genesis THEN 0 ELSE i.batch_commitment

contests_on(i) == {c \in contests : c[1] = i}

ChainRecord == [status : {"pending", "challenged", "finalized", "rejected"},
                posted_at : Nat, open_challenges : Nat]

ChainTyped ==
  /\ chain = [records |-> chain.records, latest_finalized |-> chain.latest_finalized,
              now |-> chain.now]
  /\ chain.now \in Nat
  /\ chain.records \in [PostedIds -> ChainRecord]
  /\ IsFiniteSet(PostedIds)

(* Parents come before their children, so that the assertions are a tree.  *)
Descends ==
  /\ genesis \in PostedIds
  /\ \A i \in PostedIds :
       /\ i # genesis => /\ i.parent \in PostedIds
                         /\ i.batch_commitment \in 1..MaxPosted
                         /\ rank(i.parent) < rank(i)
       /\ rank(i) < Cardinality(PostedIds)
       /\ \E n \in 0..MaxPosted : n <= rank(i) /\ i \in generation[n]

FinalOnFinal ==
  /\ status(chain, genesis) = "finalized"
  /\ \A i \in PostedIds \ {genesis} :
       status(chain, i) = "finalized" => status(chain, i.parent) = "finalized"

(* The counter of an assertion that stands counts its undecided            *)
(* challenges, and only a challenged or a rejected assertion has any.      *)
Counted ==
  \A i \in PostedIds :
    /\ status(chain, i) \in {"pending", "finalized"} => contests_on(i) = {}
    /\ status(chain, i) # "rejected" =>
         /\ IsFiniteSet(contests_on(i))
         /\ chain.records[i].open_challenges = Cardinality(contests_on(i))

ContestsPosted == \A c \in contests : c[1] \in PostedIds

(* ContestedNotFinal is not inductive: when a challenge fails it takes the *)
(* counter to know that no other is undecided, and when one succeeds it    *)
(* takes FinalOnFinal, along the tree, to know that nothing final falls.   *)
ChainInv == ChainTyped /\ Descends /\ FinalOnFinal /\ Counted /\ ContestsPosted

-----------------------------------------------------------------------------
(* Any nonempty set of naturals has a least element.                       *)
LEMMA LeastRank ==
  ASSUME NEW T \in SUBSET Nat, T # {}
  PROVE  \E x \in T : \A y \in T : x <= y
<1> DEFINE R == OpToRel(<, Nat)
<1>1. IsWellFoundedOn(R, Nat)
  BY NatLessThanWellFounded
<1>2. \A x, y \in Nat : <<y, x>> \in R <=> y < x
  BY DEF OpToRel
<1> HIDE DEF R
<1>3. PICK x \in T : \A y \in T : ~ (<<y, x>> \in R)
  BY <1>1, WFMin
<1>4. \A y \in T : x \in Nat /\ y \in Nat /\ ~ (y < x)
  BY <1>2, <1>3
<1>5. \A y \in T : x <= y
  BY <1>4
<1> QED
  BY <1>5

(* f satisfies the recursion that builds the generations, up to n.         *)
IsGenerations(f, n) ==
  f = [k \in 0..n |-> IF k = 0 THEN {genesis} ELSE children(f[k - 1])]

(* That recursion has a solution, up to any n.                             *)
LEMMA GenerationsExist ==
  ASSUME NEW n \in Nat
  PROVE  \E f : IsGenerations(f, n)
<1> DEFINE T == {k \in Nat : ~ \E f : IsGenerations(f, k)}
<1> SUFFICES ASSUME T # {} PROVE FALSE
  OBVIOUS
<1>1. PICK k \in T : \A j \in T : k <= j
  <2> HIDE DEF T
  <2>1. T \in SUBSET Nat
    BY DEF T
  <2> QED
    BY <2>1, LeastRank
<1>2. k # 0
  <2>1. IsGenerations([j \in 0..0 |-> {genesis}], 0)
    BY DEF IsGenerations
  <2> QED
    BY <1>1, <2>1
<1>3. k - 1 \in Nat /\ k - 1 \notin T
  BY <1>1, <1>2
<1>4. PICK f : IsGenerations(f, k - 1)
  BY <1>3
<1> DEFINE h == [j \in 0..k |-> IF j = k THEN children(f[k - 1]) ELSE f[j]]
<1>5. \A j \in 0..k : h[j] = IF j = 0 THEN {genesis} ELSE children(h[j - 1])
  <2> TAKE j \in 0..k
  <2>1. CASE j = k
    <3>1. k - 1 \in 0..k /\ k - 1 # k /\ j # 0
      BY <1>1, <1>2, <2>1
    <3> QED
      BY <2>1, <3>1
  <2>2. CASE j # k
    <3>1. j \in 0..(k - 1) /\ (j # 0 => j - 1 \in 0..k /\ j - 1 # k)
      BY <1>1, <2>2
    <3> QED
      BY <1>4, <2>2, <3>1 DEF IsGenerations
  <2> QED
    BY <2>1, <2>2
<1>6. IsGenerations(h, k)
  BY <1>5 DEF IsGenerations
<1> QED
  BY <1>1, <1>6

(* So the generations are what the recursion says.                         *)
LEMMA Generations ==
  /\ generation[0] = {genesis}
  /\ \A n \in 1..MaxPosted : generation[n] = children(generation[n - 1])
<1>1. IsGenerations(generation, MaxPosted)
  BY GenerationsExist, LocalAssumption, Zenon DEF generation, IsGenerations, genesis
<1>2. MaxPosted \in Nat
  BY LocalAssumption
<1>3. \A k \in 0..MaxPosted :
        generation[k] = IF k = 0 THEN {genesis} ELSE children(generation[k - 1])
  <2> DEFINE f == generation
  <2>1. f = [k \in 0..MaxPosted |-> IF k = 0 THEN {genesis} ELSE children(f[k - 1])]
    BY <1>1 DEF IsGenerations
  <2> HIDE DEF f
  <2>2. \A k \in 0..MaxPosted : f[k] = IF k = 0 THEN {genesis} ELSE children(f[k - 1])
    BY <2>1
  <2> QED
    BY <2>2 DEF f
<1>4. 0 \in 0..MaxPosted /\ \A n \in 1..MaxPosted : n \in 0..MaxPosted /\ n # 0
  BY <1>2
<1> QED
  BY <1>3, <1>4

(* A child of a member of one generation is in the next.                   *)
LEMMA ChildOf ==
  ASSUME NEW n \in 0..MaxPosted, NEW p \in generation[n], NEW r \in PostRoots,
         NEW k \in later_batches(p), n + 1 <= MaxPosted
  PROVE  [parent |-> p, proposer |-> 1, pre_state_root |-> p.post_state_root,
          post_state_root |-> r, batch_commitment |-> k,
          trace_length |-> 1, bond |-> minimum_bond] \in generation[n + 1]
<1>1. n + 1 \in 1..MaxPosted /\ (n + 1) - 1 = n
  BY LocalAssumption
<1>2. generation[n + 1] = children(generation[n])
  BY <1>1, Generations
<1> QED
  BY <1>2 DEF children

(* What is posted could be posted; the zero hash was not.                  *)
LEMMA PostedConceivable ==
  ASSUME Descends
  PROVE  PostedIds \subseteq Conceivable /\ ZERO \notin PostedIds /\ genesis.parent = ZERO
<1>1. PostedIds \subseteq Conceivable
  BY DEF Descends, Conceivable
<1> QED
  BY <1>1, LocalAssumption DEF genesis, genesis_assertion

-----------------------------------------------------------------------------
(* The set the frontier loop of challenger_won visits exists: the          *)
(* intersection of all sets that are closed under its step.                *)
LEMMA SweepExists ==
  ASSUME NEW c, NEW id
  PROVE  \E s \in SUBSET DOMAIN c.records : IsSwept(s, c, id)
<1> DEFINE D == DOMAIN c.records
           F(s) == {i \in D : i = id \/ (i.parent \in s /\ status(c, i) # "rejected")}
           M == {i \in D : \A s \in SUBSET D : F(s) \subseteq s => i \in s}
<1>1. F(M) \subseteq M
  OBVIOUS
<1>2. F(F(M)) \subseteq F(M)
  BY <1>1
<1>3. M \subseteq F(M)
  BY <1>2
<1>4. M = F(M) /\ M \in SUBSET D
  BY <1>1, <1>3
<1> QED
  BY <1>4 DEF IsSwept

(* The sweep from a challenged assertion takes open assertions only.       *)
LEMMA SweepSpares ==
  ASSUME ChainInv, NEW id \in PostedIds, status(chain, id) = "challenged",
         NEW swept \in SUBSET PostedIds, IsSwept(swept, chain, id)
  PROVE  /\ id \in swept
         /\ \A i \in swept : status(chain, i) \in {"pending", "challenged"}
<1>1. id \in swept
  BY DEF IsSwept, PostedIds
<1>2. \A i \in swept : i # id => i.parent \in swept /\ status(chain, i) # "rejected"
  BY DEF IsSwept
<1>3. \A i \in PostedIds :
        /\ rank(i) \in Nat
        /\ status(chain, i) \in {"pending", "challenged", "finalized", "rejected"}
  BY DEF ChainInv, ChainTyped, ChainRecord, Descends, rank, status
<1> DEFINE final == {i \in swept : status(chain, i) = "finalized"}
           T == {rank(i) : i \in final}
<1>4. ASSUME final # {} PROVE FALSE
  <2>1. T \in SUBSET Nat /\ T # {}
    BY <1>3, <1>4
  <2>2. PICK x \in T : \A y \in T : x <= y
    <3> HIDE DEF T
    <3> QED
      BY <2>1, LeastRank
  <2>3. PICK i \in final : x = rank(i)
    BY <2>2
  <2>4. i \in PostedIds /\ i # id /\ i.parent \in swept /\ i.parent \in PostedIds
    BY <1>2, <2>3
  <2>5. i # genesis
    BY <2>4, PostedConceivable DEF ChainInv
  <2>6. status(chain, i.parent) = "finalized" /\ rank(i.parent) < rank(i)
    BY <2>3, <2>4, <2>5 DEF ChainInv, FinalOnFinal, Descends
  <2>7. rank(i.parent) \in T
    BY <2>4, <2>6
  <2>8. rank(i.parent) \in Nat /\ rank(i) \in Nat
    BY <1>3, <2>4
  <2> HIDE DEF T
  <2> QED
    BY <2>2, <2>3, <2>6, <2>7, <2>8
<1> QED
  BY <1>1, <1>2, <1>3, <1>4

-----------------------------------------------------------------------------
(* A step that posts nothing keeps the tree.                               *)
LEMMA TreeKept ==
  ASSUME ChainInv, NEW new \in [PostedIds -> ChainRecord], NEW latest, NEW t \in Nat,
         chain' = [records |-> new, latest_finalized |-> latest, now |-> t]
  PROVE  ChainTyped' /\ Descends' /\ PostedIds' = PostedIds /\ chain'.records = new
<1>1. /\ chain'.records = new /\ chain'.latest_finalized = latest /\ chain'.now = t
      /\ PostedIds' = PostedIds
  BY DEF PostedIds
<1> QED
  BY <1>1 DEF ChainInv, ChainTyped, Descends

(* Advancing the clock changes no record.                                  *)
LEMMA AdvanceKeeps ==
  ASSUME ChainInv, Advance
  PROVE  ChainInv' /\ PostedIds' = PostedIds /\ chain'.records = chain.records
<1>1. chain' = [records |-> chain.records, latest_finalized |-> chain.latest_finalized,
                now |-> chain.now + 1]
  BY DEF Advance, advance_to, ChainInv, ChainTyped
<1>2. chain.now + 1 \in Nat /\ chain.records \in [PostedIds -> ChainRecord]
  BY DEF ChainInv, ChainTyped
<1>3. ChainTyped' /\ Descends' /\ PostedIds' = PostedIds /\ chain'.records = chain.records
  BY <1>1, <1>2, TreeKept
<1>4. contests' = contests
  BY DEF Advance
<1> QED
  BY <1>3, <1>4 DEF ChainInv, FinalOnFinal, Counted, ContestsPosted, contests_on, status

(* Assertion a is posted on p, as the next batch.                          *)
Posts(a, p) ==
  /\ a.parent = p
  /\ status(chain, p) # "rejected"
  /\ a # genesis
  /\ a.batch_commitment = Cardinality(PostedIds)
  /\ \E n \in 0..MaxPosted : n <= Cardinality(PostedIds) /\ a \in generation[n]
  /\ chain' = [records |-> [i \in PostedIds \cup {a} |->
                 IF i = a THEN [status |-> "pending", posted_at |-> chain.now,
                                open_challenges |-> 0]
                 ELSE chain.records[i]],
               latest_finalized |-> chain.latest_finalized, now |-> chain.now]

(* The assertion that PostOne posts, and that it is new.                   *)
LEMMA PostDoes ==
  ASSUME ChainInv, NEW p \in PostedIds, NEW pre, NEW r \in PostRoots,
         NEW bond \in {minimum_bond, minimum_bond - 1}, PostOne(p, pre, r, bond)
  PROVE  \E a \in Conceivable \ PostedIds : Posts(a, p)
<1> DEFINE k == Cardinality(PostedIds)
           a == [parent |-> p, proposer |-> 1, pre_state_root |-> pre,
                 post_state_root |-> r, batch_commitment |-> k,
                 trace_length |-> 1, bond |-> bond]
<1>1. k \in Nat /\ k <= MaxPosted
  BY FS_CardinalityType DEF ChainInv, ChainTyped, PostOne
<1>2. /\ status(chain, p) # "rejected" /\ p.post_state_root = pre /\ bond >= minimum_bond
      /\ chain' = post(chain, a)
  BY DEF PostOne, can_post
<1>3. bond = minimum_bond
  BY <1>2, ChainAssumption
<1>4. a # genesis
  BY DEF genesis, genesis_assertion
<1>5. rank(a) = k
  BY <1>4 DEF rank
<1>6. a \notin PostedIds
  BY <1>1, <1>5 DEF ChainInv, Descends
<1>7. PICK n \in 0..MaxPosted : n <= rank(p) /\ p \in generation[n]
  BY DEF ChainInv, Descends
<1>8. rank(p) \in Nat /\ rank(p) < k /\ (p # genesis => p.batch_commitment = rank(p))
  BY <1>1 DEF ChainInv, Descends, rank
<1>9. k \in later_batches(p)
  <2>1. CASE p = genesis
    BY <1>1, <1>8, <2>1, LocalAssumption DEF later_batches, genesis, genesis_assertion
  <2>2. CASE p # genesis
    BY <1>1, <1>8, <2>2, LocalAssumption DEF later_batches
  <2> QED
    BY <2>1, <2>2
<1>10. n + 1 \in 0..MaxPosted /\ n + 1 <= k
  BY <1>1, <1>7, <1>8, LocalAssumption
<1>11. a \in generation[n + 1]
  <2>1. n + 1 <= MaxPosted
    BY <1>10
  <2>2. [parent |-> p, proposer |-> 1, pre_state_root |-> p.post_state_root,
         post_state_root |-> r, batch_commitment |-> k,
         trace_length |-> 1, bond |-> minimum_bond] \in generation[n + 1]
    <3> HIDE DEF k
    <3> QED
      BY <1>7, <1>9, <2>1, ChildOf
  <2> QED
    BY <1>2, <1>3, <2>2
<1>12. a \in Conceivable
  BY <1>10, <1>11 DEF Conceivable
<1>13. a.parent = p /\ a.batch_commitment = k
  OBVIOUS
<1> HIDE DEF a
<1>14. chain' = [records |-> [i \in PostedIds \cup {a} |->
                          IF i = a THEN [status |-> "pending", posted_at |-> chain.now,
                                         open_challenges |-> 0]
                          ELSE chain.records[i]],
                 latest_finalized |-> chain.latest_finalized, now |-> chain.now]
  BY <1>2 DEF post, ChainInv, ChainTyped, PostedIds
<1> QED
  BY <1>2, <1>4, <1>6, <1>10, <1>11, <1>12, <1>13, <1>14 DEF Posts

(* Posting grows the tree by an open assertion nobody contests yet.        *)
LEMMA PostKeeps ==
  ASSUME ChainInv, NEW p \in PostedIds, NEW pre, NEW r \in PostRoots,
         NEW bond \in {minimum_bond, minimum_bond - 1}, PostOne(p, pre, r, bond)
  PROVE  ChainInv'
<1>0. PICK a \in Conceivable \ PostedIds : Posts(a, p)
  BY PostDoes, Zenon
<1>1. /\ a.parent = p
      /\ status(chain, p) # "rejected"
      /\ a # genesis
      /\ a.batch_commitment = Cardinality(PostedIds)
      /\ \E n \in 0..MaxPosted : n <= Cardinality(PostedIds) /\ a \in generation[n]
      /\ chain' = [records |-> [i \in PostedIds \cup {a} |->
                     IF i = a THEN [status |-> "pending", posted_at |-> chain.now,
                                    open_challenges |-> 0]
                     ELSE chain.records[i]],
                   latest_finalized |-> chain.latest_finalized, now |-> chain.now]
  BY <1>0 DEF Posts
<1> DEFINE fresh == [status |-> "pending", posted_at |-> chain.now, open_challenges |-> 0]
<1>2. /\ PostedIds' = PostedIds \cup {a}
      /\ chain'.records = [i \in PostedIds \cup {a} |-> IF i = a THEN fresh ELSE chain.records[i]]
      /\ chain'.now = chain.now
      /\ chain' = [records |-> chain'.records, latest_finalized |-> chain'.latest_finalized,
                   now |-> chain'.now]
  BY <1>1 DEF PostedIds
<1>3. fresh \in ChainRecord /\ fresh.status = "pending"
  BY DEF ChainInv, ChainTyped, ChainRecord
<1> HIDE DEF fresh
<1>4. IsFiniteSet(PostedIds') /\ Cardinality(PostedIds') = Cardinality(PostedIds) + 1
  BY <1>1, <1>2, FS_AddElement DEF ChainInv, ChainTyped
<1>5. Cardinality(PostedIds) \in Nat
  BY FS_CardinalityType DEF ChainInv, ChainTyped
<1>6. ChainTyped'
  BY <1>2, <1>3, <1>4 DEF ChainInv, ChainTyped
<1>7. Descends'
  <2>1. genesis \in PostedIds'
    BY <1>2 DEF ChainInv, Descends
  <2>2. ASSUME NEW i \in PostedIds
        PROVE  /\ i # genesis => /\ i.parent \in PostedIds'
                                 /\ i.batch_commitment \in 1..MaxPosted
                                 /\ rank(i.parent) < rank(i)
               /\ rank(i) < Cardinality(PostedIds')
               /\ \E n \in 0..MaxPosted : n <= rank(i) /\ i \in generation[n]
    <3>1. rank(i) \in Nat
      BY DEF ChainInv, Descends, rank
    <3> QED
      BY <1>2, <1>4, <1>5, <3>1 DEF ChainInv, Descends
  <2>3. rank(a) = Cardinality(PostedIds)
    BY <1>1 DEF rank
  <2>4. rank(p) < rank(a) /\ rank(p) \in Nat
    BY <2>3 DEF ChainInv, Descends, rank
  <2>5. a.batch_commitment \in 1..MaxPosted
    <3>1. Cardinality(PostedIds) <= MaxPosted
      BY DEF PostOne
    <3> QED
      BY <1>1, <1>5, <2>3, <2>4, <3>1, LocalAssumption
  <2>6. /\ a.parent \in PostedIds' /\ rank(a.parent) < rank(a)
        /\ rank(a) < Cardinality(PostedIds')
        /\ \E n \in 0..MaxPosted : n <= rank(a) /\ a \in generation[n]
    BY <1>1, <1>2, <1>4, <1>5, <2>3, <2>4
  <2>7. ASSUME NEW i \in PostedIds'
        PROVE  /\ i # genesis => /\ i.parent \in PostedIds'
                                 /\ i.batch_commitment \in 1..MaxPosted
                                 /\ rank(i.parent) < rank(i)
               /\ rank(i) < Cardinality(PostedIds')
               /\ \E n \in 0..MaxPosted : n <= rank(i) /\ i \in generation[n]
    BY <1>2, <2>2, <2>5, <2>6
  <2> QED
    BY <2>1, <2>7 DEF Descends
<1>8. /\ \A i \in PostedIds : chain'.records[i] = chain.records[i]
      /\ chain'.records[a] = fresh
  BY <1>1, <1>2
<1>9. FinalOnFinal'
  BY <1>1, <1>2, <1>3, <1>8 DEF ChainInv, FinalOnFinal, Descends, status
<1>10. Counted'
  <2>1. contests' = contests /\ contests_on(a) = {}
    BY <1>1 DEF PostOne, ChainInv, ContestsPosted, contests_on
  <2>2. IsFiniteSet({}) /\ Cardinality({}) = 0 /\ fresh.open_challenges = 0
    BY FS_EmptySet DEF fresh
  <2>3. contests_on(a)' = {} /\ \A i \in PostedIds : contests_on(i)' = contests_on(i)
    BY <2>1 DEF contests_on
  <2>4. ASSUME NEW i \in PostedIds'
        PROVE  /\ status(chain, i)' \in {"pending", "finalized"} => contests_on(i)' = {}
               /\ status(chain, i)' # "rejected" =>
                    /\ IsFiniteSet(contests_on(i)')
                    /\ chain'.records[i].open_challenges = Cardinality(contests_on(i)')
    <3>1. CASE i = a
      BY <1>3, <1>8, <2>2, <2>3, <3>1 DEF status
    <3>2. CASE i \in PostedIds
      BY <1>8, <2>3, <3>2 DEF ChainInv, Counted, status
    <3> QED
      BY <1>2, <3>1, <3>2
  <2> QED
    BY <2>4 DEF Counted
<1>11. ContestsPosted'
  BY <1>2 DEF PostOne, ChainInv, ContestsPosted
<1> QED
  BY <1>6, <1>7, <1>9, <1>10, <1>11 DEF ChainInv

(* A record with another status or another counter is a record.            *)
LEMMA RecordFields ==
  ASSUME NEW r \in ChainRecord, NEW n \in Nat,
         NEW st \in {"pending", "challenged", "finalized", "rejected"}
  PROVE  /\ [r EXCEPT !.status = st] \in ChainRecord
         /\ [r EXCEPT !.open_challenges = n] \in ChainRecord
         /\ [r EXCEPT !.status = st, !.open_challenges = n] \in ChainRecord
         /\ [r EXCEPT !.open_challenges = n, !.status = st] \in ChainRecord
<1> DEFINE r1 == [r EXCEPT !.status = st]
           r2 == [r EXCEPT !.open_challenges = n]
<1>1. r1 \in ChainRecord /\ r2 \in ChainRecord
  BY DEF ChainRecord
<1>2. /\ [r EXCEPT !.status = st, !.open_challenges = n] = [r1 EXCEPT !.open_challenges = n]
      /\ [r EXCEPT !.open_challenges = n, !.status = st] = [r2 EXCEPT !.status = st]
  OBVIOUS
<1>3. [r1 EXCEPT !.open_challenges = n] \in ChainRecord /\ [r2 EXCEPT !.status = st] \in ChainRecord
  <2> HIDE DEF r1, r2
  <2> QED
    BY <1>1 DEF ChainRecord
<1> QED
  BY <1>1, <1>2, <1>3, Zenon

(* The record of id gets a new status and counter, and no other changes.   *)
Revises(id, st, open) ==
  /\ PostedIds' = PostedIds
  /\ chain'.records[id].status = st
  /\ chain'.records[id].open_challenges = open
  /\ \A i \in PostedIds \ {id} : chain'.records[i] = chain.records[i]

(* A step that gives one assertion another record keeps the tree.          *)
LEMMA OneRecord ==
  ASSUME ChainInv, NEW id \in PostedIds, NEW new \in ChainRecord, NEW latest,
         chain' = [records |-> [chain.records EXCEPT ![id] = new],
                   latest_finalized |-> latest, now |-> chain.now]
  PROVE  /\ Revises(id, new.status, new.open_challenges)
         /\ ChainTyped' /\ Descends'
<1> DEFINE recs == [chain.records EXCEPT ![id] = new]
<1>1. /\ recs \in [PostedIds -> ChainRecord] /\ recs[id] = new
      /\ \A i \in PostedIds \ {id} : recs[i] = chain.records[i]
      /\ chain.now \in Nat
  BY DEF ChainInv, ChainTyped
<1>2. chain' = [records |-> recs, latest_finalized |-> latest, now |-> chain.now]
  OBVIOUS
<1> HIDE DEF recs
<1>3. ChainTyped' /\ Descends' /\ PostedIds' = PostedIds /\ chain'.records = recs
  BY <1>1, <1>2, TreeKept
<1> QED
  BY <1>1, <1>3 DEF Revises

(* A challenge is counted.                                                 *)
LEMMA OpenDoes ==
  ASSUME ChainInv, NEW id \in PostedIds, chain' = open_challenge(chain, id)
  PROVE  /\ Revises(id, "challenged", chain.records[id].open_challenges + 1)
         /\ ChainTyped' /\ Descends'
<1> DEFINE r == chain.records[id]
           new == [r EXCEPT !.status = "challenged", !.open_challenges = r.open_challenges + 1]
<1>1. chain' = [records |-> [chain.records EXCEPT ![id] = new],
                latest_finalized |-> chain.latest_finalized, now |-> chain.now]
  BY DEF open_challenge, ChainInv, ChainTyped
<1>2. r \in ChainRecord /\ r.open_challenges + 1 \in Nat
  BY DEF ChainInv, ChainTyped, ChainRecord
<1>3. new.status = "challenged" /\ new.open_challenges = r.open_challenges + 1
  BY <1>2 DEF ChainRecord
<1>4. new \in ChainRecord
  <2> HIDE DEF r
  <2> QED
    BY <1>2, RecordFields
<1> HIDE DEF new
<1> QED
  BY <1>1, <1>3, <1>4, OneRecord

(* A challenge that fails is counted off, and the last one frees the       *)
(* assertion.                                                              *)
LEMMA DefenderDoes ==
  ASSUME ChainInv, NEW id \in PostedIds, chain' = defender_won(chain, id),
         chain.records[id].open_challenges # 0
  PROVE  /\ Revises(id, IF chain.records[id].open_challenges = 1 THEN "pending"
                        ELSE status(chain, id),
                    chain.records[id].open_challenges - 1)
         /\ ChainTyped' /\ Descends'
<1> DEFINE r == chain.records[id]
           st == IF r.open_challenges = 1 THEN "pending" ELSE status(chain, id)
           new == [r EXCEPT !.open_challenges = r.open_challenges - 1, !.status = st]
<1>1. chain' = [records |-> [chain.records EXCEPT ![id] = new],
                latest_finalized |-> chain.latest_finalized, now |-> chain.now]
  BY DEF defender_won, ChainInv, ChainTyped, status
<1>2. /\ r \in ChainRecord /\ r.open_challenges - 1 \in Nat
      /\ st \in {"pending", "challenged", "finalized", "rejected"}
  BY DEF ChainInv, ChainTyped, ChainRecord, status
<1>3. new.status = st /\ new.open_challenges = r.open_challenges - 1
  <2> HIDE DEF st
  <2> QED
    BY <1>2 DEF ChainRecord
<1>4. new \in ChainRecord
  <2> HIDE DEF r, st
  <2> QED
    BY <1>2, RecordFields
<1> HIDE DEF new
<1> QED
  BY <1>1, <1>3, <1>4, OneRecord

(* Finalizing sets the status.                                             *)
LEMMA FinalizeDoes ==
  ASSUME ChainInv, NEW id \in PostedIds, chain' = finalize(chain, id)
  PROVE  /\ Revises(id, "finalized", chain.records[id].open_challenges)
         /\ ChainTyped' /\ Descends'
<1> DEFINE r == chain.records[id]
           new == [r EXCEPT !.status = "finalized"]
<1>1. chain' = [records |-> [chain.records EXCEPT ![id] = new],
                latest_finalized |-> id, now |-> chain.now]
  BY DEF finalize, ChainInv, ChainTyped
<1>2. r \in ChainRecord
  BY DEF ChainInv, ChainTyped
<1>3. /\ new.status = "finalized" /\ new.open_challenges = r.open_challenges
      /\ new \in ChainRecord
  <2> HIDE DEF r
  <2> QED
    BY <1>2 DEF ChainRecord
<1> HIDE DEF new
<1> QED
  BY <1>1, <1>3, OneRecord

(* A challenge that succeeds rejects what the sweep visits.                *)
LEMMA ChallengerDoes ==
  ASSUME ChainInv, NEW id \in PostedIds, chain' = challenger_won(chain, id)
  PROVE  /\ ChainTyped' /\ Descends' /\ PostedIds' = PostedIds
         /\ \E swept \in SUBSET PostedIds :
              /\ IsSwept(swept, chain, id)
              /\ \A i \in swept : chain'.records[i].status = "rejected"
              /\ \A i \in PostedIds \ swept : chain'.records[i] = chain.records[i]
<1> DEFINE D == DOMAIN chain.records
           swept == CHOOSE s \in SUBSET D : IsSwept(s, chain, id)
           recs == [i \in PostedIds |->
                      IF i \in swept
                      THEN [chain.records[i] EXCEPT !.status = "rejected", !.open_challenges = 0]
                      ELSE chain.records[i]]
<1>1. swept \in SUBSET PostedIds /\ IsSwept(swept, chain, id)
  BY SweepExists DEF PostedIds
<1>2. chain' = [records |-> recs, latest_finalized |-> chain.latest_finalized,
                now |-> chain.now]
  <2>1. chain' = [chain EXCEPT !.records = [i \in DOMAIN chain.records |->
                    IF i \in swept
                    THEN [chain.records[i] EXCEPT !.status = "rejected", !.open_challenges = 0]
                    ELSE chain.records[i]]]
    BY DEF challenger_won
  <2>2. chain' = [chain EXCEPT !.records = recs]
    BY <2>1 DEF PostedIds
  <2> HIDE DEF recs
  <2> QED
    BY <2>2 DEF ChainInv, ChainTyped
<1> HIDE DEF swept
<1>3. ASSUME NEW i \in PostedIds
      PROVE  /\ recs[i] \in ChainRecord
             /\ i \in swept => recs[i].status = "rejected"
             /\ i \notin swept => recs[i] = chain.records[i]
  <2> DEFINE r == chain.records[i]
  <2>1. r \in ChainRecord
    BY DEF ChainInv, ChainTyped
  <2>2. i \in swept => recs[i] = [r EXCEPT !.status = "rejected", !.open_challenges = 0]
    OBVIOUS
  <2>3. i \notin swept => recs[i] = r
    OBVIOUS
  <2> HIDE DEF r, recs
  <2>4. [r EXCEPT !.status = "rejected", !.open_challenges = 0] \in ChainRecord
    BY <2>1, RecordFields
  <2>5. [r EXCEPT !.status = "rejected", !.open_challenges = 0].status = "rejected"
    BY <2>1 DEF ChainRecord
  <2> QED
    BY <2>1, <2>2, <2>3, <2>4, <2>5, Zenon DEF r
<1>4. recs \in [PostedIds -> ChainRecord] /\ chain.now \in Nat
  BY <1>3 DEF ChainInv, ChainTyped
<1> HIDE DEF recs
<1>5. ChainTyped' /\ Descends' /\ PostedIds' = PostedIds /\ chain'.records = recs
  BY <1>2, <1>4, TreeKept
<1> QED
  BY <1>1, <1>3, <1>5

(* A new challenge: one more contest, one more in the counter.             *)
LEMMA OpenKeeps ==
  ASSUME ChainInv, NEW id \in PostedIds, NEW who, OpenChallenge(id, who)
  PROVE  ChainInv' /\ Revises(id, "challenged", chain.records[id].open_challenges + 1)
         /\ status(chain, id) \in {"pending", "challenged"}
<1> DEFINE c == <<id, who>>
<1>1. /\ status(chain, id) \in {"pending", "challenged"} /\ c \notin contests
      /\ chain' = open_challenge(chain, id) /\ contests' = contests \cup {c}
  BY DEF OpenChallenge, can_open_challenge
<1>2. /\ Revises(id, "challenged", chain.records[id].open_challenges + 1)
      /\ ChainTyped' /\ Descends'
  BY <1>1, OpenDoes
<1>3. /\ contests_on(id)' = contests_on(id) \cup {c} /\ c \notin contests_on(id)
      /\ \A i \in PostedIds \ {id} : contests_on(i)' = contests_on(i)
  BY <1>1 DEF contests_on
<1> HIDE DEF c
<1>4. /\ IsFiniteSet(contests_on(id))
      /\ chain.records[id].open_challenges = Cardinality(contests_on(id))
  BY <1>1 DEF ChainInv, Counted
<1>5. /\ IsFiniteSet(contests_on(id)')
      /\ Cardinality(contests_on(id)') = chain.records[id].open_challenges + 1
  BY <1>3, <1>4, FS_AddElement
<1>6. FinalOnFinal'
  BY <1>1, <1>2 DEF ChainInv, FinalOnFinal, Descends, Revises, status
<1>7. Counted'
  <2> SUFFICES ASSUME NEW i \in PostedIds
               PROVE  /\ status(chain, i)' \in {"pending", "finalized"} => contests_on(i)' = {}
                      /\ status(chain, i)' # "rejected" =>
                           /\ IsFiniteSet(contests_on(i)')
                           /\ chain'.records[i].open_challenges = Cardinality(contests_on(i)')
    BY <1>2 DEF Counted, Revises
  <2>1. CASE i = id
    BY <1>2, <1>5, <2>1 DEF Revises, status
  <2>2. CASE i # id
    BY <1>2, <1>3, <2>2 DEF ChainInv, Counted, Revises, status
  <2> QED
    BY <2>1, <2>2
<1>8. ContestsPosted'
  BY <1>1, <1>2 DEF ChainInv, ContestsPosted, Revises, c
<1> QED
  BY <1>1, <1>2, <1>6, <1>7, <1>8 DEF ChainInv

(* A challenge that fails: the counter says whether it was the last.       *)
LEMMA DefenderKeeps ==
  ASSUME ChainInv, NEW id \in PostedIds, NEW who, DefenderWon(id, who)
  PROVE  /\ ChainInv' /\ status(chain, id) = "challenged"
         /\ \E st \in {"pending", "challenged"} : \E n : Revises(id, st, n)
<1> DEFINE c == <<id, who>>
           n == chain.records[id].open_challenges
           st == IF n = 1 THEN "pending" ELSE "challenged"
<1>1. /\ status(chain, id) = "challenged" /\ c \in contests
      /\ chain' = defender_won(chain, id) /\ contests' = contests \ {c}
  BY DEF DefenderWon, can_resolve
<1>2. /\ contests_on(id)' = contests_on(id) \ {c} /\ c \in contests_on(id)
      /\ \A i \in PostedIds \ {id} : contests_on(i)' = contests_on(i)
  BY <1>1 DEF contests_on
<1>3. IsFiniteSet(contests_on(id)) /\ n = Cardinality(contests_on(id))
  BY <1>1 DEF ChainInv, Counted
<1> HIDE DEF c
<1>4. /\ IsFiniteSet(contests_on(id)') /\ Cardinality(contests_on(id)') = n - 1
      /\ n \in Nat
  BY <1>2, <1>3, FS_RemoveElement, FS_CardinalityType
<1>5. n - 1 \in Nat
  BY <1>4, FS_CardinalityType
<1>6. Revises(id, st, n - 1) /\ ChainTyped' /\ Descends'
  <2>1. n # 0
    BY <1>4, <1>5
  <2> QED
    BY <1>1, <2>1, DefenderDoes
<1> HIDE DEF n
<1>7. n = 1 => contests_on(id)' = {}
  BY <1>4, FS_EmptySet
<1>8. FinalOnFinal'
  BY <1>1, <1>6 DEF ChainInv, FinalOnFinal, Descends, Revises, status
<1>9. Counted'
  <2> SUFFICES ASSUME NEW i \in PostedIds
               PROVE  /\ status(chain, i)' \in {"pending", "finalized"} => contests_on(i)' = {}
                      /\ status(chain, i)' # "rejected" =>
                           /\ IsFiniteSet(contests_on(i)')
                           /\ chain'.records[i].open_challenges = Cardinality(contests_on(i)')
    BY <1>6 DEF Counted, Revises
  <2>1. CASE i = id
    BY <1>4, <1>6, <1>7, <2>1 DEF Revises, status
  <2>2. CASE i # id
    BY <1>6, <1>2, <2>2 DEF ChainInv, Counted, Revises, status
  <2> QED
    BY <2>1, <2>2
<1>10. ContestsPosted'
  BY <1>1, <1>6 DEF ChainInv, ContestsPosted, Revises
<1>11. st \in {"pending", "challenged"}
  OBVIOUS
<1> HIDE DEF st
<1> QED
  BY <1>1, <1>6, <1>8, <1>9, <1>10, <1>11 DEF ChainInv

(* A finalization: the parent is final and nobody contests.                *)
LEMMA FinalizeKeeps ==
  ASSUME ChainInv, NEW id \in PostedIds, FinalizeOne(id)
  PROVE  /\ ChainInv' /\ Revises(id, "finalized", chain.records[id].open_challenges)
         /\ status(chain, id) = "pending" /\ status(chain, id.parent) = "finalized"
         /\ id.parent \in PostedIds
<1>1. /\ status(chain, id) = "pending" /\ status(chain, id.parent) = "finalized"
      /\ id.parent \in PostedIds
      /\ chain' = finalize(chain, id) /\ contests' = contests
  BY DEF FinalizeOne, can_finalize, known, PostedIds
<1>2. /\ Revises(id, "finalized", chain.records[id].open_challenges)
      /\ ChainTyped' /\ Descends'
  BY <1>1, FinalizeDoes
<1>3. FinalOnFinal'
  BY <1>1, <1>2 DEF ChainInv, FinalOnFinal, Descends, Revises, status
<1>4. Counted'
  BY <1>1, <1>2 DEF ChainInv, Counted, Revises, status, contests_on
<1>5. ContestsPosted'
  BY <1>1, <1>2 DEF ChainInv, ContestsPosted, Revises
<1> QED
  BY <1>1, <1>2, <1>3, <1>4, <1>5 DEF ChainInv

(* A challenge that succeeds: nothing final falls.                         *)
LEMMA ChallengerKeeps ==
  ASSUME ChainInv, NEW id \in PostedIds, NEW who, ChallengerWon(id, who)
  PROVE  /\ ChainInv' /\ PostedIds' = PostedIds
         /\ \E swept \in SUBSET PostedIds :
              /\ IsSwept(swept, chain, id) /\ id \in swept
              /\ \A i \in swept : /\ status(chain, i) \in {"pending", "challenged"}
                                  /\ chain'.records[i].status = "rejected"
              /\ \A i \in PostedIds \ swept : chain'.records[i] = chain.records[i]
<1>1. /\ status(chain, id) = "challenged" /\ chain' = challenger_won(chain, id)
      /\ contests' = contests \ {<<id, who>>}
  BY DEF ChallengerWon, can_resolve
<1>2. ChainTyped' /\ Descends' /\ PostedIds' = PostedIds
  BY <1>1, ChallengerDoes
<1>3. PICK swept \in SUBSET PostedIds :
        /\ IsSwept(swept, chain, id)
        /\ \A i \in swept : chain'.records[i].status = "rejected"
        /\ \A i \in PostedIds \ swept : chain'.records[i] = chain.records[i]
  BY <1>1, ChallengerDoes
<1>4. id \in swept /\ \A i \in swept : status(chain, i) \in {"pending", "challenged"}
  BY <1>1, <1>3, SweepSpares
<1>5. FinalOnFinal'
  BY <1>2, <1>3, <1>4 DEF ChainInv, FinalOnFinal, Descends, status
<1>6. Counted'
  <2>1. \A i \in PostedIds \ swept : contests_on(i)' = contests_on(i)
    BY <1>1, <1>4 DEF contests_on
  <2> QED
    BY <1>2, <1>3, <2>1 DEF ChainInv, Counted, status
<1>7. ContestsPosted'
  BY <1>1, <1>2 DEF ChainInv, ContestsPosted
<1> QED
  BY <1>2, <1>3, <1>4, <1>5, <1>6, <1>7 DEF ChainInv

(* The chain is created with its genesis final and nothing contested.      *)
LEMMA ChainStarts == ChainInit => ChainInv
<1> SUFFICES ASSUME ChainInit PROVE ChainInv
  OBVIOUS
<1> DEFINE rec == [status |-> "finalized", posted_at |-> 0, open_challenges |-> 0]
<1>1. /\ chain = [records |-> [i \in {genesis} |-> rec], latest_finalized |-> genesis, now |-> 0]
      /\ contests = {}
  BY DEF ChainInit, new_chain, genesis
<1>2. rec \in ChainRecord /\ rec.status = "finalized" /\ rec.open_challenges = 0
  BY DEF ChainRecord
<1> HIDE DEF rec
<1>3. /\ PostedIds = {genesis} /\ chain.records[genesis] = rec /\ chain.now = 0
      /\ chain.records \in [PostedIds -> ChainRecord]
      /\ chain = [records |-> chain.records, latest_finalized |-> chain.latest_finalized,
                  now |-> chain.now]
  BY <1>1, <1>2 DEF PostedIds
<1>4. IsFiniteSet({genesis}) /\ Cardinality({genesis}) = 1
      /\ IsFiniteSet({}) /\ Cardinality({}) = 0
  BY FS_Singleton, FS_EmptySet
<1>5. ChainTyped
  BY <1>3, <1>4 DEF ChainTyped
<1>6. Descends
  <2>1. rank(genesis) = 0 /\ 0 \in 0..MaxPosted /\ genesis \in generation[0]
    BY Generations, LocalAssumption DEF rank
  <2> QED
    BY <1>3, <1>4, <2>1 DEF Descends
<1>7. FinalOnFinal
  BY <1>2, <1>3 DEF FinalOnFinal, status
<1>8. Counted /\ ContestsPosted
  BY <1>1, <1>2, <1>3, <1>4 DEF Counted, ContestsPosted, contests_on, status
<1> QED
  BY <1>5, <1>6, <1>7, <1>8 DEF ChainInv

(* Every step of the chain keeps the invariant.                            *)
LEMMA ChainKeeps == ChainInv /\ [ChainNext]_chainVars => ChainInv'
<1> SUFFICES ASSUME ChainInv, [ChainNext]_chainVars PROVE ChainInv'
  OBVIOUS
<1>1. CASE Advance
  BY <1>1, AdvanceKeeps
<1>2. ASSUME NEW id \in PostedIds, NEW pre \in PostRoots, NEW r \in PostRoots,
             NEW bond \in {minimum_bond, minimum_bond - 1}, PostOne(id, pre, r, bond)
      PROVE  ChainInv'
  BY <1>2, PostKeeps
<1>3. ASSUME NEW id \in PostedIds, FinalizeOne(id) PROVE ChainInv'
  BY <1>3, FinalizeKeeps
<1>4. ASSUME NEW id \in PostedIds, NEW who \in Contestants,
             OpenChallenge(id, who) \/ DefenderWon(id, who) \/ ChallengerWon(id, who)
      PROVE  ChainInv'
  BY <1>4, OpenKeeps, DefenderKeeps, ChallengerKeeps
<1>5. CASE UNCHANGED chainVars
  BY <1>5 DEF chainVars, ChainInv, ChainTyped, Descends, FinalOnFinal, Counted, ContestsPosted,
              contests_on, PostedIds, status
<1> QED
  BY <1>1, <1>2, <1>3, <1>4, <1>5 DEF ChainNext

(* In every reachable state the invariant holds.                           *)
LEMMA ChainInductive == ChainSpec => []ChainInv
BY ChainStarts, ChainKeeps, PTL DEF ChainSpec

(* An assertion under an undecided challenge is not final and cannot be    *)
(* finalized, however many challenges are opened, lost and won, on it and  *)
(* on what it builds on, and in whatever order (resolve_challenge and      *)
(* finalize of the in-process chain).                                      *)
THEOREM ContestedStaysOpen == ChainSpec => []ContestedNotFinal
<1>1. ChainInv => ContestedNotFinal
  <2> SUFFICES ASSUME ChainInv, NEW c \in contests
               PROVE  status(chain, c[1]) \notin {"finalized", "pending"}
    BY DEF ContestedNotFinal, can_finalize
  <2>1. c[1] \in PostedIds /\ c \in contests_on(c[1])
    BY DEF ChainInv, ContestsPosted, contests_on
  <2> QED
    BY <2>1 DEF ChainInv, Counted
<1> QED
  BY <1>1, ChainInductive, PTL

-----------------------------------------------------------------------------
(* The chain implements Settlement.  What Settlement sees:                 *)
parentSeen == [id \in PostedIds |-> id.parent]
fateSeen == [id \in PostedIds |-> fate_of(status(chain, id))]

(* A step that keeps the assertions and their fates is invisible.          *)
LEMMA Invisible ==
  ASSUME PostedIds' = PostedIds,
         \A i \in PostedIds : fate_of(status(chain, i))' = fate_of(status(chain, i))
  PROVE  UNCHANGED <<parentSeen, fateSeen>>
BY DEF parentSeen, fateSeen

(* A posted assertion is an open claim on one that is not void.            *)
LEMMA PostMakes ==
  ASSUME ChainInv, NEW p \in PostedIds, NEW pre, NEW r \in PostRoots,
         NEW bond \in {minimum_bond, minimum_bond - 1}, PostOne(p, pre, r, bond)
  PROVE  Promise!Next
<1>1. PICK a \in Conceivable \ PostedIds : Posts(a, p)
  BY PostDoes, Zenon
<1>2. /\ PostedIds' = PostedIds \cup {a} /\ a.parent = p /\ status(chain, p) # "rejected"
      /\ \A i \in PostedIds : chain'.records[i] = chain.records[i]
      /\ chain'.records[a].status = "pending"
  BY <1>1 DEF Posts, PostedIds
<1>3. /\ fate_of(status(chain, a))' = "open" /\ fate_of(status(chain, p)) # "void"
      /\ \A i \in PostedIds : fate_of(status(chain, i))' = fate_of(status(chain, i))
  BY <1>2 DEF fate_of, status
<1>4. p \in Conceivable
  BY PostedConceivable DEF ChainInv
<1>5. Promise!Make(a, p)
  BY <1>1, <1>2, <1>3 DEF Promise!Make, Promise!Made, Promise!OPEN, Promise!VOID
<1> QED
  BY <1>4, <1>5 DEF Promise!Next

(* A finalization settles an open claim on a final one.                    *)
LEMMA FinalizeSettles ==
  ASSUME ChainInv, NEW id \in PostedIds, FinalizeOne(id)
  PROVE  Promise!Next
<1>1. /\ Revises(id, "finalized", chain.records[id].open_challenges)
      /\ status(chain, id) = "pending" /\ status(chain, id.parent) = "finalized"
      /\ id.parent \in PostedIds
  BY FinalizeKeeps
<1>2. /\ PostedIds' = PostedIds
      /\ fate_of(status(chain, id)) = "open" /\ fate_of(status(chain, id))' = "final"
      /\ fate_of(status(chain, id.parent)) = "final"
      /\ \A i \in PostedIds \ {id} : fate_of(status(chain, i))' = fate_of(status(chain, i))
  BY <1>1 DEF Revises, fate_of, status
<1>3. id \in Conceivable
  BY PostedConceivable DEF ChainInv
<1>4. Promise!Settle(id)
  BY <1>1, <1>2 DEF Promise!Settle, Promise!Made, Promise!OPEN, Promise!FINAL
<1> QED
  BY <1>3, <1>4 DEF Promise!Next

(* A challenge that succeeds is the fall of the claim: the frontier loop   *)
(* visits exactly the open claims that stand on it.                        *)
LEMMA ChallengerFells ==
  ASSUME ChainInv, NEW id \in PostedIds, NEW who, ChallengerWon(id, who)
  PROVE  Promise!Next
<1>1. /\ PostedIds' = PostedIds
      /\ \E swept \in SUBSET PostedIds :
              /\ IsSwept(swept, chain, id) /\ id \in swept
              /\ \A i \in swept : /\ status(chain, i) \in {"pending", "challenged"}
                                  /\ chain'.records[i].status = "rejected"
              /\ \A i \in PostedIds \ swept : chain'.records[i] = chain.records[i]
  BY ChallengerKeeps
<1>2. PICK swept \in SUBSET PostedIds :
              /\ IsSwept(swept, chain, id) /\ id \in swept
              /\ \A i \in swept : /\ status(chain, i) \in {"pending", "challenged"}
                                  /\ chain'.records[i].status = "rejected"
              /\ \A i \in PostedIds \ swept : chain'.records[i] = chain.records[i]
  BY <1>1
<1>3. /\ \A i \in swept : /\ fate_of(status(chain, i)) = "open"
                          /\ fate_of(status(chain, i))' = "void"
      /\ \A i \in PostedIds \ swept : fate_of(status(chain, i))' = fate_of(status(chain, i))
  BY <1>2 DEF fate_of, status
<1>4. \A i \in PostedIds : fate_of(status(chain, i)) = "open" => status(chain, i) # "rejected"
  BY DEF fate_of
<1>5. swept = {x \in PostedIds :
                 fate_of(status(chain, x)) = "open" /\ (x = id \/ x.parent \in swept)}
  BY <1>2, <1>3, <1>4 DEF IsSwept, PostedIds
<1>6. id \in Conceivable
  BY PostedConceivable DEF ChainInv
<1>7. Promise!IsFall(swept, id)
  BY <1>5 DEF Promise!IsFall, Promise!Made, Promise!OPEN
<1>8. Promise!Fall(id)
  BY <1>1, <1>2, <1>3, <1>7 DEF Promise!Fall, Promise!Made, Promise!OPEN, Promise!VOID
<1> QED
  BY <1>6, <1>8 DEF Promise!Next

(* The genesis of a new chain is the final root claim.                     *)
LEMMA StartsAsPromised == ChainInit => Promise!Init
<1> SUFFICES ASSUME ChainInit PROVE Promise!Init
  OBVIOUS
<1>1. /\ PostedIds = {genesis} /\ status(chain, genesis) = "finalized"
      /\ genesis.parent = ZERO /\ genesis = genesis_assertion(start_root)
  BY DEF ChainInit, new_chain, genesis, genesis_assertion, PostedIds, status
<1>2. fate_of("finalized") = "final"
  BY DEF fate_of
<1> QED
  BY <1>1, <1>2 DEF Promise!Init, Promise!FINAL

(* Every step of the chain is a step of Settlement or invisible to it.     *)
LEMMA StepsAsPromised ==
  ASSUME ChainInv, [ChainNext]_chainVars
  PROVE  Promise!Next \/ UNCHANGED <<parentSeen, fateSeen>>
<1>1. CASE Advance
  <2>1. PostedIds' = PostedIds /\ chain'.records = chain.records
    BY <1>1, AdvanceKeeps
  <2> QED
    BY <2>1, Invisible DEF status
<1>2. ASSUME NEW id \in PostedIds, NEW pre \in PostRoots, NEW r \in PostRoots,
             NEW bond \in {minimum_bond, minimum_bond - 1}, PostOne(id, pre, r, bond)
      PROVE  Promise!Next
  BY <1>2, PostMakes
<1>3. ASSUME NEW id \in PostedIds, FinalizeOne(id) PROVE Promise!Next
  BY <1>3, FinalizeSettles
<1>4. ASSUME NEW id \in PostedIds, NEW who \in Contestants, OpenChallenge(id, who)
      PROVE  UNCHANGED <<parentSeen, fateSeen>>
  <2>1. /\ Revises(id, "challenged", chain.records[id].open_challenges + 1)
        /\ status(chain, id) \in {"pending", "challenged"}
    BY <1>4, OpenKeeps
  <2>2. /\ PostedIds' = PostedIds
        /\ \A i \in PostedIds : fate_of(status(chain, i))' = fate_of(status(chain, i))
    BY <2>1 DEF Revises, status, fate_of
  <2> QED
    BY <2>2, Invisible
<1>5. ASSUME NEW id \in PostedIds, NEW who \in Contestants, DefenderWon(id, who)
      PROVE  UNCHANGED <<parentSeen, fateSeen>>
  <2>1. /\ status(chain, id) = "challenged"
        /\ \E st \in {"pending", "challenged"} : \E n : Revises(id, st, n)
    BY <1>5, DefenderKeeps
  <2>2. /\ PostedIds' = PostedIds
        /\ \A i \in PostedIds : fate_of(status(chain, i))' = fate_of(status(chain, i))
    BY <2>1 DEF Revises, status, fate_of
  <2> QED
    BY <2>2, Invisible
<1>6. ASSUME NEW id \in PostedIds, NEW who \in Contestants, ChallengerWon(id, who)
      PROVE  Promise!Next
  BY <1>6, ChallengerFells
<1>7. CASE UNCHANGED chainVars
  BY <1>7 DEF chainVars, parentSeen, fateSeen, PostedIds, status
<1> QED
  BY <1>1, <1>2, <1>3, <1>4, <1>5, <1>6, <1>7 DEF ChainNext

(* The chain that a node keeps in its own process makes the same promise   *)
(* as the contract on L1: finality on a final parent only, a rejection     *)
(* that takes what builds on it, and no fate taken back.                   *)
THEOREM LocalChainSettles == ChainSpec => ChainKeepsPromise
<1>1. ChainInv /\ [ChainNext]_chainVars => [Promise!Next]_(Promise!settlement)
  BY StepsAsPromised DEF Promise!settlement, parentSeen, fateSeen
<1> QED
  BY <1>1, StartsAsPromised, ChainInductive, PTL DEF ChainSpec, ChainKeepsPromise, Promise!Spec

-----------------------------------------------------------------------------
(* The bridge.                                                             *)

(* A step of the chain keeps what is final: neither a new claim, nor a     *)
(* settled one, nor a fall touches it.                                     *)
LEMMA FinalStays ==
  ASSUME Chain!Next, NEW c \in Chain!Made, fate[c] = "final"
  PROVE  c \in Chain!Made' /\ fate'[c] = "final"
<1>1. PICK x \in Claim : (\E p \in Claim : Chain!Make(x, p)) \/ Chain!Settle(x) \/ Chain!Fall(x)
  BY DEF Chain!Next
<1>2. CASE \E p \in Claim : Chain!Make(x, p)
  BY <1>2 DEF Chain!Make, Chain!Made
<1>3. CASE Chain!Settle(x)
  BY <1>3 DEF Chain!Settle, Chain!Made, Chain!FINAL
<1>4. CASE Chain!Fall(x)
  BY <1>4 DEF Chain!Fall, Chain!Made, Chain!IsFall, Chain!OPEN
<1> QED BY <1>1, <1>2, <1>3, <1>4

(* What was paid for a claim and a user is marked spent, and is at most    *)
(* the balance under a root that is final.                                 *)
Accounted(w) ==
  paid[w] > 0 => /\ w \in spent
                 /\ w[1] \in Chain!Made
                 /\ fate[w[1]] = "final"
                 /\ paid[w] <= HeldAt[w[1]][w[2]]

(* PaidOnceAndFinal is not inductive: a second payment is stopped by the   *)
(* spent set, which it does not mention.                                   *)
PaymentsInv ==
  /\ paid \in [Claim \X Users -> Nat]
  /\ \A w \in Claim \X Users : Accounted(w)

(* A new bridge has paid nothing.                                          *)
LEMMA PaymentsInit == BridgeInit => PaymentsInv
  BY DEF BridgeInit, PaymentsInv, Accounted

(* Every step accounts for what it pays.                                   *)
LEMMA PaymentsNext == PaymentsInv /\ [BridgeNext]_bridgeVars => PaymentsInv'
<1> SUFFICES ASSUME PaymentsInv, [BridgeNext]_bridgeVars PROVE PaymentsInv'
  OBVIOUS
<1> USE DEF PaymentsInv
<1>1. ASSUME UNCHANGED <<parent, fate, spent, paid>> PROVE PaymentsInv'
  BY <1>1 DEF Accounted, Chain!Made
<1>2. ASSUME NEW who \in Users, NEW amount \in Amounts, deposit(who, amount)
      PROVE  PaymentsInv'
  BY <1>1, <1>2 DEF deposit
<1>3. ASSUME NEW who \in Users, NEW id \in Claim, withdraw(who, id)
      PROVE  PaymentsInv'
  <2> DEFINE mine == <<id, who>>
             held == HeldAt[id][who]
  <2>1. /\ mine \in Claim \X Users /\ mine[1] = id /\ mine[2] = who
        /\ held \in Nat
    BY BridgeAssumption
  <2>2. /\ id \in Chain!Made /\ fate[id] = "final"
        /\ mine \notin spent
        /\ spent' = spent \cup {mine}
        /\ paid' = [paid EXCEPT ![mine] = @ + held]
        /\ UNCHANGED <<parent, fate>>
    BY <1>3 DEF withdraw, has_finalized_root, withdrawal_id
  <2>3. paid[mine] = 0
    BY <2>1, <2>2 DEF Accounted
  <2> HIDE DEF mine, held
  <2>4. paid' \in [Claim \X Users -> Nat] /\ paid'[mine] = held
    BY <2>1, <2>2, <2>3
  <2>5. Accounted(mine)'
    BY <2>1, <2>2, <2>4 DEF Accounted, Chain!Made, held
  <2>6. ASSUME NEW w \in Claim \X Users, w # mine PROVE Accounted(w)'
    <3>1. paid'[w] = paid[w]
      BY <2>1, <2>2, <2>6
    <3> QED BY <2>2, <2>6, <3>1 DEF Accounted, Chain!Made
  <2> QED BY <2>4, <2>5, <2>6
<1>4. ASSUME NEW who \in Users, NEW entry \in Entries, force_include(who, entry)
      PROVE  PaymentsInv'
  BY <1>1, <1>4 DEF force_include
<1>5. ASSUME NEW entry \in Entries, mark_included(entry) PROVE PaymentsInv'
  BY <1>1, <1>5 DEF mark_included
<1>6. CASE ChainMoves
  <2>1. Chain!Next /\ UNCHANGED <<spent, paid>>
    BY <1>6 DEF ChainMoves
  <2>2. ASSUME NEW w \in Claim \X Users PROVE Accounted(w)'
    BY <2>1, <2>2, FinalStays DEF Accounted
  <2> QED BY <2>1, <2>2
<1>7. CASE BridgeTick
  BY <1>1, <1>7 DEF BridgeTick
<1>8. CASE UNCHANGED bridgeVars
  BY <1>1, <1>8 DEF bridgeVars
<1> QED BY <1>2, <1>3, <1>4, <1>5, <1>6, <1>7, <1>8 DEF BridgeNext

(* The bridge of bridge.move pays at most the balance under a final root,  *)
(* once for each user and assertion, whatever the chain, the deposits and  *)
(* the repeated withdrawals do in between.                                 *)
THEOREM BridgePaysOnce == BridgeSpec => []PaidOnceAndFinal
<1>1. PaymentsInv => PaidOnceAndFinal
  BY DEF PaymentsInv, Accounted, PaidOnceAndFinal
<1> QED BY <1>1, PaymentsInit, PaymentsNext, PTL DEF BridgeSpec
-----------------------------------------------------------------------------
(* The times a forced entry's clock is read from.                          *)
ForcedInv ==
  /\ bridge_now \in Nat
  /\ \A e \in DOMAIN forced : forced[e] \in [submitter : Users, submitted_at : Nat,
                                             included : BOOLEAN]

(* The queue is empty at first.                                            *)
LEMMA ForcedInit == BridgeInit => ForcedInv
  BY DEF BridgeInit, ForcedInv

(* What one step may do to the queue: leave it and the clock, add an       *)
(* entry, mark one included, or let time pass.                             *)
LEMMA ForcedCases ==
  ASSUME [BridgeNext]_bridgeVars
  PROVE  \/ UNCHANGED <<forced, bridge_now>>
         \/ \E who \in Users, entry \in Entries : force_include(who, entry)
         \/ \E entry \in Entries : mark_included(entry)
         \/ BridgeTick
  BY DEF BridgeNext, bridgeVars, deposit, withdraw, ChainMoves

(* A step that includes an overdue entry or leaves it overdue.             *)
OverdueKept ==
  \A e \in DOMAIN forced : is_overdue(e) => forced'[e].included \/ is_overdue(e)'

(* Every step keeps the times, and every overdue entry overdue unless it   *)
(* includes it.                                                            *)
LEMMA ForcedNext ==
  ASSUME ForcedInv, [BridgeNext]_bridgeVars
  PROVE  ForcedInv' /\ OverdueKept
<1> USE DEF ForcedInv
<1>1. CASE UNCHANGED <<forced, bridge_now>>
  BY <1>1 DEF OverdueKept, is_overdue
<1>2. ASSUME NEW who \in Users, NEW entry \in Entries, force_include(who, entry)
      PROVE  ForcedInv' /\ OverdueKept
  <2>1. /\ entry \notin DOMAIN forced
        /\ DOMAIN forced' = DOMAIN forced \cup {entry}
        /\ forced'[entry] = queued_by(who)
        /\ \A e \in DOMAIN forced : forced'[e] = forced[e]
        /\ bridge_now' = bridge_now
    BY <1>2 DEF force_include
  <2>2. queued_by(who) \in [submitter : Users, submitted_at : Nat, included : BOOLEAN]
    BY DEF queued_by
  <2> QED BY <2>1, <2>2 DEF OverdueKept, is_overdue
<1>3. ASSUME NEW entry \in Entries, mark_included(entry)
      PROVE  ForcedInv' /\ OverdueKept
  <2>1. /\ entry \in DOMAIN forced
        /\ DOMAIN forced' = DOMAIN forced
        /\ forced'[entry] = [forced[entry] EXCEPT !.included = TRUE]
        /\ \A e \in DOMAIN forced : e # entry => forced'[e] = forced[e]
        /\ bridge_now' = bridge_now
    BY <1>3 DEF mark_included
  <2>2. /\ forced'[entry] \in [submitter : Users, submitted_at : Nat, included : BOOLEAN]
        /\ forced'[entry].included
    BY <2>1
  <2> QED BY <2>1, <2>2 DEF OverdueKept, is_overdue
<1>4. CASE BridgeTick
  BY <1>4, BridgeAssumption DEF BridgeTick, OverdueKept, is_overdue
<1> QED BY <1>1, <1>2, <1>3, <1>4, ForcedCases

(* Sending a forced entry again never restarts its clock: once overdue, it *)
(* is overdue until it is included.                                        *)
THEOREM OverdueStays == BridgeSpec => OverdueUntilIncluded
<1>1. ForcedInv /\ [BridgeNext]_bridgeVars => ForcedInv'
  BY ForcedNext
<1>2. ForcedInv /\ [BridgeNext]_bridgeVars =>
        [\A entry \in DOMAIN forced :
           is_overdue(entry) => forced'[entry].included \/ is_overdue(entry)']_bridgeVars
  BY ForcedNext DEF OverdueKept
<1> QED BY ForcedInit, <1>1, <1>2, PTL DEF BridgeSpec, OverdueUntilIncluded

-----------------------------------------------------------------------------
(* The arithmetic of fees and of dispute clocks, at every scale.           *)
(* Division of a natural number: the quotient is natural and rounds down.  *)
LEMMA DivisionBounds ==
  ASSUME NEW n \in Nat, NEW d \in Nat \ {0}
  PROVE  /\ n \div d \in Nat
         /\ d * (n \div d) <= n
         /\ n < d * (n \div d) + d
  BY Z3

(* A quotient is at least any number whose product fits.                   *)
LEMMA AtLeastQuotient ==
  ASSUME NEW n \in Nat, NEW d \in Nat \ {0}, NEW k \in Nat, d * k <= n
  PROVE  k <= n \div d
<1> DEFINE q == n \div d
<1>1. q \in Nat /\ n < d * q + d
  BY DivisionBounds
<1>2. SUFFICES ASSUME k >= q + 1 PROVE FALSE
  BY <1>1
<1> HIDE DEF q
<1>3. d * k >= d * (q + 1)
  BY <1>1, <1>2, Z3
<1>4. d * (q + 1) = d * q + d
  BY <1>1, Z3
<1> QED BY <1>1, <1>3, <1>4

(* Quotients that round down sum to at most the quotient of the sum.       *)
LEMMA QuotientsSum ==
  ASSUME NEW m \in Nat, NEW n \in Nat, NEW d \in Nat \ {0}
  PROVE  (m \div d) + (n \div d) <= (m + n) \div d
<1> DEFINE q == m \div d
           r == n \div d
<1>1. q \in Nat /\ r \in Nat /\ d * q <= m /\ d * r <= n
  BY DivisionBounds
<1> HIDE DEF q, r
<1>2. d * (q + r) = d * q + d * r
  BY <1>1, Z3
<1>3. d * (q + r) <= m + n /\ m + n \in Nat /\ q + r \in Nat
  BY <1>1, <1>2
<1>4. q + r <= (m + n) \div d
  BY <1>3, AtLeastQuotient
<1> QED BY <1>4 DEF q, r

(* The total of a price is natural, and totals that round down sum to at   *)
(* most the total of the whole: over gas, and over the parts of a price.   *)
LEMMA TotalsSum ==
  ASSUME NEW g \in Nat, NEW h \in Nat, NEW a \in Nat, NEW b \in Nat
  PROVE  /\ total(g, a) \in Nat
         /\ total(g, a) + total(g, b) <= total(g, a + b)
         /\ total(g, a) + total(h, a) <= total(g + h, a)
<1>1. PRICE_SCALE \in Nat \ {0}
  BY FeesAssumption
<1>2. g * a \in Nat /\ g * b \in Nat /\ h * a \in Nat
  BY Z3
<1>3. g * (a + b) = g * a + g * b /\ (g + h) * a = g * a + h * a
  BY Z3
<1>4. (g * a) \div PRICE_SCALE \in Nat
  BY <1>1, <1>2, DivisionBounds
<1>5. (g * a) \div PRICE_SCALE + (g * b) \div PRICE_SCALE <= (g * a + g * b) \div PRICE_SCALE
  BY <1>1, <1>2, QuotientsSum
<1>6. (g * a) \div PRICE_SCALE + (h * a) \div PRICE_SCALE <= (g * a + h * a) \div PRICE_SCALE
  BY <1>1, <1>2, QuotientsSum
<1> QED BY <1>3, <1>4, <1>5, <1>6 DEF total
-----------------------------------------------------------------------------
(* What settle promises of a charge: every part is a natural number, and   *)
(* the refund, the tip and the base fee are together what was held.        *)
PaidOut(charge) ==
  /\ charge.hold \in Nat /\ charge.refund \in Nat
  /\ charge.tip \in Nat /\ charge.base \in Nat
  /\ charge.refund + charge.tip + charge.base = charge.hold

(* settle of gas.rs adds the rounding remainder to the base fee without    *)
(* checking its sign: it is never negative, whatever the limit, the price  *)
(* caps, the base fee, the rate and the scales, when settle returns Ok.    *)
THEOREM HoldPaidOut ==
  ASSUME NEW gas_limit \in Nat, NEW gas_used \in Nat, NEW max_fee \in Nat,
         NEW priority \in Nat, NEW base_fee \in Nat, NEW rate \in Nat,
         can_settle(gas_limit, gas_used, max_fee, priority, base_fee, rate)
  PROVE  PaidOut(settle(gas_limit, gas_used, max_fee, priority, base_fee, rate))
<1> DEFINE b == native_to_asset(base_fee, rate)
           t == tip_per_gas(max_fee, priority, b)
           rest == gas_limit - gas_used
<1>1. b \in Nat
  <2>1. RATE_SCALE \in Nat \ {0}
    BY FeesAssumption
  <2>2. base_fee * rate \in Nat
    BY Z3
  <2> QED BY <2>1, <2>2, DivisionBounds DEF native_to_asset
<1>2. max_fee >= b /\ gas_used <= gas_limit
  BY DEF can_settle
<1>3. t \in Nat
  <2> HIDE DEF b
  <2> QED BY <1>1, <1>2 DEF tip_per_gas, smaller
<1>4. rest \in Nat /\ gas_used + rest = gas_limit
  BY <1>2
<1> DEFINE hold == total(gas_limit, b + t)
           refund == total(rest, b + t)
           tip == total(gas_used, t)
           base == total(gas_used, b)
<1>5. settle(gas_limit, gas_used, max_fee, priority, base_fee, rate)
        = [gas_used |-> gas_used, hold |-> hold, refund |-> refund, tip |-> tip,
           base |-> base + (hold - refund - tip - base)]
  BY DEF settle
<1> HIDE DEF b, t, rest
<1>6. /\ hold \in Nat /\ refund \in Nat /\ tip \in Nat /\ base \in Nat
      /\ base + tip <= total(gas_used, b + t)
      /\ total(gas_used, b + t) + refund <= hold
  <2>1. b + t \in Nat
    BY <1>1, <1>3
  <2>2. base \in Nat /\ base + tip <= total(gas_used, b + t)
    BY <1>1, <1>3, TotalsSum
  <2>3. tip \in Nat
    BY <1>1, <1>3, TotalsSum
  <2>4. total(gas_used, b + t) + refund <= total(gas_used + rest, b + t)
    BY <1>4, <2>1, TotalsSum
  <2>5. hold \in Nat /\ refund \in Nat
    BY <1>4, <2>1, TotalsSum
  <2> QED BY <1>4, <2>2, <2>3, <2>4, <2>5
<1>7. total(gas_used, b + t) \in Nat
  <2>1. b + t \in Nat
    BY <1>1, <1>3
  <2> QED BY <2>1, TotalsSum
<1> HIDE DEF hold, refund, tip, base
<1>8. hold - refund - tip - base \in Nat
  BY <1>6, <1>7
<1>9. refund + tip + (base + (hold - refund - tip - base)) = hold
  BY <1>6
<1>10. base + (hold - refund - tip - base) \in Nat
  BY <1>6, <1>8
<1> QED BY <1>5, <1>6, <1>9, <1>10 DEF PaidOut
-----------------------------------------------------------------------------
(* The base fee never falls below the floor governance set, and a window   *)
(* that used no more than window_limit raises it by an eighth, or by one   *)
(* unit if that is more: what the quote of gas_price relies on.            *)
THEOREM BaseFeeBounded ==
  ASSUME NEW base \in Nat, NEW gas \in Nat, NEW target \in Nat \ {0}, NEW floor \in Nat,
         base >= floor, gas <= target * ELASTICITY
  PROVE  /\ next_base_fee(base, gas, target, floor) >= floor
         /\ next_base_fee(base, gas, target, floor)
              <= base + larger(base \div BASE_FEE_CHANGE_DENOMINATOR, 1)
<1> DEFINE eighth == base \div 8
<1>1. eighth \in Nat
  BY DivisionBounds
<1>2. CASE gas > target
  <2> DEFINE product == base * (gas - target)
             share == product \div target
             step == share \div 8
  <2>1. gas - target \in Nat /\ gas - target <= target
    BY <1>2 DEF ELASTICITY
  <2>2. product \in Nat
    <3>1. \A x \in Nat : base * x \in Nat
      BY Z3
    <3> QED BY <2>1, <3>1
  <2>3. product <= target * base
    <3>1. \A x \in Nat : x <= target => base * x <= target * base
      BY Z3
    <3> QED BY <2>1, <3>1
  <2>4. share \in Nat /\ target * share <= product
    <3> HIDE DEF product
    <3> QED BY <2>2, DivisionBounds
  <2>5. share <= base
    <3> HIDE DEF share, product
    <3>1. SUFFICES ASSUME share >= base + 1 PROVE FALSE
      BY <2>4
    <3>2. target * share >= target * (base + 1)
      BY <2>4, <3>1, Z3
    <3>3. target * (base + 1) = target * base + target /\ target * base \in Nat
      BY Z3
    <3> QED BY <2>2, <2>3, <2>4, <3>2, <3>3
  <2>6. step \in Nat /\ step <= eighth
    <3> HIDE DEF share
    <3> QED BY <2>4, <2>5, Z3
  <2>7. raised(base, gas, target) = base + larger(step, 1)
    BY <1>2 DEF raised, excess, larger, BASE_FEE_CHANGE_DENOMINATOR
  <2>8. next_base_fee(base, gas, target, floor) = larger(base + larger(step, 1), floor)
    BY <1>2, <2>7 DEF next_base_fee, over_target
  <2> HIDE DEF step, eighth
  <2>9. larger(base + larger(step, 1), floor) >= floor
    BY <2>6 DEF larger
  <2>10. larger(base + larger(step, 1), floor) <= base + larger(eighth, 1)
    BY <1>1, <2>6 DEF larger
  <2> QED BY <2>8, <2>9, <2>10 DEF eighth, BASE_FEE_CHANGE_DENOMINATOR
<1>3. CASE ~(gas > target)
  <2> DEFINE product == base * (target - gas)
             share == product \div target
             step == share \div 8
  <2>1. target - gas \in Nat
    BY <1>3
  <2>2. product \in Nat
    <3>1. \A x \in Nat : base * x \in Nat
      BY Z3
    <3> QED BY <2>1, <3>1
  <2>3. share \in Nat
    <3> HIDE DEF product
    <3> QED BY <2>2, DivisionBounds
  <2>4. step \in Nat
    <3> HIDE DEF share
    <3> QED BY <2>3, DivisionBounds
  <2>5. next_base_fee(base, gas, target, floor) = larger(base - step, floor)
    BY <1>3 DEF next_base_fee, over_target, lowered, BASE_FEE_CHANGE_DENOMINATOR
  <2> HIDE DEF step, eighth
  <2>6. larger(base - step, floor) >= floor
    BY <2>4 DEF larger
  <2>7. larger(base - step, floor) <= base + larger(eighth, 1)
    BY <1>1, <2>4 DEF larger
  <2> QED BY <2>5, <2>6, <2>7 DEF eighth, BASE_FEE_CHANGE_DENOMINATOR
<1> QED BY <1>2, <1>3
-----------------------------------------------------------------------------
(* A longer window gives a clock that is at least as long.                 *)
LEMMA BudgetGrows ==
  ASSUME NEW d \in Nat \ {0}, NEW m \in Nat, NEW n \in Nat, m <= n
  PROVE  m \div d <= n \div d
<1> DEFINE q == m \div d
           r == n \div d
<1>1. q \in Nat /\ r \in Nat /\ d * q <= m /\ n < d * r + d
  BY DivisionBounds
<1>2. SUFFICES ASSUME q >= r + 1 PROVE FALSE
  BY <1>1
<1> HIDE DEF q, r
<1>3. d * q >= d * (r + 1)
  BY <1>1, <1>2, Z3
<1>4. d * (r + 1) = d * r + d
  BY <1>1, Z3
<1> QED BY <1>1, <1>3, <1>4

(* With a divisor of at least three, two clocks are shorter than a window. *)
LEMMA TwoClocksFit ==
  ASSUME NEW d \in Nat, d >= 3, NEW n \in Nat, n > 0
  PROVE  2 * (n \div d) < n
<1> DEFINE q == n \div d
<1>1. q \in Nat /\ d * q <= n
  BY DivisionBounds
<1> HIDE DEF q
<1>2. 3 * q <= d * q
  BY <1>1, Z3
<1>3. 2 * q < n
  BY <1>1, <1>2
<1> QED BY <1>3 DEF q

(* A set that validate accepts, with a divisor of at least three, is       *)
(* consistent at every window from its floor up: crates/sena-params checks *)
(* the floor and the named window only.                                    *)
THEOREM ValidEverywhere ==
  ASSUME NEW p \in ParamSets, validate(p), p.clock_budget_divisor >= 3,
         NEW w \in Nat, w >= p.challenge_window_floor_secs
  PROVE  validate_at_window(p, w)
<1> DEFINE f == p.challenge_window_floor_secs
           d == p.clock_budget_divisor
           t == p.move_timeout_secs
<1>1. f \in Nat /\ d \in Nat /\ t \in Nat
  BY DEF ParamSets
<1>2. 2 * (f \div d) < f /\ t <= f \div d
  BY DEF validate, validate_at_window, dispute_fits, clock_budget_secs
<1>3. f \div d \in Nat /\ w \div d \in Nat
  BY <1>1, DivisionBounds
<1>4. f \div d <= w \div d
  BY <1>1, BudgetGrows
<1>5. w > 0
  BY <1>1, <1>2, <1>3
<1>6. 2 * (w \div d) < w
  BY <1>1, <1>5, TwoClocksFit
<1>7. t <= w \div d
  BY <1>1, <1>2, <1>3, <1>4
<1>8. dispute_fits(p, w)
  BY <1>6, <1>7 DEF dispute_fits, clock_budget_secs
<1> QED BY <1>8 DEF validate, validate_at_window

(* What a step keeps: the frozen set is one that validate accepted, and    *)
(* the window of the chain is at least its floor.                          *)
Frozen ==
  /\ params \in ParamSets
  /\ validate(params)
  /\ deployed \in Nat
  /\ deployed >= params.challenge_window_floor_secs

(* Every chain started from a validated set has a window at which the set  *)
(* is consistent, whatever window its genesis asks for.                    *)
THEOREM FitsAnyWindow == ParamsSpec => []DisputesFitAnyWindow
<1>1. ParamsInit => Frozen
  <2> SUFFICES ASSUME ParamsInit PROVE Frozen
    OBVIOUS
  <2>1. params \in ParamSets /\ validate(params)
    BY ParamsAssumption DEF ParamsInit
  <2>2. deployed \in Nat
    BY <2>1 DEF ParamsInit, ParamSets
  <2>3. deployed >= params.challenge_window_floor_secs
    BY <2>1 DEF ParamsInit, validate, validate_at_window
  <2> QED BY <2>1, <2>2, <2>3 DEF Frozen
<1>2. Frozen /\ [ParamsNext]_paramVars => Frozen'
  <2> SUFFICES ASSUME Frozen, [ParamsNext]_paramVars PROVE Frozen'
    OBVIOUS
  <2>1. CASE UNCHANGED paramVars
    BY <2>1 DEF Frozen, paramVars
  <2>2. ASSUME NEW w \in Windows, Deploy(w)
        PROVE  Frozen'
    <3>1. params' = params /\ deployed' = clamped(params, w)
      BY <2>2 DEF Deploy
    <3>2. w \in Nat /\ params.challenge_window_floor_secs \in Nat
      BY ParamsAssumption DEF Frozen, ParamSets
    <3>3. deployed' \in Nat /\ deployed' >= params.challenge_window_floor_secs
      BY <3>1, <3>2 DEF clamped
    <3> QED BY <3>1, <3>3 DEF Frozen
  <2> QED BY <2>1, <2>2 DEF ParamsNext
<1>3. Frozen => DisputesFitAnyWindow
  BY ValidEverywhere DEF Frozen, DisputesFitAnyWindow
<1> QED BY <1>1, <1>2, <1>3, PTL DEF ParamsSpec
=============================================================================
