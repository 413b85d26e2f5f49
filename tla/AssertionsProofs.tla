-------------------------- MODULE AssertionsProofs --------------------------
(***************************************************************************)
(* Proofs about the assertion chain, for every set of parties, roots and   *)
(* batches, every window and every bond.                                   *)
(*                                                                         *)
(* TypeOK is not inductive alone: defender_won decrements a counter, which *)
(* stays a natural number because it counts the challenges that are open.  *)
(* NoneStandsOnRejected needs FinalizedIsSettled, because the sweep passes *)
(* over finalized assertions.  The inductive invariant is all of them.     *)
(***************************************************************************)
EXTENDS Assertions, FiniteSetTheorems, TLAPS

(* No batch is stamped further ahead of L1 than the drift allows.          *)
NoneAhead ==
  \A i \in Ids : assertions[i].timestamp <= now + MAX_FUTURE_DRIFT_SECS

IInv ==
  /\ TypeOK
  /\ NoneStandsOnRejected
  /\ FinalizedIsSettled
  /\ ChallengesCounted
  /\ NoneAhead

-----------------------------------------------------------------------------
(* A set of numbers that is not empty has a least one.  An argument from a *)
(* least counterexample takes the place of an induction.                   *)
LEMMA Least ==
  ASSUME NEW T \in SUBSET Nat, T # {}
  PROVE  \E x \in T : \A y \in T : x <= y
<1> DEFINE R == OpToRel(<, Nat)
<1>1. IsWellFoundedOn(R, Nat)
  BY NatLessThanWellFounded
<1>2. \A x, y \in Nat : <<y, x>> \in R <=> y < x
  BY DEF OpToRel
<1> HIDE DEF R
<1>3. PICK x \in T : \A y \in T : ~ (<<y, x>> \in R)
  BY <1>1, WFMin
<1>4. \A y \in T : x \in Nat /\ y \in Nat /\ ~ (y < x)
  BY <1>2, <1>3
<1>5. \A y \in T : x <= y
  BY <1>4
<1> QED
  BY <1>5

(* The clamped parameters are natural numbers, whatever was requested.     *)
LEMMA ParametersTyped ==
  challenge_window \in Nat \ {0} /\ max_batch_age \in Nat
BY ParameterAssumption DEF challenge_window, max_batch_age

(* A challenge list is finite, so counting it is meaningful.               *)
LEMMA ChallengesFinite ==
  ASSUME TypeOK, NEW i \in Ids
  PROVE  /\ IsFiniteSet(DOMAIN challenges[i])
         /\ Cardinality(DOMAIN challenges[i]) \in Nat
<1>1. DOMAIN challenges[i] \subseteq Party
  BY DEF TypeOK
<1>2. IsFiniteSet(DOMAIN challenges[i])
  BY <1>1, PartyAssumption, FS_Subset
<1> QED
  BY <1>2, FS_CardinalityType

(* A child stamped with the later of L1 time and its parent is accepted.   *)
LEMMA NoneAheadSuffices ==
  ASSUME TypeOK, NoneAhead
  PROVE  AlwaysExtendable
<1> SUFFICES ASSUME NEW i \in Ids, NEW stamp,
                    stamp = IF assertions[i].timestamp > now
                            THEN assertions[i].timestamp ELSE now
             PROVE  stamp <= now + MAX_FUTURE_DRIFT_SECS /\ now <= stamp + max_batch_age
  BY DEF AlwaysExtendable
<1>1. assertions[i].timestamp \in Nat /\ now \in Nat
  BY DEF TypeOK, Assertion
<1> QED
  BY <1>1, ParameterAssumption, ParametersTyped DEF NoneAhead

(* Revising a record keeps its type and everything it claims.              *)
SameClaim(a, b) ==
  /\ a.parent = b.parent /\ a.proposer = b.proposer
  /\ a.post_state_root = b.post_state_root /\ a.batch = b.batch
  /\ a.timestamp = b.timestamp /\ a.trace_length = b.trace_length
  /\ a.bond = b.bond /\ a.posted_at = b.posted_at

(* Revising the status and the counter of a record keeps its claim.        *)
LEMMA RevisedTyped ==
  ASSUME NEW a \in Assertion, NEW s \in Status, NEW n \in Nat
  PROVE  /\ revised(a, s, n) \in Assertion
         /\ SameClaim(revised(a, s, n), a)
         /\ revised(a, s, n).status = s
         /\ revised(a, s, n).open_challenges = n
BY DEF revised, Assertion, SameClaim

(* ... whatever the status is revised to.                                  *)
LEMMA RevisedFields ==
  ASSUME IInv, NEW i \in Ids, NEW s, NEW n
  PROVE  /\ revised(assertions[i], s, n).status = s
         /\ revised(assertions[i], s, n).parent = assertions[i].parent
         /\ revised(assertions[i], s, n).bond = assertions[i].bond
<1>1. assertions[i] \in Assertion
  BY DEF IInv, TypeOK
<1> QED
  BY <1>1 DEF revised, Assertion

(* What a post adds, and to what.                                          *)
LEMMA PostAppends ==
  ASSUME NEW p, NEW par, NEW r, NEW b, NEW stamp, NEW len, NEW bond,
         post(p, par, r, b, stamp, len, bond)
  PROVE  LET new == Cardinality(Ids) + 1
         IN  /\ new <= MaxAssertions
             /\ par \in Ids /\ assertions[par].status # REJECTED
             /\ assertions' = [i \in Ids \cup {new} |->
                                 IF i = new
                                 THEN record(p, par, r, b, stamp, len, bond)
                                 ELSE assertions[i]]
BY Zenon DEF post

(* The sweep rejects live assertions only.                                 *)
LEMMA SweptIsLive ==
  ASSUME NEW id, NEW swept, IsSwept(swept, id)
  PROVE  swept \subseteq {i \in Ids \ {id} : Live(i)}
BY DEF IsSwept

-----------------------------------------------------------------------------
(* The chain that initialize creates.                                      *)
LEMMA InitInductive == Init => IInv
<1> SUFFICES ASSUME Init PROVE IInv
  OBVIOUS
<1> USE DEF Init, initialize, Ids, Genesis
<1>1. 1 \in 1..MaxAssertions /\ Ids = 1..1
  BY ParameterAssumption
<1>2. assertions[1] \in Assertion
  BY PartyAssumption, ParameterAssumption
     DEF Assertion, Status, FINALIZED, EmptyBatch
<1>3. TypeOK
  BY <1>1, <1>2 DEF TypeOK
<1>4. NoneStandsOnRejected /\ FinalizedIsSettled
  BY DEF NoneStandsOnRejected, FinalizedIsSettled, FINALIZED, REJECTED
<1>5. ChallengesCounted
  BY FS_EmptySet DEF ChallengesCounted, FINALIZED, CHALLENGED
<1>6. NoneAhead
  BY ParameterAssumption DEF NoneAhead
<1> QED
  BY <1>3, <1>4, <1>5, <1>6 DEF IInv

(* post adds one pending assertion at the end and changes no other.        *)
LEMMA PostInductive ==
  ASSUME IInv,
         NEW p \in Party, NEW parent \in Ids, NEW r \in Root, NEW b \in Batch,
         NEW bond \in Bond, NEW timestamp \in 0..LastTimestamp,
         NEW trace_length \in TraceLength,
         post(p, parent, r, b, timestamp, trace_length, bond)
  PROVE  IInv'
<1> DEFINE new == Cardinality(Ids) + 1
           added == [parent |-> parent, proposer |-> p,
                     post_state_root |-> r, batch |-> b,
                     timestamp |-> timestamp, trace_length |-> trace_length,
                     bond |-> bond, posted_at |-> now, status |-> PENDING,
                     open_challenges |-> 0]
<1>1. PICK n \in 1..MaxAssertions : Ids = 1..n
  BY DEF IInv, TypeOK
<1>2. Cardinality(Ids) = n
  BY <1>1, FS_Interval, ParameterAssumption
<1>3. /\ new = n + 1
      /\ new \in 1..MaxAssertions
      /\ new \notin Ids
      /\ Genesis \in Ids
      /\ assertions[parent].status # REJECTED
      /\ timestamp <= now + MAX_FUTURE_DRIFT_SECS
      /\ assertions' = [i \in Ids \cup {new} |->
                          IF i = new THEN added ELSE assertions[i]]
      /\ challenges' = [i \in Ids \cup {new} |->
                          IF i = new THEN [q \in {} |-> 0] ELSE challenges[i]]
      /\ UNCHANGED <<now, latest_finalized>>
  BY <1>1, <1>2, ParameterAssumption DEF post, record, timestamp_ok, Genesis
<1>4. Ids' = 1..new /\ Ids' = Ids \cup {new} /\ new \in Nat \ {0, 1}
  BY <1>1, <1>3, ParameterAssumption DEF Ids
<1>5. added \in Assertion
  BY ParameterAssumption DEF Assertion, Status, PENDING, IInv, TypeOK
<1>6. /\ assertions'[new] = added
      /\ challenges'[new] = [q \in {} |-> 0]
      /\ \A i \in Ids : /\ assertions'[i] = assertions[i]
                        /\ challenges'[i] = challenges[i]
  BY <1>3
<1> HIDE DEF new
<1>7. TypeOK'
  <2>1. now' \in Nat /\ latest_finalized' \in Ids'
    BY <1>3, <1>4 DEF IInv, TypeOK
  <2>2. \E m \in 1..MaxAssertions : Ids' = 1..m
    BY <1>3, <1>4
  <2>3. assertions' \in [Ids' -> Assertion] /\ DOMAIN challenges' = Ids'
    BY <1>3, <1>4, <1>5, <1>6 DEF IInv, TypeOK
  <2>4. ASSUME NEW i \in Ids'
        PROVE  /\ assertions'[i].parent \in 0..(i - 1)
               /\ i # Genesis => assertions'[i].parent # 0
               /\ assertions'[i].posted_at <= now'
               /\ challenges'[i] \in [DOMAIN challenges'[i] -> Nat]
               /\ DOMAIN challenges'[i] \subseteq Party
    <3>1. CASE i = new
      BY <3>1, <1>1, <1>3, <1>4, <1>6, ParameterAssumption DEF IInv, TypeOK
    <3>2. CASE i \in Ids
      BY <3>2, <1>3, <1>6 DEF IInv, TypeOK
    <3> QED
      BY <3>1, <3>2, <1>4
  <2> QED
    BY <2>1, <2>2, <2>3, <2>4 DEF TypeOK
<1>8. NoneStandsOnRejected'
  <2> SUFFICES ASSUME NEW i \in Ids', assertions'[i].parent \in Ids',
                      assertions'[i].status # REJECTED
               PROVE  assertions'[assertions'[i].parent].status # REJECTED
    BY DEF NoneStandsOnRejected
  <2>1. CASE i = new
    BY <2>1, <1>3, <1>6
  <2>2. CASE i \in Ids
    <3>1. assertions[i].parent \in Ids
      BY <2>2, <1>1, <1>3, <1>4, <1>6 DEF IInv, TypeOK
    <3> QED
      BY <2>2, <3>1, <1>6 DEF IInv, NoneStandsOnRejected
  <2> QED
    BY <2>1, <2>2, <1>4
<1>9. FinalizedIsSettled'
  <2> SUFFICES ASSUME NEW i \in Ids' \ {Genesis},
                      assertions'[i].status = FINALIZED
               PROVE  /\ assertions'[assertions'[i].parent].status = FINALIZED
                      /\ assertions'[i].posted_at + challenge_window <= now'
                      /\ DOMAIN challenges'[i] = {}
    BY DEF FinalizedIsSettled, challenge_window
  <2>1. i \in Ids
    BY <1>4, <1>6 DEF PENDING, FINALIZED
  <2>2. assertions[i].parent \in Ids
    BY <2>1, <1>1 DEF IInv, TypeOK
  <2> QED
    BY <2>1, <2>2, <1>3, <1>6 DEF IInv, FinalizedIsSettled
<1>10. ChallengesCounted'
  <2> SUFFICES ASSUME NEW i \in Ids'
               PROVE  /\ assertions'[i].open_challenges = Cardinality(DOMAIN challenges'[i])
                      /\ assertions'[i].status = CHALLENGED <=> DOMAIN challenges'[i] # {}
    BY DEF ChallengesCounted
  <2>1. CASE i = new
    BY <2>1, <1>6, FS_EmptySet DEF PENDING, CHALLENGED
  <2>2. CASE i \in Ids
    BY <2>2, <1>6 DEF IInv, ChallengesCounted
  <2> QED
    BY <2>1, <2>2, <1>4
<1>11. NoneAhead'
  BY <1>3, <1>4, <1>6 DEF IInv, NoneAhead
<1> QED
  BY <1>7, <1>8, <1>9, <1>10, <1>11 DEF IInv

(* What open_challenge and the three outcomes share: they revise records   *)
(* and challenge lists in place.                                           *)
Revises ==
  /\ Ids' = Ids
  /\ assertions' \in [Ids -> Assertion]
  /\ \A i \in Ids : SameClaim(assertions'[i], assertions[i])
  /\ DOMAIN challenges' = Ids
  /\ \A i \in Ids : /\ challenges'[i] \in [DOMAIN challenges'[i] -> Nat]
                    /\ DOMAIN challenges'[i] \subseteq Party
  /\ now' = now
  /\ latest_finalized' \in Ids

(* A revision keeps the types and disturbs no timestamp.                   *)
LEMMA RevisesTyped ==
  ASSUME IInv, Revises
  PROVE  TypeOK' /\ NoneAhead'
<1>1. TypeOK'
  BY DEF IInv, TypeOK, Revises, SameClaim
<1>2. NoneAhead'
  BY DEF IInv, NoneAhead, Revises, SameClaim
<1> QED
  BY <1>1, <1>2

(* If nothing is finalized or rejected, only the counting can be disturbed.*)
LEMMA NothingSettles ==
  ASSUME IInv, Revises,
         \A i \in Ids :
           /\ assertions'[i].status = REJECTED <=> assertions[i].status = REJECTED
           /\ assertions'[i].status = FINALIZED <=> assertions[i].status = FINALIZED
           /\ assertions[i].status = FINALIZED => challenges'[i] = challenges[i]
  PROVE  NoneStandsOnRejected' /\ FinalizedIsSettled'
<1>1. NoneStandsOnRejected'
  BY DEF IInv, NoneStandsOnRejected, Revises, SameClaim
<1>2. FinalizedIsSettled'
  <2> SUFFICES ASSUME NEW i \in Ids \ {Genesis},
                      assertions'[i].status = FINALIZED
               PROVE  /\ assertions'[assertions'[i].parent].status = FINALIZED
                      /\ assertions'[i].posted_at + challenge_window <= now'
                      /\ DOMAIN challenges'[i] = {}
    BY DEF FinalizedIsSettled, challenge_window, Revises
  <2>1. assertions[i].parent \in Ids
    BY DEF IInv, TypeOK
  <2> QED
    BY <2>1 DEF IInv, FinalizedIsSettled, Revises, SameClaim
<1> QED
  BY <1>1, <1>2

(* open_challenge adds one challenger to one live assertion.               *)
LEMMA OpenChallengeInductive ==
  ASSUME IInv, NEW who \in Party, NEW id \in Ids, NEW bond \in Bond,
         open_challenge(who, id, bond)
  PROVE  IInv'
<1>1. PICK n \in 1..MaxAssertions : Ids = 1..n
  BY DEF IInv, TypeOK
<1>2. /\ who \notin DOMAIN challenges[id]
      /\ assertions[id].status \in {PENDING, CHALLENGED}
      /\ assertions' = [assertions EXCEPT
            ![id] = revised(@, CHALLENGED, @.open_challenges + 1)]
      /\ challenges' = [challenges EXCEPT
                          ![id] = [p \in DOMAIN @ \cup {who} |->
                                     IF p = who THEN bond ELSE @[p]]]
      /\ UNCHANGED <<now, latest_finalized>>
  BY DEF open_challenge, may_challenge
<1>3. assertions \in [Ids -> Assertion] /\ DOMAIN challenges = Ids
  BY DEF IInv, TypeOK
<1>4. /\ Ids' = Ids /\ DOMAIN challenges' = Ids
      /\ assertions'[id] =
           revised(assertions[id], CHALLENGED, assertions[id].open_challenges + 1)
      /\ challenges'[id] = [p \in DOMAIN challenges[id] \cup {who} |->
                              IF p = who THEN bond ELSE challenges[id][p]]
      /\ \A i \in Ids \ {id} : /\ assertions'[i] = assertions[i]
                               /\ challenges'[i] = challenges[i]
  BY <1>2, <1>3 DEF Ids
<1>5. \A i \in Ids : /\ assertions'[i] \in Assertion
                     /\ SameClaim(assertions'[i], assertions[i])
  <2>1. /\ assertions[id] \in Assertion /\ CHALLENGED \in Status
        /\ assertions[id].open_challenges + 1 \in Nat
    BY <1>3 DEF Status, Assertion
  <2>2. /\ assertions'[id] \in Assertion
        /\ SameClaim(assertions'[id], assertions[id])
    BY <2>1, <1>4, RevisedTyped
  <2>3. \A i \in Ids \ {id} : /\ assertions'[i] \in Assertion
                              /\ SameClaim(assertions'[i], assertions[i])
    BY <1>3, <1>4 DEF SameClaim
  <2> QED
    BY <2>2, <2>3, Zenon
<1>6. Revises
  <2>1. assertions' \in [Ids -> Assertion]
    BY <1>2, <1>3, <1>4, <1>5
  <2>2. /\ challenges'[id] \in [DOMAIN challenges'[id] -> Nat]
        /\ DOMAIN challenges'[id] \subseteq Party
    <3>1. /\ challenges[id] \in [DOMAIN challenges[id] -> Nat]
          /\ DOMAIN challenges[id] \subseteq Party
      BY DEF IInv, TypeOK
    <3>2. bond \in Nat
      BY ParameterAssumption
    <3> QED
      BY <1>4, <3>1, <3>2
  <2> QED
    BY <1>2, <1>4, <1>5, <2>1, <2>2 DEF IInv, TypeOK, Revises
<1>7. assertions'[id].status = CHALLENGED
      /\ assertions'[id].open_challenges = assertions[id].open_challenges + 1
  BY <1>4 DEF revised
<1>8. NoneStandsOnRejected' /\ FinalizedIsSettled'
  BY <1>2, <1>4, <1>6, <1>7, NothingSettles
     DEF CHALLENGED, PENDING, REJECTED, FINALIZED
<1>9. ChallengesCounted'
  <2>1. Cardinality(DOMAIN challenges'[id]) = Cardinality(DOMAIN challenges[id]) + 1
    BY <1>2, <1>4, ChallengesFinite, FS_AddElement DEF IInv
  <2> QED
    BY <1>4, <1>7, <2>1 DEF IInv, ChallengesCounted
<1> QED
  BY <1>6, <1>8, <1>9, RevisesTyped DEF IInv

(* defender_won removes one challenger; the last one to go reopens the     *)
(* assertion.                                                              *)
LEMMA DefenderWonInductive ==
  ASSUME IInv, NEW id \in Ids, NEW loser \in Party, defender_won(id, loser)
  PROVE  IInv'
<1> DEFINE left == assertions[id].open_challenges - 1
           status == IF assertions[id].open_challenges = 1 THEN PENDING ELSE CHALLENGED
<1>1. /\ loser \in DOMAIN challenges[id]
      /\ assertions[id].status = CHALLENGED
      /\ assertions' = [assertions EXCEPT ![id] =
            revised(@, status_after_defense(@), @.open_challenges - 1)]
      /\ challenges' = [challenges EXCEPT
                          ![id] = [p \in DOMAIN @ \ {loser} |-> @[p]]]
      /\ UNCHANGED <<now, latest_finalized>>
  BY DEF defender_won
<1>2. assertions \in [Ids -> Assertion] /\ DOMAIN challenges = Ids
  BY DEF IInv, TypeOK
<1>3. /\ Ids' = Ids /\ DOMAIN challenges' = Ids
      /\ assertions'[id] = revised(assertions[id], status, left)
      /\ challenges'[id] = [p \in DOMAIN challenges[id] \ {loser} |-> challenges[id][p]]
      /\ \A i \in Ids \ {id} : /\ assertions'[i] = assertions[i]
                               /\ challenges'[i] = challenges[i]
  BY <1>1, <1>2 DEF Ids, status_after_defense
<1>4. /\ Cardinality(DOMAIN challenges'[id]) = Cardinality(DOMAIN challenges[id]) - 1
      /\ IsFiniteSet(DOMAIN challenges'[id])
      /\ Cardinality(DOMAIN challenges'[id]) \in Nat
  <2>1. DOMAIN challenges'[id] = DOMAIN challenges[id] \ {loser}
    BY <1>3
  <2>2. IsFiniteSet(DOMAIN challenges[id])
    BY ChallengesFinite DEF IInv
  <2>3. loser \in DOMAIN challenges[id]
    BY <1>1
  <2> QED
    BY <2>1, <2>2, <2>3, FS_RemoveElement, FS_CardinalityType
<1>5. left = Cardinality(DOMAIN challenges'[id]) /\ left \in Nat
  BY <1>4 DEF IInv, ChallengesCounted
<1>6. status \in Status /\ status \in {PENDING, CHALLENGED}
  BY DEF Status
<1>7. assertions'[id].status = status /\ assertions'[id].open_challenges = left
  BY <1>3 DEF revised
<1> HIDE DEF left, status
<1>8. \A i \in Ids : /\ assertions'[i] \in Assertion
                     /\ SameClaim(assertions'[i], assertions[i])
  BY <1>2, <1>3, <1>5, <1>6, RevisedTyped DEF SameClaim
<1>9. Revises
  <2>1. assertions' \in [Ids -> Assertion]
    BY <1>1, <1>2, <1>3, <1>8
  <2>2. /\ challenges'[id] \in [DOMAIN challenges'[id] -> Nat]
        /\ DOMAIN challenges'[id] \subseteq Party
    BY <1>3 DEF IInv, TypeOK
  <2> QED
    BY <1>1, <1>3, <1>8, <2>1, <2>2 DEF IInv, TypeOK, Revises
<1>10. NoneStandsOnRejected' /\ FinalizedIsSettled'
  BY <1>1, <1>3, <1>6, <1>7, <1>9, NothingSettles
     DEF CHALLENGED, PENDING, REJECTED, FINALIZED
<1>11. ChallengesCounted'
  <2>1. left = 0 <=> DOMAIN challenges'[id] = {}
    BY <1>4, <1>5, FS_EmptySet
  <2>2. status = CHALLENGED <=> left # 0
    BY <1>2, <1>5 DEF status, left, PENDING, CHALLENGED, Assertion
  <2> QED
    BY <1>3, <1>5, <1>7, <2>1, <2>2 DEF IInv, ChallengesCounted
<1> QED
  BY <1>9, <1>10, <1>11, RevisesTyped DEF IInv

(* challenger_won rejects one assertion and sweeps what stands on it.  A   *)
(* finalized assertion survives because its parent is finalized, a live    *)
(* one survives only if its parent does.                                   *)
LEMMA ChallengerWonInductive ==
  ASSUME IInv, NEW id \in Ids, NEW winner \in Party, challenger_won(id, winner)
  PROVE  IInv'
<1>1. PICK swept \in SUBSET Ids :
        /\ IsSwept(swept, id)
        /\ assertions' = [i \in Ids |->
             IF i \in swept \cup {id} THEN revised(assertions[i], REJECTED, 0)
             ELSE assertions[i]]
        /\ challenges' = [i \in Ids |->
             IF i \in swept \cup {id} THEN [p \in {} |-> 0] ELSE challenges[i]]
  BY DEF challenger_won
<1> DEFINE fallen == swept \cup {id}
<1>2. assertions[id].status = CHALLENGED /\ UNCHANGED <<now, latest_finalized>>
  BY DEF challenger_won
<1>3. fallen \subseteq Ids /\ \A i \in fallen : Live(i)
  BY <1>1, <1>2, SweptIsLive DEF Live
<1>4. /\ Ids' = Ids /\ DOMAIN challenges' = Ids
      /\ \A i \in fallen : /\ assertions'[i] = revised(assertions[i], REJECTED, 0)
                           /\ challenges'[i] = [p \in {} |-> 0]
      /\ \A i \in Ids \ fallen : /\ assertions'[i] = assertions[i]
                                 /\ challenges'[i] = challenges[i]
  BY <1>1, <1>3 DEF Ids
<1>5. \A i \in Ids \ fallen :
        /\ Live(i)
        /\ assertions[i].parent \in Ids
        => /\ assertions[assertions[i].parent].status # REJECTED
           /\ assertions[i].parent \notin fallen
  BY <1>1 DEF IsSwept
<1> HIDE DEF fallen
<1>6. \A i \in Ids : /\ assertions'[i] \in Assertion
                     /\ SameClaim(assertions'[i], assertions[i])
  <2> SUFFICES ASSUME NEW i \in Ids
               PROVE  assertions'[i] \in Assertion /\ SameClaim(assertions'[i], assertions[i])
    OBVIOUS
  <2>1. assertions[i] \in Assertion
    BY DEF IInv, TypeOK
  <2>2. CASE i \in fallen
    <3>1. REJECTED \in Status /\ 0 \in Nat
      BY DEF Status
    <3>2. assertions'[i] = revised(assertions[i], REJECTED, 0)
      BY <2>2, <1>4
    <3> QED
      BY <2>1, <3>1, <3>2, RevisedTyped
  <2>3. CASE i \notin fallen
    BY <2>1, <2>3, <1>4 DEF SameClaim
  <2> QED
    BY <2>2, <2>3
<1>7. Revises
  <2>1. assertions' \in [Ids -> Assertion]
    BY <1>1, <1>6
  <2>2. \A i \in Ids : /\ challenges'[i] \in [DOMAIN challenges'[i] -> Nat]
                       /\ DOMAIN challenges'[i] \subseteq Party
    <3> SUFFICES ASSUME NEW i \in Ids
                 PROVE  /\ challenges'[i] \in [DOMAIN challenges'[i] -> Nat]
                        /\ DOMAIN challenges'[i] \subseteq Party
      OBVIOUS
    <3>1. CASE i \in fallen
      <4>1. challenges'[i] = [p \in {} |-> 0]
        BY <3>1, <1>4
      <4> QED
        BY <4>1
    <3>2. CASE i \notin fallen
      BY <3>2, <1>4 DEF IInv, TypeOK
    <3> QED
      BY <3>1, <3>2
  <2> QED
    BY <1>2, <1>4, <1>6, <2>1, <2>2 DEF IInv, TypeOK, Revises
<1>8. \A i \in fallen : /\ assertions'[i].status = REJECTED
                        /\ assertions'[i].open_challenges = 0
                        /\ assertions[i].status # FINALIZED
  <2> SUFFICES ASSUME NEW i \in fallen
               PROVE  /\ assertions'[i].status = REJECTED
                      /\ assertions'[i].open_challenges = 0
                      /\ assertions[i].status # FINALIZED
    OBVIOUS
  <2>1. assertions'[i] = revised(assertions[i], REJECTED, 0)
    BY <1>4
  <2>2. assertions[i].status # FINALIZED
    BY <1>3 DEF Live, PENDING, CHALLENGED, FINALIZED
  <2> QED
    BY <2>1, <2>2 DEF revised
<1>9. NoneStandsOnRejected'
  <2> SUFFICES ASSUME NEW i \in Ids, assertions[i].parent \in Ids,
                      assertions'[i].status # REJECTED
               PROVE  assertions'[assertions[i].parent].status # REJECTED
    BY <1>4, <1>6 DEF NoneStandsOnRejected, SameClaim
  <2>1. i \notin fallen /\ assertions[i].status # REJECTED
    BY <1>4, <1>8
  <2>2. CASE Live(i)
    BY <2>1, <2>2, <1>4, <1>5
  <2>3. CASE assertions[i].status = FINALIZED
    <3>1. i # Genesis
      BY DEF IInv, TypeOK, Genesis
    <3>2. assertions[assertions[i].parent].status = FINALIZED
      BY <2>3, <3>1 DEF IInv, FinalizedIsSettled
    <3> QED
      BY <3>2, <1>4, <1>8 DEF FINALIZED, REJECTED
  <2> QED
    BY <2>1, <2>2, <2>3 DEF Live, IInv, TypeOK, Assertion, Status
<1>10. FinalizedIsSettled'
  <2> SUFFICES ASSUME NEW i \in Ids \ {Genesis},
                      assertions'[i].status = FINALIZED
               PROVE  /\ assertions'[assertions'[i].parent].status = FINALIZED
                      /\ assertions'[i].posted_at + challenge_window <= now'
                      /\ DOMAIN challenges'[i] = {}
    BY <1>4 DEF FinalizedIsSettled, challenge_window
  <2>1. i \notin fallen /\ assertions[i].status = FINALIZED
    BY <1>4, <1>8 DEF FINALIZED, REJECTED
  <2>2. /\ assertions[i].parent \in Ids
        /\ assertions[assertions[i].parent].status = FINALIZED
    BY <2>1 DEF IInv, TypeOK, FinalizedIsSettled
  <2> QED
    BY <2>1, <2>2, <1>2, <1>4, <1>8 DEF IInv, FinalizedIsSettled
<1>11. ChallengesCounted'
  BY <1>4, <1>8, FS_EmptySet DEF IInv, ChallengesCounted, REJECTED, CHALLENGED
<1> QED
  BY <1>7, <1>9, <1>10, <1>11, RevisesTyped DEF IInv

(* finalize settles one pending assertion on a finalized parent.           *)
LEMMA FinalizeInductive ==
  ASSUME IInv, NEW id \in Ids, finalize(id)
  PROVE  IInv'
<1>1. /\ assertions[id].status = PENDING
      /\ assertions[id].parent \in Ids
      /\ assertions[assertions[id].parent].status = FINALIZED
      /\ now - assertions[id].posted_at >= challenge_window
      /\ assertions' = [assertions EXCEPT
                          ![id] = revised(@, FINALIZED, @.open_challenges)]
      /\ latest_finalized' = id
      /\ UNCHANGED <<now, challenges>>
  BY DEF finalize, can_finalize
<1>2. assertions \in [Ids -> Assertion] /\ DOMAIN challenges = Ids
  BY DEF IInv, TypeOK
<1>3. /\ Ids' = Ids
      /\ assertions'[id] =
           revised(assertions[id], FINALIZED, assertions[id].open_challenges)
      /\ \A i \in Ids \ {id} : assertions'[i] = assertions[i]
  BY <1>1, <1>2 DEF Ids
<1>4. \A i \in Ids : /\ assertions'[i] \in Assertion
                     /\ SameClaim(assertions'[i], assertions[i])
  <2>1. assertions[id].open_challenges \in Nat
    BY <1>2 DEF Assertion
  <2>2. assertions[id] \in Assertion /\ FINALIZED \in Status
    BY <1>2 DEF Status
  <2>3. assertions'[id] \in Assertion /\ SameClaim(assertions'[id], assertions[id])
    BY <2>1, <2>2, <1>3, RevisedTyped
  <2> QED
    BY <2>3, <1>2, <1>3 DEF SameClaim
<1>5. Revises
  BY <1>1, <1>2, <1>3, <1>4 DEF IInv, TypeOK, Revises
<1>6. /\ assertions'[id].status = FINALIZED
      /\ assertions'[id].open_challenges = assertions[id].open_challenges
      /\ DOMAIN challenges[id] = {}
  BY <1>1, <1>3 DEF revised, IInv, ChallengesCounted, PENDING, CHALLENGED
<1>7. NoneStandsOnRejected'
  <2>1. \A i \in Ids : assertions'[i].parent = assertions[i].parent
    BY <1>4 DEF SameClaim
  <2>2. \A i \in Ids : (assertions'[i].status = REJECTED) <=> (assertions[i].status = REJECTED)
    BY <1>1, <1>3, <1>6 DEF FINALIZED, PENDING, REJECTED
  <2> QED
    BY <2>1, <2>2, <1>3 DEF IInv, NoneStandsOnRejected
<1>8. FinalizedIsSettled'
  <2> SUFFICES ASSUME NEW i \in Ids \ {Genesis},
                      assertions'[i].status = FINALIZED
               PROVE  /\ assertions'[assertions'[i].parent].status = FINALIZED
                      /\ assertions'[i].posted_at + challenge_window <= now'
                      /\ DOMAIN challenges'[i] = {}
    BY <1>3 DEF FinalizedIsSettled, challenge_window
  <2>1. CASE i = id
    <3>1. assertions[id].posted_at \in Nat /\ now \in Nat
      BY <1>2 DEF IInv, TypeOK, Assertion
    <3> QED
      BY SMTT(30), <2>1, <3>1, <1>1, <1>3, <1>4, <1>6, ParametersTyped DEF SameClaim
  <2>2. CASE i # id
    <3>1. assertions[i].parent \in Ids
      BY DEF IInv, TypeOK
    <3> QED
      BY <2>2, <3>1, <1>1, <1>3, <1>6 DEF IInv, FinalizedIsSettled
  <2> QED
    BY <2>1, <2>2
<1>9. ChallengesCounted'
  BY <1>1, <1>3, <1>6 DEF IInv, ChallengesCounted, PENDING, FINALIZED, CHALLENGED
<1> QED
  BY <1>5, <1>7, <1>8, <1>9, RevisesTyped DEF IInv

(* The clock only moves windows towards their end.                         *)
LEMMA TickInductive ==
  ASSUME IInv, Tick
  PROVE  IInv'
<1>1. now' = now + 1 /\ now \in Nat /\ UNCHANGED <<assertions, challenges, latest_finalized>>
  BY DEF Tick, IInv, TypeOK
<1>2. Ids' = Ids
  BY <1>1 DEF Ids
<1>3. \A i \in Ids : /\ assertions[i].posted_at \in Nat
                     /\ assertions[i].timestamp \in Nat
  BY DEF IInv, TypeOK, Assertion
<1>4. TypeOK'
  BY <1>1, <1>2, <1>3 DEF IInv, TypeOK
<1>5. NoneStandsOnRejected' /\ ChallengesCounted'
  BY <1>1, <1>2 DEF IInv, NoneStandsOnRejected, ChallengesCounted
<1>6. FinalizedIsSettled'
  <2> SUFFICES ASSUME NEW i \in Ids \ {Genesis}, assertions[i].status = FINALIZED
               PROVE  /\ assertions[assertions[i].parent].status = FINALIZED
                      /\ assertions[i].posted_at + challenge_window <= now + 1
                      /\ DOMAIN challenges[i] = {}
    BY <1>1, <1>2 DEF FinalizedIsSettled, challenge_window
  <2> QED
    BY <1>1, <1>3, ParametersTyped DEF IInv, FinalizedIsSettled
<1>7. NoneAhead'
  BY <1>1, <1>2, <1>3, ParameterAssumption DEF IInv, NoneAhead
<1> QED
  BY <1>4, <1>5, <1>6, <1>7 DEF IInv

(* Each entry point, and the clock, preserves the invariant.               *)
LEMMA NextInductive == IInv /\ [Next]_vars => IInv'
<1> SUFFICES ASSUME IInv, [Next]_vars PROVE IInv'
  OBVIOUS
<1>1. CASE Tick
  BY <1>1, TickInductive
<1>2. CASE Post
  BY <1>2, PostInductive DEF Post
<1>3. CASE OpenChallenge
  BY <1>3, OpenChallengeInductive DEF OpenChallenge
<1>4. CASE \E i \in Ids : Verdict(i)
  BY <1>4, DefenderWonInductive, ChallengerWonInductive DEF Verdict
<1>5. CASE \E i \in Ids : finalize(i)
  BY <1>5, FinalizeInductive
<1>6. CASE UNCHANGED vars
  BY <1>6 DEF vars, IInv, TypeOK, NoneStandsOnRejected, FinalizedIsSettled,
              ChallengesCounted, NoneAhead, Ids, challenge_window
<1> QED
  BY <1>1, <1>2, <1>3, <1>4, <1>5, <1>6 DEF Next

-----------------------------------------------------------------------------
(* The invariant holds in every state of every behaviour.                  *)
LEMMA Inductive == Spec => []IInv
<1> QED
  BY InitInductive, NextInductive, PTL DEF Spec

(* The chain's records keep their types and its order vector its shape:    *)
(* in particular defender_won never takes the challenge counter below zero.*)
THEOREM TypeCorrect == Spec => []TypeOK
<1>1. IInv => TypeOK
  BY DEF IInv
<1> QED
  BY <1>1, Inductive, PTL

(* REQ-FRAUD-019 for chains of every length and shape: one pass of the     *)
(* sweep in challenger_won leaves nothing standing on a rejected assertion.*)
THEOREM NothingStandsOnRejected == Spec => []NoneStandsOnRejected
<1>1. IInv => NoneStandsOnRejected
  BY DEF IInv
<1> QED
  BY <1>1, Inductive, PTL

(* REQ-FRAUD-004 and REQ-FRAUD-006 for every window: nothing is final      *)
(* before its window has elapsed, before its parent, or under challenge.   *)
THEOREM FinalityIsSettled == Spec => []FinalizedIsSettled
<1>1. IInv => FinalizedIsSettled
  BY DEF IInv
<1> QED
  BY <1>1, Inductive, PTL

(* The counter that reopens an assertion agrees with its challenge list,   *)
(* for any number of challengers.                                          *)
THEOREM CountersAgree == Spec => []ChallengesCounted
<1>1. IInv => ChallengesCounted
  BY DEF IInv
<1> QED
  BY <1>1, Inductive, PTL

(* No posted timestamp makes `post` refuse a correctly stamped child.      *)
THEOREM ChainStaysExtendable == Spec => []AlwaysExtendable
<1>1. IInv => AlwaysExtendable
  BY NoneAheadSuffices DEF IInv
<1> QED
  BY <1>1, Inductive, PTL

-----------------------------------------------------------------------------
(* What one step does to a record: it keeps its claim, and a settled       *)
(* status.                                                                 *)
Keeps(i) ==
  /\ i \in Ids'
  /\ SameClaim(assertions'[i], assertions[i])
  /\ ~Live(i) => assertions'[i].status = assertions[i].status

(* Every step of the chain keeps every record that is there.               *)
LEMMA StepKeeps ==
  ASSUME IInv, [Next]_vars
  PROVE  \A i \in Ids : Keeps(i)
<1> USE DEF Keeps, SameClaim
<1>1. CASE Tick \/ UNCHANGED vars
  BY <1>1 DEF Tick, vars, Ids
<1>2. CASE Post
  <2>1. PICK n \in 1..MaxAssertions : Ids = 1..n
    BY DEF IInv, TypeOK
  <2>2. Cardinality(Ids) + 1 \notin Ids
    BY <2>1, FS_Interval, ParameterAssumption
  <2>3. \A i \in Ids : i \in Ids' /\ assertions'[i] = assertions[i]
    <3>1. PICK p \in Party, par \in Ids, r \in Root, b \in Batch, bond \in Bond,
               stamp \in 0..LastTimestamp, len \in TraceLength :
                 post(p, par, r, b, stamp, len, bond)
      BY <1>2 DEF Post
    <3> DEFINE new == Cardinality(Ids) + 1
               added == record(p, par, r, b, stamp, len, bond)
    <3>2. assertions' = [i \in Ids \cup {new} |->
                           IF i = new THEN added ELSE assertions[i]]
      BY <3>1, PostAppends
    <3> HIDE DEF new, added
    <3> QED
      BY <2>2, <3>2 DEF new, Ids
  <2> QED
    BY <2>3
<1>3. ASSUME NEW id \in Ids, NEW s, NEW n, Live(id),
             assertions' = [assertions EXCEPT ![id] = revised(@, s, n)]
      PROVE  \A i \in Ids : Keeps(i)
  <2>1. /\ Ids' = Ids
        /\ assertions'[id] = revised(assertions[id], s, n)
        /\ \A i \in Ids \ {id} : assertions'[i] = assertions[i]
    BY <1>3 DEF Ids
  <2>2. Keeps(id)
    BY <1>3, <2>1 DEF revised
  <2> QED
    BY <2>1, <2>2
<1>4. CASE OpenChallenge
  <2>1. PICK p \in Party, id \in Ids, bond \in Bond : open_challenge(p, id, bond)
    BY <1>4 DEF OpenChallenge
  <2>2. /\ Live(id)
        /\ assertions' = [assertions EXCEPT
             ![id] = revised(@, CHALLENGED, assertions[id].open_challenges + 1)]
    BY <2>1 DEF open_challenge, may_challenge, Live
  <2> QED
    BY <1>3, <2>2
<1>5. CASE \E i \in Ids, p \in Party : defender_won(i, p)
  <2>1. PICK id \in Ids, p \in Party : defender_won(id, p)
    BY <1>5
  <2>2. /\ assertions[id].status = CHALLENGED
        /\ assertions' = [assertions EXCEPT ![id] =
             revised(@, status_after_defense(@), @.open_challenges - 1)]
    BY <2>1 DEF defender_won
  <2>3. Live(id)
    BY <2>2 DEF Live
  <2> QED
    BY <1>3, <2>2, <2>3
<1>6. CASE \E i \in Ids : finalize(i)
  <2>1. PICK id \in Ids : finalize(id)
    BY <1>6
  <2>2. /\ assertions[id].status = PENDING
        /\ assertions' = [assertions EXCEPT
             ![id] = revised(@, FINALIZED, @.open_challenges)]
    BY <2>1 DEF finalize, can_finalize
  <2>3. Live(id)
    BY <2>2 DEF Live
  <2> QED
    BY <1>3, <2>2, <2>3
<1>7. CASE \E i \in Ids, p \in Party : challenger_won(i, p)
  <2>1. PICK id \in Ids, p \in Party : challenger_won(id, p)
    BY <1>7
  <2>2. PICK swept \in SUBSET Ids :
          /\ IsSwept(swept, id)
          /\ assertions' = [i \in Ids |->
               IF i \in swept \cup {id} THEN revised(assertions[i], REJECTED, 0)
               ELSE assertions[i]]
    BY <2>1 DEF challenger_won
  <2>3. Ids' = Ids /\ \A i \in swept \cup {id} :
          i \in Ids /\ Live(i) /\ assertions'[i] = revised(assertions[i], REJECTED, 0)
    <3>1. assertions[id].status = CHALLENGED
      BY <2>1 DEF challenger_won
    <3> QED
      BY <3>1, <2>2, SweptIsLive DEF Live, Ids
  <2>4. ASSUME NEW i \in swept \cup {id} PROVE Keeps(i)
    <3>1. /\ Live(i) /\ i \in Ids'
          /\ assertions'[i] = revised(assertions[i], REJECTED, 0)
      BY <2>3
    <3> QED
      BY <3>1 DEF revised
  <2>5. \A i \in Ids \ (swept \cup {id}) : assertions'[i] = assertions[i]
    BY <2>2
  <2> QED
    BY <2>3, <2>4, <2>5
<1> QED
  BY <1>1, <1>2, <1>4, <1>5, <1>6, <1>7 DEF Next, Verdict

(* Finalization and rejection are for ever, and no entry point rewrites a  *)
(* posted claim: for chains of any size.                                   *)
THEOREM SettlementIsForever == Spec => SettledForever
<1>1. IInv /\ [Next]_vars =>
        [\A i \in Ids :
           /\ assertion_id(assertions'[i]) = assertion_id(assertions[i])
           /\ ~Live(i) => assertions'[i].status = assertions[i].status]_vars
  BY StepKeeps DEF Keeps, SameClaim, assertion_id
<1> QED
  BY <1>1, Inductive, PTL DEF Spec, SettledForever

-----------------------------------------------------------------------------
(* What each entry point does to the statuses and the challenge lists.     *)

(* Everything but assertion id is as it was.                               *)
OnlyTouches(id) ==
  /\ Ids' = Ids /\ now' = now
  /\ \A i \in Ids \ {id} :
       assertions'[i] = assertions[i] /\ challenges'[i] = challenges[i]

(* open_challenge puts one challenger on one live assertion.               *)
LEMMA OpenChallengeEffect ==
  ASSUME IInv, NEW who \in Party, NEW id \in Ids, NEW bond,
         open_challenge(who, id, bond)
  PROVE  /\ OnlyTouches(id) /\ Live(id)
         /\ who # assertions[id].proposer /\ who \notin DOMAIN challenges[id]
         /\ assertions'[id].status = CHALLENGED
         /\ DOMAIN challenges'[id] = DOMAIN challenges[id] \cup {who}
<1>1. /\ who # assertions[id].proposer /\ who \notin DOMAIN challenges[id]
      /\ assertions[id].status \in {PENDING, CHALLENGED}
      /\ assertions' = [assertions EXCEPT
            ![id] = revised(@, CHALLENGED, @.open_challenges + 1)]
      /\ challenges' = [challenges EXCEPT
                          ![id] = [p \in DOMAIN @ \cup {who} |->
                                     IF p = who THEN bond ELSE @[p]]]
      /\ now' = now
  BY DEF open_challenge, may_challenge
<1>2. DOMAIN challenges = Ids
  BY DEF IInv, TypeOK
<1>3. /\ assertions'[id] =
           revised(assertions[id], CHALLENGED, assertions[id].open_challenges + 1)
      /\ challenges'[id] = [p \in DOMAIN challenges[id] \cup {who} |->
                              IF p = who THEN bond ELSE challenges[id][p]]
      /\ OnlyTouches(id)
  BY <1>1, <1>2 DEF Ids, OnlyTouches
<1>4. assertions'[id].status = CHALLENGED
  BY <1>3, RevisedFields
<1> QED
  BY <1>1, <1>3, <1>4 DEF Live

(* defender_won takes one challenger off one challenged assertion.         *)
LEMMA DefenderWonEffect ==
  ASSUME IInv, NEW id \in Ids, NEW loser \in Party, defender_won(id, loser)
  PROVE  /\ OnlyTouches(id) /\ assertions[id].status = CHALLENGED
         /\ loser \in DOMAIN challenges[id]
         /\ assertions'[id].status \in {PENDING, CHALLENGED}
         /\ DOMAIN challenges'[id] = DOMAIN challenges[id] \ {loser}
<1>1. /\ loser \in DOMAIN challenges[id]
      /\ assertions[id].status = CHALLENGED
      /\ assertions' = [assertions EXCEPT ![id] =
            revised(@, status_after_defense(@), @.open_challenges - 1)]
      /\ challenges' = [challenges EXCEPT
                          ![id] = [p \in DOMAIN @ \ {loser} |-> @[p]]]
      /\ now' = now
  BY DEF defender_won
<1>2. DOMAIN challenges = Ids
  BY DEF IInv, TypeOK
<1>3. /\ assertions'[id] = revised(assertions[id], status_after_defense(assertions[id]),
                                   assertions[id].open_challenges - 1)
      /\ challenges'[id] = [p \in DOMAIN challenges[id] \ {loser} |-> challenges[id][p]]
      /\ OnlyTouches(id)
  BY <1>1, <1>2 DEF Ids, OnlyTouches
<1>4. assertions'[id].status \in {PENDING, CHALLENGED}
  BY <1>3, RevisedFields DEF status_after_defense
<1> QED
  BY <1>1, <1>3, <1>4

(* finalize settles one pending assertion and leaves the challenges alone. *)
LEMMA FinalizeEffect ==
  ASSUME IInv, NEW id \in Ids, finalize(id)
  PROVE  /\ OnlyTouches(id) /\ can_finalize(id) /\ challenges' = challenges
         /\ assertions'[id].status = FINALIZED
<1>1. /\ can_finalize(id)
      /\ assertions' = [assertions EXCEPT
                          ![id] = revised(@, FINALIZED, @.open_challenges)]
      /\ now' = now /\ challenges' = challenges
  BY DEF finalize
<1>2. /\ assertions'[id] =
           revised(assertions[id], FINALIZED, assertions[id].open_challenges)
      /\ OnlyTouches(id)
  BY <1>1 DEF Ids, OnlyTouches
<1>3. assertions'[id].status = FINALIZED
  BY <1>2, RevisedFields
<1> QED
  BY <1>1, <1>2, <1>3

(* What falls when the assertion id is rejected: live assertions only, and *)
(* apart from id only those that stand on another one that falls.          *)
Falls(fallen, id) ==
  /\ Ids' = Ids /\ now' = now
  /\ id \in fallen /\ fallen \subseteq Ids
  /\ \A i \in fallen :
       /\ Live(i)
       /\ assertions'[i].status = REJECTED
       /\ DOMAIN challenges'[i] = {}
       /\ i # id => assertions[i].parent \in fallen
  /\ \A i \in Ids \ fallen :
       assertions'[i] = assertions[i] /\ challenges'[i] = challenges[i]

(* challenger_won is such a fall.                                          *)
LEMMA ChallengerWonEffect ==
  ASSUME IInv, NEW id \in Ids, NEW winner, challenger_won(id, winner)
  PROVE  /\ assertions[id].status = CHALLENGED
         /\ winner \in DOMAIN challenges[id]
         /\ \E fallen \in SUBSET Ids : Falls(fallen, id)
<1>1. PICK swept \in SUBSET Ids :
        /\ IsSwept(swept, id)
        /\ assertions' = [i \in Ids |->
             IF i \in swept \cup {id} THEN revised(assertions[i], REJECTED, 0)
             ELSE assertions[i]]
        /\ challenges' = [i \in Ids |->
             IF i \in swept \cup {id} THEN [p \in {} |-> 0] ELSE challenges[i]]
  BY DEF challenger_won
<1> DEFINE fallen == swept \cup {id}
<1>2. /\ assertions[id].status = CHALLENGED /\ now' = now
      /\ winner \in DOMAIN challenges[id]
  BY DEF challenger_won
<1>3. fallen \subseteq Ids /\ \A i \in fallen : Live(i)
  BY <1>1, <1>2, SweptIsLive DEF Live
<1>4. /\ Ids' = Ids
      /\ \A i \in fallen : /\ assertions'[i] = revised(assertions[i], REJECTED, 0)
                           /\ challenges'[i] = [p \in {} |-> 0]
      /\ \A i \in Ids \ fallen : /\ assertions'[i] = assertions[i]
                                 /\ challenges'[i] = challenges[i]
  BY <1>1, <1>3 DEF Ids
<1>5. \A i \in fallen : i # id => assertions[i].parent \in fallen
  <2>1. \A i \in Ids :
          Live(i) /\ assertions[i].parent \in Ids
            => assertions[assertions[i].parent].status # REJECTED
    BY DEF IInv, NoneStandsOnRejected, Live, PENDING, CHALLENGED, REJECTED
  <2>2. IsSwept(swept, id)
    BY <1>1
  <2>3. \A i \in swept :
          /\ i \in Ids /\ Live(i) /\ assertions[i].parent \in Ids
          /\ \/ assertions[assertions[i].parent].status = REJECTED
             \/ assertions[i].parent \in swept \cup {id}
    BY <2>2 DEF IsSwept
  <2> QED
    BY <2>1, <2>3
<1> HIDE DEF fallen
<1>6. ASSUME NEW i \in fallen
      PROVE  assertions'[i].status = REJECTED /\ DOMAIN challenges'[i] = {}
  <2>1. /\ assertions'[i] = revised(assertions[i], REJECTED, 0)
        /\ challenges'[i] = [p \in {} |-> 0]
    BY <1>4
  <2>2. i \in Ids
    BY <1>3
  <2> QED
    BY <2>1, <2>2, RevisedFields
<1>7. Falls(fallen, id)
  BY <1>2, <1>3, <1>4, <1>5, <1>6 DEF Falls, fallen
<1> QED
  BY <1>2, <1>3, <1>7

(* post appends one pending assertion that nobody challenges.              *)
LEMMA PostEffect ==
  ASSUME IInv, NEW p, NEW par \in Ids, NEW r, NEW b, NEW stamp, NEW len, NEW bond,
         post(p, par, r, b, stamp, len, bond)
  PROVE  \E new \in Nat \ {0, 1} :
           /\ new \notin Ids /\ Ids' = Ids \cup {new} /\ now' = now
           /\ assertions'[new] = record(p, par, r, b, stamp, len, bond)
           /\ DOMAIN challenges'[new] = {}
           /\ check_batch_shape(b, len, assertions[par].post_state_root, r)
           /\ \A i \in Ids :
                assertions'[i] = assertions[i] /\ challenges'[i] = challenges[i]
<1> DEFINE new == Cardinality(Ids) + 1
           added == record(p, par, r, b, stamp, len, bond)
<1>1. PICK n \in 1..MaxAssertions : Ids = 1..n
  BY DEF IInv, TypeOK
<1>2. new = n + 1 /\ new \in Nat \ {0, 1} /\ new \notin Ids
  <2>1. Cardinality(Ids) = n
    BY <1>1, FS_Interval, ParameterAssumption
  <2> QED
    BY <1>1, <2>1, ParameterAssumption
<1>3. /\ assertions' = [i \in Ids \cup {new} |->
                          IF i = new THEN added ELSE assertions[i]]
      /\ challenges' = [i \in Ids \cup {new} |->
                          IF i = new THEN [q \in {} |-> 0] ELSE challenges[i]]
      /\ now' = now
      /\ check_batch_shape(b, len, assertions[par].post_state_root, r)
  BY Zenon DEF post
<1> HIDE DEF new, added
<1>4. /\ Ids' = Ids \cup {new} /\ assertions'[new] = added
      /\ challenges'[new] = [q \in {} |-> 0]
      /\ \A i \in Ids :
           assertions'[i] = assertions[i] /\ challenges'[i] = challenges[i]
  BY <1>2, <1>3 DEF Ids
<1> QED
  BY <1>2, <1>3, <1>4 DEF added

(* The shape of a batch was checked when its assertion was posted.         *)
BatchesShaped ==
  \A i \in Ids :
    check_batch_shape(assertions[i].batch, assertions[i].trace_length,
                      assertions[i].post_state_root, assertions[i].post_state_root)

(* Only a post adds assertions.                                            *)
LEMMA OnlyPostAdds ==
  ASSUME IInv, [Next]_vars, ~Post
  PROVE  Ids' = Ids
<1>1. CASE Tick \/ UNCHANGED vars
  BY <1>1 DEF Tick, vars, Ids
<1>2. CASE OpenChallenge
  <2>1. PICK p \in Party, id \in Ids, bond \in Bond : open_challenge(p, id, bond)
    BY <1>2 DEF OpenChallenge
  <2> QED
    BY <2>1, OpenChallengeEffect DEF OnlyTouches
<1>3. ASSUME NEW id \in Ids, Verdict(id)
      PROVE  Ids' = Ids
  <2>1. PICK p \in Party : defender_won(id, p) \/ challenger_won(id, p)
    BY <1>3 DEF Verdict
  <2>2. CASE defender_won(id, p)
    BY <2>2, DefenderWonEffect DEF OnlyTouches
  <2>3. CASE challenger_won(id, p)
    <3>1. PICK fallen \in SUBSET Ids : Falls(fallen, id)
      BY <2>3, ChallengerWonEffect
    <3> QED
      BY <3>1 DEF Falls
  <2> QED
    BY <2>1, <2>2, <2>3
<1>4. ASSUME NEW id \in Ids, finalize(id)
      PROVE  Ids' = Ids
  BY <1>4, FinalizeEffect DEF OnlyTouches
<1> QED
  BY <1>1, <1>2, <1>3, <1>4 DEF Next

(* ... and it has the shape check_batch_shape asks for, for ever.          *)
LEMMA ShapesKept == IInv /\ BatchesShaped /\ [Next]_vars => BatchesShaped'
<1> SUFFICES ASSUME IInv, BatchesShaped, [Next]_vars PROVE BatchesShaped'
  OBVIOUS
<1>1. \A i \in Ids : SameClaim(assertions'[i], assertions[i])
  BY StepKeeps DEF Keeps
<1>2. CASE ~Post
  <2>1. Ids' = Ids
    BY <1>2, OnlyPostAdds
  <2> SUFFICES ASSUME NEW i \in Ids
               PROVE  check_batch_shape(assertions'[i].batch, assertions'[i].trace_length,
                        assertions'[i].post_state_root, assertions'[i].post_state_root)
    BY <2>1 DEF BatchesShaped
  <2>2. /\ assertions'[i].batch = assertions[i].batch
        /\ assertions'[i].trace_length = assertions[i].trace_length
        /\ assertions'[i].post_state_root = assertions[i].post_state_root
    BY <1>1 DEF SameClaim
  <2> QED
    BY <2>2, Zenon DEF BatchesShaped
<1>3. CASE Post
  <2>1. PICK p \in Party, par \in Ids, r \in Root, b \in Batch, bond \in Bond,
             stamp \in 0..LastTimestamp, len \in TraceLength :
               post(p, par, r, b, stamp, len, bond)
    BY <1>3 DEF Post
  <2> DEFINE added == record(p, par, r, b, stamp, len, bond)
  <2>2. PICK new \in Nat \ {0, 1} :
           /\ new \notin Ids /\ Ids' = Ids \cup {new} /\ now' = now
           /\ assertions'[new] = added
           /\ DOMAIN challenges'[new] = {}
           /\ check_batch_shape(b, len, assertions[par].post_state_root, r)
           /\ \A i \in Ids :
                assertions'[i] = assertions[i] /\ challenges'[i] = challenges[i]
    BY <2>1, PostEffect, Zenon
  <2>3. added.batch = b /\ added.trace_length = len
    BY DEF record
  <2> HIDE DEF added
  <2>4. check_batch_shape(b, len, added.post_state_root, added.post_state_root)
    BY <2>2 DEF check_batch_shape
  <2>5. ASSUME NEW i \in Ids
        PROVE  check_batch_shape(assertions'[i].batch, assertions'[i].trace_length,
                   assertions'[i].post_state_root, assertions'[i].post_state_root)
    BY <2>2 DEF BatchesShaped
  <2> QED
    BY <2>2, <2>3, <2>4, <2>5 DEF BatchesShaped, check_batch_shape
<1> QED
  BY <1>2, <1>3

(* Every batch on the chain has the shape check_batch_shape asks for.      *)
LEMMA AllShaped == Spec => []BatchesShaped
<1>1. Init => BatchesShaped
  BY DEF Init, initialize, BatchesShaped, check_batch_shape, EmptyBatch, Ids
<1> QED
  BY <1>1, ShapesKept, Inductive, PTL DEF Spec

-----------------------------------------------------------------------------
(* The refinement.  The parents and fates Settlement sees:                 *)
parentBar == [i \in Ids |-> assertions[i].parent]
fateBar == [i \in Ids |-> Fate(i)]

(* A step that keeps the set of assertions, their claims and their fates   *)
(* is invisible to Settlement.                                             *)
LEMMA Stutters ==
  ASSUME Ids' = Ids,
         \A i \in Ids : /\ assertions'[i].parent = assertions[i].parent
                         /\ Fate(i)' = Fate(i)
  PROVE  parentBar' = parentBar /\ fateBar' = fateBar
BY DEF parentBar, fateBar

(* The genesis that initialize creates is Settlement's final root claim.   *)
LEMMA InitRefines == Init => Promise!Init
<1> SUFFICES ASSUME Init PROVE Promise!Init
  OBVIOUS
<1>1. /\ Ids = {Genesis}
      /\ assertions[Genesis].parent = 0
      /\ assertions[Genesis].status = FINALIZED
  BY DEF Init, initialize, Ids
<1> QED
  BY <1>1 DEF Promise!Init, Promise!FINAL, Fate

(* A post makes an open claim on one that is not void.                     *)
LEMMA PostRefines ==
  ASSUME IInv, Post
  PROVE  Promise!Next
<1>1. PICK p \in Party, par \in Ids, r \in Root, b \in Batch, bond \in Bond,
           stamp \in 0..LastTimestamp, len \in TraceLength :
             post(p, par, r, b, stamp, len, bond)
  BY DEF Post
<1>2. PICK n \in 1..MaxAssertions : Ids = 1..n
  BY DEF IInv, TypeOK
<1> DEFINE new == n + 1
<1>3. Cardinality(Ids) = n /\ new \notin Ids
  BY <1>2, FS_Interval, ParameterAssumption
<1>4. /\ assertions[par].status # REJECTED
      /\ new \in 1..MaxAssertions
      /\ Ids' = Ids \cup {new}
      /\ assertions'[new].parent = par
      /\ assertions'[new].status = PENDING
      /\ \A i \in Ids : assertions'[i] = assertions[i]
  <2> DEFINE added == record(p, par, r, b, stamp, len, bond)
  <2>1. /\ new <= MaxAssertions /\ assertions[par].status # REJECTED
        /\ assertions' = [i \in Ids \cup {new} |->
                            IF i = new THEN added ELSE assertions[i]]
    <3> DEFINE m == Cardinality(Ids) + 1
    <3>1. /\ m <= MaxAssertions /\ assertions[par].status # REJECTED
          /\ assertions' = [i \in Ids \cup {m} |->
                              IF i = m THEN added ELSE assertions[i]]
      BY <1>1, PostAppends
    <3>2. m = new
      BY <1>3
    <3> HIDE DEF m, new, added
    <3> QED
      BY <3>1, <3>2
  <2>2. added.parent = par /\ added.status = PENDING
    BY DEF record
  <2>3. new \in 1..MaxAssertions
    BY <1>2, <2>1, ParameterAssumption
  <2> HIDE DEF added, new
  <2>4. /\ Ids' = Ids \cup {new}
        /\ assertions'[new] = added
        /\ \A i \in Ids : assertions'[i] = assertions[i]
    BY <1>3, <2>1 DEF Ids
  <2> QED
    BY <2>1, <2>2, <2>3, <2>4
<1>5. par \in 1..MaxAssertions
  BY <1>2, ParameterAssumption
<1> HIDE DEF new
<1>6. /\ Fate(new)' = "open"
      /\ Fate(par) # "void"
      /\ \A i \in Ids : Fate(i)' = Fate(i)
  BY <1>3, <1>4 DEF Fate, PENDING, REJECTED, FINALIZED
<1>7. Promise!Make(new, par)
  BY <1>3, <1>4, <1>6 DEF Promise!Make, Promise!Made, Promise!OPEN, Promise!VOID
<1> QED
  BY <1>4, <1>5, <1>7 DEF Promise!Next

(* A finalization settles an open claim on a final one.                    *)
LEMMA FinalizeRefines ==
  ASSUME IInv, NEW id \in Ids, finalize(id)
  PROVE  Promise!Next
<1>1. /\ assertions[id].status = PENDING
      /\ assertions[id].parent \in Ids
      /\ assertions[assertions[id].parent].status = FINALIZED
      /\ assertions' = [assertions EXCEPT
                          ![id] = revised(@, FINALIZED, @.open_challenges)]
  BY DEF finalize, can_finalize
<1>2. /\ Ids' = Ids
      /\ assertions'[id] =
           revised(assertions[id], FINALIZED, assertions[id].open_challenges)
      /\ \A i \in Ids \ {id} : assertions'[i] = assertions[i]
  BY <1>1 DEF Ids
<1>3. /\ assertions'[id].parent = assertions[id].parent
      /\ assertions'[id].status = FINALIZED
  BY <1>2, RevisedFields
<1>4. /\ Fate(id) = "open" /\ Fate(id)' = "final"
      /\ Fate(assertions[id].parent) = "final"
      /\ \A i \in Ids \ {id} : Fate(i)' = Fate(i)
  BY <1>1, <1>2, <1>3 DEF Fate, PENDING, FINALIZED, REJECTED
<1>5. Promise!Settle(id)
  BY <1>1, <1>2, <1>3, <1>4
     DEF Promise!Settle, Promise!Made, Promise!OPEN, Promise!FINAL
<1>6. id \in 1..MaxAssertions
  BY ParameterAssumption DEF IInv, TypeOK
<1> QED
  BY <1>5, <1>6 DEF Promise!Next

(* A lost challenge is the fall of the challenged claim: since nothing     *)
(* stands on a rejected assertion, the sweep rejects exactly the open      *)
(* claims above it.                                                        *)
LEMMA ChallengerWonRefines ==
  ASSUME IInv, NEW id \in Ids, NEW winner \in Party, challenger_won(id, winner)
  PROVE  Promise!Next
<1>1. PICK swept \in SUBSET Ids :
        /\ IsSwept(swept, id)
        /\ assertions' = [i \in Ids |->
             IF i \in swept \cup {id} THEN revised(assertions[i], REJECTED, 0)
             ELSE assertions[i]]
  BY DEF challenger_won
<1> DEFINE fallen == swept \cup {id}
<1>2. assertions[id].status = CHALLENGED
  BY DEF challenger_won
<1>3. fallen \subseteq Ids
  BY <1>1
<1>4. /\ Ids' = Ids
      /\ \A i \in fallen : assertions'[i] = revised(assertions[i], REJECTED, 0)
      /\ \A i \in Ids \ fallen : assertions'[i] = assertions[i]
  BY <1>1, <1>3 DEF Ids
<1>5. \A i \in Ids : (Fate(i) = "open") <=> Live(i)
  BY DEF Fate, Live, IInv, TypeOK, Assertion, Status,
         PENDING, CHALLENGED, FINALIZED, REJECTED
<1>6. \A i \in Ids :
        Live(i) /\ assertions[i].parent \in Ids
          => assertions[assertions[i].parent].status # REJECTED
  BY DEF IInv, NoneStandsOnRejected, Live, PENDING, CHALLENGED, REJECTED
<1>7. Live(id)
  BY <1>2 DEF Live
<1>8. swept = {i \in Ids \ {id} : /\ Live(i)
                                  /\ assertions[i].parent \in Ids
                                  /\ assertions[i].parent \in fallen}
  <2>1. IsSwept(swept, id)
    BY <1>1
  <2>2. swept = {i \in Ids \ {id} :
                   /\ Live(i)
                   /\ assertions[i].parent \in Ids
                   /\ \/ assertions[assertions[i].parent].status = REJECTED
                      \/ assertions[i].parent \in fallen}
    BY <2>1, Zenon DEF IsSwept
  <2> HIDE DEF fallen
  <2> QED
    BY <1>6, <2>2
<1>9. fallen = {i \in Ids : Live(i) /\ (i = id \/ assertions[i].parent \in fallen)}
  BY <1>3, <1>7, <1>8
<1> HIDE DEF fallen
<1>10. \A i \in Ids : assertions'[i].parent = assertions[i].parent
  <2> TAKE i \in Ids
  <2>1. CASE i \in fallen
    <3>1. assertions'[i] = revised(assertions[i], REJECTED, 0)
      BY <2>1, <1>4
    <3> QED
      BY <3>1, RevisedFields
  <2>2. CASE i \notin fallen
    BY <2>2, <1>4
  <2> QED
    BY <2>1, <2>2
<1>11. \A i \in Ids : Fate(i)' = IF i \in fallen THEN "void" ELSE Fate(i)
  <2> TAKE i \in Ids
  <2>1. CASE i \in fallen
    <3>1. assertions'[i] = revised(assertions[i], REJECTED, 0)
      BY <2>1, <1>4
    <3>2. assertions'[i].status = REJECTED
      BY <3>1, RevisedFields
    <3> QED
      BY <2>1, <3>2 DEF Fate, FINALIZED, REJECTED
  <2>2. CASE i \notin fallen
    BY <2>2, <1>4 DEF Fate
  <2> QED
    BY <2>1, <2>2
<1>12. Promise!IsFall(fallen, id)
  BY <1>3, <1>5, <1>9 DEF Promise!IsFall, Promise!Made, Promise!OPEN
<1>13. Promise!Fall(id)
  BY <1>3, <1>4, <1>5, <1>7, <1>10, <1>11, <1>12
     DEF Promise!Fall, Promise!Made, Promise!OPEN, Promise!VOID
<1>14. id \in 1..MaxAssertions
  BY ParameterAssumption DEF IInv, TypeOK
<1> QED
  BY <1>13, <1>14 DEF Promise!Next

(* Every step of the chain is a step of Settlement or invisible to it.     *)
LEMMA StepRefines ==
  ASSUME IInv, [Next]_vars
  PROVE  Promise!Next \/ (parentBar' = parentBar /\ fateBar' = fateBar)
<1>1. CASE Tick \/ UNCHANGED vars
  <2>1. assertions' = assertions
    BY <1>1 DEF Tick, vars
  <2> QED
    BY <2>1, Stutters DEF Ids, Fate
<1>2. CASE Post
  BY <1>2, PostRefines
<1>3. ASSUME NEW id \in Ids, NEW s \in {PENDING, CHALLENGED}, NEW n, Live(id),
             assertions' = [assertions EXCEPT ![id] = revised(@, s, n)]
      PROVE  parentBar' = parentBar /\ fateBar' = fateBar
  <2>1. /\ Ids' = Ids
        /\ assertions'[id] = revised(assertions[id], s, n)
        /\ \A i \in Ids \ {id} : assertions'[i] = assertions[i]
    BY <1>3 DEF Ids
  <2>2. assertions'[id].parent = assertions[id].parent /\ Fate(id)' = Fate(id)
    BY <1>3, <2>1
       DEF revised, Fate, Live, PENDING, CHALLENGED, FINALIZED, REJECTED
  <2>3. \A i \in Ids \ {id} : Fate(i)' = Fate(i)
    BY <2>1 DEF Fate
  <2> QED
    BY <2>1, <2>2, <2>3, Stutters
<1>4. CASE OpenChallenge
  <2>1. PICK p \in Party, id \in Ids, bond \in Bond : open_challenge(p, id, bond)
    BY <1>4 DEF OpenChallenge
  <2>2. /\ Live(id)
        /\ assertions' = [assertions EXCEPT
             ![id] = revised(@, CHALLENGED, assertions[id].open_challenges + 1)]
    BY <2>1 DEF open_challenge, may_challenge, Live
  <2> QED
    BY <1>3, <2>2
<1>5. CASE \E i \in Ids, p \in Party : defender_won(i, p)
  <2>1. PICK id \in Ids, p \in Party : defender_won(id, p)
    BY <1>5
  <2>2. /\ assertions[id].status = CHALLENGED
        /\ assertions' = [assertions EXCEPT ![id] =
             revised(@, status_after_defense(@), @.open_challenges - 1)]
    BY <2>1 DEF defender_won
  <2>3. Live(id)
    BY <2>2 DEF Live
  <2>4. status_after_defense(assertions[id]) \in {PENDING, CHALLENGED}
    BY DEF status_after_defense
  <2> QED
    BY <1>3, <2>2, <2>3, <2>4
<1>6. CASE \E i \in Ids : finalize(i)
  BY <1>6, FinalizeRefines
<1>7. CASE \E i \in Ids, p \in Party : challenger_won(i, p)
  BY <1>7, ChallengerWonRefines
<1> QED
  BY <1>1, <1>2, <1>4, <1>5, <1>6, <1>7 DEF Next, Verdict

(* The Move assertion chain implements Settlement, for every number of     *)
(* parties and assertions, every window and every bond.                    *)
THEOREM ChainKeepsThePromise == Spec => KeepsThePromise
<1>1. Init => Promise!Init
  BY InitRefines
<1>2. IInv /\ [Next]_vars => [Promise!Next]_(Promise!settlement)
  BY StepRefines DEF Promise!settlement, parentBar, fateBar
<1> QED
  BY <1>1, <1>2, Inductive, PTL DEF Spec, KeepsThePromise, Promise!Spec
=============================================================================
