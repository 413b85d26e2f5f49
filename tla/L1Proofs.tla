------------------------------ MODULE L1Proofs ------------------------------
(***************************************************************************)
(* Proofs about the assertion chain and its games together, for every set  *)
(* of parties, honest or not, every execution function, window and arity.  *)
(*                                                                         *)
(* A step of L1 is a step of the chain, so what AssertionsProofs shows of  *)
(* the chain holds here.  What is new rests on the games: an honest party  *)
(* that is to move in a game over a standing assertion is never late       *)
(* (L1Tick waits for it), and the commitments of the game are always on    *)
(* its side (Line), so it loses neither by timeout nor by proof.           *)
(***************************************************************************)
EXTENDS L1, AssertionsProofs, DisputeGameProofs

(* The roles of a game that are played honestly.                           *)
Honestly(key) ==
  {role \in Role :
     \/ role = DEFENDER /\ assertions[key[1]].proposer \in HonestParty
     \/ role = CHALLENGER /\ key[2] \in HonestParty}

(* A game whose outcome still counts.                                      *)
InPlay(key) == Unresolved(key) /\ assertions[key[1]].status # REJECTED

(* Every game has been played by the rules, is about a challenge that is   *)
(* open, and waits for no honest party.                                    *)
GameKept(key) ==
  /\ key \in Ids \X Party
  /\ GameOK(disputes[key], now)
  /\ Line(disputes[key], Honestly(key))
  /\ InPlay(key) => has_open_challenge(key[1], key[2])
  /\ InPlay(key) /\ disputes[key].turn \in Honestly(key) =>
       disputes[key].last_move_at = now /\ now <= disputes[key].deadline

GamesKept == \A key \in DOMAIN disputes : GameKept(key)

(* What honest parties post is sound and stands on their own chain; what   *)
(* they challenge is not sound.                                            *)
HonestRecord(i) ==
  /\ assertions[i].proposer \in HonestParty /\ i # Genesis =>
       /\ Sound(i)
       /\ assertions[i].parent # Genesis =>
            assertions[assertions[i].parent].proposer = assertions[i].proposer
  /\ \A p \in DOMAIN challenges[i] : p \in HonestParty => ~Sound(i)

HonestRecords ==
  /\ assertions[Genesis].status = FINALIZED
  /\ \A i \in Ids : HonestRecord(i)

LInv == IInv /\ GamesKept /\ HonestRecords /\ HonestNeverRejected

(* Party p can always pay for a challenge that it has to make.             *)
CanAfford(p) ==
  \A i \in Ids :
    Live(i) /\ ~Sound(i) /\ ~has_open_challenge(i, p) => wallet[p] >= minimum_bond

(* Once the window of an unsound assertion is over, p is challenging it,   *)
(* and in a game: the batch has no fault that a structural proof shows.    *)
Watched(p) ==
  \A i \in Ids :
    Live(i) /\ ~Sound(i) /\ now >= assertions[i].posted_at + challenge_window
      => has_open_challenge(i, p) /\ ~Faulty(i)

NoneUnsoundFinal ==
  \A i \in Ids : assertions[i].status = FINALIZED => Sound(i)

-----------------------------------------------------------------------------
(* Every step of L1 is a step of the chain: a game's outcome is a verdict  *)
(* on a posted assertion, for a party.                                     *)
LEMMA ChainStep ==
  ASSUME GamesKept, [L1Next]_l1Vars
  PROVE  [Next]_vars
<1>1. CASE L1Tick
  BY <1>1 DEF L1Tick, Next
<1>2. CASE L1Post
  BY <1>2 DEF L1Post, Next, Post
<1>3. CASE L1OpenChallenge
  BY <1>3 DEF L1OpenChallenge, Next, OpenChallenge
<1>4. CASE Open
  BY <1>4 DEF Open, open
<1>5. CASE StructuralProof
  <2>1. PICK p \in Party, i \in Ids : challenger_won(i, p)
    BY <1>5 DEF StructuralProof, prove_trace_length, prove_uncompilable,
                prove_start_gap, apply_structural_win
  <2> QED
    BY <2>1 DEF Next, Verdict
<1>6. ASSUME NEW key \in DOMAIN disputes, NEW game, resolve_internal(key, game)
      PROVE  [Next]_vars
  <2>1. key[1] \in Ids /\ key[2] \in Party
    BY DEF GamesKept, GameKept
  <2>2. \/ UNCHANGED vars
        \/ challenger_won(key[1], key[2]) \/ defender_won(key[1], key[2])
    BY <1>6 DEF resolve_internal
  <2> QED
    BY <2>1, <2>2 DEF Next, Verdict
<1>7. ASSUME NEW key \in DOMAIN disputes, Move(key) \/ ClaimTimeout(key)
      PROVE  [Next]_vars
  <2>1. CASE Dissect(key) \/ Select(key)
    BY <2>1 DEF Dissect, Select
  <2>2. CASE OneStep(key) \/ ClaimTimeout(key)
    BY <2>2, <1>6 DEF OneStep, ClaimTimeout
  <2> QED
    BY <1>7, <2>1, <2>2 DEF Move
<1>8. CASE \E i \in Ids : L1Finalize(i)
  BY <1>8 DEF L1Finalize, Next
<1>9. CASE UNCHANGED l1Vars
  BY <1>9 DEF l1Vars
<1> QED
  BY <1>1, <1>2, <1>3, <1>4, <1>5, <1>7, <1>8, <1>9 DEF L1Next

(* What an assertion claims, and whether that is so, never changes.        *)
LEMMA ClaimsKept ==
  ASSUME IInv, [Next]_vars, NEW i \in Ids
  PROVE  /\ i \in Ids' /\ SameClaim(assertions'[i], assertions[i])
         /\ Sound(i)' <=> Sound(i)
         /\ Faulty(i)' <=> Faulty(i)
         /\ ~Live(i) => assertions'[i].status = assertions[i].status
<1>1. \A j \in Ids : Keeps(j)
  BY StepKeeps
<1>2. /\ i \in Ids' /\ SameClaim(assertions'[i], assertions[i])
      /\ ~Live(i) => assertions'[i].status = assertions[i].status
  BY <1>1 DEF Keeps
<1>3. Faulty(i)' <=> Faulty(i)
  BY <1>2 DEF Faulty, SameClaim
<1>4. Sound(i)' <=> Sound(i)
  <2>1. CASE i = Genesis
    BY <2>1 DEF Sound
  <2>2. CASE i # Genesis
    <3>1. assertions[i].parent \in Ids
      BY <2>2 DEF IInv, TypeOK
    <3>2. SameClaim(assertions'[assertions[i].parent], assertions[assertions[i].parent])
      BY <1>1, <3>1 DEF Keeps
    <3> QED
      BY <2>2, <1>2, <3>2 DEF Sound, SameClaim
  <2> QED
    BY <2>1, <2>2
<1> QED
  BY <1>2, <1>3, <1>4

(* The parts of the key of a game.                                         *)
LEMMA KeyOf ==
  ASSUME GamesKept, NEW key \in DOMAIN disputes
  PROVE  /\ key[1] \in Ids /\ key[2] \in Party /\ key = <<key[1], key[2]>>
         /\ GameKept(key)
BY DEF GamesKept, GameKept

(* Who plays a game honestly never changes.                                *)
LEMMA HonestlyKept ==
  ASSUME IInv, [Next]_vars, NEW key, key[1] \in Ids
  PROVE  Honestly(key)' = Honestly(key)
<1>1. SameClaim(assertions'[key[1]], assertions[key[1]])
  BY ClaimsKept
<1> QED
  BY <1>1 DEF Honestly, SameClaim

(* A game that a step does not touch, and whose challenge stays open.      *)
LEMMA UntouchedGame ==
  ASSUME LInv, [Next]_vars, now' = now, NEW key \in DOMAIN disputes,
         disputes'[key] = disputes[key],
         InPlay(key) /\ assertions'[key[1]].status # REJECTED
           => key[2] \in DOMAIN challenges'[key[1]]
  PROVE  GameKept(key)'
<1>1. /\ key[1] \in Ids /\ key[2] \in Party /\ key \in Ids \X Party
      /\ GameKept(key)
  BY KeyOf DEF LInv, GameKept
<1>2. /\ key[1] \in Ids'
      /\ ~Live(key[1]) => assertions'[key[1]].status = assertions[key[1]].status
  BY <1>1, ClaimsKept DEF LInv
<1>3. Honestly(key)' = Honestly(key)
  BY <1>1, HonestlyKept DEF LInv
<1>4. InPlay(key)' => InPlay(key) /\ assertions'[key[1]].status # REJECTED
  BY <1>2 DEF InPlay, Unresolved, Live, PENDING, CHALLENGED, REJECTED
<1>5. key \in Ids' \X Party
  BY <1>1, <1>2
<1> QED
  BY <1>1, <1>3, <1>4, <1>5 DEF GameKept, has_open_challenge

(* A game in which a move was made in time.                                *)
LEMMA MovedGame ==
  ASSUME LInv, UNCHANGED vars, NEW key \in DOMAIN disputes, Unresolved(key),
         GameOK(disputes'[key], now), Line(disputes'[key], Honestly(key)),
         disputes'[key].last_move_at = now, now <= disputes'[key].deadline
  PROVE  GameKept(key)'
<1>1. GameKept(key)
  BY KeyOf DEF LInv
<1>2. /\ Ids' = Ids /\ now' = now /\ assertions' = assertions
      /\ challenges' = challenges
  BY DEF vars, Ids
<1>3. Honestly(key)' = Honestly(key)
  BY <1>2 DEF Honestly
<1>4. InPlay(key)' => InPlay(key)
  BY <1>2 DEF InPlay
<1> QED
  BY <1>1, <1>2, <1>3, <1>4 DEF GameKept, has_open_challenge

(* A game that was resolved.                                               *)
LEMMA ResolvedGame ==
  ASSUME LInv, [Next]_vars, now' = now, NEW key \in DOMAIN disputes, NEW w,
         Settles(disputes[key], disputes'[key], w)
  PROVE  GameKept(key)'
<1>1. /\ key[1] \in Ids /\ key[2] \in Party /\ key \in Ids \X Party
      /\ GameKept(key)
  BY KeyOf DEF LInv, GameKept
<1>2. key[1] \in Ids'
  BY <1>1, ClaimsKept DEF LInv
<1>3. Honestly(key)' = Honestly(key)
  BY <1>1, HonestlyKept DEF LInv
<1>4. GameOK(disputes'[key], now) /\ Line(disputes'[key], Honestly(key))
  BY <1>1, SettledKeeps DEF GameKept
<1>5. ~InPlay(key)'
  BY DEF InPlay, Unresolved, Settles
<1>6. key \in Ids' \X Party
  BY <1>1, <1>2
<1> QED
  BY <1>3, <1>4, <1>5, <1>6 DEF GameKept

(* An honest party's turn in a game that counts: it can move, and nobody   *)
(* can claim a timeout.                                                    *)
LEMMA HonestOnTime ==
  ASSUME IInv, NEW key \in DOMAIN disputes, GameKept(key), InPlay(key),
         disputes[key].turn \in Honestly(key)
  PROVE  /\ can_move(disputes[key], disputes[key].turn, now)
         /\ ~can_claim_timeout(disputes[key], now)
<1> DEFINE d == disputes[key]
<1>1. /\ d \in Dispute /\ d.last_move_at = now /\ now <= d.deadline
      /\ d.stage # RESOLVED /\ now \in Nat
  BY DEF GameKept, GameOK, InPlay, Unresolved, IInv, TypeOK
<1>2. d.defender_clock \in Nat /\ d.challenger_clock \in Nat /\ d.deadline \in Nat
  BY <1>1 DEF Dispute
<1>3. clock(d, d.turn) \in Nat
  BY <1>2 DEF clock
<1> QED
  BY <1>1, <1>2, <1>3 DEF can_move, can_claim_timeout

(* A record that is on the chain stays as honest parties made it.          *)
LEMMA HonestRecordKept ==
  ASSUME LInv, [Next]_vars, NEW i \in Ids,
         \A p \in DOMAIN challenges'[i] :
           p \in HonestParty => p \in DOMAIN challenges[i] \/ ~Sound(i)
  PROVE  HonestRecord(i)'
<1>1. HonestRecord(i) /\ IInv
  BY DEF LInv, HonestRecords
<1>2. SameClaim(assertions'[i], assertions[i]) /\ (Sound(i)' <=> Sound(i))
  BY <1>1, ClaimsKept
<1>3. i # Genesis => /\ assertions[i].parent \in Ids
                     /\ SameClaim(assertions'[assertions[i].parent],
                                  assertions[assertions[i].parent])
  BY <1>1, ClaimsKept DEF IInv, TypeOK
<1> QED
  BY <1>1, <1>2, <1>3 DEF HonestRecord, SameClaim

(* Genesis is final for ever.                                              *)
LEMMA GenesisFinal ==
  ASSUME LInv, [Next]_vars
  PROVE  assertions'[Genesis].status = FINALIZED
<1>1. Genesis \in Ids /\ ~Live(Genesis) /\ assertions[Genesis].status = FINALIZED
  BY DEF LInv, HonestRecords, IInv, TypeOK, Genesis, Live, FINALIZED, PENDING,
         CHALLENGED
<1> QED
  BY <1>1, ClaimsKept DEF LInv

(* A step that adds no challenge of an honest party against a sound        *)
(* assertion.                                                              *)
LEMMA RecordsKept ==
  ASSUME LInv, [Next]_vars, Ids' = Ids,
         \A i \in Ids : \A p \in DOMAIN challenges'[i] :
           p \in HonestParty => p \in DOMAIN challenges[i] \/ ~Sound(i)
  PROVE  HonestRecords'
<1>1. \A i \in Ids' : HonestRecord(i)'
  BY HonestRecordKept
<1> QED
  BY <1>1, GenesisFinal DEF HonestRecords

(* A step that rejects nothing.                                            *)
LEMMA NobodyFalls ==
  ASSUME LInv, [Next]_vars, Ids' = Ids,
         \A i \in Ids : assertions'[i].status = REJECTED
                        => assertions[i].status = REJECTED
  PROVE  HonestNeverRejected'
<1>1. \A i \in Ids : SameClaim(assertions'[i], assertions[i])
  BY ClaimsKept DEF LInv
<1> QED
  BY <1>1 DEF LInv, HonestNeverRejected, SameClaim

-----------------------------------------------------------------------------
(* The clock waits for every honest party that is to move.                 *)
LEMMA TickKeeps ==
  ASSUME LInv, L1Tick
  PROVE  GamesKept' /\ HonestRecords' /\ HonestNeverRejected'
<1>1. /\ now' = now + 1 /\ now \in Nat /\ Ids' = Ids
      /\ UNCHANGED <<assertions, challenges, disputes>>
  BY DEF L1Tick, Tick, LInv, IInv, TypeOK, Ids
<1>2. [Next]_vars /\ IInv /\ GamesKept
  BY DEF L1Tick, Next, LInv
<1>3. ASSUME NEW key \in DOMAIN disputes, InPlay(key),
             disputes[key].turn \in Honestly(key)
      PROVE  FALSE
  <2> DEFINE i == key[1]
             p == key[2]
             role == disputes[key].turn
  <2>1. i \in Ids /\ p \in Party /\ key = <<i, p>> /\ GameKept(key)
    BY <1>2, KeyOf
  <2>2. can_move(disputes[key], role, now) /\ has_open_challenge(i, p)
    BY <1>2, <1>3, <2>1, HonestOnTime DEF GameKept
  <2>3. CASE role = DEFENDER
    <3>1. assertions[i].proposer \in HonestParty
      BY <1>3, <2>3 DEF Honestly, DEFENDER, CHALLENGER
    <3>2. assertions[i].status = CHALLENGED
      BY <1>2, <2>1, <2>2 DEF IInv, ChallengesCounted, has_open_challenge
    <3> QED
      BY <2>2, <2>3, <3>1, <3>2 DEF L1Tick, MustDefend
  <2>4. CASE role = CHALLENGER
    <3>1. p \in HonestParty
      BY <1>3, <2>4 DEF Honestly, DEFENDER, CHALLENGER
    <3> QED
      BY <2>1, <2>2, <2>4, <3>1 DEF L1Tick, MustProceed
  <2> QED
    BY <1>3, <2>3, <2>4 DEF Honestly, Role
<1>4. ASSUME NEW key \in DOMAIN disputes
      PROVE  GameKept(key)'
  <2>1. GameKept(key)
    BY <1>2, KeyOf
  <2>2. Honestly(key)' = Honestly(key) /\ (InPlay(key)' <=> InPlay(key))
    BY <1>1 DEF Honestly, InPlay, Unresolved
  <2>3. GameOK(disputes[key], now + 1)
    BY <1>1, <2>1 DEF GameKept, GameOK, Dispute
  <2> QED
    BY <1>1, <1>3, <2>1, <2>2, <2>3 DEF GameKept, has_open_challenge
<1>5. GamesKept'
  BY <1>1, <1>4 DEF GamesKept
<1> QED
  BY <1>1, <1>2, <1>5, RecordsKept, NobodyFalls

(* A post disturbs no game; an honest one is sound.                        *)
LEMMA PostKeeps ==
  ASSUME LInv, L1Post
  PROVE  GamesKept' /\ HonestRecords' /\ HonestNeverRejected'
<1>1. PICK p \in Party, par \in Ids, r \in Root, b \in Batch, bond \in Bond,
           stamp \in 0..LastTimestamp, len \in TraceLength :
        /\ p \in HonestParty =>
             /\ par = Genesis \/ assertions[par].proposer = p
             /\ SoundClaim(assertions[par].post_state_root, b, len, r)
        /\ post(p, par, r, b, stamp, len, bond)
  BY DEF L1Post
<1>2. [Next]_vars /\ IInv /\ GamesKept /\ disputes' = disputes
  BY DEF L1Post, Next, Post, LInv
<1> DEFINE added == record(p, par, r, b, stamp, len, bond)
<1>3. PICK new \in Nat \ {0, 1} :
           /\ new \notin Ids /\ Ids' = Ids \cup {new} /\ now' = now
           /\ assertions'[new] = added
           /\ DOMAIN challenges'[new] = {}
           /\ check_batch_shape(b, len, assertions[par].post_state_root, r)
           /\ \A i \in Ids :
                assertions'[i] = assertions[i] /\ challenges'[i] = challenges[i]
  BY <1>1, <1>2, PostEffect, Zenon
<1>4. ASSUME NEW key \in DOMAIN disputes
      PROVE  GameKept(key)'
  <2>1. key[1] \in Ids /\ GameKept(key)
    BY <1>2, KeyOf
  <2>2. InPlay(key) => key[2] \in DOMAIN challenges'[key[1]]
    BY <1>3, <2>1 DEF GameKept, has_open_challenge
  <2> QED
    BY <1>2, <1>3, <2>2, UntouchedGame
<1>5. GamesKept'
  BY <1>2, <1>4 DEF GamesKept
<1>6. /\ added.parent = par /\ added.proposer = p /\ added.post_state_root = r
      /\ added.batch = b /\ added.trace_length = len /\ added.status = PENDING
  BY DEF record
<1> HIDE DEF added
<1>7. HonestRecord(new)'
  <2>1. assertions'[par] = assertions[par]
    BY <1>3
  <2>2. p \in HonestParty => Sound(new)'
    BY <1>1, <1>3, <1>6, <2>1 DEF Sound
  <2> QED
    BY <1>1, <1>3, <1>6, <2>1, <2>2 DEF HonestRecord
<1>8. HonestRecords'
  <2>1. \A i \in Ids : HonestRecord(i)'
    BY <1>2, <1>3, HonestRecordKept
  <2> QED
    BY <1>2, <1>3, <1>7, <2>1, GenesisFinal DEF HonestRecords
<1>9. HonestNeverRejected'
  BY <1>3, <1>6 DEF LInv, HonestNeverRejected, PENDING, REJECTED
<1> QED
  BY <1>5, <1>8, <1>9

(* A challenge disturbs no game; an honest one is against what is unsound. *)
LEMMA ChallengeKeeps ==
  ASSUME LInv, L1OpenChallenge
  PROVE  GamesKept' /\ HonestRecords' /\ HonestNeverRejected'
<1>1. PICK p \in Party, id \in Ids, bond \in Bond :
        (p \in HonestParty => ~Sound(id)) /\ open_challenge(p, id, bond)
  BY DEF L1OpenChallenge
<1>2. [Next]_vars /\ IInv /\ GamesKept /\ disputes' = disputes
  BY DEF L1OpenChallenge, Next, OpenChallenge, LInv
<1>3. /\ OnlyTouches(id)
      /\ assertions'[id].status = CHALLENGED
      /\ DOMAIN challenges'[id] = DOMAIN challenges[id] \cup {p}
  BY <1>1, <1>2, OpenChallengeEffect
<1>4. Ids' = Ids /\ now' = now
  BY <1>3 DEF OnlyTouches
<1>5. ASSUME NEW key \in DOMAIN disputes
      PROVE  GameKept(key)'
  <2>1. key[1] \in Ids /\ GameKept(key)
    BY <1>2, KeyOf
  <2>2. InPlay(key) => key[2] \in DOMAIN challenges'[key[1]]
    BY <1>3, <2>1 DEF GameKept, has_open_challenge, OnlyTouches
  <2> QED
    BY <1>2, <1>4, <2>2, UntouchedGame
<1>6. GamesKept'
  BY <1>2, <1>5 DEF GamesKept
<1>7. HonestRecords'
  BY <1>1, <1>2, <1>3, <1>4, RecordsKept DEF OnlyTouches
<1>8. HonestNeverRejected'
  BY <1>2, <1>3, <1>4, NobodyFalls DEF OnlyTouches, CHALLENGED, REJECTED
<1> QED
  BY <1>6, <1>7, <1>8

(* A step that leaves the chain alone disturbs no record.                  *)
LEMMA ChainAlone ==
  ASSUME LInv, UNCHANGED vars
  PROVE  HonestRecords' /\ HonestNeverRejected'
<1>1. [Next]_vars /\ Ids' = Ids /\ assertions' = assertions /\ challenges' = challenges
  BY DEF vars, Ids
<1> QED
  BY <1>1, RecordsKept, NobodyFalls

(* A game that is opened against an honest party is over a sound claim, by *)
(* an honest party over an unsound one.                                    *)
LEMMA OpenGameKeeps ==
  ASSUME LInv, NEW who \in Party, NEW id \in Ids, open(who, id)
  PROVE  GamesKept'
<1> DEFINE key == <<id, who>>
           claim == IF Sound(id) THEN HONEST ELSE FORGED
           len == assertions[id].trace_length
           game == new_dispute(len, claim, challenge_window, now)
<1>1. /\ assertions[id].status = CHALLENGED /\ has_open_challenge(id, who)
      /\ len > 0 /\ key \notin DOMAIN disputes /\ UNCHANGED vars
      /\ disputes' = [k \in DOMAIN disputes \cup {key} |->
                         IF k = key THEN game ELSE disputes[k]]
  BY DEF open
<1>2. [Next]_vars /\ IInv /\ GamesKept /\ now' = now /\ Ids' = Ids /\ now \in Nat
      /\ assertions' = assertions /\ challenges' = challenges
  BY <1>1 DEF LInv, IInv, TypeOK, vars, Ids
<1>3. len \in Nat \ {0} /\ claim \in Commitment /\ challenge_window \in Nat
  <2>1. len \in Nat /\ challenge_window \in Nat
    BY <1>2, ParametersTyped DEF IInv, TypeOK, Assertion
  <2> QED
    BY <1>1, <2>1 DEF Commitment
<1>4. /\ CHALLENGER \in Honestly(key) => claim = FORGED
      /\ DEFENDER \in Honestly(key) => claim = HONEST
  <2>1. HonestRecord(id) /\ id # Genesis
    BY <1>1 DEF LInv, HonestRecords, CHALLENGED, FINALIZED
  <2> QED
    BY <1>1, <2>1 DEF HonestRecord, has_open_challenge, Honestly, DEFENDER, CHALLENGER
<1>5. /\ Opened(game, len, claim, challenge_window, now)
      /\ GameOK(game, now) /\ Line(game, Honestly(key))
  <2> HIDE DEF len, claim, key
  <2> QED
    BY <1>2, <1>3, <1>4, OpenKeeps, Zenon
<1>6. game.last_move_at = now /\ now <= game.deadline
  <2>1. lesser(MOVE_TIMEOUT, clock_budget(challenge_window)) \in Nat
    BY <1>3, AllowanceTyped, GameAssumption DEF clock_budget
  <2> HIDE DEF game, len, claim, key
  <2>2. /\ game.last_move_at = now
        /\ game.deadline = now + lesser(MOVE_TIMEOUT, clock_budget(challenge_window))
    BY <1>5 DEF Opened
  <2> QED
    BY <1>2, <2>1, <2>2
<1> HIDE DEF game, len, claim, key
<1>7. disputes'[key] = game /\ DOMAIN disputes' = DOMAIN disputes \cup {key}
      /\ \A k \in DOMAIN disputes : disputes'[k] = disputes[k]
  BY <1>1
<1>8. GameKept(key)'
  <2>1. key \in Ids \X Party /\ key[1] = id /\ key[2] = who
    BY DEF key
  <2>2. Honestly(key)' = Honestly(key)
    BY <1>2 DEF Honestly
  <2> QED
    BY <1>1, <1>2, <1>5, <1>6, <1>7, <2>1, <2>2 DEF GameKept, has_open_challenge
<1>9. ASSUME NEW k \in DOMAIN disputes
      PROVE  GameKept(k)'
  <2>1. GameKept(k)
    BY <1>2, KeyOf
  <2> QED
    BY <1>2, <1>7, <2>1, UntouchedGame DEF GameKept, has_open_challenge
<1> QED
  BY <1>7, <1>8, <1>9 DEF GamesKept

(* One game moves and all others stay.                                     *)
LEMMA OneGameMoves ==
  ASSUME LInv, UNCHANGED vars, NEW key \in DOMAIN disputes, NEW f,
         disputes' = [disputes EXCEPT ![key] = f], Unresolved(key),
         GameOK(f, now), Line(f, Honestly(key)),
         f.last_move_at = now, now <= f.deadline
  PROVE  GamesKept'
<1>1. [Next]_vars /\ IInv /\ GamesKept /\ now' = now /\ challenges' = challenges
  BY DEF LInv, vars
<1>2. /\ DOMAIN disputes' = DOMAIN disputes /\ disputes'[key] = f
      /\ \A k \in DOMAIN disputes \ {key} : disputes'[k] = disputes[k]
  OBVIOUS
<1>3. GameKept(key)'
  BY <1>2, MovedGame
<1>4. ASSUME NEW k \in DOMAIN disputes \ {key}
      PROVE  GameKept(k)'
  <2>1. GameKept(k)
    BY <1>1, KeyOf
  <2> QED
    BY <1>1, <1>2, <2>1, UntouchedGame DEF GameKept, has_open_challenge
<1> QED
  BY <1>2, <1>3, <1>4 DEF GamesKept

(* A dissection keeps its game.                                            *)
LEMMA DissectGameKeeps ==
  ASSUME LInv, NEW key \in DOMAIN disputes, Dissect(key)
  PROVE  GamesKept'
<1> DEFINE d == disputes[key]
<1>1. PICK off \in [1..(segments(d.lo, d.hi) - 1) -> Commitment] :
        /\ can_dissect(d, off, now)
        /\ assertions[key[1]].proposer \in HonestParty
             => \A i \in 1..Len(off) : off[i] = HONEST
        /\ disputes' = [disputes EXCEPT ![key] = dissect(d, off, now)]
        /\ UNCHANGED vars
  BY DEF Dissect
<1>2. GameOK(d, now) /\ Line(d, Honestly(key)) /\ now \in Nat
  BY KeyOf DEF LInv, IInv, TypeOK, GameKept
<1>3. DEFENDER \in Honestly(key) => \A i \in 1..Len(off) : off[i] = HONEST
  BY <1>1 DEF Honestly, DEFENDER, CHALLENGER
<1> DEFINE f == dissect(d, off, now)
<1>4. Dissected(d, f, off, now) /\ GameOK(f, now) /\ Line(f, Honestly(key))
  BY <1>1, <1>2, <1>3, DissectKeeps, Zenon
<1> HIDE DEF f
<1>5. Unresolved(key)
  BY <1>1 DEF can_dissect, Unresolved, BISECTING, RESOLVED
<1>6. f.last_move_at = now /\ now <= f.deadline
  <2>1. f.challenger_clock \in Nat
    BY <1>4 DEF Dissected, Dispute
  <2>2. lesser(MOVE_TIMEOUT, f.challenger_clock) \in Nat
    BY <2>1, AllowanceTyped
  <2> QED
    BY <1>2, <1>4, <2>2 DEF Dissected
<1> QED
  BY <1>1, <1>4, <1>5, <1>6, OneGameMoves DEF f

(* A selection keeps its game.                                             *)
LEMMA SelectGameKeeps ==
  ASSUME LInv, NEW key \in DOMAIN disputes, Select(key)
  PROVE  GamesKept'
<1> DEFINE d == disputes[key]
<1>1. PICK index \in 0..(segments(d.lo, d.hi) - 1) :
        /\ can_select(d, index, now)
        /\ key[2] \in HonestParty =>
             /\ \A i \in 1..index : commitment_at(d, i) = HONEST
             /\ commitment_at(d, index + 1) # HONEST
        /\ disputes' = [disputes EXCEPT ![key] = select(d, index, now)]
        /\ UNCHANGED vars
  BY DEF Select
<1>2. GameOK(d, now) /\ Line(d, Honestly(key)) /\ now \in Nat
  BY KeyOf DEF LInv, IInv, TypeOK, GameKept
<1>3. CHALLENGER \in Honestly(key) => FirstDisputed(d, index)
  BY <1>1 DEF Honestly, FirstDisputed, DEFENDER, CHALLENGER
<1> DEFINE f == select(d, index, now)
<1>4. Selected(d, f, index, now) /\ GameOK(f, now) /\ Line(f, Honestly(key))
  BY <1>1, <1>2, <1>3, SelectKeeps, Zenon
<1> HIDE DEF f
<1>5. Unresolved(key)
  BY <1>1 DEF can_select, Unresolved, BISECTING, RESOLVED
<1>6. f.last_move_at = now /\ now <= f.deadline
  <2>1. f.defender_clock \in Nat
    BY <1>4 DEF Selected, Dispute
  <2>2. lesser(MOVE_TIMEOUT, f.defender_clock) \in Nat
    BY <2>1, AllowanceTyped
  <2> QED
    BY <1>2, <1>4, <2>2 DEF Selected
<1> QED
  BY <1>1, <1>4, <1>5, <1>6, OneGameMoves DEF f

-----------------------------------------------------------------------------
(* When an assertion of a party that is not honest is rejected, no         *)
(* assertion of an honest one falls with it: the first that did would      *)
(* stand on genesis, which is final, or on another of the same party.      *)
LEMMA FallSparesHonest ==
  ASSUME LInv, [Next]_vars, NEW id \in Ids, NEW fallen \in SUBSET Ids,
         Falls(fallen, id), assertions[id].proposer \notin HonestParty
  PROVE  HonestNeverRejected'
<1> DEFINE T == {i \in fallen : assertions[i].proposer \in HonestParty}
<1>1. T = {}
  <2> SUFFICES ASSUME T # {} PROVE FALSE
    OBVIOUS
  <2>1. T \in SUBSET Nat
    <3>1. PICK n \in 1..MaxAssertions : Ids = 1..n
      BY DEF LInv, IInv, TypeOK
    <3>2. fallen \subseteq 1..n /\ 1..n \subseteq Nat
      BY <3>1
    <3> QED
      BY <3>2
  <2>2. PICK i \in T : \A j \in T : i <= j
    BY <2>1, Least
  <2>3. /\ i \in Ids /\ i \in fallen /\ i # id /\ Live(i)
        /\ assertions[i].parent \in fallen
    BY <2>2 DEF Falls
  <2>4. Genesis \notin fallen
    BY DEF Falls, LInv, HonestRecords, Live, PENDING, CHALLENGED, FINALIZED
  <2>5. HonestRecord(i)
    BY <2>3 DEF LInv, HonestRecords
  <2>6. assertions[assertions[i].parent].proposer \in HonestParty
    BY <2>2, <2>3, <2>4, <2>5 DEF HonestRecord
  <2>7. assertions[i].parent \in T /\ assertions[i].parent < i
    BY <2>1, <2>2, <2>3, <2>6 DEF LInv, IInv, TypeOK
  <2> QED
    BY <2>1, <2>2, <2>7
<1>2. \A i \in Ids : SameClaim(assertions'[i], assertions[i])
  BY ClaimsKept DEF LInv
<1> QED
  BY <1>1, <1>2 DEF LInv, HonestNeverRejected, Falls, SameClaim

(* A rejection disturbs no game: those over what falls no longer count.    *)
LEMMA FallKeepsGame ==
  ASSUME LInv, [Next]_vars, NEW id \in Ids, NEW fallen \in SUBSET Ids,
         Falls(fallen, id), NEW key \in DOMAIN disputes,
         disputes'[key] = disputes[key]
  PROVE  GameKept(key)'
<1>1. key[1] \in Ids /\ GameKept(key)
  BY KeyOf DEF LInv
<1>2. InPlay(key) /\ assertions'[key[1]].status # REJECTED
        => key[2] \in DOMAIN challenges'[key[1]]
  BY <1>1 DEF Falls, GameKept, has_open_challenge
<1>3. now' = now
  BY DEF Falls
<1> QED
  BY <1>2, <1>3, UntouchedGame

(* A rejection that touches the games of one challenger only.              *)
LEMMA FallKeeps ==
  ASSUME LInv, NEW id \in Ids, NEW who \in Party, challenger_won(id, who),
         assertions[id].proposer \notin HonestParty,
         DOMAIN disputes' = DOMAIN disputes, NEW w,
         \A k \in DOMAIN disputes :
           disputes'[k] = disputes[k] \/ Settles(disputes[k], disputes'[k], w)
  PROVE  GamesKept' /\ HonestRecords' /\ HonestNeverRejected'
<1>1. [Next]_vars /\ IInv /\ GamesKept
  BY DEF Next, Verdict, LInv
<1>2. PICK fallen \in SUBSET Ids : Falls(fallen, id)
  BY <1>1, ChallengerWonEffect
<1>3. Ids' = Ids /\ now' = now
  BY <1>2 DEF Falls
<1>4. HonestNeverRejected'
  BY <1>1, <1>2, FallSparesHonest
<1>5. HonestRecords'
  BY <1>1, <1>2, <1>3, RecordsKept DEF Falls
<1>6. ASSUME NEW k \in DOMAIN disputes
      PROVE  GameKept(k)'
  <2>1. CASE disputes'[k] = disputes[k]
    BY <1>1, <1>2, <2>1, FallKeepsGame
  <2>2. CASE Settles(disputes[k], disputes'[k], w)
    BY <1>1, <1>3, <2>2, ResolvedGame
  <2> QED
    BY <2>1, <2>2
<1>7. GamesKept'
  BY <1>6 DEF GamesKept
<1> QED
  BY <1>4, <1>5, <1>7

(* A failed challenge is taken off together with its game.                 *)
LEMMA DefenceKeeps ==
  ASSUME LInv, NEW key \in DOMAIN disputes, defender_won(key[1], key[2]),
         NEW game, disputes' = [disputes EXCEPT ![key] = game],
         NEW w, Settles(disputes[key], game, w)
  PROVE  GamesKept' /\ HonestRecords' /\ HonestNeverRejected'
<1> DEFINE id == key[1]
           loser == key[2]
<1>1. id \in Ids /\ loser \in Party /\ key = <<id, loser>> /\ GamesKept /\ IInv
  BY KeyOf DEF LInv
<1>2. [Next]_vars
  BY <1>1 DEF Next, Verdict
<1>3. /\ OnlyTouches(id)
      /\ assertions'[id].status \in {PENDING, CHALLENGED}
      /\ DOMAIN challenges'[id] = DOMAIN challenges[id] \ {loser}
  BY <1>1, DefenderWonEffect
<1>4. Ids' = Ids /\ now' = now
  BY <1>3 DEF OnlyTouches
<1>5. GameKept(key)'
  <2>1. disputes'[key] = game
    OBVIOUS
  <2> QED
    BY <1>2, <1>4, <2>1, ResolvedGame
<1>6. ASSUME NEW k \in DOMAIN disputes \ {key}
      PROVE  GameKept(k)'
  <2>1. k[1] \in Ids /\ k = <<k[1], k[2]>> /\ GameKept(k)
    BY <1>1, KeyOf
  <2>2. k[1] # id \/ k[2] # loser
    BY <1>1, <2>1, Zenon
  <2>3. InPlay(k) => k[2] \in DOMAIN challenges'[k[1]]
    BY <1>3, <2>1, <2>2 DEF OnlyTouches, GameKept, has_open_challenge
  <2>4. disputes'[k] = disputes[k]
    OBVIOUS
  <2> QED
    BY <1>2, <1>4, <2>3, <2>4, UntouchedGame
<1>7. GamesKept'
  <2>1. DOMAIN disputes' = DOMAIN disputes
    OBVIOUS
  <2> QED
    BY <1>5, <1>6, <2>1 DEF GamesKept
<1>8. HonestRecords'
  BY <1>2, <1>3, <1>4, RecordsKept DEF OnlyTouches
<1>9. HonestNeverRejected'
  BY <1>2, <1>3, <1>4, NobodyFalls DEF OnlyTouches, PENDING, CHALLENGED, REJECTED
<1> QED
  BY <1>7, <1>8, <1>9

(* A resolution, whoever wins it, unless it is against an honest proposer. *)
LEMMA ResolutionKeeps ==
  ASSUME LInv, NEW key \in DOMAIN disputes, NEW w \in Role, NEW game,
         Settles(disputes[key], game, w), resolve_internal(key, game),
         assertions[key[1]].status # REJECTED /\ w = CHALLENGER
           => assertions[key[1]].proposer \notin HonestParty
  PROVE  GamesKept' /\ HonestRecords' /\ HonestNeverRejected'
<1>1. key[1] \in Ids /\ key[2] \in Party /\ GamesKept
  BY KeyOf DEF LInv
<1>2. disputes' = [disputes EXCEPT ![key] = game] /\ game.winner = w
  BY DEF resolve_internal, Settles
<1>3. /\ DOMAIN disputes' = DOMAIN disputes /\ disputes'[key] = game
      /\ \A k \in DOMAIN disputes :
           disputes'[k] = disputes[k] \/ Settles(disputes[k], disputes'[k], w)
  BY <1>2
<1>4. CASE assertions[key[1]].status = REJECTED
  <2>1. UNCHANGED vars /\ [Next]_vars /\ now' = now /\ challenges' = challenges
    BY <1>4 DEF resolve_internal, vars
  <2>2. ASSUME NEW k \in DOMAIN disputes
        PROVE  GameKept(k)'
    <3>1. CASE disputes'[k] = disputes[k]
      <4>1. GameKept(k)
        BY <1>1, KeyOf
      <4> QED
        BY <2>1, <3>1, <4>1, UntouchedGame DEF GameKept, has_open_challenge
    <3>2. CASE Settles(disputes[k], disputes'[k], w)
      BY <2>1, <3>2, ResolvedGame
    <3> QED
      BY <1>3, <3>1, <3>2
  <2> QED
    BY <1>3, <2>1, <2>2, ChainAlone DEF GamesKept
<1>5. CASE assertions[key[1]].status # REJECTED /\ w = CHALLENGER
  <2>1. challenger_won(key[1], key[2])
    BY <1>2, <1>5 DEF resolve_internal
  <2> QED
    BY <1>1, <1>3, <1>5, <2>1, FallKeeps
<1>6. CASE assertions[key[1]].status # REJECTED /\ w = DEFENDER
  <2>1. defender_won(key[1], key[2])
    BY <1>2, <1>6 DEF resolve_internal, DEFENDER, CHALLENGER
  <2> QED
    BY <1>2, <2>1, DefenceKeeps
<1> QED
  BY <1>4, <1>5, <1>6 DEF Role

-----------------------------------------------------------------------------
(* A sound assertion other than genesis has no structural fault.           *)
LEMMA SoundIsNotFaulty ==
  ASSUME NEW id, id # Genesis, Sound(id)
  PROVE  ~Faulty(id)
BY DEF Sound, SoundClaim, Faulty

(* A batch without a structural fault has no transaction that does not     *)
(* compile.                                                                *)
LEMMA WholeBatchCompiles ==
  ASSUME NEW id, ~Faulty(id)
  PROVE  ~ \E i \in 1..Len(assertions[id].batch.tx_bytes) :
             UncompilableAt(assertions[id].batch, i)
BY DEF Faulty, StructuralFault

(* A one-step proof over a batch without structural fault goes to the      *)
(* honest party.                                                           *)
LEMMA OneStepIsJust ==
  ASSUME LInv, NEW key \in DOMAIN disputes, ~Faulty(key[1]),
         NEW w \in one_step_winners(key[1], disputes[key]),
         Honestly(key) # {}
  PROVE  Honestly(key) = {w}
<1>1. w \in adjudications(disputes[key])
  BY WholeBatchCompiles DEF one_step_winners
<1>2. Line(disputes[key], Honestly(key)) /\ Honestly(key) \subseteq Role
  BY KeyOf DEF LInv, GameKept, Honestly
<1> QED
  BY <1>1, <1>2, AdjudicationIsJust

(* An honest proposer of a game that counts: its assertion is sound.       *)
LEMMA HonestDefends ==
  ASSUME LInv, NEW key \in DOMAIN disputes, InPlay(key),
         assertions[key[1]].proposer \in HonestParty
  PROVE  ~Faulty(key[1]) /\ DEFENDER \in Honestly(key)
<1>1. key[1] \in Ids /\ GameKept(key) /\ has_open_challenge(key[1], key[2])
  BY KeyOf DEF LInv, GameKept
<1>2. assertions[key[1]].status = CHALLENGED
  BY <1>1 DEF LInv, IInv, ChallengesCounted, has_open_challenge
<1>3. key[1] # Genesis
  BY <1>2 DEF LInv, HonestRecords, CHALLENGED, FINALIZED
<1>4. Sound(key[1])
  BY <1>1, <1>3 DEF LInv, HonestRecords, HonestRecord
<1> QED
  BY <1>3, <1>4, SoundIsNotFaulty DEF Honestly, Role

(* The one-step proof.                                                     *)
LEMMA OneStepKeeps ==
  ASSUME LInv, NEW key \in DOMAIN disputes, OneStep(key)
  PROVE  GamesKept' /\ HonestRecords' /\ HonestNeverRejected'
<1> DEFINE d == disputes[key]
<1>1. PICK w \in one_step_winners(key[1], d) :
        can_one_step(d, now) /\ resolve_internal(key, one_step(d, w, now))
  BY DEF OneStep
<1>2. w \in Role /\ d \in Dispute /\ d.last_move_at <= now /\ now \in Nat
  BY <1>1, KeyOf DEF one_step_winners, LInv, GameKept, GameOK, IInv, TypeOK
<1>3. Settles(d, one_step(d, w, now), w)
  BY <1>1, <1>2, OneStepSettles, Zenon
<1>4. ASSUME assertions[key[1]].status # REJECTED, w = CHALLENGER,
             assertions[key[1]].proposer \in HonestParty
      PROVE  FALSE
  <2>1. InPlay(key)
    BY <1>1, <1>4 DEF can_one_step, can_move, InPlay, Unresolved
  <2>2. ~Faulty(key[1]) /\ DEFENDER \in Honestly(key)
    BY <1>4, <2>1, HonestDefends
  <2>3. Honestly(key) = {w}
    BY <1>1, <2>2, OneStepIsJust
  <2> QED
    BY <1>4, <2>2, <2>3 DEF DEFENDER, CHALLENGER
<1> QED
  BY <1>1, <1>2, <1>3, <1>4, ResolutionKeeps

(* The timeout.                                                            *)
LEMMA TimeoutKeeps ==
  ASSUME LInv, NEW key \in DOMAIN disputes, ClaimTimeout(key)
  PROVE  GamesKept' /\ HonestRecords' /\ HonestNeverRejected'
<1> DEFINE d == disputes[key]
           w == opponent(d.turn)
<1>1. /\ can_claim_timeout(d, now) /\ resolve_internal(key, resolve(d, w))
  BY DEF ClaimTimeout, claim_timeout
<1>2. w \in Role /\ d \in Dispute /\ d.turn \in Role
  BY KeyOf DEF LInv, GameKept, GameOK, Dispute, opponent, Role
<1>3. Settles(d, resolve(d, w), w)
  BY <1>2, ResolveSettles, Zenon
<1>4. ASSUME assertions[key[1]].status # REJECTED, w = CHALLENGER,
             assertions[key[1]].proposer \in HonestParty
      PROVE  FALSE
  <2>1. InPlay(key) /\ GameKept(key) /\ IInv
    BY <1>1, <1>4, KeyOf DEF can_claim_timeout, InPlay, Unresolved, LInv
  <2>2. d.turn = DEFENDER
    BY <1>2, <1>4 DEF opponent, Role, DEFENDER, CHALLENGER
  <2>3. DEFENDER \in Honestly(key)
    BY <1>4, <2>1, HonestDefends
  <2> QED
    BY <1>1, <2>1, <2>2, <2>3, HonestOnTime
<1> QED
  BY <1>1, <1>2, <1>3, <1>4, ResolutionKeeps

(* A structural proof is never against an honest proposer.                 *)
LEMMA StructuralKeeps ==
  ASSUME LInv, StructuralProof
  PROVE  GamesKept' /\ HonestRecords' /\ HonestNeverRejected'
<1>1. PICK who \in Party, id \in Ids : Faulty(id) /\ apply_structural_win(id, who)
  <2>1. PICK who \in Party, id \in Ids :
          \/ prove_trace_length(who, id)
          \/ \E index \in 1..Len(assertions[id].batch.tx_bytes) :
               prove_uncompilable(who, id, index) \/ prove_start_gap(who, id, index)
    BY DEF StructuralProof
  <2>2. apply_structural_win(id, who)
    BY <2>1 DEF prove_trace_length, prove_uncompilable, prove_start_gap
  <2>3. Faulty(id)
    BY <2>1 DEF prove_trace_length, prove_uncompilable, prove_start_gap,
                Faulty, StructuralFault
  <2> QED
    BY <2>2, <2>3
<1>2. /\ challenger_won(id, who)
      /\ disputes' = [k \in DOMAIN disputes |->
                        IF k = <<id, who>> THEN resolve(disputes[k], CHALLENGER)
                        ELSE disputes[k]]
  BY <1>1 DEF apply_structural_win
<1>3. assertions[id].proposer \notin HonestParty
  <2>1. assertions[id].status = CHALLENGED
    BY <1>2 DEF challenger_won
  <2>2. id # Genesis /\ HonestRecord(id)
    BY <2>1 DEF LInv, HonestRecords, CHALLENGED, FINALIZED
  <2> QED
    BY <1>1, <2>2, SoundIsNotFaulty DEF HonestRecord
<1>4. ASSUME NEW k \in DOMAIN disputes
      PROVE  disputes'[k] = disputes[k] \/ Settles(disputes[k], disputes'[k], CHALLENGER)
  <2>1. disputes[k] \in Dispute /\ CHALLENGER \in Role
    BY KeyOf DEF LInv, GameKept, GameOK, Role
  <2>2. Settles(disputes[k], resolve(disputes[k], CHALLENGER), CHALLENGER)
    BY <2>1, ResolveSettles, Zenon
  <2> QED
    BY <1>2, <2>2
<1>5. DOMAIN disputes' = DOMAIN disputes
  BY <1>2
<1> QED
  BY <1>2, <1>3, <1>4, <1>5, FallKeeps

(* A finalization disturbs no game.                                        *)
LEMMA FinalizeKeeps ==
  ASSUME LInv, NEW id \in Ids, L1Finalize(id)
  PROVE  GamesKept' /\ HonestRecords' /\ HonestNeverRejected'
<1>1. [Next]_vars /\ IInv /\ GamesKept /\ disputes' = disputes /\ finalize(id)
  BY DEF L1Finalize, Next, LInv
<1>2. /\ OnlyTouches(id) /\ challenges' = challenges
      /\ assertions'[id].status = FINALIZED
  BY <1>1, FinalizeEffect
<1>3. Ids' = Ids /\ now' = now
  BY <1>2 DEF OnlyTouches
<1>4. ASSUME NEW k \in DOMAIN disputes
      PROVE  GameKept(k)'
  <2>1. GameKept(k)
    BY <1>1, KeyOf
  <2> QED
    BY <1>1, <1>2, <1>3, <2>1, UntouchedGame DEF GameKept, has_open_challenge
<1>5. GamesKept'
  BY <1>1, <1>4 DEF GamesKept
<1>6. HonestRecords'
  BY <1>1, <1>2, <1>3, RecordsKept
<1>7. HonestNeverRejected'
  BY <1>1, <1>2, <1>3, NobodyFalls DEF OnlyTouches, FINALIZED, REJECTED
<1> QED
  BY <1>5, <1>6, <1>7

-----------------------------------------------------------------------------
(* The registry that L1Init creates is empty.                              *)
LEMMA L1InitInductive == L1Init => LInv
<1> SUFFICES ASSUME L1Init PROVE LInv
  OBVIOUS
<1>1. IInv /\ GamesKept
  BY InitInductive DEF L1Init, GamesKept
<1>2. /\ Ids = {Genesis} /\ assertions[Genesis].status = FINALIZED
      /\ DOMAIN challenges[Genesis] = {}
  BY DEF L1Init, Init, initialize, Ids
<1>3. HonestRecords /\ HonestNeverRejected
  BY <1>2 DEF HonestRecords, HonestRecord, HonestNeverRejected, FINALIZED, REJECTED
<1> QED
  BY <1>1, <1>3 DEF LInv

(* Every step of L1 preserves LInv.                                        *)
LEMMA L1NextInductive == LInv /\ [L1Next]_l1Vars => LInv'
<1> SUFFICES ASSUME LInv, [L1Next]_l1Vars PROVE LInv'
  OBVIOUS
<1>1. IInv'
  BY ChainStep, NextInductive DEF LInv
<1>2. CASE L1Tick
  BY <1>1, <1>2, TickKeeps DEF LInv
<1>3. CASE L1Post
  BY <1>1, <1>3, PostKeeps DEF LInv
<1>4. CASE L1OpenChallenge
  BY <1>1, <1>4, ChallengeKeeps DEF LInv
<1>5. CASE Open
  <2>1. PICK who \in Party, id \in Ids : open(who, id)
    BY <1>5 DEF Open
  <2>2. UNCHANGED vars
    BY <2>1 DEF open
  <2> QED
    BY <1>1, <2>1, <2>2, OpenGameKeeps, ChainAlone DEF LInv
<1>6. CASE StructuralProof
  BY <1>1, <1>6, StructuralKeeps DEF LInv
<1>7. ASSUME NEW key \in DOMAIN disputes, Move(key) \/ ClaimTimeout(key)
      PROVE  LInv'
  <2>1. CASE Dissect(key)
    <3>1. UNCHANGED vars
      BY <2>1 DEF Dissect
    <3> QED
      BY <1>1, <2>1, <3>1, DissectGameKeeps, ChainAlone DEF LInv
  <2>2. CASE Select(key)
    <3>1. UNCHANGED vars
      BY <2>2 DEF Select
    <3> QED
      BY <1>1, <2>2, <3>1, SelectGameKeeps, ChainAlone DEF LInv
  <2>3. CASE OneStep(key)
    BY <1>1, <2>3, OneStepKeeps DEF LInv
  <2>4. CASE ClaimTimeout(key)
    BY <1>1, <2>4, TimeoutKeeps DEF LInv
  <2> QED
    BY <1>7, <2>1, <2>2, <2>3, <2>4 DEF Move
<1>8. CASE \E i \in Ids : L1Finalize(i)
  BY <1>1, <1>8, FinalizeKeeps DEF LInv
<1>9. CASE UNCHANGED l1Vars
  <2>1. UNCHANGED vars /\ disputes' = disputes /\ [Next]_vars
    BY <1>9 DEF l1Vars
  <2>2. now' = now /\ challenges' = challenges
    BY <2>1 DEF vars
  <2>3. ASSUME NEW k \in DOMAIN disputes
        PROVE  GameKept(k)'
    <3>1. GameKept(k)
      BY KeyOf DEF LInv
    <3> QED
      BY <2>1, <2>2, <3>1, UntouchedGame DEF GameKept, has_open_challenge
  <2> QED
    BY <1>1, <2>1, <2>3, ChainAlone DEF LInv, GamesKept
<1> QED
  BY <1>2, <1>3, <1>4, <1>5, <1>6, <1>7, <1>8, <1>9 DEF L1Next

(* LInv is an invariant of the chain and its games.                        *)
LEMMA L1Inductive == L1Spec => []LInv
BY L1InitInductive, L1NextInductive, PTL DEF L1Spec

(* The games decide nothing that the chain on its own could not: with the  *)
(* dispute registry the contracts still implement the chain, so everything *)
(* AssertionsProofs shows of Spec holds of L1Spec.                         *)
THEOREM L1ImplementsChain == L1Spec => Spec
<1>1. L1Init => Init
  BY DEF L1Init
<1>2. LInv /\ [L1Next]_l1Vars => [Next]_vars
  BY ChainStep DEF LInv
<1> QED
  BY <1>1, <1>2, L1Inductive, PTL DEF L1Spec, Spec

(* What an honest party posts is never rejected, for any number of         *)
(* challengers, assertions and games, and every window and arity: neither  *)
(* a game nor a structural proof nor the sweep of challenger_won takes it. *)
THEOREM HonestAssertionsStand == L1Spec => []HonestNeverRejected
<1>1. LInv => HonestNeverRejected
  BY DEF LInv
<1> QED
  BY <1>1, L1Inductive, PTL

-----------------------------------------------------------------------------
(* A challenge of an honest party is not lost once the structural proofs   *)
(* have nothing to say: a game that counts ends in its favour.             *)
LEMMA HonestChallengerWins ==
  ASSUME LInv, NEW key \in DOMAIN disputes, OneStep(key) \/ ClaimTimeout(key),
         key[2] \in HonestParty, ~Faulty(key[1]),
         assertions[key[1]].status # REJECTED
  PROVE  challenger_won(key[1], key[2])
<1> DEFINE d == disputes[key]
<1>1. CHALLENGER \in Honestly(key)
  BY DEF Honestly, Role
<1>2. d \in Dispute /\ d.turn \in Role /\ d.last_move_at <= now /\ now \in Nat
      /\ GameKept(key) /\ IInv
  BY KeyOf DEF LInv, GameKept, GameOK, Dispute, IInv, TypeOK
<1>3. CASE OneStep(key)
  <2>1. PICK w \in one_step_winners(key[1], d) :
          can_one_step(d, now) /\ resolve_internal(key, one_step(d, w, now))
    BY <1>3 DEF OneStep
  <2>2. w = CHALLENGER
    <3>1. Honestly(key) # {}
      BY <1>1
    <3>2. Honestly(key) = {w}
      BY <2>1, <3>1, OneStepIsJust, Zenon
    <3> QED
      BY <1>1, <3>2
  <2>3. Settles(d, one_step(d, w, now), w)
    BY <1>2, <2>1, <2>2, OneStepSettles, Zenon DEF Role
  <2>4. one_step(d, w, now).winner = CHALLENGER
    BY <2>2, <2>3 DEF Settles
  <2> QED
    BY <2>1, <2>4, Zenon DEF resolve_internal
<1>4. CASE ClaimTimeout(key)
  <2>1. can_claim_timeout(d, now) /\ resolve_internal(key, resolve(d, opponent(d.turn)))
    BY <1>4 DEF ClaimTimeout, claim_timeout
  <2>2. InPlay(key)
    BY <2>1 DEF can_claim_timeout, InPlay, Unresolved
  <2>3. d.turn # CHALLENGER
    BY <1>1, <1>2, <2>1, <2>2, HonestOnTime
  <2>4. opponent(d.turn) = CHALLENGER
    BY <1>2, <2>3 DEF opponent, Role
  <2>5. Settles(d, resolve(d, CHALLENGER), CHALLENGER)
    BY <1>2, ResolveSettles, Zenon DEF Role
  <2>6. resolve(d, opponent(d.turn)).winner = CHALLENGER
    BY <2>4, <2>5 DEF Settles
  <2> QED
    BY <2>1, <2>6, Zenon DEF resolve_internal
<1> QED
  BY <1>3, <1>4

(* A step on the assertions there are that takes no challenge of p off a   *)
(* live assertion and finalizes nothing that is not sound.                 *)
LEMMA StillWatched ==
  ASSUME LInv, [Next]_vars, NEW p, Watched(p), NoneUnsoundFinal,
         Ids' = Ids, now' = now,
         \A i \in Ids :
           /\ Live(i) /\ Live(i)' /\ ~Faulty(i) /\ p \in DOMAIN challenges[i]
                => p \in DOMAIN challenges'[i]
           /\ assertions'[i].status = FINALIZED
                => assertions[i].status = FINALIZED \/ Sound(i)
  PROVE  Watched(p)' /\ NoneUnsoundFinal'
<1>1. ASSUME NEW i \in Ids
      PROVE  /\ SameClaim(assertions'[i], assertions[i])
             /\ Sound(i)' <=> Sound(i)
             /\ Faulty(i)' <=> Faulty(i)
             /\ Live(i)' => Live(i)
  <2>1. /\ SameClaim(assertions'[i], assertions[i])
        /\ Sound(i)' <=> Sound(i)
        /\ Faulty(i)' <=> Faulty(i)
        /\ ~Live(i) => assertions'[i].status = assertions[i].status
    BY ClaimsKept DEF LInv
  <2> QED
    BY <2>1 DEF Live
<1>2. Watched(p)'
  <2> SUFFICES ASSUME NEW i \in Ids, Live(i)', ~Sound(i)',
                      now >= assertions'[i].posted_at + challenge_window
               PROVE  p \in DOMAIN challenges'[i] /\ ~Faulty(i)'
    BY DEF Watched, has_open_challenge, challenge_window
  <2>1. assertions'[i].posted_at = assertions[i].posted_at
    BY <1>1 DEF SameClaim
  <2>2. Live(i) /\ ~Faulty(i) /\ p \in DOMAIN challenges[i]
    BY <1>1, <2>1 DEF Watched, has_open_challenge
  <2> QED
    BY <1>1, <2>2
<1>3. NoneUnsoundFinal'
  BY <1>1 DEF NoneUnsoundFinal
<1> QED
  BY <1>2, <1>3

(* Time: before the window of an unsound assertion closes, p challenges it *)
(* and the structural proofs are made.                                     *)
LEMMA TickWatched ==
  ASSUME LInv, NEW p \in HonestParty, Watched(p), NoneUnsoundFinal, CanAfford(p),
         L1Tick
  PROVE  Watched(p)' /\ NoneUnsoundFinal'
<1>1. /\ now' = now + 1 /\ now \in Nat /\ Ids' = Ids /\ p \in Party
      /\ UNCHANGED <<assertions, challenges, wallet>>
      /\ \A i \in Ids : ~MustDispute(p, i) /\ ~MustProceed(p, i)
  BY HonestAssumption DEF L1Tick, Tick, LInv, IInv, TypeOK, Ids
<1>2. \A i \in Ids : (Sound(i)' <=> Sound(i)) /\ (Faulty(i)' <=> Faulty(i))
                    /\ (Live(i)' <=> Live(i))
  BY <1>1 DEF Sound, Faulty, Live
<1>3. ASSUME NEW i \in Ids, Live(i), ~Sound(i),
             now + 1 >= assertions[i].posted_at + challenge_window
      PROVE  has_open_challenge(i, p) /\ ~Faulty(i)
  <2>1. has_open_challenge(i, p)
    BY <1>1, <1>3 DEF MustDispute, CanAfford
  <2> QED
    BY <1>1, <2>1, Zenon DEF MustProceed
<1>4. Watched(p)'
  BY <1>1, <1>2, <1>3 DEF Watched, has_open_challenge, challenge_window
<1>5. NoneUnsoundFinal'
  BY <1>1, <1>2 DEF NoneUnsoundFinal
<1> QED
  BY <1>4, <1>5

(* A post: its window is open.                                             *)
LEMMA PostWatched ==
  ASSUME LInv, NEW p \in HonestParty, Watched(p), NoneUnsoundFinal, L1Post
  PROVE  Watched(p)' /\ NoneUnsoundFinal'
<1>1. PICK who \in Party, par \in Ids, r \in Root, b \in Batch, bond \in Bond,
           stamp \in 0..LastTimestamp, len \in TraceLength :
        post(who, par, r, b, stamp, len, bond)
  BY DEF L1Post
<1>2. [Next]_vars /\ IInv /\ now \in Nat
  BY DEF L1Post, Next, Post, LInv, IInv, TypeOK
<1> DEFINE added == record(who, par, r, b, stamp, len, bond)
<1>3. PICK new \in Nat \ {0, 1} :
           /\ new \notin Ids /\ Ids' = Ids \cup {new} /\ now' = now
           /\ assertions'[new] = added
           /\ DOMAIN challenges'[new] = {}
           /\ check_batch_shape(b, len, assertions[par].post_state_root, r)
           /\ \A i \in Ids :
                assertions'[i] = assertions[i] /\ challenges'[i] = challenges[i]
  BY <1>1, <1>2, PostEffect, Zenon
<1>4. added.posted_at = now /\ added.status = PENDING
  BY DEF record
<1> HIDE DEF added
<1>5. \A i \in Ids : (Sound(i)' <=> Sound(i)) /\ (Faulty(i)' <=> Faulty(i))
                    /\ (Live(i)' <=> Live(i))
  BY <1>2, <1>3, ClaimsKept DEF Live
<1>6. ~ (now >= now + challenge_window)
  BY <1>2, ParametersTyped
<1>7. Watched(p)'
  BY <1>3, <1>4, <1>5, <1>6 DEF Watched, has_open_challenge, challenge_window
<1>8. NoneUnsoundFinal'
  BY <1>3, <1>4, <1>5 DEF NoneUnsoundFinal, PENDING, FINALIZED
<1> QED
  BY <1>7, <1>8

(* A fall.                                                                 *)
LEMMA FallWatched ==
  ASSUME LInv, NEW p \in HonestParty, Watched(p), NoneUnsoundFinal,
         NEW id \in Ids, NEW who \in Party, challenger_won(id, who)
  PROVE  Watched(p)' /\ NoneUnsoundFinal'
<1>1. [Next]_vars /\ IInv
  BY DEF Next, Verdict, LInv
<1>2. PICK fallen \in SUBSET Ids : Falls(fallen, id)
  BY <1>1, ChallengerWonEffect
<1> QED
  BY <1>1, <1>2, StillWatched
     DEF Falls, Live, REJECTED, FINALIZED, PENDING, CHALLENGED

(* The end of a game: the challenge that fails is not one of p that the    *)
(* games alone can decide.                                                 *)
LEMMA ResolutionWatched ==
  ASSUME LInv, NEW p \in HonestParty, Watched(p), NoneUnsoundFinal,
         NEW key \in DOMAIN disputes, OneStep(key) \/ ClaimTimeout(key)
  PROVE  Watched(p)' /\ NoneUnsoundFinal'
<1>1. key[1] \in Ids /\ key[2] \in Party /\ IInv
  BY KeyOf DEF LInv
<1>2. \/ assertions[key[1]].status = REJECTED /\ UNCHANGED vars
      \/ assertions[key[1]].status # REJECTED /\ challenger_won(key[1], key[2])
      \/ assertions[key[1]].status # REJECTED /\ defender_won(key[1], key[2])
  BY DEF OneStep, ClaimTimeout, resolve_internal
<1>3. CASE UNCHANGED vars
  <2>1. [Next]_vars /\ Ids' = Ids /\ now' = now /\ assertions' = assertions
        /\ challenges' = challenges
    BY <1>3 DEF vars, Ids
  <2> QED
    BY <2>1, StillWatched
<1>4. CASE challenger_won(key[1], key[2])
  BY <1>1, <1>4, FallWatched
<1>5. CASE assertions[key[1]].status # REJECTED /\ defender_won(key[1], key[2])
           /\ ~challenger_won(key[1], key[2])
  <2>1. [Next]_vars
    BY <1>1, <1>5 DEF Next, Verdict
  <2>2. /\ OnlyTouches(key[1])
        /\ assertions'[key[1]].status \in {PENDING, CHALLENGED}
        /\ DOMAIN challenges'[key[1]] = DOMAIN challenges[key[1]] \ {key[2]}
    BY <1>1, <1>5, DefenderWonEffect
  <2>3. key[2] = p => Faulty(key[1])
    BY <1>5, HonestChallengerWins
  <2> QED
    BY <2>1, <2>2, <2>3, StillWatched DEF OnlyTouches, PENDING, CHALLENGED, FINALIZED
<1> QED
  BY <1>2, <1>3, <1>4, <1>5

(* A finalization: an unsound assertion whose window is over is challenged.*)
LEMMA FinalizeWatched ==
  ASSUME LInv, NEW p \in HonestParty, Watched(p), NoneUnsoundFinal,
         NEW id \in Ids, L1Finalize(id)
  PROVE  Watched(p)' /\ NoneUnsoundFinal'
<1>1. [Next]_vars /\ IInv /\ finalize(id)
  BY DEF L1Finalize, Next, LInv
<1>2. /\ OnlyTouches(id) /\ can_finalize(id) /\ challenges' = challenges
      /\ assertions'[id].status = FINALIZED
  BY <1>1, FinalizeEffect
<1>3. Sound(id)
  <2>1. /\ assertions[id].status = PENDING /\ Live(id)
        /\ now - assertions[id].posted_at >= challenge_window
    BY <1>2 DEF can_finalize, Live
  <2>2. now \in Nat /\ assertions[id].posted_at \in Nat /\ challenge_window \in Nat
    BY <1>1, ParametersTyped DEF IInv, TypeOK, Assertion
  <2>3. now >= assertions[id].posted_at + challenge_window
    BY <2>1, <2>2
  <2>4. DOMAIN challenges[id] = {}
    BY <1>1, <2>1 DEF IInv, ChallengesCounted, PENDING, CHALLENGED
  <2> QED
    BY <2>1, <2>3, <2>4 DEF Watched, has_open_challenge
<1> QED
  BY <1>1, <1>2, <1>3, StillWatched DEF OnlyTouches

(* Every step of L1, while p can pay.                                      *)
LEMMA WatchedKept ==
  ASSUME NEW p \in HonestParty, LInv, Watched(p), NoneUnsoundFinal, CanAfford(p),
         [L1Next]_l1Vars
  PROVE  Watched(p)' /\ NoneUnsoundFinal'
<1>1. CASE L1Tick
  BY <1>1, TickWatched
<1>2. CASE L1Post
  BY <1>2, PostWatched
<1>3. CASE L1OpenChallenge
  <2>1. PICK who \in Party, id \in Ids, bond \in Bond : open_challenge(who, id, bond)
    BY <1>3 DEF L1OpenChallenge
  <2>2. [Next]_vars /\ IInv
    BY <1>3 DEF L1OpenChallenge, Next, OpenChallenge, LInv
  <2>3. /\ OnlyTouches(id) /\ assertions'[id].status = CHALLENGED
        /\ DOMAIN challenges'[id] = DOMAIN challenges[id] \cup {who}
    BY <2>1, <2>2, OpenChallengeEffect
  <2> QED
    BY <2>2, <2>3, StillWatched DEF OnlyTouches, CHALLENGED, FINALIZED
<1>4. CASE StructuralProof
  <2>1. PICK who \in Party, id \in Ids : challenger_won(id, who)
    BY <1>4 DEF StructuralProof, prove_trace_length, prove_uncompilable,
                prove_start_gap, apply_structural_win
  <2> QED
    BY <2>1, FallWatched
<1>5. ASSUME NEW key \in DOMAIN disputes, OneStep(key) \/ ClaimTimeout(key)
      PROVE  Watched(p)' /\ NoneUnsoundFinal'
  BY <1>5, ResolutionWatched
<1>6. CASE \E i \in Ids : L1Finalize(i)
  BY <1>6, FinalizeWatched
<1>7. CASE UNCHANGED vars
  <2>1. [Next]_vars /\ Ids' = Ids /\ now' = now /\ assertions' = assertions
        /\ challenges' = challenges
    BY <1>7 DEF vars, Ids
  <2> QED
    BY <2>1, StillWatched
<1>8. Open \/ UNCHANGED l1Vars
        \/ (\E key \in DOMAIN disputes : Dissect(key) \/ Select(key))
      => UNCHANGED vars
  BY DEF Open, open, l1Vars, Dissect, Select
<1> QED
  BY <1>1, <1>2, <1>3, <1>4, <1>5, <1>6, <1>7, <1>8 DEF L1Next, Move

(* One honest party suffices.  If it can pay for the challenges it has to  *)
(* make, nothing unsound is ever finalized: whatever the other parties     *)
(* post, challenge and play, in however many games, and for every window,  *)
(* arity and execution function.                                           *)
THEOREM OneHonestPartySuffices ==
  ASSUME NEW p \in HonestParty
  PROVE  L1Spec /\ []CanAfford(p) => []UnsoundNeverFinal
<1>1. L1Init => Watched(p) /\ NoneUnsoundFinal
  <2> SUFFICES ASSUME L1Init PROVE Watched(p) /\ NoneUnsoundFinal
    OBVIOUS
  <2>1. Ids = {Genesis} /\ Sound(Genesis)
    BY DEF L1Init, Init, initialize, Ids, Sound
  <2> QED
    BY <2>1 DEF Watched, NoneUnsoundFinal
<1>2. LInv /\ CanAfford(p) /\ Watched(p) /\ NoneUnsoundFinal /\ [L1Next]_l1Vars
        => Watched(p)' /\ NoneUnsoundFinal'
  BY WatchedKept
<1>3. NoneUnsoundFinal => UnsoundNeverFinal
  BY DEF NoneUnsoundFinal, UnsoundNeverFinal
<1> QED
  BY <1>1, <1>2, <1>3, L1Inductive, PTL DEF L1Spec

-----------------------------------------------------------------------------
(* Starts that increase from one to the next increase throughout.          *)
LEMMA StartsIncrease ==
  ASSUME NEW n \in Nat, NEW s, \A k \in 1..n : s[k] \in Nat,
         \A k \in 2..n : s[k] > s[k - 1]
  PROVE  \A j, k \in 1..n : j < k => s[j] < s[k]
<1> SUFFICES ASSUME NEW j \in 1..n PROVE \A k \in 1..n : j < k => s[j] < s[k]
  OBVIOUS
<1> DEFINE T == {i \in 1..n : j < i /\ ~(s[j] < s[i])}
<1> SUFFICES ASSUME T # {} PROVE FALSE
  OBVIOUS
<1>1. T \in SUBSET Nat
  OBVIOUS
<1>2. PICK i \in T : \A m \in T : i <= m
  BY <1>1, Least
<1>3. i \in 2..n /\ i - 1 \in 1..n /\ j <= i - 1
  BY <1>2
<1>4. i - 1 \notin T
  BY <1>1, <1>2, <1>3
<1>5. s[j] <= s[i - 1]
  BY <1>3, <1>4
<1> QED
  BY <1>2, <1>3, <1>5

(* The transactions that cover step pc, of n with these starts and lengths.*)
Covering(n, s, q, pc) == {k \in 1..n : s[k] <= pc /\ pc < s[k] + q[k]}

(* Transactions that follow each other without a gap, from step 0 to the   *)
(* end of the trace, cover every step once and none beyond it.             *)
LEMMA GaplessTiles ==
  ASSUME NEW n \in Nat \ {0}, NEW s, NEW q, NEW len \in Nat,
         \A k \in 1..n : s[k] \in Nat /\ q[k] \in Nat \ {0},
         s[1] = 0, \A k \in 2..n : s[k] > s[k - 1],
         \A k \in 1..(n - 1) : s[k + 1] = s[k] + q[k],
         s[n] + q[n] = len
  PROVE  /\ \A pc \in 0..(len - 1) : \E j \in 1..n : Covering(n, s, q, pc) = {j}
         /\ Covering(n, s, q, len) = {}
<1>0. \A j, k \in 1..n : j < k => s[j] < s[k]
  BY StartsIncrease
<1>1. ASSUME NEW j \in 1..n, NEW k \in 1..n, j < k
      PROVE  s[j] + q[j] <= s[k]
  <2>1. j \in 1..(n - 1) /\ j + 1 \in 1..n /\ s[j + 1] = s[j] + q[j]
    BY <1>1
  <2>2. CASE k = j + 1
    BY <2>1, <2>2
  <2>3. CASE k > j + 1
    <3>1. s[j + 1] < s[k]
      BY <2>1, <2>3, <1>0
    <3> QED
      BY <2>1, <3>1
  <2> QED
    BY <1>1, <2>2, <2>3
<1>2. ASSUME NEW pc \in 0..(len - 1)
      PROVE  \E j \in 1..n : Covering(n, s, q, pc) = {j}
  <2> DEFINE T == {m \in 0..(n - 1) : s[n - m] <= pc}
  <2>1. T \in SUBSET Nat /\ n - 1 \in T
    OBVIOUS
  <2>2. PICK m \in T : \A i \in T : m <= i
    BY <2>1, Least
  <2> DEFINE j == n - m
  <2>3. j \in 1..n /\ s[j] <= pc
    BY <2>2
  <2>4. pc < s[j] + q[j]
    <3>1. CASE j = n
      BY <3>1
    <3>2. CASE j < n
      <4>1. m - 1 \in 0..(n - 1) /\ m - 1 \notin T /\ n - (m - 1) = j + 1
        <5>1. m \in 0..(n - 1) /\ m # 0
          BY <2>2, <3>2
        <5>2. m - 1 \in Nat /\ ~ (m <= m - 1)
          BY <5>1
        <5>3. m - 1 \notin T
          <6> HIDE DEF T
          <6> QED
            BY <2>2, <5>2
        <5> QED
          BY <5>1, <5>3
      <4>2. ~ (s[j + 1] <= pc)
        BY <4>1
      <4>3. j \in 1..(n - 1) /\ j + 1 \in 1..n
        BY <2>3, <3>2
      <4> QED
        BY <4>2, <4>3
    <3> QED
      BY <2>3, <3>1, <3>2
  <2> HIDE DEF j, T
  <2>5. ASSUME NEW k \in 1..n, k # j, s[k] <= pc, pc < s[k] + q[k]
        PROVE  FALSE
    <3>1. CASE k < j
      BY <1>1, <2>3, <2>5, <3>1
    <3>2. CASE j < k
      BY <1>1, <2>3, <2>4, <2>5, <3>2
    <3> QED
      BY <2>3, <2>5, <3>1, <3>2
  <2> QED
    BY <2>3, <2>4, <2>5 DEF Covering
<1>3. ASSUME NEW k \in 1..n
      PROVE  s[k] + q[k] <= len
  <2>1. CASE k = n
    BY <2>1
  <2>2. CASE k < n
    BY <1>1, <2>2
  <2> QED
    BY <2>1, <2>2
<1> QED
  BY <1>2, <1>3 DEF Covering

(* Conversely, n transactions that cover every step once and none beyond   *)
(* the trace follow each other without a gap.                              *)
LEMMA TilesAreGapless ==
  ASSUME NEW n \in Nat \ {0}, NEW s, NEW q, NEW len \in Nat,
         \A k \in 1..n : s[k] \in Nat /\ q[k] \in Nat \ {0},
         \A k \in 2..n : s[k] > s[k - 1], len > s[n],
         \A pc \in 0..(len - 1) : \E j \in 1..n : Covering(n, s, q, pc) = {j},
         Covering(n, s, q, len) = {}
  PROVE  /\ \A k \in 1..(n - 1) : s[k + 1] = s[k] + q[k]
         /\ s[n] + q[n] = len
<1>0. \A j, k \in 1..n : j < k => s[j] < s[k]
  BY StartsIncrease
<1>1. ASSUME NEW j \in 1..n
      PROVE  s[j] \in 0..(len - 1)
  <2>1. CASE j < n
    BY <2>1, <1>0
  <2>2. CASE j = n
    BY <2>2
  <2> QED
    BY <2>1, <2>2
<1>2. ASSUME NEW pc \in 0..(len - 1), NEW j \in Covering(n, s, q, pc),
             NEW k \in Covering(n, s, q, pc)
      PROVE  j = k
  BY <1>2
<1>3. ASSUME NEW j \in 1..n
      PROVE  j \in Covering(n, s, q, s[j])
  BY DEF Covering
<1>4. ASSUME NEW j \in 1..n, NEW pc \in 0..(len - 1), s[j] + q[j] = pc,
             \A k \in 1..n : k > j => pc < s[k]
      PROVE  FALSE
  <2>1. PICK k \in 1..n : k \in Covering(n, s, q, pc)
    OBVIOUS
  <2>2. s[k] <= pc /\ pc < s[k] + q[k] /\ k < j
    BY <1>4, <2>1 DEF Covering
  <2>3. s[k] < s[j]
    BY <2>2, <1>0
  <2>4. k \in Covering(n, s, q, s[j])
    BY <1>4, <2>2, <2>3 DEF Covering
  <2> QED
    BY <1>1, <1>2, <1>3, <2>2, <2>4
<1>5. ASSUME NEW k \in 1..(n - 1)
      PROVE  s[k + 1] = s[k] + q[k]
  <2>1. k \in 1..n /\ k + 1 \in 1..n /\ s[k + 1] > s[k]
    OBVIOUS
  <2>2. CASE s[k + 1] < s[k] + q[k]
    <3>1. k \in Covering(n, s, q, s[k + 1])
      BY <2>1, <2>2 DEF Covering
    <3> QED
      BY <1>1, <1>2, <1>3, <2>1, <3>1
  <2>3. CASE s[k + 1] > s[k] + q[k]
    <3>1. \A m \in 1..n : m > k => s[k] + q[k] < s[m]
      BY <2>1, <2>3, <1>0
    <3>2. s[k] + q[k] \in 0..(len - 1)
      BY <1>1, <2>1, <2>3
    <3> QED
      BY <1>4, <2>1, <3>1, <3>2
  <2> QED
    BY <2>1, <2>2, <2>3
<1>6. s[n] + q[n] = len
  <2>1. CASE s[n] + q[n] > len
    BY <2>1 DEF Covering
  <2>2. CASE s[n] + q[n] < len
    BY <1>4, <2>2
  <2> QED
    BY <2>1, <2>2
<1> QED
  BY <1>5, <1>6

(* What StructuralProofsDecide says of the trace of a batch.               *)
Tiled(b, len) ==
  LET covers(j, pc) == /\ b.tx_starts[j] <= pc
                       /\ pc < b.tx_starts[j] + Program(b.tx_bytes[j])
      txs == 1..Len(b.tx_bytes)
  IN  /\ \A j \in txs : compiles(b.tx_bytes[j])
      /\ \A pc \in 0..(len - 1) : Cardinality({j \in txs : covers(j, pc)}) = 1
      /\ \A j \in txs : ~covers(j, len)

(* For a batch of the shape check_batch_shape asks for, the three proofs   *)
(* fail exactly when the transactions tile the trace.                      *)
LEMMA ShapedBatchDecides ==
  ASSUME NEW b \in Batch \cup {EmptyBatch}, NEW len \in Nat, NEW r,
         check_batch_shape(b, len, r, r)
  PROVE  ~StructuralFault(b, len) <=> Tiled(b, len)
<1> DEFINE n == Len(b.tx_bytes)
           s == b.tx_starts
           q == [j \in 1..n |-> Program(b.tx_bytes[j])]
<1>1. n \in Nat /\ s \in Seq(Nat) /\ Len(s) = n
      /\ \A j \in 1..n : compiles(b.tx_bytes[j]) => q[j] \in Nat \ {0}
  <2>1. Len(s) = n
    BY DEF check_batch_shape
  <2>2. CASE b \in Batch
    BY <2>1, <2>2, BatchAssumption DEF compiles
  <2>3. CASE b = EmptyBatch
    <3>1. n = 0 /\ s = <<>>
      BY <2>3 DEF EmptyBatch
    <3> QED
      BY <2>1, <3>1
  <2> QED
    BY <2>2, <2>3
<1>2. CASE n = 0
  <2>1. len = 0 /\ 1..n = {} /\ 0..(len - 1) = {}
    BY <1>2 DEF check_batch_shape
  <2> QED
    BY <1>2, <2>1 DEF StructuralFault, WrongTraceLength, UncompilableAt, StartGapAt,
                      Tiled
<1>3. CASE n # 0 /\ ~(\A j \in 1..n : compiles(b.tx_bytes[j]))
  BY <1>3 DEF StructuralFault, UncompilableAt, Tiled
<1>4. CASE n # 0 /\ (\A j \in 1..n : compiles(b.tx_bytes[j]))
  <2>1. /\ n \in Nat \ {0} /\ n \in 1..n
        /\ \A j \in 1..n : s[j] \in Nat /\ q[j] \in Nat \ {0}
    <3>1. \A j \in 1..n : q[j] \in Nat \ {0}
      BY <1>1, <1>4
    <3> HIDE DEF s, q, n
    <3>2. n \in Nat \ {0} /\ n \in 1..n
      BY <1>1, <1>4
    <3>3. \A j \in 1..n : s[j] \in Nat
      BY <1>1
    <3> QED
      BY <3>1, <3>2, <3>3
  <2>2. s[1] = 0 /\ (\A k \in 2..n : s[k] > s[k - 1]) /\ len > s[n]
    BY <1>4 DEF check_batch_shape
  <2>3. ~StructuralFault(b, len) <=>
          (\A k \in 1..(n - 1) : s[k + 1] = s[k] + q[k]) /\ s[n] + q[n] = len
    <3>1. WrongTraceLength(b, len) <=> s[n] + q[n] # len
      BY <1>4, <2>1 DEF WrongTraceLength
    <3>2. \A k \in 1..n : ~UncompilableAt(b, k)
      BY <1>4 DEF UncompilableAt
    <3>3. \A k \in 1..n : StartGapAt(b, k) <=>
                           k \in 1..(n - 1) /\ s[k + 1] # s[k] + q[k]
      BY <1>4 DEF StartGapAt
    <3>4. 1..(n - 1) \subseteq 1..n
      BY <2>1
    <3> HIDE DEF s, q
    <3> QED
      BY <3>1, <3>2, <3>3, <3>4 DEF StructuralFault
  <2>4. Tiled(b, len) <=>
          /\ \A pc \in 0..(len - 1) : \E j \in 1..n : Covering(n, s, q, pc) = {j}
          /\ Covering(n, s, q, len) = {}
    <3>1. ASSUME NEW pc
          PROVE  {j \in 1..n : s[j] <= pc /\ pc < s[j] + Program(b.tx_bytes[j])}
                   = Covering(n, s, q, pc)
      BY DEF Covering
    <3>2. ASSUME NEW pc
          PROVE  Cardinality(Covering(n, s, q, pc)) = 1
                   <=> \E j \in 1..n : Covering(n, s, q, pc) = {j}
      <4>1. Covering(n, s, q, pc) \subseteq 1..n
        BY DEF Covering
      <4>2. IsFiniteSet(Covering(n, s, q, pc))
        <5> HIDE DEF n, s, q
        <5>1. IsFiniteSet(1..n)
          BY <1>1, FS_Interval
        <5> QED
          BY <4>1, <5>1, FS_Subset, Zenon
      <4> HIDE DEF n, s, q
      <4>3. Cardinality(Covering(n, s, q, pc)) = 1
              <=> \E j : Covering(n, s, q, pc) = {j}
        BY <4>2, FS_Singleton, Zenon
      <4>4. \A j : Covering(n, s, q, pc) = {j} => j \in 1..n
        BY <4>1
      <4> QED
        BY <4>3, <4>4
    <3>3. Tiled(b, len) <=>
            /\ \A pc \in 0..(len - 1) : Cardinality(Covering(n, s, q, pc)) = 1
            /\ Covering(n, s, q, len) = {}
      BY <1>4, <3>1 DEF Tiled
    <3> QED
      BY <3>2, <3>3
  <2> HIDE DEF n, s, q
  <2>5. (\A k \in 1..(n - 1) : s[k + 1] = s[k] + q[k]) /\ s[n] + q[n] = len
        => /\ \A pc \in 0..(len - 1) : \E j \in 1..n : Covering(n, s, q, pc) = {j}
           /\ Covering(n, s, q, len) = {}
    BY <2>1, <2>2, GaplessTiles
  <2>6. /\ \A pc \in 0..(len - 1) : \E j \in 1..n : Covering(n, s, q, pc) = {j}
        /\ Covering(n, s, q, len) = {}
        => (\A k \in 1..(n - 1) : s[k + 1] = s[k] + q[k]) /\ s[n] + q[n] = len
    BY <2>1, <2>2, TilesAreGapless
  <2> QED
    BY <2>3, <2>4, <2>5, <2>6
<1> QED
  BY <1>2, <1>3, <1>4

(* The structural proofs decide, for batches of any length and programs of *)
(* any size, whether every step is covered by exactly one transaction.     *)
THEOREM StructuralProofsAreComplete == L1Spec => []StructuralProofsDecide
<1>1. TypeOK /\ BatchesShaped => StructuralProofsDecide
  <2> SUFFICES ASSUME TypeOK, BatchesShaped, NEW i \in Ids
               PROVE  ~Faulty(i) <=> Tiled(assertions[i].batch, assertions[i].trace_length)
    BY DEF StructuralProofsDecide, Tiled
  <2>1. assertions[i].batch \in Batch \cup {EmptyBatch}
        /\ assertions[i].trace_length \in Nat
    BY DEF TypeOK, Assertion
  <2>2. check_batch_shape(assertions[i].batch, assertions[i].trace_length,
                  assertions[i].post_state_root, assertions[i].post_state_root)
    BY DEF BatchesShaped
  <2> QED
    BY <2>1, <2>2, ShapedBatchDecides DEF Faulty
<1> QED
  BY <1>1, L1ImplementsChain, AllShaped, TypeCorrect, PTL
=============================================================================
