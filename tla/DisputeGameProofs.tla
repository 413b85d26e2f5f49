------------------------- MODULE DisputeGameProofs --------------------------
(***************************************************************************)
(* What the operations of disputes.move do to each field of a Dispute      *)
(* record, and what the boundaries of a round are, for every arity, move   *)
(* timeout and window.  BisectionProofs and L1Proofs rest on these facts.  *)
(***************************************************************************)
EXTENDS DisputeGame, TLAPS

(* The Dispute records of TypeOK.                                          *)
Dispute ==
  [lo : Nat, hi : Nat, lo_commitment : Commitment,
   hi_commitment : Commitment, offered : Seq(Commitment),
   has_offer : BOOLEAN, stage : Stage, turn : Role, deadline : Nat,
   defender_clock : Nat, challenger_clock : Nat, last_move_at : Nat,
   winner : Role \cup {NOBODY}]

(* The same interval, commitments and offer in two records.                *)
SameInterval(e, f) ==
  /\ f.lo = e.lo /\ f.hi = e.hi
  /\ f.lo_commitment = e.lo_commitment /\ f.hi_commitment = e.hi_commitment
  /\ f.offered = e.offered /\ f.has_offer = e.has_offer

SameClocks(e, f) ==
  /\ f.defender_clock = e.defender_clock
  /\ f.challenger_clock = e.challenger_clock
  /\ f.last_move_at = e.last_move_at

SameRest(e, f) ==
  f.stage = e.stage /\ f.turn = e.turn /\ f.winner = e.winner

(* The time since the last move is taken from the clock of `role` alone.   *)
Charged(e, f, role, n) ==
  /\ clock(f, role) + n = clock(e, role) + e.last_move_at
  /\ clock(f, opponent(role)) = clock(e, opponent(role))
  /\ f.defender_clock + f.challenger_clock + n
       = e.defender_clock + e.challenger_clock + e.last_move_at

-----------------------------------------------------------------------------
(* begin_move charges the mover's clock and touches nothing else.          *)
LEMMA BeginMoveFields ==
  ASSUME NEW e \in Dispute, NEW role \in Role, NEW n \in Nat,
         can_move(e, role, n), e.last_move_at <= n
  PROVE  LET f == begin_move(e, role, n)
         IN  /\ f \in Dispute
             /\ SameInterval(e, f) /\ SameRest(e, f)
             /\ f.last_move_at = e.last_move_at
             /\ f.deadline = e.deadline
             /\ Charged(e, f, role, n)
<1>1. CASE role = DEFENDER
  <2>1. n - e.last_move_at <= e.defender_clock
    BY <1>1 DEF can_move, clock
  <2> DEFINE c == e.defender_clock - (n - e.last_move_at)
             f == [e EXCEPT !.defender_clock = c]
  <2>2. /\ c \in Nat
        /\ c + n = e.defender_clock + e.last_move_at
    BY <2>1 DEF Dispute
  <2>3. begin_move(e, role, n) = f
    BY <1>1 DEF begin_move
  <2> HIDE DEF c
  <2>4. /\ f \in Dispute
        /\ SameInterval(e, f) /\ SameRest(e, f)
        /\ f.last_move_at = e.last_move_at
        /\ f.deadline = e.deadline
        /\ f.defender_clock = c /\ f.challenger_clock = e.challenger_clock
    BY <2>2 DEF Dispute, SameInterval, SameRest
  <2>5. e.last_move_at \in Nat /\ e.defender_clock \in Nat /\ e.challenger_clock \in Nat
    BY DEF Dispute
  <2> HIDE DEF f
  <2>6. f.defender_clock + f.challenger_clock + n
          = e.defender_clock + e.challenger_clock + e.last_move_at
    BY <2>2, <2>4, <2>5
  <2>7. Charged(e, f, role, n)
    BY <1>1, <2>2, <2>4, <2>6 DEF Charged, clock, opponent, DEFENDER, CHALLENGER
  <2>8. QED
    BY <2>3, <2>4, <2>7
<1>2. CASE role = CHALLENGER
  <2>0. role # DEFENDER
    BY <1>2 DEF DEFENDER, CHALLENGER
  <2>1. n - e.last_move_at <= e.challenger_clock
    BY <2>0 DEF can_move, clock
  <2> DEFINE c == e.challenger_clock - (n - e.last_move_at)
             f == [e EXCEPT !.challenger_clock = c]
  <2>2. /\ c \in Nat
        /\ c + n = e.challenger_clock + e.last_move_at
    BY <2>1 DEF Dispute
  <2>3. begin_move(e, role, n) = f
    BY <2>0 DEF begin_move
  <2> HIDE DEF c
  <2>4. /\ f \in Dispute
        /\ SameInterval(e, f) /\ SameRest(e, f)
        /\ f.last_move_at = e.last_move_at
        /\ f.deadline = e.deadline
        /\ f.challenger_clock = c /\ f.defender_clock = e.defender_clock
    BY <2>2 DEF Dispute, SameInterval, SameRest
  <2>5. e.last_move_at \in Nat /\ e.challenger_clock \in Nat /\ e.defender_clock \in Nat
    BY DEF Dispute
  <2> HIDE DEF f
  <2>6. f.defender_clock + f.challenger_clock + n
          = e.defender_clock + e.challenger_clock + e.last_move_at
    BY <2>2, <2>4, <2>5
  <2>7. Charged(e, f, role, n)
    BY <1>2, <2>0, <2>2, <2>4, <2>6 DEF Charged, clock, opponent, DEFENDER, CHALLENGER
  <2>8. QED
    BY <2>3, <2>4, <2>7
<1>3. QED
  BY <1>1, <1>2 DEF Role

(* pass_turn hands the turn over and restarts the move.                    *)
LEMMA PassTurnFields ==
  ASSUME NEW e \in Dispute, NEW n \in Nat
  PROVE  LET f == pass_turn(e, n)
         IN  /\ f \in Dispute
             /\ SameInterval(e, f)
             /\ f.defender_clock = e.defender_clock
             /\ f.challenger_clock = e.challenger_clock
             /\ f.last_move_at = n
             /\ f.deadline = n + lesser(MOVE_TIMEOUT, clock(e, opponent(e.turn)))
             /\ f.turn = opponent(e.turn)
             /\ f.stage = e.stage /\ f.winner = e.winner
<1> DEFINE t == opponent(e.turn)
           dl == n + lesser(MOVE_TIMEOUT, clock(e, t))
           e1 == [e EXCEPT !.turn = t]
           e2 == [e1 EXCEPT !.last_move_at = n]
           e3 == [e2 EXCEPT !.deadline = dl]
<1>1. t \in Role
  BY DEF opponent, Role
<1>2. clock(e, t) \in Nat
  BY DEF clock, Dispute
<1>3. dl \in Nat
  BY <1>2, GameAssumption DEF lesser
<1>4. pass_turn(e, n) = e3
  BY DEF pass_turn
<1> HIDE DEF t, dl
<1>5. /\ e1 \in Dispute /\ SameInterval(e, e1) /\ SameClocks(e, e1)
      /\ e1.turn = t /\ e1.stage = e.stage /\ e1.winner = e.winner
  BY <1>1 DEF Dispute, SameInterval, SameClocks
<1> HIDE DEF e1
<1>6. /\ e2 \in Dispute /\ SameInterval(e, e2)
      /\ e2.defender_clock = e.defender_clock
      /\ e2.challenger_clock = e.challenger_clock
      /\ e2.last_move_at = n
      /\ e2.turn = t /\ e2.stage = e.stage /\ e2.winner = e.winner
  BY <1>5 DEF Dispute, SameInterval, SameClocks
<1> HIDE DEF e2
<1>7. /\ e3 \in Dispute /\ SameInterval(e, e3)
      /\ e3.defender_clock = e.defender_clock
      /\ e3.challenger_clock = e.challenger_clock
      /\ e3.last_move_at = n /\ e3.deadline = dl
      /\ e3.turn = t /\ e3.stage = e.stage /\ e3.winner = e.winner
  BY <1>3, <1>6 DEF Dispute, SameInterval
<1> HIDE DEF e3
<1>8. QED
  BY <1>4, <1>7, Zenon DEF t, dl

(* resolve records the winner and ends the game.                           *)
LEMMA ResolveFields ==
  ASSUME NEW e \in Dispute, NEW w \in Role
  PROVE  LET f == resolve(e, w)
         IN  /\ f \in Dispute
             /\ SameInterval(e, f) /\ SameClocks(e, f)
             /\ f.turn = e.turn
             /\ f.stage = RESOLVED /\ f.winner = w
<1> DEFINE e1 == [e EXCEPT !.stage = RESOLVED]
           e2 == [e1 EXCEPT !.winner = w]
<1>1. resolve(e, w) = e2
  BY DEF resolve
<1>2. /\ e1 \in Dispute /\ SameInterval(e, e1) /\ SameClocks(e, e1)
      /\ e1.turn = e.turn /\ e1.stage = RESOLVED
  BY DEF Dispute, SameInterval, SameClocks, Stage
<1> HIDE DEF e1
<1>3. /\ e2 \in Dispute /\ SameInterval(e, e2) /\ SameClocks(e, e2)
      /\ e2.turn = e.turn /\ e2.stage = RESOLVED /\ e2.winner = w
  BY <1>2 DEF Dispute, SameInterval, SameClocks
<1> HIDE DEF e2
<1>4. QED
  BY <1>1, <1>3, Zenon

(* A game over one step is the challenger's to prove; any other goes on.   *)
LEMMA NarrowFields ==
  ASSUME NEW e \in Dispute
  PROVE  LET f == enter_one_step_if_narrow(e)
         IN  /\ f \in Dispute
             /\ SameInterval(e, f) /\ SameClocks(e, f)
             /\ f.winner = e.winner /\ f.deadline = e.deadline
             /\ e.hi - e.lo = 1 => f.stage = ONE_STEP /\ f.turn = CHALLENGER
             /\ e.hi - e.lo # 1 => f.stage = e.stage /\ f.turn = e.turn
<1>1. CASE e.hi - e.lo = 1
  <2> DEFINE e1 == [e EXCEPT !.stage = ONE_STEP]
             e2 == [e1 EXCEPT !.turn = CHALLENGER]
  <2>1. enter_one_step_if_narrow(e) = e2
    BY <1>1 DEF enter_one_step_if_narrow
  <2>2. /\ e1 \in Dispute /\ SameInterval(e, e1) /\ SameClocks(e, e1)
        /\ e1.winner = e.winner /\ e1.stage = ONE_STEP /\ e1.deadline = e.deadline
    BY DEF Dispute, SameInterval, SameClocks, Stage
  <2> HIDE DEF e1
  <2>3. /\ e2 \in Dispute /\ SameInterval(e, e2) /\ SameClocks(e, e2)
        /\ e2.winner = e.winner /\ e2.stage = ONE_STEP /\ e2.turn = CHALLENGER
        /\ e2.deadline = e.deadline
    BY <2>2 DEF Dispute, SameInterval, SameClocks, Role
  <2> HIDE DEF e2
  <2>4. QED
    BY <1>1, <2>1, <2>3, Zenon
<1>2. CASE e.hi - e.lo # 1
  BY <1>2 DEF enter_one_step_if_narrow, SameInterval, SameClocks
<1>3. QED
  BY <1>1, <1>2

(* The offer a dissection puts on the table.                               *)
LEMMA OfferFields ==
  ASSUME NEW e \in Dispute, NEW off \in Seq(Commitment)
  PROVE  LET f == [e EXCEPT !.offered = off, !.has_offer = TRUE]
         IN  /\ f \in Dispute
             /\ f.lo = e.lo /\ f.hi = e.hi
             /\ f.lo_commitment = e.lo_commitment
             /\ f.hi_commitment = e.hi_commitment
             /\ f.offered = off /\ f.has_offer = TRUE
             /\ SameClocks(e, f) /\ SameRest(e, f)
<1> DEFINE e1 == [e EXCEPT !.offered = off]
           e2 == [e1 EXCEPT !.has_offer = TRUE]
<1>1. /\ e1 \in Dispute /\ SameClocks(e, e1) /\ SameRest(e, e1)
      /\ e1.lo = e.lo /\ e1.hi = e.hi /\ e1.lo_commitment = e.lo_commitment
      /\ e1.hi_commitment = e.hi_commitment /\ e1.offered = off
  BY DEF Dispute, SameClocks, SameRest
<1>2. [e EXCEPT !.offered = off, !.has_offer = TRUE] = e2
  OBVIOUS
<1> HIDE DEF e1
<1>3. /\ e2 \in Dispute /\ SameClocks(e, e2) /\ SameRest(e, e2)
      /\ e2.lo = e.lo /\ e2.hi = e.hi /\ e2.lo_commitment = e.lo_commitment
      /\ e2.hi_commitment = e.hi_commitment /\ e2.offered = off
      /\ e2.has_offer = TRUE
  BY <1>1 DEF Dispute, SameClocks, SameRest
<1> HIDE DEF e2
<1>4. QED
  BY <1>2, <1>3, Zenon

(* A record with another interval and no offer, as a selection leaves it.  *)
narrowed(e, a, b, ca, cb) ==
  [e EXCEPT !.lo = a, !.hi = b, !.lo_commitment = ca, !.hi_commitment = cb,
            !.offered = <<>>, !.has_offer = FALSE]

(* The interval a selection leaves.                                        *)
LEMMA IntervalFields ==
  ASSUME NEW e \in Dispute, NEW a \in Nat, NEW b \in Nat,
         NEW ca \in Commitment, NEW cb \in Commitment
  PROVE  LET f == narrowed(e, a, b, ca, cb)
         IN  /\ f \in Dispute
             /\ f.lo = a /\ f.hi = b
             /\ f.lo_commitment = ca /\ f.hi_commitment = cb
             /\ f.offered = <<>> /\ f.has_offer = FALSE
             /\ SameClocks(e, f) /\ SameRest(e, f)
<1> DEFINE none == <<>>
           e1 == [e EXCEPT !.lo = a]
           e2 == [e1 EXCEPT !.hi = b]
           e3 == [e2 EXCEPT !.lo_commitment = ca]
           e4 == [e3 EXCEPT !.hi_commitment = cb]
           e5 == [e4 EXCEPT !.offered = none]
           e6 == [e5 EXCEPT !.has_offer = FALSE]
<1>0. none \in Seq(Commitment)
  OBVIOUS
<1>1. /\ e1 \in Dispute /\ SameClocks(e, e1) /\ SameRest(e, e1) /\ e1.lo = a
  BY DEF Dispute, SameClocks, SameRest
<1>2. narrowed(e, a, b, ca, cb) = e6
  BY Zenon DEF narrowed
<1> HIDE DEF none, e1
<1>3. /\ e2 \in Dispute /\ SameClocks(e, e2) /\ SameRest(e, e2)
      /\ e2.lo = a /\ e2.hi = b
  BY <1>1 DEF Dispute, SameClocks, SameRest
<1> HIDE DEF e2
<1>4. /\ e3 \in Dispute /\ SameClocks(e, e3) /\ SameRest(e, e3)
      /\ e3.lo = a /\ e3.hi = b /\ e3.lo_commitment = ca
  BY <1>3 DEF Dispute, SameClocks, SameRest
<1> HIDE DEF e3
<1>5. /\ e4 \in Dispute /\ SameClocks(e, e4) /\ SameRest(e, e4)
      /\ e4.lo = a /\ e4.hi = b
      /\ e4.lo_commitment = ca /\ e4.hi_commitment = cb
  BY <1>4 DEF Dispute, SameClocks, SameRest
<1> HIDE DEF e4
<1>6. /\ e5 \in Dispute /\ SameClocks(e, e5) /\ SameRest(e, e5)
      /\ e5.lo = a /\ e5.hi = b
      /\ e5.lo_commitment = ca /\ e5.hi_commitment = cb /\ e5.offered = none
  BY <1>0, <1>5 DEF Dispute, SameClocks, SameRest
<1> HIDE DEF e5
<1>7. /\ e6 \in Dispute /\ SameClocks(e, e6) /\ SameRest(e, e6)
      /\ e6.lo = a /\ e6.hi = b
      /\ e6.lo_commitment = ca /\ e6.hi_commitment = cb /\ e6.offered = none
      /\ e6.has_offer = FALSE
  BY <1>6 DEF Dispute, SameClocks, SameRest
<1> HIDE DEF e6
<1>8. QED
  BY <1>2, <1>7, Zenon DEF none

-----------------------------------------------------------------------------
(* A non-empty interval is divided into at least one segment, at most as   *)
(* many as it has steps, and into ARITY of them when it is that long.      *)
LEMMA SegmentsOf ==
  ASSUME NEW lo \in Nat, NEW hi \in Nat, lo < hi
  PROVE  /\ segments(lo, hi) \in 1..(hi - lo)
         /\ hi - lo < ARITY => segments(lo, hi) = hi - lo
         /\ hi - lo >= ARITY => segments(lo, hi) = ARITY
BY GameAssumption DEF segments, lesser

(* Segment i of w steps in n segments starts at (w*i) \div n: its length   *)
(* is at least one, and at most the quotient rounded up.                   *)
LEMMA SegmentLength ==
  ASSUME NEW m \in Nat, NEW w \in Nat, NEW n \in Nat \ {0}, n <= w
  PROVE  /\ m \div n \in Nat /\ (m + w) \div n \in Nat
         /\ (m + w) \div n > m \div n
         /\ n * ((m + w) \div n - m \div n - 1) <= w - 1
<1>1. ASSUME NEW a \in Nat
      PROVE  /\ a \div n \in Nat
             /\ n * (a \div n) <= a /\ a < n * (a \div n) + n
  OBVIOUS
<1> DEFINE p == m \div n
           q == (m + w) \div n
<1>2. /\ p \in Nat /\ n * p <= m /\ m < n * p + n
  BY <1>1
<1>3. /\ q \in Nat /\ n * q <= m + w /\ m + w < n * q + n
  BY <1>1
<1> HIDE DEF p, q
<1>4. n * q - n * p <= w + n - 1
  BY <1>2, <1>3
<1>5. n * (q - p - 1) = n * q - n * p - n
  BY <1>2, <1>3
<1>6. n * (q - p - 1) <= w - 1
  BY <1>2, <1>3, <1>4, <1>5
<1>7. q > p
  <2>1. n * p < n * q
    BY <1>2, <1>3
  <2>2. QED
    BY <2>1, <1>2, <1>3
<1>8. QED
  BY <1>2, <1>3, <1>6, <1>7 DEF p, q

(* A dissection offers its commitments and passes the turn.                *)
Dissected(e, f, off, n) ==
  /\ f \in Dispute
  /\ f.lo = e.lo /\ f.hi = e.hi
  /\ f.lo_commitment = e.lo_commitment
  /\ f.hi_commitment = e.hi_commitment
  /\ f.offered = off /\ f.has_offer = TRUE
  /\ f.stage = BISECTING /\ f.turn = CHALLENGER
  /\ f.winner = e.winner
  /\ f.last_move_at = n
  /\ f.deadline = n + lesser(MOVE_TIMEOUT, f.challenger_clock)
  /\ Charged(e, f, DEFENDER, n)

(* `dissect` leaves what Dissected says.                                   *)
LEMMA DissectFields ==
  ASSUME NEW e \in Dispute, NEW n \in Nat, e.last_move_at <= n,
         NEW off \in Seq(Commitment), can_dissect(e, off, n)
  PROVE  Dissected(e, dissect(e, off, n), off, n)
<1> DEFINE e1 == begin_move(e, DEFENDER, n)
           e2 == [e1 EXCEPT !.offered = off, !.has_offer = TRUE]
           e3 == pass_turn(e2, n)
<1>1. can_move(e, DEFENDER, n) /\ e.stage = BISECTING /\ e.turn = DEFENDER
  BY DEF can_dissect, can_move
<1>2. /\ e1 \in Dispute /\ SameInterval(e, e1) /\ SameRest(e, e1)
      /\ Charged(e, e1, DEFENDER, n)
  BY <1>1, BeginMoveFields DEF Role
<1> HIDE DEF e1
<1>3. /\ e2 \in Dispute
      /\ e2.lo = e1.lo /\ e2.hi = e1.hi
      /\ e2.lo_commitment = e1.lo_commitment
      /\ e2.hi_commitment = e1.hi_commitment
      /\ e2.offered = off /\ e2.has_offer = TRUE
      /\ SameClocks(e1, e2) /\ SameRest(e1, e2)
  BY <1>2, OfferFields
<1>4. dissect(e, off, n) = e3
  BY DEF dissect, e1
<1> HIDE DEF e2
<1>5. /\ e3 \in Dispute /\ SameInterval(e2, e3)
      /\ e3.defender_clock = e2.defender_clock
      /\ e3.challenger_clock = e2.challenger_clock
      /\ e3.last_move_at = n
      /\ e3.deadline = n + lesser(MOVE_TIMEOUT, clock(e2, opponent(e2.turn)))
      /\ e3.turn = opponent(e2.turn)
      /\ e3.stage = e2.stage /\ e3.winner = e2.winner
  BY <1>3, PassTurnFields
<1> HIDE DEF e3
<1>6. e3.turn = CHALLENGER /\ opponent(e2.turn) = CHALLENGER
  BY <1>1, <1>2, <1>3, <1>5 DEF SameRest, opponent
<1>7. Charged(e, e3, DEFENDER, n)
  BY <1>2, <1>3, <1>5 DEF SameClocks, Charged, clock
<1>8. e3.deadline = n + lesser(MOVE_TIMEOUT, e3.challenger_clock)
  BY <1>5, <1>6 DEF clock, DEFENDER, CHALLENGER
<1>9. QED
  BY <1>1, <1>2, <1>3, <1>4, <1>5, <1>6, <1>7, <1>8
     DEF Dissected, SameInterval, SameClocks, SameRest

(* A selection leaves one segment; one step is proved, more are dissected. *)
Selected(e, f, index, n) ==
  /\ f \in Dispute
  /\ f.lo = boundary(e.lo, e.hi, index)
  /\ f.hi = boundary(e.lo, e.hi, index + 1)
  /\ f.lo_commitment = commitment_at(e, index)
  /\ f.hi_commitment = commitment_at(e, index + 1)
  /\ f.offered = <<>> /\ f.has_offer = FALSE
  /\ f.hi - f.lo = 1 => f.stage = ONE_STEP /\ f.turn = CHALLENGER
  /\ f.hi - f.lo # 1 => f.stage = BISECTING /\ f.turn = DEFENDER
  /\ f.winner = e.winner
  /\ f.last_move_at = n
  /\ f.deadline = n + lesser(MOVE_TIMEOUT, f.defender_clock)
  /\ Charged(e, f, CHALLENGER, n)

(* `select` leaves what Selected says.                                     *)
LEMMA SelectFields ==
  ASSUME NEW e \in Dispute, NEW n \in Nat, e.last_move_at <= n,
         NEW index \in Nat, can_select(e, index, n),
         boundary(e.lo, e.hi, index) \in Nat,
         boundary(e.lo, e.hi, index + 1) \in Nat,
         commitment_at(e, index) \in Commitment,
         commitment_at(e, index + 1) \in Commitment
  PROVE  Selected(e, select(e, index, n), index, n)
<1> DEFINE a == boundary(e.lo, e.hi, index)
           b == boundary(e.lo, e.hi, index + 1)
           ca == commitment_at(e, index)
           cb == commitment_at(e, index + 1)
           e1 == begin_move(e, CHALLENGER, n)
           e2 == narrowed(e1, a, b, ca, cb)
           e3 == pass_turn(e2, n)
           e4 == enter_one_step_if_narrow(e3)
<1>1. /\ can_move(e, CHALLENGER, n) /\ e.stage = BISECTING
      /\ e.turn = CHALLENGER
  BY DEF can_select, can_move
<1>2. /\ e1 \in Dispute /\ SameInterval(e, e1) /\ SameRest(e, e1)
      /\ Charged(e, e1, CHALLENGER, n)
  BY <1>1, BeginMoveFields DEF Role
<1>3. select(e, index, n) = e4
  BY DEF select, narrowed
<1> HIDE DEF a, b, ca, cb, e1
<1>4. /\ e2 \in Dispute
      /\ e2.lo = a /\ e2.hi = b
      /\ e2.lo_commitment = ca /\ e2.hi_commitment = cb
      /\ e2.offered = <<>> /\ e2.has_offer = FALSE
      /\ SameClocks(e1, e2) /\ SameRest(e1, e2)
  <2>1. a \in Nat /\ b \in Nat /\ ca \in Commitment /\ cb \in Commitment
    BY DEF a, b, ca, cb
  <2>2. QED
    BY <1>2, <2>1, IntervalFields
<1> HIDE DEF e2
<1>5. /\ e3 \in Dispute /\ SameInterval(e2, e3)
      /\ e3.defender_clock = e2.defender_clock
      /\ e3.challenger_clock = e2.challenger_clock
      /\ e3.last_move_at = n
      /\ e3.deadline = n + lesser(MOVE_TIMEOUT, clock(e2, opponent(e2.turn)))
      /\ e3.turn = opponent(e2.turn)
      /\ e3.stage = e2.stage /\ e3.winner = e2.winner
  BY <1>4, PassTurnFields
<1>6. e3.turn = DEFENDER /\ e3.deadline = n + lesser(MOVE_TIMEOUT, e2.defender_clock)
  BY <1>1, <1>2, <1>4, <1>5 DEF SameRest, opponent, clock, DEFENDER, CHALLENGER
<1> HIDE DEF e3
<1>7. /\ e4 \in Dispute /\ SameInterval(e3, e4) /\ SameClocks(e3, e4)
      /\ e4.winner = e3.winner /\ e4.deadline = e3.deadline
      /\ e3.hi - e3.lo = 1 => e4.stage = ONE_STEP /\ e4.turn = CHALLENGER
      /\ e3.hi - e3.lo # 1 => e4.stage = e3.stage /\ e4.turn = e3.turn
  BY <1>5, NarrowFields
<1> HIDE DEF e4
<1>8. /\ e4.lo = a /\ e4.hi = b /\ e4.lo_commitment = ca
      /\ e4.hi_commitment = cb /\ e4.offered = <<>> /\ e4.has_offer = FALSE
      /\ e3.hi - e3.lo = e4.hi - e4.lo
  BY <1>4, <1>5, <1>7 DEF SameInterval
<1>9. /\ e4.last_move_at = n /\ e4.winner = e.winner
      /\ e4.defender_clock = e1.defender_clock
      /\ e4.challenger_clock = e1.challenger_clock
      /\ e4.deadline = n + lesser(MOVE_TIMEOUT, e4.defender_clock)
      /\ e3.stage = BISECTING
  BY <1>1, <1>2, <1>4, <1>5, <1>6, <1>7 DEF SameClocks, SameRest
<1>10. Charged(e, e4, CHALLENGER, n)
  BY <1>2, <1>9 DEF Charged, clock
<1>11. QED
  BY <1>3, <1>6, <1>7, <1>8, <1>9, <1>10 DEF Selected, a, b, ca, cb

(* Where segment `index` of a round lies.                                  *)
LEMMA BoundariesOf ==
  ASSUME NEW lo \in Nat, NEW hi \in Nat, lo < hi,
         NEW index \in 0..(segments(lo, hi) - 1)
  PROVE  LET a == boundary(lo, hi, index)
             b == boundary(lo, hi, index + 1)
         IN  /\ a \in Nat /\ b \in Nat /\ a < b
             /\ ARITY * (b - a - 1) <= hi - lo - 1
<1> DEFINE w == hi - lo
           n == segments(lo, hi)
           m == w * index
           p == m \div n
           q == (m + w) \div n
<1>1. /\ n \in Nat \ {0} /\ n <= w
      /\ w < ARITY => n = w
      /\ w >= ARITY => n = ARITY
  BY SegmentsOf
<1>2. w \in Nat /\ m \in Nat
  BY <1>1
<1>3. boundary(lo, hi, index) = lo + p
  BY DEF boundary
<1>4. w * (index + 1) = m + w
  BY <1>1, <1>2
<1>5. boundary(lo, hi, index + 1) = lo + q
  BY <1>4 DEF boundary
<1> HIDE DEF w, n, m
<1>6. p \in Nat /\ q \in Nat /\ q > p /\ n * (q - p - 1) <= w - 1
  BY <1>1, <1>2, SegmentLength
<1> HIDE DEF p, q
<1>7. ARITY * (q - p - 1) <= w - 1
  <2>1. CASE w >= ARITY
    BY <1>1, <1>6, <2>1
  <2>2. CASE w < ARITY
    <3>1. n = w
      BY <1>1, <2>2
    <3>2. w * (q - p - 1) <= w - 1 /\ w \in Nat \ {0}
      BY <1>1, <1>2, <1>6, <3>1
    <3>3. q - p - 1 = 0
      BY <1>6, <3>2
    <3>4. QED
      BY <1>6, <3>2, <3>3, GameAssumption
  <2>3. QED
    BY <1>2, <2>1, <2>2, GameAssumption
<1>8. QED
  BY <1>3, <1>5, <1>6, <1>7 DEF w

-----------------------------------------------------------------------------
(* A game that has been played by the rules up to time n.                  *)
GameOK(e, n) ==
  /\ e \in Dispute
  /\ e.lo < e.hi
  /\ e.last_move_at <= n
  /\ e.has_offer => Len(e.offered) = segments(e.lo, e.hi) - 1
  /\ e.stage = BISECTING => e.hi - e.lo > 1 /\ (e.has_offer <=> e.turn = CHALLENGER)
  /\ e.stage = ONE_STEP => e.hi - e.lo = 1 /\ e.turn = CHALLENGER

(* What the roles that are played honestly keep true.  An honest challenger*)
(* always disputes a forged end from an agreed honest start; an honest     *)
(* defender has only honest commitments on the table.                      *)
Line(e, honestly) ==
  /\ CHALLENGER \in honestly =>
       e.lo_commitment = HONEST /\ e.hi_commitment = FORGED
  /\ DEFENDER \in honestly =>
       /\ e.lo_commitment = HONEST /\ e.hi_commitment = HONEST
       /\ \A i \in 1..Len(e.offered) : e.offered[i] = HONEST

(* A deadline is never before the move that sets it.                       *)
LEMMA AllowanceTyped ==
  ASSUME NEW c \in Nat
  PROVE  lesser(MOVE_TIMEOUT, c) \in Nat
BY GameAssumption DEF lesser

(* The game that `open` creates.                                           *)
Opened(e, trace_length, claim, window, n) ==
  /\ e.lo = 0 /\ e.hi = trace_length
  /\ e.lo_commitment = HONEST /\ e.hi_commitment = claim
  /\ e.offered = <<>> /\ e.has_offer = FALSE
  /\ trace_length = 1 => e.stage = ONE_STEP /\ e.turn = CHALLENGER
  /\ trace_length # 1 => e.stage = BISECTING /\ e.turn = DEFENDER
  /\ e.defender_clock = clock_budget(window)
  /\ e.challenger_clock = clock_budget(window)
  /\ e.deadline = n + lesser(MOVE_TIMEOUT, clock_budget(window))
  /\ e.last_move_at = n /\ e.winner = NOBODY

(* `open` starts a game that has been played by the rules, over a claim an *)
(* honest party can stand by.                                              *)
LEMMA OpenKeeps ==
  ASSUME NEW trace_length \in Nat \ {0}, NEW claim \in Commitment,
         NEW window \in Nat, NEW n \in Nat, NEW honestly,
         CHALLENGER \in honestly => claim = FORGED,
         DEFENDER \in honestly => claim = HONEST
  PROVE  LET e == new_dispute(trace_length, claim, window, n)
         IN  /\ Opened(e, trace_length, claim, window, n)
             /\ GameOK(e, n) /\ Line(e, honestly)
<1> DEFINE bg == clock_budget(window)
           dl == n + lesser(MOVE_TIMEOUT, bg)
           st == IF trace_length = 1 THEN ONE_STEP ELSE BISECTING
           tn == IF trace_length = 1 THEN CHALLENGER ELSE DEFENDER
           none == <<>>
           e == new_dispute(trace_length, claim, window, n)
<1>1. bg \in Nat
  BY GameAssumption DEF clock_budget
<1>2. e = [lo |-> 0, hi |-> trace_length,
           lo_commitment |-> HONEST, hi_commitment |-> claim,
           offered |-> none, has_offer |-> FALSE,
           stage |-> st, turn |-> tn, deadline |-> dl,
           defender_clock |-> bg, challenger_clock |-> bg,
           last_move_at |-> n, winner |-> NOBODY]
  BY Zenon DEF new_dispute
<1>3. /\ dl \in Nat /\ st \in Stage /\ tn \in Role
      /\ none \in Seq(Commitment) /\ Len(none) = 0
  BY <1>1, AllowanceTyped DEF Stage, Role
<1>4. HONEST \in Commitment /\ NOBODY \in Role \cup {NOBODY}
  BY DEF Commitment
<1>5. /\ trace_length = 1 => st = ONE_STEP /\ tn = CHALLENGER
      /\ trace_length # 1 => st = BISECTING /\ tn = DEFENDER
  OBVIOUS
<1>6. e \in Dispute
  <2> HIDE DEF bg, dl, st, tn, none, e
  <2>1. QED
    BY <1>1, <1>2, <1>3, <1>4 DEF Dispute
<1>7. Opened(e, trace_length, claim, window, n)
  <2> HIDE DEF bg, dl, st, tn, e
  <2>1. e.deadline = dl /\ e.defender_clock = bg /\ e.challenger_clock = bg
    BY <1>2
  <2>2. QED
    BY <1>2, <1>5, <2>1 DEF Opened, bg, dl
<1> HIDE DEF bg, dl, st, tn, none, e
<1>8. GameOK(e, n)
  BY <1>6, <1>7 DEF GameOK, Opened, BISECTING, ONE_STEP, DEFENDER, CHALLENGER
<1>9. Line(e, honestly)
  BY <1>2, <1>3, <1>7 DEF Line, Opened
<1>10. QED
  BY <1>7, <1>8, <1>9 DEF e

(* A dissection keeps to the rules and to the honest line.                 *)
LEMMA DissectKeeps ==
  ASSUME NEW e, NEW n \in Nat, GameOK(e, n), NEW honestly, Line(e, honestly),
         NEW off \in [1..(segments(e.lo, e.hi) - 1) -> Commitment],
         can_dissect(e, off, n),
         DEFENDER \in honestly => \A i \in 1..Len(off) : off[i] = HONEST
  PROVE  LET f == dissect(e, off, n)
         IN  Dissected(e, f, off, n) /\ GameOK(f, n) /\ Line(f, honestly)
<1> DEFINE f == dissect(e, off, n)
<1>1. /\ e \in Dispute /\ e.last_move_at <= n /\ e.lo \in Nat /\ e.hi \in Nat
      /\ e.lo < e.hi /\ e.stage = BISECTING /\ e.hi - e.lo > 1
  BY DEF GameOK, Dispute, can_dissect
<1>2. segments(e.lo, e.hi) - 1 \in Nat
  <2>1. segments(e.lo, e.hi) \in 1..(e.hi - e.lo)
    BY <1>1, SegmentsOf, Zenon
  <2>2. QED
    BY <1>1, <2>1
<1>3. off \in Seq(Commitment) /\ Len(off) = segments(e.lo, e.hi) - 1
  BY <1>2
<1>4. Dissected(e, f, off, n)
  BY <1>1, <1>3, DissectFields
<1> HIDE DEF f
<1>5. GameOK(f, n)
  BY <1>1, <1>3, <1>4 DEF GameOK, Dissected, BISECTING, ONE_STEP
<1>6. Line(f, honestly)
  BY <1>4 DEF Line, Dissected
<1>7. QED
  BY <1>4, <1>5, <1>6 DEF f

(* watcher::play: the first segment whose end is not what it computed; the *)
(* last one when it agrees with everything offered.                        *)
FirstDisputed(e, index) ==
  /\ \A i \in 1..index : commitment_at(e, i) = HONEST
  /\ \/ commitment_at(e, index + 1) # HONEST
     \/ index = segments(e.lo, e.hi) - 1

(* The commitments at the ends of a segment: typed, and honest where an    *)
(* honest party makes them so.                                             *)
LEMMA SegmentCommitments ==
  ASSUME NEW e, NEW n, GameOK(e, n), e.has_offer,
         NEW honestly, Line(e, honestly),
         NEW index \in 0..(segments(e.lo, e.hi) - 1)
  PROVE  /\ commitment_at(e, index) \in Commitment
         /\ commitment_at(e, index + 1) \in Commitment
         /\ DEFENDER \in honestly => commitment_at(e, index) = HONEST
                                     /\ commitment_at(e, index + 1) = HONEST
         /\ CHALLENGER \in honestly /\ FirstDisputed(e, index)
              => commitment_at(e, index) = HONEST
                 /\ commitment_at(e, index + 1) = FORGED
<1> DEFINE m == segments(e.lo, e.hi)
<1>1. /\ e \in Dispute /\ m \in Nat \ {0}
      /\ Len(e.offered) = m - 1
  <2>1. /\ e \in Dispute /\ e.lo \in Nat /\ e.hi \in Nat /\ e.lo < e.hi
    BY DEF GameOK, Dispute
  <2>2. m \in 1..(e.hi - e.lo)
    BY <2>1, SegmentsOf, Zenon
  <2>3. QED
    BY <2>1, <2>2 DEF GameOK
<1>2. /\ e.lo_commitment \in Commitment /\ e.hi_commitment \in Commitment
      /\ e.offered \in Seq(Commitment)
  BY <1>1 DEF Dispute
<1>3. \A i \in 1..(m - 1) : e.offered[i] \in Commitment
  BY <1>1, <1>2
<1>4. ASSUME NEW i \in 0..m
      PROVE  /\ commitment_at(e, i) \in Commitment
             /\ DEFENDER \in honestly => commitment_at(e, i) = HONEST
  <2>1. CASE i = 0
    BY <2>1, <1>2 DEF commitment_at, Line
  <2>2. CASE i # 0 /\ i = m
    BY <2>2, <1>2 DEF commitment_at, Line
  <2>3. CASE i # 0 /\ i # m
    <3>1. i \in 1..(m - 1) /\ i \in 1..Len(e.offered)
      BY <2>3, <1>1
    <3>2. commitment_at(e, i) = e.offered[i]
      BY <2>3 DEF commitment_at
    <3>3. QED
      BY <3>1, <3>2, <1>3 DEF Line
  <2>4. QED
    BY <2>1, <2>2, <2>3
<1>5. index \in 0..m /\ index + 1 \in 0..m
  BY <1>1
<1>6. ASSUME CHALLENGER \in honestly, FirstDisputed(e, index)
      PROVE  commitment_at(e, index) = HONEST /\ commitment_at(e, index + 1) = FORGED
  <2>1. e.lo_commitment = HONEST /\ e.hi_commitment = FORGED
    BY <1>6 DEF Line
  <2>2. commitment_at(e, index) = HONEST
    <3>1. CASE index = 0
      BY <3>1, <2>1 DEF commitment_at
    <3>2. CASE index # 0
      <4>1. index \in 1..index
        BY <3>2, <1>1
      <4>2. QED
        BY <4>1, <1>6 DEF FirstDisputed
    <3>3. QED
      BY <3>1, <3>2
  <2>3. CASE commitment_at(e, index + 1) # HONEST
    BY <2>2, <2>3, <1>4, <1>5 DEF Commitment
  <2>4. CASE index = m - 1
    <3>1. index + 1 # 0 /\ index + 1 = m
      BY <2>4, <1>1
    <3>2. QED
      BY <3>1, <2>1, <2>2 DEF commitment_at
  <2>5. QED
    BY <2>3, <2>4, <1>6 DEF FirstDisputed
<1>7. QED
  BY <1>4, <1>5, <1>6

(* A selection keeps to the rules and to the honest line, and divides what *)
(* is left of the interval by the arity.                                   *)
LEMMA SelectKeeps ==
  ASSUME NEW e, NEW n \in Nat, GameOK(e, n), NEW honestly, Line(e, honestly),
         NEW index \in 0..(segments(e.lo, e.hi) - 1), can_select(e, index, n),
         CHALLENGER \in honestly => FirstDisputed(e, index)
  PROVE  LET f == select(e, index, n)
         IN  /\ Selected(e, f, index, n) /\ GameOK(f, n) /\ Line(f, honestly)
             /\ ARITY * (f.hi - f.lo - 1) <= e.hi - e.lo - 1
<1> DEFINE f == select(e, index, n)
           a == boundary(e.lo, e.hi, index)
           b == boundary(e.lo, e.hi, index + 1)
           ca == commitment_at(e, index)
           cb == commitment_at(e, index + 1)
<1>1. /\ e \in Dispute /\ e.last_move_at <= n /\ e.lo \in Nat /\ e.hi \in Nat
      /\ e.lo < e.hi /\ e.has_offer /\ index \in Nat
  BY DEF GameOK, Dispute, can_select
<1>2. a \in Nat /\ b \in Nat /\ a < b /\ ARITY * (b - a - 1) <= e.hi - e.lo - 1
  BY <1>1, BoundariesOf, Zenon
<1>3. /\ ca \in Commitment /\ cb \in Commitment
      /\ DEFENDER \in honestly => ca = HONEST /\ cb = HONEST
      /\ CHALLENGER \in honestly => ca = HONEST /\ cb = FORGED
  BY <1>1, SegmentCommitments
<1>4. Selected(e, f, index, n)
  BY <1>1, <1>2, <1>3, SelectFields
<1> HIDE DEF f, a, b, ca, cb
<1>5. /\ f \in Dispute /\ f.lo = a /\ f.hi = b
      /\ f.lo_commitment = ca /\ f.hi_commitment = cb
  BY <1>4 DEF Selected, a, b, ca, cb
<1>6. GameOK(f, n)
  BY <1>2, <1>4, <1>5
     DEF GameOK, Selected, BISECTING, ONE_STEP, DEFENDER, CHALLENGER
<1>7. Line(f, honestly)
  <2>1. f.offered = <<>> /\ Len(<<>>) = 0
    BY <1>4 DEF Selected
  <2>2. QED
    BY <1>3, <1>5, <2>1 DEF Line
<1>8. QED
  BY <1>2, <1>4, <1>5, <1>6, <1>7 DEF f

(* A game that is resolved keeps its interval and its commitments.         *)
Settles(e, f, w) ==
  /\ f \in Dispute /\ SameInterval(e, f)
  /\ f.stage = RESOLVED /\ f.winner = w
  /\ f.last_move_at = e.last_move_at

(* ... so it has still been played by the rules and on the honest line.    *)
LEMMA SettledKeeps ==
  ASSUME NEW e, NEW f, NEW w, NEW n, NEW honestly,
         GameOK(e, n), Line(e, honestly), Settles(e, f, w)
  PROVE  GameOK(f, n) /\ Line(f, honestly)
BY DEF GameOK, Line, Settles, SameInterval, BISECTING, ONE_STEP, RESOLVED

(* The one-step proof settles the game for the winner of the adjudication. *)
LEMMA OneStepSettles ==
  ASSUME NEW e \in Dispute, NEW n \in Nat, e.last_move_at <= n,
         can_one_step(e, n), NEW w \in Role
  PROVE  Settles(e, one_step(e, w, n), w)
<1> DEFINE e1 == begin_move(e, CHALLENGER, n)
           e2 == resolve(e1, w)
<1>1. e1 \in Dispute /\ SameInterval(e, e1) /\ e1.last_move_at = e.last_move_at
  BY BeginMoveFields DEF Role, can_one_step
<1>2. one_step(e, w, n) = e2
  BY DEF one_step
<1> HIDE DEF e1
<1>3. /\ e2 \in Dispute /\ SameInterval(e1, e2) /\ SameClocks(e1, e2)
      /\ e2.stage = RESOLVED /\ e2.winner = w
  BY <1>1, ResolveFields
<1> HIDE DEF e2
<1>4. QED
  BY <1>1, <1>2, <1>3 DEF Settles, SameInterval, SameClocks

(* A structural proof and a timeout settle the game.                       *)
LEMMA ResolveSettles ==
  ASSUME NEW e \in Dispute, NEW w \in Role
  PROVE  Settles(e, resolve(e, w), w)
<1> DEFINE f == resolve(e, w)
<1>1. /\ f \in Dispute /\ SameInterval(e, f) /\ SameClocks(e, f)
      /\ f.stage = RESOLVED /\ f.winner = w
  BY ResolveFields
<1> HIDE DEF f
<1>2. QED
  BY <1>1 DEF Settles, SameClocks, f

(* The one-step proof is decided for an honest party: the disputed claim   *)
(* is forged after an honest start, or both are honest.                    *)
LEMMA AdjudicationIsJust ==
  ASSUME NEW e, NEW honestly, Line(e, honestly), honestly # {},
         honestly \subseteq Role, NEW w \in adjudications(e)
  PROVE  w \in honestly /\ honestly = {w}
<1>1. CASE CHALLENGER \in honestly
  BY <1>1 DEF Line, adjudications, HONEST, FORGED, Role
<1>2. CASE DEFENDER \in honestly
  BY <1>2 DEF Line, adjudications, HONEST, FORGED, Role
<1>3. QED
  BY <1>1, <1>2 DEF Role
=============================================================================
