------------------------ MODULE VerifierGameProofs --------------------------
(***************************************************************************)
(* The game of the fraud-proof crate and the game of the L1 contract,      *)
(* given the same moves, stand at the same place and end with the same     *)
(* winner: for every arity, timeout, divisor and window, every program and *)
(* claim, and every choice of moves.                                       *)
(***************************************************************************)
EXTENDS VerifierGame, WellFoundedInduction, NaturalsInduction, TLAPS

Sides == {"defender", "challenger"}

(* Records with exactly the fields of a Dispute here, of one on L1 and of  *)
(* the pair that is played.                                                *)
Shaped(d, fields) == d = [f \in fields |-> d[f]]

RustFields ==
  {"lo", "hi", "lo_commitment", "hi_commitment", "stage", "offered", "winner", "reason",
   "turn", "deadline", "clock_budget", "clocks", "last_move_at"}

L1Fields ==
  {"lo", "hi", "lo_commitment", "hi_commitment", "offered", "has_offer", "stage", "turn",
   "deadline", "defender_clock", "challenger_clock", "last_move_at", "winner"}

PairFields == {"rust", "l1", "role", "player", "program", "claim", "own", "refused"}

(* A list of n commitments.                                                *)
Listed(s, n) == s = [i \in 1..n |-> s[i]]

(* The two games stand at the same place: an interval of at least one      *)
(* step, the same ends, the same offer and the same turn.                  *)
SameBoard(d, m) ==
  /\ Shaped(d, RustFields) /\ Shaped(m, L1Fields)
  /\ d.stage \in {"bisecting", "one_step"} /\ m.stage = d.stage
  /\ d.lo \in Nat /\ d.hi \in Nat /\ d.lo < d.hi /\ m.lo = d.lo /\ m.hi = d.hi
  /\ m.lo_commitment = d.lo_commitment /\ m.hi_commitment = d.hi_commitment
  /\ d.turn \in Sides /\ m.turn = d.turn
  /\ d.stage = "one_step" => d.turn = "challenger"
  /\ \/ m.has_offer = FALSE /\ d.offered = None
     \/ /\ m.has_offer = TRUE /\ d.offered = <<m.offered>>
        /\ Listed(m.offered, dissection_len(d))

(* Their clocks: nobody has more time left here, and who was not refused   *)
(* has as much.  The deadline on L1 comes from the clock that is left.     *)
SameTime(d, m, refused, t) ==
  /\ d.last_move_at \in Nat /\ m.last_move_at = d.last_move_at /\ d.last_move_at <= t
  /\ d.clock_budget \in Nat
  /\ DOMAIN d.clocks = Sides /\ d.clocks = [party \in Sides |-> d.clocks[party]]
  /\ \A party \in Sides :
       /\ d.clocks[party] \in Nat /\ Move!clock(m, party) \in Nat
       /\ d.clocks[party] <= Move!clock(m, party)
       /\ Move!clock(m, party) <= d.clock_budget
       /\ party \notin refused => d.clocks[party] = Move!clock(m, party)
  /\ d.deadline = d.last_move_at + at_most(MOVE_TIMEOUT, d.clock_budget)
  /\ m.deadline \in Nat /\ m.deadline <= d.deadline
  /\ d.stage = "bisecting" =>
       m.deadline = d.last_move_at + at_most(MOVE_TIMEOUT, Move!clock(m, d.turn))

Running(d, m, refused, t) == SameBoard(d, m) /\ SameTime(d, m, refused, t)

(* The end of the game here, against the game on L1.                       *)
SameEnd(d, m, refused, t) ==
  \/ m.winner = d.winner
  \/ Move!can_claim_timeout(m, t) /\ d.winner = opposite(m.turn)
  \/ d.reason = "one_step" /\ Move!can_claim_timeout(m, t)
  \/ d.reason = "clock" /\ opposite(d.winner) \in refused

Fit(d, m, refused, t) ==
  /\ ~over(d) => Running(d, m, refused, t)
  /\ over(d) => SameEnd(d, m, refused, t)

(* GamesAgree is not inductive: that a move in time here is in time on L1  *)
(* takes the exact deadlines, and the new ends take the length of the      *)
(* offer.  SameWinner takes who was refused.                               *)
VInv ==
  /\ now \in Nat
  /\ \/ games = None
     \/ games = <<g>> /\ Shaped(g, PairFields) /\ Fit(g.rust, g.l1, g.refused, now)

-----------------------------------------------------------------------------
(* The integer lemmas: the parts of an interval.                           *)
LEMMA SameSegments ==
  ASSUME NEW lo \in Nat, NEW hi \in Nat, lo < hi
  PROVE  /\ Move!segments(lo, hi) = segment_count(lo, hi)
         /\ segment_count(lo, hi) \in 1..(hi - lo)
BY VerifierAssumption DEF Move!segments, Move!lesser, segment_count, at_most

(* Successive boundaries are distinct naturals, the same in both games.    *)
LEMMA SameBoundaries ==
  ASSUME NEW lo \in Nat, NEW hi \in Nat, lo < hi,
         NEW i \in Nat, i < segment_count(lo, hi)
  PROVE  /\ boundaries(lo, hi)[i] = Move!boundary(lo, hi, i)
         /\ boundaries(lo, hi)[i + 1] = Move!boundary(lo, hi, i + 1)
         /\ boundaries(lo, hi)[i] \in Nat /\ boundaries(lo, hi)[i + 1] \in Nat
         /\ boundaries(lo, hi)[i] < boundaries(lo, hi)[i + 1]
<1> DEFINE n == segment_count(lo, hi)
           w == hi - lo
<1>1. n \in 1..w /\ n = Move!segments(lo, hi) /\ w \in Nat
  BY SameSegments
<1>2. /\ boundaries(lo, hi)[i] = lo + (w * i) \div n
      /\ boundaries(lo, hi)[i + 1] = lo + (w * (i + 1)) \div n
      /\ Move!boundary(lo, hi, i) = lo + (w * i) \div n
      /\ Move!boundary(lo, hi, i + 1) = lo + (w * (i + 1)) \div n
  BY <1>1 DEF boundaries, Move!boundary
<1>3. ASSUME NEW a \in Nat, NEW k \in Nat \ {0}
      PROVE  /\ a \div k \in Nat /\ k * (a \div k) <= a /\ a < k * (a \div k) + k
  BY Z3
<1> HIDE DEF n, w
<1> DEFINE p == (w * i) \div n
           q == (w * (i + 1)) \div n
<1>4. /\ w * i \in Nat /\ w * (i + 1) \in Nat /\ w * (i + 1) = w * i + w
      /\ n \in Nat \ {0} /\ n <= w
  BY <1>1, Z3
<1>5. p \in Nat /\ n * p <= w * i
  BY <1>3, <1>4
<1>6. q \in Nat /\ w * i + w < n * q + n
  <2>1. q \in Nat /\ w * (i + 1) < n * q + n
    BY <1>3, <1>4
  <2> QED
    BY <1>4, <2>1
<1> HIDE DEF p, q
<1>7. n * p + n < n * q + n
  BY <1>1, <1>4, <1>5, <1>6
<1>8. p < q
  BY <1>4, <1>5, <1>6, <1>7, Z3
<1> QED
  BY <1>2, <1>5, <1>6, <1>8 DEF p, q

(* The ends of the segments are the same: here in one list, on L1 by case. *)
LEMMA SameEnds ==
  ASSUME NEW d, NEW m, SameBoard(d, m), m.has_offer = TRUE,
         NEW i \in 0..segment_count(d.lo, d.hi)
  PROVE  ends(d)[i + 1] = Move!commitment_at(m, i)
<1> DEFINE n == segment_count(d.lo, d.hi)
           s == m.offered
           a == d.lo_commitment
           b == d.hi_commitment
           V == {s[j] : j \in 1..(n - 1)} \cup {a, b}
<1>1. n \in Nat \ {0} /\ Move!segments(m.lo, m.hi) = n
  BY SameSegments DEF SameBoard
<1>2. /\ ends(d) = <<a>> \o s \o <<b>>
      /\ s = [j \in 1..(n - 1) |-> s[j]]
      /\ m.lo_commitment = a /\ m.hi_commitment = b
  <2>1. d.offered = <<s>> /\ Listed(s, n - 1) /\ m.lo_commitment = a /\ m.hi_commitment = b
    BY DEF SameBoard, dissection_len
  <2>2. ends(d) = <<a>> \o <<s>>[1] \o <<b>>
    BY <2>1 DEF ends
  <2> QED
    BY <2>1, <2>2 DEF Listed
<1>3. Move!commitment_at(m, i) = IF i = 0 THEN a ELSE IF i = n THEN b ELSE s[i]
  BY <1>1, <1>2 DEF Move!commitment_at
<1> HIDE DEF n, s, a, b
<1>4. s \in Seq(V) /\ Len(s) = n - 1 /\ a \in V /\ b \in V
  <2>1. n - 1 \in Nat /\ \A j \in 1..(n - 1) : s[j] \in V
    BY <1>1
  <2>2. a \in V /\ b \in V
    OBVIOUS
  <2> HIDE DEF V
  <2>3. s \in [1..(n - 1) -> V]
    BY <1>2, <2>1
  <2> QED
    BY <2>1, <2>2, <2>3
<1> HIDE DEF V
<1>5. <<a>> \o s \in Seq(V) /\ Len(<<a>> \o s) = n
      /\ \A j \in 1..n : (<<a>> \o s)[j] = IF j = 1 THEN a ELSE s[j - 1]
  BY <1>1, <1>4
<1>6. (<<a>> \o s \o <<b>>)[i + 1] = IF i + 1 = n + 1 THEN b ELSE (<<a>> \o s)[i + 1]
  BY <1>1, <1>4, <1>5 DEF n
<1>7. i \in 0..n
  BY DEF n
<1>8. CASE i = n
  BY <1>1, <1>2, <1>3, <1>6, <1>8
<1>9. CASE i # n
  <2>1. i + 1 \in 1..n /\ i + 1 # n + 1 /\ (i + 1) - 1 = i
    BY <1>1, <1>7, <1>9
  <2>2. (<<a>> \o s)[i + 1] = IF i = 0 THEN a ELSE s[i]
    BY <1>5, <1>7, <2>1
  <2>3. ends(d)[i + 1] = (<<a>> \o s)[i + 1]
    BY <1>2, <1>6, <2>1
  <2> QED
    BY <1>3, <1>9, <2>2, <2>3
<1> QED
  BY <1>8, <1>9
-----------------------------------------------------------------------------
(* A move that both games accept has been in time in both: the deadline    *)
(* here is no tighter, and the clock here no fuller.                       *)
LEMMA InTimeHereInTimeThere ==
  ASSUME NEW d, NEW m, NEW refused, NEW party \in Sides, now \in Nat,
         Running(d, m, refused, now), may_move(d, party), d.stage = "bisecting"
  PROVE  Move!can_move(m, party, now)
<1>1. /\ now \in Nat /\ d.last_move_at \in Nat /\ m.last_move_at = d.last_move_at
      /\ d.clocks[party] \in Nat /\ Move!clock(m, party) \in Nat
      /\ d.clocks[party] <= Move!clock(m, party) /\ d.clock_budget \in Nat
      /\ d.deadline = d.last_move_at + at_most(MOVE_TIMEOUT, d.clock_budget)
      /\ m.deadline = d.last_move_at + at_most(MOVE_TIMEOUT, Move!clock(m, party))
      /\ m.stage = "bisecting" /\ m.turn = party
  BY DEF Running, SameTime, SameBoard, may_move
<1>2. now <= d.deadline /\ now - d.last_move_at <= d.clocks[party]
  BY <1>1, VerifierAssumption DEF may_move, late, exhausted, elapsed, at_most
<1> QED
  BY <1>1, <1>2, VerifierAssumption DEF Move!can_move, Move!RESOLVED, at_most

(* A move that is not accepted here leaves the game as it was, charged, or *)
(* ended.                                                                  *)
LEMMA ChargeCases ==
  ASSUME NEW d, NEW m, NEW refused, NEW party \in Sides, now \in Nat,
         Running(d, m, refused, now)
  PROVE  /\ ~over(d) /\ elapsed(d) \in Nat
         /\ \/ d.turn # party /\ charged(d, party) = d
            \/ /\ d.turn = party /\ late(d)
               /\ charged(d, party) = ended(d, opposite(party), "timeout")
            \/ /\ d.turn = party /\ ~late(d) /\ exhausted(d, party)
               /\ charged(d, party) = ended(d, opposite(party), "clock")
            \/ /\ may_move(d, party)
               /\ charged(d, party) = [d EXCEPT !.clocks[party] = @ - elapsed(d)]
BY DEF Running, SameTime, SameBoard, over, elapsed, charged, may_move

(* The game e is d with the party's clock charged.                         *)
Paid(d, e, party) ==
  /\ Shaped(e, RustFields)
  /\ \A f \in RustFields \ {"clocks"} : e[f] = d[f]
  /\ DOMAIN e.clocks = Sides
  /\ e.clocks = [side \in Sides |-> e.clocks[side]]
  /\ e.clocks[party] = d.clocks[party] - elapsed(d)
  /\ e.clocks[party] \in Nat
  /\ \A side \in Sides : side # party => e.clocks[side] = d.clocks[side]

(* A move in time is charged to its party, and changes nothing else yet.   *)
LEMMA ChargedFields ==
  ASSUME NEW d, NEW m, NEW refused, NEW party \in Sides, now \in Nat,
         Running(d, m, refused, now), may_move(d, party),
         NEW e, e = charged(d, party)
  PROVE  Paid(d, e, party)
<1>1. e = [d EXCEPT !.clocks = [d.clocks EXCEPT ![party] = d.clocks[party] - elapsed(d)]]
  <2>1. /\ ~over(d) /\ ~(elapsed(d) < 0) /\ d.turn = party /\ ~late(d) /\ ~exhausted(d, party)
    <3>1. elapsed(d) \in Nat
      BY ChargeCases, Zenon
    <3> QED
      BY <3>1 DEF may_move
  <2> QED
    BY <2>1 DEF charged
<1>2. Shaped(d, RustFields) /\ DOMAIN d.clocks = Sides /\ d.clocks[party] \in Nat
      /\ d.clocks = [side \in Sides |-> d.clocks[side]]
  BY DEF Running, SameBoard, SameTime
<1>3. elapsed(d) \in Nat /\ elapsed(d) <= d.clocks[party]
  <2>1. elapsed(d) \in Nat
    BY ChargeCases, Zenon
  <2>2. ~(elapsed(d) > d.clocks[party])
    BY DEF may_move, exhausted
  <2> QED
    BY <1>2, <2>1, <2>2
<1> DEFINE c == [d.clocks EXCEPT ![party] = d.clocks[party] - elapsed(d)]
<1>4. /\ DOMAIN c = Sides /\ c = [side \in Sides |-> c[side]]
      /\ c[party] = d.clocks[party] - elapsed(d)
      /\ \A side \in Sides : side # party => c[side] = d.clocks[side]
  BY <1>2
<1>5. e = [d EXCEPT !.clocks = c]
  BY <1>1
<1> HIDE DEF c
<1>6. /\ Shaped(e, RustFields) /\ e.clocks = c
      /\ \A f \in RustFields \ {"clocks"} : e[f] = d[f]
  BY <1>2, <1>5 DEF Shaped, RustFields
<1>7. c[party] \in Nat
  BY <1>2, <1>3, <1>4
<1> QED
  BY <1>4, <1>6, <1>7, Zenon DEF Paid

(* A refused move: L1 stays as it was.  The game here goes on with less    *)
(* time for a party that is now among the refused, or ends for the         *)
(* opponent, who can claim on L1 or whose adversary was refused before.    *)
LEMMA RefusedKeeps ==
  ASSUME NEW d, NEW m, NEW refused, NEW party \in Sides, now \in Nat,
         Running(d, m, refused, now),
         NEW e, e = charged(d, party),
         NEW r, r = refused \cup charged_in_vain(d, e)
  PROVE  /\ ~over(e) => Running(e, m, r, now)
         /\ over(e) => SameEnd(e, m, r, now)
<1>1. ~over(d) /\ elapsed(d) \in Nat
  BY ChargeCases, Zenon
<1>2. CASE d.turn # party /\ e = d
  <2>1. r = refused
    BY <1>2 DEF charged_in_vain
  <2> QED
    BY <1>1, <1>2, <2>1
<1>3. CASE d.turn = party /\ late(d) /\ e = ended(d, opposite(party), "timeout")
  <2>1. e.winner = opposite(party) /\ over(e)
    BY <1>3 DEF ended, over, Running, SameBoard, Shaped, RustFields
  <2>2. Move!can_claim_timeout(m, now) /\ m.turn = party
    BY <1>3, VerifierAssumption
    DEF Running, SameBoard, SameTime, late, at_most, Move!can_claim_timeout, Move!RESOLVED
  <2> QED
    BY <2>1, <2>2 DEF SameEnd
<1>4. CASE /\ d.turn = party /\ ~late(d) /\ exhausted(d, party)
           /\ e = ended(d, opposite(party), "clock")
  <2>1. e.winner = opposite(party) /\ over(e) /\ e.reason = "clock"
    BY <1>4 DEF ended, over, Running, SameBoard, Shaped, RustFields
  <2>2. opposite(opposite(party)) = party
    BY DEF opposite, Sides
  <2>3. CASE party \in refused
    BY <2>1, <2>2, <2>3 DEF SameEnd
  <2>4. CASE party \notin refused
    <3>1. m.turn = party /\ Move!clock(m, party) = d.clocks[party]
      BY <1>4, <2>4 DEF Running, SameBoard, SameTime
    <3>2. m.stage # "resolved" /\ m.last_move_at = d.last_move_at
      BY DEF Running, SameBoard, SameTime
    <3>3. Move!can_claim_timeout(m, now)
      BY <1>4, <3>1, <3>2 DEF exhausted, elapsed, Move!can_claim_timeout, Move!RESOLVED
    <3> QED
      BY <2>1, <3>1, <3>3 DEF SameEnd
  <2> QED
    BY <2>3, <2>4
<1>5. CASE may_move(d, party)
  <2>1. Paid(d, e, party)
    BY <1>5, ChargedFields, Zenon
  <2>2. /\ e.lo = d.lo /\ e.hi = d.hi /\ e.lo_commitment = d.lo_commitment
        /\ e.hi_commitment = d.hi_commitment /\ e.stage = d.stage /\ e.offered = d.offered
        /\ e.turn = d.turn /\ e.deadline = d.deadline /\ e.clock_budget = d.clock_budget
        /\ e.last_move_at = d.last_move_at
    BY <2>1 DEF Paid, RustFields
  <2>3. SameBoard(e, m)
    BY <2>1, <2>2 DEF Paid, Running, SameBoard, dissection_len
  <2>4. \A side \in Sides :
          /\ e.clocks[side] \in Nat /\ e.clocks[side] <= d.clocks[side]
          /\ side \notin r => side \notin refused /\ e.clocks[side] = d.clocks[side]
    BY <1>1, <2>1, <2>2 DEF Paid, Running, SameTime, charged_in_vain, Sides
  <2>5. \A side \in Sides :
          /\ e.clocks[side] \in Nat /\ Move!clock(m, side) \in Nat
          /\ e.clocks[side] <= Move!clock(m, side)
          /\ Move!clock(m, side) <= e.clock_budget
          /\ side \notin r => e.clocks[side] = Move!clock(m, side)
    BY <2>2, <2>4 DEF Running, SameTime
  <2>6. SameTime(e, m, r, now)
    BY <2>1, <2>2, <2>5 DEF Paid, Running, SameTime
  <2>7. ~over(e)
    BY <1>1, <2>2 DEF over
  <2> QED
    BY <2>3, <2>6, <2>7 DEF Running
<1> QED
  BY <1>2, <1>3, <1>4, <1>5, ChargeCases, Zenon

(* A move that only L1 accepts ends the game here: its party ran out of a  *)
(* clock that refused moves have shortened.                                *)
LEMMA AcceptedThereOnly ==
  ASSUME NEW d, NEW m, NEW refused, NEW party \in Sides, now \in Nat,
         Running(d, m, refused, now), ~may_move(d, party),
         Move!can_move(m, party, now), NEW m2,
         NEW e, e = charged(d, party),
         NEW r, r = refused \cup charged_in_vain(d, e)
  PROVE  over(e) /\ SameEnd(e, m2, r, now)
<1>1. /\ m.turn = d.turn /\ m.last_move_at = d.last_move_at /\ m.deadline <= d.deadline
      /\ d.deadline \in Nat /\ m.deadline \in Nat /\ d.last_move_at \in Nat
      /\ d.clocks[party] \in Nat
      /\ party \notin refused => d.clocks[party] = Move!clock(m, party)
  BY VerifierAssumption DEF Running, SameBoard, SameTime, at_most
<1>2. d.turn = party /\ ~late(d)
  BY <1>1 DEF Move!can_move, late
<1>3. exhausted(d, party) /\ e = ended(d, opposite(party), "clock")
  BY <1>2, ChargeCases, Zenon
<1>4. party \in refused
  BY <1>1, <1>3 DEF exhausted, elapsed, Move!can_move
<1>5. e.winner = opposite(party) /\ over(e) /\ e.reason = "clock"
  BY <1>3 DEF ended, over, Running, SameBoard, Shaped, RustFields
<1>6. opposite(opposite(party)) = party
  BY DEF opposite, Sides
<1> QED
  BY <1>4, <1>5, <1>6 DEF SameEnd
-----------------------------------------------------------------------------
(* A move that both accept: the clocks lose the same, and the deadlines    *)
(* are set again, from the budget here and from the clock left on L1.      *)
LEMMA TurnKeepsTime ==
  ASSUME NEW d, NEW m, NEW refused, NEW r, NEW party \in Sides, now \in Nat,
         Running(d, m, refused, now), may_move(d, party), refused \subseteq r,
         NEW e, NEW n,
         e.last_move_at = now, n.last_move_at = now,
         e.clock_budget = d.clock_budget, e.clocks = charged(d, party).clocks,
         Move!clock(n, party) = Move!clock(m, party) - elapsed(d),
         Move!clock(n, opposite(party)) = Move!clock(m, opposite(party)),
         e.deadline = now + at_most(MOVE_TIMEOUT, d.clock_budget),
         n.deadline = now + Move!lesser(MOVE_TIMEOUT, Move!clock(n, opposite(party))),
         e.stage = "bisecting" => e.turn = opposite(party)
  PROVE  SameTime(e, n, r, now)
<1> DEFINE p == charged(d, party)
           other == opposite(party)
           k(x, side) == Move!clock(x, side)
<1>1. Paid(d, p, party)
  BY ChargedFields, Zenon
<1>2. elapsed(d) \in Nat
  BY ChargeCases, Zenon
<1>3. other \in Sides /\ other # party /\ \A side \in Sides : side \in {party, other}
  BY DEF opposite, Sides
<1>4. /\ d.clock_budget \in Nat
      /\ \A side \in Sides :
           /\ d.clocks[side] \in Nat /\ k(m, side) \in Nat /\ d.clocks[side] <= k(m, side)
           /\ k(m, side) <= d.clock_budget
           /\ side \notin refused => d.clocks[side] = k(m, side)
  BY DEF Running, SameTime
<1>5. /\ DOMAIN e.clocks = Sides /\ e.clocks = [side \in Sides |-> e.clocks[side]]
      /\ e.clocks[party] = d.clocks[party] - elapsed(d) /\ e.clocks[party] \in Nat
      /\ e.clocks[other] = d.clocks[other]
  BY <1>1, <1>3 DEF Paid
<1> HIDE DEF p, other, k
<1>6. k(n, party) = k(m, party) - elapsed(d) /\ k(n, other) = k(m, other)
  BY DEF k, other
<1>7. /\ e.clocks[party] \in Nat /\ k(n, party) \in Nat /\ e.clocks[party] <= k(n, party)
      /\ k(n, party) <= d.clock_budget
      /\ party \notin r => e.clocks[party] = k(n, party)
  BY <1>2, <1>4, <1>5, <1>6
<1>8. /\ e.clocks[other] \in Nat /\ k(n, other) \in Nat /\ e.clocks[other] <= k(n, other)
      /\ k(n, other) <= d.clock_budget
      /\ other \notin r => e.clocks[other] = k(n, other)
  BY <1>3, <1>4, <1>5, <1>6
<1>9. \A side \in Sides :
        /\ e.clocks[side] \in Nat /\ k(n, side) \in Nat /\ e.clocks[side] <= k(n, side)
        /\ k(n, side) <= e.clock_budget
        /\ side \notin r => e.clocks[side] = k(n, side)
  BY <1>3, <1>7, <1>8
<1>10. n.deadline = now + at_most(MOVE_TIMEOUT, k(n, other))
  BY <1>8, VerifierAssumption DEF k, other, Move!lesser, at_most
<1>11. n.deadline \in Nat /\ n.deadline <= e.deadline
  BY <1>4, <1>8, <1>10, VerifierAssumption DEF at_most
<1>12. e.stage = "bisecting" => n.deadline = now + at_most(MOVE_TIMEOUT, k(n, e.turn))
  BY <1>10 DEF other
<1>13. e.last_move_at \in Nat /\ e.clock_budget \in Nat /\ e.last_move_at <= now
  BY <1>4
<1> QED
  BY <1>5, <1>9, <1>11, <1>12, <1>13 DEF SameTime, k
(* The game e after a division c of d, and after the segment i of d.       *)
Offered(d, e, c) ==
  /\ Shaped(e, RustFields)
  /\ e.lo = d.lo /\ e.hi = d.hi /\ e.lo_commitment = d.lo_commitment
  /\ e.hi_commitment = d.hi_commitment /\ e.stage = d.stage /\ e.offered = <<c>>
  /\ e.turn = opposite(d.turn) /\ e.clock_budget = d.clock_budget
  /\ e.clocks = charged(d, "defender").clocks /\ e.last_move_at = now
  /\ e.deadline = now + at_most(MOVE_TIMEOUT, d.clock_budget)
  /\ e.winner = d.winner

Selected(d, e, i) ==
  /\ Shaped(e, RustFields)
  /\ e.lo = boundaries(d.lo, d.hi)[i] /\ e.hi = boundaries(d.lo, d.hi)[i + 1]
  /\ e.lo_commitment = ends(d)[i + 1] /\ e.hi_commitment = ends(d)[i + 2]
  /\ e.offered = None
  /\ e.stage = IF e.hi - e.lo = 1 THEN "one_step" ELSE "bisecting"
  /\ e.turn = IF e.hi - e.lo = 1 THEN "challenger" ELSE "defender"
  /\ e.clock_budget = d.clock_budget
  /\ e.clocks = charged(d, "challenger").clocks /\ e.last_move_at = now
  /\ e.deadline = now + at_most(MOVE_TIMEOUT, d.clock_budget)
  /\ e.winner = d.winner

(* What an accepted division does here.                                    *)
LEMMA DissectedHere ==
  ASSUME NEW d, NEW m, NEW refused, now \in Nat,
         Running(d, m, refused, now), may_move(d, "defender"), NEW c,
         NEW e, e = turn_passed([charged(d, "defender") EXCEPT !.offered = <<c>>])
  PROVE  Offered(d, e, c)
<1> DEFINE p == charged(d, "defender")
<1>1. "defender" \in Sides
  BY DEF Sides
<1>2. Paid(d, p, "defender")
  BY <1>1, ChargedFields, Zenon
<1> HIDE DEF p
<1>3. /\ Shaped(p, RustFields)
      /\ p.lo = d.lo /\ p.hi = d.hi /\ p.lo_commitment = d.lo_commitment
      /\ p.hi_commitment = d.hi_commitment /\ p.stage = d.stage /\ p.turn = d.turn
      /\ p.clock_budget = d.clock_budget /\ p.winner = d.winner
  BY <1>2 DEF Paid, RustFields
<1>4. e = [[p EXCEPT !.offered = <<c>>] EXCEPT
             !.turn = opposite(p.turn), !.last_move_at = now,
             !.deadline = now + at_most(MOVE_TIMEOUT, p.clock_budget)]
  BY <1>3 DEF p, turn_passed, Shaped, RustFields
<1>5. /\ Shaped(e, RustFields)
      /\ e.lo = d.lo /\ e.hi = d.hi /\ e.lo_commitment = d.lo_commitment
      /\ e.hi_commitment = d.hi_commitment /\ e.stage = d.stage /\ e.offered = <<c>>
      /\ e.turn = opposite(d.turn) /\ e.clock_budget = d.clock_budget
      /\ e.clocks = p.clocks /\ e.last_move_at = now /\ e.winner = d.winner
      /\ e.deadline = now + at_most(MOVE_TIMEOUT, d.clock_budget)
  <2> DEFINE q == [p EXCEPT !.offered = <<c>>]
  <2>1. /\ Shaped(q, RustFields) /\ q.lo = d.lo /\ q.hi = d.hi
        /\ q.lo_commitment = d.lo_commitment /\ q.hi_commitment = d.hi_commitment
        /\ q.stage = d.stage /\ q.offered = <<c>> /\ q.clock_budget = d.clock_budget
        /\ q.clocks = p.clocks /\ q.winner = d.winner
    BY <1>3 DEF Shaped, RustFields
  <2>2. e = [q EXCEPT !.turn = opposite(d.turn), !.last_move_at = now,
                      !.deadline = now + at_most(MOVE_TIMEOUT, d.clock_budget)]
    BY <1>3, <1>4, Zenon
  <2> HIDE DEF q
  <2> QED
    BY <2>1, <2>2 DEF Shaped, RustFields
<1> QED
  BY <1>5, Zenon DEF Offered, p

(* What an accepted selection does here.                                   *)
LEMMA SelectedHere ==
  ASSUME NEW d, NEW m, NEW refused, now \in Nat,
         Running(d, m, refused, now), may_move(d, "challenger"),
         d.stage = "bisecting", d.offered # None,
         NEW i \in Nat, i < segment_count(d.lo, d.hi),
         NEW e, e = select(d, i)
  PROVE  Selected(d, e, i)
<1> DEFINE p == charged(d, "challenger")
           lo == boundaries(d.lo, d.hi)[i]
           hi == boundaries(d.lo, d.hi)[i + 1]
           a == ends(d)[i + 1]
           b == ends(d)[i + 2]
<1>1. "challenger" \in Sides /\ d.turn = "challenger"
  BY DEF Sides, may_move
<1>2. Paid(d, p, "challenger")
  BY <1>1, ChargedFields, Zenon
<1>3. e = narrowed(turn_passed([p EXCEPT !.lo = lo, !.hi = hi, !.lo_commitment = a,
                                         !.hi_commitment = b, !.offered = None]))
  BY DEF select
<1> HIDE DEF p, lo, hi, a, b
<1>4. /\ Shaped(p, RustFields) /\ p.stage = "bisecting" /\ p.turn = "challenger"
      /\ p.clock_budget = d.clock_budget /\ p.winner = d.winner
  BY <1>1, <1>2 DEF Paid, RustFields
<1> DEFINE u == [[p EXCEPT !.lo = lo, !.hi = hi, !.lo_commitment = a,
                           !.hi_commitment = b, !.offered = None]
                 EXCEPT !.turn = "defender", !.last_move_at = now,
                        !.deadline = now + at_most(MOVE_TIMEOUT, d.clock_budget)]
<1>5. e = IF hi - lo = 1 THEN [u EXCEPT !.stage = "one_step", !.turn = "challenger"] ELSE u
  <2>1. u = turn_passed([p EXCEPT !.lo = lo, !.hi = hi, !.lo_commitment = a,
                                  !.hi_commitment = b, !.offered = None])
    BY <1>4 DEF turn_passed, opposite, Shaped, RustFields
  <2>2. e = narrowed(u)
    BY <1>3, <2>1, Zenon
  <2>3. u.hi = hi /\ u.lo = lo
    BY <1>4 DEF Shaped, RustFields
  <2> HIDE DEF u
  <2> QED
    BY <2>2, <2>3 DEF narrowed
<1>6. /\ Shaped(e, RustFields) /\ e.lo = lo /\ e.hi = hi
      /\ e.lo_commitment = a /\ e.hi_commitment = b /\ e.offered = None
      /\ e.stage = (IF hi - lo = 1 THEN "one_step" ELSE "bisecting")
      /\ e.turn = (IF hi - lo = 1 THEN "challenger" ELSE "defender")
      /\ e.clock_budget = d.clock_budget /\ e.clocks = p.clocks /\ e.last_move_at = now
      /\ e.deadline = now + at_most(MOVE_TIMEOUT, d.clock_budget) /\ e.winner = d.winner
  <2>1. /\ Shaped(u, RustFields) /\ u.lo = lo /\ u.hi = hi
        /\ u.lo_commitment = a /\ u.hi_commitment = b /\ u.offered = None
        /\ u.stage = "bisecting" /\ u.turn = "defender"
        /\ u.clock_budget = d.clock_budget /\ u.clocks = p.clocks /\ u.last_move_at = now
        /\ u.deadline = now + at_most(MOVE_TIMEOUT, d.clock_budget) /\ u.winner = d.winner
    BY <1>4 DEF Shaped, RustFields
  <2> HIDE DEF u
  <2>2. CASE hi - lo = 1
    <3>1. e = [u EXCEPT !.stage = "one_step", !.turn = "challenger"]
      BY <1>5, <2>2
    <3> QED
      BY <2>1, <2>2, <3>1 DEF Shaped, RustFields
  <2>3. CASE hi - lo # 1
    <3>1. e = u
      BY <1>5, <2>3
    <3> QED
      BY <2>1, <2>3, <3>1
  <2> QED
    BY <2>2, <2>3
<1> HIDE DEF u
<1> QED
  BY <1>6 DEF Selected, p, lo, hi, a, b

(* The offer of a division leaves the interval and its ends, and is the    *)
(* same offer in both games.                                               *)
LEMMA DissectBoth ==
  ASSUME NEW d, NEW m, NEW refused, NEW r, now \in Nat,
         Running(d, m, refused, now), may_move(d, "defender"), refused \subseteq r,
         d.stage = "bisecting", NEW c, Listed(c, dissection_len(d)),
         NEW e, e = turn_passed([charged(d, "defender") EXCEPT !.offered = <<c>>]),
         NEW n, n = Move!dissect(m, c, now)
  PROVE  Running(e, n, r, now)
<1> DEFINE p == charged(d, "defender")
<1>1. "defender" \in Sides /\ d.turn = "defender"
  BY DEF Sides, may_move
<1>2. Offered(d, e, c)
  BY DissectedHere, Zenon
<1> HIDE DEF p
<1>5. /\ Shaped(e, RustFields)
      /\ e.lo = d.lo /\ e.hi = d.hi /\ e.lo_commitment = d.lo_commitment
      /\ e.hi_commitment = d.hi_commitment /\ e.stage = d.stage /\ e.offered = <<c>>
      /\ e.turn = opposite(d.turn) /\ e.clock_budget = d.clock_budget
      /\ e.clocks = p.clocks /\ e.last_move_at = now
      /\ e.deadline = now + at_most(MOVE_TIMEOUT, d.clock_budget)
  BY <1>2, Zenon DEF Offered, p
<1>6. /\ Shaped(m, L1Fields) /\ m.turn = "defender" /\ m.last_move_at = d.last_move_at
  BY <1>1 DEF Running, SameBoard, SameTime
<1>7. n = [[[m EXCEPT !.defender_clock = m.defender_clock - (now - m.last_move_at)]
              EXCEPT !.offered = c, !.has_offer = TRUE]
              EXCEPT !.turn = "challenger", !.last_move_at = now,
                     !.deadline = now + Move!lesser(MOVE_TIMEOUT, m.challenger_clock)]
  BY <1>6 DEF Move!dissect, Move!begin_move, Move!pass_turn, Move!opponent, Move!clock,
              Move!DEFENDER, Move!CHALLENGER, Shaped, L1Fields
<1>8. /\ Shaped(n, L1Fields)
      /\ n.lo = m.lo /\ n.hi = m.hi /\ n.lo_commitment = m.lo_commitment
      /\ n.hi_commitment = m.hi_commitment /\ n.stage = m.stage
      /\ n.offered = c /\ n.has_offer = TRUE /\ n.turn = "challenger"
      /\ n.last_move_at = now
      /\ n.defender_clock = m.defender_clock - (now - m.last_move_at)
      /\ n.challenger_clock = m.challenger_clock
      /\ n.deadline = now + Move!lesser(MOVE_TIMEOUT, m.challenger_clock)
  BY <1>6, <1>7 DEF Shaped, L1Fields
<1>9. SameBoard(e, n)
  BY <1>1, <1>5, <1>8 DEF Running, SameBoard, opposite, dissection_len, Sides
<1>10. /\ Move!clock(n, "defender") = Move!clock(m, "defender") - elapsed(d)
       /\ Move!clock(n, opposite("defender")) = Move!clock(m, opposite("defender"))
       /\ n.deadline = now + Move!lesser(MOVE_TIMEOUT, Move!clock(n, opposite("defender")))
       /\ e.turn = opposite("defender")
  BY <1>1, <1>5, <1>6, <1>8 DEF Move!clock, Move!DEFENDER, opposite, elapsed
<1>11. /\ e.clocks = charged(d, "defender").clocks /\ e.last_move_at = now
       /\ e.clock_budget = d.clock_budget /\ n.last_move_at = now
       /\ e.deadline = now + at_most(MOVE_TIMEOUT, d.clock_budget)
  BY <1>5, <1>8 DEF p
<1>12. SameTime(e, n, r, now)
  BY <1>1, <1>10, <1>11, TurnKeepsTime, Zenon
<1> QED
  BY <1>9, <1>12 DEF Running
(* A segment of at least one step is left: the same in both games, between *)
(* the same commitments; and one step is left in both or in neither.       *)
LEMMA SelectBoth ==
  ASSUME NEW d, NEW m, NEW refused, NEW r, now \in Nat,
         Running(d, m, refused, now), may_move(d, "challenger"), refused \subseteq r,
         d.stage = "bisecting", d.offered # None,
         NEW i \in Nat, i < segment_count(d.lo, d.hi),
         NEW e, e = select(d, i),
         NEW n, n = Move!select(m, i, now)
  PROVE  Running(e, n, r, now)
<1> DEFINE p == charged(d, "challenger")
           lo == boundaries(d.lo, d.hi)[i]
           hi == boundaries(d.lo, d.hi)[i + 1]
           a == ends(d)[i + 1]
           b == ends(d)[i + 2]
           due == now + Move!lesser(MOVE_TIMEOUT, m.defender_clock)
           left == m.challenger_clock - (now - m.last_move_at)
<1>1. "challenger" \in Sides /\ d.turn = "challenger"
  BY DEF Sides, may_move
<1>2. Selected(d, e, i)
  BY SelectedHere, Zenon
<1>3. /\ lo = Move!boundary(m.lo, m.hi, i) /\ hi = Move!boundary(m.lo, m.hi, i + 1)
      /\ lo \in Nat /\ hi \in Nat /\ lo < hi
  <2>1. d.lo \in Nat /\ d.hi \in Nat /\ d.lo < d.hi /\ m.lo = d.lo /\ m.hi = d.hi
    BY DEF Running, SameBoard
  <2> QED
    BY <2>1, SameBoundaries
<1>4. a = Move!commitment_at(m, i) /\ b = Move!commitment_at(m, i + 1)
  <2>1. SameBoard(d, m) /\ m.has_offer = TRUE /\ d.lo \in Nat /\ d.hi \in Nat /\ d.lo < d.hi
    BY DEF Running, SameBoard
  <2>2. segment_count(d.lo, d.hi) \in Nat
    BY <2>1, SameSegments
  <2>3. i \in 0..segment_count(d.lo, d.hi) /\ i + 1 \in 0..segment_count(d.lo, d.hi)
        /\ i + 2 = (i + 1) + 1
    BY <2>2
  <2>4. ends(d)[(i + 1) + 1] = Move!commitment_at(m, i + 1)
    BY <2>1, <2>3, SameEnds
  <2> QED
    BY <2>1, <2>3, <2>4, SameEnds
<1>6. n = Move!enter_one_step_if_narrow(
            Move!pass_turn([Move!begin_move(m, "challenger", now) EXCEPT
              !.lo = lo, !.hi = hi, !.lo_commitment = a, !.hi_commitment = b,
              !.offered = <<>>, !.has_offer = FALSE], now))
  BY <1>3, <1>4 DEF Move!select, Move!CHALLENGER
<1> HIDE DEF p, lo, hi, a, b, due, left
<1> DEFINE v == [[[m EXCEPT !.challenger_clock = left]
                    EXCEPT !.lo = lo, !.hi = hi, !.lo_commitment = a, !.hi_commitment = b,
                           !.offered = <<>>, !.has_offer = FALSE]
                    EXCEPT !.turn = "defender", !.last_move_at = now, !.deadline = due]
<1>9. Shaped(m, L1Fields) /\ m.stage = "bisecting" /\ m.turn = "challenger"
      /\ m.last_move_at = d.last_move_at
  BY <1>1 DEF Running, SameBoard, SameTime
<1>10. n = IF hi - lo = 1 THEN [v EXCEPT !.stage = "one_step", !.turn = "challenger"] ELSE v
  <2>1. v = Move!pass_turn([Move!begin_move(m, "challenger", now) EXCEPT
              !.lo = lo, !.hi = hi, !.lo_commitment = a, !.hi_commitment = b,
              !.offered = <<>>, !.has_offer = FALSE], now)
    BY <1>9 DEF Move!pass_turn, Move!begin_move, Move!opponent, Move!clock, Move!DEFENDER,
                Move!CHALLENGER, Shaped, L1Fields, due, left
  <2>2. n = Move!enter_one_step_if_narrow(v)
    BY <1>6, <2>1, Zenon
  <2>3. v.hi = hi /\ v.lo = lo
    BY <1>9 DEF Shaped, L1Fields
  <2> HIDE DEF v
  <2> QED
    BY <2>2, <2>3 DEF Move!enter_one_step_if_narrow, Move!ONE_STEP, Move!CHALLENGER
<1>11. /\ Shaped(e, RustFields) /\ e.lo = lo /\ e.hi = hi
       /\ e.lo_commitment = a /\ e.hi_commitment = b /\ e.offered = None
       /\ e.stage = IF hi - lo = 1 THEN "one_step" ELSE "bisecting"
       /\ e.turn = IF hi - lo = 1 THEN "challenger" ELSE "defender"
       /\ e.clock_budget = d.clock_budget /\ e.clocks = p.clocks /\ e.last_move_at = now
       /\ e.deadline = now + at_most(MOVE_TIMEOUT, d.clock_budget)
  BY <1>2 DEF Selected, p, lo, hi, a, b
<1>12. /\ Shaped(n, L1Fields) /\ n.lo = lo /\ n.hi = hi
       /\ n.lo_commitment = a /\ n.hi_commitment = b /\ n.has_offer = FALSE
       /\ n.stage = IF hi - lo = 1 THEN "one_step" ELSE "bisecting"
       /\ n.turn = IF hi - lo = 1 THEN "challenger" ELSE "defender"
       /\ n.challenger_clock = left /\ n.defender_clock = m.defender_clock
       /\ n.last_move_at = now /\ n.deadline = due
  <2>1. /\ Shaped(v, L1Fields) /\ v.lo = lo /\ v.hi = hi
        /\ v.lo_commitment = a /\ v.hi_commitment = b /\ v.has_offer = FALSE
        /\ v.stage = "bisecting" /\ v.turn = "defender"
        /\ v.challenger_clock = left /\ v.defender_clock = m.defender_clock
        /\ v.last_move_at = now /\ v.deadline = due
    BY <1>9 DEF Shaped, L1Fields
  <2> HIDE DEF v
  <2>2. CASE hi - lo = 1
    <3>1. n = [v EXCEPT !.stage = "one_step", !.turn = "challenger"]
      BY <1>10, <2>2
    <3> QED
      BY <2>1, <2>2, <3>1 DEF Shaped, L1Fields
  <2>3. CASE hi - lo # 1
    <3>1. n = v
      BY <1>10, <2>3
    <3> QED
      BY <2>1, <2>3, <3>1
  <2> QED
    BY <2>2, <2>3
<1> HIDE DEF v
<1>13. SameBoard(e, n)
  BY <1>3, <1>11, <1>12 DEF SameBoard, Sides
<1>14. /\ Move!clock(n, "challenger") = Move!clock(m, "challenger") - elapsed(d)
       /\ Move!clock(n, opposite("challenger")) = Move!clock(m, opposite("challenger"))
       /\ n.deadline = now + Move!lesser(MOVE_TIMEOUT, Move!clock(n, opposite("challenger")))
       /\ e.stage = "bisecting" => e.turn = opposite("challenger")
  BY <1>9, <1>11, <1>12 DEF Move!clock, Move!DEFENDER, opposite, elapsed, due, left
<1>15. /\ e.clocks = charged(d, "challenger").clocks /\ e.last_move_at = now
       /\ e.clock_budget = d.clock_budget /\ n.last_move_at = now
       /\ e.deadline = now + at_most(MOVE_TIMEOUT, d.clock_budget)
  BY <1>11, <1>12 DEF p
<1>16. SameTime(e, n, r, now)
  BY <1>1, <1>14, <1>15, TurnKeepsTime, Zenon
<1> QED
  BY <1>13, <1>16 DEF Running
-----------------------------------------------------------------------------
(* A division, right or wrong in its length, in time or not.               *)
LEMMA DissectFits ==
  ASSUME NEW d, NEW m, NEW refused, NEW r, now \in Nat, Running(d, m, refused, now),
         NEW k \in Nat, NEW c, Listed(c, k),
         NEW e, e = dissect(d, c),
         NEW n, n = IF Move!can_dissect(m, c, now) THEN Move!dissect(m, c, now) ELSE m,
         r = refused \cup charged_in_vain(d, e)
  PROVE  Fit(e, n, r, now)
<1> DEFINE fits == d.stage = "bisecting" /\ Len(c) = dissection_len(d)
           moves == Move!can_move(m, "defender", now)
<1>1. "defender" \in Sides /\ refused \subseteq r
  BY DEF Sides
<1>2. d.lo \in Nat /\ d.hi \in Nat /\ d.lo < d.hi /\ m.lo = d.lo /\ m.hi = d.hi
      /\ m.stage = d.stage
  BY DEF Running, SameBoard
<1>3. Move!can_dissect(m, c, now) <=> moves /\ fits
  <2>1. Move!segments(m.lo, m.hi) = segment_count(d.lo, d.hi)
    BY <1>2, SameSegments
  <2> QED
    BY <1>2, <2>1 DEF Move!can_dissect, Move!DEFENDER, Move!BISECTING, dissection_len
<1>4. Len(c) = k
  BY DEF Listed
<1>5. CASE may_move(d, "defender") /\ fits
  <2>1. moves /\ n = Move!dissect(m, c, now)
    BY <1>1, <1>3, <1>5, InTimeHereInTimeThere, Zenon
  <2>2. e = turn_passed([charged(d, "defender") EXCEPT !.offered = <<c>>])
    BY <1>5 DEF dissect
  <2>3. Listed(c, dissection_len(d))
    BY <1>4, <1>5
  <2>4. Running(e, n, r, now)
    BY <1>1, <1>5, <2>1, <2>2, <2>3, DissectBoth, Zenon
  <2> QED
    BY <2>4 DEF Fit, Running, SameBoard, over
<1>6. CASE ~(may_move(d, "defender") /\ fits)
  <2>1. e = charged(d, "defender")
    BY <1>6 DEF dissect
  <2>2. CASE ~(moves /\ fits)
    BY <1>1, <1>3, <2>1, <2>2, RefusedKeeps, Zenon DEF Fit
  <2>3. CASE moves /\ fits
    BY <1>1, <1>6, <2>1, <2>3, AcceptedThereOnly, Zenon DEF Fit
  <2> QED
    BY <2>2, <2>3
<1> QED
  BY <1>5, <1>6

(* A selection, of a segment that is there or not, in time or not.         *)
LEMMA SelectFits ==
  ASSUME NEW d, NEW m, NEW refused, NEW r, now \in Nat, Running(d, m, refused, now),
         NEW i \in Nat,
         NEW e, e = select(d, i),
         NEW n, n = IF Move!can_select(m, i, now) THEN Move!select(m, i, now) ELSE m,
         r = refused \cup charged_in_vain(d, e)
  PROVE  Fit(e, n, r, now)
<1> DEFINE fits == /\ d.stage = "bisecting" /\ d.offered # None
                   /\ i < segment_count(d.lo, d.hi)
           moves == Move!can_move(m, "challenger", now)
<1>1. "challenger" \in Sides /\ refused \subseteq r
  BY DEF Sides
<1>2. d.lo \in Nat /\ d.hi \in Nat /\ d.lo < d.hi /\ m.lo = d.lo /\ m.hi = d.hi
      /\ m.stage = d.stage /\ (m.has_offer <=> d.offered # None)
  <2>1. <<m.offered>> # <<>>
    OBVIOUS
  <2> QED
    BY <2>1 DEF Running, SameBoard, None
<1>3. Move!can_select(m, i, now) <=> moves /\ fits
  <2>1. Move!segments(m.lo, m.hi) = segment_count(d.lo, d.hi)
    BY <1>2, SameSegments
  <2> QED
    BY <1>2, <2>1 DEF Move!can_select, Move!CHALLENGER, Move!BISECTING
<1>4. CASE may_move(d, "challenger") /\ fits
  <2>1. moves /\ n = Move!select(m, i, now)
    BY <1>1, <1>3, <1>4, InTimeHereInTimeThere, Zenon
  <2>2. Running(e, n, r, now)
    BY <1>1, <1>4, <2>1, SelectBoth, Zenon
  <2> QED
    BY <2>2 DEF Fit, Running, SameBoard, over
<1>5. CASE ~(may_move(d, "challenger") /\ fits)
  <2>1. e = charged(d, "challenger")
    BY <1>5 DEF select
  <2>2. CASE ~(moves /\ fits)
    BY <1>1, <1>3, <2>1, <2>2, RefusedKeeps, Zenon DEF Fit
  <2>3. CASE moves /\ fits
    BY <1>1, <1>5, <2>1, <2>3, AcceptedThereOnly, Zenon DEF Fit
  <2> QED
    BY <2>2, <2>3
<1> QED
  BY <1>4, <1>5
(* The proof of the step that is left ends the game here, and on L1 with   *)
(* the same winner unless it came too late for L1.                         *)
LEMMA ProofFits ==
  ASSUME NEW d, NEW m, NEW refused, NEW r, now \in Nat, Running(d, m, refused, now),
         d.stage = "one_step", NEW winner,
         NEW e, e = resolve_by_one_step(d, winner),
         NEW n, n = IF Move!can_one_step(m, now) THEN Move!one_step(m, winner, now) ELSE m
  PROVE  Fit(e, n, r, now)
<1>1. Shaped(d, RustFields) /\ Shaped(m, L1Fields) /\ m.stage = "one_step"
      /\ m.turn = "challenger"
  BY DEF Running, SameBoard
<1>2. over(e) /\ e.winner = winner /\ e.reason = "one_step"
  BY <1>1 DEF resolve_by_one_step, ended, over, Shaped, RustFields
<1>3. CASE Move!can_one_step(m, now)
  <2>1. n = [[m EXCEPT !.challenger_clock = m.challenger_clock - (now - m.last_move_at)]
               EXCEPT !.stage = "resolved", !.winner = winner]
    BY <1>1, <1>3 DEF Move!one_step, Move!resolve, Move!begin_move, Move!CHALLENGER,
                      Move!DEFENDER, Move!RESOLVED, Shaped, L1Fields
  <2>2. n.winner = winner
    BY <1>1, <2>1 DEF Shaped, L1Fields
  <2> QED
    BY <1>2, <2>2 DEF Fit, SameEnd
<1>4. CASE ~Move!can_one_step(m, now)
  <2>1. /\ m.deadline \in Nat /\ m.last_move_at \in Nat /\ Move!clock(m, "challenger") \in Nat
    BY DEF Running, SameTime, Sides
  <2>2. Move!can_claim_timeout(m, now)
    BY <1>1, <1>4, <2>1 DEF Move!can_one_step, Move!can_move, Move!can_claim_timeout,
                            Move!CHALLENGER, Move!ONE_STEP, Move!RESOLVED
  <2> QED
    BY <1>2, <1>4, <2>2 DEF Fit, SameEnd
<1> QED
  BY <1>3, <1>4

(* Past the deadline here is past the deadline on L1, for the same party.  *)
LEMMA TimeoutFits ==
  ASSUME NEW d, NEW m, NEW refused, NEW r, now \in Nat, Running(d, m, refused, now), late(d),
         NEW e, e = check_timeout(d),
         NEW n, n = IF Move!can_claim_timeout(m, now) THEN Move!claim_timeout(m) ELSE m
  PROVE  Fit(e, n, r, now)
<1>1. Shaped(d, RustFields) /\ Shaped(m, L1Fields) /\ ~over(d) /\ m.turn = d.turn
      /\ d.turn \in Sides /\ m.stage # "resolved"
  BY DEF Running, SameBoard, over
<1>2. now > m.deadline
  BY VerifierAssumption DEF Running, SameTime, late, at_most
<1>3. n = [m EXCEPT !.stage = "resolved", !.winner = Move!opponent(m.turn)]
  BY <1>1, <1>2 DEF Move!can_claim_timeout, Move!claim_timeout, Move!resolve, Move!RESOLVED
<1>4. n.winner = opposite(d.turn)
  BY <1>1, <1>3 DEF Shaped, L1Fields, Move!opponent, Move!DEFENDER, Move!CHALLENGER, opposite
<1>5. over(e) /\ e.winner = opposite(d.turn)
  BY <1>1 DEF check_timeout, ended, over, Shaped, RustFields
<1> QED
  BY <1>4, <1>5 DEF Fit, SameEnd

(* A new game over len steps between the commitments a and b.              *)
Opened(d, len, a, b) ==
  /\ Shaped(d, RustFields) /\ d.lo = 0 /\ d.hi = len /\ d.lo_commitment = a
  /\ d.hi_commitment = b /\ d.offered = None
  /\ d.stage = (IF len = 1 THEN "one_step" ELSE "bisecting")
  /\ d.turn = (IF len = 1 THEN "challenger" ELSE "defender")
  /\ d.deadline = now + at_most(MOVE_TIMEOUT, rust_budget(window))
  /\ d.clock_budget = rust_budget(window)
  /\ d.clocks = [party \in Sides |-> rust_budget(window)] /\ d.last_move_at = now
  /\ d.winner = "nobody"

(* What open makes.                                                        *)
LEMMA OpenedHere ==
  ASSUME NEW len \in Nat \ {0}, NEW a, NEW b, NEW d, d = open(len, a, b)
  PROVE  Opened(d, len, a, b)
<1> DEFINE budget == rust_budget(window)
           full == [party \in Sides |-> budget]
           v == [lo |-> 0, hi |-> len, lo_commitment |-> a, hi_commitment |-> b,
                 stage |-> "bisecting", offered |-> None, winner |-> "nobody",
                 reason |-> "none", turn |-> "defender",
                 deadline |-> now + at_most(MOVE_TIMEOUT, budget), clock_budget |-> budget,
                 clocks |-> full, last_move_at |-> now]
<1>1. d = narrowed(v)
  BY DEF open, Sides
<1>2. d = IF len = 1 THEN [v EXCEPT !.stage = "one_step", !.turn = "challenger"] ELSE v
  <2>1. len - 0 = len /\ v.lo = 0 /\ v.hi = len
    OBVIOUS
  <2> HIDE DEF v
  <2> QED
    BY <1>1, <2>1 DEF narrowed
<1> HIDE DEF full, budget
<1>3. /\ Shaped(d, RustFields) /\ d.lo = 0 /\ d.hi = len /\ d.lo_commitment = a
      /\ d.hi_commitment = b /\ d.offered = None
      /\ d.stage = (IF len = 1 THEN "one_step" ELSE "bisecting")
      /\ d.turn = (IF len = 1 THEN "challenger" ELSE "defender")
      /\ d.deadline = now + at_most(MOVE_TIMEOUT, budget) /\ d.clock_budget = budget
      /\ d.clocks = full /\ d.last_move_at = now /\ d.winner = "nobody"
  <2>1. CASE len = 1
    <3>1. d = [v EXCEPT !.stage = "one_step", !.turn = "challenger"]
      BY <1>2, <2>1
    <3> QED
      BY <2>1, <3>1 DEF Shaped, RustFields
  <2>2. CASE len # 1
    <3>1. d = v
      BY <1>2, <2>2
    <3> QED
      BY <2>2, <3>1 DEF Shaped, RustFields
  <2> QED
    BY <2>1, <2>2
<1> HIDE DEF v
<1> QED
  BY <1>3 DEF Opened, full, budget

(* A new game is the same game on both sides, with both budgets full.      *)
LEMMA OpeningFits ==
  ASSUME now \in Nat, NEW role, NEW p, NEW program, NEW claim, NEW own,
         claim.trace_length \in Nat \ {0},
         NEW q, <<q>> = opening(role, p, program, claim, own)
  PROVE  Shaped(q, PairFields) /\ Fit(q.rust, q.l1, q.refused, now)
<1> DEFINE len == claim.trace_length
           a == state_at(p, 0)
           b == MachineState(claim.post_state_root, claim.trace_length)
           budget == rust_budget(window)
           d == open(len, a, b)
           w == Move!new_dispute(len, b, window, now)
           m == [w EXCEPT !.lo_commitment = a]
<1>1. q = [rust |-> d, l1 |-> m, role |-> role, player |-> p, program |-> program,
           claim |-> claim, own |-> own, refused |-> {}]
  BY DEF opening
<1>2. budget \in Nat
  BY VerifierAssumption DEF rust_budget
<1> HIDE DEF a, b, m, w, d
<1>3. Shaped(q, PairFields) /\ q.rust = d /\ q.l1 = m /\ q.refused = {}
  BY <1>1 DEF Shaped, PairFields
<1>4. w = [lo |-> 0, hi |-> len, lo_commitment |-> "honest", hi_commitment |-> b,
           offered |-> <<>>, has_offer |-> FALSE,
           stage |-> IF len = 1 THEN "one_step" ELSE "bisecting",
           turn |-> IF len = 1 THEN "challenger" ELSE "defender",
           deadline |-> now + Move!lesser(MOVE_TIMEOUT, budget),
           defender_clock |-> budget, challenger_clock |-> budget,
           last_move_at |-> now, winner |-> "nobody"]
  BY DEF w, Move!new_dispute, Move!clock_budget, rust_budget, Move!HONEST, Move!ONE_STEP,
         Move!BISECTING, Move!CHALLENGER, Move!DEFENDER, Move!NOBODY
<1> HIDE DEF len, budget
<1>5. /\ Shaped(m, L1Fields) /\ m.lo = 0 /\ m.hi = len /\ m.lo_commitment = a
      /\ m.hi_commitment = b /\ m.has_offer = FALSE
      /\ m.stage = (IF len = 1 THEN "one_step" ELSE "bisecting")
      /\ m.turn = (IF len = 1 THEN "challenger" ELSE "defender")
      /\ m.deadline = now + Move!lesser(MOVE_TIMEOUT, budget)
      /\ m.defender_clock = budget /\ m.challenger_clock = budget /\ m.last_move_at = now
  BY <1>4 DEF m, Shaped, L1Fields
<1> DEFINE full == [party \in Sides |-> budget]
<1>7. Opened(d, len, a, b)
  <2>1. len \in Nat \ {0} /\ d = open(len, a, b)
    BY DEF len, d
  <2> QED
    BY <2>1, OpenedHere, Zenon
<1>8. /\ Shaped(d, RustFields) /\ d.lo = 0 /\ d.hi = len /\ d.lo_commitment = a
      /\ d.hi_commitment = b /\ d.offered = None
      /\ d.stage = (IF len = 1 THEN "one_step" ELSE "bisecting")
      /\ d.turn = (IF len = 1 THEN "challenger" ELSE "defender")
      /\ d.deadline = now + at_most(MOVE_TIMEOUT, budget) /\ d.clock_budget = budget
      /\ d.clocks = full /\ d.last_move_at = now
  BY <1>7 DEF Opened, budget
<1> HIDE DEF full
<1>9. len \in Nat \ {0}
  BY DEF len
<1>10. SameBoard(d, m)
  BY <1>5, <1>8, <1>9 DEF SameBoard, Sides
<1>11. Move!lesser(MOVE_TIMEOUT, budget) = at_most(MOVE_TIMEOUT, budget)
       /\ at_most(MOVE_TIMEOUT, budget) \in Nat
  BY <1>2, VerifierAssumption DEF Move!lesser, at_most
<1>12. \A party \in Sides : d.clocks[party] = budget /\ Move!clock(m, party) = budget
  BY <1>5, <1>8 DEF full, Sides, Move!clock
<1>13. d.turn \in Sides
  BY <1>8 DEF Sides
<1>14. DOMAIN d.clocks = Sides /\ d.clocks = [party \in Sides |-> d.clocks[party]]
  BY <1>8 DEF full
<1>15. SameTime(d, m, {}, now)
  BY <1>2, <1>5, <1>8, <1>11, <1>12, <1>13, <1>14 DEF SameTime
<1>16. ~over(d)
  BY <1>8 DEF over
<1> QED
  BY <1>3, <1>10, <1>15, <1>16 DEF Fit, Running
-----------------------------------------------------------------------------
(* The pair after a move is the pair before it with both games replaced.   *)
LEMMA BecomeKeeps ==
  ASSUME VInv, games # None, NEW e, NEW n, become(e, n),
         Fit(e, n, g.refused \cup charged_in_vain(g.rust, e), now)
  PROVE  VInv'
<1> DEFINE r == g.refused \cup charged_in_vain(g.rust, e)
           q == [g EXCEPT !.rust = e, !.l1 = n, !.refused = r]
<1>1. Shaped(g, PairFields) /\ now \in Nat
  BY DEF VInv
<1>2. games' = <<q>> /\ now' = now
  BY DEF become
<1> HIDE DEF r
<1>3. Shaped(q, PairFields) /\ q.rust = e /\ q.l1 = n /\ q.refused = r
  BY <1>1 DEF Shaped, PairFields
<1> HIDE DEF q
<1>4. g' = q /\ games' = <<g'>>
  BY <1>2 DEF g
<1>5. Fit(q.rust, q.l1, q.refused, now)
  BY <1>3 DEF r
<1>6. Shaped(g', PairFields) /\ Fit(g'.rust, g'.l1, g'.refused, now')
  BY <1>2, <1>3, <1>4, <1>5
<1> QED
  BY <1>1, <1>2, <1>4, <1>6 DEF VInv

(* The pair that is being played, and the length of a division of it.      *)
LEMMA Playing ==
  ASSUME VInv, playing
  PROVE  /\ games # None /\ now \in Nat /\ Running(g.rust, g.l1, g.refused, now)
         /\ segment_count(g.rust.lo, g.rust.hi) \in Nat \ {0}
         /\ dissection_len(g.rust) \in Nat
<1>1. /\ games # None /\ now \in Nat /\ Running(g.rust, g.l1, g.refused, now)
  BY DEF VInv, playing, g, Fit
<1>2. g.rust.lo \in Nat /\ g.rust.hi \in Nat /\ g.rust.lo < g.rust.hi
  BY <1>1 DEF Running, SameBoard
<1>3. segment_count(g.rust.lo, g.rust.hi) \in Nat \ {0}
  BY <1>2, SameSegments
<1> QED
  BY <1>1, <1>3 DEF dissection_len

(* A division made in both games keeps the invariant.                      *)
LEMMA DissectKeeps ==
  ASSUME VInv, playing, NEW k \in Nat, NEW c, Listed(c, k), Dissect(c)
  PROVE  VInv'
<1> DEFINE e == dissect(g.rust, c)
           n == IF Move!can_dissect(g.l1, c, now) THEN Move!dissect(g.l1, c, now) ELSE g.l1
           r == g.refused \cup charged_in_vain(g.rust, e)
<1>1. games # None /\ now \in Nat /\ Running(g.rust, g.l1, g.refused, now)
  BY Playing
<1>2. become(e, n)
  BY DEF Dissect
<1>3. Fit(e, n, r, now)
  <2> HIDE DEF e, n, r
  <2>1. e = dissect(g.rust, c)
        /\ n = (IF Move!can_dissect(g.l1, c, now) THEN Move!dissect(g.l1, c, now) ELSE g.l1)
        /\ r = g.refused \cup charged_in_vain(g.rust, e)
    BY DEF e, n, r
  <2> QED
    BY <1>1, <2>1, DissectFits, Zenon
<1> QED
  BY <1>1, <1>2, <1>3, BecomeKeeps, Zenon

(* A selection made in both games keeps it.                                *)
LEMMA SelectKeeps ==
  ASSUME VInv, playing, NEW i \in Nat, Select(i)
  PROVE  VInv'
<1> DEFINE e == select(g.rust, i)
           n == IF Move!can_select(g.l1, i, now) THEN Move!select(g.l1, i, now) ELSE g.l1
           r == g.refused \cup charged_in_vain(g.rust, e)
<1>1. games # None /\ now \in Nat /\ Running(g.rust, g.l1, g.refused, now)
  BY Playing
<1>2. become(e, n)
  BY DEF Select
<1>3. Fit(e, n, r, now)
  <2> HIDE DEF e, n, r
  <2>1. e = select(g.rust, i)
        /\ n = (IF Move!can_select(g.l1, i, now) THEN Move!select(g.l1, i, now) ELSE g.l1)
        /\ r = g.refused \cup charged_in_vain(g.rust, e)
    BY DEF e, n, r
  <2> QED
    BY <1>1, <2>1, SelectFits, Zenon
<1> QED
  BY <1>1, <1>2, <1>3, BecomeKeeps, Zenon

(* A proof given to both games keeps it, whatever is proved.               *)
LEMMA ProveKeeps ==
  ASSUME VInv, playing, NEW proof, Prove(proof)
  PROVE  VInv'
<1> DEFINE x == adjudicate(g.program, g.rust, proof)
           e == resolve_by_one_step(g.rust, x)
           n == IF Move!can_one_step(g.l1, now) THEN Move!one_step(g.l1, x, now) ELSE g.l1
           r == g.refused \cup charged_in_vain(g.rust, e)
<1>1. games # None /\ now \in Nat /\ Running(g.rust, g.l1, g.refused, now)
  BY Playing
<1>2. become(e, n) /\ g.rust.stage = "one_step"
  BY DEF Prove
<1>3. Fit(e, n, r, now)
  <2> HIDE DEF x, e, n, r
  <2>1. e = resolve_by_one_step(g.rust, x)
        /\ n = (IF Move!can_one_step(g.l1, now) THEN Move!one_step(g.l1, x, now) ELSE g.l1)
    BY DEF e, n
  <2> QED
    BY <1>1, <1>2, <2>1, ProofFits, Zenon
<1> QED
  BY <1>1, <1>2, <1>3, BecomeKeeps, Zenon

(* The look at the deadline keeps it.                                      *)
LEMMA TimeoutKeeps ==
  ASSUME VInv, CheckTimeout
  PROVE  VInv'
<1> DEFINE e == check_timeout(g.rust)
           n == IF Move!can_claim_timeout(g.l1, now) THEN Move!claim_timeout(g.l1) ELSE g.l1
           r == g.refused \cup charged_in_vain(g.rust, e)
<1>1. playing /\ late(g.rust) /\ become(e, n)
  BY DEF CheckTimeout
<1>2. games # None /\ now \in Nat /\ Running(g.rust, g.l1, g.refused, now)
  BY <1>1, Playing
<1>3. Fit(e, n, r, now)
  <2> HIDE DEF e, n, r
  <2>1. e = check_timeout(g.rust)
        /\ n = (IF Move!can_claim_timeout(g.l1, now) THEN Move!claim_timeout(g.l1) ELSE g.l1)
    BY DEF e, n
  <2> QED
    BY <1>1, <1>2, <2>1, TimeoutFits, Zenon
<1> QED
  BY <1>1, <1>2, <1>3, BecomeKeeps, Zenon
(* A pair that is opened satisfies the invariant.                          *)
LEMMA OpeningKeeps ==
  ASSUME VInv, NEW role, NEW p, NEW program, NEW claim, NEW own,
         claim.trace_length \in Nat \ {0},
         games' = opening(role, p, program, claim, own), now' = now
  PROVE  VInv'
<1>1. PICK q : <<q>> = opening(role, p, program, claim, own)
  BY DEF opening
<1>2. now \in Nat
  BY DEF VInv
<1>3. Shaped(q, PairFields) /\ Fit(q.rust, q.l1, q.refused, now)
  BY <1>1, <1>2, OpeningFits, Zenon
<1>4. g' = q /\ games' = <<g'>>
  BY <1>1 DEF g
<1> QED
  BY <1>2, <1>3, <1>4 DEF VInv

(* A new block and a contested assertion: the trace claimed has a step.    *)
LEMMA OpensKeep ==
  ASSUME VInv, NEW program \in Programs,
         \/ \E root \in Roots, length \in TraceLengths :
              Follow(program, [post_state_root |-> root, trace_length |-> length])
         \/ Contest(program)
  PROVE  VInv'
<1>1. ASSUME NEW root \in Roots, NEW length \in TraceLengths,
             Follow(program, [post_state_root |-> root, trace_length |-> length])
      PROVE  VInv'
  <2> DEFINE claim == [post_state_root |-> root, trace_length |-> length]
  <2>1. claim.trace_length \in Nat \ {0}
    BY VerifierAssumption
  <2> HIDE DEF claim
  <2>2. Follow(program, claim)
    BY <1>1 DEF claim
  <2>3. now' = now /\ games = None
    BY <2>2 DEF Follow
  <2>4. CASE games' = None
    BY <2>3, <2>4 DEF VInv
  <2>5. CASE games' # None
    <3>1. \/ games' = opening("challenger", node.last_trace[1], program, claim, FALSE)
          \/ games' = opening("challenger", TracePlayer(program, node.state), program, claim,
                              TRUE)
      BY <2>2, <2>3, <2>5 DEF Follow
    <3> QED
      BY <2>1, <2>3, <3>1, OpeningKeeps, Zenon
  <2> QED
    BY <2>4, <2>5
<1>2. ASSUME Contest(program)
      PROVE  VInv'
  <2> DEFINE p == TracePlayer(program, node.state)
             claim == [post_state_root |-> final_root(p), trace_length |-> Len(program)]
  <2>1. claim.trace_length \in Nat \ {0}
    BY VerifierAssumption
  <2>2. games' = opening("defender", p, program, claim, TRUE) /\ now' = now
    BY <1>2 DEF Contest
  <2> HIDE DEF p, claim
  <2> QED
    BY <2>1, <2>2, OpeningKeeps, Zenon
<1> QED
  BY <1>1, <1>2

(* Time passes: no move was made after now.                                *)
LEMMA TickKeeps ==
  ASSUME VInv, GameTick
  PROVE  VInv'
<1>1. playing /\ games' = games /\ now' = now + 1
  BY DEF GameTick
<1>2. /\ games # None /\ now \in Nat /\ Running(g.rust, g.l1, g.refused, now)
  BY <1>1, Playing
<1>3. games = <<g>> /\ Shaped(g, PairFields) /\ ~over(g.rust)
  BY <1>1, <1>2 DEF VInv, playing, g
<1>4. now + 1 \in Nat /\ SameBoard(g.rust, g.l1)
      /\ SameTime(g.rust, g.l1, g.refused, now + 1)
  BY <1>2 DEF Running, SameTime
<1>5. Fit(g.rust, g.l1, g.refused, now + 1)
  BY <1>3, <1>4 DEF Fit, Running
<1>6. g' = g
  BY <1>1 DEF g
<1> QED
  BY <1>1, <1>3, <1>4, <1>5, <1>6 DEF VInv

(* Any nonempty set of naturals has a least element.                       *)
LEMMA LeastOf ==
  ASSUME NEW T \in SUBSET Nat, T # {}
  PROVE  \E x \in T : \A y \in T : x <= y
<1> DEFINE R == OpToRel(<, Nat)
<1>1. IsWellFoundedOn(R, Nat)
  BY NatLessThanWellFounded
<1>2. \A x, y \in Nat : <<y, x>> \in R <=> y < x
  BY DEF OpToRel
<1> HIDE DEF R
<1>3. PICK x \in T : \A y \in T : ~ (<<y, x>> \in R)
  BY <1>1, WFMin
<1>4. \A y \in T : x \in Nat /\ y \in Nat /\ ~ (y < x)
  BY <1>2, <1>3
<1>5. \A y \in T : x <= y
  BY <1>4
<1> QED
  BY <1>5

(* The honest challenger names a segment that exists, the first of those   *)
(* whose end it does not agree with.                                       *)
LEMMA FirstDisagreement ==
  ASSUME NEW p, NEW d, segment_count(d.lo, d.hi) \in Nat, disagreements(p, d) # {}
  PROVE  /\ first_disagreement(p, d) \in disagreements(p, d)
         /\ first_disagreement(p, d) \in Nat
         /\ \A j \in disagreements(p, d) : first_disagreement(p, d) <= j
<1>1. disagreements(p, d) \in SUBSET Nat
  BY DEF disagreements
<1>2. \E x \in disagreements(p, d) : \A y \in disagreements(p, d) : x <= y
  BY <1>1, LeastOf
<1>3. /\ first_disagreement(p, d) \in disagreements(p, d)
      /\ \A j \in disagreements(p, d) : first_disagreement(p, d) <= j
  BY <1>2 DEF first_disagreement
<1> QED
  BY <1>1, <1>3

-----------------------------------------------------------------------------
(* The invariant is inductive.                                             *)
LEMMA VInductive ==
  VInv /\ [GameNext]_gameVars => VInv'
<1> SUFFICES ASSUME VInv, [GameNext]_gameVars PROVE VInv'
  OBVIOUS
<1>1. CASE \E program \in Programs :
             \/ \E root \in Roots, length \in TraceLengths :
                  Follow(program, [post_state_root |-> root, trace_length |-> length])
             \/ Contest(program)
  BY <1>1, OpensKeep
<1>2. CASE HonestPlay
  <2>1. playing /\ can_play(g.player, g.rust, g.role)
    BY <1>2 DEF HonestPlay, honest_turn
  <2>2. segment_count(g.rust.lo, g.rust.hi) \in Nat /\ dissection_len(g.rust) \in Nat
    BY <2>1, Playing
  <2>3. CASE Dissect(player_dissection(g.player, g.rust))
    <3>1. Listed(player_dissection(g.player, g.rust), dissection_len(g.rust))
      BY DEF Listed, player_dissection
    <3> QED
      BY <2>1, <2>2, <2>3, <3>1, DissectKeeps, Zenon
  <2>4. CASE g.role = "challenger" /\ Select(first_disagreement(g.player, g.rust))
    <3>1. first_disagreement(g.player, g.rust) \in Nat
      BY <2>1, <2>2, <2>4, FirstDisagreement DEF can_play
    <3> QED
      BY <2>1, <2>4, <3>1, SelectKeeps, Zenon
  <2> QED
    BY <1>2, <2>3, <2>4 DEF HonestPlay
<1>3. CASE HonestProve
  BY <1>3, ProveKeeps DEF HonestProve, honest_turn
<1>4. CASE OtherDissects
  <2>1. playing
    BY <1>4 DEF OtherDissects
  <2> DEFINE n == dissection_len(g.rust)
  <2>2. n \in Nat /\ n + 1 \in Nat
    BY <2>1, Playing
  <2>3. \/ \E S : \E c \in [1..n -> S] : Dissect(c)
        \/ Dissect([i \in 1..(n + 1) |-> g.rust.hi_commitment])
    BY <1>4, Zenon DEF OtherDissects
  <2> HIDE DEF n
  <2>4. ASSUME NEW S, NEW c \in [1..n -> S], Dissect(c)
        PROVE  VInv'
    <3>1. Listed(c, n)
      BY DEF Listed
    <3> QED
      BY <2>1, <2>2, <2>4, <3>1, DissectKeeps, Zenon
  <2>5. CASE Dissect([i \in 1..(n + 1) |-> g.rust.hi_commitment])
    <3> DEFINE c == [i \in 1..(n + 1) |-> g.rust.hi_commitment]
    <3>1. Listed(c, n + 1)
      BY DEF Listed
    <3> QED
      BY <2>1, <2>2, <2>5, <3>1, DissectKeeps, Zenon
  <2> QED
    BY <2>3, <2>4, <2>5, Zenon
<1>5. CASE OtherSelects
  <2>1. playing
    BY <1>5 DEF OtherSelects
  <2>2. segment_count(g.rust.lo, g.rust.hi) \in Nat
    BY <2>1, Playing
  <2>3. PICK i \in 0..segment_count(g.rust.lo, g.rust.hi) : Select(i)
    BY <1>5 DEF OtherSelects
  <2>4. i \in Nat
    BY <2>2
  <2> QED
    BY <2>1, <2>3, <2>4, SelectKeeps, Zenon
<1>6. CASE OtherProves
  BY <1>6, ProveKeeps DEF OtherProves
<1>7. CASE CheckTimeout
  BY <1>7, TimeoutKeeps
<1>8. CASE GameTick
  BY <1>8, TickKeeps
<1>9. CASE UNCHANGED gameVars
  BY <1>9 DEF gameVars, VInv, g
<1> QED
  BY <1>1, <1>2, <1>3, <1>4, <1>5, <1>6, <1>7, <1>8, <1>9 DEF GameNext

(* The invariant holds in every state of the specification.                *)
LEMMA VInvariant ==
  GameSpec => []VInv
<1>1. GameInit => VInv
  BY DEF GameInit, VInv
<1> QED
  BY <1>1, VInductive, PTL DEF GameSpec

(* While both games run they stand at the same place: the interval, its    *)
(* ends, the stage, the turn and the offer; with no more time left here    *)
(* and no earlier deadline.  For every arity, timeout, divisor, window,    *)
(* program and claim, and whatever the opponent does.                      *)
THEOREM OneGameTwice ==
  GameSpec => []GamesAgree
<1>1. VInv => GamesAgree
  <2> SUFFICES ASSUME VInv, playing PROVE GamesAgree
    BY DEF GamesAgree
  <2>1. Running(g.rust, g.l1, g.refused, now)
    BY Playing
  <2>2. <<g.l1.offered>> # <<>> /\ <<g.l1.offered>>[1] = g.l1.offered
    OBVIOUS
  <2>3. /\ g.l1.has_offer = (g.rust.offered # None)
        /\ g.l1.has_offer => g.rust.offered[1] = g.l1.offered
    BY <2>1, <2>2 DEF Running, SameBoard, None
  <2>4. /\ g.rust.lo = g.l1.lo /\ g.rust.hi = g.l1.hi
        /\ g.rust.lo_commitment = g.l1.lo_commitment
        /\ g.rust.hi_commitment = g.l1.hi_commitment
        /\ g.rust.stage = g.l1.stage /\ g.rust.turn = g.l1.turn
    BY <2>1 DEF Running, SameBoard
  <2>5. /\ g.rust.clocks["defender"] <= g.l1.defender_clock
        /\ g.rust.clocks["challenger"] <= g.l1.challenger_clock
        /\ g.l1.deadline <= g.rust.deadline
    BY <2>1 DEF Running, SameTime, Sides, Move!clock, Move!DEFENDER
  <2> QED
    BY <2>3, <2>4, <2>5 DEF GamesAgree
<1> QED
  BY <1>1, VInvariant, PTL

(* Who wins here wins on L1 or can claim the win there, save for a proof   *)
(* that L1 got too late and a clock that refused moves ran down.           *)
THEOREM SameVerdict ==
  GameSpec => []SameWinner
<1>1. VInv => SameWinner
  BY DEF VInv, SameWinner, Fit, SameEnd, g
<1> QED
  BY <1>1, VInvariant, PTL
=============================================================================
