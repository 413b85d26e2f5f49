-------------------------- MODULE HonestPlayProofs ---------------------------
(***************************************************************************)
(* The player that answers from a trace it computed does not lose the game *)
(* of the fraud-proof crate: not the proposer of a right assertion, not    *)
(* the verifier of a wrong one.  For every arity, timeout, divisor and     *)
(* window, every program and claim, and whatever the other side does, as   *)
(* long as there is time for the moves to make.                            *)
(***************************************************************************)
EXTENDS VerifierGameProofs

(* One step of execute_trace: stuck once stuck.                            *)
StepRoot(program, i, root) == IF root = STUCK THEN STUCK ELSE program[i][root]

(* f satisfies the recursion of execute_trace for the first n steps.       *)
IsTrace(f, program, pre, n) ==
  f = [i \in 0..n |-> IF i = 0 THEN pre ELSE StepRoot(program, i, f[i - 1])]

(* That recursion has a solution, for any number of steps.                 *)
LEMMA TraceExists ==
  ASSUME NEW program, NEW pre, NEW n \in Nat
  PROVE  \E f : IsTrace(f, program, pre, n)
<1> DEFINE T == {k \in Nat : ~ \E f : IsTrace(f, program, pre, k)}
<1> SUFFICES ASSUME T # {} PROVE FALSE
  OBVIOUS
<1>1. PICK k \in T : \A j \in T : k <= j
  <2> HIDE DEF T
  <2>1. T \in SUBSET Nat
    BY DEF T
  <2> QED
    BY <2>1, LeastOf
<1>2. k # 0
  <2>1. IsTrace([j \in 0..0 |-> pre], program, pre, 0)
    BY DEF IsTrace
  <2> QED
    BY <1>1, <2>1
<1>3. k - 1 \in Nat /\ k - 1 \notin T
  BY <1>1, <1>2
<1>4. PICK f : IsTrace(f, program, pre, k - 1)
  BY <1>3
<1> DEFINE h == [j \in 0..k |-> IF j = k THEN StepRoot(program, k, f[k - 1]) ELSE f[j]]
<1>5. \A j \in 0..k : h[j] = IF j = 0 THEN pre ELSE StepRoot(program, j, h[j - 1])
  <2> TAKE j \in 0..k
  <2>1. CASE j = k
    <3>1. k - 1 \in 0..k /\ k - 1 # k /\ j # 0
      BY <1>1, <1>2, <2>1
    <3> QED
      BY <2>1, <3>1
  <2>2. CASE j # k
    <3>1. j \in 0..(k - 1) /\ (j # 0 => j - 1 \in 0..k /\ j - 1 # k)
      BY <1>1, <2>2
    <3> QED
      BY <1>4, <2>2, <3>1 DEF IsTrace
  <2> QED
    BY <2>1, <2>2
<1>6. IsTrace(h, program, pre, k)
  BY <1>5 DEF IsTrace
<1> QED
  BY <1>1, <1>6

(* So execute_trace follows the program from the state before it.          *)
LEMMA TraceFollows ==
  ASSUME NEW program, NEW pre, Len(program) \in Nat
  PROVE  \A i \in 0..(Len(program) - 1) :
           execute_trace(program, pre)[i + 1]
             = StepRoot(program, i + 1, execute_trace(program, pre)[i])
<1> DEFINE n == Len(program)
           f == execute_trace(program, pre)
<1>1. f = CHOOSE h : h = [i \in 0..n |-> IF i = 0 THEN pre
                           ELSE IF h[i - 1] = STUCK THEN STUCK ELSE program[i][h[i - 1]]]
  BY Zenon DEF execute_trace
<1>2. IsTrace(f, program, pre, n)
  <2>1. f = CHOOSE h : IsTrace(h, program, pre, n)
    BY <1>1, Zenon DEF IsTrace, StepRoot
  <2>2. \E h : IsTrace(h, program, pre, n)
    BY TraceExists, Zenon
  <2> HIDE DEF f
  <2> QED
    BY <2>1, <2>2, Zenon
<1>3. f = [i \in 0..n |-> IF i = 0 THEN pre ELSE StepRoot(program, i, f[i - 1])]
  BY <1>2 DEF IsTrace
<1> HIDE DEF f
<1>4. \A i \in 0..n : f[i] = IF i = 0 THEN pre ELSE StepRoot(program, i, f[i - 1])
  BY <1>3
<1>5. \A i \in 0..(n - 1) : i + 1 \in 0..n /\ i + 1 # 0 /\ (i + 1) - 1 = i
  OBVIOUS
<1>6. \A i \in 0..(n - 1) : f[i + 1] = StepRoot(program, i + 1, f[i])
  BY <1>4, <1>5
<1> QED
  BY <1>6 DEF f

(* A trace without a stuck step in which each step follows from the last.  *)
Traced(p) ==
  /\ Len(p.program) \in Nat
  /\ \A i \in 0..Len(p.program) : p.roots[i] # STUCK
  /\ \A i \in 0..(Len(p.program) - 1) : p.roots[i + 1] = p.program[i + 1][p.roots[i]]

(* The trace of a program that executes is such a trace: a step that is    *)
(* stuck leaves every later one stuck.                                     *)
LEMMA ExecutesTraced ==
  ASSUME NEW program, NEW pre, Len(program) \in Nat, executable(program, pre)
  PROVE  /\ Traced(TracePlayer(program, pre))
         /\ TracePlayer(program, pre).program = program
<1> DEFINE n == Len(program)
           f == execute_trace(program, pre)
           p == TracePlayer(program, pre)
           T == {j \in Nat : j <= n /\ f[n - j] = STUCK}
<1>1. p.program = program /\ p.roots = f
  BY DEF TracePlayer
<1>2. f[n] # STUCK
  BY DEF executable
<1>3. \A i \in 0..(n - 1) : f[i + 1] = StepRoot(program, i + 1, f[i])
  BY TraceFollows, Zenon
<1> HIDE DEF f, p, T
<1>4. T = {}
  <2> SUFFICES ASSUME T # {} PROVE FALSE
    OBVIOUS
  <2>1. T \in SUBSET Nat
    BY DEF T
  <2>2. PICK j \in T : \A k \in T : j <= k
    BY <2>1, LeastOf
  <2>3. j \in Nat /\ j <= n /\ f[n - j] = STUCK
    BY DEF T
  <2>4. j # 0
    <3>1. n - 0 = n
      OBVIOUS
    <3> QED
      BY <1>2, <2>3, <3>1
  <2>5. n - j \in 0..(n - 1) /\ (n - j) + 1 = n - (j - 1) /\ j - 1 \in Nat /\ j - 1 <= n
    BY <2>3, <2>4
  <2>6. f[n - (j - 1)] = STUCK
    BY <1>3, <2>3, <2>5 DEF StepRoot
  <2>7. j - 1 \in T
    BY <2>5, <2>6 DEF T
  <2>8. j <= j - 1
    BY <2>2, <2>7
  <2> QED
    BY <2>3, <2>8
<1>5. ASSUME NEW i \in 0..n
      PROVE  f[i] # STUCK
  <2>1. n - i \in Nat /\ n - i <= n /\ n - (n - i) = i
    OBVIOUS
  <2> QED
    BY <1>4, <2>1 DEF T
<1>6. \A i \in 0..(n - 1) : i \in 0..n /\ f[i + 1] = program[i + 1][f[i]]
  BY <1>3, <1>5 DEF StepRoot
<1>7. Traced(p)
  BY <1>1, <1>5, <1>6 DEF Traced
<1> QED
  BY <1>1, <1>7 DEF p

(* The boundaries lie in the interval, the first and the last at its ends. *)
LEMMA BoundaryRange ==
  ASSUME NEW lo \in Nat, NEW hi \in Nat, lo < hi, NEW i \in 0..segment_count(lo, hi)
  PROVE  /\ boundaries(lo, hi)[i] \in lo..hi
         /\ i = 0 => boundaries(lo, hi)[i] = lo
         /\ i = segment_count(lo, hi) => boundaries(lo, hi)[i] = hi
<1> DEFINE n == segment_count(lo, hi)
           w == hi - lo
           q == (w * i) \div n
<1>1. n \in 1..w /\ w \in Nat \ {0} /\ i \in 0..n
  BY SameSegments
<1>2. boundaries(lo, hi)[i] = lo + q
  BY DEF boundaries
<1>3. ASSUME NEW a \in Nat, NEW k \in Nat \ {0}
      PROVE  a \div k \in Nat /\ k * (a \div k) <= a /\ a < k * (a \div k) + k
  BY Z3
<1> HIDE DEF n, w
<1>4. w * i \in Nat /\ w * i <= n * w /\ n \in Nat \ {0}
      /\ (i = 0 => w * i = 0) /\ (i = n => w * i = n * w)
  BY <1>1, Z3
<1>5. q \in Nat /\ n * q <= w * i /\ w * i < n * q + n
  BY <1>3, <1>4
<1> HIDE DEF q
<1>6. n * q <= n * w /\ (i = 0 => n * q <= 0) /\ (i = n => n * w < n * q + n)
  BY <1>1, <1>4, <1>5
<1>7. q <= w /\ (i = 0 => q = 0)
  BY <1>1, <1>5, <1>6, Z3
<1>8. i = n => w < q + 1
  BY <1>1, <1>5, <1>6, Z3
<1>9. w = hi - lo
  BY DEF w
<1> QED
  BY <1>1, <1>2, <1>5, <1>7, <1>8, <1>9 DEF n
-----------------------------------------------------------------------------
(* What it takes for the honest player to have the time for its moves: no  *)
(* deadline is shorter than its reaction; and with moves[w] moves to make  *)
(* in an interval of w steps, fewer in any segment of it, the budget pays  *)
(* for those of the longest game.                                          *)
lengths == TraceLengths \cup {Len(program) : program \in Programs}

EnoughTime(moves) ==
  /\ moves \in [Nat -> Nat]
  /\ Reaction \in Nat /\ Reaction <= MOVE_TIMEOUT /\ Reaction <= rust_budget(window)
  /\ \A len \in lengths :
       /\ Reaction * moves[len] <= rust_budget(window)
       /\ \A lo, hi \in 0..len : hi - lo >= 2 =>
            \A i \in 0..(segment_count(lo, hi) - 1) :
              moves[boundaries(lo, hi)[i + 1] - boundaries(lo, hi)[i]] < moves[hi - lo]

(* How the honest player stands in a game it can win: it agrees with the   *)
(* lower end, and with the upper one when it defends; what it offered is   *)
(* its own; it is within its reaction; and its clock pays for the moves    *)
(* that are left.                                                          *)
Stand(d, role, p, t, moves) ==
  /\ d.hi <= Len(p.program) /\ \E len \in lengths : d.hi <= len
  /\ d.winner = "nobody" /\ d.clock_budget = rust_budget(window)
  /\ d.lo_commitment = state_at(p, d.lo)
  /\ (d.hi_commitment = state_at(p, d.hi)) <=> (role = "defender")
  /\ d.stage = "one_step" <=> d.hi - d.lo = 1
  /\ d.stage = "bisecting" /\ d.turn = "challenger" => d.offered # None
  /\ role = "defender" /\ d.offered # None => d.offered[1] = player_dissection(p, d)
  /\ d.turn = role => t - d.last_move_at <= Reaction
  /\ role = "defender" /\ d.turn = "challenger" =>
       Reaction * moves[d.hi - d.lo] <= d.clocks[role] + Reaction
  /\ ~(role = "defender" /\ d.turn = "challenger") =>
       Reaction * moves[d.hi - d.lo] <= d.clocks[role]

StandOrWon(d, role, p, t, moves) ==
  /\ ~over(d) => Stand(d, role, p, t, moves)
  /\ over(d) => d.winner = role

Ready(q) == q.role \in Sides /\ q.player.program = q.program /\ Traced(q.player)

(* HonestPlayerWins is not inductive: that the step left over is lost by   *)
(* the other side takes what the player agrees with all along, and that it *)
(* gets there in time takes the moves still to make.                       *)
HInv(moves) ==
  games # None /\ Winnable =>
    Ready(g) /\ StandOrWon(g.rust, g.role, g.player, now, moves)

(* The numbers of a running game.                                          *)
LEMMA RunningNumbers ==
  ASSUME NEW d, NEW m, NEW refused, NEW t, Running(d, m, refused, t)
  PROVE  /\ d.lo \in Nat /\ d.hi \in Nat /\ d.lo < d.hi
         /\ d.last_move_at \in Nat /\ d.last_move_at <= t /\ d.clock_budget \in Nat
         /\ \A party \in Sides : d.clocks[party] \in Nat
<1>1. d.lo \in Nat /\ d.hi \in Nat /\ d.lo < d.hi
  BY Zenon DEF Running, SameBoard
<1>2. d.last_move_at \in Nat /\ d.last_move_at <= t /\ d.clock_budget \in Nat
  BY Zenon DEF Running, SameTime
<1>3. \A party \in Sides : d.clocks[party] \in Nat
  BY Zenon DEF Running, SameTime
<1> QED
  BY <1>1, <1>2, <1>3

(* A segment leaves fewer moves to pay for.                                *)
LEMMA FewerMoves ==
  ASSUME NEW moves, EnoughTime(moves), NEW lo \in Nat, NEW hi \in Nat, hi - lo >= 2,
         NEW len \in lengths, hi <= len,
         NEW i \in Nat, i < segment_count(lo, hi)
  PROVE  LET v == boundaries(lo, hi)[i + 1] - boundaries(lo, hi)[i]
         IN  /\ Reaction * moves[v] + Reaction <= Reaction * moves[hi - lo]
             /\ Reaction * moves[v] \in Nat /\ Reaction * moves[hi - lo] \in Nat
             /\ Reaction <= Reaction * moves[hi - lo]
<1> DEFINE v == boundaries(lo, hi)[i + 1] - boundaries(lo, hi)[i]
           x == moves[v]
           y == moves[hi - lo]
<1>1. len \in Nat
  BY VerifierAssumption DEF lengths
<1>2. lo < hi /\ lo \in 0..len /\ hi \in 0..len /\ hi - lo \in Nat
  BY <1>1
<1>3. segment_count(lo, hi) \in Nat
  BY <1>2, SameSegments
<1>4. v \in Nat
  BY <1>2, SameBoundaries
<1>5. i \in 0..(segment_count(lo, hi) - 1)
  BY <1>3
<1>6. x < y
  BY <1>2, <1>5 DEF EnoughTime
<1>7. x \in Nat /\ y \in Nat /\ Reaction \in Nat
  BY <1>2, <1>4 DEF EnoughTime
<1> HIDE DEF v, x, y
<1>8. \A a, b, c \in Nat : b < c => a * b + a <= a * c /\ a * b \in Nat /\ a * c \in Nat
                                   /\ a <= a * c
  <2> TAKE a, b, c \in Nat
  <2> HAVE b < c
  <2>1. c - b - 1 \in Nat
    OBVIOUS
  <2>2. a * (c - b - 1) \in Nat /\ a * b \in Nat /\ a * c \in Nat
    BY <2>1, Z3
  <2>3. a * c = a * b + a + a * (c - b - 1)
    BY <2>1, Z3
  <2> QED
    BY <2>2, <2>3
<1>9. Reaction * x + Reaction <= Reaction * y /\ Reaction * x \in Nat
      /\ Reaction * y \in Nat /\ Reaction <= Reaction * y
  BY <1>6, <1>7, <1>8
<1> QED
  BY <1>9 DEF v, x, y

(* On its turn the honest player is not late, and can make its move.       *)
LEMMA HonestInTime ==
  ASSUME NEW moves, EnoughTime(moves), NEW d, NEW m, NEW refused, NEW role \in Sides, NEW p,
         now \in Nat, Running(d, m, refused, now), Stand(d, role, p, now, moves),
         d.turn = role
  PROVE  ~late(d) /\ (d.stage = "bisecting" => may_move(d, role))
<1>1. /\ d.last_move_at \in Nat /\ d.last_move_at <= now /\ d.clocks[role] \in Nat
      /\ d.deadline = d.last_move_at + at_most(MOVE_TIMEOUT, d.clock_budget)
      /\ d.lo \in Nat /\ d.hi \in Nat /\ d.lo < d.hi
  BY DEF Running, SameBoard, SameTime
<1>2. /\ now - d.last_move_at <= Reaction /\ Reaction \in Nat
      /\ d.clock_budget = rust_budget(window) /\ rust_budget(window) \in Nat
      /\ Reaction <= MOVE_TIMEOUT /\ Reaction <= d.clock_budget
  BY VerifierAssumption DEF Stand, EnoughTime, rust_budget
<1>3. ~late(d)
  BY <1>1, <1>2, VerifierAssumption DEF late, at_most
<1>4. ASSUME d.stage = "bisecting"
      PROVE  ~exhausted(d, role)
  <2>1. d.hi - d.lo >= 2
    BY <1>1, <1>4 DEF Stand
  <2>2. PICK len \in lengths : d.hi <= len
    BY DEF Stand
  <2>3. segment_count(d.lo, d.hi) \in Nat \ {0}
    BY <1>1, SameSegments
  <2>4. 0 \in Nat /\ 0 < segment_count(d.lo, d.hi)
    BY <2>3
  <2>5. Reaction <= Reaction * moves[d.hi - d.lo] /\ Reaction * moves[d.hi - d.lo] \in Nat
    BY <1>1, <2>1, <2>2, <2>4, FewerMoves
  <2>6. Reaction * moves[d.hi - d.lo] <= d.clocks[role]
    BY DEF Stand
  <2> HIDE DEF EnoughTime
  <2> QED
    BY <1>1, <1>2, <2>5, <2>6 DEF exhausted, elapsed
<1> QED
  BY <1>1, <1>3, <1>4 DEF may_move, elapsed, over
(* The commitments at the boundaries are the two ends and the offer.       *)
LEMMA EndsAre ==
  ASSUME NEW d, NEW m, SameBoard(d, m), d.offered # None,
         NEW i \in 0..segment_count(d.lo, d.hi)
  PROVE  ends(d)[i + 1] = IF i = 0 THEN d.lo_commitment
                          ELSE IF i = segment_count(d.lo, d.hi) THEN d.hi_commitment
                          ELSE d.offered[1][i]
<1>1. /\ m.has_offer = TRUE /\ d.offered = <<m.offered>> /\ m.lo = d.lo /\ m.hi = d.hi
      /\ m.lo_commitment = d.lo_commitment /\ m.hi_commitment = d.hi_commitment
      /\ d.lo \in Nat /\ d.hi \in Nat /\ d.lo < d.hi
  BY DEF SameBoard
<1>2. Move!segments(m.lo, m.hi) = segment_count(d.lo, d.hi)
  BY <1>1, SameSegments
<1>3. ends(d)[i + 1] = Move!commitment_at(m, i)
  BY <1>1, SameEnds
<1> QED
  BY <1>1, <1>2, <1>3 DEF Move!commitment_at

(* When it defends, every commitment at a boundary is the player's own.    *)
LEMMA DefendedEnds ==
  ASSUME NEW d, NEW m, SameBoard(d, m), d.offered # None, NEW p,
         d.lo_commitment = state_at(p, d.lo), d.hi_commitment = state_at(p, d.hi),
         d.offered[1] = player_dissection(p, d),
         NEW i \in 0..segment_count(d.lo, d.hi)
  PROVE  ends(d)[i + 1] = state_at(p, boundaries(d.lo, d.hi)[i])
<1> DEFINE n == segment_count(d.lo, d.hi)
<1>1. d.lo \in Nat /\ d.hi \in Nat /\ d.lo < d.hi
  BY DEF SameBoard
<1>2. n \in Nat \ {0}
  BY <1>1, SameSegments
<1>3. /\ i = 0 => boundaries(d.lo, d.hi)[i] = d.lo
      /\ i = n => boundaries(d.lo, d.hi)[i] = d.hi
  BY <1>1, BoundaryRange
<1>4. ends(d)[i + 1] = IF i = 0 THEN d.lo_commitment ELSE IF i = n THEN d.hi_commitment
                       ELSE d.offered[1][i]
  BY EndsAre
<1>5. ASSUME i # 0, i # n
      PROVE  d.offered[1][i] = state_at(p, boundaries(d.lo, d.hi)[i])
  <2>1. i \in 1..dissection_len(d)
    BY <1>2, <1>5 DEF dissection_len
  <2>2. player_dissection(p, d)[i] = state_at(p, boundaries(d.lo, d.hi)[i])
    BY <2>1 DEF player_dissection
  <2> QED
    BY <2>2
<1> QED
  BY <1>3, <1>4, <1>5

(* When it challenges, it disagrees with some end, and about the first one *)
(* it disagrees with, it agrees with the end before.                       *)
LEMMA ChallengedEnds ==
  ASSUME NEW d, NEW m, SameBoard(d, m), d.offered # None, NEW p,
         d.lo_commitment = state_at(p, d.lo), d.hi_commitment # state_at(p, d.hi)
  PROVE  /\ disagreements(p, d) # {}
         /\ LET i == first_disagreement(p, d)
            IN  /\ i \in Nat /\ i < segment_count(d.lo, d.hi)
                /\ ends(d)[i + 1] = state_at(p, boundaries(d.lo, d.hi)[i])
                /\ ends(d)[i + 2] # state_at(p, boundaries(d.lo, d.hi)[i + 1])
<1> DEFINE n == segment_count(d.lo, d.hi)
           i == first_disagreement(p, d)
<1>1. d.lo \in Nat /\ d.hi \in Nat /\ d.lo < d.hi
  BY DEF SameBoard
<1>2. n \in Nat \ {0}
  BY <1>1, SameSegments
<1>3. disagreements(p, d) # {}
  <2>1. n - 1 \in 0..(n - 1) /\ (n - 1) + 1 = n /\ (n - 1) + 2 = n + 1 /\ n \in 0..n /\ n # 0
    BY <1>2
  <2>2. boundaries(d.lo, d.hi)[n] = d.hi
    BY <1>1, <2>1, BoundaryRange
  <2>3. ends(d)[n + 1] = d.hi_commitment
    BY <2>1, EndsAre
  <2>4. n - 1 \in disagreements(p, d)
    BY <2>1, <2>2, <2>3 DEF disagreements
  <2> QED
    BY <2>4
<1>4. /\ i \in disagreements(p, d) /\ i \in Nat
      /\ \A j \in disagreements(p, d) : i <= j
  BY <1>2, <1>3, FirstDisagreement
<1> HIDE DEF i
<1>5. i \in 0..(n - 1) /\ ends(d)[i + 2] # state_at(p, boundaries(d.lo, d.hi)[i + 1])
  BY <1>4 DEF disagreements
<1>6. ends(d)[i + 1] = state_at(p, boundaries(d.lo, d.hi)[i])
  <2>1. CASE i = 0
    <3>1. 0 \in 0..n
      BY <1>2
    <3>2. boundaries(d.lo, d.hi)[0] = d.lo /\ ends(d)[0 + 1] = d.lo_commitment
      BY <1>1, <3>1, BoundaryRange, EndsAre
    <3> QED
      BY <2>1, <3>2
  <2>2. CASE i # 0
    <3>1. i - 1 \in 0..(n - 1) /\ (i - 1) + 1 = i /\ (i - 1) + 2 = i + 1 /\ ~(i <= i - 1)
      BY <1>2, <1>5, <2>2
    <3>2. i - 1 \notin disagreements(p, d)
      BY <1>4, <3>1
    <3> QED
      BY <3>1, <3>2 DEF disagreements
  <2> QED
    BY <2>1, <2>2
<1>7. i < n
  BY <1>2, <1>5
<1> QED
  BY <1>3, <1>4, <1>5, <1>6, <1>7 DEF i
(* A segment the player agrees with the lower end of, and with the upper   *)
(* one just when it defends.                                               *)
Contested(d, role, p, i) ==
  /\ ends(d)[i + 1] = state_at(p, boundaries(d.lo, d.hi)[i])
  /\ (ends(d)[i + 2] = state_at(p, boundaries(d.lo, d.hi)[i + 1])) <=> (role = "defender")

(* An accepted selection of such a segment.                                *)
LEMMA SelectStands ==
  ASSUME NEW moves, EnoughTime(moves), NEW d, NEW m, NEW refused, NEW role \in Sides, NEW p,
         Len(p.program) \in Nat, now \in Nat, Running(d, m, refused, now), Stand(d, role, p, now, moves),
         d.stage = "bisecting", d.turn = "challenger", may_move(d, "challenger"),
         NEW i \in Nat, i < segment_count(d.lo, d.hi),
         NEW e, Selected(d, e, i), Contested(d, role, p, i)
  PROVE  Stand(e, role, p, now, moves) /\ ~over(e)
<1> DEFINE x == Reaction * moves[e.hi - e.lo]
           y == Reaction * moves[d.hi - d.lo]
<1>1. /\ d.lo \in Nat /\ d.hi \in Nat /\ d.lo < d.hi /\ d.hi - d.lo >= 2
      /\ d.clocks[role] \in Nat /\ d.last_move_at \in Nat /\ d.last_move_at <= now
  BY DEF Running, SameBoard, SameTime, Stand
<1>2. PICK len \in lengths : d.hi <= len
  BY DEF Stand
<1>3. e.lo = boundaries(d.lo, d.hi)[i] /\ e.hi = boundaries(d.lo, d.hi)[i + 1]
  BY DEF Selected
<1>4. x + Reaction <= y /\ x \in Nat /\ y \in Nat
  BY <1>1, <1>2, <1>3, FewerMoves
<1>5. Reaction \in Nat
  BY DEF EnoughTime
<1>6. e.lo \in Nat /\ e.hi \in Nat /\ e.lo < e.hi
  BY <1>1, <1>3, SameBoundaries
<1>7. e.hi <= d.hi
  <2>1. segment_count(d.lo, d.hi) \in 1..(d.hi - d.lo)
    BY <1>1, SameSegments, Zenon
  <2>2. i + 1 \in 0..segment_count(d.lo, d.hi)
    BY <1>1, <2>1
  <2>3. e.hi \in d.lo..d.hi
    BY <1>1, <1>3, <2>2, BoundaryRange
  <2> QED
    BY <1>1, <2>3
<1>8. e.hi <= len
  <2>1. len \in Nat
    BY VerifierAssumption DEF lengths
  <2> HIDE DEF x, y
  <2> QED
    BY <1>1, <1>2, <1>6, <1>7, <2>1
<1>9. x <= e.clocks[role]
  <2>1. e.clocks = charged(d, "challenger").clocks
    BY DEF Selected
  <2>2. "challenger" \in Sides
    BY DEF Sides
  <2>3. Paid(d, charged(d, "challenger"), "challenger")
    BY <2>2, ChargedFields, Zenon
  <2> HIDE DEF x, y
  <2>4. CASE role = "challenger"
    <3>1. y <= d.clocks[role] /\ elapsed(d) <= Reaction
      BY <2>4 DEF Stand, elapsed, y
    <3>2. e.clocks[role] = d.clocks[role] - elapsed(d)
      BY <2>1, <2>3, <2>4 DEF Paid
    <3>3. elapsed(d) \in Nat
      BY <1>1 DEF elapsed
    <3> QED
      BY <1>1, <1>4, <1>5, <3>1, <3>2, <3>3
  <2>5. CASE role = "defender"
    <3>1. y <= d.clocks[role] + Reaction
      BY <2>5 DEF Stand, y
    <3>2. e.clocks[role] = d.clocks[role]
      BY <2>1, <2>3, <2>5 DEF Paid
    <3> QED
      BY <1>1, <1>4, <1>5, <3>1, <3>2
  <2> QED
    BY <2>4, <2>5 DEF Sides
<1>10. x <= e.clocks[role] + Reaction
  <2>1. e.clocks[role] \in Int
    <3>1. "challenger" \in Sides
      BY DEF Sides
    <3>2. Paid(d, charged(d, "challenger"), "challenger")
      BY <3>1, ChargedFields, Zenon
    <3> QED
      BY <1>1, <3>2 DEF Paid, Selected
  <2> HIDE DEF x
  <2> QED
    BY <1>4, <1>5, <1>9, <2>1
<1>11. /\ e.winner = "nobody" /\ e.clock_budget = rust_budget(window)
       /\ e.lo_commitment = state_at(p, e.lo)
       /\ (e.hi_commitment = state_at(p, e.hi)) <=> (role = "defender")
       /\ e.stage = "one_step" <=> e.hi - e.lo = 1
       /\ e.stage = "bisecting" => e.turn # "challenger"
       /\ e.offered = None /\ e.last_move_at = now /\ ~over(e)
  BY DEF Selected, Stand, over, Contested
<1>12. now - now <= Reaction
  BY <1>5
<1>13. e.hi <= Len(p.program)
  BY <1>1, <1>6, <1>7 DEF Stand
<1> QED
  BY <1>2, <1>8, <1>9, <1>10, <1>11, <1>12, <1>13 DEF Stand
(* An accepted division, the player's own when it defends.                 *)
LEMMA DissectStands ==
  ASSUME NEW moves, EnoughTime(moves), NEW d, NEW m, NEW refused, NEW role \in Sides, NEW p,
         now \in Nat, Running(d, m, refused, now), Stand(d, role, p, now, moves),
         d.stage = "bisecting", d.turn = "defender", may_move(d, "defender"),
         NEW c, role = "defender" => c = player_dissection(p, d),
         NEW e, Offered(d, e, c)
  PROVE  Stand(e, role, p, now, moves) /\ ~over(e)
<1> DEFINE y == Reaction * moves[d.hi - d.lo]
           b == charged(d, "defender")
<1>1. /\ d.lo \in Nat /\ d.hi \in Nat /\ d.clocks[role] \in Nat
      /\ d.last_move_at \in Nat /\ d.last_move_at <= now /\ d.hi - d.lo \in Nat
  BY RunningNumbers
<1>2. Reaction \in Nat /\ moves[d.hi - d.lo] \in Nat
  BY <1>1 DEF EnoughTime
<1>3. y \in Nat
  BY <1>2, Z3
<1>4. "defender" \in Sides
  BY DEF Sides
<1>5. Paid(d, b, "defender")
  BY <1>4, ChargedFields, Zenon
<1>6. /\ e.lo = d.lo /\ e.hi = d.hi /\ e.turn = "challenger" /\ e.clocks = b.clocks
      /\ e.last_move_at = now /\ e.offered = <<c>> /\ <<c>> # None /\ <<c>>[1] = c
  BY DEF Offered, opposite, None
<1>7. y <= d.clocks[role]
  BY DEF Stand
<1>8. role = "defender" => e.turn # role /\ y <= e.clocks[role] + Reaction
  <2> HIDE DEF y
  <2> SUFFICES ASSUME role = "defender"
               PROVE  e.turn # role /\ y <= e.clocks[role] + Reaction
    OBVIOUS
  <2>1. elapsed(d) <= Reaction /\ elapsed(d) \in Nat
    BY <1>1 DEF Stand, elapsed
  <2>2. e.clocks[role] = d.clocks[role] - elapsed(d)
    BY <1>5, <1>6 DEF Paid
  <2> QED
    BY <1>1, <1>2, <1>3, <1>6, <1>7, <2>1, <2>2
<1>9. role # "defender" => y <= e.clocks[role]
  BY <1>5, <1>6, <1>7 DEF Paid
<1>10. now - now <= Reaction
  BY <1>2
<1>11. player_dissection(p, e) = player_dissection(p, d)
  BY <1>6 DEF player_dissection, dissection_len
<1>12. y = Reaction * moves[e.hi - e.lo]
  BY <1>6
<1> HIDE DEF y, b
<1>13. role = "defender" => e.offered[1] = player_dissection(p, e)
  BY <1>6, <1>11
<1>14. /\ e.hi <= Len(p.program) /\ \E len \in lengths : e.hi <= len
       /\ e.winner = "nobody" /\ e.clock_budget = rust_budget(window)
       /\ e.lo_commitment = state_at(p, e.lo)
       /\ (e.hi_commitment = state_at(p, e.hi)) <=> (role = "defender")
       /\ e.stage = "one_step" <=> e.hi - e.lo = 1
       /\ e.offered # None /\ ~over(e)
  BY <1>6 DEF Stand, Offered, over
<1> QED
  BY <1>6, <1>8, <1>9, <1>10, <1>12, <1>13, <1>14 DEF Stand

(* A move of the other side that is refused costs the player nothing, and  *)
(* one that ends the game ends it for the player.                          *)
LEMMA RefusedStands ==
  ASSUME NEW moves, NEW d, NEW m, NEW refused, NEW role \in Sides, NEW p,
         now \in Nat, Running(d, m, refused, now), Stand(d, role, p, now, moves),
         NEW e, e = charged(d, opposite(role))
  PROVE  StandOrWon(e, role, p, now, moves)
<1> DEFINE party == opposite(role)
<1>1. party \in Sides /\ party # role /\ opposite(party) = role
  BY DEF opposite, Sides
<1> HIDE DEF party
<1>2. ~over(d) /\ Shaped(d, RustFields)
  BY DEF Running, SameBoard, over
<1>3. CASE e = d
  BY <1>2, <1>3 DEF StandOrWon
<1>4. CASE e = ended(d, opposite(party), "timeout") \/ e = ended(d, opposite(party), "clock")
  <2>1. over(e) /\ e.winner = role
    BY <1>1, <1>2, <1>4 DEF ended, over, Shaped, RustFields
  <2> QED
    BY <2>1 DEF StandOrWon
<1>5. CASE may_move(d, party)
  <2>1. e = charged(d, party)
    BY DEF party
  <2>2. Paid(d, e, party)
    BY <1>1, <1>5, <2>1, ChargedFields, Zenon
  <2>3. /\ e.lo = d.lo /\ e.hi = d.hi /\ e.lo_commitment = d.lo_commitment
        /\ e.hi_commitment = d.hi_commitment /\ e.stage = d.stage /\ e.offered = d.offered
        /\ e.turn = d.turn /\ e.clock_budget = d.clock_budget
        /\ e.last_move_at = d.last_move_at /\ e.winner = d.winner
    BY <2>2 DEF Paid, RustFields
  <2>4. e.clocks[role] = d.clocks[role]
    BY <1>1, <2>2 DEF Paid
  <2>5. player_dissection(p, e) = player_dissection(p, d)
    BY <2>3 DEF player_dissection, dissection_len
  <2>6. Stand(e, role, p, now, moves)
    BY <2>3, <2>4, <2>5 DEF Stand
  <2>7. ~over(e)
    BY <1>2, <2>3 DEF over
  <2> QED
    BY <2>6, <2>7 DEF StandOrWon
<1>6. \/ e = d
      \/ e = ended(d, opposite(party), "timeout")
      \/ e = ended(d, opposite(party), "clock")
      \/ may_move(d, party)
  <2>1. e = charged(d, party)
    BY DEF party
  <2> QED
    BY <1>1, <2>1, ChargeCases, Zenon
<1> QED
  BY <1>3, <1>4, <1>5, <1>6
(* The state at a position of the trace.                                   *)
LEMMA StateAt ==
  ASSUME NEW p, Traced(p), NEW i \in 0..Len(p.program)
  PROVE  state_at(p, i) = MachineState(p.roots[i], i)
BY DEF Traced, state_at, at_most

(* The last step is decided for the player: its own proof shows that the   *)
(* challenged step is wrong, and no proof of anybody shows that of a step  *)
(* it defends.                                                             *)
Decided(d, role, p) ==
  /\ role = "challenger" =>
       can_prove(p, d) /\ adjudicate(p.program, d, one_step_proof(p, d)) = "challenger"
  /\ role = "defender" =>
       \A pre, witness :
         adjudicate(p.program, d, [pre_state |-> pre, witness |-> witness]) = "defender"

(* It is, once one step is left of a game the player stands well in.       *)
LEMMA StepDecides ==
  ASSUME NEW moves, NEW d, NEW m, NEW refused, NEW role \in Sides, NEW p, Traced(p),
         Running(d, m, refused, now), Stand(d, role, p, now, moves), d.stage = "one_step"
  PROVE  Decided(d, role, p)
<1> DEFINE n == Len(p.program)
           i == d.lo
           x == p.roots[i]
           y == p.roots[i + 1]
<1>1. i \in Nat /\ d.hi = i + 1 /\ n \in Nat /\ i < n
  <2>1. d.hi - d.lo = 1 /\ d.hi <= n
    BY DEF Stand
  <2>2. n \in Nat
    BY DEF Traced
  <2>3. d.lo \in Nat /\ d.hi \in Nat
    BY RunningNumbers
  <2> QED
    BY <2>1, <2>2, <2>3
<1>2. i \in 0..n /\ i + 1 \in 0..n /\ i \in 0..(n - 1) /\ ~(i >= n)
  BY <1>1
<1>3. state_at(p, i) = MachineState(x, i) /\ state_at(p, i + 1) = MachineState(y, i + 1)
  BY <1>2, StateAt
<1>4. y = p.program[i + 1][x] /\ y # STUCK
  BY <1>2 DEF Traced
<1>5. d.lo_commitment = MachineState(x, i)
  BY <1>3 DEF Stand
<1>6. (d.hi_commitment = MachineState(y, i + 1)) <=> (role = "defender")
  BY <1>1, <1>3 DEF Stand
<1>7. MachineState(x, i).state_root = x /\ MachineState(x, i).pc = i
  BY DEF MachineState
<1>8. can_prove(p, d)
  BY <1>1 DEF can_prove
<1> DEFINE proof == one_step_proof(p, d)
<1>9. proof.pre_state = MachineState(x, i) /\ proof.witness = "sound"
  BY <1>3 DEF one_step_proof
<1> HIDE DEF proof, n, i, x, y
<1>10. role = "challenger" => adjudicate(p.program, d, proof) = "challenger"
  <2> SUFFICES ASSUME role = "challenger"
               PROVE  adjudicate(p.program, d, proof) = "challenger"
    OBVIOUS
  <2>1. MachineState(y, i + 1) # d.hi_commitment
    BY <1>6
  <2> QED
    BY <1>2, <1>4, <1>5, <1>7, <1>9, <2>1 DEF adjudicate, n, i
<1>11. ASSUME role = "defender", NEW pre, NEW witness
       PROVE  adjudicate(p.program, d, [pre_state |-> pre, witness |-> witness]) = "defender"
  <2>1. MachineState(y, i + 1) = d.hi_commitment
    BY <1>6, <1>11
  <2> DEFINE q == [pre_state |-> pre, witness |-> witness]
  <2>2. q.pre_state = pre /\ q.witness = witness
    OBVIOUS
  <2> HIDE DEF q
  <2>3. adjudicate(p.program, d, q) = "defender"
    <3>1. CASE pre # d.lo_commitment
      BY <2>2, <3>1 DEF adjudicate
    <3>2. CASE pre = d.lo_commitment
      BY <1>2, <1>4, <1>5, <1>7, <2>1, <2>2, <3>2 DEF adjudicate, n, i
    <3> QED
      BY <3>1, <3>2
  <2> QED
    BY <2>3 DEF q
<1> QED
  BY <1>8, <1>10, <1>11 DEF proof, Decided
-----------------------------------------------------------------------------
(* A move changes neither the player nor what makes the game winnable.     *)
LEMMA BecomeStands ==
  ASSUME NEW moves, VInv, HInv(moves), playing, NEW e, NEW n, become(e, n),
         Winnable => StandOrWon(e, g.role, g.player, now, moves)
  PROVE  HInv(moves)'
<1> DEFINE r == g.refused \cup charged_in_vain(g.rust, e)
           q == [g EXCEPT !.rust = e, !.l1 = n, !.refused = r]
<1>1. Shaped(g, PairFields) /\ games # None
  BY DEF VInv, playing
<1>2. games' = <<q>> /\ now' = now
  BY DEF become
<1> HIDE DEF r
<1>3. /\ q.rust = e /\ q.role = g.role /\ q.player = g.player /\ q.program = g.program
      /\ q.claim = g.claim /\ q.own = g.own
  BY <1>1 DEF Shaped, PairFields
<1> HIDE DEF q
<1>4. g' = q
  BY <1>2 DEF g
<1>5. Winnable' <=> Winnable
  BY <1>3, <1>4, Zenon DEF Winnable
<1>6. Ready(g') <=> Ready(g)
  BY <1>3, <1>4, Zenon DEF Ready
<1>7. Winnable => StandOrWon(g'.rust, g'.role, g'.player, now', moves)
  BY <1>2, <1>3, <1>4
<1> QED
  BY <1>1, <1>5, <1>6, <1>7 DEF HInv

(* The player in a game that is being played and can be won.               *)
LEMMA Standing ==
  ASSUME NEW moves, VInv, HInv(moves), playing, Winnable
  PROVE  /\ now \in Nat /\ Running(g.rust, g.l1, g.refused, now)
         /\ g.role \in Sides /\ Traced(g.player) /\ g.player.program = g.program
         /\ Stand(g.rust, g.role, g.player, now, moves)
BY Playing DEF HInv, playing, Ready, StandOrWon, g

(* The player divides, or names the first end it disagrees with.           *)
LEMMA HonestPlayStands ==
  ASSUME NEW moves, EnoughTime(moves), VInv, HInv(moves), HonestPlay
  PROVE  HInv(moves)'
<1> DEFINE d == g.rust
           p == g.player
<1>1. playing /\ d.turn = g.role /\ d.stage = "bisecting"
  BY DEF HonestPlay, honest_turn
<1>2. CASE g.role = "defender" /\ Dissect(player_dissection(p, d))
  <2> DEFINE c == player_dissection(p, d)
             e == dissect(d, c)
             n == IF Move!can_dissect(g.l1, c, now) THEN Move!dissect(g.l1, c, now) ELSE g.l1
  <2>1. become(e, n)
    BY <1>2 DEF Dissect
  <2>2. ASSUME Winnable
        PROVE  StandOrWon(e, g.role, p, now, moves)
    <3>1. /\ now \in Nat /\ Running(d, g.l1, g.refused, now)
          /\ g.role \in Sides /\ Stand(d, g.role, p, now, moves)
      BY <1>1, <2>2, Standing, Zenon
    <3>2. may_move(d, "defender") /\ d.turn = "defender"
      BY <1>1, <1>2, <3>1, HonestInTime
    <3>3. Len(c) = dissection_len(d)
      <4>1. dissection_len(d) \in Nat
        BY <1>1, Playing, Zenon
      <4> QED
        BY <4>1 DEF player_dissection
    <3>4. e = turn_passed([charged(d, "defender") EXCEPT !.offered = <<c>>])
      BY <1>1, <3>2, <3>3, Zenon DEF dissect
    <3> HIDE DEF c, e
    <3>5. Offered(d, e, c)
      BY <3>1, <3>2, <3>4, DissectedHere, Zenon
    <3>6. g.role = "defender" => c = player_dissection(p, d)
      BY DEF c
    <3>7. Stand(e, g.role, p, now, moves) /\ ~over(e)
      BY <1>1, <3>1, <3>2, <3>5, <3>6, DissectStands, Zenon
    <3> QED
      BY <3>7 DEF StandOrWon
  <2> QED
    BY <1>1, <2>1, <2>2, BecomeStands, Zenon
<1>3. CASE g.role = "challenger" /\ Select(first_disagreement(p, d))
  <2> DEFINE i == first_disagreement(p, d)
             e == select(d, i)
             n == IF Move!can_select(g.l1, i, now) THEN Move!select(g.l1, i, now) ELSE g.l1
  <2>1. become(e, n)
    BY <1>3 DEF Select
  <2>2. ASSUME Winnable
        PROVE  StandOrWon(e, g.role, p, now, moves)
    <3>1. /\ now \in Nat /\ Running(d, g.l1, g.refused, now)
          /\ g.role \in Sides /\ Stand(d, g.role, p, now, moves) /\ Traced(p)
      BY <1>1, <2>2, Standing, Zenon
    <3>2. may_move(d, "challenger") /\ d.turn = "challenger"
      BY <1>1, <1>3, <3>1, HonestInTime
    <3>3. /\ SameBoard(d, g.l1) /\ d.offered # None /\ d.lo_commitment = state_at(p, d.lo)
          /\ d.hi_commitment # state_at(p, d.hi) /\ Len(p.program) \in Nat
      BY <1>1, <1>3, <3>1 DEF Running, Stand, Traced
    <3>4. /\ i \in Nat /\ i < segment_count(d.lo, d.hi)
          /\ ends(d)[i + 1] = state_at(p, boundaries(d.lo, d.hi)[i])
          /\ ends(d)[i + 2] # state_at(p, boundaries(d.lo, d.hi)[i + 1])
      BY <3>3, ChallengedEnds, Zenon
    <3> HIDE DEF i
    <3>5. Selected(d, e, i)
      BY <1>1, <3>1, <3>2, <3>3, <3>4, SelectedHere, Zenon
    <3>6. Contested(d, g.role, p, i)
      BY <1>3, <3>4 DEF Contested
    <3> HIDE DEF e
    <3>7. Stand(e, g.role, p, now, moves) /\ ~over(e)
      BY <1>1, <3>1, <3>2, <3>3, <3>4, <3>5, <3>6, SelectStands, Zenon
    <3> QED
      BY <3>7 DEF StandOrWon
  <2> QED
    BY <1>1, <2>1, <2>2, BecomeStands, Zenon
<1> QED
  BY <1>2, <1>3 DEF HonestPlay
(* The other side divides, rightly or wrongly, in time or not.             *)
LEMMA OtherDissectStands ==
  ASSUME NEW moves, EnoughTime(moves), VInv, HInv(moves), playing, g.role = "challenger",
         g.rust.turn = "defender", NEW c, Dissect(c)
  PROVE  HInv(moves)'
<1> DEFINE d == g.rust
           p == g.player
           e == dissect(d, c)
           n == IF Move!can_dissect(g.l1, c, now) THEN Move!dissect(g.l1, c, now) ELSE g.l1
<1>1. become(e, n)
  BY DEF Dissect
<1>2. ASSUME Winnable
      PROVE  StandOrWon(e, g.role, p, now, moves)
  <2>1. /\ now \in Nat /\ Running(d, g.l1, g.refused, now)
        /\ g.role \in Sides /\ Stand(d, g.role, p, now, moves)
    BY <1>2, Standing, Zenon
  <2>2. CASE may_move(d, "defender") /\ d.stage = "bisecting" /\ Len(c) = dissection_len(d)
    <3>1. e = turn_passed([charged(d, "defender") EXCEPT !.offered = <<c>>])
      BY <2>2, Zenon DEF dissect
    <3> HIDE DEF e
    <3>2. Offered(d, e, c)
      BY <2>1, <2>2, <3>1, DissectedHere, Zenon
    <3>3. g.role = "defender" => c = player_dissection(p, d)
      OBVIOUS
    <3>4. Stand(e, g.role, p, now, moves) /\ ~over(e)
      BY <2>1, <2>2, <3>2, <3>3, DissectStands, Zenon
    <3> QED
      BY <3>4 DEF StandOrWon
  <2>3. CASE ~(may_move(d, "defender") /\ d.stage = "bisecting" /\ Len(c) = dissection_len(d))
    <3>1. e = charged(d, opposite(g.role))
      BY <2>3 DEF dissect, opposite
    <3> HIDE DEF e
    <3> QED
      BY <2>1, <3>1, RefusedStands, Zenon
  <2> QED
    BY <2>2, <2>3
<1> QED
  BY <1>1, <1>2, BecomeStands, Zenon

(* The other side names a segment, there or not, in time or not.           *)
LEMMA OtherSelectStands ==
  ASSUME NEW moves, EnoughTime(moves), VInv, HInv(moves), playing, g.role = "defender",
         g.rust.turn = "challenger", NEW i \in Nat, Select(i)
  PROVE  HInv(moves)'
<1> DEFINE d == g.rust
           p == g.player
           e == select(d, i)
           n == IF Move!can_select(g.l1, i, now) THEN Move!select(g.l1, i, now) ELSE g.l1
           fits == /\ may_move(d, "challenger") /\ d.stage = "bisecting" /\ d.offered # None
                   /\ i < segment_count(d.lo, d.hi)
<1>1. become(e, n)
  BY DEF Select
<1>2. ASSUME Winnable
      PROVE  StandOrWon(e, g.role, p, now, moves)
  <2>1. /\ now \in Nat /\ Running(d, g.l1, g.refused, now) /\ Traced(p)
        /\ g.role \in Sides /\ Stand(d, g.role, p, now, moves)
    BY <1>2, Standing, Zenon
  <2>2. CASE fits
    <3>1. Selected(d, e, i)
      BY <2>1, <2>2, SelectedHere, Zenon
    <3>2. /\ SameBoard(d, g.l1) /\ d.lo_commitment = state_at(p, d.lo)
          /\ d.hi_commitment = state_at(p, d.hi) /\ d.offered[1] = player_dissection(p, d)
          /\ Len(p.program) \in Nat
      BY <2>1, <2>2 DEF Running, Stand, Traced
    <3>3. segment_count(d.lo, d.hi) \in Nat
      BY Playing
    <3>4. i \in 0..segment_count(d.lo, d.hi) /\ i + 1 \in 0..segment_count(d.lo, d.hi)
          /\ (i + 1) + 1 = i + 2
      BY <2>2, <3>3
    <3>5. ends(d)[(i + 1) + 1] = state_at(p, boundaries(d.lo, d.hi)[i + 1])
      BY <2>2, <3>2, <3>4, DefendedEnds, Zenon
    <3>6. ends(d)[i + 1] = state_at(p, boundaries(d.lo, d.hi)[i])
      BY <2>2, <3>2, <3>4, DefendedEnds, Zenon
    <3>7. Contested(d, g.role, p, i)
      BY <3>4, <3>5, <3>6 DEF Contested
    <3> HIDE DEF e
    <3>8. Stand(e, g.role, p, now, moves) /\ ~over(e)
      BY <2>1, <2>2, <3>1, <3>2, <3>7, SelectStands, Zenon
    <3> QED
      BY <3>8 DEF StandOrWon
  <2>3. CASE ~fits
    <3>1. e = charged(d, opposite(g.role))
      BY <2>3 DEF select, opposite
    <3> HIDE DEF e
    <3> QED
      BY <2>1, <3>1, RefusedStands, Zenon
  <2> QED
    BY <2>2, <2>3
<1> QED
  BY <1>1, <1>2, BecomeStands, Zenon

(* The proof of the last step, the player's or the other side's.           *)
LEMMA ProofStands ==
  ASSUME NEW moves, VInv, HInv(moves), playing, NEW proof, Prove(proof),
         \/ g.role = "challenger" /\ proof = one_step_proof(g.player, g.rust)
         \/ /\ g.role = "defender"
            /\ \E pre, witness : proof = [pre_state |-> pre, witness |-> witness]
  PROVE  HInv(moves)'
<1> DEFINE d == g.rust
           x == adjudicate(g.program, d, proof)
           e == resolve_by_one_step(d, x)
           n == IF Move!can_one_step(g.l1, now) THEN Move!one_step(g.l1, x, now) ELSE g.l1
<1>1. become(e, n) /\ d.stage = "one_step"
  BY DEF Prove
<1>2. ASSUME Winnable
      PROVE  StandOrWon(e, g.role, g.player, now, moves)
  <2>1. /\ Running(d, g.l1, g.refused, now) /\ Traced(g.player) /\ g.role \in Sides
        /\ Stand(d, g.role, g.player, now, moves) /\ g.player.program = g.program
    BY <1>2, Standing, Zenon
  <2>2. x = g.role
    <3> HIDE DEF d
    <3>0. Decided(d, g.role, g.player)
      BY <1>1, <2>1, StepDecides, Zenon
    <3>1. CASE g.role = "challenger" /\ proof = one_step_proof(g.player, g.rust)
      <4>1. adjudicate(g.player.program, d, one_step_proof(g.player, d)) = "challenger"
        BY <3>0, <3>1 DEF Decided
      <4> QED
        BY <2>1, <3>1, <4>1 DEF d
    <3>2. ASSUME g.role = "defender", NEW pre, NEW witness,
                 proof = [pre_state |-> pre, witness |-> witness]
          PROVE  x = g.role
      <4>1. adjudicate(g.player.program, d, [pre_state |-> pre, witness |-> witness])
              = "defender"
        BY <3>0, <3>2 DEF Decided
      <4> QED
        BY <2>1, <3>2, <4>1
    <3> QED
      BY <3>1, <3>2
  <2>3. Shaped(d, RustFields)
    BY <2>1 DEF Running, SameBoard
  <2> HIDE DEF x
  <2>4. over(e) /\ e.winner = x
    BY <2>3 DEF resolve_by_one_step, ended, over, Shaped, RustFields
  <2> QED
    BY <2>2, <2>4 DEF StandOrWon
<1> QED
  BY <1>1, <1>2, BecomeStands, Zenon

(* A timeout is never the player's.                                        *)
LEMMA TimeoutStands ==
  ASSUME NEW moves, EnoughTime(moves), VInv, HInv(moves), CheckTimeout
  PROVE  HInv(moves)'
<1> DEFINE d == g.rust
           e == check_timeout(d)
           n == IF Move!can_claim_timeout(g.l1, now) THEN Move!claim_timeout(g.l1) ELSE g.l1
<1>1. become(e, n) /\ playing /\ late(d)
  BY DEF CheckTimeout
<1>2. ASSUME Winnable
      PROVE  StandOrWon(e, g.role, g.player, now, moves)
  <2>1. /\ now \in Nat /\ Running(d, g.l1, g.refused, now) /\ g.role \in Sides
        /\ Stand(d, g.role, g.player, now, moves)
    BY <1>1, <1>2, Standing, Zenon
  <2>2. d.turn # g.role
    BY <1>1, <2>1, HonestInTime, Zenon
  <2>3. Shaped(d, RustFields) /\ ~over(d) /\ d.turn \in Sides
    BY <2>1 DEF Running, SameBoard, over
  <2>4. opposite(d.turn) = g.role
    BY <2>1, <2>2, <2>3 DEF opposite, Sides
  <2>5. over(e) /\ e.winner = opposite(d.turn)
    BY <1>1, <2>3 DEF check_timeout, ended, over, Shaped, RustFields
  <2> QED
    BY <2>4, <2>5 DEF StandOrWon
<1> QED
  BY <1>1, <1>2, BecomeStands, Zenon
(* Time passes on the player's turn only while it is within its reaction,  *)
(* for it always has a move to make.                                       *)
LEMMA TickStands ==
  ASSUME NEW moves, EnoughTime(moves), VInv, HInv(moves), GameTick
  PROVE  HInv(moves)'
<1> DEFINE d == g.rust
           p == g.player
<1>1. playing /\ games' = games /\ now' = now + 1
  BY DEF GameTick
<1>2. g' = g /\ (Winnable' <=> Winnable)
  BY <1>1, Zenon DEF g, Winnable
<1>3. ASSUME Winnable
      PROVE  StandOrWon(d, g.role, p, now + 1, moves)
  <2>1. /\ now \in Nat /\ Running(d, g.l1, g.refused, now) /\ Traced(p)
        /\ g.role \in Sides /\ Stand(d, g.role, p, now, moves)
    BY <1>1, <1>3, Standing, Zenon
  <2>2. d.last_move_at \in Nat /\ Reaction \in Nat /\ d.last_move_at <= now
        /\ d.stage \in {"bisecting", "one_step"} /\ SameBoard(d, g.l1)
    BY <2>1 DEF Running, SameBoard, SameTime, EnoughTime
  <2>3. ASSUME d.turn = g.role
        PROVE  can_play(p, d, g.role) \/ can_prove(p, d)
    <3>1. CASE g.role = "defender"
      BY <3>1 DEF can_play
    <3>2. CASE g.role = "challenger" /\ d.stage = "bisecting"
      <4>1. d.offered # None /\ d.lo_commitment = state_at(p, d.lo)
            /\ d.hi_commitment # state_at(p, d.hi)
        BY <2>1, <2>3, <3>2 DEF Stand
      <4>2. disagreements(p, d) # {}
        BY <2>2, <4>1, ChallengedEnds, Zenon
      <4> QED
        BY <3>2, <4>1, <4>2 DEF can_play
    <3>3. CASE g.role = "challenger" /\ d.stage = "one_step"
      <4>1. Decided(d, g.role, p)
        BY <2>1, <3>3, StepDecides, Zenon
      <4> QED
        BY <3>3, <4>1 DEF Decided
    <3> QED
      BY <2>1, <2>2, <3>1, <3>2, <3>3 DEF Sides
  <2>4. d.turn = g.role => elapsed(d) < Reaction
    BY <1>1, <2>3 DEF GameTick, honest_turn
  <2>5. d.turn = g.role => (now + 1) - d.last_move_at <= Reaction
    BY <2>1, <2>2, <2>4 DEF elapsed
  <2>6. Stand(d, g.role, p, now + 1, moves)
    BY <2>1, <2>5 DEF Stand
  <2>7. ~over(d)
    BY <2>2 DEF over
  <2> QED
    BY <2>6, <2>7 DEF StandOrWon
<1> QED
  BY <1>1, <1>2, <1>3 DEF HInv, playing

(* A game opened by the player's own trace: it agrees with the state       *)
(* before the batch, and with the one asserted just when it defends.       *)
LEMMA OpeningStands ==
  ASSUME NEW moves, EnoughTime(moves), now \in Nat, NEW role \in Sides, NEW p, NEW program,
         NEW claim, claim.trace_length \in lengths,
         Traced(p), p.program = program,
         role = "defender" => /\ claim.trace_length = Len(program)
                              /\ claim.post_state_root = final_root(p),
         games' = opening(role, p, program, claim, TRUE), now' = now
  PROVE  HInv(moves)'
<1> DEFINE len == claim.trace_length
           a == state_at(p, 0)
           b == MachineState(claim.post_state_root, claim.trace_length)
           d == open(len, a, b)
           m == [Move!new_dispute(len, b, window, now) EXCEPT !.lo_commitment = a]
           q == [rust |-> d, l1 |-> m, role |-> role, player |-> p, program |-> program,
                 claim |-> claim, own |-> TRUE, refused |-> {}]
<1>1. games' = <<q>>
  BY DEF opening
<1>2. len \in Nat \ {0}
  BY VerifierAssumption DEF lengths
<1>3. Opened(d, len, a, b)
  BY <1>2, OpenedHere, Zenon
<1> HIDE DEF d, m
<1>4. /\ q.rust = d /\ q.role = role /\ q.player = p /\ q.program = program
      /\ q.claim = claim /\ q.own = TRUE
  OBVIOUS
<1> HIDE DEF q
<1>5. g' = q
  <2>1. <<q>>[1] = q
    OBVIOUS
  <2>2. games'[1] = <<q>>[1]
    BY <1>1, Zenon
  <2> QED
    BY <2>1, <2>2, Zenon DEF g
<1>6. Winnable' <=> (role = "challenger" => len <= Len(program) /\ state_at(p, len) # b)
  BY <1>4, <1>5, Zenon DEF Winnable
<1>7. Ready(q)
  BY <1>4 DEF Ready
<1>8. ASSUME role = "challenger" => len <= Len(program) /\ state_at(p, len) # b
      PROVE  StandOrWon(d, role, p, now, moves)
  <2>1. /\ d.lo = 0 /\ d.hi = len /\ d.lo_commitment = a /\ d.hi_commitment = b
        /\ d.offered = None /\ d.winner = "nobody" /\ d.clock_budget = rust_budget(window)
        /\ d.stage = (IF len = 1 THEN "one_step" ELSE "bisecting")
        /\ d.turn = (IF len = 1 THEN "challenger" ELSE "defender")
        /\ d.clocks[role] = rust_budget(window) /\ d.last_move_at = now
    BY <1>3 DEF Opened
  <2>2. Len(p.program) \in Nat
    BY DEF Traced
  <2>3. len <= Len(p.program)
    BY <1>2, <1>8, <2>2 DEF Sides
  <2>4. (b = state_at(p, len)) <=> (role = "defender")
    <3>1. CASE role = "challenger"
      BY <1>8, <3>1
    <3>2. CASE role = "defender"
      <4>1. len \in 0..Len(p.program) /\ len = Len(p.program)
        BY <1>2, <2>2, <3>2
      <4>2. state_at(p, len) = MachineState(p.roots[len], len)
        BY <4>1, StateAt, Zenon
      <4> QED
        BY <3>2, <4>1, <4>2 DEF final_root
    <3> QED
      BY <3>1, <3>2 DEF Sides
  <2>5. Reaction * moves[len] <= rust_budget(window) /\ Reaction \in Nat
    BY DEF EnoughTime
  <2>6. len - 0 = len /\ moves[len] \in Nat /\ rust_budget(window) \in Nat
    BY <1>2, VerifierAssumption DEF EnoughTime, rust_budget
  <2>7. Reaction * moves[len] \in Nat
    BY <2>5, <2>6, Z3
  <2> HIDE DEF len, a, b
  <2>8. d.hi - d.lo = len
    BY <2>1, <2>6
  <2>9. /\ Reaction * moves[d.hi - d.lo] <= d.clocks[role]
        /\ Reaction * moves[d.hi - d.lo] <= d.clocks[role] + Reaction
    BY <2>1, <2>5, <2>6, <2>7, <2>8
  <2>10. now - d.last_move_at <= Reaction
    BY <2>1, <2>5
  <2>11. d.lo_commitment = state_at(p, d.lo)
    BY <2>1 DEF a
  <2>12. d.hi <= Len(p.program) /\ \E k \in lengths : d.hi <= k
    BY <1>2, <2>1, <2>3 DEF len
  <2>13. Stand(d, role, p, now, moves)
    BY <2>1, <2>4, <2>8, <2>9, <2>10, <2>11, <2>12 DEF Stand
  <2>14. ~over(d)
    BY <2>1 DEF over
  <2> QED
    BY <2>13, <2>14 DEF StandOrWon
<1> QED
  BY <1>4, <1>5, <1>6, <1>7, <1>8 DEF HInv
(* The player's games are opened with its own trace, or cannot be won.     *)
LEMMA OpensStand ==
  ASSUME NEW moves, EnoughTime(moves), VInv, HInv(moves), NEW program \in Programs,
         \/ \E root \in Roots, length \in TraceLengths :
              Follow(program, [post_state_root |-> root, trace_length |-> length])
         \/ Contest(program)
  PROVE  HInv(moves)'
<1> DEFINE p == TracePlayer(program, node.state)
<1>1. now \in Nat /\ Len(program) \in Nat \ {0} /\ Len(program) \in lengths
  BY VerifierAssumption DEF VInv, lengths
<1>2. executable(program, node.state) => Traced(p) /\ p.program = program
  BY <1>1, ExecutesTraced
<1>3. "defender" \in Sides /\ "challenger" \in Sides
  BY DEF Sides
<1> HIDE DEF p
<1>4. ASSUME NEW root \in Roots, NEW length \in TraceLengths,
             Follow(program, [post_state_root |-> root, trace_length |-> length])
      PROVE  HInv(moves)'
  <2> DEFINE claim == [post_state_root |-> root, trace_length |-> length]
  <2>1. claim.trace_length \in lengths
    BY DEF lengths
  <2> HIDE DEF claim
  <2>2. Follow(program, claim)
    BY <1>4 DEF claim
  <2>3. now' = now /\ games = None
    BY <2>2 DEF Follow
  <2>4. CASE games' = None
    BY <2>4 DEF HInv
  <2>5. CASE games' = opening("challenger", node.last_trace[1], program, claim, FALSE)
    <3>1. g'.role = "challenger" /\ g'.own = FALSE
      <4> DEFINE q == [rust |-> open(claim.trace_length, state_at(node.last_trace[1], 0),
                                     MachineState(claim.post_state_root, claim.trace_length)),
                       l1 |-> [Move!new_dispute(claim.trace_length,
                                 MachineState(claim.post_state_root, claim.trace_length),
                                 window, now)
                                 EXCEPT !.lo_commitment = state_at(node.last_trace[1], 0)],
                       role |-> "challenger", player |-> node.last_trace[1],
                       program |-> program, claim |-> claim, own |-> FALSE, refused |-> {}]
      <4>1. games' = <<q>>
        BY <2>5 DEF opening
      <4>2. q.role = "challenger" /\ q.own = FALSE
        OBVIOUS
      <4> HIDE DEF q
      <4> QED
        BY <4>1, <4>2 DEF g
    <3>2. ~Winnable'
      BY <3>1 DEF Winnable
    <3> QED
      BY <3>2 DEF HInv
  <2>6. CASE /\ executable(program, node.state)
             /\ games' = opening("challenger", p, program, claim, TRUE)
    <3>1. Traced(p) /\ p.program = program
      BY <1>2, <2>6
    <3>2. "challenger" = "defender" => /\ claim.trace_length = Len(program)
                                       /\ claim.post_state_root = final_root(p)
      OBVIOUS
    <3> QED
      BY <1>1, <1>3, <2>1, <2>3, <2>6, <3>1, <3>2, OpeningStands, Zenon
  <2> QED
    BY <2>2, <2>3, <2>4, <2>5, <2>6 DEF Follow, p
<1>5. ASSUME Contest(program)
      PROVE  HInv(moves)'
  <2> DEFINE claim == [post_state_root |-> final_root(p), trace_length |-> Len(program)]
  <2>1. /\ executable(program, node.state) /\ now' = now
        /\ games' = opening("defender", p, program, claim, TRUE)
    BY <1>5 DEF Contest, p
  <2>2. claim.trace_length = Len(program) /\ claim.post_state_root = final_root(p)
    OBVIOUS
  <2> HIDE DEF claim
  <2>3. Traced(p) /\ p.program = program /\ claim.trace_length \in lengths
    BY <1>1, <1>2, <2>1, <2>2
  <2> QED
    BY <1>1, <1>3, <2>1, <2>2, <2>3, OpeningStands, Zenon
<1> QED
  BY <1>4, <1>5

(* The player's standing is an invariant.                                  *)
LEMMA HInductive ==
  ASSUME NEW moves, EnoughTime(moves)
  PROVE  VInv /\ HInv(moves) /\ [GameNext]_gameVars => HInv(moves)'
<1> SUFFICES ASSUME VInv, HInv(moves), [GameNext]_gameVars PROVE HInv(moves)'
  OBVIOUS
<1>1. CASE \E program \in Programs :
             \/ \E root \in Roots, length \in TraceLengths :
                  Follow(program, [post_state_root |-> root, trace_length |-> length])
             \/ Contest(program)
  BY <1>1, OpensStand
<1>2. CASE HonestPlay
  BY <1>2, HonestPlayStands
<1>3. CASE HonestProve
  <2>1. /\ playing /\ g.rust.turn = g.role /\ g.rust.stage = "one_step"
        /\ Prove(one_step_proof(g.player, g.rust))
    BY <1>3 DEF HonestProve, honest_turn, can_prove
  <2>2. g.role = "challenger"
    BY <2>1, Playing DEF Running, SameBoard
  <2> QED
    BY <2>1, <2>2, ProofStands
<1>4. CASE OtherDissects
  <2>1. playing /\ g.role = "challenger" /\ g.rust.turn = "defender"
    BY <1>4 DEF OtherDissects
  <2>2. \E c : Dissect(c)
    BY <1>4, Zenon DEF OtherDissects
  <2> QED
    BY <2>1, <2>2, OtherDissectStands, Zenon
<1>5. CASE OtherSelects
  <2>1. playing /\ g.role = "defender" /\ g.rust.turn = "challenger"
    BY <1>5 DEF OtherSelects
  <2>2. segment_count(g.rust.lo, g.rust.hi) \in Nat
    BY <2>1, Playing
  <2>3. PICK i \in 0..segment_count(g.rust.lo, g.rust.hi) : Select(i)
    BY <1>5 DEF OtherSelects
  <2>4. i \in Nat
    BY <2>2
  <2> QED
    BY <2>1, <2>3, <2>4, OtherSelectStands, Zenon
<1>6. CASE OtherProves
  <2>1. PICK pre, witness : Prove([pre_state |-> pre, witness |-> witness])
    BY <1>6, Zenon DEF OtherProves
  <2>2. playing /\ g.role = "defender"
    BY <1>6 DEF OtherProves
  <2> DEFINE proof == [pre_state |-> pre, witness |-> witness]
  <2>3. \E x, y : proof = [pre_state |-> x, witness |-> y]
    BY Zenon
  <2> HIDE DEF proof
  <2>4. Prove(proof)
    BY <2>1 DEF proof
  <2> QED
    BY <2>2, <2>3, <2>4, ProofStands, Zenon
<1>7. CASE CheckTimeout
  BY <1>7, TimeoutStands
<1>8. CASE GameTick
  BY <1>8, TickStands
<1>9. CASE UNCHANGED gameVars
  <2>1. games' = games /\ now' = now
    BY <1>9 DEF gameVars
  <2> QED
    BY <2>1, Zenon DEF HInv, g, Winnable
<1> QED
  BY <1>1, <1>2, <1>3, <1>4, <1>5, <1>6, <1>7, <1>8, <1>9 DEF GameNext

(* The player that answers from the trace it computed does not lose, when  *)
(* its reaction fits the deadlines and its budget the moves of the longest *)
(* game: not as the proposer of a right assertion, and not as the verifier *)
(* of a wrong one inside its trace, whatever the other side does.          *)
THEOREM HonestPlayPrevails ==
  ASSUME NEW moves, EnoughTime(moves)
  PROVE  GameSpec => []HonestPlayerWins
<1>1. GameInit => HInv(moves)
  BY DEF GameInit, HInv
<1>2. HInv(moves) => HonestPlayerWins
  <2> SUFFICES ASSUME HInv(moves), games # None, Winnable
               PROVE  g.rust.winner \in {"nobody", g.role}
    BY DEF HonestPlayerWins
  <2>1. StandOrWon(g.rust, g.role, g.player, now, moves)
    BY DEF HInv
  <2> QED
    BY <2>1 DEF StandOrWon, Stand
<1>3. VInv /\ HInv(moves) /\ [GameNext]_gameVars => HInv(moves)'
  BY HInductive
<1> QED
  BY <1>1, <1>2, <1>3, VInvariant, PTL DEF GameSpec
=============================================================================
