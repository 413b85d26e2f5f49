-------------------------- MODULE BisectionProofs ---------------------------
(***************************************************************************)
(* Proofs about one bisection game, for every arity, move timeout, window, *)
(* trace length and choice of honest parties: every step of Bisection      *)
(* preserves IInv.                                                         *)
(***************************************************************************)
EXTENDS Bisection, DisputeGameProofs

-----------------------------------------------------------------------------
(* What an honest party keeps true.                                        *)
HonestLine == Line(d, honest)

IInv ==
  /\ TypeOK
  /\ ClocksAccountForTime
  /\ LogarithmicRounds
  /\ HonestLine
  /\ HonestWinsByProof

(* The rest of TypeOK, once the game has been played by the rules.         *)
HistoryOK ==
  /\ now \in Nat
  /\ honest \in HonestRoles
  /\ trace_length \in TraceLength
  /\ reach \in Nat \ {0}
  /\ ended \in {UNDECIDED, BY_PROOF, BY_TIMEOUT}
  /\ d.stage = RESOLVED <=> ended # UNDECIDED
  /\ d.stage = RESOLVED <=> d.winner # NOBODY

(* TypeOK is the rules of the game and its history.                        *)
LEMMA TypeOKIs == TypeOK <=> HistoryOK /\ GameOK(d, now)
BY DEF TypeOK, HistoryOK, GameOK, Dispute

(* The record of a state that satisfies TypeOK.                            *)
LEMMA DisputeTyped ==
  ASSUME TypeOK
  PROVE  /\ d \in Dispute /\ now \in Nat /\ d.last_move_at <= now
         /\ d.lo \in Nat /\ d.hi \in Nat /\ d.lo < d.hi
         /\ d.defender_clock \in Nat /\ d.challenger_clock \in Nat
         /\ d.last_move_at \in Nat
BY DEF TypeOK, Dispute

(* The budget of each party is a number.                                   *)
LEMMA BudgetTyped == budget \in Nat
BY GameAssumption, BisectionAssumption DEF budget, clock_budget

(* The game that `open` creates.                                           *)
LEMMA InitInductive == Init => IInv
<1> SUFFICES ASSUME Init PROVE IInv
  OBVIOUS
<1>1. PICK claim \in Commitment :
        /\ DEFENDER \in honest => claim = HONEST
        /\ CHALLENGER \in honest => claim = FORGED
        /\ d = new_dispute(trace_length, claim, window, 0)
  BY DEF Init
<1>2. /\ now = 0 /\ honest \in HonestRoles /\ trace_length \in TraceLength
      /\ reach = 1 /\ ended = UNDECIDED /\ trace_length \in Nat \ {0}
  BY BisectionAssumption DEF Init
<1>3. /\ Opened(d, trace_length, claim, window, 0)
      /\ GameOK(d, 0) /\ Line(d, honest)
  <2>1. /\ trace_length \in Nat \ {0} /\ claim \in Commitment /\ window \in Nat
        /\ 0 \in Nat
        /\ CHALLENGER \in honest => claim = FORGED
        /\ DEFENDER \in honest => claim = HONEST
    BY <1>1, <1>2, BisectionAssumption
  <2> DEFINE e == new_dispute(trace_length, claim, window, 0)
  <2>2. Opened(e, trace_length, claim, window, 0) /\ GameOK(e, 0) /\ Line(e, honest)
    BY <2>1, OpenKeeps, Zenon
  <2>3. QED
    BY <1>1, <2>2
<1>4. TypeOK
  <2>1. HistoryOK
    BY <1>2, <1>3
       DEF HistoryOK, Opened, UNDECIDED, BISECTING, ONE_STEP, RESOLVED, NOBODY
  <2>2. QED
    BY <1>2, <1>3, <2>1, TypeOKIs
<1>5. ClocksAccountForTime
  BY <1>3, BudgetTyped DEF ClocksAccountForTime, Opened, budget
<1>6. LogarithmicRounds
  BY <1>2, <1>3 DEF LogarithmicRounds, Opened
<1>7. HonestWinsByProof
  BY <1>2 DEF HonestWinsByProof, UNDECIDED, BY_PROOF
<1>8. QED
  BY <1>3, <1>4, <1>5, <1>6, <1>7 DEF IInv, HonestLine

(* The clocks still account for the time after a move that one is charged. *)
LEMMA ChargedAccounts ==
  ASSUME IInv, d.stage = BISECTING, NEW role \in Role,
         d' \in Dispute, d'.last_move_at = now, Charged(d, d', role, now)
  PROVE  ClocksAccountForTime'
<1>1. budget' = budget
  BY DEF budget, clock_budget
<1>2. d.last_move_at + d.defender_clock + d.challenger_clock = 2 * budget
  BY DEF IInv, ClocksAccountForTime, BISECTING, RESOLVED
<1>3. d'.defender_clock \in Nat /\ d'.challenger_clock \in Nat
  BY DEF Dispute
<1>4. /\ d.defender_clock \in Nat /\ d.challenger_clock \in Nat
      /\ d.last_move_at \in Nat /\ now \in Nat
  BY DisputeTyped DEF IInv
<1>5. d'.defender_clock + d'.challenger_clock + now
        = d.defender_clock + d.challenger_clock + d.last_move_at
  BY DEF Charged
<1>6. d'.last_move_at + d'.defender_clock + d'.challenger_clock = 2 * budget
  BY SMTT(30), <1>2, <1>3, <1>4, <1>5, BudgetTyped
<1>7. QED
  BY <1>1, <1>6 DEF ClocksAccountForTime

(* A dissection by a defender that may be honest.                          *)
LEMMA DissectInductive == IInv /\ Dissect => IInv'
<1> SUFFICES ASSUME IInv, Dissect PROVE IInv'
  OBVIOUS
<1>1. PICK off \in [1..(segments(d.lo, d.hi) - 1) -> Commitment] :
        /\ can_dissect(d, off, now)
        /\ DEFENDER \in honest => HonestDissection(off)
        /\ d' = dissect(d, off, now)
        /\ UNCHANGED <<now, honest, trace_length, reach, ended>>
  BY DEF Dissect
<1>2. /\ HistoryOK /\ LogarithmicRounds /\ d.stage = BISECTING
      /\ ended = UNDECIDED /\ d.winner = NOBODY
  BY <1>1, TypeOKIs DEF IInv, HistoryOK, can_dissect, BISECTING, RESOLVED
<1>3. Dissected(d, d', off, now) /\ GameOK(d', now) /\ Line(d', honest)
  <2>1. /\ now \in Nat /\ GameOK(d, now) /\ Line(d, honest)
        /\ can_dissect(d, off, now)
        /\ DEFENDER \in honest => \A i \in 1..Len(off) : off[i] = HONEST
    BY <1>1, TypeOKIs DEF IInv, HistoryOK, HonestLine, HonestDissection
  <2> DEFINE f == dissect(d, off, now)
  <2>2. Dissected(d, f, off, now) /\ GameOK(f, now) /\ Line(f, honest)
    BY <2>1, DissectKeeps, Zenon
  <2>3. QED
    BY <1>1, <2>2
<1>4. TypeOK'
  <2>1. HistoryOK'
    BY <1>1, <1>2, <1>3 DEF HistoryOK, Dissected, BISECTING, RESOLVED
  <2>2. GameOK(d, now)'
    BY <1>1, <1>3
  <2>3. QED
    BY <2>1, <2>2 DEF TypeOK, HistoryOK, GameOK, Dispute
<1>5. ClocksAccountForTime'
  <2>1. /\ DEFENDER \in Role /\ d' \in Dispute /\ d'.last_move_at = now
        /\ Charged(d, d', DEFENDER, now)
    BY <1>3 DEF Dissected, Role
  <2>2. QED
    BY <1>2, <2>1, ChargedAccounts
<1>6. LogarithmicRounds'
  BY <1>1, <1>2, <1>3 DEF LogarithmicRounds, Dissected
<1>7. HonestLine'
  BY <1>1, <1>3 DEF HonestLine
<1>8. HonestWinsByProof'
  BY <1>1, <1>2 DEF HonestWinsByProof, UNDECIDED, BY_PROOF
<1>9. QED
  BY <1>4, <1>5, <1>6, <1>7, <1>8 DEF IInv

(* A round divides what is left of the interval by the arity.              *)
LEMMA RoundShrinks ==
  ASSUME NEW x \in Nat, NEW y \in Nat, NEW r \in Nat, NEW t \in Nat,
         ARITY * x <= y, y * r < t
  PROVE  x * (r * ARITY) < t
<1>1. ARITY \in Nat
  BY GameAssumption
<1> DEFINE z == ARITY * x
           k == y - z
<1>2. z \in Nat /\ k \in Nat /\ y = z + k
  BY <1>1
<1>3. x * (r * ARITY) = z * r
  BY <1>1
<1> HIDE DEF z, k
<1>4. y * r = z * r + k * r
  BY <1>2
<1>5. k * r \in Nat /\ z * r \in Nat
  BY <1>2
<1>6. QED
  BY <1>2, <1>3, <1>4, <1>5

(* A selection by a challenger that may be honest.                         *)
LEMMA SelectInductive == IInv /\ Select => IInv'
<1> SUFFICES ASSUME IInv, Select PROVE IInv'
  OBVIOUS
<1>1. PICK index \in 0..(segments(d.lo, d.hi) - 1) :
        /\ can_select(d, index, now)
        /\ CHALLENGER \in honest => HonestSelection(index)
        /\ d' = select(d, index, now)
        /\ reach' = reach * ARITY
        /\ UNCHANGED <<now, honest, trace_length, ended>>
  BY DEF Select
<1>2. /\ HistoryOK /\ LogarithmicRounds /\ d.stage = BISECTING
      /\ ended = UNDECIDED /\ d.winner = NOBODY
  BY <1>1, TypeOKIs DEF IInv, HistoryOK, can_select, BISECTING, RESOLVED
<1>3. /\ Selected(d, d', index, now) /\ GameOK(d', now) /\ Line(d', honest)
      /\ ARITY * (d'.hi - d'.lo - 1) <= d.hi - d.lo - 1
  <2>1. /\ now \in Nat /\ GameOK(d, now) /\ Line(d, honest)
        /\ can_select(d, index, now)
        /\ CHALLENGER \in honest => FirstDisputed(d, index)
    BY <1>1, TypeOKIs DEF IInv, HistoryOK, HonestLine, HonestSelection, FirstDisputed
  <2> DEFINE f == select(d, index, now)
  <2>2. /\ Selected(d, f, index, now) /\ GameOK(f, now) /\ Line(f, honest)
        /\ ARITY * (f.hi - f.lo - 1) <= d.hi - d.lo - 1
    BY <2>1, SelectKeeps, Zenon
  <2>3. QED
    BY <1>1, <2>2
<1>4. d' \in Dispute /\ d'.lo \in Nat /\ d'.hi \in Nat /\ d'.lo < d'.hi
  BY <1>3 DEF GameOK, Dispute
<1>5. TypeOK'
  <2>1. reach' \in Nat \ {0}
    <3>1. reach \in Nat \ {0} /\ ARITY \in Nat \ {0} /\ reach' = reach * ARITY
      BY <1>1, <1>2, GameAssumption DEF HistoryOK
    <3>2. QED
      BY <3>1
  <2>2. d'.stage # RESOLVED /\ d'.winner = NOBODY
    BY <1>2, <1>3 DEF Selected, BISECTING, ONE_STEP, RESOLVED
  <2>3. HistoryOK'
    BY <1>1, <1>2, <2>1, <2>2 DEF HistoryOK
  <2>4. GameOK(d, now)'
    BY <1>1, <1>3
  <2>5. QED
    BY <2>3, <2>4 DEF TypeOK, HistoryOK, GameOK, Dispute
<1>6. ClocksAccountForTime'
  <2>1. /\ CHALLENGER \in Role /\ d' \in Dispute /\ d'.last_move_at = now
        /\ Charged(d, d', CHALLENGER, now)
    BY <1>3 DEF Selected, Role
  <2>2. QED
    BY <1>2, <2>1, ChargedAccounts
<1>7. LogarithmicRounds'
  <2> DEFINE x == d'.hi - d'.lo - 1
             y == d.hi - d.lo - 1
  <2>1. /\ x \in Nat /\ y \in Nat /\ reach \in Nat /\ trace_length \in Nat
    BY <1>2, <1>4, DisputeTyped, BisectionAssumption DEF HistoryOK, IInv
  <2>2. y * reach < trace_length /\ ARITY * x <= y
    BY <1>2, <1>3 DEF LogarithmicRounds
  <2>3. x * (reach * ARITY) < trace_length
    BY <2>1, <2>2, RoundShrinks, Zenon
  <2>4. QED
    BY <1>1, <2>3 DEF LogarithmicRounds
<1>8. HonestLine'
  BY <1>1, <1>3 DEF HonestLine
<1>9. HonestWinsByProof'
  BY <1>1, <1>2 DEF HonestWinsByProof, UNDECIDED, BY_PROOF
<1>10. QED
  BY <1>5, <1>6, <1>7, <1>8, <1>9 DEF IInv

(* How a game is resolved: what is left to show is who may win it.         *)
LEMMA SettlingInductive ==
  ASSUME IInv, NEW w \in Role, Settles(d, d', w),
         ended' \in {BY_PROOF, BY_TIMEOUT},
         UNCHANGED <<now, honest, trace_length, reach>>,
         ended' = BY_PROOF /\ honest # {} => w \in honest
  PROVE  IInv'
<1>1. HistoryOK /\ GameOK(d, now) /\ LogarithmicRounds /\ Line(d, honest)
  BY TypeOKIs DEF IInv, HonestLine
<1>2. GameOK(d', now) /\ Line(d', honest)
  BY <1>1, SettledKeeps
<1>3. TypeOK'
  <2>1. HistoryOK'
    BY <1>1 DEF HistoryOK, Settles, UNDECIDED, BY_PROOF, BY_TIMEOUT,
                Role, DEFENDER, CHALLENGER, NOBODY
  <2>2. GameOK(d, now)'
    BY <1>2
  <2>3. QED
    BY <2>1, <2>2 DEF TypeOK, HistoryOK, GameOK, Dispute
<1>4. ClocksAccountForTime'
  BY DEF ClocksAccountForTime, Settles
<1>5. LogarithmicRounds'
  BY <1>1 DEF LogarithmicRounds, Settles, SameInterval
<1>6. HonestLine'
  BY <1>2 DEF HonestLine
<1>7. HonestWinsByProof'
  BY DEF HonestWinsByProof, Settles
<1>8. QED
  BY <1>3, <1>4, <1>5, <1>6, <1>7 DEF IInv

(* The one-step proof is decided for an honest party.                      *)
LEMMA OneStepInductive == IInv /\ OneStep => IInv'
<1> SUFFICES ASSUME IInv, OneStep PROVE IInv'
  OBVIOUS
<1>1. /\ can_one_step(d, now)
      /\ ended' = BY_PROOF
      /\ UNCHANGED <<now, honest, trace_length, reach>>
  BY DEF OneStep
<1>2. PICK w \in adjudications(d) : d' = one_step(d, w, now)
  BY DEF OneStep
<1>3. d \in Dispute /\ now \in Nat /\ d.last_move_at <= now /\ w \in Role
  BY <1>2, DisputeTyped DEF IInv, adjudications, Role
<1>4. honest # {} => w \in honest
  <2>1. Line(d, honest) /\ honest \subseteq Role
    BY BisectionAssumption DEF IInv, TypeOK, HonestLine
  <2>2. QED
    BY <2>1, AdjudicationIsJust
<1>5. Settles(d, d', w)
  <2>1. Settles(d, one_step(d, w, now), w)
    BY <1>1, <1>3, OneStepSettles, Zenon
  <2>2. QED
    BY <1>2, <2>1
<1>6. QED
  BY <1>1, <1>3, <1>4, <1>5, SettlingInductive

(* A timeout decides nothing by proof.                                     *)
LEMMA ClaimTimeoutInductive == IInv /\ ClaimTimeout => IInv'
<1> SUFFICES ASSUME IInv, ClaimTimeout PROVE IInv'
  OBVIOUS
<1> DEFINE w == opponent(d.turn)
<1>1. /\ d' = resolve(d, w) /\ ended' = BY_TIMEOUT
      /\ UNCHANGED <<now, honest, trace_length, reach>>
  BY DEF ClaimTimeout, claim_timeout
<1>2. d \in Dispute /\ w \in Role
  BY DisputeTyped DEF IInv, opponent, Role
<1> HIDE DEF w
<1>3. Settles(d, d', w)
  <2>1. Settles(d, resolve(d, w), w)
    BY <1>2, ResolveSettles, Zenon
  <2>2. QED
    BY <1>1, <2>1
<1>4. QED
  BY <1>1, <1>2, <1>3, SettlingInductive DEF BY_PROOF, BY_TIMEOUT

(* Time changes nothing but the clock.                                     *)
LEMMA TickInductive == IInv /\ Tick => IInv'
<1> SUFFICES ASSUME IInv, Tick PROVE IInv'
  OBVIOUS
<1>1. now' = now + 1 /\ UNCHANGED <<honest, d, trace_length, reach, ended>>
  BY DEF Tick
<1>2. TypeOK'
  <2>1. now' \in Nat /\ d.last_move_at <= now'
    BY <1>1, DisputeTyped DEF IInv
  <2>2. QED
    BY <1>1, <2>1 DEF IInv, TypeOK
<1>3. ClocksAccountForTime' /\ LogarithmicRounds' /\ HonestLine' /\ HonestWinsByProof'
  BY <1>1 DEF IInv, ClocksAccountForTime, LogarithmicRounds, HonestLine, Line,
              HonestWinsByProof, budget, clock_budget
<1>4. QED
  BY <1>2, <1>3 DEF IInv

(* Every step of a game preserves IInv.                                    *)
THEOREM GameInductive == Spec => []IInv
<1>1. Init => IInv
  BY InitInductive
<1>2. IInv /\ [Next]_gameVars => IInv'
  <2> SUFFICES ASSUME IInv, [Next]_gameVars PROVE IInv'
    OBVIOUS
  <2>1. CASE Dissect
    BY <2>1, DissectInductive
  <2>2. CASE Select
    BY <2>2, SelectInductive
  <2>3. CASE OneStep
    BY <2>3, OneStepInductive
  <2>4. CASE ClaimTimeout
    BY <2>4, ClaimTimeoutInductive
  <2>5. CASE Tick
    BY <2>5, TickInductive
  <2>6. CASE UNCHANGED gameVars
    BY <2>6 DEF gameVars, IInv, TypeOK, ClocksAccountForTime, LogarithmicRounds,
                HonestLine, Line, HonestWinsByProof, budget, clock_budget
  <2>7. QED
    BY <2>1, <2>2, <2>3, <2>4, <2>5, <2>6 DEF Next
<1>3. QED
  BY <1>1, <1>2, PTL DEF Spec

(* The record stays well formed in every game.                             *)
THEOREM GameTypeCorrect == Spec => []TypeOK
<1>1. IInv => TypeOK
  BY DEF IInv
<1>2. QED
  BY <1>1, GameInductive, PTL

(* disputes.move: "An honest party never has to make a false claim at any  *)
(* round".  For every arity and trace length, and whatever the other party *)
(* offers or selects, the one-step proof is decided for an honest party.   *)
THEOREM HonestPartyWinsByProof == Spec => []HonestWinsByProof
<1>1. IInv => HonestWinsByProof
  BY DEF IInv
<1>2. QED
  BY <1>1, GameInductive, PTL

(* begin_move and pass_turn charge every moment of a game to one clock.    *)
THEOREM ClocksAccount == Spec => []ClocksAccountForTime
<1>1. IInv => ClocksAccountForTime
  BY DEF IInv
<1>2. QED
  BY <1>1, GameInductive, PTL

(* CLOCK_BUDGET_DIVISOR: a game older than two budgets can be ended by     *)
(* claim_timeout, for every window and move timeout.                       *)
THEOREM OverlongGamesAreForfeit == Spec => []OverlongGameIsForfeit
<1>1. IInv => OverlongGameIsForfeit
  <2> SUFFICES ASSUME IInv, d.stage # RESOLVED, now > 2 * budget
               PROVE  can_claim_timeout(d, now)
    BY DEF OverlongGameIsForfeit
  <2>1. /\ now \in Nat /\ d.last_move_at \in Nat
        /\ d.defender_clock \in Nat /\ d.challenger_clock \in Nat
    BY DisputeTyped DEF IInv
  <2>2. d.last_move_at + d.defender_clock + d.challenger_clock = 2 * budget
    BY DEF IInv, ClocksAccountForTime
  <2>3. /\ now - d.last_move_at > d.defender_clock
        /\ now - d.last_move_at > d.challenger_clock
    BY <2>1, <2>2, BudgetTyped
  <2>4. QED
    BY <2>3 DEF can_claim_timeout, clock
<1>2. QED
  BY <1>1, GameInductive, PTL

(* REQ-FRAUD-013 for every arity: the rounds of a game are logarithmic in  *)
(* the trace length, whatever segments are selected.                       *)
THEOREM RoundsAreLogarithmic == Spec => []LogarithmicRounds
<1>1. IInv => LogarithmicRounds
  BY DEF IInv
<1>2. QED
  BY <1>1, GameInductive, PTL
-----------------------------------------------------------------------------
(* pow[k] is ARITY to the k.                                               *)
Powers(pow) ==
  pow \in [Nat -> Nat] /\ pow[0] = 1 /\ \A k \in Nat : pow[k + 1] = ARITY * pow[k]

(* A defender that takes Reaction for a move has the time for a game: no   *)
(* move may take longer than MOVE_TIMEOUT, and the budget pays for one     *)
(* move a round, of which a trace of ARITY^k steps takes k.                *)
TimeToDefend(pow) ==
  /\ Reaction <= MOVE_TIMEOUT
  /\ \A len \in TraceLength : \E k \in Nat : len <= pow[k] /\ Reaction * k <= budget

(* Moves that the defender's clock pays for: k of them, with w steps left  *)
(* of which k + more rounds leave one.                                     *)
Affords(pow, w, more, c) ==
  \E k \in Nat : w <= pow[k + more] /\ Reaction * k <= c

(* DefenderNeverLoses is not inductive: an honest defender wins by a       *)
(* timeout of the challenger or by proof, and has never run out of time    *)
(* itself, because its clock pays for the rounds that are left, and every  *)
(* deadline on its turn was set from that clock.                           *)
DefenderStands(pow) ==
  DEFENDER \in honest =>
    /\ d.stage = RESOLVED => d.winner = DEFENDER
    /\ d.stage # RESOLVED /\ d.turn = DEFENDER =>
         /\ now - d.last_move_at <= Reaction
         /\ d.deadline = d.last_move_at + lesser(MOVE_TIMEOUT, d.defender_clock)
         /\ Affords(pow, d.hi - d.lo, 0, d.defender_clock)
    /\ d.stage = BISECTING /\ d.turn = CHALLENGER =>
         Affords(pow, d.hi - d.lo, 1, d.defender_clock)

(* Time for one more move is left while there is anything to dissect.      *)
LEMMA TimeForMove ==
  ASSUME NEW pow, Powers(pow), NEW w \in Nat, w > 1, NEW c \in Nat,
         Affords(pow, w, 0, c)
  PROVE  \E k \in Nat : w <= pow[k + 1] /\ Reaction * k + Reaction <= c
<1>1. PICK j \in Nat : w <= pow[j + 0] /\ Reaction * j <= c
  BY DEF Affords
<1>2. j + 0 = j /\ w <= pow[j]
  BY <1>1
<1>3. j # 0
  BY <1>2 DEF Powers
<1> DEFINE k == j - 1
<1>4. k \in Nat /\ j = k + 1
  BY <1>3
<1> HIDE DEF k
<1>5. Reaction \in Nat
  BY BisectionAssumption
<1>6. Reaction * j = Reaction * k + Reaction
  BY <1>4, <1>5, Z3
<1> QED
  BY <1>1, <1>2, <1>4, <1>6

(* A segment of a round takes one round less.                              *)
LEMMA SegmentTakesLess ==
  ASSUME NEW pow, Powers(pow), NEW w \in Nat, NEW v \in Nat,
         ARITY * (v - 1) <= w - 1, NEW c, Affords(pow, w, 1, c)
  PROVE  Affords(pow, v, 0, c)
<1>1. PICK k \in Nat : w <= pow[k + 1] /\ Reaction * k <= c
  BY DEF Affords
<1>2. ARITY \in Nat \ {0} /\ pow[k] \in Nat /\ pow[k + 1] = ARITY * pow[k]
  BY GameAssumption DEF Powers
<1> DEFINE q == pow[k]
<1>3. ARITY * (v - 1) < ARITY * q
  BY <1>1, <1>2
<1>4. q \in Nat
  BY <1>2
<1> HIDE DEF q
<1>5. v - 1 < q
  BY <1>2, <1>3, <1>4, Z3
<1>6. v <= pow[k + 0]
  BY <1>4, <1>5 DEF q
<1> QED
  BY <1>1, <1>6 DEF Affords

(* The defender is in time whenever it is its turn.                        *)
LEMMA DefenderInTime ==
  ASSUME NEW pow, Powers(pow), TimeToDefend(pow), IInv, DefenderStands(pow),
         DEFENDER \in honest, d.stage # RESOLVED, d.turn = DEFENDER
  PROVE  ~can_claim_timeout(d, now)
<1>1. /\ d.stage = BISECTING /\ d.hi - d.lo \in Nat /\ d.hi - d.lo > 1
      /\ d.defender_clock \in Nat /\ now \in Nat /\ d.last_move_at \in Nat
  <2>1. d.stage \in Stage
    BY DEF IInv, TypeOK
  <2>2. d.stage # ONE_STEP
    BY DEF IInv, TypeOK, DEFENDER, CHALLENGER
  <2>3. d.stage = BISECTING
    BY <2>1, <2>2 DEF Stage
  <2>4. d.hi - d.lo > 1
    BY <2>3 DEF IInv, TypeOK
  <2> QED
    BY <2>3, <2>4, DisputeTyped DEF IInv
<1>2. /\ now - d.last_move_at <= Reaction
      /\ d.deadline = d.last_move_at + lesser(MOVE_TIMEOUT, d.defender_clock)
      /\ Affords(pow, d.hi - d.lo, 0, d.defender_clock)
  BY DEF DefenderStands
<1>3. PICK k \in Nat : Reaction * k + Reaction <= d.defender_clock
  BY <1>1, <1>2, TimeForMove
<1>4. Reaction \in Nat /\ MOVE_TIMEOUT \in Nat /\ Reaction <= MOVE_TIMEOUT
  BY BisectionAssumption, GameAssumption DEF TimeToDefend
<1>5. Reaction * k \in Nat
  BY <1>4, Z3
<1>6. Reaction <= d.defender_clock
  BY <1>1, <1>3, <1>4, <1>5
<1>7. now <= d.deadline
  BY <1>1, <1>2, <1>4, <1>6 DEF lesser
<1>8. now - d.last_move_at <= clock(d, d.turn)
  BY <1>1, <1>2, <1>4, <1>6 DEF clock
<1>9. d.deadline \in Nat /\ clock(d, d.turn) \in Nat
  BY <1>1 DEF IInv, TypeOK, clock
<1> QED
  BY <1>1, <1>7, <1>8, <1>9 DEF can_claim_timeout

(* The game an honest proposer is drawn into can be paid for.              *)
LEMMA DefenderOpens ==
  ASSUME NEW pow, Powers(pow), TimeToDefend(pow), Init
  PROVE  DefenderStands(pow)
<1>1. PICK claim \in Commitment :
        /\ DEFENDER \in honest => claim = HONEST
        /\ CHALLENGER \in honest => claim = FORGED
        /\ d = new_dispute(trace_length, claim, window, 0)
  BY DEF Init
<1>2. now = 0 /\ trace_length \in TraceLength /\ trace_length \in Nat \ {0}
  BY BisectionAssumption DEF Init
<1> DEFINE e == new_dispute(trace_length, claim, window, 0)
<1>3. Opened(e, trace_length, claim, window, 0) /\ GameOK(e, 0) /\ Line(e, honest)
  <2>1. /\ trace_length \in Nat \ {0} /\ claim \in Commitment /\ window \in Nat
        /\ 0 \in Nat
        /\ CHALLENGER \in honest => claim = FORGED
        /\ DEFENDER \in honest => claim = HONEST
    BY <1>1, <1>2, BisectionAssumption
  <2> QED
    BY <2>1, OpenKeeps, Zenon
<1>4. Opened(d, trace_length, claim, window, 0)
  BY <1>1, <1>3
<1>5. Affords(pow, trace_length, 0, budget)
  <2>1. PICK k \in Nat : trace_length <= pow[k] /\ Reaction * k <= budget
    BY <1>2 DEF TimeToDefend
  <2>2. k + 0 = k
    OBVIOUS
  <2> QED
    BY <2>1, <2>2 DEF Affords
<1>6. /\ d.hi - d.lo = trace_length /\ d.defender_clock = budget /\ d.last_move_at = 0
      /\ d.deadline = 0 + lesser(MOVE_TIMEOUT, budget)
      /\ d.stage # RESOLVED
      /\ ~(d.stage = BISECTING /\ d.turn = CHALLENGER)
  BY <1>2, <1>4 DEF Opened, budget, BISECTING, ONE_STEP, RESOLVED, DEFENDER, CHALLENGER
<1>7. now - d.last_move_at <= Reaction
  BY <1>2, <1>6, BisectionAssumption
<1> QED
  BY <1>5, <1>6, <1>7 DEF DefenderStands

(* A dissection in time costs the defender one of the moves it can afford. *)
LEMMA DefenderDissects ==
  ASSUME NEW pow, Powers(pow), TimeToDefend(pow), IInv, DefenderStands(pow), Dissect
  PROVE  DefenderStands(pow)'
<1> SUFFICES ASSUME DEFENDER \in honest
             PROVE  /\ d'.stage = BISECTING /\ d'.turn = CHALLENGER
                    /\ Affords(pow, d'.hi - d'.lo, 1, d'.defender_clock)
  BY DEF DefenderStands, Dissect, BISECTING, RESOLVED, DEFENDER, CHALLENGER
<1>1. PICK off \in [1..(segments(d.lo, d.hi) - 1) -> Commitment] :
        /\ can_dissect(d, off, now)
        /\ DEFENDER \in honest => HonestDissection(off)
        /\ d' = dissect(d, off, now)
  BY DEF Dissect
<1> DEFINE f == dissect(d, off, now)
<1>2. Dissected(d, f, off, now) /\ GameOK(f, now) /\ Line(f, honest)
  <2>1. /\ now \in Nat /\ GameOK(d, now) /\ Line(d, honest)
        /\ can_dissect(d, off, now)
        /\ DEFENDER \in honest => \A i \in 1..Len(off) : off[i] = HONEST
    BY <1>1, TypeOKIs DEF IInv, HistoryOK, HonestLine, HonestDissection
  <2> QED
    BY <2>1, DissectKeeps, Zenon
<1>3. Dissected(d, d', off, now)
  BY <1>1, <1>2
<1>4. /\ d.stage = BISECTING /\ d.turn = DEFENDER /\ d.stage # RESOLVED
      /\ d.hi - d.lo > 1 /\ d.hi - d.lo \in Nat
      /\ d.defender_clock \in Nat /\ now \in Nat /\ d.last_move_at \in Nat
  BY <1>1, DisputeTyped DEF can_dissect, can_move, IInv, TypeOK
<1>5. now - d.last_move_at <= Reaction /\ Affords(pow, d.hi - d.lo, 0, d.defender_clock)
  BY <1>4 DEF DefenderStands
<1>6. PICK k \in Nat :
        d.hi - d.lo <= pow[k + 1] /\ Reaction * k + Reaction <= d.defender_clock
  BY <1>4, <1>5, TimeForMove
<1>7. d'.defender_clock + now = d.defender_clock + d.last_move_at /\ d'.defender_clock \in Nat
  BY <1>3 DEF Dissected, Charged, clock, Dispute
<1>8. Reaction \in Nat /\ Reaction * k \in Nat
  BY BisectionAssumption, Z3
<1>9. Reaction * k <= d'.defender_clock
  BY <1>4, <1>5, <1>6, <1>7, <1>8
<1> QED
  BY <1>3, <1>6, <1>9 DEF Dissected, Affords

(* A selection gives the defender its own deadline, and one round less.    *)
LEMMA DefenderAwaits ==
  ASSUME NEW pow, Powers(pow), IInv, DefenderStands(pow), Select
  PROVE  DefenderStands(pow)'
<1>1. PICK index \in 0..(segments(d.lo, d.hi) - 1) :
        /\ can_select(d, index, now)
        /\ CHALLENGER \in honest => HonestSelection(index)
        /\ d' = select(d, index, now)
        /\ UNCHANGED <<now, honest>>
  BY DEF Select
<1> DEFINE f == select(d, index, now)
<1>2. /\ Selected(d, f, index, now) /\ GameOK(f, now) /\ Line(f, honest)
      /\ ARITY * (f.hi - f.lo - 1) <= d.hi - d.lo - 1
  <2>1. /\ now \in Nat /\ GameOK(d, now) /\ Line(d, honest)
        /\ can_select(d, index, now)
        /\ CHALLENGER \in honest => FirstDisputed(d, index)
    BY <1>1, TypeOKIs DEF IInv, HistoryOK, HonestLine, HonestSelection, FirstDisputed
  <2> QED
    BY <2>1, SelectKeeps, Zenon
<1>3. /\ Selected(d, d', index, now) /\ GameOK(d', now)
      /\ ARITY * (d'.hi - d'.lo - 1) <= d.hi - d.lo - 1
  BY <1>1, <1>2
<1>4. d.stage = BISECTING /\ d.turn = CHALLENGER /\ now \in Nat /\ d.hi - d.lo \in Nat
  BY <1>1, DisputeTyped DEF can_select, can_move, IInv
<1>5. d'.hi - d'.lo \in Nat
  BY <1>3 DEF GameOK, Dispute
<1>6. /\ d'.stage # RESOLVED /\ ~(d'.stage = BISECTING /\ d'.turn = CHALLENGER)
      /\ d'.last_move_at = now /\ d'.defender_clock = d.defender_clock
      /\ d'.deadline = now + lesser(MOVE_TIMEOUT, d'.defender_clock)
  BY <1>3 DEF Selected, Charged, clock, opponent, BISECTING, ONE_STEP, RESOLVED,
              DEFENDER, CHALLENGER
<1>7. now' - d'.last_move_at <= Reaction
  BY <1>1, <1>4, <1>6, BisectionAssumption
<1>8. DEFENDER \in honest => Affords(pow, d'.hi - d'.lo, 0, d'.defender_clock)
  <2> SUFFICES ASSUME DEFENDER \in honest
               PROVE  Affords(pow, d'.hi - d'.lo, 0, d.defender_clock)
    BY <1>6
  <2>1. Affords(pow, d.hi - d.lo, 1, d.defender_clock)
    BY <1>4 DEF DefenderStands
  <2> QED
    BY <1>3, <1>4, <1>5, <2>1, SegmentTakesLess
<1> QED
  BY <1>1, <1>6, <1>7, <1>8 DEF DefenderStands

(* Whoever ends the game, an honest defender is its winner.                *)
LEMMA DefenderStandsInductive ==
  ASSUME NEW pow, Powers(pow), TimeToDefend(pow),
         IInv, IInv', DefenderStands(pow), [Next]_gameVars
  PROVE  DefenderStands(pow)'
<1>1. CASE Dissect
  BY <1>1, DefenderDissects
<1>2. CASE Select
  BY <1>2, DefenderAwaits
<1>3. CASE OneStep
  <2>1. ended' = BY_PROOF /\ honest' = honest
    BY <1>3 DEF OneStep
  <2>2. d'.stage = RESOLVED
    BY <2>1 DEF IInv, TypeOK, BY_PROOF, UNDECIDED
  <2>3. DEFENDER \in honest => d'.winner = DEFENDER
    <3> SUFFICES ASSUME DEFENDER \in honest PROVE d'.winner = DEFENDER
      OBVIOUS
    <3>1. PICK w \in adjudications(d) : d' = one_step(d, w, now)
      BY <1>3 DEF OneStep
    <3>2. Line(d, honest) /\ honest \subseteq Role /\ honest # {}
      BY BisectionAssumption DEF IInv, TypeOK, HonestLine
    <3>3. w = DEFENDER
      BY <3>1, <3>2, AdjudicationIsJust
    <3>4. can_one_step(d, now) /\ d \in Dispute /\ now \in Nat /\ d.last_move_at <= now
      BY <1>3, DisputeTyped DEF OneStep, IInv
    <3>5. w \in Role
      BY <3>3 DEF Role
    <3>6. Settles(d, one_step(d, w, now), w)
      BY <3>4, <3>5, OneStepSettles, Zenon
    <3> QED
      BY <3>1, <3>3, <3>6 DEF Settles
  <2> QED
    BY <2>1, <2>2, <2>3 DEF DefenderStands, BISECTING, RESOLVED
<1>4. CASE ClaimTimeout
  <2>1. can_claim_timeout(d, now) /\ d' = claim_timeout(d) /\ honest' = honest
    BY <1>4 DEF ClaimTimeout
  <2>2. DEFENDER \in honest => d.turn # DEFENDER
    BY <2>1, DefenderInTime DEF can_claim_timeout
  <2>3. d \in Dispute
    BY DisputeTyped DEF IInv
  <2>4. d'.stage = RESOLVED /\ d'.winner = opponent(d.turn)
    BY <2>1, <2>3 DEF claim_timeout, resolve, Dispute
  <2> QED
    BY <2>1, <2>2, <2>4 DEF DefenderStands, opponent, BISECTING, RESOLVED
<1>5. CASE Tick
  <2>1. /\ now' = now + 1 /\ d' = d /\ honest' = honest
        /\ d.stage # RESOLVED /\ d.turn \in honest => now - d.last_move_at < Reaction
    BY <1>5 DEF Tick
  <2>2. now \in Nat /\ d.last_move_at \in Nat /\ Reaction \in Nat
    BY DisputeTyped, BisectionAssumption DEF IInv
  <2>3. now - d.last_move_at < Reaction => now' - d.last_move_at <= Reaction
    BY <2>1, <2>2
  <2> QED
    BY <2>1, <2>3 DEF DefenderStands
<1>6. CASE UNCHANGED gameVars
  BY <1>6 DEF gameVars, DefenderStands
<1> QED
  BY <1>1, <1>2, <1>3, <1>4, <1>5, <1>6 DEF Next

(* pass_turn computes every deadline of the defender from the defender's   *)
(* own clock: a defender that answers within Reaction, and has the time    *)
(* for one move a round of the longest trace, never loses, whatever the    *)
(* challenger does and whenever it does it.                                *)
THEOREM DefenderIsSafe ==
  ASSUME NEW pow, Powers(pow), TimeToDefend(pow)
  PROVE  Spec => []DefenderNeverLoses
<1>1. Init => DefenderStands(pow)
  BY DefenderOpens
<1>2. IInv /\ IInv' /\ DefenderStands(pow) /\ [Next]_gameVars => DefenderStands(pow)'
  BY DefenderStandsInductive
<1>3. DefenderStands(pow) => DefenderNeverLoses
  BY DEF DefenderStands, DefenderNeverLoses
<1> QED
  BY <1>1, <1>2, <1>3, GameInductive, PTL DEF Spec
=============================================================================
