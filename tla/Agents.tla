------------------------------- MODULE Agents -------------------------------
(***************************************************************************)
(* The two loops that act on L1 for a node: the relayer, which posts       *)
(* sealed blocks, defends and finalizes them (relayer.rs), and the watcher,*)
(* which re-executes every assertion and challenges what is wrong          *)
(* (watcher.rs), each with the file it resumes from, over the contracts of *)
(* L1 and the keyless jobs of keyless_jobs.move.  Other parties call the   *)
(* contracts as they please.                                               *)
(*                                                                         *)
(* A loop repeats rounds.  What it reads between two submissions is read   *)
(* in one step; anyone may act between that step and the submission it     *)
(* leads to.  A submission may fail, may land and be reported as failed,   *)
(* and the process may stop at any point: each of these is a fault.  A     *)
(* round that meets an error ends, and the next one starts from what is in *)
(* memory.  A round takes seconds and a unit of the clock is hours: the    *)
(* clock moves on when a whole round of each loop has found L1 as it is.   *)
(***************************************************************************)
EXTENDS L1, SequencesExt, TLC

CONSTANTS
  relayer, watcher,       \* the parties the two loops submit as
  relayer_bond,
  watcher_bond,
  Sealable,               \* the batches the sequencer seals, with their length
  Claims,                 \* what others claim: a batch, its length, a root
  Keyless,                \* the transactions with a keyless authenticator
  POSEIDON_STEPS,
  keyless_steps_per_tx,
  MaxBlocks,              \* bound: blocks sealed
  LastSeal,               \* bound: no block after this time
  MaxForeign,             \* bound: posts, challenges and job calls by others
  LastForeign,            \* bound: no post or challenge after this time
  MaxFaults,              \* bound: faults of the loops
  MaxEvents               \* bound: blocks, acts of others and faults together

VARIABLES
  blocks,                 \* the sealed blocks, as sena_getBlock returns them
  jobs,                   \* <<transaction, timestamp>> -> its keyless job
  r,                      \* the relayer's process
  rfile,                  \* the relayer's saved state
  w,                      \* the watcher's process
  wfile,                  \* the watcher's saved state
  faults,
  foreign,                \* how many of these there have been
  passed                  \* history: what the watcher never judged

chainVars == <<now, assertions, challenges, latest_finalized, escrow, wallet>>
contractVars == <<chainVars, disputes, jobs>>
agentVars == <<contractVars, blocks, r, rfile, w, wfile, faults, foreign, passed>>

Others == Party \ {relayer, watcher}

least(S) == CHOOSE x \in S : \A y \in S : x <= y

(* No submission is under way.                                             *)
NoCall == [fn |-> "none"]

(* The end of a round.                                                     *)
rests(p) == [p EXCEPT !.phase = "idle", !.call = NoCall, !.done = {}]

(* A round begins, or goes on after a submission.                          *)
reads(p) == p.call = NoCall /\ p.phase # "halted"

goes_on(p, phase) == [p EXCEPT !.phase = phase]

another_event == Len(blocks) + foreign + faults < MaxEvents

fault == another_event /\ faults < MaxFaults /\ faults' = faults + 1
-----------------------------------------------------------------------------
(* Keyless jobs on L1: start, advance by some steps, finish.               *)
(* One that fails its first checks is finished at once.                    *)
job_start(job) ==
  /\ job \notin DOMAIN jobs
  /\ \E finished \in IF compiles(job[1]) THEN {FALSE} ELSE BOOLEAN :
       jobs' = (job :> [next_step |-> 0, finished |-> finished]) @@ jobs

job_advance(job, steps) ==
  /\ job \in DOMAIN jobs /\ ~jobs[job].finished
  /\ jobs' = [jobs EXCEPT ![job].next_step = lesser(@ + steps, POSEIDON_STEPS)]

job_finish(job) ==
  /\ job \in DOMAIN jobs /\ ~jobs[job].finished
  /\ jobs[job].next_step = POSEIDON_STEPS
  /\ jobs' = [jobs EXCEPT ![job].finished = TRUE]

has_verdict(tx, timestamp) ==
  tx \in Keyless =>
    <<tx, timestamp>> \in DOMAIN jobs /\ jobs[<<tx, timestamp>>].finished

(* The verdict a leaf's compilation needs.                                 *)
leaf_ready(id, index) == has_verdict(assertions[id].batch.tx_bytes[index], assertions[id].timestamp)

-----------------------------------------------------------------------------
(* A submission, and what L1 does with it.                                 *)
perform(who, c) ==
  \/ /\ c.fn = "post"
     /\ post(who, c.parent, c.root, c.batch, c.timestamp, c.trace_length, c.bond)
     /\ UNCHANGED <<disputes, jobs>>
  \/ /\ c.fn = "open_challenge"
     /\ open_challenge(who, c.id, c.bond)
     /\ UNCHANGED <<disputes, jobs>>
  \/ c.fn = "open" /\ open(who, c.id) /\ UNCHANGED jobs
  \/ /\ c.fn = "prove_uncompilable"
     /\ leaf_ready(c.id, c.index)
     /\ prove_uncompilable(who, c.id, c.index)
     /\ UNCHANGED jobs
  \/ /\ c.fn = "prove_start_gap"
     /\ leaf_ready(c.id, c.index)
     /\ prove_start_gap(who, c.id, c.index)
     /\ UNCHANGED jobs
  \/ /\ c.fn = "prove_trace_length"
     /\ leaf_ready(c.id, Len(assertions[c.id].batch.tx_bytes))
     /\ prove_trace_length(who, c.id)
     /\ UNCHANGED jobs
  \/ /\ c.fn = "dissect"
     /\ who = assertions[c.key[1]].proposer
     /\ can_dissect(disputes[c.key], c.commitments, now)
     /\ disputes' = [disputes EXCEPT ![c.key] = dissect(@, c.commitments, now)]
     /\ UNCHANGED <<chainVars, jobs>>
  \/ /\ c.fn = "select"
     /\ who = c.key[2]
     /\ can_select(disputes[c.key], c.index, now)
     /\ disputes' = [disputes EXCEPT ![c.key] = select(@, c.index, now)]
     /\ UNCHANGED <<chainVars, jobs>>
  \/ /\ c.fn = "one_step"
     /\ who = c.key[2]
     /\ leaf_ready(c.key[1], c.index)
     /\ OneStep(c.key)
     /\ UNCHANGED jobs
  \/ c.fn = "claim_timeout" /\ ClaimTimeout(c.key) /\ UNCHANGED jobs
  \/ c.fn = "finalize" /\ L1Finalize(c.id) /\ UNCHANGED jobs
  \/ c.fn = "job_start" /\ job_start(c.job) /\ UNCHANGED <<chainVars, disputes>>
  \/ /\ c.fn = "job_advance"
     /\ job_advance(c.job, keyless_steps_per_tx)
     /\ UNCHANGED <<chainVars, disputes>>
  \/ c.fn = "job_finish" /\ job_finish(c.job) /\ UNCHANGED <<chainVars, disputes>>

aborts(who, c) == ~ENABLED perform(who, c)
-----------------------------------------------------------------------------
(* Sealing: a sequencer may go wrong, and seal a root that execution does  *)
(* not reach.  A block sealed during a round is posted in it or in the     *)
(* next.                                                                   *)
Seal(sealable, root) ==
  /\ another_event /\ Len(blocks) < MaxBlocks
  /\ now <= LastSeal
  /\ r.phase \in {"idle", "halted"}
  /\ blocks' = Append(blocks, [timestamp |-> now, batch |-> sealable.batch,
                               trace_length |-> sealable.trace_length,
                               post_state_root |-> root])
  /\ UNCHANGED <<contractVars, r, rfile, w, wfile, faults, foreign, passed>>
-----------------------------------------------------------------------------
(* The relayer.  An entry of posted is the block's place in the list, the  *)
(* assertion and what became of it.                                        *)
undecided(e) == ~e.finalized /\ ~e.rejected
entry(id) == [id |-> id, finalized |-> FALSE, rejected |-> FALSE]
(* A save that fails ends the round, with the change in memory only.       *)
writes(p) ==
  \/ r' = p /\ rfile' = p.posted /\ UNCHANGED faults
  \/ fault /\ r' = rests(p) /\ UNCHANGED rfile

keeps(p) == r' = p /\ UNCHANGED <<rfile, faults>>

undecided_entries == {n \in DOMAIN r.posted : undecided(r.posted[n])}
status_of(n) == assertions[r.posted[n].id].status

(* The commitments of a trace that was executed rightly, or wrongly.       *)
commitments_of(n, length) ==
  IF Sound(r.posted[n].id) THEN {[i \in 1..length |-> HONEST]}
                           ELSE [1..length -> Commitment]

(* What defend submits in the game of one challenger, if anything.         *)
answers(n, challenger) ==
  LET key == <<r.posted[n].id, challenger>>
      d == disputes[key]
  IN  IF key \notin DOMAIN disputes \/ key \in r.done THEN {}
      ELSE IF d.stage = BISECTING /\ d.turn = DEFENDER /\ ~d.has_offer
      THEN {[fn |-> "dissect", key |-> key, commitments |-> c] :
              c \in commitments_of(n, segments(d.lo, d.hi) - 1)}
      ELSE IF d.stage # RESOLVED /\ d.turn = CHALLENGER /\ now > d.deadline
      THEN {[fn |-> "claim_timeout", key |-> key]}
      ELSE {}

answers_for(n) ==
  IF status_of(n) # CHALLENGED THEN {}
  ELSE UNION {answers(n, c) : c \in DOMAIN challenges[r.posted[n].id]}

(* The entries are gone through in order; a rejected one halts the relayer.*)
(* The slip has the relayer look after its newest assertion only.          *)
concerning_slip ==
  {n \in undecided_entries : n = Len(r.posted) /\ (status_of(n) = REJECTED \/ answers_for(n) # {})}

concerning == {n \in undecided_entries : status_of(n) = REJECTED \/ answers_for(n) # {}}

defended == r.phase \in {"post", "finalize"} \/ concerning = {}

Defend ==
  /\ reads(r) /\ ~defended
  /\ \/ /\ status_of(least(concerning)) = REJECTED
        /\ writes([rests(r) EXCEPT !.posted[least(concerning)].rejected = TRUE,
                                   !.phase = "halted"])
     \/ /\ status_of(least(concerning)) # REJECTED
        /\ \E a \in answers_for(least(concerning)) :
             keeps([goes_on(r, "defend") EXCEPT !.call = a, !.done = @ \cup {a.key}])
  /\ UNCHANGED <<contractVars, blocks, w, wfile, foreign, passed>>

(* The assertion of the next block, on the one posted last.                *)
parent_slip == Genesis

parent == IF r.posted = <<>> THEN Genesis ELSE Last(r.posted).id

next_post ==
  LET block == blocks[Len(r.posted) + 1]
  IN  [fn |-> "post", parent |-> parent, root |-> block.post_state_root,
       batch |-> block.batch, timestamp |-> block.timestamp,
       trace_length |-> block.trace_length, bond |-> relayer_bond]

(* It may be on L1 already: posted, and not recorded.                      *)
same_content(c) ==
  {i \in Ids : assertion_id(assertions[i]) =
                 <<c.parent, c.root, c.batch, c.timestamp, c.trace_length, c.bond>>}

already_posted_slip(c) == {}

already_posted(c) == same_content(c)

all_posted == r.phase = "finalize" \/ Len(r.posted) = Len(blocks)

PostNew ==
  /\ reads(r) /\ defended /\ ~all_posted
  /\ \/ /\ already_posted(next_post) # {}
        /\ writes([goes_on(r, "post") EXCEPT
                     !.posted = Append(@, entry(least(already_posted(next_post))))])
     \/ /\ already_posted(next_post) = {}
        /\ keeps([goes_on(r, "post") EXCEPT !.call = next_post])
  /\ UNCHANGED <<contractVars, blocks, w, wfile, foreign, passed>>

(* In order: nothing after an assertion that cannot be finalized yet.      *)
first_undecided == least(undecided_entries)

due_for_finalization ==
  /\ status_of(first_undecided) = PENDING
  /\ assertions[r.posted[first_undecided].id].posted_at + challenge_window <= now

finalization == [fn |-> "finalize", id |-> r.posted[first_undecided].id]

FinalizeDue ==
  /\ reads(r) /\ defended /\ all_posted
  /\ \/ /\ undecided_entries # {}
        /\ status_of(first_undecided) = FINALIZED
        /\ writes([goes_on(r, "finalize") EXCEPT !.posted[first_undecided].finalized = TRUE])
     \/ /\ undecided_entries # {}
        /\ due_for_finalization
        /\ keeps([goes_on(r, "finalize") EXCEPT !.call = finalization])
     \/ /\ r.phase # "idle"
        /\ undecided_entries # {} =>
             status_of(first_undecided) # FINALIZED /\ ~due_for_finalization
        /\ keeps(rests(r))
  /\ UNCHANGED <<contractVars, blocks, w, wfile, foreign, passed>>

(* A round would change nothing: it finds nothing to do, or its first      *)
(* submission aborts.                                                      *)
RelayerWaits ==
  \/ r.phase = "halted"
  \/ /\ r.phase = "idle"
     /\ IF ~defended
        THEN /\ status_of(least(concerning)) # REJECTED
             /\ \A a \in answers_for(least(concerning)) : aborts(relayer, a)
        ELSE IF ~all_posted
        THEN already_posted(next_post) = {} /\ aborts(relayer, next_post)
        ELSE undecided_entries # {} =>
               /\ status_of(first_undecided) # FINALIZED
               /\ due_for_finalization => aborts(relayer, finalization)

(* What the relayer records once its submission has succeeded.             *)
recorded ==
  CASE r.call.fn = "post" -> Append(r.posted, entry(Cardinality(Ids) + 1))
    [] r.call.fn = "finalize" -> [r.posted EXCEPT ![first_undecided].finalized = TRUE]
    [] OTHER -> r.posted

(* The submission lands and is recorded; or it aborts.  With a fault, it   *)
(* is not sent, or lands and is reported as failed.                        *)
RelayerSubmits ==
  /\ r.call # NoCall
  /\ \/ /\ perform(relayer, r.call)
        /\ IF r.call.fn \in {"post", "finalize"}
           THEN writes([r EXCEPT !.call = NoCall, !.posted = recorded])
           ELSE keeps([r EXCEPT !.call = NoCall])
     \/ /\ aborts(relayer, r.call)
        /\ keeps(rests(r))
        /\ UNCHANGED contractVars
     \/ /\ fault
        /\ perform(relayer, r.call) \/ UNCHANGED contractVars
        /\ r' = rests(r)
        /\ UNCHANGED rfile
  /\ UNCHANGED <<blocks, w, wfile, foreign, passed>>

(* A restart between rounds of what is all saved changes nothing.          *)
RelayerRestart ==
  /\ fault
  /\ r.phase \notin {"idle", "halted"} \/ r.posted # rfile
  /\ r' = [phase |-> "idle", posted |-> rfile, done |-> {}, call |-> NoCall]
  /\ UNCHANGED <<contractVars, blocks, rfile, w, wfile, foreign, passed>>
-----------------------------------------------------------------------------
(* The watcher.  replica is the root of its own state; a game is the       *)
(* assertion and the root its batch starts from.                           *)
saved(p) == [cursor |-> p.cursor, head |-> p.head, replica |-> p.replica, games |-> p.games]

saves(p) ==
  \/ w' = p /\ wfile' = saved(p) /\ UNCHANGED faults
  \/ fault /\ w' = rests(p) /\ UNCHANGED wfile

holds(p) == w' = p /\ UNCHANGED <<wfile, faults>>

starts(batch) ==
  [i \in 1..(Len(batch.tx_bytes) + 1) |->
     FoldLeft(LAMBDA pc, tx : pc + Program(tx), 0, SubSeq(batch.tx_bytes, 1, i - 1))]

executes(root, batch) == Exec(root, batch) \in Root

(* What is wrong with an assertion on the head, and where.                 *)
Right == [kind |-> "right"]

judge_slip(id) ==
  IF Exec(w.replica, assertions[id].batch) = assertions[id].post_state_root
  THEN Right ELSE [kind |-> "bisect"]

judge(id) ==
  LET a == assertions[id]
      n == Len(a.batch.tx_bytes)
      bad == {i \in 1..n : ~compiles(a.batch.tx_bytes[i])}
      gaps == {i \in 2..n : a.batch.tx_starts[i] # starts(a.batch)[i]}
  IN  CASE bad # {} -> [kind |-> "uncompilable", index |-> least(bad)]
        [] bad = {} /\ gaps # {} -> [kind |-> "start_gap", index |-> least(gaps) - 1]
        [] bad = {} /\ gaps = {} /\ executes(w.replica, a.batch)
             /\ starts(a.batch)[n + 1] # a.trace_length ->
             [kind |-> "trace_length", index |-> n]
        [] bad = {} /\ gaps = {}
             /\ (executes(w.replica, a.batch) => starts(a.batch)[n + 1] = a.trace_length)
             /\ Exec(w.replica, a.batch) # a.post_state_root -> [kind |-> "bisect"]
        [] OTHER -> Right

(* ensure_keyless_verdict for a leaf: the job's next submission, if any.   *)
(* How far a job is is read once; then the watcher counts by itself, and   *)
(* next is its count, or NotCounting.                                      *)
NotCounting == -1

job_calls(id, index) ==
  LET tx == assertions[id].batch.tx_bytes[index]
      job == <<tx, assertions[id].timestamp>>
      next == IF w.next = NotCounting THEN jobs[job].next_step ELSE w.next
  IN  IF w.next = NotCounting /\ leaf_ready(id, index) THEN {}
      ELSE IF job \notin DOMAIN jobs THEN {[fn |-> "job_start", job |-> job, next |-> 0]}
      ELSE IF next < POSEIDON_STEPS
      THEN {[fn |-> "job_advance", job |-> job,
             next |-> lesser(next + keyless_steps_per_tx, POSEIDON_STEPS)]}
      ELSE {[fn |-> "job_finish", job |-> job, next |-> NotCounting]}

(* The call that presents a leaf, after those its verdict takes.           *)
with_leaf(id, index, call) == IF job_calls(id, index) # {} THEN job_calls(id, index) ELSE {call}

(* The first segment whose end is not what the watcher computed from the   *)
(* state the game was saved with; the last when it agrees with all.        *)
disputed_segment(g, d) ==
  LET own == g.pre_state = assertions[assertions[g.assertion].parent].post_state_root
      ends == {i \in 1..Len(d.offered) : ~own \/ d.offered[i] # HONEST}
  IN  IF ends = {} THEN segments(d.lo, d.hi) - 1 ELSE least(ends) - 1

covering(id, pc) ==
  LET at_or_before == {i \in DOMAIN assertions[id].batch.tx_starts :
                         assertions[id].batch.tx_starts[i] <= pc}
  IN  CHOOSE i \in at_or_before : \A j \in at_or_before : j <= i

concluded(g) ==
  LET key == <<g.assertion, watcher>>
  IN  \/ key \notin DOMAIN disputes
      \/ disputes[key].stage = RESOLVED
      \/ assertions[g.assertion].status = REJECTED

moves(g) ==
  LET key == <<g.assertion, watcher>>
      d == disputes[key]
  IN  IF d.turn = CHALLENGER /\ d.stage = BISECTING /\ d.has_offer
      THEN {[fn |-> "select", key |-> key, index |-> disputed_segment(g, d)]}
      ELSE IF d.turn = CHALLENGER /\ d.stage = ONE_STEP
      THEN with_leaf(g.assertion, covering(g.assertion, d.lo),
             [fn |-> "one_step", key |-> key, index |-> covering(g.assertion, d.lo)])
      ELSE IF d.turn = DEFENDER /\ now > d.deadline
      THEN {[fn |-> "claim_timeout", key |-> key]}
      ELSE {}

(* Each game once a round, in any order.                                   *)
unplayed == {g \in w.games \ w.done : concluded(g) \/ moves(g) # {}}

played == w.phase \in {"examine", "evidence"} \/ unplayed = {}

Play ==
  /\ reads(w) /\ ~played
  /\ \E g \in unplayed :
       \/ concluded(g) /\ saves([goes_on(w, "play") EXCEPT !.games = @ \ {g}])
       \/ ~concluded(g) /\ \E c \in moves(g) : holds([goes_on(w, "play") EXCEPT !.call = c])
  /\ UNCHANGED <<contractVars, blocks, r, rfile, foreign, passed>>

(* The assertion the cursor is at, in the order of posting.                *)
examined == w.cursor + 1

continues(id) == assertions[id].parent = w.head /\ assertions[id].status # REJECTED

moved_on(p) == [goes_on(p, "examine") EXCEPT !.cursor = @ + 1]

disproved(id) == continues(id) /\ judge(id) # Right

evidence(id) ==
  LET f == judge(id)
  IN  CASE f.kind = "uncompilable" ->
             with_leaf(id, f.index, [fn |-> "prove_uncompilable", id |-> id, index |-> f.index])
        [] f.kind = "start_gap" ->
             with_leaf(id, f.index, [fn |-> "prove_start_gap", id |-> id, index |-> f.index])
        [] f.kind = "trace_length" ->
             with_leaf(id, f.index, [fn |-> "prove_trace_length", id |-> id])
        [] f.kind = "bisect" /\ <<id, watcher>> \notin DOMAIN disputes ->
             {[fn |-> "open", id |-> id]}
        [] OTHER -> {}

(* A challenge is several submissions; what has landed is not repeated.    *)
challenge(id) ==
  IF w.phase = "evidence" \/ has_open_challenge(id, watcher) THEN evidence(id)
  ELSE {[fn |-> "open_challenge", id |-> id, bond |-> watcher_bond]}

(* A verified assertion becomes the head.  A wrong one that is final ends  *)
(* every round in an error; any other is challenged.                       *)
Examine ==
  /\ reads(w) /\ played /\ w.phase # "evidence"
  /\ \/ /\ w.phase # "idle"
        /\ examined \in Ids =>
             disproved(examined) /\ assertions[examined].status = FINALIZED
        /\ holds(rests(w))
        /\ UNCHANGED passed
     \/ /\ examined \in Ids /\ ~continues(examined)
        /\ saves(moved_on(w))
        /\ passed' = IF assertions[examined].status = REJECTED THEN passed
                     ELSE passed \cup {examined}
     \/ /\ examined \in Ids /\ continues(examined) /\ ~disproved(examined)
        /\ saves(moved_on([w EXCEPT !.head = examined,
                                    !.replica = Exec(@, assertions[examined].batch)]))
        /\ UNCHANGED passed
  /\ UNCHANGED <<contractVars, blocks, r, rfile, foreign>>

challenging ==
  \/ w.phase = "evidence"
  \/ examined \in Ids /\ disproved(examined) /\ assertions[examined].status # FINALIZED

with_game(p) == [p EXCEPT !.games = @ \cup {[assertion |-> examined, pre_state |-> w.replica]}]

(* The game is saved first, then the cursor: a fault may come in between.  *)
Challenge ==
  /\ reads(w) /\ played /\ challenging
  /\ \/ \E c \in challenge(examined) :
          holds([goes_on(w, IF c.fn = "open_challenge" THEN "examine" ELSE "evidence")
                   EXCEPT !.call = c])
     \/ /\ challenge(examined) = {}
        /\ w' = moved_on(with_game(w)) /\ wfile' = saved(w')
        /\ UNCHANGED faults
     \/ /\ challenge(examined) = {}
        /\ fault
        /\ \/ w' = rests(with_game(w)) /\ UNCHANGED wfile
           \/ /\ w' \in {rests(p) : p \in {with_game(w), moved_on(with_game(w))}}
              /\ wfile' = saved(with_game(w))
  /\ UNCHANGED <<contractVars, blocks, r, rfile, foreign, passed>>

WatcherWaits ==
  /\ w.phase = "idle"
  /\ IF ~played
     THEN \A g \in unplayed : ~concluded(g) /\ \A c \in moves(g) : aborts(watcher, c)
     ELSE examined \in Ids =>
            /\ disproved(examined)
            /\ challenging => /\ challenge(examined) # {}
                              /\ \A c \in challenge(examined) : aborts(watcher, c)

(* What the watcher goes on with once its submission has succeeded.        *)
continued ==
  LET p == [w EXCEPT !.call = NoCall]
      c == w.call
  IN  CASE c.fn \in {"open_challenge", "open"} -> [p EXCEPT !.phase = "evidence"]
        [] c.fn \in {"prove_uncompilable", "prove_start_gap", "prove_trace_length"} -> moved_on(p)
        [] c.fn \in {"select", "one_step", "claim_timeout"} ->
             [p EXCEPT !.done = @ \cup {g \in w.games : g.assertion = c.key[1]}]
        [] c.fn = "job_start" ->
             [p EXCEPT !.next = IF jobs'[c.job].finished THEN NotCounting ELSE 0]
        [] c.fn \in {"job_advance", "job_finish"} -> [p EXCEPT !.next = c.next]

(* An assertion whose challenge failed part-way is not examined again.     *)
given_up_slip == [rests(w) EXCEPT !.next = NotCounting, !.cursor = lesser(@ + 1, Cardinality(Ids))]

given_up == [rests(w) EXCEPT !.next = NotCounting]

WatcherSubmits ==
  /\ w.call # NoCall
  /\ \/ /\ perform(watcher, w.call)
        /\ IF continued.cursor # w.cursor THEN saves(continued) ELSE holds(continued)
     \/ /\ aborts(watcher, w.call)
        /\ holds(given_up)
        /\ UNCHANGED contractVars
     \/ /\ fault
        /\ perform(watcher, w.call) \/ UNCHANGED contractVars
        /\ w' = given_up /\ UNCHANGED wfile
  /\ UNCHANGED <<blocks, r, rfile, foreign, passed>>

WatcherRestart ==
  /\ fault
  /\ w.phase # "idle" \/ saved(w) # wfile
  /\ w' = wfile @@ [phase |-> "idle", done |-> {}, next |-> NotCounting, call |-> NoCall]
  /\ UNCHANGED <<contractVars, blocks, r, rfile, wfile, foreign, passed>>

-----------------------------------------------------------------------------
(* Everyone else: whatever the contracts accept.  A batch that stops at    *)
(* its first step has no honest state after it to commit to.               *)
ForeignPost ==
  /\ now <= LastForeign
  /\ \E p \in Others, on \in Ids, claim \in Claims, bond \in Bond :
       post(p, on, claim.root, claim.batch, now, claim.trace_length, bond)
  /\ UNCHANGED <<disputes, jobs>>

ForeignChallenge ==
  /\ now <= LastForeign
  /\ \E p \in Others, i \in Ids, bond \in Bond : open_challenge(p, i, bond)
  /\ UNCHANGED <<disputes, jobs>>

ForeignOpen == \E p \in Others, i \in Ids : open(p, i) /\ UNCHANGED jobs

ForeignProof ==
  \E p \in Others, i \in Ids \ {Genesis} :
    \/ perform(p, [fn |-> "prove_trace_length", id |-> i])
    \/ \E index \in 1..Len(assertions[i].batch.tx_bytes) :
         \/ perform(p, [fn |-> "prove_uncompilable", id |-> i, index |-> index])
         \/ perform(p, [fn |-> "prove_start_gap", id |-> i, index |-> index])

committable(id) ==
  IF executes(assertions[assertions[id].parent].post_state_root, assertions[id].batch)
  THEN Commitment ELSE {FORGED}

ForeignMove(key) ==
  LET d == disputes[key]
      n == segments(d.lo, d.hi)
  IN  \/ /\ assertions[key[1]].proposer \in Others
         /\ \E c \in [1..(n - 1) -> committable(key[1])] :
              perform(assertions[key[1]].proposer,
                      [fn |-> "dissect", key |-> key, commitments |-> c])
      \/ /\ key[2] \in Others
         /\ \/ \E i \in 0..(n - 1) :
                 perform(key[2], [fn |-> "select", key |-> key, index |-> i])
            \/ \E i \in DOMAIN assertions[key[1]].batch.tx_bytes :
                 perform(key[2], [fn |-> "one_step", key |-> key, index |-> i])

Anyone ==
  \/ \E key \in DOMAIN disputes : ClaimTimeout(key) /\ UNCHANGED jobs
  \/ \E i \in Ids : L1Finalize(i) /\ UNCHANGED jobs

ForeignJob ==
  /\ \/ \E i \in Ids \ {Genesis}, tx \in Keyless :
          /\ tx \in Range(assertions[i].batch.tx_bytes)
          /\ job_start(<<tx, assertions[i].timestamp>>)
     \/ \E job \in DOMAIN jobs : job_advance(job, 1) \/ job_finish(job)
  /\ UNCHANGED <<chainVars, disputes>>

Foreign ==
  /\ \/ /\ another_event /\ foreign < MaxForeign /\ foreign' = foreign + 1
        /\ ForeignPost \/ ForeignChallenge \/ ForeignJob
     \/ /\ UNCHANGED foreign
        /\ \/ ForeignOpen \/ ForeignProof
           \/ \E key \in DOMAIN disputes : ForeignMove(key)
           \/ Anyone
  /\ UNCHANGED <<blocks, r, rfile, w, wfile, faults, passed>>

AgentTick ==
  /\ RelayerWaits /\ WatcherWaits
  /\ Tick
  /\ UNCHANGED <<disputes, jobs, blocks, r, rfile, w, wfile, faults, foreign, passed>>

AgentInit ==
  /\ L1Init
  /\ blocks = <<>> /\ jobs = [k \in {} |-> 0] /\ faults = 0 /\ foreign = 0
  /\ passed = {}
  /\ rfile = <<>>
  /\ r = [phase |-> "idle", posted |-> rfile, done |-> {}, call |-> NoCall]
  /\ wfile = [cursor |-> Genesis, head |-> Genesis, replica |-> GenesisRoot, games |-> {}]
  /\ w = wfile @@ [phase |-> "idle", done |-> {}, next |-> NotCounting, call |-> NoCall]

AgentNext ==
  \/ \E sealable \in Sealable, root \in Root : Seal(sealable, root)
  \/ Defend \/ PostNew \/ FinalizeDue \/ RelayerSubmits \/ RelayerRestart
  \/ Play \/ Examine \/ Challenge \/ WatcherSubmits \/ WatcherRestart
  \/ Foreign
  \/ AgentTick

AgentSpec == AgentInit /\ [][AgentNext]_agentVars

-----------------------------------------------------------------------------
RECURSIVE ancestors(_)
ancestors(id) == IF id = Genesis THEN {id} ELSE {id} \cup ancestors(assertions[id].parent)

AllSound(id) == \A i \in ancestors(id) : Sound(i)

(* The relayer's books are those of L1, through every crash, lost answer   *)
(* and failed save: an entry is the assertion of its block on the entry    *)
(* before it, a fate in the books is the fate on L1, and L1 holds no       *)
(* assertion of the relayer beyond the one it is about to record.          *)
RelayerBooksTrue ==
  /\ \A n \in DOMAIN r.posted :
       LET a == assertions[r.posted[n].id]
       IN  /\ a.parent = IF n = 1 THEN Genesis ELSE r.posted[n - 1].id
           /\ a.post_state_root = blocks[n].post_state_root
           /\ a.timestamp = blocks[n].timestamp
           /\ a.batch = blocks[n].batch
           /\ r.posted[n].finalized => a.status = FINALIZED
           /\ r.posted[n].rejected => a.status = REJECTED
  /\ \A i \in Ids \ {Genesis} :
       assertions[i].proposer = relayer =>
         \/ \E n \in DOMAIN r.posted : r.posted[n].id = i
         \/ Len(r.posted) < Len(blocks) /\ i \in same_content(next_post)

(* Once a round of the relayer can do nothing more, nothing is left behind,*)
(* whatever failed before: every sealed block is posted, every dissection  *)
(* that is its to make is made, and what can be final is.  Left out: an    *)
(* assertion that someone else posted first with the same content, where   *)
(* the contract refuses the relayer's moves, and one whose rejection could *)
(* not be saved, on which nothing more can be posted.                      *)
RelayerKeepsUp ==
  RelayerWaits /\ r.phase = "idle"
    /\ (\A n \in DOMAIN r.posted :
          ~r.posted[n].rejected /\ assertions[r.posted[n].id].proposer = relayer)
    => /\ Len(r.posted) = Len(blocks)
       /\ \A n \in DOMAIN r.posted :
            LET id == r.posted[n].id
            IN  /\ ~can_finalize(id)
                /\ \A c \in DOMAIN challenges[id] :
                     <<id, c>> \in DOMAIN disputes =>
                       ~can_move(disputes[<<id, c>>], DEFENDER, now)

(* What the relayer posted is rejected only when it, or something below    *)
(* it, is wrong: defend answers every game over every one of its           *)
(* assertions in time, through the faults of its process.  One that has    *)
(* halted on a rejection defends nothing any more, its other assertions    *)
(* included.                                                               *)
SoundRelayerKept ==
  r.phase # "halted" =>
    \A i \in Ids :
      assertions[i].proposer = relayer /\ AllSound(i) => assertions[i].status # REJECTED

(* The case judge does not tell apart: a batch that stops at a step is     *)
(* bisected without a look at its trace length.                            *)
StopsMisshapen(id) ==
  /\ ~executes(assertions[assertions[id].parent].post_state_root, assertions[id].batch)
  /\ Faulty(id)

(* A wrong assertion becomes final only if the watcher never judged it     *)
(* (it did not continue the head when the cursor passed it), whichever     *)
(* submission of a challenge failed, landed unnoticed or was cut short.    *)
UnsoundFinalOnlyUnseen ==
  \A i \in Ids : assertions[i].status = FINALIZED /\ ~Sound(i) => i \in passed \/ StopsMisshapen(i)

(* In memory and in the file: the head and all below it are right, the     *)
(* replica is the head's state, every game starts from the state its batch *)
(* does; and the watcher challenges nothing that is right.                 *)
WatcherStandsOnTruth ==
  /\ \A p \in {saved(w), wfile} :
       /\ AllSound(p.head) /\ p.replica = assertions[p.head].post_state_root
       /\ \A g \in p.games :
            g.pre_state = assertions[assertions[g.assertion].parent].post_state_root
  /\ \A i \in Ids : has_open_challenge(i, watcher) => ~Sound(i)
=============================================================================
