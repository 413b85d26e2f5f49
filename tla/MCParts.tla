------------------------------ MODULE MCParts -------------------------------
(* Small instances for TLC of components that do not interact: the trie    *)
(* and its proofs, the batch tree, the account encoding, the in-process    *)
(* chain, the in-process game, the bridge and the parameter set.  A        *)
(* behaviour moves one.                                                    *)
EXTENDS LightClient, BatchTree, AccountCodec, LocalChain, VerifierGame, Bridge, Params

CONSTANTS usdc, tx1, tx2, r0, r1, r2, ann, ben

VARIABLE part     \* which of them moves

MCKeys == {<<0, 0, 0>>, <<0, 0, 1>>, <<1, 0, 0>>}
MCValues == {no_account, [nonce |-> 1, balances |-> usdc :> 1]}
MCBalances == {<<>>, <<[asset |-> usdc, amount |-> 1]>>,
               <<[asset |-> usdc, amount |-> 1], [asset |-> usdc, amount |-> 1]>>}
MCSteps == tx1 :> 1 @@ tx2 :> 2

writes_root(r) == [x \in Roots |-> r]
changes_nothing == [x \in Roots |-> x]
needs_root(a, b) == [x \in Roots |-> IF x = a THEN b ELSE STUCK]

(* One step; five steps; and a batch that stops at its second step.        *)
MCPrograms ==
  {<<writes_root(r1)>>,
   <<needs_root(r0, r1), changes_nothing, writes_root(r2), changes_nothing, needs_root(r2, r0)>>,
   <<writes_root(r1), needs_root(r0, r1)>>}

MCHeldAt ==
  0 :> (ann :> 0 @@ ben :> 0) @@ 1 :> (ann :> 1 @@ ben :> 2) @@ 2 :> (ann :> 2 @@ ben :> 1)

(* Every relation between window, floor, divisor and move timeout.         *)
MCCandidates ==
  [challenge_window_secs : {6, 9}, challenge_window_floor_secs : 0..9, move_timeout_secs : 0..2,
   clock_budget_divisor : {1, 2, 3, 4}, bisection_arity : {2}, timeouts : {{1}},
   slash_reward_percent : {50}, gas_rate_scale : {1}]

MCFrozen ==
  [challenge_window_secs |-> 9, challenge_window_floor_secs |-> 4, move_timeout_secs |-> 1,
   clock_budget_divisor |-> 4, bisection_arity |-> 2, timeouts |-> {1},
   slash_reward_percent |-> 50, gas_rate_scale |-> 1]

others(moving) ==
  /\ part = moving
  /\ UNCHANGED part
  /\ moving # "trie" => UNCHANGED vars
  /\ moving # "batch" => UNCHANGED batch
  /\ moving # "codec" => UNCHANGED cells
  /\ moving # "chain" => UNCHANGED chainVars
  /\ moving # "game" => UNCHANGED gameVars
  /\ moving # "bridge" => UNCHANGED bridgeVars
  /\ moving # "params" => UNCHANGED paramVars

MCInit ==
  /\ part \in {"trie", "batch", "codec", "chain", "game", "bridge", "params"}
  /\ Init
  /\ BatchInit
  /\ CodecInit
  /\ ChainInit
  /\ GameInit
  /\ BridgeInit
  /\ ParamsInit
  /\ part # "params" => params = MCFrozen

MCNext ==
  \/ others("trie") /\ Next
  \/ others("batch") /\ BatchNext
  \/ others("codec") /\ CodecNext
  \/ others("chain") /\ ChainNext
  \/ others("game") /\ GameNext
  \/ others("bridge") /\ BridgeNext
  \/ others("params") /\ ParamsNext

MCSpec ==
  MCInit /\ [][MCNext]_<<part, vars, batch, cells, chainVars, gameVars, bridgeVars, paramVars>>
=============================================================================
