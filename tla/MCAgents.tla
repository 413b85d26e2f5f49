------------------------------ MODULE MCAgents ------------------------------
(* A small instance of Agents for TLC: one party beside the relayer and    *)
(* the watcher.  "k" is a keyless transaction of two steps, "a" one of one *)
(* step, "f" one whose first step fails, "x" one that does not compile.    *)
EXTENDS Agents

CONSTANTS p1, p2, p3, r1, r2, stuck

MCParty == {p1, p2, p3}
MCRoot == {r1, r2}

MCProgram(tx) == CASE tx \in {"k", "f"} -> 2 [] tx = "a" -> 1 [] tx = "x" -> UNCOMPILABLE

MCExec(root, batch) ==
  IF batch.tx_bytes = <<>> THEN root ELSE IF Head(batch.tx_bytes) = "f" THEN stuck ELSE r2

One == [tx_bytes |-> <<"k">>, tx_starts |-> <<0>>]
Fails == [tx_bytes |-> <<"f">>, tx_starts |-> <<0>>]
Bad == [tx_bytes |-> <<"x">>, tx_starts |-> <<0>>]
Gap == [tx_bytes |-> <<"k", "a">>, tx_starts |-> <<0, 1>>]

MCBatch == {One, Fails, Bad, Gap}
MCSealable == {[batch |-> One, trace_length |-> 2]}

claim(batch, trace_length, root) ==
  [batch |-> batch, trace_length |-> trace_length, root |-> root]

MCClaims ==
  {claim(One, 2, r1), claim(One, 2, r2), claim(One, 3, r2), claim(Fails, 2, r2),
   claim(Fails, 3, r2), claim(Bad, 2, r2), claim(Gap, 3, r2)}
=============================================================================
