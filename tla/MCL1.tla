-------------------------------- MODULE MCL1 --------------------------------
(* Small instances of L1 for TLC: transaction "a" compiles to one          *)
(* instruction, "b" to two, "x" to none.                                   *)
EXTENDS L1, TLC

CONSTANTS p1, p2, p3, r1, r2

MCParty2 == {p1, p2}
MCParty3 == {p1, p2, p3}
MCRoot == {r1, r2}

MCProgram(tx) == CASE tx = "a" -> 1 [] tx = "b" -> 2 [] tx = "x" -> UNCOMPILABLE

(* Executing any transaction reaches r2; an empty batch changes nothing.   *)
MCExec(root, batch) == IF batch.tx_bytes = <<>> THEN root ELSE r2

Two == [tx_bytes |-> <<"b">>, tx_starts |-> <<0>>]
Bad == [tx_bytes |-> <<"x">>, tx_starts |-> <<0>>]
LateBad == [tx_bytes |-> <<"a", "x">>, tx_starts |-> <<0, 1>>]
Pair == [tx_bytes |-> <<"b", "a">>, tx_starts |-> <<0, 2>>]
Gap == [tx_bytes |-> <<"a", "a">>, tx_starts |-> <<0, 2>>]
Overlap == [tx_bytes |-> <<"b", "a">>, tx_starts |-> <<0, 1>>]

MCSteps == {Two}
MCPair == {Pair}
MCShapes == {EmptyBatch, Two, Bad, LateBad, Pair, Gap, Overlap}
=============================================================================
