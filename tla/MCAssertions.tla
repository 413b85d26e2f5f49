---------------------------- MODULE MCAssertions ----------------------------
(* Small instances of Assertions for TLC.                                  *)
EXTENDS Assertions, TLC

CONSTANTS p1, p2, p3, r1, r2

MCParty2 == {p1, p2}
MCParty3 == {p1, p2, p3}
MCRoot == {r1, r2}

MCBatch == {[tx_bytes |-> <<"t">>, tx_starts |-> <<0>>]}
=============================================================================
