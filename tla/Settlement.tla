----------------------------- MODULE Settlement -----------------------------
(***************************************************************************)
(* What an assertion chain promises, whoever implements it: claims form a  *)
(* tree under a root that is final; a claim may be made on anything that   *)
(* is not void; a claim becomes final only on a final parent; a claim that *)
(* falls takes every open claim above it with it; and neither fate is ever *)
(* taken back.  Bonds, windows, challenges and games are how a chain       *)
(* decides between the two fates, and do not appear here.                  *)
(***************************************************************************)
CONSTANTS
  Claim,      \* identifiers of claims
  RootClaim,  \* the claim that is final from the start
  NoClaim     \* what the root claim builds on

VARIABLES parent, fate

settlement == <<parent, fate>>

Made == DOMAIN fate

OPEN == "open"
FINAL == "final"
VOID == "void"

Init ==
  /\ parent = [c \in {RootClaim} |-> NoClaim]
  /\ fate = [c \in {RootClaim} |-> FINAL]

Make(c, p) ==
  /\ c \notin Made
  /\ p \in Made
  /\ fate[p] # VOID
  /\ parent' = [x \in Made \cup {c} |-> IF x = c THEN p ELSE parent[x]]
  /\ fate' = [x \in Made \cup {c} |-> IF x = c THEN OPEN ELSE fate[x]]

Settle(c) ==
  /\ c \in Made
  /\ fate[c] = OPEN
  /\ parent[c] \in Made
  /\ fate[parent[c]] = FINAL
  /\ fate' = [fate EXCEPT ![c] = FINAL]
  /\ UNCHANGED parent

(* The open claims that stand on c through open claims, c among them.      *)
IsFall(fallen, c) ==
  fallen = {x \in Made : fate[x] = OPEN /\ (x = c \/ parent[x] \in fallen)}

Fall(c) ==
  /\ c \in Made
  /\ fate[c] = OPEN
  /\ \E fallen \in SUBSET Made :
       /\ IsFall(fallen, c)
       /\ fate' = [x \in Made |-> IF x \in fallen THEN VOID ELSE fate[x]]
  /\ UNCHANGED parent

Next ==
  \E c \in Claim :
    \/ \E p \in Claim : Make(c, p)
    \/ Settle(c)
    \/ Fall(c)

Spec == Init /\ [][Next]_settlement
=============================================================================
