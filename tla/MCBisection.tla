---------------------------- MODULE MCBisection -----------------------------
(* Small instances of Bisection for TLC: nobody is honest, or one of the   *)
(* two parties is.                                                         *)
EXTENDS Bisection

NobodyOrOne == {{}, {DEFENDER}, {CHALLENGER}}
OnlyChallenger == {{CHALLENGER}}
=============================================================================
