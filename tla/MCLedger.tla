------------------------------ MODULE MCLedger ------------------------------
(* Model values for the small instances of SqliteLedger.                   *)
EXTENDS SqliteLedger, TLC

CONSTANTS t1, t2, s1, s2, d1

\* The sessions are interchangeable.
SessionSymmetry == Permutations(Sessions)
=============================================================================
