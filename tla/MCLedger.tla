------------------------------ MODULE MCLedger ------------------------------
(* SemanticLedger on small sets for TLC *)
EXTENDS SemanticLedger, TLC

CONSTANTS c1, c2, r1, p

\* the callers run the same code and no property names one of them
LedgerSymmetry == Permutations({c1, c2})

=============================================================================
