------------------------------ MODULE MCTasks -------------------------------
(* TaskOrchestration with two possible writers: small sets for TLC *)
EXTENDS TaskOrchestration, TLC

CONSTANTS c1, c2

\* the callers run the same code and no property names one of them
CallerSymmetry == Permutations({c1, c2})

=============================================================================
