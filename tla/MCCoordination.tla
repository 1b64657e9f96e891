--------------------------- MODULE MCCoordination ---------------------------
(* WorkflowCoordination on two plans of three nodes *)
EXTENDS WorkflowCoordination

\* two nodes that may run side by side, one with a second attempt, and a join
Join == [deps   |-> [n \in 1..3 |-> IF n = 3 THEN {1, 2} ELSE {}],
         stages |-> <<{1, 2}, {3}>>,
         max    |-> [n \in 1..3 |-> IF n = 2 THEN 2 ELSE 1]]

\* a chain of two
Pair == [deps   |-> [n \in 1..2 |-> IF n = 2 THEN {1} ELSE {}],
         stages |-> <<{1}, {2}>>,
         max    |-> [n \in 1..2 |-> 2]]

MCPlans == {Join, Pair}

=============================================================================
