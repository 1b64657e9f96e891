----------------------------- MODULE MCWorkflow -----------------------------
(* WorkflowPersistence with the shapes of plan that behave differently *)
EXTENDS WorkflowPersistence

\* one node that may be tried twice, and a node after it
Chain == [deps   |-> [n \in {1, 2} |-> IF n = 1 THEN {} ELSE {1}],
          stages |-> <<{1}, {2}>>,
          max    |-> [n \in {1, 2} |-> IF n = 1 THEN 2 ELSE 1]]

\* a long branch 1-2 and a short one 4 into a join: when node 1 fails, node 3 two
\* steps away is lost but node 4 can still run; when node 4 finishes after node 2
\* the execution advances over two stages at once
Uneven == [deps   |-> [n \in 1..4 |-> IF n = 2 THEN {1} ELSE IF n = 3 THEN {2, 4} ELSE {}],
           stages |-> <<{1, 4}, {2}, {3}>>,
           max    |-> [n \in 1..4 |-> 1]]

\* a valid workflow with no nodes
Empty == [deps |-> <<>>, stages |-> <<>>, max |-> <<>>]

MCPlans == {Chain, Uneven, Empty}

=============================================================================
