----------------------------- MODULE MCPlanner ------------------------------
(* WorkflowPlanner over every definition with few nodes and references *)
EXTENDS WorkflowPlanner

=============================================================================
