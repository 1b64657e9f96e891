----------------------------- MODULE MCRuntime ------------------------------
(* RuntimeSupervisor with three tasks, one of them without a handler *)
EXTENDS RuntimeSupervisor

=============================================================================
