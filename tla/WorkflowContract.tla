-------------------------- MODULE WorkflowContract --------------------------
(***************************************************************************)
(* What a workflow execution promises, with no lineage, rows, snapshots or *)
(* versions: nodes run after their dependencies and at most max_attempts   *)
(* times, nothing is undone, and the status says how far things can get.   *)
(* WorkflowPersistence implements it at the level of what the stored       *)
(* lineage replays to.                                                     *)
(***************************************************************************)
EXTENDS Naturals, FiniteSets

CONSTANT Plans

VARIABLES plan, status, completed, failed, attempts

vars == <<plan, status, completed, failed, attempts>>

PlanNodes == DOMAIN plan.deps

Runnable == {n \in PlanNodes \ (completed \cup failed) : plan.deps[n] \subseteq completed}

\* the status an execution has when it can still run, with the new sets
Status(done, lost) ==
    IF PlanNodes \subseteq done THEN "completed"
    ELSE IF \E n \in PlanNodes \ (done \cup lost) : plan.deps[n] \subseteq done
    THEN "executing" ELSE "blocked"

Init ==
    /\ plan \in Plans
    /\ status = "absent"
    /\ completed = {}
    /\ failed = {}
    /\ attempts = [n \in PlanNodes |-> 0]

Initialize ==
    /\ status = "absent"
    /\ status' = "initialized"
    /\ UNCHANGED <<plan, completed, failed, attempts>>

Start ==
    /\ status = "initialized"
    /\ status' = "executing"
    /\ UNCHANGED <<plan, completed, failed, attempts>>

Complete(n) ==
    /\ status = "executing"
    /\ n \in Runnable
    /\ completed' = completed \cup {n}
    /\ status' = Status(completed', failed)
    /\ UNCHANGED <<plan, failed, attempts>>

Retry(n) ==
    /\ status = "executing"
    /\ n \in Runnable
    /\ attempts[n] + 1 < plan.max[n]
    /\ attempts' = [attempts EXCEPT ![n] = @ + 1]
    /\ UNCHANGED <<plan, status, completed, failed>>

GiveUp(n) ==
    /\ status = "executing"
    /\ n \in Runnable
    /\ attempts[n] + 1 = plan.max[n]
    /\ attempts' = [attempts EXCEPT ![n] = @ + 1]
    /\ failed' = failed \cup {n}
    /\ status' = Status(completed, failed')
    /\ UNCHANGED <<plan, completed>>

Next ==
    \/ Initialize \/ Start
    \/ \E n \in PlanNodes : Complete(n) \/ Retry(n) \/ GiveUp(n)

Spec == Init /\ [][Next]_vars

=============================================================================
