----------------------------- MODULE TaskStates -----------------------------
(***************************************************************************)
(* The closed task state machine of orchestration/models.py and            *)
(* orchestration/transitions.py, shared by every module that moves a task. *)
(***************************************************************************)

\* VALID_STATES
TaskState == {"pending", "ready", "running", "blocked",
              "completed", "failed", "cancelled", "superseded"}

\* TERMINAL_STATES: the states is_terminal answers True for
TerminalTaskState == {"cancelled", "superseded"}

\* old_state of the event that create_task writes (SQL NULL)
NoState == "none"

\* VALID_TRANSITIONS
TaskMoves ==
    [pending    |-> {"ready", "blocked", "cancelled"},
     ready      |-> {"running", "blocked", "cancelled"},
     running    |-> {"completed", "failed", "blocked"},
     blocked    |-> {"ready", "cancelled"},
     failed     |-> {"ready", "cancelled"},
     completed  |-> {"superseded"},
     cancelled  |-> {},
     superseded |-> {}]

\* can_transition / validate_transition
CanTransition(old, new) == old \in TaskState /\ new \in TaskMoves[old]

=============================================================================
