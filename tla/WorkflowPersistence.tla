------------------------ MODULE WorkflowPersistence -------------------------
(***************************************************************************)
(* workflow/persistence.py, snapshot_policy.py, recovery.py and the tables *)
(* of storage.py for one execution: the mutable row, the append-only       *)
(* lineage and the snapshots, written by one process at a time that may    *)
(* crash between any two commits.                                          *)
(*                                                                         *)
(* The process holds an execution in memory, applies the executor to it    *)
(* and persists the result.  Which node finishes, and how, is up to the    *)
(* environment; the process reports results of ready nodes while the       *)
(* execution is executing (the caller loop the coordination code serves).  *)
(***************************************************************************)
EXTENDS WorkflowExecution

CONSTANTS
    EventsPerSnapshot, \* SnapshotPolicy.events_per_snapshot, 0 disables it
    MaxCrashes,        \* bound: crashes of a working process
    MaxSubmits         \* bound: node_submitted events in the lineage

ASSUME BoundsAssumption ==
    EventsPerSnapshot \in Nat /\ MaxCrashes \in Nat /\ MaxSubmits \in Nat

VARIABLES
    plan,   \* the persisted plan; never changes
    row,    \* workflow_executions: <<>> or <<execution>>
    log,    \* workflow_execution_events in id order
    snap,   \* the latest snapshot: <<>> or <<[exec, upto]>>
    pc,     \* where the process stands
    mem,    \* its execution: <<>> or <<execution>>
    batch,  \* the events it persists next
    since,  \* its last_snapshot_event_id
    crashes

stored == <<row, log, snap>>
vars == <<plan, row, log, snap, pc, mem, batch, since, crashes>>

Exec == mem[1]

\* the events a delta replay on the snapshot applies
Delta == SubSeq(log, snap[1].upto + 1, Len(log))

Init ==
    /\ plan \in Plans
    /\ row = <<>> /\ log = <<>> /\ snap = <<>>
    /\ pc = "off" /\ mem = <<>> /\ batch = <<>> /\ since = 0
    /\ crashes = 0

-----------------------------------------------------------------------------
(* a process starts *)

\* initialize_execution
Initialize ==
    /\ pc = "off"
    /\ row = <<>>
    /\ mem' = <<Initialized(plan)>>
    /\ batch' = <<InitEvent>>
    /\ pc' = "persist"
    /\ UNCHANGED <<plan, stored, since, crashes>>

\* replay_execution_from_storage
ResumeFull ==
    /\ pc = "off"
    /\ LineageValid(log)
    /\ mem' = <<Replayed(log, plan)>>
    /\ since' = 0
    /\ pc' = "idle"
    /\ UNCHANGED <<plan, stored, batch, crashes>>

\* replay_execution_from_snapshot, when there is a snapshot
ResumeFromSnapshot ==
    /\ pc = "off"
    /\ snap # <<>>
    /\ DeltaValid(snap[1].exec, Delta)
    /\ mem' = <<Applied(snap[1].exec, Delta)>>
    /\ since' = snap[1].upto
    /\ pc' = "idle"
    /\ UNCHANGED <<plan, stored, batch, crashes>>

-----------------------------------------------------------------------------
(* it moves its execution; a call that raises changes nothing *)

Take(result) ==
    /\ ~ result.raises
    /\ mem' = <<result.exec>>
    /\ batch' = result.events
    /\ pc' = "persist"
    /\ UNCHANGED <<plan, stored, since, crashes>>

StartExecution == pc = "idle" /\ Exec.state = "initialized" /\ Take(Started(Exec))

\* handle_task_result
Complete(n) ==
    /\ pc = "idle"
    /\ Exec.state = "executing"
    /\ n \in ReadyNodes(Exec, plan)
    /\ Take(NodeCompleted(Exec, plan, n))

Fail(n) ==
    /\ pc = "idle"
    /\ Exec.state = "executing"
    /\ n \in ReadyNodes(Exec, plan)
    /\ Take(NodeFailed(Exec, plan, n))

\* step_execution: node_submitted events, the execution unchanged
Submit(n) ==
    /\ pc = "idle"
    /\ Exec.state \notin TerminalExecutionState
    /\ n \in ReadyNodes(Exec, plan)
    /\ Cardinality(At(log, "node_submitted")) < MaxSubmits
    /\ Take([raises |-> FALSE, exec |-> Exec,
             events |-> <<NodeEvent("node_submitted", n, Exec.stage)>>])

-----------------------------------------------------------------------------
(* persist_execution: two commits *)

\* mutant: the row is always written before the events
FirstCommitRow ==
    /\ pc = "persist"
    /\ row' = mem /\ pc' = "append" /\ UNCHANGED log
    /\ UNCHANGED <<plan, snap, mem, batch, since, crashes>>

\* no row yet: the row first, for the foreign key; otherwise the events first
FirstCommit ==
    /\ pc = "persist"
    /\ IF row = <<>>
       THEN row' = mem /\ pc' = "append" /\ UNCHANGED log
       ELSE log' = log \o batch /\ pc' = "save" /\ UNCHANGED row
    /\ UNCHANGED <<plan, snap, mem, batch, since, crashes>>

SecondCommit ==
    /\ \/ pc = "append" /\ log' = log \o batch /\ UNCHANGED row
       \/ pc = "save" /\ row' = mem /\ UNCHANGED log
    /\ pc' = "policy"
    /\ UNCHANGED <<plan, snap, mem, batch, since, crashes>>

\* should_snapshot
ShouldSnapshot ==
    \/ At(batch, "stage_advanced") # {}
    \/ EventsPerSnapshot > 0 /\ Len(log) - since >= EventsPerSnapshot

\* mutant: the snapshot is tied to the event before the batch
TakeSnapshotEarly ==
    /\ pc = "policy" /\ ShouldSnapshot
    /\ snap' = <<[exec |-> Exec, upto |-> Len(log) - Len(batch)]>>
    /\ since' = Len(log)
    /\ pc' = "idle" /\ batch' = <<>>
    /\ UNCHANGED <<plan, row, log, mem, crashes>>

\* apply_snapshot_policy: tied to the last event just appended
TakeSnapshot ==
    /\ pc = "policy" /\ ShouldSnapshot
    /\ snap' = <<[exec |-> Exec, upto |-> Len(log)]>>
    /\ since' = Len(log)
    /\ pc' = "idle" /\ batch' = <<>>
    /\ UNCHANGED <<plan, row, log, mem, crashes>>

\* the caller applies no policy, or the policy asks for no snapshot
NoSnapshot ==
    /\ pc = "policy"
    /\ pc' = "idle" /\ batch' = <<>>
    /\ UNCHANGED <<plan, stored, mem, since, crashes>>

-----------------------------------------------------------------------------
(* the process ends, and commands that run while no process does *)

\* the caller loop is over: the execution no longer executes
Exit ==
    /\ pc = "idle"
    /\ Exec.state \notin {"initialized", "executing"}
    /\ pc' = "off" /\ mem' = <<>> /\ since' = 0
    /\ UNCHANGED <<plan, stored, batch, crashes>>

Crash ==
    /\ pc # "off"
    /\ crashes < MaxCrashes
    /\ crashes' = crashes + 1
    /\ pc' = "off" /\ mem' = <<>> /\ batch' = <<>> /\ since' = 0
    /\ UNCHANGED <<plan, stored>>

\* mutant: executions are found by the state of their lineage, not of their row
RecoverByLineage ==
    /\ pc = "off"
    /\ LineageValid(log)
    /\ Replayed(log, plan).state \notin TerminalExecutionState
    /\ row' = <<Replayed(log, plan)>>
    /\ UNCHANGED <<plan, log, snap, pc, mem, batch, since, crashes>>

\* recover_all(apply=True): rows in a terminal state are left alone, and so are
\* rows whose lineage is empty or invalid
RecoverAll ==
    /\ pc = "off"
    /\ row # <<>> /\ row[1].state \notin TerminalExecutionState
    /\ row' = IF LineageValid(log) THEN <<Replayed(log, plan)>> ELSE row
    /\ UNCHANGED <<plan, log, snap, pc, mem, batch, since, crashes>>

\* the snapshot command
SnapshotCommand ==
    /\ pc = "off"
    /\ LineageValid(log)
    /\ snap' = <<[exec |-> Replayed(log, plan), upto |-> Len(log)]>>
    /\ UNCHANGED <<plan, row, log, pc, mem, batch, since, crashes>>

-----------------------------------------------------------------------------
Work ==
    \/ StartExecution
    \/ \E n \in PlanNodes(plan) : Complete(n) \/ Fail(n)
    \/ FirstCommit \/ SecondCommit \/ TakeSnapshot \/ NoSnapshot \/ Exit

Next ==
    \/ Initialize \/ ResumeFull \/ ResumeFromSnapshot
    \/ Work
    \/ \E n \in PlanNodes(plan) : Submit(n)
    \/ Crash \/ RecoverAll \/ SnapshotCommand

Spec == Init /\ [][Next]_vars

\* The process works on without waiting, results of ready nodes arrive, somebody
\* restarts it, and recovery runs again and again between processes.
FairSpec == Spec /\ WF_vars(Work) /\ WF_vars(ResumeFull) /\ SF_vars(RecoverAll)

-----------------------------------------------------------------------------
\* what the stored lineage says, the canonical truth of the documentation
Truth == Replayed(log, plan)

\* persist_execution: "never behind it": the row is what some prefix of the
\* lineage replays to, except that of a new execution the row comes first.
RowNeverAhead ==
    row # <<>> =>
        \/ log = <<>> /\ row = <<Initialized(plan)>>
        \/ row = <<Truth>>
        \/ \E k \in 1..Len(log) : row = <<Replayed(SubSeq(log, 1, k), plan)>>

\* Whatever crashes and restarts there were, validate_lineage accepts the
\* stored lineage, and replaying it gives the very execution, version included,
\* that the process held when it had persisted.
LineageIsTruth ==
    /\ log # <<>> => LineageValid(log)
    /\ pc \in {"idle", "policy"} => mem = <<Truth>>

\* replay_execution_from_snapshot: "identical to replay_execution_from_storage"
SnapshotReplayAgrees ==
    snap # <<>> =>
        /\ DeltaValid(snap[1].exec, Delta)
        /\ Applied(snap[1].exec, Delta) = Truth

\* active_stage_index is the number of leading complete stages, and the state
\* agrees with what can still run: executing means that some node is ready,
\* blocked that none is, although nodes are left.
StateMeansProgress == log # <<>> =>
    LET x == Truth IN
    /\ \A i \in 1..x.stage : plan.stages[i] \subseteq x.completed
    /\ x.stage < Len(plan.stages) => ~ (plan.stages[x.stage + 1] \subseteq x.completed)
    /\ x.state = "executing" /\ PlanNodes(plan) # {} => ReadyNodes(x, plan) # {}
    /\ x.state = "blocked" => /\ ReadyNodes(x, plan) = {}
                              /\ ~ (PlanNodes(plan) \subseteq x.completed)
    /\ x.state = "completed" => x.completed = PlanNodes(plan)

\* The stored lineage behaves as WorkflowContract promises.
Contract == INSTANCE WorkflowContract WITH
    status    <- IF log = <<>> THEN "absent" ELSE Truth.state,
    completed <- Truth.completed,
    failed    <- Truth.failed,
    attempts  <- Truth.attempts

KeepsContract == Contract!Spec

\* An execution of a plan with nodes whose first event was stored comes to
\* completed or blocked: retries are finite and every crash is recovered from.
ExecutionSettles ==
    (log # <<>> /\ PlanNodes(plan) # {}) ~> (Truth.state \in {"completed", "blocked"})

\* "Lineage wins on divergence": once there is a lineage, a row left stale by a
\* crash between the commits is brought up to it, terminal states included.  (A
\* plan without nodes executes forever, and no recovery runs beside it.)
RowCatchesUp == (log # <<>> /\ PlanNodes(plan) # {}) ~> (row = <<Truth>>)

\* docs/PROCESS_ENTRYPOINT_AND_RECOVERY_ARCHITECTURE.md on recover_all(apply=True):
\* "This ensures the mutable row is always consistent with lineage before the
\* execution loop begins."
RecoveryMakesConsistent == (row # <<>>) ~> (LineageValid(log) /\ row = <<Truth>>)

=============================================================================
