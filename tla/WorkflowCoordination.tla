------------------------ MODULE WorkflowCoordination ------------------------
(***************************************************************************)
(* workflow/coordination.py and workflow/dispatcher.py between the stored  *)
(* lineage of one execution and the orchestration tasks: a driver process  *)
(* submits ready nodes as tasks, a worker process (run_iterations) runs    *)
(* them, and results come back in one of two ways:                         *)
(*   loop:    the caller loop of the coordination documentation waits for  *)
(*            the tasks it submitted and calls handle_task_result;         *)
(*   handler: the run-once command submits and exits; the semantic handler *)
(*            of the dispatcher appends node_completed to the lineage.     *)
(* Both processes may crash between any two commits.  In loop mode they     *)
(* interleave; in handler mode run-once and the dispatcher are commands    *)
(* that run one after the other (GOAL.md: single-process writes only).     *)
(*                                                                         *)
(* WorkflowPersistence models how the lineage is stored; here an append is *)
(* one step.  TaskOrchestration and RuntimeSupervisor model the other two  *)
(* sides; here a task is its node and its state.                           *)
(***************************************************************************)
EXTENDS WorkflowExecution, TaskStates

CONSTANTS
    MaxDriverCrashes, MaxWorkerCrashes, \* bounds: crashes of each process
    MaxLost,                            \* bound: failed appends of the handler
    MaxTasks,                           \* bound: tasks in handler mode
    Operator                            \* TRUE: somebody repairs stuck tasks

ASSUME CoordinationAssumption ==
    /\ MaxDriverCrashes \in Nat /\ MaxWorkerCrashes \in Nat /\ MaxLost \in Nat
    /\ MaxTasks \in Nat /\ Operator \in BOOLEAN

VARIABLES
    plan, mode,  \* never change
    log,         \* the stored lineage
    tasks,       \* the tasks of this execution in id order: [node, state]
    pc, mem,     \* the driver: position, and its execution (<<>>: none)
    todo,        \* nodes it still submits in this cycle
    own,         \* tasks it submitted and whose results it has not handled
    batch,       \* node_submitted events of this cycle
    worker,      \* the task the worker executes (0: none)
    ran,         \* the handler of that task returned with success
    driverCrashes, workerCrashes, lost

shared == <<log, tasks>>
driver == <<pc, mem, todo, own, batch>>
bounds == <<driverCrashes, workerCrashes, lost>>
vars == <<plan, mode, shared, driver, worker, ran, bounds>>

Exec == mem[1]
TaskId == DOMAIN tasks
Truth == Replayed(log, plan)

\* mutant: pending tasks do not count as active
ActiveNodesNoPending == {tasks[t].node : t \in {u \in TaskId : tasks[u].state \in {"ready", "running"}}}

\* mutant: tasks that have ended count as active
ActiveNodesEver == {tasks[t].node : t \in TaskId}

\* find_submitted_node_ids
ActiveNodes ==
    {tasks[t].node : t \in {u \in TaskId : tasks[u].state \in {"pending", "ready", "running"}}}

\* an execution that was initialized, its first event stored
Init ==
    /\ plan \in Plans
    /\ mode \in {"loop", "handler"}
    /\ log = <<InitEvent>>
    /\ tasks = <<>>
    /\ pc = "off" /\ mem = <<>> /\ todo = {} /\ own = {} /\ batch = <<>>
    /\ worker = 0 /\ ran = FALSE
    /\ driverCrashes = 0 /\ workerCrashes = 0 /\ lost = 0

-----------------------------------------------------------------------------
(* the driver *)

\* replay_execution_from_storage, at process start and in cmd_run_once
Resume ==
    /\ pc = "off"
    /\ mode = "handler" => worker = 0
    /\ LineageValid(log)
    /\ Truth.state \notin TerminalExecutionState
    /\ pc' = "idle"
    /\ mem' = <<Truth>>
    /\ UNCHANGED <<plan, mode, shared, todo, own, batch, worker, ran, bounds>>

\* start_execution
Start ==
    /\ pc = "idle"
    /\ Exec.state = "initialized"
    /\ mem' = <<Started(Exec).exec>>
    /\ log' = log \o Started(Exec).events
    /\ UNCHANGED <<plan, mode, tasks, pc, todo, own, batch, worker, ran, bounds>>

\* mutant: a cycle starts before all results of the last one were handled
StepOverlapping ==
    /\ pc = "idle"
    /\ mode = "loop" => Exec.state = "executing"
    /\ todo' = ReadyNodes(Exec, plan) \ ActiveNodes
    /\ pc' = "submit"
    /\ UNCHANGED <<plan, mode, shared, mem, own, batch, worker, ran, bounds>>

\* step_execution: what is ready and has no active task.  The caller loop runs
\* while the execution is executing, run-once looks at no state.
Step ==
    /\ pc = "idle"
    /\ mode = "loop" => Exec.state = "executing"
    /\ own = {}
    /\ todo' = ReadyNodes(Exec, plan) \ ActiveNodes
    /\ pc' = "submit"
    /\ UNCHANGED <<plan, mode, shared, mem, own, batch, worker, ran, bounds>>

\* create_task commits the task as pending
CreateTask ==
    /\ pc = "submit"
    /\ mode = "handler" => Len(tasks) < MaxTasks
    /\ \E n \in todo : tasks' = Append(tasks, [node |-> n, state |-> "pending"])
    /\ pc' = "ready"
    /\ UNCHANGED <<plan, mode, log, mem, todo, own, batch, worker, ran, bounds>>

\* transition_task to ready, a transaction of its own
ReadyTask ==
    LET t == Len(tasks) IN
    /\ pc = "ready"
    /\ tasks' = [tasks EXCEPT ![t].state = "ready"]
    /\ todo' = todo \ {tasks[t].node}
    /\ own' = own \cup {t}
    /\ batch' = Append(batch, NodeEvent("node_submitted", tasks[t].node, Exec.stage))
    /\ pc' = "submit"
    /\ UNCHANGED <<plan, mode, log, mem, worker, ran, bounds>>

\* the caller persists the node_submitted events; run-once ends
Submitted ==
    /\ pc = "submit"
    /\ todo = {} \/ (mode = "handler" /\ Len(tasks) = MaxTasks)
    /\ log' = log \o batch
    /\ batch' = <<>>
    /\ todo' = {}
    /\ IF mode = "loop"
       THEN pc' = "idle" /\ UNCHANGED <<mem, own>>
       ELSE pc' = "off" /\ mem' = <<>> /\ own' = {}
    /\ UNCHANGED <<plan, mode, tasks, worker, ran, bounds>>

Result(t) ==
    IF tasks[t].state = "completed" THEN NodeCompleted(Exec, plan, tasks[t].node)
    ELSE NodeFailed(Exec, plan, tasks[t].node)

\* mutant: the handled task stays on the list
HandleResultAgain ==
    /\ pc = "idle"
    /\ \E t \in own :
         /\ tasks[t].state \in {"completed", "failed"}
         /\ ~ Result(t).raises
         /\ mem' = <<Result(t).exec>>
         /\ log' = log \o Result(t).events
    /\ UNCHANGED <<plan, mode, tasks, pc, todo, own, batch, worker, ran, bounds>>

\* handle_task_result for a task of this driver that has come to an end, and
\* persist_execution
HandleResult ==
    /\ pc = "idle"
    /\ \E t \in own :
         /\ tasks[t].state \in {"completed", "failed"}
         /\ ~ Result(t).raises
         /\ mem' = <<Result(t).exec>>
         /\ log' = log \o Result(t).events
         /\ own' = own \ {t}
    /\ UNCHANGED <<plan, mode, tasks, pc, todo, batch, worker, ran, bounds>>

\* the loop ends when the execution no longer executes
Leave ==
    /\ pc = "idle"
    /\ Exec.state \notin {"initialized", "executing"}
    /\ pc' = "off" /\ mem' = <<>> /\ own' = {}
    /\ UNCHANGED <<plan, mode, shared, todo, batch, worker, ran, bounds>>

DriverCrash ==
    /\ pc # "off"
    /\ driverCrashes < MaxDriverCrashes
    /\ driverCrashes' = driverCrashes + 1
    /\ pc' = "off" /\ mem' = <<>> /\ todo' = {} /\ own' = {} /\ batch' = <<>>
    /\ UNCHANGED <<plan, mode, shared, worker, ran, workerCrashes, lost>>

-----------------------------------------------------------------------------
(* the worker: run_iterations with execute_task *)

Claim ==
    /\ worker = 0
    /\ mode = "handler" => pc = "off"
    /\ \E t \in TaskId :
         /\ tasks[t].state = "ready"
         /\ \A u \in TaskId : tasks[u].state = "ready" => t <= u
         /\ tasks' = [tasks EXCEPT ![t].state = "running"]
         /\ worker' = t
    /\ ran' = FALSE
    /\ UNCHANGED <<plan, mode, log, driver, bounds>>

\* the handler succeeds; the semantic handler then appends node_completed, with
\* stage_index 0 and no look at the stages, and goes on when that append fails
HandlerSucceeds ==
    /\ worker # 0 /\ ~ ran
    /\ ran' = TRUE
    /\ \/ /\ log' = IF mode = "handler"
                    THEN Append(log, NodeEvent("node_completed", tasks[worker].node, 0))
                    ELSE log
          /\ UNCHANGED lost
       \/ /\ mode = "handler" /\ lost < MaxLost
          /\ lost' = lost + 1
          /\ UNCHANGED log
    /\ UNCHANGED <<plan, mode, tasks, driver, worker, driverCrashes, workerCrashes>>

\* execute_task: running to completed, or to failed when the handler failed
FinishTask ==
    /\ worker # 0
    /\ tasks' = [tasks EXCEPT ![worker].state = IF ran THEN "completed" ELSE "failed"]
    /\ worker' = 0
    /\ ran' = FALSE
    /\ UNCHANGED <<plan, mode, log, driver, bounds>>

WorkerCrash ==
    /\ worker # 0
    /\ workerCrashes < MaxWorkerCrashes
    /\ workerCrashes' = workerCrashes + 1
    /\ worker' = 0 /\ ran' = FALSE
    /\ UNCHANGED <<plan, mode, shared, driver, driverCrashes, lost>>

-----------------------------------------------------------------------------
(* the operator: transition_task on tasks no process will move again *)

\* a task whose driver died between create_task and the move to ready
RepairPending ==
    /\ Operator /\ pc # "ready"
    /\ \E t \in TaskId : /\ tasks[t].state = "pending"
                         /\ tasks' = [tasks EXCEPT ![t].state = "ready"]
    /\ UNCHANGED <<plan, mode, log, driver, worker, ran, bounds>>

\* a task whose worker died
RepairRunning ==
    /\ Operator
    /\ \E t \in TaskId \ {worker} : /\ tasks[t].state = "running"
                                    /\ tasks' = [tasks EXCEPT ![t].state = "failed"]
    /\ UNCHANGED <<plan, mode, log, driver, worker, ran, bounds>>

-----------------------------------------------------------------------------
DriverWork == Start \/ CreateTask \/ ReadyTask \/ Submitted \/ HandleResult \/ Leave

Next ==
    \/ Resume \/ Step \/ DriverWork \/ DriverCrash
    \/ Claim \/ HandlerSucceeds \/ FinishTask \/ WorkerCrash
    \/ RepairPending \/ RepairRunning

Spec == Init /\ [][Next]_vars

\* Both processes run on and are restarted; a handler returns (a failure needs
\* FinishTask only); the operator, if there is one, gets to every stuck task.
\* Step may find nothing to submit again and again.
FairSpec ==
    /\ Spec
    /\ WF_vars(Resume) /\ WF_vars(DriverWork) /\ SF_vars(HandleResult) /\ SF_vars(Step)
    /\ WF_vars(Claim) /\ WF_vars(FinishTask)
    /\ SF_vars(RepairPending) /\ WF_vars(RepairRunning)

-----------------------------------------------------------------------------
\* find_submitted_node_ids: however crashes, restarts and repeated cycles
\* interleave with the worker, a node never has two active tasks.
OneActiveTask ==
    \A t, u \in TaskId :
        /\ t # u
        /\ tasks[t].state \in {"pending", "ready", "running"}
        /\ tasks[u].state \in {"pending", "ready", "running"}
        => tasks[t].node # tasks[u].node

\* A task exists only for a node whose dependencies all completed in the stored
\* lineage, and the results a driver waits for are those of ready nodes: that
\* is what WorkflowPersistence assumes of its environment.
TasksAreForReadyNodes ==
    /\ \A t \in TaskId : plan.deps[tasks[t].node] \subseteq Truth.completed
    /\ \A t \in own : tasks[t].node \in ReadyNodes(Exec, plan)

\* The lineage stays one that validate_lineage accepts, with node_completed
\* appended by the caller or by the handler, and never after a final state.
LineageStaysValid == LineageValid(log)

Completions(n) == {t \in TaskId : tasks[t].node = n /\ tasks[t].state = "completed"}

\* The tasks of a node end in success at most once more than the driver crashed
\* (caller loop) or an append of node_completed failed (handler): only a lost
\* result makes a node run again after success, never a crash of the worker.
WorkRepeatsOnlyAfterLoss ==
    \A n \in PlanNodes(plan) :
        Cardinality(Completions(n)) <= 1 + IF mode = "loop" THEN driverCrashes ELSE lost

\* In the caller loop, with an operator who readies pending orphans and fails
\* running ones, every crash is survived: the execution completes or blocks.
ExecutionSettles == mode = "loop" ~> Truth.state \in {"completed", "blocked"}

\* docs/WORKFLOW_RUNTIME_COORDINATION_ARCHITECTURE.md: "If a crash occurs between
\* a state transition and the submission of the next orchestration task, recovery
\* reads the lineage to determine what has already happened and resumes from there."
RecoveryResumes ==
    (mode = "loop" /\ driverCrashes > 0) ~> Truth.state \in {"completed", "blocked"}

=============================================================================
