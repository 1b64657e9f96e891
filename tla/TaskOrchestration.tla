------------------------- MODULE TaskOrchestration --------------------------
(***************************************************************************)
(* orchestration/service.py: the task table, its append-only lineage and   *)
(* its dependencies in one SQLite file.                                    *)
(*                                                                         *)
(* Every public function opens its own connection.  A SELECT runs outside  *)
(* any transaction; the UPDATE and the INSERT of transition_task are one   *)
(* transaction that commits when the connection closes.  So a call is a    *)
(* sequence of steps (the positions of `call'), and two processes on the   *)
(* same file interleave between them.  A call that raises before its       *)
(* first write changes nothing and is not an action.                       *)
(***************************************************************************)
EXTENDS Naturals, Sequences, FiniteSets, TaskStates

CONSTANTS
    Callers,    \* processes that use the database
    MaxTasks,   \* bound: create_task is not called with this many tasks
    MaxLineage, \* bound: a single writer starts no write at this lineage length
    MaxRacing   \* bound: the same when several writers race

ASSUME BoundsAssumption == MaxTasks \in Nat /\ MaxLineage \in Nat /\ MaxRacing \in Nat

VARIABLES
    tasks,    \* the tasks table: row i is task i (AUTOINCREMENT ids)
    lineage,  \* the task_lineage table in id order
    depends,  \* task_dependencies as pairs <<task_id, depends_on_id>>
    call,     \* per caller: position inside the running call and its locals
    writers   \* the callers this deployment runs; never changes

vars == <<tasks, lineage, depends, call, writers>>

TaskId == DOMAIN tasks

Row == [state : TaskState, version : Nat]

Event == [task : Nat \ {0}, old : TaskState \cup {NoState}, new : TaskState,
          deps : SUBSET (Nat \ {0}), via : {"create", "transition", "unblock"}]

\* at: where the call stands; via: which public function runs transition_task
Call == [at : {"idle", "blocking", "unblock", "snapshot", "commit"},
         task : Nat, new : TaskState, via : {"transition", "unblock"},
         old : TaskState, version : Nat, deps : SUBSET (Nat \ {0})]

Idle == [at |-> "idle", task |-> 0, new |-> "pending", via |-> "transition",
         old |-> "pending", version |-> 0, deps |-> {}]

SingleWriter == \A c, d \in writers : c = d

\* the bound on the lineage
Room == Len(lineage) < IF SingleWriter THEN MaxLineage ELSE MaxRacing

\* mutant: the snapshot keeps only the dependencies that still block
DepSnapshotBlocking(t) ==
    {d \in TaskId : <<t, d>> \in depends /\ tasks[d].state # "completed"}

\* _dep_snapshot
DepSnapshot(t) == {d \in TaskId : <<t, d>> \in depends}

\* mutant: a dependency that can never complete no longer blocks
BlockingDependenciesLax(t) ==
    {d \in DepSnapshot(t) : tasks[d].state \notin TerminalTaskState \cup {"completed"}}

\* get_blocking_dependencies
BlockingDependencies(t) == {d \in DepSnapshot(t) : tasks[d].state # "completed"}

Init ==
    /\ tasks = <<>>
    /\ lineage = <<>>
    /\ depends = {}
    /\ call = [c \in Callers |-> Idle]
    /\ writers \in (SUBSET Callers) \ {{}}

-----------------------------------------------------------------------------
\* create_task: the row and its first lineage event in one transaction
CreateTask(c) ==
    /\ call[c].at = "idle"
    /\ Len(tasks) < MaxTasks
    /\ Room
    /\ tasks' = Append(tasks, [state |-> "pending", version |-> 1])
    /\ lineage' = Append(lineage,
                    [task |-> Len(tasks) + 1, old |-> NoState, new |-> "pending",
                     deps |-> {}, via |-> "create"])
    /\ UNCHANGED <<depends, call, writers>>

\* mutant: no check for a task that depends on itself
AddDependencySelf(c, t, d) ==
    /\ call[c].at = "idle"
    /\ <<t, d>> \notin depends
    /\ depends' = depends \cup {<<t, d>>}
    /\ UNCHANGED <<tasks, lineage, call, writers>>

\* add_dependency: both tasks exist, no self loop, UNIQUE (task_id, depends_on_id)
AddDependency(c, t, d) ==
    /\ call[c].at = "idle"
    /\ t # d
    /\ <<t, d>> \notin depends
    /\ depends' = depends \cup {<<t, d>>}
    /\ UNCHANGED <<tasks, lineage, call, writers>>

-----------------------------------------------------------------------------
\* mutant: validate_transition is not called
ReadRowUnchecked(c, t, s, via) ==
    call' = [call EXCEPT ![c] =
               [at |-> "snapshot", task |-> t, new |-> s, via |-> via,
                old |-> tasks[t].state, version |-> tasks[t].version, deps |-> {}]]

\* the read half of transition_task: SELECT the row, validate the move
ReadRow(c, t, s, via) ==
    /\ CanTransition(tasks[t].state, s)
    /\ call' = [call EXCEPT ![c] =
                  [at |-> "snapshot", task |-> t, new |-> s, via |-> via,
                   old |-> tasks[t].state, version |-> tasks[t].version,
                   deps |-> {}]]

TransitionTask(c, t, s) ==
    /\ call[c].at = "idle"
    /\ Room
    /\ ReadRow(c, t, s, "transition")
    /\ UNCHANGED <<tasks, lineage, depends, writers>>

\* the dependency SELECT of transition_task
TakeSnapshot(c) ==
    /\ call[c].at = "snapshot"
    /\ call' = [call EXCEPT ![c].at = "commit",
                            ![c].deps = DepSnapshot(call[c].task)]
    /\ UNCHANGED <<tasks, lineage, depends, writers>>

\* mutant: the UPDATE commits alone and the process may die before the INSERT
CommitInTwo(c) ==
    LET k == call[c] IN
    /\ k.at = "commit"
    /\ tasks' = [tasks EXCEPT ![k.task] =
                   [state |-> k.new, version |-> k.version + 1]]
    /\ lineage' \in {lineage, Append(lineage,
                    [task |-> k.task, old |-> k.old, new |-> k.new,
                     deps |-> k.deps, via |-> k.via])}
    /\ call' = [call EXCEPT ![c] = Idle]
    /\ UNCHANGED <<depends, writers>>

\* UPDATE tasks and INSERT task_lineage, one transaction; the UPDATE has no
\* guard on the version that was read
Commit(c) ==
    LET k == call[c] IN
    /\ k.at = "commit"
    /\ tasks' = [tasks EXCEPT ![k.task] =
                   [state |-> k.new, version |-> k.version + 1]]
    /\ lineage' = Append(lineage,
                    [task |-> k.task, old |-> k.old, new |-> k.new,
                     deps |-> k.deps, via |-> k.via])
    /\ call' = [call EXCEPT ![c] = Idle]
    /\ UNCHANGED <<depends, writers>>

-----------------------------------------------------------------------------
\* check_and_unblock, first connection: is the task blocked?
CheckBlocked(c, t) ==
    /\ call[c].at = "idle"
    /\ Room
    /\ tasks[t].state = "blocked"
    /\ call' = [call EXCEPT ![c] = [Idle EXCEPT !.at = "blocking", !.task = t]]
    /\ UNCHANGED <<tasks, lineage, depends, writers>>

\* second connection: any blocking dependency left?  If so return False
CheckBlocking(c) ==
    /\ call[c].at = "blocking"
    /\ call' = IF BlockingDependencies(call[c].task) = {}
               THEN [call EXCEPT ![c].at = "unblock"]
               ELSE [call EXCEPT ![c] = Idle]
    /\ UNCHANGED <<tasks, lineage, depends, writers>>

\* third connection: transition_task to ready, which reads the row again
Unblock(c) ==
    LET t == call[c].task IN
    /\ call[c].at = "unblock"
    /\ \/ ReadRow(c, t, "ready", "unblock")
       \/ /\ ~ CanTransition(tasks[t].state, "ready")
          /\ call' = [call EXCEPT ![c] = Idle]
    /\ UNCHANGED <<tasks, lineage, depends, writers>>

\* the process dies between two statements: nothing of the call was written
Crash(c) ==
    /\ call[c].at # "idle"
    /\ call' = [call EXCEPT ![c] = Idle]
    /\ UNCHANGED <<tasks, lineage, depends, writers>>

-----------------------------------------------------------------------------
CallerStep(c) ==
    \/ CreateTask(c)
    \/ \E t, d \in TaskId : AddDependency(c, t, d)
    \/ \E t \in TaskId, s \in TaskState : TransitionTask(c, t, s)
    \/ \E t \in TaskId : CheckBlocked(c, t)
    \/ CheckBlocking(c)
    \/ Unblock(c)
    \/ TakeSnapshot(c)
    \/ Commit(c)
    \/ Crash(c)

Next == \E c \in writers : CallerStep(c)

Spec == Init /\ [][Next]_vars

-----------------------------------------------------------------------------
(* Properties that hold however the callers interleave *)

\* Rows, events and the locals of every call have the types the columns give
\* them, a dependency joins two different existing tasks, and a call in
\* progress is about an existing task.
TypeOK ==
    /\ tasks \in Seq(Row)
    /\ lineage \in Seq(Event)
    /\ depends \in SUBSET {p \in TaskId \X TaskId : p[1] # p[2]}
    /\ call \in [Callers -> Call]
    /\ writers \in (SUBSET Callers) \ {{}}
    /\ \A c \in Callers : call[c].at # "idle" => call[c].task \in TaskId
    /\ \A i \in DOMAIN lineage : lineage[i].task \in TaskId

\* i is the last event of its task
IsLast(i) == \A j \in DOMAIN lineage : j > i => lineage[j].task # lineage[i].task

\* current_state_from_lineage: every task has events, and the new_state of the
\* last one is the state in its row, even when two callers overwrite each other.
LineageEndsInState ==
    \A t \in TaskId : \E i \in DOMAIN lineage :
        /\ lineage[i].task = t
        /\ IsLast(i)
        /\ lineage[i].new = tasks[t].state

-----------------------------------------------------------------------------
(* Properties of a single writer (GOAL.md: single-process writes only) *)

\* j is the event that follows event i in the history of one task
NextEvent(i, j) ==
    /\ i < j
    /\ lineage[i].task = lineage[j].task
    /\ \A k \in DOMAIN lineage : i < k /\ k < j => lineage[k].task # lineage[i].task

IsFirst(i) == \A j \in DOMAIN lineage : j < i => lineage[j].task # lineage[i].task

EventsOf(t) == {i \in DOMAIN lineage : lineage[i].task = t}

\* replay_state_history: the events of a task form one chain.  It starts with
\* the creation event, each event leaves the state its predecessor entered, by
\* a move of VALID_TRANSITIONS, and the version in the row counts the events.
LineageIsChain == SingleWriter =>
    /\ \A i \in DOMAIN lineage : IsFirst(i) <=> lineage[i].old = NoState
    /\ \A i, j \in DOMAIN lineage : NextEvent(i, j) =>
         /\ lineage[j].old = lineage[i].new
         /\ CanTransition(lineage[j].old, lineage[j].new)
    /\ \A t \in TaskId : tasks[t].version = Cardinality(EventsOf(t))

\* the state the lineage gives task d just before event i
StateBefore(d, i, s) ==
    \E j \in 1..(i-1) :
        /\ lineage[j].task = d
        /\ lineage[j].new = s
        /\ \A k \in (j+1)..(i-1) : lineage[k].task # d

\* check_and_unblock: whatever it moved to ready had, at that moment, every
\* dependency recorded in its snapshot in state completed.
UnblockJustified == SingleWriter =>
    \A i \in DOMAIN lineage : lineage[i].via = "unblock" =>
        \A d \in lineage[i].deps : StateBefore(d, i, "completed")

\* dependency_snapshot: dependencies are only ever added, so along the events
\* of a task the recorded snapshots grow, and never beyond the table.
SnapshotsGrow == SingleWriter =>
    /\ \A i \in DOMAIN lineage : \A d \in lineage[i].deps :
         <<lineage[i].task, d>> \in depends
    /\ \A i, j \in DOMAIN lineage :
         NextEvent(i, j) => lineage[i].deps \subseteq lineage[j].deps

=============================================================================
