----------------------- MODULE WorkflowCoordinationProofs ----------------------
(***************************************************************************)
(* What WorkflowCoordination keeps however the driver, the worker and the  *)
(* operator interleave and crash, for any plans and any number of crashes, *)
(* lost appends and tasks.                                                 *)
(***************************************************************************)
EXTENDS WorkflowCoordination, WorkflowExecutionProofs

ActiveState == {"pending", "ready", "running"}

Active(t) == tasks[t].state \in ActiveState

(* The tasks whose results the driver will handle: those it submitted, and the *)
(* one it has created and not yet moved to ready.                          *)
Mine == own \cup (IF pc = "ready" THEN {Len(tasks)} ELSE {})

Types ==
    /\ plan \in Plans /\ mode \in {"loop", "handler"}
    /\ tasks \in Seq([node : PlanNodes(plan), state : ActiveState \cup {"completed", "failed"}])
    /\ pc \in {"off", "idle", "submit", "ready"}
    /\ own \subseteq TaskId /\ todo \subseteq PlanNodes(plan)
    /\ worker \in TaskId \cup {0} /\ ran \in BOOLEAN
    /\ driverCrashes \in Nat /\ workerCrashes \in Nat /\ lost \in Nat

(* The stored lineage is valid.  In the caller loop it is the executor's; with *)
(* the handler no node fails in it and it never comes to an end.           *)
Lineage ==
    /\ ValidLog(log, plan)
    /\ mode = "loop" => Sane(Truth, plan)
    /\ mode = "handler" => Truth.state \in {"initialized", "executing"}

(* The driver holds the truth, submits nodes that are ready in it, and waits *)
(* for results of such nodes only.                                         *)
Driver ==
    /\ pc = "off" => own = {} /\ todo = {} /\ batch = <<>>
    /\ pc # "off" => mem = <<Truth>>
    /\ pc = "idle" => todo = {} /\ batch = <<>> /\ (mode = "handler" => own = {})
    /\ pc \in {"submit", "ready"} => /\ todo \subseteq ReadyNodes(Truth, plan)
                                     /\ mode = "loop" => Truth.state = "executing"
                                     /\ Follows(Truth, batch, Truth, plan)
    /\ pc = "ready" => /\ tasks # <<>> /\ tasks[Len(tasks)].state = "pending"
                       /\ tasks[Len(tasks)].node \in todo /\ Len(tasks) \notin own
    /\ own # {} /\ mode = "loop" => Truth.state = "executing"
    /\ \A t \in own : tasks[t].node \in ReadyNodes(Truth, plan) \ todo

(* The worker runs a running task, and with the handler never beside the driver. *)
Worker ==
    worker # 0 => /\ tasks[worker].state = "running"
                  /\ mode = "handler" => pc = "off"

(* No node has two active tasks; a node to submit has none but the one just *)
(* created; no other active task runs for a node whose result is awaited.  *)
Exclusive ==
    /\ OneActiveTask
    /\ \A t \in TaskId : Active(t) /\ tasks[t].node \in todo => pc = "ready" /\ t = Len(tasks)
    /\ \A t \in own : \A u \in TaskId :
         u # t /\ tasks[u].node = tasks[t].node => ~ Active(u) /\ u \notin own

(* Tasks are for nodes whose dependencies are done; with the handler, an active *)
(* task that has not run is for a node that is not done itself.            *)
Due ==
    /\ \A t \in TaskId : plan.deps[tasks[t].node] \subseteq Truth.completed
    /\ mode = "handler" =>
         \A t \in TaskId :
             tasks[t].state \in {"pending", "ready"} \/ (t = worker /\ ~ ran)
               => tasks[t].node \notin Truth.completed

One(condition) == IF condition THEN 1 ELSE 0

(* What the completed tasks of a node are paid by.  In the caller loop: a   *)
(* completion the driver handled or will handle, or a crash of the driver  *)
(* that orphaned the task.  With the handler: a completion in the lineage, *)
(* or a lost append.                                                       *)
Orphaned(n) == \E t \in TaskId \ Mine : Active(t) /\ tasks[t].node = n
Handled(n) ==
    \/ n \in Truth.completed
    \/ \E t \in own : tasks[t].node = n /\ tasks[t].state = "completed"
Ran(n) == worker # 0 /\ ran /\ tasks[worker].node = n

Paid ==
    \A n \in PlanNodes(plan) :
        /\ mode = "loop" =>
             Cardinality(Completions(n)) + One(Orphaned(n)) <= driverCrashes + One(Handled(n))
        /\ mode = "handler" =>
             Cardinality(Completions(n)) + One(Ran(n)) <= lost + One(n \in Truth.completed)

(* The inductive invariant. *)
IInv ==
    /\ Types
    /\ Lineage
    /\ Driver
    /\ Worker
    /\ Exclusive
    /\ Due
    /\ Paid

-----------------------------------------------------------------------------
(* The tasks are numbered from 1, and their completions can be counted. *)
LEMMA TaskFacts ==
    ASSUME Types
    PROVE  /\ TaskId = 1..Len(tasks) /\ Len(tasks) \in Nat
           /\ TaskId \subseteq Nat /\ 0 \notin TaskId
           /\ \A t \in TaskId : /\ tasks[t].node \in PlanNodes(plan)
                                /\ tasks[t].state \in ActiveState \cup {"completed", "failed"}
                                /\ tasks[t] = [node |-> tasks[t].node, state |-> tasks[t].state]
           /\ StagedPlan(plan)
<1>1. TaskId = 1..Len(tasks) /\ Len(tasks) \in Nat
  BY DEF Types, TaskId
<1>2. \A t \in TaskId :
        tasks[t] \in [node : PlanNodes(plan), state : ActiveState \cup {"completed", "failed"}]
  <2> DEFINE R == [node : PlanNodes(plan), state : ActiveState \cup {"completed", "failed"}]
  <2>1. tasks \in Seq(R)
    BY DEF Types
  <2> HIDE DEF R
  <2>2. \A t \in DOMAIN tasks : tasks[t] \in R
    BY <2>1
  <2> QED
    BY <2>2 DEF R, TaskId
<1>3. StagedPlan(plan)
  BY PlansAreStaged DEF Types, PlansAssumption
<1> QED
  BY <1>1, <1>2, <1>3

(* The completed tasks of a node can be counted. *)
LEMMA CompletionsAreFinite ==
    ASSUME Types, NEW n
    PROVE  IsFiniteSet(Completions(n)) /\ Cardinality(Completions(n)) \in Nat
<1>1. Completions(n) \subseteq 1..Len(tasks) /\ Len(tasks) \in Nat
  BY TaskFacts DEF Completions
<1>2. IsFiniteSet(1..Len(tasks))
  BY <1>1, FS_Interval
<1> QED
  BY <1>1, <1>2, FS_Subset, FS_CardinalityType

(* What the lineage replays to is an execution. *)
LEMMA TruthIs ==
    ASSUME Types, Lineage
    PROVE  /\ Truth = Replayed(log, plan) /\ Truth \in Execution(plan) /\ LineageValid(log)
           /\ Truth.completed \subseteq PlanNodes(plan)
           /\ Truth.state # NoStatus
<1>1. Truth = Replayed(log, plan) /\ Truth \in Execution(plan) /\ LineageValid(log)
  BY ValidLogIs DEF Lineage, Truth
<1>2. Truth.completed \subseteq PlanNodes(plan)
  BY <1>1, Fields
<1>3. Truth.state # NoStatus
  BY DEF Types, Lineage, Sane, NoStatus
<1> QED
  BY <1>1, <1>2, <1>3

(* transition_task moves one task and leaves its node, and the other tasks. *)
Moves(t, new) ==
    /\ tasks' = [tasks EXCEPT ![t].state = new]
    /\ UNCHANGED plan

(* The move reaches no other task, and completions only if it completes. *)
LEMMA MovedTask ==
    ASSUME Types, NEW t \in TaskId, NEW new \in ActiveState \cup {"completed", "failed"},
           Moves(t, new)
    PROVE  /\ TaskId' = TaskId /\ Len(tasks') = Len(tasks)
           /\ tasks' \in Seq([node : PlanNodes(plan'),
                              state : ActiveState \cup {"completed", "failed"}])
           /\ \A u \in TaskId :
                /\ tasks'[u].node = tasks[u].node
                /\ tasks'[u].state = IF u = t THEN new ELSE tasks[u].state
           /\ \A n : Completions(n)' = 
                IF tasks[t].node # n THEN Completions(n)
                ELSE IF new = "completed" THEN Completions(n) \cup {t} ELSE Completions(n) \ {t}
<1> DEFINE R == [node : PlanNodes(plan), state : ActiveState \cup {"completed", "failed"}]
<1>1. tasks \in Seq(R)
  BY DEF Types
<1>2. tasks[t] \in R /\ t \in 1..Len(tasks)
  <2> HIDE DEF R
  <2> QED
    BY <1>1 DEF TaskId
<1>3. [tasks[t] EXCEPT !.state = new] = [node |-> tasks[t].node, state |-> new]
  BY <1>2
<1>4. tasks' = [tasks EXCEPT ![t] = [node |-> tasks[t].node, state |-> new]]
  BY <1>3 DEF Moves
<1>5. [node |-> tasks[t].node, state |-> new] \in R
  BY <1>2
<1> HIDE DEF R
<1>6. tasks' \in Seq(R) /\ Len(tasks') = Len(tasks) /\ DOMAIN tasks' = DOMAIN tasks
  BY <1>1, <1>2, <1>4, <1>5
<1>7. \A u \in TaskId :
        /\ tasks'[u].node = tasks[u].node
        /\ tasks'[u].state = IF u = t THEN new ELSE tasks[u].state
  BY <1>1, <1>2, <1>4 DEF TaskId
<1>8. TaskId' = TaskId
  BY <1>6 DEF TaskId
<1>9. ASSUME NEW n
      PROVE  Completions(n)' =
                IF tasks[t].node # n THEN Completions(n)
                ELSE IF new = "completed" THEN Completions(n) \cup {t} ELSE Completions(n) \ {t}
  BY <1>7, <1>8 DEF Completions
<1> QED
  BY <1>6, <1>7, <1>8, <1>9 DEF R, Moves

(* Nothing more to pay for: the completed tasks and what pays for them stay. *)
LEMMA StaysPaid ==
    ASSUME Types, Paid, UNCHANGED <<plan, mode>>,
           \A n : /\ Completions(n)' = Completions(n)
                  /\ mode = "loop" => /\ Orphaned(n)' => Orphaned(n)
                                      /\ Handled(n) => Handled(n)'
                  /\ mode = "handler" => /\ Ran(n)' => Ran(n)
                                         /\ n \in Truth.completed => n \in Truth'.completed,
           driverCrashes' = driverCrashes, lost' = lost
    PROVE  Paid'
<1> SUFFICES ASSUME NEW n \in PlanNodes(plan)
             PROVE  /\ mode = "loop" =>
                         Cardinality(Completions(n)') + One(Orphaned(n)')
                           <= driverCrashes' + One(Handled(n)')
                    /\ mode = "handler" =>
                         Cardinality(Completions(n)') + One(Ran(n)')
                           <= lost' + One(n \in Truth'.completed)
  BY DEF Paid
<1>1. Cardinality(Completions(n)) \in Nat /\ driverCrashes \in Nat /\ lost \in Nat
  BY CompletionsAreFinite DEF Types
<1>2. /\ mode = "loop" =>
           Cardinality(Completions(n)) + One(Orphaned(n)) <= driverCrashes + One(Handled(n))
      /\ mode = "handler" =>
           Cardinality(Completions(n)) + One(Ran(n)) <= lost + One(n \in Truth.completed)
  BY DEF Paid
<1>3. Completions(n)' = Completions(n)
  OBVIOUS
<1>4. CASE mode = "loop"
  <2>1. (Orphaned(n)' => Orphaned(n)) /\ (Handled(n) => Handled(n)')
    BY <1>4
  <2> QED
    BY <1>1, <1>2, <1>3, <1>4, <2>1 DEF One
<1>5. CASE mode = "handler"
  <2>1. (Ran(n)' => Ran(n)) /\ (n \in Truth.completed => n \in Truth'.completed)
    BY <1>5
  <2> QED
    BY <1>1, <1>2, <1>3, <1>5, <2>1 DEF One
<1> QED
  BY <1>4, <1>5 DEF Types

-----------------------------------------------------------------------------
(* The invariant holds for an execution just initialized. *)
LEMMA InitHolds == Init => IInv
<1> SUFFICES ASSUME Init PROVE IInv
  OBVIOUS
<1>1. StagedPlan(plan)
  BY PlansAreStaged DEF Init, PlansAssumption
<1>2. /\ ValidLog(log, plan) /\ Truth = Initialized(plan) /\ Sane(Initialized(plan), plan)
  BY <1>1, ValidLogBegins, InitializedIsSane DEF Init, Truth
<1>3. Truth.state = "initialized" /\ Truth.completed = {}
  BY <1>2 DEF Initialized
<1>4. TaskId = {}
  BY DEF Init, TaskId
<1>5. Types
  <2>1. tasks \in Seq([node : PlanNodes(plan), state : ActiveState \cup {"completed", "failed"}])
    BY DEF Init
  <2> QED
    BY <2>1 DEF Init, Types
<1>6. Lineage
  BY <1>2, <1>3 DEF Lineage
<1>7. Driver /\ Worker
  BY DEF Driver, Worker, Init
<1>8. Exclusive /\ Due
  BY <1>4 DEF Exclusive, Due, OneActiveTask, Init
<1>9. Paid
  <2>1. \A n : Completions(n) = {}
    BY <1>4 DEF Completions
  <2>2. \A n : ~ Orphaned(n) /\ ~ Ran(n)
    BY <1>4 DEF Orphaned, Ran, Init
  <2>3. Cardinality({}) = 0
    BY FS_EmptySet
  <2>4. driverCrashes = 0 /\ lost = 0
    BY DEF Init
  <2> QED
    BY <2>1, <2>2, <2>3, <2>4 DEF Paid, One
<1> QED
  BY <1>5, <1>6, <1>7, <1>8, <1>9 DEF IInv

-----------------------------------------------------------------------------
(* Steps of the driver that leave tasks, lineage and worker alone. *)
LEMMA ResumeKeeps == IInv /\ Resume => IInv'
<1> SUFFICES ASSUME IInv, Resume PROVE IInv'
  OBVIOUS
<1>1. /\ Types /\ Lineage /\ Driver /\ Worker /\ Exclusive /\ Due /\ Paid
  BY DEF IInv
<1>2. Truth' = Truth /\ TaskId' = TaskId /\ UNCHANGED <<plan, mode, tasks, log, own, todo, batch, worker, ran>>
  BY DEF Resume, Truth, TaskId, shared
<1>3. Types' /\ Lineage' /\ Due'
  BY <1>1, <1>2 DEF Types, Lineage, Due, Resume, bounds
<1>4. own = {} /\ todo = {} /\ batch = <<>> /\ pc' = "idle" /\ mem' = <<Truth>> /\ pc = "off"
  BY <1>1 DEF Driver, Resume
<1>5. Driver'
  BY <1>2, <1>4 DEF Driver
<1>6. Worker'
  BY <1>1, <1>2, <1>4 DEF Worker, Resume
<1>7. Exclusive'
  BY <1>1, <1>2, <1>4 DEF Exclusive, OneActiveTask, Active
<1>8. Paid'
  <2>1. \A n : Completions(n)' = Completions(n) /\ Ran(n)' = Ran(n) /\ Handled(n)' = Handled(n)
    BY <1>2 DEF Completions, Ran, Handled
  <2>2. \A n : Orphaned(n)' = Orphaned(n)
    BY <1>2, <1>4 DEF Orphaned, Mine, Active
  <2> QED
    BY <1>1, <1>2, <2>1, <2>2, StaysPaid DEF Resume, bounds
<1> QED
  BY <1>3, <1>5, <1>6, <1>7, <1>8 DEF IInv

(* step_execution looks for nodes that are ready and have no active task. *)
LEMMA StepKeeps == IInv /\ Step => IInv'
<1> SUFFICES ASSUME IInv, Step PROVE IInv'
  OBVIOUS
<1>1. /\ Types /\ Lineage /\ Driver /\ Worker /\ Exclusive /\ Due /\ Paid
  BY DEF IInv
<1>2. /\ Truth' = Truth /\ TaskId' = TaskId
      /\ UNCHANGED <<plan, mode, tasks, log, mem, own, batch, worker, ran>>
  BY DEF Step, Truth, TaskId, shared
<1>3. pc = "idle" /\ pc' = "submit" /\ own = {} /\ batch = <<>> /\ mem = <<Truth>>
  BY <1>1 DEF Driver, Step
<1>4. /\ todo' = ReadyNodes(Truth, plan) \ ActiveNodes
      /\ mode = "loop" => Truth.state = "executing"
  BY <1>3 DEF Step, Exec
<1>5. todo' \subseteq ReadyNodes(Truth, plan) /\ ReadyNodes(Truth, plan) \subseteq PlanNodes(plan)
  BY <1>4 DEF ReadyNodes
<1>6. Types' /\ Lineage' /\ Due'
  BY <1>1, <1>2, <1>3, <1>5 DEF Types, Lineage, Due, Step, bounds
<1>7. Driver'
  <2>1. Follows(Truth, <<>>, Truth, plan)
    BY <1>1, TruthIs, FollowsNone
  <2> QED
    BY <1>2, <1>3, <1>4, <1>5, <2>1 DEF Driver
<1>8. Worker'
  BY <1>1, <1>2, <1>3 DEF Worker
<1>9. Exclusive'
  <2>1. \A t \in TaskId : Active(t) => tasks[t].node \notin todo'
    BY <1>4 DEF ActiveNodes, Active, ActiveState
  <2> QED
    BY <1>1, <1>2, <1>3, <2>1 DEF Exclusive, OneActiveTask, Active
<1>10. Paid'
  <2>1. \A n : Completions(n)' = Completions(n) /\ Ran(n)' = Ran(n) /\ Handled(n)' = Handled(n)
    BY <1>2 DEF Completions, Ran, Handled
  <2>2. \A n : Orphaned(n)' = Orphaned(n)
    BY <1>2, <1>3 DEF Orphaned, Mine, Active
  <2> QED
    BY <1>1, <1>2, <2>1, <2>2, StaysPaid DEF Step, bounds
<1> QED
  BY <1>6, <1>7, <1>8, <1>9, <1>10 DEF IInv

(* At the end of the loop no result is waited for. *)
LEMMA LeaveKeeps == IInv /\ Leave => IInv'
<1> SUFFICES ASSUME IInv, Leave PROVE IInv'
  OBVIOUS
<1>1. /\ Types /\ Lineage /\ Driver /\ Worker /\ Exclusive /\ Due /\ Paid
  BY DEF IInv
<1>2. /\ Truth' = Truth /\ TaskId' = TaskId
      /\ UNCHANGED <<plan, mode, tasks, log, todo, batch, worker, ran>>
  BY DEF Leave, Truth, TaskId, shared
<1>3. /\ pc = "idle" /\ pc' = "off" /\ own' = {} /\ todo = {} /\ batch = <<>>
      /\ Truth.state \notin {"initialized", "executing"}
  BY <1>1 DEF Driver, Leave, Exec
<1>4. own = {}
  BY <1>1, <1>3 DEF Types, Driver, Lineage
<1>5. Types' /\ Lineage' /\ Due'
  BY <1>1, <1>2, <1>3 DEF Types, Lineage, Due, Leave, bounds
<1>6. Driver' /\ Worker'
  BY <1>1, <1>2, <1>3 DEF Driver, Worker
<1>7. Exclusive'
  BY <1>1, <1>2, <1>3, <1>4 DEF Exclusive, OneActiveTask, Active
<1>8. Paid'
  <2>1. \A n : Completions(n)' = Completions(n) /\ Ran(n)' = Ran(n) /\ Handled(n)' = Handled(n)
    BY <1>2, <1>3, <1>4 DEF Completions, Ran, Handled
  <2>2. \A n : Orphaned(n)' = Orphaned(n)
    BY <1>2, <1>3, <1>4 DEF Orphaned, Mine, Active
  <2> QED
    BY <1>1, <1>2, <2>1, <2>2, StaysPaid DEF Leave, bounds
<1> QED
  BY <1>5, <1>6, <1>7, <1>8 DEF IInv

(* start_execution happens before any task is waited for. *)
LEMMA StartKeeps == IInv /\ Start => IInv'
<1> SUFFICES ASSUME IInv, Start PROVE IInv'
  OBVIOUS
<1> DEFINE y == Started(Truth).exec
<1>1. /\ Types /\ Lineage /\ Driver /\ Worker /\ Exclusive /\ Due /\ Paid
  BY DEF IInv
<1>2. /\ TaskId' = TaskId
      /\ UNCHANGED <<plan, mode, tasks, pc, todo, own, batch, worker, ran>>
  BY DEF Start, TaskId
<1>3. pc = "idle" /\ mem = <<Truth>> /\ Exec = Truth /\ todo = {} /\ batch = <<>>
  BY <1>1 DEF Driver, Start, Exec
<1>4. Truth.state = "initialized" /\ log' = log \o Started(Truth).events /\ mem' = <<y>>
  BY <1>3 DEF Start
<1>5. own = {}
  BY <1>1, <1>3, <1>4 DEF Types, Driver
<1>6. StagedPlan(plan) /\ Truth \in Execution(plan) /\ Truth = Replayed(log, plan)
  BY <1>1, TaskFacts, TruthIs
<1>7. /\ Follows(Truth, Started(Truth).events, y, plan)
      /\ y.state = "executing" /\ y.completed = Truth.completed
  BY <1>4, <1>6, StartedFollows
<1>8. mode = "loop" => Sane(y, plan)
  BY <1>1, <1>4, <1>6, StartedIsKept DEF Lineage, Kept
<1> HIDE DEF y
<1>9. ValidLog(log', plan) /\ Truth' = y
  <2>1. ValidLog(log, plan)
    BY <1>1 DEF Lineage
  <2>2. ValidLog(log', plan) /\ Replayed(log', plan) = y
    BY <1>4, <1>6, <1>7, <2>1, ValidLogGrows
  <2> QED
    BY <1>2, <2>2 DEF Truth
<1>10. Types' /\ Lineage'
  BY <1>1, <1>2, <1>7, <1>8, <1>9 DEF Types, Lineage, Start, bounds
<1>11. Driver' /\ Worker'
  BY <1>1, <1>2, <1>3, <1>4, <1>5, <1>9 DEF Driver, Worker
<1>12. Exclusive' /\ Due'
  BY <1>1, <1>2, <1>7, <1>9 DEF Exclusive, OneActiveTask, Active, Due
<1>13. Paid'
  <2>1. \A n : Completions(n)' = Completions(n) /\ Ran(n)' = Ran(n) /\ Handled(n)' = Handled(n)
    BY <1>2, <1>7, <1>9 DEF Completions, Ran, Handled
  <2>2. \A n : Orphaned(n)' = Orphaned(n)
    BY <1>2 DEF Orphaned, Mine, Active
  <2> QED
    BY <1>1, <1>2, <1>7, <1>9, <2>1, <2>2, StaysPaid DEF Start, bounds
<1> QED
  BY <1>10, <1>11, <1>12, <1>13 DEF IInv

(* create_task: the new task is for a node that is ready and had no active *)
(* one.                                                                    *)
LEMMA CreateTaskKeeps == IInv /\ CreateTask => IInv'
<1> SUFFICES ASSUME IInv, CreateTask PROVE IInv'
  OBVIOUS
<1>1. /\ Types /\ Lineage /\ Driver /\ Worker /\ Exclusive /\ Due /\ Paid
  BY DEF IInv
<1>2. PICK n \in todo : tasks' = Append(tasks, [node |-> n, state |-> "pending"])
  BY DEF CreateTask
<1>0. PICK k : k = Len(tasks) + 1
  OBVIOUS
<1>3. /\ Truth' = Truth
      /\ UNCHANGED <<plan, mode, log, mem, todo, own, batch, worker, ran>>
      /\ pc = "submit" /\ pc' = "ready"
  BY DEF CreateTask, Truth
<1>4. /\ TaskId = 1..Len(tasks) /\ Len(tasks) \in Nat
  BY <1>1, TaskFacts
<1>5. /\ TaskId' = TaskId \cup {k} /\ k \notin TaskId /\ Len(tasks') = k /\ k # 0
      /\ tasks' \in Seq([node : PlanNodes(plan), state : ActiveState \cup {"completed", "failed"}])
      /\ tasks'[k].node = n /\ tasks'[k].state = "pending"
      /\ \A t \in TaskId : tasks'[t] = tasks[t]
  <2> DEFINE R == [node : PlanNodes(plan), state : ActiveState \cup {"completed", "failed"}]
             e == [node |-> n, state |-> "pending"]
  <2>1. tasks \in Seq(R) /\ e \in R
    BY <1>1, <1>2 DEF Types, ActiveState
  <2>2. e.node = n /\ e.state = "pending"
    OBVIOUS
  <2> HIDE DEF R, e
  <2>3. /\ tasks' \in Seq(R) /\ Len(tasks') = k /\ tasks'[k] = e
        /\ \A t \in 1..Len(tasks) : tasks'[t] = tasks[t]
    BY <1>0, <1>2, <2>1 DEF e
  <2>4. DOMAIN tasks' = 1..k /\ 1..k = (1..Len(tasks)) \cup {k} /\ k \notin 1..Len(tasks) /\ k # 0
    BY <1>0, <1>4, <2>3
  <2>5. TaskId' = TaskId \cup {k}
    BY <1>4, <2>4 DEF TaskId
  <2> QED
    BY <1>4, <2>2, <2>3, <2>4, <2>5 DEF R
<1>6. /\ n \in ReadyNodes(Truth, plan)
      /\ \A t \in TaskId : Active(t) => tasks[t].node \notin todo
      /\ \A t \in own : tasks[t].node \notin todo /\ t \in TaskId
  BY <1>1, <1>2, <1>3 DEF Driver, Exclusive, Types
<1>7. /\ \A t \in TaskId : Active(t)' = Active(t)
      /\ Active(k)'
  BY <1>5 DEF Active, ActiveState
<1>8. Types'
  <2>1. worker' \in TaskId' \cup {0} /\ own' \subseteq TaskId'
    BY <1>1, <1>3, <1>5 DEF Types
  <2> QED
    BY <1>1, <1>3, <1>5, <2>1 DEF Types, CreateTask, bounds
<1>9. Lineage'
  BY <1>1, <1>3 DEF Lineage
<1>10. Driver'
  <2>1. tasks' # <<>> /\ tasks'[Len(tasks')].state = "pending" /\ tasks'[Len(tasks')].node \in todo'
        /\ Len(tasks') \notin own'
    <3>1. tasks' # <<>>
      BY <1>5, <1>4
    <3> QED
      BY <1>2, <1>3, <1>5, <1>6, <3>1
  <2> QED
    BY <1>1, <1>3, <1>5, <1>6, <2>1 DEF Driver
<1>11. Worker'
  BY <1>1, <1>3, <1>5 DEF Worker, Types
<1>12. Exclusive'
  <2>1. OneActiveTask'
    <3>1. \A t, u \in TaskId : t # u /\ Active(t) /\ Active(u) => tasks[t].node # tasks[u].node
      BY <1>1 DEF Exclusive, OneActiveTask, Active, ActiveState
    <3>2. \A t \in TaskId : Active(t)' => tasks'[t].node # n
      BY <1>2, <1>5, <1>6, <1>7
    <3>3. ASSUME NEW t \in TaskId', NEW u \in TaskId', t # u, Active(t)', Active(u)'
          PROVE  tasks'[t].node # tasks'[u].node
      <4>1. CASE t \in TaskId /\ u \in TaskId
        BY <1>5, <1>7, <3>1, <3>3, <4>1
      <4>2. CASE t = k \/ u = k
        BY <1>5, <3>2, <3>3, <4>2
      <4> QED
        BY <1>5, <4>1, <4>2
    <3> QED
      BY <3>3 DEF OneActiveTask, Active, ActiveState
  <2>2. \A t \in TaskId' : Active(t)' /\ tasks'[t].node \in todo' => t = Len(tasks')
    BY <1>3, <1>5, <1>6, <1>7
  <2>3. ASSUME NEW t \in own, NEW u \in TaskId', u # t, tasks'[u].node = tasks'[t].node
        PROVE  ~ Active(u)' /\ u \notin own
    <3>1. t \in TaskId /\ tasks'[t] = tasks[t] /\ tasks[t].node \notin todo
      BY <1>5, <1>6, <2>3
    <3>2. u # k
      BY <1>2, <1>5, <2>3, <3>1
    <3>3. u \in TaskId /\ tasks'[u] = tasks[u]
      BY <1>5, <3>2
    <3> QED
      BY <1>1, <1>7, <2>3, <3>1, <3>3 DEF Exclusive
  <2> QED
    BY <1>3, <2>1, <2>2, <2>3 DEF Exclusive
<1>13. Due'
  <2>1. plan.deps[n] \subseteq Truth.completed /\ n \notin Truth.completed
    BY <1>6 DEF ReadyNodes
  <2>2. worker # k
    BY <1>1, <1>5 DEF Types
  <2> QED
    BY <1>1, <1>3, <1>5, <2>1, <2>2 DEF Due
<1>14. Paid'
  <2>1. ASSUME NEW m PROVE Completions(m)' = Completions(m)
    BY <1>5 DEF Completions
  <2>2. ASSUME NEW m PROVE Ran(m)' = Ran(m) /\ Handled(m)' = Handled(m)
    <3>1. Ran(m)' = Ran(m)
      BY <1>1, <1>3, <1>5 DEF Ran, Types
    <3>2. Handled(m)' = Handled(m)
      BY <1>3, <1>5, <1>6 DEF Handled
    <3> QED
      BY <3>1, <3>2
  <2>3. ASSUME NEW m PROVE Orphaned(m)' => Orphaned(m)
    <3>1. TaskId' \ Mine' = TaskId \ Mine
      BY <1>3, <1>5, <1>6 DEF Mine
    <3> QED
      BY <1>5, <1>7, <3>1 DEF Orphaned
  <2> QED
    BY <1>1, <1>3, <2>1, <2>2, <2>3, StaysPaid DEF CreateTask, bounds
<1> QED
  BY <1>8, <1>9, <1>10, <1>11, <1>12, <1>13, <1>14 DEF IInv

(* One more event at the end of the events of a step. *)
LEMMA FollowsAppend ==
    ASSUME NEW p, NEW x \in Execution(p), NEW y, NEW z, NEW a, NEW e,
           Follows(x, a, y, p), Follows(y, <<e>>, z, p)
    PROVE  Follows(x, Append(a, e), z, p)
<1>1. e \in Event
  <2> DEFINE s == <<e>>
  <2>1. s \in Seq(Event) /\ s[1] = e /\ Len(s) = 1
    BY DEF Follows
  <2> HIDE DEF s
  <2>2. s[1] \in Event
    BY <2>1
  <2> QED
    BY <2>1, <2>2
<1>2. a \in Seq(Event)
  BY DEF Follows
<1>3. Append(a, e) = a \o <<e>>
  BY <1>1, <1>2, AppendIsConcat
<1> QED
  BY <1>3, FollowsInParts

(* The new task becomes ready, and its result is waited for. *)
LEMMA ReadyTaskKeeps == IInv /\ ReadyTask => IInv'
<1> SUFFICES ASSUME IInv, ReadyTask PROVE IInv'
  OBVIOUS
<1>1. /\ Types /\ Lineage /\ Driver /\ Worker /\ Exclusive /\ Due /\ Paid
  BY DEF IInv
<1>2. PICK t : t = Len(tasks)
  OBVIOUS
<1>3. PICK n : n = tasks[t].node
  OBVIOUS
<1>4. /\ Truth' = Truth /\ pc = "ready" /\ pc' = "submit" /\ mem = <<Truth>> /\ Exec = Truth
      /\ UNCHANGED <<plan, mode, log, mem, worker, ran>>
      /\ tasks' = [tasks EXCEPT ![t].state = "ready"]
      /\ todo' = todo \ {n} /\ own' = own \cup {t}
      /\ batch' = Append(batch, NodeEvent("node_submitted", n, Truth.stage))
  BY <1>1, <1>2, <1>3 DEF ReadyTask, Truth, Exec, Driver
<1>5. /\ t \in TaskId /\ tasks[t].state = "pending" /\ n \in todo /\ t \notin own
      /\ todo \subseteq ReadyNodes(Truth, plan) /\ todo \subseteq PlanNodes(plan)
  <2>1. tasks # <<>> /\ Len(tasks) \in Nat
    BY <1>1, <1>4, TaskFacts DEF Driver
  <2>2. t \in TaskId
    <3>1. Len(tasks) # 0
      BY <1>1, <2>1 DEF Types
    <3> QED
      BY <1>1, <1>2, <2>1, <3>1, TaskFacts
  <2> QED
    BY <1>1, <1>2, <1>3, <1>4, <2>2 DEF Driver, Types
<1>6. /\ TaskId' = TaskId /\ Len(tasks') = Len(tasks)
      /\ tasks' \in Seq([node : PlanNodes(plan'),
                         state : ActiveState \cup {"completed", "failed"}])
      /\ \A u \in TaskId : /\ tasks'[u].node = tasks[u].node
                           /\ tasks'[u].state = IF u = t THEN "ready" ELSE tasks[u].state
      /\ \A m : Completions(m)' = Completions(m)
  <2>1. /\ TaskId' = TaskId /\ Len(tasks') = Len(tasks)
        /\ tasks' \in Seq([node : PlanNodes(plan'),
                           state : ActiveState \cup {"completed", "failed"}])
        /\ \A u \in TaskId : /\ tasks'[u].node = tasks[u].node
                             /\ tasks'[u].state = IF u = t THEN "ready" ELSE tasks[u].state
    <3>1. Moves(t, "ready") /\ "ready" \in ActiveState \cup {"completed", "failed"}
      BY <1>4 DEF Moves, ActiveState
    <3> QED
      BY <1>1, <1>5, <3>1, MovedTask, ZenonT(40)
  <2>2. \A m : Completions(m)' = Completions(m)
    BY <1>5, <2>1 DEF Completions
  <2> QED
    BY <2>1, <2>2
<1>7. \A u \in TaskId : Active(u)' = Active(u)
  BY <1>5, <1>6 DEF Active, ActiveState
<1>8. Types'
  BY <1>1, <1>4, <1>5, <1>6 DEF Types, ReadyTask, bounds
<1>9. Lineage'
  BY <1>1, <1>4 DEF Lineage
<1>10. Driver'
  <2>1. Follows(Truth, batch', Truth, plan)
    <3>1. StagedPlan(plan) /\ Truth \in Execution(plan) /\ n \in PlanNodes(plan)
      BY <1>1, <1>5, TaskFacts, TruthIs
    <3>2. Truth.state \notin TerminalExecutionState
      BY <1>1, <1>4 DEF Types, Driver, Lineage, TerminalExecutionState
    <3>3. Follows(Truth, <<NodeEvent("node_submitted", n, Truth.stage)>>, Truth, plan)
      BY <3>1, <3>2, SubmitFollows
    <3>4. Follows(Truth, batch, Truth, plan)
      BY <1>1, <1>4 DEF Driver
    <3> QED
      BY <1>4, <3>1, <3>3, <3>4, FollowsAppend
  <2>2. \A u \in own' : tasks'[u].node \in ReadyNodes(Truth, plan) \ todo'
    BY <1>1, <1>3, <1>4, <1>5, <1>6 DEF Driver, Types
  <2>3. mode = "loop" => Truth.state = "executing"
    BY <1>1, <1>4 DEF Driver
  <2> QED
    BY <1>4, <1>5, <2>1, <2>2, <2>3 DEF Driver
<1>11. Worker'
  BY <1>1, <1>4, <1>5, <1>6 DEF Worker, Types
<1>12. Exclusive'
  <2>1. OneActiveTask'
    BY <1>1, <1>6, <1>7 DEF Exclusive, OneActiveTask, Active, ActiveState
  <2>2. \A u \in TaskId : Active(u) /\ tasks[u].node \in todo => u = t
    BY <1>1, <1>2 DEF Exclusive
  <2>3. \A u \in TaskId' : ~ (Active(u)' /\ tasks'[u].node \in todo')
    BY <1>3, <1>4, <1>6, <1>7, <2>2
  <2>4. ASSUME NEW v \in own', NEW u \in TaskId', u # v, tasks'[u].node = tasks'[v].node
        PROVE  ~ Active(u)' /\ u \notin own'
    <3>1. v \in TaskId /\ u \in TaskId /\ tasks[u].node = tasks[v].node
      BY <1>1, <1>4, <1>5, <1>6, <2>4 DEF Types
    <3>2. CASE v = t
      <4>1. u \notin own
        BY <1>1, <1>3, <1>5, <3>1, <3>2 DEF Driver
      <4>2. ~ Active(u)
        BY <1>3, <1>5, <2>2, <2>4, <3>1, <3>2
      <4> QED
        BY <1>4, <1>7, <2>4, <3>1, <3>2, <4>1, <4>2
    <3>3. CASE v \in own
      <4>1. ~ Active(u) /\ u \notin own
        BY <1>1, <2>4, <3>1, <3>3 DEF Exclusive
      <4>2. u # t
        BY <1>1, <1>3, <1>5, <3>1, <3>3 DEF Driver
      <4> QED
        BY <1>4, <1>7, <3>1, <4>1, <4>2
    <3> QED
      BY <1>4, <3>2, <3>3
  <2> QED
    BY <2>1, <2>3, <2>4 DEF Exclusive
<1>13. Due'
  BY <1>1, <1>4, <1>5, <1>6 DEF Due
<1>14. Paid'
  <2>1. ASSUME NEW m PROVE Ran(m)' = Ran(m) /\ (Handled(m) => Handled(m)')
    <3>1. Ran(m)' = Ran(m)
      BY <1>1, <1>4, <1>6 DEF Ran, Types
    <3>2. Handled(m) => Handled(m)'
      <4>1. \A u \in own : u # t /\ u \in TaskId
        BY <1>1, <1>5 DEF Types
      <4> QED
        BY <1>4, <1>6, <4>1 DEF Handled
    <3> QED
      BY <3>1, <3>2
  <2>2. ASSUME NEW m PROVE Orphaned(m)' => Orphaned(m)
    <3>1. Mine' = Mine
      BY <1>2, <1>4, <1>6 DEF Mine
    <3> QED
      BY <1>6, <1>7, <3>1 DEF Orphaned
  <2> QED
    BY <1>1, <1>4, <1>6, <2>1, <2>2, StaysPaid DEF ReadyTask, bounds
<1> QED
  BY <1>8, <1>9, <1>10, <1>11, <1>12, <1>13, <1>14 DEF IInv

(* The node_submitted events are stored, which changes no execution. *)
LEMMA SubmittedKeeps == IInv /\ Submitted => IInv'
<1> SUFFICES ASSUME IInv, Submitted PROVE IInv'
  OBVIOUS
<1>1. /\ Types /\ Lineage /\ Driver /\ Worker /\ Exclusive /\ Due /\ Paid
  BY DEF IInv
<1>2. /\ TaskId' = TaskId /\ UNCHANGED <<plan, mode, tasks, worker, ran>>
      /\ batch' = <<>> /\ todo' = {} /\ log' = log \o batch
      /\ pc = "submit" /\ mem = <<Truth>>
      /\ mode = "loop" => pc' = "idle" /\ UNCHANGED <<mem, own>>
      /\ mode = "handler" => pc' = "off" /\ own' = {}
  BY <1>1 DEF Submitted, TaskId, Driver
<1>3. Truth' = Truth /\ ValidLog(log', plan)
  <2>1. Follows(Replayed(log, plan), batch, Truth, plan) /\ ValidLog(log, plan) /\ StagedPlan(plan)
    BY <1>1, <1>2, TruthIs, TaskFacts DEF Driver, Lineage
  <2>2. ValidLog(log', plan) /\ Replayed(log', plan) = Truth
    BY <1>2, <2>1, ValidLogGrows
  <2> QED
    BY <1>2, <2>2 DEF Truth
<1>4. Types' /\ Lineage'
  BY <1>1, <1>2, <1>3 DEF Types, Lineage, Submitted, bounds
<1>5. Driver' /\ Worker'
  <2>1. CASE mode = "loop"
    BY <1>1, <1>2, <1>3, <2>1 DEF Driver, Worker
  <2>2. CASE mode = "handler"
    BY <1>1, <1>2, <1>3, <2>2 DEF Driver, Worker
  <2> QED
    BY <1>1, <2>1, <2>2 DEF Types
<1>6. own' \subseteq own
  BY <1>1, <1>2 DEF Types
<1>7. Exclusive' /\ Due'
  BY <1>1, <1>2, <1>3, <1>6 DEF Exclusive, OneActiveTask, Active, Due
<1>8. Paid'
  <2>1. \A n : Completions(n)' = Completions(n) /\ Ran(n)' = Ran(n)
    BY <1>2 DEF Completions, Ran
  <2>2. ASSUME mode = "loop", NEW n PROVE Orphaned(n)' = Orphaned(n) /\ Handled(n)' = Handled(n)
    BY <1>2, <1>3, <2>2 DEF Orphaned, Mine, Active, Handled
  <2> QED
    BY <1>1, <1>2, <1>3, <2>1, <2>2, StaysPaid DEF Submitted, bounds
<1> QED
  BY <1>4, <1>5, <1>7, <1>8 DEF IInv

(* The result r of a ready node n completes the nodes in done and leaves the *)
(* other ready nodes ready, and then the execution executing.              *)
Leaves(x, r, n, done, p) ==
    /\ Follows(x, r.events, r.exec, p) /\ Sane(r.exec, p)
    /\ r.exec.completed = x.completed \cup done
    /\ \A m \in ReadyNodes(x, p) \ {n} :
         m \in ReadyNodes(r.exec, p) /\ r.exec.state = "executing"

(* Both results of a ready node do. *)
LEMMA ResultLeavesReady ==
    ASSUME NEW p, StagedPlan(p), NEW x, Sane(x, p), x.state = "executing",
           NEW n \in ReadyNodes(x, p)
    PROVE  /\ Leaves(x, NodeCompleted(x, p, n), n, {n}, p)
           /\ Leaves(x, NodeFailed(x, p, n), n, {}, p)
<1>1. ASSUME NEW y, x.completed \subseteq y.completed, y.completed \subseteq x.completed \cup {n},
             y.failed \in {x.failed, x.failed \cup {n}},
             y.state = "executing" \/ y.state = StatusOf(y, p),
             NEW m \in ReadyNodes(x, p) \ {n}
      PROVE  m \in ReadyNodes(y, p) /\ y.state = "executing"
  <2>1. m \in PlanNodes(p) /\ m \notin x.completed /\ m \notin x.failed /\ p.deps[m] \subseteq x.completed
    BY DEF ReadyNodes
  <2>2. m \notin y.completed /\ m \notin y.failed /\ p.deps[m] \subseteq y.completed
    BY <1>1, <2>1
  <2>3. m \in ReadyNodes(y, p)
    BY <2>1, <2>2 DEF ReadyNodes
  <2> QED
    BY <1>1, <2>1, <2>2, <2>3 DEF StatusOf
<1>2. Leaves(x, NodeCompleted(x, p, n), n, {n}, p)
  <2> DEFINE r == NodeCompleted(x, p, n)
             y == r.exec
  <2>1. Kept(x, r, p) /\ CompletePromised(x, y, n, p)
    BY CompletedIsKept
  <2> HIDE DEF r
  <2>2. y.completed = x.completed \cup {n} /\ y.failed = x.failed /\ y.state = StatusOf(y, p)
    BY <2>1 DEF CompletePromised
  <2>3. \A m \in ReadyNodes(x, p) \ {n} : m \in ReadyNodes(y, p) /\ y.state = "executing"
    BY <1>1, <2>2
  <2> QED
    BY <2>1, <2>2, <2>3 DEF Leaves, Kept, r
<1>3. Leaves(x, NodeFailed(x, p, n), n, {}, p)
  <2> DEFINE r == NodeFailed(x, p, n)
             y == r.exec
  <2>1. Kept(x, r, p) /\ (RetryPromised(x, y, n, p) \/ GiveUpPromised(x, y, n, p))
    BY FailedIsKept
  <2> HIDE DEF r
  <2>2. /\ y.completed = x.completed /\ y.failed \in {x.failed, x.failed \cup {n}}
        /\ y.state = "executing" \/ y.state = StatusOf(y, p)
    BY <2>1 DEF RetryPromised, GiveUpPromised
  <2>3. \A m \in ReadyNodes(x, p) \ {n} : m \in ReadyNodes(y, p) /\ y.state = "executing"
    BY <1>1, <2>2
  <2> QED
    BY <2>1, <2>2, <2>3 DEF Leaves, Kept, r
<1> QED
  BY <1>2, <1>3

(* A result is of a node that is ready in the truth, and handling it moves *)
(* the truth along while the other awaited nodes stay ready.               *)
LEMMA HandleResultKeeps == IInv /\ HandleResult => IInv'
<1> SUFFICES ASSUME IInv, HandleResult PROVE IInv'
  OBVIOUS
<1>1. /\ Types /\ Lineage /\ Driver /\ Worker /\ Exclusive /\ Due /\ Paid
  BY DEF IInv
<1>2. PICK t \in own : /\ tasks[t].state \in {"completed", "failed"}
                       /\ mem' = <<Result(t).exec>>
                       /\ log' = log \o Result(t).events
                       /\ own' = own \ {t}
  BY DEF HandleResult
<1>3. PICK n : n = tasks[t].node
  OBVIOUS
<1>4. PICK done : done = IF tasks[t].state = "completed" THEN {n} ELSE {}
  OBVIOUS
<1>5. /\ TaskId' = TaskId /\ pc = "idle"
      /\ UNCHANGED <<plan, mode, tasks, pc, todo, batch, worker, ran>>
  BY DEF HandleResult, TaskId
<1>6. /\ mode = "loop" /\ mem = <<Truth>> /\ Exec = Truth /\ Truth.state = "executing"
      /\ todo = {} /\ batch = <<>> /\ n \in ReadyNodes(Truth, plan) /\ t \in TaskId
      /\ ~ Active(t) /\ Sane(Truth, plan)
  <2>1. mode = "loop" /\ mem = <<Truth>> /\ todo = {} /\ batch = <<>> /\ t \in TaskId
    BY <1>1, <1>5 DEF Driver, Types
  <2>2. Truth.state = "executing" /\ n \in ReadyNodes(Truth, plan)
    BY <1>1, <1>3, <1>5, <2>1 DEF Driver
  <2> QED
    BY <1>1, <1>2, <2>1, <2>2 DEF Exec, Active, ActiveState, Lineage
<1>7. PICK r : r = Result(t)
  OBVIOUS
<1>8. Leaves(Truth, r, n, done, plan)
  <2>1. StagedPlan(plan)
    BY <1>1, TaskFacts
  <2>2. /\ Leaves(Truth, NodeCompleted(Truth, plan, n), n, {n}, plan)
        /\ Leaves(Truth, NodeFailed(Truth, plan, n), n, {}, plan)
    BY <1>6, <2>1, ResultLeavesReady
  <2> QED
    BY <1>3, <1>4, <1>6, <1>7, <2>2 DEF Result
<1>9. /\ Follows(Truth, r.events, r.exec, plan) /\ Sane(r.exec, plan)
      /\ r.exec.completed = Truth.completed \cup done
      /\ \A m \in ReadyNodes(Truth, plan) \ {n} :
           m \in ReadyNodes(r.exec, plan) /\ r.exec.state = "executing"
  BY <1>8 DEF Leaves
<1>10. ValidLog(log', plan) /\ Truth' = r.exec
  <2>1. StagedPlan(plan) /\ ValidLog(log, plan) /\ Truth = Replayed(log, plan)
    BY <1>1, TaskFacts, TruthIs DEF Lineage
  <2>2. ValidLog(log', plan) /\ Replayed(log', plan) = r.exec
    BY <1>2, <1>7, <1>9, <2>1, ValidLogGrows
  <2> QED
    BY <1>5, <2>2 DEF Truth
<1>11. \A u \in own' : /\ u \in own /\ u \in TaskId /\ u # t
                       /\ tasks[u].node \in ReadyNodes(Truth, plan) \ {n}
  BY <1>1, <1>2, <1>3, <1>6 DEF Types, Driver, Exclusive
<1>12. Types' /\ Lineage'
  BY <1>1, <1>2, <1>5, <1>6, <1>9, <1>10 DEF Types, Lineage, HandleResult, bounds
<1>13. Driver'
  <2>1. mem' = <<Truth'>>
    BY <1>2, <1>7, <1>10
  <2>2. \A u \in own' : tasks[u].node \in ReadyNodes(Truth', plan) /\ Truth'.state = "executing"
    BY <1>9, <1>10, <1>11
  <2> QED
    BY <1>5, <1>6, <2>1, <2>2 DEF Driver
<1>14. Worker'
  BY <1>1, <1>5 DEF Worker
<1>15. Exclusive' /\ Due'
  BY <1>1, <1>2, <1>5, <1>6, <1>9, <1>10 DEF Exclusive, OneActiveTask, Active, Due
<1>16. Paid'
  <2>1. ASSUME NEW m PROVE Completions(m)' = Completions(m) /\ Orphaned(m)' => Orphaned(m)
    <3>1. ASSUME NEW u \in TaskId' \ Mine', Active(u)'
          PROVE  u \in TaskId \ Mine /\ Active(u)
      BY <1>2, <1>5, <1>6, <3>1 DEF Mine, Active
    <3> QED
      BY <1>5, <3>1 DEF Completions, Orphaned
  <2>2. ASSUME NEW m PROVE Handled(m) => Handled(m)'
    <3>1. CASE m \in Truth.completed
      BY <1>9, <1>10, <3>1 DEF Handled
    <3>2. ASSUME NEW u \in own, tasks[u].node = m, tasks[u].state = "completed"
          PROVE  Handled(m)'
      <4>1. CASE u = t
        BY <1>3, <1>4, <1>9, <1>10, <3>2, <4>1 DEF Handled
      <4>2. CASE u # t
        BY <1>2, <1>5, <3>2, <4>2 DEF Handled
      <4> QED
        BY <4>1, <4>2
    <3> QED
      BY <3>1, <3>2 DEF Handled
  <2>3. \A m : Completions(m)' = Completions(m)
    BY <1>5 DEF Completions
  <2> QED
    BY <1>1, <1>5, <1>6, <2>1, <2>2, <2>3, StaysPaid DEF HandleResult, bounds
<1> QED
  BY <1>12, <1>13, <1>14, <1>15, <1>16 DEF IInv

(* A crash of the driver orphans a node's active task or loses its result, and *)
(* never both: while a result waits, no other task of the node is active.  *)
LEMMA DriverCrashKeeps == IInv /\ DriverCrash => IInv'
<1> SUFFICES ASSUME IInv, DriverCrash PROVE IInv'
  OBVIOUS
<1>1. /\ Types /\ Lineage /\ Driver /\ Worker /\ Exclusive /\ Due /\ Paid
  BY DEF IInv
<1>2. /\ TaskId' = TaskId /\ Truth' = Truth
      /\ UNCHANGED <<plan, mode, log, tasks, worker, ran, workerCrashes, lost>>
      /\ pc' = "off" /\ own' = {} /\ todo' = {} /\ batch' = <<>>
      /\ driverCrashes' = driverCrashes + 1
  BY DEF DriverCrash, TaskId, Truth, shared
<1>3. Types' /\ Lineage' /\ Due'
  BY <1>1, <1>2 DEF Types, Lineage, Due
<1>4. Driver' /\ Worker' /\ Exclusive'
  BY <1>1, <1>2 DEF Driver, Worker, Exclusive, OneActiveTask, Active
<1>5. Paid'
  <2> SUFFICES ASSUME NEW n \in PlanNodes(plan)
               PROVE  /\ mode = "loop" =>
                           Cardinality(Completions(n)') + One(Orphaned(n)')
                             <= driverCrashes' + One(Handled(n)')
                      /\ mode = "handler" =>
                           Cardinality(Completions(n)') + One(Ran(n)')
                             <= lost' + One(n \in Truth'.completed)
    BY <1>2 DEF Paid
  <2>1. /\ Cardinality(Completions(n)) \in Nat /\ driverCrashes \in Nat /\ lost \in Nat
        /\ Completions(n)' = Completions(n) /\ Ran(n)' = Ran(n)
    BY <1>1, <1>2, CompletionsAreFinite DEF Types, Completions, Ran
  <2>2. CASE mode = "handler"
    BY <1>1, <1>2, <2>1, <2>2 DEF Paid
  <2>3. CASE mode = "loop"
    <3>1. Cardinality(Completions(n)) + One(Orphaned(n)) <= driverCrashes + One(Handled(n))
      BY <1>1, <2>3 DEF Paid
    <3>2. CASE Handled(n)' = Handled(n)
      BY <1>2, <2>1, <2>3, <3>1, <3>2 DEF One
    <3>3. CASE Handled(n)' # Handled(n)
      <4>1. PICK t \in own : tasks[t].node = n /\ tasks[t].state = "completed"
        BY <1>2, <3>3 DEF Handled
      <4>2. \A u \in TaskId : tasks[u].node = n => ~ Active(u)
        BY <1>1, <4>1 DEF Exclusive, Active, ActiveState
      <4>3. ~ Orphaned(n)'
        BY <1>2, <4>2 DEF Orphaned, Active
      <4> QED
        BY <1>2, <2>1, <2>3, <3>1, <4>3 DEF One
    <3> QED
      BY <3>2, <3>3
  <2> QED
    BY <1>1, <2>2, <2>3 DEF Types
<1> QED
  BY <1>3, <1>4, <1>5 DEF IInv

-----------------------------------------------------------------------------
(* The worker and the operator move one task and leave lineage and driver alone. *)
Alongside == UNCHANGED <<plan, mode, log, driver, bounds>>

Undisturbed(t, new) ==
    /\ TaskId' = TaskId /\ Truth' = Truth
    /\ UNCHANGED <<plan, mode, log, mem, todo, own, batch, pc, driverCrashes, lost>>
    /\ \A u \in TaskId : /\ tasks'[u].node = tasks[u].node
                         /\ tasks'[u].state = IF u = t THEN new ELSE tasks[u].state
    /\ Lineage' /\ Driver' /\ Exclusive'
    /\ worker' \in TaskId \cup {0} /\ ran' \in BOOLEAN => Types'
    /\ \A n : Completions(n)' =
         IF tasks[t].node = n /\ new = "completed" THEN Completions(n) \cup {t}
         ELSE Completions(n)
    /\ \A n : Orphaned(n)' => Orphaned(n)
    /\ \A n : Handled(n) => Handled(n)'

(* Moving an active task that is not just being created disturbs nothing of *)
(* the driver.                                                             *)
LEMMA MovedAlongside ==
    ASSUME IInv, Alongside, NEW t \in TaskId,
           NEW new \in ActiveState \cup {"completed", "failed"},
           tasks' = [tasks EXCEPT ![t].state = new],
           Active(t), pc = "ready" => t # Len(tasks)
    PROVE  Undisturbed(t, new)
<1>1. /\ Types /\ Lineage /\ Driver /\ Worker /\ Exclusive /\ Due /\ Paid
  BY DEF IInv
<1>2. /\ UNCHANGED <<plan, mode, log, mem, todo, own, batch, pc, driverCrashes, workerCrashes, lost>>
      /\ Truth' = Truth
  BY DEF Alongside, driver, bounds, Truth
<1>3. Moves(t, new)
  BY <1>2 DEF Moves
<1>4. /\ TaskId' = TaskId /\ Len(tasks') = Len(tasks)
      /\ tasks' \in Seq([node : PlanNodes(plan'),
                         state : ActiveState \cup {"completed", "failed"}])
      /\ \A u \in TaskId : /\ tasks'[u].node = tasks[u].node
                           /\ tasks'[u].state = IF u = t THEN new ELSE tasks[u].state
  BY <1>1, <1>3, MovedTask
<1>5. \A u \in TaskId : Active(u)' => Active(u)
  BY <1>4 DEF Active
<1>6. worker' \in TaskId \cup {0} /\ ran' \in BOOLEAN => Types'
  BY <1>1, <1>2, <1>4 DEF Types
<1>7. Lineage'
  BY <1>1, <1>2 DEF Lineage
<1>8. Driver'
  <2>1. pc = "ready" => /\ tasks' # <<>> /\ tasks'[Len(tasks')].state = "pending"
                        /\ tasks'[Len(tasks')].node \in todo /\ Len(tasks') \notin own
    <3> SUFFICES ASSUME pc = "ready" PROVE /\ tasks' # <<>> /\ tasks'[Len(tasks')].state = "pending"
                        /\ tasks'[Len(tasks')].node \in todo /\ Len(tasks') \notin own
      OBVIOUS
    <3>1. /\ tasks # <<>> /\ tasks[Len(tasks)].state = "pending"
          /\ tasks[Len(tasks)].node \in todo /\ Len(tasks) \notin own
      BY <1>1 DEF Driver
    <3>2. Len(tasks) # 0 /\ Len(tasks) \in TaskId
      <4>1. Len(tasks) # 0
        BY <1>1, <3>1 DEF Types
      <4> QED
        BY <1>1, <4>1, TaskFacts
    <3>3. tasks' # <<>>
      BY <1>4, <3>2
    <3> QED
      BY <1>4, <3>1, <3>2, <3>3
  <2>2. \A u \in own : tasks'[u].node = tasks[u].node
    BY <1>1, <1>4 DEF Types
  <2> QED
    BY <1>1, <1>2, <2>1, <2>2 DEF Driver
<1>9. Exclusive'
  <2>1. OneActiveTask'
    BY <1>1, <1>4, <1>5 DEF Exclusive, OneActiveTask, Active, ActiveState
  <2>2. \A u \in TaskId' : Active(u)' /\ tasks'[u].node \in todo' => pc' = "ready" /\ u = Len(tasks')
    BY <1>1, <1>2, <1>4, <1>5 DEF Exclusive
  <2>3. ASSUME NEW v \in own', NEW u \in TaskId', u # v, tasks'[u].node = tasks'[v].node
        PROVE  ~ Active(u)' /\ u \notin own'
    <3>1. v \in own /\ v \in TaskId /\ u \in TaskId /\ tasks[u].node = tasks[v].node
      BY <1>1, <1>2, <1>4, <2>3 DEF Types
    <3>2. ~ Active(u) /\ u \notin own
      BY <1>1, <2>3, <3>1 DEF Exclusive
    <3> QED
      BY <1>2, <1>5, <3>1, <3>2
  <2> QED
    BY <2>1, <2>2, <2>3 DEF Exclusive
<1>10. ASSUME NEW n
       PROVE  /\ Completions(n)' = IF tasks[t].node = n /\ new = "completed"
                                   THEN Completions(n) \cup {t} ELSE Completions(n)
              /\ Orphaned(n)' => Orphaned(n)
              /\ Handled(n) => Handled(n)'
  <2>1. tasks[t].state # "completed"
    BY DEF Active, ActiveState
  <2>2. Completions(n)' = IF tasks[t].node = n /\ new = "completed"
                          THEN Completions(n) \cup {t} ELSE Completions(n)
    BY <1>4, <2>1 DEF Completions
  <2>3. Mine' = Mine
    BY <1>2, <1>4 DEF Mine
  <2>4. Orphaned(n)' => Orphaned(n)
    BY <1>4, <1>5, <2>3 DEF Orphaned
  <2>5. Handled(n) => Handled(n)'
    BY <1>1, <1>2, <1>4, <2>1 DEF Handled, Types
  <2> QED
    BY <2>2, <2>4, <2>5
<1> QED
  BY <1>2, <1>4, <1>6, <1>7, <1>8, <1>9, <1>10 DEF Undisturbed

(* The worker takes a ready task. *)
LEMMA ClaimKeeps == IInv /\ Claim => IInv'
<1> SUFFICES ASSUME IInv, Claim PROVE IInv'
  OBVIOUS
<1>1. /\ Types /\ Lineage /\ Driver /\ Worker /\ Exclusive /\ Due /\ Paid
  BY DEF IInv
<1>2. PICK t \in TaskId : /\ tasks[t].state = "ready"
                          /\ tasks' = [tasks EXCEPT ![t].state = "running"]
                          /\ worker' = t
  BY DEF Claim
<1>3. /\ Alongside /\ worker = 0 /\ ran' = FALSE
      /\ mode = "handler" => pc = "off"
  BY DEF Claim, Alongside
<1>4. Active(t) /\ "running" \in ActiveState \cup {"completed", "failed"}
  BY <1>2 DEF Active, ActiveState
<1>5. pc = "ready" => t # Len(tasks)
  BY <1>1, <1>2 DEF Driver
<1>6. /\ TaskId' = TaskId /\ Truth' = Truth
      /\ UNCHANGED <<plan, mode, log, mem, todo, own, batch, pc, driverCrashes, lost>>
      /\ \A u \in TaskId : /\ tasks'[u].node = tasks[u].node
                           /\ tasks'[u].state = IF u = t THEN "running" ELSE tasks[u].state
      /\ Lineage' /\ Driver' /\ Exclusive'
      /\ worker' \in TaskId \cup {0} /\ ran' \in BOOLEAN => Types'
      /\ \A n : Completions(n)' = Completions(n)
      /\ \A n : Orphaned(n)' => Orphaned(n)
      /\ \A n : Handled(n) => Handled(n)'
  <2>1. Undisturbed(t, "running")
    BY <1>2, <1>3, <1>4, <1>5, MovedAlongside
  <2> QED
    BY <2>1 DEF Undisturbed
<1>7. Types'
  BY <1>2, <1>3, <1>6
<1>8. Worker'
  BY <1>2, <1>3, <1>6 DEF Worker
<1>9. Due'
  BY <1>1, <1>2, <1>3, <1>6 DEF Due
<1>10. Paid'
  <2>1. \A n : ~ Ran(n)'
    BY <1>3 DEF Ran
  <2> QED
    BY <1>1, <1>6, <2>1, StaysPaid
<1> QED
  BY <1>6, <1>7, <1>8, <1>9, <1>10 DEF IInv

(* The operator readies a pending task. *)
LEMMA RepairPendingKeeps == IInv /\ RepairPending => IInv'
<1> SUFFICES ASSUME IInv, RepairPending PROVE IInv'
  OBVIOUS
<1>1. /\ Types /\ Lineage /\ Driver /\ Worker /\ Exclusive /\ Due /\ Paid
  BY DEF IInv
<1>2. PICK t \in TaskId : /\ tasks[t].state = "pending"
                          /\ tasks' = [tasks EXCEPT ![t].state = "ready"]
  BY DEF RepairPending
<1>3. Alongside /\ pc # "ready" /\ UNCHANGED <<worker, ran>>
  BY DEF RepairPending, Alongside
<1>4. Active(t) /\ "ready" \in ActiveState \cup {"completed", "failed"}
  BY <1>2 DEF Active, ActiveState
<1>5. /\ TaskId' = TaskId /\ Truth' = Truth
      /\ UNCHANGED <<plan, mode, log, mem, todo, own, batch, pc, driverCrashes, lost>>
      /\ \A u \in TaskId : /\ tasks'[u].node = tasks[u].node
                           /\ tasks'[u].state = IF u = t THEN "ready" ELSE tasks[u].state
      /\ Lineage' /\ Driver' /\ Exclusive'
      /\ worker' \in TaskId \cup {0} /\ ran' \in BOOLEAN => Types'
      /\ \A n : Completions(n)' = Completions(n)
      /\ \A n : Orphaned(n)' => Orphaned(n)
      /\ \A n : Handled(n) => Handled(n)'
  <2>1. Undisturbed(t, "ready")
    BY <1>2, <1>3, <1>4, MovedAlongside
  <2> QED
    BY <2>1 DEF Undisturbed
<1>6. Types'
  BY <1>1, <1>3, <1>5 DEF Types
<1>7. Worker'
  BY <1>1, <1>2, <1>3, <1>5 DEF Worker, Types
<1>8. Due'
  BY <1>1, <1>2, <1>3, <1>5 DEF Due
<1>9. Paid'
  <2>1. \A n : Ran(n)' = Ran(n)
    BY <1>1, <1>3, <1>5 DEF Ran, Types
  <2> QED
    BY <1>1, <1>5, <2>1, StaysPaid
<1> QED
  BY <1>5, <1>6, <1>7, <1>8, <1>9 DEF IInv

(* The operator fails a running task. *)
LEMMA RepairRunningKeeps == IInv /\ RepairRunning => IInv'
<1> SUFFICES ASSUME IInv, RepairRunning PROVE IInv'
  OBVIOUS
<1>1. /\ Types /\ Lineage /\ Driver /\ Worker /\ Exclusive /\ Due /\ Paid
  BY DEF IInv
<1>2. PICK t \in TaskId \ {worker} : /\ tasks[t].state = "running"
                                     /\ tasks' = [tasks EXCEPT ![t].state = "failed"]
  BY DEF RepairRunning
<1>3. Alongside /\ UNCHANGED <<worker, ran>> /\ t \in TaskId /\ t # worker
  BY DEF RepairRunning, Alongside
<1>4. Active(t) /\ "failed" \in ActiveState \cup {"completed", "failed"}
  BY <1>2 DEF Active, ActiveState
<1>5. pc = "ready" => t # Len(tasks)
  BY <1>1, <1>2 DEF Driver
<1>6. /\ TaskId' = TaskId /\ Truth' = Truth
      /\ UNCHANGED <<plan, mode, log, mem, todo, own, batch, pc, driverCrashes, lost>>
      /\ \A u \in TaskId : /\ tasks'[u].node = tasks[u].node
                           /\ tasks'[u].state = IF u = t THEN "failed" ELSE tasks[u].state
      /\ Lineage' /\ Driver' /\ Exclusive'
      /\ worker' \in TaskId \cup {0} /\ ran' \in BOOLEAN => Types'
      /\ \A n : Completions(n)' = Completions(n)
      /\ \A n : Orphaned(n)' => Orphaned(n)
      /\ \A n : Handled(n) => Handled(n)'
  <2>1. Undisturbed(t, "failed")
    BY <1>2, <1>3, <1>4, <1>5, MovedAlongside
  <2> QED
    BY <2>1 DEF Undisturbed
<1>7. Types'
  BY <1>1, <1>3, <1>6 DEF Types
<1>8. Worker'
  BY <1>1, <1>2, <1>3, <1>6 DEF Worker, Types
<1>9. Due'
  BY <1>1, <1>2, <1>3, <1>6 DEF Due
<1>10. Paid'
  <2>1. \A n : Ran(n)' = Ran(n)
    BY <1>1, <1>3, <1>6 DEF Ran, Types
  <2> QED
    BY <1>1, <1>6, <2>1, StaysPaid
<1> QED
  BY <1>6, <1>7, <1>8, <1>9, <1>10 DEF IInv

(* A crash of the worker leaves its task running. *)
LEMMA WorkerCrashKeeps == IInv /\ WorkerCrash => IInv'
<1> SUFFICES ASSUME IInv, WorkerCrash PROVE IInv'
  OBVIOUS
<1>1. /\ Types /\ Lineage /\ Driver /\ Worker /\ Exclusive /\ Due /\ Paid
  BY DEF IInv
<1>2. /\ TaskId' = TaskId /\ Truth' = Truth
      /\ UNCHANGED <<plan, mode, log, tasks, mem, todo, own, batch, pc, driverCrashes, lost>>
      /\ worker' = 0 /\ ran' = FALSE /\ workerCrashes' = workerCrashes + 1
  BY DEF WorkerCrash, TaskId, Truth, shared, driver
<1>3. Types'
  <2>1. worker' \in TaskId \cup {0} /\ ran' \in BOOLEAN
    BY <1>2
  <2>2. workerCrashes' \in Nat
    BY <1>1, <1>2 DEF Types
  <2> QED
    BY <1>1, <1>2, <2>1, <2>2 DEF Types
<1>4. Lineage' /\ Driver' /\ Worker'
  BY <1>1, <1>2 DEF Lineage, Driver, Worker
<1>5. Exclusive' /\ Due'
  <2>1. 0 \notin TaskId
    BY <1>1, TaskFacts
  <2> QED
    BY <1>1, <1>2, <2>1 DEF Exclusive, OneActiveTask, Active, Due
<1>6. Paid'
  <2>1. \A n : Completions(n)' = Completions(n) /\ ~ Ran(n)' /\ Handled(n)' = Handled(n)
    BY <1>2 DEF Completions, Ran, Handled
  <2>2. \A n : Orphaned(n)' = Orphaned(n)
    BY <1>2 DEF Orphaned, Mine, Active
  <2> QED
    BY <1>1, <1>2, <2>1, <2>2, StaysPaid
<1> QED
  BY <1>3, <1>4, <1>5, <1>6 DEF IInv

(* The semantic handler completes a node in the lineage that was not completed *)
(* there, so one more success is paid by one more completion, or by a lost  *)
(* append.                                                                 *)
LEMMA HandlerSucceedsKeeps == IInv /\ HandlerSucceeds => IInv'
<1> SUFFICES ASSUME IInv, HandlerSucceeds PROVE IInv'
  OBVIOUS
<1>1. /\ Types /\ Lineage /\ Driver /\ Worker /\ Exclusive /\ Due /\ Paid
  BY DEF IInv
<1>2. PICK t : t = worker
  OBVIOUS
<1>3. PICK n : n = tasks[t].node
  OBVIOUS
<1>4. /\ UNCHANGED <<plan, mode, tasks, mem, todo, own, batch, pc, worker, driverCrashes, workerCrashes>>
      /\ TaskId' = TaskId /\ worker = t /\ t # 0 /\ ~ ran /\ ran' = TRUE
  BY <1>2 DEF HandlerSucceeds, driver, TaskId
<1>5. t \in TaskId /\ tasks[t].state = "running" /\ n \in PlanNodes(plan) /\ StagedPlan(plan)
  <2>1. t \in TaskId
    BY <1>1, <1>4 DEF Types
  <2> QED
    BY <1>1, <1>3, <1>4, <2>1, TaskFacts DEF Worker
<1>6. Types'
  <2>1. ran' \in BOOLEAN
    BY <1>4
  <2>2. lost' \in Nat
    BY <1>1 DEF Types, HandlerSucceeds
  <2> QED
    BY <1>1, <1>4, <2>1, <2>2 DEF Types
<1>7. \A m : Completions(m)' = Completions(m) /\ Orphaned(m)' = Orphaned(m)
  BY <1>4 DEF Completions, Orphaned, Mine, Active
<1>8. Worker' /\ Exclusive'
  BY <1>1, <1>4 DEF Worker, Exclusive, OneActiveTask, Active
<1>9. \A m : Ran(m)' <=> m = n
  BY <1>3, <1>4 DEF Ran
<1>10. \A m : ~ Ran(m)
  BY <1>4 DEF Ran
<1>11. CASE log' = log
  <2>1. Truth' = Truth
    BY <1>4, <1>11 DEF Truth
  <2>2. Lineage' /\ Driver' /\ Due'
    BY <1>1, <1>4, <1>11, <2>1 DEF Lineage, Driver, Due
  <2>3. Paid'
    <3>1. CASE mode = "loop"
      <4>1. \A m : Handled(m)' = Handled(m)
        BY <1>4, <2>1 DEF Handled
      <4>2. lost' = lost
        BY <3>1 DEF HandlerSucceeds
      <4> QED
        BY <1>1, <1>4, <1>7, <3>1, <4>1, <4>2, StaysPaid
    <3>2. CASE mode = "handler"
      <4>1. lost' = lost + 1
        <5>1. log # Append(log, NodeEvent("node_completed", n, 0))
          <6>1. log \in Seq(Event)
            BY <1>1 DEF Lineage, ValidLog
          <6> HIDE DEF Event
          <6>2. Len(Append(log, NodeEvent("node_completed", n, 0))) = Len(log) + 1 /\ Len(log) \in Nat
            BY <6>1
          <6> QED
            BY <6>2
        <5> QED
          BY <1>3, <1>4, <1>11, <3>2, <5>1 DEF HandlerSucceeds
      <4>2. ASSUME NEW m \in PlanNodes(plan)
            PROVE  Cardinality(Completions(m)') + One(Ran(m)')
                     <= lost' + One(m \in Truth'.completed)
        <5>1. Cardinality(Completions(m)) + One(Ran(m)) <= lost + One(m \in Truth.completed)
          BY <1>1, <3>2 DEF Paid
        <5>2. Cardinality(Completions(m)) \in Nat /\ lost \in Nat
          BY <1>1, CompletionsAreFinite DEF Types
        <5> QED
          BY <1>7, <1>10, <2>1, <4>1, <5>1, <5>2 DEF One
      <4> QED
        BY <1>4, <3>2, <4>2 DEF Paid
    <3> QED
      BY <1>1, <3>1, <3>2 DEF Types
  <2> QED
    BY <1>6, <1>8, <2>2, <2>3 DEF IInv
<1>12. CASE log' # log
  <2> DEFINE e == NodeEvent("node_completed", n, 0)
  <2>1. mode = "handler" /\ log' = Append(log, e) /\ lost' = lost
    BY <1>3, <1>4, <1>12 DEF HandlerSucceeds
  <2>2. pc = "off" /\ own = {} /\ todo = {} /\ batch = <<>>
    BY <1>1, <1>4, <2>1 DEF Worker, Driver
  <2>3. n \notin Truth.completed /\ Truth.state \in {"initialized", "executing"}
    BY <1>1, <1>3, <1>4, <1>5, <2>1 DEF Due, Lineage
  <2>4. Truth \in Execution(plan) /\ Truth = Replayed(log, plan) /\ ValidLog(log, plan)
    BY <1>1, TruthIs DEF Lineage
  <2> DEFINE y == Marked(Truth, n)
  <2>5. /\ Follows(Truth, <<e>>, y, plan)
        /\ y.state = Truth.state /\ y.completed = Truth.completed \cup {n}
    <3>1. Truth.state \notin TerminalExecutionState /\ 0 \in Nat
      BY <2>3 DEF TerminalExecutionState
    <3> QED
      BY <1>5, <2>3, <2>4, <3>1, MarkedFollows
  <2> HIDE DEF e, y
  <2>6. ValidLog(log', plan) /\ Truth' = y
    <3>1. e \in Event
      <4> DEFINE s == <<e>>
      <4>1. s \in Seq(Event) /\ s[1] = e /\ Len(s) = 1
        BY <2>5 DEF Follows
      <4> HIDE DEF s
      <4>2. s[1] \in Event
        BY <4>1
      <4> QED
        BY <4>1, <4>2
    <3>2. log \in Seq(Event)
      BY <2>4 DEF ValidLog
    <3>3. log' = log \o <<e>>
      BY <2>1, <3>1, <3>2, AppendIsConcat
    <3>4. ValidLog(log', plan) /\ Replayed(log', plan) = y
      BY <1>5, <2>4, <2>5, <3>3, ValidLogGrows
    <3> QED
      BY <1>4, <3>4 DEF Truth
  <2>7. Lineage' /\ Driver'
    BY <1>1, <1>4, <2>1, <2>2, <2>3, <2>5, <2>6 DEF Lineage, Driver
  <2>8. Due'
    <3>1. \A u \in TaskId : u # t /\ tasks[u].state \in {"pending", "ready"} => tasks[u].node # n
      BY <1>1, <1>3, <1>5 DEF Exclusive, OneActiveTask
    <3>2. tasks[t].state \notin {"pending", "ready"}
      BY <1>5
    <3> QED
      BY <1>1, <1>4, <2>5, <2>6, <3>1, <3>2 DEF Due
  <2>9. Paid'
    <3>1. ASSUME NEW m \in PlanNodes(plan)
          PROVE  Cardinality(Completions(m)') + One(Ran(m)')
                   <= lost' + One(m \in Truth'.completed)
      <4>1. Cardinality(Completions(m)) + One(Ran(m)) <= lost + One(m \in Truth.completed)
        BY <1>1, <2>1 DEF Paid
      <4>2. Cardinality(Completions(m)) \in Nat /\ lost \in Nat
        BY <1>1, CompletionsAreFinite DEF Types
      <4>3. CASE m = n
        BY <1>7, <1>9, <1>10, <2>1, <2>3, <2>5, <2>6, <4>1, <4>2, <4>3 DEF One
      <4>4. CASE m # n
        <5>1. (m \in Truth'.completed) = (m \in Truth.completed) /\ ~ Ran(m)' /\ ~ Ran(m)
          BY <1>9, <1>10, <2>5, <2>6, <4>4
        <5> QED
          BY <1>7, <2>1, <4>1, <4>2, <5>1 DEF One
      <4> QED
        BY <4>3, <4>4
    <3> QED
      BY <1>4, <2>1, <3>1 DEF Paid
  <2> QED
    BY <1>6, <1>8, <2>7, <2>8, <2>9 DEF IInv
<1> QED
  BY <1>11, <1>12

(* A success of a task the driver waits for was not handled before; one of an *)
(* orphan was paid by the crash that made it an orphan.                    *)
LEMMA FinishTaskKeeps == IInv /\ FinishTask => IInv'
<1> SUFFICES ASSUME IInv, FinishTask PROVE IInv'
  OBVIOUS
<1>1. /\ Types /\ Lineage /\ Driver /\ Worker /\ Exclusive /\ Due /\ Paid
  BY DEF IInv
<1>2. PICK t : t = worker
  OBVIOUS
<1>3. PICK new : new = IF ran THEN "completed" ELSE "failed"
  OBVIOUS
<1>4. /\ Alongside /\ worker = t /\ t # 0 /\ worker' = 0 /\ ran' = FALSE
      /\ tasks' = [tasks EXCEPT ![t].state = new]
  BY <1>2, <1>3 DEF FinishTask, Alongside
<1>5. t \in TaskId /\ tasks[t].state = "running"
  <2>1. t \in TaskId
    BY <1>1, <1>4 DEF Types
  <2> QED
    BY <1>1, <1>4, <2>1 DEF Worker
<1>6. Active(t) /\ new \in ActiveState \cup {"completed", "failed"}
  BY <1>3, <1>5 DEF Active, ActiveState
<1>7. pc = "ready" => t # Len(tasks)
  BY <1>1, <1>5 DEF Driver
<1>8. Undisturbed(t, new)
  BY <1>4, <1>5, <1>6, <1>7, MovedAlongside
<1>9. /\ TaskId' = TaskId /\ Truth' = Truth
      /\ UNCHANGED <<plan, mode, log, mem, todo, own, batch, pc, driverCrashes, lost>>
      /\ \A u \in TaskId : /\ tasks'[u].node = tasks[u].node
                           /\ tasks'[u].state = IF u = t THEN new ELSE tasks[u].state
      /\ Lineage' /\ Driver' /\ Exclusive'
      /\ worker' \in TaskId \cup {0} /\ ran' \in BOOLEAN => Types'
  BY <1>8 DEF Undisturbed
<1>10. Types'
  <2>1. worker' \in TaskId \cup {0} /\ ran' \in BOOLEAN
    BY <1>4
  <2> QED
    BY <1>9, <2>1
<1>11. Worker'
  BY <1>4 DEF Worker
<1>12. Due'
  <2>1. new \notin {"pending", "ready"} /\ worker' \notin TaskId'
    BY <1>1, <1>3, <1>4, <1>9, TaskFacts
  <2> QED
    BY <1>1, <1>9, <2>1 DEF Due
<1>13. ASSUME NEW n \in PlanNodes(plan)
       PROVE  /\ mode = "loop" =>
                   Cardinality(Completions(n)') + One(Orphaned(n)')
                     <= driverCrashes' + One(Handled(n)')
              /\ mode = "handler" =>
                   Cardinality(Completions(n)') + One(Ran(n)')
                     <= lost' + One(n \in Truth'.completed)
  <2>1. /\ IsFiniteSet(Completions(n)) /\ Cardinality(Completions(n)) \in Nat
        /\ driverCrashes \in Nat /\ lost \in Nat
    BY <1>1, CompletionsAreFinite DEF Types
  <2>2. /\ mode = "loop" =>
             Cardinality(Completions(n)) + One(Orphaned(n)) <= driverCrashes + One(Handled(n))
        /\ mode = "handler" =>
             Cardinality(Completions(n)) + One(Ran(n)) <= lost + One(n \in Truth.completed)
    BY <1>1 DEF Paid
  <2>3. /\ Orphaned(n)' => Orphaned(n)
        /\ Handled(n) => Handled(n)'
        /\ ~ Ran(n)'
    BY <1>4, <1>8 DEF Undisturbed, Ran
  <2>4. CASE tasks[t].node = n /\ ran
    <3>1. Completions(n)' = Completions(n) \cup {t}
      <4>1. tasks[t].node = n /\ new = "completed"
        BY <1>3, <2>4
      <4> QED
        BY <1>8, <4>1 DEF Undisturbed
    <3>2. t \notin Completions(n)
      BY <1>5 DEF Completions
    <3>3. Cardinality(Completions(n)') = Cardinality(Completions(n)) + 1
      BY <2>1, <3>1, <3>2, FS_AddElement
    <3>4. CASE mode = "handler"
      <4>1. Ran(n)
        BY <1>4, <2>4 DEF Ran
      <4> QED
        BY <1>9, <2>1, <2>2, <2>3, <3>3, <3>4, <4>1 DEF One
    <3>5. CASE mode = "loop" /\ t \in own
      <4>1. n \notin Truth.completed
        BY <1>1, <2>4, <3>5 DEF Driver, ReadyNodes
      <4>2. ~ Handled(n)
        <5>1. ASSUME NEW u \in own, tasks[u].node = n, tasks[u].state = "completed"
              PROVE  FALSE
          <6>1. u # t
            BY <1>5, <5>1
          <6> QED
            BY <1>1, <1>5, <1>6, <2>4, <5>1, <6>1 DEF Exclusive
        <5> QED
          BY <4>1, <5>1 DEF Handled
      <4>3. Handled(n)'
        <5>1. t \in own' /\ tasks'[t].node = n /\ tasks'[t].state = "completed"
          BY <1>3, <1>5, <1>9, <2>4, <3>5
        <5> QED
          BY <5>1 DEF Handled
      <4> QED
        BY <1>9, <2>1, <2>2, <2>3, <3>3, <3>5, <4>2, <4>3 DEF One
    <3>6. CASE mode = "loop" /\ t \notin own
      <4>1. t \notin Mine
        BY <1>7, <3>6 DEF Mine
      <4>2. Orphaned(n)
        BY <1>5, <1>6, <2>4, <4>1 DEF Orphaned
      <4>3. ~ Orphaned(n)'
        <5>1. ASSUME NEW u \in TaskId, Active(u)', tasks'[u].node = n
              PROVE  FALSE
          <6>1. u # t
            BY <1>3, <1>5, <1>9, <5>1 DEF Active, ActiveState
          <6>2. tasks[u].node = n /\ Active(u)
            BY <1>9, <5>1, <6>1 DEF Active
          <6> QED
            BY <1>1, <1>5, <1>6, <2>4, <6>1, <6>2 DEF Exclusive, OneActiveTask, Active, ActiveState
        <5> QED
          BY <1>9, <5>1 DEF Orphaned
      <4> QED
        BY <1>9, <2>1, <2>2, <2>3, <3>3, <3>6, <4>2, <4>3 DEF One
    <3> QED
      BY <1>1, <3>4, <3>5, <3>6 DEF Types
  <2>5. CASE ~ (tasks[t].node = n /\ ran)
    <3>1. Completions(n)' = Completions(n)
      <4>1. ~ (tasks[t].node = n /\ new = "completed")
        BY <1>3, <2>5
      <4> QED
        BY <1>8, <4>1 DEF Undisturbed
    <3> QED
      BY <1>9, <2>1, <2>2, <2>3, <3>1 DEF One
  <2> QED
    BY <2>4, <2>5
<1>14. Paid'
  BY <1>9, <1>13 DEF Paid
<1> QED
  BY <1>9, <1>10, <1>11, <1>12, <1>14 DEF IInv

-----------------------------------------------------------------------------
(* Every step keeps the invariant. *)
LEMMA NextKeeps == IInv /\ [Next]_vars => IInv'
<1> SUFFICES ASSUME IInv, [Next]_vars PROVE IInv'
  OBVIOUS
<1>1. CASE Resume
  BY <1>1, ResumeKeeps
<1>2. CASE Step
  BY <1>2, StepKeeps
<1>3. CASE DriverWork
  BY <1>3, StartKeeps, CreateTaskKeeps, ReadyTaskKeeps, SubmittedKeeps, HandleResultKeeps,
     LeaveKeeps DEF DriverWork
<1>4. CASE DriverCrash
  BY <1>4, DriverCrashKeeps
<1>5. CASE Claim
  BY <1>5, ClaimKeeps
<1>6. CASE HandlerSucceeds
  BY <1>6, HandlerSucceedsKeeps
<1>7. CASE FinishTask
  BY <1>7, FinishTaskKeeps
<1>8. CASE WorkerCrash
  BY <1>8, WorkerCrashKeeps
<1>9. CASE RepairPending
  BY <1>9, RepairPendingKeeps
<1>10. CASE RepairRunning
  BY <1>10, RepairRunningKeeps
<1>11. CASE UNCHANGED vars
  <2>1. /\ Types /\ Lineage /\ Driver /\ Worker /\ Exclusive /\ Due /\ Paid
    BY DEF IInv
  <2>2. /\ TaskId' = TaskId /\ Truth' = Truth
        /\ UNCHANGED <<plan, mode, log, tasks, pc, mem, todo, own, batch, worker, ran,
                       driverCrashes, workerCrashes, lost>>
    BY <1>11 DEF vars, shared, driver, bounds, TaskId, Truth
  <2>3. Types' /\ Lineage' /\ Driver' /\ Worker'
    BY <2>1, <2>2 DEF Types, Lineage, Driver, Worker
  <2>4. Exclusive' /\ Due'
    BY <2>1, <2>2 DEF Exclusive, OneActiveTask, Active, Due
  <2>5. Paid'
    <3>1. \A n : /\ Completions(n)' = Completions(n) /\ Ran(n)' = Ran(n)
                 /\ Handled(n)' = Handled(n) /\ Orphaned(n)' = Orphaned(n)
      BY <2>2 DEF Completions, Ran, Handled, Orphaned, Mine, Active
    <3> QED
      BY <2>1, <2>2, <3>1, StaysPaid
  <2> QED
    BY <2>3, <2>4, <2>5 DEF IInv
<1> QED
  BY <1>1, <1>2, <1>3, <1>4, <1>5, <1>6, <1>7, <1>8, <1>9, <1>10, <1>11 DEF Next

(* The inductive invariant holds throughout, whatever the plans and bounds. *)
THEOREM CoordinationInvariant == Spec => []IInv
<1>1. Init => IInv
  BY InitHolds
<1>2. IInv /\ [Next]_vars => IInv'
  BY NextKeeps
<1> QED
  BY <1>1, <1>2, PTL DEF Spec

(* find_submitted_node_ids: a node never has two active tasks, although the *)
(* check and the creation are separate steps with crashes between them.    *)
THEOREM OneTaskPerNode == Spec => []OneActiveTask
<1>1. IInv => OneActiveTask
  BY DEF IInv, Exclusive
<1> QED
  BY <1>1, CoordinationInvariant, PTL

(* step_execution: tasks exist only for nodes whose dependencies completed in *)
(* the lineage, and the driver waits for results of ready nodes only.      *)
THEOREM TasksComeWhenDue == Spec => []TasksAreForReadyNodes
<1>1. IInv => TasksAreForReadyNodes
  <2> SUFFICES ASSUME IInv PROVE TasksAreForReadyNodes
    OBVIOUS
  <2>1. \A t \in TaskId : plan.deps[tasks[t].node] \subseteq Truth.completed
    BY DEF IInv, Due
  <2>2. ASSUME NEW t \in own PROVE tasks[t].node \in ReadyNodes(Exec, plan)
    <3>1. pc # "off" /\ tasks[t].node \in ReadyNodes(Truth, plan)
      BY DEF IInv, Driver
    <3>2. Exec = Truth
      BY <3>1 DEF IInv, Driver, Exec
    <3> QED
      BY <3>1, <3>2
  <2> QED
    BY <2>1, <2>2 DEF TasksAreForReadyNodes
<1> QED
  BY <1>1, CoordinationInvariant, PTL

(* validate_lineage accepts the stored lineage at any time, whether the caller *)
(* or the semantic handler appended to it.                                 *)
THEOREM LineageIsAccepted == Spec => []LineageStaysValid
<1>1. IInv => LineageStaysValid
  BY TruthIs DEF IInv, LineageStaysValid
<1> QED
  BY <1>1, CoordinationInvariant, PTL

(* A node succeeds at most once more than the driver crashed, or with the    *)
(* handler than appends were lost.                                         *)
THEOREM RepetitionIsPaid == Spec => []WorkRepeatsOnlyAfterLoss
<1>1. IInv => WorkRepeatsOnlyAfterLoss
  <2> SUFFICES ASSUME IInv, NEW n \in PlanNodes(plan)
               PROVE  Cardinality(Completions(n))
                        <= 1 + IF mode = "loop" THEN driverCrashes ELSE lost
    BY DEF WorkRepeatsOnlyAfterLoss
  <2>1. /\ Types
        /\ mode = "loop" =>
             Cardinality(Completions(n)) + One(Orphaned(n)) <= driverCrashes + One(Handled(n))
        /\ mode = "handler" =>
             Cardinality(Completions(n)) + One(Ran(n)) <= lost + One(n \in Truth.completed)
    BY DEF IInv, Paid
  <2>2. /\ Cardinality(Completions(n)) \in Nat
        /\ driverCrashes \in Nat /\ lost \in Nat /\ mode \in {"loop", "handler"}
    BY <2>1, CompletionsAreFinite DEF Types
  <2> QED
    BY <2>1, <2>2 DEF One
<1> QED
  BY <1>1, CoordinationInvariant, PTL

=============================================================================
