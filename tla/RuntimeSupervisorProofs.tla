----------------------- MODULE RuntimeSupervisorProofs ----------------------
(***************************************************************************)
(* Theorems about the runtime loop for any set of tasks, any polling limit *)
(* and any number of crashes, interrupts and handlers that move tasks.     *)
(***************************************************************************)
EXTENDS RuntimeSupervisor, FiniteSetTheorems, TLAPS

Pc == {"off", "loop", "counted", "poll", "claim", "dispatch", "handler",
       "finish", "after", "save", "saved", "interrupted"}

\* What the proofs need of the types.  The polled queue is left out: no
\* argument below depends on which tasks poll_ready_tasks returns.
Shapes ==
    /\ runner \in [pc : Pc, iteration : {runner.iteration},
                  queue : {runner.queue}, ok : {runner.ok}]
    /\ task \in [Tasks -> TaskState]
    /\ runs \in [Tasks -> Nat]

(* The permitted moves stay within the states, and a running task may always *)
(* be given either outcome.                                                  *)
LEMMA MovesOfTasks ==
    /\ \A old, new : CanTransition(old, new) => new \in TaskState
    /\ CanTransition("running", "completed")
    /\ CanTransition("running", "failed")
  BY DEF CanTransition, TaskState, TaskMoves

(* Where the loop stands after each of its steps. *)
LEMMA NextPc ==
    ASSUME Shapes
    PROVE  /\ Start => runner'.pc = "loop"
           /\ ReachMax \/ StopSignal \/ Refused \/ Escape \/ SaveInterrupt \/ Crash
                 => runner' = Off
           /\ CountIteration => runner'.pc = "counted"
           /\ EnterPolling => runner'.pc = "poll"
           /\ Poll => runner'.pc \in {"loop", "claim"}
           /\ Claim => runner'.pc = "dispatch"
           /\ Dispatch => runner'.pc \in {"finish", "handler"}
           /\ HandlerReturns => runner'.pc = "finish"
           /\ Finish => runner'.pc \in {"after", "claim"}
           /\ AfterExecute => runner'.pc \in {"save", "loop"}
           /\ SaveCheckpoint => runner'.pc = "saved"
           /\ AfterCheckpoint => runner'.pc = "loop"
           /\ Interrupt => runner'.pc \in {"interrupted", "off"}
           /\ Operator \/ MoveTask => runner' = runner
<1> USE DEF Shapes, Goto
<1>1. Start => runner'.pc = "loop"
  BY DEF Start, Off
<1>2. ReachMax \/ StopSignal \/ Refused => runner' = Off
  BY DEF ReachMax, StopSignal, Refused
<1>3. Escape \/ SaveInterrupt \/ Crash => runner' = Off
  BY DEF Escape, SaveInterrupt, Crash
<1>4. CountIteration => runner'.pc = "counted"
  BY DEF CountIteration
<1>5. EnterPolling => runner'.pc = "poll"
  BY DEF EnterPolling
<1>6. Poll => runner'.pc \in {"loop", "claim"}
  BY DEF Poll
<1>7. Claim => runner'.pc = "dispatch"
  BY DEF Claim
<1>8. Dispatch => runner'.pc \in {"finish", "handler"}
  BY DEF Dispatch
<1>9. HandlerReturns => runner'.pc = "finish"
  BY DEF HandlerReturns
<1>10. Finish => runner'.pc \in {"after", "claim"}
  BY DEF Finish
<1>11. AfterExecute => runner'.pc \in {"save", "loop"}
  BY DEF AfterExecute
<1>12. SaveCheckpoint => runner'.pc = "saved"
  BY DEF SaveCheckpoint
<1>13. AfterCheckpoint => runner'.pc = "loop"
  BY DEF AfterCheckpoint
<1>14. Interrupt => runner'.pc \in {"interrupted", "off"}
  BY DEF Interrupt, Off
<1>15. Operator \/ MoveTask => runner' = runner
  BY DEF Operator, PauseRuntime, StopRuntime, RecoverBegin, RecoverEnd, MoveTask
<1> QED
  BY <1>1, <1>2, <1>3, <1>4, <1>5, <1>6, <1>7, <1>8, <1>9, <1>10, <1>11, <1>12,
     <1>13, <1>14, <1>15

(* Every step of the system keeps the shapes. *)
LEMMA ShapesStep == Shapes /\ [Next]_vars => Shapes'
<1> SUFFICES ASSUME Shapes, [Next]_vars PROVE Shapes'
  OBVIOUS
<1> USE DEF Shapes, Pc, At, Goto
<1>1. CASE Start
  BY <1>1 DEF Start, Off
<1>2. CASE ReachMax \/ Refused \/ StopSignal
  <2>1. UNCHANGED <<task, runs>> /\ runner' = Off
    BY <1>2 DEF ReachMax, Refused, StopSignal, durable
  <2> QED
    BY <2>1 DEF Off
<1>14. CASE CountIteration
  BY <1>14 DEF CountIteration, durable
<1>15. CASE EnterPolling
  BY <1>15 DEF EnterPolling
<1>3. CASE Poll
  BY <1>3 DEF Poll
<1>4. CASE Claim
  BY <1>4 DEF Claim, TaskState
<1>5. CASE Dispatch
  <2> DEFINE t == Head(runner.queue)
  <2>1. runs' \in [Tasks -> Nat]
    BY <1>5 DEF Dispatch
  <2> QED
    BY <1>5, <2>1 DEF Dispatch, durable
<1>6. CASE HandlerReturns
  BY <1>6 DEF HandlerReturns, durable
<1>7. CASE Finish
  BY <1>7 DEF Finish, Outcome, TaskState
<1>8. CASE Escape
  BY <1>8 DEF Escape, Off, durable
<1>9. CASE AfterExecute \/ SaveCheckpoint \/ AfterCheckpoint \/ SaveInterrupt
  BY <1>9 DEF AfterExecute, SaveCheckpoint, AfterCheckpoint, SaveInterrupt, Off
<1>10. CASE Interrupt \/ Crash
  BY <1>10 DEF Interrupt, Crash, Off, durable
<1>11. CASE Operator
  BY <1>11 DEF Operator, PauseRuntime, StopRuntime, RecoverBegin, RecoverEnd
<1>12. CASE MoveTask
  BY <1>12, MovesOfTasks DEF MoveTask
<1>13. CASE UNCHANGED vars
  BY <1>13 DEF vars
<1> QED
  BY <1>1, <1>2, <1>3, <1>4, <1>5, <1>6, <1>7, <1>8, <1>9, <1>10, <1>11, <1>12,
     <1>13, <1>14, <1>15 DEF Next, LoopStep

(* The initial states have the shapes. *)
LEMMA ShapesInit == Init => Shapes
  BY DEF Init, Shapes, Pc, Off, TaskState

-----------------------------------------------------------------------------
\* HandlerRunsOnce is not inductive: Dispatch adds a run.  The missing facts are
\* that a ready task has not run since it became ready, and that the task about
\* to be dispatched was claimed and has not run since it was ready.
RunsInv ==
    /\ Shapes
    /\ HandlerRunsOnce
    /\ \A t \in Tasks : task[t] = "ready" => runs[t] = 0
    /\ \A t \in Tasks :
          At("dispatch") /\ t = Head(runner.queue) => task[t] = "running" /\ runs[t] = 0

(* Every step of the loop, of handlers and of the operator keeps RunsInv. *)
LEMMA RunsStep == RunsInv /\ [Next]_vars => RunsInv'
<1> SUFFICES ASSUME RunsInv, [Next]_vars PROVE RunsInv'
  OBVIOUS
<1>0. Shapes /\ Shapes'
  BY ShapesStep DEF RunsInv
<1> USE DEF RunsInv, HandlerRunsOnce, At, Goto
<1>1. ASSUME UNCHANGED <<task, runs>>, runner'.pc # "dispatch" PROVE RunsInv'
  BY <1>0, <1>1
<1>2. CASE Start \/ ReachMax \/ CountIteration \/ EnterPolling \/ Refused \/ StopSignal
  <2>1. UNCHANGED <<task, runs>>
    BY <1>2 DEF Start, ReachMax, CountIteration, EnterPolling, Refused, StopSignal,
               durable
  <2>2. runner'.pc # "dispatch"
    BY <1>2, <1>0, NextPc DEF Off
  <2> QED
    BY <1>1, <2>1, <2>2
<1>3. CASE Poll \/ HandlerReturns \/ Escape \/ AfterExecute \/ SaveCheckpoint
             \/ AfterCheckpoint \/ SaveInterrupt
  <2>1. UNCHANGED <<task, runs>>
    BY <1>3 DEF Poll, HandlerReturns, Escape, AfterExecute, SaveCheckpoint,
               AfterCheckpoint, SaveInterrupt, durable
  <2>2. runner'.pc # "dispatch"
    BY <1>3, <1>0, NextPc DEF Off
  <2> QED
    BY <1>1, <2>1, <2>2
<1>4. CASE Claim
  <2>1. /\ task[Head(runner.queue)] = "ready"
        /\ runner'.queue = runner.queue /\ runs' = runs
        /\ task' = [task EXCEPT ![Head(runner.queue)] = "running"]
    BY <1>4, <1>0 DEF Claim, Shapes
  <2> QED
    BY <1>0, <2>1 DEF Shapes
<1>5. CASE Dispatch
  <2>1. /\ At("dispatch") /\ runner'.pc # "dispatch" /\ task' = task
        /\ \/ runs' = runs
           \/ runs' = [runs EXCEPT ![Head(runner.queue)] = @ + 1]
    BY <1>5, <1>0 DEF Dispatch, Shapes, durable
  <2>2. \A t \in Tasks : t = Head(runner.queue) => task[t] # "ready" /\ runs[t] = 0
    BY <2>1
  <2>3. CASE runs' = runs
    BY <1>0, <2>1, <2>3
  <2>4. CASE runs' = [runs EXCEPT ![Head(runner.queue)] = @ + 1]
    BY <1>0, <2>1, <2>2, <2>4 DEF Shapes
  <2> QED
    BY <2>1, <2>3, <2>4
<1>6. CASE Finish
  <2>1. /\ runner'.pc # "dispatch" /\ runs' = runs
        /\ task' = [task EXCEPT ![Head(runner.queue)] = Outcome]
    BY <1>6, <1>0, NextPc DEF Finish
  <2>2. Outcome # "ready"
    BY DEF Outcome
  <2> QED
    BY <1>0, <2>1, <2>2 DEF Shapes
<1>7. CASE Interrupt \/ Crash
  <2>1. UNCHANGED <<task, runs>> /\ runner'.pc # "dispatch"
    BY <1>7, <1>0 DEF Interrupt, Crash, Off, durable, Shapes
  <2> QED
    BY <1>1, <2>1
<1>8. CASE Operator
  <2>1. UNCHANGED <<task, runs>> /\ runner' = runner /\ At("off")
    BY <1>8 DEF Operator, PauseRuntime, StopRuntime, RecoverBegin, RecoverEnd
  <2> QED
    BY <1>1, <2>1
<1>9. CASE MoveTask
  <2>1. PICK t \in Tasks, s \in TaskState \ {"running"} :
           /\ task' = [task EXCEPT ![t] = s]
           /\ runs' = IF s = "ready" THEN [runs EXCEPT ![t] = 0] ELSE runs
    BY <1>9 DEF MoveTask
  <2>2. runner'.pc # "dispatch"
    BY <1>9 DEF MoveTask
  <2> QED
    BY <1>0, <2>1, <2>2 DEF Shapes
<1>10. CASE UNCHANGED vars
  BY <1>10, <1>0 DEF vars
<1> QED
  BY <1>2, <1>3, <1>4, <1>5, <1>6, <1>7, <1>8, <1>9, <1>10 DEF Next, LoopStep

(* However often the process dies or is interrupted and however the operator *)
(* resumes it, execute_task runs the handler of a task at most once for each *)
(* time the task becomes ready.                                              *)
THEOREM HandlerOnce == Spec => []HandlerRunsOnce
<1>1. Init => RunsInv
  BY ShapesInit DEF Init, RunsInv, HandlerRunsOnce, At, Off
<1>2. RunsInv => HandlerRunsOnce
  BY DEF RunsInv
<1> QED
  BY <1>1, <1>2, RunsStep, PTL DEF Spec

-----------------------------------------------------------------------------
\* Why a checkpoint is not ahead: it stores the loop's counter, and wherever one
\* is written the row already carries that counter.  Only between the increment
\* and the transition to polling is the loop one ahead of its row.  A row that
\* Start resets to 0 was never advanced.
CounterInv ==
    /\ Shapes
    /\ rt.iteration \in Nat /\ runner.iteration \in Nat /\ saved \in Nat
    /\ CheckpointNotAhead
    /\ ~ At("off") /\ ~ At("counted") => runner.iteration = rt.iteration
    /\ At("counted") => runner.iteration = rt.iteration + 1
    /\ rt.state = "initialized" => rt.iteration = 0

(* Every step keeps the relation of checkpoint, row and loop counter. *)
LEMMA CounterStep == CounterInv /\ [Next]_vars => CounterInv'
<1> SUFFICES ASSUME CounterInv, [Next]_vars PROVE CounterInv'
  OBVIOUS
<1>0. Shapes /\ Shapes'
  BY ShapesStep DEF CounterInv
<1> USE DEF CounterInv, CheckpointNotAhead, At, Goto, Enter, Off
<1>1. CASE Start
  <2>1. /\ runner'.pc = "loop" /\ runner'.iteration = rt'.iteration /\ saved' = saved
        /\ \/ rt' = [state |-> "idle", iteration |-> rt.iteration]
           \/ rt.state = "initialized" /\ rt' = [state |-> "idle", iteration |-> 0]
           \/ rt.state # "initialized" /\ rt' = rt
    BY <1>1 DEF Start
  <2> QED
    BY <1>0, <2>1
<1>2. CASE ReachMax \/ StopSignal
  <2>1. /\ rt' = [state |-> "paused", iteration |-> runner.iteration]
        /\ At("loop") /\ runner' = Off /\ saved' = saved
    BY <1>2 DEF ReachMax, StopSignal
  <2> QED
    BY <1>0, <2>1
<1>3. CASE Refused \/ Escape \/ Crash
  <2>1. runner' = Off /\ rt' = rt /\ saved' = saved
    BY <1>3 DEF Refused, Escape, Crash, durable
  <2> QED
    BY <1>0, <2>1
<1>4. CASE CountIteration
  <2>1. /\ At("loop") /\ rt' = rt /\ saved' = saved
        /\ runner'.pc = "counted" /\ runner'.iteration = runner.iteration + 1
    BY <1>4, <1>0 DEF CountIteration, durable, Shapes
  <2> QED
    BY <1>0, <2>1
<1>5. ASSUME NEW s, rt' = [state |-> s, iteration |-> runner.iteration],
             s # "initialized", ~ At("off"), saved' = saved,
             runner'.iteration = runner.iteration, runner'.pc # "counted"
      PROVE  CounterInv'
  BY <1>0, <1>5
<1>6. CASE EnterPolling
  <2>1. rt' = [state |-> "polling", iteration |-> runner.iteration]
    BY <1>6 DEF EnterPolling
  <2>2. ~ At("off") /\ saved' = saved /\ runner'.iteration = runner.iteration
    BY <1>6, <1>0 DEF EnterPolling, Shapes
  <2> QED
    BY <1>5, <1>6, <1>0, NextPc, <2>1, <2>2
<1>7. CASE Poll
  <2>1. \E s \in {"idle", "executing"} :
           rt' = [state |-> s, iteration |-> runner.iteration]
    BY <1>7 DEF Poll
  <2>2. ~ At("off") /\ saved' = saved
    BY <1>7 DEF Poll
  <2>3. runner'.iteration = runner.iteration
    BY <1>7, <1>0 DEF Poll, Shapes
  <2> QED
    BY <1>5, <1>7, <1>0, NextPc, <2>1, <2>2, <2>3
<1>8. CASE AfterExecute \/ AfterCheckpoint
  <2>1. \E s \in {"idle", "checkpointing"} :
           rt' = [state |-> s, iteration |-> runner.iteration]
    BY <1>8 DEF AfterExecute, AfterCheckpoint
  <2>2. ~ At("off") /\ saved' = saved
    BY <1>8 DEF AfterExecute, AfterCheckpoint
  <2>3. runner'.iteration = runner.iteration
    BY <1>8, <1>0 DEF AfterExecute, AfterCheckpoint, Shapes
  <2> QED
    BY <1>5, <1>8, <1>0, NextPc, <2>1, <2>2, <2>3
<1>9. CASE Claim \/ Dispatch \/ HandlerReturns \/ Finish
  <2>1. ~ At("off") /\ ~ At("counted") /\ rt' = rt /\ saved' = saved
    BY <1>9 DEF Claim, Dispatch, HandlerReturns, Finish, durable
  <2>2. runner'.iteration = runner.iteration
    <3>1. CASE Claim
      BY <3>1, <1>0 DEF Claim, Shapes
    <3>2. CASE Dispatch
      BY <3>2, <1>0 DEF Dispatch, Shapes
    <3>3. CASE HandlerReturns
      BY <3>3, <1>0 DEF HandlerReturns, Shapes
    <3>4. CASE Finish
      BY <3>4, <1>0 DEF Finish, Shapes
    <3> QED
      BY <1>9, <3>1, <3>2, <3>3, <3>4
  <2>3. runner'.pc # "counted"
    BY <1>9, <1>0, NextPc
  <2> QED
    BY <1>0, <2>1, <2>2, <2>3
<1>10. CASE SaveCheckpoint \/ SaveInterrupt
  <2>1. /\ At("save") \/ At("interrupted")
        /\ saved' = runner.iteration /\ rt' = rt
        /\ runner'.pc \in {"saved", "off"}
    BY <1>10, <1>0, NextPc DEF SaveCheckpoint, SaveInterrupt
  <2>2. runner'.iteration \in {runner.iteration, 0}
    BY <1>10, <1>0 DEF SaveCheckpoint, SaveInterrupt, Shapes
  <2>3. runner'.pc = "saved" => runner'.iteration = runner.iteration
    BY <1>10, <1>0 DEF SaveCheckpoint, SaveInterrupt, Shapes
  <2> QED
    BY <1>0, <2>1, <2>2, <2>3
<1>11. CASE Interrupt
  <2>1. ~ At("off") /\ saved' = saved
    BY <1>11 DEF Interrupt
  <2>2. CASE CanMove("interrupted")
    <3>1. rt' = [state |-> "interrupted", iteration |-> runner.iteration]
      BY <1>11, <2>2 DEF Interrupt
    <3>2. runner'.iteration = runner.iteration
      BY <1>11, <1>0, <2>2 DEF Interrupt, Shapes
    <3> QED
      BY <1>5, <1>11, <1>0, NextPc, <2>1, <3>1, <3>2
  <2>3. CASE ~ CanMove("interrupted")
    <3>1. rt' = rt /\ runner' = Off
      BY <1>11, <2>3 DEF Interrupt
    <3> QED
      BY <1>0, <2>1, <3>1
  <2> QED
    BY <2>2, <2>3
<1>12. CASE Operator
  <2>1. \E s \in {"paused", "stopped", "recovering", "idle"} :
           rt' = [state |-> s, iteration |-> rt.iteration]
    BY <1>12 DEF Operator, PauseRuntime, StopRuntime, RecoverBegin, RecoverEnd
  <2>2. At("off") /\ runner' = runner /\ saved' = saved
    BY <1>12 DEF Operator, PauseRuntime, StopRuntime, RecoverBegin, RecoverEnd
  <2> QED
    BY <1>0, <2>1, <2>2
<1>13. CASE MoveTask \/ UNCHANGED vars
  <2>1. UNCHANGED <<rt, runner, saved>>
    BY <1>13 DEF MoveTask, vars
  <2> QED
    BY <1>0, <2>1
<1> QED
  BY <1>1, <1>2, <1>3, <1>4, <1>6, <1>7, <1>8, <1>9, <1>10, <1>11, <1>12, <1>13
     DEF Next, LoopStep

(* The latest checkpoint is never ahead of the runtime row, so resuming from *)
(* the row does not repeat iterations a checkpoint has recorded.             *)
THEOREM CheckpointBehindRow == Spec => []CheckpointNotAhead
<1>1. Init => CounterInv
  BY ShapesInit DEF Init, CounterInv, CheckpointNotAhead, At, Off
<1>2. CounterInv => CheckpointNotAhead
  BY DEF CounterInv
<1> QED
  BY <1>1, <1>2, CounterStep, PTL DEF Spec
-----------------------------------------------------------------------------
Running == {t \in Tasks : task[t] = "running"}
Orphans == Running \ InHand

OrphansInv ==
    /\ Shapes
    /\ deaths \in Nat
    /\ OrphansPerDeath

(* A step adds no orphan unless the process dies in it, and then at most the *)
(* task the loop had in hand.                                                *)
LEMMA OrphansOfStep ==
    ASSUME Shapes, [Next]_vars
    PROVE  \/ Orphans' \subseteq Orphans /\ deaths' = deaths
           \/ /\ Orphans' \subseteq Orphans \cup {Head(runner.queue)}
              /\ deaths' = deaths + 1
<1>0. Shapes'
  BY ShapesStep
<1> USE DEF At, Goto
<1>1. ASSUME runner.pc \notin {"dispatch", "handler", "finish"},
             Running' \subseteq Running, deaths' = deaths
      PROVE  Orphans' \subseteq Orphans /\ deaths' = deaths
  BY <1>1 DEF Orphans, InHand
<1>2. CASE Start \/ ReachMax \/ StopSignal \/ CountIteration \/ EnterPolling \/ Refused
  <2>1. /\ runner.pc \notin {"dispatch", "handler", "finish"}
        /\ task' = task /\ deaths' = deaths
    BY <1>2 DEF Start, ReachMax, StopSignal, CountIteration, EnterPolling, Refused,
               durable
  <2> QED
    BY <1>1, <2>1 DEF Running
<1>3. CASE Poll \/ AfterExecute \/ SaveCheckpoint \/ AfterCheckpoint \/ SaveInterrupt
             \/ Operator
  <2>1. /\ runner.pc \notin {"dispatch", "handler", "finish"}
        /\ task' = task /\ deaths' = deaths
    BY <1>3 DEF Poll, AfterExecute, SaveCheckpoint, AfterCheckpoint, SaveInterrupt,
               Operator, PauseRuntime, StopRuntime, RecoverBegin, RecoverEnd
  <2> QED
    BY <1>1, <2>1 DEF Running
<1>4. CASE Claim
  <2>1. /\ At("claim") /\ deaths' = deaths
        /\ task' = [task EXCEPT ![Head(runner.queue)] = "running"]
    BY <1>4 DEF Claim
  <2>2. runner'.pc = "dispatch" /\ runner'.queue = runner.queue
    BY <1>4 DEF Claim, Shapes
  <2>3. InHand' = {Head(runner.queue)}
    BY <2>2 DEF InHand
  <2>4. Running' \subseteq Running \cup {Head(runner.queue)}
    BY <2>1 DEF Running, Shapes
  <2>5. InHand = {}
    BY <2>1 DEF InHand
  <2> QED
    BY <2>1, <2>3, <2>4, <2>5 DEF Orphans
<1>5. CASE Dispatch \/ HandlerReturns
  <2>1. runner.pc \in {"dispatch", "handler"} /\ task' = task /\ deaths' = deaths
    BY <1>5 DEF Dispatch, HandlerReturns, durable
  <2>2. runner'.pc \in {"handler", "finish"}
    BY <1>5, NextPc
  <2>3. runner'.queue = runner.queue
    BY <1>5 DEF Dispatch, HandlerReturns, Shapes
  <2> QED
    BY <2>1, <2>2, <2>3 DEF Orphans, Running, InHand
<1>6. CASE Finish
  <2>1. /\ At("finish") /\ deaths' = deaths
        /\ task' = [task EXCEPT ![Head(runner.queue)] = Outcome]
    BY <1>6 DEF Finish
  <2>2. Outcome # "running"
    BY DEF Outcome
  <2>3. Running' \subseteq Running \ {Head(runner.queue)}
    BY <2>1, <2>2 DEF Running, Shapes
  <2>4. InHand = {Head(runner.queue)}
    BY <2>1 DEF InHand
  <2> QED
    BY <2>1, <2>3, <2>4 DEF Orphans
<1>7. CASE Escape
  <2>1. task' = task /\ deaths' = deaths
    BY <1>7 DEF Escape, durable
  <2>2. Head(runner.queue) \notin Running \/ At("claim")
    BY <1>7, MovesOfTasks DEF Escape, Running, Outcome
  <2>3. InHand \subseteq {Head(runner.queue)} /\ (At("claim") => InHand = {})
    BY DEF InHand
  <2> QED
    BY <2>1, <2>2, <2>3 DEF Orphans, Running
<1>8. CASE Interrupt \/ Crash
  <2>1. task' = task /\ deaths' = deaths + 1
    BY <1>8 DEF Interrupt, Crash, durable
  <2>2. InHand \subseteq {Head(runner.queue)}
    BY DEF InHand
  <2> QED
    BY <2>1, <2>2 DEF Orphans, Running
<1>9. CASE MoveTask
  <2>1. PICK t \in Tasks, s \in TaskState \ {"running"} :
           task' = [task EXCEPT ![t] = s]
    BY <1>9 DEF MoveTask
  <2>2. runner' = runner /\ deaths' = deaths
    BY <1>9 DEF MoveTask
  <2>3. Running' \subseteq Running
    BY <2>1 DEF Running, Shapes
  <2> QED
    BY <2>2, <2>3 DEF Orphans, InHand
<1>10. CASE UNCHANGED vars
  BY <1>10 DEF vars, Orphans, Running, InHand
<1> QED
  BY <1>2, <1>3, <1>4, <1>5, <1>6, <1>7, <1>8, <1>9, <1>10 DEF Next, LoopStep

(* Every step keeps the count of orphans within the count of deaths. *)
LEMMA OrphansStep == OrphansInv /\ [Next]_vars => OrphansInv'
<1> SUFFICES ASSUME OrphansInv, [Next]_vars PROVE OrphansInv'
  OBVIOUS
<1>1. Shapes /\ Shapes' /\ deaths \in Nat /\ Cardinality(Orphans) <= deaths
  BY ShapesStep DEF OrphansInv, OrphansPerDeath, Orphans, Running
<1>2. IsFiniteSet(Orphans) /\ Cardinality(Orphans) \in Nat
  <2>1. Orphans \in SUBSET Tasks
    BY DEF Orphans, Running
  <2> QED
    BY <2>1, ConfigAssumption, FS_Subset, FS_CardinalityType
<1>3. CASE Orphans' \subseteq Orphans /\ deaths' = deaths
  <2>1. IsFiniteSet(Orphans') /\ Cardinality(Orphans') <= Cardinality(Orphans)
    BY <1>2, <1>3, FS_Subset
  <2>2. Cardinality(Orphans') \in Nat
    BY <2>1, FS_CardinalityType
  <2>3. Cardinality(Orphans') <= deaths'
    BY <1>1, <1>2, <1>3, <2>1, <2>2
  <2> QED
    BY <1>1, <1>3, <2>3 DEF OrphansInv, OrphansPerDeath, Orphans, Running
<1>4. CASE Orphans' \subseteq Orphans \cup {Head(runner.queue)} /\ deaths' = deaths + 1
  <2> DEFINE more == Orphans \cup {Head(runner.queue)}
  <2>1. /\ IsFiniteSet(more)
        /\ \/ Cardinality(more) = Cardinality(Orphans)
           \/ Cardinality(more) = Cardinality(Orphans) + 1
    <3>1. /\ IsFiniteSet(more)
          /\ Cardinality(more) = IF Head(runner.queue) \in Orphans
                THEN Cardinality(Orphans) ELSE Cardinality(Orphans) + 1
      BY <1>2, FS_AddElement, Zenon
    <3> QED
      BY <3>1
  <2>2. Cardinality(more) \in Nat
    BY <2>1, FS_CardinalityType
  <2>3. Orphans' \in SUBSET more
    BY <1>4
  <2> HIDE DEF more
  <2>4. IsFiniteSet(Orphans') /\ Cardinality(Orphans') <= Cardinality(more)
    BY <2>1, <2>3, FS_Subset
  <2>5. Cardinality(Orphans') \in Nat
    BY <2>4, FS_CardinalityType
  <2>6. Cardinality(Orphans') <= deaths' /\ deaths' \in Nat
    BY <1>1, <1>2, <1>4, <2>1, <2>2, <2>4, <2>5
  <2> QED
    BY <1>1, <2>6 DEF OrphansInv, OrphansPerDeath, Orphans, Running
<1> QED
  BY <1>1, <1>3, <1>4, OrphansOfStep

(* A crash or an interrupt leaves at most one task behind in running, however *)
(* many tasks were polled: the loop claims each just before its dispatch.     *)
THEOREM OrphansBounded == Spec => []OrphansPerDeath
<1>1. Init => OrphansInv
  <2> SUFFICES ASSUME Init PROVE OrphansInv
    OBVIOUS
  <2>1. {t \in Tasks : task[t] = "running"} \ InHand = {}
    BY DEF Init
  <2>2. Cardinality({t \in Tasks : task[t] = "running"} \ InHand) = 0
    BY <2>1, FS_EmptySet
  <2> QED
    BY <2>2, ShapesInit DEF Init, OrphansInv, OrphansPerDeath
<1>2. OrphansInv => OrphansPerDeath
  BY DEF OrphansInv
<1> QED
  BY <1>1, <1>2, OrphansStep, PTL DEF Spec

=============================================================================
