------------------------- MODULE RuntimeSupervisor --------------------------
(***************************************************************************)
(* runtime/: the supervised loop of run_iterations over the orchestration  *)
(* tasks, with handlers that may move tasks themselves, KeyboardInterrupt, *)
(* process crashes, and the operator's pause, stop and recover commands.   *)
(*                                                                         *)
(* One process at a time uses the databases: operator commands run while   *)
(* no loop does.  Every position of the loop at which durable state can    *)
(* differ after a crash is a value of runner.pc.                           *)
(***************************************************************************)
EXTENDS Naturals, Sequences, FiniteSets, TaskStates

CONSTANTS
    Tasks,            \* task ids, numbered in polling order (priority, id)
    NoHandler,        \* tasks whose type has no registered handler
    MaxIterations,    \* config.max_iterations
    CheckpointEvery,  \* config.checkpoint_every
    PollLimit,        \* LIMIT of list_tasks (50 in the code)
    MaxDeaths,        \* bound: crashes and interrupts
    MaxMoves          \* bound: task moves made by handlers or the operator,
                      \* should_stop signals and unneeded operator commands

ASSUME ConfigAssumption ==
    /\ Tasks \subseteq Nat /\ IsFiniteSet(Tasks) /\ NoHandler \subseteq Tasks
    /\ MaxIterations \in Nat /\ CheckpointEvery \in Nat \ {0}
    /\ PollLimit \in Nat \ {0} /\ MaxDeaths \in Nat /\ MaxMoves \in Nat

VARIABLES
    rt,      \* the runtimes row: state and current_iteration
    saved,   \* iteration of the latest checkpoint (0: none)
    task,    \* state of every task in the orchestration database
    runner,  \* the loop's position and locals, lost in a crash
    runs,    \* ghost: handler runs since the task last became ready
    escaped, \* ghost: execute_task raised through run_iterations
    deaths, moves

durable == <<rt, saved, task>>
vars == <<rt, saved, task, runner, runs, escaped, deaths, moves>>

RuntimeState == {"initialized", "idle", "polling", "executing", "checkpointing",
                 "paused", "interrupted", "recovering", "failed", "stopped"}

\* VALID_RUNTIME_TRANSITIONS
RuntimeMoves ==
    [initialized   |-> {"idle", "stopped"},
     idle          |-> {"polling", "paused", "stopped", "interrupted"},
     polling       |-> {"executing", "idle", "checkpointing", "interrupted",
                        "paused", "stopped"},
     executing     |-> {"polling", "checkpointing", "idle", "interrupted", "paused"},
     checkpointing |-> {"idle", "polling", "interrupted", "paused"},
     paused        |-> {"idle", "recovering", "stopped"},
     interrupted   |-> {"recovering", "stopped"},
     recovering    |-> {"idle", "failed"},
     failed        |-> {"recovering", "stopped"},
     stopped       |-> {}]

\* validate_runtime_transition
CanMove(new) == new \in RuntimeMoves[rt.state]

\* transition_runtime: state and iteration of the row, with its lineage event
Enter(new, iteration) ==
    /\ CanMove(new)
    /\ rt' = [state |-> new, iteration |-> iteration]

Off == [pc |-> "off", iteration |-> 0, queue |-> <<>>, ok |-> FALSE]

At(pc) == runner.pc = pc
Goto(pc) == runner' = [runner EXCEPT !.pc = pc]

\* mutant: LIMIT applies before the filter on the state
PolledAfterLimit ==
    LET first == {t \in Tasks : Cardinality({u \in Tasks : u <= t}) <= PollLimit}
        ready == {t \in first : task[t] = "ready"}
    IN  [i \in 1..Cardinality(ready) |->
            CHOOSE t \in ready : Cardinality({u \in ready : u <= t}) = i]

\* poll_ready_tasks: the first PollLimit ready tasks, in polling order
Polled ==
    LET ready == {t \in Tasks : task[t] = "ready"}
        rank(t) == Cardinality({u \in ready : u <= t})
        n == IF Cardinality(ready) < PollLimit THEN Cardinality(ready) ELSE PollLimit
    IN  [i \in 1..n |-> CHOOSE t \in ready : rank(t) = i]

Init ==
    /\ rt = [state |-> "initialized", iteration |-> 0]
    /\ saved = 0
    /\ task \in [Tasks -> {"ready", "failed"}]
    /\ runner = Off
    /\ runs = [t \in Tasks |-> 0]
    /\ escaped = FALSE
    /\ deaths = 0
    /\ moves = 0

-----------------------------------------------------------------------------
(* run_iterations, outside its try block *)

Start ==
    /\ At("off")
    /\ IF rt.state = "paused" THEN Enter("idle", rt.iteration)
       ELSE IF rt.state = "initialized" THEN Enter("idle", 0)
       ELSE rt' = rt
    /\ runner' = [Off EXCEPT !.pc = "loop", !.iteration = rt'.iteration]
    /\ UNCHANGED <<saved, task, runs, escaped, deaths, moves>>

-----------------------------------------------------------------------------
(* the loop *)

\* max_iterations reached: pause and return
ReachMax ==
    /\ At("loop")
    /\ runner.iteration >= MaxIterations
    /\ Enter("paused", runner.iteration)
    /\ runner' = Off
    /\ UNCHANGED <<saved, task, runs, escaped, deaths, moves>>

\* should_stop fired: pause and return
StopSignal ==
    /\ At("loop")
    /\ runner.iteration < MaxIterations
    /\ moves < MaxMoves
    /\ moves' = moves + 1
    /\ Enter("paused", runner.iteration)
    /\ runner' = Off
    /\ UNCHANGED <<saved, task, runs, escaped, deaths>>

CountIteration ==
    /\ At("loop")
    /\ runner.iteration < MaxIterations
    /\ runner' = [runner EXCEPT !.pc = "counted", !.iteration = @ + 1]
    /\ UNCHANGED <<durable, runs, escaped, deaths, moves>>

EnterPolling ==
    /\ At("counted")
    /\ Enter("polling", runner.iteration)
    /\ Goto("poll")
    /\ UNCHANGED <<saved, task, runs, escaped, deaths, moves>>

\* the first transition of a loop started in a state that does not permit it
\* raises TransitionError out of run_iterations
Refused ==
    /\ \/ At("loop") /\ runner.iteration >= MaxIterations /\ ~ CanMove("paused")
       \/ At("counted") /\ ~ CanMove("polling")
    /\ runner' = Off
    /\ UNCHANGED <<durable, runs, escaped, deaths, moves>>

\* mutant: every polled task is claimed at once
PollAndClaim ==
    /\ At("poll")
    /\ IF Polled = <<>>
       THEN Enter("idle", runner.iteration) /\ Goto("loop") /\ UNCHANGED task
       ELSE /\ Enter("executing", runner.iteration)
            /\ runner' = [runner EXCEPT !.pc = "dispatch", !.queue = Polled]
            /\ task' = [t \in Tasks |-> IF \E i \in DOMAIN Polled : Polled[i] = t
                                       THEN "running" ELSE task[t]]
    /\ UNCHANGED <<saved, runs, escaped, deaths, moves>>

\* poll, then idle when nothing is ready, executing otherwise
Poll ==
    /\ At("poll")
    /\ IF Polled = <<>>
       THEN Enter("idle", runner.iteration) /\ Goto("loop")
       ELSE /\ Enter("executing", runner.iteration)
            /\ runner' = [runner EXCEPT !.pc = "claim", !.queue = Polled]
    /\ UNCHANGED <<saved, task, runs, escaped, deaths, moves>>

\* mutant: running is not committed before the handler runs
ClaimInMemory ==
    /\ At("claim")
    /\ task[Head(runner.queue)] = "ready"
    /\ Goto("dispatch")
    /\ UNCHANGED <<durable, runs, escaped, deaths, moves>>

\* execute_task: ready -> running, committed before the handler runs
Claim ==
    /\ At("claim")
    /\ task[Head(runner.queue)] = "ready"
    /\ task' = [task EXCEPT ![Head(runner.queue)] = "running"]
    /\ Goto("dispatch")
    /\ UNCHANGED <<rt, saved, runs, escaped, deaths, moves>>

\* the handler starts, or there is none and the task will fail
Dispatch ==
    LET t == Head(runner.queue) IN
    /\ At("dispatch")
    /\ IF t \in NoHandler
       THEN /\ runner' = [runner EXCEPT !.pc = "finish", !.ok = FALSE]
            /\ UNCHANGED runs
       ELSE /\ Goto("handler")
            /\ runs' = [runs EXCEPT ![t] = @ + 1]
    /\ UNCHANGED <<durable, escaped, deaths, moves>>

\* execute_handler: the handler returned or raised an Exception
HandlerReturns ==
    /\ At("handler")
    /\ \E ok \in BOOLEAN : runner' = [runner EXCEPT !.pc = "finish", !.ok = ok]
    /\ UNCHANGED <<durable, runs, escaped, deaths, moves>>

Outcome == IF runner.ok THEN "completed" ELSE "failed"

\* execute_task: running -> completed or failed; the next polled task follows
Finish ==
    LET t == Head(runner.queue) IN
    /\ At("finish")
    /\ CanTransition(task[t], Outcome)
    /\ task' = [task EXCEPT ![t] = Outcome]
    /\ runner' = [runner EXCEPT !.pc = IF Len(runner.queue) = 1 THEN "after" ELSE "claim",
                                !.queue = Tail(@)]
    /\ UNCHANGED <<rt, saved, runs, escaped, deaths, moves>>

\* transition_task of execute_task raises TransitionError: a handler moved the
\* task after it was polled.  Nothing in run_iterations catches it.
Escape ==
    /\ \/ At("claim") /\ task[Head(runner.queue)] # "ready"
       \/ At("finish") /\ ~ CanTransition(task[Head(runner.queue)], Outcome)
    /\ escaped' = TRUE
    /\ runner' = Off
    /\ UNCHANGED <<durable, runs, deaths, moves>>

\* every CheckpointEvery iterations enter checkpointing, otherwise idle
AfterExecute ==
    /\ At("after")
    /\ IF runner.iteration % CheckpointEvery = 0
       THEN Enter("checkpointing", runner.iteration) /\ Goto("save")
       ELSE Enter("idle", runner.iteration) /\ Goto("loop")
    /\ UNCHANGED <<saved, task, runs, escaped, deaths, moves>>

SaveCheckpoint ==
    /\ At("save")
    /\ saved' = runner.iteration
    /\ Goto("saved")
    /\ UNCHANGED <<rt, task, runs, escaped, deaths, moves>>

AfterCheckpoint ==
    /\ At("saved")
    /\ Enter("idle", runner.iteration)
    /\ Goto("loop")
    /\ UNCHANGED <<saved, task, runs, escaped, deaths, moves>>

-----------------------------------------------------------------------------
(* interrupts and crashes *)

\* KeyboardInterrupt anywhere in the loop, handlers included.  The transition
\* inside the except clause may itself raise.
Interrupt ==
    /\ ~ At("off") /\ ~ At("interrupted")
    /\ deaths < MaxDeaths
    /\ deaths' = deaths + 1
    /\ IF CanMove("interrupted")
       THEN Enter("interrupted", runner.iteration) /\ Goto("interrupted")
       ELSE rt' = rt /\ runner' = Off
    /\ UNCHANGED <<saved, task, runs, escaped, moves>>

SaveInterrupt ==
    /\ At("interrupted")
    /\ saved' = runner.iteration
    /\ runner' = Off
    /\ UNCHANGED <<rt, task, runs, escaped, deaths, moves>>

Crash ==
    /\ ~ At("off")
    /\ deaths < MaxDeaths
    /\ deaths' = deaths + 1
    /\ runner' = Off
    /\ UNCHANGED <<durable, runs, escaped, moves>>

-----------------------------------------------------------------------------
(* the operator, and handler code that calls transition_task *)

\* commands the recovery procedure does not call for count as moves
Spontaneous(needed) ==
    IF rt.state \in needed THEN UNCHANGED moves
    ELSE moves < MaxMoves /\ moves' = moves + 1

PauseRuntime ==
    /\ At("off")
    /\ Enter("paused", rt.iteration)
    /\ Spontaneous({"polling"})
    /\ UNCHANGED <<saved, task, runner, runs, escaped, deaths>>

StopRuntime ==
    /\ At("off")
    /\ Enter("stopped", rt.iteration)
    /\ UNCHANGED <<saved, task, runner, runs, escaped, deaths, moves>>

\* recover_runtime: two transactions; a second call finishes what a first began
RecoverBegin ==
    /\ At("off")
    /\ Enter("recovering", rt.iteration)
    /\ Spontaneous({"interrupted", "failed"})
    /\ UNCHANGED <<saved, task, runner, runs, escaped, deaths>>

\* mutant: recovery starts counting from zero
RecoverFromZero ==
    /\ At("off")
    /\ rt.state = "recovering"
    /\ Enter("idle", 0)
    /\ UNCHANGED <<saved, task, runner, runs, escaped, deaths, moves>>

RecoverEnd ==
    /\ At("off")
    /\ rt.state = "recovering"
    /\ Enter("idle", rt.iteration)
    /\ UNCHANGED <<saved, task, runner, runs, escaped, deaths, moves>>

\* transition_task called by anyone but the loop.  Only the loop uses running.
MoveTask ==
    /\ At("off") \/ At("handler")
    /\ moves < MaxMoves
    /\ moves' = moves + 1
    /\ \E t \in Tasks, s \in TaskState \ {"running"} :
         /\ CanTransition(task[t], s)
         /\ task' = [task EXCEPT ![t] = s]
         /\ runs' = IF s = "ready" THEN [runs EXCEPT ![t] = 0] ELSE runs
    /\ UNCHANGED <<rt, saved, runner, escaped, deaths>>

-----------------------------------------------------------------------------
LoopStep ==
    \/ ReachMax \/ CountIteration \/ EnterPolling \/ Refused \/ Poll
    \/ Claim \/ Dispatch \/ HandlerReturns \/ Finish \/ Escape
    \/ AfterExecute \/ SaveCheckpoint \/ AfterCheckpoint \/ SaveInterrupt

Operator == PauseRuntime \/ StopRuntime \/ RecoverBegin \/ RecoverEnd

Next == Start \/ LoopStep \/ StopSignal \/ Interrupt \/ Crash \/ Operator \/ MoveTask

Spec == Init /\ [][Next]_vars

\* The loop is synchronous code that runs on; the operator restarts it, pauses
\* a runtime left in polling and recovers an interrupted one.
Fairness ==
    /\ WF_vars(LoopStep)
    /\ SF_vars(Start)
    /\ SF_vars(rt.state = "polling" /\ PauseRuntime)
    /\ SF_vars(rt.state \in {"interrupted", "failed"} /\ RecoverBegin)
    /\ SF_vars(RecoverEnd)

FairSpec == Spec /\ Fairness

-----------------------------------------------------------------------------
\* Types, and: an idle runner is blank; a loop past its first poll works on a
\* non-empty queue of distinct tasks.
TypeOK ==
    /\ rt \in [state : RuntimeState, iteration : 0..MaxIterations]
    /\ saved \in 0..MaxIterations
    /\ task \in [Tasks -> TaskState]
    /\ runner \in [pc : {"off", "loop", "counted", "poll", "claim", "dispatch",
                         "handler", "finish", "after", "save", "saved", "interrupted"},
                   iteration : 0..MaxIterations, queue : Seq(Tasks), ok : BOOLEAN]
    /\ runs \in [Tasks -> Nat]
    /\ escaped \in BOOLEAN
    /\ deaths \in 0..MaxDeaths
    /\ moves \in 0..MaxMoves
    /\ runner.pc \in {"claim", "dispatch", "handler", "finish"} => runner.queue # <<>>

\* Each time a task becomes ready its handler runs at most once, whatever
\* crashes, interrupts and resumes happen: execute_task commits running first.
HandlerRunsOnce == \A t \in Tasks : runs[t] <= 1

\* A checkpoint never claims more iterations than the runtime row, so resuming
\* from either does not go back: pause, recover and resume keep the iteration.
CheckpointNotAhead == saved <= rt.iteration

InHand == IF runner.pc \in {"dispatch", "handler", "finish"}
          THEN {Head(runner.queue)} ELSE {}

\* A crash or an interrupt leaves at most one task behind in running: the loop
\* claims a polled task only when it is about to dispatch it.
OrphansPerDeath ==
    Cardinality({t \in Tasks : task[t] = "running"} \ InHand) <= deaths

\* Iterations that may pass before a ready task's turn: one for every full batch
\* of the others, one lost with each death, one for each move (it can abort a
\* batch or put another task ahead).
IterationsToTurn == (Cardinality(Tasks) \div PollLimit) + 1 + MaxDeaths + MaxMoves

\* A ready task is picked up, or moved by somebody, while max_iterations leaves
\* room for its turn, unless the runtime was stopped.
ReadyIsPickedUp ==
    \A t \in Tasks :
        (task[t] = "ready" /\ rt.iteration + IterationsToTurn <= MaxIterations)
            ~> (task[t] # "ready" \/ rt.state = "stopped")

\* docs/RUNTIME_HANDLER_DISPATCH_ARCHITECTURE.md: "A single bad handler must not
\* abort the loop or corrupt runtime state."
HandlerNeverAbortsLoop == ~ escaped

=============================================================================
