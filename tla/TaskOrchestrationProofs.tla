---------------------- MODULE TaskOrchestrationProofs -----------------------
(***************************************************************************)
(* Theorems about orchestration/service.py for any set of callers and any  *)
(* bounds.                                                                 *)
(***************************************************************************)
EXTENDS TaskOrchestration, FiniteSetTheorems, SequenceTheorems, TLAPS

(* Appending an event keeps the positions before it and adds one. *)
LEMMA AppendPositions ==
    ASSUME NEW S, NEW s \in Seq(S), NEW e \in S
    PROVE  /\ Append(s, e) \in Seq(S)
           /\ DOMAIN s = 1..Len(s)
           /\ DOMAIN Append(s, e) = 1..(Len(s) + 1)
           /\ Append(s, e)[Len(s) + 1] = e
           /\ \A i \in DOMAIN s : Append(s, e)[i] = s[i]
           /\ Len(s) \in Nat
           /\ Len(Append(s, e)) = Len(s) + 1
  BY AppendProperties, LenProperties

(* The permitted moves stay within the states. *)
LEMMA MovesAreStates ==
    ASSUME NEW old, NEW new, CanTransition(old, new)
    PROVE  old \in TaskState /\ new \in TaskState
  BY DEF CanTransition, TaskState, TaskMoves

-----------------------------------------------------------------------------
(* Type correctness: rows, events, dependencies and the locals of every call *)
(* keep their types, whichever callers run.                                  *)
THEOREM TypeCorrect == Spec => []TypeOK
<1>1. Init => TypeOK
  BY EmptySeq, LenProperties
     DEF Init, TypeOK, Call, Idle, TaskId, TaskState
<1>2. TypeOK /\ [Next]_vars => TypeOK'
  <2> SUFFICES ASSUME TypeOK, [Next]_vars PROVE TypeOK'
    OBVIOUS
  <2> USE DEF TypeOK, TaskId
  <2>0. Idle \in Call
    BY DEF Idle, Call, TaskState
  <2>1. ASSUME NEW c \in writers, CreateTask(c) PROVE TypeOK'
    <3> DEFINE row == [state |-> "pending", version |-> 1]
               event == [task |-> Len(tasks) + 1, old |-> NoState,
                         new |-> "pending", deps |-> {}, via |-> "create"]
    <3>1. Len(tasks) \in Nat
      BY LenProperties
    <3>2. row \in Row /\ event \in Event
      BY <3>1 DEF Row, Event, TaskState
    <3>3. tasks' = Append(tasks, row) /\ lineage' = Append(lineage, event)
      BY <2>1 DEF CreateTask
    <3> HIDE DEF row, event
    <3>4. tasks' \in Seq(Row) /\ DOMAIN tasks' = 1..(Len(tasks) + 1)
      BY <3>2, <3>3, AppendPositions
    <3>5. lineage' \in Seq(Event) /\ DOMAIN lineage' = 1..(Len(lineage) + 1)
      BY <3>2, <3>3, AppendPositions
    <3>6. TaskId \subseteq TaskId'
      BY <3>1, <3>4, LenProperties
    <3>7. \A i \in DOMAIN lineage' : lineage'[i].task \in TaskId'
      <4> TAKE i \in DOMAIN lineage'
      <4>1. CASE i \in DOMAIN lineage
        BY <4>1, <3>2, <3>3, <3>6, AppendPositions
      <4>2. CASE i = Len(lineage) + 1
        <5>1. lineage'[i] = event
          BY <4>2, <3>2, <3>3, AppendPositions
        <5> QED
          BY <5>1, <3>1, <3>4 DEF event
      <4> QED
        BY <4>1, <4>2, <3>5, LenProperties
    <3> QED
      BY <2>1, <3>4, <3>5, <3>6, <3>7 DEF CreateTask
  <2>2. ASSUME NEW c \in writers, NEW t \in TaskId, NEW d \in TaskId,
               AddDependency(c, t, d) PROVE TypeOK'
    BY <2>2 DEF AddDependency
  <2>3. ASSUME NEW c \in writers, NEW t \in TaskId, NEW s, NEW via,
               via \in {"transition", "unblock"}, ReadRow(c, t, s, via),
               UNCHANGED <<tasks, lineage, depends, writers>>
        PROVE TypeOK'
    <3>1. tasks[t] \in Row /\ s \in TaskState /\ t \in Nat
      BY <2>3, MovesAreStates, ElementOfSeq, LenProperties DEF ReadRow
    <3>2. [at |-> "snapshot", task |-> t, new |-> s, via |-> via,
           old |-> tasks[t].state, version |-> tasks[t].version,
           deps |-> {}] \in Call
      BY <2>3, <3>1 DEF Call, Row
    <3> QED
      BY <2>3, <3>2 DEF ReadRow
  <2>4. ASSUME NEW c \in writers, NEW t \in TaskId, NEW s \in TaskState,
               TransitionTask(c, t, s) PROVE TypeOK'
    BY <2>3, <2>4 DEF TransitionTask
  <2>5. ASSUME NEW c \in writers, NEW t \in TaskId, CheckBlocked(c, t) PROVE TypeOK'
    <3>0. t \in Nat
      BY LenProperties
    <3>1. [Idle EXCEPT !.at = "blocking", !.task = t] \in Call
      BY <2>0, <3>0 DEF Call
    <3> QED
      BY <2>5, <3>1 DEF CheckBlocked, Idle
  <2>6. ASSUME NEW c \in writers, CheckBlocking(c) PROVE TypeOK'
    <3>1. [call[c] EXCEPT !.at = "unblock"] \in Call
      BY ZenonT(40) DEF Call
    <3> QED
      BY <2>0, <2>6, <3>1 DEF CheckBlocking, Idle
  <2>7. ASSUME NEW c \in writers, Unblock(c) PROVE TypeOK'
    <3>1. call[c].task \in TaskId
      BY <2>7 DEF Unblock
    <3>2. CASE ReadRow(c, call[c].task, "ready", "unblock")
      BY <2>3, <2>7, <3>1, <3>2 DEF Unblock
    <3>3. CASE call' = [call EXCEPT ![c] = Idle]
      BY <2>0, <2>7, <3>3 DEF Unblock, Idle
    <3> QED
      BY <2>7, <3>2, <3>3 DEF Unblock
  <2>8. ASSUME NEW c \in writers, TakeSnapshot(c) PROVE TypeOK'
    <3>1. DepSnapshot(call[c].task) \subseteq Nat \ {0}
      BY LenProperties DEF DepSnapshot
    <3>2. [call[c] EXCEPT !.at = "commit", !.deps = DepSnapshot(call[c].task)] \in Call
      BY <3>1, ZenonT(40) DEF Call
    <3>3. call' = [call EXCEPT ![c] = [call[c] EXCEPT !.at = "commit",
                                        !.deps = DepSnapshot(call[c].task)]]
      BY <2>8 DEF TakeSnapshot
    <3>4. call[c].at # "idle" /\ UNCHANGED <<tasks, lineage, depends, writers>>
      BY <2>8 DEF TakeSnapshot
    <3>5. call' \in [Callers -> Call]
      BY <3>2, <3>3
    <3>6. \A e \in Callers : call'[e].at # "idle" => call'[e].task \in TaskId'
      BY <3>3, <3>4 DEF Call
    <3> QED
      BY <3>4, <3>5, <3>6
  <2>9. ASSUME NEW c \in writers, Commit(c) PROVE TypeOK'
    <3> DEFINE k == call[c]
               row == [state |-> k.new, version |-> k.version + 1]
               event == [task |-> k.task, old |-> k.old, new |-> k.new,
                         deps |-> k.deps, via |-> k.via]
    <3>1. k \in Call /\ k.task \in TaskId
      BY <2>9 DEF Commit
    <3>2. row \in Row /\ event \in Event
      BY <3>1, LenProperties DEF Call, Row, Event
    <3>3. /\ tasks' = [tasks EXCEPT ![k.task] = row]
          /\ lineage' = Append(lineage, event)
          /\ call' = [call EXCEPT ![c] = Idle]
          /\ UNCHANGED <<depends, writers>>
      BY <2>9 DEF Commit
    <3> HIDE DEF row
    <3>4. tasks' \in Seq(Row) /\ DOMAIN tasks' = DOMAIN tasks
      BY <3>1, <3>2, <3>3, ExceptSeq, LenProperties
    <3>5. \A i \in DOMAIN lineage' : lineage'[i].task \in TaskId'
      <4> HIDE DEF k
      <4> TAKE i \in DOMAIN lineage'
      <4>1. CASE i \in DOMAIN lineage
        BY <4>1, <3>2, <3>3, <3>4, AppendPositions
      <4>2. CASE i = Len(lineage) + 1
        BY <4>2, <3>1, <3>2, <3>3, <3>4, AppendPositions
      <4> QED
        BY <4>1, <4>2, <3>2, <3>3, AppendPositions
    <3>6. lineage' \in Seq(Event)
      BY <3>2, <3>3, AppendPositions
    <3> QED
      BY <2>0, <3>3, <3>4, <3>5, <3>6 DEF Idle
  <2>10. ASSUME NEW c \in writers, Crash(c) PROVE TypeOK'
    BY <2>0, <2>10 DEF Crash, Idle
  <2>11. CASE UNCHANGED vars
    BY <2>11 DEF vars
  <2> QED
    BY <2>1, <2>2, <2>4, <2>5, <2>6, <2>7, <2>8, <2>9, <2>10, <2>11
       DEF Next, CallerStep
<1> QED
  BY <1>1, <1>2, PTL DEF Spec

-----------------------------------------------------------------------------
(* The lineage after an append of event e, position by position. *)
LEMMA AppendedEvent ==
    ASSUME TypeOK, NEW e \in Event, lineage' = Append(lineage, e)
    PROVE  /\ Len(lineage) \in Nat
           /\ DOMAIN lineage = 1..Len(lineage)
           /\ DOMAIN lineage' = 1..(Len(lineage) + 1)
           /\ lineage'[Len(lineage) + 1] = e
           /\ \A i \in DOMAIN lineage : lineage'[i] = lineage[i]
  BY AppendPositions DEF TypeOK

(* What create_task and the transaction of transition_task write. *)
LEMMA CreateWrites ==
    ASSUME TypeOK, NEW c \in writers, CreateTask(c)
    PROVE  \E e \in Event :
             /\ e = [task |-> Len(tasks) + 1, old |-> NoState, new |-> "pending",
                     deps |-> {}, via |-> "create"]
             /\ lineage' = Append(lineage, e)
             /\ Len(tasks) + 1 \notin TaskId
             /\ TaskId' = TaskId \cup {Len(tasks) + 1}
             /\ tasks'[Len(tasks) + 1] = [state |-> "pending", version |-> 1]
             /\ \A t \in TaskId : tasks'[t] = tasks[t]
             /\ UNCHANGED <<depends, call, writers>>
<1> DEFINE row == [state |-> "pending", version |-> 1]
           e == [task |-> Len(tasks) + 1, old |-> NoState, new |-> "pending",
                 deps |-> {}, via |-> "create"]
<1>1. tasks \in Seq(Row) /\ Len(tasks) \in Nat
  BY LenProperties DEF TypeOK
<1>2. row \in Row /\ e \in Event
  BY <1>1 DEF Row, Event, TaskState
<1>3. tasks' = Append(tasks, row) /\ lineage' = Append(lineage, e)
      /\ UNCHANGED <<depends, call, writers>>
  BY DEF CreateTask
<1> HIDE DEF row
<1>4. /\ DOMAIN tasks = 1..Len(tasks)
      /\ DOMAIN tasks' = 1..(Len(tasks) + 1)
      /\ tasks'[Len(tasks) + 1] = row
      /\ \A t \in DOMAIN tasks : tasks'[t] = tasks[t]
  BY <1>1, <1>2, <1>3, AppendPositions
<1>5. TaskId' = TaskId \cup {Len(tasks) + 1} /\ Len(tasks) + 1 \notin TaskId
  BY <1>1, <1>4 DEF TaskId
<1> QED
  BY <1>2, <1>3, <1>4, <1>5 DEF TaskId, row

(* The commit of a transition writes the row and appends its event. *)
LEMMA CommitWrites ==
    ASSUME TypeOK, NEW c \in writers, Commit(c)
    PROVE  \E e \in Event :
             /\ e.task = call[c].task /\ e.old = call[c].old /\ e.new = call[c].new
             /\ e.deps = call[c].deps /\ e.via = call[c].via
             /\ lineage' = Append(lineage, e)
             /\ call[c] \in Call /\ call[c].at = "commit" /\ call[c].task \in TaskId
             /\ TaskId' = TaskId
             /\ tasks'[call[c].task].state = call[c].new
             /\ tasks'[call[c].task].version = call[c].version + 1
             /\ \A t \in TaskId : t # call[c].task => tasks'[t] = tasks[t]
             /\ call' = [call EXCEPT ![c] = Idle]
             /\ UNCHANGED <<depends, writers>>
<1> DEFINE k == call[c]
           e == [task |-> k.task, old |-> k.old, new |-> k.new,
                 deps |-> k.deps, via |-> k.via]
<1>1. k \in Call /\ k.at = "commit" /\ k.task \in TaskId
  BY DEF Commit, TypeOK
<1>2. k.task \in Nat \ {0}
  BY <1>1, LenProperties DEF TypeOK, TaskId
<1>3. e \in Event
  BY <1>1, <1>2 DEF Call, Event
<1>4. /\ tasks' = [tasks EXCEPT ![k.task] = [state |-> k.new,
                                            version |-> k.version + 1]]
      /\ lineage' = Append(lineage, e)
      /\ call' = [call EXCEPT ![c] = Idle]
      /\ UNCHANGED <<depends, writers>>
  BY DEF Commit
<1>5. tasks \in Seq(Row)
  BY DEF TypeOK
<1> QED
  BY <1>1, <1>3, <1>4, <1>5 DEF TaskId

(* No other step of any caller writes to the tables tasks and task_lineage. *)
LEMMA OtherStepsWriteNothing ==
    ASSUME [Next]_vars,
           \A c \in writers : ~ CreateTask(c) /\ ~ Commit(c)
    PROVE  UNCHANGED <<tasks, lineage, writers>>
  BY DEF Next, CallerStep, AddDependency, TransitionTask, CheckBlocked, CheckBlocking,
         Unblock, TakeSnapshot, Crash, vars

-----------------------------------------------------------------------------
(* For any callers and however they interleave: the state in every row is the *)
(* new_state of the task's last lineage event (the UPDATE and the INSERT of   *)
(* transition_task are one transaction).                                      *)
THEOREM LineageGivesState == Spec => []LineageEndsInState
<1>1. Init => LineageEndsInState
  BY DEF Init, LineageEndsInState, TaskId
<1>2. TypeOK /\ LineageEndsInState /\ [Next]_vars => LineageEndsInState'
  <2> SUFFICES ASSUME TypeOK, LineageEndsInState, [Next]_vars,
                      NEW t \in TaskId'
               PROVE  \E i \in DOMAIN lineage' :
                        /\ lineage'[i].task = t
                        /\ IsLast(i)'
                        /\ lineage'[i].new = tasks'[t].state
    BY DEF LineageEndsInState
  <2>1. ASSUME NEW e \in Event, lineage' = Append(lineage, e), e.task # t,
               t \in TaskId, tasks'[t] = tasks[t]
        PROVE  \E i \in DOMAIN lineage' :
                 lineage'[i].task = t /\ IsLast(i)' /\ lineage'[i].new = tasks'[t].state
    <3>1. PICK i \in DOMAIN lineage :
            lineage[i].task = t /\ IsLast(i) /\ lineage[i].new = tasks[t].state
      BY <2>1 DEF LineageEndsInState
    <3>2. IsLast(i)'
      BY <2>1, <3>1, AppendedEvent DEF IsLast
    <3> QED
      BY <2>1, <3>1, <3>2, AppendedEvent
  <2>2. ASSUME NEW e \in Event, lineage' = Append(lineage, e), e.task = t,
               tasks'[t].state = e.new
        PROVE  \E i \in DOMAIN lineage' :
                 lineage'[i].task = t /\ IsLast(i)' /\ lineage'[i].new = tasks'[t].state
    <3>1. PICK n \in Nat : n = Len(lineage) + 1
      BY <2>2, AppendedEvent
    <3>2. IsLast(n)'
      BY <2>2, <3>1, AppendedEvent DEF IsLast
    <3> QED
      BY <2>2, <3>1, <3>2, AppendedEvent
  <2>3. CASE \E c \in writers : CreateTask(c)
    BY <2>1, <2>2, <2>3, CreateWrites
  <2>4. CASE \E c \in writers : Commit(c)
    <3>1. PICK c \in writers : Commit(c)
      BY <2>4
    <3>2. PICK e \in Event :
            /\ e.task = call[c].task /\ e.new = call[c].new
            /\ lineage' = Append(lineage, e)
            /\ TaskId' = TaskId
            /\ tasks'[call[c].task].state = call[c].new
            /\ \A u \in TaskId : u # call[c].task => tasks'[u] = tasks[u]
      BY <3>1, CommitWrites
    <3>3. CASE t = call[c].task
      BY <2>2, <3>2, <3>3
    <3>4. CASE t # call[c].task
      BY <2>1, <3>2, <3>4
    <3> QED
      BY <3>3, <3>4
  <2>5. CASE \A c \in writers : ~ CreateTask(c) /\ ~ Commit(c)
    BY <2>5, OtherStepsWriteNothing DEF LineageEndsInState, IsLast, TaskId
  <2> QED
    BY <2>3, <2>4, <2>5
<1> QED
  BY <1>1, <1>2, TypeCorrect, PTL DEF Spec

-----------------------------------------------------------------------------
(* With a single writer nothing moves between the reads of a call and its      *)
(* transaction: what the call remembers is what the tables still hold.         *)
CallIsFresh == SingleWriter => \A c \in Callers :
    /\ c \notin writers => call[c].at = "idle"
    /\ call[c].at \in {"snapshot", "commit"} =>
         /\ call[c].old = tasks[call[c].task].state
         /\ call[c].version = tasks[call[c].task].version
         /\ CanTransition(call[c].old, call[c].new)
    /\ \/ call[c].at = "unblock"
       \/ call[c].at \in {"snapshot", "commit"} /\ call[c].via = "unblock"
       => BlockingDependencies(call[c].task) = {}
    /\ call[c].at = "commit" => call[c].deps = DepSnapshot(call[c].task)

Sound == TypeOK /\ LineageEndsInState

(* A call that is still fresh stays fresh, because in the meantime only its   *)
(* own caller can step.                                                       *)
LEMMA FreshStep == Sound /\ CallIsFresh /\ [Next]_vars => CallIsFresh'
<1> SUFFICES ASSUME Sound, CallIsFresh, [Next]_vars, SingleWriter'
             PROVE  CallIsFresh'
  BY DEF CallIsFresh
<1>0. UNCHANGED writers
  BY DEF Next, CallerStep, CreateTask, AddDependency, TransitionTask, CheckBlocked,
         CheckBlocking, Unblock, TakeSnapshot, Commit, Crash, vars
<1>1. SingleWriter /\ TypeOK
  BY <1>0 DEF SingleWriter, Sound
<1>2. \A c \in writers : \A d \in Callers : d # c => call[d].at = "idle"
  BY <1>1 DEF CallIsFresh, SingleWriter, TypeOK
<1>3. writers \subseteq Callers /\ call \in [Callers -> Call]
  BY <1>1 DEF TypeOK
<1>4. Idle.at = "idle"
  BY DEF Idle
<1>5. ASSUME NEW c \in writers, CreateTask(c) PROVE CallIsFresh'
  BY <1>0, <1>1, <1>2, <1>3, <1>5 DEF CallIsFresh, CreateTask
<1>6. ASSUME NEW c \in writers, NEW t \in TaskId, NEW d \in TaskId,
             AddDependency(c, t, d) PROVE CallIsFresh'
  BY <1>0, <1>2, <1>3, <1>6 DEF CallIsFresh, AddDependency
<1>7. ASSUME NEW c \in writers, NEW t \in TaskId, NEW s, NEW via,
             ReadRow(c, t, s, via), UNCHANGED <<tasks, lineage, depends>>,
             via = "unblock" => BlockingDependencies(t) = {}
      PROVE  CallIsFresh'
  <2>1. /\ call'[c].at = "snapshot" /\ call'[c].task = t /\ call'[c].new = s
        /\ call'[c].via = via /\ call'[c].old = tasks[t].state
        /\ call'[c].version = tasks[t].version
        /\ CanTransition(tasks[t].state, s)
        /\ \A d \in Callers : d # c => call'[d] = call[d]
    BY <1>3, <1>7 DEF ReadRow
  <2> QED
    BY <1>0, <1>2, <1>3, <1>7, <2>1
       DEF CallIsFresh, BlockingDependencies, DepSnapshot, TaskId
<1>8. ASSUME NEW c \in writers, NEW t \in TaskId, NEW s \in TaskState,
             TransitionTask(c, t, s) PROVE CallIsFresh'
  BY <1>7, <1>8 DEF TransitionTask
<1>9. ASSUME NEW c \in writers, UNCHANGED <<tasks, lineage, depends>>,
             call' = [call EXCEPT ![c] = Idle]
      PROVE  CallIsFresh'
  BY <1>0, <1>2, <1>3, <1>4, <1>9 DEF CallIsFresh
<1>10. ASSUME NEW c \in writers, NEW t \in TaskId, CheckBlocked(c, t)
       PROVE  CallIsFresh'
  <2>1. call'[c].at = "blocking" /\ \A d \in Callers : d # c => call'[d] = call[d]
    BY <1>3, <1>10 DEF CheckBlocked, Idle
  <2> QED
    BY <1>0, <1>2, <1>3, <2>1 DEF CallIsFresh
<1>11. ASSUME NEW c \in writers, CheckBlocking(c) PROVE CallIsFresh'
  <2>1. CASE BlockingDependencies(call[c].task) # {}
    BY <1>9, <1>11, <2>1 DEF CheckBlocking
  <2>2. CASE BlockingDependencies(call[c].task) = {}
    <3>1. /\ call'[c].at = "unblock" /\ call'[c].task = call[c].task
          /\ \A d \in Callers : d # c => call'[d] = call[d]
          /\ UNCHANGED <<tasks, lineage, depends>>
      BY <1>3, <1>11, <2>2 DEF CheckBlocking, Call
    <3> QED
      BY <1>0, <1>2, <1>3, <2>2, <3>1
         DEF CallIsFresh, BlockingDependencies, DepSnapshot, TaskId
  <2> QED
    BY <2>1, <2>2
<1>12. ASSUME NEW c \in writers, Unblock(c) PROVE CallIsFresh'
  <2>1. call[c].task \in TaskId /\ BlockingDependencies(call[c].task) = {}
    BY <1>1, <1>3, <1>12 DEF Unblock, TypeOK, CallIsFresh
  <2> QED
    BY <1>7, <1>9, <1>12, <2>1 DEF Unblock
<1>13. ASSUME NEW c \in writers, TakeSnapshot(c) PROVE CallIsFresh'
  <2>1. /\ call[c].at = "snapshot" /\ call'[c].at = "commit"
        /\ call'[c].task = call[c].task /\ call'[c].new = call[c].new
        /\ call'[c].via = call[c].via /\ call'[c].old = call[c].old
        /\ call'[c].version = call[c].version
        /\ call'[c].deps = DepSnapshot(call[c].task)
        /\ \A d \in Callers : d # c => call'[d] = call[d]
        /\ UNCHANGED <<tasks, lineage, depends>>
    BY <1>3, <1>13 DEF TakeSnapshot, Call
  <2> QED
    BY <1>0, <1>1, <1>2, <1>3, <2>1
       DEF CallIsFresh, BlockingDependencies, DepSnapshot, TaskId
<1>14. ASSUME NEW c \in writers, Commit(c) PROVE CallIsFresh'
  <2>1. call' = [call EXCEPT ![c] = Idle]
    BY <1>14 DEF Commit
  <2> QED
    BY <1>0, <1>2, <1>3, <1>4, <2>1 DEF CallIsFresh
<1>15. ASSUME NEW c \in writers, Crash(c) PROVE CallIsFresh'
  BY <1>9, <1>15 DEF Crash
<1>16. CASE UNCHANGED vars
  BY <1>1, <1>16 DEF vars, CallIsFresh, SingleWriter, BlockingDependencies,
                     DepSnapshot, TaskId
<1> QED
  BY <1>5, <1>6, <1>8, <1>10, <1>11, <1>12, <1>13, <1>14, <1>15, <1>16
     DEF Next, CallerStep

-----------------------------------------------------------------------------
(* The three ways a step can change the lineage, as facts about one event.    *)
(* Position n is the new one; events before it stay as they are.              *)
LEMMA StepOfLineage ==
    ASSUME Sound, CallIsFresh, SingleWriter, [Next]_vars
    PROVE  \/ UNCHANGED <<tasks, lineage>>
           \/ \E e \in Event :                              \* create_task
                /\ lineage' = Append(lineage, e)
                /\ e.old = NoState /\ e.via = "create" /\ e.deps = {}
                /\ e.task \notin TaskId /\ TaskId' = TaskId \cup {e.task}
                /\ tasks'[e.task].version = 1
                /\ \A t \in TaskId : tasks'[t] = tasks[t]
           \/ \E e \in Event :                              \* transition_task
                /\ lineage' = Append(lineage, e)
                /\ e.task \in TaskId /\ TaskId' = TaskId
                /\ e.old = tasks[e.task].state
                /\ CanTransition(e.old, e.new)
                /\ e.deps = DepSnapshot(e.task)
                /\ e.via = "unblock" => BlockingDependencies(e.task) = {}
                /\ tasks'[e.task].version = tasks[e.task].version + 1
                /\ \A t \in TaskId : t # e.task => tasks'[t] = tasks[t]
                /\ UNCHANGED depends
<1> USE DEF Sound
<1>1. CASE \E c \in writers : CreateTask(c)
  BY <1>1, CreateWrites
<1>2. CASE \E c \in writers : Commit(c)
  <2>1. PICK c \in writers : Commit(c)
    BY <1>2
  <2>2. /\ call[c].at = "commit" /\ call[c].task \in TaskId
        /\ call[c].old = tasks[call[c].task].state
        /\ call[c].version = tasks[call[c].task].version
        /\ CanTransition(call[c].old, call[c].new)
        /\ call[c].deps = DepSnapshot(call[c].task)
        /\ call[c].via = "unblock" => BlockingDependencies(call[c].task) = {}
    BY <2>1 DEF CallIsFresh, Commit, TypeOK
  <2>3. PICK e \in Event :
          /\ e.task = call[c].task /\ e.old = call[c].old /\ e.new = call[c].new
          /\ e.deps = call[c].deps /\ e.via = call[c].via
          /\ lineage' = Append(lineage, e)
          /\ TaskId' = TaskId
          /\ tasks'[call[c].task].version = call[c].version + 1
          /\ \A t \in TaskId : t # call[c].task => tasks'[t] = tasks[t]
          /\ UNCHANGED depends
    BY <2>1, CommitWrites
  <2> QED
    BY <2>2, <2>3
<1>3. CASE \A c \in writers : ~ CreateTask(c) /\ ~ Commit(c)
  BY <1>3, OtherStepsWriteNothing
<1> QED
  BY <1>1, <1>2, <1>3

(* The writers never change, and dependencies only grow. *)
LEMMA WritersFixed ==
    ASSUME [Next]_vars
    PROVE  writers' = writers /\ depends \subseteq depends'
  BY DEF Next, CallerStep, CreateTask, AddDependency, TransitionTask, CheckBlocked,
         CheckBlocking, Unblock, ReadRow, TakeSnapshot, Commit, Crash, vars

(* The last event of a task that some event follows is its predecessor.       *)
LEMMA NextAfterAppend ==
    ASSUME TypeOK, NEW e \in Event, lineage' = Append(lineage, e),
           NEW i \in DOMAIN lineage', NEW j \in DOMAIN lineage', NextEvent(i, j)'
    PROVE  \/ i \in DOMAIN lineage /\ j \in DOMAIN lineage /\ NextEvent(i, j)
           \/ /\ i \in DOMAIN lineage /\ j = Len(lineage) + 1
              /\ lineage[i].task = e.task /\ IsLast(i)
<1> USE AppendedEvent
<1>1. CASE j \in DOMAIN lineage
  BY <1>1 DEF NextEvent
<1>2. CASE j = Len(lineage) + 1
  BY <1>2 DEF NextEvent, IsLast
<1> QED
  BY <1>1, <1>2

(* Two last events of one task are one event.                                 *)
LEMMA LastIsUnique ==
    ASSUME TypeOK, NEW i \in DOMAIN lineage, NEW j \in DOMAIN lineage,
           IsLast(i), IsLast(j), lineage[i].task = lineage[j].task
    PROVE  i = j
  BY LenProperties DEF TypeOK, IsLast

-----------------------------------------------------------------------------
(* dependency_snapshot is never wrong for a single writer: an event's          *)
(* snapshot is within the table, and later snapshots of the task contain it.   *)
LEMMA SnapshotsStep ==
    Sound /\ CallIsFresh /\ SnapshotsGrow /\ [Next]_vars => SnapshotsGrow'
<1> SUFFICES ASSUME Sound, CallIsFresh, SnapshotsGrow, [Next]_vars, SingleWriter'
             PROVE  SnapshotsGrow'
  BY DEF SnapshotsGrow
<1>1. SingleWriter /\ depends \subseteq depends' /\ TypeOK
  BY WritersFixed DEF SingleWriter, Sound
<1>2. CASE UNCHANGED <<tasks, lineage>>
  BY <1>1, <1>2 DEF SnapshotsGrow, NextEvent
<1>3. ASSUME NEW e \in Event, lineage' = Append(lineage, e),
             e.deps \subseteq DepSnapshot(e.task),
             \A i \in DOMAIN lineage :
                lineage[i].task = e.task => lineage[i].deps \subseteq e.deps
      PROVE  SnapshotsGrow'
  <2>1. \A d \in e.deps : <<e.task, d>> \in depends
    BY <1>3 DEF DepSnapshot
  <2>2. ASSUME NEW i \in DOMAIN lineage', NEW d \in lineage'[i].deps
        PROVE  <<lineage'[i].task, d>> \in depends'
    BY <1>1, <1>3, <2>1, <2>2, AppendedEvent DEF SnapshotsGrow
  <2>3. ASSUME NEW i \in DOMAIN lineage', NEW j \in DOMAIN lineage', NextEvent(i, j)'
        PROVE  lineage'[i].deps \subseteq lineage'[j].deps
    <3>1. CASE i \in DOMAIN lineage /\ j \in DOMAIN lineage /\ NextEvent(i, j)
      BY <1>1, <1>3, <3>1, AppendedEvent DEF SnapshotsGrow
    <3>2. CASE /\ i \in DOMAIN lineage /\ j = Len(lineage) + 1
               /\ lineage[i].task = e.task
      BY <1>1, <1>3, <3>2, AppendedEvent
    <3> QED
      BY <1>1, <1>3, <2>3, <3>1, <3>2, NextAfterAppend
  <2> QED
    BY <2>2, <2>3 DEF SnapshotsGrow
<1>4. ASSUME NEW e \in Event, lineage' = Append(lineage, e), e.deps = {},
             e.task \notin TaskId
      PROVE  SnapshotsGrow'
  <2>1. \A i \in DOMAIN lineage : lineage[i].task # e.task
    BY <1>1, <1>4 DEF TypeOK
  <2> QED
    BY <1>3, <1>4, <2>1
<1>5. ASSUME NEW e \in Event, lineage' = Append(lineage, e),
             e.deps = DepSnapshot(e.task)
      PROVE  SnapshotsGrow'
  <2>1. ASSUME NEW i \in DOMAIN lineage, lineage[i].task = e.task
        PROVE  lineage[i].deps \subseteq e.deps
    BY <1>1, <1>5, <2>1 DEF SnapshotsGrow, DepSnapshot, TypeOK
  <2> QED
    BY <1>3, <1>5, <2>1
<1> QED
  BY <1>1, <1>2, <1>4, <1>5, StepOfLineage

(* What the lineage said before an event, it still says after an append.       *)
LEMMA StateBeforeStable ==
    ASSUME TypeOK, NEW e \in Event, lineage' = Append(lineage, e),
           NEW d, NEW i \in DOMAIN lineage, NEW s, StateBefore(d, i, s)
    PROVE  StateBefore(d, i, s)'
<1>1. \A k \in 1..(i - 1) : k \in DOMAIN lineage /\ lineage'[k] = lineage[k]
  BY AppendedEvent
<1>2. PICK j \in 1..(i - 1) :
        /\ lineage[j].task = d /\ lineage[j].new = s
        /\ \A k \in (j + 1)..(i - 1) : lineage[k].task # d
  BY DEF StateBefore
<1>3. \A k \in (j + 1)..(i - 1) : k \in 1..(i - 1)
  BY AppendedEvent
<1> QED
  BY <1>1, <1>2, <1>3 DEF StateBefore

(* check_and_unblock finds its dependencies completed, and they still are when *)
(* its transition commits.                                                     *)
LEMMA UnblockStep ==
    Sound /\ CallIsFresh /\ UnblockJustified /\ [Next]_vars => UnblockJustified'
<1> SUFFICES ASSUME Sound, CallIsFresh, UnblockJustified, [Next]_vars, SingleWriter',
                    NEW i \in DOMAIN lineage', lineage'[i].via = "unblock",
                    NEW d \in lineage'[i].deps
             PROVE  StateBefore(d, i, "completed")'
  BY DEF UnblockJustified
<1>1. SingleWriter /\ TypeOK
  BY WritersFixed DEF SingleWriter, Sound
<1>2. CASE UNCHANGED <<tasks, lineage>>
  BY <1>1, <1>2 DEF UnblockJustified, StateBefore
<1>3. ASSUME NEW e \in Event, lineage' = Append(lineage, e), i \in DOMAIN lineage
      PROVE  StateBefore(d, i, "completed")'
  BY <1>1, <1>3, AppendedEvent, StateBeforeStable DEF UnblockJustified
<1>4. ASSUME NEW e \in Event, lineage' = Append(lineage, e), i = Len(lineage) + 1,
             e.deps = DepSnapshot(e.task), BlockingDependencies(e.task) = {}
      PROVE  StateBefore(d, i, "completed")'
  <2>1. d \in TaskId /\ tasks[d].state = "completed"
    BY <1>1, <1>4, AppendedEvent DEF BlockingDependencies, DepSnapshot
  <2>2. PICK j \in DOMAIN lineage :
          lineage[j].task = d /\ IsLast(j) /\ lineage[j].new = "completed"
    BY <2>1 DEF Sound, LineageEndsInState
  <2>3. /\ j \in 1..(i - 1)
        /\ lineage'[j] = lineage[j]
        /\ \A k \in (j + 1)..(i - 1) : lineage'[k].task # d
    BY <1>1, <1>4, <2>2, AppendedEvent DEF IsLast
  <2> QED
    BY <2>2, <2>3 DEF StateBefore
<1>5. ASSUME NEW e \in Event, lineage' = Append(lineage, e)
      PROVE  i \in DOMAIN lineage \/ (i = Len(lineage) + 1 /\ e.via = "unblock")
  <2>1. i \in 1..(Len(lineage) + 1) /\ lineage'[Len(lineage) + 1] = e
    BY <1>1, <1>5, AppendedEvent
  <2>2. Len(lineage) \in Nat /\ DOMAIN lineage = 1..Len(lineage)
    BY <1>1, <1>5, AppendedEvent
  <2> QED
    BY <2>1, <2>2
<1> QED
  BY <1>1, <1>2, <1>3, <1>4, <1>5, StepOfLineage

(* Appending an event of task u changes the number of events of u alone.       *)
LEMMA CountAfterAppend ==
    ASSUME TypeOK, NEW e \in Event, lineage' = Append(lineage, e), NEW t
    PROVE  /\ Cardinality(EventsOf(t)) \in Nat
           /\ t = e.task => Cardinality(EventsOf(t)') = Cardinality(EventsOf(t)) + 1
           /\ t # e.task => EventsOf(t)' = EventsOf(t)
<1>1. IsFiniteSet(EventsOf(t))
  <2>1. IsFiniteSet(1..Len(lineage))
    BY AppendedEvent, FS_Interval
  <2> QED
    BY <2>1, AppendedEvent, FS_Subset DEF EventsOf
<1>2. ASSUME t = e.task
      PROVE  Cardinality(EventsOf(t)') = Cardinality(EventsOf(t)) + 1
  <2>1. EventsOf(t)' = EventsOf(t) \cup {Len(lineage) + 1}
    BY <1>2, AppendedEvent DEF EventsOf
  <2>2. Len(lineage) + 1 \notin EventsOf(t)
    BY AppendedEvent DEF EventsOf
  <2> QED
    BY <1>1, <2>1, <2>2, FS_AddElement
<1>3. t # e.task => EventsOf(t)' = EventsOf(t)
  BY AppendedEvent DEF EventsOf
<1> QED
  BY <1>1, <1>2, <1>3, FS_CardinalityType

(* The lineage of a single writer stays a chain of permitted moves.            *)
LEMMA ChainStep ==
    Sound /\ CallIsFresh /\ LineageIsChain /\ [Next]_vars => LineageIsChain'
<1> SUFFICES ASSUME Sound, CallIsFresh, LineageIsChain, [Next]_vars, SingleWriter'
             PROVE  LineageIsChain'
  BY DEF LineageIsChain
<1>1. SingleWriter /\ TypeOK
  BY WritersFixed DEF SingleWriter, Sound
<1>2. CASE UNCHANGED <<tasks, lineage>>
  BY <1>1, <1>2 DEF LineageIsChain, NextEvent, IsFirst, TaskId, EventsOf
<1>3. ASSUME NEW e \in Event, lineage' = Append(lineage, e)
      PROVE  \A i \in DOMAIN lineage : IsFirst(i)' <=> IsFirst(i)
  BY <1>1, <1>3, AppendedEvent DEF IsFirst
<1>4. ASSUME NEW e \in Event, lineage' = Append(lineage, e),
             e.old = NoState, e.task \notin TaskId,
             TaskId' = TaskId \cup {e.task}, tasks'[e.task].version = 1,
             \A t \in TaskId : tasks'[t] = tasks[t]
      PROVE  LineageIsChain'
  <2>1. \A i \in DOMAIN lineage : lineage[i].task # e.task
    BY <1>1, <1>4 DEF TypeOK
  <2>2. \A i \in DOMAIN lineage' : IsFirst(i)' <=> lineage'[i].old = NoState
    <3> TAKE i \in DOMAIN lineage'
    <3>1. CASE i \in DOMAIN lineage
      BY <1>1, <1>3, <1>4, <3>1, AppendedEvent DEF LineageIsChain
    <3>2. CASE i = Len(lineage) + 1
      BY <1>1, <1>4, <2>1, <3>2, AppendedEvent DEF IsFirst
    <3> QED
      BY <1>1, <1>4, <3>1, <3>2, AppendedEvent
  <2>3. ASSUME NEW i \in DOMAIN lineage', NEW j \in DOMAIN lineage', NextEvent(i, j)'
        PROVE  lineage'[j].old = lineage'[i].new
               /\ CanTransition(lineage'[j].old, lineage'[j].new)
    <3>1. i \in DOMAIN lineage /\ j \in DOMAIN lineage /\ NextEvent(i, j)
      BY <1>1, <1>4, <2>1, <2>3, NextAfterAppend
    <3> QED
      BY <1>1, <1>4, <3>1, AppendedEvent DEF LineageIsChain
  <2>4. ASSUME NEW t \in TaskId'
        PROVE  tasks'[t].version = Cardinality(EventsOf(t)')
    <3>1. CASE t \in TaskId
      BY <1>1, <1>4, <3>1, CountAfterAppend DEF LineageIsChain
    <3>2. CASE t = e.task
      <4>1. EventsOf(t) = {}
        BY <2>1, <3>2 DEF EventsOf
      <4>2. Cardinality(EventsOf(t)) = 0
        BY <4>1, FS_EmptySet
      <4>3. Cardinality(EventsOf(t)') = Cardinality(EventsOf(t)) + 1
        BY <1>1, <1>4, <3>2, CountAfterAppend
      <4> QED
        BY <1>4, <3>2, <4>2, <4>3
    <3> QED
      BY <1>4, <3>1, <3>2
  <2> QED
    BY <2>2, <2>3, <2>4 DEF LineageIsChain
<1>5. ASSUME NEW e \in Event, lineage' = Append(lineage, e),
             e.task \in TaskId, TaskId' = TaskId,
             e.old = tasks[e.task].state, CanTransition(e.old, e.new),
             tasks'[e.task].version = tasks[e.task].version + 1,
             \A t \in TaskId : t # e.task => tasks'[t] = tasks[t]
      PROVE  LineageIsChain'
  <2>1. PICK last \in DOMAIN lineage :
          /\ lineage[last].task = e.task /\ IsLast(last) /\ lineage[last].new = e.old
    BY <1>5 DEF Sound, LineageEndsInState
  <2>2. e.old # NoState
    BY <1>5 DEF CanTransition, TaskState, NoState
  <2>3. \A i \in DOMAIN lineage' : IsFirst(i)' <=> lineage'[i].old = NoState
    <3> TAKE i \in DOMAIN lineage'
    <3>1. CASE i \in DOMAIN lineage
      BY <1>1, <1>3, <1>5, <3>1, AppendedEvent DEF LineageIsChain
    <3>2. CASE i = Len(lineage) + 1
      BY <1>1, <1>5, <2>1, <2>2, <3>2, AppendedEvent DEF IsFirst
    <3> QED
      BY <1>1, <1>5, <3>1, <3>2, AppendedEvent
  <2>4. ASSUME NEW i \in DOMAIN lineage', NEW j \in DOMAIN lineage', NextEvent(i, j)'
        PROVE  lineage'[j].old = lineage'[i].new
               /\ CanTransition(lineage'[j].old, lineage'[j].new)
    <3>1. CASE i \in DOMAIN lineage /\ j \in DOMAIN lineage /\ NextEvent(i, j)
      BY <1>1, <1>5, <3>1, AppendedEvent DEF LineageIsChain
    <3>2. CASE /\ i \in DOMAIN lineage /\ j = Len(lineage) + 1
               /\ lineage[i].task = e.task /\ IsLast(i)
      <4>1. i = last
        BY <1>1, <2>1, <3>2, LastIsUnique
      <4> QED
        BY <1>1, <1>5, <2>1, <3>2, <4>1, AppendedEvent
    <3> QED
      BY <1>1, <1>5, <2>4, <3>1, <3>2, NextAfterAppend
  <2>5. ASSUME NEW t \in TaskId'
        PROVE  tasks'[t].version = Cardinality(EventsOf(t)')
    <3>1. CASE t # e.task
      BY <1>1, <1>5, <3>1, CountAfterAppend DEF LineageIsChain
    <3>2. CASE t = e.task
      BY <1>1, <1>5, <3>2, CountAfterAppend DEF LineageIsChain
    <3> QED
      BY <3>1, <3>2
  <2> QED
    BY <2>3, <2>4, <2>5 DEF LineageIsChain
<1> QED
  BY <1>1, <1>2, <1>4, <1>5, StepOfLineage

-----------------------------------------------------------------------------
(* The strengthened invariant of a single writer. *)
SingleInv == CallIsFresh /\ LineageIsChain /\ UnblockJustified /\ SnapshotsGrow

(* What a single writer keeps holds throughout. *)
LEMMA SingleInvInductive == Spec => []SingleInv
<1>1. Init => SingleInv
  <2> SUFFICES ASSUME Init PROVE SingleInv
    OBVIOUS
  <2>1. lineage = <<>> /\ TaskId = {} /\ \A c \in Callers : call[c].at = "idle"
    BY DEF Init, TaskId, Idle
  <2> QED
    BY <2>1 DEF SingleInv, CallIsFresh, LineageIsChain, UnblockJustified, SnapshotsGrow
<1>2. Sound /\ SingleInv /\ [Next]_vars => SingleInv'
  BY FreshStep, ChainStep, UnblockStep, SnapshotsStep DEF SingleInv
<1>3. Spec => []Sound
  BY TypeCorrect, LineageGivesState, PTL DEF Sound
<1> QED
  BY <1>1, <1>2, <1>3, PTL DEF Spec

(* For every single-writer deployment, any number of tasks and transitions:    *)
(* replay_state_history of a task is one chain of permitted moves from its     *)
(* creation, as long as its version.                                           *)
THEOREM LineageChains == Spec => []LineageIsChain
  BY SingleInvInductive, PTL DEF SingleInv

(* For every single-writer deployment: check_and_unblock releases a task only  *)
(* when the lineage shows all the dependencies of its snapshot completed.      *)
THEOREM UnblockIsJustified == Spec => []UnblockJustified
  BY SingleInvInductive, PTL DEF SingleInv

(* For every single-writer deployment: dependency snapshots only grow.         *)
THEOREM SnapshotsOnlyGrow == Spec => []SnapshotsGrow
  BY SingleInvInductive, PTL DEF SingleInv

=============================================================================
