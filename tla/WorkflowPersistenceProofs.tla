----------------------- MODULE WorkflowPersistenceProofs -----------------------
(***************************************************************************)
(* What WorkflowPersistence keeps through every crash, restart, snapshot   *)
(* and recovery, for any plans, any snapshot policy and any number of      *)
(* crashes, and that the stored lineage implements WorkflowContract.       *)
(***************************************************************************)
EXTENDS WorkflowPersistence, WorkflowExecutionProofs

(* Before the first event is stored, only initialize_execution has run: its *)
(* row may be there, its event may be on its way.                          *)
Unborn ==
    log = <<>> =>
        /\ snap = <<>>
        /\ row \in {<<>>, <<Initialized(plan)>>}
        /\ pc \in {"off", "persist", "append"}
        /\ pc # "off" => mem = <<Initialized(plan)>> /\ batch = <<InitEvent>>
        /\ pc = "persist" => row = <<>>
        /\ pc = "append" => row # <<>>

(* A stored lineage begins with the first event of initialize_execution, every *)
(* event continues what is before it, and it replays to an execution the   *)
(* executor can go on with.                                                *)
Lineage(l, p) ==
    /\ l[1] = InitEvent
    /\ Continues(Blank(p), l)
    /\ Sane(Applied(Blank(p), l), p)

Stored ==
    /\ log \in Seq(Event)
    /\ log # <<>> => row # <<>> /\ Lineage(log, plan)

(* A process holds the truth, and between a call of the executor and its first *)
(* commit the execution to which the next events will take the truth.      *)
Working ==
    log # <<>> =>
        /\ pc \in {"off", "idle", "persist", "save", "policy"}
        /\ pc \in {"idle", "save", "policy"} => mem = <<Truth>>
        /\ pc = "persist" => /\ mem = <<Exec>>
                             /\ Follows(Truth, batch, Exec, plan)
                             /\ Sane(Exec, plan)
                             /\ Promised(Truth, Exec, plan)

(* The events after a snapshot take it to the truth. *)
SnapshotOf(s, l, p) ==
    /\ s.upto \in 0..Len(l)
    /\ Follows(s.exec, SubSeq(l, s.upto + 1, Len(l)), Replayed(l, p), p)
    /\ s.exec \in Execution(p)

Snapshotted == snap # <<>> => SnapshotOf(snap[1], log, plan)

(* The inductive invariant.  Where the processes of the code agree with the *)
(* lineage is RowNeverAhead for the row, Working for the memory, and       *)
(* Snapshotted for the snapshot; Unborn is the window of a new execution.  *)
IInv ==
    /\ plan \in Plans
    /\ Unborn
    /\ Stored
    /\ Working
    /\ Snapshotted
    /\ RowNeverAhead

-----------------------------------------------------------------------------
(* Sequences: the delta grows with the lineage, and prefixes stay.         *)
LEMMA DeltaGrows ==
    ASSUME NEW S, NEW l \in Seq(S), NEW b \in Seq(S), NEW u \in 0..Len(l)
    PROVE  /\ SubSeq(l \o b, u + 1, Len(l \o b)) = SubSeq(l, u + 1, Len(l)) \o b
           /\ u \in 0..Len(l \o b)
<1> DEFINE n == Len(l)
           m == Len(b)
           c == l \o b
           s == SubSeq(c, u + 1, n + m)
           d == SubSeq(l, u + 1, n)
           t == d \o b
<1>1. /\ n \in Nat /\ m \in Nat /\ u \in Nat /\ u <= n
      /\ c \in Seq(S) /\ Len(c) = n + m
      /\ \A i \in 1..n : c[i] = l[i]
      /\ \A i \in 1..m : c[n + i] = b[i]
  OBVIOUS
<1>2. /\ d \in Seq(S) /\ Len(d) = n - u
      /\ \A i \in 1..(n - u) : d[i] = l[u + i]
  <2>1. \A i \in (u + 1)..n : l[i] \in S
    BY <1>1
  <2>2. /\ d \in Seq(S) /\ Len(d) = (IF u + 1 <= n THEN n - (u + 1) + 1 ELSE 0)
        /\ \A i \in 1..(n - (u + 1) + 1) : d[i] = l[(u + 1) + i - 1]
    <3>1. u + 1 \in Int /\ n \in Int
      BY <1>1
    <3> HIDE DEF n
    <3> QED
      BY <2>1, <3>1, SubSeqProperties
  <2> HIDE DEF n, d
  <2>3. \A i \in 1..(n - u) : (u + 1) + i - 1 = u + i
    BY <1>1
  <2>4. n - (u + 1) + 1 = n - u
    BY <1>1
  <2> QED
    BY <1>1, <2>2, <2>3, <2>4
<1>3. /\ s \in Seq(S) /\ Len(s) = (n + m) - u
      /\ \A i \in 1..((n + m) - u) : s[i] = c[u + i]
  <2>1. \A i \in (u + 1)..(n + m) : c[i] \in S
    <3> HIDE DEF n, m, c
    <3>1. \A i \in 1..Len(c) : c[i] \in S
      BY <1>1
    <3> QED
      BY <1>1, <3>1
  <2> DEFINE k == n + m
  <2>2. k \in Nat /\ k >= u
    BY <1>1
  <2> HIDE DEF c, k
  <2>3. /\ s \in Seq(S) /\ Len(s) = (IF u + 1 <= k THEN k - (u + 1) + 1 ELSE 0)
        /\ \A i \in 1..(k - (u + 1) + 1) : s[i] = c[(u + 1) + i - 1]
    <3>1. u + 1 \in Int /\ k \in Int /\ \A i \in (u + 1)..k : c[i] \in S
      BY <2>1, <2>2 DEF k
    <3>2. s = SubSeq(c, u + 1, k)
      BY DEF k
    <3> HIDE DEF s
    <3> QED
      BY <3>1, <3>2, SubSeqProperties
  <2> HIDE DEF s
  <2>4. \A i \in 1..(k - u) : (u + 1) + i - 1 = u + i
    BY <1>1, <2>2
  <2>5. k - (u + 1) + 1 = k - u
    BY <1>1, <2>2
  <2>6. /\ s \in Seq(S) /\ Len(s) = k - u /\ \A i \in 1..(k - u) : s[i] = c[u + i]
    BY <1>1, <2>2, <2>3, <2>4, <2>5
  <2> QED
    BY <2>6 DEF k
<1> HIDE DEF d, s, c, n, m
<1>4. /\ t \in Seq(S) /\ Len(t) = (n - u) + m
      /\ \A i \in 1..(n - u) : t[i] = d[i]
      /\ \A i \in 1..m : t[(n - u) + i] = b[i]
  <2>0. d \in Seq(S) /\ b \in Seq(S) /\ Len(d) \in Nat /\ Len(b) \in Nat
    BY <1>2
  <2>1. /\ t \in Seq(S) /\ Len(t) = Len(d) + Len(b)
        /\ \A i \in 1..(Len(d) + Len(b)) : t[i] = IF i <= Len(d) THEN d[i] ELSE b[i - Len(d)]
    BY <2>0, ConcatProperties
  <2> HIDE DEF t
  <2>2. \A i \in 1..Len(d) : t[i] = d[i]
    BY <2>0, <2>1
  <2>3. ASSUME NEW i \in 1..Len(b) PROVE t[Len(d) + i] = b[i]
    <3>1. /\ Len(d) + i \in 1..(Len(d) + Len(b)) /\ ~ (Len(d) + i <= Len(d))
          /\ (Len(d) + i) - Len(d) = i
      BY <2>0
    <3> QED
      BY <2>1, <3>1
  <2> QED
    BY <1>2, <2>1, <2>2, <2>3 DEF m
<1> HIDE DEF t
<1>5. Len(s) = Len(t)
  BY <1>1, <1>3, <1>4
<1>6. ASSUME NEW i \in 1..Len(s)
      PROVE  s[i] = t[i]
  <2>1. i \in 1..((n + m) - u)
    BY <1>3
  <2>2. CASE i <= n - u
    BY <1>1, <1>2, <1>3, <1>4, <2>1, <2>2
  <2>3. CASE i > n - u
    <3> DEFINE j == i - (n - u)
    <3>1. j \in 1..m /\ (n - u) + j = i /\ n + j = u + i
      BY <1>1, <2>1, <2>3
    <3> HIDE DEF j
    <3>2. s[i] = c[n + j] /\ t[i] = b[j]
      BY <1>3, <1>4, <2>1, <3>1
    <3> QED
      BY <1>1, <3>1, <3>2
  <2> QED
    BY <1>1, <2>1, <2>2, <2>3
<1>7. s = t
  BY <1>3, <1>4, <1>5, <1>6, SeqEqual
<1>8. Len(c) = n + m /\ u \in 0..Len(c)
  BY <1>1
<1> QED
  BY <1>7, <1>8 DEF s, t, d, c, n

(* Appending leaves the prefixes of a sequence alone. *)
LEMMA PrefixStays ==
    ASSUME NEW S, NEW l \in Seq(S), NEW b \in Seq(S), NEW k \in 1..Len(l)
    PROVE  SubSeq(l \o b, 1, k) = SubSeq(l, 1, k) /\ k \in 1..Len(l \o b)
<1>1. Len(l) \in Nat /\ Len(b) \in Nat /\ Len(l \o b) = Len(l) + Len(b) /\ 1 \in 1..Len(l)
  OBVIOUS
<1>2. SubSeq(l \o b, 1, k) = SubSeq(l, 1, k)
  BY <1>1, SubSeqOfConcat1
<1> QED
  BY <1>1, <1>2

-----------------------------------------------------------------------------
(* The plan of the execution is one build_execution_plan yields. *)
LEMMA PlanIsStaged ==
    ASSUME plan \in Plans
    PROVE  StagedPlan(plan)
BY PlansAreStaged DEF PlansAssumption

(* What a stored lineage replays to. *)
LEMMA TruthIs ==
    ASSUME NEW p, StagedPlan(p), NEW l \in Seq(Event), l # <<>>, Lineage(l, p)
    PROVE  /\ LineageValid(l)
           /\ Replayed(l, p) = Applied(Blank(p), l)
           /\ Sane(Replayed(l, p), p) /\ Replayed(l, p) \in Execution(p)
<1>1. LineageValid(l) /\ Replayed(l, p) = Applied(Blank(p), l)
  BY LineageIsValid DEF Lineage
<1> QED
  BY <1>1 DEF Lineage, Sane

(* Storing the events of a step takes the truth where the step ended. *)
LEMMA LineageGrows ==
    ASSUME NEW p, StagedPlan(p), NEW l \in Seq(Event), l # <<>>, Lineage(l, p),
           NEW b, NEW y, Follows(Replayed(l, p), b, y, p), Sane(y, p)
    PROVE  /\ l \o b \in Seq(Event) /\ l \o b # <<>>
           /\ Lineage(l \o b, p) /\ Replayed(l \o b, p) = y
<1>1. b \in Seq(Event) /\ Continues(Replayed(l, p), b) /\ Applied(Replayed(l, p), b) = y
  BY DEF Follows
<1>2. Replayed(l, p) = Applied(Blank(p), l)
  BY TruthIs
<1>3. Counts(Blank(p))
  <2>1. Len(p.stages) \in Nat
    BY DEF StagedPlan
  <2> QED
    BY <2>1, BlankIsExecution, ExecutionCounts
<1>4. Applied(Blank(p), l \o b) = y
  BY <1>1, <1>2, <1>3, AppliedInParts
<1>5. Continues(Blank(p), l \o b)
  BY <1>1, <1>2, ContinuesInParts DEF Lineage
<1>6. l \o b \in Seq(Event) /\ l \o b # <<>> /\ (l \o b)[1] = l[1]
  <2>1. 1 \in DOMAIN l /\ Len(l) > 0
    OBVIOUS
  <2>2. (l \o b)[1] = l[1] /\ l \o b \in Seq(Event) /\ Len(l \o b) = Len(l) + Len(b)
    BY <1>1, <2>1, SplitPositions
  <2>3. Len(b) \in Nat /\ Len(l) \in Nat
    BY <1>1
  <2>4. Len(l \o b) > 0
    BY <2>1, <2>2, <2>3
  <2>5. Len(<<>>) = 0
    OBVIOUS
  <2> QED
    BY <2>2, <2>4, <2>5
<1>7. Lineage(l \o b, p)
  BY <1>4, <1>5, <1>6 DEF Lineage
<1>8. Replayed(l \o b, p) = y
  BY <1>4, <1>6, <1>7, TruthIs
<1> QED
  BY <1>6, <1>7, <1>8

(* The first event alone is a lineage, of an execution just initialized. *)
LEMMA LineageBegins ==
    ASSUME NEW p, StagedPlan(p)
    PROVE  /\ <<>> \o <<InitEvent>> = <<InitEvent>> /\ <<InitEvent>> # <<>>
           /\ <<InitEvent>> \in Seq(Event) /\ Lineage(<<InitEvent>>, p)
           /\ Replayed(<<InitEvent>>, p) = Initialized(p)
<1> DEFINE l == <<InitEvent>>
<1>1. Follows(Blank(p), l, Initialized(p), p) /\ Sane(Initialized(p), p)
  BY InitializedIsSane
<1>2. l # <<>> /\ l[1] = InitEvent
  OBVIOUS
<1>3. l \in Seq(Event)
  BY <1>1 DEF Follows
<1>4. <<>> \o l = l
  BY <1>3, ConcatEmptySeq
<1> HIDE DEF l
<1>5. Lineage(l, p) /\ Applied(Blank(p), l) = Initialized(p)
  BY <1>1, <1>2 DEF Lineage, Follows
<1>6. Replayed(l, p) = Initialized(p)
  BY <1>2, <1>3, <1>5, TruthIs
<1> QED
  BY <1>2, <1>3, <1>4, <1>5, <1>6 DEF l

(* A snapshot stays good while events are stored, and a new one is good. *)
LEMMA SnapshotStays ==
    ASSUME NEW p, NEW l \in Seq(Event), NEW s, SnapshotOf(s, l, p),
           NEW b, NEW y, Follows(Replayed(l, p), b, y, p), Replayed(l \o b, p) = y
    PROVE  SnapshotOf(s, l \o b, p)
<1>1. b \in Seq(Event) /\ s.upto \in 0..Len(l) /\ s.exec \in Execution(p)
  BY DEF Follows, SnapshotOf
<1>2. Follows(s.exec, SubSeq(l, s.upto + 1, Len(l)), Replayed(l, p), p)
  BY DEF SnapshotOf
<1>3. Follows(s.exec, SubSeq(l, s.upto + 1, Len(l)) \o b, y, p)
  BY <1>1, <1>2, FollowsInParts
<1>4. /\ SubSeq(l \o b, s.upto + 1, Len(l \o b)) = SubSeq(l, s.upto + 1, Len(l)) \o b
      /\ s.upto \in 0..Len(l \o b)
  BY <1>1, DeltaGrows
<1> QED
  BY <1>1, <1>3, <1>4 DEF SnapshotOf

(* A snapshot taken now is one of the whole lineage. *)
LEMMA SnapshotBegins ==
    ASSUME NEW p, NEW l \in Seq(Event), Replayed(l, p) \in Execution(p),
           NEW s, s.exec = Replayed(l, p), s.upto = Len(l)
    PROVE  SnapshotOf(s, l, p)
<1>1. Len(l) \in Nat /\ Len(l) \in 0..Len(l)
  OBVIOUS
<1>2. SubSeq(l, Len(l) + 1, Len(l)) = <<>>
  BY <1>1, SubSeqEmpty
<1>3. Follows(Replayed(l, p), <<>>, Replayed(l, p), p)
  BY AppliedNone, ContinuesNone DEF Follows
<1> QED
  BY <1>1, <1>2, <1>3 DEF SnapshotOf

-----------------------------------------------------------------------------
(* The initial states. *)
LEMMA InitIsGood == Init => IInv
BY DEF Init, IInv, Unborn, Stored, Working, Snapshotted, RowNeverAhead

(* What the invariant says of the truth. *)
LEMMA TruthHolds ==
    ASSUME IInv, log # <<>>
    PROVE  /\ StagedPlan(plan) /\ log \in Seq(Event) /\ Lineage(log, plan) /\ row # <<>>
           /\ LineageValid(log) /\ Sane(Truth, plan) /\ Truth \in Execution(plan)
           /\ snap # <<>> => SnapshotOf(snap[1], log, plan)
           /\ pc \in {"off", "idle", "persist", "save", "policy"}
           /\ pc \in {"idle", "save", "policy"} => mem = <<Truth>> /\ Exec = Truth
<1>1. StagedPlan(plan)
  BY PlanIsStaged DEF IInv
<1>2. log \in Seq(Event) /\ Lineage(log, plan) /\ row # <<>>
  BY DEF IInv, Stored
<1>3. LineageValid(log) /\ Sane(Truth, plan) /\ Truth \in Execution(plan)
  BY <1>1, <1>2, TruthIs DEF Truth
<1>4. /\ pc \in {"off", "idle", "persist", "save", "policy"}
      /\ pc \in {"idle", "save", "policy"} => mem = <<Truth>> /\ Exec = Truth
  BY DEF IInv, Working, Exec
<1> QED
  BY <1>1, <1>2, <1>3, <1>4 DEF IInv, Snapshotted

(* An empty lineage is refused. *)
LEMMA NoLineageIsInvalid == ~ LineageValid(<<>>)
BY DEF LineageValid

(* The steps that store nothing: what there is to show of them. *)
LEMMA StoredStays ==
    ASSUME IInv, UNCHANGED <<plan, row, log>>,
           snap' # <<>> => log # <<>> /\ SnapshotOf(snap'[1], log, plan),
           log = <<>> =>
               /\ pc' \in {"off", "persist"}
               /\ pc' # "off" => /\ mem' = <<Initialized(plan)>> /\ batch' = <<InitEvent>>
                                 /\ row = <<>>,
           log # <<>> =>
               \/ pc' = "off"
               \/ pc' = "idle" /\ mem' = <<Truth>>
               \/ /\ pc' = "persist" /\ mem' = <<Exec'>>
                  /\ Follows(Truth, batch', Exec', plan)
                  /\ Sane(Exec', plan) /\ Promised(Truth, Exec', plan)
    PROVE  IInv'
<1>1. plan' = plan /\ row' = row /\ log' = log /\ Truth' = Truth
  BY DEF Truth
<1>2. Unborn'
  BY <1>1 DEF IInv, Unborn
<1>3. Stored'
  BY <1>1 DEF IInv, Stored
<1>4. Working'
  BY <1>1 DEF Working
<1>5. Snapshotted'
  BY <1>1 DEF Snapshotted
<1>6. RowNeverAhead'
  BY <1>1 DEF IInv, RowNeverAhead, Truth
<1> QED
  BY <1>1, <1>2, <1>3, <1>4, <1>5, <1>6 DEF IInv

(* The steps of the process, one lemma each. *)
LEMMA InitializeStep ==
    ASSUME IInv, Initialize
    PROVE  IInv'
<1>1. log = <<>> /\ snap = <<>>
  BY DEF IInv, Stored, Unborn, Initialize
<1>2. /\ pc' = "persist" /\ mem' = <<Initialized(plan)>> /\ batch' = <<InitEvent>>
      /\ row = <<>> /\ UNCHANGED <<plan, row, log>> /\ snap' = snap
  BY DEF Initialize, stored
<1> QED
  BY <1>1, <1>2, StoredStays

(* Replay and snapshot replay give back the truth. *)
LEMMA ResumeStep ==
    ASSUME IInv, ResumeFull \/ ResumeFromSnapshot
    PROVE  IInv'
<1>1. /\ UNCHANGED <<plan, row, log>> /\ snap' = snap /\ pc' = "idle"
  BY DEF ResumeFull, ResumeFromSnapshot, stored
<1>2. log # <<>>
  <2>1. CASE ResumeFull
    BY <2>1, NoLineageIsInvalid DEF ResumeFull
  <2>2. CASE ResumeFromSnapshot
    BY <2>2 DEF ResumeFromSnapshot, IInv, Unborn
  <2> QED
    BY <2>1, <2>2
<1>3. snap # <<>> => SnapshotOf(snap[1], log, plan)
  BY DEF IInv, Snapshotted
<1>4. mem' = <<Truth>>
  <2>1. CASE ResumeFull
    BY <2>1 DEF ResumeFull, Truth
  <2>2. CASE ResumeFromSnapshot
    <3>1. snap # <<>> /\ mem' = <<Applied(snap[1].exec, Delta)>>
      BY <2>2 DEF ResumeFromSnapshot
    <3>2. Applied(snap[1].exec, Delta) = Truth
      BY <1>3, <3>1 DEF SnapshotOf, Follows, Delta, Truth
    <3> QED
      BY <3>1, <3>2
  <2> QED
    BY <2>1, <2>2
<1> QED
  BY <1>1, <1>2, <1>3, <1>4, StoredStays

(* A call of the executor, from the truth. *)
LEMMA CallStep ==
    ASSUME IInv, pc = "idle", NEW r, Kept(Exec, r, plan), Take(r)
    PROVE  IInv'
<1>1. log # <<>>
  BY DEF IInv, Unborn
<1>2. Exec = Truth
  BY <1>1, TruthHolds
<1>3. /\ UNCHANGED <<plan, row, log>> /\ snap' = snap /\ pc' = "persist"
      /\ mem' = <<r.exec>> /\ batch' = r.events
  BY DEF Take, stored
<1>4. Exec' = r.exec
  BY <1>3 DEF Exec
<1>5. /\ Follows(Truth, batch', Exec', plan)
      /\ Sane(Exec', plan) /\ Promised(Truth, Exec', plan)
  BY <1>2, <1>3, <1>4 DEF Kept
<1>6. snap # <<>> => SnapshotOf(snap[1], log, plan)
  BY DEF IInv, Snapshotted
<1> QED
  BY <1>1, <1>3, <1>4, <1>5, <1>6, StoredStays

(* A call of the executor takes the working execution one step ahead. *)
LEMMA ExecutorStep ==
    ASSUME IInv,
           \/ StartExecution
           \/ \E n \in PlanNodes(plan) : Complete(n) \/ Fail(n) \/ Submit(n)
    PROVE  IInv'
<1>1. pc = "idle" /\ log # <<>>
  BY DEF StartExecution, Complete, Fail, Submit, IInv, Unborn
<1>2. StagedPlan(plan) /\ Sane(Exec, plan)
  BY <1>1, TruthHolds
<1>3. CASE StartExecution
  <2>1. Exec.state = "initialized" /\ Take(Started(Exec))
    BY <1>3 DEF StartExecution
  <2>2. Kept(Exec, Started(Exec), plan)
    BY <1>2, <2>1, StartedIsKept
  <2> QED
    BY <1>1, <2>1, <2>2, CallStep
<1>4. ASSUME NEW n \in PlanNodes(plan), Complete(n)
      PROVE  IInv'
  <2>1. /\ Exec.state = "executing" /\ n \in ReadyNodes(Exec, plan)
        /\ Take(NodeCompleted(Exec, plan, n))
    BY <1>4 DEF Complete
  <2>2. Kept(Exec, NodeCompleted(Exec, plan, n), plan)
    BY <1>2, <2>1, CompletedIsKept
  <2> QED
    BY <1>1, <2>1, <2>2, CallStep
<1>5. ASSUME NEW n \in PlanNodes(plan), Fail(n)
      PROVE  IInv'
  <2>1. /\ Exec.state = "executing" /\ n \in ReadyNodes(Exec, plan)
        /\ Take(NodeFailed(Exec, plan, n))
    BY <1>5 DEF Fail
  <2>2. Kept(Exec, NodeFailed(Exec, plan, n), plan)
    BY <1>2, <2>1, FailedIsKept
  <2> QED
    BY <1>1, <2>1, <2>2, CallStep
<1>6. ASSUME NEW n \in PlanNodes(plan), Submit(n)
      PROVE  IInv'
  <2> DEFINE r == [raises |-> FALSE, exec |-> Exec,
                   events |-> <<NodeEvent("node_submitted", n, Exec.stage)>>]
  <2>1. /\ Exec.state \notin TerminalExecutionState /\ n \in ReadyNodes(Exec, plan)
        /\ Take(r)
    BY <1>6 DEF Submit
  <2>2. Kept(Exec, r, plan)
    BY <1>2, <2>1, SubmittedIsKept
  <2> HIDE DEF r
  <2> QED
    BY <1>1, <2>1, <2>2, CallStep
<1> QED
  BY <1>3, <1>4, <1>5, <1>6

-----------------------------------------------------------------------------
(* persist_execution: the row of a new execution. *)
LEMMA FirstRowStep ==
    ASSUME IInv, FirstCommit, row = <<>>
    PROVE  IInv'
<1>1. log = <<>> /\ snap = <<>> /\ mem = <<Initialized(plan)>> /\ batch = <<InitEvent>>
  BY DEF IInv, Stored, Unborn, FirstCommit
<1>2. /\ row' = <<Initialized(plan)>> /\ pc' = "append" /\ log' = <<>> /\ plan' = plan
      /\ snap' = <<>> /\ mem' = mem /\ batch' = batch
  BY <1>1 DEF FirstCommit
<1>3. row' # <<>>
  BY <1>2
<1>4. Unborn'
  BY <1>1, <1>2, <1>3 DEF Unborn
<1>5. Stored' /\ Working' /\ Snapshotted'
  BY <1>2 DEF Stored, Working, Snapshotted
<1>6. RowNeverAhead'
  BY <1>2 DEF RowNeverAhead
<1>7. plan' \in Plans
  BY <1>2 DEF IInv
<1> QED
  BY <1>4, <1>5, <1>6, <1>7 DEF IInv

(* persist_execution: the event of a new execution. *)
LEMMA FirstEventStep ==
    ASSUME IInv, SecondCommit, pc = "append"
    PROVE  IInv' /\ log = <<>> /\ log' # <<>> /\ Truth' = Initialized(plan)
<1>1. log = <<>>
  BY DEF IInv, Working
<1>2. /\ snap = <<>> /\ mem = <<Initialized(plan)>> /\ batch = <<InitEvent>>
      /\ row = <<Initialized(plan)>> /\ plan \in Plans
  BY <1>1 DEF IInv, Unborn
<1>3. /\ log' = log \o batch /\ row' = row /\ pc' = "policy" /\ plan' = plan
      /\ snap' = snap /\ mem' = mem
  BY DEF SecondCommit
<1>4. /\ log' = <<InitEvent>> /\ log' # <<>> /\ log' \in Seq(Event) /\ Lineage(log', plan)
      /\ Replayed(log', plan) = Initialized(plan)
  BY <1>1, <1>2, <1>3, LineageBegins, PlanIsStaged
<1>5. Truth' = Initialized(plan)
  BY <1>3, <1>4 DEF Truth
<1>6. Unborn' /\ Snapshotted'
  BY <1>2, <1>3, <1>4 DEF Unborn, Snapshotted
<1>7. row' # <<>>
  BY <1>2, <1>3
<1>8. Stored'
  BY <1>3, <1>4, <1>7 DEF Stored
<1>9. Working'
  BY <1>2, <1>3, <1>5 DEF Working
<1>10. RowNeverAhead'
  BY <1>2, <1>3, <1>5 DEF RowNeverAhead
<1>11. plan' \in Plans
  BY <1>2, <1>3
<1> QED
  BY <1>1, <1>4, <1>5, <1>6, <1>8, <1>9, <1>10, <1>11 DEF IInv

(* What a row may be when there is a lineage. *)
RowOf(r, l, p) ==
    \/ r = <<Replayed(l, p)>>
    \/ \E k \in 1..Len(l) : r = <<Replayed(SubSeq(l, 1, k), p)>>

(* A row that was a former state of the lineage still is when it grows. *)
LEMMA RowStays ==
    ASSUME NEW l \in Seq(Event), l # <<>>, NEW b \in Seq(Event), NEW r, NEW p, RowOf(r, l, p)
    PROVE  RowOf(r, l \o b, p)
<1>1. Len(l) \in 1..Len(l) /\ SubSeq(l, 1, Len(l)) = l
  <2>1. SubSeq(l, 1, Len(l)) = l
    BY SubSeqFull
  <2> QED
    BY <2>1
<1>2. PICK k \in 1..Len(l) : r = <<Replayed(SubSeq(l, 1, k), p)>>
  BY <1>1 DEF RowOf
<1>3. SubSeq(l \o b, 1, k) = SubSeq(l, 1, k) /\ k \in 1..Len(l \o b)
  BY PrefixStays
<1> QED
  BY <1>2, <1>3 DEF RowOf

(* The stored row is a former state of the stored lineage. *)
LEMMA RowIs ==
    ASSUME IInv, log # <<>>
    PROVE  RowOf(row, log, plan)
<1>1. row # <<>>
  BY DEF IInv, Stored
<1> QED
  BY <1>1 DEF IInv, RowNeverAhead, RowOf, Truth

(* persist_execution: the events of an execution that has a row. *)
LEMMA EventsStep ==
    ASSUME IInv, FirstCommit, row # <<>>
    PROVE  /\ IInv' /\ log # <<>> /\ log' # <<>>
           /\ Truth' = Exec /\ Promised(Truth, Truth', plan)
<1>1. log # <<>>
  BY DEF IInv, Unborn, FirstCommit
<1>2. /\ StagedPlan(plan) /\ log \in Seq(Event) /\ Lineage(log, plan)
      /\ snap # <<>> => SnapshotOf(snap[1], log, plan)
  BY <1>1, TruthHolds
<1>3. /\ mem = <<Exec>> /\ Follows(Truth, batch, Exec, plan) /\ Sane(Exec, plan)
      /\ Promised(Truth, Exec, plan)
  BY <1>1 DEF IInv, Working, FirstCommit
<1>4. /\ log' = log \o batch /\ row' = row /\ pc' = "save" /\ plan' = plan
      /\ snap' = snap /\ mem' = mem
  BY DEF FirstCommit
<1>5. /\ log' \in Seq(Event) /\ log' # <<>> /\ Lineage(log', plan)
      /\ Replayed(log', plan) = Exec
  BY <1>1, <1>2, <1>3, <1>4, LineageGrows DEF Truth
<1>6. Truth' = Exec
  BY <1>4, <1>5 DEF Truth
<1>7. Unborn'
  BY <1>5 DEF Unborn
<1>8. Stored'
  BY <1>4, <1>5 DEF Stored
<1>9. Working'
  BY <1>3, <1>4, <1>6 DEF Working
<1>10. Snapshotted'
  <2> SUFFICES ASSUME snap # <<>> PROVE SnapshotOf(snap[1], log', plan)
    BY <1>4 DEF Snapshotted
  <2>1. SnapshotOf(snap[1], log \o batch, plan)
    BY <1>2, <1>3, <1>4, <1>5, SnapshotStays DEF Truth
  <2> QED
    BY <1>4, <2>1
<1>11. RowNeverAhead'
  <2>1. RowOf(row, log \o batch, plan)
    BY <1>1, <1>2, <1>3, RowIs, RowStays DEF Follows
  <2>2. RowOf(row', log', plan')
    BY <1>4, <2>1
  <2> QED
    BY <2>2 DEF RowOf, RowNeverAhead, Truth
<1>12. plan' \in Plans
  BY <1>4 DEF IInv
<1> QED
  BY <1>1, <1>3, <1>5, <1>6, <1>7, <1>8, <1>9, <1>10, <1>11, <1>12 DEF IInv

(* The other steps leave the lineage alone: what there is to show of them. *)
LEMMA LogStays ==
    ASSUME IInv, log # <<>>, UNCHANGED <<plan, log>>,
           \/ row' = row \/ row' = <<Truth>>,
           \/ snap' = snap
           \/ snap' = <<[exec |-> Truth, upto |-> Len(log)]>>,
           pc' \in {"off", "idle", "policy"}, pc' # "off" => mem' = <<Truth>>
    PROVE  IInv'
<1>1. plan' = plan /\ log' = log /\ Truth' = Truth
  BY DEF Truth
<1>2. /\ log \in Seq(Event) /\ Lineage(log, plan) /\ row # <<>> /\ Truth \in Execution(plan)
      /\ snap # <<>> => SnapshotOf(snap[1], log, plan)
  BY TruthHolds
<1>3. row' # <<>>
  BY <1>2
<1>4. Unborn' /\ Stored' /\ Working'
  BY <1>1, <1>2, <1>3 DEF Unborn, Stored, Working
<1>5. Snapshotted'
  <2>1. CASE snap' = snap
    BY <1>1, <1>2, <2>1 DEF Snapshotted
  <2>2. CASE snap' = <<[exec |-> Truth, upto |-> Len(log)]>>
    <3> DEFINE s == [exec |-> Truth, upto |-> Len(log)]
    <3>1. s.exec = Replayed(log, plan) /\ s.upto = Len(log) /\ Replayed(log, plan) \in Execution(plan)
      BY <1>2 DEF Truth
    <3> HIDE DEF s
    <3>2. SnapshotOf(s, log, plan)
      BY <1>2, <3>1, SnapshotBegins
    <3>3. snap'[1] = s
      BY <2>2 DEF s
    <3> QED
      BY <1>1, <3>2, <3>3 DEF Snapshotted
  <2> QED
    BY <2>1, <2>2
<1>6. RowNeverAhead'
  <2>1. RowOf(row, log, plan)
    BY RowIs
  <2>2. row' = <<Truth>> \/ RowOf(row', log', plan')
    BY <1>1, <2>1
  <2> QED
    BY <1>1, <2>2 DEF RowOf, RowNeverAhead, Truth
<1>7. plan' \in Plans
  BY <1>1 DEF IInv
<1> QED
  BY <1>4, <1>5, <1>6, <1>7 DEF IInv

(* The second commit brings the row up to date. *)
LEMMA SaveStep ==
    ASSUME IInv, SecondCommit, pc = "save"
    PROVE  IInv'
<1>1. log # <<>>
  BY DEF IInv, Unborn
<1>2. mem = <<Truth>>
  BY <1>1, TruthHolds
<1>3. /\ row' = <<Truth>> /\ UNCHANGED <<plan, log>> /\ snap' = snap
      /\ pc' = "policy" /\ mem' = <<Truth>>
  BY <1>2 DEF SecondCommit
<1> QED
  BY <1>1, <1>3, LogStays

(* apply_snapshot_policy *)
LEMMA PolicyStep ==
    ASSUME IInv, TakeSnapshot \/ NoSnapshot
    PROVE  IInv'
<1>1. pc = "policy" /\ log # <<>>
  BY DEF IInv, Unborn, TakeSnapshot, NoSnapshot
<1>2. mem = <<Truth>> /\ Exec = Truth
  BY <1>1, TruthHolds
<1>3. /\ UNCHANGED <<plan, log>> /\ row' = row /\ pc' = "idle" /\ mem' = <<Truth>>
      /\ snap' = snap \/ snap' = <<[exec |-> Truth, upto |-> Len(log)]>>
  BY <1>2 DEF TakeSnapshot, NoSnapshot, stored
<1> QED
  BY <1>1, <1>3, LogStays

(* At the end of a process and at a crash the stored parts stay. *)
LEMMA EndStep ==
    ASSUME IInv, Exit \/ Crash
    PROVE  IInv'
<1>1. /\ UNCHANGED <<plan, row, log, snap>> /\ pc' = "off"
  BY DEF Exit, Crash, stored
<1>2. log = <<>> => snap = <<>>
  BY DEF IInv, Unborn
<1>3. snap # <<>> => SnapshotOf(snap[1], log, plan)
  BY DEF IInv, Snapshotted
<1> QED
  BY <1>1, <1>2, <1>3, StoredStays

(* recover_all and the snapshot command. *)
LEMMA CommandStep ==
    ASSUME IInv, RecoverAll \/ SnapshotCommand
    PROVE  IInv'
<1>1. CASE log # <<>>
  <2>1. LineageValid(log)
    BY <1>1, TruthHolds
  <2>2. /\ UNCHANGED <<plan, log>>
        /\ row' = row \/ row' = <<Truth>>
        /\ snap' = snap \/ snap' = <<[exec |-> Truth, upto |-> Len(log)]>>
        /\ pc' = "off"
    BY <2>1 DEF RecoverAll, SnapshotCommand, Truth
  <2> QED
    BY <1>1, <2>2, LogStays
<1>2. CASE log = <<>>
  <2>1. ~ LineageValid(log)
    BY <1>2, NoLineageIsInvalid
  <2>2. /\ UNCHANGED <<plan, row, log, snap>> /\ pc' = "off"
    BY <2>1 DEF RecoverAll, SnapshotCommand
  <2>3. snap = <<>>
    BY <1>2 DEF IInv, Unborn
  <2> QED
    BY <1>2, <2>2, <2>3, StoredStays
<1> QED
  BY <1>1, <1>2

-----------------------------------------------------------------------------
(* Every step keeps the invariant. *)
LEMMA StepIsGood ==
    ASSUME IInv, [Next]_vars
    PROVE  IInv'
<1>1. CASE Next
  <2>1. CASE Initialize
    BY <2>1, InitializeStep
  <2>2. CASE ResumeFull \/ ResumeFromSnapshot
    BY <2>2, ResumeStep
  <2>3. CASE \/ StartExecution
             \/ \E n \in PlanNodes(plan) : Complete(n) \/ Fail(n) \/ Submit(n)
    BY <2>3, ExecutorStep
  <2>4. CASE FirstCommit
    BY <2>4, FirstRowStep, EventsStep
  <2>5. CASE SecondCommit
    <3>1. pc \in {"append", "save"}
      BY <2>5 DEF SecondCommit
    <3> QED
      BY <2>5, <3>1, FirstEventStep, SaveStep
  <2>6. CASE TakeSnapshot \/ NoSnapshot
    BY <2>6, PolicyStep
  <2>7. CASE Exit \/ Crash
    BY <2>7, EndStep
  <2>8. CASE RecoverAll \/ SnapshotCommand
    BY <2>8, CommandStep
  <2> QED
    BY <1>1, <2>1, <2>2, <2>3, <2>4, <2>5, <2>6, <2>7, <2>8 DEF Next, Work
<1>2. CASE UNCHANGED vars
  <2>1. /\ plan' = plan /\ row' = row /\ log' = log /\ snap' = snap /\ pc' = pc
        /\ mem' = mem /\ batch' = batch
    BY <1>2 DEF vars
  <2>2. Truth' = Truth /\ Exec' = Exec
    BY <2>1 DEF Truth, Exec
  <2>3. Unborn' /\ Stored'
    BY <2>1 DEF IInv, Unborn, Stored
  <2>4. Working'
    BY <2>1, <2>2 DEF IInv, Working
  <2>5. Snapshotted' /\ RowNeverAhead' /\ plan' \in Plans
    BY <2>1, <2>2 DEF IInv, Snapshotted, RowNeverAhead
  <2> QED
    BY <2>3, <2>4, <2>5 DEF IInv
<1> QED
  BY <1>1, <1>2

(* The inductive invariant: the lineage is valid and replays to what the   *)
(* executor reached, the row is one of its former states, and the snapshot *)
(* is the replay of a prefix.                                              *)
THEOREM InvariantHolds == Spec => []IInv
<1>1. Init => IInv
  BY InitIsGood
<1>2. IInv /\ [Next]_vars => IInv'
  BY StepIsGood
<1> QED
  BY <1>1, <1>2, PTL DEF Spec

(* persist_execution and recover_all: whatever crashes between two commits, the *)
(* row is what some prefix of the lineage replays to, never more.          *)
THEOREM RowIsNeverAhead == Spec => []RowNeverAhead
<1>1. IInv => RowNeverAhead
  BY DEF IInv
<1> QED
  BY <1>1, InvariantHolds, PTL

(* replay_execution and validate_lineage: the stored lineage is always valid, *)
(* and what a process holds once it has persisted is what the lineage replays *)
(* to, versions and attempts included.                                     *)
THEOREM LineageIsTheTruth == Spec => []LineageIsTruth
<1>1. IInv => LineageIsTruth
  <2> SUFFICES ASSUME IInv PROVE LineageIsTruth
    OBVIOUS
  <2>1. log # <<>> => LineageValid(log)
    BY TruthHolds
  <2>2. pc \in {"idle", "policy"} => log # <<>>
    BY DEF IInv, Unborn
  <2> QED
    BY <2>1, <2>2, TruthHolds DEF LineageIsTruth
<1> QED
  BY <1>1, InvariantHolds, PTL

(* replay_from_snapshot: whenever a snapshot was taken and however it is used *)
(* later, it and the events after it give what the whole lineage gives.    *)
THEOREM SnapshotReplayIsTruth == Spec => []SnapshotReplayAgrees
<1>1. IInv => SnapshotReplayAgrees
  <2> SUFFICES ASSUME IInv, snap # <<>>
               PROVE  DeltaValid(snap[1].exec, Delta) /\ Applied(snap[1].exec, Delta) = Truth
    BY DEF SnapshotReplayAgrees
  <2>1. Follows(snap[1].exec, Delta, Truth, plan)
    BY DEF IInv, Snapshotted, SnapshotOf, Delta, Truth
  <2> QED
    BY <2>1, DeltaIsValid DEF Follows
<1> QED
  BY <1>1, InvariantHolds, PTL

(* _advance_stage_if_needed and detect_outcome: the stage index counts the *)
(* leading complete stages, and the state says how far things can get.     *)
THEOREM StateIsProgress == Spec => []StateMeansProgress
<1>1. IInv => StateMeansProgress
  <2> SUFFICES ASSUME IInv, log # <<>>
               PROVE  LET x == Truth IN
                      /\ \A i \in 1..x.stage : plan.stages[i] \subseteq x.completed
                      /\ x.stage < Len(plan.stages) =>
                           ~ (plan.stages[x.stage + 1] \subseteq x.completed)
                      /\ x.state = "executing" /\ PlanNodes(plan) # {} =>
                           ReadyNodes(x, plan) # {}
                      /\ x.state = "blocked" => /\ ReadyNodes(x, plan) = {}
                                                /\ ~ (PlanNodes(plan) \subseteq x.completed)
                      /\ x.state = "completed" => x.completed = PlanNodes(plan)
    BY DEF StateMeansProgress
  <2>1. Sane(Truth, plan)
    BY TruthHolds
  <2> QED
    BY <2>1 DEF Sane, LeadingStages, StateFits
<1> QED
  BY <1>1, InvariantHolds, PTL

-----------------------------------------------------------------------------
(* The stored lineage implements WorkflowContract.  Before the first event *)
(* there is nothing.                                                       *)
LEMMA NothingYet ==
    ASSUME NEW p, StagedPlan(p)
    PROVE  LET x == Replayed(<<>>, p) IN
           x.completed = {} /\ x.failed = {} /\ x.attempts = [n \in PlanNodes(p) |-> 0]
<1> DEFINE z == [state |-> "initialized", stage |-> 0, completed |-> {}, failed |-> {},
                 attempts |-> [n \in PlanNodes(p) |-> 0], version |-> 0]
<1>1. Len(p.stages) \in Nat
  BY DEF StagedPlan
<1>2. [Initialized(p) EXCEPT !.version = 0] = z
  BY <1>1, BlankIsExecution
<1>3. z \in Execution(p)
  <2>1. "initialized" \in ExecutionState
    BY DEF ExecutionState, ExecutionMoves
  <2>2. [n \in PlanNodes(p) |-> 0] \in [PlanNodes(p) -> Nat] /\ 0 \in 0..Len(p.stages)
    BY <1>1
  <2> QED
    BY <2>1, <2>2 DEF Execution
<1> HIDE DEF z
<1>4. Replayed(<<>>, p) = z
  BY <1>2, <1>3, AppliedNone DEF Replayed
<1> QED
  BY <1>4 DEF z

(* The refinement, first of the initial states. *)
LEMMA ContractInit ==
    ASSUME Init
    PROVE  Contract!Init
<1>1. log = <<>> /\ plan \in Plans
  BY DEF Init
<1>2. StagedPlan(plan)
  BY <1>1, PlanIsStaged
<1>3. /\ Truth.completed = {} /\ Truth.failed = {}
      /\ Truth.attempts = [n \in PlanNodes(plan) |-> 0]
  BY <1>1, <1>2, NothingYet DEF Truth
<1> QED
  BY <1>1, <1>3 DEF Contract!Init, Contract!PlanNodes, PlanNodes

(* A step between commits, or one that stores no event, changes nothing of it. *)
LEMMA ContractStutters ==
    ASSUME UNCHANGED <<plan, log>>
    PROVE  UNCHANGED Contract!vars
<1>1. plan' = plan /\ log' = log /\ Truth' = Truth
  BY DEF Truth
<1> QED
  BY <1>1 DEF Contract!vars

(* Storing the first event initializes the abstract execution. *)
LEMMA ContractInitialize ==
    ASSUME IInv, log = <<>>, log' # <<>>, plan' = plan, Truth' = Initialized(plan)
    PROVE  Contract!Initialize
<1>1. StagedPlan(plan)
  BY PlanIsStaged DEF IInv
<1>2. /\ Truth.completed = {} /\ Truth.failed = {}
      /\ Truth.attempts = [n \in PlanNodes(plan) |-> 0]
  BY <1>1, NothingYet DEF Truth
<1>3. /\ Truth'.state = "initialized" /\ Truth'.completed = {} /\ Truth'.failed = {}
      /\ Truth'.attempts = [n \in PlanNodes(plan) |-> 0]
  BY DEF Initialized
<1> QED
  BY <1>2, <1>3 DEF Contract!Initialize

(* The words of the contract are those of the executor. *)
LEMMA ContractWords ==
    /\ Contract!PlanNodes = PlanNodes(plan)
    /\ Contract!Runnable = ReadyNodes(Truth, plan)
    /\ \A y : Contract!Status(y.completed, y.failed) = StatusOf(y, plan)
<1>1. Contract!PlanNodes = PlanNodes(plan)
  BY DEF Contract!PlanNodes, PlanNodes
<1>2. Contract!Runnable = ReadyNodes(Truth, plan)
  BY <1>1 DEF Contract!Runnable, ReadyNodes
<1>3. ASSUME NEW y
      PROVE  Contract!Status(y.completed, y.failed) = StatusOf(y, plan)
  <2>1. (ReadyNodes(y, plan) # {}) <=>
          \E n \in PlanNodes(plan) \ (y.completed \cup y.failed) : plan.deps[n] \subseteq y.completed
    BY DEF ReadyNodes
  <2> QED
    BY <1>1, <2>1 DEF Contract!Status, StatusOf
<1> QED
  BY <1>1, <1>2, <1>3

(* What the executor promises of a call is a step of the contract. *)
LEMMA ContractMoves ==
    ASSUME log # <<>>, log' # <<>>, plan' = plan, Promised(Truth, Truth', plan)
    PROVE  Contract!Next \/ UNCHANGED Contract!vars
<1>1. PICK x, y : x = Truth /\ y = Truth'
  OBVIOUS
<1>2. Promised(x, y, plan)
  BY <1>1
<1>3. /\ Contract!PlanNodes = PlanNodes(plan) /\ Contract!Runnable = ReadyNodes(x, plan)
      /\ Contract!Status(y.completed, y.failed) = StatusOf(y, plan)
  BY <1>1, ContractWords
<1>4. CASE StartPromised(x, y)
  <2>1. Contract!Start
    BY <1>1, <1>4 DEF StartPromised, Contract!Start
  <2> QED
    BY <2>1 DEF Contract!Next
<1>5. ASSUME NEW n \in PlanNodes(plan), CompletePromised(x, y, n, plan)
      PROVE  Contract!Next
  <2>1. Contract!Complete(n)
    BY <1>1, <1>3, <1>5 DEF CompletePromised, Contract!Complete
  <2> QED
    BY <1>3, <2>1 DEF Contract!Next
<1>6. ASSUME NEW n \in PlanNodes(plan), RetryPromised(x, y, n, plan)
      PROVE  Contract!Next
  <2>1. Contract!Retry(n)
    BY <1>1, <1>3, <1>6 DEF RetryPromised, Contract!Retry
  <2> QED
    BY <1>3, <2>1 DEF Contract!Next
<1>7. ASSUME NEW n \in PlanNodes(plan), GiveUpPromised(x, y, n, plan)
      PROVE  Contract!Next
  <2>1. Contract!GiveUp(n)
    BY <1>1, <1>3, <1>7 DEF GiveUpPromised, Contract!GiveUp
  <2> QED
    BY <1>3, <2>1 DEF Contract!Next
<1>8. CASE SameProgress(x, y)
  BY <1>1, <1>8 DEF SameProgress, Contract!vars
<1> QED
  BY <1>2, <1>4, <1>5, <1>6, <1>7, <1>8 DEF Promised

(* Every step is a step of the contract or leaves its variables alone. *)
LEMMA ContractStep ==
    ASSUME IInv, [Next]_vars
    PROVE  [Contract!Next]_Contract!vars
<1>1. CASE UNCHANGED <<plan, log>>
  BY <1>1, ContractStutters
<1>2. CASE FirstCommit /\ row # <<>>
  <2>1. plan' = plan
    BY <1>2 DEF FirstCommit
  <2> QED
    BY <1>2, <2>1, EventsStep, ContractMoves
<1>3. CASE SecondCommit /\ pc = "append"
  <2>1. plan' = plan
    BY <1>3 DEF SecondCommit
  <2>2. Contract!Initialize
    BY <1>3, <2>1, FirstEventStep, ContractInitialize
  <2> QED
    BY <2>2 DEF Contract!Next
<1>4. \/ UNCHANGED <<plan, log>>
      \/ FirstCommit /\ row # <<>>
      \/ SecondCommit /\ pc = "append"
  <2>1. CASE FirstCommit \/ SecondCommit
    BY <2>1 DEF FirstCommit, SecondCommit
  <2>2. CASE UNCHANGED vars
    BY <2>2 DEF vars
  <2>3. CASE Initialize \/ ResumeFull \/ ResumeFromSnapshot \/ StartExecution
    BY <2>3 DEF Initialize, ResumeFull, ResumeFromSnapshot, StartExecution, Take, stored
  <2>4. ASSUME NEW n \in PlanNodes(plan), Complete(n) \/ Fail(n) \/ Submit(n)
        PROVE  UNCHANGED <<plan, log>>
    BY <2>4 DEF Complete, Fail, Submit, Take, stored
  <2>5. CASE TakeSnapshot \/ NoSnapshot \/ Exit \/ Crash \/ RecoverAll \/ SnapshotCommand
    BY <2>5 DEF TakeSnapshot, NoSnapshot, Exit, Crash, RecoverAll, SnapshotCommand, stored
  <2> QED
    BY <2>1, <2>2, <2>3, <2>4, <2>5 DEF Next, Work
<1> QED
  BY <1>1, <1>2, <1>3, <1>4

(* The executor, the persistence, the recovery and the replay together keep *)
(* the promises of WorkflowContract: nodes run after their dependencies and at *)
(* most max_attempts times, nothing is undone by a crash or a recovery.    *)
THEOREM ContractIsKept == Spec => KeepsContract
<1>1. Init => Contract!Init
  BY ContractInit
<1>2. IInv /\ [Next]_vars => [Contract!Next]_Contract!vars
  BY ContractStep
<1> QED
  BY <1>1, <1>2, InvariantHolds, PTL DEF Spec, KeepsContract, Contract!Spec

=============================================================================
