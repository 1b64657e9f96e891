------------------------ MODULE WorkflowExecutionProofs ------------------------
(***************************************************************************)
(* Lemmas about the executor and the replay of WorkflowExecution, for any  *)
(* plan: replaying a lineage in two parts is replaying it as a whole, the  *)
(* events of every executor call replay to the execution it returns and    *)
(* continue a valid lineage, and the state says how far things can get.    *)
(* Then the planner: its verdicts and stages are right for any definition. *)
(***************************************************************************)
EXTENDS WorkflowExecution, WorkflowPlanner, FiniteSetTheorems, FunctionTheorems,
        SequenceTheorems, WellFoundedInduction, TLAPS

(* A set of naturals that is not empty has a least member, and one that is  *)
(* bounded a greatest: LastOf.                                             *)
LEMMA LeastOf ==
    ASSUME NEW S \in SUBSET Nat, S # {}
    PROVE  \E k \in S : \A j \in S : k <= j
<1> DEFINE R == {q \in Nat \X Nat : q[1] < q[2]}
<1>1. R = OpToRel(<, Nat)
  BY DEF OpToRel
<1>2. IsWellFoundedOn(R, Nat)
  BY <1>1, NatLessThanWellFounded
<1>3. PICK k \in S : \A j \in S : ~ (<<j, k>> \in R)
  <2> HIDE DEF R
  <2> QED
    BY <1>2, WFMin
<1>4. \A j \in S : ~ (j < k)
  BY <1>3
<1> QED
  BY <1>4

Within(S, n) == S \subseteq 1..n

(* The greatest member of a bounded set of positions is its only one. *)
LEMMA GreatestOf ==
    ASSUME NEW n \in Nat, NEW S, Within(S, n), S # {}
    PROVE  /\ LastOf(S) \in S /\ \A j \in S : j <= LastOf(S)
           /\ \A k \in S : (\A j \in S : j <= k) => k = LastOf(S)
<1> USE DEF Within
<1> DEFINE T == {n - i : i \in S}
<1>1. T \subseteq Nat /\ T # {}
  <2>1. ASSUME NEW i \in S PROVE n - i \in Nat
    <3>1. i \in 1..n
      OBVIOUS
    <3> QED
      BY <3>1
  <2> QED
    BY <2>1
<1>2. PICK t \in T : \A u \in T : t <= u
  BY <1>1, LeastOf
<1>3. PICK k \in S : t = n - k
  BY <1>2
<1>4. \A j \in S : j <= k
  <2>1. ASSUME NEW j \in S
        PROVE  j <= k
    <3>1. n - k <= n - j
      BY <1>2, <1>3
    <3> QED
      BY <3>1
  <2> QED
    BY <2>1
<1>5. LastOf(S) \in S /\ \A j \in S : j <= LastOf(S)
  BY <1>4 DEF LastOf
<1>6. ASSUME NEW i \in S, \A j \in S : j <= i
      PROVE  i = LastOf(S)
  <2>1. i \in 1..n /\ LastOf(S) \in 1..n
    BY <1>5
  <2>2. i <= LastOf(S) /\ LastOf(S) <= i
    BY <1>5, <1>6
  <2> QED
    BY <2>1, <2>2
<1> QED
  BY <1>5, <1>6

(* Positions moved by n. *)
Shifted(n, S) == {n + i : i \in S}

(* Moving positions keeps their number. *)
LEMMA ShiftedSize ==
    ASSUME NEW n \in Nat, NEW m \in Nat, NEW S, Within(S, m)
    PROVE  /\ IsFiniteSet(S) /\ IsFiniteSet(Shifted(n, S))
           /\ Cardinality(Shifted(n, S)) = Cardinality(S)
           /\ Shifted(n, S) \subseteq (n + 1)..(n + m)
<1> USE DEF Within
<1> DEFINE f == [i \in S |-> n + i]
<1>1. IsFiniteSet(S)
  <2>1. 1 \in Int /\ m \in Int
    OBVIOUS
  <2> QED
    BY <2>1, FS_Interval, FS_Subset
<1>2. f \in Bijection(S, Shifted(n, S))
  <2>1. f \in [S -> Shifted(n, S)]
    BY DEF Shifted
  <2>2. \A a, b \in S : f[a] = f[b] => a = b
    OBVIOUS
  <2>3. \A t \in Shifted(n, S) : \E s \in S : f[s] = t
    BY DEF Shifted
  <2> HIDE DEF f
  <2> QED
    BY <2>1, <2>2, <2>3, Fun_IsBij
<1>3. ExistsBijection(S, Shifted(n, S))
  BY <1>2 DEF ExistsBijection
<1>4. Shifted(n, S) \subseteq (n + 1)..(n + m)
  BY DEF Shifted
<1> QED
  BY <1>1, <1>3, <1>4, FS_Bijection

(* The size of positions of a first part and of a second part behind it.  *)
LEMMA SplitSize ==
    ASSUME NEW n \in Nat, NEW m \in Nat, NEW A, Within(A, n), NEW B, Within(B, m)
    PROVE  /\ Cardinality(A) \in Nat /\ Cardinality(B) \in Nat
           /\ Cardinality(A \cup Shifted(n, B)) = Cardinality(A) + Cardinality(B)
<1>1. /\ IsFiniteSet(A) /\ IsFiniteSet(B) /\ IsFiniteSet(Shifted(n, B))
      /\ Cardinality(Shifted(n, B)) = Cardinality(B)
      /\ Shifted(n, B) \subseteq (n + 1)..(n + m)
  BY ShiftedSize
<1>2. A \cap Shifted(n, B) = {}
  BY <1>1 DEF Within
<1>3. Cardinality(A) \in Nat /\ Cardinality(B) \in Nat
  BY <1>1, FS_CardinalityType
<1>4. Cardinality(A \cup Shifted(n, B)) = Cardinality(A) + Cardinality(B) - Cardinality({})
  BY <1>1, <1>2, FS_Union
<1>5. Cardinality({}) = 0
  BY FS_EmptySet
<1> QED
  BY <1>3, <1>4, <1>5

(* ... and the last of them. *)
LEMMA SplitLast ==
    ASSUME NEW n \in Nat, NEW m \in Nat, NEW A, Within(A, n), NEW B, Within(B, m)
    PROVE  /\ B # {} => LastOf(A \cup Shifted(n, B)) = n + LastOf(B) /\ LastOf(B) \in B
           /\ B = {} => A \cup Shifted(n, B) = A
<1> DEFINE U == A \cup Shifted(n, B)
<1>0. A \subseteq 1..n /\ B \subseteq 1..m
  BY DEF Within
<1>1. U \subseteq 1..(n + m)
  <2>1. Shifted(n, B) \subseteq (n + 1)..(n + m)
    BY ShiftedSize
  <2>2. (n + 1)..(n + m) \subseteq 1..(n + m) /\ 1..n \subseteq 1..(n + m)
    OBVIOUS
  <2> QED
    BY <1>0, <2>1, <2>2
<1>2. ASSUME B # {}
      PROVE  LastOf(U) = n + LastOf(B) /\ LastOf(B) \in B
  <2>1. LastOf(B) \in B /\ \A j \in B : j <= LastOf(B)
    BY <1>2, GreatestOf
  <2>2. n + LastOf(B) \in U /\ n + m \in Nat /\ U # {}
    <3>1. n + LastOf(B) \in Shifted(n, B)
      BY <2>1 DEF Shifted
    <3> QED
      BY <3>1
  <2>3. \A j \in U : j <= n + LastOf(B)
    <3>1. \A j \in A : j <= n + LastOf(B)
      <4>1. LastOf(B) \in 1..m
        BY <1>0, <2>1
      <4>2. \A j \in 1..n : j <= n + LastOf(B)
        BY <4>1
      <4> QED
        BY <1>0, <4>2
    <3>2. \A i \in B : n + i <= n + LastOf(B)
      <4>1. \A i \in B : i \in 1..m /\ i <= LastOf(B) /\ LastOf(B) \in 1..m
        BY <1>0, <2>1
      <4> QED
        BY <4>1
    <3>3. \A j \in Shifted(n, B) : j <= n + LastOf(B)
      BY <3>2 DEF Shifted
    <3> QED
      BY <3>1, <3>3
  <2> HIDE DEF U
  <2>4. n + LastOf(B) = LastOf(U)
    BY <1>1, <2>2, <2>3, GreatestOf DEF Within
  <2> QED
    BY <2>1, <2>4
<1>3. B = {} => U = A
  BY DEF Shifted
<1> QED
  BY <1>2, <1>3

-----------------------------------------------------------------------------
(* The positions of a sequence in two parts. *)
LEMMA SplitPositions ==
    ASSUME NEW S, NEW a \in Seq(S), NEW b \in Seq(S)
    PROVE  /\ Len(a) \in Nat /\ Len(b) \in Nat /\ a \o b \in Seq(S)
           /\ DOMAIN a = 1..Len(a) /\ DOMAIN b = 1..Len(b)
           /\ Len(a \o b) = Len(a) + Len(b)
           /\ DOMAIN (a \o b) = DOMAIN a \cup Shifted(Len(a), DOMAIN b)
           /\ \A i \in DOMAIN a : (a \o b)[i] = a[i] /\ i \in Nat /\ i <= Len(a)
           /\ \A k \in DOMAIN b : /\ (a \o b)[Len(a) + k] = b[k] /\ k \in Nat /\ k > 0
                                  /\ Len(a) + k \notin DOMAIN a
<1>1. Len(a) \in Nat /\ Len(b) \in Nat /\ DOMAIN a = 1..Len(a) /\ DOMAIN b = 1..Len(b)
  OBVIOUS
<1>2. Shifted(Len(a), 1..Len(b)) = (Len(a) + 1)..(Len(a) + Len(b))
  <2> DEFINE n == Len(a)
             m == Len(b)
  <2>1. n \in Nat /\ m \in Nat
    BY <1>1
  <2> HIDE DEF n, m
  <2>2. ASSUME NEW j \in (n + 1)..(n + m)
        PROVE  j \in Shifted(n, 1..m)
    <3>1. j - n \in 1..m /\ j = n + (j - n)
      BY <2>1
    <3> QED
      BY <3>1 DEF Shifted
  <2>3. \A i \in 1..m : n + i \in (n + 1)..(n + m)
    BY <2>1
  <2>4. Shifted(n, 1..m) = (n + 1)..(n + m)
    BY <2>2, <2>3 DEF Shifted
  <2> QED
    BY <2>4 DEF n, m
<1>3. /\ a \o b \in Seq(S) /\ Len(a \o b) = Len(a) + Len(b)
      /\ \A i \in 1..Len(a) : (a \o b)[i] = a[i]
      /\ \A k \in 1..Len(b) : (a \o b)[Len(a) + k] = b[k]
  OBVIOUS
<1>4. DOMAIN (a \o b) = 1..(Len(a) + Len(b))
  BY <1>3
<1>5. 1..(Len(a) + Len(b)) = (1..Len(a)) \cup ((Len(a) + 1)..(Len(a) + Len(b)))
  BY <1>1
<1>6. /\ \A i \in 1..Len(a) : i \in Nat /\ i <= Len(a)
      /\ \A k \in 1..Len(b) : k \in Nat /\ k > 0 /\ Len(a) + k \notin 1..Len(a)
  BY <1>1
<1> QED
  BY <1>1, <1>2, <1>3, <1>4, <1>5, <1>6

NodesAt(events, type) == {events[i].node : i \in At(events, type)}

(* The events of one type, and their nodes, in two parts. *)
LEMMA SplitAt ==
    ASSUME NEW S, NEW a \in Seq(S), NEW b \in Seq(S), NEW type
    PROVE  /\ Within(At(a, type), Len(a)) /\ Within(At(b, type), Len(b))
           /\ At(a \o b, type) = At(a, type) \cup Shifted(Len(a), At(b, type))
           /\ NodesAt(a \o b, type) = NodesAt(a, type) \cup NodesAt(b, type)
<1>1. Within(At(a, type), Len(a)) /\ Within(At(b, type), Len(b))
  BY DEF At, Within
<1>2. At(a \o b, type) = At(a, type) \cup Shifted(Len(a), At(b, type))
  BY SplitPositions, SMTT(30) DEF At, Shifted
<1>3. /\ \A i \in At(a, type) : (a \o b)[i] = a[i]
      /\ \A i \in At(b, type) : (a \o b)[Len(a) + i] = b[i]
  BY SplitPositions DEF At
<1>4. NodesAt(a \o b, type) = NodesAt(a, type) \cup NodesAt(b, type)
  <2>1. ASSUME NEW i \in At(a \o b, type)
        PROVE  (a \o b)[i].node \in NodesAt(a, type) \cup NodesAt(b, type)
    <3>1. CASE i \in At(a, type)
      BY <1>3, <3>1 DEF NodesAt
    <3>2. ASSUME NEW k \in At(b, type), i = Len(a) + k
          PROVE  (a \o b)[i].node \in NodesAt(b, type)
      BY <1>3, <3>2 DEF NodesAt
    <3> QED
      BY <1>2, <3>1, <3>2 DEF Shifted
  <2>2. \A i \in At(a, type) : a[i].node \in NodesAt(a \o b, type)
    <3>1. \A i \in At(a, type) : i \in At(a \o b, type)
      BY <1>2
    <3> QED
      BY <1>3, <3>1 DEF NodesAt
  <2>3. \A k \in At(b, type) : b[k].node \in NodesAt(a \o b, type)
    <3>1. \A k \in At(b, type) : Len(a) + k \in At(a \o b, type)
      BY <1>2 DEF Shifted
    <3> QED
      BY <1>3, <3>1 DEF NodesAt
  <2> QED
    BY <2>1, <2>2, <2>3 DEF NodesAt
<1> QED
  BY <1>1, <1>2, <1>4

(* Attempts and versions count the events of both parts. *)
LEMMA SplitCounts ==
    ASSUME NEW S, NEW a \in Seq(S), NEW b \in Seq(S), NEW n
    PROVE  /\ Cardinality(Attempts(a, n)) \in Nat /\ Cardinality(Attempts(b, n)) \in Nat
           /\ Cardinality(Attempts(a \o b, n))
                = Cardinality(Attempts(a, n)) + Cardinality(Attempts(b, n))
           /\ Cardinality(Counted(a)) \in Nat /\ Cardinality(Counted(b)) \in Nat
           /\ Cardinality(Counted(a \o b)) = Cardinality(Counted(a)) + Cardinality(Counted(b))
<1>1. /\ Within(Attempts(a, n), Len(a)) /\ Within(Attempts(b, n), Len(b))
      /\ Within(Counted(a), Len(a)) /\ Within(Counted(b), Len(b))
      /\ Len(a) \in Nat /\ Len(b) \in Nat
  BY DEF Attempts, Counted, At, Within
<1> DEFINE c == a \o b
           tried(e) == e.type \in {"node_failed", "node_retry"} /\ e.node = n
           silent(e) == e.type = "node_submitted"
<1>2. /\ DOMAIN c = DOMAIN a \cup Shifted(Len(a), DOMAIN b)
      /\ \A i \in DOMAIN a : c[i] = a[i]
      /\ \A k \in DOMAIN b : c[Len(a) + k] = b[k]
  BY SplitPositions
<1>3. \A s : /\ Attempts(s, n) = {i \in DOMAIN s : tried(s[i])}
             /\ Counted(s) = {i \in DOMAIN s : ~ silent(s[i])}
  BY DEF Attempts, Counted, At
<1> HIDE DEF c, tried, silent
<1>4. Attempts(c, n) = Attempts(a, n) \cup Shifted(Len(a), Attempts(b, n))
  <2>1. Shifted(Len(a), Attempts(b, n)) = {Len(a) + k : k \in {j \in DOMAIN b : tried(b[j])}}
    BY <1>3 DEF Shifted
  <2> QED
    BY <1>2, <1>3, <2>1 DEF Shifted
<1>5. Counted(c) = Counted(a) \cup Shifted(Len(a), Counted(b))
  <2>1. Shifted(Len(a), Counted(b)) = {Len(a) + k : k \in {j \in DOMAIN b : ~ silent(b[j])}}
    BY <1>3 DEF Shifted
  <2> QED
    BY <1>2, <1>3, <2>1 DEF Shifted
<1>6. /\ Cardinality(Attempts(a, n)) \in Nat /\ Cardinality(Attempts(b, n)) \in Nat
      /\ Cardinality(Attempts(a, n) \cup Shifted(Len(a), Attempts(b, n)))
           = Cardinality(Attempts(a, n)) + Cardinality(Attempts(b, n))
  BY <1>1, SplitSize
<1>7. /\ Cardinality(Counted(a)) \in Nat /\ Cardinality(Counted(b)) \in Nat
      /\ Cardinality(Counted(a) \cup Shifted(Len(a), Counted(b)))
           = Cardinality(Counted(a)) + Cardinality(Counted(b))
  BY <1>1, SplitSize
<1> QED
  BY <1>4, <1>5, <1>6, <1>7 DEF c

(* The state after some events. *)
StateAfter(state, events) ==
    LET moves == At(events, "state_transition") IN
    IF moves = {} THEN state ELSE events[LastOf(moves)].new

StageAfter(stage, events) ==
    LET advances == At(events, "stage_advanced") IN
    IF advances = {} THEN stage ELSE events[LastOf(advances)].stage + 1

(* The last transition and the last advance, of the second part if it has  *)
(* one.                                                                    *)
LEMMA SplitAfter ==
    ASSUME NEW S, NEW a \in Seq(S), NEW b \in Seq(S), NEW v
    PROVE  /\ StateAfter(v, a \o b) = StateAfter(StateAfter(v, a), b)
           /\ StageAfter(v, a \o b) = StageAfter(StageAfter(v, a), b)
<1>1. ASSUME NEW type
      PROVE  /\ At(b, type) # {} => /\ At(a \o b, type) # {}
                                    /\ (a \o b)[LastOf(At(a \o b, type))] = b[LastOf(At(b, type))]
             /\ At(b, type) = {} => At(a \o b, type) = At(a, type)
             /\ At(a, type) # {} => (a \o b)[LastOf(At(a, type))] = a[LastOf(At(a, type))]
  <2>1. /\ Within(At(a, type), Len(a)) /\ Within(At(b, type), Len(b))
        /\ At(a \o b, type) = At(a, type) \cup Shifted(Len(a), At(b, type))
        /\ Len(a) \in Nat /\ Len(b) \in Nat /\ DOMAIN a = 1..Len(a) /\ DOMAIN b = 1..Len(b)
    BY SplitAt
  <2>2. CASE At(b, type) # {}
    <3> DEFINE A == At(a, type)
               B == At(b, type)
               n == Len(a)
               m == Len(b)
    <3>0. /\ n \in Nat /\ m \in Nat /\ Within(A, n) /\ Within(B, m) /\ B # {}
      BY <2>1, <2>2
    <3>1. LastOf(At(a \o b, type)) = n + LastOf(B) /\ LastOf(B) \in DOMAIN b
      <4> HIDE DEF A, B, n, m
      <4>1. LastOf(A \cup Shifted(n, B)) = n + LastOf(B) /\ LastOf(B) \in B
        BY <3>0, SplitLast
      <4> QED
        BY <2>1, <3>0, <4>1 DEF A, B, n, m, Within
    <3>2. Len(a) + LastOf(At(b, type)) \in At(a \o b, type)
      BY <2>1, <2>2, GreatestOf DEF Shifted
    <3>3. (a \o b)[Len(a) + LastOf(At(b, type))] = b[LastOf(At(b, type))]
      BY <3>1, SplitPositions
    <3>4. At(a, type) # {} => LastOf(At(a, type)) \in DOMAIN a
      BY <2>1, GreatestOf DEF Within
    <3> QED
      BY <2>2, <3>1, <3>2, <3>3, <3>4, SplitPositions
  <2>3. CASE At(b, type) = {}
    <3>1. At(a \o b, type) = At(a, type)
      BY <2>1, <2>3 DEF Shifted
    <3>2. At(a, type) # {} => LastOf(At(a, type)) \in DOMAIN a
      BY <2>1, GreatestOf DEF Within
    <3> QED
      BY <2>3, <3>1, <3>2, SplitPositions
  <2> QED
    BY <2>2, <2>3
<1>2. StateAfter(v, a \o b) = StateAfter(StateAfter(v, a), b)
  BY <1>1 DEF StateAfter
<1>3. StageAfter(v, a \o b) = StageAfter(StageAfter(v, a), b)
  BY <1>1 DEF StageAfter
<1> QED
  BY <1>2, <1>3

(* The counters of an execution are numbers. *)
Counts(x) == x.version \in Nat /\ \A n \in DOMAIN x.attempts : x.attempts[n] \in Nat

(* replay_execution and replay_from_snapshot: events applied in two parts give *)
(* the execution that they give as a whole.                                *)
THEOREM AppliedInParts ==
    ASSUME NEW S, NEW a \in Seq(S), NEW b \in Seq(S), NEW x, Counts(x)
    PROVE  /\ Applied(Applied(x, a), b) = Applied(x, a \o b)
           /\ Counts(Applied(x, a))
<1> DEFINE y == Applied(x, a)
           z == Applied(x, a \o b)
<1>1. /\ y.state = StateAfter(x.state, a) /\ z.state = StateAfter(x.state, a \o b)
      /\ y.stage = StageAfter(x.stage, a) /\ z.stage = StageAfter(x.stage, a \o b)
      /\ y.completed = x.completed \cup NodesAt(a, "node_completed")
      /\ z.completed = x.completed \cup NodesAt(a \o b, "node_completed")
      /\ y.failed = x.failed \cup NodesAt(a, "node_failed")
      /\ z.failed = x.failed \cup NodesAt(a \o b, "node_failed")
      /\ y.attempts = [n \in DOMAIN x.attempts |-> x.attempts[n] + Cardinality(Attempts(a, n))]
      /\ z.attempts = [n \in DOMAIN x.attempts |-> x.attempts[n] + Cardinality(Attempts(a \o b, n))]
      /\ y.version = x.version + Cardinality(Counted(a))
      /\ z.version = x.version + Cardinality(Counted(a \o b))
  BY DEF Applied, StateAfter, StageAfter, NodesAt
<1>2. Applied(y, b) =
        [state |-> StateAfter(y.state, b), stage |-> StageAfter(y.stage, b),
         completed |-> y.completed \cup NodesAt(b, "node_completed"),
         failed |-> y.failed \cup NodesAt(b, "node_failed"),
         attempts |-> [n \in DOMAIN y.attempts |-> y.attempts[n] + Cardinality(Attempts(b, n))],
         version |-> y.version + Cardinality(Counted(b))]
  BY DEF Applied, StateAfter, StageAfter, NodesAt
<1>3. z = [state |-> z.state, stage |-> z.stage, completed |-> z.completed,
           failed |-> z.failed, attempts |-> z.attempts, version |-> z.version]
  BY DEF Applied
<1> HIDE DEF y, z
<1>4. StateAfter(y.state, b) = z.state /\ StageAfter(y.stage, b) = z.stage
  BY <1>1, SplitAfter
<1>5. /\ y.completed \cup NodesAt(b, "node_completed") = z.completed
      /\ y.failed \cup NodesAt(b, "node_failed") = z.failed
  BY <1>1, SplitAt
<1>6. /\ DOMAIN y.attempts = DOMAIN x.attempts
      /\ \A n \in DOMAIN x.attempts :
           /\ y.attempts[n] \in Nat
           /\ y.attempts[n] + Cardinality(Attempts(b, n))
                = x.attempts[n] + Cardinality(Attempts(a \o b, n))
  <2>1. DOMAIN y.attempts = DOMAIN x.attempts
    BY <1>1
  <2>2. ASSUME NEW n \in DOMAIN x.attempts
        PROVE  /\ y.attempts[n] \in Nat
               /\ y.attempts[n] + Cardinality(Attempts(b, n))
                    = x.attempts[n] + Cardinality(Attempts(a \o b, n))
    <3>1. y.attempts[n] = x.attempts[n] + Cardinality(Attempts(a, n)) /\ x.attempts[n] \in Nat
      BY <1>1 DEF Counts
    <3>2. /\ Cardinality(Attempts(a, n)) \in Nat /\ Cardinality(Attempts(b, n)) \in Nat
          /\ Cardinality(Attempts(a \o b, n))
               = Cardinality(Attempts(a, n)) + Cardinality(Attempts(b, n))
      BY SplitCounts
    <3> QED
      BY <3>1, <3>2
  <2> QED
    BY <2>1, <2>2
<1>7. y.version + Cardinality(Counted(b)) = z.version /\ y.version \in Nat
  <2>1. /\ Cardinality(Counted(a)) \in Nat /\ Cardinality(Counted(b)) \in Nat
        /\ Cardinality(Counted(a \o b)) = Cardinality(Counted(a)) + Cardinality(Counted(b))
    BY SplitCounts
  <2>2. x.version \in Nat
    BY DEF Counts
  <2> QED
    BY <1>1, <2>1, <2>2
<1>8. [n \in DOMAIN y.attempts |-> y.attempts[n] + Cardinality(Attempts(b, n))] = z.attempts
  BY <1>1, <1>6
<1>9. Applied(y, b) = z
  BY <1>2, <1>3, <1>4, <1>5, <1>7, <1>8
<1>10. Counts(y)
  BY <1>6, <1>7 DEF Counts
<1> QED
  BY <1>9, <1>10 DEF y, z

-----------------------------------------------------------------------------
(* No events, and one. *)
LEMMA AtOne ==
    ASSUME NEW e, NEW type
    PROVE  /\ At(<<e>>, type) = (IF e.type = type THEN {1} ELSE {})
           /\ NodesAt(<<e>>, type) = (IF e.type = type THEN {e.node} ELSE {})
<1>1. At(<<e>>, type) = (IF e.type = type THEN {1} ELSE {})
  BY DEF At
<1> QED
  BY <1>1 DEF NodesAt

(* What one event counts. *)
LEMMA CountsOne ==
    ASSUME NEW e, NEW n
    PROVE  /\ Cardinality(Attempts(<<e>>, n)) =
                (IF e.type \in {"node_failed", "node_retry"} /\ e.node = n THEN 1 ELSE 0)
           /\ Cardinality(Counted(<<e>>)) = (IF e.type = "node_submitted" THEN 0 ELSE 1)
<1>1. Cardinality({1}) = 1 /\ Cardinality({}) = 0
  BY FS_Singleton, FS_EmptySet
<1>2. Attempts(<<e>>, n) =
        (IF e.type \in {"node_failed", "node_retry"} /\ e.node = n THEN {1} ELSE {})
  <2> DEFINE s == <<e>>
  <2>1. DOMAIN s = {1} /\ s[1] = e
    OBVIOUS
  <2> HIDE DEF s
  <2>2. Attempts(s, n) =
          (IF e.type \in {"node_failed", "node_retry"} /\ e.node = n THEN {1} ELSE {})
    BY <2>1 DEF Attempts, At
  <2> QED
    BY <2>2 DEF s
<1>3. Counted(<<e>>) = (IF e.type = "node_submitted" THEN {} ELSE {1})
  <2> DEFINE s == <<e>>
  <2>1. DOMAIN s = {1} /\ s[1] = e
    OBVIOUS
  <2> HIDE DEF s
  <2>2. Counted(s) = (IF e.type = "node_submitted" THEN {} ELSE {1})
    BY <2>1 DEF Counted, At
  <2> QED
    BY <2>2 DEF s
<1>4. Cardinality(Attempts(<<e>>, n)) =
        (IF e.type \in {"node_failed", "node_retry"} /\ e.node = n THEN 1 ELSE 0)
  BY <1>1, <1>2
<1>5. Cardinality(Counted(<<e>>)) = (IF e.type = "node_submitted" THEN 0 ELSE 1)
  BY <1>1, <1>3
<1> QED
  BY <1>4, <1>5

(* LastOf of one position. *)
LEMMA LastOfOne == LastOf({1}) = 1
<1>1. Within({1}, 1) /\ 1 \in Nat /\ {1} # {}
  BY DEF Within
<1>2. LastOf({1}) \in {1}
  BY <1>1, GreatestOf
<1> QED
  BY <1>2

(* The executions of a plan. *)
ExecutionState == DOMAIN ExecutionMoves

Execution(p) ==
    [state : ExecutionState \cup {NoStatus}, stage : 0..Len(p.stages),
     completed : SUBSET PlanNodes(p), failed : SUBSET PlanNodes(p),
     attempts : [PlanNodes(p) -> Nat], version : Nat]

(* An execution is the record of its six fields. *)
LEMMA ExecutionCounts ==
    ASSUME NEW p, NEW x \in Execution(p)
    PROVE  /\ Counts(x) /\ DOMAIN x.attempts = PlanNodes(p)
           /\ x = [state |-> x.state, stage |-> x.stage, completed |-> x.completed,
                   failed |-> x.failed, attempts |-> x.attempts, version |-> x.version]
BY DEF Execution, Counts

(* Executions with the same fields are the same. *)
LEMMA SameExecution ==
    ASSUME NEW p, NEW x \in Execution(p), NEW y \in Execution(p),
           x.state = y.state, x.stage = y.stage, x.completed = y.completed,
           x.failed = y.failed, x.attempts = y.attempts, x.version = y.version
    PROVE  x = y
BY ExecutionCounts

(* Applying no events changes nothing. *)
LEMMA AppliedNone ==
    ASSUME NEW p, NEW x \in Execution(p)
    PROVE  Applied(x, <<>>) = x
<1>1. /\ \A type : At(<<>>, type) = {} /\ \A n : Attempts(<<>>, n) = {}
      /\ Counted(<<>>) = {}
  BY DEF At, Attempts, Counted
<1>2. Cardinality({}) = 0
  BY FS_EmptySet
<1>3. /\ x.version \in Nat /\ \A n \in DOMAIN x.attempts : x.attempts[n] \in Nat
      /\ x.attempts = [n \in DOMAIN x.attempts |-> x.attempts[n]]
      /\ x = [state |-> x.state, stage |-> x.stage, completed |-> x.completed,
              failed |-> x.failed, attempts |-> x.attempts, version |-> x.version]
  BY ExecutionCounts DEF Counts, Execution
<1>4. [n \in DOMAIN x.attempts |-> x.attempts[n] + Cardinality(Attempts(<<>>, n))] = x.attempts
  <2>1. \A n : Cardinality(Attempts(<<>>, n)) = 0
    BY <1>1, <1>2
  <2>2. \A n \in DOMAIN x.attempts : x.attempts[n] + Cardinality(Attempts(<<>>, n)) = x.attempts[n]
    BY <1>3, <2>1
  <2> QED
    BY <1>3, <2>2
<1>5. x.version + Cardinality(Counted(<<>>)) = x.version
  <2>1. Cardinality(Counted(<<>>)) = 0
    BY <1>1, <1>2
  <2> QED
    BY <1>3, <2>1
<1> QED
  BY <1>1, <1>3, <1>4, <1>5 DEF Applied

(* What one event does to an execution. *)
LEMMA AppliedOne ==
    ASSUME NEW p, NEW x \in Execution(p), NEW z \in Execution(p), NEW e,
           z.state = (IF e.type = "state_transition" THEN e.new ELSE x.state),
           z.stage = (IF e.type = "stage_advanced" THEN e.stage + 1 ELSE x.stage),
           z.completed = x.completed \cup (IF e.type = "node_completed" THEN {e.node} ELSE {}),
           z.failed = x.failed \cup (IF e.type = "node_failed" THEN {e.node} ELSE {}),
           \A n \in PlanNodes(p) : z.attempts[n] =
                (IF e.type \in {"node_failed", "node_retry"} /\ e.node = n
                 THEN x.attempts[n] + 1 ELSE x.attempts[n]),
           z.version = (IF e.type = "node_submitted" THEN x.version ELSE x.version + 1)
    PROVE  Applied(x, <<e>>) = z
<1> DEFINE y == Applied(x, <<e>>)
<1>1. /\ y.state = StateAfter(x.state, <<e>>) /\ y.stage = StageAfter(x.stage, <<e>>)
      /\ y.completed = x.completed \cup NodesAt(<<e>>, "node_completed")
      /\ y.failed = x.failed \cup NodesAt(<<e>>, "node_failed")
      /\ y.attempts = [n \in DOMAIN x.attempts |-> x.attempts[n] + Cardinality(Attempts(<<e>>, n))]
      /\ y.version = x.version + Cardinality(Counted(<<e>>))
      /\ y = [state |-> y.state, stage |-> y.stage, completed |-> y.completed,
              failed |-> y.failed, attempts |-> y.attempts, version |-> y.version]
  BY DEF Applied, StateAfter, StageAfter, NodesAt
<1>2. DOMAIN x.attempts = PlanNodes(p) /\ Counts(x)
  BY ExecutionCounts
<1> HIDE DEF y
<1>3. StateAfter(x.state, <<e>>) = (IF e.type = "state_transition" THEN e.new ELSE x.state)
  <2> DEFINE s == <<e>>
  <2>1. s[1] = e /\ At(s, "state_transition") = (IF e.type = "state_transition" THEN {1} ELSE {})
    BY AtOne
  <2> HIDE DEF s
  <2>2. StateAfter(x.state, s) = (IF e.type = "state_transition" THEN e.new ELSE x.state)
    BY <2>1, LastOfOne DEF StateAfter
  <2> QED
    BY <2>2 DEF s
<1>4. StageAfter(x.stage, <<e>>) = (IF e.type = "stage_advanced" THEN e.stage + 1 ELSE x.stage)
  <2> DEFINE s == <<e>>
  <2>1. s[1] = e /\ At(s, "stage_advanced") = (IF e.type = "stage_advanced" THEN {1} ELSE {})
    BY AtOne
  <2> HIDE DEF s
  <2>2. StageAfter(x.stage, s) = (IF e.type = "stage_advanced" THEN e.stage + 1 ELSE x.stage)
    BY <2>1, LastOfOne DEF StageAfter
  <2> QED
    BY <2>2 DEF s
<1>5. \A n \in PlanNodes(p) : y.attempts[n] =
        (IF e.type \in {"node_failed", "node_retry"} /\ e.node = n
         THEN x.attempts[n] + 1 ELSE x.attempts[n])
  BY <1>1, <1>2, CountsOne DEF Counts
<1>6. y.version = (IF e.type = "node_submitted" THEN x.version ELSE x.version + 1)
  BY <1>1, <1>2, CountsOne DEF Counts
<1>7. DOMAIN y.attempts = PlanNodes(p) /\ y.attempts = [n \in PlanNodes(p) |-> y.attempts[n]]
  BY <1>1, <1>2
<1>8. /\ z = [state |-> z.state, stage |-> z.stage, completed |-> z.completed,
              failed |-> z.failed, attempts |-> z.attempts, version |-> z.version]
      /\ z.attempts = [n \in PlanNodes(p) |-> z.attempts[n]]
  BY DEF Execution
<1>9. y.state = z.state /\ y.stage = z.stage /\ y.version = z.version
  BY <1>1, <1>3, <1>4, <1>6
<1>10. y.completed = z.completed /\ y.failed = z.failed
  BY <1>1, AtOne
<1>11. \A n \in PlanNodes(p) : z.attempts[n] = y.attempts[n]
  BY <1>5
<1>12. z.attempts = y.attempts
  BY <1>7, <1>8, <1>11
<1> QED
  BY <1>1, <1>8, <1>9, <1>10, <1>12 DEF y

-----------------------------------------------------------------------------
(* The state before event i. *)
Previous(state, events, i) ==
    LET before == {j \in At(events, "state_transition") : j < i} IN
    IF before = {} THEN state ELSE events[LastOf(before)].new

(* The state before an event of the second part is the state after the     *)
(* first.                                                                  *)
LEMMA PreviousInParts ==
    ASSUME NEW S, NEW a \in Seq(S), NEW b \in Seq(S), NEW v
    PROVE  /\ \A i \in DOMAIN a : Previous(v, a \o b, i) = Previous(v, a, i)
           /\ \A k \in DOMAIN b :
                Previous(v, a \o b, Len(a) + k) = Previous(StateAfter(v, a), b, k)
<1> DEFINE t == "state_transition"
           n == Len(a)
           A == At(a, t)
           B == At(b, t)
           C == At(a \o b, t)
<1>1. /\ Within(A, n) /\ Within(B, Len(b)) /\ C = A \cup Shifted(n, B)
      /\ n \in Nat /\ Len(b) \in Nat
      /\ DOMAIN a = 1..n /\ DOMAIN b = 1..Len(b)
      /\ \A i \in DOMAIN a : (a \o b)[i] = a[i]
      /\ \A k \in DOMAIN b : (a \o b)[n + k] = b[k]
  BY SplitAt, SplitPositions
<1> HIDE DEF t
<1>2. ASSUME NEW i \in DOMAIN a
      PROVE  Previous(v, a \o b, i) = Previous(v, a, i)
  <2> DEFINE X == {j \in A : j < i}
  <2>1. {j \in C : j < i} = X
    <3> HIDE DEF A, B, C, n
    <3>1. \A j \in Shifted(n, B) : ~ (j < i)
      BY <1>1 DEF Shifted, Within
    <3> QED
      BY <1>1, <3>1
  <2>2. X # {} => LastOf(X) \in DOMAIN a
    <3>1. Within(X, n)
      BY <1>1 DEF Within
    <3> QED
      BY <1>1, <3>1, GreatestOf DEF Within
  <2>3. X # {} => (a \o b)[LastOf(X)] = a[LastOf(X)]
    BY <1>1, <2>2
  <2> QED
    BY <2>1, <2>3 DEF Previous, t
<1>3. ASSUME NEW k \in DOMAIN b
      PROVE  Previous(v, a \o b, n + k) = Previous(StateAfter(v, a), b, k)
  <2> DEFINE X == {j \in B : j < k}
             Y == {j \in C : j < n + k}
  <2>0. Within(X, Len(b))
    BY <1>1 DEF Within
  <2>1. Y = A \cup Shifted(n, X)
    <3> HIDE DEF A, B, C, n
    <3>1. \A j \in A : j < n + k
      BY <1>1 DEF Within
    <3>2. \A j \in B : n + j < n + k <=> j < k
      BY <1>1 DEF Within
    <3> QED
      BY <1>1, <3>1, <3>2 DEF Shifted
  <2> HIDE DEF A, B, C, n
  <2>2. CASE X # {}
    <3>1. LastOf(A \cup Shifted(n, X)) = n + LastOf(X) /\ LastOf(X) \in X
      <4> HIDE DEF X
      <4> QED
        BY <1>1, <2>0, <2>2, SplitLast
    <3>2. Y # {} /\ (a \o b)[LastOf(Y)] = b[LastOf(X)]
      <4>1. LastOf(X) \in DOMAIN b
        BY <2>0, <3>1, <1>1 DEF Within
      <4> HIDE DEF X, Y
      <4> QED
        BY <1>1, <2>1, <3>1, <4>1 DEF Shifted
    <3> QED
      BY <2>2, <3>2 DEF Previous, A, B, C, n, t
  <2>3. CASE X = {}
    <3>1. Y = A
      BY <2>1, <2>3 DEF Shifted
    <3>2. A # {} => (a \o b)[LastOf(A)] = a[LastOf(A)]
      BY <1>1, GreatestOf DEF Within
    <3> QED
      BY <2>3, <3>1, <3>2 DEF Previous, StateAfter, A, B, C, n, t
  <2> QED
    BY <2>2, <2>3
<1> QED
  BY <1>2, <1>3

(* The events continue the lineage of an execution: nothing follows a final *)
(* state, every transition is a legal move from the state before it, and no *)
(* node completes twice or fails after it completed.                       *)
Continues(x, events) ==
    /\ events # <<>> => x.state \notin TerminalExecutionState
    /\ \A i \in At(events, "state_transition") :
         /\ events[i].old = Previous(x.state, events, i)
         /\ Previous(x.state, events, i) # NoStatus =>
              events[i].new \in ExecutionMoves[Previous(x.state, events, i)]
    /\ NothingAfterTerminal(events)
    /\ NodesOnce(x.completed, events)

(* A continuation of a continuation is one. *)
LEMMA ContinuesInParts ==
    ASSUME NEW S, NEW a \in Seq(S), NEW b \in Seq(S), NEW x,
           Continues(x, a), Continues(Applied(x, a), b)
    PROVE  Continues(x, a \o b)
<1> DEFINE c == a \o b
           n == Len(a)
           y == Applied(x, a)
<1>1. /\ n \in Nat /\ Len(b) \in Nat /\ Len(c) = n + Len(b)
      /\ DOMAIN a = 1..n /\ DOMAIN b = 1..Len(b)
      /\ DOMAIN c = DOMAIN a \cup Shifted(n, DOMAIN b)
      /\ \A i \in DOMAIN a : c[i] = a[i] /\ i \in Nat /\ i <= n
      /\ \A k \in DOMAIN b : c[n + k] = b[k] /\ k \in Nat /\ k > 0
  BY SplitPositions
<1>2. y.state = StateAfter(x.state, a) /\ y.completed = x.completed \cup NodesAt(a, "node_completed")
  BY DEF Applied, StateAfter, NodesAt
<1>3. ASSUME NEW type
      PROVE  /\ At(c, type) = At(a, type) \cup Shifted(n, At(b, type))
             /\ At(a, type) \subseteq DOMAIN a /\ At(b, type) \subseteq DOMAIN b
  <2>1. At(c, type) = At(a, type) \cup Shifted(n, At(b, type))
    BY SplitAt
  <2> QED
    BY <2>1 DEF At
<1>4. /\ \A i \in DOMAIN a : Previous(x.state, c, i) = Previous(x.state, a, i)
      /\ \A k \in DOMAIN b : Previous(x.state, c, n + k) = Previous(y.state, b, k)
  BY <1>2, PreviousInParts
<1>5. b # <<>> => y.state \notin TerminalExecutionState
  BY DEF Continues
<1>6. c # <<>> => x.state \notin TerminalExecutionState
  <2>1. CASE a = <<>>
    <3>1. y.state = x.state /\ c = b
      BY <1>2, <2>1 DEF StateAfter, At
    <3> QED
      BY <1>5, <3>1
  <2>2. CASE a # <<>>
    BY <2>2 DEF Continues
  <2> QED
    BY <2>1, <2>2
<1> HIDE DEF c, n, y
<1>7. ASSUME NEW i \in At(c, "state_transition")
      PROVE  /\ c[i].old = Previous(x.state, c, i)
             /\ Previous(x.state, c, i) # NoStatus =>
                  c[i].new \in ExecutionMoves[Previous(x.state, c, i)]
             /\ c[i].new \in TerminalExecutionState => i = Len(c)
  <2>1. CASE i \in At(a, "state_transition")
    <3>1. i \in DOMAIN a /\ c[i] = a[i] /\ Previous(x.state, c, i) = Previous(x.state, a, i)
      BY <1>1, <1>3, <1>4, <2>1
    <3>2. ASSUME a[i].new \in TerminalExecutionState
          PROVE  i = Len(c)
      <4>1. i = n
        BY <2>1, <3>2 DEF Continues, NothingAfterTerminal, n
      <4>2. StateAfter(x.state, a) = a[i].new
        <5>1. Within(At(a, "state_transition"), n) /\ i = LastOf(At(a, "state_transition"))
          <6>1. Within(At(a, "state_transition"), n)
            BY <1>1, <1>3 DEF Within
          <6>2. \A j \in At(a, "state_transition") : j <= i
            BY <1>1, <1>3, <4>1
          <6> QED
            BY <1>1, <2>1, <6>1, <6>2, GreatestOf
        <5> QED
          BY <2>1, <5>1 DEF StateAfter
      <4>3. b = <<>>
        BY <1>2, <1>5, <3>2, <4>2
      <4> QED
        BY <1>1, <4>1, <4>3
    <3> QED
      BY <2>1, <3>1, <3>2 DEF Continues
  <2>2. ASSUME NEW k \in At(b, "state_transition"), i = n + k
        PROVE  /\ c[i].old = Previous(x.state, c, i)
               /\ Previous(x.state, c, i) # NoStatus =>
                    c[i].new \in ExecutionMoves[Previous(x.state, c, i)]
               /\ c[i].new \in TerminalExecutionState => i = Len(c)
    <3>1. k \in DOMAIN b /\ c[i] = b[k] /\ Previous(x.state, c, i) = Previous(y.state, b, k)
      BY <1>1, <1>3, <1>4, <2>2
    <3>2. /\ b[k].old = Previous(y.state, b, k)
          /\ Previous(y.state, b, k) # NoStatus =>
               b[k].new \in ExecutionMoves[Previous(y.state, b, k)]
          /\ b[k].new \in TerminalExecutionState => k = Len(b)
      BY <2>2 DEF Continues, NothingAfterTerminal, y
    <3> QED
      BY <1>1, <2>2, <3>1, <3>2
  <2> QED
    BY <1>3, <2>1, <2>2 DEF Shifted
<1>8. ASSUME NEW j \in DOMAIN c, c[j].type \in {"node_completed", "node_failed"}
      PROVE  /\ c[j].node \notin x.completed
             /\ \A i \in At(c, "node_completed") : i < j => c[i].node # c[j].node
  <2>1. CASE j \in DOMAIN a
    <3>1. /\ a[j].node \notin x.completed
          /\ \A i \in At(a, "node_completed") : i < j => a[i].node # a[j].node
      BY <1>1, <1>8, <2>1 DEF Continues, NodesOnce
    <3>2. ASSUME NEW i \in At(c, "node_completed"), i < j
          PROVE  i \in At(a, "node_completed")
      <4>1. \A k \in At(b, "node_completed") : ~ (n + k < j)
        BY <1>1, <1>3, <2>1
      <4> QED
        BY <1>3, <3>2, <4>1 DEF Shifted
    <3> QED
      BY <1>1, <1>3, <2>1, <3>1, <3>2
  <2>2. ASSUME NEW l \in DOMAIN b, j = n + l
        PROVE  /\ c[j].node \notin x.completed
               /\ \A i \in At(c, "node_completed") : i < j => c[i].node # c[j].node
    <3>1. /\ b[l].node \notin y.completed
          /\ \A i \in At(b, "node_completed") : i < l => b[i].node # b[l].node
          /\ c[j] = b[l]
      BY <1>1, <1>8, <2>2 DEF Continues, NodesOnce, y
    <3>2. \A i \in At(a, "node_completed") : c[i].node # c[j].node
      BY <1>1, <1>2, <1>3, <3>1 DEF NodesAt
    <3>3. ASSUME NEW k \in At(b, "node_completed"), n + k < j
          PROVE  c[n + k].node # c[j].node
      BY <1>1, <1>3, <2>2, <3>1, <3>3
    <3> QED
      BY <1>2, <1>3, <3>1, <3>2, <3>3 DEF Shifted
  <2> QED
    BY <1>1, <2>1, <2>2 DEF Shifted
<1> QED
  BY <1>6, <1>7, <1>8 DEF Continues, NothingAfterTerminal, NodesOnce, c

(* No event, one event, and events that neither move nor settle a node.    *)
LEMMA ContinuesOne ==
    ASSUME NEW x, NEW e, x.state \notin TerminalExecutionState,
           e.type = "state_transition" =>
               e.old = x.state /\ (x.state # NoStatus => e.new \in ExecutionMoves[x.state]),
           e.type \in {"node_completed", "node_failed"} => e.node \notin x.completed
    PROVE  Continues(x, <<e>>)
<1> DEFINE s == <<e>>
<1>1. DOMAIN s = {1} /\ s[1] = e /\ Len(s) = 1
  OBVIOUS
<1>2. At(s, "state_transition") \subseteq {1} /\ (1 \in At(s, "state_transition") => e.type = "state_transition")
  BY <1>1 DEF At
<1> HIDE DEF s
<1>3. Previous(x.state, s, 1) = x.state
  BY <1>2 DEF Previous
<1>4. Continues(x, s)
  BY <1>1, <1>2, <1>3 DEF Continues, NothingAfterTerminal, NodesOnce, At
<1> QED
  BY <1>4 DEF s

(* Events that neither move the state nor end a node continue what is open. *)
LEMMA ContinuesQuietly ==
    ASSUME NEW S, NEW x, NEW events \in Seq(S), x.state \notin TerminalExecutionState,
           \A i \in DOMAIN events :
               events[i].type \notin {"state_transition", "node_completed", "node_failed"}
    PROVE  Continues(x, events)
BY DEF Continues, NothingAfterTerminal, NodesOnce, At

(* No events continue anything. *)
LEMMA ContinuesNone ==
    ASSUME NEW x
    PROVE  Continues(x, <<>>)
BY DEF Continues, NothingAfterTerminal, NodesOnce, At

(* A continuation of a snapshot is a valid delta. *)
LEMMA DeltaIsValid ==
    ASSUME NEW x, NEW events, Continues(x, events)
    PROVE  DeltaValid(x, events)
BY DEF Continues, DeltaValid, MovesFrom, Previous

(* What is there before the first event of an execution. *)
Blank(p) ==
    [state |-> NoStatus, stage |-> 0, completed |-> {}, failed |-> {},
     attempts |-> [n \in PlanNodes(p) |-> 0], version |-> 0]

(* Replay starts from an execution with no state. *)
LEMMA BlankIsExecution ==
    ASSUME NEW p, Len(p.stages) \in Nat
    PROVE  /\ Blank(p) \in Execution(p) /\ Initialized(p) \in Execution(p)
           /\ [Initialized(p) EXCEPT !.version = 0] =
                [state |-> "initialized", stage |-> 0, completed |-> {}, failed |-> {},
                 attempts |-> [n \in PlanNodes(p) |-> 0], version |-> 0]
<1>1. "initialized" \in ExecutionState
  BY DEF ExecutionState, ExecutionMoves
<1>2. [n \in PlanNodes(p) |-> 0] \in [PlanNodes(p) -> Nat] /\ 0 \in 0..Len(p.stages)
  OBVIOUS
<1>3. Blank(p) \in Execution(p)
  BY <1>2 DEF Execution, Blank
<1>4. Initialized(p) \in Execution(p)
  BY <1>1, <1>2 DEF Execution, Initialized
<1>5. [Initialized(p) EXCEPT !.version = 0] =
           [state |-> "initialized", stage |-> 0, completed |-> {}, failed |-> {},
            attempts |-> [n \in PlanNodes(p) |-> 0], version |-> 0]
  <2> DEFINE x == Initialized(p)
             y == [x EXCEPT !.version = 0]
             z == [state |-> "initialized", stage |-> 0, completed |-> {}, failed |-> {},
                   attempts |-> [n \in PlanNodes(p) |-> 0], version |-> 0]
  <2>1. /\ x.state = "initialized" /\ x.stage = 0 /\ x.completed = {} /\ x.failed = {}
        /\ x.attempts = [n \in PlanNodes(p) |-> 0]
    BY DEF Initialized
  <2>2. z \in Execution(p)
    BY <1>1, <1>2 DEF Execution
  <2> HIDE DEF x
  <2>3. /\ y \in Execution(p) /\ y.state = x.state /\ y.stage = x.stage
        /\ y.completed = x.completed /\ y.failed = x.failed /\ y.attempts = x.attempts
        /\ y.version = 0
    BY <1>4 DEF Execution, x
  <2>4. /\ z.state = "initialized" /\ z.stage = 0 /\ z.completed = {} /\ z.failed = {}
        /\ z.attempts = [n \in PlanNodes(p) |-> 0] /\ z.version = 0
    OBVIOUS
  <2> HIDE DEF y, z
  <2>5. y = z
    BY <2>1, <2>2, <2>3, <2>4, SameExecution
  <2> QED
    BY <2>5 DEF x, y, z
<1> QED
  BY <1>3, <1>4, <1>5

(* validate_lineage accepts what continues nothing and begins with the event *)
(* of initialize_execution; replay_execution begins from there as well.    *)
LEMMA LineageIsValid ==
    ASSUME NEW p, NEW S, NEW log \in Seq(S), log # <<>>, log[1] = InitEvent,
           Continues(Blank(p), log)
    PROVE  LineageValid(log) /\ Replayed(log, p) = Applied(Blank(p), log)
<1> DEFINE moves == At(log, "state_transition")
<1>1. Blank(p).state = NoStatus /\ Blank(p).completed = {}
  BY DEF Blank
<1>2. log[1].type = "state_transition" /\ log[1].new = "initialized" /\ 1 \in DOMAIN log
  BY DEF InitEvent, StateEvent
<1>3. 1 \in moves
  BY <1>2 DEF At
<1>4. \A i \in moves : /\ log[i].old = Previous(NoStatus, log, i)
                       /\ Previous(NoStatus, log, i) # NoStatus =>
                            log[i].new \in ExecutionMoves[Previous(NoStatus, log, i)]
  BY <1>1 DEF Continues
<1>5. MovesFrom(NoStatus, log)
  BY <1>4 DEF MovesFrom, Previous
<1>6. \A i \in moves : i > 1 => log[i].old = log[LastOf({j \in moves : j < i})].new
  BY <1>3, <1>4 DEF Previous
<1>7. LineageValid(log)
  BY <1>1, <1>2, <1>5, <1>6 DEF LineageValid, Continues
<1>8. Replayed(log, p) = Applied(Blank(p), log)
  BY <1>3 DEF Replayed, Applied, Blank, Initialized
<1> QED
  BY <1>7, <1>8

-----------------------------------------------------------------------------
(* The executor: what each call returns.  The events of a step from x to y. *)
Event ==
    [type : {"state_transition", "node_completed", "node_failed", "node_retry",
             "node_submitted", "stage_advanced"},
     old : ExecutionState \cup {NoStatus}, new : ExecutionState \cup {NoStatus},
     node : Nat, stage : Nat]

Follows(x, events, y, p) ==
    /\ y \in Execution(p)
    /\ events \in Seq(Event)
    /\ Applied(x, events) = y
    /\ Continues(x, events)

(* Steps can be put together. *)
LEMMA FollowsInParts ==
    ASSUME NEW p, NEW x \in Execution(p), NEW y, NEW z, NEW a, NEW b,
           Follows(x, a, y, p), Follows(y, b, z, p)
    PROVE  Follows(x, a \o b, z, p)
<1>1. /\ a \in Seq(Event) /\ b \in Seq(Event) /\ Counts(x)
      /\ Applied(x, a) = y /\ Applied(y, b) = z /\ Continues(x, a) /\ Continues(y, b)
  BY ExecutionCounts DEF Follows
<1>2. Applied(x, a \o b) = z
  BY <1>1, AppliedInParts
<1>3. Continues(x, a \o b)
  BY <1>1, ContinuesInParts
<1> QED
  BY <1>1, <1>2, <1>3 DEF Follows

(* No events, no step. *)
LEMMA FollowsNone ==
    ASSUME NEW p, NEW x \in Execution(p)
    PROVE  Follows(x, <<>>, x, p)
BY AppliedNone, ContinuesNone DEF Follows

(* The states and the plain fields of an execution. *)
LEMMA Fields ==
    ASSUME NEW p, NEW x \in Execution(p)
    PROVE  /\ x.state \in ExecutionState \cup {NoStatus} /\ x.stage \in 0..Len(p.stages)
           /\ x.completed \in SUBSET PlanNodes(p) /\ x.failed \in SUBSET PlanNodes(p)
           /\ x.attempts \in [PlanNodes(p) -> Nat] /\ x.version \in Nat
BY DEF Execution

(* _transition *)
LEMMA MovedIs ==
    ASSUME NEW p, NEW x \in Execution(p), NEW new \in ExecutionState
    PROVE  /\ Moved(x, new) \in Execution(p) /\ Moved(x, new).state = new
           /\ Moved(x, new).stage = x.stage /\ Moved(x, new).completed = x.completed
           /\ Moved(x, new).failed = x.failed /\ Moved(x, new).attempts = x.attempts
           /\ Moved(x, new).version = x.version + 1
<1>1. x.version + 1 \in Nat
  BY Fields
<1> DEFINE v == x.version + 1
<1>2. Moved(x, new) = [x EXCEPT !.state = new, !.version = v]
  BY DEF Moved
<1> HIDE DEF v
<1>3. v \in Nat
  BY <1>1 DEF v
<1>4. LET y == [x EXCEPT !.state = new, !.version = v] IN
      /\ y \in Execution(p) /\ y.state = new /\ y.stage = x.stage
      /\ y.completed = x.completed /\ y.failed = x.failed /\ y.attempts = x.attempts
      /\ y.version = v
  BY <1>3 DEF Execution
<1> QED
  BY <1>2, <1>4 DEF v

(* Moves lead to states, and no move leaves a terminal one. *)
LEMMA Legal ==
    ASSUME NEW s \in ExecutionState
    PROVE  /\ ExecutionMoves[s] \subseteq ExecutionState
           /\ NoStatus \notin ExecutionState
           /\ s \in TerminalExecutionState => ExecutionMoves[s] = {}
BY DEF ExecutionState, ExecutionMoves, TerminalExecutionState, NoStatus

(* A permitted move is a step with its event. *)
LEMMA MovedFollows ==
    ASSUME NEW p, NEW x \in Execution(p), NEW new, x.state \in ExecutionState,
           new \in ExecutionMoves[x.state], Len(p.stages) \in Nat
    PROVE  Follows(x, <<MoveEvent(x, new)>>, Moved(x, new), p)
<1> DEFINE e == MoveEvent(x, new)
           y == Moved(x, new)
           z == Applied(x, <<e>>)
<1>1. new \in ExecutionState /\ x.state \notin TerminalExecutionState
  BY Legal
<1>2. /\ e.type = "state_transition" /\ e.old = x.state /\ e.new = new /\ e \in Event
  BY <1>1, Fields DEF MoveEvent, StateEvent, NoNode, Event
<1> HIDE DEF e
<1>3. /\ y \in Execution(p) /\ y.state = new
      /\ y.stage = x.stage /\ y.completed = x.completed
      /\ y.failed = x.failed /\ y.attempts = x.attempts /\ y.version = x.version + 1
  BY <1>1, MovedIs
<1>4. z = y
  <2> HIDE DEF y
  <2>1. y.state = (IF e.type = "state_transition" THEN e.new ELSE x.state)
    BY <1>2, <1>3
  <2>2. \A n \in PlanNodes(p) : y.attempts[n] =
          (IF e.type \in {"node_failed", "node_retry"} /\ e.node = n
           THEN x.attempts[n] + 1 ELSE x.attempts[n])
    BY <1>2, <1>3
  <2> QED
    BY <1>2, <1>3, <2>1, <2>2, AppliedOne
<1>5. Continues(x, <<e>>)
  BY <1>1, <1>2, ContinuesOne
<1> QED
  BY <1>2, <1>3, <1>4, <1>5 DEF Follows, e

(* record_node_completed, the node marked; the event may carry any stage. *)
Marked(x, n) == [x EXCEPT !.completed = @ \cup {n}, !.version = @ + 1]

(* Completing a node is a step with its event, whatever the stage it names. *)
LEMMA MarkedFollows ==
    ASSUME NEW p, StagedPlan(p), NEW x \in Execution(p), NEW n \in PlanNodes(p),
           NEW k \in Nat,
           x.state \notin TerminalExecutionState, n \notin x.completed
    PROVE  /\ Follows(x, <<NodeEvent("node_completed", n, k)>>, Marked(x, n), p)
           /\ LET y == Marked(x, n) IN
              /\ y.state = x.state /\ y.stage = x.stage /\ y.completed = x.completed \cup {n}
              /\ y.failed = x.failed /\ y.attempts = x.attempts
<1> DEFINE e == NodeEvent("node_completed", n, k)
           y == Marked(x, n)
           done == x.completed \cup {n}
           v == x.version + 1
<1>1. v \in Nat /\ done \in SUBSET PlanNodes(p) /\ n \in Nat
  BY Fields DEF StagedPlan
<1>2. /\ e.type = "node_completed" /\ e.node = n /\ e \in Event
  BY <1>1 DEF NodeEvent, Event
<1>3. y = [x EXCEPT !.completed = done, !.version = v]
  BY DEF Marked
<1> HIDE DEF e, y, v, done
<1>4. /\ y \in Execution(p) /\ y.state = x.state /\ y.stage = x.stage /\ y.completed = done
      /\ y.failed = x.failed /\ y.attempts = x.attempts /\ y.version = v
  BY <1>1, <1>3 DEF Execution
<1>5. Applied(x, <<e>>) = y
  BY <1>2, <1>4, AppliedOne DEF v, done
<1>6. Continues(x, <<e>>)
  BY <1>2, ContinuesOne
<1> QED
  BY <1>2, <1>4, <1>5, <1>6 DEF Follows, e, y, done

(* record_node_failed, the attempt counted. *)
Tried(x, n) == [x EXCEPT !.attempts[n] = @ + 1, !.version = @ + 1]
Given(x, n) == [Tried(x, n) EXCEPT !.failed = @ \cup {n}]

AfterAttempt(x, n, y, p) ==
    /\ y \in Execution(p)
    /\ y.state = x.state /\ y.stage = x.stage /\ y.completed = x.completed
    /\ y.attempts = [x.attempts EXCEPT ![n] = @ + 1] /\ y.version = x.version + 1
    /\ \A m \in PlanNodes(p) :
         y.attempts[m] = (IF m = n THEN x.attempts[m] + 1 ELSE x.attempts[m])

(* A failed attempt counts for its node and moves nothing else. *)
LEMMA TriedIs ==
    ASSUME NEW p, NEW x \in Execution(p), NEW n \in PlanNodes(p)
    PROVE  /\ AfterAttempt(x, n, Tried(x, n), p) /\ Tried(x, n).failed = x.failed
           /\ AfterAttempt(x, n, Given(x, n), p) /\ Given(x, n).failed = x.failed \cup {n}
<1> DEFINE y == Tried(x, n)
           z == Given(x, n)
           tries == [x.attempts EXCEPT ![n] = @ + 1]
           v == x.version + 1
           lost == x.failed \cup {n}
<1>1. /\ v \in Nat /\ tries \in [PlanNodes(p) -> Nat] /\ lost \in SUBSET PlanNodes(p)
      /\ \A m \in PlanNodes(p) : tries[m] = (IF m = n THEN x.attempts[m] + 1 ELSE x.attempts[m])
  BY Fields
<1>2. y = [x EXCEPT !.attempts = tries, !.version = v]
  BY DEF Tried
<1> HIDE DEF y, tries, v
<1>3. /\ y \in Execution(p) /\ y.state = x.state /\ y.stage = x.stage
      /\ y.completed = x.completed /\ y.failed = x.failed /\ y.attempts = tries /\ y.version = v
  BY <1>1, <1>2 DEF Execution
<1>4. z = [y EXCEPT !.failed = lost]
  BY <1>3 DEF Given, y
<1> HIDE DEF z, lost
<1>5. /\ z \in Execution(p) /\ z.state = y.state /\ z.stage = y.stage
      /\ z.completed = y.completed /\ z.failed = lost /\ z.attempts = y.attempts
      /\ z.version = y.version
  BY <1>1, <1>3, <1>4 DEF Execution
<1> QED
  BY <1>1, <1>3, <1>5 DEF AfterAttempt, y, z, tries, v, lost

(* It is a step with either of its events. *)
LEMMA TriedFollows ==
    ASSUME NEW p, StagedPlan(p), NEW x \in Execution(p), NEW n \in PlanNodes(p),
           x.state \notin TerminalExecutionState, n \notin x.completed
    PROVE  /\ Follows(x, <<NodeEvent("node_retry", n, x.stage)>>, Tried(x, n), p)
           /\ Follows(x, <<NodeEvent("node_failed", n, x.stage)>>, Given(x, n), p)
<1>1. n \in Nat /\ x.stage \in Nat
  BY Fields DEF StagedPlan
<1>2. ASSUME NEW y, NEW type,
             \/ y = Tried(x, n) /\ type = "node_retry"
             \/ y = Given(x, n) /\ type = "node_failed"
      PROVE  Follows(x, <<NodeEvent(type, n, x.stage)>>, y, p)
  <2> DEFINE e == NodeEvent(type, n, x.stage)
  <2>1. /\ e.type = type /\ e.node = n /\ e \in Event
    BY <1>1, <1>2 DEF NodeEvent, Event
  <2> HIDE DEF e
  <2>2. /\ y \in Execution(p) /\ y.state = x.state /\ y.stage = x.stage
        /\ y.completed = x.completed /\ y.version = x.version + 1
        /\ \A m \in PlanNodes(p) :
             y.attempts[m] = (IF m = n THEN x.attempts[m] + 1 ELSE x.attempts[m])
        /\ y.failed = x.failed \cup (IF type = "node_failed" THEN {n} ELSE {})
    <3>1. /\ AfterAttempt(x, n, y, p)
          /\ y.failed = x.failed \cup (IF type = "node_failed" THEN {n} ELSE {})
      BY <1>2, TriedIs
    <3> QED
      BY <3>1 DEF AfterAttempt
  <2>3. \A m \in PlanNodes(p) : y.attempts[m] =
          (IF e.type \in {"node_failed", "node_retry"} /\ e.node = m
           THEN x.attempts[m] + 1 ELSE x.attempts[m])
    BY <1>2, <2>1, <2>2
  <2>4. Applied(x, <<e>>) = y
    BY <1>2, <2>1, <2>2, <2>3, AppliedOne
  <2>5. Continues(x, <<e>>)
    BY <1>2, <2>1, ContinuesOne
  <2> QED
    BY <2>1, <2>2, <2>4, <2>5 DEF Follows, e
<1> QED
  BY <1>2

(* step_execution *)
LEMMA SubmitFollows ==
    ASSUME NEW p, StagedPlan(p), NEW x \in Execution(p), NEW n \in PlanNodes(p),
           x.state \notin TerminalExecutionState
    PROVE  Follows(x, <<NodeEvent("node_submitted", n, x.stage)>>, x, p)
<1> DEFINE e == NodeEvent("node_submitted", n, x.stage)
<1>1. n \in Nat /\ x.stage \in Nat
  BY Fields DEF StagedPlan
<1>2. e.type = "node_submitted" /\ e \in Event
  BY <1>1 DEF NodeEvent, Event
<1> HIDE DEF e
<1>3. Applied(x, <<e>>) = x
  BY <1>2, AppliedOne
<1>4. Continues(x, <<e>>)
  BY <1>2, ContinuesOne
<1> QED
  BY <1>2, <1>3, <1>4 DEF Follows, e

(* _advance_stage_if_needed: the loop stops somewhere, and there it has counted *)
(* every stage it passed, and the next one is not complete.                *)
LEMMA FrontierIs ==
    ASSUME NEW p, StagedPlan(p), NEW x \in Execution(p)
    PROVE  /\ Frontier(x, p) \in x.stage..Len(p.stages)
           /\ \A i \in (x.stage + 1)..Frontier(x, p) : p.stages[i] \subseteq x.completed
           /\ Frontier(x, p) < Len(p.stages) =>
                ~ (p.stages[Frontier(x, p) + 1] \subseteq x.completed)
<1> DEFINE n == Len(p.stages)
           s == x.stage
           Open(k) == k < n => ~ (p.stages[k + 1] \subseteq x.completed)
           K == {k \in s..n : Open(k)}
<1>1. n \in Nat /\ s \in 0..n
  BY Fields DEF StagedPlan
<1> HIDE DEF n, s
<1>2. n \in K /\ K \subseteq Nat
  BY <1>1
<1>3. PICK k \in K : \A j \in K : k <= j
  <2> HIDE DEF K
  <2> QED
    BY <1>2, LeastOf
<1>4. \A i \in (s + 1)..k : p.stages[i] \subseteq x.completed
  <2> SUFFICES ASSUME NEW i \in (s + 1)..k
               PROVE  p.stages[i] \subseteq x.completed
    OBVIOUS
  <2>1. i - 1 \in s..n /\ i - 1 < k /\ (i - 1) + 1 = i /\ i - 1 < n
    BY <1>1, <1>3
  <2>2. i - 1 \notin K
    <3> HIDE DEF K
    <3> QED
      BY <1>2, <1>3, <2>1
  <2> QED
    BY <2>1, <2>2
<1>5. Frontier(x, p) = CHOOSE k1 \in s..n :
        /\ \A i \in (s + 1)..k1 : p.stages[i] \subseteq x.completed
        /\ k1 < n => ~ (p.stages[k1 + 1] \subseteq x.completed)
  BY DEF Frontier, s, n
<1>6. \E k1 \in s..n :
        /\ \A i \in (s + 1)..k1 : p.stages[i] \subseteq x.completed
        /\ k1 < n => ~ (p.stages[k1 + 1] \subseteq x.completed)
  BY <1>3, <1>4
<1> HIDE DEF K
<1>7. /\ Frontier(x, p) \in s..n
      /\ \A i \in (s + 1)..Frontier(x, p) : p.stages[i] \subseteq x.completed
      /\ Frontier(x, p) < n => ~ (p.stages[Frontier(x, p) + 1] \subseteq x.completed)
  BY <1>5, <1>6
<1> QED
  BY <1>7 DEF s, n

(* Advancing changes stage and version only. *)
LEMMA AdvancedIs ==
    ASSUME NEW p, StagedPlan(p), NEW x \in Execution(p)
    PROVE  LET y == Advanced(x, p) IN
           /\ y \in Execution(p) /\ y.state = x.state /\ y.stage = Frontier(x, p)
           /\ y.completed = x.completed /\ y.failed = x.failed /\ y.attempts = x.attempts
           /\ y.version = x.version + (Frontier(x, p) - x.stage)
<1> DEFINE k == Frontier(x, p)
           v == x.version + (k - x.stage)
           y == Advanced(x, p)
<1>1. k \in 0..Len(p.stages) /\ v \in Nat
  <2>1. k \in x.stage..Len(p.stages)
    BY FrontierIs
  <2>2. x.stage \in 0..Len(p.stages) /\ Len(p.stages) \in Nat /\ x.version \in Nat
    BY Fields DEF StagedPlan
  <2> HIDE DEF k
  <2> QED
    BY <2>1, <2>2
<1>2. y = [x EXCEPT !.stage = k, !.version = v]
  BY DEF Advanced
<1> HIDE DEF k, v, y
<1>3. /\ y \in Execution(p) /\ y.state = x.state /\ y.stage = k
      /\ y.completed = x.completed /\ y.failed = x.failed /\ y.attempts = x.attempts
      /\ y.version = v
  BY <1>1, <1>2 DEF Execution
<1> QED
  BY <1>3 DEF k, v, y

(* It is a step with its events, one for each stage. *)
LEMMA AdvancedFollows ==
    ASSUME NEW p, StagedPlan(p), NEW x \in Execution(p), x.state \notin TerminalExecutionState
    PROVE  Follows(x, AdvanceEvents(x, p), Advanced(x, p), p)
<1> DEFINE m == Frontier(x, p) - x.stage
           s == AdvanceEvents(x, p)
           y == Advanced(x, p)
           z == Applied(x, s)
<1>1. m \in Nat /\ x.stage \in Nat /\ x.stage + m = Frontier(x, p) /\ x.version \in Nat
  <2> DEFINE k == Frontier(x, p)
  <2>1. k \in x.stage..Len(p.stages)
    BY FrontierIs
  <2>2. x.stage \in 0..Len(p.stages) /\ Len(p.stages) \in Nat /\ x.version \in Nat
    BY Fields DEF StagedPlan
  <2> HIDE DEF k
  <2>3. k - x.stage \in Nat /\ x.stage + (k - x.stage) = k
    BY <2>1, <2>2
  <2> QED
    BY <2>2, <2>3 DEF k
<1>2. s = [i \in 1..m |-> NodeEvent("stage_advanced", NoNode, x.stage + i - 1)]
  BY DEF AdvanceEvents
<1>3. /\ y \in Execution(p) /\ y.state = x.state /\ y.stage = x.stage + m
      /\ y.completed = x.completed /\ y.failed = x.failed /\ y.attempts = x.attempts
      /\ y.version = x.version + m
  BY <1>1, AdvancedIs
<1> HIDE DEF m, s, y
<1>4. \A i \in 1..m : /\ s[i].type = "stage_advanced" /\ s[i].stage = x.stage + i - 1
                      /\ s[i] \in Event
  BY <1>1, <1>2 DEF NodeEvent, Event, NoNode
<1>5. s \in Seq(Event) /\ DOMAIN s = 1..m /\ Len(s) = m
  <2>1. s \in [1..m -> Event]
    BY <1>2, <1>4
  <2> QED
    BY <1>1, <2>1
<1>6. /\ At(s, "stage_advanced") = 1..m
      /\ \A type : type # "stage_advanced" => At(s, type) = {}
  BY <1>4, <1>5 DEF At
<1>7. /\ Counted(s) = 1..m /\ \A n : Attempts(s, n) = {}
  BY <1>5, <1>6 DEF Counted, Attempts
<1>8. Cardinality(1..m) = m /\ Cardinality({}) = 0
  <2>1. Cardinality(1..m) = IF 1 > m THEN 0 ELSE m - 1 + 1
    BY <1>1, FS_Interval
  <2> QED
    BY <1>1, <2>1, FS_EmptySet
<1>9. (IF 1..m = {} THEN x.stage ELSE s[LastOf(1..m)].stage + 1) = x.stage + m
  <2>1. CASE m = 0
    BY <1>1, <2>1
  <2>2. CASE m > 0
    <3>1. LastOf(1..m) = m
      <4>1. Within(1..m, m) /\ m \in 1..m /\ \A j \in 1..m : j <= m
        BY <1>1, <2>2 DEF Within
      <4> QED
        BY <1>1, <4>1, GreatestOf
    <3>2. m \in 1..m
      BY <1>1, <2>2
    <3> QED
      BY <1>1, <1>4, <3>1, <3>2
  <2> QED
    BY <1>1, <2>1, <2>2
<1>10. /\ z.state = x.state /\ z.stage = x.stage + m
       /\ z.completed = x.completed /\ z.failed = x.failed
       /\ z.attempts = [n \in DOMAIN x.attempts |-> x.attempts[n] + 0]
       /\ z.version = x.version + m
       /\ z = [state |-> z.state, stage |-> z.stage, completed |-> z.completed,
               failed |-> z.failed, attempts |-> z.attempts, version |-> z.version]
  <2>1. /\ z.state = x.state
        /\ z.stage = (IF 1..m = {} THEN x.stage ELSE s[LastOf(1..m)].stage + 1)
        /\ z.completed = x.completed /\ z.failed = x.failed
        /\ z.version = x.version + Cardinality(Counted(s))
        /\ z = [state |-> z.state, stage |-> z.stage, completed |-> z.completed,
                failed |-> z.failed, attempts |-> z.attempts, version |-> z.version]
    <3>1. /\ z.state = StateAfter(x.state, s) /\ z.stage = StageAfter(x.stage, s)
          /\ z.completed = x.completed \cup NodesAt(s, "node_completed")
          /\ z.failed = x.failed \cup NodesAt(s, "node_failed")
          /\ z.version = x.version + Cardinality(Counted(s))
          /\ z = [state |-> z.state, stage |-> z.stage, completed |-> z.completed,
                  failed |-> z.failed, attempts |-> z.attempts, version |-> z.version]
      BY DEF Applied, StateAfter, StageAfter, NodesAt
    <3> HIDE DEF z
    <3>2. /\ At(s, "state_transition") = {} /\ At(s, "node_completed") = {}
          /\ At(s, "node_failed") = {} /\ At(s, "stage_advanced") = 1..m
      BY <1>6
    <3>3. /\ StateAfter(x.state, s) = x.state
          /\ StageAfter(x.stage, s) = (IF 1..m = {} THEN x.stage ELSE s[LastOf(1..m)].stage + 1)
          /\ NodesAt(s, "node_completed") = {} /\ NodesAt(s, "node_failed") = {}
      BY <3>2 DEF StateAfter, StageAfter, NodesAt
    <3> QED
      BY <3>1, <3>3
  <2>2. z.attempts = [n \in DOMAIN x.attempts |-> x.attempts[n] + Cardinality(Attempts(s, n))]
    BY DEF Applied
  <2>3. \A n : Cardinality(Attempts(s, n)) = 0
    BY <1>7, <1>8
  <2> QED
    BY <1>7, <1>8, <1>9, <2>1, <2>2, <2>3
<1> HIDE DEF z
<1>11. z.attempts = x.attempts
  <2>1. x.attempts \in [PlanNodes(p) -> Nat]
    BY Fields
  <2> QED
    BY <1>10, <2>1
<1>12. z = y
  BY <1>3, <1>10, <1>11, ExecutionCounts
<1>13. Continues(x, s)
  BY <1>4, <1>5, ContinuesQuietly
<1> QED
  BY <1>3, <1>5, <1>12, <1>13 DEF Follows, s, y, z

-----------------------------------------------------------------------------
(* What can still run.  Stages order the nodes: among some nodes there is one *)
(* that depends on none of them.                                           *)
LEMMA EarliestNode ==
    ASSUME NEW p, StagedPlan(p), NEW S \in SUBSET PlanNodes(p), S # {}
    PROVE  \E n \in S : p.deps[n] \cap S = {}
<1> DEFINE R == {i \in DOMAIN p.stages : \E n \in S : n \in p.stages[i]}
<1>1. DOMAIN p.stages \subseteq Nat
  BY DEF StagedPlan
<1>2. \A n \in PlanNodes(p) : \E i \in DOMAIN p.stages :
        /\ n \in p.stages[i]
        /\ p.deps[n] \subseteq UNION {p.stages[j] : j \in 1..(i-1)}
        /\ \A j \in DOMAIN p.stages : n \in p.stages[j] => j = i
  BY DEF StagedPlan
<1>3. R \subseteq Nat /\ R # {}
  BY <1>1, <1>2
<1>4. PICK k \in R : \A j \in R : k <= j
  <2> HIDE DEF R
  <2> QED
    BY <1>3, LeastOf
<1>5. PICK n \in S : n \in p.stages[k]
  BY <1>4
<1>6. p.deps[n] \subseteq UNION {p.stages[j] : j \in 1..(k-1)}
  BY <1>2, <1>4, <1>5
<1>7. DOMAIN p.stages = 1..Len(p.stages) /\ Len(p.stages) \in Nat
  BY SMTT(30) DEF StagedPlan
<1>8. ASSUME NEW d \in p.deps[n], d \in S
      PROVE  FALSE
  <2>1. PICK j \in 1..(k-1) : d \in p.stages[j]
    BY <1>6, <1>8
  <2>2. j \in DOMAIN p.stages /\ j < k /\ k \in Nat /\ j \in Nat
    BY <1>3, <1>4, <1>7, <2>1
  <2>3. j \in R
    BY <1>8, <2>1, <2>2
  <2> HIDE DEF R
  <2>4. k <= j
    BY <1>4, <2>3
  <2> QED
    BY <2>2, <2>4
<1> QED
  BY <1>8

(* Every dependency of a completed node is completed, and no node is both. *)
Orderly(x, p) ==
    /\ \A n \in x.completed : p.deps[n] \subseteq x.completed
    /\ x.completed \cap x.failed = {}

(* detect_outcome: while an execution can move, it says "executing" just when *)
(* some node is ready, although it looks at what the failures block and not at *)
(* what is ready.                                                          *)
THEOREM OutcomeIs ==
    ASSUME NEW p, StagedPlan(p), NEW x \in Execution(p), Orderly(x, p),
           x.state \notin {"failed", "cancelled", "completed"}
    PROVE  DetectOutcome(x, p) =
             IF PlanNodes(p) \subseteq x.completed THEN "completed"
             ELSE IF ReadyNodes(x, p) # {} THEN "executing" ELSE "blocked"
<1> DEFINE N == PlanNodes(p)
           lost == DownstreamBlocked(x.failed, p)
           Closed(visited) == /\ x.failed \subseteq visited
                              /\ \A m \in N : p.deps[m] \cap visited # {} => m \in visited
           Left == N \ (x.completed \cup x.failed \cup lost)
<1>1. /\ x.completed \subseteq N /\ x.failed \subseteq N
      /\ \A n \in N : p.deps[n] \subseteq N
  BY Fields DEF StagedPlan
<1>2. lost = {n \in N \ x.failed : \A visited \in SUBSET N : Closed(visited) => n \in visited}
  BY DEF DownstreamBlocked
<1> HIDE DEF N, lost
<1>3. Closed(x.failed \cup lost)
  <2> SUFFICES ASSUME NEW m \in N, NEW d \in p.deps[m], d \in x.failed \cup lost,
                      m \notin x.failed, NEW visited \in SUBSET N, Closed(visited)
               PROVE  m \in visited
    BY <1>2
  <2>1. d \in visited
    BY <1>2
  <2> QED
    BY <2>1
<1>4. ASSUME Left # {}
      PROVE  ReadyNodes(x, p) # {}
  <2>1. PICK n \in Left : p.deps[n] \cap Left = {}
    <3>1. Left \in SUBSET PlanNodes(p)
      BY DEF N
    <3> HIDE DEF Left
    <3> QED
      BY <1>4, <3>1, EarliestNode
  <2>2. n \in N /\ n \notin x.completed /\ n \notin x.failed /\ n \notin lost
    OBVIOUS
  <2>3. p.deps[n] \subseteq x.completed
    <3> SUFFICES ASSUME NEW d \in p.deps[n], d \notin x.completed
                 PROVE  FALSE
      OBVIOUS
    <3>1. d \in N /\ d \notin Left
      BY <1>1, <2>1, <2>2
    <3>2. d \in x.failed \cup lost
      BY <3>1
    <3> QED
      BY <1>3, <2>2, <3>2
  <2> QED
    BY <2>2, <2>3 DEF ReadyNodes, N
<1>5. ASSUME NEW n \in ReadyNodes(x, p)
      PROVE  n \in Left
  <2>1. n \in N /\ n \notin x.completed /\ n \notin x.failed /\ p.deps[n] \subseteq x.completed
    BY DEF ReadyNodes, N
  <2> DEFINE rest == N \ (x.completed \cup {n})
  <2>2. Closed(rest)
    <3>1. x.failed \subseteq rest
      BY <1>1, <2>1 DEF Orderly
    <3>2. ASSUME NEW m \in N, p.deps[m] \cap rest # {}, m \notin rest
          PROVE  FALSE
      <4>1. m \in x.completed \/ m = n
        BY <3>2
      <4>2. p.deps[m] \subseteq x.completed
        BY <2>1, <4>1 DEF Orderly
      <4> QED
        BY <3>2, <4>2
    <3> QED
      BY <3>1, <3>2
  <2>3. n \notin lost
    BY <1>2, <2>2, ZenonT(40)
  <2> QED
    BY <2>1, <2>3
<1>6. x.failed = {} => (Left # {} <=> ~ (N \subseteq x.completed))
  <2> SUFFICES ASSUME x.failed = {} PROVE lost = {}
    BY <1>1
  <2>1. Closed({})
    OBVIOUS
  <2> QED
    BY <1>2, <2>1
<1>7. DetectOutcome(x, p) =
        IF N \subseteq x.completed THEN "completed"
        ELSE IF x.failed = {} THEN "executing"
        ELSE IF Left # {} THEN "executing" ELSE "blocked"
  BY DEF DetectOutcome, N, lost
<1> HIDE DEF Left
<1> QED
  BY <1>4, <1>5, <1>6, <1>7 DEF N

-----------------------------------------------------------------------------
(* active_stage_index is the number of leading complete stages. *)
LeadingStages(x, p) ==
    /\ \A i \in 1..x.stage : p.stages[i] \subseteq x.completed
    /\ x.stage < Len(p.stages) => ~ (p.stages[x.stage + 1] \subseteq x.completed)

(* The state says how far things can get. *)
StateFits(x, p) ==
    /\ x.state = "initialized" => x.completed = {} /\ x.failed = {}
    /\ x.state = "executing" /\ PlanNodes(p) # {} => ReadyNodes(x, p) # {}
    /\ x.state = "blocked" => ReadyNodes(x, p) = {} /\ ~ (PlanNodes(p) \subseteq x.completed)
    /\ x.state = "completed" => x.completed = PlanNodes(p)

(* The executions that the executor leaves between its calls. *)
Sane(x, p) ==
    /\ x \in Execution(p)
    /\ x.state \in {"initialized", "executing", "blocked", "completed"}
    /\ Orderly(x, p)
    /\ \A n \in PlanNodes(p) \ x.failed : x.attempts[n] < p.max[n]
    /\ LeadingStages(x, p)
    /\ StateFits(x, p)

StatusOf(x, p) ==
    IF PlanNodes(p) \subseteq x.completed THEN "completed"
    ELSE IF ReadyNodes(x, p) # {} THEN "executing" ELSE "blocked"

(* The steps that WorkflowContract allows, between executions. *)
StartPromised(x, y) ==
    /\ x.state = "initialized" /\ y.state = "executing"
    /\ y.completed = x.completed /\ y.failed = x.failed /\ y.attempts = x.attempts

CompletePromised(x, y, n, p) ==
    /\ x.state = "executing" /\ n \in ReadyNodes(x, p)
    /\ y.completed = x.completed \cup {n} /\ y.failed = x.failed /\ y.attempts = x.attempts
    /\ y.state = StatusOf(y, p)

RetryPromised(x, y, n, p) ==
    /\ x.state = "executing" /\ n \in ReadyNodes(x, p) /\ x.attempts[n] + 1 < p.max[n]
    /\ y.attempts = [x.attempts EXCEPT ![n] = @ + 1]
    /\ y.state = x.state /\ y.completed = x.completed /\ y.failed = x.failed

GiveUpPromised(x, y, n, p) ==
    /\ x.state = "executing" /\ n \in ReadyNodes(x, p) /\ x.attempts[n] + 1 = p.max[n]
    /\ y.attempts = [x.attempts EXCEPT ![n] = @ + 1]
    /\ y.failed = x.failed \cup {n} /\ y.completed = x.completed
    /\ y.state = StatusOf(y, p)

SameProgress(x, y) ==
    /\ y.state = x.state /\ y.completed = x.completed
    /\ y.failed = x.failed /\ y.attempts = x.attempts

Promised(x, y, p) ==
    \/ StartPromised(x, y)
    \/ \E n \in PlanNodes(p) : \/ CompletePromised(x, y, n, p)
                               \/ RetryPromised(x, y, n, p)
                               \/ GiveUpPromised(x, y, n, p)
    \/ SameProgress(x, y)

(* What a call of the executor owes: it does not raise, its events replay to *)
(* the execution it returns and continue the lineage, that execution is one *)
(* the next call can go on with, and the step is one of the contract.      *)
Kept(x, r, p) ==
    /\ ~ r.raises
    /\ Follows(x, r.events, r.exec, p)
    /\ Sane(r.exec, p)
    /\ Promised(x, r.exec, p)

(* An execution begins sane. *)
LEMMA InitializedIsSane ==
    ASSUME NEW p, StagedPlan(p)
    PROVE  /\ Sane(Initialized(p), p)
           /\ Follows(Blank(p), <<InitEvent>>, Initialized(p), p)
<1> DEFINE x == Initialized(p)
           b == Blank(p)
           e == InitEvent
<1>1. /\ x.state = "initialized" /\ x.stage = 0 /\ x.completed = {} /\ x.failed = {}
      /\ x.attempts = [n \in PlanNodes(p) |-> 0] /\ x.version = 1
  BY DEF Initialized
<1>2. /\ b.state = NoStatus /\ b.stage = 0 /\ b.completed = {} /\ b.failed = {}
      /\ b.attempts = [n \in PlanNodes(p) |-> 0] /\ b.version = 0
  BY DEF Blank
<1>3. Len(p.stages) \in Nat /\ \A i \in 1..Len(p.stages) : p.stages[i] # {}
  <2>1. p.stages \in Seq(SUBSET PlanNodes(p)) /\ \A i \in DOMAIN p.stages : p.stages[i] # {}
    BY DEF StagedPlan
  <2> QED
    BY <2>1
<1>4. b \in Execution(p) /\ x \in Execution(p)
  BY <1>3, BlankIsExecution
<1>5. \A n \in PlanNodes(p) : x.attempts[n] < p.max[n]
  <2>1. \A n \in PlanNodes(p) : x.attempts[n] = 0 /\ p.max[n] \in Nat \ {0}
    BY <1>1 DEF StagedPlan
  <2> QED
    BY <2>1
<1>6. LeadingStages(x, p)
  <2>1. 0 < Len(p.stages) => 0 + 1 \in 1..Len(p.stages) /\ 0 + 1 = 1
    BY <1>3
  <2> QED
    BY <1>1, <1>3, <2>1 DEF LeadingStages
<1>7. Sane(x, p)
  BY <1>1, <1>4, <1>5, <1>6 DEF Sane, Orderly, StateFits
<1>8. /\ e.type = "state_transition" /\ e.old = NoStatus /\ e.new = "initialized" /\ e \in Event
  BY DEF InitEvent, StateEvent, Event, NoNode, NoStatus, ExecutionState, ExecutionMoves
<1>9. NoStatus \notin TerminalExecutionState
  BY DEF NoStatus, TerminalExecutionState
<1> HIDE DEF x, b, e
<1>10. Applied(b, <<e>>) = x
  BY <1>1, <1>2, <1>4, <1>8, AppliedOne
<1>11. Continues(b, <<e>>)
  BY <1>2, <1>8, <1>9, ContinuesOne
<1> QED
  BY <1>4, <1>7, <1>8, <1>10, <1>11 DEF Follows, x, b, e

(* Two events are one after the other. *)
LEMMA TwoEvents ==
    ASSUME NEW a, NEW b
    PROVE  <<a>> \o <<b>> = <<a, b>>
<1> DEFINE s == <<a>> \o <<b>>
           t == <<a, b>>
<1>1. s \in Seq({a, b}) /\ t \in Seq({a, b})
  OBVIOUS
<1>2. Len(s) = 2 /\ s[1] = a /\ s[2] = b
  OBVIOUS
<1>3. Len(t) = 2 /\ t[1] = a /\ t[2] = b
  OBVIOUS
<1> HIDE DEF s, t
<1>4. s = t
  BY <1>1, <1>2, <1>3
<1> QED
  BY <1>4 DEF s, t

(* start_execution is a step with two events. *)
LEMMA StartedFollows ==
    ASSUME NEW p, StagedPlan(p), NEW x \in Execution(p), x.state = "initialized"
    PROVE  LET r == Started(x) IN
           /\ ~ r.raises /\ Follows(x, r.events, r.exec, p)
           /\ r.exec.state = "executing" /\ r.exec.stage = x.stage
           /\ r.exec.completed = x.completed /\ r.exec.failed = x.failed
           /\ r.exec.attempts = x.attempts
<1> DEFINE y == Moved(x, "ready")
           z == Moved(y, "executing")
           r == Started(x)
<1>1. /\ "ready" \in ExecutionMoves["initialized"] /\ "executing" \in ExecutionMoves["ready"]
      /\ {"initialized", "ready", "executing"} \subseteq ExecutionState
  BY DEF ExecutionMoves, ExecutionState
<1>2. Len(p.stages) \in Nat
  BY DEF StagedPlan
<1>3. Follows(x, <<MoveEvent(x, "ready")>>, y, p)
  BY <1>1, <1>2, MovedFollows
<1>4. /\ y \in Execution(p) /\ y.state = "ready" /\ y.stage = x.stage /\ y.completed = x.completed
      /\ y.failed = x.failed /\ y.attempts = x.attempts
  BY <1>1, <1>2, MovedIs
<1> HIDE DEF y
<1>5. Follows(y, <<MoveEvent(y, "executing")>>, z, p)
  BY <1>1, <1>2, <1>4, MovedFollows
<1>6. /\ z \in Execution(p) /\ z.state = "executing" /\ z.stage = x.stage
      /\ z.completed = x.completed /\ z.failed = x.failed /\ z.attempts = x.attempts
  BY <1>1, <1>4, MovedIs
<1>7. /\ r.exec = z /\ ~ r.raises
      /\ r.events = <<MoveEvent(x, "ready")>> \o <<MoveEvent(y, "executing")>>
  <2>1. /\ r.exec = z /\ r.raises = ("ready" \notin ExecutionMoves[x.state])
        /\ r.events = <<MoveEvent(x, "ready"), MoveEvent(y, "executing")>>
    BY DEF Started, y
  <2>2. \A a, b : <<a>> \o <<b>> = <<a, b>>
    BY TwoEvents
  <2> HIDE DEF r, z
  <2> QED
    BY <1>1, <2>1, <2>2
<1> HIDE DEF z, r
<1>8. Follows(x, r.events, z, p)
  BY <1>2, <1>3, <1>5, <1>7, FollowsInParts
<1> QED
  BY <1>6, <1>7, <1>8 DEF r

(* It does what it promises. *)
LEMMA StartedIsKept ==
    ASSUME NEW p, StagedPlan(p), NEW x, Sane(x, p), x.state = "initialized"
    PROVE  Kept(x, Started(x), p)
<1> DEFINE r == Started(x)
           z == r.exec
<1>1. x \in Execution(p)
  BY DEF Sane
<1>2. /\ ~ r.raises /\ Follows(x, r.events, z, p)
      /\ z.state = "executing" /\ z.stage = x.stage
      /\ z.completed = x.completed /\ z.failed = x.failed /\ z.attempts = x.attempts
  BY <1>1, StartedFollows
<1> HIDE DEF r, z
<1>3. PlanNodes(p) # {} => ReadyNodes(z, p) # {}
  <2> SUFFICES ASSUME PlanNodes(p) # {} PROVE ReadyNodes(z, p) # {}
    OBVIOUS
  <2>1. PICK n \in PlanNodes(p) : p.deps[n] \cap PlanNodes(p) = {}
    BY EarliestNode
  <2>2. p.deps[n] \subseteq PlanNodes(p)
    BY DEF StagedPlan
  <2>3. z.completed = {} /\ z.failed = {}
    BY <1>2 DEF Sane, StateFits
  <2> QED
    BY <2>1, <2>2, <2>3 DEF ReadyNodes
<1>4. z \in Execution(p)
  BY <1>2 DEF Follows
<1>5. Sane(z, p)
  BY <1>2, <1>3, <1>4 DEF Sane, StateFits, LeadingStages, Orderly
<1>6. Promised(x, z, p)
  BY <1>2 DEF Promised, StartPromised
<1> QED
  BY <1>2, <1>5, <1>6 DEF Kept, r, z

(* The tail of both record functions. *)
SameBut(x, y) ==
    /\ y.stage = x.stage /\ y.completed = x.completed
    /\ y.failed = x.failed /\ y.attempts = x.attempts

(* It never raises after a step of an executing execution, and leaves it in *)
(* the state that the outcome names.                                       *)
LEMMA SettledIs ==
    ASSUME NEW p, StagedPlan(p), NEW x \in Execution(p), NEW m, NEW events,
           Follows(x, events, m, p), m.state = "executing", Orderly(m, p),
           NEW outcome, outcome = DetectOutcome(m, p),
           NEW changes, changes \subseteq {"completed", "blocked"},
           outcome \in changes \cup {"executing"},
           NEW r, r = Settled(m, events, outcome, changes)
    PROVE  /\ ~ r.raises /\ Follows(x, r.events, r.exec, p)
           /\ r.exec.state = StatusOf(m, p) /\ SameBut(m, r.exec)
<1>1. m \in Execution(p) /\ Len(p.stages) \in Nat /\ events \in Seq(Event)
  BY DEF Follows, StagedPlan
<1>2. outcome = StatusOf(m, p)
  BY <1>1, OutcomeIs DEF StatusOf
<1>3. CASE outcome = "executing"
  <2>1. r.exec = m /\ r.events = events /\ ~ r.raises
    BY <1>3 DEF Settled
  <2> QED
    BY <1>2, <1>3, <2>1 DEF SameBut
<1>4. CASE outcome \in changes /\ outcome # "executing"
  <2>1. /\ r.exec = Moved(m, outcome) /\ r.events = Append(events, MoveEvent(m, outcome))
        /\ r.raises = (outcome \notin ExecutionMoves[m.state])
    BY <1>4 DEF Settled
  <2>2. /\ outcome \in ExecutionMoves["executing"] /\ outcome \in ExecutionState
        /\ "executing" \in ExecutionState
    BY <1>4 DEF ExecutionMoves, ExecutionState
  <2>3. Follows(m, <<MoveEvent(m, outcome)>>, Moved(m, outcome), p)
    BY <1>1, <2>2, MovedFollows
  <2>4. MoveEvent(m, outcome) \in Event
    <3> DEFINE s == <<MoveEvent(m, outcome)>>
    <3>1. s \in Seq(Event) /\ s[1] = MoveEvent(m, outcome) /\ Len(s) = 1
      BY <2>3 DEF Follows
    <3> HIDE DEF s
    <3>2. s[1] \in Event
      BY <3>1
    <3> QED
      BY <3>1, <3>2
  <2>5. Append(events, MoveEvent(m, outcome)) = events \o <<MoveEvent(m, outcome)>>
    BY <1>1, <2>4, AppendIsConcat
  <2>6. Follows(x, r.events, r.exec, p)
    BY <2>1, <2>3, <2>5, FollowsInParts
  <2>7. r.exec.state = outcome /\ SameBut(m, r.exec)
    BY <1>1, <2>1, <2>2, MovedIs DEF SameBut
  <2> QED
    BY <1>2, <2>1, <2>2, <2>6, <2>7
<1> QED
  BY <1>3, <1>4

(* What it leaves is sane. *)
LEMMA SettledIsSane ==
    ASSUME NEW p, StagedPlan(p), NEW m, NEW y \in Execution(p), Orderly(m, p),
           LeadingStages(m, p), \A n \in PlanNodes(p) \ m.failed : m.attempts[n] < p.max[n],
           SameBut(m, y), y.state = StatusOf(m, p)
    PROVE  Sane(y, p) /\ y.state = StatusOf(y, p)
<1>1. y.completed = m.completed /\ y.failed = m.failed /\ y.stage = m.stage /\ y.attempts = m.attempts
  BY DEF SameBut
<1>2. ReadyNodes(y, p) = ReadyNodes(m, p) /\ StatusOf(y, p) = StatusOf(m, p)
  BY <1>1 DEF ReadyNodes, StatusOf
<1>3. y.completed \subseteq PlanNodes(p)
  BY Fields
<1>4. StateFits(y, p) /\ y.state \in {"executing", "blocked", "completed"}
  BY <1>2, <1>3 DEF StateFits, StatusOf
<1>5. Orderly(y, p) /\ LeadingStages(y, p)
  BY <1>1 DEF Orderly, LeadingStages
<1> QED
  BY <1>1, <1>2, <1>4, <1>5 DEF Sane

(* record_node_completed of a ready node does not raise, emits events that *)
(* replay to what it returns, and leaves the execution sane.               *)
THEOREM CompletedIsKept ==
    ASSUME NEW p, StagedPlan(p), NEW x, Sane(x, p), x.state = "executing",
           NEW n \in ReadyNodes(x, p)
    PROVE  /\ Kept(x, NodeCompleted(x, p, n), p)
           /\ CompletePromised(x, NodeCompleted(x, p, n).exec, n, p)
<1> DEFINE marked == Marked(x, n)
           moved == Advanced(marked, p)
           first == <<NodeEvent("node_completed", n, x.stage)>>
           more == AdvanceEvents(marked, p)
           outcome == DetectOutcome(moved, p)
           r == NodeCompleted(x, p, n)
<1>1. /\ x \in Execution(p) /\ n \in PlanNodes(p) /\ n \notin x.completed /\ n \notin x.failed
      /\ p.deps[n] \subseteq x.completed /\ "executing" \notin TerminalExecutionState
      /\ Orderly(x, p) /\ LeadingStages(x, p) /\ Len(p.stages) \in Nat
  BY DEF Sane, ReadyNodes, TerminalExecutionState, StagedPlan
<1>2. r = Settled(moved, first \o more, outcome, {"completed", "blocked"})
  BY DEF NodeCompleted, Marked
<1>3. /\ Follows(x, first, marked, p) /\ marked.state = x.state /\ marked.stage = x.stage
      /\ marked.completed = x.completed \cup {n} /\ marked.failed = x.failed
      /\ marked.attempts = x.attempts
  <2>1. x.stage \in Nat
    BY <1>1, Fields
  <2> QED
    BY <1>1, <2>1, MarkedFollows
<1> HIDE DEF r, marked, first
<1>4. marked \in Execution(p)
  BY <1>3 DEF Follows
<1>5. Follows(marked, more, moved, p)
  BY <1>1, <1>3, <1>4, AdvancedFollows
<1>6. /\ moved \in Execution(p) /\ moved.state = marked.state /\ moved.stage = Frontier(marked, p)
      /\ moved.completed = marked.completed /\ moved.failed = marked.failed
      /\ moved.attempts = marked.attempts
  BY <1>4, AdvancedIs
<1>7. /\ Frontier(marked, p) \in marked.stage..Len(p.stages)
      /\ \A i \in (marked.stage + 1)..Frontier(marked, p) : p.stages[i] \subseteq marked.completed
      /\ Frontier(marked, p) < Len(p.stages) =>
           ~ (p.stages[Frontier(marked, p) + 1] \subseteq marked.completed)
  BY <1>4, FrontierIs
<1> HIDE DEF moved, more
<1>8. Follows(x, first \o more, moved, p)
  BY <1>1, <1>3, <1>5, FollowsInParts
<1>9. Orderly(moved, p)
  BY <1>1, <1>3, <1>6 DEF Orderly
<1>10. LeadingStages(moved, p)
  <2> DEFINE k == Frontier(marked, p)
             s == x.stage
  <2>1. k \in s..Len(p.stages) /\ s \in Nat /\ Len(p.stages) \in Nat
    BY <1>1, <1>3, <1>7, Fields
  <2>2. \A i \in 1..s : p.stages[i] \subseteq marked.completed
    BY <1>1, <1>3 DEF LeadingStages
  <2>3. \A i \in (s + 1)..k : p.stages[i] \subseteq marked.completed
    BY <1>3, <1>7
  <2> HIDE DEF k, s
  <2>4. \A i \in 1..k : i \in 1..s \/ i \in (s + 1)..k
    BY <2>1
  <2>5. \A i \in 1..k : p.stages[i] \subseteq marked.completed
    BY <2>2, <2>3, <2>4
  <2> QED
    BY <1>6, <1>7, <2>5 DEF LeadingStages, k
<1>11. outcome \in {"completed", "blocked", "executing"}
  BY <1>3, <1>6, <1>9, OutcomeIs
<1> HIDE DEF outcome
<1>12. /\ ~ r.raises /\ Follows(x, r.events, r.exec, p)
       /\ r.exec.state = StatusOf(moved, p) /\ SameBut(moved, r.exec)
  <2>1. outcome = DetectOutcome(moved, p) /\ moved.state = "executing"
    BY <1>3, <1>6 DEF outcome
  <2>2. outcome \in {"completed", "blocked"} \cup {"executing"}
    BY <1>11
  <2> QED
    BY <1>1, <1>2, <1>8, <1>9, <2>1, <2>2, SettledIs
<1>13. \A m \in PlanNodes(p) \ moved.failed : moved.attempts[m] < p.max[m]
  BY <1>3, <1>6 DEF Sane
<1>14. r.exec \in Execution(p)
  BY <1>12 DEF Follows
<1>15. Sane(r.exec, p) /\ r.exec.state = StatusOf(r.exec, p)
  BY <1>9, <1>10, <1>12, <1>13, <1>14, SettledIsSane
<1>16. CompletePromised(x, r.exec, n, p)
  BY <1>3, <1>6, <1>12, <1>15 DEF CompletePromised, SameBut
<1> QED
  BY <1>1, <1>12, <1>15, <1>16 DEF Kept, Promised, r

(* So does record_node_failed, which gives up at the last attempt and not  *)
(* before.                                                                 *)
THEOREM FailedIsKept ==
    ASSUME NEW p, StagedPlan(p), NEW x, Sane(x, p), x.state = "executing",
           NEW n \in ReadyNodes(x, p)
    PROVE  /\ Kept(x, NodeFailed(x, p, n), p)
           /\ \/ RetryPromised(x, NodeFailed(x, p, n).exec, n, p)
              \/ GiveUpPromised(x, NodeFailed(x, p, n).exec, n, p)
<1> DEFINE tried == Tried(x, n)
           given == Given(x, n)
           outcome == DetectOutcome(given, p)
           gone == <<NodeEvent("node_failed", n, x.stage)>>
           r == NodeFailed(x, p, n)
<1>1. /\ x \in Execution(p) /\ n \in PlanNodes(p) /\ n \notin x.completed /\ n \notin x.failed
      /\ p.deps[n] \subseteq x.completed /\ "executing" \notin TerminalExecutionState
      /\ Orderly(x, p) /\ LeadingStages(x, p) /\ Len(p.stages) \in Nat
      /\ x.attempts[n] < p.max[n]
      /\ \A m \in PlanNodes(p) \ x.failed : x.attempts[m] < p.max[m]
  BY DEF Sane, ReadyNodes, TerminalExecutionState, StagedPlan
<1>2. x.attempts \in [PlanNodes(p) -> Nat] /\ p.max[n] \in Nat
  BY <1>1, Fields DEF StagedPlan
<1>3. /\ AfterAttempt(x, n, tried, p) /\ tried.failed = x.failed
      /\ AfterAttempt(x, n, given, p) /\ given.failed = x.failed \cup {n}
  BY <1>1, TriedIs
<1>4. /\ Follows(x, <<NodeEvent("node_retry", n, x.stage)>>, tried, p)
      /\ Follows(x, gone, given, p)
  BY <1>1, TriedFollows
<1>5. /\ RetryLeft(tried.attempts, p, n) =>
           r = [raises |-> FALSE, exec |-> tried,
                events |-> <<NodeEvent("node_retry", n, x.stage)>>]
      /\ ~ RetryLeft(tried.attempts, p, n) => r = Settled(given, gone, outcome, {"blocked"})
  BY DEF NodeFailed, Tried, Given
<1>6. tried.attempts[n] = x.attempts[n] + 1
  BY <1>1, <1>3 DEF AfterAttempt
<1> HIDE DEF tried, given, r, gone
<1>7. CASE RetryLeft(tried.attempts, p, n)
  <2>1. r.exec = tried /\ ~ r.raises /\ r.events = <<NodeEvent("node_retry", n, x.stage)>>
    BY <1>5, <1>7
  <2>2. x.attempts[n] + 1 < p.max[n]
    BY <1>6, <1>7 DEF RetryLeft
  <2>3. tried \in Execution(p) /\ tried.state = x.state /\ tried.stage = x.stage
        /\ tried.completed = x.completed
        /\ tried.attempts = [x.attempts EXCEPT ![n] = @ + 1]
        /\ \A m \in PlanNodes(p) :
             tried.attempts[m] = (IF m = n THEN x.attempts[m] + 1 ELSE x.attempts[m])
    BY <1>3 DEF AfterAttempt
  <2>4. Sane(tried, p)
    <3>1. \A m \in PlanNodes(p) \ tried.failed : tried.attempts[m] < p.max[m]
      BY <1>1, <1>3, <2>2, <2>3
    <3>2. ReadyNodes(tried, p) = ReadyNodes(x, p)
      BY <1>3, <2>3 DEF ReadyNodes
    <3> QED
      BY <1>1, <1>3, <2>3, <3>1, <3>2 DEF Sane, StateFits, Orderly, LeadingStages
  <2>5. RetryPromised(x, tried, n, p)
    BY <1>3, <2>2, <2>3 DEF RetryPromised
  <2> QED
    BY <1>1, <1>4, <2>1, <2>4, <2>5 DEF Kept, Promised, r
<1>8. CASE ~ RetryLeft(tried.attempts, p, n)
  <2>1. r = Settled(given, gone, outcome, {"blocked"})
    BY <1>5, <1>8
  <2>2. x.attempts[n] + 1 = p.max[n]
    BY <1>1, <1>2, <1>6, <1>8 DEF RetryLeft
  <2>3. given \in Execution(p) /\ given.state = x.state /\ given.stage = x.stage
        /\ given.completed = x.completed
        /\ given.attempts = [x.attempts EXCEPT ![n] = @ + 1]
        /\ \A m \in PlanNodes(p) :
             given.attempts[m] = (IF m = n THEN x.attempts[m] + 1 ELSE x.attempts[m])
    BY <1>3 DEF AfterAttempt
  <2>4. Orderly(given, p) /\ LeadingStages(given, p)
    BY <1>1, <1>3, <2>3 DEF Orderly, LeadingStages
  <2>5. outcome \in {"blocked", "executing"}
    <3>1. ~ (PlanNodes(p) \subseteq given.completed)
      BY <1>1, <2>3
    <3> QED
      BY <2>3, <2>4, <3>1, OutcomeIs
  <2> HIDE DEF outcome
  <2>6. /\ ~ r.raises /\ Follows(x, r.events, r.exec, p)
        /\ r.exec.state = StatusOf(given, p) /\ SameBut(given, r.exec)
    <3>1. outcome = DetectOutcome(given, p) /\ given.state = "executing"
      BY <2>3 DEF outcome
    <3>2. outcome \in {"blocked"} \cup {"executing"} /\ {"blocked"} \subseteq {"completed", "blocked"}
      BY <2>5
    <3> QED
      BY <1>1, <1>4, <2>1, <2>4, <3>1, <3>2, SettledIs
  <2>7. \A m \in PlanNodes(p) \ given.failed : given.attempts[m] < p.max[m]
    BY <1>1, <1>3, <2>3
  <2>8. r.exec \in Execution(p)
    BY <2>6 DEF Follows
  <2>9. Sane(r.exec, p) /\ r.exec.state = StatusOf(r.exec, p)
    BY <2>4, <2>6, <2>7, <2>8, SettledIsSane
  <2>10. GiveUpPromised(x, r.exec, n, p)
    BY <1>3, <2>2, <2>3, <2>6, <2>9 DEF GiveUpPromised, SameBut
  <2> QED
    BY <1>1, <2>6, <2>9, <2>10 DEF Kept, Promised, r
<1> QED
  BY <1>7, <1>8

(* A node_submitted event changes nothing. *)
LEMMA SubmittedIsKept ==
    ASSUME NEW p, StagedPlan(p), NEW x, Sane(x, p), NEW n \in ReadyNodes(x, p),
           x.state \notin TerminalExecutionState, NEW r,
           r = [raises |-> FALSE, exec |-> x,
                events |-> <<NodeEvent("node_submitted", n, x.stage)>>]
    PROVE  Kept(x, r, p)
<1>1. x \in Execution(p) /\ n \in PlanNodes(p)
  BY DEF Sane, ReadyNodes
<1>2. Follows(x, <<NodeEvent("node_submitted", n, x.stage)>>, x, p)
  BY <1>1, SubmitFollows
<1> QED
  BY <1>2 DEF Kept, Promised, SameProgress

-----------------------------------------------------------------------------
(* A lineage: it begins with the event of initialize_execution, and every  *)
(* event continues what is before it.                                      *)
ValidLog(l, p) ==
    /\ l \in Seq(Event) /\ l # <<>>
    /\ l[1] = InitEvent
    /\ Continues(Blank(p), l)
    /\ Applied(Blank(p), l) \in Execution(p)

(* validate_lineage accepts a lineage, and replay_execution replays it. *)
LEMMA ValidLogIs ==
    ASSUME NEW p, NEW l, ValidLog(l, p)
    PROVE  /\ LineageValid(l)
           /\ Replayed(l, p) = Applied(Blank(p), l)
           /\ Replayed(l, p) \in Execution(p)
BY LineageIsValid DEF ValidLog

(* Storing the events of a step takes the replay where the step ended. *)
LEMMA ValidLogGrows ==
    ASSUME NEW p, StagedPlan(p), NEW l, ValidLog(l, p),
           NEW b, NEW y, Follows(Replayed(l, p), b, y, p)
    PROVE  ValidLog(l \o b, p) /\ Replayed(l \o b, p) = y
<1>1. /\ b \in Seq(Event) /\ Continues(Replayed(l, p), b) /\ Applied(Replayed(l, p), b) = y
      /\ y \in Execution(p)
  BY DEF Follows
<1>2. Replayed(l, p) = Applied(Blank(p), l)
  BY ValidLogIs
<1>3. l \in Seq(Event) /\ l # <<>> /\ l[1] = InitEvent /\ Continues(Blank(p), l)
  BY DEF ValidLog
<1>4. Counts(Blank(p))
  <2>1. Len(p.stages) \in Nat
    BY DEF StagedPlan
  <2> QED
    BY <2>1, BlankIsExecution, ExecutionCounts
<1>5. Applied(Blank(p), l \o b) = y
  BY <1>1, <1>2, <1>3, <1>4, AppliedInParts
<1>6. Continues(Blank(p), l \o b)
  BY <1>1, <1>2, <1>3, ContinuesInParts
<1>7. l \o b \in Seq(Event) /\ l \o b # <<>> /\ (l \o b)[1] = l[1]
  <2>1. 1 \in DOMAIN l /\ Len(l) > 0 /\ Len(l) \in Nat
    BY <1>3
  <2>2. (l \o b)[1] = l[1] /\ l \o b \in Seq(Event) /\ Len(l \o b) = Len(l) + Len(b)
    BY <1>1, <1>3, <2>1, SplitPositions
  <2>3. Len(b) \in Nat
    BY <1>1
  <2>4. Len(l \o b) > 0
    BY <2>1, <2>2, <2>3
  <2>5. Len(<<>>) = 0
    OBVIOUS
  <2> QED
    BY <2>2, <2>4, <2>5
<1>8. ValidLog(l \o b, p)
  BY <1>1, <1>3, <1>5, <1>6, <1>7 DEF ValidLog
<1>9. Replayed(l \o b, p) = y
  BY <1>5, <1>8, ValidLogIs
<1> QED
  BY <1>8, <1>9

(* initialize_execution begins one. *)
LEMMA ValidLogBegins ==
    ASSUME NEW p, StagedPlan(p)
    PROVE  /\ ValidLog(<<InitEvent>>, p)
           /\ Replayed(<<InitEvent>>, p) = Initialized(p)
<1> DEFINE l == <<InitEvent>>
<1>1. Follows(Blank(p), l, Initialized(p), p)
  BY InitializedIsSane
<1>2. l # <<>> /\ l[1] = InitEvent
  OBVIOUS
<1> HIDE DEF l
<1>3. ValidLog(l, p) /\ Applied(Blank(p), l) = Initialized(p)
  BY <1>1, <1>2 DEF ValidLog, Follows
<1>4. Replayed(l, p) = Initialized(p)
  BY <1>3, ValidLogIs
<1> QED
  BY <1>3, <1>4 DEF l


-----------------------------------------------------------------------------
(* The planner: validate_workflow and build_execution_plan compute what their  *)
(* declarative definitions say, for any finite definition.  What a loop over   *)
(* data computes is shown for the least case in which it would fail (LeastOf). *)

-----------------------------------------------------------------------------
(* Cardinalities *)

LEMMA CardNat == ASSUME NEW S, IsFiniteSet(S) PROVE Cardinality(S) \in Nat
BY FS_CardinalityType

\* A finite set falls into two parts, and so does its size.
LEMMA CardSplit ==
    ASSUME NEW S, IsFiniteSet(S), NEW A, NEW B, S = A \cup B, A \cap B = {}
    PROVE  /\ IsFiniteSet(A) /\ IsFiniteSet(B)
           /\ Cardinality(A) \in Nat /\ Cardinality(B) \in Nat
           /\ Cardinality(S) = Cardinality(A) + Cardinality(B)
<1>1. A \in SUBSET S /\ B \in SUBSET S OBVIOUS
<1>2. IsFiniteSet(A) /\ IsFiniteSet(B) BY <1>1, FS_Subset
<1>3. Cardinality(A \cap B) = 0 BY FS_EmptySet
<1>4. Cardinality(A) \in Nat /\ Cardinality(B) \in Nat BY <1>2, CardNat
<1>5. Cardinality(A \cup B) = Cardinality(A) + Cardinality(B) - Cardinality(A \cap B)
  BY <1>2, FS_Union
<1> QED BY <1>2, <1>3, <1>4, <1>5

LEMMA CardPositive ==
    ASSUME NEW S, IsFiniteSet(S)
    PROVE  /\ Cardinality(S) \in Nat
           /\ Cardinality(S) = 0 <=> S = {}
BY FS_EmptySet, CardNat

\* The values of a function on a finite set are finitely many.
LEMMA ValuesFinite ==
    ASSUME NEW S, IsFiniteSet(S), NEW f, DOMAIN f = S
    PROVE  IsFiniteSet({f[x] : x \in S})
<1> DEFINE T == {f[x] : x \in S}
           g == [x \in S |-> f[x]]
<1>1. g \in Surjection(S, T) BY DEF Surjection
<1> QED BY <1>1, FS_Surjection

-----------------------------------------------------------------------------
(* Walking up a forest *)

\* what `find' computes on a forest: the only function that climbs
Climb(N, P) == CHOOSE f : f = [y \in N |-> IF P[y] = y THEN y ELSE f[P[y]]]

\* f obeys the definition of `find'
Climbing(N, P, f) == f = [y \in N |-> IF P[y] = y THEN y ELSE f[P[y]]]

\* `rank' falls on the way up and never exceeds `top'
Ranked(N, P, rank, top) ==
    /\ rank \in [N -> Nat] /\ top \in Nat
    /\ \A n \in N : rank[n] <= top /\ (P[n] # n => rank[P[n]] < rank[n])

LEMMA ClimbExists ==
    ASSUME NEW N, NEW P \in [N -> N], NEW rank, NEW top, Ranked(N, P, rank, top)
    PROVE  \E f \in [N -> N] : f = [y \in N |-> IF P[y] = y THEN y ELSE f[P[y]]]
<1> DEFINE Climbs(f, k) == \A y \in N : rank[y] < k =>
                             f[y] = IF P[y] = y THEN y ELSE f[P[y]]
           Bad == {k \in Nat : ~ \E f \in [N -> N] : Climbs(f, k)}
<1>0. \A y \in N : /\ rank[y] \in Nat /\ P[y] \in N
                   /\ P[y] # y => rank[P[y]] < rank[y] /\ rank[P[y]] \in Nat
  BY DEF Ranked
<1>1. Bad = {}
  <2> SUFFICES ASSUME Bad # {} PROVE FALSE OBVIOUS
  <2>1. PICK k \in Bad : \A j \in Bad : k <= j
    <3>1. Bad \subseteq Nat OBVIOUS
    <3> QED BY <3>1, LeastOf
  <2>2. k \in Nat OBVIOUS
  <2>3. k # 0
    <3>1. [y \in N |-> y] \in [N -> N] OBVIOUS
    <3>2. Climbs([y \in N |-> y], 0) BY <1>0
    <3> QED BY <3>1, <3>2
  <2>4. k - 1 \in Nat /\ k - 1 \notin Bad BY <2>1, <2>2, <2>3
  <2>5. PICK f \in [N -> N] : Climbs(f, k - 1) BY <2>4
  <2> DEFINE g == [y \in N |-> IF rank[y] < k - 1 THEN f[y]
                               ELSE IF P[y] = y THEN y ELSE f[P[y]]]
  <2>6. g \in [N -> N] BY <1>0
  <2>7. Climbs(g, k)
    <3> SUFFICES ASSUME NEW y \in N, rank[y] < k
                 PROVE  g[y] = IF P[y] = y THEN y ELSE g[P[y]]
      OBVIOUS
    <3>1. P[y] # y => g[P[y]] = f[P[y]] BY <1>0, <2>2
    <3>2. CASE rank[y] < k - 1 BY <2>5, <3>1, <3>2, <1>0
    <3>3. CASE ~ (rank[y] < k - 1) BY <3>1, <3>3, <1>0
    <3> QED BY <3>2, <3>3
  <2> QED BY <2>6, <2>7
<1>2. top + 1 \in Nat BY DEF Ranked
<1>3. PICK f \in [N -> N] : Climbs(f, top + 1) BY <1>1, <1>2
<1>4. \A y \in N : rank[y] < top + 1 BY <1>0 DEF Ranked
<1>5. \A y \in N : f[y] = IF P[y] = y THEN y ELSE f[P[y]] BY <1>3, <1>4
<1> QED BY <1>5

LEMMA ClimbIsUnique ==
    ASSUME NEW N, NEW P \in [N -> N], NEW rank, NEW top, Ranked(N, P, rank, top),
           NEW f, Climbing(N, P, f), NEW g, Climbing(N, P, g)
    PROVE  f = g
<1> USE DEF Climbing
<1> DEFINE Bad == {rank[y] : y \in {y \in N : f[y] # g[y]}}
<1>0. \A y \in N : /\ rank[y] \in Nat /\ P[y] \in N
                   /\ P[y] # y => rank[P[y]] < rank[y] /\ rank[P[y]] \in Nat
  BY DEF Ranked
<1>1. Bad = {}
  <2> SUFFICES ASSUME Bad # {} PROVE FALSE OBVIOUS
  <2>0. Bad \subseteq Nat BY <1>0
  <2>1. PICK k \in Bad : \A j \in Bad : k <= j BY <2>0, LeastOf
  <2>2. PICK y \in N : f[y] # g[y] /\ k = rank[y] OBVIOUS
  <2>3. f[y] = IF P[y] = y THEN y ELSE f[P[y]] OBVIOUS
  <2>4. g[y] = IF P[y] = y THEN y ELSE g[P[y]] OBVIOUS
  <2>5. P[y] # y /\ f[P[y]] # g[P[y]] BY <2>2, <2>3, <2>4
  <2>6. rank[P[y]] \in Bad BY <2>5, <1>0
  <2>7. rank[P[y]] < k /\ rank[P[y]] \in Nat /\ k \in Nat BY <1>0, <2>2, <2>5
  <2>8. k <= rank[P[y]] BY <2>1, <2>6
  <2> QED BY <2>7, <2>8
<1>2. \A y \in N : f[y] = g[y]
  <2> SUFFICES ASSUME NEW y \in N, f[y] # g[y] PROVE FALSE OBVIOUS
  <2>1. rank[y] \in Bad OBVIOUS
  <2> QED BY <2>1, <1>1
<1>3. \A y \in N : (IF P[y] = y THEN y ELSE f[P[y]]) = IF P[y] = y THEN y ELSE g[P[y]]
  BY <1>0, <1>2
<1>4. [y \in N |-> IF P[y] = y THEN y ELSE f[P[y]]]
        = [y \in N |-> IF P[y] = y THEN y ELSE g[P[y]]]
  BY <1>3
<1> QED BY <1>4

\* `find' ends at a root, and a root is its own.
LEMMA ClimbToRoot ==
    ASSUME NEW N, NEW P \in [N -> N], NEW rank, NEW top, Ranked(N, P, rank, top)
    PROVE  /\ Climb(N, P) \in [N -> N]
           /\ Climbing(N, P, Climb(N, P))
           /\ \A y \in N : P[Climb(N, P)[y]] = Climb(N, P)[y]
<1> DEFINE f == Climb(N, P)
<1>1. \E g \in [N -> N] : g = [y \in N |-> IF P[y] = y THEN y ELSE g[P[y]]]
  BY ClimbExists
<1>c. Climbing(N, P, f) BY <1>1 DEF Climb, Climbing
<1>2. f = [y \in N |-> IF P[y] = y THEN y ELSE f[P[y]]] BY <1>c DEF Climbing
<1>3. f \in [N -> N]
  <2>1. PICK g \in [N -> N] : g = [y \in N |-> IF P[y] = y THEN y ELSE g[P[y]]] BY <1>1
  <2>2. Climbing(N, P, g) BY <2>1 DEF Climbing
  <2> HIDE DEF f
  <2>3. f = g BY <1>c, <2>2, ClimbIsUnique
  <2> QED BY <2>3
<1> HIDE DEF f
<1> DEFINE Bad == {rank[y] : y \in {y \in N : P[f[y]] # f[y]}}
<1>4. \A y \in N : /\ rank[y] \in Nat /\ P[y] \in N
                   /\ P[y] # y => rank[P[y]] < rank[y] /\ rank[P[y]] \in Nat
  BY DEF Ranked
<1>5. Bad = {}
  <2> SUFFICES ASSUME Bad # {} PROVE FALSE OBVIOUS
  <2>0. Bad \subseteq Nat BY <1>4
  <2>1. PICK k \in Bad : \A j \in Bad : k <= j BY <2>0, LeastOf
  <2>2. PICK y \in N : P[f[y]] # f[y] /\ k = rank[y] OBVIOUS
  <2>3. f[y] = IF P[y] = y THEN y ELSE f[P[y]] BY <1>2
  <2>5. P[y] # y /\ f[y] = f[P[y]] BY <2>2, <2>3
  <2>6. rank[P[y]] \in Bad BY <2>2, <2>5, <1>4
  <2>7. rank[P[y]] < k /\ rank[P[y]] \in Nat /\ k \in Nat BY <1>4, <2>2, <2>5
  <2>8. k <= rank[P[y]] BY <2>1, <2>6
  <2> QED BY <2>7, <2>8
<1>6. \A y \in N : P[f[y]] = f[y] BY <1>5
<1> QED BY <1>c, <1>3, <1>6 DEF f

\* Q is the forest P with the root of a hung below the root of b
Hung(N, P, Q, a, b) ==
    /\ P \in [N -> N] /\ a \in N /\ b \in N /\ Q \in [N -> N]
    /\ \A y \in N : Q[y] = IF y = Climb(N, P)[a] THEN Climb(N, P)[b] ELSE P[y]

\* `union' hangs one root below another: the two trees become one, and the forest
\* stays a forest.
LEMMA UniteJoins ==
    ASSUME NEW N, NEW P, NEW rank, NEW top, Ranked(N, P, rank, top),
           NEW a, NEW b, NEW Q, Hung(N, P, Q, a, b)
    PROVE  /\ \E r, t : Ranked(N, Q, r, t)
           /\ \A n \in N : Climb(N, Q)[n] = IF Climb(N, P)[n] = Climb(N, P)[a]
                                           THEN Climb(N, P)[b] ELSE Climb(N, P)[n]
<1> DEFINE f == Climb(N, P)
           h == [n \in N |-> IF f[n] = f[a] THEN f[b] ELSE f[n]]
<1> P \in [N -> N] /\ a \in N /\ b \in N BY DEF Hung
<1>0. /\ f \in [N -> N]
      /\ Climbing(N, P, f)
      /\ \A y \in N : P[f[y]] = f[y]
  BY ClimbToRoot
<1>1. /\ f \in [N -> N]
      /\ f = [y \in N |-> IF P[y] = y THEN y ELSE f[P[y]]]
      /\ \A y \in N : P[f[y]] = f[y]
  BY <1>0 DEF Climbing
<1> HIDE DEF f
<1>2. \A y \in N : /\ f[y] \in N /\ P[y] \in N /\ P[f[y]] = f[y]
                   /\ f[y] = IF P[y] = y THEN y ELSE f[P[y]]
  BY <1>1
<1>4. Q \in [N -> N] BY DEF Hung
<1>5. \A y \in N : Q[y] = IF y = f[a] THEN f[b] ELSE P[y] BY DEF f, Hung
<1>6. CASE f[a] = f[b]
  <2>1. \A y \in N : Q[y] = P[y] BY <1>2, <1>5, <1>6
  <2>2. Q = P BY <2>1, <1>4
  <2>3. \A y \in N : h[y] = f[y] BY <1>6
  <2>4. h = f BY <2>3, <1>1
  <2>5. \E x, t : Ranked(N, Q, x, t) BY <2>2
  <2>6. Climb(N, Q) = f BY <2>2 DEF f
  <2> QED BY <2>3, <2>5, <2>6, <1>4 DEF f
<1>7. CASE f[a] # f[b]
  <2>1. f[f[a]] = f[a] /\ f[f[b]] = f[b] BY <1>2
  <2>2. \A y \in N : h[y] = IF Q[y] = y THEN y ELSE h[Q[y]]
    <3> SUFFICES ASSUME NEW y \in N PROVE h[y] = IF Q[y] = y THEN y ELSE h[Q[y]]
      OBVIOUS
    <3>1. CASE y = f[a]
      <4>1. Q[y] = f[b] BY <3>1, <1>5
      <4>2. h[y] = f[b] /\ h[f[b]] = f[b] BY <3>1, <2>1, <1>7, <1>2
      <4> QED BY <4>1, <4>2, <3>1, <1>7
    <3>2. CASE y # f[a]
      <4>1. Q[y] = P[y] BY <3>2, <1>5
      <4>2. CASE P[y] = y BY <4>1, <4>2, <1>2, <3>2
      <4>3. CASE P[y] # y BY <4>1, <4>3, <1>2
      <4> QED BY <4>2, <4>3
    <3> QED BY <3>1, <3>2
  <2> DEFINE r == [n \in N |-> IF f[n] = f[a] THEN rank[n] + rank[f[b]] + 1 ELSE rank[n]]
  <2>3. \A n \in N : /\ rank[n] \in Nat /\ rank[n] <= top
                     /\ P[n] # n => rank[P[n]] < rank[n] /\ rank[P[n]] \in Nat
    BY <1>2 DEF Ranked
  <2>4. top \in Nat BY DEF Ranked
  <2>5. r \in [N -> Nat] BY <2>3, <1>2
  <2>6. \A n \in N : r[n] <= top + top + 1
    <3> SUFFICES ASSUME NEW n \in N PROVE r[n] <= top + top + 1 OBVIOUS
    <3>1. rank[n] \in Nat /\ rank[n] <= top /\ rank[f[b]] \in Nat /\ rank[f[b]] <= top
      BY <2>3, <1>2
    <3> QED BY <3>1, <2>4
  <2>7. \A n \in N : Q[n] # n => r[Q[n]] < r[n]
    <3> SUFFICES ASSUME NEW n \in N, Q[n] # n PROVE r[Q[n]] < r[n] OBVIOUS
    <3>0. rank[n] \in Nat /\ rank[f[b]] \in Nat BY <2>3, <1>2
    <3>1. CASE n = f[a]
      <4>1. Q[n] = f[b] /\ f[b] \in N BY <3>1, <1>5, <1>2
      <4>2. r[f[b]] = rank[f[b]] BY <2>1, <1>7, <1>2
      <4>3. r[n] = rank[n] + rank[f[b]] + 1 BY <3>1, <2>1
      <4> QED BY <4>1, <4>2, <4>3, <3>0
    <3>2. CASE n # f[a]
      <4>1. Q[n] = P[n] /\ P[n] # n /\ P[n] \in N BY <3>2, <1>5, <1>2
      <4>2. f[n] = f[P[n]] BY <4>1, <1>2
      <4>3. rank[P[n]] < rank[n] /\ rank[P[n]] \in Nat BY <4>1, <2>3
      <4> QED BY <4>1, <4>2, <4>3, <3>0
    <3> QED BY <3>1, <3>2
  <2>8. \E x, t : Ranked(N, Q, x, t)
    <3>1. Ranked(N, Q, r, top + top + 1) BY <2>4, <2>5, <2>6, <2>7 DEF Ranked
    <3> QED BY <3>1
  <2> HIDE DEF r
  <2>9. Climbing(N, Q, Climb(N, Q))
    <3>1. PICK x, t : Ranked(N, Q, x, t) BY <2>8
    <3> QED BY <3>1, <1>4, ClimbToRoot
  <2>10. Climbing(N, Q, h)
    <3>1. h = [y \in N |-> h[y]] OBVIOUS
    <3> HIDE DEF h
    <3> QED BY <3>1, <2>2 DEF Climbing
  <2> HIDE DEF h
  <2>11. Climb(N, Q) = h
    <3>1. PICK x, t : Ranked(N, Q, x, t) BY <2>8
    <3> QED BY <3>1, <2>9, <2>10, <1>4, ClimbIsUnique
  <2> QED BY <2>8, <2>11, <1>4 DEF h, f
<1> QED BY <1>6, <1>7

LEMMA FindRootClimbs == \A x : FindRoot(x) = Climb(nodes, parent)[x]
BY DEF FindRoot, Climb

-----------------------------------------------------------------------------
(* The inductive invariant of the planner *)

\* the references of n into S
Owed(n, S) == {r \in refs : r.from = n /\ r.to \in S}

IsRing(ring) == /\ ring \in SUBSET nodes /\ ring # {}
                /\ \A n \in ring : DependsOn(n) \cap ring # {}

\* no reference leads from the part or into it
IsPart(part) == /\ part \in SUBSET nodes
                /\ \A n \in part : DependsOn(n) \cap nodes \subseteq part
                /\ \A n \in nodes \ part : DependsOn(n) \cap part = {}

Missing == \E r \in refs : r.to \notin nodes

\* the nodes that have left the queue
Done == {n \in nodes : degree[n] = 0} \ queue

Placed == UNION {stages[i] : i \in DOMAIN stages}

Checked == {"verdict", "stages", "planned", "rejected"}

PlannerTypeOK ==
    /\ nodes \subseteq Ids
    /\ listed \in Nat /\ listed >= Cardinality(nodes)
    /\ IsFiniteSet(refs) /\ \A r \in refs : r.from \in nodes
    /\ phase \in {"fields", "cycles", "union"} \cup Checked
    /\ stages \in Seq(SUBSET nodes)

\* what has been reported is so, and what is so has been reported
ErrorsAreTrue ==
    /\ phase = "fields" => errors = {} /\ stages = <<>> /\ processed = 0
    /\ phase # "fields" => ("missing" \in errors <=> Missing)
    /\ phase # "fields" => ("duplicate" \in errors <=> Repeated)
    /\ phase = "cycles" => errors \subseteq {"duplicate", "field"}
    /\ phase \in {"union"} \cup Checked =>
         ("cycle" \in errors <=> ("missing" \notin errors /\ (HasCycle \/ Repeated)))
    /\ phase = "union" => "disconnected" \notin errors
    /\ phase \in Checked => ("disconnected" \in errors <=> IsSplit)
    /\ phase \in {"stages", "planned"} => errors = {}
    /\ phase \notin {"stages", "planned"} => stages = <<>>

\* Kahn's loop: a degree counts the references that still wait, and no member of a
\* ring has been processed
KahnHolds ==
    phase = "cycles" =>
      /\ degree \in [nodes -> Nat]
      /\ queue \subseteq {n \in nodes : degree[n] = 0}
      /\ processed = Cardinality(Done)
      /\ \A n \in nodes : degree[n] = Cardinality(Owed(n, nodes \ Done))
      /\ \A ring : IsRing(ring) => ring \cap Done = {}

\* union-find: parents are a forest; united references have one root, and a part
\* of the graph holds a node exactly when it holds its root
ForestHolds ==
    phase = "union" =>
      /\ parent \in [nodes -> nodes]
      /\ \E rank, top : Ranked(nodes, parent, rank, top)
      /\ pending \subseteq {r \in refs : r.to \in nodes}
      /\ \A r \in refs : r.to \in nodes /\ r \notin pending =>
                           Climb(nodes, parent)[r.from] = Climb(nodes, parent)[r.to]
      /\ \A part : IsPart(part) =>
           \A n \in nodes : n \in part <=> Climb(nodes, parent)[n] \in part

\* the stages: what has been placed and what waits are the two parts of the graph
StagesHold ==
    /\ phase \in {"stages", "planned"} =>
         /\ DOMAIN degree \subseteq nodes
         /\ \A n \in DOMAIN degree : degree[n] = Cardinality(Owed(n, DOMAIN degree))
         /\ Placed = nodes \ DOMAIN degree
         /\ \A i, j \in DOMAIN stages : i # j => stages[i] \cap stages[j] = {}
         /\ \A i \in DOMAIN stages : \A n \in stages[i] :
              /\ DependsOn(n) \subseteq UNION {stages[j] : j \in 1..(i-1)}
              /\ i > 1 => DependsOn(n) \cap stages[i-1] # {}
         /\ \A n \in DOMAIN degree : degree[n] = 0 /\ stages # <<>> =>
              DependsOn(n) \cap stages[Len(stages)] # {}
    /\ phase = "planned" => \A n \in DOMAIN degree : degree[n] # 0

PlannerInv == PlannerTypeOK /\ ErrorsAreTrue /\ KahnHolds /\ ForestHolds /\ StagesHold

-----------------------------------------------------------------------------
(* The graph of the definition *)

\* No step changes the definition, nor what is said about it alone.
LEMMA GraphKept ==
    ASSUME UNCHANGED <<nodes, listed, refs>>
    PROVE  /\ Missing' <=> Missing
           /\ Repeated' <=> Repeated
           /\ HasCycle' <=> HasCycle
           /\ IsSplit' <=> IsSplit
           /\ \A n : DependsOn(n)' = DependsOn(n)
           /\ \A S : IsRing(S)' <=> IsRing(S)
           /\ \A S : IsPart(S)' <=> IsPart(S)
           /\ \A n, S : Owed(n, S)' = Owed(n, S)
<1>1. \A n : DependsOn(n)' = DependsOn(n) BY DEF DependsOn
<1>2. (Missing' <=> Missing) /\ (Repeated' <=> Repeated) BY DEF Missing, Repeated
<1>3. HasCycle' <=> HasCycle BY <1>1 DEF HasCycle
<1>4. IsSplit' <=> IsSplit BY <1>1 DEF IsSplit
<1>5. \A S : IsRing(S)' <=> IsRing(S) BY <1>1 DEF IsRing
<1>6. \A S : IsPart(S)' <=> IsPart(S) BY <1>1 DEF IsPart
<1>7. \A n, S : Owed(n, S)' = Owed(n, S) BY DEF Owed
<1> QED BY <1>1, <1>2, <1>3, <1>4, <1>5, <1>6, <1>7

LEMMA OwedIsDepends ==
    \A n, S : /\ Owed(n, S) = {} <=> DependsOn(n) \cap S = {}
              /\ Owed(n, S) = {} => \A r \in refs : r.from = n => r.to \notin S
BY DEF Owed, DependsOn

LEMMA OwedIsFinite ==
    ASSUME PlannerTypeOK, NEW n, NEW S
    PROVE  /\ IsFiniteSet(Owed(n, S))
           /\ Cardinality(Owed(n, S)) \in Nat
           /\ Cardinality(Owed(n, S)) = 0 <=> DependsOn(n) \cap S = {}
<1>1. Owed(n, S) \in SUBSET refs /\ IsFiniteSet(refs) BY DEF Owed, PlannerTypeOK
<1>2. IsFiniteSet(Owed(n, S)) BY <1>1, FS_Subset
<1> QED BY <1>2, CardPositive, OwedIsDepends

LEMMA OwedSplits ==
    ASSUME PlannerTypeOK, NEW n, NEW S, NEW D \in SUBSET S
    PROVE  Cardinality(Owed(n, S)) = Cardinality(Owed(n, S \ D)) + Cardinality(Owed(n, D))
<1>1. Owed(n, S) = Owed(n, S \ D) \cup Owed(n, D) BY DEF Owed
<1>2. Owed(n, S \ D) \cap Owed(n, D) = {} BY DEF Owed
<1>3. IsFiniteSet(Owed(n, S)) BY OwedIsFinite
<1> QED BY <1>1, <1>2, <1>3, CardSplit

\* without missing references all references lead into the graph
LEMMA OwedToNodes ==
    ASSUME ~Missing, NEW n
    PROVE  /\ {r \in refs : r.from = n} = Owed(n, nodes)
           /\ DependsOn(n) \subseteq nodes
BY DEF Missing, Owed, DependsOn

LEMMA SmallIsWhole ==
    ASSUME PlannerTypeOK, ~(Cardinality(nodes) > 1)
    PROVE  ~IsSplit
<1> SUFFICES ASSUME NEW part \in SUBSET nodes, part # {}, part # nodes PROVE FALSE
  BY DEF IsSplit
<1>1. IsFiniteSet(nodes) BY IdsAssumption, FS_Subset DEF PlannerTypeOK
<1>2. PICK rest : rest = nodes \ part OBVIOUS
<1>3. nodes = part \cup rest /\ part \cap rest = {} /\ rest # {} BY <1>2
<1>4. /\ IsFiniteSet(part) /\ IsFiniteSet(rest)
      /\ Cardinality(part) \in Nat /\ Cardinality(rest) \in Nat
      /\ Cardinality(nodes) = Cardinality(part) + Cardinality(rest)
  BY <1>1, <1>3, CardSplit
<1>5. Cardinality(part) # 0 /\ Cardinality(rest) # 0
  BY <1>3, <1>4, CardPositive
<1> QED BY <1>4, <1>5

-----------------------------------------------------------------------------
(* The steps *)

\* What BeginUnion sets up: a forest of single nodes, or nothing to unite.
LEMMA UnionBegins ==
    ASSUME PlannerTypeOK, BeginUnion, UNCHANGED <<nodes, listed, refs>>
    PROVE  /\ phase' \in {"union", "verdict"}
           /\ phase' = "verdict" => ~IsSplit'
           /\ ForestHolds'
<1>1. CASE listed > 1
  <2>1. /\ phase' = "union" /\ pending' = {r \in refs : r.to \in nodes}
        /\ parent' = [n \in nodes |-> n]
    BY <1>1 DEF BeginUnion
  <2> DEFINE P == [n \in nodes |-> n]
             zero == [n \in nodes |-> 0]
  <2>2. P \in [nodes -> nodes] /\ \A n \in nodes : P[n] = n OBVIOUS
  <2>3. Ranked(nodes, P, zero, 0) BY DEF Ranked
  <2> HIDE DEF P
  <2>4. \A n \in nodes : Climb(nodes, P)[n] = n
    <3>1. Climbing(nodes, P, Climb(nodes, P)) BY <2>2, <2>3, ClimbToRoot
    <3> QED BY <3>1, <2>2 DEF Climbing
  <2>5. parent' = P /\ nodes' = nodes /\ refs' = refs BY <2>1 DEF P
  <2>6. parent' \in [nodes' -> nodes'] BY <2>2, <2>5
  <2>7. \E rank, top : Ranked(nodes', parent', rank, top)
    <3>1. \E rank, top : Ranked(nodes, P, rank, top) BY <2>3
    <3> QED BY <3>1, <2>5
  <2>8. \A n \in nodes' : Climb(nodes', parent')[n] = n BY <2>4, <2>5
  <2>9. pending' \subseteq {r \in refs' : r.to \in nodes'} BY <2>1, <2>5
  <2>10. \A r \in refs' : r.to \in nodes' => r \in pending' BY <2>1, <2>5
  <2>11. (\A part : IsPart(part) =>
           \A n \in nodes : n \in part <=> Climb(nodes, parent)[n] \in part)'
    BY <2>8
  <2> QED BY <2>1, <2>6, <2>7, <2>9, <2>10, <2>11 DEF ForestHolds
<1>2. CASE ~(listed > 1)
  <2>1. phase' = "verdict" BY <1>2 DEF BeginUnion
  <2>2. ~(Cardinality(nodes) > 1)
    <3>1. Cardinality(nodes) \in Nat
      BY IdsAssumption, FS_Subset, CardNat DEF PlannerTypeOK
    <3> QED BY <3>1, <1>2 DEF PlannerTypeOK
  <2>3. ~IsSplit' BY <2>2, SmallIsWhole, GraphKept
  <2> QED BY <2>1, <2>3 DEF ForestHolds
<1> QED BY <1>1, <1>2

LEMMA CheckFieldsStep ==
    ASSUME PlannerInv, CheckFields
    PROVE  PlannerInv'
<1>1. /\ phase = "fields" /\ UNCHANGED <<nodes, listed, refs, processed, stages>>
      /\ errors = {} /\ stages = <<>> /\ processed = 0
  BY DEF CheckFields, PlannerInv, ErrorsAreTrue
<1>2. PlannerTypeOK BY DEF PlannerInv
<1>3. UNCHANGED <<nodes, listed, refs>> BY <1>1
<1>g. /\ Missing' <=> Missing
      /\ Repeated' <=> Repeated
      /\ HasCycle' <=> HasCycle
      /\ IsSplit' <=> IsSplit
  BY <1>3, GraphKept
<1>4. CASE Missing
  <2>1. /\ BeginUnion /\ "missing" \in errors'
        /\ errors' \subseteq {"duplicate", "field", "missing"}
        /\ "duplicate" \in errors' <=> Repeated
    BY <1>4 DEF CheckFields, Missing
  <2>2. /\ phase' \in {"union", "verdict"} /\ (phase' = "verdict" => ~IsSplit')
        /\ ForestHolds'
    BY <1>2, <1>3, <2>1, UnionBegins
  <2>3. PlannerTypeOK' BY <1>1, <1>2, <2>2 DEF PlannerTypeOK, Checked
  <2>4. ErrorsAreTrue' BY <1>1, <1>g, <1>4, <2>1, <2>2 DEF ErrorsAreTrue, Checked
  <2>5. KahnHolds' /\ StagesHold' BY <2>2 DEF KahnHolds, StagesHold
  <2> QED BY <2>2, <2>3, <2>4, <2>5 DEF PlannerInv
<1>5. CASE ~Missing
  <2>1. /\ phase' = "cycles" /\ degree' = InDegree
        /\ queue' = {n \in nodes : InDegree[n] = 0}
        /\ errors' \subseteq {"duplicate", "field"}
        /\ "duplicate" \in errors' <=> Repeated
    BY <1>5 DEF CheckFields, Missing
  <2>2. PlannerTypeOK' BY <1>1, <1>2, <2>1 DEF PlannerTypeOK, Checked
  <2>3. ErrorsAreTrue' BY <1>1, <1>g, <1>5, <2>1 DEF ErrorsAreTrue, Checked
  <2>4. ForestHolds' /\ StagesHold' BY <2>1 DEF ForestHolds, StagesHold
  <2>5. KahnHolds'
    <3>1. \A n \in nodes : /\ InDegree[n] = Cardinality(Owed(n, nodes))
                           /\ InDegree[n] \in Nat
      BY <1>2, <1>5, OwedToNodes, OwedIsFinite DEF InDegree
    <3>2. Done' = {} BY <1>3, <2>1 DEF Done
    <3>3. degree' \in [nodes' -> Nat]
      BY <3>1, <2>1, <1>3 DEF InDegree
    <3>4. queue' \subseteq {n \in nodes' : degree'[n] = 0} BY <2>1, <1>3
    <3>5. processed' = Cardinality(Done') BY <1>1, <3>2, FS_EmptySet
    <3>6. nodes' \ Done' = nodes BY <3>2, <1>3
    <3>7. \A n \in nodes' : degree'[n] = Cardinality(Owed(n, nodes \ Done)')
      BY <3>1, <3>6, <2>1, <1>3 DEF Owed
    <3>8. \A ring : IsRing(ring)' => ring \cap Done' = {} BY <3>2
    <3> QED BY <3>3, <3>4, <3>5, <3>7, <3>8 DEF KahnHolds
  <2> QED BY <2>2, <2>3, <2>4, <2>5 DEF PlannerInv
<1> QED BY <1>4, <1>5

\* The node that leaves the queue has no reference left: what it releases is one
\* reference less for those that name it, and it is on no ring.
LEMMA PopNodeStep ==
    ASSUME PlannerInv, PopNode
    PROVE  PlannerInv'
<1>1. /\ phase = "cycles" /\ queue # {}
      /\ UNCHANGED <<nodes, listed, refs, phase, errors, pending, parent, stages>>
  BY DEF PopNode
<1>2. UNCHANGED <<nodes, listed, refs>> BY <1>1
<1>3. PlannerTypeOK BY DEF PlannerInv
<1>4. /\ degree \in [nodes -> Nat]
      /\ queue \subseteq {n \in nodes : degree[n] = 0}
      /\ processed = Cardinality(Done)
      /\ \A n \in nodes : degree[n] = Cardinality(Owed(n, nodes \ Done))
      /\ \A ring : IsRing(ring) => ring \cap Done = {}
  BY <1>1 DEF PlannerInv, KahnHolds
<1>5. /\ errors \subseteq {"duplicate", "field"} /\ ~Missing /\ stages = <<>>
      /\ "duplicate" \in errors <=> Repeated
  BY <1>1 DEF PlannerInv, ErrorsAreTrue, Checked
<1>6. PICK d \in queue : /\ degree' = Released(d)
                         /\ queue' = (queue \ {d}) \cup
                              {n \in nodes : degree[n] > 0 /\ Released(d)[n] = 0}
                         /\ processed' = processed + 1
  <2>1. queue \subseteq Nat BY <1>3, <1>4, IdsAssumption DEF PlannerTypeOK
  <2>2. \E d \in queue : \A m \in queue : d <= m BY <1>1, <2>1, LeastOf
  <2>3. (CHOOSE n \in queue : \A m \in queue : n <= m) \in queue BY <2>2
  <2> QED BY <2>3 DEF PopNode
<1>7. d \in nodes /\ degree[d] = 0 /\ d \notin Done BY <1>4 DEF Done
<1>8. \A n \in nodes : /\ degree'[n] = degree[n] - Cardinality(Owed(n, {d}))
                       /\ degree'[n] = Cardinality(Owed(n, (nodes \ Done) \ {d}))
                       /\ Cardinality(Owed(n, {d})) \in Nat
                       /\ degree'[n] \in Nat /\ degree[n] \in Nat
  <2> SUFFICES ASSUME NEW n \in nodes
               PROVE  /\ degree'[n] = degree[n] - Cardinality(Owed(n, {d}))
                      /\ degree'[n] = Cardinality(Owed(n, (nodes \ Done) \ {d}))
                      /\ Cardinality(Owed(n, {d})) \in Nat
                      /\ degree'[n] \in Nat /\ degree[n] \in Nat
    OBVIOUS
  <2>1. Occurrences(n, d) = Owed(n, {d}) BY DEF Occurrences, Owed
  <2>2. degree'[n] = degree[n] - Cardinality(Owed(n, {d})) BY <1>6, <2>1 DEF Released
  <2>3. PICK rest : rest = nodes \ Done OBVIOUS
  <2>4. {d} \in SUBSET rest BY <1>7, <2>3
  <2>5. Cardinality(Owed(n, rest))
          = Cardinality(Owed(n, rest \ {d})) + Cardinality(Owed(n, {d}))
    BY <1>3, <2>4, OwedSplits
  <2>6. Cardinality(Owed(n, {d})) \in Nat /\ Cardinality(Owed(n, rest \ {d})) \in Nat
    BY <1>3, OwedIsFinite
  <2>7. degree[n] = Cardinality(Owed(n, rest)) /\ degree[n] \in Nat BY <1>4, <2>3
  <2>8. degree'[n] = Cardinality(Owed(n, rest \ {d})) BY <2>2, <2>5, <2>6, <2>7
  <2> QED BY <2>2, <2>3, <2>6, <2>7, <2>8
<1>9. \A n \in nodes : degree[n] = 0 => degree'[n] = 0 BY <1>8
<1>10. Done' = Done \cup {d}
  <2>1. Done' = {n \in nodes : degree'[n] = 0} \ queue' BY <1>2 DEF Done
  <2>2. queue' = (queue \ {d}) \cup {n \in nodes : degree[n] > 0 /\ degree'[n] = 0}
    BY <1>6
  <2>3. \A n \in nodes : degree[n] > 0 <=> degree[n] # 0 BY <1>8
  <2>4. Done = {n \in nodes : degree[n] = 0} \ queue BY DEF Done
  <2> QED BY <2>1, <2>2, <2>3, <2>4, <1>9, <1>7
<1>11. PlannerTypeOK' BY <1>1, <1>3 DEF PlannerTypeOK, Checked
<1>12. ErrorsAreTrue'
  BY <1>1, <1>5, GraphKept DEF ErrorsAreTrue, Checked
<1>13. ForestHolds' /\ StagesHold' BY <1>1 DEF ForestHolds, StagesHold
<1>14. KahnHolds'
  <2>1. degree' \in [nodes' -> Nat]
    <3>1. degree' = [n \in nodes |-> degree[n] - Cardinality(Occurrences(n, d))]
      BY <1>6 DEF Released
    <3>2. DOMAIN degree' = nodes /\ degree' = [n \in nodes |-> degree'[n]] BY <3>1
    <3> QED BY <3>2, <1>8, <1>2
  <2>2. queue' \subseteq {n \in nodes' : degree'[n] = 0}
    BY <1>2, <1>4, <1>6, <1>9
  <2>3. processed' = Cardinality(Done')
    <3>1. IsFiniteSet(Done)
      <4>1. IsFiniteSet(nodes) BY <1>3, IdsAssumption, FS_Subset DEF PlannerTypeOK
      <4>2. Done \in SUBSET nodes BY DEF Done
      <4> QED BY <4>1, <4>2, FS_Subset
    <3>2. Cardinality(Done \cup {d}) = Cardinality(Done) + 1
      BY <3>1, <1>7, FS_AddElement
    <3> QED BY <3>2, <1>4, <1>6, <1>10
  <2>4. nodes' \ Done' = (nodes \ Done) \ {d} BY <1>2, <1>10
  <2>5. \A n \in nodes' : degree'[n] = Cardinality(Owed(n, nodes \ Done)')
    <3>1. \A n : Owed(n, nodes \ Done)' = Owed(n, (nodes \ Done) \ {d})
      BY <2>4, <1>2 DEF Owed
    <3> QED BY <3>1, <1>2, <1>8
  <2>6. \A ring : IsRing(ring) => d \notin ring
    <3> SUFFICES ASSUME NEW ring, IsRing(ring), d \in ring PROVE FALSE OBVIOUS
    <3>1. ring \cap Done = {} /\ ring \subseteq nodes BY <1>4 DEF IsRing
    <3>2. DependsOn(d) \cap ring # {} BY DEF IsRing
    <3>3. DependsOn(d) \cap (nodes \ Done) = {}
      BY <1>3, <1>4, <1>7, OwedIsFinite
    <3> QED BY <3>1, <3>2, <3>3
  <2>7. \A ring : IsRing(ring)' => ring \cap Done' = {}
    BY <2>6, <1>2, <1>4, <1>10, GraphKept
  <2> QED BY <2>1, <2>2, <2>3, <2>5, <2>7 DEF KahnHolds
<1> QED BY <1>11, <1>12, <1>13, <1>14 DEF PlannerInv

\* When the queue is empty the unprocessed nodes are a ring, and no processed node
\* is on one.
LEMMA CyclesDoneStep ==
    ASSUME PlannerInv, CyclesDone
    PROVE  PlannerInv'
<1>1. /\ phase = "cycles" /\ queue = {} /\ BeginUnion
      /\ errors' = errors \cup IF processed < listed THEN {"cycle"} ELSE {}
      /\ UNCHANGED <<nodes, listed, refs, degree, queue, processed, stages>>
  BY DEF CyclesDone
<1>2. UNCHANGED <<nodes, listed, refs>> BY <1>1
<1>3. PlannerTypeOK BY DEF PlannerInv
<1>4. /\ degree \in [nodes -> Nat]
      /\ processed = Cardinality(Done)
      /\ \A n \in nodes : degree[n] = Cardinality(Owed(n, nodes \ Done))
      /\ \A ring : IsRing(ring) => ring \cap Done = {}
  BY <1>1 DEF PlannerInv, KahnHolds
<1>5. /\ errors \subseteq {"duplicate", "field"} /\ ~Missing /\ stages = <<>>
      /\ "duplicate" \in errors <=> Repeated
  BY <1>1 DEF PlannerInv, ErrorsAreTrue, Checked
<1>6. /\ phase' \in {"union", "verdict"} /\ (phase' = "verdict" => ~IsSplit')
      /\ ForestHolds'
  BY <1>1, <1>2, <1>3, UnionBegins
<1>7. processed < listed <=> HasCycle \/ Repeated
  <2>0. IsFiniteSet(nodes) BY <1>3, IdsAssumption, FS_Subset DEF PlannerTypeOK
  <2>1. Done = {n \in nodes : degree[n] = 0} BY <1>1 DEF Done
  <2>2. Done \in SUBSET nodes BY DEF Done
  <2>3. /\ Cardinality(Done) <= Cardinality(nodes)
        /\ Cardinality(nodes) = Cardinality(Done) => nodes = Done
        /\ Cardinality(nodes) \in Nat /\ Cardinality(Done) \in Nat
        /\ listed \in Nat /\ listed >= Cardinality(nodes)
    BY <2>0, <2>2, <1>3, FS_Subset, CardNat DEF PlannerTypeOK
  <2>4. processed < listed <=> Done # nodes \/ Repeated BY <2>3, <1>4 DEF Repeated
  <2>5. ASSUME Done # nodes PROVE HasCycle
    <3>1. \A n \in nodes \ Done : DependsOn(n) \cap (nodes \ Done) # {}
      BY <1>3, <1>4, <2>1, OwedIsFinite
    <3>2. nodes \ Done \in SUBSET nodes /\ nodes \ Done # {} BY <2>2, <2>5
    <3> QED BY <3>1, <3>2 DEF HasCycle
  <2>6. ASSUME HasCycle PROVE Done # nodes
    <3>1. PICK ring : IsRing(ring) BY <2>6 DEF HasCycle, IsRing
    <3>2. ring \cap Done = {} /\ ring \subseteq nodes /\ ring # {} BY <3>1, <1>4 DEF IsRing
    <3> QED BY <3>2
  <2> QED BY <2>4, <2>5, <2>6
<1>8. PlannerTypeOK' BY <1>1, <1>3, <1>6 DEF PlannerTypeOK, Checked
<1>9. ErrorsAreTrue'
  <2>1. /\ "cycle" \in errors' <=> HasCycle \/ Repeated
        /\ "duplicate" \in errors' <=> Repeated
    BY <1>1, <1>5, <1>7
  <2>2. "missing" \notin errors' /\ "disconnected" \notin errors' BY <1>1, <1>5
  <2>3. /\ Missing' <=> Missing
        /\ Repeated' <=> Repeated
        /\ HasCycle' <=> HasCycle
    BY <1>2, GraphKept
  <2> QED BY <1>1, <1>5, <1>6, <2>1, <2>2, <2>3 DEF ErrorsAreTrue, Checked
<1>10. KahnHolds' /\ StagesHold' BY <1>6 DEF KahnHolds, StagesHold
<1> QED BY <1>6, <1>8, <1>9, <1>10 DEF PlannerInv

\* Two references united, and the parts of the graph still hold whole trees.
LEMMA UniteNextStep ==
    ASSUME PlannerInv, UniteNext
    PROVE  PlannerInv'
<1>1. /\ phase = "union"
      /\ UNCHANGED <<nodes, listed, refs, phase, errors, degree, queue, processed, stages>>
  BY DEF UniteNext
<1>2. UNCHANGED <<nodes, listed, refs>> BY <1>1
<1>3. PlannerTypeOK BY DEF PlannerInv
<1> DEFINE f == Climb(nodes, parent)
<1>4. /\ parent \in [nodes -> nodes]
      /\ \E rank, top : Ranked(nodes, parent, rank, top)
      /\ pending \subseteq {r \in refs : r.to \in nodes}
      /\ \A r \in refs : r.to \in nodes /\ r \notin pending => f[r.from] = f[r.to]
      /\ \A part : IsPart(part) => \A n \in nodes : n \in part <=> f[n] \in part
  BY <1>1 DEF PlannerInv, ForestHolds
<1>5. PICK r \in pending : Unite(r) /\ pending' = pending \ {r} BY DEF UniteNext
<1>6. r \in refs /\ r.from \in nodes /\ r.to \in nodes BY <1>3, <1>4 DEF PlannerTypeOK
<1>7. parent' = [parent EXCEPT ![f[r.from]] = f[r.to]]
  BY <1>5, FindRootClimbs DEF Unite
<1> DEFINE g == Climb(nodes, parent')
<1>8. /\ parent' \in [nodes -> nodes]
      /\ \E x, t : Ranked(nodes, parent', x, t)
      /\ \A n \in nodes : g[n] = IF f[n] = f[r.from] THEN f[r.to] ELSE f[n]
  <2>1. PICK rank, top : Ranked(nodes, parent, rank, top) BY <1>4
  <2>2. PICK a \in nodes, b \in nodes : a = r.from /\ b = r.to BY <1>6
  <2>3. PICK P, Q : P = parent /\ Q = parent' OBVIOUS
  <2>5. P \in [nodes -> nodes] /\ Ranked(nodes, P, rank, top) BY <2>1, <2>3, <1>4
  <2>6. Hung(nodes, P, Q, a, b)
    <3>1. f[a] \in nodes /\ f[b] \in nodes BY <2>1, <1>4, ClimbToRoot
    <3>2. Q = [P EXCEPT ![f[a]] = f[b]] BY <1>7, <2>2, <2>3
    <3>3. f = Climb(nodes, P) BY <2>3
    <3> HIDE DEF f
    <3> QED BY <3>1, <3>2, <3>3, <2>5 DEF Hung
  <2>7. /\ \E x, t : Ranked(nodes, Q, x, t)
        /\ \A n \in nodes : Climb(nodes, Q)[n] =
             IF Climb(nodes, P)[n] = Climb(nodes, P)[a]
             THEN Climb(nodes, P)[b] ELSE Climb(nodes, P)[n]
    BY <2>5, <2>6, UniteJoins
  <2>4. /\ parent' \in [nodes -> nodes]
        /\ \E x, t : Ranked(nodes, parent', x, t)
        /\ \A n \in nodes : Climb(nodes, parent')[n] =
             IF Climb(nodes, parent)[n] = Climb(nodes, parent)[a]
             THEN Climb(nodes, parent)[b] ELSE Climb(nodes, parent)[n]
    BY <2>3, <2>6, <2>7 DEF Hung
  <2> QED BY <2>2, <2>4
<1>9. PlannerTypeOK' BY <1>1, <1>3 DEF PlannerTypeOK, Checked
<1>10. ErrorsAreTrue'
  <2>1. /\ Missing' <=> Missing
        /\ Repeated' <=> Repeated
        /\ HasCycle' <=> HasCycle
    BY <1>2, GraphKept
  <2> QED BY <2>1, <1>1 DEF PlannerInv, ErrorsAreTrue, Checked
<1>11. KahnHolds' /\ StagesHold' BY <1>1 DEF KahnHolds, StagesHold
<1>12. ForestHolds'
  <2>1. Climb(nodes, parent)' = g BY <1>2
  <2> HIDE DEF f, g
  <2>2. \A n \in nodes : g[n] = IF f[n] = f[r.from] THEN f[r.to] ELSE f[n] BY <1>8
  <2>3. \A q \in refs : q.to \in nodes /\ q \notin pending' => g[q.from] = g[q.to]
    <3> SUFFICES ASSUME NEW q \in refs, q.to \in nodes, q \notin pending'
                 PROVE  g[q.from] = g[q.to]
      OBVIOUS
    <3>1. q.from \in nodes BY <1>3 DEF PlannerTypeOK
    <3>2. CASE q = r BY <3>1, <3>2, <2>2
    <3>3. CASE q # r
      <4>1. f[q.from] = f[q.to] BY <1>4, <1>5, <3>3
      <4> QED BY <4>1, <3>1, <2>2
    <3> QED BY <3>2, <3>3
  <2>4. \A part : IsPart(part) => \A n \in nodes : n \in part <=> g[n] \in part
    <3> SUFFICES ASSUME NEW part, IsPart(part), NEW n \in nodes
                 PROVE  n \in part <=> g[n] \in part
      OBVIOUS
    <3>1. \A m \in nodes : m \in part <=> f[m] \in part BY <1>4
    <3>2. r.to \in DependsOn(r.from) BY <1>6 DEF DependsOn
    <3>3. r.from \in part <=> r.to \in part BY <3>2, <1>6 DEF IsPart
    <3> QED BY <3>1, <3>3, <2>2, <1>6
  <2>5. (\A q \in refs : q.to \in nodes /\ q \notin pending =>
           Climb(nodes, parent)[q.from] = Climb(nodes, parent)[q.to])'
    BY <2>1, <2>3, <1>2
  <2>6. (\A part : IsPart(part) =>
           \A n \in nodes : n \in part <=> Climb(nodes, parent)[n] \in part)'
    BY <2>1, <2>4, <1>2, GraphKept
  <2>7. pending' \subseteq {q \in refs' : q.to \in nodes'} BY <1>2, <1>4, <1>5
  <2>8. parent' \in [nodes' -> nodes'] /\ \E x, t : Ranked(nodes', parent', x, t)
    BY <1>2, <1>8
  <2> QED BY <2>5, <2>6, <2>7, <2>8 DEF ForestHolds
<1> QED BY <1>9, <1>10, <1>11, <1>12 DEF PlannerInv

\* With nothing left to unite the trees are the parts of the graph.
LEMMA UnionDoneStep ==
    ASSUME PlannerInv, UnionDone
    PROVE  PlannerInv'
<1> DEFINE f == Climb(nodes, parent)
           roots == {FindRoot(n) : n \in nodes}
<1>1. /\ phase = "union" /\ pending = {} /\ phase' = "verdict"
      /\ errors' = errors \cup IF Cardinality(roots) > 1 THEN {"disconnected"} ELSE {}
      /\ UNCHANGED <<nodes, listed, refs, degree, queue, processed, pending, parent, stages>>
  BY DEF UnionDone
<1>2. UNCHANGED <<nodes, listed, refs>> BY <1>1
<1>3. PlannerTypeOK BY DEF PlannerInv
<1>4. /\ parent \in [nodes -> nodes]
      /\ \E rank, top : Ranked(nodes, parent, rank, top)
      /\ \A r \in refs : r.to \in nodes => f[r.from] = f[r.to]
      /\ \A part : IsPart(part) => \A n \in nodes : n \in part <=> f[n] \in part
  BY <1>1 DEF PlannerInv, ForestHolds
<1>5. f \in [nodes -> nodes] BY <1>4, ClimbToRoot
<1>6. roots = {f[n] : n \in nodes} BY FindRootClimbs
<1>7. IsFiniteSet(roots)
  <2>1. IsFiniteSet(nodes) BY <1>3, IdsAssumption, FS_Subset DEF PlannerTypeOK
  <2>2. roots \in SUBSET nodes BY <1>5, <1>6
  <2> QED BY <2>1, <2>2, FS_Subset
<1> HIDE DEF f
<1>8. ASSUME IsSplit PROVE Cardinality(roots) > 1
  <2>1. PICK part : IsPart(part) /\ part # {} /\ part # nodes
    BY <1>8 DEF IsSplit, IsPart
  <2>2. PICK n \in part : n \in nodes BY <2>1 DEF IsPart
  <2>3. PICK m \in nodes : m \notin part BY <2>1 DEF IsPart
  <2>4. f[n] # f[m] BY <1>4, <2>1, <2>2, <2>3
  <2>5. f[n] \in roots /\ f[m] \in roots BY <1>6, <2>2, <2>3
  <2> HIDE DEF roots
  <2>6. Cardinality(roots) \in Nat /\ Cardinality(roots) # 0
    BY <1>7, <2>5, CardPositive
  <2>7. Cardinality(roots) # 1
    <3> SUFFICES ASSUME Cardinality(roots) = 1 PROVE FALSE OBVIOUS
    <3>1. PICK x : roots = {x} BY <1>7, FS_Singleton
    <3> QED BY <3>1, <2>4, <2>5
  <2> QED BY <2>6, <2>7
<1>9. ASSUME Cardinality(roots) > 1 PROVE IsSplit
  <2>1. PICK n \in nodes, m \in nodes : f[n] # f[m]
    <3> SUFFICES ASSUME \A n, m \in nodes : f[n] = f[m] PROVE FALSE OBVIOUS
    <3>1. CASE nodes = {}
      <4>1. roots = {} BY <3>1
      <4> QED BY <4>1, <1>9, FS_EmptySet
    <3>2. CASE nodes # {}
      <4>1. PICK x \in nodes : TRUE BY <3>2
      <4>2. roots = {f[x]} BY <4>1, <1>6
      <4>3. Cardinality(roots) = 1 BY <4>2, FS_Singleton
      <4> QED BY <4>3, <1>9
    <3> QED BY <3>1, <3>2
  <2> DEFINE part == {x \in nodes : f[x] = f[n]}
  <2>2. part \in SUBSET nodes /\ part # {} /\ part # nodes BY <2>1
  <2>3. \A x \in nodes : \A y \in DependsOn(x) \cap nodes : f[x] = f[y]
    BY <1>4 DEF DependsOn
  <2>4. \A x \in part : DependsOn(x) \cap nodes \subseteq part BY <2>3
  <2>5. \A x \in nodes \ part : DependsOn(x) \cap part = {} BY <2>3
  <2> HIDE DEF part
  <2> QED BY <2>2, <2>4, <2>5 DEF IsSplit
<1>10. PlannerTypeOK' BY <1>1, <1>3 DEF PlannerTypeOK, Checked
<1>11. ErrorsAreTrue'
  <2>1. /\ Missing' <=> Missing
        /\ Repeated' <=> Repeated
        /\ HasCycle' <=> HasCycle
        /\ IsSplit' <=> IsSplit
    BY <1>2, GraphKept
  <2>2. /\ "missing" \in errors <=> Missing
        /\ "duplicate" \in errors <=> Repeated
        /\ "cycle" \in errors <=> ("missing" \notin errors /\ (HasCycle \/ Repeated))
        /\ "disconnected" \notin errors /\ stages = <<>>
    BY <1>1 DEF PlannerInv, ErrorsAreTrue, Checked
  <2>3. /\ "missing" \in errors' <=> "missing" \in errors
        /\ "duplicate" \in errors' <=> "duplicate" \in errors
        /\ "cycle" \in errors' <=> "cycle" \in errors
        /\ "disconnected" \in errors' <=> IsSplit
    BY <1>1, <1>8, <1>9, <2>2
  <2> QED BY <1>1, <2>1, <2>2, <2>3 DEF ErrorsAreTrue, Checked
<1>12. KahnHolds' /\ ForestHolds' /\ StagesHold'
  BY <1>1 DEF KahnHolds, ForestHolds, StagesHold
<1> QED BY <1>10, <1>11, <1>12 DEF PlannerInv

LEMMA VerdictStep ==
    ASSUME PlannerInv, Verdict
    PROVE  PlannerInv'
<1>1. /\ phase = "verdict"
      /\ phase' = IF errors = {} THEN "stages" ELSE "rejected"
      /\ degree' = IF errors = {} THEN InDegree ELSE degree
      /\ UNCHANGED <<nodes, listed, refs, errors, queue, processed, pending, parent, stages>>
  BY DEF Verdict
<1>2. UNCHANGED <<nodes, listed, refs>> BY <1>1
<1>3. PlannerTypeOK /\ ErrorsAreTrue BY DEF PlannerInv
<1>4. stages = <<>> BY <1>1, <1>3 DEF ErrorsAreTrue
<1>5. PlannerTypeOK' BY <1>1, <1>3 DEF PlannerTypeOK, Checked
<1>6. ErrorsAreTrue'
  <2>1. /\ Missing' <=> Missing
        /\ Repeated' <=> Repeated
        /\ HasCycle' <=> HasCycle
        /\ IsSplit' <=> IsSplit
    BY <1>2, GraphKept
  <2> QED BY <1>1, <1>3, <1>4, <2>1 DEF ErrorsAreTrue, Checked
<1>7. KahnHolds' /\ ForestHolds' BY <1>1 DEF KahnHolds, ForestHolds
<1>8. StagesHold'
  <2>1. CASE errors # {} BY <1>1, <2>1 DEF StagesHold
  <2>2. CASE errors = {}
    <3>1. ~Missing BY <1>1, <1>3, <2>2 DEF ErrorsAreTrue
    <3>2. degree' = InDegree /\ DOMAIN degree' = nodes BY <1>1, <2>2 DEF InDegree
    <3>3. \A n \in nodes : degree'[n] = Cardinality(Owed(n, nodes))
      BY <3>1, <3>2, OwedToNodes DEF InDegree
    <3>4. Placed' = {} BY <1>1, <1>4 DEF Placed
    <3>5. (\A n \in DOMAIN degree : degree[n] = Cardinality(Owed(n, DOMAIN degree)))'
      BY <3>2, <3>3, <1>2 DEF Owed
    <3>6. phase' = "stages" /\ stages' = <<>> /\ nodes' = nodes BY <1>1, <1>4, <2>2
    <3>7. DOMAIN stages' = {} BY <3>6
    <3> QED BY <3>2, <3>4, <3>5, <3>6, <3>7 DEF StagesHold
  <2> QED BY <2>1, <2>2
<1> QED BY <1>5, <1>6, <1>7, <1>8 DEF PlannerInv

\* A stage takes what waits for nothing; what then waits for nothing waited for it.
LEMMA BuildStageStep ==
    ASSUME PlannerInv, BuildStage
    PROVE  PlannerInv'
<1>1. /\ phase = "stages"
      /\ UNCHANGED <<nodes, listed, refs, errors, queue, processed, pending, parent>>
  BY DEF BuildStage
<1>2. UNCHANGED <<nodes, listed, refs>> BY <1>1
<1>3. PlannerTypeOK /\ ErrorsAreTrue BY DEF PlannerInv
<1>4. /\ DOMAIN degree \subseteq nodes
      /\ \A n \in DOMAIN degree : degree[n] = Cardinality(Owed(n, DOMAIN degree))
      /\ Placed = nodes \ DOMAIN degree
      /\ \A i, j \in DOMAIN stages : i # j => stages[i] \cap stages[j] = {}
      /\ \A i \in DOMAIN stages : \A n \in stages[i] :
           /\ DependsOn(n) \subseteq UNION {stages[j] : j \in 1..(i-1)}
           /\ i > 1 => DependsOn(n) \cap stages[i-1] # {}
      /\ \A n \in DOMAIN degree : degree[n] = 0 /\ stages # <<>> =>
           DependsOn(n) \cap stages[Len(stages)] # {}
  BY <1>1 DEF PlannerInv, StagesHold
<1>5. errors = {} /\ ~Missing
  BY <1>1, <1>3 DEF ErrorsAreTrue
<1>6. KahnHolds' /\ ForestHolds'
  BY <1>1 DEF BuildStage, KahnHolds, ForestHolds
<1>g. /\ \A n : DependsOn(n)' = DependsOn(n)
      /\ \A n, S : Owed(n, S)' = Owed(n, S)
  BY <1>2, GraphKept
<1>e. ASSUME phase' \in {"stages", "planned"} PROVE ErrorsAreTrue'
  <2>1. /\ Missing' <=> Missing
        /\ Repeated' <=> Repeated
        /\ HasCycle' <=> HasCycle
        /\ IsSplit' <=> IsSplit
    BY <1>2, GraphKept
  <2> QED BY <1>1, <1>3, <2>1, <1>e DEF ErrorsAreTrue, Checked
<1>7. CASE Zeros = {}
  <2>1. phase' = "planned" /\ UNCHANGED <<degree, stages>> BY <1>7 DEF BuildStage
  <2>2. PlannerTypeOK' BY <1>1, <1>3, <2>1 DEF PlannerTypeOK, Checked
  <2>3. ErrorsAreTrue' BY <1>e, <2>1
  <2>4. StagesHold'
    <3>1. \A n \in DOMAIN degree' : degree'[n] # 0 BY <1>7, <2>1 DEF Zeros
    <3>2. Placed' = nodes' \ DOMAIN degree' BY <1>2, <1>4, <2>1 DEF Placed
    <3>3. (\A n \in DOMAIN degree : degree[n] = Cardinality(Owed(n, DOMAIN degree)))'
      BY <1>4, <1>g, <2>1
    <3>4. (\A i \in DOMAIN stages : \A n \in stages[i] :
            /\ DependsOn(n) \subseteq UNION {stages[j] : j \in 1..(i-1)}
            /\ i > 1 => DependsOn(n) \cap stages[i-1] # {})'
      BY <1>4, <1>g, <2>1
    <3> QED BY <1>2, <1>4, <2>1, <3>1, <3>2, <3>3, <3>4 DEF StagesHold
  <2> QED BY <1>6, <2>2, <2>3, <2>4 DEF PlannerInv
<1>8. CASE Zeros # {}
  <2>1. /\ phase' = "stages" /\ stages' = Append(stages, Zeros)
        /\ degree' = [n \in DOMAIN degree \ Zeros |->
             degree[n] - Cardinality({r \in refs : r.from = n /\ r.to \in Zeros})]
    BY <1>1, <1>8 DEF BuildStage
  <2>2. Zeros \in SUBSET (DOMAIN degree) /\ \A n \in Zeros : degree[n] = 0 BY DEF Zeros
  <2>3. stages \in Seq(SUBSET nodes) /\ Zeros \in SUBSET nodes
    BY <1>3, <1>4, <2>2 DEF PlannerTypeOK
  <2>4. /\ Len(stages) \in Nat /\ DOMAIN stages = 1..Len(stages)
        /\ Len(stages') = Len(stages) + 1 /\ DOMAIN stages' = 1..(Len(stages) + 1)
        /\ \A i \in 1..Len(stages) : stages'[i] = stages[i]
        /\ stages'[Len(stages) + 1] = Zeros
        /\ stages' \in Seq(SUBSET nodes)
    BY <2>1, <2>3
  <2> DEFINE left == DOMAIN degree \ Zeros
  <2>5. DOMAIN degree' = left BY <2>1
  <2>6. \A n \in left : /\ degree'[n] = Cardinality(Owed(n, left))
                        /\ degree'[n] = 0 => DependsOn(n) \cap Zeros # {}
    <3> SUFFICES ASSUME NEW n \in left
                 PROVE  /\ degree'[n] = Cardinality(Owed(n, left))
                        /\ degree'[n] = 0 => DependsOn(n) \cap Zeros # {}
      OBVIOUS
    <3>1. degree'[n] = degree[n] - Cardinality(Owed(n, Zeros)) BY <2>1 DEF Owed
    <3>2. PICK D : D = DOMAIN degree OBVIOUS
    <3>3. Cardinality(Owed(n, D)) = Cardinality(Owed(n, D \ Zeros))
                                      + Cardinality(Owed(n, Zeros))
      BY <1>3, <2>2, <3>2, OwedSplits
    <3>4. /\ Cardinality(Owed(n, D)) \in Nat /\ Cardinality(Owed(n, D \ Zeros)) \in Nat
          /\ Cardinality(Owed(n, Zeros)) \in Nat
          /\ Cardinality(Owed(n, Zeros)) = 0 <=> DependsOn(n) \cap Zeros = {}
      BY <1>3, OwedIsFinite
    <3>5. degree[n] = Cardinality(Owed(n, D)) /\ left = D \ Zeros BY <1>4, <3>2
    <3>6. degree[n] # 0 BY DEF Zeros
    <3> HIDE DEF left
    <3> QED BY <3>1, <3>3, <3>4, <3>5, <3>6
  <2>7. Placed' = Placed \cup Zeros
    <3>1. \A x : x \in Placed' <=> \E i \in 1..(Len(stages) + 1) : x \in stages'[i]
      BY <2>4 DEF Placed
    <3>2. \A x : x \in Placed <=> \E i \in 1..Len(stages) : x \in stages[i]
      BY <2>4 DEF Placed
    <3>3. \A x : x \in Placed' <=> x \in Placed \/ x \in Zeros
      <4> SUFFICES ASSUME NEW x PROVE x \in Placed' <=> x \in Placed \/ x \in Zeros
        OBVIOUS
      <4>1. x \in Placed' => x \in Placed \/ x \in Zeros
        <5>1. SUFFICES ASSUME NEW i \in 1..(Len(stages) + 1), x \in stages'[i]
                     PROVE x \in Placed \/ x \in Zeros
          BY <3>1
        <5>2. i \in 1..Len(stages) \/ i = Len(stages) + 1 BY <2>4
        <5> QED BY <5>1, <5>2, <2>4, <3>2
      <4>2. x \in Placed => x \in Placed'
        <5>1. \A i \in 1..Len(stages) : i \in 1..(Len(stages) + 1) BY <2>4
        <5> QED BY <5>1, <2>4, <3>1, <3>2
      <4>3. x \in Zeros => x \in Placed'
        <5>1. Len(stages) + 1 \in 1..(Len(stages) + 1) BY <2>4
        <5> QED BY <5>1, <2>4, <3>1
      <4> QED BY <4>1, <4>2, <4>3
    <3> QED BY <3>3
  <2>8. Placed' = nodes' \ left BY <1>2, <1>4, <2>2, <2>7
  <2>9. PlannerTypeOK'
    BY <1>1, <1>3, <2>1, <2>4 DEF PlannerTypeOK, Checked
  <2>10. ErrorsAreTrue' BY <1>e, <2>1
  <2>11. (\A i, j \in DOMAIN stages : i # j => stages[i] \cap stages[j] = {})'
    <3>1. \A i \in 1..Len(stages) : stages[i] \cap Zeros = {}
      BY <1>4, <2>2, <2>4 DEF Placed
    <3>2. \A i \in DOMAIN stages' : i \in 1..Len(stages) \/ i = Len(stages) + 1 BY <2>4
    <3>3. ASSUME NEW i \in DOMAIN stages', NEW j \in DOMAIN stages', i # j
          PROVE  stages'[i] \cap stages'[j] = {}
      <4>1. CASE i \in 1..Len(stages) /\ j \in 1..Len(stages)
        BY <4>1, <3>3, <1>4, <2>4
      <4>2. CASE i \in 1..Len(stages) /\ j = Len(stages) + 1 BY <4>2, <3>1, <2>4
      <4>3. CASE i = Len(stages) + 1 /\ j \in 1..Len(stages) BY <4>3, <3>1, <2>4
      <4> QED BY <3>2, <3>3, <4>1, <4>2, <4>3
    <3> QED BY <3>3
  <2>12. ASSUME NEW i \in DOMAIN stages', NEW n \in stages'[i]
         PROVE  /\ DependsOn(n) \subseteq UNION {stages'[j] : j \in 1..(i-1)}
                /\ i > 1 => DependsOn(n) \cap stages'[i-1] # {}
    <3>1. CASE i \in 1..Len(stages)
      <4>1. n \in stages[i] /\ i \in DOMAIN stages BY <3>1, <2>4
      <4>2. /\ DependsOn(n) \subseteq UNION {stages[j] : j \in 1..(i-1)}
            /\ i > 1 => DependsOn(n) \cap stages[i-1] # {}
        BY <4>1, <1>4
      <4>3. \A j \in 1..(i-1) : stages'[j] = stages[j] BY <3>1, <2>4
      <4>4. i > 1 => i - 1 \in 1..(i-1) BY <3>1
      <4> QED BY <4>2, <4>3, <4>4
    <3>2. CASE i = Len(stages) + 1
      <4>1. n \in Zeros /\ n \in DOMAIN degree /\ degree[n] = 0 BY <3>2, <2>2, <2>4
      <4>2. PICK D : D = DOMAIN degree OBVIOUS
      <4>3. DependsOn(n) \cap D = {}
        <5>1. Cardinality(Owed(n, D)) = 0 BY <1>4, <4>1, <4>2
        <5> QED BY <5>1, <1>3, OwedIsFinite
      <4>4. DependsOn(n) \subseteq Placed BY <1>4, <1>5, <4>2, <4>3, OwedToNodes
      <4>5. UNION {stages'[j] : j \in 1..(i-1)} = Placed
        BY <3>2, <2>4 DEF Placed
      <4>6. i > 1 => DependsOn(n) \cap stages'[i-1] # {}
        <5>1. SUFFICES ASSUME i > 1 PROVE DependsOn(n) \cap stages'[i-1] # {} OBVIOUS
        <5>2. Len(stages) # 0 /\ stages # <<>> BY <3>2, <5>1, <2>3, <2>4
        <5>3. i - 1 = Len(stages) /\ stages'[i-1] = stages[Len(stages)]
          BY <3>2, <5>2, <2>4
        <5> QED BY <5>2, <5>3, <4>1, <1>4
      <4> QED BY <4>4, <4>5, <4>6
    <3> QED BY <3>1, <3>2, <2>4
  <2>13. StagesHold'
    <3>1. (\A n \in DOMAIN degree : degree[n] = Cardinality(Owed(n, DOMAIN degree)))'
      BY <2>5, <2>6, <1>g
    <3>2. (\A i \in DOMAIN stages : \A n \in stages[i] :
            /\ DependsOn(n) \subseteq UNION {stages[j] : j \in 1..(i-1)}
            /\ i > 1 => DependsOn(n) \cap stages[i-1] # {})'
      BY <2>12, <1>g
    <3>3. (\A n \in DOMAIN degree : degree[n] = 0 /\ stages # <<>> =>
            DependsOn(n) \cap stages[Len(stages)] # {})'
      BY <2>4, <2>5, <2>6, <1>g
    <3>4. DOMAIN degree' \subseteq nodes' BY <1>2, <1>4, <2>5
    <3> QED BY <2>1, <2>5, <2>8, <2>11, <3>1, <3>2, <3>3, <3>4 DEF StagesHold
  <2> QED BY <1>6, <2>9, <2>10, <2>13 DEF PlannerInv
<1> QED BY <1>7, <1>8

LEMMA PlannerStarts == PlannerInit => PlannerInv
<1> SUFFICES ASSUME PlannerInit PROVE PlannerInv OBVIOUS
<1>1. nodes \in SUBSET Ids /\ phase = "fields" /\ errors = {} /\ processed = 0
      /\ stages = <<>>
  BY DEF PlannerInit
<1>2. PICK pairs \in SUBSET (nodes \X Ids), twice \in SUBSET (nodes \X Ids) :
        /\ twice \in SUBSET pairs
        /\ refs = Once(pairs) \cup {[r EXCEPT !.nth = 2] : r \in Once(twice)}
  <2>1. PICK pairs \in SUBSET (nodes \X Ids) :
          \E twice \in {{}} \cup {{p} : p \in pairs} :
            refs = Once(pairs) \cup {[r EXCEPT !.nth = 2] : r \in Once(twice)}
    BY DEF PlannerInit
  <2>2. PICK twice \in {{}} \cup {{p} : p \in pairs} :
          refs = Once(pairs) \cup {[r EXCEPT !.nth = 2] : r \in Once(twice)}
    BY <2>1
  <2>3. twice \in SUBSET pairs BY <2>2
  <2> QED BY <2>2, <2>3
<1>3. twice \in SUBSET pairs BY <1>2
<1> DEFINE all == nodes \X Ids
<1>4. IsFiniteSet(all)
  <2>1. IsFiniteSet(nodes) /\ IsFiniteSet(Ids)
    BY <1>1, IdsAssumption, FS_Subset
  <2> QED BY <2>1, FS_Product
<1>5. IsFiniteSet(pairs) /\ IsFiniteSet(twice)
  <2>1. pairs \in SUBSET all /\ twice \in SUBSET all BY <1>3
  <2> HIDE DEF all
  <2> QED BY <2>1, <1>4, FS_Subset
<1>6. IsFiniteSet(Once(pairs)) /\ IsFiniteSet(Once(twice))
  <2> DEFINE row == [p \in pairs |-> [from |-> p[1], to |-> p[2], nth |-> 1]]
             again == [p \in twice |-> [from |-> p[1], to |-> p[2], nth |-> 1]]
  <2>1. Once(pairs) = {row[p] : p \in pairs} BY DEF Once
  <2>2. Once(twice) = {again[p] : p \in twice} BY DEF Once
  <2>3. DOMAIN row = pairs /\ DOMAIN again = twice OBVIOUS
  <2> HIDE DEF row, again
  <2> QED BY <2>1, <2>2, <2>3, <1>5, ValuesFinite
<1>7. IsFiniteSet({[r EXCEPT !.nth = 2] : r \in Once(twice)})
  <2> DEFINE T == Once(twice)
             second == [r \in T |-> [r EXCEPT !.nth = 2]]
  <2>1. {[r EXCEPT !.nth = 2] : r \in T} = {second[r] : r \in T} OBVIOUS
  <2>2. DOMAIN second = T OBVIOUS
  <2> HIDE DEF second
  <2> QED BY <2>1, <2>2, <1>6, ValuesFinite
<1>8. IsFiniteSet(refs) BY <1>2, <1>6, <1>7, FS_Union
<1>9. \A r \in refs : r.from \in nodes
  <2>1. \A r \in Once(pairs) \cup Once(twice) :
           \E p \in pairs : r = [from |-> p[1], to |-> p[2], nth |-> 1]
    BY <1>3 DEF Once
  <2>2. \A p \in pairs : p[1] \in nodes OBVIOUS
  <2>3. \A r \in Once(pairs) \cup Once(twice) :
           r.from \in nodes /\ [r EXCEPT !.nth = 2].from = r.from
    BY <2>1, <2>2
  <2> QED BY <1>2, <2>3
<1>10. PlannerTypeOK
  <2>1. listed \in Nat /\ listed >= Cardinality(nodes)
    <3>1. PICK repeats \in 0..MaxRepeats : listed = Cardinality(nodes) + repeats
      BY DEF PlannerInit
    <3>2. Cardinality(nodes) \in Nat BY <1>1, IdsAssumption, FS_Subset, CardNat
    <3>3. repeats \in Nat BY IdsAssumption
    <3> QED BY <3>1, <3>2, <3>3
  <2> QED BY <2>1, <1>1, <1>8, <1>9 DEF PlannerTypeOK
<1>11. ErrorsAreTrue BY <1>1 DEF ErrorsAreTrue, Checked
<1>12. KahnHolds /\ ForestHolds /\ StagesHold
  BY <1>1 DEF KahnHolds, ForestHolds, StagesHold
<1> QED BY <1>10, <1>11, <1>12 DEF PlannerInv

LEMMA PlannerSteps == PlannerInv /\ [PlannerNext]_plannerVars => PlannerInv'
<1> SUFFICES ASSUME PlannerInv, [PlannerNext]_plannerVars PROVE PlannerInv' OBVIOUS
<1>1. CASE UNCHANGED plannerVars
  <2>1. UNCHANGED <<nodes, listed, refs, phase, errors, degree, queue, processed, pending, parent,
                    stages>>
    BY <1>1 DEF plannerVars
  <2>2. UNCHANGED <<nodes, listed, refs>> BY <2>1
  <2>3. PlannerTypeOK' BY <2>1 DEF PlannerInv, PlannerTypeOK, Checked
  <2>4. ErrorsAreTrue'
    <3>1. /\ Missing' <=> Missing
          /\ Repeated' <=> Repeated
          /\ HasCycle' <=> HasCycle
          /\ IsSplit' <=> IsSplit
      BY <2>2, GraphKept
    <3> QED BY <2>1, <3>1 DEF PlannerInv, ErrorsAreTrue, Checked
  <2>5. KahnHolds'
    <3>1. Done' = Done BY <2>1 DEF Done
    <3>2. (\A n \in nodes : degree[n] = Cardinality(Owed(n, nodes \ Done)))'
            <=> \A n \in nodes : degree[n] = Cardinality(Owed(n, nodes \ Done))
      BY <2>1, <3>1 DEF Owed
    <3>3. (\A ring : IsRing(ring) => ring \cap Done = {})'
            <=> \A ring : IsRing(ring) => ring \cap Done = {}
      BY <2>2, <3>1, GraphKept
    <3> QED BY <2>1, <3>1, <3>2, <3>3 DEF PlannerInv, KahnHolds
  <2>6. ForestHolds'
    <3>1. (\A part : IsPart(part) =>
             \A n \in nodes : n \in part <=> Climb(nodes, parent)[n] \in part)'
            <=> \A part : IsPart(part) =>
                  \A n \in nodes : n \in part <=> Climb(nodes, parent)[n] \in part
      BY <2>1, <2>2, GraphKept
    <3> QED BY <2>1, <3>1 DEF PlannerInv, ForestHolds
  <2>7. StagesHold'
    <3>1. /\ \A n : DependsOn(n)' = DependsOn(n)
          /\ \A n, S : Owed(n, S)' = Owed(n, S)
      BY <2>2, GraphKept
    <3>2. Placed' = Placed BY <2>1 DEF Placed
    <3>3. (\A n \in DOMAIN degree : degree[n] = Cardinality(Owed(n, DOMAIN degree)))'
            <=> \A n \in DOMAIN degree : degree[n] = Cardinality(Owed(n, DOMAIN degree))
      BY <2>1, <3>1
    <3>4. (\A i \in DOMAIN stages : \A n \in stages[i] :
             /\ DependsOn(n) \subseteq UNION {stages[j] : j \in 1..(i-1)}
             /\ i > 1 => DependsOn(n) \cap stages[i-1] # {})'
            <=> \A i \in DOMAIN stages : \A n \in stages[i] :
                  /\ DependsOn(n) \subseteq UNION {stages[j] : j \in 1..(i-1)}
                  /\ i > 1 => DependsOn(n) \cap stages[i-1] # {}
      BY <2>1, <3>1
    <3>5. (\A n \in DOMAIN degree : degree[n] = 0 /\ stages # <<>> =>
             DependsOn(n) \cap stages[Len(stages)] # {})'
            <=> \A n \in DOMAIN degree : degree[n] = 0 /\ stages # <<>> =>
                  DependsOn(n) \cap stages[Len(stages)] # {}
      BY <2>1, <3>1
    <3> QED BY <2>1, <3>2, <3>3, <3>4, <3>5 DEF PlannerInv, StagesHold
  <2> QED BY <2>3, <2>4, <2>5, <2>6, <2>7 DEF PlannerInv
<1> QED
  BY <1>1, CheckFieldsStep, PopNodeStep, CyclesDoneStep, UniteNextStep, UnionDoneStep,
     VerdictStep, BuildStageStep DEF PlannerNext

LEMMA PlannerInvHolds == PlannerSpec => []PlannerInv
<1>1. PlannerInit => PlannerInv BY PlannerStarts
<1>2. PlannerInv /\ [PlannerNext]_plannerVars => PlannerInv' BY PlannerSteps
<1> QED BY <1>1, <1>2, PTL DEF PlannerSpec

\* validate_workflow, for every definition of every size: a repeated id and a missing
\* reference are reported exactly when there is one, a split exactly when the graph
\* falls apart, a cycle exactly when nodes wait for each other or an id is repeated:
\* the code counts ids and compares them with the length of the list.
THEOREM VerdictsAreRight == PlannerSpec => []VerdictIsRight
<1>1. PlannerInv => VerdictIsRight
  <2> SUFFICES ASSUME PlannerInv, phase \in Checked PROVE VerdictIsRight
    BY DEF VerdictIsRight, Checked
  <2>1. PlannerTypeOK /\ ErrorsAreTrue BY DEF PlannerInv
  <2>2. Missing <=> \E n \in nodes : ~ (DependsOn(n) \subseteq nodes)
    BY <2>1 DEF Missing, DependsOn, PlannerTypeOK
  <2> QED BY <2>1, <2>2 DEF ErrorsAreTrue, VerdictIsRight, Checked
<1> QED BY <1>1, PlannerInvHolds, PTL

\* build_execution_plan and get_ready_nodes, for every valid definition: the stages
\* partition the nodes, each node right behind the last of its dependencies, and
\* some node can run next until all have completed.
THEOREM PlansFollowDependencies == PlannerSpec => []StagesFollowDependencies
<1>1. PlannerInv => StagesFollowDependencies
  <2> SUFFICES ASSUME PlannerInv, phase = "planned" PROVE StagesFollowDependencies
    BY DEF StagesFollowDependencies
  <2>1. PlannerTypeOK /\ ErrorsAreTrue /\ StagesHold BY DEF PlannerInv
  <2>2. errors = {} /\ ~HasCycle BY <2>1 DEF ErrorsAreTrue, Checked
  <2>3. DOMAIN degree = {}
    <3> SUFFICES ASSUME DOMAIN degree # {} PROVE FALSE OBVIOUS
    <3>1. /\ DOMAIN degree \in SUBSET nodes
          /\ \A n \in DOMAIN degree : degree[n] = Cardinality(Owed(n, DOMAIN degree))
          /\ \A n \in DOMAIN degree : degree[n] # 0
      BY <2>1 DEF StagesHold
    <3>2. PICK ring : ring = DOMAIN degree OBVIOUS
    <3>3. \A n \in ring : DependsOn(n) \cap ring # {}
      BY <2>1, <3>1, <3>2, OwedIsFinite
    <3> QED BY <2>2, <3>1, <3>2, <3>3 DEF HasCycle
  <2>4. Placed = nodes BY <2>1, <2>3 DEF StagesHold
  <2>5. \A n \in nodes : \E i \in DOMAIN stages : n \in stages[i] BY <2>4 DEF Placed
  <2>6. /\ \A i, j \in DOMAIN stages : i # j => stages[i] \cap stages[j] = {}
        /\ \A i \in DOMAIN stages : \A n \in stages[i] :
             /\ DependsOn(n) \subseteq UNION {stages[j] : j \in 1..(i-1)}
             /\ i > 1 => DependsOn(n) \cap stages[i-1] # {}
    BY <2>1 DEF StagesHold
  <2>7. PlannedNodes = nodes BY <2>4 DEF PlannedNodes, Placed
  <2>8. ASSUME NEW done \in SUBSET nodes
        PROVE  /\ done # nodes => GetReadyNodes(done) # {}
               /\ GetReadyNodes(done) \cup GetBlockedNodes(done) = nodes \ done
    <3>1. GetReadyNodes(done) \cup GetBlockedNodes(done) = nodes \ done
      BY <2>7 DEF GetReadyNodes, GetBlockedNodes
    <3>2. ASSUME done # nodes PROVE GetReadyNodes(done) # {}
      <4> DEFINE behind == {i \in DOMAIN stages : ~ (stages[i] \subseteq done)}
      <4>1. DOMAIN stages = 1..Len(stages) /\ Len(stages) \in Nat
        BY <2>1 DEF PlannerTypeOK
      <4>2. behind \subseteq Nat BY <4>1
      <4>3. behind # {} BY <3>2, <2>5
      <4>4. PICK i \in behind : \A j \in behind : i <= j BY <4>2, <4>3, LeastOf
      <4>5. PICK n \in stages[i] : n \notin done BY <4>4
      <4>6. i \in DOMAIN stages /\ i \in Nat BY <4>2, <4>4
      <4>7. \A j \in 1..(i-1) : j \in DOMAIN stages /\ j \notin behind
        BY <4>1, <4>4, <4>6
      <4>8. DependsOn(n) \subseteq done BY <2>6, <4>5, <4>6, <4>7
      <4>9. n \in nodes BY <2>4, <4>5, <4>6 DEF Placed
      <4> QED BY <2>7, <4>5, <4>8, <4>9 DEF GetReadyNodes
    <3> QED BY <3>1, <3>2
  <2> QED BY <2>5, <2>6, <2>8 DEF StagesFollowDependencies
<1> QED BY <1>1, PlannerInvHolds, PTL

=============================================================================
