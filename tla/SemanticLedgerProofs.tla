------------------------ MODULE SemanticLedgerProofs ------------------------
(***************************************************************************)
(* Theorems about the ledger, the memory events promoted from it and their *)
(* revisions, for any callers, runs, packets and bounds, and for processes *)
(* that die anywhere.                                                      *)
(***************************************************************************)
EXTENDS SemanticLedger, FiniteSetTheorems, SequenceTheorems, TLAPS

EventRow == [origin : Candidate, status : MemoryStatus, version : Nat]
StatusRow == [memory : Nat, old : MemoryStatus, new : MemoryStatus, version : Nat]
RunRow == [count : Nat, promoted : Nat, status : {"completed", "failed"}]
CandidateRow == [status : {"candidate", "promoted", "rejected"}, memory : Nat]
Local == [at : {"idle", "record", "read", "add", "check", "decide", "reject", "review"},
          chunks : Nat, promote : Seq(Candidate), commit : BOOLEAN, strict : BOOLEAN,
          memory : Nat, old : MemoryStatus, version : Nat, new : MemoryStatus]

Shapes ==
    /\ memory \in Seq(EventRow) /\ revisions \in Seq(StatusRow)
    /\ DOMAIN runs \subseteq Runs \cup Packets /\ DOMAIN cands \subseteq Candidate
    /\ \A r \in DOMAIN runs : runs[r] \in RunRow
    /\ \A k \in DOMAIN cands : cands[k] \in CandidateRow
    /\ call \in [Callers -> Local]
    /\ lost \in [Candidate -> Nat]
    /\ writers \subseteq Callers

(* Rows and calls name rows that are there, and only a writer is in a call. *)
OnCandidate == {"read", "add", "check", "decide", "reject"}

Held ==
    /\ \A k \in DOMAIN cands : k[1] \in DOMAIN runs
    /\ \A m \in MemoryId : memory[m].origin \in DOMAIN cands
    /\ \A k \in Candidate : lost[k] # 0 => k \in DOMAIN cands
    /\ \A i \in DOMAIN revisions : revisions[i].memory \in MemoryId
    /\ \A c \in Callers :
         LET k == call[c] IN
         /\ c \notin writers => k = Idle
         /\ \A i \in DOMAIN k.promote : k.promote[i] \in DOMAIN cands
         /\ k.at \in OnCandidate => k.promote # <<>>
         /\ k.at = "review" => k.memory \in MemoryId
         /\ k.at \in {"check", "decide"} => k.memory \in MemoryOf(Head(k.promote))

(* The candidate a call is at, where it is at one. *)
Current(c) == Head(call[c].promote)

(* Provenance of the candidates, then the counter of each run. *)
Provenance ==
    \A k \in DOMAIN cands :
        IF cands[k].status = "promoted" THEN cands[k].memory \in MemoryOf(k)
                                        ELSE cands[k].memory = NoMemory

Counted ==
    \A r \in DOMAIN runs :
        IF SingleWriter THEN runs[r].promoted = Cardinality(PromotedOf(r))
                        ELSE runs[r].promoted >= Cardinality(PromotedOf(r))

(* What a single caller read is still so. *)
Fresh ==
    SingleWriter => \A c \in writers :
        /\ call[c].at \in {"add", "check", "decide", "reject"} =>
             cands[Current(c)].status = "candidate"
        /\ call[c].at = "review" => /\ call[c].old = memory[call[c].memory].status
                                    /\ call[c].version = memory[call[c].memory].version

(* The memory events of a candidate; one that is not recorded has none. *)
Paid ==
    SingleWriter => \A k \in Candidate :
        Cardinality(MemoryOf(k)) =
            lost[k] + Cardinality(InFlight(k)) +
            (IF k \in DOMAIN cands /\ cands[k].status = "promoted" THEN 1 ELSE 0)

(* The last revision of an event gives its status ... *)
IsLast(m, i) == i \in RevisionsOf(m) /\ \A j \in RevisionsOf(m) : j <= i

Ends ==
    \A m \in MemoryId :
        \/ RevisionsOf(m) = {} /\ memory[m].status = "unresolved"
        \/ \E i \in DOMAIN revisions :
             IsLast(m, i) /\ memory[m].status = revisions[i].new

(* ... and with a single caller its version, at the end of a chain. *)
Follows(m, i) ==
    \/ revisions[i].version = 2 /\ revisions[i].old = "unresolved"
    \/ \E j \in RevisionsOf(m) : /\ j < i
                                 /\ revisions[j].version = revisions[i].version - 1
                                 /\ revisions[j].new = revisions[i].old

Chain ==
    SingleWriter => \A m \in MemoryId :
        /\ memory[m].version = 1 + Cardinality(RevisionsOf(m))
        /\ \A i \in RevisionsOf(m) : Follows(m, i)
        /\ \A i \in DOMAIN revisions : IsLast(m, i) => revisions[i].version = memory[m].version

IInv == Shapes /\ Held /\ Provenance /\ Counted /\ Fresh /\ Paid /\ Ends /\ Chain

-----------------------------------------------------------------------------
(* The invariant gives the properties. *)
LEMMA ProvenanceFollows == IInv => ProvenanceHolds
BY DEF IInv, Provenance, Counted, ProvenanceHolds

(* At the end of the chain: every promotion that left two events was paid  *)
(* for.                                                                    *)
LEMMA PaidFollows == IInv => DuplicatesArePaidFor
BY DEF IInv, Shapes, Paid, DuplicatesArePaidFor

(* The revisions of an event explain its status. *)
LEMMA RevisionsFollow == IInv => RevisionsExplainStatus
<1> SUFFICES ASSUME IInv PROVE RevisionsExplainStatus
  OBVIOUS
<1>1. ASSUME NEW m \in MemoryId
      PROVE  memory[m].status = ReplayedStatus(m, "unresolved")
  <2>1. RevisionsOf(m) \subseteq Nat
    BY DEF IInv, Shapes, RevisionsOf
  <2>2. ASSUME NEW i \in DOMAIN revisions, IsLast(m, i)
        PROVE  ReplayedStatus(m, "unresolved") = revisions[i].new
    <3>1. (CHOOSE x \in RevisionsOf(m) : \A j \in RevisionsOf(m) : j <= x) = i
      BY <2>1, <2>2 DEF IsLast
    <3> QED
      BY <2>2, <3>1 DEF IsLast, ReplayedStatus
  <2> QED
    BY <2>2 DEF IInv, Ends, ReplayedStatus
<1>2. ASSUME SingleWriter, NEW m \in MemoryId
      PROVE  /\ memory[m].version = 1 + Cardinality(RevisionsOf(m))
             /\ \A i \in RevisionsOf(m) :
                  \/ revisions[i].version = 2 /\ revisions[i].old = "unresolved"
                  \/ \E j \in RevisionsOf(m) :
                       /\ j < i
                       /\ revisions[j].version = revisions[i].version - 1
                       /\ revisions[j].new = revisions[i].old
  BY <1>2 DEF IInv, Chain, Follows
<1> QED
  BY <1>1, <1>2 DEF RevisionsExplainStatus

(* Empty tables and idle callers. *)
LEMMA IdleIsLocal == Idle \in Local
BY DEF Idle, Local, MemoryStatus, NoMemory

(* The invariant holds before the first call. *)
LEMMA InitHolds == Init => IInv
<1> SUFFICES ASSUME Init PROVE IInv
  OBVIOUS
<1> USE DEF Init
<1>1. Shapes
  BY IdleIsLocal DEF Shapes
<1>2. Held /\ Provenance /\ Counted
  BY DEF Held, Provenance, Counted, MemoryId, Idle, OnCandidate
<1>3. Fresh
  BY DEF Fresh, Shapes, Idle
<1>4. Paid
  <2>1. ASSUME NEW k \in Candidate
        PROVE  /\ Cardinality(MemoryOf(k)) = 0 /\ Cardinality(InFlight(k)) = 0
               /\ lost[k] = 0 /\ k \notin DOMAIN cands
    <3>1. MemoryOf(k) = {} /\ InFlight(k) = {}
      BY DEF MemoryOf, MemoryId, InFlight, Idle
    <3> QED
      BY <3>1, FS_EmptySet
  <2> QED
    BY <2>1 DEF Paid
<1>5. Ends /\ Chain
  BY DEF Ends, Chain, MemoryId
<1> QED
  BY <1>1, <1>2, <1>3, <1>4, <1>5 DEF IInv

-----------------------------------------------------------------------------
(* What recording does, whoever records. *)
Recorded ==
    /\ DOMAIN runs \subseteq DOMAIN runs' /\ DOMAIN runs' \subseteq Runs \cup Packets
    /\ \A r \in DOMAIN runs : runs'[r] = runs[r]
    /\ \A r \in DOMAIN runs' \ DOMAIN runs : runs'[r] \in RunRow /\ runs'[r].promoted = 0
    /\ DOMAIN cands \subseteq DOMAIN cands' /\ DOMAIN cands' \subseteq Candidate
    /\ \A k \in DOMAIN cands : cands'[k] = cands[k]
    /\ \A k \in DOMAIN cands' \ DOMAIN cands :
         /\ cands'[k] = [status |-> "candidate", memory |-> NoMemory]
         /\ k[1] \in DOMAIN runs'

(* record_run adds a row and fresh candidates, and takes none away. *)
LEMMA RecordRunRecords ==
    ASSUME Shapes, NEW run \in Runs, NEW out \in Outcome, RecordRun(run, out)
    PROVE  /\ Recorded
           /\ \A i \in DOMAIN CandidateIds(run, out) :
                CandidateIds(run, out)[i] \in DOMAIN cands'
           /\ CandidateIds(run, out) \in Seq(Candidate)
<1> DEFINE row == [count |-> CountOf(out), promoted |-> 0,
                   status |-> IF out = "failed" THEN "failed" ELSE "completed"]
           news == [r \in {run} |-> row]
           none == [status |-> "candidate", memory |-> NoMemory]
           cand == [k \in {<<run, 1>>} |-> none]
<1>1. row \in RunRow /\ row.promoted = 0
  BY DEF RunRow, CountOf
<1>2. runs' = InsertOrIgnore(runs, news)
  BY DEF RecordRun
<1>3. cands' = IF out = "candidate" THEN InsertOrIgnore(cands, cand) ELSE cands
  BY DEF RecordRun
<1>4. <<run, 1>> \in Candidate
  BY DEF Candidate
<1> HIDE DEF row
<1>5. DOMAIN news = {run} /\ news[run] = row
  OBVIOUS
<1>6. DOMAIN cand = {<<run, 1>>} /\ cand[<<run, 1>>] = none
  OBVIOUS
<1> HIDE DEF news, cand, none
<1>7. /\ DOMAIN runs' = DOMAIN runs \cup {run}
      /\ \A r \in DOMAIN runs : runs'[r] = runs[r]
      /\ run \notin DOMAIN runs => runs'[run] = row
  BY <1>2, <1>5 DEF InsertOrIgnore
<1>8. /\ DOMAIN cands \subseteq DOMAIN cands'
      /\ DOMAIN cands' \subseteq DOMAIN cands \cup {<<run, 1>>}
      /\ out = "candidate" => <<run, 1>> \in DOMAIN cands'
      /\ \A k \in DOMAIN cands : cands'[k] = cands[k]
      /\ \A k \in DOMAIN cands' \ DOMAIN cands : cands'[k] = none /\ k = <<run, 1>>
  BY <1>3, <1>6 DEF InsertOrIgnore
<1>9. Recorded
  BY <1>1, <1>4, <1>7, <1>8, SMTT(30) DEF Recorded, Shapes, none
<1>10. CandidateIds(run, out) = IF out = "candidate" THEN <<<<run, 1>>>> ELSE <<>>
  BY DEF CandidateIds, CountOf
<1> QED
  BY <1>4, <1>8, <1>9, <1>10

(* So does commit_ingest with a packet. *)
LEMMA CommitRecords ==
    ASSUME Shapes, NEW c, NEW p \in Packets, NEW parsed \in 0..Racing(MaxIndex),
           NEW valid \in SUBSET (1..parsed), CommitIngest(c, p, parsed, valid)
    PROVE  Recorded
<1> DEFINE row == [count |-> parsed, promoted |-> 0, status |-> "completed"]
           news == [r \in {p} |-> row]
           none == [status |-> "candidate", memory |-> NoMemory]
           cand == [k \in {p} \X valid |-> none]
<1>1. row \in RunRow /\ row.promoted = 0
  BY LedgerAssumption DEF RunRow, Racing
<1>2. runs' = InsertOrIgnore(runs, news) /\ cands' = InsertOrIgnore(cands, cand)
  BY DEF CommitIngest
<1>3. {p} \X valid \subseteq Candidate /\ \A k \in {p} \X valid : k[1] = p
  <2>1. 0..Racing(MaxIndex) \subseteq 0..MaxIndex
    BY LedgerAssumption DEF Racing
  <2>2. valid \subseteq 1..MaxIndex
    BY <2>1, LedgerAssumption
  <2> QED
    BY <2>2 DEF Candidate
<1> HIDE DEF row
<1>4. DOMAIN news = {p} /\ news[p] = row
  OBVIOUS
<1>5. DOMAIN cand = {p} \X valid /\ \A k \in {p} \X valid : cand[k] = none
  OBVIOUS
<1> HIDE DEF news, cand, none
<1>6. /\ DOMAIN runs' = DOMAIN runs \cup {p}
      /\ \A r \in DOMAIN runs : runs'[r] = runs[r]
      /\ p \notin DOMAIN runs => runs'[p] = row
  BY <1>2, <1>4 DEF InsertOrIgnore
<1>7. /\ DOMAIN cands' = DOMAIN cands \cup ({p} \X valid)
      /\ \A k \in DOMAIN cands : cands'[k] = cands[k]
      /\ \A k \in ({p} \X valid) \ DOMAIN cands : cands'[k] = none
  BY <1>2, <1>5 DEF InsertOrIgnore
<1> QED
  BY <1>1, <1>3, <1>6, <1>7 DEF Recorded, Shapes, none

-----------------------------------------------------------------------------
(* Which steps write which table. *)
LEMMA Writes ==
    ASSUME Shapes, NEW c \in writers, CallerStep(c)
    PROVE  /\ UNCHANGED writers
           /\ UNCHANGED <<runs, cands>> \/ Recorded \/ Decide(c) \/ Reject(c)
           /\ UNCHANGED <<memory, revisions>> \/ AddMemory(c) \/ Review(c)
           /\ UNCHANGED lost \/ Crash(c)
<1>1. ASSUME NEW run \in Runs, NEW out \in Outcome, NEW commit \in BOOLEAN,
             ExecuteNode(c, run, out, commit)
      PROVE  Recorded /\ UNCHANGED <<memory, revisions, lost, writers>>
  BY <1>1, RecordRunRecords DEF ExecuteNode
<1>2. ASSUME NEW run \in Runs, NEW out \in Outcome, NEW more \in BOOLEAN,
             NEW commit \in BOOLEAN, IngestChunk(c, run, out, more, commit)
      PROVE  Recorded /\ UNCHANGED <<memory, revisions, lost, writers>>
  BY <1>2, RecordRunRecords DEF IngestChunk
<1>3. ASSUME NEW p \in Packets, NEW parsed \in 0..Racing(MaxIndex),
             NEW valid \in SUBSET (1..parsed), CommitIngest(c, p, parsed, valid)
      PROVE  Recorded /\ UNCHANGED <<memory, revisions, lost, writers>>
  BY <1>3, CommitRecords DEF CommitIngest
<1>4. ASSUME NEW k \in DOMAIN cands, StartPromote(c, k) \/ StartReject(c, k)
      PROVE  UNCHANGED <<memory, revisions, runs, cands, lost, writers>>
  BY <1>4 DEF StartPromote, StartReject
<1>5. ASSUME NEW m \in MemoryId, NEW s \in Reviews, StartReview(c, m, s)
      PROVE  UNCHANGED <<memory, revisions, runs, cands, lost, writers>>
  BY <1>5 DEF StartReview
<1>6. CASE ReadCandidate(c) \/ CheckStatus(c)
  BY <1>6 DEF ReadCandidate, CheckStatus
<1>7. CASE AddMemory(c) \/ Review(c)
  BY <1>7 DEF AddMemory, Review
<1>8. CASE Decide(c) \/ Reject(c)
  BY <1>8 DEF Decide, Reject
<1>9. CASE Crash(c)
  BY <1>9 DEF Crash
<1> QED
  BY <1>1, <1>2, <1>3, <1>4, <1>5, <1>6, <1>7, <1>8, <1>9 DEF CallerStep

(* Recorded candidates, events and their origins stay. *)
LEMMA Stay ==
    ASSUME Shapes, NEW c \in writers, CallerStep(c)
    PROVE  /\ DOMAIN cands \subseteq DOMAIN cands' /\ DOMAIN runs \subseteq DOMAIN runs'
           /\ \A m \in MemoryId : m \in MemoryId' /\ memory'[m].origin = memory[m].origin
           /\ \A k : MemoryOf(k) \subseteq MemoryOf(k)'
<1>1. DOMAIN cands \subseteq DOMAIN cands' /\ DOMAIN runs \subseteq DOMAIN runs'
  BY Writes DEF Recorded, Decide, Reject
<1>2. \A m \in MemoryId : m \in MemoryId' /\ memory'[m].origin = memory[m].origin
  <2>1. CASE UNCHANGED memory
    BY <2>1 DEF MemoryId
  <2>2. CASE AddMemory(c)
    BY <2>2 DEF AddMemory, AddMemoryEvent, MemoryId, Shapes
  <2>3. CASE Review(c)
    <3>1. \A m \in MemoryId : memory[m] \in EventRow
      BY DEF Shapes, MemoryId
    <3> QED
      BY <2>3, <3>1 DEF Review, WriteStatus, MemoryId, EventRow
  <2> QED
    BY <2>1, <2>2, <2>3, Writes
<1> QED
  BY <1>1, <1>2 DEF MemoryOf

(* What a call may be, given the tables of the next state. *)
GoodLocal(l) ==
    /\ l \in Local
    /\ \A i \in DOMAIN l.promote : l.promote[i] \in DOMAIN cands'
    /\ l.at \in OnCandidate => l.promote # <<>>
    /\ l.at = "review" => l.memory \in DOMAIN memory'
    /\ l.at \in {"check", "decide"} =>
         l.memory \in DOMAIN memory' /\ memory'[l.memory].origin = Head(l.promote)

(* A caller with no call in progress holds nothing that could be wrong. *)
LEMMA IdleIsGood == GoodLocal(Idle)
BY IdleIsLocal DEF GoodLocal, Idle, OnCandidate

(* A call that is not moved stays good. *)
LEMMA KeptIsGood ==
    ASSUME Shapes, Held, NEW c \in writers, CallerStep(c), NEW d \in Callers
    PROVE  GoodLocal(call[d])
<1>1. call[d] \in Local
  BY DEF Shapes
<1> QED
  BY <1>1, Stay DEF GoodLocal, Held, MemoryOf, MemoryId

(* The promotions that follow a recording. *)
LEMMA PromotionsGood ==
    ASSUME NEW todo \in Seq(Candidate), \A i \in DOMAIN todo : todo[i] \in DOMAIN cands',
           NEW commit \in BOOLEAN, NEW strict \in BOOLEAN
    PROVE  GoodLocal(Promotions(todo, commit, strict))
<1> DEFINE l == [Idle EXCEPT !.at = "read", !.promote = todo, !.strict = strict]
<1>1. l \in Local /\ l.at = "read" /\ l.promote = todo
  BY DEF Idle, Local, MemoryStatus, NoMemory
<1>2. CASE commit /\ todo # <<>>
  <2>1. Promotions(todo, commit, strict) = l
    BY <1>2 DEF Promotions
  <2> HIDE DEF l
  <2> QED
    BY <1>1, <1>2, <2>1 DEF GoodLocal
<1>3. CASE ~(commit /\ todo # <<>>)
  BY <1>3, IdleIsGood DEF Promotions
<1> QED
  BY <1>2, <1>3

(* What is left of a list of more than one. *)
LEMMA LongTail ==
    ASSUME NEW S, NEW q \in Seq(S), q # <<>>, Len(q) # 1
    PROVE  /\ Tail(q) \in Seq(S) /\ Tail(q) # <<>>
           /\ \A i \in DOMAIN Tail(q) : i + 1 \in DOMAIN q /\ Tail(q)[i] = q[i + 1]
<1>1. /\ Tail(q) \in Seq(S) /\ Len(Tail(q)) = Len(q) - 1
      /\ \A i \in 1..Len(Tail(q)) : Tail(q)[i] = q[i + 1]
  BY HeadTailProperties
<1>2. Len(q) \in Nat \ {0} /\ DOMAIN q = 1..Len(q)
  BY EmptySeq, LenProperties
<1>3. DOMAIN Tail(q) = 1..Len(Tail(q))
  BY <1>1, LenProperties
<1>4. Len(q) > 1
  BY <1>2
<1>5. Tail(q) # <<>>
  <2>1. Len(Tail(q)) # Len(<<>>)
    BY <1>1, <1>2, <1>4, EmptySeq
  <2> QED
    BY <2>1
<1> QED
  BY <1>1, <1>2, <1>3, <1>5

(* The next candidate, or the end. *)
LEMMA NextIsGood ==
    ASSUME Shapes, Held, NEW c \in writers, CallerStep(c), call[c].at \in OnCandidate,
           NEW raised \in BOOLEAN, NextCandidate(c, raised)
    PROVE  \E l : GoodLocal(l) /\ call' = [call EXCEPT ![c] = l]
<1> DEFINE l == [call[c] EXCEPT !.at = "read", !.promote = Tail(call[c].promote), !.memory = NoMemory]
<1>1. c \in Callers /\ call[c] \in Local /\ DOMAIN call = Callers
  BY DEF Shapes
<1>2. call' = [call EXCEPT ![c] = Idle] \/ (Len(call[c].promote) # 1 /\ call' = [call EXCEPT ![c] = l])
  <2>1. CASE Len(call[c].promote) = 1 \/ (raised /\ call[c].strict)
    BY <2>1 DEF NextCandidate
  <2>2. CASE ~(Len(call[c].promote) = 1 \/ (raised /\ call[c].strict))
    BY <2>2 DEF NextCandidate
  <2> QED
    BY <2>1, <2>2
<1>3. ASSUME Len(call[c].promote) # 1
      PROVE  GoodLocal(l)
  <2> DEFINE q == call[c].promote
  <2>1. q \in Seq(Candidate) /\ q # <<>> /\ \A i \in DOMAIN q : q[i] \in DOMAIN cands'
    BY <1>1, Stay DEF Held, Local
  <2>2. /\ Tail(q) \in Seq(Candidate) /\ Tail(q) # <<>>
        /\ \A i \in DOMAIN Tail(q) : Tail(q)[i] \in DOMAIN cands'
    BY <1>3, <2>1, LongTail
  <2>3. l \in Local /\ l.promote = Tail(q) /\ l.at = "read"
    BY <1>1, <2>2 DEF Local, NoMemory
  <2> HIDE DEF l
  <2> QED
    BY <2>2, <2>3 DEF GoodLocal
<1> QED
  BY <1>2, <1>3, IdleIsGood

(* Every step leaves its caller with a good call and moves no other. *)
LEMMA CallsGood ==
    ASSUME Shapes, Held, NEW c \in writers, CallerStep(c)
    PROVE  call' = call \/ \E l : GoodLocal(l) /\ call' = [call EXCEPT ![c] = l]
<1> USE DEF OnCandidate
<1>1. c \in Callers /\ call[c] \in Local /\ DOMAIN call = Callers
  BY DEF Shapes
<1>2. ASSUME NEW run \in Runs, NEW out \in Outcome, NEW commit \in BOOLEAN,
             ExecuteNode(c, run, out, commit)
      PROVE  \E l : GoodLocal(l) /\ call' = [call EXCEPT ![c] = l]
  <2>1. GoodLocal(Promotions(CandidateIds(run, out), commit, FALSE))
    BY <1>2, RecordRunRecords, PromotionsGood DEF ExecuteNode
  <2> QED
    BY <1>2, <2>1 DEF ExecuteNode
<1>3. ASSUME NEW run \in Runs, NEW out \in Outcome, NEW more \in BOOLEAN,
             NEW commit \in BOOLEAN, IngestChunk(c, run, out, more, commit)
      PROVE  \E l : GoodLocal(l) /\ call' = [call EXCEPT ![c] = l]
  <2> DEFINE q == call[c].promote
             ids == CandidateIds(run, out)
             l(n, w) == [Idle EXCEPT !.at = "record", !.chunks = n, !.promote = w,
                                     !.commit = commit]
             all == q \o ids
             new == l(call[c].chunks + 1, all)
  <2>1. /\ ids \in Seq(Candidate) /\ \A i \in DOMAIN ids : ids[i] \in DOMAIN cands'
        /\ q \in Seq(Candidate) /\ \A i \in DOMAIN q : q[i] \in DOMAIN cands'
    BY <1>1, <1>3, RecordRunRecords, Stay DEF IngestChunk, Held, Local
  <2>2. call' = [call EXCEPT ![c] = IF more THEN new ELSE Promotions(all, commit, TRUE)]
    BY <1>3 DEF IngestChunk
  <2>3. all \in Seq(Candidate) /\ \A i \in DOMAIN all : all[i] \in DOMAIN cands'
    <3> HIDE DEF q, ids
    <3> QED
      BY <2>1
  <2>4. GoodLocal(Promotions(all, commit, TRUE))
    BY <2>3, PromotionsGood
  <2>5. ASSUME NEW n \in Nat, NEW w \in Seq(Candidate)
        PROVE  l(n, w) \in Local /\ l(n, w).at = "record" /\ l(n, w).promote = w
    BY DEF Idle, Local, MemoryStatus, NoMemory
  <2>6. call[c].chunks + 1 \in Nat
    BY <1>1 DEF Local
  <2> HIDE DEF l, all
  <2>7. GoodLocal(new)
    BY <2>3, <2>5, <2>6 DEF GoodLocal
  <2> QED
    BY <2>2, <2>4, <2>7
<1>4. ASSUME NEW p \in Packets, NEW parsed \in 0..Racing(MaxIndex),
             NEW valid \in SUBSET (1..parsed), CommitIngest(c, p, parsed, valid)
      PROVE  call' = call
  BY <1>4 DEF CommitIngest
<1>5. ASSUME NEW k \in DOMAIN cands, StartPromote(c, k) \/ StartReject(c, k)
      PROVE  \E l : GoodLocal(l) /\ call' = [call EXCEPT ![c] = l]
  <2> DEFINE l(w) == [Idle EXCEPT !.at = "read", !.promote = w, !.strict = TRUE]
             m(w) == [Idle EXCEPT !.at = "reject", !.promote = w]
  <2>1. k \in Candidate /\ k \in DOMAIN cands'
    BY <1>5, Stay DEF Shapes
  <2>2. ASSUME NEW w \in Seq(Candidate)
        PROVE  /\ l(w) \in Local /\ l(w).at = "read" /\ l(w).promote = w
               /\ m(w) \in Local /\ m(w).at = "reject" /\ m(w).promote = w
    BY DEF Idle, Local, MemoryStatus, NoMemory
  <2>3. /\ <<k>> \in Seq(Candidate) /\ <<k>> # <<>>
        /\ \A i \in DOMAIN <<k>> : <<k>>[i] \in DOMAIN cands'
    BY <2>1
  <2>4. call' = [call EXCEPT ![c] = l(<<k>>)] \/ call' = [call EXCEPT ![c] = m(<<k>>)]
    BY <1>5 DEF StartPromote, StartReject
  <2> HIDE DEF l, m
  <2>5. ASSUME NEW w \in Seq(Candidate), w # <<>>, \A i \in DOMAIN w : w[i] \in DOMAIN cands'
        PROVE  GoodLocal(l(w)) /\ GoodLocal(m(w))
    BY <2>2, <2>5 DEF GoodLocal
  <2> DEFINE one == <<k>>
  <2>6. one \in Seq(Candidate) /\ one # <<>> /\ \A i \in DOMAIN one : one[i] \in DOMAIN cands'
    BY <2>3
  <2>7. call' = [call EXCEPT ![c] = l(one)] \/ call' = [call EXCEPT ![c] = m(one)]
    BY <2>4
  <2> HIDE DEF one
  <2>8. GoodLocal(l(one)) /\ GoodLocal(m(one))
    BY <2>5, <2>6
  <2> QED
    BY <2>7, <2>8
<1>6. CASE ReadCandidate(c)
  <2> DEFINE l == [call[c] EXCEPT !.at = "add"]
  <2>1. CASE NextCandidate(c, TRUE)
    BY <1>6, <2>1, NextIsGood DEF ReadCandidate
  <2>2. CASE Goto(c, "add")
    <3>1. call' = [call EXCEPT ![c] = l]
      BY <2>2 DEF Goto
    <3>2. GoodLocal(l)
      BY <1>1, <1>6, KeptIsGood DEF GoodLocal, Local, ReadCandidate
    <3> QED
      BY <3>1, <3>2
  <2> QED
    BY <1>6, <2>1, <2>2 DEF ReadCandidate
<1>7. CASE AddMemory(c)
  <2> DEFINE l == [call[c] EXCEPT !.at = "check", !.memory = Len(memory) + 1]
  <2>1. call' = [call EXCEPT ![c] = l]
    BY <1>7 DEF AddMemory
  <2>2. memory' = Append(memory, [origin |-> Current(c), status |-> "unresolved", version |-> 1])
    BY <1>7 DEF AddMemory, AddMemoryEvent, Current
  <2>3. /\ Len(memory) + 1 \in DOMAIN memory' /\ Len(memory) + 1 \in Nat
        /\ memory'[Len(memory) + 1].origin = Current(c)
    BY <2>2 DEF Shapes
  <2>4. GoodLocal(l)
    BY <1>1, <1>7, <2>3, KeptIsGood DEF GoodLocal, Local, AddMemory, Current
  <2> QED
    BY <2>1, <2>4
<1>8. CASE CheckStatus(c)
  <2> DEFINE l == [call[c] EXCEPT !.at = "decide"]
  <2>1. CASE NextCandidate(c, TRUE)
    BY <1>8, <2>1, NextIsGood DEF CheckStatus
  <2>2. CASE Goto(c, "decide")
    <3>1. call' = [call EXCEPT ![c] = l]
      BY <2>2 DEF Goto
    <3>2. GoodLocal(l)
      BY <1>1, <1>8, KeptIsGood DEF GoodLocal, Local, CheckStatus
    <3> QED
      BY <3>1, <3>2
  <2> QED
    BY <1>8, <2>1, <2>2 DEF CheckStatus
<1>9. CASE Decide(c)
  BY <1>9, NextIsGood DEF Decide
<1>10. CASE Reject(c) \/ Review(c) \/ Crash(c)
  BY <1>10, IdleIsGood DEF Reject, Review, Crash, Return
<1>11. ASSUME NEW m \in MemoryId, NEW s \in Reviews, StartReview(c, m, s)
       PROVE  \E l : GoodLocal(l) /\ call' = [call EXCEPT ![c] = l]
  <2> DEFINE l == [Idle EXCEPT !.at = "review", !.memory = m, !.new = s,
                               !.old = memory[m].status, !.version = memory[m].version]
  <2>1. memory[m] \in EventRow /\ m \in Nat /\ m \in DOMAIN memory' /\ s \in MemoryStatus
    BY Stay, LedgerAssumption DEF Shapes, MemoryId
  <2>2. l \in Local
    <3>1. memory[m].status \in MemoryStatus /\ memory[m].version \in Nat
      BY <2>1 DEF EventRow
    <3> QED
      BY <2>1, <3>1, IdleIsLocal DEF Local
  <2>3. l.at = "review" /\ l.memory = m /\ l.promote = <<>>
    BY DEF Idle
  <2>4. GoodLocal(l)
    <3> HIDE DEF l
    <3> QED
      BY <2>1, <2>2, <2>3 DEF GoodLocal
  <2> QED
    BY <1>11, <2>4 DEF StartReview
<1> QED
  BY <1>2, <1>3, <1>4, <1>5, <1>6, <1>7, <1>8, <1>9, <1>10, <1>11 DEF CallerStep

-----------------------------------------------------------------------------
(* Types and references are kept. *)
LEMMA ShapesStep ==
    ASSUME Shapes, Held, NEW c \in writers, CallerStep(c)
    PROVE  Shapes'
<1>1. c \in Callers /\ call[c] \in Local
  BY DEF Shapes
<1>2. call' \in [Callers -> Local] /\ writers' \subseteq Callers
  BY <1>1, CallsGood, Writes DEF Shapes, GoodLocal
<1>3. lost' \in [Candidate -> Nat]
  BY Writes DEF Shapes, Crash
<1>4. memory' \in Seq(EventRow) /\ revisions' \in Seq(StatusRow)
  <2>1. CASE AddMemory(c)
    <3>1. Current(c) \in Candidate
      BY <1>1, <2>1 DEF AddMemory, Held, OnCandidate, Current, Local
    <3> QED
      BY <2>1, <3>1 DEF AddMemory, AddMemoryEvent, Shapes, EventRow, MemoryStatus, Current
  <2>2. CASE Review(c)
    <3> DEFINE k == call[c]
               row == [memory[k.memory] EXCEPT !.status = k.new, !.version = k.version + 1]
    <3>1. /\ k.memory \in MemoryId /\ k.memory \in Nat /\ memory[k.memory] \in EventRow
          /\ k.old \in MemoryStatus /\ k.new \in MemoryStatus /\ k.version \in Nat
      <4>1. k.memory \in MemoryId
        BY <1>1, <2>2 DEF Review, Held
      <4>2. /\ k.memory \in Nat /\ k.old \in MemoryStatus /\ k.new \in MemoryStatus
            /\ k.version \in Nat
        BY <1>1 DEF Local
      <4> QED
        BY <4>1, <4>2 DEF Shapes, MemoryId
    <3>2. /\ memory' = [memory EXCEPT ![k.memory].status = k.new,
                                      ![k.memory].version = k.version + 1]
          /\ revisions' = Append(revisions, [memory |-> k.memory, old |-> k.old,
                                             new |-> k.new, version |-> k.version + 1])
      BY <2>2 DEF Review, WriteStatus
    <3>3. row \in EventRow
      <4>1. \A e \in EventRow, s \in MemoryStatus, v \in Nat :
              [e EXCEPT !.status = s, !.version = v] \in EventRow
        BY DEF EventRow
      <4>2. k.version + 1 \in Nat
        BY <3>1
      <4> QED
        BY <3>1, <4>1, <4>2
    <3>4. memory' = [memory EXCEPT ![k.memory] = row]
      BY <3>1, <3>2 DEF MemoryId, EventRow
    <3>5. [memory |-> k.memory, old |-> k.old, new |-> k.new, version |-> k.version + 1]
            \in StatusRow
      BY <3>1 DEF StatusRow
    <3> HIDE DEF k, row
    <3> QED
      BY <3>1, <3>2, <3>3, <3>4, <3>5 DEF Shapes, MemoryId
  <2> QED
    BY <2>1, <2>2, Writes DEF Shapes
<1>5. /\ DOMAIN runs' \subseteq Runs \cup Packets /\ DOMAIN cands' \subseteq Candidate
      /\ \A r \in DOMAIN runs' : runs'[r] \in RunRow
      /\ \A k \in DOMAIN cands' : cands'[k] \in CandidateRow
  <2>1. CASE UNCHANGED <<runs, cands>>
    BY <2>1 DEF Shapes
  <2>2. CASE Recorded
    BY <2>2 DEF Recorded, Shapes, CandidateRow, NoMemory
  <2>3. CASE Decide(c)
    <3> DEFINE k == Current(c)
    <3>1. /\ cands' = [cands EXCEPT ![k] = [status |-> "promoted", memory |-> call[c].memory]]
          /\ runs' = [runs EXCEPT ![k[1]].promoted = @ + 1]
      BY <2>3 DEF Decide, Current
    <3>2. [status |-> "promoted", memory |-> call[c].memory] \in CandidateRow
      BY <1>1 DEF CandidateRow, Local
    <3>3. \A x \in RunRow : [x EXCEPT !.promoted = @ + 1] \in RunRow
      BY DEF RunRow
    <3> HIDE DEF k
    <3> QED
      BY <3>1, <3>2, <3>3 DEF Shapes
  <2>4. CASE Reject(c)
    BY <2>4 DEF Reject, Shapes, CandidateRow, NoMemory
  <2> QED
    BY <2>1, <2>2, <2>3, <2>4, Writes
<1> QED
  BY <1>2, <1>3, <1>4, <1>5 DEF Shapes

(* What a caller holds between its commits stays backed by the tables. *)
LEMMA HeldStep ==
    ASSUME Shapes, Held, NEW c \in writers, CallerStep(c)
    PROVE  Held'
<1>1. c \in Callers /\ call[c] \in Local /\ DOMAIN call = Callers /\ writers' = writers
  BY Writes DEF Shapes
<1>2. \A k \in DOMAIN cands' : k[1] \in DOMAIN runs'
  BY Writes, Stay DEF Held, Recorded, Decide, Reject
<1>3. \A m \in MemoryId' : memory'[m].origin \in DOMAIN cands'
  <2>1. CASE AddMemory(c)
    <3>1. Current(c) \in DOMAIN cands
      BY <1>1, <2>1 DEF AddMemory, Held, OnCandidate, Current, Local
    <3> QED
      BY <2>1, <3>1, Stay DEF AddMemory, AddMemoryEvent, MemoryId, Current, Shapes, Held
  <2>2. CASE Review(c)
    <3>1. MemoryId' = MemoryId
      BY <2>2 DEF Review, WriteStatus, MemoryId
    <3> QED
      BY <3>1, Stay DEF Held
  <2>3. CASE UNCHANGED memory
    BY <2>3, Stay DEF Held, MemoryId
  <2> QED
    BY <2>1, <2>2, <2>3, Writes
<1>4. \A k \in Candidate : lost'[k] # 0 => k \in DOMAIN cands'
  <2>1. CASE Crash(c)
    <3>1. call[c].at \in {"check", "decide"} => Current(c) \in DOMAIN cands
      BY <1>1 DEF Held, OnCandidate, Current, Local
    <3> QED
      BY <2>1, <3>1, Stay DEF Crash, Held, Shapes, Current
  <2>2. CASE UNCHANGED lost
    BY <2>2, Stay DEF Held
  <2> QED
    BY <2>1, <2>2, Writes
<1>5. \A i \in DOMAIN revisions' : revisions'[i].memory \in MemoryId'
  <2>1. CASE Review(c)
    <3>1. call[c].memory \in MemoryId
      BY <1>1, <2>1 DEF Review, Held
    <3>2. revisions' = Append(revisions, [memory |-> call[c].memory, old |-> call[c].old,
                         new |-> call[c].new, version |-> call[c].version + 1])
      BY <2>1 DEF Review, WriteStatus
    <3> QED
      BY <3>1, <3>2, Stay DEF Held, Shapes
  <2>2. CASE UNCHANGED revisions
    BY <2>2, Stay DEF Held
  <2> QED
    BY <2>1, <2>2, Writes DEF AddMemory, AddMemoryEvent
<1>6. ASSUME NEW d \in Callers
      PROVE  GoodLocal(call'[d]) /\ (d \notin writers => call'[d] = Idle)
  <2>1. GoodLocal(call[d]) /\ (d \notin writers => call[d] = Idle)
    BY KeptIsGood DEF Held
  <2>2. CASE call' = call
    BY <2>1, <2>2
  <2>3. ASSUME NEW l, GoodLocal(l), call' = [call EXCEPT ![c] = l]
        PROVE  GoodLocal(call'[d]) /\ (d \notin writers => call'[d] = Idle)
    BY <1>1, <2>1, <2>3
  <2> QED
    BY <2>2, <2>3, CallsGood
<1> QED
  BY <1>1, <1>2, <1>3, <1>4, <1>5, <1>6 DEF Held, GoodLocal, MemoryOf, MemoryId

-----------------------------------------------------------------------------
(* Sizes: a part of a finite set, and of one with an element more. *)
LEMMA PartIsSmaller ==
    ASSUME NEW S, IsFiniteSet(S), NEW x, NEW T \in SUBSET (S \cup {x})
    PROVE  /\ Cardinality(S) \in Nat /\ Cardinality(T) \in Nat
           /\ Cardinality(T) <= Cardinality(S) + 1
           /\ x \notin T => Cardinality(T) <= Cardinality(S)
           /\ (x \notin S /\ T = S \cup {x}) => Cardinality(T) = Cardinality(S) + 1
<1>1. IsFiniteSet(S \cup {x}) /\ Cardinality(S) \in Nat
      /\ Cardinality(S \cup {x}) = IF x \in S THEN Cardinality(S) ELSE Cardinality(S) + 1
  BY FS_AddElement, FS_CardinalityType
<1>2. Cardinality(T) \in Nat /\ Cardinality(T) <= Cardinality(S \cup {x})
  BY <1>1, FS_Subset, FS_CardinalityType
<1>3. ASSUME x \notin T
      PROVE  Cardinality(T) <= Cardinality(S)
  <2>1. T \subseteq S
    BY <1>3
  <2> QED
    BY <2>1, FS_Subset
<1>4. Cardinality(T) <= Cardinality(S) + 1
  <2> DEFINE n == Cardinality(S)
             m == Cardinality(T)
             u == Cardinality(S \cup {x})
  <2>1. n \in Nat /\ m \in Nat /\ m <= u /\ (u = n \/ u = n + 1)
    BY <1>1, <1>2
  <2> HIDE DEF n, m, u
  <2>2. m <= n + 1
    BY <2>1
  <2> QED
    BY <2>2 DEF n, m
<1> QED
  BY <1>1, <1>2, <1>3, <1>4

(* A run has finitely many candidates. *)
LEMMA PromotedIsFinite ==
    ASSUME Shapes, NEW r
    PROVE  IsFiniteSet(PromotedOf(r))
<1>1. PromotedOf(r) \subseteq {r} \X (1..MaxIndex)
  BY LedgerAssumption DEF PromotedOf, CandidatesOf, Shapes, Candidate
<1>2. IsFiniteSet({r}) /\ IsFiniteSet(1..MaxIndex)
  <2>1. 1 \in Int /\ MaxIndex \in Int
    BY LedgerAssumption
  <2> QED
    BY <2>1, FS_Singleton, FS_Interval
<1> QED
  BY <1>1, <1>2, FS_Product, FS_Subset

(* A promoted candidate keeps naming an event of its own. *)
LEMMA ProvenanceStep ==
    ASSUME Shapes, Held, Provenance, NEW c \in writers, CallerStep(c)
    PROVE  Provenance'
<1>1. c \in Callers /\ call[c] \in Local
  BY DEF Shapes
<1>2. CASE UNCHANGED <<runs, cands>>
  BY <1>2, Stay DEF Provenance
<1>3. CASE Recorded
  BY <1>3, Stay DEF Provenance, Recorded
<1>4. CASE Decide(c)
  <2> DEFINE k == Current(c)
  <2>1. cands' = [cands EXCEPT ![k] = [status |-> "promoted", memory |-> call[c].memory]]
    BY <1>4 DEF Decide, Current
  <2>2. call[c].memory \in MemoryOf(k)
    BY <1>1, <1>4 DEF Decide, Held, Current
  <2> HIDE DEF k
  <2> QED
    BY <2>1, <2>2, Stay DEF Provenance
<1>5. CASE Reject(c)
  BY <1>5, Stay DEF Provenance, Reject
<1> QED
  BY <1>2, <1>3, <1>4, <1>5, Writes

(* What a single caller has in hand at its positions. *)
LEMMA AtCurrent ==
    ASSUME Shapes, Held, NEW c \in writers, call[c].at \in OnCandidate
    PROVE  Current(c) \in DOMAIN cands /\ Current(c) \in Candidate
<1>1. c \in Callers /\ call[c] \in Local
  BY DEF Shapes
<1>2. call[c].promote \in Seq(Candidate) /\ call[c].promote # <<>>
  BY <1>1 DEF Held, Local
<1>3. 1 \in DOMAIN call[c].promote
  BY <1>2
<1> QED
  BY <1>1, <1>2, <1>3 DEF Held, Current, Shapes

(* promoted_count of every run follows its promoted candidates. *)
LEMMA CountedStep ==
    ASSUME Shapes, Held, Counted, Fresh, NEW c \in writers, CallerStep(c)
    PROVE  Counted'
<1> DEFINE Q(r) == {k \in DOMAIN cands' : k[1] = r /\ cands'[k].status = "promoted"}
<1>1. SUFFICES ASSUME NEW r \in DOMAIN runs'
               PROVE  IF SingleWriter THEN runs'[r].promoted = Cardinality(Q(r))
                                      ELSE runs'[r].promoted >= Cardinality(Q(r))
  <2>1. \A r : PromotedOf(r)' = Q(r)
    BY DEF PromotedOf, CandidatesOf
  <2> HIDE DEF Q
  <2>2. SingleWriter' = SingleWriter
    BY Writes DEF SingleWriter
  <2> QED
    BY <2>1, <2>2 DEF Counted
<1>2. /\ IsFiniteSet(PromotedOf(r)) /\ Cardinality(PromotedOf(r)) \in Nat
      /\ PromotedOf(r) = {k \in DOMAIN cands : k[1] = r /\ cands[k].status = "promoted"}
  BY PromotedIsFinite, FS_CardinalityType DEF PromotedOf, CandidatesOf
<1>3. CASE UNCHANGED <<runs, cands>>
  BY <1>2, <1>3 DEF Counted
<1>4. CASE Recorded
  <2>1. CASE r \in DOMAIN runs
    <3>1. Q(r) = PromotedOf(r) /\ runs'[r] = runs[r]
      BY <1>2, <1>4, <2>1 DEF Recorded
    <3> QED
      BY <2>1, <3>1 DEF Counted
  <2>2. CASE r \notin DOMAIN runs
    <3>1. Q(r) = {} /\ runs'[r].promoted = 0
      BY <1>4, <2>2 DEF Recorded, Held
    <3>2. Cardinality(Q(r)) = 0
      BY <3>1, FS_EmptySet
    <3> HIDE DEF Q
    <3> QED
      BY <3>1, <3>2
  <2> QED
    BY <2>1, <2>2
<1>5. CASE Decide(c)
  <2> DEFINE k == Current(c)
  <2>1. /\ cands' = [cands EXCEPT ![k] = [status |-> "promoted", memory |-> call[c].memory]]
        /\ runs' = [runs EXCEPT ![k[1]].promoted = @ + 1]
    BY <1>5 DEF Decide, Current
  <2>2. k \in DOMAIN cands /\ k[1] \in DOMAIN runs
    BY <1>5, AtCurrent DEF Decide, OnCandidate, Held
  <2>3. SingleWriter => cands[k].status = "candidate"
    BY <1>5 DEF Decide, Fresh
  <2> HIDE DEF k
  <2>4. CASE r # k[1]
    <3>1. Q(r) = PromotedOf(r) /\ runs'[r] = runs[r] /\ r \in DOMAIN runs
      BY <1>2, <2>1, <2>2, <2>4
    <3> QED
      BY <3>1 DEF Counted
  <2>5. CASE r = k[1]
    <3>1. Q(r) = PromotedOf(r) \cup {k} /\ (SingleWriter => k \notin PromotedOf(r))
      BY <1>2, <2>1, <2>2, <2>3, <2>5
    <3>2. runs'[r].promoted = runs[r].promoted + 1 /\ runs[r].promoted \in Nat
      BY <2>1, <2>2, <2>5 DEF Shapes, RunRow
    <3>3. Cardinality(Q(r)) \in Nat /\ Cardinality(Q(r)) <= Cardinality(PromotedOf(r)) + 1
          /\ (SingleWriter => Cardinality(Q(r)) = Cardinality(PromotedOf(r)) + 1)
      BY <1>2, <3>1, PartIsSmaller
    <3>4. IF SingleWriter THEN runs[r].promoted = Cardinality(PromotedOf(r))
                          ELSE runs[r].promoted >= Cardinality(PromotedOf(r))
      BY <2>2, <2>5 DEF Counted
    <3> HIDE DEF Q
    <3> QED
      BY <1>2, <3>2, <3>3, <3>4
  <2> QED
    BY <2>4, <2>5
<1>6. CASE Reject(c)
  <2> DEFINE k == Current(c)
  <2>1. cands' = [cands EXCEPT ![k] = [status |-> "rejected", memory |-> NoMemory]]
        /\ runs' = runs
    BY <1>6 DEF Reject, Current
  <2>2. k \in DOMAIN cands /\ (SingleWriter => cands[k].status = "candidate")
    BY <1>6, AtCurrent DEF Reject, OnCandidate, Fresh
  <2> HIDE DEF k
  <2>3. Q(r) \subseteq PromotedOf(r) /\ (SingleWriter => Q(r) = PromotedOf(r))
    BY <1>2, <2>1, <2>2
  <2>4. Cardinality(Q(r)) \in Nat /\ Cardinality(Q(r)) <= Cardinality(PromotedOf(r))
    BY <1>2, <2>3, FS_Subset, FS_CardinalityType
  <2>5. IF SingleWriter THEN runs[r].promoted = Cardinality(PromotedOf(r))
                        ELSE runs[r].promoted >= Cardinality(PromotedOf(r))
    BY <2>1 DEF Counted
  <2>6. runs[r].promoted \in Nat
    BY <2>1 DEF Shapes, RunRow
  <2> HIDE DEF Q
  <2>7. CASE SingleWriter
    BY <2>1, <2>3, <2>5, <2>7
  <2>8. CASE ~SingleWriter
    BY <1>2, <2>1, <2>4, <2>5, <2>6, <2>8
  <2> QED
    BY <2>7, <2>8
<1> QED
  BY <1>3, <1>4, <1>5, <1>6, Writes

-----------------------------------------------------------------------------
(* The steps that only record and begin: they touch no memory event and leave *)
(* their caller with nothing read.                                         *)
Begun == {"idle", "record", "read"}

Quiet(c) ==
    /\ call[c].at \in Begun /\ call'[c].at \in Begun
    /\ UNCHANGED <<memory, revisions, lost>>
    /\ UNCHANGED <<runs, cands>> \/ Recorded

(* After a candidate the caller is at the next one or at its end. *)
LEMMA NextIsBegun ==
    ASSUME Shapes, NEW c \in Callers, NEW raised \in BOOLEAN, NextCandidate(c, raised)
    PROVE  call'[c].at \in Begun
<1> DEFINE l == [call[c] EXCEPT !.at = "read", !.promote = Tail(call[c].promote), !.memory = NoMemory]
<1>1. call[c] \in Local /\ DOMAIN call = Callers
  BY DEF Shapes
<1>2. call'[c] = Idle \/ call'[c] = l
  BY <1>1 DEF NextCandidate
<1>3. Idle.at = "idle" /\ l.at = "read"
  BY <1>1 DEF Idle, Local
<1> QED
  BY <1>2, <1>3 DEF Begun

(* Every step of a caller is one of these. *)
LEMMA Kinds ==
    ASSUME Shapes, NEW c \in writers, CallerStep(c)
    PROVE  \/ Quiet(c)
           \/ \E k \in DOMAIN cands : StartReject(c, k)
           \/ \E m \in MemoryId, s \in Reviews : StartReview(c, m, s)
           \/ ReadCandidate(c) \/ AddMemory(c) \/ CheckStatus(c) \/ Decide(c)
           \/ Reject(c) \/ Review(c) \/ Crash(c)
<1> USE DEF Begun
<1>1. c \in Callers /\ DOMAIN call = Callers
  BY DEF Shapes
<1>2. \A todo, commit, strict : Promotions(todo, commit, strict).at \in Begun
  BY DEF Promotions, Idle
<1>3. ASSUME NEW run \in Runs, NEW out \in Outcome, NEW commit \in BOOLEAN,
             ExecuteNode(c, run, out, commit)
      PROVE  Quiet(c)
  <2>1. Recorded /\ UNCHANGED <<memory, revisions, lost>> /\ call[c].at \in Begun
    BY <1>3, RecordRunRecords DEF ExecuteNode
  <2>2. call'[c] = Promotions(CandidateIds(run, out), commit, FALSE)
    BY <1>1, <1>3 DEF ExecuteNode
  <2> QED
    BY <1>2, <2>1, <2>2 DEF Quiet
<1>4. ASSUME NEW run \in Runs, NEW out \in Outcome, NEW more \in BOOLEAN,
             NEW commit \in BOOLEAN, IngestChunk(c, run, out, more, commit)
      PROVE  Quiet(c)
  <2> DEFINE todo == call[c].promote \o CandidateIds(run, out)
             l(n, q) == [Idle EXCEPT !.at = "record", !.chunks = n, !.promote = q,
                                     !.commit = commit]
  <2>1. Recorded /\ UNCHANGED <<memory, revisions, lost>> /\ call[c].at \in Begun
    BY <1>4, RecordRunRecords DEF IngestChunk
  <2>2. call'[c] = IF more THEN l(call[c].chunks + 1, todo) ELSE Promotions(todo, commit, TRUE)
    BY <1>1, <1>4 DEF IngestChunk
  <2>3. \A n, q : l(n, q).at = "record"
    BY DEF Idle
  <2> HIDE DEF l, todo
  <2> QED
    BY <1>2, <2>1, <2>2, <2>3 DEF Quiet
<1>5. ASSUME NEW p \in Packets, NEW parsed \in 0..Racing(MaxIndex),
             NEW valid \in SUBSET (1..parsed), CommitIngest(c, p, parsed, valid)
      PROVE  Quiet(c)
  BY <1>5, CommitRecords DEF CommitIngest, Quiet
<1>6. ASSUME NEW k \in DOMAIN cands, StartPromote(c, k)
      PROVE  Quiet(c)
  <2>1. call[c].at = "idle" /\ UNCHANGED <<memory, revisions, lost, runs, cands>>
    BY <1>6 DEF StartPromote
  <2>2. call'[c].at = "read"
    BY <1>1, <1>6 DEF StartPromote, Idle
  <2> QED
    BY <2>1, <2>2 DEF Quiet
<1> QED
  BY <1>3, <1>4, <1>5, <1>6 DEF CallerStep

(* A single caller's reading of a candidate or an event stays true until it *)
(* writes.                                                                 *)
LEMMA FreshStep ==
    ASSUME Shapes, Held, Fresh, NEW c \in writers, CallerStep(c)
    PROVE  Fresh'
<1>1. SUFFICES ASSUME SingleWriter
               PROVE  /\ call'[c].at \in {"add", "check", "decide", "reject"} =>
                           cands'[Head(call'[c].promote)].status = "candidate"
                      /\ call'[c].at = "review" =>
                           /\ call'[c].old = memory'[call'[c].memory].status
                           /\ call'[c].version = memory'[call'[c].memory].version
  BY Writes DEF Fresh, SingleWriter, Current
<1>2. /\ c \in Callers /\ call[c] \in Local /\ DOMAIN call = Callers
      /\ call[c].at \in {"add", "check", "decide", "reject"} =>
           cands[Current(c)].status = "candidate"
  BY <1>1 DEF Shapes, Fresh
<1>3. ASSUME call'[c].at \in Begun
      PROVE  /\ call'[c].at \notin {"add", "check", "decide", "reject"}
             /\ call'[c].at # "review"
  BY <1>3 DEF Begun
<1>4. CASE Quiet(c)
  BY <1>3, <1>4 DEF Quiet
<1>5. ASSUME NEW k \in DOMAIN cands, StartReject(c, k)
      PROVE  /\ call'[c].at = "reject" /\ Head(call'[c].promote) = k
             /\ cands'[k].status = "candidate"
  <2> DEFINE l(q) == [Idle EXCEPT !.at = "reject", !.promote = q]
             one == <<k>>
  <2>1. call' = [call EXCEPT ![c] = l(one)] /\ cands'[k].status = "candidate"
    BY <1>5 DEF StartReject
  <2>2. \A q : l(q).at = "reject" /\ l(q).promote = q
    BY DEF Idle
  <2>3. Head(one) = k
    OBVIOUS
  <2> HIDE DEF l, one
  <2> QED
    BY <1>2, <2>1, <2>2, <2>3
<1>6. ASSUME NEW m \in MemoryId, NEW s \in Reviews, StartReview(c, m, s)
      PROVE  /\ call'[c].at = "review" /\ call'[c].memory = m
             /\ call'[c].old = memory'[m].status /\ call'[c].version = memory'[m].version
  BY <1>2, <1>6 DEF StartReview, Idle
<1>7. CASE ReadCandidate(c)
  <2>1. CASE NextCandidate(c, TRUE)
    BY <1>2, <1>3, <2>1, NextIsBegun
  <2>2. CASE cands[Head(call[c].promote)].status = "candidate" /\ Goto(c, "add")
    BY <1>2, <1>7, <2>2 DEF Goto, ReadCandidate, Local
  <2> QED
    BY <1>7, <2>1, <2>2 DEF ReadCandidate
<1>8. CASE AddMemory(c)
  BY <1>2, <1>8 DEF AddMemory, Local, Current
<1>9. CASE CheckStatus(c)
  <2>1. CASE NextCandidate(c, TRUE)
    BY <1>2, <1>3, <2>1, NextIsBegun
  <2>2. CASE Goto(c, "decide")
    BY <1>2, <1>9, <2>2 DEF Goto, CheckStatus, Local, Current
  <2> QED
    BY <1>9, <2>1, <2>2 DEF CheckStatus
<1>10. CASE Decide(c)
  BY <1>2, <1>3, <1>10, NextIsBegun DEF Decide
<1>11. CASE Reject(c) \/ Review(c) \/ Crash(c)
  BY <1>2, <1>3, <1>11 DEF Reject, Review, Crash, Return, Idle, Begun
<1> QED
  BY <1>4, <1>5, <1>6, <1>7, <1>8, <1>9, <1>10, <1>11, Kinds

-----------------------------------------------------------------------------
(* Among callers of which all but one are idle, who is between the event of a *)
(* candidate and its update.                                               *)
Between(f, k) == {d \in Callers : f[d].at \in {"check", "decide"} /\ Head(f[d].promote) = k}

(* With one caller at work, only its own promotion is in between. *)
LEMMA OneInFlight ==
    ASSUME NEW f, NEW c \in Callers, \A d \in Callers : d # c => f[d] = Idle, NEW k
    PROVE  Cardinality(Between(f, k))
             = IF f[c].at \in {"check", "decide"} /\ Head(f[c].promote) = k THEN 1 ELSE 0
<1> DEFINE S == Between(f, k)
<1>1. Idle.at = "idle"
  BY DEF Idle
<1>2. S = IF f[c].at \in {"check", "decide"} /\ Head(f[c].promote) = k THEN {c} ELSE {}
  BY <1>1 DEF Between
<1>3. Cardinality({c}) = 1 /\ Cardinality({}) = 0
  BY FS_Singleton, FS_EmptySet
<1> HIDE DEF S
<1>4. Cardinality(S) = IF f[c].at \in {"check", "decide"} /\ Head(f[c].promote) = k THEN 1 ELSE 0
  BY <1>2, <1>3
<1> QED
  BY <1>4 DEF S

(* The events a candidate has when one is added. *)
Originated(mem, k) == {m \in DOMAIN mem : mem[m].origin = k}

(* One more memory event adds one to the events of its candidate alone. *)
LEMMA OneMoreEvent ==
    ASSUME NEW mem, NEW len \in Nat, DOMAIN mem = 1..len, NEW new, DOMAIN new = 1..(len + 1),
           \A m \in 1..len : new[m].origin = mem[m].origin, NEW k
    PROVE  /\ Cardinality(Originated(mem, k)) \in Nat
           /\ Cardinality(Originated(new, k)) =
                Cardinality(Originated(mem, k)) + (IF new[len + 1].origin = k THEN 1 ELSE 0)
<1> DEFINE S == Originated(mem, k)
           T == Originated(new, k)
           n == len + 1
<1>1. DOMAIN new = DOMAIN mem \cup {n} /\ n \notin DOMAIN mem
  OBVIOUS
<1>2. IsFiniteSet(S)
  <2>1. 1 \in Int /\ len \in Int
    OBVIOUS
  <2>2. IsFiniteSet(1..len)
    BY <2>1, FS_Interval
  <2> QED
    BY <2>2, FS_Subset DEF Originated
<1>3. n \notin S /\ T = IF new[n].origin = k THEN S \cup {n} ELSE S
  BY <1>1 DEF Originated
<1>4. Cardinality(S) \in Nat /\ Cardinality(S \cup {n}) = Cardinality(S) + 1
  <2> HIDE DEF S, n
  <2> QED
    BY <1>2, <1>3, FS_AddElement, FS_CardinalityType
<1>5. Cardinality(S) \in Nat /\ Cardinality(T) = Cardinality(S) + (IF new[n].origin = k THEN 1 ELSE 0)
  <2> HIDE DEF S, T, n
  <2> QED
    BY <1>3, <1>4
<1> QED
  BY <1>5 DEF S, T, n

(* A memory event of a candidate is paid for by its promotion, by the caller *)
(* between the two, or by a death.                                         *)
LEMMA PaidStep ==
    ASSUME Shapes, Held, Fresh, Paid, NEW c \in writers, CallerStep(c)
    PROVE  Paid'
<1> DEFINE N(k) == Cardinality(Originated(memory, k))
           M(k) == Cardinality(Originated(memory', k))
           F(k) == IF call[c].at \in {"check", "decide"} /\ Head(call[c].promote) = k
                   THEN 1 ELSE 0
           G(k) == IF call'[c].at \in {"check", "decide"} /\ Head(call'[c].promote) = k
                   THEN 1 ELSE 0
           P(k) == IF k \in DOMAIN cands /\ cands[k].status = "promoted" THEN 1 ELSE 0
           Q(k) == IF k \in DOMAIN cands' /\ cands'[k].status = "promoted" THEN 1 ELSE 0
<1>1. SUFFICES ASSUME SingleWriter
               PROVE  \A k \in Candidate : M(k) = lost'[k] + G(k) + Q(k)
  <2>1. SingleWriter' = SingleWriter
    BY Writes DEF SingleWriter
  <2>2. SUFFICES ASSUME SingleWriter, NEW k \in Candidate
                 PROVE  /\ Cardinality(MemoryOf(k)') = M(k)
                        /\ Cardinality(InFlight(k)') = G(k)
    BY <2>1, <2>2 DEF Paid
  <2>3. c \in Callers /\ \A d \in Callers : d # c => call'[d] = Idle
    <3>1. c \in Callers /\ \A d \in Callers : d # c => d \notin writers'
      BY <2>2, Writes DEF Shapes, SingleWriter
    <3> QED
      BY <3>1, HeldStep DEF Held
  <2>4. Cardinality(Between(call', k)) = G(k)
    BY <2>3, OneInFlight
  <2>5. InFlight(k)' = Between(call', k)
    BY DEF InFlight, Between
  <2>6. MemoryOf(k)' = Originated(memory', k)
    BY DEF MemoryOf, MemoryId, Originated
  <2> HIDE DEF G
  <2> QED
    BY <2>4, <2>5, <2>6
<1>2. /\ c \in Callers /\ call[c] \in Local /\ DOMAIN call = Callers
      /\ call[c].at \in {"add", "check", "decide", "reject"} =>
           cands[Current(c)].status = "candidate"
  BY <1>1 DEF Shapes, Fresh
<1>3. ASSUME NEW k \in Candidate
      PROVE  N(k) = lost[k] + F(k) + P(k) /\ lost[k] \in Nat
  <2>1. \A d \in Callers : d # c => call[d] = Idle
    BY <1>1 DEF Held, SingleWriter
  <2>2. Cardinality(InFlight(k)) = F(k)
    <3>1. Cardinality(Between(call, k)) = F(k)
      BY <1>2, <2>1, OneInFlight
    <3>2. InFlight(k) = Between(call, k)
      BY DEF InFlight, Between
    <3> HIDE DEF F
    <3> QED
      BY <3>1, <3>2
  <2> QED
    BY <1>1, <2>2 DEF Paid, MemoryOf, MemoryId, Originated, Shapes
<1>4. UNCHANGED memory => \A k : M(k) = N(k)
  OBVIOUS
<1>5. call[c].at \in Begun \cup {"add", "reject", "review"} => \A k : F(k) = 0
  BY DEF Begun
<1>6. call'[c].at \in Begun \cup {"add", "reject", "review"} => \A k : G(k) = 0
  BY DEF Begun
<1>7. UNCHANGED <<runs, cands>> \/ Recorded => \A k : Q(k) = P(k)
  BY DEF Recorded
<1>8. CASE Quiet(c)
  <2>1. \A k : M(k) = N(k) /\ F(k) = 0 /\ G(k) = 0 /\ Q(k) = P(k)
    BY <1>4, <1>5, <1>6, <1>7, <1>8 DEF Quiet
  <2> HIDE DEF N, M, F, G, P, Q
  <2> QED
    BY <1>3, <1>8, <2>1 DEF Quiet
<1>9. CASE (\E k \in DOMAIN cands : StartReject(c, k))
           \/ (\E m \in MemoryId, s \in Reviews : StartReview(c, m, s))
           \/ ReadCandidate(c)
  <2>1. UNCHANGED <<memory, runs, cands, lost>> /\ call[c].at \in Begun
    BY <1>9 DEF StartReject, StartReview, ReadCandidate, Begun
  <2>2. call'[c].at \in Begun \cup {"add", "reject", "review"}
    <3>1. CASE ReadCandidate(c)
      BY <1>2, <3>1, NextIsBegun DEF ReadCandidate, Goto, Local
    <3>2. CASE (\E k \in DOMAIN cands : StartReject(c, k))
               \/ (\E m \in MemoryId, s \in Reviews : StartReview(c, m, s))
      BY <1>2, <3>2 DEF StartReject, StartReview, Idle
    <3> QED
      BY <1>9, <3>1, <3>2
  <2>3. \A k : M(k) = N(k) /\ F(k) = 0 /\ G(k) = 0 /\ Q(k) = P(k)
    BY <1>4, <1>5, <1>6, <1>7, <2>1, <2>2
  <2> HIDE DEF N, M, F, G, P, Q
  <2> QED
    BY <1>3, <2>1, <2>3
<1>10. CASE AddMemory(c)
  <2> DEFINE e == [origin |-> Current(c), status |-> "unresolved", version |-> 1]
  <2>1. memory' = Append(memory, e) /\ UNCHANGED <<runs, cands, lost>>
    BY <1>10 DEF AddMemory, AddMemoryEvent, Current
  <2>2. e \in EventRow
    BY <1>10, AtCurrent DEF AddMemory, OnCandidate, EventRow, MemoryStatus
  <2>3. \A k : M(k) = N(k) + (IF Current(c) = k THEN 1 ELSE 0)
    <3> DEFINE n == Len(memory)
    <3>1. /\ n \in Nat /\ DOMAIN memory = 1..n /\ DOMAIN memory' = 1..(n + 1)
          /\ \A m \in 1..n : memory'[m].origin = memory[m].origin
          /\ memory'[n + 1].origin = Current(c)
      BY <2>1, <2>2 DEF Shapes
    <3> HIDE DEF n
    <3> QED
      BY <3>1, OneMoreEvent
  <2>4. \A k : F(k) = 0
    BY <1>5, <1>10 DEF AddMemory
  <2>5. \A k : G(k) = IF Current(c) = k THEN 1 ELSE 0
    BY <1>2, <1>10 DEF AddMemory, Local, Current
  <2>6. \A k : Q(k) = P(k) /\ P(k) \in Nat
    BY <2>1
  <2> HIDE DEF N, M, F, G, P, Q, e
  <2>7. ASSUME NEW k \in Candidate
        PROVE  M(k) = lost'[k] + G(k) + Q(k)
    <3>1. N(k) = lost[k] + P(k) /\ lost[k] \in Nat /\ P(k) \in Nat
      BY <1>3, <2>4, <2>6
    <3>2. M(k) = N(k) + G(k) /\ G(k) \in Nat /\ Q(k) = P(k) /\ lost'[k] = lost[k]
      BY <2>1, <2>3, <2>5, <2>6
    <3> QED
      BY <3>1, <3>2
  <2> QED
    BY <2>7
<1>11. CASE CheckStatus(c)
  <2>1. UNCHANGED <<memory, runs, cands, lost>> /\ Goto(c, "decide") /\ call[c].at = "check"
    BY <1>2, <1>11 DEF CheckStatus, Current
  <2>2. call'[c].at = "decide" /\ call'[c].promote = call[c].promote
    BY <1>2, <2>1 DEF Goto, Local
  <2>3. \A k : M(k) = N(k) /\ G(k) = F(k) /\ Q(k) = P(k)
    BY <1>4, <1>7, <2>1, <2>2
  <2> HIDE DEF N, M, F, G, P, Q
  <2> QED
    BY <1>3, <2>1, <2>3
<1>12. CASE Decide(c)
  <2>1. /\ UNCHANGED <<memory, lost>> /\ call[c].at = "decide" /\ call'[c].at \in Begun
        /\ cands' = [cands EXCEPT ![Current(c)] = [status |-> "promoted", memory |-> call[c].memory]]
    BY <1>2, <1>12, NextIsBegun DEF Decide, Current
  <2>2. Current(c) \in DOMAIN cands /\ cands[Current(c)].status = "candidate"
    BY <1>2, <2>1, AtCurrent DEF OnCandidate
  <2>3. \A k : M(k) = N(k) /\ G(k) = 0
    BY <1>4, <1>6, <2>1
  <2>4. \A k : F(k) = IF Current(c) = k THEN 1 ELSE 0
    BY <2>1 DEF Current
  <2>5. \A k : Q(k) = (IF Current(c) = k THEN 1 ELSE P(k)) /\ (Current(c) = k => P(k) = 0)
    BY <2>1, <2>2
  <2>6. \A k : P(k) \in Nat
    OBVIOUS
  <2> HIDE DEF N, M, F, G, P, Q
  <2> QED
    BY <1>3, <2>1, <2>3, <2>4, <2>5, <2>6
<1>13. CASE Reject(c)
  <2>1. /\ UNCHANGED <<memory, lost>> /\ call[c].at = "reject" /\ call'[c].at \in Begun
        /\ cands' = [cands EXCEPT ![Current(c)] = [status |-> "rejected", memory |-> NoMemory]]
    BY <1>2, <1>13 DEF Reject, Current, Return, Idle, Begun
  <2>2. Current(c) \in DOMAIN cands /\ cands[Current(c)].status = "candidate"
    BY <1>2, <2>1, AtCurrent DEF OnCandidate
  <2>3. \A k : M(k) = N(k) /\ F(k) = 0 /\ G(k) = 0
    BY <1>4, <1>5, <1>6, <2>1
  <2>4. \A k : Q(k) = P(k)
    BY <2>1, <2>2
  <2> HIDE DEF N, M, F, G, P, Q
  <2> QED
    BY <1>3, <2>1, <2>3, <2>4
<1>14. CASE Review(c)
  <2>1. UNCHANGED <<runs, cands, lost>> /\ call[c].at = "review" /\ call'[c].at \in Begun
    BY <1>2, <1>14 DEF Review, Return, Idle, Begun
  <2>2. DOMAIN memory' = DOMAIN memory /\ \A m \in DOMAIN memory : memory'[m].origin = memory[m].origin
    BY <1>14, Stay DEF Review, WriteStatus, MemoryId
  <2>3. \A k : Originated(memory', k) = Originated(memory, k)
    BY <2>2 DEF Originated
  <2>4. \A k : M(k) = N(k) /\ F(k) = 0 /\ G(k) = 0 /\ Q(k) = P(k)
    BY <1>5, <1>6, <1>7, <2>1, <2>3
  <2> HIDE DEF N, M, F, G, P, Q
  <2> QED
    BY <1>3, <2>1, <2>4
<1>15. CASE Crash(c)
  <2>1. UNCHANGED <<memory, runs, cands>> /\ call'[c].at \in Begun
    BY <1>2, <1>15 DEF Crash, Return, Idle, Begun
  <2>2. \A k : M(k) = N(k) /\ G(k) = 0 /\ Q(k) = P(k)
    BY <1>4, <1>6, <1>7, <2>1
  <2>3. \A k \in Candidate : lost'[k] = lost[k] + F(k)
    <3>1. CASE call[c].at \in {"check", "decide"}
      BY <1>15, <3>1 DEF Crash, Shapes
    <3>2. CASE call[c].at \notin {"check", "decide"}
      BY <1>15, <3>2 DEF Crash, Shapes
    <3> QED
      BY <3>1, <3>2
  <2>4. \A k : F(k) \in Nat /\ P(k) \in Nat
    OBVIOUS
  <2> HIDE DEF N, M, F, G, P, Q
  <2> QED
    BY <1>3, <2>2, <2>3, <2>4
<1> QED
  BY <1>8, <1>9, <1>10, <1>11, <1>12, <1>13, <1>14, <1>15, Kinds

-----------------------------------------------------------------------------
(* What the transaction of a review adds to the two tables.                *)
LEMMA Reviewed ==
    ASSUME Shapes, Held, NEW c \in writers, Review(c)
    PROVE  LET m == call[c].memory
               n == Len(revisions) + 1
           IN  /\ m \in MemoryId /\ m \in Nat /\ MemoryId' = MemoryId
               /\ memory'[m].status = call[c].new
               /\ memory'[m].version = call[c].version + 1
               /\ \A x \in MemoryId \ {m} : memory'[x] = memory[x]
               /\ n \in Nat /\ n \notin DOMAIN revisions
               /\ DOMAIN revisions' = DOMAIN revisions \cup {n}
               /\ \A i \in DOMAIN revisions : revisions'[i] = revisions[i] /\ i \in Nat /\ i < n
               /\ revisions'[n].memory = m /\ revisions'[n].old = call[c].old
               /\ revisions'[n].new = call[c].new
               /\ revisions'[n].version = call[c].version + 1
<1> DEFINE m == call[c].memory
           n == Len(revisions) + 1
           new == [memory |-> m, old |-> call[c].old, new |-> call[c].new,
                   version |-> call[c].version + 1]
<1>1. m \in MemoryId /\ m \in Nat
  BY DEF Review, Shapes, Held, MemoryId
<1>2. /\ memory' = [memory EXCEPT ![m].status = call[c].new, ![m].version = call[c].version + 1]
      /\ revisions' = Append(revisions, new)
  BY DEF Review, WriteStatus
<1>3. memory[m] \in EventRow
  BY <1>1 DEF Shapes, MemoryId
<1>4. /\ MemoryId' = MemoryId /\ memory'[m].status = call[c].new
      /\ memory'[m].version = call[c].version + 1
      /\ \A x \in MemoryId \ {m} : memory'[x] = memory[x]
  <2> HIDE DEF m
  <2> QED
    BY <1>1, <1>2, <1>3 DEF MemoryId, EventRow
<1>5. /\ new.memory = m /\ new.old = call[c].old /\ new.new = call[c].new
      /\ new.version = call[c].version + 1
  OBVIOUS
<1>6. /\ n \in Nat /\ n \notin DOMAIN revisions
      /\ DOMAIN revisions' = DOMAIN revisions \cup {n}
      /\ \A i \in DOMAIN revisions : revisions'[i] = revisions[i] /\ i \in Nat /\ i < n
      /\ revisions'[n] = new
  <2> HIDE DEF new
  <2> QED
    BY <1>2 DEF Shapes
<1> QED
  BY <1>1, <1>4, <1>5, <1>6

(* The revisions still end in the status of their event. *)
LEMMA EndsStep ==
    ASSUME Shapes, Held, Ends, NEW c \in writers, CallerStep(c)
    PROVE  Ends'
<1>1. CASE UNCHANGED <<memory, revisions>>
  BY <1>1 DEF Ends, MemoryId, IsLast, RevisionsOf
<1>2. CASE AddMemory(c)
  <2> PICK n : n = Len(memory) + 1
    OBVIOUS
  <2> DEFINE e == [origin |-> Current(c), status |-> "unresolved", version |-> 1]
  <2>1. memory' = Append(memory, e) /\ revisions' = revisions
    BY <1>2 DEF AddMemory, AddMemoryEvent, Current
  <2>2. /\ MemoryId' = MemoryId \cup {n} /\ n \notin MemoryId
        /\ memory'[n].status = "unresolved"
        /\ \A m \in MemoryId : memory'[m] = memory[m]
    BY <2>1 DEF MemoryId, Shapes
  <2>3. RevisionsOf(n) = {}
    BY <2>2 DEF RevisionsOf, Held
  <2>4. \A m : RevisionsOf(m)' = RevisionsOf(m) /\ \A i : IsLast(m, i)' = IsLast(m, i)
    BY <2>1 DEF RevisionsOf, IsLast
  <2> QED
    BY <2>1, <2>2, <2>3, <2>4, ZenonT(40) DEF Ends
<1>3. CASE Review(c)
  <2>0. PICK m, n : m = call[c].memory /\ n = Len(revisions) + 1
    OBVIOUS
  <2>1. /\ m \in MemoryId /\ MemoryId' = MemoryId
        /\ memory'[m].status = call[c].new
        /\ \A x \in MemoryId \ {m} : memory'[x] = memory[x]
        /\ n \in Nat /\ n \notin DOMAIN revisions
        /\ DOMAIN revisions' = DOMAIN revisions \cup {n}
        /\ \A i \in DOMAIN revisions : revisions'[i] = revisions[i] /\ i \in Nat /\ i < n
        /\ revisions'[n].memory = m
        /\ revisions'[n].new = call[c].new
    BY <1>3, <2>0, Reviewed
  <2>2. IsLast(m, n)' /\ memory'[m].status = revisions'[n].new
    BY <2>1 DEF IsLast, RevisionsOf
  <2>3. ASSUME NEW x \in MemoryId, x # m
        PROVE  /\ RevisionsOf(x)' = RevisionsOf(x)
               /\ \A i \in DOMAIN revisions : IsLast(x, i) => IsLast(x, i)'
               /\ memory'[x] = memory[x]
    BY <2>1, <2>3 DEF IsLast, RevisionsOf
  <2> QED
    BY <2>1, <2>2, <2>3 DEF Ends
<1> QED
  BY <1>1, <1>2, <1>3, Writes

(* With a single caller they still are one chain that the version counts. *)
LEMMA ChainStep ==
    ASSUME Shapes, Held, Fresh, Ends, Chain, NEW c \in writers, CallerStep(c)
    PROVE  Chain'
<1> SUFFICES ASSUME SingleWriter
             PROVE  \A m \in MemoryId' :
                      /\ memory'[m].version = 1 + Cardinality(RevisionsOf(m)')
                      /\ \A i \in RevisionsOf(m)' : Follows(m, i)'
                      /\ \A i \in DOMAIN revisions' :
                           IsLast(m, i)' => revisions'[i].version = memory'[m].version
  BY Writes DEF Chain, SingleWriter
<1>1. CASE UNCHANGED <<memory, revisions>>
  BY <1>1 DEF Chain, MemoryId, IsLast, RevisionsOf, Follows
<1>2. CASE AddMemory(c)
  <2> PICK n : n = Len(memory) + 1
    OBVIOUS
  <2> DEFINE e == [origin |-> Current(c), status |-> "unresolved", version |-> 1]
  <2>1. memory' = Append(memory, e) /\ revisions' = revisions
    BY <1>2 DEF AddMemory, AddMemoryEvent, Current
  <2>2. /\ MemoryId' = MemoryId \cup {n} /\ n \notin MemoryId
        /\ memory'[n].version = 1
        /\ \A m \in MemoryId : memory'[m] = memory[m]
    BY <2>1 DEF MemoryId, Shapes
  <2>3. RevisionsOf(n) = {}
    BY <2>2 DEF RevisionsOf, Held
  <2> HIDE DEF e
  <2>4. \A m : /\ RevisionsOf(m)' = RevisionsOf(m)
               /\ \A i : IsLast(m, i)' = IsLast(m, i) /\ Follows(m, i)' = Follows(m, i)
    BY <2>1 DEF RevisionsOf, IsLast, Follows
  <2>5. Cardinality(RevisionsOf(n)) = 0 /\ \A i : ~IsLast(n, i)
    BY <2>3, FS_EmptySet DEF IsLast
  <2>6. memory'[n].version = 1 + Cardinality(RevisionsOf(n))
    BY <2>2, <2>5
  <2>7. ASSUME NEW m \in MemoryId
        PROVE  /\ memory'[m].version = 1 + Cardinality(RevisionsOf(m)')
               /\ \A i \in RevisionsOf(m)' : Follows(m, i)'
               /\ \A i \in DOMAIN revisions' :
                    IsLast(m, i)' => revisions'[i].version = memory'[m].version
    BY <2>1, <2>2, <2>4 DEF Chain
  <2>8. /\ memory'[n].version = 1 + Cardinality(RevisionsOf(n)')
        /\ \A i \in RevisionsOf(n)' : Follows(n, i)'
        /\ \A i \in DOMAIN revisions' :
             IsLast(n, i)' => revisions'[i].version = memory'[n].version
    BY <2>3, <2>4, <2>5, <2>6
  <2> QED
    BY <2>2, <2>7, <2>8
<1>3. CASE Review(c)
  <2>0. PICK m, n : m = call[c].memory /\ n = Len(revisions) + 1
    OBVIOUS
  <2>1. /\ m \in MemoryId /\ MemoryId' = MemoryId
        /\ memory'[m].version = call[c].version + 1
        /\ \A x \in MemoryId \ {m} : memory'[x] = memory[x]
        /\ n \in Nat /\ n \notin DOMAIN revisions
        /\ DOMAIN revisions' = DOMAIN revisions \cup {n}
        /\ \A i \in DOMAIN revisions : revisions'[i] = revisions[i] /\ i \in Nat /\ i < n
        /\ revisions'[n].memory = m /\ revisions'[n].old = call[c].old
        /\ revisions'[n].version = call[c].version + 1
    BY <1>3, <2>0, Reviewed
  <2>2. /\ call[c].old = memory[m].status /\ call[c].version = memory[m].version
        /\ memory[m].version \in Nat
    <3>1. call[c].at = "review"
      BY <1>3 DEF Review
    <3>2. memory[m] \in EventRow
      BY <2>1 DEF Shapes, MemoryId
    <3> QED
      BY <2>0, <3>1, <3>2 DEF Fresh, EventRow
  <2>3. IsFiniteSet(RevisionsOf(m))
    <3>1. 1 \in Int /\ Len(revisions) \in Int /\ DOMAIN revisions = 1..Len(revisions)
      BY DEF Shapes
    <3>2. IsFiniteSet(1..Len(revisions))
      BY <3>1, FS_Interval
    <3>3. RevisionsOf(m) \subseteq 1..Len(revisions)
      BY <3>1 DEF RevisionsOf
    <3> QED
      BY <3>2, <3>3, FS_Subset
  <2>4. ASSUME NEW x \in MemoryId, x # m
        PROVE  /\ memory'[x] = memory[x] /\ RevisionsOf(x)' = RevisionsOf(x)
               /\ \A i \in DOMAIN revisions : IsLast(x, i)' => IsLast(x, i)
               /\ ~IsLast(x, n)'
               /\ \A i \in RevisionsOf(x) : Follows(x, i) => Follows(x, i)'
    <3>1. memory'[x] = memory[x] /\ RevisionsOf(x)' = RevisionsOf(x)
      BY <2>1, <2>4 DEF RevisionsOf
    <3>2. ~IsLast(x, n)' /\ \A i : IsLast(x, i)' => IsLast(x, i)
      BY <2>1, <3>1 DEF IsLast, RevisionsOf
    <3>3. \A i \in RevisionsOf(x) : Follows(x, i) => Follows(x, i)'
      BY <2>1, <3>1 DEF Follows, RevisionsOf
    <3> QED
      BY <3>1, <3>2, <3>3
  <2>5. RevisionsOf(m)' = RevisionsOf(m) \cup {n} /\ n \notin RevisionsOf(m)
    BY <2>1 DEF RevisionsOf
  <2>6. memory'[m].version = 1 + Cardinality(RevisionsOf(m)')
    <3>1. /\ Cardinality(RevisionsOf(m)') = Cardinality(RevisionsOf(m)) + 1
          /\ Cardinality(RevisionsOf(m)) \in Nat
      BY <2>3, <2>5, FS_AddElement, FS_CardinalityType
    <3>2. memory[m].version = 1 + Cardinality(RevisionsOf(m))
      BY <2>1 DEF Chain
    <3> QED
      BY <2>1, <2>2, <3>1, <3>2
  <2>7. \A i \in RevisionsOf(m) : Follows(m, i)'
    <3>1. \A i \in RevisionsOf(m) : Follows(m, i)
      BY <2>1 DEF Chain
    <3> QED
      BY <2>1, <2>5, <3>1 DEF Follows, RevisionsOf
  <2>8. Follows(m, n)'
    <3>1. CASE RevisionsOf(m) = {} /\ memory[m].status = "unresolved"
      <4>1. memory[m].version = 1
        <5>1. Cardinality(RevisionsOf(m)) = 0
          BY <3>1, FS_EmptySet
        <5>2. memory[m].version = 1 + Cardinality(RevisionsOf(m))
          BY <2>1 DEF Chain
        <5> QED
          BY <5>1, <5>2
      <4> QED
        BY <2>1, <2>2, <3>1, <4>1 DEF Follows
    <3>2. ASSUME NEW j \in DOMAIN revisions, IsLast(m, j), memory[m].status = revisions[j].new
          PROVE  Follows(m, n)'
      <4>1. revisions[j].version = memory[m].version
        BY <2>1, <3>2 DEF Chain
      <4>2. /\ j \in RevisionsOf(m)' /\ j < n
            /\ revisions'[j].version = revisions'[n].version - 1
            /\ revisions'[j].new = revisions'[n].old
        BY <2>1, <2>2, <2>5, <3>2, <4>1 DEF IsLast
      <4> QED
        BY <4>2 DEF Follows
    <3> QED
      BY <2>1, <3>1, <3>2 DEF Ends
  <2>9. \A i \in DOMAIN revisions' : IsLast(m, i)' => revisions'[i].version = memory'[m].version
    <3>1. ASSUME NEW i \in DOMAIN revisions', IsLast(m, i)'
          PROVE  i = n
      BY <2>1, <2>5, <3>1 DEF IsLast
    <3> QED
      BY <2>1, <3>1
  <2>10. ASSUME NEW x \in MemoryId, x # m
         PROVE  /\ memory'[x].version = 1 + Cardinality(RevisionsOf(x)')
                /\ \A i \in RevisionsOf(x)' : Follows(x, i)'
                /\ \A i \in DOMAIN revisions' :
                     IsLast(x, i)' => revisions'[i].version = memory'[x].version
    BY <2>1, <2>4, <2>10 DEF Chain
  <2>11. \A i \in RevisionsOf(m)' : Follows(m, i)'
    BY <2>5, <2>7, <2>8
  <2> QED
    BY <2>1, <2>6, <2>9, <2>10, <2>11
<1> QED
  BY <1>1, <1>2, <1>3, Writes

-----------------------------------------------------------------------------
(* A step that changes nothing keeps the invariant. *)
LEMMA Stuttering == ASSUME IInv, UNCHANGED vars PROVE IInv'
<1> USE DEF vars, IInv
<1>1. Shapes' /\ Held'
  BY DEF Shapes, Held, MemoryId, MemoryOf
<1>2. Provenance' /\ Counted'
  BY DEF Provenance, Counted, MemoryOf, MemoryId, SingleWriter, PromotedOf, CandidatesOf
<1>3. Fresh' /\ Paid'
  BY DEF Fresh, Paid, SingleWriter, Current, MemoryOf, MemoryId, InFlight
<1>4. Ends' /\ Chain'
  BY DEF Ends, Chain, SingleWriter, MemoryId, RevisionsOf, IsLast, Follows
<1> QED
  BY <1>1, <1>2, <1>3, <1>4

(* Every step keeps the invariant. *)
LEMMA StepHolds == IInv /\ [Next]_vars => IInv'
<1>1. ASSUME IInv, NEW c \in writers, CallerStep(c)
      PROVE  IInv'
  BY <1>1, ShapesStep, HeldStep, ProvenanceStep, CountedStep, FreshStep, PaidStep,
     EndsStep, ChainStep DEF IInv
<1> QED
  BY <1>1, Stuttering DEF Next

(* Provenance: whatever the callers do and wherever they die, a promoted      *)
(* candidate names a memory event that was made from it and promoted_count of *)
(* its run misses no promotion; with one caller it is exact.                  *)
THEOREM ProvenanceIsHeld == Spec => []ProvenanceHolds
BY InitHolds, StepHolds, ProvenanceFollows, PTL DEF Spec

(* promote_candidate with one caller: the memory events of a candidate are its *)
(* promotion and the deaths between the event and the ledger update, and no    *)
(* retry or repeated ingestion adds one.                                       *)
THEOREM DuplicatesPaid == Spec => []DuplicatesArePaidFor
BY InitHolds, StepHolds, PaidFollows, PTL DEF Spec

(* The status of every memory event is what its revisions say, also when      *)
(* reviews race; with one caller they are a chain its version counts.         *)
THEOREM StatusIsExplained == Spec => []RevisionsExplainStatus
BY InitHolds, StepHolds, RevisionsFollow, PTL DEF Spec

=============================================================================
