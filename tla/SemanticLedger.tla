--------------------------- MODULE SemanticLedger ---------------------------
(***************************************************************************)
(* semantic/ledger.py and its three writers: the workflow node             *)
(* (workflow/semantic_handler.py), `ingest-file' (cli/main.py) and the     *)
(* integration packets (integration/ingest.py), with the review of the     *)
(* promoted events (memory/service.py update_status).                      *)
(*                                                                         *)
(* promote_candidate opens three connections: it reads the candidate, adds *)
(* the memory event and then moves the candidate.  The last step reads the *)
(* status outside its transaction.  The positions of `call' are the gaps.  *)
(***************************************************************************)
EXTENDS MemoryEvents

CONSTANTS
    Callers,      \* processes that use the database
    Runs,         \* request ids of pipeline runs, a function of the input
    Packets,      \* result ids of integration packets
    MaxIndex,     \* a packet has candidates 1 .. MaxIndex
    MaxChunks,    \* bound: chunks of one ingested file
    Reviews,      \* statuses the operator gives an event
    MaxRows,      \* bound: memory events and revisions, with a single writer
    MaxRacing     \* bound: the same when several writers race

ASSUME LedgerAssumption ==
    /\ Runs \cap Packets = {}
    /\ MaxIndex \in Nat \ {0} /\ MaxChunks \in Nat \ {0}
    /\ Reviews \subseteq MemoryStatus
    /\ MaxRows \in Nat /\ MaxRacing \in Nat

VARIABLES
    runs,     \* semantic_execution_runs, by run_id
    cands,    \* semantic_candidate_events, by <<run_id, index>>
    call,     \* per caller: position inside the running call and its locals
    lost,     \* ghost: per candidate, deaths between its memory event and its update
    writers   \* the callers this deployment runs; never changes

vars == <<memory, revisions, runs, cands, call, lost, writers>>

Candidate == (Runs \X {1}) \cup (Packets \X (1..MaxIndex))

\* run_semantic_task: a failure, a result without content, one candidate
Outcome == {"failed", "empty", "candidate"}

\* len(candidates)
CountOf(out) == IF out = "candidate" THEN 1 ELSE 0

NoMemory == 0

\* chunks: results recorded so far; promote: candidates (still) to be promoted;
\* commit: the --commit flag; strict: a LedgerError ends the call
Idle == [at |-> "idle", chunks |-> 0, promote |-> <<>>, commit |-> FALSE,
         strict |-> FALSE, memory |-> NoMemory, old |-> "unresolved",
         version |-> 0, new |-> "unresolved"]

SingleWriter == \A c, d \in writers : c = d

\* the bound on memory_events and memory_revisions
Room == Len(memory) + Len(revisions) < IF SingleWriter THEN MaxRows ELSE MaxRacing

\* bound: racing writers bring one chunk and packets of one candidate
Racing(n) == IF SingleWriter THEN n ELSE 1

Init ==
    /\ memory = <<>> /\ revisions = <<>>
    /\ runs = <<>> /\ cands = <<>>
    /\ call = [c \in Callers |-> Idle]
    /\ lost = [k \in Candidate |-> 0]
    /\ writers \in (SUBSET Callers) \ {{}}

Goto(c, at) == call' = [call EXCEPT ![c].at = at]
Return(c) == call' = [call EXCEPT ![c] = Idle]

-----------------------------------------------------------------------------
\* mutant: INSERT OR REPLACE
InsertOrReplace(table, rows) ==
    [k \in DOMAIN table \cup DOMAIN rows |-> IF k \in DOMAIN rows THEN rows[k] ELSE table[k]]

\* INSERT OR IGNORE: a row that is there stays as it is
InsertOrIgnore(table, rows) ==
    [k \in DOMAIN table \cup DOMAIN rows |-> IF k \in DOMAIN table THEN table[k] ELSE rows[k]]

\* record_run: run row and candidate row in one transaction, each ignored when it
\* exists, so the row of an earlier failure is not corrected
RecordRun(run, out) ==
    /\ runs' = InsertOrIgnore(runs, [r \in {run} |->
                 [count |-> CountOf(out), promoted |-> 0,
                  status |-> IF out = "failed" THEN "failed" ELSE "completed"]])
    /\ cands' = IF out = "candidate"
                THEN InsertOrIgnore(cands, [k \in {<<run, 1>>} |->
                       [status |-> "candidate", memory |-> NoMemory]])
                ELSE cands

\* candidate_ids of a result
CandidateIds(run, out) == [i \in 1..CountOf(out) |-> <<run, i>>]

\* the promotions that follow the recording, with --commit
Promotions(todo, commit, strict) ==
    IF commit /\ todo # <<>>
    THEN [Idle EXCEPT !.at = "read", !.promote = todo, !.strict = strict]
    ELSE Idle

\* execute_semantic_node: record the one result, then promote; LedgerError is
\* caught per candidate
ExecuteNode(c, run, out, commit) ==
    /\ call[c].at = "idle"
    /\ RecordRun(run, out)
    /\ call' = [call EXCEPT ![c] = Promotions(CandidateIds(run, out), commit, FALSE)]
    /\ UNCHANGED <<memory, revisions, lost, writers>>

\* ingest-file: record the result of every chunk (`more' says one follows), then
\* promote them all; LedgerError ends the promotions
IngestChunk(c, run, out, more, commit) ==
    LET todo == call[c].promote \o CandidateIds(run, out) IN
    /\ \/ call[c].at = "idle"
       \/ call[c].at = "record" /\ commit = call[c].commit
    /\ more => call[c].chunks + 1 < Racing(MaxChunks)
    /\ RecordRun(run, out)
    /\ call' = [call EXCEPT ![c] =
         IF more THEN [Idle EXCEPT !.at = "record", !.chunks = call[c].chunks + 1,
                                   !.promote = todo, !.commit = commit]
         ELSE Promotions(todo, commit, TRUE)]
    /\ UNCHANGED <<memory, revisions, lost, writers>>

\* commit_ingest: candidate_count counts what was parsed, rows are written for
\* the candidates that are not skipped; an aborted ingest writes nothing
CommitIngest(c, p, parsed, valid) ==
    /\ call[c].at = "idle"
    /\ runs' = InsertOrIgnore(runs, [r \in {p} |-> [count |-> parsed, promoted |-> 0,
                                                    status |-> "completed"]])
    /\ cands' = InsertOrIgnore(cands, [k \in {p} \X valid |->
                                 [status |-> "candidate", memory |-> NoMemory]])
    /\ UNCHANGED <<memory, revisions, call, lost, writers>>

-----------------------------------------------------------------------------
\* promote_candidate called for one recorded candidate
StartPromote(c, k) ==
    /\ call[c].at = "idle"
    /\ call' = [call EXCEPT ![c] = [Idle EXCEPT !.at = "read", !.promote = <<k>>,
                                                !.strict = TRUE]]
    /\ UNCHANGED <<memory, revisions, runs, cands, lost, writers>>

\* the candidate is done with or raised LedgerError: the next one, or the end
NextCandidate(c, raised) ==
    LET k == call[c] IN
    call' = [call EXCEPT ![c] =
        IF Len(k.promote) = 1 \/ (raised /\ k.strict) THEN Idle
        ELSE [k EXCEPT !.at = "read", !.promote = Tail(k.promote), !.memory = NoMemory]]

\* mutant: the status is not read before the memory event is written
ReadCandidateAny(c) ==
    /\ call[c].at = "read"
    /\ Room
    /\ Goto(c, "add")
    /\ UNCHANGED <<memory, revisions, runs, cands, lost, writers>>

\* promote_candidate, first connection: only a 'candidate' can be promoted
ReadCandidate(c) ==
    /\ call[c].at = "read"
    /\ \/ /\ cands[Head(call[c].promote)].status = "candidate"
          /\ Room
          /\ Goto(c, "add")
       \/ /\ cands[Head(call[c].promote)].status # "candidate"
          /\ NextCandidate(c, TRUE)
    /\ UNCHANGED <<memory, revisions, runs, cands, lost, writers>>

\* second connection: add_memory_event with status 'unresolved'
AddMemory(c) ==
    /\ call[c].at = "add"
    /\ AddMemoryEvent(Head(call[c].promote), "unresolved")
    /\ call' = [call EXCEPT ![c].at = "check", ![c].memory = Len(memory) + 1]
    /\ UNCHANGED <<runs, cands, lost, writers>>

\* update_candidate_status, third connection: SELECT the status again
CheckStatus(c) ==
    LET k == Head(call[c].promote) IN
    /\ call[c].at = "check"
    /\ \/ /\ cands[k].status = "candidate"
          /\ Goto(c, "decide")
       \/ /\ cands[k].status # "candidate"
          /\ NextCandidate(c, TRUE)
    /\ UNCHANGED <<memory, revisions, runs, cands, lost, writers>>

\* ... and one transaction for the candidate and promoted_count of its run
Decide(c) ==
    LET k == Head(call[c].promote) IN
    /\ call[c].at = "decide"
    /\ cands' = [cands EXCEPT ![k] = [status |-> "promoted", memory |-> call[c].memory]]
    /\ runs' = [runs EXCEPT ![k[1]].promoted = @ + 1]
    /\ NextCandidate(c, FALSE)
    /\ UNCHANGED <<memory, revisions, lost, writers>>

\* update_candidate_status(..., 'rejected'), its read and its write
StartReject(c, k) ==
    /\ call[c].at = "idle"
    /\ cands[k].status = "candidate"
    /\ call' = [call EXCEPT ![c] = [Idle EXCEPT !.at = "reject", !.promote = <<k>>]]
    /\ UNCHANGED <<memory, revisions, runs, cands, lost, writers>>

Reject(c) ==
    /\ call[c].at = "reject"
    /\ cands' = [cands EXCEPT ![Head(call[c].promote)] =
                   [status |-> "rejected", memory |-> NoMemory]]
    /\ Return(c)
    /\ UNCHANGED <<memory, revisions, runs, lost, writers>>

-----------------------------------------------------------------------------
\* update_status (memory-review approve and reject): read the row ...
StartReview(c, m, s) ==
    /\ call[c].at = "idle"
    /\ Room
    /\ call' = [call EXCEPT ![c] = [Idle EXCEPT !.at = "review", !.memory = m, !.new = s,
                  !.old = memory[m].status, !.version = memory[m].version]]
    /\ UNCHANGED <<memory, revisions, runs, cands, lost, writers>>

\* ... then write row and revision in one transaction
Review(c) ==
    /\ call[c].at = "review"
    /\ WriteStatus(call[c].memory, call[c].old, call[c].version, call[c].new)
    /\ Return(c)
    /\ UNCHANGED <<runs, cands, lost, writers>>

\* the process dies between two commits
Crash(c) ==
    /\ call[c].at # "idle"
    /\ lost' = IF call[c].at \in {"check", "decide"}
               THEN [lost EXCEPT ![Head(call[c].promote)] = @ + 1] ELSE lost
    /\ Return(c)
    /\ UNCHANGED <<memory, revisions, runs, cands, writers>>

CallerStep(c) ==
    \/ \E run \in Runs, out \in Outcome, commit \in BOOLEAN :
         \/ ExecuteNode(c, run, out, commit)
         \/ \E more \in BOOLEAN : IngestChunk(c, run, out, more, commit)
    \/ \E p \in Packets, parsed \in 0..Racing(MaxIndex) : \E valid \in SUBSET (1..parsed) :
         CommitIngest(c, p, parsed, valid)
    \/ \E k \in DOMAIN cands : StartPromote(c, k)
    \/ ReadCandidate(c) \/ AddMemory(c) \/ CheckStatus(c) \/ Decide(c)
    \/ \E k \in DOMAIN cands : StartReject(c, k)
    \/ Reject(c)
    \/ \E m \in MemoryId, s \in Reviews : StartReview(c, m, s)
    \/ Review(c)
    \/ Crash(c)

Next == \E c \in writers : CallerStep(c)

Spec == Init /\ [][Next]_vars

-----------------------------------------------------------------------------
(* Properties *)

CandidatesOf(r) == {k \in DOMAIN cands : k[1] = r}
PromotedOf(r) == {k \in CandidatesOf(r) : cands[k].status = "promoted"}
MemoryOf(k) == {m \in MemoryId : memory[m].origin = k}
InFlight(k) == {c \in Callers : /\ call[c].at \in {"check", "decide"}
                                /\ Head(call[c].promote) = k}

\* The provenance chain of ledger.py: whoever writes and wherever a process
\* dies, a promoted candidate names a memory event that was made from it, no
\* other candidate names one, and promoted_count never misses a promotion; with
\* a single writer it is exact.
ProvenanceHolds ==
    /\ \A k \in DOMAIN cands :
         IF cands[k].status = "promoted" THEN cands[k].memory \in MemoryOf(k)
                                         ELSE cands[k].memory = NoMemory
    /\ \A r \in DOMAIN runs :
         IF SingleWriter THEN runs[r].promoted = Cardinality(PromotedOf(r))
                         ELSE runs[r].promoted >= Cardinality(PromotedOf(r))

\* promote_candidate: a candidate has one memory event, plus one for every
\* process that died between the event and the ledger update; retries and
\* repeated ingestion add none.
DuplicatesArePaidFor == SingleWriter =>
    \A k \in DOMAIN cands :
        Cardinality(MemoryOf(k)) =
            lost[k] + Cardinality(InFlight(k)) +
            (IF cands[k].status = "promoted" THEN 1 ELSE 0)

\* memory_revisions: every event enters memory as unresolved, and its status is
\* the one its revisions end in, so nothing is active without a review; with a
\* single writer the revisions are one chain that the version counts.
RevisionsExplainStatus ==
    \A m \in MemoryId :
        /\ memory[m].status = ReplayedStatus(m, "unresolved")
        /\ SingleWriter =>
             /\ memory[m].version = 1 + Cardinality(RevisionsOf(m))
             /\ \A i \in RevisionsOf(m) :
                  \/ revisions[i].version = 2 /\ revisions[i].old = "unresolved"
                  \/ \E j \in RevisionsOf(m) :
                       /\ j < i
                       /\ revisions[j].version = revisions[i].version - 1
                       /\ revisions[j].new = revisions[i].old

=============================================================================
