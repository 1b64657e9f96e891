-------------------------- MODULE SourceIngestion ---------------------------
(***************************************************************************)
(* The writers whose rows a continuity bundle carries, at every site that  *)
(* has a database of its own: sources/registry.py, `ingest-file'           *)
(* (cli/main.py, ingestion/candidates.py, ingestion/runs.py) and the       *)
(* promotion of semantic candidates (semantic/ledger.py).  One file is     *)
(* ingested; its content may change at any time.                           *)
(***************************************************************************)
EXTENDS DatabaseCallers

CONSTANTS
    Sites,       \* databases
    Texts,       \* contents of the file (checksum_sha256)
    Seconds,     \* bound: values of the clock, in whole seconds
    Candidates,  \* semantic candidates: an id is a function of adapter, input and index
    Fields,      \* (event_type, title, source) of an event, by what it was made from:
                 \*   candidates of different runs can agree in them
    Single,      \* bounds for a single writer, and when several race: memory events
    Racing       \*   in all, document and run rows in all when a registration
                 \*   starts, candidates of one ingestion, semantic candidates
                 \*   recorded at a site, filters of an export, and whether the
                 \*   file changes between parsing and hashing

\* per site: memory_events by id, source_documents by content, ingestion_runs by
\* run_id, semantic_candidate_events by candidate_id
VARIABLE store

\* what an event was made from, besides contents and candidates
Note == "note"    \* added by the operator
Seed == "seed"    \* derived from a compression artifact

Limits == IF SingleWriter THEN Single ELSE Racing

SiteInit == store = [s \in Sites |-> [events |-> <<>>, docs |-> <<>>,
                                   runs |-> <<>>, cands |-> <<>>]]

Write(s, table, rows) == store' = [store EXCEPT ![s][table] = rows]

\* a table after INSERT OR REPLACE of one row, after INSERT OR IGNORE of several
WithRow(table, k, row) == [x \in DOMAIN table \cup {k} |-> IF x = k THEN row ELSE table[x]]
WithRows(table, rows) ==
    [x \in DOMAIN table \cup DOMAIN rows |-> IF x \in DOMAIN table THEN table[x] ELSE rows[x]]

\* the events about the file have its path as source
FromFile(e) == e.name \notin {Note, Seed}

\* the bound on memory_events
EventKeys == UNION {{s} \X DOMAIN store[s].events : s \in Sites}
EventRoom == Cardinality(EventKeys) < Limits.events

\* AUTOINCREMENT
NextId(s) ==
    IF DOMAIN store[s].events = {} THEN 1 ELSE LastOf(DOMAIN store[s].events) + 1

InsertEvent(s, e) == Write(s, "events", WithRow(store[s].events, NextId(s), e))

\* add_memory_event from a shell or from seeding
AddEventAt(c, s, e) ==
    /\ call[c] = Idle
    /\ EventRoom
    /\ InsertEvent(s, e)
    /\ UNCHANGED call

\* update_status to 'active'; the export alone looks at the status
ReviewAt(c, s, i) ==
    /\ call[c] = Idle
    /\ store[s].events[i].status # "active"
    /\ store' = [store EXCEPT ![s].events[i].status = "active"]
    /\ UNCHANGED call

-----------------------------------------------------------------------------
(* register_source, and ingest-file which calls it                         *)

Versions(docs) == {docs[x].version : x \in DOMAIN docs}
ActiveContents(docs) == {x \in DOMAIN docs : docs[x].status = "active"}

FileRoom ==
    LET keys(s) == {s} \X (DOMAIN store[s].docs \cup DOMAIN store[s].runs) IN
    Cardinality(UNION {keys(s) : s \in Sites}) < Limits.files

\* parse the file, then hash it; `sources register' is an ingest-file that goes no
\* further than the registry
StartIngest(c, s, x, t) ==
    /\ FileRoom
    /\ Begin(c, [at |-> "register", site |-> s, parsed |-> x, second |-> t])

\* the rest of ingest-file, for the content the registry knows
AfterRegister(c, y) ==
    Continue(c, [at |-> "commit", site |-> call[c].site, parsed |-> call[c].parsed,
                 run |-> <<y, call[c].second>>, ids |-> {}])

\* the reads: a content the registry has seen, active or not, is its answer
ReadRegistry(c, y) ==
    LET docs == store[call[c].site].docs IN
    /\ Resume(c, "register")
    /\ Limits.rewrites \/ y = call[c].parsed
    /\ IF y \in DOMAIN docs THEN AfterRegister(c, y)
       ELSE Continue(c, [at |-> "insert", site |-> call[c].site, parsed |-> call[c].parsed,
                         second |-> call[c].second, hashed |-> y,
                         active |-> ActiveContents(docs)])
    /\ UNCHANGED store

\* one more than the largest version that was active
NextVersion(docs, active) ==
    IF active = {} THEN 1 ELSE LastOf({docs[x].version : x \in active}) + 1

SupersedeDocs(docs, active) ==
    [x \in DOMAIN docs |-> IF x \in active THEN [docs[x] EXCEPT !.status = "superseded"]
                           ELSE docs[x]]

\* the transaction; an equal source_id written meanwhile is an IntegrityError
InsertVersion(c) ==
    LET s == call[c].site
        y == call[c].hashed
        docs == store[s].docs
        active == call[c].active IN
    /\ Resume(c, "insert")
    /\ \/ /\ y \in DOMAIN docs
          /\ Return(c)
          /\ UNCHANGED store
       \/ /\ y \notin DOMAIN docs
          /\ Write(s, "docs", WithRow(SupersedeDocs(docs, active), y,
                   [version |-> NextVersion(docs, active), status |-> "active"]))
          /\ AfterRegister(c, y)

\* commit_candidates: an event per extracted candidate, made from the parsed text
CommitChunk(c) ==
    LET s == call[c].site IN
    /\ Resume(c, "commit")
    /\ Cardinality(call[c].ids) < Limits.chunks /\ EventRoom
    /\ InsertEvent(s, [name |-> call[c].parsed, status |-> "unresolved"])
    /\ Continue(c, [call[c] EXCEPT !.ids = @ \cup {NextId(s)}])

\* record_run: INSERT OR REPLACE; after an exception the ids are not known
RecordIngestion(c) ==
    LET s == call[c].site IN
    /\ Resume(c, "commit")
    /\ \E ids \in {call[c].ids, {}} :
         Write(s, "runs", WithRow(store[s].runs, call[c].run, ids))
    /\ Return(c)

-----------------------------------------------------------------------------
(* semantic candidates                                                     *)

Promotion(status, event) == [status |-> status, event |-> event]

\* record_run of the semantic ledger: INSERT OR IGNORE
RecordCandidate(c, s, k) ==
    /\ call[c] = Idle
    /\ Cardinality(DOMAIN store[s].cands \cup {k}) <= Limits.cands
    /\ Write(s, "cands", WithRows(store[s].cands, [x \in {k} |-> Promotion("candidate", 0)]))
    /\ UNCHANGED call

IsCandidate(s, k) == k \in DOMAIN store[s].cands /\ store[s].cands[k].status = "candidate"

\* promote_candidate: the first read, the event, the second read, the update
StartPromotion(c, s, k) ==
    /\ IsCandidate(s, k)
    /\ Begin(c, [at |-> "add", site |-> s, cand |-> k])
    /\ UNCHANGED store

AddPromoted(c) ==
    LET s == call[c].site IN
    /\ Resume(c, "add")
    /\ EventRoom
    /\ InsertEvent(s, [name |-> call[c].cand, status |-> "unresolved"])
    /\ Continue(c, [at |-> "check", site |-> s, cand |-> call[c].cand, event |-> NextId(s)])

CheckCandidate(c) ==
    /\ Resume(c, "check")
    /\ IF IsCandidate(call[c].site, call[c].cand)
       THEN Continue(c, [call[c] EXCEPT !.at = "mark"]) ELSE Return(c)
    /\ UNCHANGED store

MarkPromoted(c) ==
    LET s == call[c].site IN
    /\ Resume(c, "mark")
    /\ Write(s, "cands", WithRow(store[s].cands, call[c].cand,
                                 Promotion("promoted", call[c].event)))
    /\ Return(c)

NoteStep(c) ==
    \E s \in Sites : AddEventAt(c, s, [name |-> Note, status |-> "active"])
SeedStep(c) ==
    \E s \in Sites : AddEventAt(c, s, [name |-> Seed, status |-> "proposed"])

ReviewStep(c) == \E s \in Sites : \E i \in DOMAIN store[s].events : ReviewAt(c, s, i)

FileStep(c) ==
    \/ /\ \E s \in Sites, x \in Texts, t \in Seconds : StartIngest(c, s, x, t)
       /\ UNCHANGED store
    \/ \E y \in Texts : ReadRegistry(c, y)
    \/ InsertVersion(c) \/ CommitChunk(c) \/ RecordIngestion(c)

SemanticStep(c) ==
    \/ \E s \in Sites, k \in Candidates :
         RecordCandidate(c, s, k) \/ StartPromotion(c, s, k)
    \/ AddPromoted(c) \/ CheckCandidate(c) \/ MarkPromoted(c)

=============================================================================
