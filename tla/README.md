# A TLA+ model of the deterministic cognition substrate

This directory holds a formal model of the repository: TLA+ modules translated
from the Python source, TLC configurations that model-check them on small
instances, and proofs that TLAPS checks for every value of the constants. Line
references are to the source tree; `PROJECT.json` maps every definition to the
lines it stands for.

The repository is a local-first system of SQLite databases. It has no server and
no threads of its own. What makes it hard are processes that die between two
commits, commands that read over one connection and write over another, state
that is kept twice (a mutable row and an append-only lineage), and results that
come back late, twice or not at all.

## 1. Inventory

### Components that move state

| Component | State | Operations | What is hard | What makes it correct |
|---|---|---|---|---|
| **Task orchestration** `orchestration/` | `tasks` (state, version), `task_lineage` (append-only), `task_dependencies` | `create_task`, `transition_task`, `add_dependency`, `check_and_unblock` | reads outside the transaction, an UPDATE without a guard on the version, a three-connection unblock | the lineage is one chain per task that ends in the row; whatever was unblocked had its dependencies completed |
| **Runtime supervisor** `runtime/` | `runtimes` (state, iteration), lineage, checkpoints; the task table of the orchestration | `run_iterations`, `execute_task`, `pause`, `stop`, `recover`, `resume`, checkpoints | crashes and Ctrl-C anywhere, handlers that move tasks, a LIMIT on the poll | a task's handler runs once per readiness; at most one orphan per death; ready tasks get their turn |
| **Workflow validation and planning** `workflow/validation.py`, `planner.py` | none (pure) | `validate_workflow`, `build_execution_plan`, `get_ready_nodes` | duplicate, self and unknown references; union-find; degrees | verdicts equal their declarative meaning; plans are staged and never stuck |
| **Workflow execution and replay** `workflow/executor.py`, `state.py`, `replay.py` | an execution in memory; its events | `start_execution`, `record_node_completed`, `record_node_failed`, `replay_execution`, `replay_from_snapshot` | two independent computations of the same state; retries; several stages at once; blocked branches | replay gives the execution back, versions included; the state says what can still run |
| **Workflow persistence and recovery** `workflow/persistence.py`, `storage.py`, `snapshot_policy.py`, `recovery.py` | `workflow_executions` row, events, snapshots | `persist_execution`, `replay_execution_from_storage`, `apply_snapshot_policy`, `recover_all` | crash between the row and the events, in either order | the lineage is always valid and is the truth; a stale row is a former truth and catches up |
| **Workflow coordination and dispatch** `workflow/coordination.py`, `dispatcher.py` | both databases | `step_execution`, `submit_ready_nodes`, `handle_task_result`, the semantic handler | two processes, tasks in two commits, results lost between task and lineage | no node has two active tasks; work is repeated only after a loss |
| **Semantic ledger** `semantic/ledger.py`, `workflow/semantic_handler.py`, `integration/ingest.py` | `semantic_execution_runs`, `semantic_candidate_events` | `record_run`, `promote_candidate`, `update_candidate_status`, `commit_ingest` | one promotion is three connections in two tables; runs with deterministic ids are retried | a promoted candidate has its memory event; duplicates only after a death |
| **Memory events** `memory/service.py` | `memory_events`, `memory_revisions`, `memory_links`, `confidence_revisions` | `add_memory_event`, `update_status`, links, contradictions, confidence revisions, `init_db` | versions from stale reads, approvals in two transactions, migrations that commit statement by statement | the revisions explain the status; the last operator revision is the effective confidence; the version row never promises what the file lacks |
| **Governed artifacts** `memory/embeddings.py`, `embedding_pins.py`, `compression.py`, `artifact_governance.py` | `event_embeddings`, `embedding_model_pins`, `compression_artifacts`, each with a status | embed, promote, invalidate, supersede, pin, seed | a pin read beside the transaction, supersession cycles, seeding in several commits | an active embedding matched a pin; chains end or are reported; a seeded event leads to its sources |
| **Ontology** `memory/ontology.py` | `ontology_terms`, `ontology_aliases` | register, alias, deprecate, supersede, forbid; usage reports | every check is a read before the transaction; timestamps of one second | aliases resolve in one lookup to a registered term; supersession has no cycle |
| **Retrieval and context** `memory/retrieval.py`, `session/activation.py`, `context_window.py`, `reconstruction.py` | none (reads) | `retrieve`, `activate_memory`, `apply_context_budget`, `reconstruct`, `verify_assembly_against_current_db` | up to eleven reads beside writers, limits per pass, four sub-budgets | nothing the policy asks for is missed below the limits; no budget is exceeded or left unused; drift is reported |
| **Sessions and policies** `session/` | `context_assembly_log`, `cognition_session`, `assembly_transition_log`, `activation_policies`, `activation_decision_log` | log, open, transition, close; create, activate, supersede, execute a policy | sequence numbers from MAX plus one; three transactions per execution | the log of a session is gapless and chained; a decision replays from its own row |
| **Source registry and ingestion** `sources/`, `ingestion/` | `source_documents`, `ingestion_runs` | `register_source`, `commit_candidates`, `record_run`, under `ingest-file` | the file changes between two reads of it; a death between commits | a path has one active version; a run names its events |
| **Continuity** `continuity/` | bundles (files); the whole target database | `export_bundle`, `import_bundle` | two databases that give out ids on their own; planned and written over two connections; torn exports | an import is all or nothing and for good; ids keep their meaning |

### Components without hard state

Model adapters (`models/`) call an external model. Integration packets
(`integration/`) are built, rendered and parsed without writing; only
`integration/ingest.py` writes, and it is modelled. The shell, `context_builder.py`,
`export.py`, `review.py` and `workflow/inspector.py` only read. Parsing, chunking
and extraction of texts are pure. `demo/`, `docs/` and `validation/` are scripts
and texts.

### How they interact

    definition --validate, plan--> plan                          WorkflowPlanner
        plan --initialize--> execution row + lineage             WorkflowPersistence
            ready nodes --step_execution--> tasks                WorkflowCoordination
                tasks --poll, claim, handler--> outcome          RuntimeSupervisor, TaskOrchestration
                    semantic handler --record, promote--> ledger, memory   SemanticLedger
            outcome --handle_task_result--> lineage              WorkflowExecution
        lineage --replay--> execution (recovery, snapshots)      WorkflowPersistence
    memory --memory-review--> active memory                      MemoryEvents, SemanticLedger
        events --links, revisions, artifacts--> governed memory  MemoryGovernance, GovernedArtifacts
            memory --retrieve, budget--> context                 ContextAssembly
                context --log, transition--> session timeline    CognitionSession
    file --register, ingest--> documents, runs, events           SourceIngestion
    memory, ledger --export, import--> another database          ContinuityBundle

All interaction is through the SQLite files; there are no messages. Callbacks
are the task handlers, which may themselves call `transition_task`. GOAL.md:118
permits one process at a time ("Concurrent writers | Not safe; single-process
writes only"). Where the code would allow several, the models have several
and the properties say which hold regardless and which are promised to a single
writer.

## 2. Modules

| Module | Models | Uses |
|---|---|---|
| `TaskStates` | states and moves of a task | |
| `TaskOrchestration` | `orchestration/service.py`, split at its transaction boundaries | `TaskStates` |
| `TaskOrchestrationProofs` | TLAPS proofs about it | `TaskOrchestration` |
| `RuntimeSupervisor` | `run_iterations`, `execute_task`, the operator's commands | `TaskStates` |
| `RuntimeSupervisorProofs` | TLAPS proofs about it | `RuntimeSupervisor` |
| `WorkflowPlanner` | validation and planning | |
| `WorkflowExecution` | executor and replay as operators; no variables | |
| `WorkflowExecutionProofs` | TLAPS proofs about its operators, for any plan, and about the planner | `WorkflowExecution`, `WorkflowPlanner` |
| `WorkflowContract` | abstract: what an execution promises | |
| `WorkflowPersistence` | row, lineage, snapshots, recovery; implements the contract | `WorkflowExecution`, `WorkflowContract` |
| `WorkflowPersistenceProofs` | TLAPS proofs about it, the refinement included | `WorkflowPersistence`, `WorkflowExecutionProofs` |
| `WorkflowCoordination` | driver, tasks, worker, results | `WorkflowExecution`, `TaskStates` |
| `WorkflowCoordinationProofs` | TLAPS proofs about it | `WorkflowCoordination`, `WorkflowExecutionProofs` |
| `MemoryEvents` | memory rows and revisions: the write transactions | |
| `SemanticLedger` | ledger, promotion, review, with their callers | `MemoryEvents` |
| `SemanticLedgerProofs` | TLAPS proofs about it | `SemanticLedger` |
| `DatabaseCallers` | the processes that share a database: calls in progress, deaths | |
| `MemoryGovernance` | links, contradictions, confidence revisions, the reports on them | `DatabaseCallers`, `MemoryEvents` |
| `GovernedArtifacts` | pins, embeddings, compression artifacts, seeding | `MemoryGovernance` |
| `MemoryGovernanceProofs` | TLAPS proofs about both and `ContextAssembly` | `GovernedArtifacts`, `ContextAssembly` |
| `Ontology` | terms, aliases, usage | `DatabaseCallers` |
| `SchemaMigration` | `init_db`: schema script, migrations, version row | `DatabaseCallers` |
| `ContextAssembly` | retrieval, activation, budget, reconstruction, drift | `MemoryGovernance` |
| `ActivationTriggers` | trigger evaluation of a policy; no variables | |
| `CognitionSession` | assembly log, sessions, transitions, policies, decisions | `DatabaseCallers`, `ActivationTriggers` |
| `DatabaseProofs` | TLAPS proofs about the ontology, the schema, the sessions and the bundles | `Ontology`, `SchemaMigration`, `CognitionSession`, `ContinuityBundle` |
| `SourceIngestion` | source registry, `ingest-file`, promotion, at several sites | `DatabaseCallers` |
| `ContinuityBundle` | export and import between the sites | `SourceIngestion` |
| `MC*` | instances for TLC; `MCMemory`, `MCSessions` and `MCContinuity` compose several | the modules they instantiate |

Operators whose comment begins with *mutant:* are deliberate errors. They are
part of no specification; replacing the definition that follows each of them by it
makes TLC report the property named in `PROJECT.json`.

### Correspondence

**TaskOrchestration.** `tasks[i]` is row *i*, `lineage` the lineage table in id
order. A public function opens a connection, reads, and writes in one transaction
that commits on close. Python's `sqlite3` begins a transaction at the first
INSERT or UPDATE, so a SELECT before it sees an older state. `call[c].at` is where
process *c* stands between those points: after the SELECT of the row
(`snapshot`), after that of the dependencies (`commit`), and in
`check_and_unblock` before the second (`blocking`) and third (`unblock`)
connection. Calls that raise change nothing and are not actions. Priority,
payload and timestamps are left out.

**RuntimeSupervisor.** `runner.pc` names every place of the loop at which the
durable state differs: `loop`, `counted` (iteration incremented), `poll`,
`claim`, `dispatch`, `handler`, `finish`, `after`, `save`, `saved`,
`interrupted`. `rt` is the row of the runtime, `saved` the last checkpoint,
`task` the state of the tasks. `MoveTask` is any `transition_task` that is not
the loop's, by a handler or while no loop runs. `runs` and `escaped` are ghosts.

**WorkflowPlanner.** `definition.nodes` is a list. The code's dicts and sets are keyed
by the id, so `nodes` is the set of ids with the references of all entries, and
`listed` the length of the list, which `_detect_cycles` and `validate_workflow` also
use; `Repeated` says that the two differ. `nth` distinguishes a reference listed twice.
One action is one iteration of a
loop of the code. The order of a stage (priority, then id) is abstracted; the
order of the union-find's references is arbitrary.

**WorkflowExecution.** The functions of `executor.py` return the new execution,
the events and whether the call raises. Replay is written field by field (the
last transition gives the state, retries and failures are counted) where the
code folds over the events. `_compute_downstream_blocked` is the least closed
set its search visits. `StagedPlan` says what a plan of `build_execution_plan` is;
`WorkflowPlanner` checks the loops that build one.

**WorkflowPersistence.** `row`, `log` and `snap` are the three tables for one
execution, `mem`, `batch` and `since` the locals of the process. `FirstCommit`
and `SecondCommit` are the two commits of `persist_execution`, in the order that
depends on whether the row exists. `Truth` is what the stored lineage replays to.

**WorkflowCoordination.** A task is its node and its state. `CreateTask` and
`ReadyTask` are the two commits of `submit_ready_nodes`. Results return in one of
two modes, both in the code: the caller loop (`handle_task_result`), or the
handler made by the dispatcher, which appends `node_completed` itself and
tolerates a failed append. Appending is one step here, because
WorkflowPersistence has the steps.

**SemanticLedger.** `runs` and `cands` are the two ledger tables, as functions
on their primary keys; `InsertOrIgnore` keeps the rows that are there. A promotion
is `ReadCandidate` (first connection), `AddMemory` (second), `CheckStatus` and
`Decide` (third: a SELECT, then a transaction). `ExecuteNode` is the workflow
node, which catches LedgerError for each candidate; `IngestChunk` is
`ingest-file`, where it ends the promotions. `Review` is `update_status` under
`memory-review`. `lost` is a ghost that counts deaths between the memory event
and the ledger update.

**DatabaseCallers** is the common frame of the modules that follow. `call[c]` is
the place of process *c* inside a service call and what it has read so far;
`writers` is the set of processes of this deployment, chosen at the start, and
`SingleWriter` says that it is one. A call is split exactly where it reads
before a transaction or commits between two of them. Where no step of another
process can change what the check saw (a status that is left once and never
entered again), check and write are one step, and the comment says so.

**MemoryGovernance.** `memory` and `revisions` are those of `MemoryEvents`;
`links` and `confs` are `memory_links` and `confidence_revisions` in id order.
Operators link any two events with any relationship of `Relations` but `contradicts`;
`attributed` marks the links that a seeding made.
`StartApprove`, `ReadEffective` and `WriteRevision` are the three connections of
`approve_confidence_revision`.

**GovernedArtifacts.** A model stands for the identity `compute_pin_identity`
hashes. `promote_embedding` is `StartPromote`, `MatchPin` (the pin, read over a
second connection), `FirstMark` (the last read outside the transaction) and
`Promote`. `Walk` is the loop that the chain and cycle reports share, `Follow` a turn of
it and `CycleFrom` what a cycle report says of one start.

**Ontology.** `terms` and `aliases` are functions on their UNIQUE keys, so a
second INSERT changes nothing. `left` and `banned` are ghosts: the order in which
terms left `active`, and the aliases a term had when it was forbidden.

**SchemaMigration.** Tables, columns and indices are numbered by the version that
introduced them; a column is a pair of its version and its place in the migration.
`CREATE TABLE IF NOT EXISTS` of the current schema creates an absent table with
all its columns, `ALTER TABLE` raises on a column that is there.

**ContextAssembly.** `Fetch` reads the candidates of one pass, `FinishPass` the
links and revisions it needs; the contradictions are read last (`Assemble`).
The rows a pass has are a set, because each order in the code is a total order of
keys that end in the id: `Retrieved` keeps the rows with fewer than `limit` ahead of
them, and `Activated` is the one place where the order itself matters (`SortedBy`).
`Items` lists the candidates of the window tier by tier, `ApplyBudget` takes what
fits. `Reconstruct` is the whole reconstruction at one moment, which `Verify` compares
a stored context with. What others write meanwhile (`OtherStep`) is every call of
`MemoryGovernance` (`ReviewCall`), new events, and deaths. `since` and `activated` in a
context are ghosts. Every update has a second of its own, so recency never ties.

**CognitionSession.** What an assembly holds is one value, `content`; key and
content stand for the hash. `execute_activation_policy` continues through
`FindAssembly`, `WriteAssembly`, `ReadSession`, `ReadSequence`,
`AppendTransition` and `LogDecision`, of which the first five are also the steps of
`log_assembly` and `log_assembly_transition` called on their own (`NoExecution`). `exec`
in the locals of a call is what the execution read first: the policy's row, the event
and the outcome.

**SourceIngestion, ContinuityBundle.** `store[s]` holds the four tables of site *s*
that a bundle carries. A document is its content, a run the pair of the content and
the second it started in, an event what it is about (`name`) with its status. The
`Fields[x]` is the type, title and source of an event about *x*, all that the import
compares; several candidates may have the same, and nothing is assumed about it. The
fetches of an export are one step each; an import is `StartImport` and `PlanImport`
on one connection and `WriteImport`, a transaction on another. Rows of semantic runs
travel with their candidates. `sources register` is an `ingest-file` that ends after
the registry.

## 3. Model checking

All runs finish in under three minutes each on two cores.

| Run | Instance | What it shows |
|---|---|---|
| `tasks` | 2 tasks; 1 writer with 7 lineage events or 2 writers with 5; crashes anywhere | row and lineage agree under races; chain, justified unblocking and growing snapshots for one writer |
| `runtime` | 3 tasks, one without a handler; 6 iterations, poll limit 2, checkpoint every 2; 2 deaths, 1 move; fair | handler once per readiness, one orphan per death, no checkpoint ahead of the row, every ready task is picked up |
| `runtime_escape` | no deaths, 1 move | finding: a handler's move aborts the loop |
| `planner` | all graphs of up to 4 nodes and 4 references, with and without a repeated id (1,035,000 states) | verdicts equal reachability and connectivity, and a repeated id is also reported as a cycle; stages correct and tight; plans never stuck; planning ends |
| `workflow` | 3 plans (a chain with a retry, an uneven join, no nodes); 2 crashes, 1 submission, snapshots; fair | lineage valid and equal to memory; both replays agree; row a former truth that catches up; the contract; executions settle |
| `workflow_recovery` | 1 crash | finding: a row without lineage is never repaired |
| `coordination` | 2 plans (a join with a retry, a chain); 1 crash of each process, 1 lost append; both modes; fair | one active task per node; valid lineage; repetition bounded by losses; the caller loop settles |
| `coordination_stuck` | 1 driver crash, no operator | finding: a pending task blocks its node for good |
| `ledger` | 1 pipeline input, 1 packet with 2 candidates, 2 chunks; 1 writer with 3 rows of memory and revisions, or 2 writers that start with fewer than 2 | provenance holds under races and crashes; duplicates only after deaths; revisions explain the status |
| `memory` | five areas of one database: governance (2 events and 5 rows, 4 when racing), embeddings (2 models, 3 pins, 4 embeddings), supersession (3 artifacts), seeding, ontology (3 words); 1 or 2 writers, deaths anywhere; operators' links `derived_from` and `contradicts` (963,000 states) | confidence chains, contradictions that surface or were resolved, embeddings that follow the pins, supersession and its reports, traceable seeds, resolvable terms |
| `sessions` | contexts over all memories of 3 events out of 8 kinds with 4 policies; timelines of 2 assemblies and 3 transitions; policies of 5 classes with 3 events; schema (databases of versions 0 to 16); 1 or 2 writers, deaths anywhere (1,152,000 states) | budgets kept and used up, nothing missed, drift reported; gapless chained timelines; explained decisions; schema and version agree |
| `continuity` | 2 sites, 1 file with 2 contents, 2 semantic candidates with equal fields (one per site when racing), 3 events (2 when racing), 1 bundle, imported any number of times; 1 or 2 processes, deaths anywhere (1,484,000 states) | imports whole and for good; ids keep their meaning |

**Why the bounds are enough.** Each is the smallest at which the interesting case
exists. Unblocking needs two tasks and seven events (two creations, block, ready,
running, completed, unblock). An overlap of two calls needs two writers and five.
Poll starvation needs more tasks than the limit, and a resume two deaths. A
cycle check differs from a self-reference check at three nodes, and union-find
from a parent chain at four. One repeated entry already separates the length of the list
from the number of ids. A delta replay needs a snapshot and an event after
it, twice, which three events per snapshot and stage advances give. The
coordination run has a driver crash, a worker crash and a lost append at once.
In the ledger, an orphan, its retry and a review take three rows. No property of
governance relates more than two events: a contradiction has two ends, and a chain
of revisions one.
A cycle that does not return to where the walk began takes three artifacts; a
second approval of a candidate five rows. A migration has at most eight columns,
and every old version is an initial state. The four context policies make each
limit bind (candidates, entries, characters, sub-budgets) and one leave room. A
foreign id takes two sites that both have given out an id, a bundle and an import,
three events in all. Two candidates with equal fields, one at each site, are enough for
an import to take one's event for the other's. Every bound is
a constant or a named operator (`Room`, `Spontaneous`, `Limits`) and is a guard of
the action it limits, so states are only cut off, never altered.

**Deadlock.** All systems here may stop: a loop that paused, an execution that
is completed, a database nobody calls. Deadlock checking is therefore off and what
must not stop is a liveness property or a state property (`StagesFollowDependencies`,
`StateMeansProgress`).

**Symmetry** is used in the runs that check invariants only (`tasks`, `ledger`,
`memory`, `sessions`, `continuity`), for callers, words, models, keys, contents and
sites, none of which the code or a property names.

**Areas.** `memory`, `sessions` and `continuity` hold parts that share a
database but whose steps commute, because they touch different tables. A behaviour
exercises one area, chosen in the initial state; what areas do share (events,
their revisions, links) is in each of them that depends on it.

### Fairness

- *RuntimeSupervisor*: weak on the loop (sequential code, the handler returns;
  a handler that hangs is outside the promise). Strong on `Start`, on pausing a
  runtime that a crash left in `polling`, and on recovery: the operator
  follows the recovery handbook, again after every death. `StopRuntime`, crashes and
  moves have none. A runtime that crashes in `polling` really needs the pause:
  `run_iterations` refuses to start from that state.
- *WorkflowPlanner*: weak on `PlannerNext`: loops of one thread.
- *WorkflowPersistence*: weak on the process's own steps and on restarting,
  strong on `recover_all`, which only runs between processes.
- *WorkflowCoordination*: weak on the own steps of both processes; strong on
  `Step` and `HandleResult`, because other driver steps interrupt their being
  enabled, and on the operator's repair of pending tasks (`Operator = TRUE`). A
  successful handler has no fairness: the finite attempts are what ends retries.

## 4. Proofs

`TaskOrchestrationProofs` proves, for any set of callers, any number of tasks and
events, every interleaving and crashes anywhere, all properties of the run `tasks`:

| Theorem | Property |
|---|---|
| `TypeCorrect` | `TypeOK` |
| `LineageGivesState` | `LineageEndsInState` |
| `LineageChains` | `LineageIsChain` |
| `UnblockIsJustified` | `UnblockJustified` |
| `SnapshotsOnlyGrow` | `SnapshotsGrow` |

The only assumption on constants is `BoundsAssumption` (the bounds are naturals).

*The argument.* `TypeOK` is inductive by itself. `LineageEndsInState` needs types
only: every step that writes a row appends the event with the same state
(`CreateWrites`, `CommitWrites`), and a step of another task does not come
after it (`LastIsUnique`, `StepOfLineage`). This holds for races too, as both
writes are one transaction.

The other three properties fail for racing writers, and for one writer they are not
inductive: `Commit` writes what an earlier SELECT read. The missing fact is
`CallIsFresh`: with a single writer, the state, version, dependencies and
blocked-ness that a call in progress has read are still those in the tables. The
lemma `FreshStep` proves that every step keeps it (each action either starts a
call from what it reads or ends the only one there is). `SingleInv` is
`CallIsFresh` with the three properties, proved inductive in `ChainStep`,
`UnblockStep` and `SnapshotsStep`: appending an event changes neither
what lay before an older event (`StateBeforeStable`) nor which events follow each
other, except that the last event of its task gets a successor
(`NextAfterAppend`), and the count of a task's events grows by one exactly when
its version does (`CountAfterAppend`).

`RuntimeSupervisorProofs` proves the three safety properties of the run `runtime`
besides its types, for any finite set of tasks, any polling limit and any bound on
deaths and moves; `ConfigAssumption` is used only for the finiteness of `Tasks`.

| Theorem | Property | Strengthening |
|---|---|---|
| `HandlerOnce` | `HandlerRunsOnce` | `RunsInv` |
| `CheckpointBehindRow` | `CheckpointNotAhead` | `CounterInv` |
| `OrphansBounded` | `OrphansPerDeath` | `OrphansInv` |

*The argument.* All three rest on `Shapes`, the types without the polled queue, and
on `NextPc`, where the loop stands after each step. `RunsInv` adds that a ready task
has not run since it became ready and that the task about to be dispatched is
already committed as running, so no crash before or in the handler can lead to a
second run. `CounterInv` adds that the loop's counter equals the row's at every place
where a checkpoint is written; the two differ only between the increment and the
transition to polling. `OrphansOfStep` shows that a step other than a death adds no
orphan and a death at most the task in hand; `OrphansStep` counts them. `TypeOK` of
this module stays with TLC: that the polled queue is a sequence of tasks needs an
induction over the cardinality of the ready set.

`DatabaseProofs` proves the properties of the parts of the memory database that
stand beside the governed artifacts, each for any set of callers, dying anywhere, and
without any bound on rows:

| Theorem | Property | Specification | Strengthening |
|---|---|---|---|
| `TermsResolve` | `TermsStayResolvable` | `OntologySpec` | `IInv` |
| `SchemaIsPromised` | `SchemaMatchesVersion` | `SchemaSpec` | `SchemaInv` |
| `TimelineIsKept` | `TimelineHolds` | `SessionSpec` | `SessionInv` |
| `DecisionsAreKept` | `DecisionsAreExplained` | `SessionSpec` | `SessionInv` |
| `ImportsAreWhole` | `ImportsStayWhole` | `ContinuitySpec` | `BundleInv` |
| `IdsAreKept` | `IdsKeepTheirMeaning` | `ContinuitySpec` | `BundleInv` |

Their assumptions are the code's constants: `MigrationAssumption` (the latest version is
16, and no database has a later one) and `SessionAssumption` (an operator is given or is
not).

*The ontology.* `IInv` has two parts. `Shapes` holds for racing writers as well: rows
are only added, an alias stands on a registered term and each call in progress
names terms that exist; it gives the first conjunct. `Alone` is for a single writer
and says what racing writers break: `Checked`, that what a call verified before its
transaction still holds; `Apart`, that aliases and terms are disjoint; `Ordered` and
`Replaced`, that `left` numbers the terms that have left `active` and that a
replacement leaves after what it replaced, which is why supersession has no cycle;
`Closed`, that a forbidden term's aliases are those it had at the ban; `Dated`, that a
use and a deprecation are ordered as their clock readings. The property is not
inductive without `Checked`: `LeaveActive` and `AddAlias` write what an earlier step
read. `LeaveGrows` is the lemma about `left`, `ShapesStep` and `AloneStep` go through
the actions.

*The schema.* `Promised` is the property for racing callers; it is inductive with
`Progress`, what each call has done so far: after the script all tables are there,
before the migration to *v* everything of *v - 1* is, and a call that found no version
row sees only rows of the latest version, which other such calls added. That is why two
rows, if racing calls leave two, agree. `Undisturbed` is for a single writer: the columns its migration still
has to add are exactly those that are missing, so no ALTER TABLE raises.

*The sessions.* `Newest` (the active assembly of a key is its newest row) is one
transaction. `Gapless` says that the rows of a session have the indices 0, 1, ... in
row order, which gives `Timeline` its domain and its values (`TimelineOf`). It holds for
racing writers because of `Holding`, what a call keeps of what it read: its index is at
most the number of rows (`NextIndexIs` when it was read), all smaller ones are taken,
and the UNIQUE constraint refuses those. `Pointed` needs from `Holding` that a session row that was
read with a pointer already had transitions. `Exact` adds, for a single writer, that the session
row in a call is still the stored one, and then that counts, pointers, `from` and `late`
are exact. `Accounted` gives each transition of a policy one decision, one call that is to
write it, or a death, and every step passes it from one to another (`AppendTransitionHolds`,
`LogDecisionHolds`, `SessionDeathHolds`); `Decided` and `Linked` are about the rows that are
named. `OutcomeOf` says that `evaluate_trigger` always decides, and never for a policy that is
not active.

*The bundles.* `ContinuitySpec` mixes all writers of all sites with exports and imports;
no assumption on a constant is used, so that the theorems hold for any number of sites,
files, candidates, bundles and for any bounds. A site only gains rows and no event changes
what it is about (`Grown`); so everything a call has seen of a site stays true of it (`CallKept`), and
an import that is whole stays whole (`WholeKept`). `CallHolds` is what the calls have seen: an
export's events are the site's; an import's plan leaves out of its INSERTs only rows that the target has, and
events only if they are the same; the event of a promotion in progress was made from
its candidate. `BundlesHold` carries the meaning of ids from one site to another:
the candidates of a bundle name events of it with their fields, and, while every imported bundle was
closed, so do its runs. `WriteImportKeeps` joins the two. A plan that has become stale inserts
nothing, because one of its INSERTs fails and the transaction is rolled back; without that
(`NeverStale`) an event that was given the id in between would take the bundle's place.
What ids mean is a matter of `Fields` only: nothing says that different candidates have
different fields, so an event may stand for a candidate it was not made from, but only if
the candidate came with a bundle (`landed`).

`MemoryGovernanceProofs` proves five of the properties of the memory database for any
callers, events, confidences, models and bounds, under `ArtifactSpec`: all calls of
`MemoryGovernance` and `GovernedArtifacts` mixed on one database, with deaths anywhere.
The run `memory` checks one area of these calls per behaviour, because together they
are too many states; the theorems have no such division. `GovernanceAssumption`, which
bounds confidences and the statuses operators give by those of the tables, and
`ArtifactAssumption`, that a chain may show at least two artifacts (the code has 50),
are the assumptions used.

| Theorem | Property | Strengthening |
|---|---|---|
| `ConfidenceIsChained` | `ConfidenceChains` | `Latest`, `Approved`, `Proposed`, `Chained` |
| `ContradictionsShow` | `ContradictionsSurface` | `Pairs`, `Watched`, `Traced` |
| `EmbeddingsComeFromPins` | `EmbeddingsFollowPins` | `Pinned`, `Serial` |
| `SeedsCanBeTraced` | `SeedsAreTraceable` | `Traced`, `Reviewed`, `Serial` |
| `SupersessionsAreReported` | `SupersessionIsReported` | `Referred`, `Settled` |

Two more are about contexts, under `ContextSpec`: reconstructions mixed with the calls
of `MemoryGovernance` and new events. `ContextAssumption` types the contents to start
from and the policies; the columns of `Memories` are those of the schema, the limits of
a policy any naturals, zero included.

| Theorem | Property | Strengthening |
|---|---|---|
| `ContextsAreBounded` | `ContextIsBounded` | `ContextInv` |
| `ContextsMissNothing` | `ContextMissesNothing` | `ContextInv` |

*The argument.* `Shapes` says that tables are typed, that a row or a call in progress
names rows that are there, and that only writers have calls. The lemmas `EventsChange`,
`LinksChange`, `PinsChange`, `EmbeddingsChange` and `ArtifactsChange` say once what any
step may do to a table, `Begins` which step took a call where it stands; the rest is
written in their terms and not action by action.

`Latest` (the last operator revision of an event is its only active one) holds for
racing writers, because one transaction supersedes and inserts (`LatestStep`).
`Approved` adds to the rows the approvals in progress: what they carry is still the
candidate's value, as no step changes a revision but its status (`RevisionsStay`).
`Chained` adds, for a single writer, that the effective confidence a call has read is
still the effective one; `Latest` turns that into the row before the new one. `Watched`
says of both ends of a contradiction, and of both ends a call has checked, that they are
live or a later revision took them out (`ExplainedStep`); without the calls in progress
it is not inductive, since an end may leave between the check and the INSERT. The
UNIQUE constraint gives `Pairs` for the calls that look a pair up, and `Traced` for the
links of a seeding, which the code does not look up.

`Pinned` covers the promotions in progress: the pin a call was matched with has the
model of its embedding, and pins keep their model, so a pin that is superseded in
between changes nothing about the first conjunct. `Serial` is for a single writer:
`Ranked` (one active pin, one active embedding per event with the highest pin, and one
wherever there is a superseded one) needs `ReadStill`, that the active rows a call has
read are still the active ones. `Traced` says that the links a seeding made lead to sources
of the artifact, that every source is linked (by it or by an operator, whose link makes
the INSERT fail) or is what the call still has to do, sources after those that are done, or
there was a death (`cut`); `DeriveGoesOn` shows that nothing else ends such a call. `Reviewed` is by the revision
that each status change appends.

`SupersessionIsReported` has a part about states and a part about a loop. `Referred` and,
for a single writer, `Settled` (an artifact is superseded exactly when it has a
successor) are the states. The loop follows one pointer until it meets nothing, an
artifact it has seen or its limit: `Nth` is where it stands after *n* pointers,
`ReachedEarly` says that what is reached at all is reached within as many pointers as
there are artifacts, `FirstStop` that there is a first place where it stops, and
`WalkIs` that this is what `Walk` returns. A walk that meets an artifact again has
found a cycle, and from there the cycle is all that can be reached (`Closes`,
`TurnsBack`). The proof corrected the property. It said that a chain is truncated or reports a cycle
exactly when it leads into a cycle, which is false for an acyclic chain longer than the
limit: that one is truncated, as memory/tests/test_supersession.py:520 expects, and a
truncated chain says nothing about cycles. TLC had not seen it, because its limit was
above its number of artifacts; both are 3 now.

*Contexts.* `ContextInv` has three parts. `ReadTables` types the tables. `Reader` is
about a reconstruction in progress: at pass *n* it has found, for each pass before *n*,
the events that pass asks for, as long as nobody touched them and their kind fits the
limit (`Found`); between the two reads of a pass its rows are those the first read found
(`Scoring`); and if the tables are what they were when it began, it holds what an
undisturbed reading collects (`Collected`). `ContextHolds` says the same of the context
that was made, and that its window is `Bounded`. None of this is inductive without the
fact that a written database never looks again as it did: `Written` says that a step
that writes lets a table grow, retracts a link or rejects a candidate, none of which is
ever undone, so that the tables never return to `since` (`SinceKept`) and the events that are
untouched become fewer (`UntouchedKept`), while kinds only grow (`KindGrows`). A step that
writes nothing leaves every reading as it is (`SameCollected`, `ReaderSame`). The
actions are one lemma each (`FetchStep`, `UpdateStep`, ..., `DieStep`).

Within a pass, `NothingCrowdedOut` says why expansion hides nothing: rows behind links
rank after all rows that were asked for, so the limit drops those first. `PassesAre`
lists the passes of a policy. For the window, `KeysAreOrdered` and `SortedOnce` give
each row exactly one place in its section, `ItemsAreTiered` the order of the sections,
and `BudgetIsKept` goes through the items with `Accounts`, which says that each of the
counters `chars`, `governance`, `rule`, `decision` and `investigation` is what the kept
items of its tier or type spend (`SpentAdds`). The recursive functions have their
values by `StepsExist`, and `AllReached` is the induction over them. `ExcludedLeaves`
and `SameIsNoDrift` are the two sides of `Verify`.

The proof corrected `ContextMissesNothing` too. It called an event untouched if its row is
what it was when the reconstruction began; but two reviews that race can take an event
out of its status and back while the passes read, and then a pass may well miss it. An
event is untouched now if it has no revision since. And the property spoke of three of
the five passes; those for investigations and for adaptations are in it now.

`SemanticLedgerProofs` proves all three properties of the run `ledger` for any callers,
runs, packets and bounds, crashes anywhere:

| Theorem | Property | Strengthening |
|---|---|---|
| `ProvenanceIsHeld` | `ProvenanceHolds` | `Shapes`, `Held`, `Provenance`, `Counted`, `Fresh` |
| `DuplicatesPaid` | `DuplicatesArePaidFor` | `Paid` |
| `StatusIsExplained` | `RevisionsExplainStatus` | `Ends`, `Chain` |

*The argument.* `Held` says that rows and calls in progress name rows that are there, a
call between its two commits a memory event of its candidate. `Fresh` says, for a single
caller, that the status (of a candidate or an event) it read outside its transaction is
still the stored one. `Paid` makes the inequality of the property an equation: the
memory events of a candidate are its promotion, the promotion in flight and one for
each death between the commits; every step moves one term into another (`OneInFlight`,
`OneMoreEvent`). `Ends` holds for racing reviews, because the revision and the new
status are one transaction; `Chain` needs `Fresh`.

`WorkflowExecutionProofs` is about the pure functions, for any plan that satisfies
`StagedPlan` (what `build_execution_plan` yields; the assumption `PlansAreStaged` says
that `Plans` are such plans, and it is the only one used).

| Theorem | What it says |
|---|---|
| `AppliedInParts` | replay in two parts is replay of the whole |
| `OutcomeIs` | `detect_outcome` names what can still happen |
| `CompletedIsKept`, `FailedIsKept` | what a call of the executor on a ready node returns |

*The argument.* Replay is written field by field over the positions of events, so the
replay of `a \o b` is about positions of `a` and shifted positions of `b`
(`SplitPositions`, `SplitSize`, `SplitLast`). `Follows(x, events, y, p)` says that the
events replay from `x` to `y` and continue what validation accepts; it composes
(`FollowsInParts`), each event of the executor is such a step (`MovedFollows`,
`MarkedFollows`, `TriedFollows`, `AdvancedFollows`), and a lineage that grows by one
stays valid (`ValidLogGrows`). `Sane` is what every call keeps: completed nodes have
their dependencies completed, the stage index stands at the first incomplete stage,
nodes that have not failed have attempts left, and the state fits. `OutcomeIs` rests on
`EarliestNode`: of any nodes of a plan, one depends on none of the others, so a node
that is neither done nor blocked leads back to a ready one.

The same module proves the two invariants of the run `planner`, under `PlannerSpec`: any
definition with any finite set of nodes and references (`IdsAssumption`).

| Theorem | Property | Strengthening |
|---|---|---|
| `VerdictsAreRight` | `VerdictIsRight` | `ErrorsAreTrue`, `KahnHolds`, `ForestHolds` |
| `PlansFollowDependencies` | `StagesFollowDependencies` | `StagesHold` |

*The argument.* The properties say what the answers mean (some ring of nodes, each
depending on another; two parts without a reference between them), the loops compute
numbers and parents. `KahnHolds`: the degree of a node is the number of its references
to nodes not yet processed (`Owed`; `OwedSplits` takes out those to one node), and no
member of a ring has been processed. When no node is left with degree 0, the rest is
empty or is itself a ring. The counting ends
with as many processed as there are ids just when there is no ring, and `Repeated` makes
the list longer than that: this is the second half of the verdict on cycles.
`ForestHolds`: some rank grows along every parent, so that
each node has one root, which `FindRoot` returns (`ClimbExists`, `ClimbToRoot`);
references that have been united have one root at both ends, and a part of the graph
without references to the rest holds a node exactly when it holds its root. `UniteJoins` gives
the rank and the roots after a union. `StagesHold` says that placed and waiting nodes are
the two parts of the graph, that each stage depends on earlier ones and on the one
before it, and that a node whose degree has fallen to 0 depends on the last stage; a graph
that passed validation has no ring, so the loop ends with every node placed. Recursive
functions are unfolded by exhibiting a function that satisfies the equation, and what
they return for every argument follows from the least argument for which it would not
(`LeastOf`): the library's induction theorems are not needed.

`WorkflowPersistenceProofs` proves the four invariants of the run `workflow` and that
the system implements the abstract specification, with a crash before and after every
commit:

| Theorem | Property |
|---|---|
| `LineageIsTheTruth` | `LineageIsTruth` |
| `RowIsNeverAhead` | `RowNeverAhead` |
| `SnapshotReplayIsTruth` | `SnapshotReplayAgrees` |
| `StateIsProgress` | `StateMeansProgress` |
| `ContractIsKept` | `KeepsContract` |

*The argument.* The properties speak of replays, so none is inductive: `IInv` says where
the replays come from. `Stored`: the lineage begins with the first event, each event
continues what is before it, and it replays to a sane execution. `Working`: between a
call of the executor and its commit, the unsaved events follow the truth to the
execution in memory. `Snapshotted`: the events after the snapshot take it to the truth,
which `AppliedInParts` keeps when the lineage grows. `Unborn` is the window in which
only the row of a new execution exists. For the refinement, `Promised` (part of what
the executor keeps) is matched with the actions of `WorkflowContract` disjunct by disjunct
(`ContractMoves`); steps that append nothing stutter.

`WorkflowCoordinationProofs` proves the four invariants of the run `coordination` for
both ways results come back, any number of crashes, lost appends and tasks:

| Theorem | Property | Strengthening |
|---|---|---|
| `OneTaskPerNode` | `OneActiveTask` | `Driver`, `Exclusive` |
| `TasksComeWhenDue` | `TasksAreForReadyNodes` | `Driver`, `Due` |
| `LineageIsAccepted` | `LineageStaysValid` | `Lineage`, `Worker`, `Due` |
| `RepetitionIsPaid` | `WorkRepeatsOnlyAfterLoss` | `Paid` |

*The argument.* `Driver` says that the driver's execution is the truth and that nodes it
is about to submit, and those whose results it waits for, are ready in it.
`Exclusive` adds to the property what makes the check of active tasks hold until the task
is created: a node still to be submitted has no active task, and one whose result is
awaited has no other. `Due` says, for the handler, that a task that has not run is for a
node that is not completed, so the node it appends is new. `Paid` counts: the completed
tasks of a node, plus one if an orphan is still active, are at most the driver's
crashes, plus one if the node is handled; a crash pays for an orphan or for an unhandled
result and never for both, by `Exclusive`. The proof sharpened the property: crashes of the
worker, which an earlier version counted too, pay for nothing. Handling a result is
`CompletedIsKept` or `FailedIsKept`, whose preconditions are `Driver`.

Each inductive invariant was also checked with TLC on the instances of its run.

*Only model-checked*: the liveness properties, because the prover has no rules for
fairness. Every invariant that a passing run checks is proved. WorkflowPersistence, WorkflowCoordination and SemanticLedger have no
type invariant among the runs; the proofs have one (`Stored`, `Types`, `Shapes`).

## 5. Where code and documents disagree

Three disagreements are runs that TLC refutes (`findings` in PROJECT.json):

1. docs/RUNTIME_HANDLER_DISPATCH_ARCHITECTURE.md:56: "A single bad handler must
   not abort the loop". A handler that moves its own or a later polled task makes
   `transition_task` raise, and `run_iterations` has no handler for it.
2. docs/PROCESS_ENTRYPOINT_AND_RECOVERY_ARCHITECTURE.md:242: the row "is always
   consistent with lineage" after recovery. Not after a crash between the row and
   the first event of a new execution.
3. docs/WORKFLOW_RUNTIME_COORDINATION_ARCHITECTURE.md:7: recovery "resumes from
   there". Not after a crash between `create_task` and the move to ready.

Others were met while modelling. The models follow the code:

- docs/TASK_ORCHESTRATION_ARCHITECTURE.md:87 calls `completed` terminal;
  `VALID_TRANSITIONS` lets it move to `superseded`. Line 193 speaks of an acyclic
  graph; `add_dependency` refuses only self loops. `transition_task` moves a
  blocked task to ready without looking at its dependencies; only
  `check_and_unblock` does (hence `via` in `UnblockJustified`).
- docs/RUNTIME_SUPERVISOR_ARCHITECTURE.md:170 says that recovery restores the
  iteration from the checkpoint, :321 that it starts at 0; the code resumes from
  the row, and nothing reads a checkpoint on recovery.
- docs/WORKFLOW_RUNTIME_COORDINATION_ARCHITECTURE.md:169: submission is safe
  "without double-submission". That is so for active tasks (`OneActiveTask`). A
  node whose task completed but whose result was lost is submitted again
  (`WorkRepeatsOnlyAfterLoss` bounds how often: once for each crash of the driver, or
  each lost append).
- In handler mode the dispatcher never counts attempts, advances stages or
  completes the execution: `max_attempts` is without effect there. A plan without
  nodes stays `executing` forever.
- semantic/ledger.py:334 says that a known run is returned "without any additional
  writes"; its candidates are inserted all the same, so a run that first failed keeps
  `status = 'failed'` and `candidate_count = 0` above a candidate that can be
  promoted.
- semantic/ledger.py:626 asks the caller of `promote_candidate` to retry the ledger
  update; no caller does, and workflow/semantic_handler.py:240 ("a partial resume
  promotes only remaining") does not hold for a death inside a promotion: the
  resume writes the memory event again. `DuplicatesArePaidFor` says how often at
  most, `lost` when.
- integration/ingest.py:165 sends the operator to `memory-review promote`, a
  command that does not exist.
- `update_status` has no state machine: a rejected event may become active again.
- memory/ontology.py:374 says that forbidding a term invalidates its aliases and that
  new usage is rejected. The aliases stay and still resolve, and no writer consults the
  ontology.
- A scope that is pinned back to an earlier model keeps events without an embedding it
  can activate: the superseded row of that model blocks a new one (UNIQUE, and
  memory/embeddings.py:204). Retrieval ranks active embeddings whatever the pin is.
- An approved candidate revision stays `proposed`: it can be approved again and is
  reported as unreviewed for good. `detect_low_confidence_active` and
  `min_confidence` look at the stored confidence, the ranking at the effective one.
- session/activation.py:36 excludes terminal-negative statuses; a rejected
  investigation that a link connects to an activated event comes in through
  `_expand_related`. Proposed governance events fill the limit of the unresolved
  pass, although they have one of their own.
- `log_assembly` answers with the row of an identical hash even if it is superseded,
  and `from_assembly_id` of a transition is not checked against anything.
- sources/registry.py says that `register_source` returns the existing active record;
  a file that reverts to an old content gets the superseded one, and no version is
  active that describes it. `ingest-file` parses and hashes the file separately, so
  that the registry may describe another content than the events.
- An ingestion run's id has a resolution of one second and is written with INSERT OR
  REPLACE; an exception inside `commit_candidates` loses the ids that were committed.
- workflow/validation.py:103 says that `_detect_cycles` "returns a single error string if
  any cycle is found". It compares the number of ids it processed with the length of the
  list (:129), so that a definition in which a `node_id` is repeated, acyclic or not, is
  also told "Circular dependency detected involving nodes: []" beside its "Duplicate
  node_id". `VerdictIsRight` says exactly when; such a definition is refused either way.
- session/context_window.py:82 says that items are "only dropped from the tail of each
  tier"; docs/SESSION_RECONSTRUCTION_ARCHITECTURE.md:262 that "Governance items are the
  last to be truncated"; docs/CONTEXT_ASSEMBLY_CLI_ARCHITECTURE.md:119 that "Governance
  context is never dropped before any other section". The code passes over an item that
  does not fit and takes a smaller one after it, in the same tier or a later one; and the
  caps of governance, which the default policy sets, drop governance items while the
  total budget still has room, which later tiers then use. `ContextIsBounded` states what
  the code does: no item is dropped for a later one, but a governance item may be dropped
  where later ones stay.
- continuity/importer.py:82 says "Skip: id exists and payload matches", but only type, title
  and source are compared (:97); status and version may differ. A candidate's id is
  made from the adapter, its version and the input as well (semantic/ledger.py:28), so
  two sites can hold different candidates with the same three fields under one event id.
  The import then skips the bundle's event, and the imported candidate names an event that
  was made from another candidate. `IdsKeepTheirMeaning` promises the fields, and the
  event's own origin only for candidates that came with no bundle.
- A candidate that the target holds unpromoted is skipped when the bundle holds it promoted, so that the target can promote it again, as a second
  event. A filtered export, or one beside an ingestion, carries runs that name
  events the bundle does not hold; at the target these ids may belong to other events
  (`IsClosed` in `IdsKeepTheirMeaning` sets such bundles aside).

## 6. Not modelled

Texts, hashes, prompts and spans; vectors and semantic ranks; parsing, chunking and
extraction; reports that only count ages; the shell and all formatting; SQLite itself
beyond atomic transactions and reads outside them (a busy database raises, as any
failing call before its first write); corrupted files, and bundles that
`validate_bundle` refuses. Timestamps appear where an outcome depends on them (the
ontology's reports, ingestion runs, the order of updates) and ids made from them
elsewhere do not: two executions of one plan within a second are one execution
(workflow/state.py:65).

`cmd_snapshot` reads the last event id and replays over two connections; it is one
step here, under the single-process rule. The staleness check of
`integration/ingest.py` is made over a connection of its own; it refuses or lets
through the same write, so it is not modelled. The continuity section of a context
(`compression_artifact_ids`) has a budget of its own and is left out. No function sets
an activation policy to `invalidated`, and none changes the content of an event, so
`invalidate_stale_embeddings` has nothing to find. Workflow definitions and plans
are never changed: `save_workflow_definition` and `save_workflow_plan` look for the row,
return if it has the same content (topology hash, plan text), raise if it has another, and
else insert it (workflow/storage.py:378, :452). A retrieval pass is two steps in
`ContextAssembly`: the candidates, and then links, linked events and confidences, which the
code reads one after the other; a write between these is not modelled.

## 7. Plan

Done: every component that moves state, with proofs for task orchestration, the
runtime, workflow planning, execution, persistence and coordination, the semantic
ledger, the ontology, the schema, sessions and policies, memory governance and its
artifacts, contexts, and continuity bundles. No module uses a RECURSIVE operator, so
that all can be proved about. Next:

1. **One artifact life cycle** as an abstract specification of `artifact_governance.py`
   that embeddings, pins and compression artifacts implement.
2. **Composition** of SemanticLedger with ContinuityBundle at the granularity of the
   ledger: today the bundle's side has its own promotion, of one outcome per input.
3. **The continuity section** of contexts, and the retrieval log.
