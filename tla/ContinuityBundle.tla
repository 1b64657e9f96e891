-------------------------- MODULE ContinuityBundle --------------------------
(***************************************************************************)
(* continuity/exporter.py, manifest.py and importer.py: bundles carry rows *)
(* from one site's database to another's.                                  *)
(*                                                                         *)
(* Both sides read statement by statement outside any transaction, so      *)
(* writers get in between; the import writes everything in one transaction *)
(* of a second connection, from the plan its first connection made.        *)
(***************************************************************************)
EXTENDS SourceIngestion

CONSTANT MaxBundles   \* bound: bundle files in existence

VARIABLES
    bundles,  \* exported bundles; a file can be imported any number of times
    landed    \* ghost: <<site, bundle>> whose import returned success

continuityVars == <<store, bundles, landed>>

\* the rows of a table with these keys
Only(f, keys) == [k \in DOMAIN f \cap keys |-> f[k]]

ContinuityInit == SiteInit /\ bundles = {} /\ landed = {}

-----------------------------------------------------------------------------
(* export_bundle                                                           *)

\* the rows a filter keeps; compression-derived proposed events stay out
Exported(events, unresolvedOnly) ==
    Only(events, {i \in DOMAIN events :
        /\ unresolvedOnly => events[i].status \in {"unresolved", "proposed"}
        /\ ~(events[i].name = Seed /\ events[i].status = "proposed")})

\* _fetch_memory_events
StartExport(c, s, unresolvedOnly) ==
    /\ Cardinality(bundles) < MaxBundles
    /\ Begin(c, [at |-> "docs", site |-> s,
                 events |-> Exported(store[s].events, unresolvedOnly)])
    /\ UNCHANGED continuityVars

\* _fetch_source_documents: all versions of the paths the events name
FetchDocuments(c) ==
    LET events == call[c].events
        ofFile == \E i \in DOMAIN events : FromFile(events[i]) IN
    /\ Resume(c, "docs")
    /\ Continue(c, [at |-> "runs", site |-> call[c].site, events |-> events,
                    docs |-> IF ofFile THEN store[call[c].site].docs ELSE <<>>])
    /\ UNCHANGED continuityVars

\* _fetch_ingestion_runs: the runs of those documents
FetchRuns(c) ==
    LET runs == store[call[c].site].runs IN
    /\ Resume(c, "runs")
    /\ Continue(c, [at |-> "candidates", site |-> call[c].site, events |-> call[c].events,
         docs |-> call[c].docs,
         runs |-> Only(runs, {r \in DOMAIN runs : r[1] \in DOMAIN call[c].docs})])
    /\ UNCHANGED continuityVars

\* _fetch_semantic_candidates: promoted, to one of the exported events
PromotedAmong(s, events) ==
    {k \in DOMAIN store[s].cands : /\ store[s].cands[k].status = "promoted"
                                /\ store[s].cands[k].event \in DOMAIN events}

\* ... and the bundle with its manifest; a candidate's run row goes with it
FinishExport(c) ==
    LET s == call[c].site IN
    /\ Resume(c, "candidates")
    /\ bundles' = bundles \cup
         {[events |-> call[c].events, docs |-> call[c].docs, runs |-> call[c].runs,
           cands |-> Only(store[s].cands, PromotedAmong(s, call[c].events))]}
    /\ Return(c)
    /\ UNCHANGED <<store, landed>>

-----------------------------------------------------------------------------
(* import_bundle: the plan, collision by collision                         *)

NewEvents(t, b) == DOMAIN b.events \ DOMAIN t.events

\* mutant: an id that is there is the same event
NoEventCollisions(t, b) == {}

\* _check_memory_events: the same id, another (event_type, title, source); an event
\* that agrees in these is skipped, whatever else it says
EventCollisions(t, b) ==
    {i \in DOMAIN b.events \cap DOMAIN t.events :
        Fields[t.events[i].name] # Fields[b.events[i].name]}

\* _check_source_documents: another content holds this version
NewDocuments(t, b) ==
    {x \in DOMAIN b.docs \ DOMAIN t.docs : b.docs[x].version \notin Versions(t.docs)}
DocumentCollisions(t, b) == (DOMAIN b.docs \ DOMAIN t.docs) \ NewDocuments(t, b)

\* _check_ingestion_runs
NewRuns(t, b) == DOMAIN b.runs \ DOMAIN t.runs

\* _check_semantic_candidates, after `incoming' events
NewCandidates(t, b, incoming) ==
    {k \in DOMAIN b.cands \ DOMAIN t.cands :
        b.cands[k].event \in DOMAIN t.events \cup incoming}
CandidateCollisions(t, b, incoming) ==
    (DOMAIN b.cands \ DOMAIN t.cands) \ NewCandidates(t, b, incoming)

\* validate_bundle accepts what export_bundle wrote; classify the events ...
StartImport(c, s, b) ==
    /\ Begin(c, [at |-> "plan", site |-> s, bundle |-> b, insert |-> NewEvents(store[s], b),
                 refused |-> EventCollisions(store[s], b) # {}])
    /\ UNCHANGED continuityVars

\* ... and the other sections; with a collision, or dry_run, nothing is written
PlanImport(c) ==
    LET b == call[c].bundle
        t == store[call[c].site]
        refused == \/ call[c].refused
                   \/ DocumentCollisions(t, b) # {}
                   \/ CandidateCollisions(t, b, call[c].insert) # {} IN
    /\ Resume(c, "plan")
    /\ \/ Return(c)
       \/ /\ ~refused
          /\ Continue(c, [at |-> "write", site |-> call[c].site, bundle |-> b,
               insert |-> call[c].insert, newDocs |-> NewDocuments(t, b),
               newRuns |-> NewRuns(t, b), newCands |-> NewCandidates(t, b, call[c].insert)])
    /\ UNCHANGED continuityVars

\* mutant: INSERT OR IGNORE
NeverStale(t, p) == FALSE

\* a planned row exists by now: its INSERT is an IntegrityError
Stale(t, p) ==
    \/ p.insert \cap DOMAIN t.events # {} \/ p.newDocs \cap DOMAIN t.docs # {}
    \/ p.newRuns \cap DOMAIN t.runs # {} \/ p.newCands \cap DOMAIN t.cands # {}

\* the rows a plan adds to the target's tables
Inserted(t, p) ==
    [events |-> WithRows(t.events, Only(p.bundle.events, p.insert)),
     docs |-> WithRows(t.docs, Only(p.bundle.docs, p.newDocs)),
     runs |-> WithRows(t.runs, Only(p.bundle.runs, p.newRuns)),
     cands |-> WithRows(t.cands, Only(p.bundle.cands, p.newCands))]

\* the one write transaction
WriteImport(c) ==
    LET p == call[c]
        t == store[p.site] IN
    /\ Resume(c, "write")
    /\ Return(c)
    /\ \/ Stale(t, p) /\ UNCHANGED <<store, landed>>
       \/ /\ ~Stale(t, p)
          /\ store' = [store EXCEPT ![p.site] = Inserted(t, p)]
          /\ landed' = landed \cup {<<p.site, p.bundle>>}
    /\ UNCHANGED bundles

ContinuityDeath(c) == Die(c) /\ UNCHANGED continuityVars

BundleStep(c) ==
    \/ \E s \in Sites, u \in Limits.filters : StartExport(c, s, u)
    \/ FetchDocuments(c) \/ FetchRuns(c) \/ FinishExport(c)
    \/ \E s \in Sites, b \in bundles : StartImport(c, s, b)
    \/ PlanImport(c) \/ WriteImport(c)
    \/ ContinuityDeath(c)

\* what the sites do by themselves
LocalStep(c) == NoteStep(c) \/ SeedStep(c) \/ ReviewStep(c) \/ FileStep(c) \/ SemanticStep(c)

ContinuityNext ==
    /\ UNCHANGED writers
    /\ \E c \in writers :
         \/ LocalStep(c) /\ UNCHANGED <<bundles, landed>>
         \/ BundleStep(c)

ContinuitySpec ==
    /\ CallersInit /\ ContinuityInit
    /\ [][ContinuityNext]_<<continuityVars, writers, call>>

-----------------------------------------------------------------------------
(* Properties *)

\* An import is whole and for good (importer.py: "No partial writes are made"):
\* whatever ran between its plan and its transaction, and whatever ran since,
\* planning the same bundle again finds no row to insert and no collision.
ImportsStayWhole ==
    \A l \in landed :
        LET t == store[l[1]]
            b == l[2] IN
        /\ NewEvents(t, b) = {} /\ EventCollisions(t, b) = {}
        /\ DOMAIN b.docs \subseteq DOMAIN t.docs
        /\ DOMAIN b.runs \subseteq DOMAIN t.runs
        /\ DOMAIN b.cands \subseteq DOMAIN t.cands

\* the bundle holds every event its runs name: a filter, or an ingestion running
\* beside the export, makes bundles that do not
IsClosed(b) == \A r \in DOMAIN b.runs : b.runs[r] \subseteq DOMAIN b.events

\* Each site gives out event ids on its own and bundles carry ids
\* (promoted_memory_id, committed_memory_ids): at every site a promoted candidate
\* names an event with its own type, title and source, made from the candidate itself
\* unless it came with a bundle; and, as long as all imported bundles were closed,
\* the ids of an ingestion run name events with the type, title and source of the
\* file's.
IdsKeepTheirMeaning ==
    /\ \A s \in Sites : \A k \in DOMAIN store[s].cands :
         store[s].cands[k].status = "promoted" =>
             /\ store[s].cands[k].event \in DOMAIN store[s].events
             /\ LET name == store[s].events[store[s].cands[k].event].name IN
                /\ Fields[name] = Fields[k]
                /\ name = k \/ \E l \in landed : l[1] = s /\ k \in DOMAIN l[2].cands
    /\ (\A l \in landed : IsClosed(l[2])) =>
         \A s \in Sites : \A r \in DOMAIN store[s].runs : \A i \in store[s].runs[r] :
             /\ i \in DOMAIN store[s].events
             /\ Fields[store[s].events[i].name] \in {Fields[x] : x \in Texts}

=============================================================================
