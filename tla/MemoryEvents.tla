---------------------------- MODULE MemoryEvents ----------------------------
(***************************************************************************)
(* memory/service.py: the memory_events table and the append-only          *)
(* memory_revisions table.  The operators are the write transactions of    *)
(* the service; the modules that extend this one say who runs them and     *)
(* what was read before.                                                   *)
(***************************************************************************)
EXTENDS Naturals, Sequences, FiniteSets

VARIABLES
    memory,    \* memory_events: row i is event i (AUTOINCREMENT ids)
    revisions  \* memory_revisions in id order

\* VALID_STATUSES
MemoryStatus == {"proposed", "accepted", "rejected", "superseded",
                 "active", "archived", "unresolved", "deprecated"}

MemoryId == DOMAIN memory

\* add_memory_event: one INSERT; `origin' stands for the columns that never change
AddMemoryEvent(origin, status) ==
    /\ memory' = Append(memory, [origin |-> origin, status |-> status, version |-> 1])
    /\ UNCHANGED revisions

\* mutant: the revision row is left out when the status does not change
WriteStatusIfChanged(m, old, version, new) ==
    /\ memory' = [memory EXCEPT ![m].status = new, ![m].version = version + 1]
    /\ revisions' = IF old = new THEN revisions
                    ELSE Append(revisions, [memory |-> m, old |-> old, new |-> new,
                                            version |-> version + 1])

\* the transaction of update_status, with the status and version read before it
WriteStatus(m, old, version, new) ==
    /\ memory' = [memory EXCEPT ![m].status = new, ![m].version = version + 1]
    /\ revisions' = Append(revisions, [memory |-> m, old |-> old, new |-> new,
                                       version |-> version + 1])

RevisionsOf(m) == {i \in DOMAIN revisions : revisions[i].memory = m}

\* the status the revisions give an event that was created with status `first'
ReplayedStatus(m, first) ==
    IF RevisionsOf(m) = {} THEN first
    ELSE revisions[CHOOSE i \in RevisionsOf(m) : \A j \in RevisionsOf(m) : j <= i].new

=============================================================================
