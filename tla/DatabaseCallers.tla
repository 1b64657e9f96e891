--------------------------- MODULE DatabaseCallers --------------------------
(***************************************************************************)
(* The processes that share one SQLite file: shells, CLI calls and tools.  *)
(* A service call reads over its connections before its transaction begins *)
(* (SQLite opens one at the first write), so a call that reads and then    *)
(* writes is two steps; `call' holds what it read.                         *)
(***************************************************************************)
EXTENDS Naturals, Sequences, FiniteSets, TLC

CONSTANT Callers      \* processes that use the database

VARIABLES
    writers,  \* the callers this deployment runs; never changes
    call      \* per caller: position inside the running call and its locals

SingleWriter == \A c, d \in writers : c = d

\* bounds are smaller when several writers race
Bound(single, racing) == IF SingleWriter THEN single ELSE racing

Idle == [at |-> "idle"]

CallersInit ==
    /\ writers \in (SUBSET Callers) \ {{}}
    /\ call = [c \in Callers |-> Idle]

Begin(c, locals) == call[c] = Idle /\ call' = [call EXCEPT ![c] = locals]
Resume(c, at) == call[c].at = at
Continue(c, locals) == call' = [call EXCEPT ![c] = locals]
Return(c) == call' = [call EXCEPT ![c] = Idle]

\* the process dies inside a call; an open transaction is rolled back
Die(c) == call[c] # Idle /\ Return(c)

\* the largest of a set of row ids: ORDER BY id DESC LIMIT 1
LastOf(ids) == CHOOSE i \in ids : \A j \in ids : j <= i

=============================================================================
