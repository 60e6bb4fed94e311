----------------------------- MODULE Workspace -----------------------------
(***************************************************************************)
(* A service's data and tests together: one server, one connection pool,   *)
(* requests of both kinds.  A behaviour draws its requests from one        *)
(* workload, a set of operations, and starts with rows of the tables that  *)
(* these operations touch; this keeps apart what cannot interact.          *)
(***************************************************************************)
EXTENDS ServiceData, ServiceTests

CONSTANT
    Workloads   \* sets of operations; bound: a behaviour keeps to one of them

VARIABLE workload

vars == <<proc, clean, dataVars, testVars, workload>>

Uses(ops) == workload \cap ops # {}

\* Tables that the workload does not use are empty.
Seeded ==
    /\ ~Uses(DbOps \cup QueryOps) => dbs[Old] = Absent
    /\ ~Uses(QueryOps) => queries[Old] = NoQuery
    /\ Uses(LinkOps) \/ contents["doc"][Old] = "absent"
    /\ Uses(TestOps) \/ packs[OldTest] = "absent"

Init ==
    /\ workload \in Workloads
    /\ ReqsInit
    /\ DataInit
    /\ TestsInit
    /\ Seeded

Next ==
    \E q \in Requests :
        \/ /\ (\E op \in workload \cap DataOps : DataStart(q, op)) \/ DataStep(q)
           /\ UNCHANGED <<testVars, workload>>
        \/ /\ (\E op \in workload \cap TestOps : TestStart(q, op)) \/ TestStep(q)
           /\ UNCHANGED <<dataVars, workload>>

Spec == Init /\ [][Next]_vars

(***************************************************************************)
(* Properties.                                                             *)
(***************************************************************************)
\* Rows, requests and what the requests hold have the types of the database
\* columns and of the handlers' variables.
TypeOK ==
    /\ ReqsType(DataOps \cup TestOps, DataCalls \cup TestCalls, DataMemory \cup TestMemory)
    /\ DataTypeOK
    /\ TestsTypeOK

\* What a CI job or a test runner reports again, at once or after a failure,
\* counts once: one live query per reference, one result per case of a run.
ReportedOnce == SyncedOnce /\ SummaryWithinCases

\* A request that is cut short anywhere neither lists what is not stored nor
\* keeps a connection of the pool.
CutShortIsSafe == LinkedIsStored /\ HeldByStats

\* A request of several statements that runs alone does exactly what it is for:
\* a restore keeps what it replaces, a folder goes when it is empty, a case
\* comes into a pack that is there, an update of a run changes what it gives.
AloneIsExact ==
    RestoreKeepsReplaced /\ FolderEmptiedFirst /\ CreatedInLivePack /\ RunUpdateExact
=============================================================================
