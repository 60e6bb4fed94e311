----------------------------- MODULE BillingSync -----------------------------
(***************************************************************************)
(* One cloud billing connection: its row, the syncs that the "sync now"    *)
(* endpoint and the scheduled workers run for it, the connection test, and *)
(* the resources and daily costs the syncs store.                          *)
(*                                                                         *)
(* RunSync is one call on the store or on the provider per step.  Nothing  *)
(* keeps two syncs of a connection apart.                                  *)
(***************************************************************************)
EXTENDS Integers, FiniteSets

CONSTANTS
    Syncs,      \* calls of RunSync, manual or scheduled; bound: each happens once
    Tests,      \* calls of TestConnection; bound: each happens once
    Resources,  \* what the provider may report; each has usage of one day
    InFlight,   \* bound: syncs and tests under way at once
    MayExpire,  \* whether DefaultSyncTimeout may pass, or a shutdown cancel a sync
    MayFail     \* whether calls on the store may fail and processes may stop

ASSUME BillingAssumption ==
    /\ Syncs \cap Tests = {}
    /\ InFlight \in Nat
    /\ MayExpire \in BOOLEAN
    /\ MayFail \in BOOLEAN

VARIABLES
    conn,    \* the row of cloud_connections
    run,     \* the row of cost_sync_runs of each sync
    stored,  \* resources with a row in cost_resources
    usage,   \* resources with a row in cost_usage_daily
    sync,    \* where each sync is
    test,    \* where each connection test is
    last     \* history: the status that the sync or test that ended last has
             \* stored, "lost" when it could not or did not store any

vars == <<conn, run, stored, usage, sync, test, last>>

Statuses == {"pending", "connected", "syncing", "error"}
SyncPhases == {"idle", "create", "mark", "fetch", "resources", "usage",
               "connect", "fetchFailed", "storeFailed", "error", "done"}
SyncState == [phase : SyncPhases, expired : BOOLEAN, got : SUBSET Resources,
              left : SUBSET Resources]
Outcomes == {"none", "connected", "error", "lost"}

IdleSync == [phase |-> "idle", expired |-> FALSE, got |-> {}, left |-> {}]

Init ==
    /\ conn = [state |-> "absent", status |-> "pending"]
    /\ run = [s \in Syncs |-> "none"]
    /\ stored = {}
    /\ usage = {}
    /\ sync = [s \in Syncs |-> IdleSync]
    /\ test = [t \in Tests |-> "idle"]
    /\ last = "none"

Running(s) == sync[s].phase \notin {"idle", "done"}
Testing(t) == test[t] \notin {"idle", "done"}
Quiet == (\A s \in Syncs : ~Running(s)) /\ (\A t \in Tests : ~Testing(t))
Room == Cardinality({s \in Syncs : Running(s)} \cup {t \in Tests : Testing(t)}) < InFlight

\* What a call with the sync's context can return: with an expired context it
\* fails before it reaches the database.
Replies(s) == (IF sync[s].expired THEN {} ELSE {TRUE})
              \cup (IF sync[s].expired \/ MayFail THEN {FALSE} ELSE {})

Goto(s, phase) == sync' = [sync EXCEPT ![s].phase = phase]

\* Mutant: the column is given a run's status.
UpdateWithRunStatus(ok, status) ==
    conn' = IF ok THEN [conn EXCEPT !.status = IF status = "connected" THEN "success"
                                               ELSE status]
            ELSE conn

\* UpdateCloudConnectionStatus does not look at deleted_at.
UpdateCloudConnectionStatus(ok, status) ==
    conn' = IF ok THEN [conn EXCEPT !.status = status] ELSE conn

(***************************************************************************)
(* The connection.                                                         *)
(***************************************************************************)
CreateCloudConnection ==
    /\ conn.state = "absent"
    /\ conn' = [state |-> "live", status |-> "pending"]
    /\ UNCHANGED <<run, stored, usage, sync, test, last>>

DeleteCloudConnection ==
    /\ conn.state = "live"
    /\ conn' = [conn EXCEPT !.state = "deleted"]
    /\ UNCHANGED <<run, stored, usage, sync, test, last>>

(***************************************************************************)
(* RunSync, after TriggerSync or syncOne has read the connection.          *)
(***************************************************************************)
GetCloudConnectionAuth(s) ==
    /\ sync[s].phase = "idle" /\ Room
    /\ conn.state = "live"
    /\ Goto(s, "create")
    /\ UNCHANGED <<conn, run, stored, usage, test, last>>

\* Decryption or the insert may fail, and RunSync then returns.
CreateSyncRun(s) ==
    /\ sync[s].phase = "create"
    /\ \E ok \in Replies(s) :
          /\ run' = IF ok THEN [run EXCEPT ![s] = "running"] ELSE run
          /\ Goto(s, IF ok THEN "mark" ELSE "done")
    /\ UNCHANGED <<conn, stored, usage, test, last>>

MarkSyncing(s) ==
    /\ sync[s].phase = "mark"
    /\ \E ok \in Replies(s) : UpdateCloudConnectionStatus(ok, "syncing")
    /\ Goto(s, "fetch")
    /\ UNCHANGED <<run, stored, usage, test, last>>

\* The provider answers with what it has, or the call fails; it always fails
\* once the context has expired.
AdapterSync(s) ==
    /\ sync[s].phase = "fetch"
    /\ \/ /\ ~sync[s].expired
          /\ \E g \in SUBSET Resources :
                sync' = [sync EXCEPT ![s] = [phase |-> "resources", expired |-> FALSE,
                                             got |-> g, left |-> g]]
       \/ Goto(s, "fetchFailed")
    /\ UNCHANGED <<conn, run, stored, usage, test, last>>

\* Mutant: an error of the upsert is ignored.
UpsertIgnoringErrors(s) ==
    /\ sync[s].phase = "resources"
    /\ \E ok \in Replies(s) : stored' = IF ok THEN stored \cup sync[s].got ELSE stored
    /\ Goto(s, "usage")
    /\ UNCHANGED <<conn, run, usage, test, last>>

\* One transaction.
UpsertCostResources(s) ==
    /\ sync[s].phase = "resources"
    /\ \E ok \in Replies(s) :
          /\ stored' = IF ok THEN stored \cup sync[s].got ELSE stored
          /\ Goto(s, IF ok THEN "usage" ELSE "storeFailed")
    /\ UNCHANGED <<conn, run, usage, test, last>>

\* One statement per day of usage; the first that fails ends the sync.
UpsertCostUsageDaily(s, r) ==
    /\ sync[s].phase = "usage" /\ r \in sync[s].left
    /\ \/ /\ TRUE \in Replies(s)
          /\ usage' = usage \cup {r}
          /\ sync' = [sync EXCEPT ![s].left = @ \ {r}]
          /\ UNCHANGED last
       \/ /\ FALSE \in Replies(s)
          /\ UNCHANGED usage
          /\ Goto(s, "done")
          /\ last' = "lost"
    /\ UNCHANGED <<conn, run, stored, test>>

\* Mutant: the run is reported when the resources are stored.
FinishBeforeUsage(s) ==
    /\ sync[s].phase = "usage"
    /\ \E ok \in Replies(s) : run' = IF ok THEN [run EXCEPT ![s] = "success"] ELSE run
    /\ Goto(s, "connect")
    /\ UNCHANGED <<conn, stored, usage, test, last>>

FinishSyncRun(s) ==
    /\ sync[s].phase = "usage" /\ sync[s].left = {}
    /\ \E ok \in Replies(s) : run' = IF ok THEN [run EXCEPT ![s] = "success"] ELSE run
    /\ Goto(s, "connect")
    /\ UNCHANGED <<conn, stored, usage, test, last>>

SetConnected(s) ==
    /\ sync[s].phase = "connect"
    /\ \E ok \in Replies(s) :
          /\ UpdateCloudConnectionStatus(ok, "connected")
          /\ last' = IF ok THEN "connected" ELSE "lost"
    /\ Goto(s, "done")
    /\ UNCHANGED <<run, stored, usage, test>>

\* Mutant: every failure ends the way a failed upsert does.
FinishWithoutStatus(s) ==
    /\ sync[s].phase \in {"fetchFailed", "storeFailed"}
    /\ \E ok \in Replies(s) : run' = IF ok THEN [run EXCEPT ![s] = "error"] ELSE run
    /\ Goto(s, "done")
    /\ last' = IF sync[s].phase = "fetchFailed" THEN "error" ELSE "lost"
    /\ UNCHANGED <<conn, stored, usage, test>>

\* After a failed fetch the status follows; after a failed upsert RunSync
\* returns.
FinishSyncRunError(s) ==
    /\ sync[s].phase \in {"fetchFailed", "storeFailed"}
    /\ \E ok \in Replies(s) : run' = IF ok THEN [run EXCEPT ![s] = "error"] ELSE run
    /\ IF sync[s].phase = "fetchFailed"
       THEN Goto(s, "error") /\ UNCHANGED last
       ELSE Goto(s, "done") /\ last' = "lost"
    /\ UNCHANGED <<conn, stored, usage, test>>

SetError(s) ==
    /\ sync[s].phase = "error"
    /\ \E ok \in Replies(s) :
          /\ UpdateCloudConnectionStatus(ok, "error")
          /\ last' = IF ok THEN "error" ELSE "lost"
    /\ Goto(s, "done")
    /\ UNCHANGED <<run, stored, usage, test>>

\* DefaultSyncTimeout passes, or the worker's context is cancelled.
SyncExpires(s) ==
    /\ MayExpire /\ Running(s) /\ ~sync[s].expired
    /\ sync' = [sync EXCEPT ![s].expired = TRUE]
    /\ UNCHANGED <<conn, run, stored, usage, test, last>>

\* The process stops.
SyncStops(s) ==
    /\ MayFail /\ Running(s)
    /\ Goto(s, "done")
    /\ last' = "lost"
    /\ UNCHANGED <<conn, run, stored, usage, test>>

(***************************************************************************)
(* TestConnection: read the connection, ask the provider, store the answer. *)
(***************************************************************************)
LoadDecryptedConnection(t) ==
    /\ test[t] = "idle" /\ Room
    /\ conn.state = "live"
    /\ test' = [test EXCEPT ![t] = "ask"]
    /\ UNCHANGED <<conn, run, stored, usage, sync, last>>

AdapterTestConnection(t) ==
    /\ test[t] = "ask"
    /\ \E answer \in {"connected", "error"} : test' = [test EXCEPT ![t] = answer]
    /\ UNCHANGED <<conn, run, stored, usage, sync, last>>

StoreTestResult(t) ==
    /\ test[t] \in {"connected", "error"}
    /\ \E ok \in {TRUE} \cup (IF MayFail THEN {FALSE} ELSE {}) :
          /\ UpdateCloudConnectionStatus(ok, test[t])
          /\ last' = IF ok THEN test[t] ELSE "lost"
    /\ test' = [test EXCEPT ![t] = "done"]
    /\ UNCHANGED <<run, stored, usage, sync>>

(***************************************************************************)
(* The system.                                                             *)
(***************************************************************************)
SyncStep(s) ==
    \/ CreateSyncRun(s) \/ MarkSyncing(s) \/ AdapterSync(s)
    \/ UpsertCostResources(s) \/ (\E r \in Resources : UpsertCostUsageDaily(s, r))
    \/ FinishSyncRun(s) \/ SetConnected(s) \/ FinishSyncRunError(s) \/ SetError(s)

TestStep(t) == AdapterTestConnection(t) \/ StoreTestResult(t)

Next ==
    \/ CreateCloudConnection
    \/ DeleteCloudConnection
    \/ \E s \in Syncs : GetCloudConnectionAuth(s) \/ SyncStep(s) \/ SyncExpires(s) \/ SyncStops(s)
    \/ \E t \in Tests : LoadDecryptedConnection(t) \/ TestStep(t)

Spec == Init /\ [][Next]_vars

(***************************************************************************)
(* Properties.                                                             *)
(***************************************************************************)
\* The rows have the types of their columns, and the syncs those of RunSync's
\* variables.
TypeOK ==
    /\ conn \in [state : {"absent", "live", "deleted"}, status : Statuses]
    /\ run \in [Syncs -> {"none", "running", "success", "error"}]
    /\ stored \in SUBSET Resources
    /\ usage \in SUBSET Resources
    /\ sync \in [Syncs -> SyncState]
    /\ test \in [Tests -> {"idle", "ask", "connected", "error", "done"}]
    /\ last \in Outcomes

\* A run that is reported as a success has stored every resource the provider
\* returned and all their usage, whatever other syncs, time-outs and failures
\* do meanwhile.
SuccessMeansStored ==
    \A s \in Syncs : run[s] = "success" => sync[s].got \subseteq stored \cap usage

\* A usage row's resource is stored (the foreign key of cost_usage_daily): no
\* sync reaches its usage before its resources are committed.
UsageHasResource == usage \subseteq stored

\* docs/costs-billing.md: "connected (last sync succeeded) or error (last sync
\* failed ...)".  However syncs and tests overlap, once none is under way the
\* status tells how the last one to end went, unless that one was cut short or
\* ended without storing its status.
StatusTellsLast ==
    Quiet /\ conn.state # "absent" /\ last # "lost" =>
        conn.status = IF last = "none" THEN "pending" ELSE last

==============================================================================
