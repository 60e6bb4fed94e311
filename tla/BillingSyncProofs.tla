-------------------------- MODULE BillingSyncProofs --------------------------
(***************************************************************************)
(* Theorems about BillingSync, for any syncs, tests and resources.         *)
(***************************************************************************)
EXTENDS BillingSync, TLAPS

\* The initial state is well typed.
LEMMA InitType == Init => TypeOK
BY DEF Init, TypeOK, IdleSync, SyncState, SyncPhases, Statuses, Outcomes

\* Moving a sync to another phase keeps its type, and its other fields.
LEMMA GotoType ==
    ASSUME sync \in [Syncs -> SyncState], NEW s \in Syncs, NEW phase \in SyncPhases,
           Goto(s, phase)
    PROVE  /\ sync' \in [Syncs -> SyncState]
           /\ sync'[s].phase = phase
           /\ sync'[s].got = sync[s].got /\ sync'[s].left = sync[s].left
           /\ \A i \in Syncs : i # s => sync'[i] = sync[i]
BY DEF Goto, SyncState

\* Every step keeps the types.
LEMMA NextType == TypeOK /\ [Next]_vars => TypeOK'
<1> SUFFICES ASSUME TypeOK, [Next]_vars PROVE TypeOK'
  OBVIOUS
<1> USE BillingAssumption DEF TypeOK
<1>1. CASE CreateCloudConnection \/ DeleteCloudConnection
  BY <1>1 DEF CreateCloudConnection, DeleteCloudConnection, Statuses
<1>2. ASSUME NEW s \in Syncs, GetCloudConnectionAuth(s) \/ SyncStops(s) PROVE TypeOK'
  BY <1>2, GotoType DEF GetCloudConnectionAuth, SyncStops, SyncPhases, Outcomes
<1>3. ASSUME NEW s \in Syncs, CreateSyncRun(s) PROVE TypeOK'
  BY <1>3, GotoType DEF CreateSyncRun, SyncPhases
<1>4. ASSUME NEW s \in Syncs, MarkSyncing(s) \/ SetConnected(s) \/ SetError(s) PROVE TypeOK'
  <2>1. sync' \in [Syncs -> SyncState]
    BY <1>4, GotoType DEF MarkSyncing, SetConnected, SetError, SyncPhases
  <2>2. conn' \in [state : {"absent", "live", "deleted"}, status : Statuses]
    BY <1>4 DEF MarkSyncing, SetConnected, SetError, UpdateCloudConnectionStatus, Statuses
  <2> QED BY <1>4, <2>1, <2>2 DEF MarkSyncing, SetConnected, SetError, Outcomes
<1>5. ASSUME NEW s \in Syncs, AdapterSync(s) PROVE TypeOK'
  <2>1. CASE Goto(s, "fetchFailed")
    BY <1>5, <2>1, GotoType DEF AdapterSync, SyncPhases
  <2>2. ASSUME NEW g \in SUBSET Resources,
               sync' = [sync EXCEPT ![s] = [phase |-> "resources", expired |-> FALSE,
                                            got |-> g, left |-> g]]
        PROVE  TypeOK'
    BY <1>5, <2>2 DEF AdapterSync, SyncState, SyncPhases
  <2> QED BY <1>5, <2>1, <2>2 DEF AdapterSync
<1>6. ASSUME NEW s \in Syncs, UpsertCostResources(s) PROVE TypeOK'
  <2>1. sync[s].got \in SUBSET Resources
    BY DEF SyncState
  <2>2. sync' \in [Syncs -> SyncState]
    BY <1>6, GotoType DEF UpsertCostResources, SyncPhases
  <2> QED BY <1>6, <2>1, <2>2 DEF UpsertCostResources
<1>7. ASSUME NEW s \in Syncs, NEW r \in Resources, UpsertCostUsageDaily(s, r) PROVE TypeOK'
  <2>1. CASE Goto(s, "done")
    BY <1>7, <2>1, GotoType DEF UpsertCostUsageDaily, SyncPhases, Outcomes
  <2>2. CASE sync' = [sync EXCEPT ![s].left = @ \ {r}]
    BY <1>7, <2>2 DEF UpsertCostUsageDaily, SyncState, Outcomes
  <2> QED BY <1>7, <2>1, <2>2 DEF UpsertCostUsageDaily
<1>8. ASSUME NEW s \in Syncs, FinishSyncRun(s) \/ FinishSyncRunError(s) PROVE TypeOK'
  <2>1. sync' \in [Syncs -> SyncState]
    BY <1>8, GotoType DEF FinishSyncRun, FinishSyncRunError, SyncPhases
  <2> QED BY <1>8, <2>1 DEF FinishSyncRun, FinishSyncRunError, Outcomes
<1>9. ASSUME NEW s \in Syncs, SyncExpires(s) PROVE TypeOK'
  BY <1>9 DEF SyncExpires, SyncState
<1>10. ASSUME NEW t \in Tests, LoadDecryptedConnection(t) \/ TestStep(t) PROVE TypeOK'
  BY <1>10 DEF LoadDecryptedConnection, TestStep, AdapterTestConnection,
     StoreTestResult, UpdateCloudConnectionStatus, Statuses, Outcomes
<1>11. CASE UNCHANGED vars
  BY <1>11 DEF vars
<1> QED
  BY <1>1, <1>2, <1>3, <1>4, <1>5, <1>6, <1>7, <1>8, <1>9, <1>10, <1>11
     DEF Next, SyncStep

\* The connection, its runs and what they stored keep their types.
THEOREM BillingTypeCorrect == Spec => []TypeOK
BY InitType, NextType, PTL DEF Spec

(***************************************************************************)
(* What a sync has stored, by how far it is.  The two properties are not   *)
(* inductive: they need what a sync has stored before it reports.          *)
(***************************************************************************)
Early == {"idle", "create", "mark", "fetch", "resources"}

Progress(s) ==
    /\ sync[s].left \subseteq sync[s].got
    /\ sync[s].phase \in Early => run[s] # "success"
    /\ sync[s].phase = "resources" => sync[s].left = sync[s].got
    /\ sync[s].phase \in {"usage", "connect"} => sync[s].got \subseteq stored
    /\ sync[s].phase = "usage" => sync[s].got \ sync[s].left \subseteq usage
    /\ sync[s].phase = "connect" => sync[s].got \subseteq usage
    /\ run[s] = "success" => sync[s].got \subseteq stored \cap usage

StoreInv == UsageHasResource /\ \A s \in Syncs : Progress(s)

\* A step that leaves a sync and its run alone, and only adds rows, keeps its
\* progress.
LEMMA SameProgress ==
    ASSUME NEW s \in Syncs, Progress(s), sync'[s] = sync[s], run'[s] = run[s],
           stored \subseteq stored', usage \subseteq usage'
    PROVE  Progress(s)'
BY DEF Progress

\* Every step keeps what is stored in line with the syncs' progress.
LEMMA NextStore == TypeOK /\ StoreInv /\ [Next]_vars => StoreInv'
<1> SUFFICES ASSUME TypeOK, StoreInv, [Next]_vars PROVE StoreInv'
  OBVIOUS
<1> USE BillingAssumption
<1>0. sync \in [Syncs -> SyncState] /\ run \in [Syncs -> {"none", "running", "success", "error"}]
  BY DEF TypeOK
<1>1. ASSUME UNCHANGED <<sync, run, stored, usage>> PROVE StoreInv'
  BY <1>1, SameProgress DEF StoreInv, UsageHasResource
\* A step of s: the other syncs are as they were.
<1>2. ASSUME NEW s \in Syncs, \A i \in Syncs : i # s => sync'[i] = sync[i] /\ run'[i] = run[i],
             stored \subseteq stored', usage \subseteq usage', usage' \subseteq stored',
             Progress(s)'
      PROVE  StoreInv'
  BY <1>2, SameProgress DEF StoreInv, UsageHasResource
<1>3. usage \subseteq stored
  BY DEF StoreInv, UsageHasResource
<1>4. ASSUME NEW s \in Syncs, NEW phase \in SyncPhases, Goto(s, phase),
             UNCHANGED <<stored, usage>>,
             \A i \in Syncs : i # s => run'[i] = run[i],
             \/ run'[s] = run[s] /\ phase \in {"done", "error", "fetchFailed", "storeFailed"}
             \/ run'[s] = run[s] /\ sync[s].phase \in Early /\ phase \in Early \ {"resources"}
             \/ run'[s] # "success" /\ phase \in {"mark", "error", "done"}
             \/ sync[s].phase = "usage" /\ sync[s].left = {} /\ phase = "connect"
      PROVE  StoreInv'
  <2>1. /\ sync'[s].phase = phase
        /\ sync'[s].got = sync[s].got /\ sync'[s].left = sync[s].left
        /\ \A i \in Syncs : i # s => sync'[i] = sync[i]
    BY <1>0, <1>4, GotoType
  <2>2. Progress(s)'
    BY <1>4, <2>1 DEF StoreInv, Progress, Early
  <2> QED BY <1>2, <1>3, <1>4, <2>1, <2>2
<1>5. ASSUME NEW s \in Syncs,
             GetCloudConnectionAuth(s) \/ SyncStops(s) \/ MarkSyncing(s)
             \/ SetConnected(s) \/ SetError(s)
      PROVE  StoreInv'
  BY <1>4, <1>5 DEF GetCloudConnectionAuth, SyncStops, MarkSyncing, SetConnected,
     SetError, SyncPhases, Early
<1>6. ASSUME NEW s \in Syncs, CreateSyncRun(s) PROVE StoreInv'
  BY <1>0, <1>4, <1>6 DEF CreateSyncRun, SyncPhases, Early
<1>7. ASSUME NEW s \in Syncs, AdapterSync(s) PROVE StoreInv'
  <2>1. CASE Goto(s, "fetchFailed")
    BY <1>4, <1>7, <2>1 DEF AdapterSync, SyncPhases
  <2>2. ASSUME NEW g \in SUBSET Resources,
               sync' = [sync EXCEPT ![s] = [phase |-> "resources", expired |-> FALSE,
                                            got |-> g, left |-> g]]
        PROVE  StoreInv'
    <3>1. sync'[s] = [phase |-> "resources", expired |-> FALSE, got |-> g, left |-> g]
      BY <1>0, <2>2
    <3>2. \A i \in Syncs : i # s => sync'[i] = sync[i]
      BY <1>0, <2>2
    <3>3. run[s] # "success"
      BY <1>7 DEF AdapterSync, StoreInv, Progress, Early
    <3>4. Progress(s)'
      BY <1>7, <3>1, <3>3 DEF AdapterSync, Progress, Early
    <3> QED BY <1>2, <1>3, <1>7, <3>2, <3>4 DEF AdapterSync
  <2> QED BY <1>7, <2>1, <2>2 DEF AdapterSync
<1>8. ASSUME NEW s \in Syncs, UpsertCostResources(s) PROVE StoreInv'
  <2>1. CASE Goto(s, "storeFailed") /\ UNCHANGED stored
    BY <1>4, <1>8, <2>1 DEF UpsertCostResources, SyncPhases
  <2>2. CASE Goto(s, "usage") /\ stored' = stored \cup sync[s].got
    <3>1. /\ sync'[s].phase = "usage"
          /\ sync'[s].got = sync[s].got /\ sync'[s].left = sync[s].left
          /\ \A i \in Syncs : i # s => sync'[i] = sync[i]
      BY <1>0, <2>2, GotoType DEF SyncPhases
    <3>2. run'[s] # "success" /\ run' = run /\ usage' = usage
      BY <1>8 DEF UpsertCostResources, StoreInv, Progress, Early
    <3>3. sync[s].left = sync[s].got
      BY <1>8 DEF UpsertCostResources, StoreInv, Progress
    <3>4. Progress(s)'
      BY <2>2, <3>1, <3>2, <3>3 DEF Progress, Early
    <3> QED BY <1>2, <1>3, <2>2, <3>1, <3>2, <3>4
  <2> QED BY <1>8, <2>1, <2>2 DEF UpsertCostResources
<1>9. ASSUME NEW s \in Syncs, NEW r \in Resources, UpsertCostUsageDaily(s, r) PROVE StoreInv'
  <2>1. CASE Goto(s, "done") /\ UNCHANGED usage
    BY <1>4, <1>9, <2>1 DEF UpsertCostUsageDaily, SyncPhases
  <2>2. CASE usage' = usage \cup {r} /\ sync' = [sync EXCEPT ![s].left = @ \ {r}]
    <3>1. /\ sync'[s].phase = "usage" /\ sync'[s].got = sync[s].got
          /\ sync'[s].left = sync[s].left \ {r}
          /\ \A i \in Syncs : i # s => sync'[i] = sync[i]
      BY <1>0, <1>9, <2>2 DEF UpsertCostUsageDaily, SyncState
    <3>2. /\ sync[s].phase = "usage" /\ r \in sync[s].left
          /\ run' = run /\ stored' = stored
      BY <1>9 DEF UpsertCostUsageDaily
    <3>3. r \in stored
      BY <3>2 DEF StoreInv, Progress
    <3>4. Progress(s)'
      BY <2>2, <3>1, <3>2 DEF StoreInv, Progress, Early
    <3> QED BY <1>2, <1>3, <2>2, <3>1, <3>2, <3>3, <3>4
  <2> QED BY <1>9, <2>1, <2>2 DEF UpsertCostUsageDaily
<1>10. ASSUME NEW s \in Syncs, FinishSyncRun(s) PROVE StoreInv'
  <2>1. \A i \in Syncs : i # s => run'[i] = run[i]
    BY <1>0, <1>10 DEF FinishSyncRun
  <2> QED BY <1>4, <1>10, <2>1 DEF FinishSyncRun, SyncPhases
<1>11. ASSUME NEW s \in Syncs, FinishSyncRunError(s) PROVE StoreInv'
  <2>1. /\ \A i \in Syncs : i # s => run'[i] = run[i]
        /\ run'[s] = run[s] \/ run'[s] # "success"
    BY <1>0, <1>11 DEF FinishSyncRunError
  <2>2. PICK phase \in {"error", "done"} : Goto(s, phase)
    BY <1>11 DEF FinishSyncRunError
  <2> QED BY <1>4, <1>11, <2>1, <2>2 DEF FinishSyncRunError, SyncPhases
<1>12. ASSUME NEW s \in Syncs, SyncExpires(s) PROVE StoreInv'
  <2>1. /\ sync'[s].phase = sync[s].phase
        /\ sync'[s].got = sync[s].got /\ sync'[s].left = sync[s].left
        /\ \A i \in Syncs : i # s => sync'[i] = sync[i]
    BY <1>0, <1>12 DEF SyncExpires, SyncState
  <2>2. run' = run /\ stored' = stored /\ usage' = usage
    BY <1>12 DEF SyncExpires
  <2>3. Progress(s)'
    BY <2>1, <2>2 DEF StoreInv, Progress
  <2> QED BY <1>2, <1>3, <2>1, <2>2, <2>3
<1>13. CASE \/ CreateCloudConnection \/ DeleteCloudConnection
            \/ \E t \in Tests : LoadDecryptedConnection(t) \/ TestStep(t)
            \/ UNCHANGED vars
  BY <1>1, <1>13 DEF CreateCloudConnection, DeleteCloudConnection,
     LoadDecryptedConnection, TestStep, AdapterTestConnection, StoreTestResult, vars
<1> QED
  BY <1>5, <1>6, <1>7, <1>8, <1>9, <1>10, <1>11, <1>12, <1>13 DEF Next, SyncStep

\* StoreInv holds of every behaviour.
LEMMA StoreInvariant == Spec => []StoreInv
<1>1. Init => StoreInv
  BY DEF Init, StoreInv, UsageHasResource, Progress, IdleSync, Early
<1> QED BY <1>1, InitType, NextType, NextStore, PTL DEF Spec

\* A run reported as a success has stored all that the provider returned, for
\* any number of overlapping syncs, time-outs and failures.
THEOREM SuccessIsComplete == Spec => []SuccessMeansStored
<1>1. StoreInv => SuccessMeansStored
  BY DEF StoreInv, Progress, SuccessMeansStored
<1> QED BY <1>1, StoreInvariant, PTL

\* No sync stores usage of a resource that is not stored.
THEOREM UsageIsOfResources == Spec => []UsageHasResource
<1>1. StoreInv => UsageHasResource
  BY DEF StoreInv
<1> QED BY <1>1, StoreInvariant, PTL

(***************************************************************************)
(* The status.  While some sync that has marked the connection is under    *)
(* way the status may be anybody's; StatusInv says that otherwise it is    *)
(* that of the last one to end.                                            *)
(***************************************************************************)
Marked == {"fetch", "resources", "usage", "connect", "fetchFailed", "storeFailed", "error"}

Told == conn.status = IF last = "none" THEN "pending" ELSE last

\* Nothing works on a connection that does not exist yet.
NothingBefore ==
    conn.state = "absent" =>
        /\ conn.status = "pending"
        /\ \A s \in Syncs : sync[s].phase = "idle"
        /\ \A t \in Tests : test[t] = "idle"

StatusInv ==
    /\ NothingBefore
    /\ last = "lost" \/ Told \/ \E s \in Syncs : sync[s].phase \in Marked

\* Every step keeps StatusInv.
LEMMA NextStatus == TypeOK /\ StatusInv /\ [Next]_vars => StatusInv'
<1> SUFFICES ASSUME TypeOK, StatusInv, [Next]_vars PROVE StatusInv'
  OBVIOUS
<1>0. /\ sync \in [Syncs -> SyncState]
      /\ test \in [Tests -> {"idle", "ask", "connected", "error", "done"}]
      /\ conn \in [state : {"absent", "live", "deleted"}, status : Statuses]
  BY DEF TypeOK
\* A step that leaves status and history alone, and no sync out of Marked.
<1>1. ASSUME UNCHANGED last, conn'.status = conn.status, NothingBefore',
             \A s \in Syncs : sync[s].phase \in Marked => sync'[s].phase \in Marked
      PROVE  StatusInv'
  BY <1>1 DEF StatusInv, Told
\* Whoever works on the connection works on one that exists.
<1>2. ASSUME NEW s \in Syncs, sync[s].phase # "idle", conn'.state = conn.state
      PROVE  NothingBefore'
  BY <1>2 DEF StatusInv, NothingBefore
<1>3. ASSUME NEW t \in Tests, test[t] # "idle", conn'.state = conn.state
      PROVE  NothingBefore'
  BY <1>3 DEF StatusInv, NothingBefore
<1>4. CASE CreateCloudConnection
  <2>1. conn' = [state |-> "live", status |-> "pending"] /\ conn.status = "pending"
        /\ sync' = sync /\ last' = last
    BY <1>4 DEF CreateCloudConnection, StatusInv, NothingBefore
  <2>2. NothingBefore'
    BY <2>1 DEF NothingBefore
  <2> QED BY <1>1, <2>1, <2>2
<1>5. CASE DeleteCloudConnection
  <2>1. conn'.state = "deleted" /\ conn'.status = conn.status
        /\ sync' = sync /\ last' = last
    BY <1>0, <1>5 DEF DeleteCloudConnection
  <2>2. NothingBefore'
    BY <2>1 DEF NothingBefore
  <2> QED BY <1>1, <2>1, <2>2
<1>6. ASSUME NEW s \in Syncs, GetCloudConnectionAuth(s) PROVE StatusInv'
  <2>1. /\ sync[s].phase = "idle" /\ sync'[s].phase = "create"
        /\ \A i \in Syncs : i # s => sync'[i] = sync[i]
    BY <1>0, <1>6, GotoType DEF GetCloudConnectionAuth, SyncPhases
  <2>2. conn' = conn /\ last' = last /\ conn.state = "live"
    BY <1>6 DEF GetCloudConnectionAuth
  <2>3. NothingBefore'
    BY <2>2 DEF NothingBefore
  <2> QED BY <1>1, <2>1, <2>2, <2>3 DEF Marked
\* A step of s that goes on to phase.
<1>7. ASSUME NEW s \in Syncs, NEW phase \in SyncPhases, Goto(s, phase),
             sync[s].phase # "idle", UNCHANGED <<conn, last>>,
             sync[s].phase \in Marked => phase \in Marked
      PROVE  StatusInv'
  <2>1. sync'[s].phase = phase /\ \A i \in Syncs : i # s => sync'[i] = sync[i]
    BY <1>0, <1>7, GotoType
  <2> QED BY <1>1, <1>2, <1>7, <2>1
<1>8. ASSUME NEW s \in Syncs, CreateSyncRun(s) PROVE StatusInv'
  BY <1>7, <1>8 DEF CreateSyncRun, SyncPhases, Marked
<1>9. ASSUME NEW s \in Syncs, MarkSyncing(s) PROVE StatusInv'
  <2>1. sync[s].phase = "mark" /\ sync'[s].phase = "fetch"
    BY <1>0, <1>9, GotoType DEF MarkSyncing, SyncPhases
  <2>2. conn'.state = conn.state
    BY <1>0, <1>9 DEF MarkSyncing, UpdateCloudConnectionStatus
  <2> QED BY <1>2, <2>1, <2>2 DEF StatusInv, Marked
<1>10. ASSUME NEW s \in Syncs, AdapterSync(s) PROVE StatusInv'
  <2>1. CASE Goto(s, "fetchFailed")
    BY <1>7, <1>10, <2>1 DEF AdapterSync, SyncPhases, Marked
  <2>2. ASSUME NEW g \in SUBSET Resources,
               sync' = [sync EXCEPT ![s] = [phase |-> "resources", expired |-> FALSE,
                                            got |-> g, left |-> g]]
        PROVE  StatusInv'
    <3>1. sync'[s].phase = "resources"
      BY <1>0, <2>2
    <3>2. NothingBefore'
      BY <1>2, <1>10 DEF AdapterSync
    <3> QED BY <3>1, <3>2 DEF StatusInv, Marked
  <2> QED BY <1>10, <2>1, <2>2 DEF AdapterSync
<1>11. ASSUME NEW s \in Syncs, UpsertCostResources(s) \/ FinishSyncRun(s) PROVE StatusInv'
  BY <1>7, <1>11 DEF UpsertCostResources, FinishSyncRun, SyncPhases, Marked
<1>12. ASSUME NEW s \in Syncs, sync[s].phase # "idle", conn'.state = conn.state,
              last' = "lost" \/ Told'
       PROVE  StatusInv'
  BY <1>2, <1>12 DEF StatusInv
<1>13. ASSUME NEW s \in Syncs, SetConnected(s) \/ SetError(s) PROVE StatusInv'
  <2>1. sync[s].phase # "idle"
    BY <1>13 DEF SetConnected, SetError
  <2>2. conn'.state = conn.state /\ (last' = "lost" \/ Told')
    BY <1>0, <1>13 DEF SetConnected, SetError, UpdateCloudConnectionStatus, Told
  <2> QED BY <1>12, <2>1, <2>2
<1>14. ASSUME NEW s \in Syncs, SyncStops(s) PROVE StatusInv'
  BY <1>12, <1>14 DEF SyncStops, Running
<1>15. ASSUME NEW s \in Syncs, FinishSyncRunError(s) PROVE StatusInv'
  BY <1>7, <1>12, <1>15 DEF FinishSyncRunError, SyncPhases, Marked
<1>16. ASSUME NEW s \in Syncs, NEW r \in Resources, UpsertCostUsageDaily(s, r)
       PROVE  StatusInv'
  <2>1. CASE last' = "lost"
    BY <1>12, <1>16, <2>1 DEF UpsertCostUsageDaily
  <2>2. CASE sync' = [sync EXCEPT ![s].left = @ \ {r}]
    <3>1. sync'[s].phase = "usage"
      BY <1>0, <1>16, <2>2 DEF UpsertCostUsageDaily, SyncState
    <3>2. NothingBefore'
      BY <1>2, <1>16 DEF UpsertCostUsageDaily
    <3> QED BY <3>1, <3>2 DEF StatusInv, Marked
  <2> QED BY <1>16, <2>1, <2>2 DEF UpsertCostUsageDaily
<1>17. ASSUME NEW s \in Syncs, SyncExpires(s) PROVE StatusInv'
  <2>1. /\ sync[s].phase # "idle" /\ conn' = conn /\ last' = last
        /\ \A i \in Syncs : sync'[i].phase = sync[i].phase
    BY <1>0, <1>17 DEF SyncExpires, Running, SyncState
  <2> QED BY <1>1, <1>2, <2>1
<1>18. ASSUME NEW t \in Tests, LoadDecryptedConnection(t) PROVE StatusInv'
  <2>1. conn' = conn /\ last' = last /\ sync' = sync /\ conn.state = "live"
    BY <1>18 DEF LoadDecryptedConnection
  <2>2. NothingBefore'
    BY <2>1 DEF NothingBefore
  <2> QED BY <1>1, <2>1, <2>2
<1>19. ASSUME NEW t \in Tests, AdapterTestConnection(t) PROVE StatusInv'
  <2>1. conn' = conn /\ last' = last /\ sync' = sync /\ test[t] # "idle"
    BY <1>19 DEF AdapterTestConnection
  <2> QED BY <1>1, <1>3, <2>1
<1>20. ASSUME NEW t \in Tests, StoreTestResult(t) PROVE StatusInv'
  <2>1. conn'.state = conn.state /\ test[t] # "idle" /\ (last' = "lost" \/ Told')
    BY <1>0, <1>20 DEF StoreTestResult, UpdateCloudConnectionStatus, Told
  <2> QED BY <1>3, <2>1 DEF StatusInv
<1>21. CASE UNCHANGED vars
  BY <1>21 DEF vars, StatusInv, NothingBefore, Told
<1> QED
  BY <1>4, <1>5, <1>6, <1>8, <1>9, <1>10, <1>11, <1>13, <1>14, <1>15, <1>16, <1>17,
     <1>18, <1>19, <1>20, <1>21 DEF Next, SyncStep, TestStep

\* When nothing is under way the status tells how the last sync or test to end
\* went, if that one stored its status, however they overlapped before.
THEOREM StatusIsOfLast == Spec => []StatusTellsLast
<1>1. Init => StatusInv
  BY DEF Init, StatusInv, NothingBefore, Told, IdleSync
<1>2. StatusInv => StatusTellsLast
  BY DEF StatusInv, StatusTellsLast, Told, Quiet, Running, Marked
<1> QED BY <1>1, <1>2, InitType, NextType, NextStatus, PTL DEF Spec
==============================================================================
