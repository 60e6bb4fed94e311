------------------------------ MODULE Content ------------------------------
(***************************************************************************)
(* Maps, notes and ML Studio over one database and one object store.  A    *)
(* behaviour draws its requests from one workload, a set of operations,    *)
(* and the tables that the workload reads start with a row each.           *)
(***************************************************************************)
EXTENDS Maps, Notes, MlStudio

CONSTANT
    Workloads   \* [ops, tables]: operations, and the tables with a row; bound: one per behaviour

VARIABLE workload

vars == <<proc, clean, rowVars, noteVars, deployments, failedOpen, workload>>

Tables == MapTables \cup NoteTables \cup MlTables
ContentOps == MapOps \cup NoteOps \cup MlOps
Verbs == {"insert", "get", "getManual", "ensure", "ensureIf", "save", "remove"}
         \cup MapVerbs \cup NoteVerbs \cup MlVerbs

ASSUME ContentAssumption == \A w \in Workloads : w.tables \subseteq Tables

SyncedTables == {MlSyncs[op].table : op \in DOMAIN MlSyncs}

\* The rows of ML Studio may all come from MLflow or all be made by hand; a
\* project has a name in any case, an artifact of MLflow no stored file.
Init ==
    /\ workload \in Workloads
    /\ ReqsInit
    /\ \E r \in IF workload.tables \cap (SyncedTables \ {"project"}) = {} THEN {Null} ELSE Refs \cup {Null} :
         rows = [k \in workload.tables \X {Seed} |->
                    [SeedRow(IF k[1] = "project" THEN CHOOSE x \in Refs : TRUE
                             ELSE IF k[1] \in SyncedTables THEN r ELSE Null)
                     EXCEPT !.parent = IF k[1] \in MlTables \ {"project"} THEN Seed ELSE Null,
                            !.file = IF (k[1] = "doc" \/ (k[1] = "artifact" /\ r = Null))
                                     THEN Seed ELSE Null]]
    /\ files = [k \in {x \in DOMAIN rows : rows[x].file = Seed} |-> Seed]
    /\ deployments = [i \in RowIds |-> <<>>]
    /\ messages = [i \in RowIds |-> <<>>]
    /\ comps = [i \in {} |-> Null]
    /\ fields = [i \in RowIds |-> Null]
    /\ agents = [i \in RowIds |-> IF i = Seed /\ "finish" \in workload.ops THEN "running" ELSE Null]
    /\ agentSteps = {}
    /\ failedOpen = FALSE

Starts(q) ==
    \E op \in workload.ops :
        \/ op \in MapOps /\ MapStart(q, op) /\ UNCHANGED <<noteVars, deployments>>
        \/ op \in NoteOps /\ NoteStart(q, op) /\ UNCHANGED <<deployments, failedOpen>>
        \/ op \in MlOps /\ MlStart(q, op) /\ UNCHANGED <<noteVars, failedOpen>>

Next ==
    \E q \in Requests :
        /\ \/ Starts(q)
           \/ MapStep(q) /\ UNCHANGED <<noteVars, deployments>>
           \/ NoteStep(q) /\ UNCHANGED <<deployments, failedOpen>>
           \/ MlStep(q) /\ UNCHANGED <<noteVars, failedOpen>>
           \/ Aborts(q) /\ UNCHANGED <<rowVars, noteVars, deployments, failedOpen>>
        /\ UNCHANGED workload

Spec == Init /\ [][Next]_vars

(***************************************************************************)
(* Properties.                                                             *)
(***************************************************************************)
\* Rows, files, requests and what the requests hold have the types of the
\* database columns and of the handlers' variables.
TypeOK ==
    /\ ReqsType(ContentOps, Verbs \X (Tables \cup {"component", "agent"}),
                RowMemory \cup DeployMemory \cup NumberMemory)
    /\ RowsTypeOK(Tables)
    /\ NotesTypeOK
    /\ failedOpen \in BOOLEAN
    /\ deployments \in [RowIds -> Seq([from : Statuses, to : Statuses])]

\* What is looked up in one statement and relied on in another still holds:
\* references of CI and of MLflow, slugs and the numbers of steps stay unique,
\* and the limit of maps is passed by what is under way at once and no more.
CheckedStillHolds ==
    /\ OneEventPerRef /\ SlugsDiffer /\ StepsNumbered /\ OneRowPerRef
    /\ MapLimitOvershoot

\* Whatever fails or overlaps, a row that names a file has one: of a frame, of
\* an artifact.
FilesStored == FrameObjectStored /\ ArtifactFileStored

\* When requests that came one after the other are over, what they wrote in
\* several places agrees: frames and documents with their files, sessions with
\* their messages, components with their fields, models with their versions and
\* a version's updates with one another.
QuietIsWhole ==
    /\ ScreenshotMatchesHash /\ DocFileStored
    /\ ChatShowsLatest /\ ComponentWhole
    /\ ModelHasVersion /\ DeploymentLogChained

\* What has ended is not changed by what comes late: deleted rows, and agent
\* sessions that were finished.
EndedIsFinal == DeletedIsFrozen /\ FinishedForGood

\* A request changes what it is about and nothing else: an update the fields it
\* gives, a sync what came from MLflow, and what is made is made under a row
\* that is there.
WritesExact == UpdateExact /\ SyncAndHandApart /\ MadeUnderLiveParent
=============================================================================
