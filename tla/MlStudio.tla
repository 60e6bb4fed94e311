------------------------------ MODULE MlStudio ------------------------------
(***************************************************************************)
(* ML Studio: projects, models with versions, experiments with runs,       *)
(* datasets, artifacts and evaluations, deployments and findings.  They    *)
(* are made by hand or synced from MLflow, and by hand only what was made  *)
(* by hand is changed.  A row's parent is the project of a model or of an  *)
(* experiment, the model of a version, of a deployment or of a finding,    *)
(* the run of an artifact, else the experiment; its link is the run of a   *)
(* version, or the version an evaluation, a deployment or a finding is     *)
(* about.  The ref of a project is its name, which it always has.          *)
(*                                                                         *)
(* A body that names a version, runs or evaluations names rows of one id.  *)
(***************************************************************************)
EXTENDS Rows

VARIABLE deployments    \* the deployment updates of each version, in order

MlTables == {"project", "model", "version", "experiment", "run", "dataset", "artifact",
             "evaluation", "deployment", "finding"}
Statuses == {"candidate", "staging", "production", "retired"}
DeployMemory == [id : RowIds, from : Statuses \cup {Null}, to : Statuses]

CreateProjectSteps == <<<<"createProject", "project">>>>
UpdateProjectSteps == <<<<"get", "project">>, <<"saveProject", "project">>>>
DeleteProjectSteps == <<<<"get", "project">>, <<"remove", "project">>>>
RestoreProjectsSteps == <<<<"restore", "project">>>>

\* Mutant: the model gets no version.
CreateModelAlone == <<<<"ensure", "project">>, <<"insert", "model">>>>

CreateModelSteps == <<<<"ensure", "project">>, <<"insert", "model">>, <<"firstVersion", "model">>>>

\* UpdateModel writes the model card, of a synced model too.
UpdateModelSteps == <<<<"get", "model">>, <<"saveCard", "model">>>>
UpdateModelInfoSteps == <<<<"getManual", "model">>, <<"save", "model">>>>
DeleteModelSteps == <<<<"getManual", "model">>, <<"remove", "model">>>>
CreateExperimentSteps == <<<<"ensure", "project">>, <<"insert", "experiment">>>>

\* Of a synced experiment only the tags are taken, but the whole row is saved.
UpdateExperimentSteps ==
    <<<<"getTags", "experiment">>, <<"ensureIf", "project">>, <<"saveExperiment", "experiment">>>>
DeleteExperimentSteps == <<<<"getManual", "experiment">>, <<"remove", "experiment">>>>

\* Mutant: the experiment is not looked at.
CreateRunUnchecked == <<<<"insert", "run">>>>

CreateRunSteps == <<<<"ensure", "experiment">>, <<"insert", "run">>>>
UpdateRunSteps == <<<<"getManual", "run">>, <<"save", "run">>>>
DeleteRunSteps == <<<<"getManual", "run">>, <<"remove", "run">>>>
CreateDatasetSteps == <<<<"ensure", "experiment">>, <<"insert", "dataset">>>>
UpdateDatasetSteps == <<<<"getManual", "dataset">>, <<"save", "dataset">>>>
DeleteDatasetSteps == <<<<"getManual", "dataset">>, <<"remove", "dataset">>>>
CreateArtifactSteps == <<<<"ensure", "run">>, <<"insert", "artifact">>>>

\* A form without a type is refused after its file is stored.
UploadArtifactSteps == <<<<"ensure", "run">>, <<"upload", "artifact">>, <<"insert", "artifact">>>>
UploadUntypedSteps == <<<<"ensure", "run">>, <<"upload", "artifact">>>>
UpdateArtifactSteps == <<<<"getManual", "artifact">>, <<"save", "artifact">>>>

\* Mutant: the file goes before the row.
DeleteArtifactFileFirst ==
    <<<<"getManual", "artifact">>, <<"dropFile", "artifact">>, <<"remove", "artifact">>>>

DeleteArtifactSteps ==
    <<<<"getManual", "artifact">>, <<"remove", "artifact">>, <<"dropFile", "artifact">>>>
CreateEvaluationSteps ==
    <<<<"ensure", "experiment">>, <<"ensureIf", "version">>, <<"insert", "evaluation">>>>
UpdateEvaluationSteps == <<<<"getManual", "evaluation">>, <<"save", "evaluation">>>>
DeleteEvaluationSteps == <<<<"getManual", "evaluation">>, <<"remove", "evaluation">>>>
CreateDeploymentSteps ==
    <<<<"ensure", "model">>, <<"ensureIf", "version">>, <<"insert", "deployment">>>>
UpdateDeploymentSteps == <<<<"get", "deployment">>, <<"save", "deployment">>>>
DeleteDeploymentSteps == <<<<"remove", "deployment">>>>
CreateFindingSteps ==
    <<<<"ensure", "model">>, <<"ensureIf", "version">>, <<"ensureIf", "run">>,
      <<"ensureIf", "evaluation">>, <<"insert", "finding">>>>
UpdateFindingSteps ==
    <<<<"get", "finding">>, <<"ensureIf", "version">>, <<"ensureIf", "run">>,
      <<"ensureIf", "evaluation">>, <<"saveFinding", "finding">>>>
DeleteFindingSteps == <<<<"remove", "finding">>>>
SetVersionRunSteps == <<<<"get", "version">>, <<"ensureIf", "run">>, <<"setRun", "version">>>>
LinkVersionEvaluationsSteps ==
    <<<<"ensureIf", "version">>, <<"get", "evaluation">>, <<"setVersion", "evaluation">>>>
CreateVersionDeploymentUpdateSteps == <<<<"getStatus", "version">>, <<"deploy", "version">>>>

MlSteps ==
    [deleteProject |-> DeleteProjectSteps,
     createModel |-> CreateModelSteps, updateModel |-> UpdateModelSteps,
     updateModelInfo |-> UpdateModelInfoSteps, deleteModel |-> DeleteModelSteps,
     createExperiment |-> CreateExperimentSteps, updateExperiment |-> UpdateExperimentSteps,
     deleteExperiment |-> DeleteExperimentSteps,
     createRun |-> CreateRunSteps, updateRun |-> UpdateRunSteps, deleteRun |-> DeleteRunSteps,
     createDataset |-> CreateDatasetSteps, updateDataset |-> UpdateDatasetSteps,
     deleteDataset |-> DeleteDatasetSteps, createArtifact |-> CreateArtifactSteps,
     uploadArtifact |-> UploadArtifactSteps, uploadUntyped |-> UploadUntypedSteps,
     updateArtifact |-> UpdateArtifactSteps, deleteArtifact |-> DeleteArtifactSteps,
     createEvaluation |-> CreateEvaluationSteps, updateEvaluation |-> UpdateEvaluationSteps,
     deleteEvaluation |-> DeleteEvaluationSteps, createDeployment |-> CreateDeploymentSteps,
     updateDeployment |-> UpdateDeploymentSteps, deleteDeployment |-> DeleteDeploymentSteps,
     createFinding |-> CreateFindingSteps, updateFinding |-> UpdateFindingSteps,
     deleteFinding |-> DeleteFindingSteps, setVersionRun |-> SetVersionRunSteps,
     linkVersionEvaluations |-> LinkVersionEvaluationsSteps]

\* The syncs, the table each is about, and the tables of its parent and link;
\* resolveActors turns away unknown users before anything is written.
SyncProjects == [table |-> "project", parent |-> Null, link |-> Null]
SyncModels == [table |-> "model", parent |-> "project", link |-> Null]
SyncVersions == [table |-> "version", parent |-> "model", link |-> "run"]
SyncExperiments == [table |-> "experiment", parent |-> "project", link |-> Null]
SyncRuns == [table |-> "run", parent |-> "experiment", link |-> Null]
SyncArtifacts == [table |-> "artifact", parent |-> "run", link |-> Null]
SyncDatasets == [table |-> "dataset", parent |-> "experiment", link |-> Null]
SyncEvaluations == [table |-> "evaluation", parent |-> "experiment", link |-> "version"]

MlSyncs ==
    [syncProjects |-> SyncProjects, syncModels |-> SyncModels, syncVersions |-> SyncVersions,
     syncExperiments |-> SyncExperiments, syncRuns |-> SyncRuns, syncArtifacts |-> SyncArtifacts,
     syncDatasets |-> SyncDatasets, syncEvaluations |-> SyncEvaluations]

MlOps == DOMAIN MlSteps \cup DOMAIN MlSyncs
         \cup {"createProject", "updateProject", "restoreProjects", "createVersionDeploymentUpdate"}
MlVerbs == {"createProject", "saveProject", "restore", "firstVersion", "saveCard", "getTags", "saveExperiment",
            "upload", "dropFile", "saveFinding", "setRun", "setVersion", "sync", "getStatus",
            "deploy"}

MlStart(q, op) ==
    /\ \/ /\ op \in DOMAIN MlSteps
          /\ RowStart(q, op, MlSteps[op], IF Does(MlSteps[op], "upload") THEN {q} ELSE {Null})
       \/ /\ op \in DOMAIN MlSyncs
          /\ \E r \in Refs, p \in {Seed, Null}, l \in {Seed, Null} :
               /\ MlSyncs[op].parent = Null => p = Null
               /\ MlSyncs[op].link = Null => l = Null
               /\ Arrives(q, op, <<<<"sync", MlSyncs[op].table>>>>,
                          [id |-> q, parent |-> p, link |-> l, gives |-> Columns, ref |-> r,
                           file |-> Null, held |-> Null])
       \/ /\ op = "updateProject"
          /\ \E i \in Known("project"), g \in Gives, r \in Refs \cup {Null} :
               Arrives(q, op, UpdateProjectSteps,
                       [id |-> i, parent |-> Null, link |-> Null, gives |-> g, ref |-> r,
                        file |-> Null, held |-> Null])
       \/ /\ op \in {"createProject", "restoreProjects"}
          /\ \E r \in Refs :
               Arrives(q, op, IF op = "createProject" THEN CreateProjectSteps ELSE RestoreProjectsSteps,
                       [id |-> q, parent |-> Null, link |-> Null, gives |-> Columns, ref |-> r,
                        file |-> Null, held |-> Null])
       \/ /\ op = "createVersionDeploymentUpdate"
          /\ \E i \in Known("version"), to \in Statuses :
               Arrives(q, op, CreateVersionDeploymentUpdateSteps, [id |-> i, from |-> Null, to |-> to])
    /\ UNCHANGED <<rowVars, deployments>>

(***************************************************************************)
(* What is made by hand.                                                   *)
(***************************************************************************)
\* UNIQUE (org_id, name): a project that was deleted is written to, and stays
\* deleted.
CreateMLProject(q) ==
    /\ At(q, <<"createProject", "project">>)
    /\ Upserts(q, "project", Null)
    /\ Proceeds(q)
    /\ UNCHANGED files

GetMLProject(q) == Gets(q, "project")

\* Mutant: the name may be another project's.
NameNeverTaken(i, ref) == FALSE

ProjectNameTaken(i, ref) == RefOwners("project", ref) \ {i} # {}

UpdateMLProject(q) ==
    /\ At(q, <<"saveProject", "project">>)
    /\ LET m == Mem(q)
           k == <<"project", m.id>>
           ref == IF m.ref = Null THEN m.held.ref ELSE m.ref IN
       IF ~Live("project", m.id) THEN Proceeds(q) /\ UNCHANGED rows
       ELSE IF ProjectNameTaken(m.id, ref) THEN Ends(q) /\ UNCHANGED rows
       ELSE /\ rows' = With(rows, k, [Merged(m, q, "project", rows[k]) EXCEPT !.ref = ref])
            /\ Proceeds(q)
    /\ UNCHANGED files

DeleteMLProject(q) == Removes(q, "project")

RestoreMLProjects(q) ==
    /\ At(q, <<"restore", "project">>)
    /\ rows' = [k \in DOMAIN rows |-> IF k[1] = "project" /\ rows[k].ref = Mem(q).ref
                                      THEN [rows[k] EXCEPT !.state = "live"] ELSE rows[k]]
    /\ Proceeds(q)
    /\ UNCHANGED files

EnsureProjectInOrg(q) == Ensures(q, "project") \/ EnsuresIf(q, "project")
EnsureModelInOrg(q) == Ensures(q, "model")
EnsureVersionInOrg(q) == EnsuresIf(q, "version")
EnsureExperimentInOrg(q) == Ensures(q, "experiment")
EnsureRunsInOrg(q) == Ensures(q, "run") \/ EnsuresIf(q, "run")
EnsureEvaluationsInOrg(q) == EnsuresIf(q, "evaluation")

CreateMLModel(q) == Inserts(q, "model")

\* CreateModel goes on to give the model its version 1.
CreateMLModelVersion(q) ==
    /\ At(q, <<"firstVersion", "model">>)
    /\ rows' = With(rows, <<"version", q>>, [NewRow(Mem(q), q) EXCEPT !.parent = q])
    /\ Proceeds(q)
    /\ UNCHANGED files

GetMLModel(q) == Gets(q, "model") \/ GetsManual(q, "model")
UpdateMLModelInfo(q) == Saves(q, "model")
DeleteMLModel(q) == Removes(q, "model")

\* The card is what the body says.
UpdateMLModel(q) ==
    /\ At(q, <<"saveCard", "model">>)
    /\ rows' = IF Live("model", Mem(q).id)
               THEN With(rows, <<"model", Mem(q).id>>, [rows[<<"model", Mem(q).id>>] EXCEPT !.file = q])
               ELSE rows
    /\ Proceeds(q)
    /\ UNCHANGED files

CreateMLExperiment(q) == Inserts(q, "experiment")
DeleteMLExperiment(q) == Removes(q, "experiment")

\* Mutant: any field of a synced experiment may be given.
AnyFieldAllowed(m, row) == TRUE

\* The name stands for the synced fields, the note for the tags.
OnlyTags(m, row) == row.ref # Null => m.gives \subseteq {"note"} /\ m.link = Null

GetMLExperiment(q) ==
    \/ GetsManual(q, "experiment")
    \/ /\ At(q, <<"getTags", "experiment">>)
       /\ LET m == Mem(q)
              k == <<"experiment", m.id>> IN
          IF Live("experiment", m.id) /\ OnlyTags(m, rows[k])
          THEN Keeps(q, [m EXCEPT !.held = rows[k]]) ELSE Ends(q)
       /\ UNCHANGED rowVars

\* The project is saved with the rest.
UpdateMLExperiment(q) ==
    /\ At(q, <<"saveExperiment", "experiment">>)
    /\ LET m == Mem(q)
           k == <<"experiment", m.id>> IN
       rows' = IF ~Live("experiment", m.id) THEN rows
               ELSE With(rows, k, [Merged(m, q, "experiment", rows[k]) EXCEPT
                                     !.parent = IF m.link = Null THEN m.held.parent ELSE m.link])
    /\ Proceeds(q)
    /\ UNCHANGED files

CreateMLRun(q) == Inserts(q, "run")
GetMLRun(q) == GetsManual(q, "run")
UpdateMLRun(q) == Saves(q, "run")
DeleteMLRun(q) == Removes(q, "run")
CreateMLDataset(q) == Inserts(q, "dataset")
GetMLDataset(q) == GetsManual(q, "dataset")
UpdateMLDataset(q) == Saves(q, "dataset")
DeleteMLDataset(q) == Removes(q, "dataset")

UploadArtifact(q) ==
    /\ At(q, <<"upload", "artifact">>)
    /\ files' = With(files, <<"artifact", q>>, q)
    /\ Proceeds(q)
    /\ UNCHANGED rows

CreateMLArtifact(q) == Inserts(q, "artifact")

\* The row cannot be inserted and the file is removed again.
CreateMLArtifactFails(q) ==
    /\ At(q, <<"insert", "artifact">>)
    /\ Aborts(q)
    /\ files' = IF Mem(q).file = Null THEN files ELSE Without(files, <<"artifact", q>>)
    /\ UNCHANGED rows

GetMLArtifact(q) == GetsManual(q, "artifact")
UpdateMLArtifact(q) == Saves(q, "artifact")
DeleteMLArtifact(q) == Removes(q, "artifact")

DeleteArtifactFile(q) ==
    /\ At(q, <<"dropFile", "artifact">>)
    /\ files' = Without(files, <<"artifact", Mem(q).held.file>>)
    /\ Proceeds(q)
    /\ UNCHANGED rows

CreateMLEvaluation(q) == Inserts(q, "evaluation")
GetMLEvaluation(q) == Gets(q, "evaluation") \/ GetsManual(q, "evaluation")
UpdateMLEvaluation(q) == Saves(q, "evaluation")
DeleteMLEvaluation(q) == Removes(q, "evaluation")
CreateMLDeployment(q) == Inserts(q, "deployment")
GetMLDeployment(q) == Gets(q, "deployment")
UpdateMLDeployment(q) == Saves(q, "deployment")
DeleteMLDeployment(q) == Removes(q, "deployment")
CreateMLFinding(q) == Inserts(q, "finding")
GetMLFinding(q) == Gets(q, "finding")
DeleteMLFinding(q) == Removes(q, "finding")

\* The version is saved with the rest.
UpdateMLFinding(q) ==
    /\ At(q, <<"saveFinding", "finding">>)
    /\ LET m == Mem(q)
           k == <<"finding", m.id>> IN
       rows' = IF ~Live("finding", m.id) THEN rows
               ELSE With(rows, k, [Merged(m, q, "finding", rows[k]) EXCEPT
                                     !.link = IF m.link = Null THEN m.held.link ELSE m.link])
    /\ Proceeds(q)
    /\ UNCHANGED files

GetMLModelVersion(q) == Gets(q, "version")

\* No run clears the run of the version.
SetMLModelVersionRun(q) ==
    /\ At(q, <<"setRun", "version">>)
    /\ LET k == <<"version", Mem(q).id>> IN
       rows' = IF Live("version", Mem(q).id) THEN With(rows, k, [rows[k] EXCEPT !.link = Mem(q).link])
               ELSE rows
    /\ Proceeds(q)
    /\ UNCHANGED files

SetMLEvaluationsVersion(q) ==
    /\ At(q, <<"setVersion", "evaluation">>)
    /\ LET k == <<"evaluation", Mem(q).id>> IN
       rows' = IF Live("evaluation", Mem(q).id) /\ Mem(q).link # Null
               THEN With(rows, k, [rows[k] EXCEPT !.link = Mem(q).link]) ELSE rows
    /\ Proceeds(q)
    /\ UNCHANGED files

(***************************************************************************)
(* What is synced: one transaction each.                                   *)
(***************************************************************************)
\* resolveMLID and resolveProjectID: a row of MLflow, and not deleted.
Resolved(t, i) == Live(t, i) /\ Synced(t, i)

\* Versions and artifacts need their parent, models and experiments name a
\* project or none; a run that is not found is left out of a version.
Syncs(q, sync, needsParent, needsLink) ==
    LET m == Mem(q)
        t == sync.table
        found == m.link # Null /\ Resolved(sync.link, m.link) IN
    /\ At(q, <<"sync", t>>)
    /\ IF \/ m.parent = Null /\ needsParent
          \/ m.parent # Null /\ ~Resolved(sync.parent, m.parent)
          \/ needsLink /\ ~found
       THEN Ends(q) /\ UNCHANGED rows
       ELSE Upserts(q, t, IF found THEN m.link ELSE Null) /\ Proceeds(q)
    /\ UNCHANGED files

UpsertMLProjects(q) == Syncs(q, SyncProjects, FALSE, FALSE)
UpsertMLModels(q) == Syncs(q, SyncModels, FALSE, FALSE)
UpsertMLModelVersions(q) == Syncs(q, SyncVersions, TRUE, FALSE)
UpsertMLExperiments(q) == Syncs(q, SyncExperiments, FALSE, FALSE)
UpsertMLRuns(q) == Syncs(q, SyncRuns, TRUE, FALSE)
UpsertMLArtifacts(q) == Syncs(q, SyncArtifacts, TRUE, FALSE)
UpsertMLDatasets(q) == Syncs(q, SyncDatasets, TRUE, FALSE)
UpsertMLEvaluations(q) == Syncs(q, SyncEvaluations, TRUE, TRUE)

(***************************************************************************)
(* The deployment status of a version is where its last update led.        *)
(***************************************************************************)
DeploymentStatus(i) ==
    IF deployments[i] = <<>> THEN "candidate" ELSE deployments[i][Len(deployments[i])].to

\* Mutant: the update says that it starts where it leads.
FromTarget(q) ==
    /\ At(q, <<"deploy", "version">>)
    /\ deployments' = [deployments EXCEPT ![Mem(q).id] =
                          Append(@, [from |-> Mem(q).to, to |-> Mem(q).to])]
    /\ Proceeds(q)
    /\ UNCHANGED rowVars

AllowedVersionTransitions(from) ==
    CASE from = "candidate" -> {"staging"}
      [] from = "staging" -> {"production", "candidate"}
      [] from = "production" -> {"staging", "retired"}
      [] from = "retired" -> {"staging"}

CheckVersionTransition(q) ==
    /\ At(q, <<"getStatus", "version">>)
    /\ LET from == DeploymentStatus(Mem(q).id) IN
       IF Live("version", Mem(q).id) /\ Mem(q).to \in AllowedVersionTransitions(from)
       THEN Keeps(q, [Mem(q) EXCEPT !.from = from]) ELSE Ends(q)
    /\ UNCHANGED <<rowVars, deployments>>

CreateVersionDeploymentUpdate(q) ==
    /\ At(q, <<"deploy", "version">>)
    /\ deployments' = [deployments EXCEPT ![Mem(q).id] =
                          Append(@, [from |-> Mem(q).from, to |-> Mem(q).to])]
    /\ Proceeds(q)
    /\ UNCHANGED rowVars

MlStep(q) ==
    \/ /\ \/ CreateMLProject(q) \/ GetMLProject(q) \/ UpdateMLProject(q) \/ DeleteMLProject(q)
          \/ RestoreMLProjects(q) \/ EnsureProjectInOrg(q) \/ EnsureModelInOrg(q)
          \/ EnsureVersionInOrg(q) \/ EnsureExperimentInOrg(q) \/ EnsureRunsInOrg(q)
          \/ EnsureEvaluationsInOrg(q) \/ CreateMLModel(q) \/ CreateMLModelVersion(q)
          \/ GetMLModel(q) \/ UpdateMLModelInfo(q) \/ DeleteMLModel(q) \/ UpdateMLModel(q)
          \/ CreateMLExperiment(q) \/ DeleteMLExperiment(q) \/ GetMLExperiment(q)
          \/ UpdateMLExperiment(q) \/ CreateMLRun(q) \/ GetMLRun(q) \/ UpdateMLRun(q)
          \/ DeleteMLRun(q) \/ CreateMLDataset(q) \/ GetMLDataset(q) \/ UpdateMLDataset(q)
          \/ DeleteMLDataset(q) \/ UploadArtifact(q) \/ CreateMLArtifact(q)
          \/ CreateMLArtifactFails(q) \/ GetMLArtifact(q) \/ UpdateMLArtifact(q)
          \/ DeleteMLArtifact(q) \/ DeleteArtifactFile(q) \/ CreateMLEvaluation(q)
          \/ GetMLEvaluation(q) \/ UpdateMLEvaluation(q) \/ DeleteMLEvaluation(q)
          \/ CreateMLDeployment(q) \/ GetMLDeployment(q) \/ UpdateMLDeployment(q)
          \/ DeleteMLDeployment(q) \/ CreateMLFinding(q) \/ GetMLFinding(q)
          \/ DeleteMLFinding(q) \/ UpdateMLFinding(q) \/ GetMLModelVersion(q)
          \/ SetMLModelVersionRun(q) \/ SetMLEvaluationsVersion(q)
          \/ UpsertMLProjects(q) \/ UpsertMLModels(q) \/ UpsertMLModelVersions(q)
          \/ UpsertMLExperiments(q) \/ UpsertMLRuns(q) \/ UpsertMLArtifacts(q)
          \/ UpsertMLDatasets(q) \/ UpsertMLEvaluations(q)
       /\ UNCHANGED deployments
    \/ CheckVersionTransition(q) \/ CreateVersionDeploymentUpdate(q)

(***************************************************************************)
(* Properties.                                                             *)
(***************************************************************************)
\* However syncs and requests overlap and fail, an MLflow object has one row
\* and a project name one project, deleted or not.
OneRowPerRef ==
    \A t \in MlTables, r \in Refs : Cardinality(RefOwners(t, r)) <= 1

\* A sync never touches what was made by hand, and while nothing overlaps no
\* request by hand changes what MLflow says (the name) of a synced row.
SyncAndHandApart ==
    [][\A k \in DOMAIN rows, q \in Requests :
          k[1] \in MlTables \ {"project"} /\ k \in DOMAIN rows' /\ rows'[k] # rows[k]
            /\ proc'[q] # proc[q] =>
              IF rows[k].ref = Null THEN Op(q) \notin DOMAIN MlSyncs
              ELSE clean /\ rows'[k].name # rows[k].name => Op(q) \in DOMAIN MlSyncs]_<<rows, proc>>

\* An artifact that is listed with a file has it, whatever failed or was
\* deleted half way: the file comes first and goes last.
ArtifactFileStored ==
    \A i \in LiveIds("artifact") :
        rows[<<"artifact", i>>].file # Null => <<"artifact", i>> \in DOMAIN files

\* Without overlaps the updates of a version are a path: each starts where the
\* one before ended, so that a version is never in production twice without
\* having left it (two updates at once may both start from the same status).
DeploymentLogChained ==
    clean => \A i \in RowIds : \A n \in 2..Len(deployments[i]) :
        deployments[i][n].from = deployments[i][n - 1].to

\* Every model made by hand has its first version, unless the request that
\* makes it fails or is still at it.
ModelHasVersion ==
    clean /\ Quiet => \A i \in LiveIds("model") \ {Seed} :
        Synced("model", i) \/ \E v \in Known("version") : rows[<<"version", v>>].parent = i

\* What is made while nothing else happens belongs to rows that are there, for
\* each of the tables, made by hand or synced.
MadeUnderLiveParent ==
    [][\A k \in DOMAIN rows' : clean /\ k[1] \in MlTables /\ k \notin DOMAIN rows =>
          /\ k[1] \in {"run", "dataset", "evaluation"} => Live("experiment", rows'[k].parent)
          /\ k[1] = "artifact" => Live("run", rows'[k].parent)
          /\ k[1] \in {"deployment", "finding", "version"} => Live("model", rows'[k].parent)
          /\ k[1] \in {"evaluation", "deployment", "finding"} /\ rows'[k].link # Null =>
                Live("version", rows'[k].link)]_rows
=============================================================================
