----------------------------- MODULE MCContent -----------------------------
\* An instance of Content for TLC: which operations are run against which.
EXTENDS Content, TLC

On(tables, ops) == [ops |-> ops, tables |-> tables]

MCWorkloads ==
    {On({"map"}, {"createMap", "updateMap", "deleteMap"}),
     On({"frame"}, {"createFrame", "updateFrame", "deleteFrame", "syncFrame", "syncNewFrame"}),
     On({"point"}, {"createFocalPoint", "updateFocalPoint", "deleteFocalPoint"}),
     On({"group"}, {"createGroup", "updateGroup", "deleteGroup"}),
     On({"frameLink"}, {"createLink", "updateLink", "deleteLink"}),
     On({"meta"}, {"createMeta", "updateMeta", "deleteMeta"}),
     On({"canvas"}, {"upsertCanvas"}),
     On({"folder"}, {"createFolder", "updateFolder", "deleteFolder"}),
     On({"comment"}, {"createComment", "updateComment", "deleteComment"}),
     On({"doc"}, {"createDoc", "updateDoc", "deleteDoc"}),
     On({"chat"}, {"createSession", "updateSession", "deleteSession", "createMessage"}),
     On({"event"}, {"createEvent", "updateEvent", "deleteEvent", "syncEvent"}),
     On({}, {"createComponent", "updateComponent", "deleteComponent"}),
     On({}, {"createAgentSession", "finish", "createStep"}),
     On({"project"}, {"createProject", "updateProject", "deleteProject", "restoreProjects",
                      "syncProjects", "syncModels"}),
     On({"project", "model", "version"},
        {"createModel", "updateModel", "updateModelInfo", "deleteModel", "syncModels", "deleteProject"}),
     On({"model", "version", "run"}, {"syncVersions", "setVersionRun", "deleteModel", "deleteRun"}),
     On({"version"}, {"createVersionDeploymentUpdate"}),
     On({"project", "experiment"}, {"createExperiment", "updateExperiment", "deleteExperiment",
                                    "syncExperiments", "deleteProject"}),
     On({"experiment", "run"}, {"createRun", "updateRun", "deleteRun", "syncRuns", "deleteExperiment"}),
     On({"experiment", "dataset"}, {"createDataset", "updateDataset", "deleteDataset",
                                    "syncDatasets", "deleteExperiment"}),
     On({"run", "artifact"}, {"createArtifact", "uploadArtifact", "uploadUntyped", "updateArtifact",
                              "deleteArtifact", "syncArtifacts", "deleteRun"}),
     On({"experiment", "version", "evaluation"},
        {"createEvaluation", "updateEvaluation", "deleteEvaluation", "syncEvaluations",
         "linkVersionEvaluations", "deleteExperiment"}),
     On({"model", "version", "deployment"}, {"createDeployment", "updateDeployment",
                                             "deleteDeployment", "deleteModel"}),
     On({"model", "version", "run", "evaluation", "finding"},
        {"createFinding", "updateFinding", "deleteFinding", "deleteModel", "deleteRun"})}

Symmetric == Permutations(Requests) \cup Permutations(Shots)
============================================================================
