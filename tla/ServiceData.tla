---------------------------- MODULE ServiceData ----------------------------
(***************************************************************************)
(* What one service owns: its databases with their schema versions, the    *)
(* saved queries of one of them, and the documents and diagrams linked to  *)
(* it; and the statistics page that counts them.                           *)
(*                                                                         *)
(* A request whose service is gone, whose body is malformed or whose       *)
(* principal does not own the personal query or folder it names is         *)
(* answered before it changes anything, and is left out.                   *)
(***************************************************************************)
EXTENDS Handlers

CONSTANTS
    Old,        \* id of the rows that were there before; a new row has its request's id
    None,       \* NULL, or a field the body does not give
    DbNames,    \* names of databases
    Schemas,    \* contents of schema_json
    Refs,       \* source refs of queries synced from CI
    PoolSize    \* SetMaxOpenConns

ASSUME ServiceDataAssumption ==
    /\ Old \notin Requests /\ None \notin Requests \cup DbNames \cup Schemas \cup Refs \cup {Old}
    /\ PoolSize \in Nat

VARIABLES
    dbs,        \* service_dbs
    versions,   \* service_db_versions
    folders,    \* saved_query_folders, all of database Old
    queries,    \* saved_queries, all of database Old
    contents,   \* docs and diagrams
    objects,    \* the stored files of contents
    links,      \* service_docs and service_diagrams
    held        \* connections held by open result sets

dataVars == <<dbs, versions, folders, queries, contents, objects, links, held>>

Ids == Requests \cup {Old}
States == {"absent", "live", "deleted"}
Kinds == {"doc", "diagram"}
Absent == [state |-> "absent", name |-> None, schema |-> None]
NoQuery == [state |-> "absent", folder |-> None, ref |-> None]
Db == {Absent} \cup [state : {"live", "deleted"}, name : DbNames, schema : Schemas]
Version == [db : Ids, number : Nat, schema : Schemas]
Query == {NoQuery} \cup [state : {"live", "deleted"}, folder : Ids \cup {None}, ref : Refs \cup {None}]
DbMemory == [id : Ids, name : DbNames \cup {None}, schema : Schemas \cup {None},
             prev : Schemas \cup {None}, want : Schemas \cup {None}, number : Nat]
QueryMemory == [id : Ids, folder : Ids \cup {None}, ref : Refs \cup {None}]
LinkMemory == [id : Ids, kind : Kinds]
DataMemory == DbMemory \cup QueryMemory \cup LinkMemory

LiveDb(i) == dbs[i].state = "live"
VersionsOf(i) == {v \in versions : v.db = i}

(***************************************************************************)
(* The handlers, as the calls they make.                                   *)
(***************************************************************************)
CreateDBSteps == <<"insertDB", "latestVersion", "insertVersion">>

\* Mutant: an update keeps no version.
UpdateWithoutSnapshot == <<"getDB", "saveDB">>

UpdateDBSteps == <<"getDB", "saveDB", "latestVersion", "insertVersion">>
DeleteDBSteps == <<"getDB", "deleteDB">>
CreateDBVersionSteps == <<"getDB", "saveDB", "latestVersion", "insertVersion">>

\* Mutant: the version is written back before the schema it replaces is kept.
RestoreSavesFirst == <<"getDB", "getVersion", "saveDB", "latestVersion", "insertVersion">>

\* The schema of the moment is kept as a version and then replaced.
RestoreDBVersionSteps == <<"getDB", "getVersion", "latestVersion", "insertVersion", "saveDB">>

CreateSavedQueryFolderSteps == <<"ensureDB", "insertFolder">>

\* Mutant: the folder goes before its queries are taken out.
DeleteFolderFirst == <<"ensureDB", "getFolder", "deleteFolder", "clearFolder">>

DeleteSavedQueryFolderSteps == <<"ensureDB", "getFolder", "clearFolder", "deleteFolder">>
CreateSavedQuerySteps == <<"ensureDB", "insertQuery">>
UpdateSavedQuerySteps == <<"ensureDB", "getQuery", "saveQuery">>
DeleteSavedQuerySteps == <<"ensureDB", "getQuery", "deleteQuery">>
SyncSavedQuerySteps == <<"ensureDB", "upsertQuery">>

\* Mutant: the row is inserted before its file is stored.
CreateDocRowFirst(new) == IF new THEN <<"insertContent", "upload", "link">>
                          ELSE <<"getContent", "link">>

\* A body with an id links what exists, one with content makes it first.
CreateDocSteps(new) == IF new THEN <<"upload", "insertContent", "link">>
                       ELSE <<"getContent", "link">>
DeleteDocSteps == <<"getLink", "unlink">>
CreateDiagramSteps(new) == IF new THEN <<"upload", "insertContent", "link">>
                           ELSE <<"getContent", "link">>
DeleteDiagramSteps == <<"getLink", "unlink">>

ListStatsSteps == <<"listServices", "countRows", "closeRows">>

DbOps == {"createDB", "updateDB", "deleteDB", "createDBVersion", "restoreDBVersion"}
QueryOps == {"createSavedQueryFolder", "deleteSavedQueryFolder", "createSavedQuery",
             "updateSavedQuery", "deleteSavedQuery", "syncSavedQuery"}
LinkOps == {"createDoc", "deleteDoc", "createDiagram", "deleteDiagram", "listStats"}
DataOps == DbOps \cup QueryOps \cup LinkOps
DataCalls == {"insertDB", "getDB", "saveDB", "deleteDB", "getVersion", "latestVersion",
              "insertVersion", "ensureDB", "insertFolder", "getFolder", "clearFolder",
              "deleteFolder", "insertQuery", "getQuery", "saveQuery", "deleteQuery",
              "upsertQuery", "upload", "insertContent", "getContent", "link", "getLink",
              "unlink", "listServices", "countRows", "closeRows"}

(***************************************************************************)
(* The service may already have one row of each kind.                      *)
(***************************************************************************)
DataInit ==
    /\ \E d \in {Absent} \cup [state : {"live"}, name : DbNames, schema : Schemas] :
         /\ dbs = [i \in Ids |-> IF i = Old THEN d ELSE Absent]
         /\ versions = IF d = Absent THEN {}
                       ELSE {[db |-> Old, number |-> 1, schema |-> d.schema]}
    /\ \E q \in {NoQuery} \cup [state : {"live"}, folder : {Old, None}, ref : Refs \cup {None}] :
         queries = [i \in Ids |-> IF i = Old /\ LiveDb(Old) THEN q ELSE NoQuery]
    /\ folders = [i \in Ids |-> IF i = Old /\ LiveDb(Old) THEN "live" ELSE "absent"]
    /\ \E s \in {"absent", "live", "deleted"}, l \in {"absent", "live", "deleted"} :
         /\ s = "absent" => l = "absent"
         /\ contents = [k \in Kinds |-> [i \in Ids |-> IF i = Old THEN s ELSE "absent"]]
         /\ links = [k \in Kinds |-> [i \in Ids |-> IF i = Old THEN l ELSE "absent"]]
         /\ objects = IF s = "absent" THEN {} ELSE {<<k, Old>> : k \in Kinds}
    /\ held = {}

StartDb(q, op, i, name, schema, n) ==
    /\ IF op = "createDB" THEN i = q ELSE dbs[i].state # "absent"
    /\ Arrives(q, op, CASE op = "createDB" -> CreateDBSteps
                        [] op = "updateDB" -> UpdateDBSteps
                        [] op = "deleteDB" -> DeleteDBSteps
                        [] op = "createDBVersion" -> CreateDBVersionSteps
                        [] op = "restoreDBVersion" -> RestoreDBVersionSteps,
               [id |-> i, name |-> name, schema |-> schema, prev |-> None, want |-> None,
                number |-> n])
    /\ UNCHANGED dataVars

StartQuery(q, op, i, folder, ref) ==
    /\ CASE op \in {"createSavedQueryFolder", "createSavedQuery", "syncSavedQuery"} -> i = q
         [] op = "deleteSavedQueryFolder" -> folders[i] # "absent"
         [] OTHER -> queries[i].state # "absent"
    /\ folder # None => folders[folder] # "absent"
    /\ Arrives(q, op, CASE op = "createSavedQueryFolder" -> CreateSavedQueryFolderSteps
                        [] op = "deleteSavedQueryFolder" -> DeleteSavedQueryFolderSteps
                        [] op = "createSavedQuery" -> CreateSavedQuerySteps
                        [] op = "updateSavedQuery" -> UpdateSavedQuerySteps
                        [] op = "deleteSavedQuery" -> DeleteSavedQuerySteps
                        [] op = "syncSavedQuery" -> SyncSavedQuerySteps,
               [id |-> i, folder |-> folder, ref |-> ref])
    /\ UNCHANGED dataVars

StartLink(q, op, i) ==
    /\ \/ op = "createDoc" /\ i \in {q, Old}
          /\ Arrives(q, op, CreateDocSteps(i = q), [id |-> i, kind |-> "doc"])
       \/ op = "createDiagram" /\ i \in {q, Old}
          /\ Arrives(q, op, CreateDiagramSteps(i = q), [id |-> i, kind |-> "diagram"])
       \/ op = "deleteDoc" /\ i # q
          /\ Arrives(q, op, DeleteDocSteps, [id |-> i, kind |-> "doc"])
       \/ op = "deleteDiagram" /\ i # q
          /\ Arrives(q, op, DeleteDiagramSteps, [id |-> i, kind |-> "diagram"])
       \/ op = "listStats" /\ i = q
          /\ Arrives(q, op, ListStatsSteps, [id |-> i, kind |-> "doc"])
    /\ UNCHANGED dataVars

(***************************************************************************)
(* Databases and their versions.                                           *)
(***************************************************************************)
\* idx_service_dbs_service_name.
DbNameTaken(i, n) == \E j \in Ids \ {i} : LiveDb(j) /\ dbs[j].name = n

CreateServiceDB(q) ==
    /\ At(q, "insertDB")
    /\ LET m == Mem(q) IN
       IF DbNameTaken(m.id, m.name) THEN Ends(q) /\ UNCHANGED dbs
       ELSE /\ dbs' = [dbs EXCEPT ![m.id] = [state |-> "live", name |-> m.name,
                                             schema |-> m.schema]]
            /\ Proceeds(q)
    /\ UNCHANGED <<versions, folders, queries, contents, objects, links, held>>

\* What the body does not give is kept as it was read.
MergedDb(m) ==
    [m EXCEPT !.name = IF @ = None THEN dbs[m.id].name ELSE @,
              !.schema = IF @ = None THEN dbs[m.id].schema ELSE @,
              !.prev = dbs[m.id].schema]

GetServiceDB(q) ==
    /\ At(q, "getDB")
    /\ IF LiveDb(Mem(q).id) THEN Keeps(q, MergedDb(Mem(q))) ELSE Ends(q)
    /\ UNCHANGED dataVars

\* The row as held is written; a row deleted meanwhile is not there to write.
UpdateServiceDB(q) ==
    /\ At(q, "saveDB")
    /\ LET m == Mem(q)
           schema == IF m.want = None THEN m.schema ELSE m.want
           wanted == Op(q) = "updateDB" => schema # m.prev IN
       IF DbNameTaken(m.id, m.name) /\ LiveDb(m.id) THEN Ends(q) /\ UNCHANGED dbs
       ELSE /\ dbs' = IF LiveDb(m.id) THEN [dbs EXCEPT ![m.id].name = m.name, ![m.id].schema = schema]
                      ELSE dbs
            /\ IF wanted THEN Proceeds(q) ELSE Ends(q)
    /\ UNCHANGED <<versions, folders, queries, contents, objects, links, held>>

SoftDeleteServiceDB(q) ==
    /\ At(q, "deleteDB")
    /\ dbs' = [dbs EXCEPT ![Mem(q).id].state = "deleted"]
    /\ Proceeds(q)
    /\ UNCHANGED <<versions, folders, queries, contents, objects, links, held>>

GetServiceDBVersion(q) ==
    /\ At(q, "getVersion")
    /\ LET found == {v \in VersionsOf(Mem(q).id) : v.number = Mem(q).number} IN
       \/ found = {} /\ Ends(q)
       \/ \E v \in found : Keeps(q, [Mem(q) EXCEPT !.want = v.schema])
    /\ UNCHANGED dataVars

LatestServiceDBVersionNumber(i) ==
    IF VersionsOf(i) = {} THEN 0
    ELSE CHOOSE n \in {v.number : v \in VersionsOf(i)} : \A v \in VersionsOf(i) : v.number <= n

CreateServiceDBVersionSnapshot(q) ==
    /\ At(q, "latestVersion")
    /\ Keeps(q, [Mem(q) EXCEPT !.number = LatestServiceDBVersionNumber(Mem(q).id) + 1])
    /\ UNCHANGED dataVars

\* Mutant: a version of the same number is overwritten.
OverwriteVersion(q) ==
    /\ At(q, "insertVersion")
    /\ versions' = {v \in versions : v.db # Mem(q).id \/ v.number # Mem(q).number}
                     \cup {[db |-> Mem(q).id, number |-> Mem(q).number, schema |-> Mem(q).schema]}
    /\ Proceeds(q)
    /\ UNCHANGED <<dbs, folders, queries, contents, objects, links, held>>

\* A number taken by another snapshot is an error, which only CreateDBVersion
\* reports, as its last step.
CreateServiceDBVersion(q) ==
    /\ At(q, "insertVersion")
    /\ LET m == Mem(q) IN
       versions' = versions \cup
           IF \E v \in VersionsOf(m.id) : v.number = m.number THEN {}
           ELSE {[db |-> m.id, number |-> m.number, schema |-> m.schema]}
    /\ Proceeds(q)
    /\ UNCHANGED <<dbs, folders, queries, contents, objects, links, held>>

\* The snapshot fails and its handler does not mind.
SnapshotFails(q) == At(q, "insertVersion") /\ Skips(q) /\ UNCHANGED dataVars

(***************************************************************************)
(* Saved queries and their folders.                                        *)
(***************************************************************************)
EnsureDBInService(q) ==
    /\ At(q, "ensureDB")
    /\ IF LiveDb(Old) THEN Proceeds(q) ELSE Ends(q)
    /\ UNCHANGED dataVars

CreateSavedQueryFolder(q) ==
    /\ At(q, "insertFolder")
    /\ folders' = [folders EXCEPT ![q] = "live"]
    /\ Proceeds(q)
    /\ UNCHANGED <<dbs, versions, queries, contents, objects, links, held>>

GetSavedQueryFolder(q) ==
    /\ At(q, "getFolder")
    /\ IF folders[Mem(q).id] = "live" THEN Proceeds(q) ELSE Ends(q)
    /\ UNCHANGED dataVars

\* SoftDeleteSavedQueryFolder, its two statements.
ClearFolder(q) ==
    /\ At(q, "clearFolder")
    /\ queries' = [i \in Ids |-> IF queries[i].state = "live" /\ queries[i].folder = Mem(q).id
                                 THEN [queries[i] EXCEPT !.folder = None] ELSE queries[i]]
    /\ Proceeds(q)
    /\ UNCHANGED <<dbs, versions, folders, contents, objects, links, held>>

SoftDeleteSavedQueryFolder(q) ==
    /\ At(q, "deleteFolder")
    /\ folders' = [folders EXCEPT ![Mem(q).id] = "deleted"]
    /\ Proceeds(q)
    /\ UNCHANGED <<dbs, versions, queries, contents, objects, links, held>>

NewQuery(m) == [state |-> "live", folder |-> m.folder, ref |-> m.ref]

CreateSavedQuery(q) ==
    /\ At(q, "insertQuery")
    /\ queries' = [queries EXCEPT ![q] = NewQuery(Mem(q))]
    /\ Proceeds(q)
    /\ UNCHANGED <<dbs, versions, folders, contents, objects, links, held>>

GetSavedQuery(q) ==
    /\ At(q, "getQuery")
    /\ IF queries[Mem(q).id].state = "live" THEN Proceeds(q) ELSE Ends(q)
    /\ UNCHANGED dataVars

\* The folder is always the body's, given or not.
UpdateSavedQuery(q) ==
    /\ At(q, "saveQuery")
    /\ queries' = [queries EXCEPT ![Mem(q).id].folder =
                      IF queries[Mem(q).id].state = "live" THEN Mem(q).folder ELSE @]
    /\ Proceeds(q)
    /\ UNCHANGED <<dbs, versions, folders, contents, objects, links, held>>

SoftDeleteSavedQuery(q) ==
    /\ At(q, "deleteQuery")
    /\ queries' = [queries EXCEPT ![Mem(q).id].state = "deleted"]
    /\ Proceeds(q)
    /\ UNCHANGED <<dbs, versions, folders, contents, objects, links, held>>

\* The partial unique index uq_saved_queries_source_ref.
Synced(ref) == {i \in Ids : queries[i].ref = ref /\ queries[i].state = "live"}

\* Mutant: an INSERT without ON CONFLICT.
InsertSavedQuery(q) ==
    /\ At(q, "upsertQuery")
    /\ queries' = [queries EXCEPT ![q] = NewQuery(Mem(q))]
    /\ Proceeds(q)
    /\ UNCHANGED <<dbs, versions, folders, contents, objects, links, held>>

UpsertSavedQueryBySourceRef(q) ==
    /\ At(q, "upsertQuery")
    /\ LET there == Synced(Mem(q).ref) IN
       queries' = IF there = {} THEN [queries EXCEPT ![q] = NewQuery(Mem(q))]
                  ELSE [i \in Ids |-> IF i \in there THEN [queries[i] EXCEPT !.folder = Mem(q).folder]
                                      ELSE queries[i]]
    /\ Proceeds(q)
    /\ UNCHANGED <<dbs, versions, folders, contents, objects, links, held>>

(***************************************************************************)
(* Documents and diagrams of the service.                                  *)
(***************************************************************************)
UploadContent(q) ==
    /\ At(q, "upload")
    /\ objects' = objects \cup {<<Mem(q).kind, Mem(q).id>>}
    /\ Proceeds(q)
    /\ UNCHANGED <<dbs, versions, folders, queries, contents, links, held>>

InsertContent(q) ==
    /\ At(q, "insertContent")
    /\ contents' = [contents EXCEPT ![Mem(q).kind][Mem(q).id] = "live"]
    /\ Proceeds(q)
    /\ UNCHANGED <<dbs, versions, folders, queries, objects, links, held>>

GetContent(q) ==
    /\ At(q, "getContent")
    /\ IF contents[Mem(q).kind][Mem(q).id] = "live" THEN Proceeds(q) ELSE Ends(q)
    /\ UNCHANGED dataVars

\* A link that was removed is revived.
CreateServiceLink(q) ==
    /\ At(q, "link")
    /\ links' = [links EXCEPT ![Mem(q).kind][Mem(q).id] = "live"]
    /\ Proceeds(q)
    /\ UNCHANGED <<dbs, versions, folders, queries, contents, objects, held>>

GetServiceLink(q) ==
    /\ At(q, "getLink")
    /\ IF links[Mem(q).kind][Mem(q).id] = "live" THEN Proceeds(q) ELSE Ends(q)
    /\ UNCHANGED dataVars

SoftDeleteServiceLink(q) ==
    /\ At(q, "unlink")
    /\ links' = [links EXCEPT ![Mem(q).kind][Mem(q).id] = IF @ = "live" THEN "deleted" ELSE @]
    /\ Proceeds(q)
    /\ UNCHANGED <<dbs, versions, folders, queries, contents, objects, held>>

\* ListServiceDocs and ListServiceDiagrams join the link with what it links.
Shown(kind) == {i \in Ids : links[kind][i] = "live" /\ contents[kind][i] = "live"}

(***************************************************************************)
(* ListServiceStats keeps the list of services open while it counts, and   *)
(* each count needs a connection of its own.                               *)
(***************************************************************************)
ConnectionFree == Cardinality(held) < PoolSize

ListServiceStats(q) ==
    /\ At(q, "listServices")
    /\ held' = held \cup {q}
    /\ Proceeds(q)
    /\ UNCHANGED <<dbs, versions, folders, queries, contents, objects, links>>

ServiceStatsForID(q) ==
    /\ At(q, "countRows")
    /\ Proceeds(q)
    /\ UNCHANGED dataVars

\* The deferred rows.Close.
CloseRows(q) ==
    /\ At(q, "closeRows")
    /\ held' = held \ {q}
    /\ Proceeds(q)
    /\ UNCHANGED <<dbs, versions, folders, queries, contents, objects, links>>

\* Mutant: the rows stay open when a count fails.
AbortLeaksRows(q) == Op(q) \in DataOps /\ Aborts(q) /\ UNCHANGED dataVars

DataAborts(q) ==
    /\ Op(q) \in DataOps
    /\ Aborts(q)
    /\ held' = held \ {q}
    /\ UNCHANGED <<dbs, versions, folders, queries, contents, objects, links>>

(***************************************************************************)
(* The steps.                                                              *)
(***************************************************************************)
DbStart(q, op) ==
    CASE op = "createDB" ->
            \E n \in DbNames, s \in Schemas : StartDb(q, op, q, n, s, 0)
      [] op \in {"updateDB", "createDBVersion"} ->
            \E i \in Ids, n \in DbNames \cup {None}, s \in Schemas \cup {None} :
                StartDb(q, op, i, n, s, 0)
      [] op = "deleteDB" -> \E i \in Ids : StartDb(q, op, i, None, None, 0)
      [] op = "restoreDBVersion" ->
            \E i \in Ids : \E v \in VersionsOf(i) : StartDb(q, op, i, None, None, v.number)

QueryStart(q, op) ==
    \E i \in Ids, folder \in IF op \in {"createSavedQuery", "updateSavedQuery"}
                             THEN Ids \cup {None} ELSE {None},
       ref \in IF op = "syncSavedQuery" THEN Refs ELSE {None} :
        StartQuery(q, op, i, folder, ref)

LinkStart(q, op) == \E i \in Ids : StartLink(q, op, i)

DataStart(q, op) ==
    \/ op \in DbOps /\ DbStart(q, op)
    \/ op \in QueryOps /\ QueryStart(q, op)
    \/ op \in LinkOps /\ LinkStart(q, op)

DataStep(q) ==
    \/ ConnectionFree /\
        \/ CreateServiceDB(q) \/ GetServiceDB(q) \/ UpdateServiceDB(q) \/ SoftDeleteServiceDB(q)
        \/ GetServiceDBVersion(q) \/ CreateServiceDBVersionSnapshot(q)
        \/ CreateServiceDBVersion(q) \/ SnapshotFails(q)
        \/ EnsureDBInService(q) \/ CreateSavedQueryFolder(q) \/ GetSavedQueryFolder(q)
        \/ ClearFolder(q) \/ SoftDeleteSavedQueryFolder(q) \/ CreateSavedQuery(q)
        \/ GetSavedQuery(q) \/ UpdateSavedQuery(q) \/ SoftDeleteSavedQuery(q)
        \/ UpsertSavedQueryBySourceRef(q) \/ InsertContent(q) \/ GetContent(q)
        \/ CreateServiceLink(q) \/ GetServiceLink(q) \/ SoftDeleteServiceLink(q)
        \/ ListServiceStats(q) \/ ServiceStatsForID(q)
    \/ UploadContent(q) \/ CloseRows(q) \/ DataAborts(q)

(***************************************************************************)
(* Properties.                                                             *)
(***************************************************************************)
\* The rows and what each request holds have the types of the database
\* columns and of the handlers' variables.
DataTypeOK ==
    /\ dbs \in [Ids -> Db]
    /\ versions \subseteq Version
    /\ folders \in [Ids -> States]
    /\ queries \in [Ids -> Query]
    /\ contents \in [Kinds -> [Ids -> States]]
    /\ objects \subseteq Kinds \X Ids
    /\ links \in [Kinds -> [Ids -> States]]
    /\ held \subseteq Requests

DbLog == INSTANCE VersionLog WITH Docs <- Ids, Values <- Schemas,
             log <- {[doc |-> v.db, number |-> v.number, value |-> v.schema] : v \in versions}

\* The versions of every database are a log that grows at its end, although
\* the next number is read in one statement and used in another and nobody
\* reports a number that was taken meanwhile.
DbVersionsRefineLog == DbLog!Spec

\* As long as requests neither overlap nor fail, the schema of a database can
\* be got back: it is the schema of one of its versions, whether it was
\* created, updated, versioned or restored last.
SchemaIsVersioned ==
    clean /\ Quiet => \A i \in Ids : LiveDb(i) => \E v \in VersionsOf(i) : v.schema = dbs[i].schema

\* A restore that runs alone keeps what it replaces: its last version is the
\* schema of before (RestoreDBVersion takes the snapshot first).
RestoreKeepsReplaced ==
    [][\A i \in Ids : clean /\ dbs'[i].schema # dbs[i].schema /\ LiveDb(i)
                       /\ (\E q \in Requests : At(q, "saveDB") /\ Op(q) = "restoreDBVersion") =>
          \E v \in VersionsOf(i) : v.schema = dbs[i].schema
              /\ v.number = LatestServiceDBVersionNumber(i)]_<<dbs, versions, proc, clean>>

\* Overlapping syncs of one query never leave it twice among the live ones,
\* and a query that was deleted comes back as a new one.
SyncedOnce == \A r \in Refs : Cardinality(Synced(r)) <= 1

\* A folder that is deleted by a request that runs alone takes none of its
\* queries along: they are out of it before it goes.
FolderEmptiedFirst ==
    [][\A f \in Ids : clean /\ folders[f] = "live" /\ folders'[f] = "deleted" =>
          \A i \in Ids : queries[i].state = "live" => queries[i].folder # f]_<<folders, queries, clean>>

\* Whatever fails half way, what a service page lists has a row and a stored
\* file: the file is stored first, the row second and the link last.
LinkedIsStored ==
    \A k \in Kinds, i \in Ids :
        /\ links[k][i] = "live" => contents[k][i] # "absent"
        /\ contents[k][i] # "absent" => <<k, i>> \in objects

\* Connections are held by the statistics under way and by nobody else: a
\* request that fails half way gives its own back.
HeldByStats == held = {q \in Requests : At(q, "countRows") \/ At(q, "closeRows")}
==============================================================================
