------------------------------- MODULE Diagram -------------------------------
(***************************************************************************)
(* One diagram: its row in PostgreSQL, its content and version objects in  *)
(* object storage, its content entry in the Redis cache, its entry in the  *)
(* Redis screenshot queue, the API requests that work on it and the        *)
(* screenshot workers that draw its preview.                               *)
(*                                                                         *)
(* A request is the list of external calls its handler makes, in order:    *)
(* one call is one atomic step and anything may happen between two of      *)
(* them.  No handler opens a transaction.  A content is identified with    *)
(* its SHA-256, so content_hash is a content too.                          *)
(***************************************************************************)
EXTENDS Integers, Sequences, FiniteSets

CONSTANTS
    Contents,   \* diagram contents
    NoContent,  \* no object, no cache entry, no content_hash
    Picture,    \* a preview picture a user uploaded
    Requests,   \* API requests; bound: each is used once
    Workers,    \* screenshot workers, one per API process
    Ops,        \* operations the requests may be
    InFlight,   \* bound: requests under way at once
    MayFail     \* whether calls may fail and requests may be cut short

CreateOps == {"create", "syncCreate"}
ContentOps == CreateOps \cup {"update", "sync"}
RequestOps == ContentOps \cup {"touch", "thumbnail", "generate", "delete",
                               "restore", "createVersion", "getContent"}

ASSUME DiagramAssumption ==
    /\ NoContent \notin Contents /\ Picture \notin Contents
    /\ NoContent # Picture
    /\ Requests \cap Workers = {}
    /\ Ops \subseteq RequestOps
    /\ InFlight \in Nat
    /\ MayFail \in BOOLEAN

VARIABLES
    row,      \* the row of diagrams
    object,   \* the object under content_key
    versions, \* the rows of diagram_versions
    vobject,  \* version objects, by the request that stored them
    cache,    \* the cache entry diagram:content:{id}
    queue,    \* the diagram's member of screenshot:jobs
    asset,    \* what the preview asset shows
    proc      \* the requests and the workers: where they are and what they hold

vars == <<row, object, versions, vobject, cache, queue, asset, proc>>

(***************************************************************************)
(* The handlers, as the calls they make.                                   *)
(***************************************************************************)
\* Mutant: the row goes in before the content is stored.
CreateStepsRowFirst == <<"insert", "upload", "vupload", "vinsert", "cacheSet",
                         "enqueue", "pending">>

CreateSteps == <<"upload", "insert", "vupload", "vinsert", "cacheSet",
                 "enqueue", "pending">>
SyncCreateSteps == <<"upload", "insert", "vupload", "vinsert",
                     "enqueue", "pending">>

UpdateSteps == <<"get", "upload", "cacheDel", "save", "enqueue", "pending">>

\* Update when the content is absent or unchanged; ConfirmThumbnailUpload.
TouchSteps == <<"get", "save">>

SyncSteps == <<"get", "upload", "save", "cacheDel", "latest", "vupload",
               "vinsert", "enqueue", "pending">>

ThumbnailSteps == <<"get", "asset", "save">>
GenerateSteps == <<"get", "enqueue", "pending">>
DeleteSteps == <<"softDelete", "cacheDel">>

\* Mutant: the version row goes in before its object is stored.
RestoreStepsRowFirst == <<"get", "getVersion", "upload", "save", "latest",
                          "vinsert", "vupload", "cacheDel">>

RestoreSteps == <<"get", "getVersion", "upload", "save", "latest", "vupload",
                  "vinsert", "cacheDel">>

CreateVersionSteps == <<"get", "cacheGet", "latest", "vupload", "vinsert">>
GetContentSteps == <<"cacheGet">>

\* The page the browser opens fetches the content as any client does.
ScreenshotSteps == <<"cacheGet", "asset", "get", "save">>

Steps(op) ==
    CASE op = "create" -> CreateSteps
      [] op = "syncCreate" -> SyncCreateSteps
      [] op = "update" -> UpdateSteps
      [] op = "touch" -> TouchSteps
      [] op = "sync" -> SyncSteps
      [] op = "thumbnail" -> ThumbnailSteps
      [] op = "generate" -> GenerateSteps
      [] op = "delete" -> DeleteSteps
      [] op = "restore" -> RestoreSteps
      [] op = "createVersion" -> CreateVersionSteps
      [] op = "getContent" -> GetContentSteps
      [] op = "screenshot" -> ScreenshotSteps

\* What a cache miss adds: getContent has the row already, GetContent and the
\* page read it first.
MissSteps(op) ==
    IF op = "createVersion" THEN <<"download", "cacheSet">>
    ELSE <<"get", "download", "cacheSet">>

StepNames == {"upload", "insert", "vupload", "vinsert", "cacheSet", "cacheDel",
              "cacheGet", "download", "enqueue", "pending", "get", "save",
              "latest", "asset", "softDelete", "getVersion"}

(***************************************************************************)
(* Types.                                                                  *)
(***************************************************************************)
MaybeContent == Contents \cup {NoContent}
Row == [state : {"absent", "live", "deleted"}, hash : MaybeContent,
        status : {"pending", "success", "failed"}]
Version == [id : Requests, number : Nat, hash : MaybeContent]
Procs == Requests \cup Workers
Proc == [op : RequestOps \cup {"none", "screenshot"}, todo : Seq(StepNames),
         content : MaybeContent, hash : MaybeContent, copy : Row, num : Nat]

Numbers == {v.number : v \in versions}

NoRow == [state |-> "absent", hash |-> NoContent, status |-> "pending"]

\* sha256Hex of the content is computed before anything is stored; a diagram
\* is created with version number 1.
NewProc(op, c) ==
    [op |-> op, todo |-> Steps(op), content |-> c, hash |-> c,
     copy |-> [state |-> "live", hash |-> c, status |-> "pending"], num |-> 1]

NoProc == [op |-> "none", todo |-> <<>>, content |-> NoContent,
           hash |-> NoContent, copy |-> NoRow, num |-> 1]

Init ==
    /\ row = NoRow
    /\ object = NoContent
    /\ versions = {}
    /\ vobject = [q \in Requests |-> NoContent]
    /\ cache = NoContent
    /\ queue = "none"
    /\ asset = NoContent
    /\ proc = [p \in Procs |-> NoProc]

Live == row.state = "live"
At(p, step) == proc[p].todo # <<>> /\ Head(proc[p].todo) = step
Busy(p) == proc[p].todo # <<>>

\* p goes on with the calls todo, holding the given values.
Goes(p, todo, content, hash, copy, num) ==
    proc' = [proc EXCEPT ![p] = [op |-> proc[p].op, todo |-> todo,
                content |-> content, hash |-> hash, copy |-> copy, num |-> num]]

Proceeds(p) == Goes(p, Tail(proc[p].todo), proc[p].content, proc[p].hash,
                    proc[p].copy, proc[p].num)
Ends(p) == Goes(p, <<>>, proc[p].content, proc[p].hash, proc[p].copy, proc[p].num)

(***************************************************************************)
(* A request arrives.  A diagram is created once: its id is a new UUID, and *)
(* the other requests name it only once it exists.                         *)
(***************************************************************************)
Start(q, op, c) ==
    /\ proc[q].op = "none"
    /\ Cardinality({p \in Requests : Busy(p)}) < InFlight
    /\ IF op \in CreateOps THEN \A p \in Requests : proc[p].op \notin CreateOps
       ELSE row.state # "absent"
    /\ c \in IF op \in ContentOps THEN Contents ELSE {NoContent}
    /\ proc' = [proc EXCEPT ![q] = NewProc(op, c)]
    /\ UNCHANGED <<row, object, versions, vobject, cache, queue, asset>>

(***************************************************************************)
(* Calls on PostgreSQL.                                                    *)
(***************************************************************************)
Unchanged(p) == proc[p].hash = row.hash

\* The read row is what save writes back: a worker marks its copy successful.
RowRead(p) == IF proc[p].op = "screenshot" THEN [row EXCEPT !.status = "success"]
              ELSE row

\* GetDiagram, with the handler's decision: not found ends the request, an
\* unchanged content ends a Sync and leaves an Update with its metadata only.
GetDiagram(p) ==
    /\ At(p, "get")
    /\ LET op == proc[p].op IN
       \/ ~Live /\ Ends(p)
       \/ Live /\ op \in {"update", "sync"} /\ Unchanged(p)
          /\ Goes(p, IF op = "sync" THEN <<>> ELSE <<"save">>,
                  proc[p].content, proc[p].hash, row, proc[p].num)
       \/ Live /\ ~(op \in {"update", "sync"} /\ Unchanged(p))
          /\ Goes(p, Tail(proc[p].todo), proc[p].content,
                  IF op = "createVersion" THEN row.hash ELSE proc[p].hash,
                  RowRead(p), proc[p].num)
    /\ UNCHANGED <<row, object, versions, vobject, cache, queue, asset>>

\* The id is the primary key and a new UUID.
CreateDiagram(p) ==
    /\ At(p, "insert")
    /\ row.state = "absent"
    /\ row' = proc[p].copy
    /\ Proceeds(p)
    /\ UNCHANGED <<object, versions, vobject, cache, queue, asset>>

\* Mutant: WHERE id = $14, without deleted_at IS NULL.
UpdateAnyDiagram(p) ==
    /\ At(p, "save")
    /\ row' = proc[p].copy
    /\ Proceeds(p)
    /\ UNCHANGED <<object, versions, vobject, cache, queue, asset>>

\* Every column is written, from the row the process read.
UpdateDiagram(p) ==
    /\ At(p, "save")
    /\ row' = IF Live THEN proc[p].copy ELSE row
    /\ Proceeds(p)
    /\ UNCHANGED <<object, versions, vobject, cache, queue, asset>>

SoftDeleteDiagram(p) ==
    /\ At(p, "softDelete")
    /\ row' = IF Live THEN [row EXCEPT !.state = "deleted"] ELSE row
    /\ Proceeds(p)
    /\ UNCHANGED <<object, versions, vobject, cache, queue, asset>>

SetStatus(s) == row' = IF Live THEN [row EXCEPT !.status = s] ELSE row

SetPreviewPending(p) ==
    /\ At(p, "pending")
    /\ SetStatus("pending")
    /\ Proceeds(p)
    /\ UNCHANGED <<object, versions, vobject, cache, queue, asset>>

\* Mutant: the latest number less one.
LatestMinusOne(p) ==
    /\ At(p, "latest")
    /\ \E n \in Numbers \cup {0} :
          /\ \A m \in Numbers : m <= n
          /\ Goes(p, Tail(proc[p].todo), proc[p].content, proc[p].hash,
                  proc[p].copy, n - 1)
    /\ UNCHANGED <<row, object, versions, vobject, cache, queue, asset>>

\* An error is ignored and counts as 0.
LatestVersionNumber(p) ==
    /\ At(p, "latest")
    /\ \E n \in Numbers \cup {0} :
          /\ (n = 0 /\ MayFail) \/ \A m \in Numbers : m <= n
          /\ Goes(p, Tail(proc[p].todo), proc[p].content, proc[p].hash,
                  proc[p].copy, n + 1)
    /\ UNCHANGED <<row, object, versions, vobject, cache, queue, asset>>

\* Mutant: the table without UNIQUE (diagram_id, version_number).
InsertVersion(p) ==
    /\ At(p, "vinsert")
    /\ versions' = versions \cup {[id |-> p, number |-> proc[p].num, hash |-> proc[p].hash]}
    /\ Proceeds(p)
    /\ UNCHANGED <<row, object, vobject, cache, queue, asset>>

\* A number that is taken is an error, which Create, Sync and RestoreVersion
\* ignore and after which CreateVersion has nothing left to do.
CreateDiagramVersion(p) ==
    /\ At(p, "vinsert")
    /\ versions' = IF proc[p].num \in Numbers THEN versions
                   ELSE versions \cup {[id |-> p, number |-> proc[p].num,
                                        hash |-> proc[p].hash]}
    /\ Proceeds(p)
    /\ UNCHANGED <<row, object, vobject, cache, queue, asset>>

\* RestoreVersion reads a version row and its object: neither ever changes.
GetDiagramVersion(p) ==
    /\ At(p, "getVersion")
    /\ \/ versions = {} /\ Ends(p)
       \/ \E v \in versions :
             Goes(p, Tail(proc[p].todo), vobject[v.id], v.hash, proc[p].copy, 1)
    /\ UNCHANGED <<row, object, versions, vobject, cache, queue, asset>>

(***************************************************************************)
(* Calls on object storage.                                                *)
(***************************************************************************)
UploadContent(p) ==
    /\ At(p, "upload")
    /\ object' = proc[p].content
    /\ Goes(p, Tail(proc[p].todo), proc[p].content, proc[p].hash,
            [proc[p].copy EXCEPT !.hash = proc[p].hash], proc[p].num)
    /\ UNCHANGED <<row, versions, vobject, cache, queue, asset>>

UploadVersion(p) ==
    /\ At(p, "vupload")
    /\ vobject' = [vobject EXCEPT ![p] = proc[p].content]
    /\ Proceeds(p)
    /\ UNCHANGED <<row, object, versions, cache, queue, asset>>

DownloadContent(p) ==
    /\ At(p, "download")
    /\ Goes(p, Tail(proc[p].todo), object, proc[p].hash, proc[p].copy, proc[p].num)
    /\ UNCHANGED <<row, object, versions, vobject, cache, queue, asset>>

UploadAsset(p) ==
    /\ At(p, "asset")
    /\ asset' = IF proc[p].op = "screenshot" THEN proc[p].content ELSE Picture
    /\ Proceeds(p)
    /\ UNCHANGED <<row, object, versions, vobject, cache, queue>>

(***************************************************************************)
(* Calls on Redis.                                                         *)
(***************************************************************************)
CacheGet(p) ==
    /\ At(p, "cacheGet")
    /\ IF cache # NoContent
       THEN Goes(p, Tail(proc[p].todo), cache, proc[p].hash, proc[p].copy, proc[p].num)
       ELSE Goes(p, MissSteps(proc[p].op) \o Tail(proc[p].todo), proc[p].content,
                 proc[p].hash, proc[p].copy, proc[p].num)
    /\ UNCHANGED <<row, object, versions, vobject, cache, queue, asset>>

CacheSet(p) ==
    /\ At(p, "cacheSet")
    /\ cache' = proc[p].content
    /\ Proceeds(p)
    /\ UNCHANGED <<row, object, versions, vobject, queue, asset>>

CacheDel(p) ==
    /\ At(p, "cacheDel")
    /\ cache' = NoContent
    /\ Proceeds(p)
    /\ UNCHANGED <<row, object, versions, vobject, queue, asset>>

\* Mutant: entries are stored without a TTL.
NeverExpires == FALSE /\ UNCHANGED vars

\* diagramCacheTTL.
CacheExpires ==
    /\ cache # NoContent
    /\ cache' = NoContent
    /\ UNCHANGED <<row, object, versions, vobject, queue, asset, proc>>

\* ZADD: a member that waits, or is due, has its due time reset.
EnqueueScreenshot(p) ==
    /\ At(p, "enqueue")
    /\ queue' = "waiting"
    /\ Proceeds(p)
    /\ UNCHANGED <<row, object, versions, vobject, cache, asset>>

DebounceElapses ==
    /\ queue = "waiting"
    /\ queue' = "due"
    /\ UNCHANGED <<row, object, versions, vobject, cache, asset, proc>>

\* The claim removes the member; the worker's capture then begins.
DequeueScreenshot(w) ==
    /\ ~Busy(w)
    /\ queue = "due"
    /\ queue' = "none"
    /\ proc' = [proc EXCEPT ![w] = NewProc("screenshot", NoContent)]
    /\ UNCHANGED <<row, object, versions, vobject, cache, asset>>

(***************************************************************************)
(* Failures.                                                               *)
(***************************************************************************)
\* A call fails and the handler returns, or the client goes away and every
\* later call finds its context cancelled.
RequestAborts(q) ==
    /\ MayFail /\ Busy(q)
    /\ Ends(q)
    /\ UNCHANGED <<row, object, versions, vobject, cache, queue, asset>>

\* Sync and RestoreVersion go on without the version when its upload fails.
VersionUploadFails(q) ==
    /\ MayFail /\ At(q, "vupload") /\ proc[q].op \in {"sync", "syncCreate", "restore"}
    /\ Goes(q, SubSeq(proc[q].todo, 3, Len(proc[q].todo)), proc[q].content, proc[q].hash,
            proc[q].copy, proc[q].num)
    /\ UNCHANGED <<row, object, versions, vobject, cache, queue, asset>>

\* Errors of the cache are ignored.
CacheWriteFails(q) ==
    /\ MayFail /\ (At(q, "cacheSet") \/ At(q, "cacheDel"))
    /\ Proceeds(q)
    /\ UNCHANGED <<row, object, versions, vobject, cache, queue, asset>>

\* process: a failed generate leaves the status failed.
GenerateFails(w) ==
    /\ MayFail /\ Busy(w)
    /\ SetStatus("failed")
    /\ Ends(w)
    /\ UNCHANGED <<object, versions, vobject, cache, queue, asset>>

\* The process stops; the claimed job is gone.
WorkerStops(w) ==
    /\ MayFail /\ Busy(w)
    /\ Ends(w)
    /\ UNCHANGED <<row, object, versions, vobject, cache, queue, asset>>

(***************************************************************************)
(* The system.                                                             *)
(***************************************************************************)
RowStep(p) ==
    \/ GetDiagram(p) \/ CreateDiagram(p) \/ UpdateDiagram(p)
    \/ SoftDeleteDiagram(p) \/ SetPreviewPending(p)
VersionStep(q) ==
    \/ LatestVersionNumber(q) \/ CreateDiagramVersion(q)
    \/ GetDiagramVersion(q) \/ UploadVersion(q)
OtherStep(p) ==
    \/ UploadContent(p) \/ DownloadContent(p) \/ UploadAsset(p)
    \/ CacheGet(p) \/ CacheSet(p) \/ CacheDel(p) \/ EnqueueScreenshot(p)

Step(p) == RowStep(p) \/ OtherStep(p) \/ (p \in Requests /\ VersionStep(p))

Next ==
    \/ \E q \in Requests, op \in Ops, c \in MaybeContent : Start(q, op, c)
    \/ \E p \in Procs : Step(p)
    \/ \E q \in Requests : RequestAborts(q) \/ VersionUploadFails(q) \/ CacheWriteFails(q)
    \/ \E w \in Workers : DequeueScreenshot(w) \/ GenerateFails(w) \/ WorkerStops(w)
    \/ DebounceElapses
    \/ CacheExpires

Spec == Init /\ [][Next]_vars

\* Handlers and workers keep going, time passes, and workers poll the queue.
FairSpec ==
    /\ Spec
    /\ \A p \in Procs : WF_vars(Step(p))
    /\ \A w \in Workers : WF_vars(DequeueScreenshot(w))
    /\ WF_vars(DebounceElapses)
    /\ WF_vars(CacheExpires)

(***************************************************************************)
(* Properties.                                                             *)
(***************************************************************************)
\* The row, the objects, the queue entry and what each process holds have the
\* types of the database columns and of the handlers' variables.
TypeOK ==
    /\ row \in Row
    /\ object \in MaybeContent
    /\ versions \in SUBSET Version
    /\ vobject \in [Requests -> MaybeContent]
    /\ cache \in MaybeContent
    /\ queue \in {"none", "waiting", "due"}
    /\ asset \in MaybeContent \cup {Picture}
    /\ proc \in [Procs -> Proc]

\* However Sync, RestoreVersion and CreateVersion interleave, and although
\* each reads the latest number and inserts in separate statements, version
\* numbers are 1, 2, 3, ... without a gap and without a repetition.
NoGap == \A v \in versions : v.number = 1 \/ \E u \in versions : u.number = v.number - 1
NoRepeat == \A u, v \in versions : u.number = v.number => u = v
VersionsContiguous == NoGap /\ NoRepeat

\* An automatic version, whoever made it and whatever failed, has an object,
\* and its content is the one content_hash was computed from (for the
\* operations Create, Sync and RestoreVersion).
SnapshotIntact == \A v \in versions : vobject[v.id] = v.hash /\ v.hash # NoContent

\* A row is never there without its content object, even when Create is cut
\* short between its upload and its insert.
RowHasObject == row.state # "absent" => object # NoContent

\* What the database names is in the object store: the row's content and the
\* content of every version, whoever was cut short where.
ObjectsStored == SnapshotIntact /\ RowHasObject

\* Nothing changes a deleted diagram's row: not the requests that read it
\* before it was deleted, nor a worker that is drawing it.
DeletedIsFinal == [][row.state = "deleted" => row' = row]_row

\* A stale entry, or an entry of a deleted diagram, does not stay: once the
\* requests are over the cache holds the stored content or nothing.
CacheSettles ==
    <>[](cache \in IF row.state = "deleted" THEN {NoContent} ELSE {NoContent, object})

\* migrations/0009_diagrams.sql: the hash is "used to skip no-op syncs".  A
\* Sync that is skipped while nothing else works on the diagram names the
\* content that is stored.
SkipsOnlyNoOps ==
    [][\A q \in Requests :
          /\ At(q, "get") /\ proc[q].op = "sync" /\ Live /\ ~Busy(q)'
          /\ \A p \in Procs \ {q} : ~Busy(p)
          => \/ RequestAborts(q)
             \/ proc[q].content = object]_proc

==============================================================================
