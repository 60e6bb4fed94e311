------------------------------ MODULE ApiGroup ------------------------------
(***************************************************************************)
(* One API group of a service: its row, its working-copy endpoints and     *)
(* their SLAs, its published versions with their endpoint snapshots, and   *)
(* the spec objects of the working copy and of every version.              *)
(*                                                                         *)
(* A spec is the set of operations it describes and is identified with its *)
(* SHA-256; the method, path and operation id of an operation are one key. *)
(***************************************************************************)
EXTENDS Handlers

CONSTANTS
    Keys,       \* operations a spec may describe
    Slas,       \* SLAs a user may set on an endpoint
    NoSla       \* no SLA

Specs == (SUBSET Keys) \ {{}}
NoSpec == {}
MaybeSla == Slas \cup {NoSla}

SpecOps == {"createGroup", "updateSpec", "syncGroup", "createVersion"}
GroupOps == SpecOps \cup
    {"createEmpty", "updateGroup", "deleteGroup", "getSpec", "snapshotVersion",
     "restoreVersion", "createEndpoint", "updateEndpoint", "deleteEndpoint"}

ASSUME ApiGroupAssumption == NoSla \notin Slas

VARIABLES
    group,      \* the row of api_groups: its state and its spec_hash
    object,     \* the object under spec_key
    versions,   \* the rows of api_group_versions
    vobject,    \* version objects, by the request that stored them
    endpoints   \* the rows of api_endpoints that are not deleted

groupVars == <<group, object, versions, vobject, endpoints>>

Group == [state : {"absent", "live", "deleted"}, hash : SUBSET Keys]
Version == [id : Requests, number : Nat, hash : SUBSET Keys]
\* An endpoint's id is made of the request that inserted it, the key it had then
\* and whether it belongs to a version's snapshot or to the working copy.
EndpointId == Requests \X Keys \X BOOLEAN
Endpoint == [id : EndpointId, key : Keys, sla : MaybeSla]
Draft == [src : Keys, key : Keys, sla : MaybeSla]
GroupMemory == [spec : SUBSET Keys, hash : SUBSET Keys, eps : SUBSET Draft,
           retire : SUBSET EndpointId, ver : Requests \cup {NoMem},
           ep : Endpoint \cup {NoMem}]

GroupLive == group.state = "live"
Working == {e \in endpoints : ~e.id[3]}
Snapshot(v) == {e \in endpoints : e.id[3] /\ e.id[1] = v}
Numbers == {v.number : v \in versions}

(***************************************************************************)
(* The handlers, as the calls they make.                                   *)
(***************************************************************************)
\* Mutant: the version's object is stored after its row.
PublishRowFirst == <<"upload", "parse", "list", "clear", "publish", "vupload">>

\* publishAPIGroupVersion with a spec, and for the working copy as it is.
PublishSpec == <<"upload", "vupload", "parse", "list", "clear", "publish">>
PublishCopy == <<"download", "vupload", "publish">>

CreateGroupSteps == <<"create">> \o PublishSpec
CreateEmptySteps == <<"create">>
GetSpecSteps == <<"get", "download">>
UpdateGroupSteps == <<"get", "save">>
UpdateSpecSteps == <<"get">> \o PublishSpec
SyncSteps == <<"get">> \o PublishSpec
DeleteGroupSteps == <<"softDelete">>
VersionSteps == <<"get">> \o PublishSpec
SnapshotSteps == <<"get">> \o PublishCopy

RestoreSteps == <<"get", "getVersion", "vdownload", "vlist", "upload",
                  "vupload", "list", "clear", "publish">>

CreateEndpointSteps == <<"insertEndpoint">>
UpdateEndpointSteps == <<"getEndpoint", "saveEndpoint">>
DeleteEndpointSteps == <<"deleteEndpoint">>

GroupSteps(op) ==
    CASE op = "createGroup" -> CreateGroupSteps
      [] op = "createEmpty" -> CreateEmptySteps
      [] op = "getSpec" -> GetSpecSteps
      [] op = "updateGroup" -> UpdateGroupSteps
      [] op = "updateSpec" -> UpdateSpecSteps
      [] op = "syncGroup" -> SyncSteps
      [] op = "deleteGroup" -> DeleteGroupSteps
      [] op = "createVersion" -> VersionSteps
      [] op = "snapshotVersion" -> SnapshotSteps
      [] op = "restoreVersion" -> RestoreSteps
      [] op = "createEndpoint" -> CreateEndpointSteps
      [] op = "updateEndpoint" -> UpdateEndpointSteps
      [] op = "deleteEndpoint" -> DeleteEndpointSteps

GroupCalls == {"create", "get", "save", "softDelete", "upload", "vupload", "download",
          "vdownload", "parse", "list", "vlist", "clear", "publish", "getVersion",
          "insertEndpoint", "getEndpoint", "saveEndpoint", "deleteEndpoint"}

\* What a request of kind op may carry: a spec, or an endpoint's fields.
SpecInput(op) == IF op \in SpecOps THEN Specs ELSE {NoSpec}
DraftInput(op) == IF op \in {"createEndpoint", "updateEndpoint"}
                  THEN {{d} : d \in {x \in Draft : x.src = x.key}} ELSE {{}}

GroupInit ==
    /\ group = [state |-> "absent", hash |-> NoSpec]
    /\ object = NoSpec
    /\ versions = {}
    /\ vobject = [q \in Requests |-> NoSpec]
    /\ endpoints = {}

\* A group is created once, under a new UUID; the others name it afterwards.
GroupStart(q, op, spec, eps) ==
    /\ IF op \in {"createGroup", "createEmpty"} THEN \A p \in Requests : Op(p) = "none"
       ELSE group.state # "absent"
    /\ Arrives(q, op, GroupSteps(op), [spec |-> spec, hash |-> NoSpec, eps |-> eps,
                                  retire |-> {}, ver |-> NoMem, ep |-> NoMem])
    /\ UNCHANGED groupVars

(***************************************************************************)
(* The group's row.                                                        *)
(***************************************************************************)
CreateAPIGroup(q) ==
    /\ At(q, "create")
    /\ group' = [state |-> "live", hash |-> NoSpec]
    /\ Proceeds(q)
    /\ UNCHANGED <<object, versions, vobject, endpoints>>

\* An unchanged spec ends a sync and leaves an update with its metadata only;
\* a group without a spec has no working copy to publish or to show.
NothingToDo(q) ==
    \/ ~GroupLive
    \/ Op(q) = "syncGroup" /\ Mem(q).spec = group.hash
    \/ Op(q) \in {"snapshotVersion", "getSpec"} /\ group.hash = NoSpec

GetAPIGroup(q) ==
    /\ At(q, "get")
    /\ LET mem == [Mem(q) EXCEPT !.hash = group.hash] IN
       IF NothingToDo(q) THEN Ends(q)
       ELSE IF Op(q) = "updateSpec" /\ Mem(q).spec = group.hash
            THEN Goes(q, <<"save">>, mem)
            ELSE Keeps(q, mem)
    /\ UNCHANGED groupVars

\* Mutant: the row is written without the spec_hash that was read.
UpdateDropsHash(q) ==
    /\ At(q, "save")
    /\ group' = IF GroupLive THEN [group EXCEPT !.hash = NoSpec] ELSE group
    /\ Proceeds(q)
    /\ UNCHANGED <<object, versions, vobject, endpoints>>

\* Every column is written, spec_hash from the row the request read.
UpdateAPIGroup(q) ==
    /\ At(q, "save")
    /\ group' = IF GroupLive THEN [group EXCEPT !.hash = Mem(q).hash] ELSE group
    /\ Proceeds(q)
    /\ UNCHANGED <<object, versions, vobject, endpoints>>

SoftDeleteAPIGroup(q) ==
    /\ At(q, "softDelete")
    /\ group' = IF GroupLive THEN [group EXCEPT !.state = "deleted"] ELSE group
    /\ Proceeds(q)
    /\ UNCHANGED <<object, versions, vobject, endpoints>>

(***************************************************************************)
(* The spec objects.                                                       *)
(***************************************************************************)
UploadSpec(q) ==
    /\ At(q, "upload")
    /\ object' = Mem(q).spec
    /\ Keeps(q, [Mem(q) EXCEPT !.hash = Mem(q).spec])
    /\ UNCHANGED <<group, versions, vobject, endpoints>>

UploadVersionSpec(q) ==
    /\ At(q, "vupload")
    /\ vobject' = [vobject EXCEPT ![q] = Mem(q).spec]
    /\ Proceeds(q)
    /\ UNCHANGED <<group, object, versions, endpoints>>

DownloadSpec(q) ==
    /\ At(q, "download")
    /\ Keeps(q, [Mem(q) EXCEPT !.spec = object])
    /\ UNCHANGED groupVars

DownloadVersionSpec(q) ==
    /\ At(q, "vdownload")
    /\ Keeps(q, [Mem(q) EXCEPT !.spec = vobject[Mem(q).ver]])
    /\ UNCHANGED groupVars

\* One endpoint per operation; a spec that does not parse is an error, which
\* Aborts covers, after both objects have been written.
ParseSpecEndpoints(q) ==
    /\ At(q, "parse")
    /\ Keeps(q, [Mem(q) EXCEPT !.eps = {[src |-> k, key |-> k, sla |-> NoSla] :
                                        k \in Mem(q).spec}])
    /\ UNCHANGED groupVars

(***************************************************************************)
(* Publishing a version.                                                   *)
(***************************************************************************)
\* Mutant: the replacements are taken as the parser made them.
KeepFreshSLAs(existing, fresh) == fresh

\* preserveEndpointSLAs: the SLA an existing endpoint has goes to its
\* replacement, whatever SLA that one brings.
PreserveEndpointSLAs(existing, fresh) ==
    {LET slas == {e.sla : e \in {x \in existing : x.key = f.key}} \ {NoSla} IN
     [f EXCEPT !.sla = IF slas = {} THEN @ ELSE CHOOSE s \in slas : TRUE] : f \in fresh}

ListAPIEndpoints(q) ==
    /\ At(q, "list")
    /\ Keeps(q, [Mem(q) EXCEPT !.eps = PreserveEndpointSLAs(Working, @)])
    /\ UNCHANGED groupVars

\* An error of ListAPIEndpoints is ignored.
ListFails(q) ==
    /\ At(q, "list")
    /\ Skips(q)
    /\ UNCHANGED groupVars

\* Mutant: the UPDATE does not ask for api_group_version_id IS NULL.
ClearEveryEndpoint(q) ==
    /\ At(q, "clear")
    /\ Keeps(q, [Mem(q) EXCEPT !.retire = {e.id : e \in endpoints}])
    /\ UNCHANGED groupVars

\* The transaction's UPDATE retires the endpoints it sees.  It waits for a
\* publish that holds them and does not see what that one inserts.
ClearEndpoints(q) ==
    /\ At(q, "clear")
    /\ Keeps(q, [Mem(q) EXCEPT !.retire = {e.id : e \in Working}])
    /\ UNCHANGED groupVars

\* insertAPIEndpointTx for the working copy, and the copy of it that becomes
\* version q's snapshot.
Inserted(q, eps) == {[id |-> <<q, d.src, FALSE>>, key |-> d.key, sla |-> d.sla] :
                     d \in eps}
Copied(q, all) == {[e EXCEPT !.id = <<q, e.key, TRUE>>] : e \in {x \in all : ~x.id[3]}}

\* Mutant: the number of the latest version, 0 when there is none.
LatestNumber == {n \in {0} \cup Numbers : \A m \in Numbers : m <= n}

\* COALESCE(MAX(version_number),0)+1.
NextNumber == {n \in {1} \cup {m + 1 : m \in Numbers} : \A m \in Numbers : m < n}

\* Mutant: idx_api_endpoints_working_copy_unique is missing.
NeverConflicts(kept, new) == FALSE

\* idx_api_endpoints_working_copy_unique.
Conflicts(kept, new) ==
    \E f \in new, e \in kept \cup new : e # f /\ ~e.id[3] /\ e.key = f.key

\* The rest of the transaction: endpoints, number, version row, snapshot and
\* group row.  A working-copy endpoint with the same key that the clear did
\* not see, or a snapshot that was edited to hold one twice, violates the
\* unique index and rolls everything back.
PublishAPIGroupVersion(q) ==
    /\ At(q, "publish")
    /\ LET kept == {e \in endpoints : e.id \notin Mem(q).retire}
           new == Inserted(q, Mem(q).eps) IN
       IF Conflicts(kept, new)
       THEN Ends(q) /\ UNCHANGED groupVars
       ELSE /\ \E n \in NextNumber : versions' = versions \cup
                  {[id |-> q, number |-> n, hash |-> Mem(q).hash]}
            /\ endpoints' = kept \cup new \cup Copied(q, kept \cup new)
            /\ group' = IF GroupLive THEN [group EXCEPT !.hash = Mem(q).hash] ELSE group
            /\ Proceeds(q)
            /\ UNCHANGED <<object, vobject>>

\* RestoreAPIGroupVersion looks its version up; only the id is kept.
GetAPIGroupVersion(q) ==
    /\ At(q, "getVersion")
    /\ \/ versions = {} /\ Ends(q)
       \/ \E v \in versions : Keeps(q, [Mem(q) EXCEPT !.ver = v.id])
    /\ UNCHANGED groupVars

ListAPIEndpointsForVersion(q) ==
    /\ At(q, "vlist")
    /\ Keeps(q, [Mem(q) EXCEPT !.eps = {[src |-> e.id[2], key |-> e.key, sla |-> e.sla] :
                                        e \in Snapshot(Mem(q).ver)}])
    /\ UNCHANGED groupVars

(***************************************************************************)
(* Single endpoints: any id the client knows, a snapshot's too.            *)
(***************************************************************************)
\* The group is not looked up; a key that is taken is an error.
CreateAPIEndpoint(q) ==
    /\ At(q, "insertEndpoint")
    /\ LET new == Inserted(q, Mem(q).eps) IN
       endpoints' = IF Conflicts(endpoints, new) THEN endpoints
                    ELSE endpoints \cup new
    /\ Proceeds(q)
    /\ UNCHANGED <<group, object, versions, vobject>>

\* The whole row is read and the given fields replaced: no SLA keeps the SLA.
GetAPIEndpoint(q) ==
    /\ At(q, "getEndpoint")
    /\ \/ endpoints = {} /\ Ends(q)
       \/ \E e \in endpoints, d \in Mem(q).eps :
             Keeps(q, [Mem(q) EXCEPT !.ep = [id |-> e.id, key |-> d.key,
                          sla |-> IF d.sla = NoSla THEN e.sla ELSE d.sla]])
    /\ UNCHANGED groupVars

UpdateAPIEndpoint(q) ==
    /\ At(q, "saveEndpoint")
    /\ LET ep == Mem(q).ep
           others == {e \in endpoints : e.id # ep.id} IN
       endpoints' = IF others = endpoints \/ (~ep.id[3] /\ Conflicts(others, {ep}))
                    THEN endpoints ELSE others \cup {ep}
    /\ Proceeds(q)
    /\ UNCHANGED <<group, object, versions, vobject>>

SoftDeleteAPIEndpoint(q) ==
    /\ At(q, "deleteEndpoint")
    /\ endpoints' \in {endpoints \ {e} : e \in endpoints} \cup {endpoints}
    /\ Proceeds(q)
    /\ UNCHANGED <<group, object, versions, vobject>>

(***************************************************************************)
(* The system.                                                             *)
(***************************************************************************)
GroupStep(q) ==
    \/ CreateAPIGroup(q) \/ GetAPIGroup(q) \/ UpdateAPIGroup(q) \/ SoftDeleteAPIGroup(q)
ObjectStep(q) ==
    \/ UploadSpec(q) \/ UploadVersionSpec(q) \/ DownloadSpec(q)
    \/ DownloadVersionSpec(q) \/ ParseSpecEndpoints(q)
PublishStep(q) ==
    \/ ListAPIEndpoints(q) \/ ListFails(q) \/ ClearEndpoints(q)
    \/ PublishAPIGroupVersion(q) \/ GetAPIGroupVersion(q) \/ ListAPIEndpointsForVersion(q)
EndpointStep(q) ==
    \/ CreateAPIEndpoint(q) \/ GetAPIEndpoint(q) \/ UpdateAPIEndpoint(q)
    \/ SoftDeleteAPIEndpoint(q)

ApiStep(q) == GroupStep(q) \/ ObjectStep(q) \/ PublishStep(q) \/ EndpointStep(q)

GroupNext(q, ops) ==
    \/ \E op \in ops \cap GroupOps : \E s \in SpecInput(op), eps \in DraftInput(op) :
          GroupStart(q, op, s, eps)
    \/ ApiStep(q)

(***************************************************************************)
(* Properties.                                                             *)
(***************************************************************************)
GroupTypeOK ==
    /\ group \in Group
    /\ object \in SUBSET Keys
    /\ versions \in SUBSET Version
    /\ vobject \in [Requests -> SUBSET Keys]
    /\ endpoints \in SUBSET Endpoint

\* However syncs, updates, releases and restores overlap and fail, the
\* versions of the group are a log: numbered without a gap or a repetition,
\* extended at the end only and never rewritten.
Log == INSTANCE VersionLog WITH
          Docs <- {"group"}, Values <- SUBSET Keys,
          log <- {[doc |-> "group", number |-> v.number, value |-> v.hash] : v \in versions}
RefinesVersionLog == Log!Spec

\* A version published from a spec has its object, and the object is the spec
\* the version's spec_hash names, whoever overwrites the working copy's object
\* meanwhile.
VersionObjectIntact ==
    \A v \in versions :
        /\ vobject[v.id] # NoSpec
        /\ Op(v.id) # "snapshotVersion" => vobject[v.id] = v.hash

\* migrations/0039: "exactly one live working-copy row per (method, path)",
\* although a publish does not see what another one inserts after its clear.
WorkingCopyUnique == \A e, f \in Working : e.key = f.key => e = f

\* "Earlier versions are untouched" (RestoreAPIGroupVersion): no publish
\* changes a snapshot taken before; only a request on one of the snapshot's
\* own endpoints does.
EarlierVersionsUntouched ==
    [][\A v \in versions :
          \/ Snapshot(v.id)' = Snapshot(v.id)
          \/ \E q \in Requests : At(q, "saveEndpoint") \/ At(q, "deleteEndpoint")]_endpoints

\* After any sequence of requests that did not overlap and did not fail, the
\* group's spec_hash, its object and its latest version name the same spec.
\* (Restoring a version whose endpoints were edited to hold an operation twice
\* is rolled back after the object was written, so edits and restores are not
\* taken together.)
Requested(op) == \E q \in Requests : Op(q) = op
WorkingCopyConsistent ==
    clean /\ Quiet /\ ~(Requested("updateEndpoint") /\ Requested("restoreVersion")) =>
        /\ GroupLive => group.hash = object
        /\ GroupLive /\ object # NoSpec =>
              \E v \in versions : v.hash = object /\ \A u \in versions : u.number <= v.number

\* "a spec re-sync must not silently drop" an SLA (preserveEndpointSLAs): as
\* long as requests do not overlap, publishing keeps the SLA of every
\* operation that is still there.
SlaSurvivesPublish ==
    [][clean /\ versions' # versions =>
          \A e \in Working : e.sla # NoSla /\ (\E f \in Working' : f.key = e.key)
              => \E f \in Working' : f.key = e.key /\ f.sla = e.sla]_<<groupVars, proc, clean>>

==============================================================================
