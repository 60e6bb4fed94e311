--------------------------- MODULE ServiceCatalog ---------------------------
(***************************************************************************)
(* The services of one organisation and the dependencies between them.     *)
(* A dependency names its provider; it is linked to the active service of  *)
(* that name, or is a ghost when there is none.  A dependency's own name   *)
(* is identified with its provider's, so a service has one per provider.   *)
(***************************************************************************)
EXTENDS Handlers

CONSTANTS
    Ids,        \* service ids, numbered as they are made; bound: so many services
    Names,      \* service names
    Ghost,      \* dependency_id IS NULL
    NoName,     \* the name of a service that does not exist yet
    MaxServices,\* the plan's limit
    MaxDepth,   \* bound: depth of the dependency walks checked
    SyncSize    \* bound: dependencies one sync lists

ServiceOps == {"createService", "updateService", "deleteService", "syncDependencies"}
Directions == {"upstream", "downstream"}

ASSUME ServiceCatalogAssumption ==
    /\ Ids \subseteq Nat /\ IsFiniteSet(Ids) /\ Ghost \notin Ids
    /\ NoName \notin Names
    /\ MaxServices \in Nat /\ MaxDepth \in Nat /\ SyncSize \in Nat

VARIABLES
    services,   \* the rows of services
    deps,       \* the rows of service_dependencies that are not deleted
    failedOpen  \* history: the plan's limit could not be read once

serviceVars == <<services, deps, failedOpen>>

Service == [state : {"absent", "live", "deleted"}, name : Names \cup {NoName},
            active : BOOLEAN]
Dependency == [src : Ids, name : Names, dir : Directions, to : Ids \cup {Ghost}]
Wish == [name : Names, dir : Directions]
ServiceMemory == [id : Ids, row : Service, given : SUBSET {"name", "active"}, wishes : SUBSET Wish,
           found : SUBSET Dependency, retire : SUBSET Names]

Live(i) == services[i].state = "live"
Active(i) == Live(i) /\ services[i].active
LiveServices == {i \in Ids : Live(i)}
Named(n) == {i \in Ids : Active(i) /\ services[i].name = n}

\* Mutant: no service found is an empty name, not NULL.
ResolvedToName(n) == IF Named(n) = {} THEN {NoName} ELSE Named(n)

Resolved(n) == IF Named(n) = {} THEN {Ghost} ELSE Named(n)

(***************************************************************************)
(* The handlers, as the calls they make.                                   *)
(***************************************************************************)
CreateServiceSteps == <<"count", "insert">>
UpdateServiceSteps == <<"getService", "saveService">>
DeleteServiceSteps == <<"deleteRow">>
SyncDependenciesSteps == <<"getService", "clearDependencies", "resolve", "commit">>

ServiceSteps(op) ==
    CASE op = "createService" -> CreateServiceSteps
      [] op = "updateService" -> UpdateServiceSteps
      [] op = "deleteService" -> DeleteServiceSteps
      [] op = "syncDependencies" -> SyncDependenciesSteps

ServiceCalls == {"count", "insert", "getService", "saveService", "deleteRow", "clearDependencies", "resolve", "commit"}

\* A sync lists each dependency name once.
WishInput(op) == IF op = "syncDependencies"
                 THEN {w \in SUBSET Wish : /\ Cardinality(w) <= SyncSize
                                          /\ \A a, b \in w : a.name = b.name => a = b}
                 ELSE {{}}

\* An update gives some of the fields.
GivenInput(op) ==
    CASE op = "createService" -> {{"name", "active"}}
      [] op = "updateService" -> {{"name"}, {"active"}}
      [] OTHER -> {{}}
RowInput(given) ==
    [state : {"live"},
     name : IF "name" \in given THEN Names ELSE {NoName},
     active : IF "active" \in given THEN BOOLEAN ELSE {TRUE}]

\* The organisation may already have services; they are active.
ServicesInit ==
    /\ services \in [Ids -> {s \in Service : s.state # "deleted" /\ s.active}]
    /\ \A i, j \in LiveServices : services[i].name = services[j].name => i = j
    /\ \A i \in Ids : (services[i].name = NoName) <=> ~Live(i)
    /\ \A i \in LiveServices, j \in Ids : j < i => Live(j)
    /\ Cardinality(LiveServices) <= MaxServices
    /\ deps = {}
    /\ failedOpen = FALSE

\* An id is used once.
Taken(i) == services[i].state # "absent" \/ \E p \in Requests : Busy(p) /\ Mem(p).id = i

ServiceStart(q, op, i, row, given, wishes) ==
    /\ IF op = "createService" THEN ~Taken(i) ELSE services[i].state # "absent"
    /\ op = "createService" => \A j \in Ids : j < i => Taken(j)
    /\ Arrives(q, op, ServiceSteps(op), [id |-> i, row |-> row, given |-> given,
                                  wishes |-> wishes, found |-> {}, retire |-> {}])
    /\ UNCHANGED serviceVars

(***************************************************************************)
(* Services.                                                               *)
(***************************************************************************)
\* Mutant: the limit may be passed by one.
LimitOffByOne == Cardinality(LiveServices) > MaxServices

\* ResourceLimitReached, on the count ListServices returned just before.
LimitReached == Cardinality(LiveServices) >= MaxServices

CheckLimit(q) ==
    /\ At(q, "count")
    /\ IF LimitReached THEN Ends(q) ELSE Proceeds(q)
    /\ UNCHANGED serviceVars

\* The plan cannot be read: the check fails open.
LimitUnknown(q) ==
    /\ At(q, "count")
    /\ Skips(q)
    /\ failedOpen' = TRUE
    /\ UNCHANGED <<services, deps>>

\* idx_services_org_name.
NameTaken(i, n) == \E j \in LiveServices \ {i} : services[j].name = n

\* Mutant: the new service does not adopt the ghosts of its name.
AdoptsNothing(i, row) == deps

\* A new active service takes over the ghosts that name it.
Adopted(i, row) ==
    {[d EXCEPT !.to = IF row.active /\ @ = Ghost /\ d.name = row.name /\ d.src # i
                      THEN i ELSE @] : d \in deps}

CreateService(q) ==
    /\ At(q, "insert")
    /\ LET i == Mem(q).id
           row == Mem(q).row IN
       IF NameTaken(i, row.name) THEN UNCHANGED serviceVars
       ELSE /\ services' = [services EXCEPT ![i] = row]
            /\ deps' = Adopted(i, row)
            /\ UNCHANGED failedOpen
    /\ Proceeds(q)

\* ensureServiceInOrg, and the read of Update, which keeps what is not given.
Merged(mem) ==
    [state |-> "live",
     name |-> IF "name" \in mem.given THEN mem.row.name ELSE services[mem.id].name,
     active |-> IF "active" \in mem.given THEN mem.row.active ELSE services[mem.id].active]

GetService(q) ==
    /\ At(q, "getService")
    /\ IF Live(Mem(q).id) THEN Keeps(q, [Mem(q) EXCEPT !.row = Merged(Mem(q))]) ELSE Ends(q)
    /\ UNCHANGED serviceVars

\* Dependencies do not follow a rename or a change of status.
UpdateService(q) ==
    /\ At(q, "saveService")
    /\ services' = IF NameTaken(Mem(q).id, Mem(q).row.name) \/ ~Live(Mem(q).id) THEN services
                   ELSE [services EXCEPT ![Mem(q).id] = Mem(q).row]
    /\ Proceeds(q)
    /\ UNCHANGED <<deps, failedOpen>>

SoftDeleteService(q) ==
    /\ At(q, "deleteRow")
    /\ services' = [services EXCEPT ![Mem(q).id].state =
                       IF @ = "live" THEN "deleted" ELSE @]
    /\ Proceeds(q)
    /\ UNCHANGED <<deps, failedOpen>>

(***************************************************************************)
(* SyncServiceDependencies, one transaction.  Its statements see what was  *)
(* committed when they began; its writes are seen when it commits.         *)
(***************************************************************************)
ClearDependencies(q) ==
    /\ At(q, "clearDependencies")
    /\ Keeps(q, [Mem(q) EXCEPT !.retire = {d.name : d \in {x \in deps : x.src = Mem(q).id}}])
    /\ UNCHANGED serviceVars

\* Mutant: a dependency may name its own service.
NeverSelf(i, t) == FALSE

\* ErrInvalidDependency.
IsSelf(i, t) == t = i

\* One SELECT per dependency; its own service is an error and a rollback.
ResolveDependency(q) ==
    /\ At(q, "resolve")
    /\ LET mem == Mem(q) IN
       \/ mem.wishes = {} /\ Proceeds(q)
       \/ \E w \in mem.wishes : \E t \in Resolved(w.name) :
             IF IsSelf(mem.id, t) THEN Ends(q)
             ELSE Goes(q, proc[q].todo, [mem EXCEPT !.wishes = @ \ {w}, !.found = @ \cup
                       {[src |-> mem.id, name |-> w.name, dir |-> w.dir, to |-> t]}])
    /\ UNCHANGED serviceVars

\* Mutant: a plain INSERT.
OnlyRetired(mem) == mem.retire

\* The cleared rows and, ON CONFLICT (service_id, name) DO UPDATE, the rows that
\* another sync inserted under the same name.
Replaced(mem) == mem.retire \cup {f.name : f \in mem.found}

CommitDependencies(q) ==
    /\ At(q, "commit")
    /\ LET mem == Mem(q) IN
       deps' = {d \in deps : d.src # mem.id \/ d.name \notin Replaced(mem)} \cup mem.found
    /\ Proceeds(q)
    /\ UNCHANGED <<services, failedOpen>>

(***************************************************************************)
(* The dependency graph of a service.                                      *)
(***************************************************************************)
\* What d says to a reader: deleted and inactive providers show as ghosts.
Shown(d) == IF d.to # Ghost /\ Active(d.to) THEN d.to ELSE Ghost

\* The walk follows the service's own dependencies of the opposite direction
\* and the dependencies of the asked direction that others have on it.
Beside(i, dir) ==
    {j \in Ids : Active(j) /\ \E d \in deps :
        \/ d.src = i /\ d.dir # dir /\ d.to = j
        \/ d.src # i /\ d.to = i /\ d.dir = dir /\ d.src = j}

\* Mutant: the walk stops one edge short of the depth asked for.
WalkShort(i, dir, depth) == {i} \cup IF depth > 1 THEN Beside(i, dir) ELSE {}

\* The recursive query: paths without a repeated service, up to depth edges.
Walk(i, dir, depth) ==
    LET W[n \in 0..depth] ==
            IF n = 0 THEN {<<i>>}
            ELSE W[n - 1] \cup UNION {{Append(p, j) : j \in
                     Beside(p[Len(p)], dir) \ {p[k] : k \in DOMAIN p}} :
                     p \in {r \in W[n - 1] : Len(r) = n}}
    IN {p[Len(p)] : p \in W[depth]}

\* Mutant: only edges whose provider was reached, so a dependency on the asked
\* service is missing when that one is inactive.
GraphWithoutGhosts(i, dir, depth) ==
    LET allowed == Walk(i, dir, depth) IN
    {d \in deps : d.src \in allowed /\ Shown(d) \in allowed}

DependencyGraph(i, dir, depth) ==
    LET allowed == Walk(i, dir, depth) IN
    {d \in deps : d.src \in allowed /\ (Shown(d) = Ghost \/ Shown(d) \in allowed)}

(***************************************************************************)
(* The system.                                                             *)
(***************************************************************************)
ServiceStep(q) ==
    \/ CheckLimit(q) \/ LimitUnknown(q) \/ CreateService(q) \/ GetService(q)
    \/ UpdateService(q) \/ SoftDeleteService(q)
    \/ ClearDependencies(q) \/ ResolveDependency(q) \/ CommitDependencies(q)

ServiceNext(q, ops) ==
    \/ \E op \in ops \cap ServiceOps, i \in Ids :
          \E given \in GivenInput(op), w \in WishInput(op) : \E row \in RowInput(given) :
             ServiceStart(q, op, i, row, given, w)
    \/ ServiceStep(q)

(***************************************************************************)
(* Properties.                                                             *)
(***************************************************************************)
ServicesTypeOK ==
    /\ services \in [Ids -> Service]
    /\ deps \in SUBSET Dependency
    /\ failedOpen \in BOOLEAN

\* No service ends up depending on itself: neither through a sync that names
\* it, nor through the ghosts a new service adopts, whatever was renamed,
\* deactivated or deleted meanwhile (ErrInvalidDependency).
NoSelfDependency == \A d \in deps : d.to # d.src

\* A service has one dependency per name although two syncs of it overlap and
\* the second does not see what the first inserts.
OneDependencyPerName ==
    \A d, e \in deps : d.src = e.src /\ d.name = e.name => d = e

\* The limit is counted and the service inserted in separate statements: the
\* services, with those about to be inserted, pass the plan's limit by less
\* than the requests that can be under way, unless the check failed open, and
\* not at all as long as requests come one after the other.
Pending == {q \in Requests : At(q, "insert")}
LimitOvershootBounded ==
    failedOpen \/ Cardinality(LiveServices) + Cardinality(Pending)
                      <= IF clean THEN MaxServices ELSE MaxServices + InFlight - 1

\* As long as requests do not overlap and no service is renamed or changes its
\* status, a dependency is a ghost only while no active service has its name.
GhostMeansMissing ==
    clean /\ Quiet /\ (\A q \in Requests : Op(q) # "updateService") =>
        \A d \in deps : d.to = Ghost => Named(d.name) \subseteq {d.src}

\* The graph of a service contains what the walk reaches and nothing else: an
\* edge to every service other than the asked one, both of its ends reached.
\* (Any tables that can be committed are also there with no request under way.)
GraphShowsWalk ==
    Quiet => \A i \in LiveServices, dir \in Directions, depth \in 1..MaxDepth :
        LET graph == DependencyGraph(i, dir, depth)
            ends == UNION {{d.src, d.to} : d \in graph} IN
        /\ Walk(i, dir, depth) \ {i} \subseteq ends
        /\ {j \in ends \cap Ids : Active(j)} \subseteq Walk(i, dir, depth) \cup {i}

\* What the walk reaches is what is within the depth asked for: the paths that
\* the query drops because they repeat a service hide nothing.
WalkReachesAll ==
    Quiet => \A i \in LiveServices, dir \in Directions :
        LET Near[n \in 0..MaxDepth] ==
                IF n = 0 THEN {i}
                ELSE Near[n - 1] \cup UNION {Beside(j, dir) : j \in Near[n - 1]}
        IN \A n \in 0..MaxDepth : Walk(i, dir, n) = Near[n]
==============================================================================
