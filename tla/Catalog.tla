------------------------------ MODULE Catalog ------------------------------
(***************************************************************************)
(* The service catalog's two halves over one server: the services with     *)
(* their dependencies, and an API group of one of them.  Neither reads the *)
(* other's rows, so a behaviour draws its requests from one workload, a    *)
(* set of operations, and starts with rows of the tables these touch.      *)
(***************************************************************************)
EXTENDS ApiGroup, ServiceCatalog

CONSTANT
    Workloads   \* sets of operations; bound: a behaviour keeps to one of them

VARIABLE workload

vars == <<proc, clean, groupVars, serviceVars, workload>>

Init ==
    /\ workload \in Workloads
    /\ ReqsInit
    /\ GroupInit
    /\ ServicesInit
    /\ workload \cap ServiceOps = {} => LiveServices = {}

Next ==
    /\ \E q \in Requests :
         \/ GroupNext(q, workload) /\ UNCHANGED serviceVars
         \/ ServiceNext(q, workload) /\ UNCHANGED groupVars
         \/ Aborts(q) /\ UNCHANGED <<groupVars, serviceVars>>
    /\ UNCHANGED workload

Spec == Init /\ [][Next]_vars

(***************************************************************************)
(* Properties.                                                             *)
(***************************************************************************)
\* The rows, the objects and what each request holds have the types of the
\* database columns and of the handlers' variables.
TypeOK ==
    /\ ReqsType(GroupOps \cup ServiceOps, GroupCalls \cup ServiceCalls,
                GroupMemory \cup ServiceMemory)
    /\ GroupTypeOK
    /\ ServicesTypeOK

\* Publishing leaves alone what it is not about: the snapshots of earlier
\* versions, and the SLAs of the operations that are still there.
PublishKeeps == EarlierVersionsUntouched /\ SlaSurvivesPublish

\* The working copy, the versions and the stored specs agree: a version has the
\* spec its hash names, an operation has one endpoint in the working copy, and
\* what was published last is what the group has.
SpecsAgree == VersionObjectIntact /\ WorkingCopyUnique /\ WorkingCopyConsistent

\* The dependencies are sound, and shown as they are: none of a service on
\* itself, one per name, a ghost only where there is no such service; and the
\* graph has what is within the depth asked for and nothing else, cycles and
\* ghosts included.
DependenciesSound ==
    /\ NoSelfDependency /\ OneDependencyPerName /\ GhostMeansMissing
    /\ GraphShowsWalk /\ WalkReachesAll
=============================================================================
