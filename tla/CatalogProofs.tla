---------------------------- MODULE CatalogProofs ----------------------------
(***************************************************************************)
(* Theorems about Catalog, for every set of requests, operations, keys,    *)
(* services and names, and whatever overlaps or fails: about API groups    *)
(* and their versions, then about services, their dependencies and the     *)
(* limit of the plan.                                                      *)
(***************************************************************************)
EXTENDS Catalog, SequenceTheorems, FiniteSetTheorems, TLAPS

-----------------------------------------------------------------------------
(* The order of a handler's calls.                                          *)

\* Which call of the handlers may come right after which.
CallOrder ==
    {<<"create", "upload">>, <<"get", "upload">>, <<"get", "download">>, <<"get", "save">>,
     <<"get", "getVersion">>, <<"getVersion", "vdownload">>, <<"vdownload", "vlist">>,
     <<"vlist", "upload">>, <<"upload", "vupload">>, <<"download", "vupload">>,
     <<"vupload", "parse">>, <<"vupload", "list">>, <<"vupload", "publish">>,
     <<"parse", "list">>, <<"list", "clear">>, <<"clear", "publish">>,
     <<"getEndpoint", "saveEndpoint">>,
     <<"count", "insert">>, <<"getService", "saveService">>,
     <<"getService", "clearDependencies">>, <<"clearDependencies", "resolve">>,
     <<"resolve", "commit">>}

\* Which call may be a handler's last one.
LastCalls == {"create", "download", "save", "softDelete", "publish", "insertEndpoint",
              "saveEndpoint", "deleteEndpoint", "insert", "saveService", "deleteRow", "commit"}

\* The calls a request has left follow one another in that order.
InOrder(t) ==
    /\ \A i \in 1..(Len(t) - 1) : <<t[i], t[i + 1]>> \in CallOrder
    /\ t # <<>> => t[Len(t)] \in LastCalls

Calls == GroupCalls \cup ServiceCalls

\* What is left after the call at hand is in order too, and begins with a call
\* that may follow it.
LEMMA TailInOrder ==
    ASSUME NEW S, NEW t \in Seq(S), t # <<>>, InOrder(t)
    PROVE  /\ Tail(t) \in Seq(S) /\ InOrder(Tail(t))
           /\ Tail(t) # <<>> => <<Head(t), Head(Tail(t))>> \in CallOrder
           /\ Tail(t) = <<>> => Head(t) \in LastCalls
<1>1. /\ Tail(t) \in Seq(S) /\ Len(Tail(t)) = Len(t) - 1
      /\ \A i \in 1..Len(Tail(t)) : Tail(t)[i] = t[i + 1]
  OBVIOUS
<1>2. \A i \in 1..(Len(Tail(t)) - 1) : <<Tail(t)[i], Tail(t)[i + 1]>> \in CallOrder
  BY <1>1 DEF InOrder
<1>3. Tail(t) # <<>> => Tail(t)[Len(Tail(t))] = t[Len(t)]
  BY <1>1
<1> HIDE DEF CallOrder, LastCalls
<1>4. InOrder(Tail(t))
  BY <1>2, <1>3 DEF InOrder
<1>5. Tail(t) # <<>> => Head(t) = t[1] /\ Head(Tail(t)) = t[2] /\ 1 \in 1..(Len(t) - 1)
  BY <1>1
<1>6. Tail(t) = <<>> => Head(t) = t[Len(t)]
  BY <1>1
<1> QED BY <1>1, <1>4, <1>5, <1>6 DEF InOrder

\* Which call of the API group's handlers may be the first one.
FirstCalls == {"create", "get", "softDelete", "insertEndpoint", "getEndpoint",
               "deleteEndpoint"}

\* The handlers' lists are in order.
LEMMA GroupStepsInOrder ==
    ASSUME NEW op \in GroupOps
    PROVE  /\ GroupSteps(op) \in Seq(GroupCalls) /\ GroupSteps(op) # <<>> /\ InOrder(GroupSteps(op))
           /\ Head(GroupSteps(op)) \in FirstCalls
<1>1. /\ CreateGroupSteps \in Seq(GroupCalls) /\ CreateGroupSteps # <<>>
      /\ InOrder(CreateGroupSteps) /\ Head(CreateGroupSteps) \in FirstCalls
  BY DEF CreateGroupSteps, PublishSpec, GroupCalls, InOrder, CallOrder, LastCalls, FirstCalls
<1>2. /\ <<"get">> \o PublishSpec \in Seq(GroupCalls) /\ <<"get">> \o PublishSpec # <<>>
      /\ InOrder(<<"get">> \o PublishSpec) /\ Head(<<"get">> \o PublishSpec) \in FirstCalls
  BY DEF PublishSpec, GroupCalls, InOrder, CallOrder, LastCalls, FirstCalls
<1>3. /\ <<"get">> \o PublishCopy \in Seq(GroupCalls) /\ <<"get">> \o PublishCopy # <<>>
      /\ InOrder(<<"get">> \o PublishCopy) /\ Head(<<"get">> \o PublishCopy) \in FirstCalls
  BY DEF PublishCopy, GroupCalls, InOrder, CallOrder, LastCalls, FirstCalls
<1>4. /\ RestoreSteps \in Seq(GroupCalls) /\ RestoreSteps # <<>>
      /\ InOrder(RestoreSteps) /\ Head(RestoreSteps) \in FirstCalls
  BY DEF RestoreSteps, GroupCalls, InOrder, CallOrder, LastCalls, FirstCalls
<1>5. /\ CreateEmptySteps \in Seq(GroupCalls) /\ CreateEmptySteps # <<>>
      /\ InOrder(CreateEmptySteps) /\ Head(CreateEmptySteps) \in FirstCalls
  BY DEF CreateEmptySteps, GroupCalls, InOrder, CallOrder, LastCalls, FirstCalls
<1>6. /\ GetSpecSteps \in Seq(GroupCalls) /\ GetSpecSteps # <<>>
      /\ InOrder(GetSpecSteps) /\ Head(GetSpecSteps) \in FirstCalls
  BY DEF GetSpecSteps, GroupCalls, InOrder, CallOrder, LastCalls, FirstCalls
<1>7. /\ UpdateGroupSteps \in Seq(GroupCalls) /\ UpdateGroupSteps # <<>>
      /\ InOrder(UpdateGroupSteps) /\ Head(UpdateGroupSteps) \in FirstCalls
  BY DEF UpdateGroupSteps, GroupCalls, InOrder, CallOrder, LastCalls, FirstCalls
<1>8. /\ DeleteGroupSteps \in Seq(GroupCalls) /\ DeleteGroupSteps # <<>>
      /\ InOrder(DeleteGroupSteps) /\ Head(DeleteGroupSteps) \in FirstCalls
  BY DEF DeleteGroupSteps, GroupCalls, InOrder, CallOrder, LastCalls, FirstCalls
<1>9. /\ CreateEndpointSteps \in Seq(GroupCalls) /\ CreateEndpointSteps # <<>>
      /\ InOrder(CreateEndpointSteps) /\ Head(CreateEndpointSteps) \in FirstCalls
  BY DEF CreateEndpointSteps, GroupCalls, InOrder, CallOrder, LastCalls, FirstCalls
<1>10. /\ UpdateEndpointSteps \in Seq(GroupCalls) /\ UpdateEndpointSteps # <<>>
       /\ InOrder(UpdateEndpointSteps) /\ Head(UpdateEndpointSteps) \in FirstCalls
  BY DEF UpdateEndpointSteps, GroupCalls, InOrder, CallOrder, LastCalls, FirstCalls
<1>11. /\ DeleteEndpointSteps \in Seq(GroupCalls) /\ DeleteEndpointSteps # <<>>
       /\ InOrder(DeleteEndpointSteps) /\ Head(DeleteEndpointSteps) \in FirstCalls
  BY DEF DeleteEndpointSteps, GroupCalls, InOrder, CallOrder, LastCalls, FirstCalls
<1> QED
  BY <1>1, <1>2, <1>3, <1>4, <1>5, <1>6, <1>7, <1>8, <1>9, <1>10, <1>11
     DEF GroupSteps, GroupOps, SpecOps, UpdateSpecSteps, SyncSteps, VersionSteps, SnapshotSteps

\* So are those of the service handlers.
LEMMA ServiceStepsInOrder ==
    ASSUME NEW op \in ServiceOps
    PROVE  /\ ServiceSteps(op) \in Seq(ServiceCalls) /\ ServiceSteps(op) # <<>>
           /\ InOrder(ServiceSteps(op))
<1>1. /\ CreateServiceSteps \in Seq(ServiceCalls) /\ CreateServiceSteps # <<>>
      /\ InOrder(CreateServiceSteps)
  BY DEF CreateServiceSteps, ServiceCalls, InOrder, CallOrder, LastCalls
<1>2. /\ UpdateServiceSteps \in Seq(ServiceCalls) /\ UpdateServiceSteps # <<>>
      /\ InOrder(UpdateServiceSteps)
  BY DEF UpdateServiceSteps, ServiceCalls, InOrder, CallOrder, LastCalls
<1>3. /\ DeleteServiceSteps \in Seq(ServiceCalls) /\ DeleteServiceSteps # <<>>
      /\ InOrder(DeleteServiceSteps)
  BY DEF DeleteServiceSteps, ServiceCalls, InOrder, CallOrder, LastCalls
<1>4. /\ SyncDependenciesSteps \in Seq(ServiceCalls) /\ SyncDependenciesSteps # <<>>
      /\ InOrder(SyncDependenciesSteps)
  BY DEF SyncDependenciesSteps, ServiceCalls, InOrder, CallOrder, LastCalls
<1> QED BY <1>1, <1>2, <1>3, <1>4 DEF ServiceSteps, ServiceOps

-----------------------------------------------------------------------------
(* Type correctness.  The type of what a request holds depends on the call  *)
(* it is at: a restore has read its version when it lists the endpoints, an *)
(* update has read its endpoint when it saves it.                           *)

GroupHeld(t, mem) ==
    /\ mem \in GroupMemory
    /\ Head(t) \in {"vdownload", "vlist"} => mem.ver \in Requests
    /\ Head(t) = "saveEndpoint" => mem.ep \in Endpoint

Held(q) ==
    Busy(q) =>
        /\ InOrder(proc[q].todo)
        /\ \/ /\ Op(q) \in GroupOps /\ proc[q].todo \in Seq(GroupCalls)
              /\ GroupHeld(proc[q].todo, Mem(q))
           \/ /\ Op(q) \in ServiceOps /\ proc[q].todo \in Seq(ServiceCalls)
              /\ Mem(q) \in ServiceMemory

ProcsOK ==
    /\ ReqsType(GroupOps \cup ServiceOps, GroupCalls \cup ServiceCalls,
                GroupMemory \cup ServiceMemory)
    /\ \A q \in Requests : Held(q)

TypeInv == TypeOK /\ \A q \in Requests : Held(q)

\* No call is made by both kinds of handlers.
LEMMA CallsApart == GroupCalls \cap ServiceCalls = {}
BY DEF GroupCalls, ServiceCalls

\* What a step of q leaves in proc: its operation, the calls left, what it holds.
Becomes(q, op, t, m) ==
    /\ proc' = [proc EXCEPT ![q] = [op |-> op, todo |-> t, mem |-> m]]
    /\ clean' \in BOOLEAN

\* A request that has no call left holds nothing.
Left(t, m) == IF t = <<>> THEN NoMem ELSE m

\* The tail of a list of one call is empty, and of no other.
LEMMA TailEmpty ==
    ASSUME NEW S, NEW t \in Seq(S), t # <<>>
    PROVE  (Len(t) = 1) <=> (Tail(t) = <<>>)
<1>1. Tail(t) \in Seq(S) /\ Len(Tail(t)) = Len(t) - 1
  OBVIOUS
<1>2. (Tail(t) = <<>>) <=> (Len(Tail(t)) = 0)
  BY <1>1, EmptySeq
<1> QED BY <1>1, <1>2

\* Every way to move a request on is of that form.
LEMMA StepsBecome ==
    ASSUME ProcsOK, NEW q \in Requests
    PROVE  /\ \A t, m : Goes(q, t, m) => Becomes(q, Op(q), t, Left(t, m))
           /\ \A op, t, m : Arrives(q, op, t, m) => Becomes(q, op, t, m)
           /\ Skips(q) /\ Busy(q) => Becomes(q, Op(q), Tail(proc[q].todo), Left(Tail(proc[q].todo), Mem(q)))
           /\ Aborts(q) => Becomes(q, Op(q), <<>>, NoMem)
<1>1. /\ proc[q] \in [op : GroupOps \cup ServiceOps \cup {"none"},
                      todo : Seq(GroupCalls \cup ServiceCalls),
                      mem : GroupMemory \cup ServiceMemory \cup {NoMem}]
      /\ clean \in BOOLEAN
  BY DEF ProcsOK, ReqsType
<1>2. \A t, m : Goes(q, t, m) => Becomes(q, Op(q), t, Left(t, m))
  BY <1>1 DEF Goes, Becomes, Left, Op
<1>3. \A op, t, m : Arrives(q, op, t, m) => Becomes(q, op, t, m)
  BY <1>1 DEF Arrives, Becomes
<1>4. Skips(q) /\ Busy(q) => Becomes(q, Op(q), Tail(proc[q].todo), Left(Tail(proc[q].todo), Mem(q)))
  <2>1. Busy(q) => ((Len(proc[q].todo) = 1) <=> (Tail(proc[q].todo) = <<>>))
    <3>1. proc[q].todo \in Seq(GroupCalls \cup ServiceCalls)
      BY <1>1
    <3> QED BY <3>1, TailEmpty DEF Busy
  <2>2. CASE Tail(proc[q].todo) = <<>>
    BY <1>1, <2>1, <2>2 DEF Skips, Becomes, Left, Op, Mem
  <2>3. CASE Tail(proc[q].todo) # <<>>
    <3> SUFFICES ASSUME Skips(q), Busy(q)
                 PROVE  Becomes(q, Op(q), Tail(proc[q].todo), Mem(q))
      BY <2>3 DEF Left
    <3>1. Len(proc[q].todo) # 1
      BY <2>1, <2>3
    <3>2. proc' = [proc EXCEPT ![q].todo = Tail(@), ![q].mem = @] /\ clean' = FALSE
      BY <3>1 DEF Skips
    <3>3. proc'[q] = [op |-> Op(q), todo |-> Tail(proc[q].todo), mem |-> Mem(q)]
      BY <1>1, <3>2 DEF Op, Mem, ProcsOK, ReqsType
    <3>4. proc' = [proc EXCEPT ![q] = proc'[q]]
      BY <3>2 DEF ProcsOK, ReqsType
    <3> QED BY <3>2, <3>3, <3>4 DEF Becomes
  <2> QED BY <2>2, <2>3
<1>5. Aborts(q) => Becomes(q, Op(q), <<>>, NoMem)
  BY <1>1 DEF Aborts, Becomes, Op
<1> QED BY <1>2, <1>3, <1>4, <1>5

\* It leaves the other requests alone.
LEMMA BecomesEffect ==
    ASSUME ProcsOK, NEW q \in Requests, NEW op, NEW t, NEW m, Becomes(q, op, t, m)
    PROVE  /\ \A p \in Requests : p # q => proc'[p] = proc[p]
           /\ proc'[q] = [op |-> op, todo |-> t, mem |-> m]
BY DEF Becomes, ProcsOK, ReqsType

\* A request that is at a call of the API group's handlers is one of them.
LEMMA AtGroupCall ==
    ASSUME ProcsOK, NEW q \in Requests, NEW c \in GroupCalls, At(q, c)
    PROVE  /\ Op(q) \in GroupOps /\ proc[q].todo \in Seq(GroupCalls) /\ proc[q].todo # <<>>
           /\ InOrder(proc[q].todo) /\ GroupHeld(proc[q].todo, Mem(q))
           /\ Head(proc[q].todo) = c /\ Mem(q) \in GroupMemory
<1>1. proc[q].todo # <<>> /\ Head(proc[q].todo) = c
  BY DEF At
<1>2. proc[q].todo \notin Seq(ServiceCalls)
  BY <1>1, CallsApart
<1> QED BY <1>1, <1>2 DEF ProcsOK, Held, Busy, GroupHeld

\* And a request at a call of the service handlers one of those.
LEMMA AtServiceCall ==
    ASSUME ProcsOK, NEW q \in Requests, NEW c \in ServiceCalls, At(q, c)
    PROVE  /\ Op(q) \in ServiceOps /\ proc[q].todo \in Seq(ServiceCalls) /\ proc[q].todo # <<>>
           /\ InOrder(proc[q].todo) /\ Mem(q) \in ServiceMemory
           /\ Head(proc[q].todo) = c
<1>1. proc[q].todo # <<>> /\ Head(proc[q].todo) = c
  BY DEF At
<1>2. proc[q].todo \notin Seq(GroupCalls)
  BY <1>1, CallsApart
<1> QED BY <1>1, <1>2 DEF ProcsOK, Held, Busy

\* A request that ends is well formed.
LEMMA EndsOK ==
    ASSUME ProcsOK, NEW q \in Requests, NEW op \in GroupOps \cup ServiceOps \cup {"none"},
           Becomes(q, op, <<>>, NoMem)
    PROVE  ProcsOK'
<1>1. /\ \A p \in Requests : p # q => proc'[p] = proc[p]
      /\ proc'[q] = [op |-> op, todo |-> <<>>, mem |-> NoMem]
  BY BecomesEffect
<1>a. /\ clean' \in BOOLEAN
      /\ proc' = [proc EXCEPT ![q] = [op |-> op, todo |-> <<>>, mem |-> NoMem]]
  BY DEF Becomes
<1>2. <<>> \in Seq(GroupCalls \cup ServiceCalls)
  OBVIOUS
<1>3. ReqsType(GroupOps \cup ServiceOps, GroupCalls \cup ServiceCalls,
               GroupMemory \cup ServiceMemory)'
  BY <1>a, <1>1, <1>2 DEF ProcsOK, ReqsType
<1>4. \A p \in Requests : Held(p)'
  BY <1>1 DEF ProcsOK, Held, Busy, Op, Mem
<1> QED BY <1>3, <1>4 DEF ProcsOK

\* A request that goes on with calls in order, holding what the first of them
\* needs, is well formed.
LEMMA BecomesOK ==
    ASSUME ProcsOK, NEW q \in Requests, NEW op, NEW t, NEW m,
           Becomes(q, op, t, m), InOrder(t), t # <<>>,
           \/ op \in GroupOps /\ t \in Seq(GroupCalls) /\ GroupHeld(t, m)
           \/ op \in ServiceOps /\ t \in Seq(ServiceCalls) /\ m \in ServiceMemory
    PROVE  ProcsOK'
<1>1. /\ \A p \in Requests : p # q => proc'[p] = proc[p]
      /\ proc'[q] = [op |-> op, todo |-> t, mem |-> m]
  BY BecomesEffect
<1>a. /\ clean' \in BOOLEAN
      /\ proc' = [proc EXCEPT ![q] = [op |-> op, todo |-> t, mem |-> m]]
  BY DEF Becomes
<1>2. /\ t \in Seq(GroupCalls \cup ServiceCalls) /\ m \in GroupMemory \cup ServiceMemory
      /\ op \in GroupOps \cup ServiceOps
  BY DEF GroupHeld
<1>3. ReqsType(GroupOps \cup ServiceOps, GroupCalls \cup ServiceCalls,
               GroupMemory \cup ServiceMemory)'
  BY <1>a, <1>1, <1>2 DEF ProcsOK, ReqsType
<1>4. \A p \in Requests : Held(p)'
  <2> SUFFICES ASSUME NEW p \in Requests PROVE Held(p)'
    OBVIOUS
  <2>1. CASE p # q
    BY <1>1, <2>1 DEF ProcsOK, Held, Busy, Op, Mem
  <2>2. CASE p = q
    BY <1>1, <2>2 DEF Held, Busy, Op, Mem, GroupHeld
  <2> QED BY <2>1, <2>2
<1> QED BY <1>3, <1>4 DEF ProcsOK

\* Which is the case when the call at hand is done and left what the next one
\* needs.
LEMMA GroupKeepsOK ==
    ASSUME ProcsOK, NEW q \in Requests, NEW c \in GroupCalls, At(q, c), NEW m \in GroupMemory,
           Becomes(q, Op(q), Tail(proc[q].todo), Left(Tail(proc[q].todo), m)),
           c \in {"getVersion", "vdownload"} => m.ver \in Requests,
           c = "getEndpoint" => m.ep \in Endpoint
    PROVE  ProcsOK'
<1> DEFINE t == proc[q].todo
<1>1. /\ Op(q) \in GroupOps /\ t \in Seq(GroupCalls) /\ t # <<>> /\ InOrder(t) /\ Head(t) = c
  BY AtGroupCall
<1>2. /\ Tail(t) \in Seq(GroupCalls) /\ InOrder(Tail(t))
      /\ Tail(t) # <<>> => <<Head(t), Head(Tail(t))>> \in CallOrder
  BY <1>1, TailInOrder
<1>3. Tail(t) # <<>> => GroupHeld(Tail(t), m)
  BY <1>1, <1>2 DEF GroupHeld, CallOrder
<1>4. CASE Tail(t) = <<>>
  BY <1>1, <1>4, EndsOK DEF Left
<1>5. CASE Tail(t) # <<>>
  BY <1>1, <1>2, <1>3, <1>5, BecomesOK DEF Left
<1> QED BY <1>4, <1>5

\* The same for services.
LEMMA ServiceKeepsOK ==
    ASSUME ProcsOK, NEW q \in Requests, NEW c \in ServiceCalls, At(q, c),
           NEW m \in ServiceMemory, Becomes(q, Op(q), Tail(proc[q].todo), Left(Tail(proc[q].todo), m))
    PROVE  ProcsOK'
<1> DEFINE t == proc[q].todo
<1>1. /\ Op(q) \in ServiceOps /\ t \in Seq(ServiceCalls) /\ t # <<>> /\ InOrder(t)
  BY AtServiceCall
<1>2. Tail(t) \in Seq(ServiceCalls) /\ InOrder(Tail(t))
  BY <1>1, TailInOrder
<1>3. CASE Tail(t) = <<>>
  BY <1>1, <1>3, EndsOK DEF Left
<1>4. CASE Tail(t) # <<>>
  BY <1>1, <1>2, <1>4, BecomesOK DEF Left
<1> QED BY <1>3, <1>4

\* In terms of the actions: Keeps, Proceeds and Ends.
LEMMA GroupMoves ==
    ASSUME ProcsOK, NEW q \in Requests, NEW c \in GroupCalls, At(q, c)
    PROVE  /\ Ends(q) => ProcsOK'
           /\ \A m \in GroupMemory :
                /\ Keeps(q, m)
                /\ c \in {"getVersion", "vdownload"} => m.ver \in Requests
                /\ c = "getEndpoint" => m.ep \in Endpoint
                => ProcsOK'
           /\ Proceeds(q) /\ c \notin {"getVersion", "vdownload", "getEndpoint"} => ProcsOK'
<1>1. Op(q) \in GroupOps /\ Mem(q) \in GroupMemory
  BY AtGroupCall
<1>2. Ends(q) => ProcsOK'
  BY <1>1, EndsOK, StepsBecome DEF Ends, Left
<1>3. \A m \in GroupMemory : Keeps(q, m) => Becomes(q, Op(q), Tail(proc[q].todo), Left(Tail(proc[q].todo), m))
  BY StepsBecome DEF Keeps
<1>4. Proceeds(q) => Keeps(q, Mem(q))
  BY DEF Proceeds, Mem
<1> QED BY <1>1, <1>2, <1>3, <1>4, GroupKeepsOK

\* The same for services.
LEMMA ServiceMoves ==
    ASSUME ProcsOK, NEW q \in Requests, NEW c \in ServiceCalls, At(q, c)
    PROVE  /\ Ends(q) => ProcsOK'
           /\ \A m \in ServiceMemory : Keeps(q, m) => ProcsOK'
           /\ Proceeds(q) => ProcsOK'
<1>1. Op(q) \in ServiceOps /\ Mem(q) \in ServiceMemory
  BY AtServiceCall
<1>2. Ends(q) => ProcsOK'
  BY <1>1, EndsOK, StepsBecome DEF Ends, Left
<1>3. \A m \in ServiceMemory : Keeps(q, m) => Becomes(q, Op(q), Tail(proc[q].todo), Left(Tail(proc[q].todo), m))
  BY StepsBecome DEF Keeps
<1>4. Proceeds(q) => Keeps(q, Mem(q))
  BY DEF Proceeds, Mem
<1> QED BY <1>1, <1>2, <1>3, <1>4, ServiceKeepsOK

\* Only the rows of the API group, or only those of the services, are touched.
LEMMA TypeInvParts == TypeInv <=> ProcsOK /\ GroupTypeOK /\ ServicesTypeOK
BY DEF TypeInv, TypeOK, ProcsOK

\* An SLA that is carried over leaves drafts of endpoints.
LEMMA PreserveType ==
    ASSUME NEW E \in SUBSET Endpoint, NEW F \in SUBSET Draft
    PROVE  PreserveEndpointSLAs(E, F) \in SUBSET Draft
<1> SUFFICES ASSUME NEW f \in F,
                    NEW slas, slas = {e.sla : e \in {x \in E : x.key = f.key}} \ {NoSla}
             PROVE  [f EXCEPT !.sla = IF slas = {} THEN @ ELSE CHOOSE s \in slas : TRUE] \in Draft
  BY DEF PreserveEndpointSLAs
<1>1. slas \subseteq MaybeSla
  BY DEF Endpoint
<1>2. slas # {} => (CHOOSE s \in slas : TRUE) \in slas
  OBVIOUS
<1>3. (IF slas = {} THEN f.sla ELSE CHOOSE s \in slas : TRUE) \in MaybeSla
  BY <1>1, <1>2 DEF Draft
<1> QED BY <1>3 DEF Draft

\* What an endpoint request or a publish inserts are endpoints.
LEMMA InsertedType ==
    ASSUME NEW q \in Requests, NEW E \in SUBSET Draft, NEW A \in SUBSET Endpoint
    PROVE  Inserted(q, E) \in SUBSET Endpoint /\ Copied(q, A) \in SUBSET Endpoint
<1>a. \A k \in Keys, b \in BOOLEAN : <<q, k, b>> \in EndpointId
  BY DEF EndpointId
<1>1. \A d \in E : [id |-> <<q, d.src, FALSE>>, key |-> d.key, sla |-> d.sla] \in Endpoint
  <2> HIDE DEF EndpointId
  <2> QED BY <1>a DEF Draft, Endpoint
<1>2. \A e \in A : [e EXCEPT !.id = <<q, e.key, TRUE>>] \in Endpoint
  <2> SUFFICES ASSUME NEW e \in A PROVE [e EXCEPT !.id = <<q, e.key, TRUE>>] \in Endpoint
    OBVIOUS
  <2>1. e \in Endpoint /\ <<q, e.key, TRUE>> \in EndpointId
    BY <1>a DEF Endpoint
  <2> QED BY <2>1 DEF Endpoint
<1>3. Inserted(q, E) \in SUBSET Endpoint
  BY <1>1 DEF Inserted
<1>4. Copied(q, A) \in SUBSET Endpoint
  BY <1>2 DEF Copied
<1> QED BY <1>3, <1>4

\* Every step on the group's row and objects keeps the types.
LEMMA GroupRowType ==
    ASSUME ProcsOK, GroupTypeOK, NEW q \in Requests, GroupStep(q) \/ ObjectStep(q)
    PROVE  ProcsOK' /\ GroupTypeOK'
<1>a. \A c \in GroupCalls : At(q, c) => Mem(q) \in GroupMemory /\ Op(q) \in GroupOps
  BY AtGroupCall
<1>b. {"create", "get", "save", "softDelete", "upload", "vupload", "download", "vdownload",
       "parse"} \subseteq GroupCalls
  BY DEF GroupCalls
<1>1. CASE CreateAPIGroup(q)
  <2>1. ProcsOK'
    BY <1>1, <1>b, GroupMoves DEF CreateAPIGroup
  <2> QED BY <1>1, <2>1 DEF CreateAPIGroup, GroupTypeOK, Group, NoSpec
<1>2. CASE GetAPIGroup(q)
  <2> DEFINE m == [Mem(q) EXCEPT !.hash = group.hash]
  <2>1. m \in GroupMemory /\ At(q, "get") /\ Op(q) \in GroupOps
    BY <1>2, <1>a, <1>b DEF GetAPIGroup, GroupTypeOK, Group, GroupMemory
  <2>2. <<"save">> \in Seq(GroupCalls) /\ InOrder(<<"save">>) /\ <<"save">> # <<>>
        /\ Head(<<"save">>) = "save"
    BY <1>b DEF InOrder, LastCalls
  <2>3. GroupHeld(<<"save">>, m)
    BY <2>1, <2>2 DEF GroupHeld
  <2>4. Goes(q, <<"save">>, m) => ProcsOK'
    BY <2>1, <2>2, <2>3, StepsBecome, BecomesOK DEF Left
  <2>5. ProcsOK'
    BY <1>2, <1>b, <2>1, <2>4, GroupMoves DEF GetAPIGroup
  <2> QED BY <1>2, <2>5 DEF GetAPIGroup, groupVars, GroupTypeOK
<1>3. CASE UpdateAPIGroup(q) \/ SoftDeleteAPIGroup(q)
  <2>1. ProcsOK'
    BY <1>3, <1>b, GroupMoves DEF UpdateAPIGroup, SoftDeleteAPIGroup
  <2>2. group' \in Group
    <3>1. CASE UpdateAPIGroup(q)
      <4>1. Mem(q).hash \in SUBSET Keys
        BY <1>a, <1>b, <3>1 DEF UpdateAPIGroup, GroupMemory
      <4> QED BY <3>1, <4>1 DEF UpdateAPIGroup, GroupTypeOK, Group
    <3>2. CASE SoftDeleteAPIGroup(q)
      BY <3>2 DEF SoftDeleteAPIGroup, GroupTypeOK, Group
    <3> QED BY <1>3, <3>1, <3>2
  <2> QED BY <1>3, <2>1, <2>2 DEF UpdateAPIGroup, SoftDeleteAPIGroup, GroupTypeOK
<1>4. CASE UploadSpec(q)
  <2>1. [Mem(q) EXCEPT !.hash = Mem(q).spec] \in GroupMemory /\ Mem(q).spec \in SUBSET Keys
    BY <1>4, <1>a, <1>b DEF UploadSpec, GroupMemory
  <2>2. ProcsOK'
    BY <1>4, <1>b, <2>1, GroupMoves DEF UploadSpec
  <2> QED BY <1>4, <2>1, <2>2 DEF UploadSpec, GroupTypeOK
<1>5. CASE UploadVersionSpec(q)
  <2>1. Mem(q).spec \in SUBSET Keys
    BY <1>5, <1>a, <1>b DEF UploadVersionSpec, GroupMemory
  <2>2. ProcsOK'
    BY <1>5, <1>b, GroupMoves DEF UploadVersionSpec
  <2> QED BY <1>5, <2>1, <2>2 DEF UploadVersionSpec, GroupTypeOK
<1>6. CASE DownloadSpec(q)
  <2>1. [Mem(q) EXCEPT !.spec = object] \in GroupMemory
    BY <1>6, <1>a, <1>b DEF DownloadSpec, GroupMemory, GroupTypeOK
  <2>2. ProcsOK'
    BY <1>6, <1>b, <2>1, GroupMoves DEF DownloadSpec
  <2> QED BY <1>6, <2>2 DEF DownloadSpec, groupVars, GroupTypeOK
<1>7. CASE DownloadVersionSpec(q)
  <2>1. Mem(q).ver \in Requests /\ Mem(q) \in GroupMemory /\ At(q, "vdownload")
    BY <1>7, <1>b, AtGroupCall DEF DownloadVersionSpec, GroupHeld
  <2>2. vobject[Mem(q).ver] \in SUBSET Keys
    BY <2>1 DEF GroupTypeOK
  <2> DEFINE m == [Mem(q) EXCEPT !.spec = vobject[Mem(q).ver]]
  <2>3. m \in GroupMemory /\ m.ver \in Requests
    BY <2>1, <2>2 DEF GroupMemory
  <2>4. ProcsOK'
    BY <1>7, <1>b, <2>1, <2>3, GroupMoves DEF DownloadVersionSpec
  <2> QED BY <1>7, <2>4 DEF DownloadVersionSpec, groupVars, GroupTypeOK
<1>8. CASE ParseSpecEndpoints(q)
  <2> DEFINE E == {[src |-> k, key |-> k, sla |-> NoSla] : k \in Mem(q).spec}
  <2>1. Mem(q) \in GroupMemory
    BY <1>8, <1>a, <1>b DEF ParseSpecEndpoints
  <2>2. E \in SUBSET Draft
    BY <2>1 DEF GroupMemory, Draft, MaybeSla
  <2> HIDE DEF E
  <2>3. [Mem(q) EXCEPT !.eps = E] \in GroupMemory
    BY <2>1, <2>2 DEF GroupMemory
  <2>4. ProcsOK'
    BY <1>8, <1>b, <2>3, GroupMoves DEF ParseSpecEndpoints, E
  <2> QED BY <1>8, <2>4 DEF ParseSpecEndpoints, groupVars, GroupTypeOK
<1> QED BY <1>1, <1>2, <1>3, <1>4, <1>5, <1>6, <1>7, <1>8 DEF GroupStep, ObjectStep

\* Every step of a publish keeps the types.
LEMMA PublishType ==
    ASSUME ProcsOK, GroupTypeOK, NEW q \in Requests, PublishStep(q)
    PROVE  ProcsOK' /\ GroupTypeOK'
<1>a. \A c \in GroupCalls : At(q, c) => Mem(q) \in GroupMemory /\ Op(q) \in GroupOps
  BY AtGroupCall
<1>b. {"list", "clear", "publish", "getVersion", "vlist"} \subseteq GroupCalls
  BY DEF GroupCalls
<1>c. Working \in SUBSET Endpoint /\ \A v : Snapshot(v) \in SUBSET Endpoint
  BY DEF Working, Snapshot, GroupTypeOK
<1>1. CASE ListAPIEndpoints(q)
  <2>1. Mem(q) \in GroupMemory
    BY <1>1, <1>a, <1>b DEF ListAPIEndpoints
  <2>2. PreserveEndpointSLAs(Working, Mem(q).eps) \in SUBSET Draft
    BY <1>c, <2>1, PreserveType DEF GroupMemory
  <2>3. [Mem(q) EXCEPT !.eps = PreserveEndpointSLAs(Working, @)] \in GroupMemory
    BY <2>1, <2>2 DEF GroupMemory
  <2>4. ProcsOK'
    BY <1>1, <1>b, <2>3, GroupMoves DEF ListAPIEndpoints
  <2> QED BY <1>1, <2>4 DEF ListAPIEndpoints, groupVars, GroupTypeOK
<1>2. CASE ListFails(q)
  <2>1. At(q, "list") /\ Busy(q) /\ Mem(q) \in GroupMemory
    BY <1>2, <1>a, <1>b DEF ListFails, At, Busy
  <2>2. Becomes(q, Op(q), Tail(proc[q].todo), Left(Tail(proc[q].todo), Mem(q)))
    BY <1>2, <2>1, StepsBecome DEF ListFails
  <2>3. ProcsOK'
    BY <1>b, <2>1, <2>2, GroupKeepsOK
  <2> QED BY <1>2, <2>3 DEF ListFails, groupVars, GroupTypeOK
<1>3. CASE ClearEndpoints(q)
  <2>1. Mem(q) \in GroupMemory
    BY <1>3, <1>a, <1>b DEF ClearEndpoints
  <2>2. {e.id : e \in Working} \in SUBSET EndpointId
    BY <1>c DEF Endpoint
  <2>3. [Mem(q) EXCEPT !.retire = {e.id : e \in Working}] \in GroupMemory
    BY <2>1, <2>2 DEF GroupMemory
  <2>4. ProcsOK'
    BY <1>3, <1>b, <2>3, GroupMoves DEF ClearEndpoints
  <2> QED BY <1>3, <2>4 DEF ClearEndpoints, groupVars, GroupTypeOK
<1>4. CASE PublishAPIGroupVersion(q)
  <2> DEFINE kept == {e \in endpoints : e.id \notin Mem(q).retire}
             new == Inserted(q, Mem(q).eps)
  <2>1. At(q, "publish") /\ Mem(q) \in GroupMemory
    BY <1>4, <1>a, <1>b DEF PublishAPIGroupVersion
  <2>2. CASE Conflicts(kept, new)
    <3>1. Ends(q) /\ UNCHANGED groupVars
      BY <1>4, <2>2 DEF PublishAPIGroupVersion
    <3> QED BY <1>b, <2>1, <3>1, GroupMoves DEF groupVars, GroupTypeOK
  <2>3. CASE ~Conflicts(kept, new)
    <3>1. /\ \E n \in NextNumber : versions' = versions \cup
                {[id |-> q, number |-> n, hash |-> Mem(q).hash]}
          /\ endpoints' = kept \cup new \cup Copied(q, kept \cup new)
          /\ group' = IF GroupLive THEN [group EXCEPT !.hash = Mem(q).hash] ELSE group
          /\ Proceeds(q)
          /\ UNCHANGED <<object, vobject>>
      BY <1>4, <2>3 DEF PublishAPIGroupVersion
    <3>2. kept \in SUBSET Endpoint /\ new \in SUBSET Endpoint
      BY <2>1, InsertedType DEF GroupTypeOK, GroupMemory
    <3>3. endpoints' \in SUBSET Endpoint
      <4>1. kept \cup new \in SUBSET Endpoint
        BY <3>2
      <4>2. Copied(q, kept \cup new) \in SUBSET Endpoint
        BY <4>1, InsertedType
      <4> QED BY <3>1, <4>1, <4>2
    <3>4. Mem(q).hash \in SUBSET Keys
      BY <2>1 DEF GroupMemory
    <3>5. NextNumber \subseteq Nat
      BY DEF NextNumber, Numbers, GroupTypeOK, Version
    <3>6. versions' \in SUBSET Version
      BY <3>1, <3>4, <3>5 DEF GroupTypeOK, Version
    <3>7. group' \in Group
      BY <3>1, <3>4 DEF GroupTypeOK, Group
    <3>8. ProcsOK'
      BY <1>b, <2>1, <3>1, GroupMoves
    <3> QED BY <3>1, <3>3, <3>6, <3>7, <3>8 DEF GroupTypeOK
  <2> QED BY <2>2, <2>3
<1>5. CASE GetAPIGroupVersion(q)
  <2>1. At(q, "getVersion") /\ Mem(q) \in GroupMemory
    BY <1>5, <1>a, <1>b DEF GetAPIGroupVersion
  <2>2. CASE Ends(q)
    BY <1>5, <1>b, <2>1, <2>2, GroupMoves DEF GetAPIGroupVersion, groupVars, GroupTypeOK
  <2>3. ASSUME NEW v \in versions, Keeps(q, [Mem(q) EXCEPT !.ver = v.id])
        PROVE  ProcsOK' /\ GroupTypeOK'
    <3> DEFINE m == [Mem(q) EXCEPT !.ver = v.id]
    <3>1. v.id \in Requests
      BY DEF GroupTypeOK, Version
    <3>2. m \in GroupMemory /\ m.ver \in Requests
      BY <2>1, <3>1 DEF GroupMemory
    <3> HIDE DEF m
    <3>3. ProcsOK'
      BY <1>b, <2>1, <2>3, <3>2, GroupMoves DEF m
    <3> QED BY <1>5, <3>3 DEF GetAPIGroupVersion, groupVars, GroupTypeOK
  <2> QED BY <1>5, <2>2, <2>3 DEF GetAPIGroupVersion
<1>6. CASE ListAPIEndpointsForVersion(q)
  <2> DEFINE E == {[src |-> e.id[2], key |-> e.key, sla |-> e.sla] : e \in Snapshot(Mem(q).ver)}
  <2>1. Mem(q) \in GroupMemory
    BY <1>6, <1>a, <1>b DEF ListAPIEndpointsForVersion
  <2>2. E \in SUBSET Draft
    BY <1>c DEF Endpoint, EndpointId, Draft
  <2> HIDE DEF E
  <2>3. [Mem(q) EXCEPT !.eps = E] \in GroupMemory
    BY <2>1, <2>2 DEF GroupMemory
  <2>4. ProcsOK'
    BY <1>6, <1>b, <2>3, GroupMoves DEF ListAPIEndpointsForVersion, E
  <2> QED BY <1>6, <2>4 DEF ListAPIEndpointsForVersion, groupVars, GroupTypeOK
<1> QED BY <1>1, <1>2, <1>3, <1>4, <1>5, <1>6 DEF PublishStep

\* Every request on a single endpoint keeps the types.
LEMMA EndpointType ==
    ASSUME ProcsOK, GroupTypeOK, NEW q \in Requests, EndpointStep(q)
    PROVE  ProcsOK' /\ GroupTypeOK'
<1>a. \A c \in GroupCalls : At(q, c) => Mem(q) \in GroupMemory /\ Op(q) \in GroupOps
  BY AtGroupCall
<1>b. {"insertEndpoint", "getEndpoint", "saveEndpoint", "deleteEndpoint"} \subseteq GroupCalls
  BY DEF GroupCalls
<1>1. CASE CreateAPIEndpoint(q)
  <2>1. Inserted(q, Mem(q).eps) \in SUBSET Endpoint
    BY <1>1, <1>a, <1>b, InsertedType DEF CreateAPIEndpoint, GroupMemory
  <2>2. ProcsOK'
    BY <1>1, <1>b, GroupMoves DEF CreateAPIEndpoint
  <2>3. endpoints' \in SUBSET Endpoint
    BY <1>1, <2>1 DEF CreateAPIEndpoint, GroupTypeOK
  <2> QED BY <1>1, <2>2, <2>3 DEF CreateAPIEndpoint, GroupTypeOK
<1>2. CASE GetAPIEndpoint(q)
  <2>1. At(q, "getEndpoint") /\ Mem(q) \in GroupMemory
    BY <1>2, <1>a, <1>b DEF GetAPIEndpoint
  <2>2. CASE Ends(q)
    BY <1>2, <1>b, <2>1, <2>2, GroupMoves DEF GetAPIEndpoint, groupVars, GroupTypeOK
  <2>3. ASSUME NEW e \in endpoints, NEW d \in Mem(q).eps,
               Keeps(q, [Mem(q) EXCEPT !.ep = [id |-> e.id, key |-> d.key,
                            sla |-> IF d.sla = NoSla THEN e.sla ELSE d.sla]])
        PROVE  ProcsOK' /\ GroupTypeOK'
    <3> DEFINE ep == [id |-> e.id, key |-> d.key, sla |-> IF d.sla = NoSla THEN e.sla ELSE d.sla]
               m == [Mem(q) EXCEPT !.ep = ep]
    <3>1. e \in Endpoint /\ d \in Draft
      BY <2>1 DEF GroupTypeOK, GroupMemory
    <3>2. ep \in Endpoint
      BY <3>1 DEF Endpoint, Draft
    <3> HIDE DEF ep
    <3>3. m \in GroupMemory /\ m.ep \in Endpoint
      BY <2>1, <3>2 DEF GroupMemory
    <3>4. Keeps(q, m)
      BY <2>3 DEF ep
    <3> HIDE DEF m
    <3>5. ProcsOK'
      BY <1>b, <2>1, <3>3, <3>4, GroupMoves
    <3> QED BY <1>2, <3>5 DEF GetAPIEndpoint, groupVars, GroupTypeOK
  <2> QED BY <1>2, <2>2, <2>3 DEF GetAPIEndpoint
<1>3. CASE UpdateAPIEndpoint(q)
  <2>1. Mem(q).ep \in Endpoint
    BY <1>3, <1>b, AtGroupCall DEF UpdateAPIEndpoint, GroupHeld
  <2>2. ProcsOK'
    BY <1>3, <1>b, GroupMoves DEF UpdateAPIEndpoint
  <2>3. endpoints' \in SUBSET Endpoint
    BY <1>3, <2>1 DEF UpdateAPIEndpoint, GroupTypeOK
  <2> QED BY <1>3, <2>2, <2>3 DEF UpdateAPIEndpoint, GroupTypeOK
<1>4. CASE SoftDeleteAPIEndpoint(q)
  <2>1. ProcsOK'
    BY <1>4, <1>b, GroupMoves DEF SoftDeleteAPIEndpoint
  <2>2. endpoints' \in SUBSET Endpoint
    BY <1>4 DEF SoftDeleteAPIEndpoint, GroupTypeOK
  <2> QED BY <1>4, <2>1, <2>2 DEF SoftDeleteAPIEndpoint, GroupTypeOK
<1> QED BY <1>1, <1>2, <1>3, <1>4 DEF EndpointStep

\* Every step on services and dependencies keeps the types.
LEMMA ServiceType ==
    ASSUME ProcsOK, ServicesTypeOK, NEW q \in Requests, ServiceStep(q)
    PROVE  ProcsOK' /\ ServicesTypeOK'
<1>a. \A c \in ServiceCalls : At(q, c) => Mem(q) \in ServiceMemory /\ Op(q) \in ServiceOps
  BY AtServiceCall
<1>b. {"count", "insert", "getService", "saveService", "deleteRow", "clearDependencies",
       "resolve", "commit"} \subseteq ServiceCalls
  BY DEF ServiceCalls
<1>1. CASE CheckLimit(q)
  BY <1>1, <1>b, ServiceMoves DEF CheckLimit, serviceVars, ServicesTypeOK
<1>2. CASE LimitUnknown(q)
  <2>1. At(q, "count") /\ Busy(q) /\ Mem(q) \in ServiceMemory
    BY <1>2, <1>a, <1>b DEF LimitUnknown, At, Busy
  <2>2. Becomes(q, Op(q), Tail(proc[q].todo), Left(Tail(proc[q].todo), Mem(q)))
    BY <1>2, <2>1, StepsBecome DEF LimitUnknown
  <2>3. ProcsOK'
    BY <1>b, <2>1, <2>2, ServiceKeepsOK
  <2> QED BY <1>2, <2>3 DEF LimitUnknown, ServicesTypeOK
<1>3. CASE CreateService(q)
  <2>1. Mem(q).id \in Ids /\ Mem(q).row \in Service
    BY <1>3, <1>a, <1>b DEF CreateService, ServiceMemory
  <2>2. ProcsOK'
    BY <1>3, <1>b, ServiceMoves DEF CreateService
  <2>3. Adopted(Mem(q).id, Mem(q).row) \in SUBSET Dependency
    BY <2>1 DEF Adopted, ServicesTypeOK, Dependency
  <2> QED BY <1>3, <2>1, <2>2, <2>3 DEF CreateService, serviceVars, ServicesTypeOK
<1>4. CASE GetService(q)
  <2>1. Mem(q) \in ServiceMemory
    BY <1>4, <1>a, <1>b DEF GetService
  <2>2. Merged(Mem(q)) \in Service
    BY <2>1 DEF Merged, ServiceMemory, Service, ServicesTypeOK
  <2>3. [Mem(q) EXCEPT !.row = Merged(Mem(q))] \in ServiceMemory
    BY <2>1, <2>2 DEF ServiceMemory
  <2>4. ProcsOK'
    BY <1>4, <1>b, <2>3, ServiceMoves DEF GetService
  <2> QED BY <1>4, <2>4 DEF GetService, serviceVars, ServicesTypeOK
<1>5. CASE UpdateService(q) \/ SoftDeleteService(q)
  <2>1. Mem(q).id \in Ids /\ Mem(q).row \in Service
    BY <1>5, <1>a, <1>b DEF UpdateService, SoftDeleteService, ServiceMemory
  <2>2. ProcsOK'
    BY <1>5, <1>b, ServiceMoves DEF UpdateService, SoftDeleteService
  <2>3. services' \in [Ids -> Service]
    <3>1. CASE UpdateService(q)
      BY <3>1, <2>1 DEF UpdateService, ServicesTypeOK
    <3>2. CASE SoftDeleteService(q)
      BY <3>2, <2>1 DEF SoftDeleteService, ServicesTypeOK, Service
    <3> QED BY <1>5, <3>1, <3>2
  <2> QED BY <1>5, <2>2, <2>3 DEF UpdateService, SoftDeleteService, ServicesTypeOK
<1>6. CASE ClearDependencies(q)
  <2> DEFINE R == {d.name : d \in {x \in deps : x.src = Mem(q).id}}
  <2>1. Mem(q) \in ServiceMemory
    BY <1>6, <1>a, <1>b DEF ClearDependencies
  <2>2. R \in SUBSET Names
    BY DEF ServicesTypeOK, Dependency
  <2> HIDE DEF R
  <2>3. [Mem(q) EXCEPT !.retire = R] \in ServiceMemory
    BY <2>1, <2>2 DEF ServiceMemory
  <2>4. ProcsOK'
    BY <1>6, <1>b, <2>3, ServiceMoves DEF ClearDependencies, R
  <2> QED BY <1>6, <2>4 DEF ClearDependencies, serviceVars, ServicesTypeOK
<1>7. CASE ResolveDependency(q)
  <2>1. /\ At(q, "resolve") /\ Mem(q) \in ServiceMemory /\ Op(q) \in ServiceOps
        /\ proc[q].todo \in Seq(ServiceCalls) /\ proc[q].todo # <<>> /\ InOrder(proc[q].todo)
    BY <1>7, <1>b, AtServiceCall DEF ResolveDependency
  <2>2. CASE Proceeds(q) \/ Ends(q)
    BY <1>7, <1>b, <2>1, <2>2, ServiceMoves DEF ResolveDependency, serviceVars, ServicesTypeOK
  <2>3. ASSUME NEW w \in Mem(q).wishes, NEW t \in Resolved(w.name),
               Goes(q, proc[q].todo, [Mem(q) EXCEPT !.wishes = @ \ {w}, !.found = @ \cup
                    {[src |-> Mem(q).id, name |-> w.name, dir |-> w.dir, to |-> t]}])
        PROVE  ProcsOK' /\ ServicesTypeOK'
    <3> DEFINE d == [src |-> Mem(q).id, name |-> w.name, dir |-> w.dir, to |-> t]
               m == [Mem(q) EXCEPT !.wishes = @ \ {w}, !.found = @ \cup {d}]
    <3>1. w \in Wish /\ Mem(q).id \in Ids
      BY <2>1 DEF ServiceMemory
    <3>2. t \in Ids \cup {Ghost}
      BY DEF Resolved, Named
    <3>3. d \in Dependency
      BY <3>1, <3>2 DEF Dependency, Wish
    <3> HIDE DEF d
    <3>4. m \in ServiceMemory
      <4>1. Mem(q).wishes \ {w} \in SUBSET Wish /\ Mem(q).found \cup {d} \in SUBSET Dependency
        BY <2>1, <3>3 DEF ServiceMemory
      <4> HIDE DEF Wish, Dependency
      <4> QED BY <2>1, <4>1 DEF ServiceMemory
    <3>5. Goes(q, proc[q].todo, m)
      BY <2>3 DEF d
    <3> HIDE DEF m
    <3>6. Becomes(q, Op(q), proc[q].todo, m)
      BY <2>1, <3>5, StepsBecome DEF Left
    <3>7. ProcsOK'
      BY <2>1, <3>4, <3>6, BecomesOK
    <3> QED BY <1>7, <3>7 DEF ResolveDependency, serviceVars, ServicesTypeOK
  <2> QED BY <1>7, <2>2, <2>3 DEF ResolveDependency
<1>8. CASE CommitDependencies(q)
  <2>1. Mem(q).found \in SUBSET Dependency
    BY <1>8, <1>a, <1>b DEF CommitDependencies, ServiceMemory
  <2>2. ProcsOK'
    BY <1>8, <1>b, ServiceMoves DEF CommitDependencies
  <2>3. deps' \in SUBSET Dependency
    BY <1>8, <2>1 DEF CommitDependencies, ServicesTypeOK
  <2> QED BY <1>8, <2>2, <2>3 DEF CommitDependencies, ServicesTypeOK
<1> QED BY <1>1, <1>2, <1>3, <1>4, <1>5, <1>6, <1>7, <1>8 DEF ServiceStep

\* A request that arrives has its type.
LEMMA StartType ==
    ASSUME ProcsOK, NEW q \in Requests,
           \/ \E op \in GroupOps : \E s \in SpecInput(op), eps \in DraftInput(op) :
                 GroupStart(q, op, s, eps)
           \/ \E op \in ServiceOps, i \in Ids :
                 \E given \in GivenInput(op), w \in WishInput(op) :
                    \E row \in RowInput(given) : ServiceStart(q, op, i, row, given, w)
    PROVE  ProcsOK'
<1>1. ASSUME NEW op \in GroupOps, NEW s \in SpecInput(op), NEW eps \in DraftInput(op),
             GroupStart(q, op, s, eps)
      PROVE  ProcsOK'
  <2> DEFINE m == [spec |-> s, hash |-> NoSpec, eps |-> eps,
                   retire |-> {}, ver |-> NoMem, ep |-> NoMem]
  <2>1. s \in SUBSET Keys
    BY DEF SpecInput, Specs, NoSpec
  <2>2. eps \in SUBSET Draft
    BY DEF DraftInput
  <2>3. m \in GroupMemory
    BY <2>1, <2>2 DEF GroupMemory, NoSpec
  <2>4. /\ GroupSteps(op) \in Seq(GroupCalls) /\ GroupSteps(op) # <<>>
        /\ InOrder(GroupSteps(op)) /\ Head(GroupSteps(op)) \in FirstCalls
    BY GroupStepsInOrder
  <2>5. GroupHeld(GroupSteps(op), m)
    BY <2>3, <2>4 DEF GroupHeld, FirstCalls
  <2>6. Becomes(q, op, GroupSteps(op), m)
    BY <1>1, StepsBecome DEF GroupStart
  <2> HIDE DEF m
  <2> QED BY <2>4, <2>5, <2>6, BecomesOK
<1>2. ASSUME NEW op \in ServiceOps, NEW i \in Ids, NEW given \in GivenInput(op),
             NEW w \in WishInput(op), NEW row \in RowInput(given),
             ServiceStart(q, op, i, row, given, w)
      PROVE  ProcsOK'
  <2> DEFINE m == [id |-> i, row |-> row, given |-> given, wishes |-> w,
                   found |-> {}, retire |-> {}]
  <2>1. given \in SUBSET {"name", "active"}
    BY DEF GivenInput, ServiceOps
  <2>2. w \in SUBSET Wish
    BY DEF WishInput
  <2>3. row \in Service
    BY DEF RowInput, Service
  <2>4. m \in ServiceMemory
    BY <2>1, <2>2, <2>3 DEF ServiceMemory
  <2>5. /\ ServiceSteps(op) \in Seq(ServiceCalls) /\ ServiceSteps(op) # <<>>
        /\ InOrder(ServiceSteps(op))
    BY ServiceStepsInOrder
  <2>6. Becomes(q, op, ServiceSteps(op), m)
    BY <1>2, StepsBecome DEF ServiceStart
  <2> HIDE DEF m
  <2> QED BY <2>4, <2>5, <2>6, BecomesOK
<1> QED BY <1>1, <1>2

\* The initial state is well typed.
LEMMA InitType == Init => TypeInv
<1> SUFFICES ASSUME Init PROVE TypeInv
  OBVIOUS
<1>1. ProcsOK
  <2>1. <<>> \in Seq(GroupCalls \cup ServiceCalls)
    OBVIOUS
  <2> QED BY <2>1 DEF Init, ReqsInit, ProcsOK, ReqsType, Held, Busy
<1>2. GroupTypeOK
  BY DEF Init, GroupInit, GroupTypeOK, Group, NoSpec
<1>3. ServicesTypeOK
  BY DEF Init, ServicesInit, ServicesTypeOK
<1> QED BY <1>1, <1>2, <1>3, TypeInvParts

\* Every step keeps the types.
LEMMA NextType == TypeInv /\ [Next]_vars => TypeInv'
<1> SUFFICES ASSUME TypeInv, [Next]_vars PROVE TypeInv'
  OBVIOUS
<1>0. ProcsOK /\ GroupTypeOK /\ ServicesTypeOK
  BY TypeInvParts
<1>1. ASSUME UNCHANGED groupVars PROVE GroupTypeOK'
  BY <1>0, <1>1 DEF groupVars, GroupTypeOK
<1>2. ASSUME UNCHANGED serviceVars PROVE ServicesTypeOK'
  BY <1>0, <1>2 DEF serviceVars, ServicesTypeOK
<1>3. ASSUME NEW q \in Requests, GroupNext(q, workload), UNCHANGED serviceVars
      PROVE  ProcsOK' /\ GroupTypeOK' /\ ServicesTypeOK'
  <2>1. CASE ApiStep(q)
    BY <1>0, <1>2, <1>3, <2>1, GroupRowType, PublishType, EndpointType DEF ApiStep
  <2>2. ASSUME NEW op \in workload \cap GroupOps, NEW s \in SpecInput(op),
               NEW eps \in DraftInput(op), GroupStart(q, op, s, eps)
        PROVE  ProcsOK' /\ GroupTypeOK' /\ ServicesTypeOK'
    BY <1>0, <1>1, <1>2, <1>3, <2>2, StartType DEF GroupStart
  <2> QED BY <1>3, <2>1, <2>2 DEF GroupNext
<1>4. ASSUME NEW q \in Requests, ServiceNext(q, workload), UNCHANGED groupVars
      PROVE  ProcsOK' /\ GroupTypeOK' /\ ServicesTypeOK'
  <2>1. CASE ServiceStep(q)
    BY <1>0, <1>1, <1>4, <2>1, ServiceType
  <2>2. ASSUME NEW op \in workload \cap ServiceOps, NEW i \in Ids, NEW given \in GivenInput(op),
               NEW w \in WishInput(op), NEW row \in RowInput(given),
               ServiceStart(q, op, i, row, given, w)
        PROVE  ProcsOK' /\ GroupTypeOK' /\ ServicesTypeOK'
    BY <1>0, <1>1, <1>2, <1>4, <2>2, StartType DEF ServiceStart
  <2> QED BY <1>4, <2>1, <2>2 DEF ServiceNext
<1>5. ASSUME NEW q \in Requests, Aborts(q), UNCHANGED <<groupVars, serviceVars>>
      PROVE  ProcsOK' /\ GroupTypeOK' /\ ServicesTypeOK'
  <2>1. Op(q) \in GroupOps \cup ServiceOps \cup {"none"}
    BY <1>0 DEF ProcsOK, ReqsType, Op
  <2> QED BY <1>0, <1>1, <1>2, <1>5, <2>1, StepsBecome, EndsOK
<1>6. ASSUME UNCHANGED vars
      PROVE  ProcsOK' /\ GroupTypeOK' /\ ServicesTypeOK'
  <2>1. ProcsOK'
    BY <1>0, <1>6 DEF vars, ProcsOK, ReqsType, Held, Busy, Op, Mem
  <2> QED BY <1>1, <1>2, <1>6, <2>1 DEF vars
<1>7. ProcsOK' /\ GroupTypeOK' /\ ServicesTypeOK'
  BY <1>3, <1>4, <1>5, <1>6 DEF Next
<1>8. TypeInv' <=> ProcsOK' /\ GroupTypeOK' /\ ServicesTypeOK'
  BY DEF TypeInv, TypeOK, ProcsOK
<1> QED BY <1>7, <1>8

\* The rows, the objects and what every request in flight holds keep their
\* types, whichever handlers overlap and whatever fails.
THEOREM CatalogTypeCorrect == Spec => []TypeOK
<1>1. TypeInv => TypeOK
  BY DEF TypeInv
<1> QED BY <1>1, InitType, NextType, PTL DEF Spec

-----------------------------------------------------------------------------
(* The versions of an API group are a log.                                  *)

\* Only PublishAPIGroupVersion changes the version rows, and it adds one whose
\* number is one more than the highest.
LEMMA VersionsGrow ==
    ASSUME TypeInv, [Next]_vars, versions' # versions
    PROVE  \E q \in Requests, n \in NextNumber, h \in SUBSET Keys :
              /\ At(q, "publish") /\ PublishAPIGroupVersion(q) /\ h = Mem(q).hash
              /\ versions' = versions \cup {[id |-> q, number |-> n, hash |-> h]}
<1>1. ~UNCHANGED groupVars /\ ~UNCHANGED vars
  BY DEF groupVars, vars
<1>2. PICK q \in Requests : GroupNext(q, workload)
  BY <1>1 DEF Next
<1>3. PublishAPIGroupVersion(q)
  BY <1>1, <1>2 DEF GroupNext, GroupStart, ApiStep, GroupStep, ObjectStep, PublishStep,
     EndpointStep, CreateAPIGroup, GetAPIGroup, UpdateAPIGroup, SoftDeleteAPIGroup,
     UploadSpec, UploadVersionSpec, DownloadSpec, DownloadVersionSpec, ParseSpecEndpoints,
     ListAPIEndpoints, ListFails, ClearEndpoints, GetAPIGroupVersion,
     ListAPIEndpointsForVersion, CreateAPIEndpoint, GetAPIEndpoint, UpdateAPIEndpoint,
     SoftDeleteAPIEndpoint
<1>4. At(q, "publish") /\ Mem(q).hash \in SUBSET Keys
  <2>1. ProcsOK /\ "publish" \in GroupCalls
    BY TypeInvParts DEF GroupCalls
  <2> QED BY <1>3, <2>1, AtGroupCall DEF PublishAPIGroupVersion, GroupMemory
<1>5. \E n \in NextNumber :
         versions' = versions \cup {[id |-> q, number |-> n, hash |-> Mem(q).hash]}
  BY <1>1, <1>3 DEF PublishAPIGroupVersion
<1> QED BY <1>3, <1>4, <1>5

LogOfVersions == {[doc |-> "group", number |-> v.number, value |-> v.hash] : v \in versions}

\* The initial state is an empty log.
LEMMA LogInit == Init => Log!Init
<1> SUFFICES ASSUME Init PROVE Log!Init
  OBVIOUS
<1>1. LogOfVersions = {}
  BY DEF Init, GroupInit, LogOfVersions
<1>2. \A d : Log!Of(d) = {} /\ Log!Used(d) = {}
  BY <1>1 DEF Log!Of, Log!Used, LogOfVersions
<1> QED BY <1>1, <1>2 DEF Log!Init, LogOfVersions

\* Every step appends to the log or leaves it alone.
LEMMA LogNext == TypeInv /\ [Next]_vars => [Log!Next]_LogOfVersions
<1> SUFFICES ASSUME TypeInv, [Next]_vars, LogOfVersions' # LogOfVersions
             PROVE  Log!Next
  OBVIOUS
<1>1. versions' # versions
  BY DEF LogOfVersions
<1>2. PICK q \in Requests, n \in NextNumber, h \in SUBSET Keys :
         versions' = versions \cup {[id |-> q, number |-> n, hash |-> h]}
  BY <1>1, VersionsGrow
<1> DEFINE e == [doc |-> "group", number |-> n, value |-> h]
<1>4. LogOfVersions' = LogOfVersions \cup {e}
  BY <1>2 DEF LogOfVersions
<1>5. Log!Used("group") = Numbers
  <2>1. Log!Of("group") = LogOfVersions
    BY DEF Log!Of, LogOfVersions
  <2>2. Log!Used("group") = {x.number : x \in LogOfVersions}
    BY <2>1 DEF Log!Used
  <2>3. ASSUME NEW y \in LogOfVersions PROVE y.number \in Numbers
    BY DEF LogOfVersions, Numbers
  <2>4. ASSUME NEW v \in versions PROVE v.number \in {y.number : y \in LogOfVersions}
    <3> DEFINE y == [doc |-> "group", number |-> v.number, value |-> v.hash]
    <3>1. y \in LogOfVersions
      BY DEF LogOfVersions
    <3>2. y.number = v.number
      OBVIOUS
    <3> QED BY <3>1, <3>2
  <2>5. Numbers = {v.number : v \in versions}
    BY DEF Numbers
  <2> QED BY <2>2, <2>3, <2>4, <2>5
<1>6. Numbers \subseteq Nat
  BY TypeInvParts DEF GroupTypeOK, Version, Numbers
<1>7. n \in ({1} \cup {m + 1 : m \in Numbers}) \ Numbers
  <2>1. n \in {1} \cup {m + 1 : m \in Numbers}
    BY DEF NextNumber
  <2>2. n \in Nat
    BY <1>6, <2>1
  <2>3. n \notin Numbers
    BY <1>6, <2>2 DEF NextNumber
  <2> QED BY <2>1, <2>3
<1>8. Log!Append("group", h)
  BY <1>4, <1>5, <1>7 DEF Log!Append, LogOfVersions
<1> QED BY <1>8 DEF Log!Next

\* Although syncs, updates, releases and restores overlap and are cut short,
\* the versions of an API group are numbered without a gap or a repetition,
\* grow only at the end and are never rewritten: Catalog implements VersionLog.
THEOREM VersionsAreALog == Spec => RefinesVersionLog
<1>1. Init => Log!Init
  BY LogInit
<1>2. TypeInv /\ [Next]_vars =>
         [Log!Next]_{[doc |-> "group", number |-> v.number, value |-> v.hash] : v \in versions}
  BY LogNext DEF LogOfVersions
<1> QED BY <1>1, <1>2, InitType, NextType, PTL DEF Spec, RefinesVersionLog, Log!Spec

(***************************************************************************)
(* That the specs, the versions and the working copy of an API group       *)
(* agree, for every set of requests, operations and SLAs.                  *)
(***************************************************************************)

(* What holds whatever overlaps or fails.                                   *)

\* Which operations make a call.
MakesCall(op, c) ==
    /\ c = "create" => op \in {"createGroup", "createEmpty"}
    /\ c = "upload" => op \in SpecOps \cup {"restoreVersion"}
    /\ c = "download" => op \in {"snapshotVersion", "getSpec"}
    /\ c = "vupload" => op # "getSpec"
    /\ c \in {"getVersion", "vdownload", "vlist"} => op = "restoreVersion"
    /\ c \in {"parse", "save"} => op # "snapshotVersion"
    /\ c \in {"list", "clear"} => op # "snapshotVersion"
    /\ c \in {"getEndpoint", "saveEndpoint"} => op = "updateEndpoint"

\* The calls between the upload of the spec that is published and the commit.
Publishing == {"vupload", "parse", "list", "clear", "publish"}

UniqueKeys(S) == \A d, e \in S : d.key = e.key => d = e

\* What request q of operation op, at a call and holding mem, knows.
Knowing(q, op, call, mem) ==
    /\ group.state = "absent" => call = "create"
    /\ mem.hash # NoSpec => object # NoSpec
    /\ op \in SpecOps => mem.spec # NoSpec
    /\ op = "snapshotVersion" =>
          mem.eps = {} /\ mem.retire = {} /\ (call # "get" => mem.hash # NoSpec)
    /\ call = "vdownload" => \E v \in versions : v.id = mem.ver
    /\ call \in {"vlist", "upload"} \cup Publishing => mem.spec # NoSpec
    /\ call \in Publishing /\ op # "snapshotVersion" => mem.hash = mem.spec
    /\ call \in Publishing \ {"vupload"} => vobject[q] = mem.spec
    /\ \A i \in mem.retire : ~i[3]
    /\ UniqueKeys(mem.eps) \/ (op = "restoreVersion" /\ Requested("updateEndpoint"))

\* A restore looks its version up first, and only a release of the working copy
\* commits right after it stored the version's object.
Adjacent(op, c, d) ==
    /\ op = "restoreVersion" /\ c = "get" => d = "getVersion"
    /\ c = "vupload" /\ d = "publish" => op = "snapshotVersion"

\* Every request of the API group does, and has only calls of its operation left.
Knows(q) ==
    Busy(q) /\ Op(q) \in GroupOps =>
        /\ \A i \in 1..Len(proc[q].todo) : MakesCall(Op(q), proc[q].todo[i])
        /\ \A i \in 1..(Len(proc[q].todo) - 1) :
              Adjacent(Op(q), proc[q].todo[i], proc[q].todo[i + 1])
        /\ Knowing(q, Op(q), Head(proc[q].todo), Mem(q))

\* A version's request is over, its object is there and is the spec it names.
VersionsStored ==
    \A v \in versions :
        /\ ~Busy(v.id) /\ Op(v.id) # "none"
        /\ vobject[v.id] # NoSpec
        /\ Op(v.id) # "snapshotVersion" => vobject[v.id] = v.hash

\* A snapshot's endpoints belong to a version, one per operation unless one
\* was edited.
SnapshotsOwned ==
    /\ \A e \in endpoints : e.id[3] => \E v \in versions : v.id = e.id[1]
    /\ ~Requested("updateEndpoint") =>
          \A e, f \in endpoints : e.id[3] /\ f.id[3] /\ e.id[1] = f.id[1] /\ e.key = f.key
                                  => e = f

\* One request creates the group, before any other and before anything is
\* stored.
CreatedOnce ==
    /\ \A p, q \in Requests :
          Op(p) \in {"createGroup", "createEmpty"} /\ Op(q) \in {"createGroup", "createEmpty"}
          => p = q
    /\ \A q \in Requests : At(q, "create") => group.state = "absent"
    /\ group.state = "absent" => group.hash = NoSpec /\ object = NoSpec /\ versions = {}
    /\ group.state # "absent" => \E p \in Requests : Op(p) # "none"

RowsInv ==
    /\ VersionsStored /\ WorkingCopyUnique /\ SnapshotsOwned /\ CreatedOnce
    /\ group.hash # NoSpec => object # NoSpec

AnyInv == RowsInv /\ \A q \in Requests : Knows(q)

-----------------------------------------------------------------------------
(* What holds besides as long as no requests overlapped and none failed.    *)

EditedAndRestored == Requested("updateEndpoint") /\ Requested("restoreVersion")

\* The group, its object and its latest version name the same spec.
Settled ==
    /\ GroupLive => group.hash = object
    /\ GroupLive /\ object # NoSpec =>
          \E v \in versions : v.hash = object /\ \A u \in versions : u.number <= v.number

\* q has overwritten the object and not committed its version yet.
Ahead(q) ==
    /\ Busy(q) /\ Op(q) \in GroupOps \ {"snapshotVersion"}
    /\ Head(proc[q].todo) \in Publishing

\* What a request that runs alone knows.
KnowingAlone(op, call, mem) ==
    /\ call = "save" => mem.hash = group.hash
    /\ op = "snapshotVersion" /\ call # "get" => mem.hash = group.hash
    /\ op # "snapshotVersion" /\ call \in Publishing => object = mem.spec
    /\ call \in {"clear", "publish"} =>
          \A e \in Working, d \in mem.eps :
             e.key = d.key /\ e.sla # NoSla => d.sla = e.sla
    /\ op # "snapshotVersion" /\ call = "publish" => mem.retire = {e.id : e \in Working}

KnowsAlone(q) ==
    Busy(q) /\ Op(q) \in GroupOps => KnowingAlone(Op(q), Head(proc[q].todo), Mem(q))

AloneInv ==
    clean =>
        /\ \A p, q \in Requests : Busy(p) /\ Busy(q) => p = q
        /\ \A q \in Requests : KnowsAlone(q)
        /\ ~EditedAndRestored /\ (\A q \in Requests : ~Ahead(q)) => Settled

-----------------------------------------------------------------------------
(* Moving on.                                                               *)

\* What follows which call.
LEMMA Follows ==
    ASSUME NEW c, NEW d, <<c, d>> \in CallOrder
    PROVE  /\ d # "create" /\ d # "get" /\ c # "publish" /\ c # "save"
           /\ c = "create" => d = "upload"
           /\ c = "get" => d \in {"upload", "download", "save", "getVersion"}
           /\ c = "getVersion" => d = "vdownload"
           /\ c = "vdownload" => d = "vlist"
           /\ c = "vlist" => d = "upload"
           /\ c \in {"upload", "download"} => d = "vupload"
           /\ c = "vupload" => d \in {"parse", "list", "publish"}
           /\ c = "parse" => d = "list"
           /\ c = "list" => d = "clear"
           /\ c = "clear" => d = "publish"
           /\ c = "getEndpoint" => d = "saveEndpoint"
           /\ c \notin {"softDelete", "insertEndpoint", "saveEndpoint", "deleteEndpoint"}
BY DEF CallOrder

\* The requests a step of q leaves alone, and what becomes of q.
Others(q) ==
    /\ \A p \in Requests : p # q => proc'[p] = proc[p]
    /\ \A p \in Requests : Op(p)' = Op(p)

\* Request q of operation op may go on with the call d after c.
MayFollow(op, c, d) == <<c, d>> \in CallOrder /\ MakesCall(op, d) /\ Adjacent(op, c, d)

\* q has done the call c and goes on holding m.
Done(q, c, m) ==
    /\ Busy(q)' \/ c \in LastCalls
    /\ Busy(q)' =>
        /\ proc'[q].mem = m
        /\ MayFollow(Op(q), c, Head(proc'[q].todo))
        /\ \A i \in 1..Len(proc'[q].todo) : MakesCall(Op(q), proc'[q].todo[i])
        /\ \A i \in 1..(Len(proc'[q].todo) - 1) :
              Adjacent(Op(q), proc'[q].todo[i], proc'[q].todo[i + 1])

LEMMA CallDone ==
    ASSUME ProcsOK, NEW q \in Requests, NEW c \in GroupCalls, At(q, c), Knows(q), NEW m,
           proc'[q] = [op |-> Op(q), todo |-> Tail(proc[q].todo),
                       mem |-> Left(Tail(proc[q].todo), m)]
    PROVE  Done(q, c, m)
<1> DEFINE t == proc[q].todo
<1>1. /\ Op(q) \in GroupOps /\ t \in Seq(GroupCalls) /\ t # <<>> /\ InOrder(t) /\ Head(t) = c
  BY AtGroupCall
<1>2. /\ Tail(t) \in Seq(GroupCalls)
      /\ Tail(t) # <<>> => <<Head(t), Head(Tail(t))>> \in CallOrder
      /\ Tail(t) = <<>> => c \in LastCalls
  BY <1>1, TailInOrder
<1>3. /\ \A i \in 1..Len(t) : MakesCall(Op(q), t[i])
      /\ \A i \in 1..(Len(t) - 1) : Adjacent(Op(q), t[i], t[i + 1])
  BY <1>1 DEF Knows, Busy
<1>4. \A i \in 1..Len(Tail(t)) : Tail(t)[i] = t[i + 1] /\ i + 1 \in 1..Len(t)
  BY <1>1
<1>5. \A i \in 1..Len(Tail(t)) : MakesCall(Op(q), Tail(t)[i])
  BY <1>3, <1>4
<1>6. Tail(t) # <<>> => Head(Tail(t)) = Tail(t)[1] /\ 1 \in 1..Len(Tail(t))
  BY <1>2
<1>7. proc'[q].todo = Tail(t)
  OBVIOUS
<1>8. Tail(t) # <<>> => proc'[q].mem = m
  BY DEF Left
<1>9. \A i \in 1..(Len(Tail(t)) - 1) : Adjacent(Op(q), Tail(t)[i], Tail(t)[i + 1])
  BY <1>1, <1>3, <1>4
<1>10. Tail(t) # <<>> => Adjacent(Op(q), c, Head(Tail(t)))
  <2>1. Tail(t) # <<>> => 1 \in 1..(Len(t) - 1) /\ t[1] = c /\ t[2] = Head(Tail(t))
    BY <1>1, <1>2
  <2> QED BY <1>3, <2>1
<1> QED BY <1>1, <1>2, <1>5, <1>6, <1>7, <1>8, <1>9, <1>10 DEF Done, Busy, MayFollow

\* The ways a step of the API group moves its request on.
LEMMA StepMoves ==
    ASSUME ProcsOK, NEW q \in Requests, NEW c \in GroupCalls, At(q, c), Knows(q)
    PROVE  /\ Ends(q) => Others(q) /\ ~Busy(q)' /\ clean' = clean
           /\ \A m : Keeps(q, m) => Others(q) /\ Done(q, c, m) /\ clean' = clean
           /\ Proceeds(q) => Others(q) /\ Done(q, c, Mem(q)) /\ clean' = clean
           /\ Skips(q) => Others(q) /\ Done(q, c, Mem(q)) /\ clean' = FALSE
<1>1. Busy(q)
  BY DEF At, Busy
<1>2. ASSUME NEW t, NEW m, Becomes(q, Op(q), t, m)
      PROVE  Others(q) /\ proc'[q] = [op |-> Op(q), todo |-> t, mem |-> m]
  BY <1>2, BecomesEffect DEF Others, Op
<1>3. ASSUME Ends(q) PROVE Others(q) /\ ~Busy(q)' /\ clean' = clean
  <2>1. Becomes(q, Op(q), <<>>, NoMem)
    BY <1>3, StepsBecome DEF Ends, Left
  <2>2. Others(q) /\ proc'[q] = [op |-> Op(q), todo |-> <<>>, mem |-> NoMem]
    BY ONLY <2>1, <1>2
  <2> QED BY <1>3, <2>2 DEF Busy, Ends, Goes
<1>4. ASSUME NEW m, Keeps(q, m) PROVE Others(q) /\ Done(q, c, m) /\ clean' = clean
  <2>1. /\ Becomes(q, Op(q), Tail(proc[q].todo), Left(Tail(proc[q].todo), m))
        /\ clean' = clean
    BY <1>4, StepsBecome DEF Keeps, Goes
  <2> QED BY <2>1, <1>2, CallDone
<1>5. Proceeds(q) => Keeps(q, Mem(q))
  BY DEF Proceeds, Mem
<1>6. ASSUME Skips(q) PROVE Others(q) /\ Done(q, c, Mem(q)) /\ clean' = FALSE
  <2>1. /\ Becomes(q, Op(q), Tail(proc[q].todo), Left(Tail(proc[q].todo), Mem(q)))
        /\ clean' = FALSE
    BY <1>1, <1>6, StepsBecome DEF Skips
  <2> QED BY <2>1, <1>2, CallDone
<1> QED BY <1>3, <1>4, <1>5, <1>6

\* A request goes on knowing what it knew when another one moves: the object
\* is never removed, nor is a version, and its own version object is its own.
LEMMA OthersKnow ==
    ASSUME NEW p \in Requests, Knows(p), proc'[p] = proc[p],
           object # NoSpec => object' # NoSpec, versions \subseteq versions',
           vobject'[p] = vobject[p], group'.state = "absent" => group.state = "absent",
           Requested("updateEndpoint") => Requested("updateEndpoint")'
    PROVE  Knows(p)'
<1>1. ASSUME NEW op, NEW call, NEW mem, Knowing(p, op, call, mem)
      PROVE  Knowing(p, op, call, mem)'
  BY <1>1 DEF Knowing
<1>2. Op(p)' = Op(p) /\ Mem(p)' = Mem(p) /\ Busy(p)' = Busy(p)
  BY DEF Op, Mem, Busy
<1>3. ASSUME Busy(p), Op(p) \in GroupOps
      PROVE  Knowing(p, Op(p), Head(proc[p].todo), Mem(p))'
  <2>1. PICK op, call, mem : op = Op(p) /\ call = Head(proc[p].todo) /\ mem = Mem(p)
    OBVIOUS
  <2>2. op = Op(p)' /\ call = Head(proc[p].todo)' /\ mem = Mem(p)'
    BY <1>2, <2>1
  <2>3. Knowing(p, op, call, mem)'
    BY <1>1, <1>3, <2>1 DEF Knows
  <2> QED BY <2>2, <2>3
<1> QED BY <1>2, <1>3 DEF Knows

\* So the others know what they knew as long as nothing is removed.
LEMMA KnowAll ==
    ASSUME AnyInv, NEW q \in Requests, Others(q), Knows(q)',
           object # NoSpec => object' # NoSpec, versions \subseteq versions',
           \A p \in Requests : p # q => vobject'[p] = vobject[p],
           group'.state = "absent" => group.state = "absent"
    PROVE  \A p \in Requests : Knows(p)'
<1> SUFFICES ASSUME NEW p \in Requests, p # q PROVE Knows(p)'
  OBVIOUS
<1>1. Knows(p) /\ proc'[p] = proc[p]
  BY DEF AnyInv, Others
<1>2. Requested("updateEndpoint")' <=> Requested("updateEndpoint")
  BY DEF Others, Requested
<1> QED BY <1>1, <1>2, OthersKnow

\* A request under way has published nothing yet, so the versions stay as they
\* should be.
LEMMA VersionsKept ==
    ASSUME TypeInv, AnyInv, NEW q \in Requests, Busy(q), Others(q), NEW v \in versions,
           \A p \in Requests : p # q => vobject'[p] = vobject[p]
    PROVE  /\ v.id # q /\ v.id \in Requests
           /\ ~Busy(v.id)' /\ Op(v.id)' # "none" /\ vobject'[v.id] # NoSpec
           /\ Op(v.id)' # "snapshotVersion" => vobject'[v.id] = v.hash
<1>1. /\ v.id \in Requests /\ ~Busy(v.id) /\ Op(v.id) # "none" /\ vobject[v.id] # NoSpec
      /\ Op(v.id) # "snapshotVersion" => vobject[v.id] = v.hash
  BY TypeInvParts DEF AnyInv, RowsInv, VersionsStored, GroupTypeOK, Version
<1>2. v.id # q /\ proc'[v.id] = proc[v.id]
  BY <1>1 DEF Others
<1> QED BY <1>1, <1>2 DEF Busy, Op

\* No call is followed by the creation of the group.
LEMMA NoCreation ==
    ASSUME NEW q \in Requests, NEW c, NEW m, Others(q), ~Busy(q)' \/ Done(q, c, m),
           NEW p \in Requests, At(p, "create")'
    PROVE  p # q /\ At(p, "create")
<1>1. p # q
  <2> SUFFICES ASSUME p = q PROVE FALSE
    OBVIOUS
  <2>1. Busy(q)' /\ Head(proc'[q].todo) = "create"
    BY DEF At, Busy
  <2>2. <<c, "create">> \in CallOrder
    BY <2>1 DEF Done, MayFollow
  <2> QED BY <2>2, Follows
<1> QED BY <1>1 DEF Others, At

\* A step that moves q on without touching the group's rows leaves them as they
\* should be.
LEMMA OnlyMoves ==
    ASSUME TypeInv, AnyInv, NEW q \in Requests, NEW c \in GroupCalls, NEW m,
           At(q, c), Others(q), ~Busy(q)' \/ Done(q, c, m), UNCHANGED groupVars, Knows(q)'
    PROVE  AnyInv'
<1>1. Busy(q)
  BY DEF At, Busy
<1>2. \A op : Requested(op)' <=> Requested(op)
  BY DEF Others, Requested
<1>3. \A p \in Requests : Knows(p)'
  BY KnowAll DEF groupVars
<1>4. VersionsStored'
  BY <1>1, VersionsKept DEF VersionsStored, groupVars
<1>5. \A p \in Requests : At(p, "create")' => At(p, "create")
  BY NoCreation
<1>6. CreatedOnce'
  BY <1>5 DEF AnyInv, RowsInv, CreatedOnce, Others, groupVars
<1>7. WorkingCopyUnique' /\ SnapshotsOwned'
  BY <1>2 DEF AnyInv, RowsInv, WorkingCopyUnique, Working, SnapshotsOwned, groupVars
<1> QED BY <1>3, <1>4, <1>6, <1>7 DEF AnyInv, RowsInv, groupVars

\* What q knows after a call it knows at the calls that may follow.
LEMMA KnowsNext ==
    ASSUME NEW q \in Requests, NEW c, NEW op, NEW m, op = Op(q), Others(q), Done(q, c, m),
           \A d : MayFollow(op, c, d) => Knowing(q, op, d, m)'
    PROVE  Knows(q)'
<1> SUFFICES ASSUME Busy(q)'
             PROVE  /\ \A i \in 1..Len(proc'[q].todo) : MakesCall(Op(q)', proc'[q].todo[i])
                    /\ \A i \in 1..(Len(proc'[q].todo) - 1) :
                          Adjacent(Op(q)', proc'[q].todo[i], proc'[q].todo[i + 1])
                    /\ Knowing(q, Op(q), Head(proc[q].todo), Mem(q))'
  BY DEF Knows
<1>1. Op(q)' = op
  BY DEF Others
<1>2. PICK d : d = Head(proc'[q].todo)
  OBVIOUS
<1>3. Knowing(q, op, d, m)' /\ Mem(q)' = m
  BY <1>2 DEF Done, Mem
<1> QED BY <1>1, <1>2, <1>3 DEF Done

\* The facts about q at its call, as constants.
LEMMA AtCall ==
    ASSUME TypeInv, AnyInv, NEW q \in Requests, NEW c \in GroupCalls, At(q, c)
    PROVE  /\ ProcsOK /\ GroupTypeOK /\ Knows(q)
           /\ Op(q) \in GroupOps /\ Mem(q) \in GroupMemory /\ MakesCall(Op(q), c)
           /\ Knowing(q, Op(q), c, Mem(q))
           /\ Busy(q) /\ GroupHeld(proc[q].todo, Mem(q)) /\ Head(proc[q].todo) = c
<1>1. ProcsOK /\ GroupTypeOK /\ Knows(q)
  BY TypeInvParts DEF AnyInv
<1>2. /\ Op(q) \in GroupOps /\ Mem(q) \in GroupMemory /\ proc[q].todo \in Seq(GroupCalls)
      /\ proc[q].todo # <<>> /\ Head(proc[q].todo) = c /\ GroupHeld(proc[q].todo, Mem(q))
  BY <1>1, AtGroupCall
<1>3. proc[q].todo[1] = c /\ 1 \in 1..Len(proc[q].todo)
  BY <1>2
<1> QED BY <1>1, <1>2, <1>3 DEF Knows, Busy

\* Reading the group's row.
LEMMA GetKnows ==
    ASSUME TypeInv, AnyInv, NEW q \in Requests, GetAPIGroup(q)
    PROVE  AnyInv'
<1>0. At(q, "get") /\ "get" \in GroupCalls
  BY DEF GetAPIGroup, GroupCalls
<1>1. /\ ProcsOK /\ GroupTypeOK /\ Knows(q) /\ Op(q) \in GroupOps /\ Mem(q) \in GroupMemory
      /\ Knowing(q, Op(q), "get", Mem(q))
  BY <1>0, AtCall
<1>2. PICK op, mem, m : op = Op(q) /\ mem = Mem(q) /\ m = [Mem(q) EXCEPT !.hash = group.hash]
  OBVIOUS
<1>3. m.hash = group.hash /\ m.spec = mem.spec /\ m.eps = mem.eps /\ m.retire = mem.retire
  BY <1>1, <1>2 DEF GroupMemory
<1>4. UNCHANGED groupVars
  BY DEF GetAPIGroup
<1>5. ASSUME Others(q), Done(q, "get", m), ~NothingToDo(q) PROVE AnyInv'
  <2>1. ASSUME NEW d, MayFollow(op, "get", d) PROVE Knowing(q, op, d, m)'
    <3>1. d \in {"upload", "download", "save", "getVersion"}
      BY <2>1, Follows DEF MayFollow
    <3>2. d = "upload" => op \in SpecOps
      BY <2>1 DEF MayFollow, Adjacent, MakesCall
    <3>3. group.hash # NoSpec => object # NoSpec
      BY DEF AnyInv, RowsInv
    <3>4. Requested("updateEndpoint")' <=> Requested("updateEndpoint")
      BY <1>5 DEF Others, Requested
    <3>5. group.state = "live" /\ (op = "snapshotVersion" => group.hash # NoSpec)
      BY <1>2, <1>5 DEF NothingToDo, GroupLive
    <3> QED BY <1>1, <1>2, <1>3, <1>4, <3>1, <3>2, <3>3, <3>4, <3>5
            DEF Knowing, groupVars, Publishing
  <2>2. Knows(q)'
    BY <1>2, <1>5, <2>1, KnowsNext
  <2> QED BY <1>0, <1>4, <1>5, <2>2, OnlyMoves
<1>6. CASE Ends(q)
  <2>1. Others(q) /\ ~Busy(q)'
    BY <1>0, <1>1, <1>6, StepMoves
  <2> QED BY <1>0, <1>4, <2>1, OnlyMoves DEF Knows
<1>7. CASE Keeps(q, m) /\ ~NothingToDo(q)
  BY <1>0, <1>1, <1>5, <1>7, StepMoves
<1>8. CASE op = "updateSpec" /\ Goes(q, <<"save">>, m) /\ ~NothingToDo(q)
  <2>1. <<"save">> # <<>> /\ <<"save">> \in Seq(GroupCalls)
    BY DEF GroupCalls
  <2>2. Becomes(q, op, <<"save">>, m)
    BY <1>1, <1>2, <1>8, <2>1, StepsBecome DEF Left
  <2>3. Others(q) /\ proc'[q] = [op |-> op, todo |-> <<"save">>, mem |-> m]
    BY <1>1, <1>2, <2>2, BecomesEffect DEF Others, Op
  <2>4. MayFollow(op, "get", "save")
    BY <1>8 DEF MayFollow, MakesCall, Adjacent, CallOrder
  <2>5. \A i \in 1..Len(<<"save">>) : <<"save">>[i] = "save"
    OBVIOUS
  <2>6. Done(q, "get", m)
    BY <1>2, <2>3, <2>4, <2>5 DEF Done, MayFollow, Busy
  <2> QED BY <1>5, <1>8, <2>3, <2>6
<1> QED BY <1>2, <1>6, <1>7, <1>8 DEF GetAPIGroup

\* A call that only reads: what q knows afterwards it knows of the same rows.
LEMMA ReadKnows ==
    ASSUME TypeInv, AnyInv, NEW q \in Requests, NEW c \in GroupCalls, At(q, c), NEW m,
           UNCHANGED groupVars, Others(q), Done(q, c, m),
           \A d : MayFollow(Op(q), c, d) => Knowing(q, Op(q), d, m)
    PROVE  AnyInv'
<1>1. PICK op : op = Op(q)
  OBVIOUS
<1>2. Requested("updateEndpoint")' <=> Requested("updateEndpoint")
  BY DEF Others, Requested
<1>3. ASSUME NEW d, Knowing(q, op, d, m) PROVE Knowing(q, op, d, m)'
  BY <1>2, <1>3 DEF Knowing, groupVars
<1>4. Knows(q)'
  BY <1>1, <1>3, KnowsNext
<1> QED BY <1>4, OnlyMoves

\* Reading the object, or parsing a spec.
LEMMA ObjectReadKnows ==
    ASSUME TypeInv, AnyInv, NEW q \in Requests,
           DownloadSpec(q) \/ DownloadVersionSpec(q) \/ ParseSpecEndpoints(q)
    PROVE  AnyInv'
<1>0. {"download", "vdownload", "parse"} \subseteq GroupCalls
  BY DEF GroupCalls
<1>1. ASSUME DownloadSpec(q) PROVE AnyInv'
  <2>1. PICK m : m = [Mem(q) EXCEPT !.spec = object]
    OBVIOUS
  <2>2. At(q, "download") /\ UNCHANGED groupVars /\ Keeps(q, m)
    BY <1>1, <2>1 DEF DownloadSpec
  <2>3. /\ ProcsOK /\ Knows(q) /\ Mem(q) \in GroupMemory /\ MakesCall(Op(q), "download")
        /\ Knowing(q, Op(q), "download", Mem(q))
    BY <1>0, <2>2, AtCall
  <2>4. Others(q) /\ Done(q, "download", m)
    BY <1>0, <2>2, <2>3, StepMoves
  <2>5. ASSUME NEW d, MayFollow(Op(q), "download", d) PROVE Knowing(q, Op(q), d, m)
    <3>1. d = "vupload"
      BY <2>5, Follows DEF MayFollow
    <3>2. Op(q) = "snapshotVersion"
      BY <2>3, <2>5, <3>1 DEF MayFollow, MakesCall
    <3>3. /\ m.hash = Mem(q).hash /\ m.spec = object /\ m.eps = Mem(q).eps
          /\ m.retire = Mem(q).retire
      BY <2>1, <2>3 DEF GroupMemory
    <3> QED BY <2>3, <3>1, <3>2, <3>3 DEF Knowing, Publishing, SpecOps
  <2> QED BY <1>0, <2>2, <2>4, <2>5, ReadKnows
<1>2. ASSUME DownloadVersionSpec(q) PROVE AnyInv'
  <2>1. PICK m : m = [Mem(q) EXCEPT !.spec = vobject[Mem(q).ver]]
    OBVIOUS
  <2>2. At(q, "vdownload") /\ UNCHANGED groupVars /\ Keeps(q, m)
    BY <1>2, <2>1 DEF DownloadVersionSpec
  <2>3. /\ ProcsOK /\ Knows(q) /\ Mem(q) \in GroupMemory /\ MakesCall(Op(q), "vdownload")
        /\ Knowing(q, Op(q), "vdownload", Mem(q))
    BY <1>0, <2>2, AtCall
  <2>4. Others(q) /\ Done(q, "vdownload", m)
    BY <1>0, <2>2, <2>3, StepMoves
  <2>5. ASSUME NEW d, MayFollow(Op(q), "vdownload", d) PROVE Knowing(q, Op(q), d, m)
    <3>1. d = "vlist"
      BY <2>5, Follows DEF MayFollow
    <3>2. Op(q) = "restoreVersion"
      BY <2>3 DEF MakesCall
    <3>3. /\ m.hash = Mem(q).hash /\ m.spec = vobject[Mem(q).ver] /\ m.eps = Mem(q).eps
          /\ m.retire = Mem(q).retire
      BY <2>1, <2>3 DEF GroupMemory
    <3>4. m.spec # NoSpec
      BY <2>3, <3>3 DEF Knowing, AnyInv, RowsInv, VersionsStored
    <3> QED BY <2>3, <3>1, <3>2, <3>3, <3>4 DEF Knowing, Publishing, SpecOps
  <2> QED BY <1>0, <2>2, <2>4, <2>5, ReadKnows
<1>3. ASSUME ParseSpecEndpoints(q) PROVE AnyInv'
  <2>1. PICK m : m = [Mem(q) EXCEPT !.eps = {[src |-> k, key |-> k, sla |-> NoSla] :
                                              k \in Mem(q).spec}]
    OBVIOUS
  <2>2. At(q, "parse") /\ UNCHANGED groupVars /\ Keeps(q, m)
    BY <1>3, <2>1 DEF ParseSpecEndpoints
  <2>3. /\ ProcsOK /\ Knows(q) /\ Mem(q) \in GroupMemory /\ MakesCall(Op(q), "parse")
        /\ Knowing(q, Op(q), "parse", Mem(q))
    BY <1>0, <2>2, AtCall
  <2>4. Others(q) /\ Done(q, "parse", m)
    BY <1>0, <2>2, <2>3, StepMoves
  <2>5. ASSUME NEW d, MayFollow(Op(q), "parse", d) PROVE Knowing(q, Op(q), d, m)
    <3>1. d = "list"
      BY <2>5, Follows DEF MayFollow
    <3>2. Op(q) # "snapshotVersion"
      BY <2>3 DEF MakesCall
    <3>3. /\ m.hash = Mem(q).hash /\ m.spec = Mem(q).spec /\ m.retire = Mem(q).retire
          /\ m.eps = {[src |-> k, key |-> k, sla |-> NoSla] : k \in Mem(q).spec}
      BY <2>1, <2>3 DEF GroupMemory
    <3>4. UniqueKeys(m.eps)
      BY <3>3 DEF UniqueKeys
    <3> QED BY <2>3, <3>1, <3>2, <3>3, <3>4 DEF Knowing, Publishing
  <2> QED BY <1>0, <2>2, <2>4, <2>5, ReadKnows
<1> QED BY <1>1, <1>2, <1>3

\* The SLA an endpoint draft gets from the working copy.
KeptSla(E, f) ==
    LET slas == {e.sla : e \in {x \in E : x.key = f.key}} \ {NoSla} IN
    IF slas = {} THEN f.sla ELSE CHOOSE s \in slas : TRUE

\* preserveEndpointSLAs only changes SLAs.
LEMMA PreservedDraft ==
    ASSUME NEW E, NEW F \in SUBSET Draft, NEW p \in PreserveEndpointSLAs(E, F)
    PROVE  \E f \in F : p.key = f.key /\ p.sla = KeptSla(E, f) /\ p = [f EXCEPT !.sla = KeptSla(E, f)]
<1>1. PreserveEndpointSLAs(E, F) = {[f EXCEPT !.sla = KeptSla(E, f)] : f \in F}
  BY DEF PreserveEndpointSLAs, KeptSla
<1>2. PICK f \in F : p = [f EXCEPT !.sla = KeptSla(E, f)]
  BY <1>1
<1>3. p.key = f.key /\ p.sla = KeptSla(E, f)
  BY <1>2 DEF Draft
<1> QED BY <1>2, <1>3

LEMMA PreserveUnique ==
    ASSUME NEW E, NEW F \in SUBSET Draft, UniqueKeys(F)
    PROVE  UniqueKeys(PreserveEndpointSLAs(E, F))
<1> SUFFICES ASSUME NEW p \in PreserveEndpointSLAs(E, F), NEW r \in PreserveEndpointSLAs(E, F),
                    p.key = r.key
             PROVE  p = r
  BY DEF UniqueKeys
<1>1. PICK f \in F : p.key = f.key /\ p = [f EXCEPT !.sla = KeptSla(E, f)]
  BY PreservedDraft
<1>2. PICK g \in F : r.key = g.key /\ r = [g EXCEPT !.sla = KeptSla(E, g)]
  BY PreservedDraft
<1>3. f = g
  BY <1>1, <1>2 DEF UniqueKeys
<1> QED BY <1>1, <1>2, <1>3

\* Reading the working copy or a snapshot.
LEMMA ListKnows ==
    ASSUME TypeInv, AnyInv, NEW q \in Requests,
           ListAPIEndpoints(q) \/ ListFails(q) \/ ClearEndpoints(q)
    PROVE  AnyInv'
<1>0. {"list", "clear"} \subseteq GroupCalls
  BY DEF GroupCalls
<1>1. ASSUME ListAPIEndpoints(q) PROVE AnyInv'
  <2>1. PICK m : m = [Mem(q) EXCEPT !.eps = PreserveEndpointSLAs(Working, @)]
    OBVIOUS
  <2>2. At(q, "list") /\ UNCHANGED groupVars /\ Keeps(q, m)
    BY <1>1, <2>1 DEF ListAPIEndpoints
  <2>3. /\ ProcsOK /\ Knows(q) /\ Mem(q) \in GroupMemory /\ MakesCall(Op(q), "list")
        /\ Knowing(q, Op(q), "list", Mem(q))
    BY <1>0, <2>2, AtCall
  <2>4. Others(q) /\ Done(q, "list", m)
    BY <1>0, <2>2, <2>3, StepMoves
  <2>5. ASSUME NEW d, MayFollow(Op(q), "list", d) PROVE Knowing(q, Op(q), d, m)
    <3>1. d = "clear"
      BY <2>5, Follows DEF MayFollow
    <3>2. Op(q) # "snapshotVersion"
      BY <2>3 DEF MakesCall
    <3>3. /\ m.hash = Mem(q).hash /\ m.spec = Mem(q).spec /\ m.retire = Mem(q).retire
          /\ m.eps = PreserveEndpointSLAs(Working, Mem(q).eps) /\ Mem(q).eps \in SUBSET Draft
      BY <2>1, <2>3 DEF GroupMemory
    <3>4. UniqueKeys(Mem(q).eps) => UniqueKeys(m.eps)
      BY <3>3, PreserveUnique
    <3> QED BY <2>3, <3>1, <3>2, <3>3, <3>4 DEF Knowing, Publishing
  <2> QED BY <1>0, <2>2, <2>4, <2>5, ReadKnows
<1>2. ASSUME ListFails(q) PROVE AnyInv'
  <2>1. PICK m : m = Mem(q)
    OBVIOUS
  <2>2. At(q, "list") /\ UNCHANGED groupVars /\ Skips(q)
    BY <1>2 DEF ListFails
  <2>3. /\ ProcsOK /\ Knows(q) /\ Mem(q) \in GroupMemory /\ MakesCall(Op(q), "list")
        /\ Knowing(q, Op(q), "list", Mem(q))
    BY <1>0, <2>2, AtCall
  <2>4. Others(q) /\ Done(q, "list", m)
    BY <1>0, <2>1, <2>2, <2>3, StepMoves
  <2>5. ASSUME NEW d, MayFollow(Op(q), "list", d) PROVE Knowing(q, Op(q), d, m)
    <3>1. d = "clear"
      BY <2>5, Follows DEF MayFollow
    <3>2. Op(q) # "snapshotVersion"
      BY <2>3 DEF MakesCall
    <3> QED BY <2>1, <2>3, <3>1, <3>2 DEF Knowing, Publishing
  <2> QED BY <1>0, <2>2, <2>4, <2>5, ReadKnows
<1>3. ASSUME ClearEndpoints(q) PROVE AnyInv'
  <2>1. PICK m : m = [Mem(q) EXCEPT !.retire = {e.id : e \in Working}]
    OBVIOUS
  <2>2. At(q, "clear") /\ UNCHANGED groupVars /\ Keeps(q, m)
    BY <1>3, <2>1 DEF ClearEndpoints
  <2>3. /\ ProcsOK /\ Knows(q) /\ Mem(q) \in GroupMemory /\ MakesCall(Op(q), "clear")
        /\ Knowing(q, Op(q), "clear", Mem(q))
    BY <1>0, <2>2, AtCall
  <2>4. Others(q) /\ Done(q, "clear", m)
    BY <1>0, <2>2, <2>3, StepMoves
  <2>5. ASSUME NEW d, MayFollow(Op(q), "clear", d) PROVE Knowing(q, Op(q), d, m)
    <3>1. d = "publish"
      BY <2>5, Follows DEF MayFollow
    <3>2. Op(q) # "snapshotVersion"
      BY <2>3 DEF MakesCall
    <3>3. /\ m.hash = Mem(q).hash /\ m.spec = Mem(q).spec /\ m.eps = Mem(q).eps
          /\ m.retire = {e.id : e \in Working}
      BY <2>1, <2>3 DEF GroupMemory
    <3>4. \A i \in m.retire : ~i[3]
      BY <3>3 DEF Working
    <3> QED BY <2>3, <3>1, <3>2, <3>3, <3>4 DEF Knowing, Publishing
  <2> QED BY <1>0, <2>2, <2>4, <2>5, ReadKnows
<1> QED BY <1>1, <1>2, <1>3

\* Looking up a version and its snapshot, or a single endpoint.
LEMMA LookupKnows ==
    ASSUME TypeInv, AnyInv, NEW q \in Requests,
           GetAPIGroupVersion(q) \/ ListAPIEndpointsForVersion(q) \/ GetAPIEndpoint(q)
    PROVE  AnyInv'
<1>0. {"getVersion", "vlist", "getEndpoint"} \subseteq GroupCalls
  BY DEF GroupCalls
<1>a. ASSUME NEW c \in GroupCalls, At(q, c), Ends(q), UNCHANGED groupVars PROVE AnyInv'
  <2>1. ProcsOK /\ Knows(q)
    BY <1>a, AtCall
  <2>2. Others(q) /\ ~Busy(q)'
    BY <1>a, <2>1, StepMoves
  <2> QED BY <1>a, <2>2, OnlyMoves DEF Knows
<1>1. ASSUME GetAPIGroupVersion(q) PROVE AnyInv'
  <2>2. At(q, "getVersion") /\ UNCHANGED groupVars
    BY <1>1 DEF GetAPIGroupVersion
  <2>a. ASSUME NEW v \in versions, Keeps(q, [Mem(q) EXCEPT !.ver = v.id]) PROVE AnyInv'
    <3>1. PICK m : m = [Mem(q) EXCEPT !.ver = v.id]
      OBVIOUS
    <3>2. /\ ProcsOK /\ Knows(q) /\ Mem(q) \in GroupMemory /\ MakesCall(Op(q), "getVersion")
          /\ Knowing(q, Op(q), "getVersion", Mem(q))
      BY <1>0, <2>2, AtCall
    <3>3. Others(q) /\ Done(q, "getVersion", m)
      BY <1>0, <2>a, <2>2, <3>1, <3>2, StepMoves
    <3>4. ASSUME NEW d, MayFollow(Op(q), "getVersion", d) PROVE Knowing(q, Op(q), d, m)
      <4>1. d = "vdownload"
        BY <3>4, Follows DEF MayFollow
      <4>2. Op(q) = "restoreVersion"
        BY <3>2 DEF MakesCall
      <4>3. /\ m.hash = Mem(q).hash /\ m.spec = Mem(q).spec /\ m.eps = Mem(q).eps
            /\ m.retire = Mem(q).retire /\ m.ver = v.id
        BY <3>1, <3>2 DEF GroupMemory
      <4> QED BY <3>2, <4>1, <4>2, <4>3 DEF Knowing, Publishing, SpecOps
    <3> QED BY <1>0, <2>2, <3>3, <3>4, ReadKnows
  <2> QED BY <1>0, <1>1, <1>a, <2>2, <2>a DEF GetAPIGroupVersion
<1>2. ASSUME ListAPIEndpointsForVersion(q) PROVE AnyInv'
  <2>1. PICK m : m = [Mem(q) EXCEPT !.eps = {[src |-> e.id[2], key |-> e.key, sla |-> e.sla] :
                                              e \in Snapshot(Mem(q).ver)}]
    OBVIOUS
  <2>2. At(q, "vlist") /\ UNCHANGED groupVars /\ Keeps(q, m)
    BY <1>2, <2>1 DEF ListAPIEndpointsForVersion
  <2>3. /\ ProcsOK /\ Knows(q) /\ Mem(q) \in GroupMemory /\ MakesCall(Op(q), "vlist")
        /\ Knowing(q, Op(q), "vlist", Mem(q))
    BY <1>0, <2>2, AtCall
  <2>4. Others(q) /\ Done(q, "vlist", m)
    BY <1>0, <2>2, <2>3, StepMoves
  <2>5. ASSUME NEW d, MayFollow(Op(q), "vlist", d) PROVE Knowing(q, Op(q), d, m)
    <3>1. d = "upload"
      BY <2>5, Follows DEF MayFollow
    <3>2. Op(q) = "restoreVersion"
      BY <2>3 DEF MakesCall
    <3>3. /\ m.hash = Mem(q).hash /\ m.spec = Mem(q).spec /\ m.retire = Mem(q).retire
          /\ m.eps = {[src |-> e.id[2], key |-> e.key, sla |-> e.sla] :
                      e \in Snapshot(Mem(q).ver)}
      BY <2>1, <2>3 DEF GroupMemory
    <3>4. ~Requested("updateEndpoint") =>
             \A e, f \in Snapshot(Mem(q).ver) : e.key = f.key => e = f
      BY DEF AnyInv, RowsInv, SnapshotsOwned, Snapshot
    <3>5. ~Requested("updateEndpoint") => UniqueKeys(m.eps)
      BY <3>3, <3>4 DEF UniqueKeys
    <3> QED BY <2>3, <3>1, <3>2, <3>3, <3>5 DEF Knowing, Publishing, SpecOps
  <2> QED BY <1>0, <2>2, <2>4, <2>5, ReadKnows
<1>3. ASSUME GetAPIEndpoint(q) PROVE AnyInv'
  <2>2. At(q, "getEndpoint") /\ UNCHANGED groupVars
    BY <1>3 DEF GetAPIEndpoint
  <2>a. ASSUME NEW x, Keeps(q, [Mem(q) EXCEPT !.ep = x]) PROVE AnyInv'
    <3>1. PICK m : m = [Mem(q) EXCEPT !.ep = x]
      OBVIOUS
    <3>2. /\ ProcsOK /\ Knows(q) /\ Mem(q) \in GroupMemory /\ MakesCall(Op(q), "getEndpoint")
          /\ Knowing(q, Op(q), "getEndpoint", Mem(q))
      BY <1>0, <2>2, AtCall
    <3>3. Others(q) /\ Done(q, "getEndpoint", m)
      BY <1>0, <2>a, <2>2, <3>1, <3>2, StepMoves
    <3>4. ASSUME NEW d, MayFollow(Op(q), "getEndpoint", d) PROVE Knowing(q, Op(q), d, m)
      <4>1. d = "saveEndpoint"
        BY <3>4, Follows DEF MayFollow
      <4>2. Op(q) = "updateEndpoint"
        BY <3>2 DEF MakesCall
      <4>3. /\ m.hash = Mem(q).hash /\ m.spec = Mem(q).spec /\ m.eps = Mem(q).eps
            /\ m.retire = Mem(q).retire
        BY <3>1, <3>2 DEF GroupMemory
      <4> QED BY <3>2, <4>1, <4>2, <4>3 DEF Knowing, Publishing, SpecOps
    <3> QED BY <1>0, <2>2, <3>3, <3>4, ReadKnows
  <2> QED BY <1>0, <1>3, <1>a, <2>2, <2>a DEF GetAPIEndpoint
<1> QED BY <1>1, <1>2, <1>3

\* Writing the group's row.
LEMMA RowKnows ==
    ASSUME TypeInv, AnyInv, NEW q \in Requests,
           CreateAPIGroup(q) \/ UpdateAPIGroup(q) \/ SoftDeleteAPIGroup(q)
    PROVE  AnyInv'
<1>0. {"create", "save", "softDelete"} \subseteq GroupCalls
  BY DEF GroupCalls
<1>1. PICK c \in {"create", "save", "softDelete"} : At(q, c)
  BY DEF CreateAPIGroup, UpdateAPIGroup, SoftDeleteAPIGroup
<1>2. Proceeds(q) /\ UNCHANGED <<object, versions, vobject, endpoints>>
  BY DEF CreateAPIGroup, UpdateAPIGroup, SoftDeleteAPIGroup
<1>3. /\ ProcsOK /\ GroupTypeOK /\ Knows(q) /\ Mem(q) \in GroupMemory /\ Op(q) \in GroupOps
      /\ Knowing(q, Op(q), c, Mem(q)) /\ MakesCall(Op(q), c) /\ Busy(q)
      /\ Head(proc[q].todo) = c
  BY <1>0, <1>1, AtCall
<1>4. PICK op, m : op = Op(q) /\ m = Mem(q)
  OBVIOUS
<1>5. Others(q) /\ Done(q, c, m)
  BY <1>0, <1>1, <1>2, <1>3, <1>4, StepMoves
<1>6. /\ group'.state = "absent" => group.state = "absent" /\ c # "create"
      /\ group'.hash \in {group.hash, NoSpec, m.hash}
      /\ c = "create" => CreateAPIGroup(q)
      /\ c # "create" /\ group.state = "absent" => group' = group
  BY <1>1, <1>3, <1>4 DEF GroupTypeOK, Group, GroupLive, At, CreateAPIGroup, UpdateAPIGroup,
     SoftDeleteAPIGroup
<1>7. \A op2 : Requested(op2)' <=> Requested(op2)
  BY <1>5 DEF Others, Requested
<1>8. ASSUME NEW d, MayFollow(op, c, d) PROVE Knowing(q, op, d, m)'
  <2>1. c = "create" /\ d = "upload"
    BY <1>1, <1>8, Follows DEF MayFollow
  <2>2. op = "createGroup"
    BY <1>3, <1>4, <1>8, <2>1 DEF MayFollow, MakesCall, SpecOps
  <2>3. group'.state = "live"
    BY <1>6, <2>1 DEF CreateAPIGroup
  <2> QED BY <1>2, <1>3, <1>4, <1>7, <2>1, <2>2, <2>3 DEF Knowing, SpecOps, Publishing
<1>9. Knows(q)'
  BY <1>4, <1>5, <1>8, KnowsNext
<1>10. \A p \in Requests : Knows(p)'
  BY <1>2, <1>5, <1>6, <1>9, KnowAll
<1>11. VersionsStored'
  BY <1>2, <1>3, <1>5, VersionsKept DEF VersionsStored
<1>12. WorkingCopyUnique' /\ SnapshotsOwned'
  BY <1>2, <1>7 DEF AnyInv, RowsInv, WorkingCopyUnique, Working, SnapshotsOwned
<1>13. group'.hash # NoSpec => object' # NoSpec
  BY <1>2, <1>3, <1>4, <1>6 DEF Knowing, AnyInv, RowsInv
<1>14. CreatedOnce'
  <2>1. \A p \in Requests : At(p, "create")' => p # q /\ At(p, "create")
    BY <1>5, NoCreation
  <2>2. ASSUME NEW p \in Requests, At(p, "create")' PROVE group'.state = "absent"
    <3>1. p # q /\ At(p, "create") /\ "create" \in GroupCalls
      BY <2>1, <2>2, <1>0
    <3>2. MakesCall(Op(p), "create") /\ group.state = "absent"
      BY <3>1, AtCall DEF AnyInv, RowsInv, CreatedOnce
    <3>3. c # "create"
      BY <1>3, <3>1, <3>2 DEF MakesCall, AnyInv, RowsInv, CreatedOnce
    <3> QED BY <1>6, <3>2, <3>3
  <2>3. group'.state = "absent" => group'.hash = NoSpec /\ object' = NoSpec /\ versions' = {}
    BY <1>2, <1>6 DEF AnyInv, RowsInv, CreatedOnce
  <2>4. \A p \in Requests : Op(p)' = Op(p)
    BY <1>5 DEF Others
  <2>5. Op(q)' # "none"
    BY <1>3, <2>4 DEF GroupOps, SpecOps
  <2> QED BY <2>2, <2>3, <2>4, <2>5 DEF AnyInv, RowsInv, CreatedOnce
<1> QED BY <1>10, <1>11, <1>12, <1>13, <1>14 DEF AnyInv, RowsInv

\* Writing the group's object or a version's.
LEMMA UploadKnows ==
    ASSUME TypeInv, AnyInv, NEW q \in Requests, UploadSpec(q) \/ UploadVersionSpec(q)
    PROVE  AnyInv'
<1>0. {"upload", "vupload"} \subseteq GroupCalls
  BY DEF GroupCalls
<1>1. PICK c \in {"upload", "vupload"} : At(q, c)
  BY DEF UploadSpec, UploadVersionSpec
<1>2. UNCHANGED <<group, versions, endpoints>>
  BY DEF UploadSpec, UploadVersionSpec
<1>3. /\ ProcsOK /\ GroupTypeOK /\ Knows(q) /\ Mem(q) \in GroupMemory /\ Op(q) \in GroupOps
      /\ Knowing(q, Op(q), c, Mem(q)) /\ MakesCall(Op(q), c) /\ Busy(q)
  BY <1>0, <1>1, AtCall
<1>4. PICK op, m : /\ op = Op(q)
                   /\ m = IF c = "upload" THEN [Mem(q) EXCEPT !.hash = Mem(q).spec] ELSE Mem(q)
  OBVIOUS
<1>5. /\ m.spec = Mem(q).spec /\ m.eps = Mem(q).eps /\ m.retire = Mem(q).retire
      /\ m.hash = IF c = "upload" THEN Mem(q).spec ELSE Mem(q).hash
      /\ m.spec # NoSpec
  BY <1>1, <1>3, <1>4 DEF GroupMemory, Knowing, Publishing
<1>6. /\ c = "upload" => UploadSpec(q)
      /\ c = "vupload" => UploadVersionSpec(q)
  BY <1>1 DEF UploadSpec, UploadVersionSpec, At
<1>7. Others(q) /\ Done(q, c, m)
  <2>1. CASE c = "upload"
    <3>1. Keeps(q, m)
      BY <1>4, <1>6, <2>1 DEF UploadSpec
    <3> QED BY <1>0, <1>1, <1>3, <3>1, StepMoves
  <2>2. CASE c = "vupload"
    <3>1. Proceeds(q) /\ m = Mem(q)
      BY <1>4, <1>6, <2>2 DEF UploadVersionSpec
    <3> QED BY <1>0, <1>1, <1>3, <3>1, StepMoves
  <2> QED BY <1>1, <2>1, <2>2
<1>8. /\ \A p \in Requests : p # q => vobject'[p] = vobject[p]
      /\ object # NoSpec => object' # NoSpec
      /\ c = "upload" => object' = m.spec
      /\ c = "vupload" => vobject'[q] = m.spec /\ object' = object
  BY <1>1, <1>3, <1>5, <1>6 DEF UploadSpec, UploadVersionSpec, GroupTypeOK
<1>9. \A op2 : Requested(op2)' <=> Requested(op2)
  BY <1>7 DEF Others, Requested
<1>10. ASSUME NEW d, MayFollow(op, c, d) PROVE Knowing(q, op, d, m)'
  <2>1. /\ c = "upload" => d = "vupload"
        /\ c = "vupload" => d \in {"parse", "list", "publish"}
    BY <1>10, Follows DEF MayFollow
  <2>2. c = "upload" => op # "snapshotVersion"
    BY <1>3, <1>4 DEF MakesCall, SpecOps
  <2>3. /\ m.hash # NoSpec => object' # NoSpec
        /\ op # "snapshotVersion" => m.hash = m.spec
    BY <1>1, <1>3, <1>4, <1>5, <1>8 DEF Knowing, Publishing
  <2>4. group'.state # "absent"
    BY <1>1, <1>2, <1>3 DEF Knowing
  <2> QED BY <1>1, <1>3, <1>4, <1>5, <1>8, <1>9, <2>1, <2>2, <2>3, <2>4 DEF Knowing, Publishing
<1>11. Knows(q)'
  BY <1>4, <1>7, <1>10, KnowsNext
<1>12. \A p \in Requests : Knows(p)'
  BY <1>2, <1>7, <1>8, <1>11, KnowAll
<1>13. VersionsStored'
  BY <1>2, <1>3, <1>7, <1>8, VersionsKept DEF VersionsStored
<1>14. WorkingCopyUnique' /\ SnapshotsOwned'
  BY <1>2, <1>9 DEF AnyInv, RowsInv, WorkingCopyUnique, Working, SnapshotsOwned
<1>15. group'.hash # NoSpec => object' # NoSpec
  BY <1>2, <1>8 DEF AnyInv, RowsInv
<1>16. CreatedOnce'
  <2>1. \A p \in Requests : At(p, "create")' => At(p, "create")
    BY <1>7, NoCreation
  <2>2. group.state # "absent"
    BY <1>1, <1>3 DEF Knowing
  <2> QED BY <1>2, <1>7, <2>1, <2>2 DEF AnyInv, RowsInv, CreatedOnce, Others
<1> QED BY <1>12, <1>13, <1>14, <1>15, <1>16 DEF AnyInv, RowsInv

-----------------------------------------------------------------------------
(* Endpoints.                                                               *)

OnePerKey(S) == \A e, f \in S : ~e.id[3] /\ ~f.id[3] /\ e.key = f.key => e = f

LEMMA UniqueMeansOnePerKey == WorkingCopyUnique <=> OnePerKey(endpoints)
BY DEF WorkingCopyUnique, OnePerKey, Working

\* The unique index keeps one endpoint per operation.
LEMMA IndexKeepsUnique ==
    ASSUME NEW K, NEW N, OnePerKey(K), ~Conflicts(K, N)
    PROVE  OnePerKey(K \cup N)
BY DEF OnePerKey, Conflicts

\* What is inserted belongs to the working copy, what is copied to q's snapshot.
LEMMA InsertedIds ==
    ASSUME NEW q, NEW E \in SUBSET Draft, NEW A \in SUBSET Endpoint
    PROVE  /\ \A e \in Inserted(q, E) : ~e.id[3] /\ e.id[1] = q
           /\ \A e \in Inserted(q, E) : \E d \in E : e.key = d.key /\ e.sla = d.sla
                 /\ e = [id |-> <<q, d.src, FALSE>>, key |-> d.key, sla |-> d.sla]
           /\ \A e \in Copied(q, A) : e.id[3] /\ e.id[1] = q
           /\ \A e \in Copied(q, A) : \E x \in A : /\ ~x.id[3] /\ e.key = x.key
                                                  /\ e = [x EXCEPT !.id = <<q, x.key, TRUE>>]
<1>1. ASSUME NEW e \in Inserted(q, E)
      PROVE  /\ ~e.id[3] /\ e.id[1] = q
             /\ \E d \in E : /\ e.key = d.key /\ e.sla = d.sla
                             /\ e = [id |-> <<q, d.src, FALSE>>, key |-> d.key, sla |-> d.sla]
  <2>1. PICK d \in E : e = [id |-> <<q, d.src, FALSE>>, key |-> d.key, sla |-> d.sla]
    BY DEF Inserted
  <2>2. e.id = <<q, d.src, FALSE>> /\ e.key = d.key /\ e.sla = d.sla
    BY <2>1
  <2>3. <<q, d.src, FALSE>>[3] = FALSE /\ <<q, d.src, FALSE>>[1] = q
    OBVIOUS
  <2>4. ~e.id[3] /\ e.id[1] = q
    BY <2>2, <2>3
  <2> QED BY <2>1, <2>2, <2>4
<1>2. ASSUME NEW e \in Copied(q, A)
      PROVE  /\ e.id[3] /\ e.id[1] = q
             /\ \E x \in A : /\ ~x.id[3] /\ e.key = x.key
                             /\ e = [x EXCEPT !.id = <<q, x.key, TRUE>>]
  <2>1. PICK x \in A : ~x.id[3] /\ e = [x EXCEPT !.id = <<q, x.key, TRUE>>]
    BY DEF Copied
  <2>2. e.id = <<q, x.key, TRUE>> /\ e.key = x.key
    BY <2>1 DEF Endpoint
  <2>3. <<q, x.key, TRUE>>[3] = TRUE /\ <<q, x.key, TRUE>>[1] = q
    OBVIOUS
  <2>4. e.id[3] /\ e.id[1] = q
    BY <2>2, <2>3
  <2> QED BY <2>1, <2>2, <2>4
<1> QED BY <1>1, <1>2

\* Creating, editing and deleting single endpoints.
LEMMA EndpointKnows ==
    ASSUME TypeInv, AnyInv, NEW q \in Requests,
           CreateAPIEndpoint(q) \/ UpdateAPIEndpoint(q) \/ SoftDeleteAPIEndpoint(q)
    PROVE  AnyInv'
<1>0. {"insertEndpoint", "saveEndpoint", "deleteEndpoint"} \subseteq GroupCalls
  BY DEF GroupCalls
<1>1. PICK c \in {"insertEndpoint", "saveEndpoint", "deleteEndpoint"} : At(q, c)
  BY DEF CreateAPIEndpoint, UpdateAPIEndpoint, SoftDeleteAPIEndpoint
<1>2. Proceeds(q) /\ UNCHANGED <<group, object, versions, vobject>>
  BY DEF CreateAPIEndpoint, UpdateAPIEndpoint, SoftDeleteAPIEndpoint
<1>3. /\ ProcsOK /\ GroupTypeOK /\ Knows(q) /\ Mem(q) \in GroupMemory /\ Op(q) \in GroupOps
      /\ MakesCall(Op(q), c) /\ Busy(q) /\ GroupHeld(proc[q].todo, Mem(q))
      /\ Head(proc[q].todo) = c
  BY <1>0, <1>1, AtCall
<1>4. Others(q) /\ Done(q, c, Mem(q))
  BY <1>0, <1>1, <1>2, <1>3, StepMoves
<1>5. ~Busy(q)'
  BY <1>1, <1>4, Follows DEF Done, MayFollow
<1>6. \A op : Requested(op)' <=> Requested(op)
  BY <1>4 DEF Others, Requested
<1>7. \A p \in Requests : Knows(p)'
  <2>1. Knows(q)'
    BY <1>5 DEF Knows
  <2> QED BY <1>2, <1>4, <2>1, KnowAll
<1>8. VersionsStored'
  BY <1>2, <1>3, <1>4, VersionsKept DEF VersionsStored
<1>9. CreatedOnce' /\ (group'.hash # NoSpec => object' # NoSpec)
  <2>1. \A p \in Requests : At(p, "create")' => At(p, "create")
    BY <1>5, <1>4, NoCreation
  <2> QED BY <1>2, <1>4, <2>1 DEF AnyInv, RowsInv, CreatedOnce, Others
<1>10. /\ OnePerKey(endpoints)
       /\ \A e \in endpoints : e.id[3] => \E v \in versions : v.id = e.id[1]
       /\ ~Requested("updateEndpoint") =>
             \A e, f \in endpoints : e.id[3] /\ f.id[3] /\ e.id[1] = f.id[1] /\ e.key = f.key
                                     => e = f
  BY UniqueMeansOnePerKey DEF AnyInv, RowsInv, SnapshotsOwned
<1>11. OnePerKey(endpoints)' /\ SnapshotsOwned'
  <2>1. ASSUME endpoints' \subseteq endpoints PROVE OnePerKey(endpoints)' /\ SnapshotsOwned'
    BY <1>2, <1>6, <1>10, <2>1 DEF OnePerKey, SnapshotsOwned
  <2>2. ASSUME CreateAPIEndpoint(q) PROVE OnePerKey(endpoints)' /\ SnapshotsOwned'
    <3> DEFINE new == Inserted(q, Mem(q).eps)
    <3>1. \A e \in new : ~e.id[3]
      <4>1. Mem(q).eps \in SUBSET Draft /\ endpoints \in SUBSET Endpoint
        BY <1>3 DEF GroupMemory, GroupTypeOK
      <4> QED BY <4>1, InsertedIds
    <3>2. CASE Conflicts(endpoints, new)
      BY <2>1, <2>2, <3>2 DEF CreateAPIEndpoint
    <3>3. CASE ~Conflicts(endpoints, new)
      <4>1. endpoints' = endpoints \cup new
        BY <2>2, <3>3 DEF CreateAPIEndpoint
      <4>2. OnePerKey(endpoints \cup new)
        BY <1>10, <3>3, IndexKeepsUnique
      <4> HIDE DEF new
      <4> QED BY <1>2, <1>6, <1>10, <3>1, <4>1, <4>2 DEF OnePerKey, SnapshotsOwned
    <3> QED BY <3>2, <3>3
  <2>3. ASSUME UpdateAPIEndpoint(q) PROVE OnePerKey(endpoints)' /\ SnapshotsOwned'
    <3>1. PICK ep, others : ep = Mem(q).ep /\ others = {e \in endpoints : e.id # ep.id}
      OBVIOUS
    <3>2. CASE endpoints' = endpoints
      BY <2>1, <3>2
    <3>3. CASE endpoints' # endpoints
      <4>1. /\ endpoints' = others \cup {ep} /\ others # endpoints
            /\ ep.id[3] \/ ~Conflicts(others, {ep})
        BY <2>3, <3>1, <3>3 DEF UpdateAPIEndpoint
      <4>2. PICK e \in endpoints : e.id = ep.id
        BY <3>1, <4>1
      <4>3. OnePerKey(others)
        BY <1>10, <3>1 DEF OnePerKey
      <4>4. OnePerKey(others \cup {ep})
        BY <4>1, <4>3, IndexKeepsUnique DEF OnePerKey
      <4>5. Requested("updateEndpoint")
        <5>1. c = "saveEndpoint"
          BY <1>1, <2>3 DEF At, UpdateAPIEndpoint
        <5> QED BY <1>3, <5>1 DEF MakesCall, Requested
      <4>6. \A f \in others \cup {ep} : f.id[3] => \E v \in versions : v.id = f.id[1]
        BY <1>10, <3>1, <4>2
      <4> QED BY <1>2, <1>6, <4>1, <4>4, <4>5, <4>6 DEF OnePerKey, SnapshotsOwned
    <3> QED BY <3>2, <3>3
  <2>4. ASSUME SoftDeleteAPIEndpoint(q) PROVE OnePerKey(endpoints)' /\ SnapshotsOwned'
    BY <2>1, <2>4 DEF SoftDeleteAPIEndpoint
  <2> QED BY <2>2, <2>3, <2>4
<1>12. WorkingCopyUnique'
  <2>1. WorkingCopyUnique' <=> OnePerKey(endpoints)'
    BY DEF WorkingCopyUnique, OnePerKey, Working
  <2> QED BY <1>11, <2>1
<1> QED BY <1>7, <1>8, <1>9, <1>11, <1>12 DEF AnyInv, RowsInv

\* Committing a version, or rolling it back.
LEMMA CommitKnows ==
    ASSUME TypeInv, AnyInv, NEW q \in Requests, PublishAPIGroupVersion(q)
    PROVE  AnyInv'
<1>0. At(q, "publish") /\ "publish" \in GroupCalls
  BY DEF PublishAPIGroupVersion, GroupCalls
<1>1. /\ ProcsOK /\ GroupTypeOK /\ Knows(q) /\ Mem(q) \in GroupMemory /\ Op(q) \in GroupOps
      /\ Knowing(q, Op(q), "publish", Mem(q)) /\ Busy(q)
  BY <1>0, AtCall
<1>2. PICK kept, new : /\ kept = {e \in endpoints : e.id \notin Mem(q).retire}
                       /\ new = Inserted(q, Mem(q).eps)
  OBVIOUS
<1>3. CASE Conflicts(kept, new)
  <2>1. Ends(q) /\ UNCHANGED groupVars
    BY <1>2, <1>3 DEF PublishAPIGroupVersion
  <2>2. Others(q) /\ ~Busy(q)'
    BY <1>0, <1>1, <2>1, StepMoves
  <2> QED BY <1>0, <2>1, <2>2, OnlyMoves DEF Knows
<1>4. CASE ~Conflicts(kept, new)
  <2>1. PICK n \in NextNumber :
           versions' = versions \cup {[id |-> q, number |-> n, hash |-> Mem(q).hash]}
    BY <1>2, <1>4 DEF PublishAPIGroupVersion
  <2>2. /\ endpoints' = kept \cup new \cup Copied(q, kept \cup new)
        /\ group' = IF GroupLive THEN [group EXCEPT !.hash = Mem(q).hash] ELSE group
        /\ Proceeds(q) /\ object' = object /\ vobject' = vobject
    BY <1>2, <1>4 DEF PublishAPIGroupVersion
  <2>3. Others(q) /\ Done(q, "publish", Mem(q))
    BY <1>0, <1>1, <2>2, StepMoves
  <2>4. ~Busy(q)'
    BY <2>3, Follows DEF Done, MayFollow
  <2>5. \A op : Requested(op)' <=> Requested(op)
    BY <2>3 DEF Others, Requested
  <2>6. group.state # "absent" /\ group'.state = group.state
    BY <1>1, <2>2 DEF Knowing, GroupTypeOK, Group
  <2>7. \A p \in Requests : Knows(p)'
    <3>1. Knows(q)'
      BY <2>4 DEF Knows
    <3> QED BY <2>1, <2>2, <2>3, <2>6, <3>1, KnowAll
  <2>8. VersionsStored'
    <3>1. \A v \in versions : /\ ~Busy(v.id)' /\ Op(v.id)' # "none" /\ vobject'[v.id] # NoSpec
                              /\ Op(v.id)' # "snapshotVersion" => vobject'[v.id] = v.hash
      BY <1>1, <2>2, <2>3, VersionsKept
    <3>2. /\ vobject'[q] = Mem(q).spec /\ Mem(q).spec # NoSpec
          /\ Op(q) # "snapshotVersion" => Mem(q).hash = Mem(q).spec
      BY <1>1, <2>2 DEF Knowing, Publishing
    <3>3. Op(q)' = Op(q) /\ Op(q) # "none"
      BY <1>1, <2>3 DEF Others, GroupOps, SpecOps
    <3> QED BY <2>1, <2>4, <3>1, <3>2, <3>3 DEF VersionsStored
  <2>9. CreatedOnce'
    <3>1. \A p \in Requests : At(p, "create")' => At(p, "create")
      BY <2>3, <2>4, NoCreation
    <3> QED BY <2>3, <2>6, <3>1 DEF AnyInv, RowsInv, CreatedOnce, Others
  <2>10. group'.hash # NoSpec => object' # NoSpec
    BY <1>1, <2>2 DEF Knowing, AnyInv, RowsInv, GroupTypeOK, Group
  <2>11. kept \in SUBSET Endpoint /\ new \in SUBSET Endpoint /\ Mem(q).eps \in SUBSET Draft
    <3>1. Mem(q).eps \in SUBSET Draft /\ endpoints \in SUBSET Endpoint
      BY <1>1 DEF GroupMemory, GroupTypeOK
    <3> QED BY <1>2, <3>1, InsertedType
  <2>12. PICK copied : copied = Copied(q, kept \cup new)
    OBVIOUS
  <2>13. /\ \A e \in new : ~e.id[3]
         /\ \A e \in copied : e.id[3] /\ e.id[1] = q
         /\ \A e \in copied : \E x \in kept \cup new :
               /\ ~x.id[3] /\ e.key = x.key /\ e = [x EXCEPT !.id = <<q, x.key, TRUE>>]
    <3>1. kept \cup new \in SUBSET Endpoint
      BY <2>11
    <3> QED BY <1>2, <2>11, <2>12, <3>1, InsertedIds
  <2>14. OnePerKey(kept \cup new)
    <3>1. OnePerKey(kept)
      BY <1>2, UniqueMeansOnePerKey DEF AnyInv, RowsInv, OnePerKey
    <3> QED BY <1>4, <3>1, IndexKeepsUnique
  <2>15. WorkingCopyUnique'
    <3>1. WorkingCopyUnique' <=> OnePerKey(endpoints)'
      BY DEF WorkingCopyUnique, OnePerKey, Working
    <3>2. OnePerKey(kept \cup new \cup copied)
      BY <2>13, <2>14 DEF OnePerKey
    <3> QED BY <2>2, <2>12, <3>1, <3>2 DEF OnePerKey
  <2>16. SnapshotsOwned'
    <3>1. \A e \in kept : e.id[3] => \E v \in versions : v.id = e.id[1] /\ v.id # q
      <4>1. \A v \in versions : v.id # q
        BY <1>1, <2>2, <2>3, VersionsKept
      <4> QED BY <1>2, <4>1 DEF AnyInv, RowsInv, SnapshotsOwned
    <3>2. \A e \in endpoints' : e.id[3] => (e \in kept \/ e \in copied)
      BY <2>2, <2>12, <2>13
    <3>3. \A e \in endpoints' : e.id[3] => \E v \in versions' : v.id = e.id[1]
      <4> SUFFICES ASSUME NEW e \in endpoints', e.id[3] PROVE \E v \in versions' : v.id = e.id[1]
        OBVIOUS
      <4>1. CASE e \in kept
        BY <2>1, <3>1, <4>1
      <4>2. CASE e \in copied
        <5> DEFINE v == [id |-> q, number |-> n, hash |-> Mem(q).hash]
        <5>1. v \in versions' /\ v.id = q
          BY <2>1
        <5> QED BY <2>13, <4>2, <5>1
      <4> QED BY <3>2, <4>1, <4>2
    <3>4. ASSUME ~Requested("updateEndpoint"), NEW e \in endpoints', NEW f \in endpoints',
                 e.id[3], f.id[3], e.id[1] = f.id[1], e.key = f.key
          PROVE  e = f
      <4>1. CASE e \in kept /\ f \in kept
        BY <1>2, <3>4, <4>1 DEF AnyInv, RowsInv, SnapshotsOwned
      <4>2. CASE e \in copied /\ f \in copied
        <5>1. PICK x \in kept \cup new :
                 ~x.id[3] /\ e.key = x.key /\ e = [x EXCEPT !.id = <<q, x.key, TRUE>>]
          BY <2>13, <4>2
        <5>2. PICK y \in kept \cup new :
                 ~y.id[3] /\ f.key = y.key /\ f = [y EXCEPT !.id = <<q, y.key, TRUE>>]
          BY <2>13, <4>2
        <5>3. x = y
          BY <2>14, <3>4, <5>1, <5>2 DEF OnePerKey
        <5> QED BY <5>1, <5>2, <5>3
      <4>3. (e \in kept \/ e \in copied) /\ (f \in kept \/ f \in copied)
        BY <3>2, <3>4
      <4>4. ~(e \in kept /\ f \in copied) /\ ~(e \in copied /\ f \in kept)
        BY <2>13, <3>1, <3>4
      <4> QED BY <4>1, <4>2, <4>3, <4>4
    <3> QED BY <2>5, <3>3, <3>4 DEF SnapshotsOwned
  <2> QED BY <2>7, <2>8, <2>9, <2>10, <2>15, <2>16 DEF AnyInv, RowsInv
<1> QED BY <1>3, <1>4

-----------------------------------------------------------------------------
(* Arrivals, failures and the requests of the services.                     *)

\* A handler's list has only calls of its operation.
LEMMA StepsMakeCalls ==
    ASSUME NEW op \in GroupOps
    PROVE  /\ \A i \in 1..Len(GroupSteps(op)) : MakesCall(op, GroupSteps(op)[i])
           /\ \A i \in 1..(Len(GroupSteps(op)) - 1) :
                 Adjacent(op, GroupSteps(op)[i], GroupSteps(op)[i + 1])
           /\ op \in {"createGroup", "createEmpty"} => Head(GroupSteps(op)) = "create"
           /\ op = "snapshotVersion" => Head(GroupSteps(op)) = "get"
<1>1. CASE op = "createGroup"
  BY <1>1 DEF GroupSteps, CreateGroupSteps, PublishSpec, MakesCall, Adjacent, SpecOps
<1>2. CASE op = "createEmpty"
  BY <1>2 DEF GroupSteps, CreateEmptySteps, MakesCall, Adjacent, SpecOps
<1>3. CASE op = "getSpec"
  BY <1>3 DEF GroupSteps, GetSpecSteps, MakesCall, Adjacent, SpecOps
<1>4. CASE op = "updateGroup"
  BY <1>4 DEF GroupSteps, UpdateGroupSteps, MakesCall, Adjacent, SpecOps
<1>5. CASE op = "updateSpec"
  BY <1>5 DEF GroupSteps, UpdateSpecSteps, PublishSpec, MakesCall, Adjacent, SpecOps
<1>6. CASE op = "syncGroup"
  BY <1>6 DEF GroupSteps, SyncSteps, PublishSpec, MakesCall, Adjacent, SpecOps
<1>7. CASE op = "deleteGroup"
  BY <1>7 DEF GroupSteps, DeleteGroupSteps, MakesCall, Adjacent, SpecOps
<1>8. CASE op = "createVersion"
  BY <1>8 DEF GroupSteps, VersionSteps, PublishSpec, MakesCall, Adjacent, SpecOps
<1>9. CASE op = "snapshotVersion"
  <2> DEFINE t == <<"get">> \o <<"download", "vupload", "publish">>
  <2>1. GroupSteps(op) = t
    BY <1>9 DEF GroupSteps, SnapshotSteps, PublishCopy
  <2>2. /\ Len(t) = 4 /\ t[1] = "get" /\ t[2] = "download" /\ t[3] = "vupload"
        /\ t[4] = "publish" /\ Head(t) = "get"
    OBVIOUS
  <2> HIDE DEF t
  <2> QED BY <1>9, <2>1, <2>2 DEF MakesCall, Adjacent, SpecOps
<1>10. CASE op = "restoreVersion"
  <2>1. GroupSteps(op) = <<"get", "getVersion", "vdownload", "vlist", "upload",
                           "vupload", "list", "clear", "publish">>
    BY <1>10 DEF GroupSteps, RestoreSteps
  <2> QED BY <1>10, <2>1 DEF MakesCall, Adjacent, SpecOps
<1>11. CASE op = "createEndpoint"
  BY <1>11 DEF GroupSteps, CreateEndpointSteps, MakesCall, Adjacent, SpecOps
<1>12. CASE op = "updateEndpoint"
  BY <1>12 DEF GroupSteps, UpdateEndpointSteps, MakesCall, Adjacent, SpecOps
<1>13. CASE op = "deleteEndpoint"
  BY <1>13 DEF GroupSteps, DeleteEndpointSteps, MakesCall, Adjacent, SpecOps
<1> QED
  BY <1>1, <1>2, <1>3, <1>4, <1>5, <1>6, <1>7, <1>8, <1>9, <1>10, <1>11, <1>12, <1>13
     DEF GroupOps, SpecOps

\* A step that changes request q only, which arrives or is under way.
LEMMA OnlyRequest ==
    ASSUME TypeInv, AnyInv, NEW q \in Requests, UNCHANGED groupVars,
           \A p \in Requests : p # q => proc'[p] = proc[p],
           Op(q) = "none" \/ (Busy(q) /\ Op(q)' = Op(q)), Op(q)' # "none",
           Knows(q)', At(q, "create")' => group.state = "absent",
           Op(q)' \in {"createGroup", "createEmpty"} =>
              (Op(q)' = Op(q) \/ \A p \in Requests : Op(p) = "none")
    PROVE  AnyInv'
<1>1. \A p \in Requests : p # q => Op(p)' = Op(p) /\ Busy(p)' = Busy(p)
  BY DEF Op, Busy
<1>2. Requested("updateEndpoint") => Requested("updateEndpoint")'
  BY <1>1 DEF Requested
<1>3. \A p \in Requests : Knows(p)'
  <2> SUFFICES ASSUME NEW p \in Requests, p # q PROVE Knows(p)'
    OBVIOUS
  <2>1. Knows(p) /\ proc'[p] = proc[p]
    BY DEF AnyInv
  <2> QED BY <1>2, <2>1, OthersKnow DEF groupVars
<1>4. VersionsStored'
  <2> SUFFICES ASSUME NEW v \in versions
               PROVE  /\ ~Busy(v.id)' /\ Op(v.id)' # "none" /\ vobject[v.id] # NoSpec
                      /\ Op(v.id)' # "snapshotVersion" => vobject[v.id] = v.hash
    BY DEF VersionsStored, groupVars
  <2>1. /\ v.id \in Requests /\ ~Busy(v.id) /\ Op(v.id) # "none" /\ vobject[v.id] # NoSpec
        /\ Op(v.id) # "snapshotVersion" => vobject[v.id] = v.hash
    BY TypeInvParts DEF AnyInv, RowsInv, VersionsStored, GroupTypeOK, Version
  <2> QED BY <1>1, <2>1
<1>5. CreatedOnce'
  <2>1. /\ \A x, y \in Requests :
              Op(x) \in {"createGroup", "createEmpty"} /\ Op(y) \in {"createGroup", "createEmpty"}
              => x = y
        /\ \A x \in Requests : At(x, "create") => group.state = "absent"
        /\ group.state = "absent" => group.hash = NoSpec /\ object = NoSpec /\ versions = {}
        /\ group.state # "absent" => \E x \in Requests : Op(x) # "none"
    BY DEF AnyInv, RowsInv, CreatedOnce
  <2>2. \A x \in Requests : At(x, "create")' => group.state = "absent"
    BY <2>1 DEF At
  <2>3. \A x, y \in Requests :
           Op(x)' \in {"createGroup", "createEmpty"} /\ Op(y)' \in {"createGroup", "createEmpty"}
           => x = y
    BY <1>1, <2>1
  <2> QED BY <1>1, <2>1, <2>2, <2>3 DEF CreatedOnce, groupVars
<1>6. WorkingCopyUnique' /\ SnapshotsOwned'
  BY <1>2 DEF AnyInv, RowsInv, WorkingCopyUnique, Working, SnapshotsOwned, groupVars
<1> QED BY <1>3, <1>4, <1>5, <1>6 DEF AnyInv, RowsInv, groupVars

\* A request of the API group arrives.
LEMMA ArrivalKnows ==
    ASSUME TypeInv, AnyInv, NEW q \in Requests, NEW op \in GroupOps,
           NEW s \in SpecInput(op), NEW eps \in DraftInput(op), GroupStart(q, op, s, eps)
    PROVE  AnyInv'
<1>1. PICK m : m = [spec |-> s, hash |-> NoSpec, eps |-> eps,
                    retire |-> {}, ver |-> NoMem, ep |-> NoMem]
  OBVIOUS
<1>2. ProcsOK /\ Op(q) = "none" /\ UNCHANGED groupVars /\ Arrives(q, op, GroupSteps(op), m)
  BY <1>1, TypeInvParts DEF GroupStart, Arrives, Op
<1>3. /\ \A p \in Requests : p # q => proc'[p] = proc[p]
      /\ proc'[q] = [op |-> op, todo |-> GroupSteps(op), mem |-> m]
  BY <1>2, StepsBecome, BecomesEffect
<1>4. /\ GroupSteps(op) \in Seq(GroupCalls) /\ GroupSteps(op) # <<>>
      /\ Head(GroupSteps(op)) \in FirstCalls
  BY GroupStepsInOrder
<1>5. /\ \A i \in 1..Len(GroupSteps(op)) : MakesCall(op, GroupSteps(op)[i])
      /\ \A i \in 1..(Len(GroupSteps(op)) - 1) :
            Adjacent(op, GroupSteps(op)[i], GroupSteps(op)[i + 1])
      /\ op \in {"createGroup", "createEmpty"} => Head(GroupSteps(op)) = "create"
      /\ op = "snapshotVersion" => Head(GroupSteps(op)) = "get"
  BY StepsMakeCalls
<1>6. IF op \in {"createGroup", "createEmpty"} THEN \A p \in Requests : Op(p) = "none"
      ELSE group.state # "absent"
  BY DEF GroupStart
<1>7. PICK c \in FirstCalls : c = Head(GroupSteps(op))
  BY <1>4
<1>8. Knowing(q, op, c, m)'
  <2>1. m.spec = s /\ m.hash = NoSpec /\ m.eps = eps /\ m.retire = {}
    BY <1>1
  <2>2. op \in SpecOps => s # NoSpec
    BY DEF SpecInput, Specs, NoSpec
  <2>3. UniqueKeys(eps) /\ (op = "snapshotVersion" => eps = {})
    BY DEF DraftInput, UniqueKeys
  <2>4. group'.state = "absent" => c = "create"
    BY <1>2, <1>5, <1>6, <1>7 DEF groupVars
  <2> QED BY <1>5, <1>7, <2>1, <2>2, <2>3, <2>4 DEF Knowing, FirstCalls, Publishing
<1>9. Knows(q)'
  <2>1. Op(q)' = op /\ proc'[q].todo = GroupSteps(op) /\ Head(proc'[q].todo) = c /\ Mem(q)' = m
    BY <1>3, <1>7 DEF Op, Mem
  <2> QED BY <1>5, <1>7, <1>8, <2>1 DEF Knows
<1>10. At(q, "create")' => group.state = "absent"
  <2> SUFFICES ASSUME At(q, "create")' PROVE group.state = "absent"
    OBVIOUS
  <2>1. c = "create" /\ GroupSteps(op)[1] = "create" /\ 1 \in 1..Len(GroupSteps(op))
    BY <1>3, <1>4, <1>7 DEF At
  <2>2. op \in {"createGroup", "createEmpty"}
    BY <1>5, <2>1 DEF MakesCall
  <2> QED BY <1>6, <2>2 DEF AnyInv, RowsInv, CreatedOnce
<1>11. Op(q)' = op /\ op # "none"
  BY <1>3 DEF Op, GroupOps, SpecOps
<1> QED BY <1>2, <1>3, <1>6, <1>9, <1>10, <1>11, OnlyRequest

\* A request of the services arrives or moves on, or a request is cut short.
LEMMA ElsewhereKnows ==
    ASSUME TypeInv, AnyInv, TypeInv', NEW q \in Requests, UNCHANGED groupVars,
           ServiceNext(q, workload) \/ Aborts(q)
    PROVE  AnyInv'
<1>0. ProcsOK /\ ProcsOK' /\ GroupOps \cap ServiceOps = {} /\ "none" \notin ServiceOps
  <2>1. ProcsOK'
    BY DEF TypeInv, TypeOK, ProcsOK
  <2>2. GroupOps \cap ServiceOps = {} /\ "none" \notin ServiceOps
    BY DEF GroupOps, SpecOps, ServiceOps
  <2> QED BY <2>1, <2>2, TypeInvParts
<1>1. CASE Aborts(q)
  <2>1. Becomes(q, Op(q), <<>>, NoMem) /\ Busy(q)
    BY <1>0, <1>1, StepsBecome DEF Aborts
  <2>2. /\ \A p \in Requests : p # q => proc'[p] = proc[p]
        /\ proc'[q] = [op |-> Op(q), todo |-> <<>>, mem |-> NoMem]
    BY <1>0, <2>1, BecomesEffect
  <2>3. Op(q)' = Op(q) /\ ~Busy(q)' /\ Op(q) # "none" /\ ~At(q, "create")'
    <3>1. Op(q) \in GroupOps \cup ServiceOps
      BY <1>0, <2>1 DEF ProcsOK, Held
    <3> QED BY <1>0, <2>2, <3>1 DEF Op, Busy, At, GroupOps, SpecOps
  <2> QED BY <2>1, <2>2, <2>3, OnlyRequest DEF Knows
<1>2. ASSUME Op(q)' \in ServiceOps PROVE Knows(q)' /\ ~At(q, "create")'
  <2>1. Op(q)' \notin GroupOps
    BY <1>0, <1>2
  <2>2. proc'[q].todo # <<>> => proc'[q].todo \in Seq(ServiceCalls)
    BY <1>0, <2>1 DEF ProcsOK, Held, Busy, Op
  <2>3. ~At(q, "create")'
    BY <2>2 DEF At, ServiceCalls
  <2> QED BY <2>1, <2>3 DEF Knows
<1>3. ASSUME NEW op \in ServiceOps, NEW i, NEW row, NEW given, NEW w,
             ServiceStart(q, op, i, row, given, w)
      PROVE  AnyInv'
  <2>1. PICK m : Arrives(q, op, ServiceSteps(op), m)
    BY <1>3 DEF ServiceStart
  <2>2. /\ \A p \in Requests : p # q => proc'[p] = proc[p]
        /\ Op(q)' = op /\ Op(q) = "none"
    <3>1. Becomes(q, op, ServiceSteps(op), m)
      BY <1>0, <2>1, StepsBecome
    <3> QED BY <1>0, <2>1, <3>1, BecomesEffect DEF Arrives, Op
  <2>3. Op(q)' \notin {"none", "createGroup", "createEmpty"}
    BY <2>2 DEF ServiceOps
  <2> QED BY <1>2, <2>2, <2>3, OnlyRequest
<1>4. CASE ServiceStep(q)
  <2>1. PICK c \in ServiceCalls : At(q, c)
    BY <1>4 DEF ServiceStep, ServiceCalls, CheckLimit, LimitUnknown, CreateService, GetService,
       UpdateService, SoftDeleteService, ClearDependencies, ResolveDependency, CommitDependencies
  <2>2. Op(q) \in ServiceOps /\ Busy(q)
    BY <1>0, <2>1, AtServiceCall DEF At, Busy
  <2>3. \/ \E t, m : Goes(q, t, m)
        \/ Skips(q)
    BY <1>4 DEF ServiceStep, CheckLimit, LimitUnknown, CreateService, GetService,
       UpdateService, SoftDeleteService, ClearDependencies, ResolveDependency,
       CommitDependencies, Keeps, Proceeds, Ends
  <2>4. PICK t, m : Becomes(q, Op(q), t, m)
    BY <1>0, <2>2, <2>3, StepsBecome
  <2>5. (\A p \in Requests : p # q => proc'[p] = proc[p]) /\ Op(q)' = Op(q)
    <3>1. /\ \A p \in Requests : p # q => proc'[p] = proc[p]
          /\ proc'[q] = [op |-> Op(q), todo |-> t, mem |-> m]
      BY <1>0, <2>4, BecomesEffect
    <3> QED BY <3>1 DEF Op
  <2>6. Op(q)' \notin {"none", "createGroup", "createEmpty"}
    BY <2>2, <2>5 DEF ServiceOps
  <2> QED BY <1>2, <2>2, <2>5, <2>6, OnlyRequest
<1> QED BY <1>1, <1>3, <1>4 DEF ServiceNext

LEMMA AnyInit == Init => AnyInv
<1> SUFFICES ASSUME Init PROVE AnyInv
  OBVIOUS
<1>1. \A q \in Requests : Op(q) = "none" /\ ~Busy(q) /\ ~At(q, "create")
  BY DEF Init, ReqsInit, Op, Busy, At
<1>2. \A q \in Requests : Knows(q)
  BY <1>1 DEF Knows
<1>3. RowsInv
  BY <1>1 DEF Init, GroupInit, RowsInv, VersionsStored, WorkingCopyUnique, Working,
     SnapshotsOwned, CreatedOnce
<1> QED BY <1>2, <1>3 DEF AnyInv

LEMMA AnyNext == TypeInv /\ AnyInv /\ [Next]_vars => AnyInv'
<1> SUFFICES ASSUME TypeInv, AnyInv, [Next]_vars PROVE AnyInv'
  OBVIOUS
<1>0. TypeInv'
  BY NextType
<1>1. CASE UNCHANGED vars
  <2>1. \A q \in Requests : Knows(q)'
    <3>1. UNCHANGED <<proc, groupVars>>
      BY <1>1 DEF vars
    <3>2. Requested("updateEndpoint")' <=> Requested("updateEndpoint")
      BY <3>1 DEF Requested, Op
    <3> QED BY <3>1, <3>2, OthersKnow DEF AnyInv, groupVars
  <2> QED BY <1>1, <2>1 DEF vars, groupVars, AnyInv, RowsInv, VersionsStored, WorkingCopyUnique,
          Working, SnapshotsOwned, CreatedOnce, Requested, Op, Busy, At
<1>2. ASSUME NEW q \in Requests, GroupNext(q, workload) PROVE AnyInv'
  BY <1>2, ArrivalKnows, GetKnows, ObjectReadKnows, ListKnows, LookupKnows, RowKnows,
     UploadKnows, EndpointKnows, CommitKnows
     DEF GroupNext, ApiStep, GroupStep, ObjectStep, PublishStep, EndpointStep
<1>3. ASSUME NEW q \in Requests, ServiceNext(q, workload) \/ Aborts(q), UNCHANGED groupVars
      PROVE  AnyInv'
  BY <1>0, <1>3, ElsewhereKnows
<1> QED BY <1>1, <1>2, <1>3 DEF Next

-----------------------------------------------------------------------------
(* Requests that run alone.                                                 *)

\* A step of q, alone, after which q knows what it should and the rows are
\* settled unless it has overwritten the object.
LEMMA AloneStep ==
    ASSUME AloneInv, clean, NEW q \in Requests, Busy(q), Others(q), KnowsAlone(q)',
           ~EditedAndRestored' /\ ~Ahead(q)' => Settled'
    PROVE  AloneInv'
<1>1. \A p \in Requests : p # q => ~Busy(p)
  BY DEF AloneInv
<1>2. \A p \in Requests : p # q => ~Busy(p)'
  BY <1>1 DEF Others, Busy
<1>3. \A p \in Requests : KnowsAlone(p)'
  BY <1>2 DEF KnowsAlone
<1> QED BY <1>2, <1>3 DEF AloneInv

\* What was known before such a step.
LEMMA AloneBefore ==
    ASSUME TypeInv, AnyInv, AloneInv, clean, NEW q \in Requests, NEW c \in GroupCalls, At(q, c)
    PROVE  /\ KnowingAlone(Op(q), c, Mem(q))
           /\ ~EditedAndRestored /\ (Op(q) = "snapshotVersion" \/ c \notin Publishing) => Settled
<1>1. Op(q) \in GroupOps /\ Busy(q) /\ Head(proc[q].todo) = c
  BY AtCall
<1>2. \A p \in Requests : p # q => ~Ahead(p)
  BY <1>1 DEF AloneInv, Ahead
<1>3. (Op(q) = "snapshotVersion" \/ c \notin Publishing) => ~Ahead(q)
  BY <1>1 DEF Ahead
<1> QED BY <1>1, <1>2, <1>3 DEF AloneInv, KnowsAlone

\* What q knows after a call it knows at the calls that may follow.
LEMMA AloneNext ==
    ASSUME NEW q \in Requests, NEW c, NEW op, NEW m, op = Op(q), Others(q), Done(q, c, m),
           \A d : MayFollow(op, c, d) => KnowingAlone(op, d, m)'
    PROVE  KnowsAlone(q)'
<1> SUFFICES ASSUME Busy(q)' PROVE KnowingAlone(Op(q), Head(proc[q].todo), Mem(q))'
  BY DEF KnowsAlone
<1>1. Op(q)' = op
  BY DEF Others
<1>2. PICK d : d = Head(proc'[q].todo)
  OBVIOUS
<1>3. KnowingAlone(op, d, m)' /\ Mem(q)' = m
  BY <1>2 DEF Done, Mem
<1> QED BY <1>1, <1>2, <1>3

\* After a call of a request that has overwritten the object it still is ahead,
\* until it commits.
LEMMA StaysAhead ==
    ASSUME NEW q \in Requests, NEW c, NEW m, Op(q) \in GroupOps \ {"snapshotVersion"}, Others(q),
           Done(q, c, m), c \in {"upload", "vupload", "parse", "list", "clear"}
    PROVE  Ahead(q)'
<1>1. Busy(q)'
  BY DEF Done, LastCalls
<1>2. Head(proc'[q].todo) \in Publishing
  BY <1>1, Follows DEF Done, MayFollow, Publishing
<1> QED BY <1>1, <1>2 DEF Ahead, Others

\* A call that only reads, alone.
LEMMA AloneReads ==
    ASSUME TypeInv, AnyInv, AloneInv, clean, NEW q \in Requests, NEW c \in GroupCalls, At(q, c),
           NEW m, UNCHANGED groupVars, Others(q), ~Busy(q)' \/ Done(q, c, m),
           Op(q) # "snapshotVersion" /\ c \in Publishing =>
              c \in {"parse", "list", "clear"} /\ Done(q, c, m),
           \A d : MayFollow(Op(q), c, d) => KnowingAlone(Op(q), d, m)
    PROVE  AloneInv'
<1>1. PICK op : op = Op(q)
  OBVIOUS
<1>2. Op(q) \in GroupOps /\ Busy(q)
  BY AtCall
<1>3. \A d : KnowingAlone(op, d, m)' <=> KnowingAlone(op, d, m)
  BY DEF KnowingAlone, groupVars, Working
<1>4. KnowsAlone(q)'
  <2>1. CASE ~Busy(q)'
    BY <2>1 DEF KnowsAlone
  <2>2. CASE Done(q, c, m)
    BY <1>1, <1>3, <2>2, AloneNext
  <2> QED BY <2>1, <2>2
<1>5. (EditedAndRestored' <=> EditedAndRestored) /\ (Settled' <=> Settled)
  BY DEF EditedAndRestored, Requested, Others, Settled, GroupLive, groupVars
<1>6. CASE Op(q) # "snapshotVersion" /\ c \in Publishing
  <2>1. Ahead(q)'
    BY <1>2, <1>6, StaysAhead
  <2> QED BY <1>2, <1>4, <2>1, AloneStep
<1>7. CASE Op(q) = "snapshotVersion" \/ c \notin Publishing
  <2>1. ~EditedAndRestored => Settled
    BY <1>7, AloneBefore
  <2> QED BY <1>2, <1>4, <1>5, <2>1, AloneStep
<1> QED BY <1>6, <1>7

\* The SLA a draft gets is the one of the endpoint it replaces.
LEMMA SlaCarried ==
    ASSUME WorkingCopyUnique, NEW F \in SUBSET Draft,
           NEW d \in PreserveEndpointSLAs(Working, F), NEW e \in Working,
           e.key = d.key, e.sla # NoSla
    PROVE  d.sla = e.sla
<1>1. PICK f \in F : d.key = f.key /\ d.sla = KeptSla(Working, f)
  BY PreservedDraft
<1> DEFINE slas == {x.sla : x \in {y \in Working : y.key = f.key}} \ {NoSla}
<1>2. slas = {e.sla}
  BY <1>1 DEF WorkingCopyUnique
<1>3. (CHOOSE s \in slas : TRUE) = e.sla
  BY <1>2
<1> QED BY <1>1, <1>2, <1>3 DEF KeptSla

\* Reading the group's row, alone.
LEMMA AloneGets ==
    ASSUME TypeInv, AnyInv, AloneInv, clean, NEW q \in Requests, GetAPIGroup(q)
    PROVE  AloneInv'
<1>0. At(q, "get") /\ "get" \in GroupCalls /\ UNCHANGED groupVars /\ "get" \notin Publishing
  BY DEF GetAPIGroup, GroupCalls, Publishing
<1>1. /\ ProcsOK /\ Knows(q) /\ Op(q) \in GroupOps /\ Mem(q) \in GroupMemory /\ Busy(q)
      /\ Knowing(q, Op(q), "get", Mem(q))
  BY <1>0, AtCall
<1>2. PICK m : m = [Mem(q) EXCEPT !.hash = group.hash]
  OBVIOUS
<1>3. m.hash = group.hash /\ m.spec = Mem(q).spec /\ m.eps = Mem(q).eps
  BY <1>1, <1>2 DEF GroupMemory
<1>4. ASSUME NEW d, MayFollow(Op(q), "get", d) PROVE KnowingAlone(Op(q), d, m)
  <2>1. d \in {"upload", "download", "save", "getVersion"}
    BY <1>4, Follows DEF MayFollow
  <2> QED BY <1>3, <2>1 DEF KnowingAlone, Publishing
<1>5. CASE Ends(q)
  <2>1. Others(q) /\ ~Busy(q)'
    BY <1>0, <1>1, <1>5, StepMoves
  <2> QED BY <1>0, <1>4, <2>1, AloneReads
<1>6. CASE Keeps(q, m)
  <2>1. Others(q) /\ Done(q, "get", m)
    BY <1>0, <1>1, <1>6, StepMoves
  <2> QED BY <1>0, <1>4, <2>1, AloneReads
<1>7. CASE Op(q) = "updateSpec" /\ Goes(q, <<"save">>, m)
  <2>1. <<"save">> # <<>> /\ Head(<<"save">>) = "save"
    OBVIOUS
  <2>2. Becomes(q, Op(q), <<"save">>, m)
    BY <1>1, <1>7, <2>1, StepsBecome DEF Left
  <2>3. Others(q) /\ proc'[q] = [op |-> Op(q), todo |-> <<"save">>, mem |-> m]
    BY <1>1, <2>2, BecomesEffect DEF Others, Op
  <2>4. KnowsAlone(q)'
    <3>1. Head(proc'[q].todo) = "save" /\ Mem(q)' = m /\ Op(q)' = "updateSpec"
      BY <1>7, <2>1, <2>3 DEF Mem, Op
    <3> QED BY <1>0, <1>3, <3>1 DEF KnowsAlone, KnowingAlone, Publishing, groupVars
  <2>5. (EditedAndRestored' <=> EditedAndRestored) /\ (Settled' <=> Settled)
    BY <1>0, <2>3 DEF EditedAndRestored, Requested, Others, Settled, GroupLive, groupVars
  <2>6. ~EditedAndRestored => Settled
    BY <1>0, AloneBefore
  <2> QED BY <1>1, <2>3, <2>4, <2>5, <2>6, AloneStep
<1> QED BY <1>2, <1>5, <1>6, <1>7 DEF GetAPIGroup

\* The other calls that only read, alone.
LEMMA AloneLooks ==
    ASSUME TypeInv, AnyInv, AloneInv, clean, clean', NEW q \in Requests,
           \/ DownloadSpec(q) \/ DownloadVersionSpec(q) \/ ParseSpecEndpoints(q)
           \/ ListAPIEndpoints(q) \/ ListFails(q) \/ ClearEndpoints(q)
           \/ GetAPIGroupVersion(q) \/ ListAPIEndpointsForVersion(q) \/ GetAPIEndpoint(q)
    PROVE  AloneInv'
<1>0. /\ {"download", "vdownload", "parse", "list", "clear", "getVersion", "vlist",
          "getEndpoint"} \subseteq GroupCalls
      /\ {"download", "vdownload", "getVersion", "vlist", "getEndpoint"} \cap Publishing = {}
  BY DEF GroupCalls, Publishing
<1>1. PICK c \in {"download", "vdownload", "parse", "list", "clear", "getVersion", "vlist",
                  "getEndpoint"} : At(q, c)
  BY DEF DownloadSpec, DownloadVersionSpec, ParseSpecEndpoints, ListAPIEndpoints, ListFails,
     ClearEndpoints, GetAPIGroupVersion, ListAPIEndpointsForVersion, GetAPIEndpoint
<1>2. UNCHANGED groupVars
  BY DEF DownloadSpec, DownloadVersionSpec, ParseSpecEndpoints, ListAPIEndpoints, ListFails,
     ClearEndpoints, GetAPIGroupVersion, ListAPIEndpointsForVersion, GetAPIEndpoint
<1>3. /\ ProcsOK /\ Knows(q) /\ Op(q) \in GroupOps /\ Mem(q) \in GroupMemory /\ Busy(q)
      /\ Knowing(q, Op(q), c, Mem(q)) /\ MakesCall(Op(q), c)
  BY <1>0, <1>1, AtCall
<1>4. KnowingAlone(Op(q), c, Mem(q))
  BY <1>0, <1>1, AloneBefore
<1>5. ~Skips(q)
  BY DEF Skips
<1>6. CASE Ends(q) /\ c \in {"getVersion", "getEndpoint"}
  <2>1. Others(q) /\ ~Busy(q)'
    BY <1>0, <1>1, <1>3, <1>6, StepMoves
  <2>2. PICK m : m = [Mem(q) EXCEPT !.eps = {}]
    OBVIOUS
  <2>3. \A d : MayFollow(Op(q), c, d) => KnowingAlone(Op(q), d, m)
    <3>1. \A d : MayFollow(Op(q), c, d) => d \in {"vdownload", "saveEndpoint"}
      BY <1>6, Follows DEF MayFollow
    <3>2. Op(q) # "snapshotVersion"
      BY <1>3, <1>6 DEF MakesCall
    <3> QED BY <3>1, <3>2 DEF KnowingAlone, Publishing
  <2> QED BY <1>0, <1>1, <1>2, <1>6, <2>1, <2>3, AloneReads
<1>7. PICK m : /\ m = IF c = "download" THEN [Mem(q) EXCEPT !.spec = object]
                      ELSE IF c = "list" THEN [Mem(q) EXCEPT !.eps = PreserveEndpointSLAs(Working, @)]
                      ELSE IF c = "clear" THEN [Mem(q) EXCEPT !.retire = {e.id : e \in Working}]
                      ELSE Mem(q)
  OBVIOUS
<1>8. /\ m.hash = Mem(q).hash
      /\ c # "download" => m.spec = Mem(q).spec
      /\ c = "list" => m.eps = PreserveEndpointSLAs(Working, Mem(q).eps)
      /\ c = "clear" => m.eps = Mem(q).eps /\ m.retire = {e.id : e \in Working}
      /\ Mem(q).eps \in SUBSET Draft
  BY <1>3, <1>7 DEF GroupMemory
<1>9. ASSUME NEW k, Keeps(q, k), k.hash = m.hash,
             c = "parse" => k.spec = m.spec,
             c \in {"download", "list", "clear"} => k = m
      PROVE  AloneInv'
  <2>1. Others(q) /\ Done(q, c, k)
    BY <1>0, <1>1, <1>3, <1>9, StepMoves
  <2>2. ASSUME NEW d, MayFollow(Op(q), c, d) PROVE KnowingAlone(Op(q), d, k)
    <3>1. CASE c \in {"vdownload", "vlist", "getVersion", "getEndpoint"}
      <4>1. d \in {"upload", "vlist", "vdownload", "saveEndpoint"}
        BY <2>2, <3>1, Follows DEF MayFollow
      <4>2. Op(q) # "snapshotVersion"
        BY <1>3, <3>1 DEF MakesCall
      <4> QED BY <4>1, <4>2 DEF KnowingAlone, Publishing
    <3>2. CASE c = "download"
      <4>1. d = "vupload"
        BY <2>2, <3>2, Follows DEF MayFollow
      <4>2. Op(q) = "snapshotVersion"
        BY <1>3, <2>2, <3>2, <4>1 DEF MakesCall, MayFollow
      <4> QED BY <1>4, <1>8, <1>9, <3>2, <4>1, <4>2 DEF KnowingAlone, Publishing
    <3>3. CASE c = "parse"
      <4>1. d = "list"
        BY <2>2, <3>3, Follows DEF MayFollow
      <4>2. Op(q) # "snapshotVersion"
        BY <1>3, <3>3 DEF MakesCall
      <4> QED BY <1>4, <1>8, <1>9, <3>3, <4>1, <4>2 DEF KnowingAlone, Publishing
    <3>4. CASE c = "list"
      <4>1. d = "clear"
        BY <2>2, <3>4, Follows DEF MayFollow
      <4>2. Op(q) # "snapshotVersion"
        BY <1>3, <3>4 DEF MakesCall
      <4>3. \A e \in Working, x \in m.eps : e.key = x.key /\ e.sla # NoSla => x.sla = e.sla
        BY <1>8, <3>4, SlaCarried DEF AnyInv, RowsInv
      <4> QED BY <1>4, <1>8, <1>9, <3>4, <4>1, <4>2, <4>3 DEF KnowingAlone, Publishing
    <3>5. CASE c = "clear"
      <4>1. d = "publish"
        BY <2>2, <3>5, Follows DEF MayFollow
      <4>2. Op(q) # "snapshotVersion"
        BY <1>3, <3>5 DEF MakesCall
      <4> QED BY <1>4, <1>8, <1>9, <3>5, <4>1, <4>2 DEF KnowingAlone, Publishing
    <3> QED BY <1>1, <3>1, <3>2, <3>3, <3>4, <3>5
  <2>3. c \in Publishing => c \in {"parse", "list", "clear"}
    BY <1>0, <1>1
  <2> QED BY <1>0, <1>1, <1>2, <2>1, <2>2, <2>3, AloneReads
<1>10. CASE DownloadSpec(q) \/ ListAPIEndpoints(q) \/ ClearEndpoints(q)
  <2>1. Keeps(q, m)
    BY <1>1, <1>7, <1>10 DEF DownloadSpec, ListAPIEndpoints, ClearEndpoints, At
  <2> QED BY <1>1, <1>8, <1>9, <1>10, <2>1 DEF DownloadSpec, ListAPIEndpoints, ClearEndpoints, At
<1>11. ASSUME NEW k, Keeps(q, k), k.hash = Mem(q).hash, k.spec = Mem(q).spec,
              c \notin {"download", "list", "clear"}
       PROVE  AloneInv'
  BY <1>7, <1>9, <1>11
<1>12. CASE DownloadVersionSpec(q)
  <2>1. PICK k : k = [Mem(q) EXCEPT !.spec = vobject[Mem(q).ver]]
    OBVIOUS
  <2>2. Keeps(q, k) /\ k.hash = Mem(q).hash /\ c = "vdownload"
    BY <1>1, <1>3, <1>12, <2>1 DEF DownloadVersionSpec, At, GroupMemory
  <2> QED BY <1>8, <1>9, <2>2
<1>13. CASE ParseSpecEndpoints(q)
  <2>1. PICK k : k = [Mem(q) EXCEPT !.eps = {[src |-> x, key |-> x, sla |-> NoSla] :
                                             x \in Mem(q).spec}]
    OBVIOUS
  <2>2. Keeps(q, k) /\ k.hash = Mem(q).hash /\ k.spec = Mem(q).spec /\ c = "parse"
    BY <1>1, <1>3, <1>13, <2>1 DEF ParseSpecEndpoints, At, GroupMemory
  <2> QED BY <1>11, <2>2
<1>14. CASE ListAPIEndpointsForVersion(q)
  <2>1. PICK k : k = [Mem(q) EXCEPT !.eps = {[src |-> e.id[2], key |-> e.key, sla |-> e.sla] :
                                              e \in Snapshot(Mem(q).ver)}]
    OBVIOUS
  <2>2. Keeps(q, k) /\ k.hash = Mem(q).hash /\ k.spec = Mem(q).spec /\ c = "vlist"
    BY <1>1, <1>3, <1>14, <2>1 DEF ListAPIEndpointsForVersion, At, GroupMemory
  <2> QED BY <1>11, <2>2
<1>15. CASE GetAPIGroupVersion(q)
  <2>0. c = "getVersion"
    BY <1>1, <1>15 DEF GetAPIGroupVersion, At
  <2>1. ASSUME NEW x, Keeps(q, [Mem(q) EXCEPT !.ver = x]) PROVE AloneInv'
    <3>1. PICK k : k = [Mem(q) EXCEPT !.ver = x]
      OBVIOUS
    <3>2. k.hash = Mem(q).hash /\ k.spec = Mem(q).spec
      BY <1>3, <3>1 DEF GroupMemory
    <3> QED BY <1>11, <2>0, <2>1, <3>1, <3>2
  <2> QED BY <1>6, <1>15, <2>0, <2>1 DEF GetAPIGroupVersion
<1>16. CASE GetAPIEndpoint(q)
  <2>0. c = "getEndpoint"
    BY <1>1, <1>16 DEF GetAPIEndpoint, At
  <2>1. ASSUME NEW x, Keeps(q, [Mem(q) EXCEPT !.ep = x]) PROVE AloneInv'
    <3>1. PICK k : k = [Mem(q) EXCEPT !.ep = x]
      OBVIOUS
    <3>2. k.hash = Mem(q).hash /\ k.spec = Mem(q).spec
      BY <1>3, <3>1 DEF GroupMemory
    <3> QED BY <1>11, <2>0, <2>1, <3>1, <3>2
  <2> QED BY <1>6, <1>16, <2>0, <2>1 DEF GetAPIEndpoint
<1> QED BY <1>5, <1>10, <1>12, <1>13, <1>14, <1>15, <1>16 DEF ListFails

\* Writing the group's row or single endpoints, alone.
LEMMA AloneWrites ==
    ASSUME TypeInv, AnyInv, AloneInv, clean, NEW q \in Requests,
           \/ CreateAPIGroup(q) \/ UpdateAPIGroup(q) \/ SoftDeleteAPIGroup(q)
           \/ CreateAPIEndpoint(q) \/ UpdateAPIEndpoint(q) \/ SoftDeleteAPIEndpoint(q)
    PROVE  AloneInv'
<1> DEFINE C == {"create", "save", "softDelete", "insertEndpoint", "saveEndpoint",
                 "deleteEndpoint"}
<1>0. C \subseteq GroupCalls /\ C \cap Publishing = {}
  BY DEF GroupCalls, Publishing
<1>1. PICK c \in C : At(q, c)
  BY DEF CreateAPIGroup, UpdateAPIGroup, SoftDeleteAPIGroup, CreateAPIEndpoint,
     UpdateAPIEndpoint, SoftDeleteAPIEndpoint
<1>2. Proceeds(q) /\ UNCHANGED <<object, versions, vobject>>
  BY DEF CreateAPIGroup, UpdateAPIGroup, SoftDeleteAPIGroup, CreateAPIEndpoint,
     UpdateAPIEndpoint, SoftDeleteAPIEndpoint
<1>3. /\ ProcsOK /\ GroupTypeOK /\ Knows(q) /\ Op(q) \in GroupOps /\ Mem(q) \in GroupMemory
      /\ Busy(q)
  BY <1>0, <1>1, AtCall
<1>4. PICK op, m : op = Op(q) /\ m = Mem(q)
  OBVIOUS
<1>5. Others(q) /\ Done(q, c, m)
  BY <1>0, <1>1, <1>2, <1>3, <1>4, StepMoves
<1>6. KnowingAlone(Op(q), c, Mem(q)) /\ (~EditedAndRestored => Settled)
  BY <1>0, <1>1, AloneBefore
<1>7. KnowsAlone(q)'
  <2>1. ASSUME NEW d, MayFollow(op, c, d) PROVE KnowingAlone(op, d, m)'
    <3>1. c = "create" /\ d = "upload"
      BY <1>1, <2>1, Follows DEF MayFollow
    <3>2. op # "snapshotVersion"
      BY <2>1, <3>1 DEF MayFollow, MakesCall, SpecOps
    <3> QED BY <3>1, <3>2 DEF KnowingAlone, Publishing
  <2> QED BY <1>4, <1>5, <2>1, AloneNext
<1>8. Settled => Settled'
  <2>1. CASE c = "create"
    <3>1. group'.state = "live" /\ group'.hash = NoSpec
      BY <1>1, <2>1 DEF At, CreateAPIGroup, UpdateAPIGroup, SoftDeleteAPIGroup,
         CreateAPIEndpoint, UpdateAPIEndpoint, SoftDeleteAPIEndpoint
    <3>2. object' = NoSpec
      BY <1>1, <1>2, <2>1 DEF AnyInv, RowsInv, CreatedOnce
    <3> QED BY <3>1, <3>2 DEF Settled, GroupLive
  <2>2. CASE c # "create"
    <3>1. group'.state = "live" => group' = group
      <4>1. c = "save" => Mem(q).hash = group.hash
        BY <1>6 DEF KnowingAlone
      <4> QED BY <1>1, <1>3, <2>2, <4>1 DEF At, CreateAPIGroup, UpdateAPIGroup,
              SoftDeleteAPIGroup, CreateAPIEndpoint, UpdateAPIEndpoint, SoftDeleteAPIEndpoint,
              GroupTypeOK, Group, GroupLive
    <3> QED BY <1>2, <3>1 DEF Settled, GroupLive
  <2> QED BY <2>1, <2>2
<1>9. EditedAndRestored' <=> EditedAndRestored
  BY <1>5 DEF EditedAndRestored, Requested, Others
<1> QED BY <1>3, <1>5, <1>6, <1>7, <1>8, <1>9, AloneStep

\* Writing an object, alone.
LEMMA AloneUploads ==
    ASSUME TypeInv, AnyInv, AloneInv, clean, NEW q \in Requests,
           UploadSpec(q) \/ UploadVersionSpec(q)
    PROVE  AloneInv'
<1>0. {"upload", "vupload"} \subseteq GroupCalls
  BY DEF GroupCalls
<1>1. CASE UploadSpec(q)
  <2>0. At(q, "upload") /\ "upload" \in GroupCalls /\ object' = Mem(q).spec
    BY <1>0, <1>1 DEF UploadSpec
  <2>1. /\ ProcsOK /\ Knows(q) /\ Op(q) \in GroupOps /\ Mem(q) \in GroupMemory /\ Busy(q)
        /\ MakesCall(Op(q), "upload")
    BY <2>0, AtCall
  <2>2. PICK op, m : op = Op(q) /\ m = [Mem(q) EXCEPT !.hash = Mem(q).spec]
    OBVIOUS
  <2>3. Keeps(q, m) /\ m.spec = Mem(q).spec
    BY <1>1, <2>1, <2>2 DEF UploadSpec, GroupMemory
  <2>4. Others(q) /\ Done(q, "upload", m)
    BY <2>0, <2>1, <2>3, StepMoves
  <2>5. op # "snapshotVersion"
    BY <2>1, <2>2 DEF MakesCall, SpecOps
  <2>6. ASSUME NEW d, MayFollow(op, "upload", d) PROVE KnowingAlone(op, d, m)'
    <3>1. d = "vupload"
      BY <2>6, Follows DEF MayFollow
    <3> QED BY <2>0, <2>3, <2>5, <3>1 DEF KnowingAlone
  <2>7. KnowsAlone(q)'
    BY <2>2, <2>4, <2>6, AloneNext
  <2>8. Ahead(q)'
    BY <2>1, <2>2, <2>4, <2>5, StaysAhead
  <2> QED BY <2>1, <2>4, <2>7, <2>8, AloneStep
<1>2. CASE UploadVersionSpec(q)
  <2>0. /\ At(q, "vupload") /\ "vupload" \in GroupCalls
        /\ UNCHANGED <<group, object, versions, endpoints>>
    BY <1>0, <1>2 DEF UploadVersionSpec
  <2>1. /\ ProcsOK /\ Knows(q) /\ Op(q) \in GroupOps /\ Mem(q) \in GroupMemory /\ Busy(q)
        /\ Knowing(q, Op(q), "vupload", Mem(q))
    BY <2>0, AtCall
  <2>2. PICK op, m : op = Op(q) /\ m = Mem(q)
    OBVIOUS
  <2>3. Others(q) /\ Done(q, "vupload", m)
    <3>1. Proceeds(q)
      BY <1>2 DEF UploadVersionSpec
    <3> QED BY <2>0, <2>1, <2>2, <3>1, StepMoves
  <2>4. /\ KnowingAlone(op, "vupload", m)
        /\ ~EditedAndRestored /\ op = "snapshotVersion" => Settled
    BY <2>0, <2>2, AloneBefore
  <2>5. ASSUME NEW d, MayFollow(op, "vupload", d) PROVE KnowingAlone(op, d, m)'
    <3>1. d \in {"parse", "list", "publish"} /\ (d = "publish" => op = "snapshotVersion")
      BY <2>5, Follows DEF MayFollow, Adjacent
    <3>2. op = "snapshotVersion" => m.eps = {}
      BY <2>1, <2>2 DEF Knowing
    <3> QED BY <2>0, <2>4, <3>1, <3>2 DEF KnowingAlone, Publishing
  <2>6. KnowsAlone(q)'
    BY <2>2, <2>3, <2>5, AloneNext
  <2>7. (EditedAndRestored' <=> EditedAndRestored) /\ (Settled' <=> Settled)
    BY <2>0, <2>3 DEF EditedAndRestored, Requested, Others, Settled, GroupLive
  <2>8. op # "snapshotVersion" => Ahead(q)'
    BY <2>1, <2>2, <2>3, StaysAhead
  <2> QED BY <2>1, <2>3, <2>4, <2>6, <2>7, <2>8, AloneStep
<1> QED BY <1>1, <1>2

\* A publish that runs alone meets no conflict, unless the snapshot it restores
\* was edited.
LEMMA AloneNoConflict ==
    ASSUME TypeInv, AnyInv, AloneInv, clean, NEW q \in Requests, At(q, "publish"),
           ~EditedAndRestored,
           NEW kept, kept = {e \in endpoints : e.id \notin Mem(q).retire}
    PROVE  ~Conflicts(kept, Inserted(q, Mem(q).eps))
<1>0. "publish" \in GroupCalls
  BY DEF GroupCalls
<1>1. /\ Mem(q) \in GroupMemory /\ Knowing(q, Op(q), "publish", Mem(q))
      /\ KnowingAlone(Op(q), "publish", Mem(q)) /\ GroupTypeOK
  BY <1>0, AtCall, AloneBefore
<1>2. Mem(q).eps \in SUBSET Draft /\ endpoints \in SUBSET Endpoint
  BY <1>1 DEF GroupMemory, GroupTypeOK
<1>3. CASE Op(q) = "snapshotVersion"
  <2>1. Inserted(q, Mem(q).eps) = {}
    BY <1>1, <1>3 DEF Knowing, Inserted
  <2> QED BY <2>1 DEF Conflicts
<1>4. CASE Op(q) # "snapshotVersion"
  <2> SUFFICES ASSUME NEW f \in Inserted(q, Mem(q).eps),
                      NEW e \in kept \cup Inserted(q, Mem(q).eps),
                      e # f, ~e.id[3], e.key = f.key
               PROVE  FALSE
    BY DEF Conflicts
  <2>1. UniqueKeys(Mem(q).eps)
    <3>1. ~(Op(q) = "restoreVersion" /\ Requested("updateEndpoint"))
      BY DEF EditedAndRestored, Requested
    <3> QED BY <1>1, <3>1 DEF Knowing
  <2>2. e \notin kept
    BY <1>1, <1>4 DEF KnowingAlone, Working
  <2>a. \A x \in Inserted(q, Mem(q).eps) : \E d \in Mem(q).eps :
           x = [id |-> <<q, d.src, FALSE>>, key |-> d.key, sla |-> d.sla]
    BY DEF Inserted
  <2>3. PICK d \in Mem(q).eps : f = [id |-> <<q, d.src, FALSE>>, key |-> d.key, sla |-> d.sla]
    BY <2>a
  <2>4. PICK g \in Mem(q).eps : e = [id |-> <<q, g.src, FALSE>>, key |-> g.key, sla |-> g.sla]
    BY <2>2, <2>a
  <2>5. d = g
    BY <2>1, <2>3, <2>4 DEF UniqueKeys
  <2> QED BY <2>3, <2>4, <2>5
<1> QED BY <1>3, <1>4

\* Committing a version, alone.
LEMMA AloneCommits ==
    ASSUME TypeInv, AnyInv, AloneInv, clean, NEW q \in Requests, PublishAPIGroupVersion(q)
    PROVE  AloneInv'
<1>0. At(q, "publish") /\ "publish" \in GroupCalls
  BY DEF PublishAPIGroupVersion, GroupCalls
<1>1. /\ ProcsOK /\ GroupTypeOK /\ Knows(q) /\ Mem(q) \in GroupMemory /\ Op(q) \in GroupOps
      /\ Knowing(q, Op(q), "publish", Mem(q)) /\ Busy(q)
  BY <1>0, AtCall
<1>2. PICK kept : kept = {e \in endpoints : e.id \notin Mem(q).retire}
  OBVIOUS
<1>3. Others(q) /\ ~Busy(q)'
  <2>1. Ends(q) \/ Proceeds(q)
    BY DEF PublishAPIGroupVersion
  <2>2. Proceeds(q) => Others(q) /\ Done(q, "publish", Mem(q))
    BY <1>0, <1>1, StepMoves
  <2>3. Ends(q) => Others(q) /\ ~Busy(q)'
    BY <1>0, <1>1, StepMoves
  <2> QED BY <2>1, <2>2, <2>3, Follows DEF Done, MayFollow
<1>4. EditedAndRestored' <=> EditedAndRestored
  BY <1>3 DEF EditedAndRestored, Requested, Others
<1>5. ASSUME ~EditedAndRestored PROVE Settled'
  <2>1. ~Conflicts(kept, Inserted(q, Mem(q).eps))
    BY <1>0, <1>2, <1>5, AloneNoConflict
  <2>2. PICK n \in NextNumber :
           versions' = versions \cup {[id |-> q, number |-> n, hash |-> Mem(q).hash]}
    BY <1>2, <2>1 DEF PublishAPIGroupVersion
  <2>3. /\ group' = IF GroupLive THEN [group EXCEPT !.hash = Mem(q).hash] ELSE group
        /\ object' = object
    BY <1>2, <2>1 DEF PublishAPIGroupVersion
  <2>4. /\ KnowingAlone(Op(q), "publish", Mem(q))
        /\ Op(q) = "snapshotVersion" => Settled
    BY <1>0, <1>5, AloneBefore
  <2>5. GroupLive => Mem(q).hash = object
    BY <1>1, <2>4 DEF Knowing, KnowingAlone, Publishing, Settled
  <2>6. GroupLive' => GroupLive /\ group'.hash = Mem(q).hash
    BY <1>1, <2>3 DEF GroupLive, GroupTypeOK, Group
  <2>7. \A u \in versions' : u.number <= n
    <3>1. \A u \in versions : u.number \in Nat /\ u.number \in Numbers
      BY <1>1 DEF GroupTypeOK, Version, Numbers
    <3>2. Numbers \subseteq Nat
      BY <1>1 DEF GroupTypeOK, Version, Numbers
    <3>3. n \in Nat /\ \A k \in Numbers : k < n
      BY <3>2 DEF NextNumber
    <3> QED BY <2>2, <3>1, <3>3
  <2>8. [id |-> q, number |-> n, hash |-> Mem(q).hash] \in versions'
    BY <2>2
  <2>9. GroupLive' => \E v \in versions' : v.hash = object' /\ \A u \in versions' : u.number <= v.number
    <3> DEFINE v == [id |-> q, number |-> n, hash |-> Mem(q).hash]
    <3>1. v \in versions' /\ v.number = n /\ v.hash = Mem(q).hash
      BY <2>8
    <3> HIDE DEF v
    <3> QED BY <2>3, <2>5, <2>6, <2>7, <3>1
  <2> QED BY <2>3, <2>5, <2>6, <2>9 DEF Settled
<1>6. KnowsAlone(q)'
  BY <1>3 DEF KnowsAlone
<1> QED BY <1>1, <1>3, <1>4, <1>5, <1>6, AloneStep

\* A request arrives while no other is under way.
LEMMA AloneArrives ==
    ASSUME TypeInv, AnyInv, AloneInv, clean, clean', NEW q \in Requests, UNCHANGED groupVars,
           \/ \E op \in GroupOps : \E s \in SpecInput(op), eps \in DraftInput(op) :
                 GroupStart(q, op, s, eps)
           \/ \E op \in ServiceOps : \E t, m : Arrives(q, op, t, m)
    PROVE  AloneInv'
<1>1. PICK op, t, m :
         /\ op \in GroupOps \cup ServiceOps
         /\ Arrives(q, op, t, m)
         /\ op \in GroupOps => t = GroupSteps(op)
  <2>1. ASSUME NEW op \in GroupOps, NEW s, NEW eps, GroupStart(q, op, s, eps)
        PROVE  \E m : Arrives(q, op, GroupSteps(op), m)
    BY <2>1 DEF GroupStart
  <2>2. GroupOps \cap ServiceOps = {}
    BY DEF GroupOps, SpecOps, ServiceOps
  <2> QED BY <2>1, <2>2
<1>2. Quiet /\ Op(q) = "none"
  BY <1>1 DEF Arrives, Op
<1>3. /\ \A p \in Requests : p # q => proc'[p] = proc[p]
      /\ proc'[q] = [op |-> op, todo |-> t, mem |-> m]
  <2>1. ProcsOK
    BY TypeInvParts
  <2> QED BY <1>1, <2>1, StepsBecome, BecomesEffect
<1>4. \A p \in Requests : p # q => ~Busy(p)' /\ Op(p)' = Op(p)
  BY <1>2, <1>3 DEF Quiet, Busy, Op
<1>5. KnowsAlone(q)'
  <2> SUFFICES ASSUME op \in GroupOps PROVE KnowsAlone(q)'
    BY <1>3 DEF KnowsAlone, Op
  <2>1. Head(t) \in FirstCalls /\ (op = "snapshotVersion" => Head(t) = "get")
    BY <1>1, GroupStepsInOrder, StepsMakeCalls
  <2>2. Op(q)' = op /\ Head(proc'[q].todo) = Head(t)
    BY <1>3 DEF Op
  <2> QED BY <2>1, <2>2 DEF KnowsAlone, KnowingAlone, FirstCalls, Publishing
<1>6. ~EditedAndRestored' => Settled'
  <2>1. EditedAndRestored => EditedAndRestored'
    BY <1>2, <1>4 DEF EditedAndRestored, Requested
  <2>2. \A p \in Requests : ~Ahead(p)
    BY <1>2 DEF Quiet, Ahead
  <2>3. Settled' <=> Settled
    BY DEF Settled, GroupLive, groupVars
  <2> QED BY <2>1, <2>2, <2>3 DEF AloneInv
<1>7. \A p \in Requests : KnowsAlone(p)'
  BY <1>4, <1>5 DEF KnowsAlone
<1> QED BY <1>4, <1>6, <1>7 DEF AloneInv

\* A request of the services moves on, alone.
LEMMA AloneElsewhere ==
    ASSUME TypeInv, AnyInv, AloneInv, clean, clean', NEW q \in Requests, UNCHANGED groupVars,
           ServiceStep(q)
    PROVE  AloneInv'
<1>0. ProcsOK /\ GroupOps \cap ServiceOps = {}
  BY TypeInvParts DEF GroupOps, SpecOps, ServiceOps
<1>1. PICK c \in ServiceCalls : At(q, c)
  BY DEF ServiceStep, ServiceCalls, CheckLimit, LimitUnknown, CreateService, GetService,
     UpdateService, SoftDeleteService, ClearDependencies, ResolveDependency, CommitDependencies
<1>2. Op(q) \in ServiceOps /\ Busy(q)
  BY <1>0, <1>1, AtServiceCall DEF At, Busy
<1>3. \/ \E t, m : Goes(q, t, m)
      \/ Skips(q)
  BY DEF ServiceStep, CheckLimit, LimitUnknown, CreateService, GetService,
     UpdateService, SoftDeleteService, ClearDependencies, ResolveDependency,
     CommitDependencies, Keeps, Proceeds, Ends
<1>4. PICK t, m : Becomes(q, Op(q), t, m)
  BY <1>0, <1>2, <1>3, StepsBecome
<1>5. Others(q)
  <2>1. /\ \A p \in Requests : p # q => proc'[p] = proc[p]
        /\ proc'[q] = [op |-> Op(q), todo |-> t, mem |-> m]
    BY <1>0, <1>4, BecomesEffect
  <2> QED BY <2>1 DEF Others, Op
<1>6. Op(q) \notin GroupOps /\ Op(q)' \notin GroupOps
  BY <1>0, <1>2, <1>5 DEF Others
<1>7. KnowsAlone(q)'
  BY <1>6 DEF KnowsAlone
<1>8. /\ EditedAndRestored' <=> EditedAndRestored
      /\ Settled' <=> Settled
  BY <1>5 DEF EditedAndRestored, Requested, Others, Settled, GroupLive, groupVars
<1>9. ~EditedAndRestored => Settled
  <2>1. \A p \in Requests : ~Ahead(p)
    BY <1>2, <1>6 DEF AloneInv, Ahead
  <2> QED BY <2>1 DEF AloneInv
<1> QED BY <1>2, <1>5, <1>7, <1>8, <1>9, AloneStep

\* Once requests overlapped or one failed, they did.
LEMMA CleanBefore == TypeInv /\ [Next]_vars /\ clean' => clean
<1> SUFFICES ASSUME TypeInv, [Next]_vars, clean' PROVE clean
  OBVIOUS
<1>0. clean \in BOOLEAN
  BY DEF TypeInv, TypeOK, ReqsType
<1>1. CASE UNCHANGED vars
  BY <1>1 DEF vars
<1>2. ASSUME NEW q \in Requests, GroupNext(q, workload) PROVE clean
  BY <1>0, <1>2 DEF GroupNext, GroupStart, Arrives, ApiStep, GroupStep, ObjectStep, PublishStep,
     EndpointStep, CreateAPIGroup, GetAPIGroup, UpdateAPIGroup, SoftDeleteAPIGroup,
     UploadSpec, UploadVersionSpec, DownloadSpec, DownloadVersionSpec, ParseSpecEndpoints,
     ListAPIEndpoints, ListFails, ClearEndpoints, PublishAPIGroupVersion, GetAPIGroupVersion,
     ListAPIEndpointsForVersion, CreateAPIEndpoint, GetAPIEndpoint, UpdateAPIEndpoint,
     SoftDeleteAPIEndpoint, Keeps, Proceeds, Ends, Goes, Skips
<1>3. ASSUME NEW q \in Requests, ServiceNext(q, workload) PROVE clean
  BY <1>0, <1>3 DEF ServiceNext, ServiceStart, Arrives, ServiceStep, CheckLimit, LimitUnknown,
     CreateService, GetService, UpdateService, SoftDeleteService, ClearDependencies,
     ResolveDependency, CommitDependencies, Keeps, Proceeds, Ends, Goes, Skips
<1>4. ASSUME NEW q \in Requests, Aborts(q) PROVE clean
  BY <1>4 DEF Aborts
<1> QED BY <1>1, <1>2, <1>3, <1>4 DEF Next

LEMMA AloneInit == Init => AloneInv
<1> SUFFICES ASSUME Init PROVE AloneInv
  OBVIOUS
<1>1. \A q \in Requests : ~Busy(q)
  BY DEF Init, ReqsInit, Busy
<1> QED BY <1>1 DEF Init, GroupInit, AloneInv, KnowsAlone, Settled, GroupLive

LEMMA AloneKept == TypeInv /\ AnyInv /\ AloneInv /\ [Next]_vars => AloneInv'
<1> SUFFICES ASSUME TypeInv, AnyInv, AloneInv, [Next]_vars, clean' PROVE AloneInv'
  BY DEF AloneInv
<1>0. clean
  BY CleanBefore
<1>1. CASE UNCHANGED vars
  BY <1>1 DEF vars, groupVars, AloneInv, KnowsAlone, KnowingAlone, EditedAndRestored, Requested,
     Ahead, Settled, GroupLive, Working, Busy, Op, Mem
<1>2. ASSUME NEW q \in Requests, GroupNext(q, workload) PROVE AloneInv'
  <2>1. CASE ApiStep(q)
    BY <1>0, <2>1, AloneGets, AloneLooks, AloneWrites, AloneUploads, AloneCommits
       DEF ApiStep, GroupStep, ObjectStep, PublishStep, EndpointStep
  <2>2. ASSUME NEW op \in GroupOps, NEW s \in SpecInput(op), NEW eps \in DraftInput(op),
               GroupStart(q, op, s, eps)
        PROVE  AloneInv'
    BY <1>0, <2>2, AloneArrives DEF GroupStart
  <2> QED BY <1>2, <2>1, <2>2 DEF GroupNext
<1>3. ASSUME NEW q \in Requests, ServiceNext(q, workload), UNCHANGED groupVars PROVE AloneInv'
  <2>1. CASE ServiceStep(q)
    BY <1>0, <1>3, <2>1, AloneElsewhere
  <2>2. ASSUME NEW op \in ServiceOps, NEW i, NEW row, NEW given, NEW w,
               ServiceStart(q, op, i, row, given, w)
        PROVE  AloneInv'
    <3>1. \E t, m : Arrives(q, op, t, m)
      BY <2>2 DEF ServiceStart
    <3> QED BY <1>0, <1>3, <3>1, AloneArrives
  <2> QED BY <1>3, <2>1, <2>2 DEF ServiceNext
<1>4. ASSUME NEW q \in Requests, Aborts(q) PROVE AloneInv'
  BY <1>4 DEF Aborts
<1> QED BY <1>1, <1>2, <1>3, <1>4 DEF Next

-----------------------------------------------------------------------------
(* The theorems.                                                            *)

CatalogInv == TypeInv /\ AnyInv /\ AloneInv

LEMMA CatalogInvariant == Spec => []CatalogInv
<1>1. Init => CatalogInv
  BY InitType, AnyInit, AloneInit DEF CatalogInv
<1>2. CatalogInv /\ [Next]_vars => CatalogInv'
  BY NextType, AnyNext, AloneKept DEF CatalogInv
<1> QED BY <1>1, <1>2, PTL DEF Spec

\* A published version has its spec's object whatever overlaps and fails, an
\* operation has one endpoint in the working copy, and as long as requests run
\* one after the other the group, its object and its latest version agree.
THEOREM CatalogSpecsAgree == Spec => []SpecsAgree
<1>1. ASSUME CatalogInv PROVE SpecsAgree
  <2>1. VersionObjectIntact
    BY <1>1 DEF CatalogInv, AnyInv, RowsInv, VersionsStored, VersionObjectIntact
  <2>2. WorkingCopyUnique
    BY <1>1 DEF CatalogInv, AnyInv, RowsInv
  <2>3. WorkingCopyConsistent
    <3> SUFFICES ASSUME clean, Quiet, ~EditedAndRestored PROVE Settled
      BY DEF WorkingCopyConsistent, Settled, EditedAndRestored
    <3>1. \A q \in Requests : ~Ahead(q)
      BY DEF Quiet, Ahead
    <3> QED BY <1>1, <3>1 DEF CatalogInv, AloneInv
  <2> QED BY <2>1, <2>2, <2>3 DEF SpecsAgree
<1>2. CatalogInv => SpecsAgree
  BY <1>1
<1> QED BY <1>2, CatalogInvariant, PTL

\* Only single-endpoint requests and publishing change endpoints.
LEMMA EndpointsChange ==
    ASSUME [Next]_vars, endpoints' # endpoints
    PROVE  \E q \in Requests : \/ CreateAPIEndpoint(q) \/ UpdateAPIEndpoint(q)
                               \/ SoftDeleteAPIEndpoint(q) \/ PublishAPIGroupVersion(q)
<1>1. ~UNCHANGED groupVars /\ ~UNCHANGED vars
  BY DEF groupVars, vars
<1>2. PICK q \in Requests : GroupNext(q, workload)
  BY <1>1 DEF Next
<1>3. \/ CreateAPIEndpoint(q) \/ UpdateAPIEndpoint(q)
      \/ SoftDeleteAPIEndpoint(q) \/ PublishAPIGroupVersion(q)
  BY <1>1, <1>2 DEF GroupNext, GroupStart, ApiStep, GroupStep, ObjectStep, PublishStep,
     EndpointStep, CreateAPIGroup, GetAPIGroup, UpdateAPIGroup, SoftDeleteAPIGroup,
     UploadSpec, UploadVersionSpec, DownloadSpec, DownloadVersionSpec, ParseSpecEndpoints,
     ListAPIEndpoints, ListFails, ClearEndpoints, GetAPIGroupVersion,
     ListAPIEndpointsForVersion, GetAPIEndpoint
<1> QED BY <1>3

\* A publish only retires endpoints of the working copy and only adds to its
\* own snapshot.
LEMMA UntouchedStep ==
    ASSUME CatalogInv, [Next]_vars, endpoints' # endpoints, NEW v \in versions
    PROVE  \/ Snapshot(v.id)' = Snapshot(v.id)
           \/ \E q \in Requests : At(q, "saveEndpoint") \/ At(q, "deleteEndpoint")
<1>0. TypeInv /\ AnyInv
  BY DEF CatalogInv
<1>1. PICK q \in Requests : \/ CreateAPIEndpoint(q) \/ UpdateAPIEndpoint(q)
                            \/ SoftDeleteAPIEndpoint(q) \/ PublishAPIGroupVersion(q)
  BY EndpointsChange
<1>2. CASE UpdateAPIEndpoint(q) \/ SoftDeleteAPIEndpoint(q)
  BY <1>2 DEF UpdateAPIEndpoint, SoftDeleteAPIEndpoint
<1>3. CASE CreateAPIEndpoint(q)
  <2>0. At(q, "insertEndpoint") /\ "insertEndpoint" \in GroupCalls
    BY <1>3 DEF CreateAPIEndpoint, GroupCalls
  <2>1. Mem(q).eps \in SUBSET Draft /\ endpoints \in SUBSET Endpoint
    BY <1>0, <2>0, AtCall DEF GroupMemory, GroupTypeOK
  <2>2. PICK new : new = Inserted(q, Mem(q).eps)
    OBVIOUS
  <2>3. \A e \in new : ~e.id[3]
    BY <2>1, <2>2, InsertedIds
  <2>4. endpoints' = endpoints \cup new
    BY <1>3, <2>2 DEF CreateAPIEndpoint
  <2>5. Snapshot(v.id)' = Snapshot(v.id)
    BY <2>3, <2>4 DEF Snapshot
  <2> QED BY <2>5
<1>4. CASE PublishAPIGroupVersion(q)
  <2>0. At(q, "publish") /\ "publish" \in GroupCalls
    BY <1>4 DEF PublishAPIGroupVersion, GroupCalls
  <2>1. /\ Mem(q).eps \in SUBSET Draft /\ endpoints \in SUBSET Endpoint /\ Busy(q)
        /\ \A i \in Mem(q).retire : ~i[3]
    BY <1>0, <2>0, AtCall DEF GroupMemory, GroupTypeOK, Knowing
  <2>2. PICK kept, new, copied : /\ kept = {e \in endpoints : e.id \notin Mem(q).retire}
                                 /\ new = Inserted(q, Mem(q).eps)
                                 /\ copied = Copied(q, kept \cup new)
    OBVIOUS
  <2>3. endpoints' = kept \cup new \cup copied
    BY <1>4, <2>2 DEF PublishAPIGroupVersion, groupVars
  <2>4. kept \cup new \in SUBSET Endpoint
    BY <2>1, <2>2, InsertedType
  <2>5. (\A e \in new : ~e.id[3]) /\ (\A e \in copied : e.id[1] = q)
    <3>1. ASSUME NEW e \in new PROVE ~e.id[3]
      <4>1. e \in Inserted(q, Mem(q).eps)
        BY <2>2
      <4> QED BY <2>1, <4>1, InsertedIds
    <3>2. ASSUME NEW e \in copied PROVE e.id[1] = q
      <4>1. e \in Copied(q, kept \cup new)
        BY <2>2
      <4>2. PICK x \in kept \cup new : e = [x EXCEPT !.id = <<q, x.key, TRUE>>]
        BY <4>1 DEF Copied
      <4>3. e.id = <<q, x.key, TRUE>> /\ <<q, x.key, TRUE>>[1] = q
        BY <2>4, <4>2 DEF Endpoint
      <4> QED BY <4>3
    <3> QED BY <3>1, <3>2
  <2>6. v.id # q
    BY <1>0, <2>1 DEF AnyInv, RowsInv, VersionsStored
  <2>7. Snapshot(v.id)' = Snapshot(v.id)
    BY <2>1, <2>2, <2>3, <2>5, <2>6 DEF Snapshot
  <2> QED BY <2>7
<1> QED BY <1>1, <1>2, <1>3, <1>4

\* A publish that runs alone replaces the working copy by endpoints that have
\* the SLAs of the ones they replace, or leaves it as it is.
LEMMA SlaStep ==
    ASSUME CatalogInv, [Next]_vars, clean, versions' # versions, NEW e \in Working,
           e.sla # NoSla, \E f \in Working' : f.key = e.key
    PROVE  \E f \in Working' : f.key = e.key /\ f.sla = e.sla
<1>0. TypeInv /\ AnyInv /\ AloneInv
  BY DEF CatalogInv
<1>1. PICK q \in Requests : At(q, "publish") /\ PublishAPIGroupVersion(q)
  BY <1>0, VersionsGrow
<1>2. "publish" \in GroupCalls
  BY DEF GroupCalls
<1>3. /\ Mem(q).eps \in SUBSET Draft /\ endpoints \in SUBSET Endpoint
      /\ Knowing(q, Op(q), "publish", Mem(q)) /\ KnowingAlone(Op(q), "publish", Mem(q))
  BY <1>0, <1>1, <1>2, AtCall, AloneBefore DEF GroupMemory, GroupTypeOK
<1>4. PICK kept, new, copied : /\ kept = {x \in endpoints : x.id \notin Mem(q).retire}
                               /\ new = Inserted(q, Mem(q).eps)
                               /\ copied = Copied(q, kept \cup new)
  OBVIOUS
<1>5. endpoints' = kept \cup new \cup copied
  BY <1>1, <1>4 DEF PublishAPIGroupVersion, groupVars
<1>6. kept \cup new \in SUBSET Endpoint
  BY <1>3, <1>4, InsertedType
<1>7. /\ \A x \in copied : x.id[3]
      /\ \A x \in new : \E d \in Mem(q).eps : x.key = d.key /\ x.sla = d.sla
  <2>1. ASSUME NEW x \in copied PROVE x.id[3]
    <3>1. x \in Copied(q, kept \cup new)
      BY <1>4
    <3>2. PICK y \in kept \cup new : x = [y EXCEPT !.id = <<q, y.key, TRUE>>]
      BY <3>1 DEF Copied
    <3>3. x.id = <<q, y.key, TRUE>> /\ <<q, y.key, TRUE>>[3] = TRUE
      BY <1>6, <3>2 DEF Endpoint
    <3> QED BY <3>3
  <2>2. ASSUME NEW x \in new PROVE \E d \in Mem(q).eps : x.key = d.key /\ x.sla = d.sla
    <3>1. x \in Inserted(q, Mem(q).eps)
      BY <1>4
    <3>2. PICK d \in Mem(q).eps : x = [id |-> <<q, d.src, FALSE>>, key |-> d.key, sla |-> d.sla]
      BY <3>1 DEF Inserted
    <3> QED BY <3>2
  <2> QED BY <2>1, <2>2
<1>8. CASE Op(q) = "snapshotVersion"
  <2>1. e \in Working'
    BY <1>3, <1>4, <1>5, <1>8 DEF Knowing, Working
  <2> QED BY <2>1
<1>9. CASE Op(q) # "snapshotVersion"
  <2>1. PICK f \in Working' : f.key = e.key
    OBVIOUS
  <2>2. f \in new
    BY <1>3, <1>4, <1>5, <1>7, <1>9, <2>1 DEF KnowingAlone, Working
  <2>3. f.sla = e.sla
    BY <1>3, <1>7, <2>1, <2>2 DEF KnowingAlone
  <2> QED BY <2>1, <2>3
<1> QED BY <1>8, <1>9

\* Publishing leaves the snapshots of earlier versions alone, whatever
\* overlaps and fails, and as long as requests run one after the other it
\* keeps the SLA of every operation that is still there.
THEOREM CatalogPublishKeeps == Spec => PublishKeeps
<1>1. CatalogInv /\ [Next]_vars =>
         [\A v \in versions :
             \/ Snapshot(v.id)' = Snapshot(v.id)
             \/ \E q \in Requests : At(q, "saveEndpoint") \/ At(q, "deleteEndpoint")]_endpoints
  BY UntouchedStep
<1>2. CatalogInv /\ [Next]_vars =>
         [clean /\ versions' # versions =>
            \A e \in Working : e.sla # NoSla /\ (\E f \in Working' : f.key = e.key)
               => \E f \in Working' : f.key = e.key /\ f.sla = e.sla]_<<groupVars, proc, clean>>
  BY SlaStep
<1> QED BY <1>1, <1>2, CatalogInvariant, PTL
        DEF Spec, PublishKeeps, EarlierVersionsUntouched, SlaSurvivesPublish

-----------------------------------------------------------------------------
(* Services, whatever overlaps or fails.                                    *)

OnlyUpdateSaves(op, t) ==
    \A i \in 1..Len(t) : t[i] = "saveService" => op = "updateService"

\* What a request of the services holds: a row it may insert or save, and the
\* dependencies its sync resolved, one per name, of which none is on itself.
HoldsSound(mem) ==
    /\ mem.row.state = "live"
    /\ \A f \in mem.found : f.src = mem.id /\ f.to # mem.id
    /\ \A f, g \in mem.found : f.name = g.name => f = g
    /\ \A f \in mem.found, w \in mem.wishes : f.name # w.name
    /\ \A v, w \in mem.wishes : v.name = w.name => v = w

KnowsService(q) ==
    Busy(q) /\ Op(q) \in ServiceOps =>
        OnlyUpdateSaves(Op(q), proc[q].todo) /\ HoldsSound(Mem(q))

DependencyInv ==
    /\ NoSelfDependency /\ OneDependencyPerName
    /\ \A q \in Requests : KnowsService(q)

\* A ghost names no active service but its own.
GhostsMissing(D) == \A d \in D : d.to = Ghost => Named(d.name) \subseteq {d.src}

\* What holds besides as long as no requests overlapped, none failed and no
\* service was updated.
GhostInv ==
    clean /\ ~Requested("updateService") =>
        /\ GhostsMissing(deps)
        /\ \A q \in Requests : Busy(q) /\ Op(q) \in ServiceOps => GhostsMissing(Mem(q).found)

-----------------------------------------------------------------------------
(* Moving on.                                                               *)

\* q has done a call and holds m if it goes on.
Advances(q, m) ==
    /\ Others(q)
    /\ Busy(q)' => Mem(q)' = m /\ OnlyUpdateSaves(Op(q), proc'[q].todo)

\* The ways a step of the services moves its request on.
LEMMA ServiceAdvances ==
    ASSUME ProcsOK, NEW q \in Requests, NEW c \in ServiceCalls, At(q, c), KnowsService(q)
    PROVE  /\ Ends(q) => Others(q) /\ ~Busy(q)' /\ clean' = clean
           /\ \A m : Keeps(q, m) => Advances(q, m) /\ clean' = clean
           /\ Proceeds(q) => Advances(q, Mem(q)) /\ clean' = clean
           /\ \A m : Goes(q, proc[q].todo, m) => Advances(q, m) /\ clean' = clean
           /\ Skips(q) => Advances(q, Mem(q)) /\ clean' = FALSE
<1> DEFINE t == proc[q].todo
<1>1. /\ Op(q) \in ServiceOps /\ t \in Seq(ServiceCalls) /\ t # <<>> /\ Busy(q)
  BY AtServiceCall DEF Busy
<1>2. OnlyUpdateSaves(Op(q), t)
  BY <1>1 DEF KnowsService, OnlyUpdateSaves
<1>3. OnlyUpdateSaves(Op(q), Tail(t))
  <2>1. \A i \in 1..Len(Tail(t)) : Tail(t)[i] = t[i + 1] /\ i + 1 \in 1..Len(t)
    BY <1>1
  <2> QED BY <1>2, <2>1 DEF OnlyUpdateSaves
<1>4. ASSUME NEW u, NEW m, Becomes(q, Op(q), u, m)
      PROVE  Others(q) /\ proc'[q] = [op |-> Op(q), todo |-> u, mem |-> m]
  BY <1>4, BecomesEffect DEF Others, Op
<1>5. ASSUME NEW u, NEW m, Goes(q, u, m), OnlyUpdateSaves(Op(q), u)
      PROVE  Advances(q, m) /\ clean' = clean
  <2>1. Becomes(q, Op(q), u, Left(u, m)) /\ clean' = clean
    BY <1>5, StepsBecome DEF Goes
  <2>2. Others(q) /\ proc'[q] = [op |-> Op(q), todo |-> u, mem |-> Left(u, m)]
    BY ONLY <1>4, <2>1
  <2> QED BY <1>5, <2>1, <2>2 DEF Advances, Left, Busy, Mem
<1>6. ASSUME Ends(q) PROVE Others(q) /\ ~Busy(q)' /\ clean' = clean
  <2>1. Becomes(q, Op(q), <<>>, NoMem)
    BY <1>6, StepsBecome DEF Ends, Left
  <2>2. Others(q) /\ proc'[q] = [op |-> Op(q), todo |-> <<>>, mem |-> NoMem]
    BY ONLY <2>1, <1>4
  <2> QED BY <1>6, <2>2 DEF Busy, Ends, Goes
<1>7. ASSUME Skips(q) PROVE Advances(q, Mem(q)) /\ clean' = FALSE
  <2>1. Becomes(q, Op(q), Tail(t), Left(Tail(t), Mem(q))) /\ clean' = FALSE
    BY <1>1, <1>7, StepsBecome DEF Skips
  <2>2. Others(q) /\ proc'[q] = [op |-> Op(q), todo |-> Tail(t), mem |-> Left(Tail(t), Mem(q))]
    BY ONLY <1>4, <2>1
  <2>3. Advances(q, Mem(q))
    BY <1>3, <2>2 DEF Advances, Left, Busy, Mem
  <2> QED BY <2>1, <2>3
<1>8. \A m : Keeps(q, m) => Advances(q, m) /\ clean' = clean
  BY <1>3, <1>5 DEF Keeps
<1>9. Proceeds(q) => Keeps(q, Mem(q))
  BY DEF Proceeds, Mem
<1>10. \A m : Goes(q, t, m) => Advances(q, m) /\ clean' = clean
  BY <1>2, <1>5
<1> QED BY <1>6, <1>7, <1>8, <1>9, <1>10

\* The other requests hold what they held.
LEMMA ServiceKnowAll ==
    ASSUME \A p \in Requests : KnowsService(p), NEW q \in Requests, Others(q),
           ~Busy(q)' \/ \E m : Advances(q, m) /\ HoldsSound(m)
    PROVE  \A p \in Requests : KnowsService(p)'
<1> SUFFICES ASSUME NEW p \in Requests PROVE KnowsService(p)'
  OBVIOUS
<1>1. CASE p # q
  <2>1. proc'[p] = proc[p]
    BY <1>1 DEF Others
  <2> QED BY <2>1 DEF KnowsService, Busy, Op, Mem, OnlyUpdateSaves, HoldsSound
<1>2. CASE p = q /\ ~Busy(q)'
  BY <1>2 DEF KnowsService
<1>3. CASE p = q /\ Busy(q)'
  <2>1. PICK m : Advances(q, m) /\ HoldsSound(m)
    BY <1>3
  <2>2. Mem(q)' = m /\ OnlyUpdateSaves(Op(q), proc'[q].todo) /\ Op(q)' = Op(q)
    BY <1>3, <2>1 DEF Advances, Others
  <2>3. HoldsSound(Mem(q))' /\ OnlyUpdateSaves(Op(q), proc[q].todo)'
    BY <2>1, <2>2 DEF HoldsSound, OnlyUpdateSaves
  <2> QED BY <1>3, <2>3 DEF KnowsService
<1> QED BY <1>1, <1>2, <1>3

\* What a request of the services knows at a call.
LEMMA AtService ==
    ASSUME TypeInv, DependencyInv, NEW q \in Requests, NEW c \in ServiceCalls, At(q, c)
    PROVE  /\ ProcsOK /\ ServicesTypeOK /\ Op(q) \in ServiceOps /\ Mem(q) \in ServiceMemory
           /\ Busy(q) /\ KnowsService(q) /\ HoldsSound(Mem(q))
           /\ OnlyUpdateSaves(Op(q), proc[q].todo) /\ Head(proc[q].todo) = c
<1>1. ProcsOK /\ ServicesTypeOK /\ KnowsService(q)
  BY TypeInvParts DEF DependencyInv
<1>2. Op(q) \in ServiceOps /\ Mem(q) \in ServiceMemory /\ Busy(q) /\ Head(proc[q].todo) = c
  BY <1>1, AtServiceCall DEF Busy
<1> QED BY <1>1, <1>2 DEF KnowsService

\* The rows stay sound when they stay the same.
LEMMA SameDependencies ==
    ASSUME NoSelfDependency, OneDependencyPerName, deps' = deps
    PROVE  NoSelfDependency' /\ OneDependencyPerName'
BY DEF NoSelfDependency, OneDependencyPerName

\* The steps that touch no dependency.
LEMMA ServiceRowDependencies ==
    ASSUME TypeInv, DependencyInv, NEW q \in Requests,
           \/ CheckLimit(q) \/ LimitUnknown(q) \/ GetService(q) \/ UpdateService(q)
           \/ SoftDeleteService(q) \/ ClearDependencies(q)
    PROVE  DependencyInv'
<1>0. {"count", "getService", "saveService", "deleteRow", "clearDependencies"} \subseteq ServiceCalls
  BY DEF ServiceCalls
<1>1. deps' = deps
  BY DEF CheckLimit, LimitUnknown, GetService, UpdateService, SoftDeleteService,
         ClearDependencies, serviceVars
<1>2. \A p \in Requests : KnowsService(p)
  BY DEF DependencyInv
<1>3. Others(q) /\ (~Busy(q)' \/ \E m : Advances(q, m) /\ HoldsSound(m))
  <2>1. CASE CheckLimit(q)
    BY <1>0, <2>1, AtService, ServiceAdvances DEF CheckLimit, Advances
  <2>2. CASE LimitUnknown(q)
    BY <1>0, <2>2, AtService, ServiceAdvances DEF LimitUnknown, Advances
  <2>3. CASE GetService(q)
    <3>1. At(q, "getService")
      BY <2>3 DEF GetService
    <3>2. Mem(q) \in ServiceMemory /\ HoldsSound(Mem(q)) /\ ProcsOK /\ KnowsService(q)
      BY <1>0, <3>1, AtService
    <3>3. PICK m : m = [Mem(q) EXCEPT !.row = Merged(Mem(q))]
      OBVIOUS
    <3>4. HoldsSound(m)
      BY <3>2, <3>3 DEF HoldsSound, ServiceMemory, Merged
    <3>5. Keeps(q, m) \/ Ends(q)
      BY <2>3, <3>3 DEF GetService
    <3> QED BY <1>0, <3>1, <3>2, <3>4, <3>5, ServiceAdvances DEF Advances
  <2>4. CASE UpdateService(q)
    BY <1>0, <2>4, AtService, ServiceAdvances DEF UpdateService, Advances
  <2>5. CASE SoftDeleteService(q)
    BY <1>0, <2>5, AtService, ServiceAdvances DEF SoftDeleteService, Advances
  <2>6. CASE ClearDependencies(q)
    <3>1. At(q, "clearDependencies")
      BY <2>6 DEF ClearDependencies
    <3>2. Mem(q) \in ServiceMemory /\ HoldsSound(Mem(q)) /\ ProcsOK /\ KnowsService(q)
      BY <1>0, <3>1, AtService
    <3>3. PICK m : m = [Mem(q) EXCEPT !.retire = {d.name : d \in {x \in deps : x.src = Mem(q).id}}]
      OBVIOUS
    <3>4. HoldsSound(m)
      BY <3>2, <3>3 DEF HoldsSound, ServiceMemory
    <3>5. Keeps(q, m)
      BY <2>6, <3>3 DEF ClearDependencies
    <3> QED BY <1>0, <3>1, <3>2, <3>4, <3>5, ServiceAdvances DEF Advances
  <2> QED BY <2>1, <2>2, <2>3, <2>4, <2>5, <2>6
<1>4. \A p \in Requests : KnowsService(p)'
  BY <1>2, <1>3, ServiceKnowAll
<1> QED BY <1>1, <1>4, SameDependencies DEF DependencyInv

\* A new service adopts ghosts of others only, and no dependency changes its
\* owner or its name.
LEMMA CreateServiceDependencies ==
    ASSUME TypeInv, DependencyInv, NEW q \in Requests, CreateService(q)
    PROVE  DependencyInv'
<1>0. At(q, "insert") /\ "insert" \in ServiceCalls /\ Proceeds(q)
  BY DEF CreateService, ServiceCalls
<1>1. /\ Mem(q) \in ServiceMemory /\ HoldsSound(Mem(q)) /\ ProcsOK /\ KnowsService(q)
      /\ ServicesTypeOK
  BY <1>0, AtService
<1>2. \A p \in Requests : KnowsService(p)
  BY DEF DependencyInv
<1>3. Advances(q, Mem(q))
  BY <1>0, <1>1, ServiceAdvances
<1>4. \A p \in Requests : KnowsService(p)'
  BY <1>1, <1>2, <1>3, ServiceKnowAll DEF Advances
<1>5. PICK i, row : i = Mem(q).id /\ row = Mem(q).row
  OBVIOUS
<1>6. i \in Ids /\ Ghost \notin Ids
  BY <1>1, <1>5, ServiceCatalogAssumption DEF ServiceMemory
<1>7. CASE deps' = deps
  BY <1>4, <1>7, SameDependencies DEF DependencyInv
<1>8. CASE deps' = Adopted(i, row)
  <2>1. ASSUME NEW e \in deps'
        PROVE  \E d \in deps : /\ e.src = d.src /\ e.name = d.name /\ e.to # e.src
                               /\ e = [d EXCEPT !.to = e.to]
                               /\ e.to = IF row.active /\ d.to = Ghost /\ d.name = row.name /\ d.src # i
                                         THEN i ELSE d.to
    <3>1. PICK d \in deps : e = [d EXCEPT !.to = IF row.active /\ @ = Ghost /\ d.name = row.name /\ d.src # i
                                                 THEN i ELSE @]
      BY <1>8, <2>1 DEF Adopted
    <3>2. d \in Dependency /\ d.to # d.src
      BY <1>1 DEF ServicesTypeOK, DependencyInv, NoSelfDependency
    <3> QED BY <3>1, <3>2 DEF Dependency
  <2>2. NoSelfDependency'
    BY <2>1 DEF NoSelfDependency
  <2>3. ASSUME NEW e \in deps', NEW f \in deps', e.src = f.src, e.name = f.name
        PROVE  e = f
    <3>1. PICK d \in deps : /\ e.src = d.src /\ e.name = d.name
                            /\ e = [d EXCEPT !.to = e.to]
                            /\ e.to = IF row.active /\ d.to = Ghost /\ d.name = row.name /\ d.src # i
                                      THEN i ELSE d.to
      BY <2>1, <2>3
    <3>2. PICK g \in deps : /\ f.src = g.src /\ f.name = g.name
                            /\ f = [g EXCEPT !.to = f.to]
                            /\ f.to = IF row.active /\ g.to = Ghost /\ g.name = row.name /\ g.src # i
                                      THEN i ELSE g.to
      BY <2>1, <2>3
    <3>3. d = g
      BY <2>3, <3>1, <3>2 DEF DependencyInv, OneDependencyPerName
    <3> QED BY <3>1, <3>2, <3>3
  <2> QED BY <1>4, <2>2, <2>3 DEF DependencyInv, OneDependencyPerName
<1> QED BY <1>5, <1>7, <1>8 DEF CreateService, serviceVars

\* A sync resolves each name it lists once, and never to its own service.
LEMMA ResolveSound ==
    ASSUME NEW m \in ServiceMemory, HoldsSound(m), NEW w \in m.wishes, NEW t \in Ids \cup {Ghost}, t # m.id,
           NEW n, n = [m EXCEPT !.wishes = @ \ {w}, !.found = @ \cup
                       {[src |-> m.id, name |-> w.name, dir |-> w.dir, to |-> t]}]
    PROVE  HoldsSound(n)
<1> DEFINE d == [src |-> m.id, name |-> w.name, dir |-> w.dir, to |-> t]
<1>1. /\ n.row = m.row /\ n.id = m.id /\ n.found = m.found \cup {d} /\ n.wishes = m.wishes \ {w}
  BY DEF ServiceMemory
<1>2. d.src = m.id /\ d.name = w.name /\ d.to = t
  OBVIOUS
<1> HIDE DEF d
<1>3. \A f, g \in n.found : f.name = g.name => f = g
  BY <1>1, <1>2 DEF HoldsSound
<1>4. \A f \in n.found : f.src = n.id /\ f.to # n.id
  BY <1>1, <1>2 DEF HoldsSound
<1>5. \A f \in n.found, v \in n.wishes : f.name # v.name
  BY <1>1, <1>2 DEF HoldsSound
<1>6. \A u, v \in n.wishes : u.name = v.name => u = v
  BY <1>1 DEF HoldsSound
<1>7. n.row.state = "live"
  BY <1>1 DEF HoldsSound
<1> QED BY <1>3, <1>4, <1>5, <1>6, <1>7 DEF HoldsSound

LEMMA SyncDependencies ==
    ASSUME TypeInv, DependencyInv, NEW q \in Requests, ResolveDependency(q) \/ CommitDependencies(q)
    PROVE  DependencyInv'
<1>0. "resolve" \in ServiceCalls /\ "commit" \in ServiceCalls
  BY DEF ServiceCalls
<1>1. \A p \in Requests : KnowsService(p)
  BY DEF DependencyInv
<1>2. CASE ResolveDependency(q)
  <2>0. At(q, "resolve") /\ deps' = deps
    BY <1>2 DEF ResolveDependency, serviceVars
  <2>1. /\ Mem(q) \in ServiceMemory /\ HoldsSound(Mem(q)) /\ ProcsOK /\ KnowsService(q)
    BY <1>0, <2>0, AtService
  <2>2. PICK mem : mem = Mem(q)
    OBVIOUS
  <2>3. Others(q) /\ (~Busy(q)' \/ \E m : Advances(q, m) /\ HoldsSound(m))
    <3>1. CASE Proceeds(q) \/ Ends(q)
      BY <1>0, <2>0, <2>1, <3>1, ServiceAdvances DEF Advances
    <3>2. CASE ~Proceeds(q) /\ ~Ends(q)
      <4>0. PICK w \in mem.wishes : \E t \in Resolved(w.name) :
               /\ ~IsSelf(mem.id, t)
               /\ Goes(q, proc[q].todo, [mem EXCEPT !.wishes = @ \ {w}, !.found = @ \cup
                       {[src |-> mem.id, name |-> w.name, dir |-> w.dir, to |-> t]}])
        BY <1>2, <2>2, <3>2 DEF ResolveDependency
      <4>1. PICK t \in Resolved(w.name) :
               /\ ~IsSelf(mem.id, t)
               /\ Goes(q, proc[q].todo, [mem EXCEPT !.wishes = @ \ {w}, !.found = @ \cup
                       {[src |-> mem.id, name |-> w.name, dir |-> w.dir, to |-> t]}])
        BY <4>0
      <4>2. PICK n : n = [mem EXCEPT !.wishes = @ \ {w}, !.found = @ \cup
                       {[src |-> mem.id, name |-> w.name, dir |-> w.dir, to |-> t]}]
        OBVIOUS
      <4>3. t \in Ids \cup {Ghost} /\ t # mem.id
        BY <4>1 DEF Resolved, Named, IsSelf
      <4>4. HoldsSound(n)
        BY <2>1, <2>2, <4>2, <4>3, ResolveSound
      <4>5. Goes(q, proc[q].todo, n)
        BY <4>1, <4>2
      <4> QED BY <1>0, <2>0, <2>1, <4>4, <4>5, ServiceAdvances DEF Advances
    <3> QED BY <3>1, <3>2
  <2>4. \A p \in Requests : KnowsService(p)'
    BY <1>1, <2>3, ServiceKnowAll
  <2> QED BY <2>0, <2>4, SameDependencies DEF DependencyInv
<1>3. CASE CommitDependencies(q)
  <2>0. At(q, "commit") /\ Proceeds(q)
    BY <1>3 DEF CommitDependencies
  <2>1. /\ Mem(q) \in ServiceMemory /\ HoldsSound(Mem(q)) /\ ProcsOK /\ KnowsService(q)
    BY <1>0, <2>0, AtService
  <2>2. Advances(q, Mem(q))
    BY <1>0, <2>0, <2>1, ServiceAdvances
  <2>3. \A p \in Requests : KnowsService(p)'
    BY <1>1, <2>1, <2>2, ServiceKnowAll DEF Advances
  <2>4. PICK mem : mem = Mem(q)
    OBVIOUS
  <2>5. deps' = {d \in deps : d.src # mem.id \/ d.name \notin Replaced(mem)} \cup mem.found
    BY <1>3, <2>4 DEF CommitDependencies
  <2>6. NoSelfDependency'
    BY <2>1, <2>4, <2>5 DEF DependencyInv, NoSelfDependency, HoldsSound
  <2>7. OneDependencyPerName'
    BY <2>1, <2>4, <2>5 DEF DependencyInv, OneDependencyPerName, HoldsSound, Replaced
  <2> QED BY <2>3, <2>6, <2>7 DEF DependencyInv
<1> QED BY <1>2, <1>3

-----------------------------------------------------------------------------
(* Requests arrive, move on and are cut short.                              *)

\* A request of the services that arrives may insert its row, and its sync
\* lists a name once.
LEMMA StartSound ==
    ASSUME NEW op \in ServiceOps, NEW i \in Ids, NEW given \in GivenInput(op),
           NEW w \in WishInput(op), NEW row \in RowInput(given)
    PROVE  /\ HoldsSound([id |-> i, row |-> row, given |-> given, wishes |-> w,
                          found |-> {}, retire |-> {}])
           /\ OnlyUpdateSaves(op, ServiceSteps(op))
<1>1. row.state = "live"
  BY DEF RowInput
<1>2. \A a, b \in w : a.name = b.name => a = b
  BY DEF WishInput
<1>3. OnlyUpdateSaves(op, ServiceSteps(op))
  BY DEF OnlyUpdateSaves, ServiceSteps, ServiceOps, CreateServiceSteps, UpdateServiceSteps,
         DeleteServiceSteps, SyncDependenciesSteps
<1> QED BY <1>1, <1>2, <1>3 DEF HoldsSound

\* A request of the API group, or one that is cut short, is none of the
\* services' afterwards.
LEMMA OtherMoves ==
    ASSUME TypeInv, TypeInv', NEW q \in Requests, GroupNext(q, workload) \/ Aborts(q)
    PROVE  /\ \A p \in Requests : p # q => proc'[p] = proc[p]
           /\ Op(q)' # Op(q) => Op(q) = "none" /\ Op(q)' \in GroupOps
           /\ Busy(q)' => Op(q)' \in GroupOps /\ proc'[q].todo \in Seq(GroupCalls)
           /\ \/ Busy(q)
              \/ \E op, t, m : Arrives(q, op, t, m)
<1>0. ProcsOK /\ ProcsOK' /\ GroupOps \cap ServiceOps = {} /\ "none" \notin GroupOps
  <2>1. ProcsOK'
    BY DEF TypeInv, TypeOK, ProcsOK
  <2>2. GroupOps \cap ServiceOps = {} /\ "none" \notin GroupOps
    BY DEF GroupOps, SpecOps, ServiceOps
  <2> QED BY <2>1, <2>2, TypeInvParts
<1>1. CASE Aborts(q)
  <2>1. Becomes(q, Op(q), <<>>, NoMem) /\ Busy(q)
    BY <1>0, <1>1, StepsBecome DEF Aborts
  <2>2. /\ \A p \in Requests : p # q => proc'[p] = proc[p]
        /\ proc'[q] = [op |-> Op(q), todo |-> <<>>, mem |-> NoMem]
    BY <1>0, <2>1, BecomesEffect
  <2>3. Op(q)' = Op(q) /\ ~Busy(q)'
    BY <2>2 DEF Op, Busy
  <2> QED BY <2>1, <2>2, <2>3
<1>2. ASSUME Op(q)' \in GroupOps, Busy(q)' PROVE proc'[q].todo \in Seq(GroupCalls)
  BY <1>0, <1>2 DEF ProcsOK, Held, Op, Busy
<1>3. ASSUME NEW op \in GroupOps, NEW s, NEW eps, GroupStart(q, op, s, eps)
      PROVE  /\ \A p \in Requests : p # q => proc'[p] = proc[p]
             /\ Op(q) = "none" /\ Op(q)' \in GroupOps
             /\ \E o, t, m : Arrives(q, o, t, m)
  <2>1. PICK m : Arrives(q, op, GroupSteps(op), m)
    BY <1>3 DEF GroupStart
  <2>2. Becomes(q, op, GroupSteps(op), m)
    BY <1>0, <2>1, StepsBecome
  <2>3. /\ \A p \in Requests : p # q => proc'[p] = proc[p]
        /\ proc'[q] = [op |-> op, todo |-> GroupSteps(op), mem |-> m]
    BY <1>0, <2>2, BecomesEffect
  <2>4. Op(q) = "none" /\ Op(q)' = op
    BY <2>1, <2>3 DEF Arrives, Op
  <2> QED BY <2>1, <2>3, <2>4
<1>4. CASE ApiStep(q)
  <2>1. PICK c \in GroupCalls : At(q, c)
    BY <1>4 DEF ApiStep, GroupStep, ObjectStep, PublishStep, EndpointStep, GroupCalls,
       CreateAPIGroup, GetAPIGroup, UpdateAPIGroup, SoftDeleteAPIGroup,
       UploadSpec, UploadVersionSpec, DownloadSpec, DownloadVersionSpec, ParseSpecEndpoints,
       ListAPIEndpoints, ListFails, ClearEndpoints, PublishAPIGroupVersion, GetAPIGroupVersion,
       ListAPIEndpointsForVersion, CreateAPIEndpoint, GetAPIEndpoint, UpdateAPIEndpoint,
       SoftDeleteAPIEndpoint
  <2>2. Op(q) \in GroupOps /\ Busy(q)
    BY <1>0, <2>1, AtGroupCall DEF Busy
  <2>3. (\E t, m : Goes(q, t, m)) \/ Skips(q)
    BY <1>4 DEF ApiStep, GroupStep, ObjectStep, PublishStep, EndpointStep,
       CreateAPIGroup, GetAPIGroup, UpdateAPIGroup, SoftDeleteAPIGroup,
       UploadSpec, UploadVersionSpec, DownloadSpec, DownloadVersionSpec, ParseSpecEndpoints,
       ListAPIEndpoints, ListFails, ClearEndpoints, PublishAPIGroupVersion, GetAPIGroupVersion,
       ListAPIEndpointsForVersion, CreateAPIEndpoint, GetAPIEndpoint, UpdateAPIEndpoint,
       SoftDeleteAPIEndpoint, Keeps, Proceeds, Ends
  <2>4. PICK t, m : Becomes(q, Op(q), t, m)
    BY <1>0, <2>2, <2>3, StepsBecome
  <2>5. /\ \A p \in Requests : p # q => proc'[p] = proc[p]
        /\ proc'[q] = [op |-> Op(q), todo |-> t, mem |-> m]
    BY <1>0, <2>4, BecomesEffect
  <2>6. Op(q)' = Op(q)
    BY <2>5 DEF Op
  <2> QED BY <1>2, <2>2, <2>5, <2>6
<1> QED BY <1>1, <1>2, <1>3, <1>4 DEF GroupNext

\* A request of the services arrives.
LEMMA ServiceArrives ==
    ASSUME TypeInv, NEW q \in Requests, NEW op \in ServiceOps, NEW i \in Ids,
           NEW given \in GivenInput(op), NEW w \in WishInput(op), NEW row \in RowInput(given),
           ServiceStart(q, op, i, row, given, w)
    PROVE  /\ \A p \in Requests : p # q => proc'[p] = proc[p]
           /\ Op(q) = "none" /\ Op(q)' = op /\ proc'[q].todo = ServiceSteps(op)
           /\ Mem(q)' = [id |-> i, row |-> row, given |-> given, wishes |-> w,
                         found |-> {}, retire |-> {}]
           /\ UNCHANGED serviceVars /\ KnowsService(q)'
           /\ \E t, m : Arrives(q, op, t, m)
<1>0. ProcsOK
  BY TypeInvParts
<1>1. PICK m : m = [id |-> i, row |-> row, given |-> given, wishes |-> w,
                    found |-> {}, retire |-> {}]
  OBVIOUS
<1>2. Arrives(q, op, ServiceSteps(op), m) /\ UNCHANGED serviceVars
  BY <1>1 DEF ServiceStart
<1>3. Becomes(q, op, ServiceSteps(op), m)
  BY <1>0, <1>2, StepsBecome
<1>4. /\ \A p \in Requests : p # q => proc'[p] = proc[p]
      /\ proc'[q] = [op |-> op, todo |-> ServiceSteps(op), mem |-> m]
  BY <1>0, <1>3, BecomesEffect
<1>5. Op(q)' = op /\ proc'[q].todo = ServiceSteps(op) /\ Mem(q)' = m /\ Op(q) = "none"
  BY <1>2, <1>4 DEF Op, Mem, Arrives
<1>6. HoldsSound(m) /\ OnlyUpdateSaves(op, ServiceSteps(op))
  BY <1>1, StartSound
<1>7. HoldsSound(Mem(q))' /\ OnlyUpdateSaves(Op(q), proc[q].todo)'
  BY <1>5, <1>6 DEF HoldsSound, OnlyUpdateSaves
<1>8. KnowsService(q)'
  BY <1>7 DEF KnowsService
<1> QED BY <1>1, <1>2, <1>4, <1>5, <1>8

LEMMA DependencyInit == Init => DependencyInv
<1> SUFFICES ASSUME Init PROVE DependencyInv
  OBVIOUS
<1>1. \A q \in Requests : ~Busy(q)
  BY DEF Init, ReqsInit, Busy
<1> QED BY <1>1 DEF Init, ServicesInit, DependencyInv, NoSelfDependency, OneDependencyPerName,
        KnowsService

LEMMA DependencyNext == TypeInv /\ DependencyInv /\ [Next]_vars => DependencyInv'
<1> SUFFICES ASSUME TypeInv, DependencyInv, [Next]_vars PROVE DependencyInv'
  OBVIOUS
<1>0. TypeInv' /\ GroupOps \cap ServiceOps = {}
  BY NextType DEF GroupOps, SpecOps, ServiceOps
<1>1. ASSUME UNCHANGED deps, NEW q \in Requests, \A p \in Requests : p # q => proc'[p] = proc[p],
             KnowsService(q)'
      PROVE  DependencyInv'
  <2>1. ASSUME NEW p \in Requests, p # q PROVE KnowsService(p)'
    <3>1. proc'[p] = proc[p]
      BY <1>1, <2>1
    <3>2. KnowsService(p)
      BY DEF DependencyInv
    <3> QED BY <3>1, <3>2 DEF KnowsService, Busy, Op, Mem, OnlyUpdateSaves, HoldsSound
  <2> QED BY <1>1, <2>1, SameDependencies DEF DependencyInv
<1>2. CASE UNCHANGED vars
  BY <1>2 DEF vars, serviceVars, DependencyInv, NoSelfDependency, OneDependencyPerName,
     KnowsService, Busy, Op, Mem, OnlyUpdateSaves, HoldsSound
<1>3. ASSUME NEW q \in Requests, GroupNext(q, workload) \/ Aborts(q), UNCHANGED serviceVars
      PROVE  DependencyInv'
  <2>1. /\ \A p \in Requests : p # q => proc'[p] = proc[p]
        /\ Busy(q)' => Op(q)' \in GroupOps
    BY <1>0, <1>3, OtherMoves
  <2>2. KnowsService(q)'
    BY <1>0, <2>1 DEF KnowsService
  <2> QED BY <1>1, <1>3, <2>1, <2>2 DEF serviceVars
<1>4. ASSUME NEW q \in Requests, NEW op \in ServiceOps, NEW i \in Ids,
             NEW given \in GivenInput(op), NEW w \in WishInput(op), NEW row \in RowInput(given),
             ServiceStart(q, op, i, row, given, w)
      PROVE  DependencyInv'
  BY <1>1, <1>4, ServiceArrives DEF serviceVars
<1>5. ASSUME NEW q \in Requests, ServiceStep(q) PROVE DependencyInv'
  BY <1>5, ServiceRowDependencies, CreateServiceDependencies, SyncDependencies DEF ServiceStep
<1> QED BY <1>2, <1>3, <1>4, <1>5 DEF Next, ServiceNext

-----------------------------------------------------------------------------
(* Ghosts, as long as requests run one after the other.                     *)

\* The last call of a handler ends its request.
LEMMA LastCallEnds ==
    ASSUME ProcsOK, NEW q \in Requests,
           NEW c \in {"insert", "saveService", "deleteRow", "commit"}, At(q, c), Proceeds(q)
    PROVE  ~Busy(q)'
<1> DEFINE t == proc[q].todo
<1>1. c \in ServiceCalls
  BY DEF ServiceCalls
<1>2. /\ t \in Seq(ServiceCalls) /\ t # <<>> /\ InOrder(t) /\ Head(t) = c
  BY <1>1, AtServiceCall
<1>3. Tail(t) # <<>> => <<c, Head(Tail(t))>> \in CallOrder
  BY <1>2, TailInOrder
<1>4. \A d : <<c, d>> \notin CallOrder
  BY DEF CallOrder
<1>5. Tail(t) = <<>>
  BY <1>3, <1>4
<1>6. Becomes(q, Op(q), Tail(t), Left(Tail(t), Mem(q)))
  BY StepsBecome DEF Proceeds, Keeps, Mem
<1>7. PICK op, m : Becomes(q, op, <<>>, m)
  BY <1>5, <1>6
<1>8. proc'[q] = [op |-> op, todo |-> <<>>, mem |-> m]
  BY <1>7, BecomesEffect
<1> QED BY <1>8 DEF Busy

\* Ghosts stay what they are when no service takes a name.
LEMMA GhostsKept ==
    ASSUME \A n : Named(n)' \subseteq Named(n), NEW D, GhostsMissing(D)
    PROVE  GhostsMissing(D)'
BY DEF GhostsMissing

\* A step of q that leaves no request of the services under way, or only q with
\* ghosts that name nobody, if no service takes a name and no ghost appears.
LEMMA GhostsOf ==
    ASSUME CatalogInv, clean, ~Requested("updateService"), GhostInv, NEW q \in Requests, Others(q),
           Busy(q), \A n : Named(n)' \subseteq Named(n), NEW F, GhostsMissing(F),
           ~Busy(q)' \/ Mem(q)'.found = F,
           \A d \in deps' : d.to = Ghost => d \in deps \cup F
    PROVE  GhostInv'
<1>1. \A p \in Requests : Busy(p)' => p = q
  BY DEF CatalogInv, AloneInv, Others, Busy
<1>2. PICK D : D = deps
  OBVIOUS
<1>3. GhostsMissing(D)' /\ GhostsMissing(F)'
  BY <1>2, GhostsKept DEF GhostInv
<1>4. GhostsMissing(deps)'
  BY <1>2, <1>3 DEF GhostsMissing
<1>5. Busy(q)' => GhostsMissing(Mem(q).found)'
  BY <1>3 DEF GhostsMissing
<1> QED BY <1>1, <1>4, <1>5 DEF GhostInv

\* The steps that only read, and the deletion of a service.
LEMMA GhostsLook ==
    ASSUME CatalogInv, DependencyInv, clean, clean', ~Requested("updateService"), GhostInv, NEW q \in Requests,
           \/ CheckLimit(q) \/ LimitUnknown(q) \/ GetService(q) \/ UpdateService(q)
           \/ SoftDeleteService(q) \/ ClearDependencies(q)
    PROVE  GhostInv'
<1>0. /\ {"count", "getService", "saveService", "deleteRow", "clearDependencies"} \subseteq ServiceCalls
      /\ TypeInv
  BY DEF ServiceCalls, CatalogInv
<1>1. PICK c \in {"count", "getService", "saveService", "deleteRow", "clearDependencies"} : At(q, c)
  BY DEF CheckLimit, LimitUnknown, GetService, UpdateService, SoftDeleteService, ClearDependencies
<1>2. /\ Mem(q) \in ServiceMemory /\ ProcsOK /\ KnowsService(q) /\ Busy(q) /\ ServicesTypeOK
      /\ Op(q) \in ServiceOps /\ OnlyUpdateSaves(Op(q), proc[q].todo) /\ Head(proc[q].todo) = c
      /\ proc[q].todo \in Seq(ServiceCalls)
  BY <1>0, <1>1, AtService, AtServiceCall
<1>3. c # "saveService"
  <2>1. proc[q].todo[1] = c /\ 1 \in 1..Len(proc[q].todo)
    BY <1>2 DEF Busy
  <2> QED BY <1>2, <2>1 DEF OnlyUpdateSaves, Requested
<1>4. deps' = deps
  BY DEF CheckLimit, LimitUnknown, GetService, UpdateService, SoftDeleteService,
         ClearDependencies, serviceVars
<1>5. \A n : Named(n)' \subseteq Named(n)
  <2>1. CASE services' = services
    BY <2>1 DEF Named, Active, Live
  <2>2. CASE SoftDeleteService(q)
    <3>1. PICK i \in Ids : services' = [services EXCEPT ![i].state = IF @ = "live" THEN "deleted" ELSE @]
      BY <1>2, <2>2 DEF SoftDeleteService, ServiceMemory
    <3>2. \A j \in Ids : Active(j)' => Active(j) /\ services'[j].name = services[j].name
      BY <1>2, <3>1 DEF Active, Live, ServicesTypeOK, Service
    <3> QED BY <3>2 DEF Named
  <2>3. ~UpdateService(q)
    BY <1>1, <1>2, <1>3 DEF UpdateService, At
  <2> QED BY <2>1, <2>2, <2>3 DEF CheckLimit, LimitUnknown, GetService, ClearDependencies, serviceVars
<1>6. PICK F : F = Mem(q).found
  OBVIOUS
<1>7. GhostsMissing(F)
  BY <1>2, <1>6 DEF GhostInv
<1>8. \/ Ends(q)
      \/ \E m : Keeps(q, m) /\ m.found = F
  <2>1. ~Skips(q)
    BY DEF Skips
  <2>2. CASE GetService(q) \/ ClearDependencies(q)
    BY <1>2, <1>6, <2>2 DEF GetService, ClearDependencies, ServiceMemory
  <2>3. Proceeds(q) => Keeps(q, Mem(q))
    BY DEF Proceeds, Mem
  <2> QED BY <1>6, <2>1, <2>2, <2>3 DEF CheckLimit, LimitUnknown, UpdateService, SoftDeleteService
<1>9. Others(q) /\ (~Busy(q)' \/ Mem(q)'.found = F)
  BY <1>0, <1>1, <1>2, <1>8, ServiceAdvances DEF Advances
<1> QED BY <1>2, <1>4, <1>5, <1>7, <1>9, GhostsOf

\* A new service adopts the ghosts of its name; a sync links what it can.
LEMMA GhostsWritten ==
    ASSUME CatalogInv, DependencyInv, clean, clean', ~Requested("updateService"), GhostInv, NEW q \in Requests,
           CreateService(q) \/ ResolveDependency(q) \/ CommitDependencies(q)
    PROVE  GhostInv'
<1>0. {"insert", "resolve", "commit"} \subseteq ServiceCalls /\ TypeInv
  BY DEF ServiceCalls, CatalogInv
<1>1. PICK c \in {"insert", "resolve", "commit"} : At(q, c)
  BY DEF CreateService, ResolveDependency, CommitDependencies
<1>2. /\ Mem(q) \in ServiceMemory /\ ProcsOK /\ KnowsService(q) /\ Busy(q) /\ ServicesTypeOK
      /\ Op(q) \in ServiceOps /\ HoldsSound(Mem(q))
  BY <1>0, <1>1, AtService
<1>3. PICK mem : mem = Mem(q)
  OBVIOUS
<1>4. GhostsMissing(mem.found) /\ Ghost \notin Ids
  BY <1>2, <1>3, ServiceCatalogAssumption DEF GhostInv
<1>5. CASE CreateService(q)
  <2>1. ~Busy(q)' /\ Others(q)
    BY <1>0, <1>2, <1>5, LastCallEnds, ServiceAdvances DEF CreateService, Advances
  <2>2. CASE UNCHANGED serviceVars
    <3>1. \A n : Named(n)' \subseteq Named(n)
      BY <2>2 DEF Named, Active, Live, serviceVars
    <3> QED BY <1>2, <1>4, <2>1, <2>2, <3>1, GhostsOf DEF serviceVars
  <2>3. CASE ~UNCHANGED serviceVars
    <3>1. PICK i, row : i = mem.id /\ row = mem.row
      OBVIOUS
    <3>2. services' = [services EXCEPT ![i] = row] /\ deps' = Adopted(i, row)
      BY <1>3, <1>5, <2>3, <3>1 DEF CreateService
    <3>3. i \in Ids
      BY <1>2, <1>3, <3>1 DEF ServiceMemory
    <3>4. ASSUME NEW n, NEW j \in Named(n)' PROVE j \in Named(n) \/ (j = i /\ row.active /\ row.name = n)
      BY <1>2, <3>2, <3>3, <3>4 DEF Named, Active, Live, ServicesTypeOK
    <3>5. ASSUME NEW e \in deps', e.to = Ghost PROVE Named(e.name)' \subseteq {e.src}
      <4>1. PICK d \in deps : e = [d EXCEPT !.to = IF row.active /\ @ = Ghost /\ d.name = row.name /\ d.src # i
                                                   THEN i ELSE @]
        BY <3>2, <3>5 DEF Adopted
      <4>2. d \in Dependency
        BY <1>2 DEF ServicesTypeOK
      <4>3. /\ e.name = d.name /\ e.src = d.src /\ d.to = Ghost
            /\ ~(row.active /\ d.name = row.name /\ d.src # i)
        BY <1>4, <3>3, <3>5, <4>1, <4>2 DEF Dependency
      <4>4. Named(d.name) \subseteq {d.src}
        BY <4>3 DEF GhostInv, GhostsMissing
      <4>5. PICK n : n = e.name
        OBVIOUS
      <4>6. Named(n)' \subseteq {e.src}
        BY <3>4, <4>3, <4>4, <4>5
      <4> QED BY <4>5, <4>6
    <3>6. GhostsMissing(deps)'
      BY <3>5 DEF GhostsMissing
    <3>7. \A p \in Requests : ~Busy(p)'
      BY <1>2, <2>1 DEF CatalogInv, AloneInv, Others, Busy
    <3> QED BY <3>6, <3>7 DEF GhostInv
  <2> QED BY <2>2, <2>3
<1>6. CASE ResolveDependency(q)
  <2>0. At(q, "resolve") /\ deps' = deps /\ services' = services
    BY <1>6 DEF ResolveDependency, serviceVars
  <2>1. \A n : Named(n)' \subseteq Named(n)
    BY <2>0 DEF Named, Active, Live
  <2>2. Others(q) /\ (~Busy(q)' \/ \E F : GhostsMissing(F) /\ Mem(q)'.found = F)
    <3>1. CASE Ends(q)
      BY <1>0, <1>2, <2>0, <3>1, ServiceAdvances
    <3>2. CASE Proceeds(q)
      <4>1. Advances(q, mem)
        BY <1>0, <1>2, <1>3, <2>0, <3>2, ServiceAdvances
      <4> QED BY <1>4, <4>1 DEF Advances
    <3>3. CASE ~Proceeds(q) /\ ~Ends(q)
      <4>0. PICK w \in mem.wishes : \E t \in Resolved(w.name) :
               Goes(q, proc[q].todo, [mem EXCEPT !.wishes = @ \ {w}, !.found = @ \cup
                       {[src |-> mem.id, name |-> w.name, dir |-> w.dir, to |-> t]}])
        BY <1>3, <1>6, <3>3 DEF ResolveDependency
      <4>1. PICK t \in Resolved(w.name) :
               Goes(q, proc[q].todo, [mem EXCEPT !.wishes = @ \ {w}, !.found = @ \cup
                       {[src |-> mem.id, name |-> w.name, dir |-> w.dir, to |-> t]}])
        BY <4>0
      <4>2. PICK m : m = [mem EXCEPT !.wishes = @ \ {w}, !.found = @ \cup
                       {[src |-> mem.id, name |-> w.name, dir |-> w.dir, to |-> t]}]
        OBVIOUS
      <4>3. Advances(q, m)
        BY <1>0, <1>2, <2>0, <4>1, <4>2, ServiceAdvances
      <4>4. PICK d : d = [src |-> mem.id, name |-> w.name, dir |-> w.dir, to |-> t]
        OBVIOUS
      <4>5. m.found = mem.found \cup {d}
        BY <1>2, <1>3, <4>2, <4>4 DEF ServiceMemory
      <4>6. d.to = Ghost => Named(d.name) = {}
        BY <1>4, <4>1, <4>4 DEF Resolved, Named
      <4>7. GhostsMissing(m.found)
        BY <1>4, <4>5, <4>6 DEF GhostsMissing
      <4> QED BY <4>3, <4>7 DEF Advances
    <3> QED BY <3>1, <3>2, <3>3
  <2>3. CASE Busy(q)'
    <3>1. PICK F : GhostsMissing(F) /\ Mem(q)'.found = F
      BY <2>2, <2>3
    <3> QED BY <1>2, <2>0, <2>1, <2>2, <3>1, GhostsOf
  <2>4. CASE ~Busy(q)'
    BY <1>2, <1>4, <2>0, <2>1, <2>2, <2>4, GhostsOf
  <2> QED BY <2>3, <2>4
<1>7. CASE CommitDependencies(q)
  <2>1. ~Busy(q)' /\ Others(q)
    BY <1>0, <1>2, <1>7, LastCallEnds, ServiceAdvances DEF CommitDependencies, Advances
  <2>2. deps' \subseteq deps \cup mem.found
    BY <1>3, <1>7 DEF CommitDependencies
  <2>3. \A n : Named(n)' \subseteq Named(n)
    BY <1>7 DEF Named, Active, Live, CommitDependencies
  <2> QED BY <1>2, <1>4, <2>1, <2>2, <2>3, GhostsOf
<1> QED BY <1>5, <1>6, <1>7

LEMMA GhostInit == Init => GhostInv
<1> SUFFICES ASSUME Init PROVE GhostInv
  OBVIOUS
<1>1. \A q \in Requests : ~Busy(q)
  BY DEF Init, ReqsInit, Busy
<1> QED BY <1>1 DEF Init, ServicesInit, GhostInv, GhostsMissing

\* An operation that was requested stays requested.
LEMMA RequestedBefore ==
    ASSUME TypeInv, TypeInv', [Next]_vars, Requested("updateService")
    PROVE  Requested("updateService")'
<1>1. PICK p \in Requests : Op(p) = "updateService"
  BY DEF Requested
<1>2. Op(p)' = "updateService"
  <2>0. ProcsOK
    BY TypeInvParts
  <2>1. CASE UNCHANGED vars
    BY <1>1, <2>1 DEF vars, Op
  <2>2. ASSUME NEW q \in Requests, GroupNext(q, workload) \/ Aborts(q) PROVE Op(p)' = Op(p)
    <3>1. /\ \A r \in Requests : r # q => proc'[r] = proc[r]
          /\ Op(q)' # Op(q) => Op(q) = "none"
      BY <2>2, OtherMoves
    <3> QED BY <1>1, <3>1 DEF Op
  <2>3. ASSUME NEW q \in Requests, NEW op \in ServiceOps, NEW i \in Ids,
               NEW given \in GivenInput(op), NEW w \in WishInput(op), NEW row \in RowInput(given),
               ServiceStart(q, op, i, row, given, w)
        PROVE  Op(p)' = Op(p)
    <3>1. (\A r \in Requests : r # q => proc'[r] = proc[r]) /\ Op(q) = "none"
      BY <2>3, ServiceArrives
    <3> QED BY <1>1, <3>1 DEF Op
  <2>4. ASSUME NEW q \in Requests, ServiceStep(q) PROVE Op(p)' = Op(p)
    <3>1. PICK c \in ServiceCalls : At(q, c)
      BY <2>4 DEF ServiceStep, ServiceCalls, CheckLimit, LimitUnknown, CreateService, GetService,
         UpdateService, SoftDeleteService, ClearDependencies, ResolveDependency, CommitDependencies
    <3>2. (\E t, m : Goes(q, t, m)) \/ Skips(q)
      BY <2>4 DEF ServiceStep, CheckLimit, LimitUnknown, CreateService, GetService,
         UpdateService, SoftDeleteService, ClearDependencies, ResolveDependency,
         CommitDependencies, Keeps, Proceeds, Ends
    <3>3. PICK t, m : Becomes(q, Op(q), t, m)
      BY <2>0, <3>1, <3>2, StepsBecome DEF At, Busy
    <3>4. /\ \A r \in Requests : r # q => proc'[r] = proc[r]
          /\ proc'[q] = [op |-> Op(q), todo |-> t, mem |-> m]
      BY <2>0, <3>3, BecomesEffect
    <3> QED BY <3>4 DEF Op
  <2> QED BY <1>1, <2>1, <2>2, <2>3, <2>4 DEF Next, ServiceNext
<1> QED BY <1>2 DEF Requested

LEMMA GhostNext == CatalogInv /\ DependencyInv /\ GhostInv /\ [Next]_vars => GhostInv'
<1> SUFFICES ASSUME CatalogInv, DependencyInv, GhostInv, [Next]_vars, clean', ~Requested("updateService")'
             PROVE  GhostInv'
  BY DEF GhostInv
<1>0. TypeInv /\ TypeInv' /\ GroupOps \cap ServiceOps = {}
  BY NextType DEF CatalogInv, GroupOps, SpecOps, ServiceOps
<1>1. clean /\ ~Requested("updateService")
  BY <1>0, CleanBefore, RequestedBefore
<1>2. ASSUME UNCHANGED serviceVars, NEW q \in Requests, \A p \in Requests : p # q => proc'[p] = proc[p],
             Busy(q)' /\ Op(q)' \in ServiceOps => Mem(q)'.found = {}
      PROVE  GhostInv'
  <2>1. \A n : Named(n)' \subseteq Named(n)
    BY <1>2 DEF Named, Active, Live, serviceVars
  <2>2. PICK D : D = deps
    OBVIOUS
  <2>3. GhostsMissing(D)' /\ D = deps'
    BY <1>1, <1>2, <2>1, <2>2, GhostsKept DEF GhostInv, serviceVars
  <2>4. GhostsMissing(deps)'
    BY <2>3
  <2>5. ASSUME NEW p \in Requests, Busy(p)', Op(p)' \in ServiceOps, p # q
        PROVE  GhostsMissing(Mem(p).found)'
    <3>1. PICK F : F = Mem(p).found
      OBVIOUS
    <3>2. Busy(p) /\ Op(p) \in ServiceOps /\ Mem(p)' = Mem(p)
      BY <1>2, <2>5 DEF Busy, Op, Mem
    <3>3. GhostsMissing(F)' /\ F = Mem(p)'.found
      BY <1>1, <2>1, <3>1, <3>2, GhostsKept DEF GhostInv
    <3> QED BY <3>3
  <2>6. Busy(q)' /\ Op(q)' \in ServiceOps => GhostsMissing(Mem(q).found)'
    BY <1>2 DEF GhostsMissing
  <2> QED BY <2>4, <2>5, <2>6 DEF GhostInv
<1>3. CASE UNCHANGED vars
  BY <1>3 DEF vars, serviceVars, GhostInv, GhostsMissing, Named, Active, Live, Requested, Busy, Op, Mem
<1>4. ASSUME NEW q \in Requests, GroupNext(q, workload) \/ Aborts(q), UNCHANGED serviceVars
      PROVE  GhostInv'
  <2>1. /\ \A p \in Requests : p # q => proc'[p] = proc[p]
        /\ Busy(q)' => Op(q)' \in GroupOps
    BY <1>0, <1>4, OtherMoves
  <2> QED BY <1>0, <1>2, <1>4, <2>1
<1>5. ASSUME NEW q \in Requests, NEW op \in ServiceOps, NEW i \in Ids,
             NEW given \in GivenInput(op), NEW w \in WishInput(op), NEW row \in RowInput(given),
             ServiceStart(q, op, i, row, given, w)
      PROVE  GhostInv'
  <2>1. /\ \A p \in Requests : p # q => proc'[p] = proc[p]
        /\ Mem(q)' = [id |-> i, row |-> row, given |-> given, wishes |-> w,
                      found |-> {}, retire |-> {}]
        /\ UNCHANGED serviceVars
    BY <1>0, <1>5, ServiceArrives
  <2> QED BY <1>2, <2>1
<1>6. ASSUME NEW q \in Requests, ServiceStep(q) PROVE GhostInv'
  BY <1>1, <1>6, GhostsLook, GhostsWritten DEF ServiceStep
<1> QED BY <1>3, <1>4, <1>5, <1>6 DEF Next, ServiceNext

\* The rows of the dependencies are sound for every number of services and
\* requests, whatever overlaps, fails or is renamed: none is of a service on
\* itself and a service has one per name.  Without overlap and renames a
\* dependency is a ghost only while there is no active service of its name.
THEOREM DependencyRowsSound ==
    Spec => [](NoSelfDependency /\ OneDependencyPerName /\ GhostMeansMissing)
<1>1. Init => DependencyInv /\ GhostInv
  BY DependencyInit, GhostInit
<1>2. CatalogInv /\ DependencyInv /\ GhostInv /\ [Next]_vars => DependencyInv' /\ GhostInv'
  BY DependencyNext, GhostNext DEF CatalogInv
<1>3. DependencyInv /\ GhostInv => NoSelfDependency /\ OneDependencyPerName /\ GhostMeansMissing
  BY DEF DependencyInv, GhostInv, GhostMeansMissing, GhostsMissing, Requested
<1> QED BY <1>1, <1>2, <1>3, CatalogInvariant, PTL DEF Spec

-----------------------------------------------------------------------------
(* The plan's limit.                                                        *)

BusyOnes == {p \in Requests : Busy(p)}

LimitInv ==
    /\ IsFiniteSet(BusyOnes) /\ Cardinality(BusyOnes) <= InFlight
    /\ LimitOvershootBounded

\* What the counts are counts of.
LEMMA Countable ==
    ASSUME IsFiniteSet(BusyOnes)
    PROVE  /\ IsFiniteSet(LiveServices) /\ Cardinality(LiveServices) \in Nat
           /\ Pending \subseteq BusyOnes /\ IsFiniteSet(Pending) /\ Cardinality(Pending) \in Nat
           /\ Cardinality(Pending) <= Cardinality(BusyOnes) /\ Cardinality(BusyOnes) \in Nat
<1>1. IsFiniteSet(Ids) /\ LiveServices \subseteq Ids
  BY ServiceCatalogAssumption DEF LiveServices
<1>2. Pending \subseteq BusyOnes
  BY DEF Pending, BusyOnes, At, Busy
<1> QED BY <1>1, <1>2, FS_Subset, FS_CardinalityType

\* A service request that is about to insert has just counted.
LEMMA NotToInsert ==
    ASSUME ProcsOK, NEW q \in Requests, NEW c \in ServiceCalls \ {"count"}, At(q, c),
           \/ Ends(q) \/ Skips(q) \/ Proceeds(q)
           \/ \E m : Keeps(q, m)
           \/ c # "insert" /\ \E m : Goes(q, proc[q].todo, m)
    PROVE  ~At(q, "insert")'
<1> DEFINE t == proc[q].todo
<1>1. /\ t \in Seq(ServiceCalls) /\ t # <<>> /\ InOrder(t) /\ Head(t) = c /\ Busy(q)
  BY AtServiceCall DEF Busy
<1>2. Tail(t) # <<>> => <<c, Head(Tail(t))>> \in CallOrder
  BY <1>1, TailInOrder
<1>3. <<c, "insert">> \notin CallOrder
  BY DEF CallOrder
<1>4. Tail(t) # <<>> => Head(Tail(t)) # "insert"
  BY <1>2, <1>3
<1>5. PICK op, u, m : /\ Becomes(q, op, u, m)
                      /\ u = <<>> \/ (u = Tail(t)) \/ (u = t /\ c # "insert")
  BY <1>1, StepsBecome DEF Ends, Proceeds, Keeps
<1>6. proc'[q] = [op |-> op, todo |-> u, mem |-> m]
  BY <1>5, BecomesEffect
<1>7. u # <<>> => Head(u) # "insert"
  BY <1>1, <1>4, <1>5
<1> QED BY <1>6, <1>7 DEF At

\* The limit holds on when no service and no insertion is added.
LEMMA LimitKept ==
    ASSUME TypeInv, TypeInv', LimitInv, [Next]_vars, NEW q \in Requests,
           \A p \in Requests : p # q => proc'[p] = proc[p],
           Busy(q) \/ (\E op, t, m : Arrives(q, op, t, m)),
           ~At(q, "insert")', LiveServices' \subseteq LiveServices,
           failedOpen => failedOpen'
    PROVE  LimitInv'
<1>1. PICK b : b = BusyOnes
  OBVIOUS
<1>2. /\ IsFiniteSet(b) /\ Cardinality(b) \in Nat /\ Cardinality(b) <= InFlight /\ InFlight \in Nat
  BY <1>1, FS_CardinalityType, HandlersAssumption DEF LimitInv
<1>3. BusyOnes' \subseteq b \cup {q}
  BY <1>1 DEF BusyOnes, Busy
<1>4. /\ IsFiniteSet(b \cup {q})
      /\ Cardinality(b \cup {q}) = IF q \in b THEN Cardinality(b) ELSE Cardinality(b) + 1
  BY <1>2, FS_AddElement
<1>5. IF q \in b THEN 1 <= Cardinality(b) ELSE Cardinality(b) < InFlight
  <2>1. q \in b => 1 <= Cardinality(b)
    BY <1>2, FS_EmptySet
  <2>2. q \notin b => Cardinality(b) < InFlight
    BY <1>1 DEF BusyOnes, Arrives
  <2> QED BY <2>1, <2>2
<1>6. /\ IsFiniteSet(BusyOnes') /\ Cardinality(BusyOnes') <= InFlight
  <2>1. IsFiniteSet(BusyOnes') /\ Cardinality(BusyOnes') <= Cardinality(b \cup {q})
    BY <1>3, <1>4, FS_Subset
  <2>2. Cardinality(BusyOnes') \in Nat
    BY <2>1, FS_CardinalityType
  <2> QED BY <1>2, <1>4, <1>5, <2>1, <2>2
<1>7. Pending' \subseteq Pending
  BY DEF Pending, At
<1>8. /\ IsFiniteSet(LiveServices) /\ Cardinality(LiveServices) \in Nat
      /\ IsFiniteSet(Pending) /\ Cardinality(Pending) \in Nat
  BY Countable DEF LimitInv
<1>9. /\ Cardinality(LiveServices') <= Cardinality(LiveServices) /\ Cardinality(LiveServices') \in Nat
      /\ Cardinality(Pending') <= Cardinality(Pending) /\ Cardinality(Pending') \in Nat
  BY <1>7, <1>8, FS_Subset, FS_CardinalityType
<1>10. clean' => clean
  BY CleanBefore
<1>11. 1 <= InFlight /\ MaxServices \in Nat
  BY <1>2, <1>5, ServiceCatalogAssumption
<1>12. LimitOvershootBounded'
  BY <1>2, <1>8, <1>9, <1>10, <1>11 DEF LimitInv, LimitOvershootBounded
<1> QED BY <1>6, <1>12 DEF LimitInv

\* Whoever counted fewer services than the limit may be about to insert, and so
\* may the other requests under way.
LEMMA LimitChecked ==
    ASSUME CatalogInv, TypeInv', DependencyInv, LimitInv, NEW q \in Requests, CheckLimit(q), [Next]_vars
    PROVE  LimitInv'
<1>0. At(q, "count") /\ "count" \in ServiceCalls /\ UNCHANGED serviceVars /\ TypeInv
  BY DEF CheckLimit, ServiceCalls, CatalogInv
<1>1. ProcsOK /\ KnowsService(q) /\ Busy(q)
  BY <1>0, AtService
<1>2. Others(q) /\ clean' = clean
  BY <1>0, <1>1, ServiceAdvances DEF CheckLimit, Advances
<1>3. LiveServices' = LiveServices
  BY <1>0 DEF LiveServices, Live, serviceVars
<1>4. CASE LimitReached
  <2>1. ~Busy(q)'
    BY <1>0, <1>1, <1>4, ServiceAdvances DEF CheckLimit
  <2>2. ~At(q, "insert")'
    BY <2>1 DEF At, Busy
  <2> QED BY <1>0, <1>1, <1>2, <1>3, <2>2, LimitKept DEF Others, serviceVars
<1>5. CASE ~LimitReached
  <2>1. /\ IsFiniteSet(BusyOnes) /\ Cardinality(BusyOnes) \in Nat /\ Cardinality(BusyOnes) <= InFlight
        /\ Cardinality(LiveServices) \in Nat /\ InFlight \in Nat /\ MaxServices \in Nat
    BY Countable, HandlersAssumption, ServiceCatalogAssumption DEF LimitInv
  <2>2. BusyOnes' \subseteq BusyOnes /\ Pending' \subseteq BusyOnes'
    BY <1>1, <1>2 DEF BusyOnes, Others, Busy, Pending, At
  <2>3. /\ IsFiniteSet(BusyOnes') /\ Cardinality(BusyOnes') <= Cardinality(BusyOnes)
        /\ Cardinality(BusyOnes') \in Nat
    BY <2>1, <2>2, FS_Subset, FS_CardinalityType
  <2>4. Cardinality(Pending') \in Nat /\ Cardinality(Pending') <= Cardinality(BusyOnes')
    BY <2>2, <2>3, FS_Subset, FS_CardinalityType
  <2>5. Cardinality(LiveServices) < MaxServices
    BY <1>5, <2>1 DEF LimitReached
  <2>6. clean' => Cardinality(Pending') <= 1
    <3> SUFFICES ASSUME clean' PROVE Cardinality(Pending') <= 1
      OBVIOUS
    <3>1. Pending' \subseteq {q}
      BY <1>1, <1>2 DEF CatalogInv, AloneInv, Others, Pending, At, Busy
    <3>2. IsFiniteSet({q}) /\ Cardinality({q}) = 1
      BY FS_Singleton
    <3> QED BY <3>1, <3>2, FS_Subset
  <2>7. LimitOvershootBounded'
    BY <1>3, <2>1, <2>3, <2>4, <2>5, <2>6 DEF LimitOvershootBounded
  <2> QED BY <2>1, <2>3, <2>7 DEF LimitInv
<1> QED BY <1>4, <1>5

\* An insertion under way becomes a service.
LEMMA LimitInserted ==
    ASSUME CatalogInv, TypeInv', DependencyInv, LimitInv, NEW q \in Requests, CreateService(q)
    PROVE  LimitInv'
<1>0. At(q, "insert") /\ "insert" \in ServiceCalls /\ TypeInv /\ Proceeds(q)
  BY DEF CreateService, ServiceCalls, CatalogInv
<1>1. /\ ProcsOK /\ KnowsService(q) /\ Busy(q) /\ Mem(q) \in ServiceMemory /\ ServicesTypeOK
  BY <1>0, AtService
<1>2. Others(q) /\ clean' = clean /\ ~Busy(q)'
  BY <1>0, <1>1, ServiceAdvances, LastCallEnds DEF Advances
<1>3. /\ IsFiniteSet(BusyOnes) /\ Cardinality(BusyOnes) \in Nat /\ Cardinality(BusyOnes) <= InFlight
      /\ IsFiniteSet(LiveServices) /\ Cardinality(LiveServices) \in Nat
      /\ IsFiniteSet(Pending) /\ Cardinality(Pending) \in Nat
      /\ InFlight \in Nat /\ MaxServices \in Nat
  BY Countable, HandlersAssumption, ServiceCatalogAssumption DEF LimitInv
<1>4. BusyOnes' \subseteq BusyOnes
  BY <1>2 DEF BusyOnes, Others, Busy
<1>5. /\ IsFiniteSet(BusyOnes') /\ Cardinality(BusyOnes') <= Cardinality(BusyOnes)
      /\ Cardinality(BusyOnes') \in Nat
  BY <1>3, <1>4, FS_Subset, FS_CardinalityType
<1>6. q \in Pending /\ Pending' \subseteq Pending \ {q}
  BY <1>0, <1>2 DEF Pending, Others, At, Busy
<1>7. /\ IsFiniteSet(Pending \ {q}) /\ Cardinality(Pending \ {q}) = Cardinality(Pending) - 1
  BY <1>3, <1>6, FS_RemoveElement
<1>8. Cardinality(Pending') <= Cardinality(Pending) - 1 /\ Cardinality(Pending') \in Nat
  BY <1>6, <1>7, FS_Subset, FS_CardinalityType
<1>9. PICK i : i = Mem(q).id
  OBVIOUS
<1>10. LiveServices' \subseteq LiveServices \cup {i}
  BY <1>1, <1>9 DEF CreateService, LiveServices, Live, ServicesTypeOK, serviceVars
<1>11. /\ IsFiniteSet(LiveServices \cup {i})
       /\ Cardinality(LiveServices \cup {i}) <= Cardinality(LiveServices) + 1
  BY <1>3, FS_AddElement
<1>12. Cardinality(LiveServices') <= Cardinality(LiveServices) + 1 /\ Cardinality(LiveServices') \in Nat
  <2>1. Cardinality(LiveServices') <= Cardinality(LiveServices \cup {i}) /\ Cardinality(LiveServices') \in Nat
    BY <1>10, <1>11, FS_Subset, FS_CardinalityType
  <2>2. Cardinality(LiveServices \cup {i}) \in Nat
    BY <1>11, FS_CardinalityType
  <2> QED BY <1>3, <1>11, <2>1, <2>2
<1>13. failedOpen' = failedOpen
  BY DEF CreateService, serviceVars
<1>14. LimitOvershootBounded'
  BY <1>2, <1>3, <1>8, <1>12, <1>13 DEF LimitInv, LimitOvershootBounded
<1> QED BY <1>3, <1>5, <1>14 DEF LimitInv

\* The other steps add neither.
LEMMA LimitElsewhere ==
    ASSUME CatalogInv, TypeInv', DependencyInv, LimitInv, NEW q \in Requests, [Next]_vars,
           \/ LimitUnknown(q) \/ GetService(q) \/ UpdateService(q) \/ SoftDeleteService(q)
           \/ ClearDependencies(q) \/ ResolveDependency(q) \/ CommitDependencies(q)
    PROVE  LimitInv'
<1>0. TypeInv /\ ServiceCalls \ {"count"} \subseteq ServiceCalls
  BY DEF CatalogInv
<1>1. CASE LimitUnknown(q)
  <2>0. At(q, "count") /\ "count" \in ServiceCalls /\ Skips(q) /\ failedOpen' = TRUE
    BY <1>1 DEF LimitUnknown, ServiceCalls
  <2>1. ProcsOK /\ KnowsService(q) /\ Busy(q)
    BY <1>0, <2>0, AtService
  <2>2. Others(q)
    BY <2>0, <2>1, ServiceAdvances DEF Advances
  <2>3. IsFiniteSet(BusyOnes) /\ Cardinality(BusyOnes) \in Nat /\ Cardinality(BusyOnes) <= InFlight /\ InFlight \in Nat
    BY Countable, HandlersAssumption DEF LimitInv
  <2>4. BusyOnes' \subseteq BusyOnes
    BY <2>1, <2>2 DEF BusyOnes, Others, Busy
  <2>5. /\ IsFiniteSet(BusyOnes') /\ Cardinality(BusyOnes') <= Cardinality(BusyOnes)
        /\ Cardinality(BusyOnes') \in Nat
    BY <2>3, <2>4, FS_Subset, FS_CardinalityType
  <2> QED BY <2>0, <2>3, <2>5 DEF LimitInv, LimitOvershootBounded
<1>2. CASE ~LimitUnknown(q)
  <2>1. PICK c \in ServiceCalls \ {"count"} : At(q, c) /\ c # "insert"
    BY <1>2 DEF ServiceCalls, GetService, UpdateService, SoftDeleteService, ClearDependencies,
       ResolveDependency, CommitDependencies
  <2>2. /\ ProcsOK /\ KnowsService(q) /\ Busy(q) /\ ServicesTypeOK /\ Mem(q) \in ServiceMemory
    BY <1>0, <2>1, AtService
  <2>3. \/ Ends(q) \/ Proceeds(q)
        \/ \E m : Keeps(q, m)
        \/ \E m : Goes(q, proc[q].todo, m)
    BY <1>2 DEF GetService, UpdateService, SoftDeleteService, ClearDependencies,
       ResolveDependency, CommitDependencies
  <2>4. ~At(q, "insert")'
    BY <2>1, <2>2, <2>3, NotToInsert
  <2>5. Others(q)
    BY <2>1, <2>2, <2>3, ServiceAdvances DEF Advances
  <2>6. LiveServices' \subseteq LiveServices
    <3>1. CASE services' = services
      BY <3>1 DEF LiveServices, Live
    <3>2. CASE UpdateService(q)
      BY <2>2, <3>2 DEF UpdateService, LiveServices, Live, ServicesTypeOK, ServiceMemory
    <3>3. CASE SoftDeleteService(q)
      BY <2>2, <3>3 DEF SoftDeleteService, LiveServices, Live, ServicesTypeOK, ServiceMemory, Service
    <3> QED BY <1>2, <3>1, <3>2, <3>3 DEF GetService, ClearDependencies, ResolveDependency,
            CommitDependencies, serviceVars
  <2>7. failedOpen' = failedOpen
    BY <1>2 DEF GetService, UpdateService, SoftDeleteService, ClearDependencies,
       ResolveDependency, CommitDependencies, serviceVars
  <2> QED BY <1>0, <2>2, <2>4, <2>5, <2>6, <2>7, LimitKept DEF Others
<1> QED BY <1>1, <1>2

LEMMA LimitInit == Init => LimitInv
<1> SUFFICES ASSUME Init PROVE LimitInv
  OBVIOUS
<1>1. BusyOnes = {} /\ Pending = {}
  BY DEF Init, ReqsInit, Busy, At, BusyOnes, Pending
<1>2. /\ IsFiniteSet(BusyOnes) /\ Cardinality(BusyOnes) = 0
      /\ IsFiniteSet(Pending) /\ Cardinality(Pending) = 0
  BY <1>1, FS_EmptySet
<1>3. Cardinality(LiveServices) \in Nat /\ InFlight \in Nat
  BY <1>2, Countable, HandlersAssumption
<1> QED BY <1>2, <1>3 DEF Init, ReqsInit, ServicesInit, LimitInv, LimitOvershootBounded

LEMMA LimitNext == CatalogInv /\ DependencyInv /\ LimitInv /\ [Next]_vars => LimitInv'
<1> SUFFICES ASSUME CatalogInv, DependencyInv, LimitInv, [Next]_vars PROVE LimitInv'
  OBVIOUS
<1>0. TypeInv /\ TypeInv'
  BY NextType DEF CatalogInv
<1>1. CASE UNCHANGED vars
  BY <1>1 DEF vars, serviceVars, LimitInv, LimitOvershootBounded, BusyOnes, Busy, Pending, At,
     LiveServices, Live
<1>2. ASSUME NEW q \in Requests, GroupNext(q, workload) \/ Aborts(q), UNCHANGED serviceVars
      PROVE  LimitInv'
  <2>1. /\ \A p \in Requests : p # q => proc'[p] = proc[p]
        /\ Busy(q)' => proc'[q].todo \in Seq(GroupCalls)
        /\ Busy(q) \/ \E op, t, m : Arrives(q, op, t, m)
    BY <1>0, <1>2, OtherMoves
  <2>2. ~At(q, "insert")'
    BY <2>1 DEF At, Busy, GroupCalls
  <2>3. LiveServices' \subseteq LiveServices /\ failedOpen' = failedOpen
    BY <1>2 DEF LiveServices, Live, serviceVars
  <2> QED BY <1>0, <2>1, <2>2, <2>3, LimitKept
<1>3. ASSUME NEW q \in Requests, NEW op \in ServiceOps, NEW i \in Ids,
             NEW given \in GivenInput(op), NEW w \in WishInput(op), NEW row \in RowInput(given),
             ServiceStart(q, op, i, row, given, w)
      PROVE  LimitInv'
  <2>1. /\ \A p \in Requests : p # q => proc'[p] = proc[p]
        /\ proc'[q].todo = ServiceSteps(op)
        /\ UNCHANGED serviceVars
        /\ \E t, m : Arrives(q, op, t, m)
    BY <1>0, <1>3, ServiceArrives
  <2>2. ~At(q, "insert")'
    BY <2>1 DEF At, ServiceSteps, ServiceOps, CreateServiceSteps, UpdateServiceSteps,
       DeleteServiceSteps, SyncDependenciesSteps
  <2>3. LiveServices' \subseteq LiveServices /\ failedOpen' = failedOpen
    BY <2>1 DEF LiveServices, Live, serviceVars
  <2> QED BY <1>0, <2>1, <2>2, <2>3, LimitKept
<1>4. ASSUME NEW q \in Requests, ServiceStep(q) PROVE LimitInv'
  BY <1>0, <1>4, LimitChecked, LimitInserted, LimitElsewhere DEF ServiceStep
<1> QED BY <1>1, <1>2, <1>3, <1>4 DEF Next, ServiceNext

\* However many requests create services at once, the plan's limit is passed
\* by less than the number that may be under way, and not at all as long as
\* they come one after the other; unless its check failed open.
THEOREM LimitHolds == Spec => []LimitOvershootBounded
<1>1. Init => DependencyInv /\ LimitInv
  BY DependencyInit, LimitInit
<1>2. CatalogInv /\ DependencyInv /\ LimitInv /\ [Next]_vars => DependencyInv' /\ LimitInv'
  BY DependencyNext, LimitNext DEF CatalogInv
<1>3. LimitInv => LimitOvershootBounded
  BY DEF LimitInv
<1> QED BY <1>1, <1>2, <1>3, CatalogInvariant, PTL DEF Spec

-----------------------------------------------------------------------------
(* The dependency graph.                                                    *)

\* Induction over the natural numbers, for a set of them: the least number
\* outside of it would bound the smallest interval that is not within it.
LEMMA SetInduction ==
    ASSUME NEW S, 0 \in S, \A n \in Nat : n \in S => n + 1 \in S
    PROVE  Nat \subseteq S
<1> SUFFICES ASSUME NEW m \in Nat, m \notin S PROVE FALSE
  OBVIOUS
<1> DEFINE T == {0..k : k \in {x \in 0..m : x \notin S}}
<1>1. IsFiniteSet(0..m)
  BY FS_Interval
<1>2. IsWellFoundedOn(StrictSubsetOrdering(0..m), SUBSET (0..m))
  BY <1>1, FS_StrictSubsetOrderingWellFounded, FS_FiniteSubsetsOfFinite
<1>3. T \subseteq SUBSET (0..m) /\ T # {}
  <2>1. 0..m \in T
    OBVIOUS
  <2>2. \A k \in 0..m : 0..k \subseteq 0..m
    OBVIOUS
  <2> QED BY <2>1, <2>2
<1>4. PICK x \in T : \A y \in T : ~(<<y, x>> \in StrictSubsetOrdering(0..m))
  <2> HIDE DEF T
  <2> QED BY <1>2, <1>3, WFMin
<1>5. PICK k \in 0..m : k \notin S /\ x = 0..k
  OBVIOUS
<1>6. k # 0 /\ k - 1 \in 0..m
  BY <1>5
<1>7. k - 1 \notin S
  <2>1. k - 1 \in Nat /\ (k - 1) + 1 = k
    BY <1>6
  <2> QED BY <1>5, <2>1
<1>8. 0..(k - 1) \in T
  BY <1>6, <1>7
<1>9. <<0..(k - 1), x>> \in StrictSubsetOrdering(0..m)
  BY <1>3, <1>5, <1>6, <1>8 DEF StrictSubsetOrdering
<1> QED BY <1>4, <1>8, <1>9

\* The paths of the walk with one service more, and what is one edge further.
Longer(P, n, dir) ==
    P \cup UNION {{Append(p, j) : j \in Beside(p[Len(p)], dir) \ {p[k] : k \in DOMAIN p}} :
                  p \in {r \in P : Len(r) = n}}
Further(N, dir) == N \cup UNION {Beside(j, dir) : j \in N}

\* The functions that the query and its reference recurse over.
WalkFrom(i, dir, depth, W) ==
    W = [n \in 0..depth |-> IF n = 0 THEN {<<i>>} ELSE Longer(W[n - 1], n, dir)]
NearFrom(i, dir, depth, N) ==
    N = [n \in 0..depth |-> IF n = 0 THEN {i} ELSE Further(N[n - 1], dir)]

\* One unfolding of the recursion.
WalkUnfolds(i, dir, depth, W) ==
    /\ W[0] = {<<i>>}
    /\ \A n \in Nat : n + 1 <= depth => W[n + 1] = Longer(W[n], n + 1, dir)
NearUnfolds(i, dir, depth, N) ==
    /\ N[0] = {i}
    /\ \A n \in Nat : n + 1 <= depth => N[n + 1] = Further(N[n], dir)

LEMMA WalkAt ==
    ASSUME NEW i, NEW dir, NEW depth \in Nat, NEW W, WalkFrom(i, dir, depth, W)
    PROVE  WalkUnfolds(i, dir, depth, W)
<1>1. PICK V : V = W
  OBVIOUS
<1>2. W = [m \in 0..depth |-> IF m = 0 THEN {<<i>>} ELSE Longer(V[m - 1], m, dir)]
  BY <1>1 DEF WalkFrom
<1>3. W[0] = {<<i>>}
  BY ONLY <1>2, depth \in Nat
<1>4. ASSUME NEW n \in Nat, n + 1 <= depth PROVE W[n + 1] = Longer(V[n], n + 1, dir)
  <2>1. n + 1 \in 0..depth /\ n + 1 # 0 /\ (n + 1) - 1 = n
    BY <1>4
  <2> QED BY ONLY <1>2, <2>1
<1> QED BY <1>1, <1>3, <1>4 DEF WalkUnfolds

LEMMA NearAt ==
    ASSUME NEW i, NEW dir, NEW depth \in Nat, NEW N, NearFrom(i, dir, depth, N)
    PROVE  NearUnfolds(i, dir, depth, N)
<1>1. PICK V : V = N
  OBVIOUS
<1>2. N = [m \in 0..depth |-> IF m = 0 THEN {i} ELSE Further(V[m - 1], dir)]
  BY <1>1 DEF NearFrom
<1>3. N[0] = {i}
  BY ONLY <1>2, depth \in Nat
<1>4. ASSUME NEW n \in Nat, n + 1 <= depth PROVE N[n + 1] = Further(V[n], dir)
  <2>1. n + 1 \in 0..depth /\ n + 1 # 0 /\ (n + 1) - 1 = n
    BY <1>4
  <2> QED BY ONLY <1>2, <2>1
<1> QED BY <1>1, <1>3, <1>4 DEF NearUnfolds

\* There are such functions for every depth.
LEMMA WalkExists ==
    ASSUME NEW i, NEW dir
    PROVE  \A depth \in Nat : \E W : WalkFrom(i, dir, depth, W)
<1> DEFINE S == {d \in Nat : \E W : WalkFrom(i, dir, d, W)}
<1>1. 0 \in S
  <2>1. WalkFrom(i, dir, 0, [n \in 0..0 |-> {<<i>>}])
    BY DEF WalkFrom
  <2> QED BY <2>1
<1>2. ASSUME NEW d \in Nat, d \in S PROVE d + 1 \in S
  <2>1. PICK W : WalkFrom(i, dir, d, W)
    BY <1>2
  <2>2. PICK V : V = [n \in 0..(d + 1) |-> IF n <= d THEN W[n] ELSE Longer(W[d], n, dir)]
    OBVIOUS
  <2>3. ASSUME NEW n \in 0..(d + 1)
        PROVE  V[n] = IF n = 0 THEN {<<i>>} ELSE Longer(V[n - 1], n, dir)
    <3>1. CASE n = 0
      <4>0. WalkUnfolds(i, dir, d, W)
        BY <2>1, WalkAt
      <4>1. W[0] = {<<i>>}
        BY <4>0 DEF WalkUnfolds
      <4> QED BY <2>2, <3>1, <4>1
    <3>2. CASE n # 0 /\ n <= d
      <4>0. PICK k \in Nat : n = k + 1
        BY <3>2
      <4>1. V[n] = W[n] /\ V[n - 1] = W[n - 1] /\ n - 1 = k /\ k + 1 <= d
        BY <2>2, <3>2, <4>0
      <4>a. WalkUnfolds(i, dir, d, W)
        BY <2>1, WalkAt
      <4>2. W[k + 1] = Longer(W[k], k + 1, dir)
        BY <4>a, <4>1 DEF WalkUnfolds
      <4> QED BY <3>2, <4>0, <4>1, <4>2
    <3>3. CASE n = d + 1
      BY <2>2, <3>3
    <3> QED BY <3>1, <3>2, <3>3
  <2>4. WalkFrom(i, dir, d + 1, V)
    BY <2>2, <2>3 DEF WalkFrom
  <2> QED BY <2>4
<1>3. Nat \subseteq S
  <2> HIDE DEF S
  <2> QED BY <1>1, <1>2, SetInduction
<1> QED BY <1>3

LEMMA NearExists ==
    ASSUME NEW i, NEW dir
    PROVE  \A depth \in Nat : \E N : NearFrom(i, dir, depth, N)
<1> DEFINE S == {d \in Nat : \E N : NearFrom(i, dir, d, N)}
<1>1. 0 \in S
  <2>1. NearFrom(i, dir, 0, [n \in 0..0 |-> {i}])
    BY DEF NearFrom
  <2> QED BY <2>1
<1>2. ASSUME NEW d \in Nat, d \in S PROVE d + 1 \in S
  <2>1. PICK N : NearFrom(i, dir, d, N)
    BY <1>2
  <2>2. PICK V : V = [n \in 0..(d + 1) |-> IF n <= d THEN N[n] ELSE Further(N[d], dir)]
    OBVIOUS
  <2>3. ASSUME NEW n \in 0..(d + 1)
        PROVE  V[n] = IF n = 0 THEN {i} ELSE Further(V[n - 1], dir)
    <3>1. CASE n = 0
      <4>0. NearUnfolds(i, dir, d, N)
        BY <2>1, NearAt
      <4>1. N[0] = {i}
        BY <4>0 DEF NearUnfolds
      <4> QED BY <2>2, <3>1, <4>1
    <3>2. CASE n # 0 /\ n <= d
      <4>0. PICK k \in Nat : n = k + 1
        BY <3>2
      <4>1. V[n] = N[n] /\ V[n - 1] = N[n - 1] /\ n - 1 = k /\ k + 1 <= d
        BY <2>2, <3>2, <4>0
      <4>a. NearUnfolds(i, dir, d, N)
        BY <2>1, NearAt
      <4>2. N[k + 1] = Further(N[k], dir)
        BY <4>a, <4>1 DEF NearUnfolds
      <4> QED BY <3>2, <4>0, <4>1, <4>2
    <3>3. CASE n = d + 1
      BY <2>2, <3>3
    <3> QED BY <3>1, <3>2, <3>3
  <2>4. NearFrom(i, dir, d + 1, V)
    BY <2>2, <2>3 DEF NearFrom
  <2> QED BY <2>4
<1>3. Nat \subseteq S
  <2> HIDE DEF S
  <2> QED BY <1>1, <1>2, SetInduction
<1> QED BY <1>3

NearFromNear(i, dir, D, N) ==
    \A n \in 0..D : \A j \in N[n] : j = i \/ \E k \in N[n] : j \in Beside(k, dir)

\* What is near stays near, and was reached from something near.
LEMMA NearGrows ==
    ASSUME NEW i, NEW dir, NEW D \in Nat, NEW N, NearFrom(i, dir, D, N)
    PROVE  /\ \A n \in 0..D : \A m \in 0..n : N[m] \subseteq N[n]
           /\ NearFromNear(i, dir, D, N)
<1> DEFINE Good(n) == /\ \A m \in 0..n : N[m] \subseteq N[n]
                      /\ \A j \in N[n] : j = i \/ \E k \in N[n] : j \in Beside(k, dir)
           S == {n \in Nat : n <= D => Good(n)}
<1>a. NearUnfolds(i, dir, D, N)
  BY NearAt
<1>0. N[0] = {i} /\ \A n \in Nat : n + 1 <= D => N[n + 1] = Further(N[n], dir)
  BY <1>a DEF NearUnfolds
<1>1. 0 \in S
  <2>1. Good(0)
    BY <1>0
  <2> QED BY <2>1
<1>2. ASSUME NEW n \in Nat, n \in S PROVE n + 1 \in S
  <2> SUFFICES ASSUME n + 1 <= D PROVE Good(n + 1)
    OBVIOUS
  <2>1. Good(n)
    BY <1>2
  <2>2. N[n + 1] = N[n] \cup UNION {Beside(j, dir) : j \in N[n]}
    BY <1>0 DEF Further
  <2>3. \A m \in 0..(n + 1) : N[m] \subseteq N[n + 1]
    <3> TAKE m \in 0..(n + 1)
    <3>1. CASE m = n + 1
      BY <3>1
    <3>2. CASE m # n + 1
      <4>1. m \in 0..n
        BY <3>2
      <4> QED BY <2>1, <2>2, <4>1
    <3> QED BY <3>1, <3>2
  <2>4. \A j \in N[n + 1] : j = i \/ \E k \in N[n + 1] : j \in Beside(k, dir)
    BY <2>1, <2>2
  <2> QED BY <2>3, <2>4
<1>3. Nat \subseteq S
  <2> HIDE DEF S
  <2> QED BY <1>1, <1>2, SetInduction
<1>4. \A n \in 0..D : Good(n)
  BY <1>3
<1> QED BY <1>4 DEF NearFromNear

\* The n-th service of a path is near by n - 1, and a path has no more than
\* the edges it may have.
LEMMA PathsAreNear ==
    ASSUME NEW i \in Ids, NEW dir, NEW D \in Nat, NEW E \in Nat, D <= E,
           NEW W, WalkFrom(i, dir, D, W), NEW N, NearFrom(i, dir, E, N)
    PROVE  \A n \in 0..D : \A p \in W[n] :
              /\ p \in Seq(Ids) /\ Len(p) \in 1..(n + 1)
              /\ \A m \in 1..Len(p) : p[m] \in N[m - 1]
<1> DEFINE Good(n) == \A p \in W[n] : /\ p \in Seq(Ids) /\ Len(p) \in 1..(n + 1)
                                      /\ \A m \in 1..Len(p) : p[m] \in N[m - 1]
           S == {n \in Nat : n <= D => Good(n)}
<1>u. WalkUnfolds(i, dir, D, W) /\ NearUnfolds(i, dir, E, N)
  BY WalkAt, NearAt
<1>w. W[0] = {<<i>>} /\ \A m \in Nat : m + 1 <= D => W[m + 1] = Longer(W[m], m + 1, dir)
  BY <1>u DEF WalkUnfolds
<1>n. N[0] = {i} /\ \A m \in Nat : m + 1 <= E => N[m + 1] = Further(N[m], dir)
  BY <1>u DEF NearUnfolds
<1>1. 0 \in S
  <2>1. W[0] = {<<i>>} /\ N[0] = {i}
    BY <1>w, <1>n
  <2>2. <<i>> \in Seq(Ids) /\ Len(<<i>>) = 1 /\ <<i>>[1] = i
    OBVIOUS
  <2>3. ASSUME NEW p \in W[0]
        PROVE  p \in Seq(Ids) /\ Len(p) = 1 /\ p[1] \in N[0]
    BY <2>1, <2>2
  <2>4. Good(0)
    BY <2>3
  <2> QED BY <2>4
<1>2. ASSUME NEW n \in Nat, n \in S PROVE n + 1 \in S
  <2> SUFFICES ASSUME n + 1 <= D, NEW p \in W[n + 1]
               PROVE  /\ p \in Seq(Ids) /\ Len(p) \in 1..(n + 2)
                      /\ \A m \in 1..Len(p) : p[m] \in N[m - 1]
    OBVIOUS
  <2>1. Good(n)
    BY <1>2
  <2>2. W[n + 1] = Longer(W[n], n + 1, dir)
    BY <1>w
  <2>3. CASE p \in W[n]
    BY <2>1, <2>3
  <2>4. CASE p \notin W[n]
    <3>1. PICK r \in W[n] : /\ Len(r) = n + 1
                            /\ \E j \in Beside(r[Len(r)], dir) : p = Append(r, j)
      BY <2>2, <2>4 DEF Longer
    <3>2. PICK j \in Beside(r[Len(r)], dir) : p = Append(r, j)
      BY <3>1
    <3>3. r \in Seq(Ids) /\ \A m \in 1..Len(r) : r[m] \in N[m - 1]
      BY <2>1
    <3>4. j \in Ids
      BY DEF Beside
    <3>5. /\ p \in Seq(Ids) /\ Len(p) = n + 2
          /\ \A m \in 1..(n + 1) : p[m] = r[m]
          /\ p[n + 2] = j
      BY <3>1, <3>2, <3>3, <3>4
    <3>a. n + 1 <= E
      OBVIOUS
    <3>6. N[n + 1] = Further(N[n], dir)
      BY <1>n, <3>a
    <3>7. j \in N[n + 1]
      BY <3>1, <3>3, <3>6 DEF Further
    <3>8. \A m \in 1..(n + 2) : p[m] \in N[m - 1]
      <4> TAKE m \in 1..(n + 2)
      <4>1. CASE m = n + 2
        BY <3>5, <3>7, <4>1
      <4>2. CASE m # n + 2
        BY <3>1, <3>3, <3>5, <4>2
      <4> QED BY <4>1, <4>2
    <3> QED BY <3>5, <3>8
  <2> QED BY <2>3, <2>4
<1>3. Nat \subseteq S
  <2> HIDE DEF S
  <2> QED BY <1>1, <1>2, SetInduction
<1>4. \A n \in 0..D : Good(n)
  BY <1>3
<1> QED BY <1>4

EndsReach(W, N, D) == \A n \in 0..D : \A j \in N[n] : \E p \in W[n] : p[Len(p)] = j

\* And everything near is the end of a path: the shortest way there does not
\* repeat a service.
LEMMA NearIsReached ==
    ASSUME NEW i \in Ids, NEW dir, NEW D \in Nat, NEW E \in Nat, D <= E,
           NEW W, WalkFrom(i, dir, D, W), NEW N, NearFrom(i, dir, E, N)
    PROVE  EndsReach(W, N, D)
<1> DEFINE Good(n) == \A j \in N[n] : \E p \in W[n] : p[Len(p)] = j
           S == {n \in Nat : n <= D => Good(n)}
<1>u. WalkUnfolds(i, dir, D, W) /\ NearUnfolds(i, dir, E, N)
  BY WalkAt, NearAt
<1>w. W[0] = {<<i>>} /\ \A m \in Nat : m + 1 <= D => W[m + 1] = Longer(W[m], m + 1, dir)
  BY <1>u DEF WalkUnfolds
<1>n. N[0] = {i} /\ \A m \in Nat : m + 1 <= E => N[m + 1] = Further(N[m], dir)
  BY <1>u DEF NearUnfolds
<1>0. \A n \in 0..D : \A p \in W[n] :
              /\ p \in Seq(Ids) /\ Len(p) \in 1..(n + 1)
              /\ \A m \in 1..Len(p) : p[m] \in N[m - 1]
  BY PathsAreNear
<1>a. \A n \in 0..E : \A m \in 0..n : N[m] \subseteq N[n]
  BY NearGrows
<1>1. 0 \in S
  <2>1. W[0] = {<<i>>} /\ N[0] = {i}
    BY <1>w, <1>n
  <2>2. <<i>>[Len(<<i>>)] = i
    OBVIOUS
  <2>3. Good(0)
    BY <2>1, <2>2
  <2> QED BY <2>3
<1>2. ASSUME NEW n \in Nat, n \in S PROVE n + 1 \in S
  <2> SUFFICES ASSUME n + 1 <= D, NEW j \in N[n + 1] PROVE \E p \in W[n + 1] : p[Len(p)] = j
    OBVIOUS
  <2>1. Good(n)
    BY <1>2
  <2>a. n + 1 <= E
    OBVIOUS
  <2>2. W[n + 1] = Longer(W[n], n + 1, dir) /\ N[n + 1] = Further(N[n], dir)
    BY <1>w, <1>n, <2>a
  <2>3. CASE j \in N[n]
    BY <2>1, <2>2, <2>3 DEF Longer
  <2>4. CASE j \notin N[n]
    <3>1. PICK k \in N[n] : j \in Beside(k, dir)
      BY <2>2, <2>4 DEF Further
    <3>2. PICK r \in W[n] : r[Len(r)] = k
      BY <2>1
    <3>3. /\ r \in Seq(Ids) /\ Len(r) \in 1..(n + 1) /\ \A m \in 1..Len(r) : r[m] \in N[m - 1]
      BY <1>0
    <3>4. Len(r) = n + 1
      <4> SUFFICES ASSUME Len(r) <= n PROVE FALSE
        BY <3>3
      <4>0. Len(r) - 1 \in Nat /\ Len(r) = (Len(r) - 1) + 1
        BY <3>3
      <4>1. PICK l \in Nat : Len(r) = l + 1
        BY <4>0
      <4>2. k \in N[l] /\ l + 1 <= n /\ l + 1 <= E
        BY <3>2, <3>3, <4>1
      <4>3. N[l + 1] = Further(N[l], dir)
        BY <1>n, <4>2
      <4>4. j \in N[l + 1]
        BY <3>1, <4>2, <4>3 DEF Further
      <4>5. l + 1 \in 0..n /\ n \in 0..E
        BY <4>2
      <4> QED BY <1>a, <2>4, <4>4, <4>5
    <3>5. \A m \in 1..Len(r) : r[m] # j
      <4> SUFFICES ASSUME NEW m \in 1..Len(r), r[m] = j PROVE FALSE
        OBVIOUS
      <4>1. j \in N[m - 1] /\ m - 1 \in 0..n /\ n \in 0..E
        BY <3>3
      <4> QED BY <1>a, <2>4, <4>1
    <3>6. Append(r, j) \in W[n + 1]
      <4>1. j \in Beside(r[Len(r)], dir) \ {r[m] : m \in DOMAIN r}
        BY <3>1, <3>2, <3>3, <3>5
      <4> QED BY <2>2, <3>4, <4>1 DEF Longer
    <3>7. j \in Ids
      BY <3>1 DEF Beside
    <3>8. Append(r, j)[Len(Append(r, j))] = j
      BY <3>3, <3>7
    <3> QED BY <3>6, <3>8
  <2> QED BY <2>3, <2>4
<1>3. Nat \subseteq S
  <2> HIDE DEF S
  <2> QED BY <1>1, <1>2, SetInduction
<1>4. \A n \in 0..D : Good(n)
  BY <1>3
<1> QED BY <1>4 DEF EndsReach

\* The walk reaches what is near, at every depth.
LEMMA WalkIsNear ==
    ASSUME NEW i \in Ids, NEW dir, NEW depth \in Nat, NEW E \in Nat, depth <= E,
           NEW N, NearFrom(i, dir, E, N)
    PROVE  Walk(i, dir, depth) = N[depth]
<1> DEFINE W == CHOOSE f : WalkFrom(i, dir, depth, f)
<1>1. Walk(i, dir, depth) = {p[Len(p)] : p \in W[depth]}
  BY DEF Walk, WalkFrom, Longer
<1>2. WalkFrom(i, dir, depth, W)
  BY WalkExists
<1> HIDE DEF W
<1>3. PICK V : V = W /\ WalkFrom(i, dir, depth, V)
  BY <1>2
<1>4. \A j \in N[depth] : \E p \in V[depth] : p[Len(p)] = j
  <2>1. EndsReach(V, N, depth)
    BY <1>3, NearIsReached
  <2> QED BY <2>1 DEF EndsReach
<1>5. \A p \in V[depth] : p[Len(p)] \in N[depth]
  <2>1. \A n \in 0..depth : \A p \in V[n] :
              /\ p \in Seq(Ids) /\ Len(p) \in 1..(n + 1)
              /\ \A m \in 1..Len(p) : p[m] \in N[m - 1]
    BY <1>3, PathsAreNear
  <2>2. \A n \in 0..E : \A m \in 0..n : N[m] \subseteq N[n]
    BY NearGrows
  <2> TAKE p \in V[depth]
  <2>3. Len(p) \in 1..(depth + 1) /\ p[Len(p)] \in N[Len(p) - 1]
    BY <2>1
  <2>4. Len(p) - 1 \in 0..depth /\ depth \in 0..E
    BY <2>3
  <2> QED BY <2>2, <2>3, <2>4
<1> QED BY <1>1, <1>3, <1>4, <1>5

\* What the graph of a service shows, in terms of what is near it.
Shows(graph, near, i) ==
    /\ \A j \in near \ {i} : \E d \in graph : j = d.src \/ j = d.to
    /\ \A d \in graph : \A j \in Ids : Active(j) /\ (j = d.src \/ j = d.to) => j \in near

LEMMA GraphOfNear ==
    ASSUME NEW i \in Ids, NEW dir \in Directions, NEW depth \in Nat, NEW N, NearFrom(i, dir, depth, N),
           NEW graph, graph = DependencyGraph(i, dir, depth)
    PROVE  Shows(graph, N[depth], i)
<1>0. Ghost \notin Ids
  BY ServiceCatalogAssumption
<1>1. Walk(i, dir, depth) = N[depth]
  BY WalkIsNear
<1>2. graph = {d \in deps : d.src \in N[depth] /\ (Shown(d) = Ghost \/ Shown(d) \in N[depth])}
  BY <1>1 DEF DependencyGraph
<1>3. \A j \in N[depth] : j = i \/ \E k \in N[depth] : j \in Beside(k, dir)
  <2>1. NearFromNear(i, dir, depth, N)
    BY NearGrows
  <2> QED BY <2>1 DEF NearFromNear
<1>4. ASSUME NEW j \in N[depth] \ {i} PROVE \E d \in graph : j = d.src \/ j = d.to
  <2>1. PICK k \in N[depth] : j \in Beside(k, dir)
    BY <1>3, <1>4
  <2>2. j \in Ids /\ Active(j)
    BY <2>1 DEF Beside
  <2>3. PICK d \in deps : \/ d.src = k /\ d.to = j
                          \/ d.to = k /\ d.src = j
    BY <2>1 DEF Beside
  <2>4. d \in graph
    BY <1>0, <1>2, <1>4, <2>2, <2>3 DEF Shown
  <2> QED BY <2>3, <2>4
<1>5. ASSUME NEW d \in graph, NEW j \in Ids, Active(j), j = d.src \/ j = d.to PROVE j \in N[depth]
  BY <1>0, <1>2, <1>5 DEF Shown
<1> QED BY <1>4, <1>5 DEF Shows

\* The graph shows what the walk reaches, whatever the dependencies are.
LEMMA GraphShows == GraphShowsWalk
<1> SUFFICES ASSUME NEW i \in LiveServices, NEW dir \in Directions, NEW depth \in 1..MaxDepth
             PROVE  LET graph == DependencyGraph(i, dir, depth)
                        ends == UNION {{d.src, d.to} : d \in graph} IN
                    /\ Walk(i, dir, depth) \ {i} \subseteq ends
                    /\ {j \in ends \cap Ids : Active(j)} \subseteq Walk(i, dir, depth) \cup {i}
  BY DEF GraphShowsWalk
<1> DEFINE graph == DependencyGraph(i, dir, depth)
           ends == UNION {{d.src, d.to} : d \in graph}
<1>1. i \in Ids /\ depth \in Nat
  BY ServiceCatalogAssumption DEF LiveServices
<1>2. PICK N : NearFrom(i, dir, depth, N)
  BY <1>1, NearExists
<1>3. Walk(i, dir, depth) = N[depth]
  BY <1>1, <1>2, WalkIsNear
<1>4. PICK G : G = graph /\ Shows(G, N[depth], i)
  BY <1>1, <1>2, GraphOfNear
<1> HIDE DEF graph
<1>5. \A j : j \in ends <=> \E d \in G : j = d.src \/ j = d.to
  BY <1>4
<1> HIDE DEF ends
<1>6. /\ Walk(i, dir, depth) \ {i} \subseteq ends
      /\ {j \in ends \cap Ids : Active(j)} \subseteq Walk(i, dir, depth) \cup {i}
  BY <1>3, <1>4, <1>5 DEF Shows
<1> QED BY <1>6 DEF ends, graph

\* And the walk reaches what is within its depth.
LEMMA WalkReaches == WalkReachesAll
<1> SUFFICES ASSUME NEW i \in LiveServices, NEW dir \in Directions
             PROVE  LET Near[n \in 0..MaxDepth] ==
                            IF n = 0 THEN {i}
                            ELSE Near[n - 1] \cup UNION {Beside(j, dir) : j \in Near[n - 1]}
                    IN \A n \in 0..MaxDepth : Walk(i, dir, n) = Near[n]
  BY DEF WalkReachesAll
<1> DEFINE M == CHOOSE f : NearFrom(i, dir, MaxDepth, f)
<1>1. i \in Ids /\ MaxDepth \in Nat
  BY ServiceCatalogAssumption DEF LiveServices
<1>2. NearFrom(i, dir, MaxDepth, M)
  BY <1>1, NearExists
<1>3. \A n \in 0..MaxDepth : Walk(i, dir, n) = M[n]
  <2> HIDE DEF M
  <2>1. PICK N : N = M /\ NearFrom(i, dir, MaxDepth, N)
    BY <1>2
  <2> TAKE n \in 0..MaxDepth
  <2>2. n \in Nat /\ n <= MaxDepth
    BY <1>1
  <2>3. Walk(i, dir, n) = N[n]
    BY <1>1, <2>1, <2>2, WalkIsNear
  <2> QED BY <2>1, <2>3
<1> QED BY <1>3 DEF NearFrom, Further

\* The dependencies are sound, and the graph shows what is within the depth
\* asked for and nothing else, for every number of services, requests and
\* depths.
THEOREM DependenciesAreSound == Spec => []DependenciesSound
<1>1. GraphShowsWalk /\ WalkReachesAll
  BY GraphShows, WalkReaches
<1>2. NoSelfDependency /\ OneDependencyPerName /\ GhostMeansMissing => DependenciesSound
  BY <1>1 DEF DependenciesSound
<1> QED BY <1>2, DependencyRowsSound, PTL
===============================================================================
