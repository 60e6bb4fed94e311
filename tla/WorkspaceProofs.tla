--------------------------- MODULE WorkspaceProofs ---------------------------
(***************************************************************************)
(* Theorems about Workspace, for every set of requests, names, schemas,    *)
(* references and workloads, whatever overlaps or fails.                   *)
(***************************************************************************)
EXTENDS Workspace, SequenceTheorems, FiniteSetTheorems, TLAPS

(***************************************************************************)
(* The calls a request may have left.                                      *)
(***************************************************************************)
DbLeft(op) ==
    CASE op = "createDB" ->
            {<<"insertDB", "latestVersion", "insertVersion">>, <<"latestVersion", "insertVersion">>,
             <<"insertVersion">>}
      [] op \in {"updateDB", "createDBVersion"} ->
            {<<"getDB", "saveDB", "latestVersion", "insertVersion">>,
             <<"saveDB", "latestVersion", "insertVersion">>, <<"latestVersion", "insertVersion">>,
             <<"insertVersion">>}
      [] op = "deleteDB" -> {<<"getDB", "deleteDB">>, <<"deleteDB">>}
      [] op = "restoreDBVersion" ->
            {<<"getDB", "getVersion", "latestVersion", "insertVersion", "saveDB">>,
             <<"getVersion", "latestVersion", "insertVersion", "saveDB">>,
             <<"latestVersion", "insertVersion", "saveDB">>, <<"insertVersion", "saveDB">>,
             <<"saveDB">>}

QueryLeft(op) ==
    CASE op = "createSavedQueryFolder" -> {<<"ensureDB", "insertFolder">>, <<"insertFolder">>}
      [] op = "deleteSavedQueryFolder" ->
            {<<"ensureDB", "getFolder", "clearFolder", "deleteFolder">>,
             <<"getFolder", "clearFolder", "deleteFolder">>, <<"clearFolder", "deleteFolder">>,
             <<"deleteFolder">>}
      [] op = "createSavedQuery" -> {<<"ensureDB", "insertQuery">>, <<"insertQuery">>}
      [] op = "updateSavedQuery" ->
            {<<"ensureDB", "getQuery", "saveQuery">>, <<"getQuery", "saveQuery">>, <<"saveQuery">>}
      [] op = "deleteSavedQuery" ->
            {<<"ensureDB", "getQuery", "deleteQuery">>, <<"getQuery", "deleteQuery">>,
             <<"deleteQuery">>}
      [] op = "syncSavedQuery" -> {<<"ensureDB", "upsertQuery">>, <<"upsertQuery">>}

LinkLeft(op) ==
    CASE op \in {"createDoc", "createDiagram"} ->
            {<<"upload", "insertContent", "link">>, <<"insertContent", "link">>,
             <<"getContent", "link">>, <<"link">>}
      [] op \in {"deleteDoc", "deleteDiagram"} -> {<<"getLink", "unlink">>, <<"unlink">>}
      [] op = "listStats" ->
            {<<"listServices", "countRows", "closeRows">>, <<"countRows", "closeRows">>,
             <<"closeRows">>}

TestLeft(op) ==
    CASE op = "createTestPack" -> {<<"insertPack">>}
      [] op = "updateTestPack" -> {<<"getPack", "savePack">>, <<"savePack">>}
      [] op = "deleteTestPack" -> {<<"getPack", "deletePack">>, <<"deletePack">>}
      [] op = "createTestCase" -> {<<"getCasePack", "insertCase">>, <<"insertCase">>}
      [] op = "updateTestCase" -> {<<"getCase", "saveCase">>, <<"saveCase">>}
      [] op = "deleteTestCase" -> {<<"getCase", "deleteCase">>, <<"deleteCase">>}
      [] op = "createTestRun" -> {<<"insertRun">>}
      [] op = "updateTestRun" -> {<<"getRun", "saveRun">>, <<"saveRun">>}
      [] op = "createTestRunResult" -> {<<"insertResult">>}
      [] op = "updateTestRunResult" -> {<<"getResult", "saveResult">>, <<"saveResult">>}

CaseMemory == [id : TestIds, pack : TestIds]
RunMemory == [id : TestIds, pack : TestIds \cup {NoTest}, status : RunStatus \cup {NoTest},
              overall : Verdicts \cup {NoTest}]
ResultMemory == [id : TestIds, run : TestIds \cup {NoTest}, case : TestIds \cup {NoTest},
                 status : ResultStatus]

(***************************************************************************)
(* What a request holds between two of its calls.                          *)
(***************************************************************************)
FirstCall(q) == Head(proc[q].todo)

\* The number n is the next of database i, or was the next at some point.
Follows(i, n) == n \in Nat \ {0} /\ (n = 1 \/ \E v \in VersionsOf(i) : v.number = n - 1)

DbOK(q) ==
    /\ proc[q].op \in DbOps
    /\ proc[q].todo \in DbLeft(proc[q].op)
    /\ proc[q].mem \in DbMemory
    /\ FirstCall(q) # "getDB" => Mem(q).name \in DbNames /\ Mem(q).schema \in Schemas
    /\ FirstCall(q) # "insertDB" => dbs[Mem(q).id].state # "absent"
    /\ FirstCall(q) = "insertVersion" => Follows(Mem(q).id, Mem(q).number)
    /\ Op(q) # "restoreDBVersion" => Mem(q).want = None
    /\ Op(q) = "restoreDBVersion" /\ FirstCall(q) = "getDB" => Mem(q).schema = None

QueryOK(q) ==
    /\ proc[q].op \in QueryOps
    /\ proc[q].todo \in QueryLeft(proc[q].op)
    /\ proc[q].mem \in QueryMemory
    /\ Op(q) \in {"updateSavedQuery", "deleteSavedQuery"} => queries[Mem(q).id].state # "absent"
    /\ Op(q) # "syncSavedQuery" => Mem(q).ref = None

LinkOK(q) ==
    /\ proc[q].op \in LinkOps
    /\ proc[q].todo \in LinkLeft(proc[q].op)
    /\ proc[q].mem \in LinkMemory
    /\ FirstCall(q) = "insertContent" => <<Mem(q).kind, Mem(q).id>> \in objects
    /\ FirstCall(q) = "link" => contents[Mem(q).kind][Mem(q).id] # "absent"

CaseOK(q) ==
    /\ proc[q].op \in PackOps \cup CaseOps
    /\ proc[q].todo \in TestLeft(proc[q].op)
    /\ proc[q].mem \in CaseMemory
    /\ Op(q) \in {"updateTestCase", "deleteTestCase"} => cases[Mem(q).id].state # "absent"

RunOK(q) ==
    /\ proc[q].op \in {"createTestRun", "updateTestRun"}
    /\ proc[q].todo \in TestLeft(proc[q].op)
    /\ proc[q].mem \in RunMemory
    /\ Op(q) = "createTestRun" => Mem(q).pack \in TestIds
    /\ FirstCall(q) # "getRun" => Mem(q).status \in RunStatus /\ Mem(q).overall \in Verdicts
    /\ FirstCall(q) = "getRun" => /\ Mem(q).status \in {"completed", NoTest}
                                  /\ Mem(q).overall \in {"passed", "failed", NoTest}
    /\ Op(q) = "updateTestRun" => runs[Mem(q).id].state # "absent"

ResultOK(q) ==
    /\ proc[q].op \in {"createTestRunResult", "updateTestRunResult"}
    /\ proc[q].todo \in TestLeft(proc[q].op)
    /\ proc[q].mem \in ResultMemory
    /\ Op(q) = "createTestRunResult" => /\ Mem(q).run \in TestIds /\ Mem(q).case \in TestIds
                                        /\ cases[Mem(q).case].state # "absent"
    /\ Op(q) = "updateTestRunResult" => results[Mem(q).id].state # "absent"

RequestOK(q) ==
    \/ proc[q].todo = <<>> /\ proc[q].mem = NoMem
    \/ DbOK(q) \/ QueryOK(q) \/ LinkOK(q) \/ CaseOK(q) \/ RunOK(q) \/ ResultOK(q)

(***************************************************************************)
(* What the tables keep.                                                   *)
(***************************************************************************)
\* Versions are numbered without a gap or a repetition, and one is the last.
LogOK(i) ==
    /\ \A v \in VersionsOf(i) : Follows(i, v.number)
    /\ \A v, w \in VersionsOf(i) : v.number = w.number => v = w
    /\ VersionsOf(i) = {} \/ \E v \in VersionsOf(i) : \A w \in VersionsOf(i) : w.number <= v.number

OneQueryPerRef ==
    \A i, j \in Ids : /\ queries[i].state = "live" /\ queries[j].state = "live"
                      /\ queries[i].ref = queries[j].ref /\ queries[i].ref # None
                      => i = j

ResultsOK ==
    /\ \A i, j \in TestIds : /\ results[i].state = "live" /\ results[j].state = "live"
                             /\ results[i].run = results[j].run /\ results[i].case = results[j].case
                             => i = j
    /\ \A i \in TestIds : results[i].state = "live" => cases[results[i].case].state # "absent"

WorkInv ==
    /\ \A q \in Requests : RequestOK(q)
    /\ \A i \in Ids : LogOK(i)
    /\ OneQueryPerRef
    /\ ResultsOK
    /\ LinkedIsStored
    /\ HeldByStats

(***************************************************************************)
(* What holds as long as requests neither overlap nor fail.                *)
(***************************************************************************)
Versioned(i) == \E v \in VersionsOf(i) : v.schema = dbs[i].schema

\* The row is written and its version is still to come.
Pending(q) == /\ Busy(q) /\ FirstCall(q) \in {"latestVersion", "insertVersion"}
              /\ Op(q) \in {"createDB", "updateDB", "createDBVersion"}

\* What a handler of databases read is still what the tables hold.
DbAlone(q) ==
    /\ Pending(q) => dbs[Mem(q).id].schema = Mem(q).schema
    /\ At(q, "insertVersion") => \A v \in VersionsOf(Mem(q).id) : v.number < Mem(q).number
    /\ At(q, "saveDB") /\ Op(q) # "restoreDBVersion" => LiveDb(Mem(q).id)
    /\ At(q, "saveDB") /\ Op(q) = "updateDB" => Mem(q).prev = dbs[Mem(q).id].schema
    /\ Busy(q) /\ Op(q) = "restoreDBVersion" /\ ~At(q, "getDB") => Mem(q).schema = dbs[Mem(q).id].schema
    /\ Busy(q) /\ Op(q) = "restoreDBVersion" /\ ~At(q, "getDB") /\ ~At(q, "getVersion")
       => \E v \in VersionsOf(Mem(q).id) : v.schema = Mem(q).want
    /\ At(q, "saveDB") /\ Op(q) = "restoreDBVersion" =>
       \E v \in VersionsOf(Mem(q).id) : /\ v.schema = Mem(q).schema
                                        /\ \A w \in VersionsOf(Mem(q).id) : w.number <= v.number

FolderAlone(q) ==
    At(q, "deleteFolder") => \A i \in Ids : queries[i].state = "live" => queries[i].folder # Mem(q).id

TestAlone(q) ==
    /\ At(q, "insertCase") => packs[Mem(q).pack] = "live"
    /\ At(q, "saveRun") => /\ Mem(q).status \in {runs[Mem(q).id].status, "completed"}
                           /\ Mem(q).overall \in {runs[Mem(q).id].overall, "passed", "failed"}

AloneOK(q) == DbAlone(q) /\ FolderAlone(q) /\ TestAlone(q)

CleanInv ==
    clean =>
        /\ \A p, q \in Requests : Busy(p) /\ Busy(q) => p = q
        /\ \A q \in Requests : AloneOK(q)
        /\ \A i \in Ids : LiveDb(i) => Versioned(i) \/ \E q \in Requests : Pending(q) /\ Mem(q).id = i

-----------------------------------------------------------------------------
(* What is left after a call.                                               *)

\* After a call of a database handler.
DbNext(op, c, u) ==
    /\ u = <<>> \/ u \in DbLeft(op)
    /\ c = "insertDB" => op = "createDB" /\ u # <<>> /\ Head(u) = "latestVersion"
    /\ c = "getDB" => /\ op # "createDB" /\ u # <<>>
                      /\ Head(u) = IF op = "restoreDBVersion" THEN "getVersion"
                                   ELSE IF op = "deleteDB" THEN "deleteDB" ELSE "saveDB"
    /\ c = "saveDB" => \/ op = "restoreDBVersion" /\ u = <<>>
                       \/ /\ op \in {"updateDB", "createDBVersion"} /\ u # <<>>
                          /\ Head(u) = "latestVersion"
    /\ c = "deleteDB" => op = "deleteDB" /\ u = <<>>
    /\ c = "getVersion" => op = "restoreDBVersion" /\ u # <<>> /\ Head(u) = "latestVersion"
    /\ c = "latestVersion" => op # "deleteDB" /\ u # <<>> /\ Head(u) = "insertVersion"
    /\ c = "insertVersion" => \/ op = "restoreDBVersion" /\ u # <<>> /\ Head(u) = "saveDB"
                              \/ op \in {"createDB", "updateDB", "createDBVersion"} /\ u = <<>>

DbCalls == {"insertDB", "getDB", "saveDB", "deleteDB", "getVersion", "latestVersion",
            "insertVersion"}

\* The calls of a database handler come in the order of its list.
LEMMA DbTail ==
    ASSUME NEW op \in DbOps, NEW t \in DbLeft(op)
    PROVE  /\ t # <<>> /\ t \in Seq(DataCalls \cup TestCalls) /\ Head(t) \in DbCalls
           /\ DbNext(op, Head(t), Tail(t))
<1>1. CASE op = "createDB"
  <2>1. CASE t = <<"insertDB", "latestVersion", "insertVersion">>
    BY <1>1, <2>1 DEF DbNext, DbLeft, DbCalls, DataCalls
  <2>2. CASE t = <<"latestVersion", "insertVersion">>
    BY <1>1, <2>2 DEF DbNext, DbLeft, DbCalls, DataCalls
  <2>3. CASE t = <<"insertVersion">>
    BY <1>1, <2>3 DEF DbNext, DbLeft, DbCalls, DataCalls
  <2> QED BY <1>1, <2>1, <2>2, <2>3 DEF DbLeft
<1>2. CASE op \in {"updateDB", "createDBVersion"}
  <2>1. CASE t = <<"getDB", "saveDB", "latestVersion", "insertVersion">>
    BY <1>2, <2>1 DEF DbNext, DbLeft, DbCalls, DataCalls
  <2>2. CASE t = <<"saveDB", "latestVersion", "insertVersion">>
    BY <1>2, <2>2 DEF DbNext, DbLeft, DbCalls, DataCalls
  <2>3. CASE t = <<"latestVersion", "insertVersion">>
    BY <1>2, <2>3 DEF DbNext, DbLeft, DbCalls, DataCalls
  <2>4. CASE t = <<"insertVersion">>
    BY <1>2, <2>4 DEF DbNext, DbLeft, DbCalls, DataCalls
  <2> QED BY <1>2, <2>1, <2>2, <2>3, <2>4 DEF DbLeft
<1>3. CASE op = "deleteDB"
  <2>1. CASE t = <<"getDB", "deleteDB">>
    BY <1>3, <2>1 DEF DbNext, DbLeft, DbCalls, DataCalls
  <2>2. CASE t = <<"deleteDB">>
    BY <1>3, <2>2 DEF DbNext, DbLeft, DbCalls, DataCalls
  <2> QED BY <1>3, <2>1, <2>2 DEF DbLeft
<1>4. CASE op = "restoreDBVersion"
  <2>1. CASE t = <<"getDB", "getVersion", "latestVersion", "insertVersion", "saveDB">>
    BY <1>4, <2>1 DEF DbNext, DbLeft, DbCalls, DataCalls
  <2>2. CASE t = <<"getVersion", "latestVersion", "insertVersion", "saveDB">>
    BY <1>4, <2>2 DEF DbNext, DbLeft, DbCalls, DataCalls
  <2>3. CASE t = <<"latestVersion", "insertVersion", "saveDB">>
    BY <1>4, <2>3 DEF DbNext, DbLeft, DbCalls, DataCalls
  <2>4. CASE t = <<"insertVersion", "saveDB">>
    BY <1>4, <2>4 DEF DbNext, DbLeft, DbCalls, DataCalls
  <2>5. CASE t = <<"saveDB">>
    BY <1>4, <2>5 DEF DbNext, DbLeft, DbCalls, DataCalls
  <2> QED BY <1>4, <2>1, <2>2, <2>3, <2>4, <2>5 DEF DbLeft
<1> QED BY <1>1, <1>2, <1>3, <1>4 DEF DbOps

\* After a call of a handler of saved queries.
QueryNext(op, c, u) ==
    /\ u = <<>> \/ u \in QueryLeft(op)
    /\ c \in {"insertFolder", "deleteFolder", "insertQuery", "saveQuery", "deleteQuery",
              "upsertQuery"} => u = <<>>
    /\ c \in {"ensureDB", "getFolder", "clearFolder", "getQuery"} => u # <<>>
    /\ c = "clearFolder" => Head(u) = "deleteFolder"
    /\ u # <<>> /\ Head(u) = "deleteFolder" => c = "clearFolder"
    /\ c \in {"saveQuery", "getQuery"} => op \in {"updateSavedQuery", "deleteSavedQuery"}
    /\ c = "deleteQuery" => op = "deleteSavedQuery"
    /\ c = "upsertQuery" => op = "syncSavedQuery"
    /\ c = "insertQuery" => op = "createSavedQuery"

QueryCalls == {"ensureDB", "insertFolder", "getFolder", "clearFolder", "deleteFolder",
               "insertQuery", "getQuery", "saveQuery", "deleteQuery", "upsertQuery"}

\* The calls of a handler of saved queries come in the order of its list.
LEMMA QueryTail ==
    ASSUME NEW op \in QueryOps, NEW t \in QueryLeft(op)
    PROVE  /\ t # <<>> /\ t \in Seq(DataCalls \cup TestCalls) /\ Head(t) \in QueryCalls
           /\ QueryNext(op, Head(t), Tail(t))
<1>1. CASE op = "createSavedQueryFolder"
  <2>1. CASE t = <<"ensureDB", "insertFolder">>
    BY <1>1, <2>1 DEF QueryNext, QueryLeft, QueryCalls, DataCalls
  <2>2. CASE t = <<"insertFolder">>
    BY <1>1, <2>2 DEF QueryNext, QueryLeft, QueryCalls, DataCalls
  <2> QED BY <1>1, <2>1, <2>2 DEF QueryLeft
<1>2. CASE op = "deleteSavedQueryFolder"
  <2>1. CASE t = <<"ensureDB", "getFolder", "clearFolder", "deleteFolder">>
    BY <1>2, <2>1 DEF QueryNext, QueryLeft, QueryCalls, DataCalls
  <2>2. CASE t = <<"getFolder", "clearFolder", "deleteFolder">>
    BY <1>2, <2>2 DEF QueryNext, QueryLeft, QueryCalls, DataCalls
  <2>3. CASE t = <<"clearFolder", "deleteFolder">>
    BY <1>2, <2>3 DEF QueryNext, QueryLeft, QueryCalls, DataCalls
  <2>4. CASE t = <<"deleteFolder">>
    BY <1>2, <2>4 DEF QueryNext, QueryLeft, QueryCalls, DataCalls
  <2> QED BY <1>2, <2>1, <2>2, <2>3, <2>4 DEF QueryLeft
<1>3. CASE op = "createSavedQuery"
  <2>1. CASE t = <<"ensureDB", "insertQuery">>
    BY <1>3, <2>1 DEF QueryNext, QueryLeft, QueryCalls, DataCalls
  <2>2. CASE t = <<"insertQuery">>
    BY <1>3, <2>2 DEF QueryNext, QueryLeft, QueryCalls, DataCalls
  <2> QED BY <1>3, <2>1, <2>2 DEF QueryLeft
<1>4. CASE op = "updateSavedQuery"
  <2>1. CASE t = <<"ensureDB", "getQuery", "saveQuery">>
    BY <1>4, <2>1 DEF QueryNext, QueryLeft, QueryCalls, DataCalls
  <2>2. CASE t = <<"getQuery", "saveQuery">>
    BY <1>4, <2>2 DEF QueryNext, QueryLeft, QueryCalls, DataCalls
  <2>3. CASE t = <<"saveQuery">>
    BY <1>4, <2>3 DEF QueryNext, QueryLeft, QueryCalls, DataCalls
  <2> QED BY <1>4, <2>1, <2>2, <2>3 DEF QueryLeft
<1>5. CASE op = "deleteSavedQuery"
  <2>1. CASE t = <<"ensureDB", "getQuery", "deleteQuery">>
    BY <1>5, <2>1 DEF QueryNext, QueryLeft, QueryCalls, DataCalls
  <2>2. CASE t = <<"getQuery", "deleteQuery">>
    BY <1>5, <2>2 DEF QueryNext, QueryLeft, QueryCalls, DataCalls
  <2>3. CASE t = <<"deleteQuery">>
    BY <1>5, <2>3 DEF QueryNext, QueryLeft, QueryCalls, DataCalls
  <2> QED BY <1>5, <2>1, <2>2, <2>3 DEF QueryLeft
<1>6. CASE op = "syncSavedQuery"
  <2>1. CASE t = <<"ensureDB", "upsertQuery">>
    BY <1>6, <2>1 DEF QueryNext, QueryLeft, QueryCalls, DataCalls
  <2>2. CASE t = <<"upsertQuery">>
    BY <1>6, <2>2 DEF QueryNext, QueryLeft, QueryCalls, DataCalls
  <2> QED BY <1>6, <2>1, <2>2 DEF QueryLeft
<1> QED BY <1>1, <1>2, <1>3, <1>4, <1>5, <1>6 DEF QueryOps

\* After a call of a handler of documents and diagrams, or of the statistics.
LinkNext(op, c, u) ==
    /\ u = <<>> \/ u \in LinkLeft(op)
    /\ c = "upload" => u # <<>> /\ Head(u) = "insertContent"
    /\ c \in {"insertContent", "getContent"} => u # <<>> /\ Head(u) = "link"
    /\ c = "listServices" => u # <<>> /\ Head(u) = "countRows"
    /\ c = "countRows" => u # <<>> /\ Head(u) = "closeRows"
    /\ c = "getLink" => u # <<>> /\ Head(u) = "unlink"
    /\ c \in {"link", "unlink", "closeRows"} => u = <<>>

LinkCalls == {"upload", "insertContent", "getContent", "link", "getLink", "unlink",
              "listServices", "countRows", "closeRows"}

\* The calls of these handlers come in the order of their lists.
LEMMA LinkTail ==
    ASSUME NEW op \in LinkOps, NEW t \in LinkLeft(op)
    PROVE  /\ t # <<>> /\ t \in Seq(DataCalls \cup TestCalls) /\ Head(t) \in LinkCalls
           /\ LinkNext(op, Head(t), Tail(t))
<1>1. CASE op \in {"createDoc", "createDiagram"}
  <2>1. CASE t = <<"upload", "insertContent", "link">>
    BY <1>1, <2>1 DEF LinkNext, LinkLeft, LinkCalls, DataCalls
  <2>2. CASE t = <<"insertContent", "link">>
    BY <1>1, <2>2 DEF LinkNext, LinkLeft, LinkCalls, DataCalls
  <2>3. CASE t = <<"getContent", "link">>
    BY <1>1, <2>3 DEF LinkNext, LinkLeft, LinkCalls, DataCalls
  <2>4. CASE t = <<"link">>
    BY <1>1, <2>4 DEF LinkNext, LinkLeft, LinkCalls, DataCalls
  <2> QED BY <1>1, <2>1, <2>2, <2>3, <2>4 DEF LinkLeft
<1>2. CASE op \in {"deleteDoc", "deleteDiagram"}
  <2>1. CASE t = <<"getLink", "unlink">>
    BY <1>2, <2>1 DEF LinkNext, LinkLeft, LinkCalls, DataCalls
  <2>2. CASE t = <<"unlink">>
    BY <1>2, <2>2 DEF LinkNext, LinkLeft, LinkCalls, DataCalls
  <2> QED BY <1>2, <2>1, <2>2 DEF LinkLeft
<1>3. CASE op = "listStats"
  <2>1. CASE t = <<"listServices", "countRows", "closeRows">>
    BY <1>3, <2>1 DEF LinkNext, LinkLeft, LinkCalls, DataCalls
  <2>2. CASE t = <<"countRows", "closeRows">>
    BY <1>3, <2>2 DEF LinkNext, LinkLeft, LinkCalls, DataCalls
  <2>3. CASE t = <<"closeRows">>
    BY <1>3, <2>3 DEF LinkNext, LinkLeft, LinkCalls, DataCalls
  <2> QED BY <1>3, <2>1, <2>2, <2>3 DEF LinkLeft
<1> QED BY <1>1, <1>2, <1>3 DEF LinkOps

\* After a call of a handler of tests.
TestNext(op, c, u) ==
    /\ u = <<>> \/ u \in TestLeft(op)
    /\ c \in {"getPack", "getCasePack", "getCase", "getRun", "getResult"} => u # <<>>
    /\ c \notin {"getPack", "getCasePack", "getCase", "getRun", "getResult"} => u = <<>>
    /\ c = "getPack" => Head(u) \in {"savePack", "deletePack"}
    /\ c = "getCasePack" => Head(u) = "insertCase"
    /\ c = "getCase" => Head(u) \in {"saveCase", "deleteCase"}
                        /\ op \in {"updateTestCase", "deleteTestCase"}
    /\ c = "getRun" => Head(u) = "saveRun" /\ op = "updateTestRun"
    /\ c = "getResult" => Head(u) = "saveResult" /\ op = "updateTestRunResult"
    /\ c \in {"saveCase", "deleteCase"} => op \in {"updateTestCase", "deleteTestCase"}
    /\ c = "saveRun" => op = "updateTestRun"
    /\ c = "insertRun" => op = "createTestRun"
    /\ c = "saveResult" => op = "updateTestRunResult"
    /\ c = "insertResult" => op = "createTestRunResult"

CaseCalls == {"insertPack", "getPack", "savePack", "deletePack", "getCasePack", "insertCase",
              "getCase", "saveCase", "deleteCase"}
RunCalls == {"insertRun", "getRun", "saveRun"}
ResultCalls == {"insertResult", "getResult", "saveResult"}

\* The calls of a handler of tests come in the order of its list.
LEMMA TestTail ==
    ASSUME NEW op \in TestOps, NEW t \in TestLeft(op)
    PROVE  /\ t # <<>> /\ t \in Seq(DataCalls \cup TestCalls)
           /\ Head(t) \in IF op \in PackOps \cup CaseOps THEN CaseCalls
                          ELSE IF op \in {"createTestRun", "updateTestRun"} THEN RunCalls
                          ELSE ResultCalls
           /\ TestNext(op, Head(t), Tail(t))
<1> USE DEF TestNext, TestLeft, CaseCalls, RunCalls, ResultCalls, TestCalls, PackOps, CaseOps
<1>1. CASE op = "createTestPack"
  <2>1. t = <<"insertPack">>
    BY <1>1
  <2> QED BY <1>1, <2>1
<1>2. CASE op = "updateTestPack"
  <2>1. CASE t = <<"getPack", "savePack">>
    BY <1>2, <2>1
  <2>2. CASE t = <<"savePack">>
    BY <1>2, <2>2
  <2> QED BY <1>2, <2>1, <2>2
<1>3. CASE op = "deleteTestPack"
  <2>1. CASE t = <<"getPack", "deletePack">>
    BY <1>3, <2>1
  <2>2. CASE t = <<"deletePack">>
    BY <1>3, <2>2
  <2> QED BY <1>3, <2>1, <2>2
<1>4. CASE op = "createTestCase"
  <2>1. CASE t = <<"getCasePack", "insertCase">>
    BY <1>4, <2>1
  <2>2. CASE t = <<"insertCase">>
    BY <1>4, <2>2
  <2> QED BY <1>4, <2>1, <2>2
<1>5. CASE op = "updateTestCase"
  <2>1. CASE t = <<"getCase", "saveCase">>
    BY <1>5, <2>1
  <2>2. CASE t = <<"saveCase">>
    BY <1>5, <2>2
  <2> QED BY <1>5, <2>1, <2>2
<1>6. CASE op = "deleteTestCase"
  <2>1. CASE t = <<"getCase", "deleteCase">>
    BY <1>6, <2>1
  <2>2. CASE t = <<"deleteCase">>
    BY <1>6, <2>2
  <2> QED BY <1>6, <2>1, <2>2
<1>7. CASE op = "createTestRun"
  <2>1. t = <<"insertRun">>
    BY <1>7
  <2> QED BY <1>7, <2>1
<1>8. CASE op = "updateTestRun"
  <2>1. CASE t = <<"getRun", "saveRun">>
    BY <1>8, <2>1
  <2>2. CASE t = <<"saveRun">>
    BY <1>8, <2>2
  <2> QED BY <1>8, <2>1, <2>2
<1>9. CASE op = "createTestRunResult"
  <2>1. t = <<"insertResult">>
    BY <1>9
  <2> QED BY <1>9, <2>1
<1>10. CASE op = "updateTestRunResult"
  <2>1. CASE t = <<"getResult", "saveResult">>
    BY <1>10, <2>1
  <2>2. CASE t = <<"saveResult">>
    BY <1>10, <2>2
  <2> QED BY <1>10, <2>1, <2>2
<1> QED BY <1>1, <1>2, <1>3, <1>4, <1>5, <1>6, <1>7, <1>8, <1>9, <1>10 DEF TestOps, RunOps

-----------------------------------------------------------------------------
(* Steps of requests.                                                       *)

Calls == DataCalls \cup TestCalls
Ops == DataOps \cup TestOps
Memory == DataMemory \cup TestMemory

\* The call at hand tells what kind of request it is.
LEMMA KindOfCall ==
    ASSUME WorkInv, NEW q \in Requests, Busy(q)
    PROVE  /\ proc[q].todo \in Seq(Calls)
           /\ FirstCall(q) \in DbCalls => DbOK(q)
           /\ FirstCall(q) \in QueryCalls => QueryOK(q)
           /\ FirstCall(q) \in LinkCalls => LinkOK(q)
           /\ FirstCall(q) \in CaseCalls => CaseOK(q)
           /\ FirstCall(q) \in RunCalls => RunOK(q)
           /\ FirstCall(q) \in ResultCalls => ResultOK(q)
<1> DEFINE c == FirstCall(q)
<1>1. DbOK(q) => c \in DbCalls /\ proc[q].todo \in Seq(Calls)
  BY DbTail DEF DbOK, FirstCall, Calls
<1>2. QueryOK(q) => c \in QueryCalls /\ proc[q].todo \in Seq(Calls)
  BY QueryTail DEF QueryOK, FirstCall, Calls
<1>3. LinkOK(q) => c \in LinkCalls /\ proc[q].todo \in Seq(Calls)
  BY LinkTail DEF LinkOK, FirstCall, Calls
<1>4. CaseOK(q) => c \in CaseCalls /\ proc[q].todo \in Seq(Calls)
  BY TestTail DEF CaseOK, FirstCall, Calls, TestOps
<1>5. RunOK(q) => c \in RunCalls /\ proc[q].todo \in Seq(Calls)
  BY TestTail DEF RunOK, FirstCall, Calls, TestOps, RunOps, PackOps, CaseOps
<1>6. ResultOK(q) => c \in ResultCalls /\ proc[q].todo \in Seq(Calls)
  BY TestTail DEF ResultOK, FirstCall, Calls, TestOps, RunOps, PackOps, CaseOps
<1> HIDE DEF c
<1>7. DbOK(q) \/ QueryOK(q) \/ LinkOK(q) \/ CaseOK(q) \/ RunOK(q) \/ ResultOK(q)
  BY DEF WorkInv, RequestOK, Busy
<1>8. /\ c \in DbCalls => c \notin QueryCalls \cup LinkCalls \cup CaseCalls \cup RunCalls \cup ResultCalls
      /\ c \in QueryCalls => c \notin LinkCalls \cup CaseCalls \cup RunCalls \cup ResultCalls
      /\ c \in LinkCalls => c \notin CaseCalls \cup RunCalls \cup ResultCalls
      /\ c \in CaseCalls => c \notin RunCalls \cup ResultCalls
      /\ c \in RunCalls => c \notin ResultCalls
  BY DEF DbCalls, QueryCalls, LinkCalls, CaseCalls, RunCalls, ResultCalls
<1> QED BY <1>1, <1>2, <1>3, <1>4, <1>5, <1>6, <1>7, <1>8 DEF c

\* No row goes back to being absent, and versions and files stay.
Grows ==
    /\ \A i \in Ids : dbs[i].state # "absent" => dbs'[i].state # "absent"
    /\ \A i \in Ids : queries[i].state # "absent" => queries'[i].state # "absent"
    /\ \A k \in Kinds, i \in Ids : contents[k][i] # "absent" => contents'[k][i] # "absent"
    /\ versions \subseteq versions' /\ objects \subseteq objects'
    /\ \A i \in TestIds : cases[i].state # "absent" => cases'[i].state # "absent"
    /\ \A i \in TestIds : runs[i].state # "absent" => runs'[i].state # "absent"
    /\ \A i \in TestIds : results[i].state # "absent" => results'[i].state # "absent"

\* What a request relies on lasts while others take steps.
LEMMA WaitingOK ==
    ASSUME TypeOK, NEW p \in Requests, RequestOK(p), proc'[p] = proc[p], Grows
    PROVE  RequestOK(p)'
<1>1. CASE proc[p].todo = <<>> /\ proc[p].mem = NoMem
  BY <1>1 DEF RequestOK
<1>2. CASE DbOK(p)
  <2>1. Mem(p) \in DbMemory /\ Mem(p).id \in Ids
    BY <1>2 DEF DbOK, Mem, DbMemory
  <2>2. FirstCall(p) = "insertVersion" => Follows(Mem(p).id, Mem(p).number)'
    BY <1>2 DEF DbOK, Follows, VersionsOf, Grows, Mem
  <2>3. FirstCall(p) # "insertDB" => dbs'[Mem(p).id].state # "absent"
    BY <1>2, <2>1 DEF DbOK, Grows
  <2>4. DbOK(p)'
    BY <1>2, <2>2, <2>3 DEF DbOK, Mem, Op, FirstCall
  <2> QED BY <2>4 DEF RequestOK
<1>3. CASE QueryOK(p)
  <2>1. Mem(p).id \in Ids
    BY <1>3 DEF QueryOK, Mem, QueryMemory
  <2>2. QueryOK(p)'
    BY <1>3, <2>1 DEF QueryOK, Mem, Op, FirstCall, Grows
  <2> QED BY <2>2 DEF RequestOK
<1>4. CASE LinkOK(p)
  <2>1. Mem(p).id \in Ids /\ Mem(p).kind \in Kinds
    BY <1>4 DEF LinkOK, Mem, LinkMemory
  <2>2. LinkOK(p)'
    BY <1>4, <2>1 DEF LinkOK, Mem, Op, FirstCall, Grows
  <2> QED BY <2>2 DEF RequestOK
<1>5. CASE CaseOK(p)
  <2>1. Mem(p).id \in TestIds
    BY <1>5 DEF CaseOK, Mem, CaseMemory
  <2>2. CaseOK(p)'
    BY <1>5, <2>1 DEF CaseOK, Mem, Op, FirstCall, Grows
  <2> QED BY <2>2 DEF RequestOK
<1>6. CASE RunOK(p)
  <2>1. Mem(p).id \in TestIds
    BY <1>6 DEF RunOK, Mem, RunMemory
  <2>2. RunOK(p)'
    BY <1>6, <2>1 DEF RunOK, Mem, Op, FirstCall, Grows
  <2> QED BY <2>2 DEF RequestOK
<1>7. CASE ResultOK(p)
  <2>1. Op(p) = "updateTestRunResult" => Mem(p).id \in TestIds
    BY <1>7 DEF ResultOK, Mem, ResultMemory
  <2>2. ResultOK(p)'
    BY <1>7, <2>1 DEF ResultOK, Mem, Op, FirstCall, Grows
  <2> QED BY <2>2 DEF RequestOK
<1> QED BY <1>1, <1>2, <1>3, <1>4, <1>5, <1>6, <1>7 DEF RequestOK

\* After its step q has the calls u left and holds m.
Now(q, u, m) ==
    proc' = [proc EXCEPT ![q] = [op |-> proc[q].op, todo |-> u,
                                 mem |-> IF u = <<>> THEN NoMem ELSE m]]

\* The steps of the handlers' frame, in that form.
LEMMA FrameSteps ==
    ASSUME TypeOK, NEW q \in Requests
    PROVE  /\ \A u, m : Goes(q, u, m) => Now(q, u, m) /\ clean' = clean
           /\ Proceeds(q) => Now(q, Tail(proc[q].todo), proc[q].mem) /\ clean' = clean
           /\ \A m : Keeps(q, m) => Now(q, Tail(proc[q].todo), m) /\ clean' = clean
           /\ Ends(q) => Now(q, <<>>, NoMem) /\ clean' = clean
           /\ Aborts(q) => Now(q, <<>>, NoMem) /\ clean' = FALSE /\ Busy(q)
           /\ Skips(q) /\ Busy(q) => Now(q, Tail(proc[q].todo), proc[q].mem) /\ clean' = FALSE
<1>1. \A u, m : Goes(q, u, m) => Now(q, u, m) /\ clean' = clean
  BY DEF Goes, Now
<1>2. Proceeds(q) => Now(q, Tail(proc[q].todo), proc[q].mem) /\ clean' = clean
  BY <1>1 DEF Proceeds, Keeps
<1>3. \A m : Keeps(q, m) => Now(q, Tail(proc[q].todo), m) /\ clean' = clean
  BY <1>1 DEF Keeps
<1>4. Ends(q) => Now(q, <<>>, NoMem) /\ clean' = clean
  BY <1>1 DEF Ends
<1>5. proc[q] = [op |-> proc[q].op, todo |-> proc[q].todo, mem |-> proc[q].mem]
      /\ proc[q].todo \in Seq(Calls)
  BY DEF TypeOK, ReqsType, Calls
<1>6. Aborts(q) => Now(q, <<>>, NoMem) /\ clean' = FALSE /\ Busy(q)
  BY <1>5 DEF Aborts, Now, TypeOK, ReqsType
<1>7. Busy(q) => (Len(proc[q].todo) = 1 <=> Tail(proc[q].todo) = <<>>)
  <2>1. ASSUME NEW t \in Seq(Calls), t # <<>> PROVE Len(t) = 1 <=> Tail(t) = <<>>
    <3>1. Tail(t) \in Seq(Calls) /\ Len(Tail(t)) = Len(t) - 1 /\ Len(t) \in Nat
      BY <2>1
    <3>2. Tail(t) = <<>> <=> Len(Tail(t)) = 0
      BY <3>1, EmptySeq
    <3> QED BY <3>1, <3>2
  <2> QED BY <1>5, <2>1 DEF Busy
<1>8. Skips(q) /\ Busy(q) => Now(q, Tail(proc[q].todo), proc[q].mem) /\ clean' = FALSE
  BY <1>5, <1>7 DEF Skips, Now, TypeOK, ReqsType
<1> QED BY <1>1, <1>2, <1>3, <1>4, <1>6, <1>8

\* What a step of q leaves of the requests.
LEMMA NowIs ==
    ASSUME TypeOK, NEW q \in Requests, NEW u, NEW m, Now(q, u, m)
    PROVE  /\ proc'[q].op = proc[q].op /\ proc'[q].todo = u
           /\ proc'[q].mem = IF u = <<>> THEN NoMem ELSE m
           /\ \A p \in Requests \ {q} : proc'[p] = proc[p]
BY DEF Now, TypeOK, ReqsType

\* The same, when q has calls left.
LEMMA NowHolds ==
    ASSUME TypeOK, NEW q \in Requests, NEW u, NEW m, Now(q, u, m), u # <<>>
    PROVE  proc'[q].op = proc[q].op /\ proc'[q].todo = u /\ proc'[q].mem = m
BY NowIs

\* When the tables only grow and q is left with what it has to hold, every
\* request is.
LEMMA RequestsOK ==
    ASSUME TypeOK, WorkInv, NEW q \in Requests, NEW u \in Seq(Calls), NEW m \in Memory \cup {NoMem},
           Now(q, u, m), clean' \in BOOLEAN, Grows, u # <<>> => RequestOK(q)'
    PROVE  /\ ReqsType(Ops, Calls, Memory)'
           /\ \A p \in Requests : RequestOK(p)'
<1>1. /\ proc'[q].op = proc[q].op /\ proc'[q].todo = u
      /\ proc'[q].mem = IF u = <<>> THEN NoMem ELSE m
      /\ \A p \in Requests \ {q} : proc'[p] = proc[p]
  BY NowIs
<1>2. ReqsType(Ops, Calls, Memory)'
  BY DEF Now, TypeOK, ReqsType, Ops, Calls, Memory
<1>3. RequestOK(q)'
  BY <1>1 DEF RequestOK
<1>4. \A p \in Requests \ {q} : RequestOK(p)'
  BY <1>1, WaitingOK DEF WorkInv
<1> QED BY <1>2, <1>3, <1>4

\* A request that has the list of services open.
Counts(q) == At(q, "countRows") \/ At(q, "closeRows")

\* Connections are held by the same requests when q did not count and does not.
LEMMA HeldKept ==
    ASSUME TypeOK, HeldByStats, NEW q \in Requests,
           \A p \in Requests \ {q} : proc'[p] = proc[p], held' = held, Counts(q)' <=> Counts(q)
    PROVE  HeldByStats'
<1>1. \A p \in Requests : Counts(p)' <=> Counts(p)
  BY DEF Counts, At
<1>2. held = {p \in Requests : Counts(p)}
  BY DEF HeldByStats, Counts
<1>3. held' = {p \in Requests : Counts(p)'}
  BY <1>1, <1>2
<1> QED BY <1>3 DEF HeldByStats, Counts

\* A call of a database handler, done by q, that changes only the databases and
\* their versions.
LEMMA DbStepKeeps ==
    ASSUME TypeOK, WorkInv, NEW q \in Requests, Busy(q), DbOK(q),
           NEW u, u = <<>> \/ u \in DbLeft(proc[q].op), NEW m \in DbMemory \cup {NoMem},
           Now(q, u, m), clean' \in BOOLEAN, u # <<>> => DbOK(q)',
           UNCHANGED <<folders, queries, contents, objects, links, held, testVars>>,
           dbs' \in [Ids -> Db], versions' \subseteq Version, versions \subseteq versions',
           \A i \in Ids : dbs[i].state # "absent" => dbs'[i].state # "absent",
           \A i \in Ids : LogOK(i)'
    PROVE  TypeOK' /\ WorkInv'
<1>0. <<>> \in Seq(Calls)
  OBVIOUS
<1>1. u \in Seq(Calls) /\ (u # <<>> => Head(u) \in DbCalls)
  BY <1>0, DbTail DEF DbOK, Calls
<1>2. m \in Memory \cup {NoMem}
  BY DEF Memory, DataMemory
<1>3. Grows
  BY DEF Grows, testVars
<1>4. /\ ReqsType(Ops, Calls, Memory)'
      /\ \A p \in Requests : RequestOK(p)'
  BY <1>1, <1>2, <1>3, RequestsOK DEF RequestOK
<1>5. /\ proc'[q].todo = u
      /\ \A p \in Requests \ {q} : proc'[p] = proc[p]
  BY NowIs
<1>6. ~Counts(q) /\ ~Counts(q)'
  BY <1>1, <1>5, DbTail DEF Counts, At, DbOK, DbCalls
<1>7. HeldByStats'
  BY <1>5, <1>6, HeldKept DEF WorkInv
<1>8. DataTypeOK' /\ TestsTypeOK'
  BY DEF TypeOK, DataTypeOK, TestsTypeOK, testVars
<1>9. OneQueryPerRef' /\ ResultsOK' /\ LinkedIsStored'
  BY DEF WorkInv, OneQueryPerRef, ResultsOK, LinkedIsStored, testVars
<1> QED BY <1>4, <1>7, <1>8, <1>9 DEF TypeOK, WorkInv, Ops, Calls, Memory

\* The last number of a log is one of its numbers.
LEMMA LatestNumber ==
    ASSUME TypeOK, NEW i \in Ids, LogOK(i)
    PROVE  /\ LatestServiceDBVersionNumber(i) \in Nat
           /\ VersionsOf(i) = {} => LatestServiceDBVersionNumber(i) = 0
           /\ VersionsOf(i) # {} => \E v \in VersionsOf(i) :
                 /\ v.number = LatestServiceDBVersionNumber(i)
                 /\ \A w \in VersionsOf(i) : w.number <= v.number
<1>1. CASE VersionsOf(i) = {}
  BY <1>1 DEF LatestServiceDBVersionNumber
<1>2. CASE VersionsOf(i) # {}
  <2> DEFINE N == {v.number : v \in VersionsOf(i)}
             Last(n) == \A v \in VersionsOf(i) : v.number <= n
  <2>1. \E n \in N : Last(n)
    BY <1>2 DEF LogOK
  <2>2. LatestServiceDBVersionNumber(i) = CHOOSE n \in N : Last(n)
    BY <1>2 DEF LatestServiceDBVersionNumber
  <2>3. LatestServiceDBVersionNumber(i) \in N /\ Last(LatestServiceDBVersionNumber(i))
    BY <2>1, <2>2
  <2>4. N \subseteq Nat
    BY DEF TypeOK, DataTypeOK, VersionsOf, Version
  <2> QED BY <1>2, <2>3, <2>4
<1> QED BY <1>1, <1>2

\* A request that does not change versions leaves the logs as they are.
LEMMA LogsStay ==
    ASSUME WorkInv, versions' = versions
    PROVE  \A i \in Ids : LogOK(i)'
BY DEF WorkInv, LogOK, Follows, VersionsOf

\* A log that gets the version after one of its own, under a number that is
\* free, is still a log.
LEMMA LogGrows ==
    ASSUME versions \subseteq Version, \A j \in Ids : LogOK(j), NEW k \in Ids, NEW y \in Version,
           versions' = versions \cup {y}, y.db = k, Follows(k, y.number),
           ~\E v \in VersionsOf(k) : v.number = y.number
    PROVE  \A j \in Ids : LogOK(j)'
<1> SUFFICES ASSUME NEW j \in Ids PROVE LogOK(j)'
  OBVIOUS
<1>1. LogOK(j)
  OBVIOUS
<1>2. CASE j # k
  <2>1. VersionsOf(j)' = VersionsOf(j)
    BY <1>2 DEF VersionsOf
  <2> QED BY <1>1, <2>1 DEF LogOK, Follows
<1>3. CASE j = k
  <2>1. VersionsOf(j)' = VersionsOf(j) \cup {y}
    BY <1>3 DEF VersionsOf
  <2>2. \A v \in VersionsOf(j) \cup {y} : v.number \in Nat
    BY DEF VersionsOf, Version
  <2>3. \A v \in VersionsOf(j)' : Follows(j, v.number)'
    BY <1>1, <1>3, <2>1 DEF LogOK, Follows
  <2>4. \A v, w \in VersionsOf(j)' : v.number = w.number => v = w
    BY <1>1, <1>3, <2>1 DEF LogOK
  <2>5. \E v \in VersionsOf(j)' : \A w \in VersionsOf(j)' : w.number <= v.number
    <3>1. CASE VersionsOf(j) = {}
      BY <2>1, <2>2, <3>1
    <3>2. CASE VersionsOf(j) # {}
      <4>1. PICK v \in VersionsOf(j) : \A w \in VersionsOf(j) : w.number <= v.number
        BY <1>1, <3>2 DEF LogOK
      <4>2. CASE y.number <= v.number
        BY <2>1, <4>1, <4>2
      <4>3. CASE v.number <= y.number
        BY <2>1, <2>2, <4>1, <4>3
      <4> QED BY <2>2, <4>2, <4>3
    <3> QED BY <3>1, <3>2
  <2> QED BY <2>3, <2>4, <2>5 DEF LogOK
<1> QED BY <1>2, <1>3

\* The steps of database handlers keep types and invariant.
LEMMA DbSteps ==
    ASSUME TypeOK, WorkInv, NEW q \in Requests, UNCHANGED testVars,
           \/ CreateServiceDB(q) \/ GetServiceDB(q) \/ UpdateServiceDB(q) \/ SoftDeleteServiceDB(q)
           \/ GetServiceDBVersion(q) \/ CreateServiceDBVersionSnapshot(q)
           \/ CreateServiceDBVersion(q) \/ SnapshotFails(q)
    PROVE  TypeOK' /\ WorkInv'
<1> DEFINE m == Mem(q)
           op == proc[q].op
           t == proc[q].todo
           i == m.id
<1> USE ServiceDataAssumption
<1>1. Busy(q) /\ FirstCall(q) \in DbCalls
  BY DEF CreateServiceDB, GetServiceDB, UpdateServiceDB, SoftDeleteServiceDB,
     GetServiceDBVersion, CreateServiceDBVersionSnapshot, CreateServiceDBVersion,
     SnapshotFails, At, Busy, FirstCall, DbCalls
<1>2. DbOK(q)
  BY <1>1, KindOfCall
<1>3. /\ op \in DbOps /\ t \in DbLeft(op) /\ m \in DbMemory /\ i \in Ids
      /\ t # <<>> /\ DbNext(op, Head(t), Tail(t)) /\ Tail(t) \in DbLeft(op) \cup {<<>>}
  BY <1>2, DbTail DEF DbOK, DbMemory, Mem, DbNext
<1>4. dbs \in [Ids -> Db] /\ versions \subseteq Version /\ clean \in BOOLEAN
  BY DEF TypeOK, DataTypeOK, ReqsType
<1>5. \A j \in Ids : LogOK(j)
  BY DEF WorkInv
<1>6. ASSUME GetServiceDB(q) PROVE TypeOK' /\ WorkInv'
  <2>1. /\ FirstCall(q) = "getDB" /\ UNCHANGED dataVars
        /\ \A j \in Ids : LogOK(j)'
    BY <1>6, LogsStay DEF GetServiceDB, At, FirstCall, dataVars
  <2>2. CASE LiveDb(i)
    <3> DEFINE n == MergedDb(m)
    <3>1. Now(q, Tail(t), n) /\ clean' = clean
      BY <1>6, <2>2, FrameSteps DEF GetServiceDB
    <3>2. dbs[i] \in [state : {"live", "deleted"}, name : DbNames, schema : Schemas]
      BY <1>3, <1>4, <2>2 DEF Db, LiveDb, Absent
    <3>3. /\ n \in DbMemory /\ n.id = i /\ n.name \in DbNames /\ n.schema \in Schemas
          /\ n.number = m.number /\ n.want = m.want
      BY <1>3, <3>2 DEF MergedDb, DbMemory
    <3>4. Tail(t) # <<>> /\ Head(Tail(t)) \in {"saveDB", "deleteDB", "getVersion"}
      BY <1>3, <2>1 DEF DbNext, FirstCall
    <3>5. PICK w : w = n
      OBVIOUS
    <3> HIDE DEF n
    <3>6. Now(q, Tail(t), w)
      BY <3>1, <3>5
    <3>7. proc'[q].op = op /\ proc'[q].todo = Tail(t) /\ proc'[q].mem = w
      BY <3>4, <3>6, NowIs
    <3>8. Op(q) # "restoreDBVersion" => w.want = None
      BY <1>2, <3>3, <3>5 DEF DbOK
    <3>9. dbs' = dbs /\ dbs[i].state # "absent"
      BY <2>1, <2>2 DEF dataVars, LiveDb
    <3>10. DbOK(q)'
      BY <1>3, <3>3, <3>4, <3>5, <3>7, <3>8, <3>9 DEF DbOK, Op, Mem, FirstCall
    <3> QED BY <1>1, <1>2, <1>3, <1>4, <2>1, <3>1, <3>3, <3>5, <3>6, <3>10, DbStepKeeps DEF dataVars
  <2>3. CASE ~LiveDb(i)
    <3>1. Now(q, <<>>, NoMem) /\ clean' = clean
      BY <1>6, <2>3, FrameSteps DEF GetServiceDB
    <3> QED BY <1>1, <1>2, <1>3, <1>4, <2>1, <3>1, DbStepKeeps DEF dataVars
  <2> QED BY <2>2, <2>3
<1>7. ASSUME CreateServiceDB(q) PROVE TypeOK' /\ WorkInv'
  <2>1. /\ FirstCall(q) = "insertDB" /\ versions' = versions
        /\ UNCHANGED <<folders, queries, contents, objects, links, held>>
        /\ \A j \in Ids : LogOK(j)'
    BY <1>7, LogsStay DEF CreateServiceDB, At, FirstCall
  <2>2. CASE DbNameTaken(m.id, m.name)
    <3>1. Now(q, <<>>, NoMem) /\ clean' = clean /\ dbs' = dbs
      BY <1>7, <2>2, FrameSteps DEF CreateServiceDB
    <3> QED BY <1>1, <1>2, <1>3, <1>4, <2>1, <3>1, DbStepKeeps
  <2>3. CASE ~DbNameTaken(m.id, m.name)
    <3>1. /\ Now(q, Tail(t), m) /\ clean' = clean
          /\ dbs' = [dbs EXCEPT ![i] = [state |-> "live", name |-> m.name, schema |-> m.schema]]
      BY <1>7, <2>3, FrameSteps DEF CreateServiceDB, Mem
    <3>2. m.name \in DbNames /\ m.schema \in Schemas
      BY <1>2, <2>1 DEF DbOK
    <3>3. /\ dbs' \in [Ids -> Db] /\ dbs'[i].state = "live"
          /\ \A j \in Ids : dbs[j].state # "absent" => dbs'[j].state # "absent"
      BY <1>3, <1>4, <3>1, <3>2 DEF Db
    <3>4. Tail(t) # <<>> /\ Head(Tail(t)) = "latestVersion"
      BY <1>3, <2>1 DEF DbNext, FirstCall
    <3>5. PICK w : w = m
      OBVIOUS
    <3>6. Now(q, Tail(t), w) /\ w \in DbMemory
      BY <1>3, <3>1, <3>5
    <3>7. proc'[q].op = op /\ proc'[q].todo = Tail(t) /\ proc'[q].mem = w
      BY <3>4, <3>6, NowIs
    <3>8. Op(q) # "restoreDBVersion" => w.want = None
      BY <1>2, <3>5 DEF DbOK
    <3>9. w.id = i /\ w.name \in DbNames /\ w.schema \in Schemas
      BY <3>2, <3>5
    <3>10. DbOK(q)'
      BY <1>3, <3>3, <3>4, <3>6, <3>7, <3>8, <3>9 DEF DbOK, Op, Mem, FirstCall
    <3> QED BY <1>1, <1>2, <1>3, <1>4, <2>1, <3>1, <3>3, <3>6, <3>10, DbStepKeeps
  <2> QED BY <2>2, <2>3
<1>8. ASSUME UpdateServiceDB(q) PROVE TypeOK' /\ WorkInv'
  <2> DEFINE schema == IF m.want = None THEN m.schema ELSE m.want
  <2>1. /\ FirstCall(q) = "saveDB" /\ versions' = versions
        /\ UNCHANGED <<folders, queries, contents, objects, links, held>>
        /\ \A j \in Ids : LogOK(j)'
    BY <1>8, LogsStay DEF UpdateServiceDB, At, FirstCall
  <2>2. m.name \in DbNames /\ schema \in Schemas
    BY <1>2, <1>3, <2>1 DEF DbOK, DbMemory
  <2>3. dbs' = dbs \/ (LiveDb(i) /\ dbs' = [dbs EXCEPT ![i].name = m.name, ![i].schema = schema])
    BY <1>8 DEF UpdateServiceDB
  <2>4. /\ dbs' \in [Ids -> Db]
        /\ \A j \in Ids : dbs'[j].state = dbs[j].state
    <3>1. CASE dbs' = dbs
      BY <1>4, <3>1
    <3>2. CASE LiveDb(i) /\ dbs' = [dbs EXCEPT ![i].name = m.name, ![i].schema = schema]
      <4>1. dbs[i] \in [state : {"live", "deleted"}, name : DbNames, schema : Schemas]
        BY <1>3, <1>4, <3>2 DEF Db, LiveDb, Absent
      <4> HIDE DEF schema
      <4> QED BY <1>3, <1>4, <2>2, <3>2, <4>1 DEF Db
    <3> QED BY <2>3, <3>1, <3>2
  <2>5. (Now(q, Tail(t), m) \/ Now(q, <<>>, NoMem)) /\ clean' = clean
    <3>1. Proceeds(q) \/ Ends(q)
      BY <1>8 DEF UpdateServiceDB
    <3> QED BY <3>1, FrameSteps DEF Mem
  <2>6. CASE Now(q, <<>>, NoMem)
    BY <1>1, <1>2, <1>3, <1>4, <2>1, <2>4, <2>5, <2>6, DbStepKeeps
  <2>7. CASE Now(q, Tail(t), m)
    <3>1. PICK w : w = m
      OBVIOUS
    <3>2. Now(q, Tail(t), w) /\ w \in DbMemory
      BY <1>3, <2>7, <3>1
    <3>3. CASE Tail(t) = <<>>
      BY <1>1, <1>2, <1>3, <1>4, <2>1, <2>4, <2>5, <3>2, <3>3, DbStepKeeps
    <3>4. CASE Tail(t) # <<>>
      <4>1. Head(Tail(t)) = "latestVersion"
        BY <1>3, <2>1, <3>4 DEF DbNext, FirstCall
      <4>2. proc'[q].op = op /\ proc'[q].todo = Tail(t) /\ proc'[q].mem = w
        BY <3>2, <3>4, NowIs
      <4>3. Op(q) # "restoreDBVersion" => w.want = None
        BY <1>2, <3>1 DEF DbOK
      <4>4. /\ w.id = i /\ w.name \in DbNames /\ w.schema \in Schemas
            /\ dbs'[i].state # "absent"
        BY <1>2, <1>3, <2>1, <2>4, <3>1 DEF DbOK
      <4>5. DbOK(q)'
        BY <1>3, <3>2, <3>4, <4>1, <4>2, <4>3, <4>4 DEF DbOK, Op, Mem, FirstCall
      <4> QED BY <1>1, <1>2, <1>3, <1>4, <2>1, <2>4, <2>5, <3>2, <4>5, DbStepKeeps
    <3> QED BY <3>3, <3>4
  <2> QED BY <2>5, <2>6, <2>7
<1>9. ASSUME SoftDeleteServiceDB(q) PROVE TypeOK' /\ WorkInv'
  <2>1. /\ FirstCall(q) = "deleteDB" /\ versions' = versions
        /\ UNCHANGED <<folders, queries, contents, objects, links, held>>
        /\ \A j \in Ids : LogOK(j)'
        /\ dbs' = [dbs EXCEPT ![i].state = "deleted"]
    BY <1>9, LogsStay DEF SoftDeleteServiceDB, At, FirstCall
  <2>2. Now(q, Tail(t), m) /\ Tail(t) = <<>> /\ clean' = clean
    BY <1>3, <1>9, <2>1, FrameSteps DEF SoftDeleteServiceDB, Mem, DbNext, FirstCall
  <2>3. dbs[i] \in [state : {"live", "deleted"}, name : DbNames, schema : Schemas]
    BY <1>2, <1>3, <1>4, <2>1 DEF Db, DbOK, Absent
  <2>4. /\ dbs' \in [Ids -> Db]
        /\ \A j \in Ids : dbs[j].state # "absent" => dbs'[j].state # "absent"
    BY <1>3, <1>4, <2>1, <2>3 DEF Db
  <2>5. PICK w : w = m
    OBVIOUS
  <2>6. Now(q, <<>>, w) /\ w \in DbMemory
    BY <1>3, <2>2, <2>5
  <2> QED BY <1>1, <1>2, <1>4, <2>1, <2>2, <2>4, <2>6, DbStepKeeps
<1>10. ASSUME GetServiceDBVersion(q) PROVE TypeOK' /\ WorkInv'
  <2>1. /\ FirstCall(q) = "getVersion" /\ UNCHANGED dataVars
        /\ \A j \in Ids : LogOK(j)'
    BY <1>10, LogsStay DEF GetServiceDBVersion, At, FirstCall, dataVars
  <2>2. CASE Ends(q)
    <3>1. Now(q, <<>>, NoMem) /\ clean' = clean
      BY <2>2, FrameSteps
    <3> QED BY <1>1, <1>2, <1>3, <1>4, <2>1, <3>1, DbStepKeeps DEF dataVars
  <2>3. ASSUME NEW v \in VersionsOf(i), Keeps(q, [m EXCEPT !.want = v.schema])
        PROVE  TypeOK' /\ WorkInv'
    <3>1. PICK w : w = [m EXCEPT !.want = v.schema]
      OBVIOUS
    <3>2. v.schema \in Schemas
      BY <1>4 DEF VersionsOf, Version
    <3>3. /\ w \in DbMemory /\ w.id = i /\ w.name = m.name /\ w.schema = m.schema
          /\ w.number = m.number
      BY <1>3, <3>1, <3>2 DEF DbMemory
    <3>4. Now(q, Tail(t), w) /\ clean' = clean
      BY <2>3, <3>1, FrameSteps
    <3>5. Tail(t) # <<>> /\ Head(Tail(t)) = "latestVersion" /\ op = "restoreDBVersion"
      BY <1>3, <2>1 DEF DbNext, FirstCall
    <3>6. proc'[q].op = op /\ proc'[q].todo = Tail(t) /\ proc'[q].mem = w
      <4>1. Tail(t) # <<>> /\ Now(q, Tail(t), w)
        BY <3>4, <3>5
      <4> QED BY ONLY <4>1, TypeOK, q \in Requests, NowIs
    <3>7. /\ w.name \in DbNames /\ w.schema \in Schemas /\ dbs'[i].state # "absent"
      BY <1>2, <2>1, <3>3 DEF DbOK, dataVars
    <3>8. DbOK(q)'
      BY <1>3, <3>3, <3>5, <3>6, <3>7 DEF DbOK, Op, Mem, FirstCall
    <3> QED BY <1>1, <1>2, <1>3, <1>4, <2>1, <3>3, <3>4, <3>8, DbStepKeeps DEF dataVars
  <2> QED BY <1>10, <2>2, <2>3 DEF GetServiceDBVersion
<1>11. ASSUME CreateServiceDBVersionSnapshot(q) PROVE TypeOK' /\ WorkInv'
  <2>1. /\ FirstCall(q) = "latestVersion" /\ UNCHANGED dataVars
        /\ \A j \in Ids : LogOK(j)'
    BY <1>11, LogsStay DEF CreateServiceDBVersionSnapshot, At, FirstCall, dataVars
  <2>2. PICK n : n = LatestServiceDBVersionNumber(i) + 1
    OBVIOUS
  <2>3. n \in Nat \ {0} /\ Follows(i, n)
    <3>1. /\ LatestServiceDBVersionNumber(i) \in Nat
          /\ VersionsOf(i) = {} => LatestServiceDBVersionNumber(i) = 0
          /\ VersionsOf(i) # {} => \E v \in VersionsOf(i) : v.number = LatestServiceDBVersionNumber(i)
      BY <1>3, <1>5, LatestNumber
    <3> QED BY <2>2, <3>1 DEF Follows
  <2>4. PICK w : w = [m EXCEPT !.number = n]
    OBVIOUS
  <2>5. /\ w \in DbMemory /\ w.id = i /\ w.name = m.name /\ w.schema = m.schema
        /\ w.number = n /\ w.want = m.want
    BY <1>3, <2>3, <2>4 DEF DbMemory
  <2>6. Now(q, Tail(t), w) /\ clean' = clean
    BY <1>11, <2>2, <2>4, FrameSteps DEF CreateServiceDBVersionSnapshot
  <2>7. Tail(t) # <<>> /\ Head(Tail(t)) = "insertVersion"
    BY <1>3, <2>1 DEF DbNext, FirstCall
  <2>8. proc'[q].op = op /\ proc'[q].todo = Tail(t) /\ proc'[q].mem = w
    BY ONLY <2>6, <2>7, TypeOK, q \in Requests, NowIs
  <2>9. /\ w.name \in DbNames /\ w.schema \in Schemas /\ dbs'[i].state # "absent"
        /\ Op(q) # "restoreDBVersion" => w.want = None
    BY <1>2, <2>1, <2>5 DEF DbOK, dataVars
  <2>10. Follows(w.id, w.number)'
    BY <2>1, <2>3, <2>5 DEF Follows, VersionsOf, dataVars
  <2>11. DbOK(q)'
    BY <1>3, <2>5, <2>7, <2>8, <2>9, <2>10 DEF DbOK, Op, Mem, FirstCall
  <2> QED BY <1>1, <1>2, <1>3, <1>4, <2>1, <2>5, <2>6, <2>11, DbStepKeeps DEF dataVars
<1>12. ASSUME Now(q, Tail(t), m), FirstCall(q) = "insertVersion", dbs' = dbs,
              clean' \in BOOLEAN, versions' \subseteq Version, versions \subseteq versions',
              UNCHANGED <<folders, queries, contents, objects, links, held>>,
              \A j \in Ids : LogOK(j)'
       PROVE  TypeOK' /\ WorkInv'
  <2>1. PICK w : w = m
    OBVIOUS
  <2>2. Now(q, Tail(t), w) /\ w \in DbMemory
    BY <1>3, <1>12, <2>1
  <2>3. CASE Tail(t) = <<>>
    BY <1>1, <1>2, <1>3, <1>4, <1>12, <2>2, <2>3, DbStepKeeps
  <2>4. CASE Tail(t) # <<>>
    <3>1. Head(Tail(t)) = "saveDB" /\ op = "restoreDBVersion"
      BY <1>3, <1>12, <2>4 DEF DbNext, FirstCall
    <3>2. proc'[q].op = op /\ proc'[q].todo = Tail(t) /\ proc'[q].mem = w
      BY ONLY <2>2, <2>4, TypeOK, q \in Requests, NowIs
    <3>3. w.name \in DbNames /\ w.schema \in Schemas /\ dbs'[i].state # "absent" /\ w.id = i
      BY <1>2, <1>12, <2>1 DEF DbOK
    <3>4. DbOK(q)'
      BY <1>3, <2>2, <2>4, <3>1, <3>2, <3>3 DEF DbOK, Op, Mem, FirstCall
    <3> QED BY <1>1, <1>2, <1>3, <1>4, <1>12, <2>2, <3>4, DbStepKeeps
  <2> QED BY <2>3, <2>4
<1>13. ASSUME SnapshotFails(q) PROVE TypeOK' /\ WorkInv'
  <2>1. /\ FirstCall(q) = "insertVersion" /\ UNCHANGED dataVars
        /\ \A j \in Ids : LogOK(j)'
    BY <1>13, LogsStay DEF SnapshotFails, At, FirstCall, dataVars
  <2>2. Now(q, Tail(t), m) /\ clean' = FALSE
    BY <1>1, <1>13, FrameSteps DEF SnapshotFails, Mem
  <2> QED BY <1>4, <1>12, <2>1, <2>2 DEF dataVars
<1>14. ASSUME CreateServiceDBVersion(q) PROVE TypeOK' /\ WorkInv'
  <2> DEFINE x == [db |-> i, number |-> m.number, schema |-> m.schema]
  <2>1. /\ FirstCall(q) = "insertVersion" /\ dbs' = dbs
        /\ UNCHANGED <<folders, queries, contents, objects, links, held>>
    BY <1>14 DEF CreateServiceDBVersion, At, FirstCall
  <2>2. Now(q, Tail(t), m) /\ clean' = clean
    BY <1>14, FrameSteps DEF CreateServiceDBVersion, Mem
  <2>3. /\ x \in Version /\ x.db = i /\ x.number = m.number /\ Follows(i, m.number)
        /\ m.number \in Nat
    BY <1>2, <1>3, <2>1 DEF DbOK, DbMemory, Version, FirstCall
  <2>4. CASE \E v \in VersionsOf(i) : v.number = m.number
    <3>1. versions' = versions
      BY <1>14, <2>4 DEF CreateServiceDBVersion
    <3> QED BY <1>4, <1>12, <2>1, <2>2, <3>1, LogsStay
  <2>5. CASE ~\E v \in VersionsOf(i) : v.number = m.number
    <3>1. versions' = versions \cup {x}
      BY <1>14, <2>5 DEF CreateServiceDBVersion
    <3>2. PICK y : y = x
      OBVIOUS
    <3>3. versions' = versions \cup {y} /\ y \in Version /\ y.db = i /\ Follows(i, y.number)
      BY <2>3, <3>1, <3>2
    <3>4. ~\E v \in VersionsOf(i) : v.number = y.number
      BY <2>3, <2>5, <3>2
    <3>5. \A j \in Ids : LogOK(j)'
      BY <1>3, <1>4, <1>5, <3>3, <3>4, LogGrows
    <3> QED BY <1>4, <1>12, <2>1, <2>2, <3>3, <3>5
  <2> QED BY <2>4, <2>5
<1> QED BY <1>6, <1>7, <1>8, <1>9, <1>10, <1>11, <1>13, <1>14

-----------------------------------------------------------------------------
(* Saved queries.                                                           *)

\* A call of a handler of saved queries, done by q, that changes only folders
\* and queries.
LEMMA QueryStepKeeps ==
    ASSUME TypeOK, WorkInv, NEW q \in Requests, Busy(q), QueryOK(q), Proceeds(q) \/ Ends(q),
           UNCHANGED <<dbs, versions, contents, objects, links, held, testVars>>,
           folders' \in [Ids -> States], queries' \in [Ids -> Query],
           \A i \in Ids : queries[i].state # "absent" => queries'[i].state # "absent",
           OneQueryPerRef'
    PROVE  TypeOK' /\ WorkInv'
<1>1. /\ proc[q].op \in QueryOps /\ proc[q].todo \in QueryLeft(proc[q].op)
      /\ proc[q].mem \in QueryMemory /\ proc[q].mem.id \in Ids
  BY DEF QueryOK, QueryMemory
<1>2. PICK u, m : /\ Now(q, u, m) /\ u \in QueryLeft(proc[q].op) \cup {<<>>}
                  /\ u # <<>> => m = proc[q].mem
                  /\ m \in QueryMemory \cup {NoMem}
                  /\ clean' = clean
  <2>1. Tail(proc[q].todo) \in QueryLeft(proc[q].op) \cup {<<>>}
    BY <1>1, QueryTail DEF QueryNext
  <2>2. CASE Proceeds(q)
    BY <1>1, <2>1, <2>2, FrameSteps
  <2>3. CASE Ends(q)
    BY <2>3, FrameSteps
  <2> QED BY <2>2, <2>3
<1>3. <<>> \in Seq(Calls)
  OBVIOUS
<1>4. u \in Seq(Calls) /\ (u # <<>> => Head(u) \in QueryCalls)
  BY <1>1, <1>2, <1>3, QueryTail DEF Calls
<1>5. m \in Memory \cup {NoMem}
  BY <1>2 DEF Memory, DataMemory
<1>6. Grows
  BY DEF Grows, testVars
<1>7. /\ proc'[q].op = proc[q].op /\ proc'[q].todo = u
      /\ u # <<>> => proc'[q].mem = proc[q].mem
      /\ \A p \in Requests \ {q} : proc'[p] = proc[p]
  BY <1>2, NowIs
<1>8. u # <<>> => QueryOK(q)'
  BY <1>1, <1>2, <1>7 DEF QueryOK, Op, Mem
<1>9. clean' \in BOOLEAN
  BY <1>2 DEF TypeOK, ReqsType
<1>10. /\ ReqsType(Ops, Calls, Memory)'
       /\ \A p \in Requests : RequestOK(p)'
  BY <1>2, <1>4, <1>5, <1>6, <1>8, <1>9, RequestsOK DEF RequestOK
<1>11. ~Counts(q) /\ ~Counts(q)'
  BY <1>1, <1>4, <1>7, QueryTail DEF Counts, At, QueryCalls
<1>12. HeldByStats'
  BY <1>7, <1>11, HeldKept DEF WorkInv
<1>13. DataTypeOK' /\ TestsTypeOK'
  BY DEF TypeOK, DataTypeOK, TestsTypeOK, testVars
<1>14. (\A i \in Ids : LogOK(i)') /\ ResultsOK' /\ LinkedIsStored'
  BY LogsStay DEF WorkInv, ResultsOK, LinkedIsStored, testVars
<1> QED BY <1>10, <1>12, <1>13, <1>14 DEF TypeOK, WorkInv, Ops, Calls, Memory

\* The steps of handlers of saved queries keep types and invariant.
LEMMA QuerySteps ==
    ASSUME TypeOK, WorkInv, NEW q \in Requests, UNCHANGED testVars,
           \/ EnsureDBInService(q) \/ CreateSavedQueryFolder(q) \/ GetSavedQueryFolder(q)
           \/ ClearFolder(q) \/ SoftDeleteSavedQueryFolder(q) \/ CreateSavedQuery(q)
           \/ GetSavedQuery(q) \/ UpdateSavedQuery(q) \/ SoftDeleteSavedQuery(q)
           \/ UpsertSavedQueryBySourceRef(q)
    PROVE  TypeOK' /\ WorkInv'
<1> DEFINE m == Mem(q)
           i == m.id
<1> USE ServiceDataAssumption
<1>1. Busy(q) /\ FirstCall(q) \in QueryCalls /\ (Proceeds(q) \/ Ends(q))
      /\ UNCHANGED <<dbs, versions, contents, objects, links, held>>
  BY DEF EnsureDBInService, CreateSavedQueryFolder, GetSavedQueryFolder, ClearFolder,
     SoftDeleteSavedQueryFolder, CreateSavedQuery, GetSavedQuery, UpdateSavedQuery,
     SoftDeleteSavedQuery, UpsertSavedQueryBySourceRef, At, Busy, FirstCall, QueryCalls, dataVars
<1>2. QueryOK(q)
  BY <1>1, KindOfCall
<1>3. /\ proc[q].op \in QueryOps /\ m \in QueryMemory /\ i \in Ids /\ q \in Ids
      /\ m.folder \in Ids \cup {None} /\ m.ref \in Refs \cup {None}
      /\ QueryNext(proc[q].op, FirstCall(q), Tail(proc[q].todo))
  BY <1>2, QueryTail DEF QueryOK, QueryMemory, Mem, FirstCall, Ids
<1>4. /\ folders \in [Ids -> States] /\ queries \in [Ids -> Query] /\ OneQueryPerRef
  BY DEF TypeOK, DataTypeOK, WorkInv
<1> SUFFICES /\ folders' \in [Ids -> States] /\ queries' \in [Ids -> Query]
             /\ \A j \in Ids : queries[j].state # "absent" => queries'[j].state # "absent"
             /\ OneQueryPerRef'
  BY <1>1, <1>2, QueryStepKeeps
<1>5. CASE EnsureDBInService(q) \/ GetSavedQueryFolder(q) \/ GetSavedQuery(q)
  BY <1>4, <1>5 DEF EnsureDBInService, GetSavedQueryFolder, GetSavedQuery, dataVars, OneQueryPerRef
<1>6. CASE CreateSavedQueryFolder(q)
  BY <1>4, <1>6 DEF CreateSavedQueryFolder, States, OneQueryPerRef
<1>7. CASE SoftDeleteSavedQueryFolder(q)
  BY <1>4, <1>7 DEF SoftDeleteSavedQueryFolder, States, OneQueryPerRef
<1>8. CASE ClearFolder(q)
  <2>1. /\ folders' = folders
        /\ queries' = [j \in Ids |-> IF queries[j].state = "live" /\ queries[j].folder = i
                                     THEN [queries[j] EXCEPT !.folder = None] ELSE queries[j]]
    BY <1>8 DEF ClearFolder
  <2>2. \A j \in Ids : /\ queries'[j] \in Query /\ queries'[j].state = queries[j].state
                       /\ queries'[j].ref = queries[j].ref
    <3> SUFFICES ASSUME NEW j \in Ids
                 PROVE  /\ queries'[j] \in Query /\ queries'[j].state = queries[j].state
                        /\ queries'[j].ref = queries[j].ref
      OBVIOUS
    <3>1. CASE queries[j].state = "live"
      <4>1. queries[j] \in [state : {"live", "deleted"}, folder : Ids \cup {None}, ref : Refs \cup {None}]
        BY <1>4, <3>1 DEF Query, NoQuery
      <4> QED BY <2>1, <4>1 DEF Query
    <3>2. CASE queries[j].state # "live"
      BY <1>4, <2>1, <3>2
    <3> QED BY <3>1, <3>2
  <2>3. OneQueryPerRef'
    BY <1>4, <2>2 DEF OneQueryPerRef
  <2>4. queries' \in [Ids -> Query]
    BY <2>1, <2>2
  <2> QED BY <1>4, <2>1, <2>2, <2>3, <2>4
<1>9. CASE CreateSavedQuery(q)
  <2>1. folders' = folders /\ queries' = [queries EXCEPT ![q] = NewQuery(m)]
        /\ FirstCall(q) = "insertQuery"
    BY <1>9 DEF CreateSavedQuery, At, FirstCall
  <2>2. m.ref = None
    BY <1>2, <1>3, <2>1 DEF QueryOK, QueryNext, Op
  <2>3. NewQuery(m) \in Query /\ NewQuery(m).ref = None /\ NewQuery(m).state = "live"
    BY <1>3, <2>2 DEF NewQuery, Query
  <2>4. queries' \in [Ids -> Query] /\ queries'[q].ref = None /\ queries'[q].state = "live"
        /\ \A j \in Ids \ {q} : queries'[j] = queries[j]
    BY <1>3, <1>4, <2>1, <2>3
  <2> QED BY <1>4, <2>1, <2>4 DEF OneQueryPerRef
<1>10. CASE UpdateSavedQuery(q)
  <2>1. /\ folders' = folders /\ FirstCall(q) = "saveQuery"
        /\ queries' = [queries EXCEPT ![i].folder =
                          IF queries[i].state = "live" THEN m.folder ELSE @]
    BY <1>10 DEF UpdateSavedQuery, At, FirstCall
  <2>2. queries[i] \in [state : {"live", "deleted"}, folder : Ids \cup {None}, ref : Refs \cup {None}]
    BY <1>2, <1>3, <1>4, <2>1 DEF QueryOK, QueryNext, Query, NoQuery, Op
  <2>3. /\ queries'[i] \in Query /\ queries'[i].ref = queries[i].ref
        /\ queries'[i].state = queries[i].state
        /\ \A j \in Ids \ {i} : queries'[j] = queries[j]
        /\ queries' \in [Ids -> Query]
    BY <1>3, <1>4, <2>1, <2>2 DEF Query
  <2> QED BY <1>4, <2>1, <2>3 DEF OneQueryPerRef
<1>11. CASE SoftDeleteSavedQuery(q)
  <2>1. /\ folders' = folders /\ FirstCall(q) = "deleteQuery"
        /\ queries' = [queries EXCEPT ![i].state = "deleted"]
    BY <1>11 DEF SoftDeleteSavedQuery, At, FirstCall
  <2>2. queries[i] \in [state : {"live", "deleted"}, folder : Ids \cup {None}, ref : Refs \cup {None}]
    BY <1>2, <1>3, <1>4, <2>1 DEF QueryOK, QueryNext, Query, NoQuery, Op
  <2>3. /\ queries'[i] \in Query /\ queries'[i].state = "deleted"
        /\ \A j \in Ids \ {i} : queries'[j] = queries[j]
        /\ queries' \in [Ids -> Query]
    BY <1>3, <1>4, <2>1, <2>2 DEF Query
  <2> QED BY <1>4, <2>1, <2>3 DEF OneQueryPerRef
<1>12. CASE UpsertSavedQueryBySourceRef(q)
  <2>1. folders' = folders /\ FirstCall(q) = "upsertQuery"
    BY <1>12 DEF UpsertSavedQueryBySourceRef, At, FirstCall
  <2>2. CASE Synced(m.ref) = {}
    <3>1. queries' = [queries EXCEPT ![q] = NewQuery(m)]
      BY <1>12, <2>2 DEF UpsertSavedQueryBySourceRef
    <3>2. NewQuery(m) \in Query /\ NewQuery(m).ref = m.ref /\ NewQuery(m).state = "live"
      BY <1>3 DEF NewQuery, Query
    <3>3. queries' \in [Ids -> Query] /\ queries'[q].ref = m.ref /\ queries'[q].state = "live"
          /\ \A j \in Ids \ {q} : queries'[j] = queries[j]
      BY <1>3, <1>4, <3>1, <3>2
    <3>4. \A j \in Ids : ~(queries[j].state = "live" /\ queries[j].ref = m.ref)
      BY <2>2 DEF Synced
    <3> QED BY <1>4, <2>1, <3>3, <3>4 DEF OneQueryPerRef
  <2>3. CASE Synced(m.ref) # {}
    <3>1. queries' = [j \in Ids |-> IF j \in Synced(m.ref)
                                    THEN [queries[j] EXCEPT !.folder = m.folder] ELSE queries[j]]
      BY <1>12, <2>3 DEF UpsertSavedQueryBySourceRef
    <3>2. \A j \in Ids : /\ queries'[j] \in Query /\ queries'[j].state = queries[j].state
                         /\ queries'[j].ref = queries[j].ref
      <4> SUFFICES ASSUME NEW j \in Ids
                   PROVE  /\ queries'[j] \in Query /\ queries'[j].state = queries[j].state
                          /\ queries'[j].ref = queries[j].ref
        OBVIOUS
      <4>1. CASE j \in Synced(m.ref)
        <5>1. queries[j] \in [state : {"live", "deleted"}, folder : Ids \cup {None}, ref : Refs \cup {None}]
          BY <1>4, <4>1 DEF Query, NoQuery, Synced
        <5> QED BY <1>3, <3>1, <4>1, <5>1 DEF Query
      <4>2. CASE j \notin Synced(m.ref)
        BY <1>4, <3>1, <4>2
      <4> QED BY <4>1, <4>2
    <3>3. queries' \in [Ids -> Query]
      BY <3>1, <3>2
    <3> QED BY <1>4, <2>1, <3>2, <3>3 DEF OneQueryPerRef
  <2> QED BY <2>2, <2>3
<1> QED BY <1>5, <1>6, <1>7, <1>8, <1>9, <1>10, <1>11, <1>12

-----------------------------------------------------------------------------
(* Documents, diagrams and statistics.                                      *)

\* A request takes a connection when it starts to count and gives it back when
\* it no longer does.
LEMMA HeldMoves ==
    ASSUME TypeOK, HeldByStats, NEW q \in Requests,
           \A p \in Requests \ {q} : proc'[p] = proc[p],
           held' = IF Counts(q)' THEN held \cup {q} ELSE held \ {q}
    PROVE  HeldByStats' /\ held' \subseteq Requests
<1>1. \A p \in Requests \ {q} : Counts(p)' <=> Counts(p)
  BY DEF Counts, At
<1>2. held = {p \in Requests : Counts(p)}
  BY DEF HeldByStats, Counts
<1>3. held' = {p \in Requests : Counts(p)'}
  <2>1. CASE Counts(q)'
    BY <1>1, <1>2, <2>1
  <2>2. CASE ~Counts(q)'
    BY <1>1, <1>2, <2>2
  <2> QED BY <2>1, <2>2
<1> QED BY <1>3 DEF HeldByStats, Counts

\* A call of one of these handlers, done by q, that changes only files, rows,
\* links and connections.
LEMMA LinkStepKeeps ==
    ASSUME TypeOK, WorkInv, NEW q \in Requests, Busy(q), LinkOK(q), Proceeds(q) \/ Ends(q),
           UNCHANGED <<dbs, versions, folders, queries, testVars>>,
           contents' \in [Kinds -> [Ids -> States]], objects' \subseteq Kinds \X Ids,
           links' \in [Kinds -> [Ids -> States]], objects \subseteq objects',
           \A k \in Kinds, i \in Ids : contents[k][i] # "absent" => contents'[k][i] # "absent",
           FirstCall(q) = "upload" => <<proc[q].mem.kind, proc[q].mem.id>> \in objects',
           FirstCall(q) \in {"insertContent", "getContent"} /\ Proceeds(q) =>
               contents'[proc[q].mem.kind][proc[q].mem.id] # "absent",
           LinkedIsStored',
           \/ held' = held /\ FirstCall(q) \notin {"listServices", "closeRows"}
           \/ held' = held \cup {q} /\ FirstCall(q) = "listServices" /\ Proceeds(q)
           \/ held' = held \ {q} /\ FirstCall(q) = "closeRows",
           FirstCall(q) = "countRows" => Proceeds(q)
    PROVE  TypeOK' /\ WorkInv'
<1> DEFINE t == proc[q].todo
<1>1. /\ proc[q].op \in LinkOps /\ t \in LinkLeft(proc[q].op)
      /\ proc[q].mem \in LinkMemory /\ proc[q].mem.id \in Ids
  BY DEF LinkOK, LinkMemory
<1>2. t # <<>> /\ FirstCall(q) \in LinkCalls /\ LinkNext(proc[q].op, FirstCall(q), Tail(t))
  BY <1>1, LinkTail DEF FirstCall
<1>3. PICK u, m : /\ Now(q, u, m) /\ u \in LinkLeft(proc[q].op) \cup {<<>>}
                  /\ u # <<>> => m = proc[q].mem /\ u = Tail(t) /\ Proceeds(q)
                  /\ Proceeds(q) => u = Tail(t)
                  /\ m \in LinkMemory \cup {NoMem}
                  /\ clean' = clean
  <2>1. Tail(t) \in LinkLeft(proc[q].op) \cup {<<>>}
    BY <1>2 DEF LinkNext
  <2>2. CASE Proceeds(q)
    BY <1>1, <2>1, <2>2, FrameSteps
  <2>3. CASE ~Proceeds(q)
    BY <2>3, FrameSteps
  <2> QED BY <2>2, <2>3
<1>4. <<>> \in Seq(Calls)
  OBVIOUS
<1>5. u \in Seq(Calls)
  BY <1>1, <1>3, <1>4, LinkTail DEF Calls
<1>6. m \in Memory \cup {NoMem}
  BY <1>3 DEF Memory, DataMemory
<1>7. Grows
  BY DEF Grows, testVars
<1>8. /\ proc'[q].op = proc[q].op /\ proc'[q].todo = u
      /\ u # <<>> => proc'[q].mem = proc[q].mem
      /\ \A p \in Requests \ {q} : proc'[p] = proc[p]
  BY <1>3, NowIs
<1>9. /\ u # <<>> /\ Head(u) = "insertContent" => FirstCall(q) = "upload"
      /\ u # <<>> /\ Head(u) = "link" => FirstCall(q) \in {"insertContent", "getContent"}
      /\ u # <<>> /\ Head(u) = "countRows" => FirstCall(q) = "listServices"
      /\ u # <<>> /\ Head(u) = "closeRows" => FirstCall(q) = "countRows"
      /\ FirstCall(q) \in {"listServices", "countRows"} => u # <<>> /\ Head(u) \in {"countRows", "closeRows"}
  BY <1>2, <1>3 DEF LinkNext, LinkCalls
<1>10. u # <<>> => LinkOK(q)'
  BY <1>1, <1>3, <1>8, <1>9 DEF LinkOK, Op, Mem, FirstCall
<1>11. clean' \in BOOLEAN
  BY <1>3 DEF TypeOK, ReqsType
<1>12. /\ ReqsType(Ops, Calls, Memory)'
       /\ \A p \in Requests : RequestOK(p)'
  BY <1>3, <1>5, <1>6, <1>7, <1>10, <1>11, RequestsOK DEF RequestOK
<1>13. /\ Counts(q) <=> FirstCall(q) \in {"countRows", "closeRows"}
       /\ Counts(q)' <=> FirstCall(q) \in {"listServices", "countRows"}
  BY <1>2, <1>8, <1>9 DEF Counts, At, FirstCall
<1>14. q \in held <=> Counts(q)
  BY DEF WorkInv, HeldByStats, Counts
<1>15. held' = IF Counts(q)' THEN held \cup {q} ELSE held \ {q}
  BY <1>13, <1>14
<1>16. HeldByStats' /\ held' \subseteq Requests
  BY <1>8, <1>15, HeldMoves DEF WorkInv
<1>17. DataTypeOK' /\ TestsTypeOK'
  BY <1>16 DEF TypeOK, DataTypeOK, TestsTypeOK, testVars
<1>18. (\A i \in Ids : LogOK(i)') /\ ResultsOK' /\ OneQueryPerRef'
  BY LogsStay DEF WorkInv, ResultsOK, OneQueryPerRef, testVars
<1> QED BY <1>12, <1>16, <1>17, <1>18 DEF TypeOK, WorkInv, Ops, Calls, Memory

\* The steps of these handlers keep types and invariant.
LEMMA LinkSteps ==
    ASSUME TypeOK, WorkInv, NEW q \in Requests, UNCHANGED testVars,
           \/ UploadContent(q) \/ InsertContent(q) \/ GetContent(q)
           \/ CreateServiceLink(q) \/ GetServiceLink(q) \/ SoftDeleteServiceLink(q)
           \/ ListServiceStats(q) \/ ServiceStatsForID(q) \/ CloseRows(q)
    PROVE  TypeOK' /\ WorkInv'
<1>1. Busy(q) /\ FirstCall(q) \in LinkCalls /\ (Proceeds(q) \/ Ends(q))
      /\ UNCHANGED <<dbs, versions, folders, queries>>
  BY DEF UploadContent, InsertContent, GetContent, CreateServiceLink, GetServiceLink,
     SoftDeleteServiceLink, ListServiceStats, ServiceStatsForID, CloseRows,
     At, Busy, FirstCall, LinkCalls, dataVars
<1>2. LinkOK(q)
  BY <1>1, KindOfCall
<1>3. PICK k \in Kinds, i \in Ids : k = proc[q].mem.kind /\ i = proc[q].mem.id
  BY <1>2 DEF LinkOK, LinkMemory
<1>4. /\ contents \in [Kinds -> [Ids -> States]] /\ objects \subseteq Kinds \X Ids
      /\ links \in [Kinds -> [Ids -> States]] /\ LinkedIsStored
  BY DEF TypeOK, DataTypeOK, WorkInv
<1>5. CASE UNCHANGED <<contents, objects, links>> /\ FirstCall(q) \notin {"upload", "insertContent"}
  <2>1. LinkedIsStored'
    BY <1>4, <1>5 DEF LinkedIsStored
  <2>2. FirstCall(q) = "getContent" /\ Proceeds(q) => contents'[k][i] # "absent"
    <3>1. FirstCall(q) = "getContent" => GetContent(q)
      BY DEF UploadContent, InsertContent, GetContent, CreateServiceLink, GetServiceLink,
         SoftDeleteServiceLink, ListServiceStats, ServiceStatsForID, CloseRows, At, FirstCall
    <3>2. LinkNext(proc[q].op, FirstCall(q), Tail(proc[q].todo))
      BY <1>2, LinkTail DEF LinkOK, FirstCall
    <3>3. FirstCall(q) = "getContent" /\ Proceeds(q) => ~Ends(q)
      <4>1. ASSUME FirstCall(q) = "getContent", Proceeds(q), Ends(q) PROVE FALSE
        <5>1. Now(q, Tail(proc[q].todo), proc[q].mem) /\ Now(q, <<>>, NoMem)
          BY <4>1, FrameSteps
        <5>2. proc'[q].todo = Tail(proc[q].todo) /\ proc'[q].todo = <<>>
          BY <5>1, NowIs
        <5> QED BY <3>2, <4>1, <5>2 DEF LinkNext
      <4> QED BY <4>1
    <3> QED BY <1>3, <1>5, <3>1, <3>3 DEF GetContent, Mem
  <2>3. /\ \/ held' = held /\ FirstCall(q) \notin {"listServices", "closeRows"}
           \/ held' = held \cup {q} /\ FirstCall(q) = "listServices" /\ Proceeds(q)
           \/ held' = held \ {q} /\ FirstCall(q) = "closeRows"
        /\ FirstCall(q) = "countRows" => Proceeds(q)
    BY DEF UploadContent, InsertContent, GetContent, CreateServiceLink, GetServiceLink,
         SoftDeleteServiceLink, ListServiceStats, ServiceStatsForID, CloseRows, At, FirstCall,
         dataVars
  <2> QED BY <1>1, <1>2, <1>3, <1>4, <1>5, <2>1, <2>2, <2>3, LinkStepKeeps
<1>6. CASE UploadContent(q)
  <2>1. /\ FirstCall(q) = "upload" /\ UNCHANGED <<contents, links, held>>
        /\ objects' = objects \cup {<<k, i>>}
    BY <1>3, <1>6 DEF UploadContent, At, FirstCall, Mem
  <2>2. LinkedIsStored'
    BY <1>4, <2>1 DEF LinkedIsStored
  <2>3. objects' \subseteq Kinds \X Ids /\ <<proc[q].mem.kind, proc[q].mem.id>> \in objects'
        /\ objects \subseteq objects'
    BY <1>3, <1>4, <2>1
  <2>4. \A l \in Kinds, j \in Ids : contents[l][j] # "absent" => contents'[l][j] # "absent"
    BY <2>1
  <2> QED BY <1>1, <1>2, <1>4, <2>1, <2>2, <2>3, <2>4, LinkStepKeeps
<1>7. CASE InsertContent(q)
  <2>1. /\ FirstCall(q) = "insertContent" /\ UNCHANGED <<objects, links, held>>
        /\ contents' = [contents EXCEPT ![k][i] = "live"]
    BY <1>3, <1>7 DEF InsertContent, At, FirstCall, Mem
  <2>2. <<k, i>> \in objects
    BY <1>2, <1>3, <2>1 DEF LinkOK, Mem
  <2>3. /\ contents' \in [Kinds -> [Ids -> States]] /\ contents'[k][i] = "live"
        /\ \A l \in Kinds, j \in Ids : l # k \/ j # i => contents'[l][j] = contents[l][j]
    BY <1>3, <1>4, <2>1 DEF States
  <2>4. LinkedIsStored'
    <3> SUFFICES ASSUME NEW l \in Kinds, NEW j \in Ids
                 PROVE  /\ links'[l][j] = "live" => contents'[l][j] # "absent"
                        /\ contents'[l][j] # "absent" => <<l, j>> \in objects'
      BY DEF LinkedIsStored
    <3>1. /\ links[l][j] = "live" => contents[l][j] # "absent"
          /\ contents[l][j] # "absent" => <<l, j>> \in objects
      BY <1>4 DEF LinkedIsStored
    <3>2. CASE l = k /\ j = i
      BY <1>3, <1>4, <2>1, <2>2, <2>3, <3>1, <3>2
    <3>3. CASE l # k \/ j # i
      BY <1>3, <1>4, <2>1, <2>2, <2>3, <3>1, <3>3
    <3> QED BY <3>2, <3>3
  <2>5. \A l \in Kinds, j \in Ids : contents[l][j] # "absent" => contents'[l][j] # "absent"
    BY <1>3, <2>3
  <2> QED BY <1>1, <1>2, <1>3, <1>4, <2>1, <2>3, <2>4, <2>5, LinkStepKeeps
<1>8. CASE CreateServiceLink(q)
  <2>1. /\ FirstCall(q) = "link" /\ UNCHANGED <<objects, contents, held>>
        /\ links' = [links EXCEPT ![k][i] = "live"]
    BY <1>3, <1>8 DEF CreateServiceLink, At, FirstCall, Mem
  <2>2. contents[k][i] # "absent"
    BY <1>2, <1>3, <2>1 DEF LinkOK, Mem
  <2>3. /\ links' \in [Kinds -> [Ids -> States]]
        /\ \A l \in Kinds, j \in Ids : l # k \/ j # i => links'[l][j] = links[l][j]
    BY <1>3, <1>4, <2>1 DEF States
  <2>4. LinkedIsStored'
    <3> SUFFICES ASSUME NEW l \in Kinds, NEW j \in Ids
                 PROVE  /\ links'[l][j] = "live" => contents'[l][j] # "absent"
                        /\ contents'[l][j] # "absent" => <<l, j>> \in objects'
      BY DEF LinkedIsStored
    <3>1. /\ links[l][j] = "live" => contents[l][j] # "absent"
          /\ contents[l][j] # "absent" => <<l, j>> \in objects
      BY <1>4 DEF LinkedIsStored
    <3>2. CASE l = k /\ j = i
      BY <1>3, <1>4, <2>1, <2>2, <2>3, <3>1, <3>2
    <3>3. CASE l # k \/ j # i
      BY <1>3, <1>4, <2>1, <2>2, <2>3, <3>1, <3>3
    <3> QED BY <3>2, <3>3
  <2> QED BY <1>1, <1>2, <1>3, <1>4, <2>1, <2>3, <2>4, LinkStepKeeps
<1>9. CASE SoftDeleteServiceLink(q)
  <2>1. /\ FirstCall(q) = "unlink" /\ UNCHANGED <<objects, contents, held>>
        /\ links' = [links EXCEPT ![k][i] = IF @ = "live" THEN "deleted" ELSE @]
    BY <1>3, <1>9 DEF SoftDeleteServiceLink, At, FirstCall, Mem
  <2>2. /\ links' \in [Kinds -> [Ids -> States]] /\ links'[k][i] # "live"
        /\ \A l \in Kinds, j \in Ids : l # k \/ j # i => links'[l][j] = links[l][j]
    BY <1>3, <1>4, <2>1 DEF States
  <2>3. LinkedIsStored'
    <3> SUFFICES ASSUME NEW l \in Kinds, NEW j \in Ids
                 PROVE  /\ links'[l][j] = "live" => contents'[l][j] # "absent"
                        /\ contents'[l][j] # "absent" => <<l, j>> \in objects'
      BY DEF LinkedIsStored
    <3>1. /\ links[l][j] = "live" => contents[l][j] # "absent"
          /\ contents[l][j] # "absent" => <<l, j>> \in objects
      BY <1>4 DEF LinkedIsStored
    <3>2. CASE l = k /\ j = i
      BY <1>3, <1>4, <2>1, <2>2, <3>1, <3>2
    <3>3. CASE l # k \/ j # i
      BY <1>3, <1>4, <2>1, <2>2, <3>1, <3>3
    <3> QED BY <3>2, <3>3
  <2> QED BY <1>1, <1>2, <1>4, <2>1, <2>2, <2>3, LinkStepKeeps
<1>10. CASE \/ GetContent(q) \/ GetServiceLink(q)
            \/ ListServiceStats(q) \/ ServiceStatsForID(q) \/ CloseRows(q)
  BY <1>5, <1>10 DEF GetContent, GetServiceLink, ListServiceStats, ServiceStatsForID, CloseRows,
     At, FirstCall, dataVars
<1> QED BY <1>6, <1>7, <1>8, <1>9, <1>10

\* So does a request that is cut short.
LEMMA AbortSteps ==
    ASSUME TypeOK, WorkInv, NEW q \in Requests, Aborts(q), held' = held \ {q},
           UNCHANGED <<dbs, versions, folders, queries, contents, objects, links, testVars>>
    PROVE  TypeOK' /\ WorkInv'
<1>1. Now(q, <<>>, NoMem) /\ clean' = FALSE
  BY FrameSteps
<1>2. <<>> \in Seq(Calls)
  OBVIOUS
<1>3. Grows
  BY DEF Grows, testVars
<1>4. /\ ReqsType(Ops, Calls, Memory)'
      /\ \A p \in Requests : RequestOK(p)'
  BY <1>1, <1>2, <1>3, RequestsOK
<1>5. proc'[q].todo = <<>> /\ \A p \in Requests \ {q} : proc'[p] = proc[p]
  BY <1>1, NowIs
<1>6. ~Counts(q)'
  BY <1>5 DEF Counts, At
<1>7. HeldByStats' /\ held' \subseteq Requests
  BY <1>5, <1>6, HeldMoves DEF WorkInv
<1>8. DataTypeOK' /\ TestsTypeOK'
  BY <1>7 DEF TypeOK, DataTypeOK, TestsTypeOK, testVars
<1>9. (\A i \in Ids : LogOK(i)') /\ ResultsOK' /\ OneQueryPerRef' /\ LinkedIsStored'
  BY LogsStay DEF WorkInv, ResultsOK, OneQueryPerRef, LinkedIsStored, testVars
<1> QED BY <1>4, <1>7, <1>8, <1>9 DEF TypeOK, WorkInv, Ops, Calls, Memory

-----------------------------------------------------------------------------
(* Tests.                                                                   *)

\* A call of a handler of tests, done by q, that changes only the tests.
LEMMA TestStepKeeps ==
    ASSUME TypeOK, WorkInv, NEW q \in Requests, proc[q].op \in TestOps,
           proc[q].todo \in TestLeft(proc[q].op),
           NEW u \in TestLeft(proc[q].op) \cup {<<>>}, NEW m \in TestMemory \cup {NoMem},
           Now(q, u, m), clean' = clean, u # <<>> => RequestOK(q)',
           UNCHANGED dataVars, TestsTypeOK', ResultsOK',
           \A i \in TestIds : cases[i].state # "absent" => cases'[i].state # "absent",
           \A i \in TestIds : runs[i].state # "absent" => runs'[i].state # "absent",
           \A i \in TestIds : results[i].state # "absent" => results'[i].state # "absent"
    PROVE  TypeOK' /\ WorkInv'
<1>1. <<>> \in Seq(Calls)
  OBVIOUS
<1>2. /\ Head(proc[q].todo) \in CaseCalls \cup RunCalls \cup ResultCalls
      /\ u # <<>> => Head(u) \in CaseCalls \cup RunCalls \cup ResultCalls
      /\ u \in Seq(Calls)
  BY <1>1, TestTail DEF Calls
<1>3. m \in Memory \cup {NoMem}
  BY DEF Memory
<1>4. Grows
  BY DEF Grows, dataVars
<1>5. clean' \in BOOLEAN
  BY DEF TypeOK, ReqsType
<1>6. /\ ReqsType(Ops, Calls, Memory)'
      /\ \A p \in Requests : RequestOK(p)'
  BY <1>2, <1>3, <1>4, <1>5, RequestsOK
<1>7. proc'[q].todo = u /\ \A p \in Requests \ {q} : proc'[p] = proc[p]
  BY NowIs
<1>8. ~Counts(q) /\ ~Counts(q)'
  BY <1>2, <1>7 DEF Counts, At, CaseCalls, RunCalls, ResultCalls
<1>9. HeldByStats'
  BY <1>7, <1>8, HeldKept DEF WorkInv, dataVars
<1>10. DataTypeOK'
  BY DEF TypeOK, DataTypeOK, dataVars
<1>11. (\A i \in Ids : LogOK(i)') /\ OneQueryPerRef' /\ LinkedIsStored'
  BY LogsStay DEF WorkInv, OneQueryPerRef, LinkedIsStored, dataVars
<1> QED BY <1>6, <1>9, <1>10, <1>11 DEF TypeOK, WorkInv, Ops, Calls, Memory

\* The steps of handlers of packs and cases keep types and invariant.
LEMMA CaseSteps ==
    ASSUME TypeOK, WorkInv, NEW q \in Requests, UNCHANGED dataVars,
           \/ CreateTestPack(q) \/ GetTestPack(q) \/ UpdateTestPack(q) \/ SoftDeleteTestPack(q)
           \/ CreateTestCase(q) \/ GetTestCase(q) \/ UpdateTestCase(q) \/ SoftDeleteTestCase(q)
    PROVE  TypeOK' /\ WorkInv'
<1> DEFINE t == proc[q].todo
           op == proc[q].op
<1>1. Busy(q) /\ FirstCall(q) \in CaseCalls /\ (Proceeds(q) \/ Ends(q)) /\ UNCHANGED <<runs, results>>
  BY DEF CreateTestPack, GetTestPack, UpdateTestPack, SoftDeleteTestPack, CreateTestCase,
     GetTestCase, UpdateTestCase, SoftDeleteTestCase, At, Busy, FirstCall, CaseCalls, testVars
<1>2. CaseOK(q)
  BY <1>1, KindOfCall
<1>3. op \in TestOps /\ t \in TestLeft(op) /\ proc[q].mem \in CaseMemory
  BY <1>2 DEF CaseOK, TestOps
<1>4. t # <<>> /\ TestNext(op, FirstCall(q), Tail(t)) /\ Tail(t) \in TestLeft(op) \cup {<<>>}
  BY <1>3, TestTail DEF FirstCall, TestNext
<1>5. PICK i \in TestIds, p \in TestIds : i = proc[q].mem.id /\ p = proc[q].mem.pack
  BY <1>3 DEF CaseMemory
<1>6. TestsTypeOK /\ ResultsOK /\ q \in TestIds
  BY DEF TypeOK, WorkInv, TestIds
<1>7. /\ packs' \in [TestIds -> RowStates] /\ cases' \in [TestIds -> Case]
      /\ \A j \in TestIds : cases[j].state # "absent" => cases'[j].state # "absent"
  <2>1. CASE CreateTestPack(q) \/ SoftDeleteTestPack(q)
    BY <1>5, <1>6, <2>1 DEF CreateTestPack, SoftDeleteTestPack, TestsTypeOK, RowStates, Mem
  <2>2. CASE GetTestPack(q) \/ UpdateTestPack(q) \/ GetTestCase(q)
    BY <1>6, <2>2 DEF GetTestPack, UpdateTestPack, GetTestCase, TestsTypeOK, testVars
  <2>3. CASE CreateTestCase(q)
    BY <1>5, <1>6, <2>3 DEF CreateTestCase, TestsTypeOK, Case, Mem
  <2>4. CASE UpdateTestCase(q) \/ SoftDeleteTestCase(q)
    <3>1. cases[i].state # "absent"
      BY <1>2, <1>4, <1>5, <2>4 DEF UpdateTestCase, SoftDeleteTestCase, CaseOK, TestNext, At,
         FirstCall, Op, Mem
    <3>2. cases[i] \in [state : {"live", "deleted"}, pack : TestIds]
      BY <1>6, <3>1 DEF TestsTypeOK, Case, NoCase
    <3> QED BY <1>5, <1>6, <2>4, <3>2 DEF UpdateTestCase, SoftDeleteTestCase, TestsTypeOK, Case, Mem
  <2> QED BY <2>1, <2>2, <2>3, <2>4
<1>8. ResultsOK'
  <2>1. \A j \in TestIds : results[j].state = "live" => results[j].case \in TestIds
    BY <1>6 DEF TestsTypeOK, Result, NoResult
  <2> QED BY <1>1, <1>6, <1>7, <2>1 DEF ResultsOK
<1>9. TestsTypeOK'
  BY <1>1, <1>6, <1>7 DEF TestsTypeOK
<1>10. ASSUME NEW u \in TestLeft(op) \cup {<<>>}, Now(q, u, proc[q].mem), clean' = clean
       PROVE  TypeOK' /\ WorkInv'
  <2>1. PICK w : w = proc[q].mem
    OBVIOUS
  <2>2. Now(q, u, w) /\ w \in TestMemory
    BY <1>3, <1>10, <2>1 DEF TestMemory, CaseMemory
  <2>3. u # <<>> => proc'[q].op = op /\ proc'[q].todo = u /\ proc'[q].mem = w
    BY <2>2, NowIs
  <2>4. u # <<>> => CaseOK(q)'
    BY <1>2, <1>5, <1>7, <2>1, <2>3 DEF CaseOK, Op, Mem
  <2> QED BY <1>1, <1>3, <1>7, <1>8, <1>9, <1>10, <2>2, <2>4, TestStepKeeps DEF RequestOK
<1>11. CASE Proceeds(q)
  BY <1>4, <1>10, <1>11, FrameSteps
<1>12. CASE Ends(q)
  <2>1. Now(q, <<>>, NoMem) /\ clean' = clean
    BY <1>12, FrameSteps
  <2> QED BY <1>1, <1>3, <1>7, <1>8, <1>9, <2>1, TestStepKeeps
<1> QED BY <1>1, <1>11, <1>12

\* The steps of handlers of runs and results keep types and invariant.
LEMMA RunSteps ==
    ASSUME TypeOK, WorkInv, NEW q \in Requests, UNCHANGED dataVars,
           \/ CreateTestRun(q) \/ GetTestRun(q) \/ UpdateTestRun(q)
    PROVE  TypeOK' /\ WorkInv'
<1> DEFINE t == proc[q].todo
           op == proc[q].op
           m == proc[q].mem
<1>1. Busy(q) /\ FirstCall(q) \in RunCalls /\ UNCHANGED <<packs, cases, results>>
  BY DEF CreateTestRun, GetTestRun, UpdateTestRun, At, Busy, FirstCall, RunCalls, testVars
<1>2. RunOK(q)
  BY <1>1, KindOfCall
<1>3. op \in TestOps /\ t \in TestLeft(op) /\ m \in RunMemory
  BY <1>2 DEF RunOK, TestOps, RunOps
<1>4. t # <<>> /\ TestNext(op, FirstCall(q), Tail(t)) /\ Tail(t) \in TestLeft(op) \cup {<<>>}
  BY <1>3, TestTail DEF FirstCall, TestNext
<1>5. PICK i \in TestIds : i = m.id
  BY <1>3 DEF RunMemory
<1>6. TestsTypeOK /\ ResultsOK /\ q \in TestIds
  BY DEF TypeOK, WorkInv, TestIds
<1>7. ResultsOK'
  BY <1>1, <1>6 DEF ResultsOK
<1>8. CASE GetTestRun(q)
  <2>1. /\ FirstCall(q) = "getRun" /\ op = "updateTestRun" /\ UNCHANGED testVars
        /\ runs[i].state # "absent"
    BY <1>2, <1>4, <1>5, <1>8 DEF GetTestRun, At, FirstCall, TestNext, RunOK, Op, Mem
  <2>2. TestsTypeOK'
    BY <1>6, <2>1 DEF TestsTypeOK, testVars
  <2>3. CASE runs[i].state = "live"
    <3>1. PICK w : w = MergedRun(m, runs[i])
      OBVIOUS
    <3>2. runs[i] \in [state : {"live"}, pack : TestIds, status : RunStatus, overall : Verdicts]
      BY <1>6, <2>3 DEF TestsTypeOK, Run, NoRun
    <3>3. m.status \in RunStatus \cup {NoTest} /\ m.overall \in Verdicts \cup {NoTest}
      BY <1>3 DEF RunMemory
    <3>4. w \in RunMemory /\ w.id = i /\ w.status \in RunStatus /\ w.overall \in Verdicts
      BY <1>3, <1>5, <3>1, <3>2, <3>3 DEF MergedRun, RunMemory
    <3>5. Now(q, Tail(t), w) /\ clean' = clean
      BY <1>5, <1>8, <2>3, <3>1, FrameSteps DEF GetTestRun, Mem
    <3>6. Tail(t) # <<>> /\ Head(Tail(t)) = "saveRun"
      BY <1>4, <2>1 DEF TestNext
    <3>7. proc'[q].op = op /\ proc'[q].todo = Tail(t) /\ proc'[q].mem = w
      BY ONLY <3>5, <3>6, TypeOK, q \in Requests, NowIs
    <3>8. RunOK(q)'
      BY <1>2, <1>4, <2>1, <3>4, <3>6, <3>7 DEF RunOK, Op, Mem, FirstCall, testVars
    <3>9. w \in TestMemory
      BY <3>4 DEF TestMemory, RunMemory
    <3> QED BY <1>1, <1>3, <1>4, <1>7, <2>1, <2>2, <3>5, <3>8, <3>9, TestStepKeeps
            DEF RequestOK, testVars
  <2>4. CASE runs[i].state # "live"
    <3>1. Now(q, <<>>, NoMem) /\ clean' = clean
      BY <1>5, <1>8, <2>4, FrameSteps DEF GetTestRun, Mem
    <3> QED BY <1>1, <1>3, <1>7, <2>1, <2>2, <3>1, TestStepKeeps DEF testVars
  <2> QED BY <2>3, <2>4
<1>9. ASSUME Proceeds(q), Tail(t) = <<>>, runs' \in [TestIds -> Run],
             \A j \in TestIds : runs[j].state # "absent" => runs'[j].state # "absent"
      PROVE  TypeOK' /\ WorkInv'
  <2>1. PICK w : w = m
    OBVIOUS
  <2>2. Now(q, <<>>, w) /\ clean' = clean /\ w \in TestMemory
    BY <1>3, <1>9, <2>1, FrameSteps DEF TestMemory, RunMemory
  <2>3. TestsTypeOK'
    BY <1>1, <1>6, <1>9 DEF TestsTypeOK
  <2> QED BY <1>1, <1>3, <1>7, <1>9, <2>2, <2>3, TestStepKeeps
<1>10. CASE CreateTestRun(q)
  <2>1. /\ FirstCall(q) = "insertRun" /\ op = "createTestRun" /\ Tail(t) = <<>> /\ Proceeds(q)
        /\ runs' = [runs EXCEPT ![q] = [state |-> "live", pack |-> m.pack, status |-> m.status,
                                        overall |-> m.overall]]
    BY <1>4, <1>10 DEF CreateTestRun, At, FirstCall, TestNext, Mem
  <2>2. m.pack \in TestIds /\ m.status \in RunStatus /\ m.overall \in Verdicts
    BY <1>2, <2>1 DEF RunOK, Op, Mem
  <2>3. /\ runs' \in [TestIds -> Run]
        /\ \A j \in TestIds : runs[j].state # "absent" => runs'[j].state # "absent"
    BY <1>6, <2>1, <2>2 DEF TestsTypeOK, Run
  <2> QED BY <1>9, <2>1, <2>3
<1>11. CASE UpdateTestRun(q)
  <2>1. /\ FirstCall(q) = "saveRun" /\ op = "updateTestRun" /\ Tail(t) = <<>> /\ Proceeds(q)
        /\ runs' = [runs EXCEPT ![i].status = m.status, ![i].overall = m.overall]
    BY <1>4, <1>5, <1>11 DEF UpdateTestRun, At, FirstCall, TestNext, Mem
  <2>2. m.status \in RunStatus /\ m.overall \in Verdicts /\ runs[i].state # "absent"
    BY <1>2, <1>5, <2>1 DEF RunOK, Op, Mem
  <2>3. runs[i] \in [state : {"live"}, pack : TestIds, status : RunStatus, overall : Verdicts]
    BY <1>6, <2>2 DEF TestsTypeOK, Run, NoRun
  <2>4. /\ runs' \in [TestIds -> Run]
        /\ \A j \in TestIds : runs[j].state # "absent" => runs'[j].state # "absent"
    BY <1>6, <2>1, <2>2, <2>3 DEF TestsTypeOK, Run
  <2> QED BY <1>9, <2>1, <2>4
<1> QED BY <1>8, <1>10, <1>11

\* The steps of handlers of results keep types and invariant.
LEMMA ResultSteps ==
    ASSUME TypeOK, WorkInv, NEW q \in Requests, UNCHANGED dataVars,
           \/ CreateTestRunResult(q) \/ GetTestRunResult(q) \/ UpdateTestRunResult(q)
    PROVE  TypeOK' /\ WorkInv'
<1> DEFINE t == proc[q].todo
           op == proc[q].op
           m == proc[q].mem
<1>1. Busy(q) /\ FirstCall(q) \in ResultCalls /\ UNCHANGED <<packs, cases, runs>>
      /\ (Proceeds(q) \/ Ends(q))
  BY DEF CreateTestRunResult, GetTestRunResult, UpdateTestRunResult, At, Busy, FirstCall,
     ResultCalls, testVars
<1>2. ResultOK(q)
  BY <1>1, KindOfCall
<1>3. op \in TestOps /\ t \in TestLeft(op) /\ m \in ResultMemory
  BY <1>2 DEF ResultOK, TestOps, RunOps
<1>4. t # <<>> /\ TestNext(op, FirstCall(q), Tail(t)) /\ Tail(t) \in TestLeft(op) \cup {<<>>}
  BY <1>3, TestTail DEF FirstCall, TestNext
<1>5. PICK i \in TestIds : i = m.id
  BY <1>3 DEF ResultMemory
<1>6. TestsTypeOK /\ ResultsOK /\ q \in TestIds /\ m.status \in ResultStatus
  BY <1>3 DEF TypeOK, WorkInv, TestIds, ResultMemory
<1>7. /\ results' \in [TestIds -> Result] /\ ResultsOK'
      /\ \A j \in TestIds : results[j].state # "absent" => results'[j].state # "absent"
  <2>1. CASE GetTestRunResult(q) \/ (CreateTestRunResult(q) /\ Reported(m))
    <3>1. results' = results
      BY <2>1 DEF GetTestRunResult, CreateTestRunResult, testVars, Mem
    <3> QED BY <1>1, <1>6, <3>1 DEF TestsTypeOK, ResultsOK
  <2>2. CASE CreateTestRunResult(q) /\ ~Reported(m)
    <3> DEFINE r == [state |-> "live", run |-> m.run, case |-> m.case, status |-> m.status]
    <3>1. results' = [results EXCEPT ![q] = r]
      BY <2>2 DEF CreateTestRunResult, Mem
    <3>2. m.run \in TestIds /\ m.case \in TestIds /\ cases[m.case].state # "absent"
      BY <1>2, <1>4, <2>2 DEF ResultOK, CreateTestRunResult, TestNext, At, FirstCall, Op, Mem
    <3>3. /\ results' \in [TestIds -> Result] /\ results'[q].run = m.run /\ results'[q].case = m.case
          /\ results'[q].state = "live" /\ \A j \in TestIds \ {q} : results'[j] = results[j]
      BY <1>6, <3>1, <3>2 DEF TestsTypeOK, Result
    <3>4. \A j \in TestIds : ~(results[j].state = "live" /\ results[j].run = m.run
                               /\ results[j].case = m.case)
      BY <2>2 DEF Reported, ResultsOf
    <3>5. ResultsOK'
      BY <1>1, <1>6, <3>2, <3>3, <3>4 DEF ResultsOK
    <3>6. \A j \in TestIds : results[j].state # "absent" => results'[j].state # "absent"
      BY <3>3
    <3> QED BY <3>3, <3>5, <3>6
  <2>3. CASE UpdateTestRunResult(q)
    <3>1. results' = [results EXCEPT ![i].status = m.status]
      BY <1>5, <2>3 DEF UpdateTestRunResult, Mem
    <3>2. results[i].state # "absent"
      BY <1>2, <1>4, <1>5, <2>3 DEF ResultOK, UpdateTestRunResult, TestNext, At, FirstCall, Op, Mem
    <3>3. results[i] \in [state : {"live"}, run : TestIds, case : TestIds, status : ResultStatus]
      BY <1>6, <3>2 DEF TestsTypeOK, Result, NoResult
    <3>4. /\ results' \in [TestIds -> Result] /\ results'[i].run = results[i].run
          /\ results'[i].case = results[i].case /\ results'[i].state = results[i].state
          /\ \A j \in TestIds \ {i} : results'[j] = results[j]
      BY <1>6, <3>1, <3>3 DEF TestsTypeOK, Result
    <3>5. \A j \in TestIds : /\ results'[j].run = results[j].run /\ results'[j].case = results[j].case
                             /\ results'[j].state = results[j].state
      BY <3>4
    <3>6. ResultsOK'
      BY <1>1, <1>6, <3>5 DEF ResultsOK
    <3> QED BY <3>4, <3>5, <3>6
  <2> QED BY <2>1, <2>2, <2>3
<1>8. TestsTypeOK'
  BY <1>1, <1>6, <1>7 DEF TestsTypeOK
<1>9. CASE Proceeds(q)
  <2>1. PICK w : w = m
    OBVIOUS
  <2>2. Now(q, Tail(t), w) /\ clean' = clean /\ w \in TestMemory
    BY <1>3, <1>9, <2>1, FrameSteps DEF TestMemory, ResultMemory
  <2>3. Tail(t) # <<>> => proc'[q].op = op /\ proc'[q].todo = Tail(t) /\ proc'[q].mem = w
    BY <2>2, NowIs
  <2>4. Tail(t) # <<>> => ResultOK(q)'
    BY <1>1, <1>2, <1>4, <1>5, <1>7, <2>1, <2>3 DEF ResultOK, Op, Mem
  <2> QED BY <1>1, <1>3, <1>4, <1>7, <1>8, <2>2, <2>4, TestStepKeeps DEF RequestOK
<1>10. CASE Ends(q)
  <2>1. Now(q, <<>>, NoMem) /\ clean' = clean
    BY <1>10, FrameSteps
  <2> QED BY <1>1, <1>3, <1>7, <1>8, <2>1, TestStepKeeps
<1> QED BY <1>1, <1>9, <1>10

-----------------------------------------------------------------------------
(* Requests that arrive or are cut short.                                   *)

\* What a request that arrives leaves of the requests.
LEMMA Arrived ==
    ASSUME TypeOK, NEW q \in Requests, NEW op, NEW t, NEW m, Arrives(q, op, t, m)
    PROVE  /\ proc'[q].op = op /\ proc'[q].todo = t /\ proc'[q].mem = m /\ proc[q].op = "none"
           /\ \A p \in Requests \ {q} : proc'[p] = proc[p]
           /\ clean' = (clean /\ Quiet)
BY DEF Arrives, TypeOK, ReqsType

\* A request that did not arrive has nothing to do.
LEMMA NotArrived ==
    ASSUME WorkInv, NEW q \in Requests, proc[q].op = "none"
    PROVE  ~Busy(q)
<1>1. "none" \notin DbOps \cup QueryOps \cup LinkOps \cup PackOps \cup CaseOps
      /\ "none" \notin {"createTestRun", "updateTestRun", "createTestRunResult", "updateTestRunResult"}
  BY DEF DbOps, QueryOps, LinkOps, PackOps, CaseOps
<1>2. RequestOK(q)
  BY DEF WorkInv
<1> QED BY <1>1, <1>2 DEF RequestOK, DbOK, QueryOK, LinkOK, CaseOK, RunOK, ResultOK, Busy

\* A request that arrives with what it has to hold keeps types and invariant.
LEMMA ArrivalKeeps ==
    ASSUME TypeOK, WorkInv, NEW q \in Requests, NEW op \in Ops, NEW t \in Seq(Calls),
           NEW m \in Memory, Arrives(q, op, t, m), RequestOK(q)', UNCHANGED <<dataVars, testVars>>,
           Head(t) \notin {"countRows", "closeRows"}
    PROVE  TypeOK' /\ WorkInv'
<1>1. /\ proc'[q].op = op /\ proc'[q].todo = t /\ proc'[q].mem = m /\ proc[q].op = "none"
      /\ \A p \in Requests \ {q} : proc'[p] = proc[p]
      /\ clean' = (clean /\ Quiet)
  BY Arrived
<1>2. ReqsType(Ops, Calls, Memory)'
  BY <1>1 DEF Arrives, TypeOK, ReqsType, Ops, Calls, Memory
<1>3. Grows
  BY DEF Grows, dataVars, testVars
<1>4. \A p \in Requests : RequestOK(p)'
  BY <1>1, <1>3, WaitingOK DEF WorkInv
<1>5. ~Counts(q) /\ ~Counts(q)'
  BY <1>1, NotArrived DEF Counts, At, Busy
<1>6. HeldByStats'
  BY <1>1, <1>5, HeldKept DEF WorkInv, dataVars
<1>7. DataTypeOK' /\ TestsTypeOK'
  BY DEF TypeOK, DataTypeOK, TestsTypeOK, dataVars, testVars
<1>8. (\A i \in Ids : LogOK(i)') /\ OneQueryPerRef' /\ LinkedIsStored' /\ ResultsOK'
  BY LogsStay DEF WorkInv, OneQueryPerRef, LinkedIsStored, ResultsOK, dataVars, testVars
<1> QED BY <1>2, <1>4, <1>6, <1>7, <1>8 DEF TypeOK, WorkInv, Ops, Calls, Memory

\* A request about a database arrives with the first of its lists.
LEMMA DbArrives ==
    ASSUME TypeOK, WorkInv, NEW q \in Requests, NEW op \in DbOps, DbStart(q, op),
           UNCHANGED testVars
    PROVE  TypeOK' /\ WorkInv'
<1> USE ServiceDataAssumption
<1>1. PICK i \in Ids, name \in DbNames \cup {None}, schema \in Schemas \cup {None}, n \in Nat :
         /\ StartDb(q, op, i, name, schema, n)
         /\ op = "createDB" => name \in DbNames /\ schema \in Schemas
         /\ op = "restoreDBVersion" => schema = None
  <2>1. \A j \in Ids : \A v \in VersionsOf(j) : v.number \in Nat
    BY DEF TypeOK, DataTypeOK, VersionsOf, Version
  <2>2. CASE op = "createDB"
    BY <2>2 DEF DbStart, Ids
  <2>3. CASE op \in {"updateDB", "createDBVersion"}
    BY <2>3 DEF DbStart
  <2>4. CASE op = "deleteDB"
    BY <2>4 DEF DbStart
  <2>5. CASE op = "restoreDBVersion"
    BY <2>1, <2>5 DEF DbStart
  <2> QED BY <2>2, <2>3, <2>4, <2>5 DEF DbOps
<1>2. PICK t : t = CASE op = "createDB" -> CreateDBSteps
                     [] op = "updateDB" -> UpdateDBSteps
                     [] op = "deleteDB" -> DeleteDBSteps
                     [] op = "createDBVersion" -> CreateDBVersionSteps
                     [] op = "restoreDBVersion" -> RestoreDBVersionSteps
  OBVIOUS
<1>3. PICK m : m = [id |-> i, name |-> name, schema |-> schema, prev |-> None, want |-> None,
                    number |-> n]
  OBVIOUS
<1>4. /\ Arrives(q, op, t, m) /\ UNCHANGED dataVars
      /\ IF op = "createDB" THEN i = q ELSE dbs[i].state # "absent"
  BY <1>1, <1>2, <1>3 DEF StartDb
<1>5. t \in DbLeft(op) /\ t # <<>> /\ Head(t) = IF op = "createDB" THEN "insertDB" ELSE "getDB"
  BY <1>2 DEF DbOps, DbLeft, CreateDBSteps, UpdateDBSteps, DeleteDBSteps, CreateDBVersionSteps,
     RestoreDBVersionSteps
<1>6. m \in DbMemory /\ m.id = i /\ m.name = name /\ m.schema = schema /\ m.want = None
  BY <1>1, <1>3 DEF DbMemory
<1>7. proc'[q].op = op /\ proc'[q].todo = t /\ proc'[q].mem = m
  BY <1>4, Arrived
<1>8. DbOK(q)'
  BY <1>1, <1>4, <1>5, <1>6, <1>7 DEF DbOK, FirstCall, Op, Mem, dataVars
<1>9. t \in Seq(Calls) /\ op \in Ops /\ m \in Memory
  BY <1>5, <1>6, DbTail DEF Calls, Ops, DataOps, Memory, DataMemory
<1> QED BY <1>4, <1>5, <1>8, <1>9, ArrivalKeeps DEF RequestOK

\* A request about saved queries arrives with the first of its lists.
LEMMA QueryArrives ==
    ASSUME TypeOK, WorkInv, NEW q \in Requests, NEW op \in QueryOps, QueryStart(q, op),
           UNCHANGED testVars
    PROVE  TypeOK' /\ WorkInv'
<1>1. PICK i \in Ids, folder \in Ids \cup {None}, ref \in Refs \cup {None} :
         /\ StartQuery(q, op, i, folder, ref)
         /\ op # "syncSavedQuery" => ref = None
  BY DEF QueryStart
<1>2. PICK t : t = CASE op = "createSavedQueryFolder" -> CreateSavedQueryFolderSteps
                     [] op = "deleteSavedQueryFolder" -> DeleteSavedQueryFolderSteps
                     [] op = "createSavedQuery" -> CreateSavedQuerySteps
                     [] op = "updateSavedQuery" -> UpdateSavedQuerySteps
                     [] op = "deleteSavedQuery" -> DeleteSavedQuerySteps
                     [] op = "syncSavedQuery" -> SyncSavedQuerySteps
  OBVIOUS
<1>3. PICK m : m = [id |-> i, folder |-> folder, ref |-> ref]
  OBVIOUS
<1>4. /\ Arrives(q, op, t, m) /\ UNCHANGED dataVars
      /\ op \in {"updateSavedQuery", "deleteSavedQuery"} => queries[i].state # "absent"
  BY <1>1, <1>2, <1>3 DEF StartQuery
<1>5. t \in QueryLeft(op) /\ t # <<>> /\ Head(t) = "ensureDB"
  BY <1>2 DEF QueryOps, QueryLeft, CreateSavedQueryFolderSteps, DeleteSavedQueryFolderSteps,
     CreateSavedQuerySteps, UpdateSavedQuerySteps, DeleteSavedQuerySteps, SyncSavedQuerySteps
<1>6. m \in QueryMemory /\ m.id = i /\ m.ref = ref
  BY <1>3 DEF QueryMemory
<1>7. proc'[q].op = op /\ proc'[q].todo = t /\ proc'[q].mem = m
  BY <1>4, Arrived
<1>8. QueryOK(q)'
  BY <1>1, <1>4, <1>5, <1>6, <1>7 DEF QueryOK, Op, Mem, dataVars
<1>9. t \in Seq(Calls) /\ op \in Ops /\ m \in Memory
  BY <1>5, <1>6, QueryTail DEF Calls, Ops, DataOps, Memory, DataMemory
<1> QED BY <1>4, <1>5, <1>8, <1>9, ArrivalKeeps DEF RequestOK

\* A request about documents, diagrams or statistics arrives with the first of
\* its lists.
LEMMA LinkArrives ==
    ASSUME TypeOK, WorkInv, NEW q \in Requests, NEW op \in LinkOps, LinkStart(q, op),
           UNCHANGED testVars
    PROVE  TypeOK' /\ WorkInv'
<1>1. PICK i \in Ids : StartLink(q, op, i)
  BY DEF LinkStart
<1>2. PICK kind \in Kinds, t \in LinkLeft(op) :
         /\ Arrives(q, op, t, [id |-> i, kind |-> kind]) /\ UNCHANGED dataVars
         /\ t # <<>>
         /\ Head(t) \in {"upload", "getContent", "getLink", "listServices"}
  <2>1. CASE op = "createDoc"
    BY <1>1, <2>1 DEF StartLink, Kinds, CreateDocSteps, LinkLeft
  <2>2. CASE op = "createDiagram"
    BY <1>1, <2>2 DEF StartLink, Kinds, CreateDiagramSteps, LinkLeft
  <2>3. CASE op = "deleteDoc"
    BY <1>1, <2>3 DEF StartLink, Kinds, DeleteDocSteps, LinkLeft
  <2>4. CASE op = "deleteDiagram"
    BY <1>1, <2>4 DEF StartLink, Kinds, DeleteDiagramSteps, LinkLeft
  <2>5. CASE op = "listStats"
    BY <1>1, <2>5 DEF StartLink, Kinds, ListStatsSteps, LinkLeft
  <2> QED BY <2>1, <2>2, <2>3, <2>4, <2>5 DEF LinkOps
<1>3. PICK m : m = [id |-> i, kind |-> kind]
  OBVIOUS
<1>4. Arrives(q, op, t, m) /\ m \in LinkMemory
  BY <1>2, <1>3 DEF LinkMemory
<1>5. proc'[q].op = op /\ proc'[q].todo = t /\ proc'[q].mem = m
  BY <1>4, Arrived
<1>6. LinkOK(q)'
  BY <1>2, <1>4, <1>5 DEF LinkOK, Op, Mem, FirstCall
<1>7. t \in Seq(Calls) /\ op \in Ops /\ m \in Memory
  BY <1>2, <1>4, LinkTail DEF Calls, Ops, DataOps, Memory, DataMemory
<1> QED BY <1>2, <1>4, <1>6, <1>7, ArrivalKeeps DEF RequestOK

\* A request about tests arrives with the first of its lists.
LEMMA TestArrives ==
    ASSUME TypeOK, WorkInv, NEW q \in Requests, NEW op \in TestOps, TestStart(q, op),
           UNCHANGED dataVars
    PROVE  TypeOK' /\ WorkInv'
<1>1. q \in TestIds /\ OldTest \in TestIds
  BY DEF TestIds
<1>2. ASSUME NEW m \in TestMemory, StartTest(q, op, m),
             proc'[q].op = op /\ proc'[q].todo = TestSteps(op) /\ proc'[q].mem = m
             /\ UNCHANGED testVars => RequestOK(q)'
      PROVE  TypeOK' /\ WorkInv'
  <2>1. PICK t : t = TestSteps(op)
    OBVIOUS
  <2>2. Arrives(q, op, t, m) /\ UNCHANGED testVars
    BY <1>2, <2>1 DEF StartTest
  <2>3. t \in TestLeft(op)
    BY <2>1 DEF TestLeft, TestSteps, TestOps, PackOps, CaseOps, RunOps, CreateTestPackSteps,
       UpdateTestPackSteps, DeleteTestPackSteps, CreateTestCaseSteps, UpdateTestCaseSteps,
       DeleteTestCaseSteps, CreateTestRunSteps, UpdateTestRunSteps, CreateTestRunResultSteps,
       UpdateTestRunResultSteps
  <2>4. proc'[q].op = op /\ proc'[q].todo = t /\ proc'[q].mem = m
    BY <2>2, Arrived
  <2>5. t \in Seq(Calls) /\ op \in Ops /\ m \in Memory
        /\ Head(t) \in CaseCalls \cup RunCalls \cup ResultCalls
    BY <2>3, TestTail DEF Calls, Ops, Memory
  <2>6. Head(t) \notin {"countRows", "closeRows"}
    BY <2>5 DEF CaseCalls, RunCalls, ResultCalls
  <2> QED BY <1>2, <2>1, <2>2, <2>4, <2>5, <2>6, ArrivalKeeps
<1>3. TestSteps(op) \in TestLeft(op) /\ TestSteps(op) # <<>>
      /\ (op = "createTestRun" => Head(TestSteps(op)) = "insertRun")
      /\ (op = "updateTestRun" => Head(TestSteps(op)) = "getRun")
  <2>1. TestSteps(op) \in TestLeft(op)
    BY DEF TestLeft, TestSteps, TestOps, PackOps, CaseOps, RunOps, CreateTestPackSteps,
       UpdateTestPackSteps, DeleteTestPackSteps, CreateTestCaseSteps, UpdateTestCaseSteps,
       DeleteTestCaseSteps, CreateTestRunSteps, UpdateTestRunSteps, CreateTestRunResultSteps,
       UpdateTestRunResultSteps
  <2>2. TestSteps(op) # <<>>
    BY <2>1, TestTail
  <2>3. op = "createTestRun" => Head(TestSteps(op)) = "insertRun"
    BY DEF TestSteps, CreateTestRunSteps
  <2>4. op = "updateTestRun" => Head(TestSteps(op)) = "getRun"
    BY DEF TestSteps, UpdateTestRunSteps
  <2> QED BY <2>1, <2>2, <2>3, <2>4
<1>4. ASSUME op \in PackOps \cup CaseOps, NEW m \in CaseMemory, StartTest(q, op, m),
             op \in {"updateTestCase", "deleteTestCase"} => cases[m.id].state # "absent"
      PROVE  TypeOK' /\ WorkInv'
  <2>1. m \in TestMemory
    BY DEF TestMemory, CaseMemory
  <2>2. proc'[q].op = op /\ proc'[q].todo = TestSteps(op) /\ proc'[q].mem = m
        /\ UNCHANGED testVars => CaseOK(q)'
    BY <1>3, <1>4 DEF CaseOK, Op, Mem, testVars
  <2> QED BY <1>2, <1>4, <2>1, <2>2 DEF RequestOK
<1>5. CASE op \in PackOps
  <2>1. PICK i \in TestIds : StartTest(q, op, [id |-> i, pack |-> i])
    <3>1. \E i \in {x \in TestIds : IF op = "createTestPack" THEN x = q ELSE PackThere(x)} :
             StartTest(q, op, [id |-> i, pack |-> i])
      BY ONLY <1>5, TestStart(q, op) DEF TestStart, PackOps
    <3> QED BY <3>1
  <2>2. PICK m : m = [id |-> i, pack |-> i]
    OBVIOUS
  <2>3. m \in CaseMemory /\ op \notin {"updateTestCase", "deleteTestCase"}
    BY <1>5, <2>2 DEF CaseMemory, PackOps
  <2> QED BY <1>4, <1>5, <2>1, <2>2, <2>3
<1>6. CASE op \in CaseOps
  <2>1. PICK i \in TestIds, p \in TestIds :
            /\ StartTest(q, op, [id |-> i, pack |-> p])
            /\ op \in {"updateTestCase", "deleteTestCase"} => cases[i].state # "absent"
    <3>1. CASE op = "createTestCase"
      BY <1>1, <3>1 DEF TestStart, PackOps
    <3>2. CASE op \in {"updateTestCase", "deleteTestCase"}
      BY <1>1, <3>2 DEF TestStart, PackOps
    <3> QED BY <1>6, <3>1, <3>2 DEF CaseOps
  <2>2. PICK m : m = [id |-> i, pack |-> p]
    OBVIOUS
  <2>3. m \in CaseMemory /\ m.id = i
    BY <2>2 DEF CaseMemory
  <2> QED BY <1>4, <1>6, <2>1, <2>2, <2>3
<1>7. CASE op \in {"createTestRun", "updateTestRun"}
  <2>1. PICK i \in TestIds, p \in TestIds \cup {NoTest}, s \in {"running", "completed", NoTest},
             o \in {"partial", "passed", "failed", NoTest} :
            /\ StartTest(q, op, [id |-> i, pack |-> p, status |-> s, overall |-> o])
            /\ op = "createTestRun" => p \in TestIds /\ s = "running" /\ o = "partial"
            /\ op = "updateTestRun" => /\ s \in {"completed", NoTest} /\ runs[i].state # "absent"
                                       /\ o \in {"passed", "failed", NoTest}
    <3>1. CASE op = "createTestRun"
      BY <1>1, <3>1 DEF TestStart, PackOps
    <3>2. CASE op = "updateTestRun"
      BY <1>1, <3>2 DEF TestStart, PackOps
    <3> QED BY <1>7, <3>1, <3>2
  <2>2. PICK m : m = [id |-> i, pack |-> p, status |-> s, overall |-> o]
    OBVIOUS
  <2>3. m \in RunMemory /\ m.id = i /\ m.pack = p /\ m.status = s /\ m.overall = o
    BY <2>2 DEF RunMemory, RunStatus, Verdicts
  <2>4. m \in TestMemory
    BY <2>3 DEF TestMemory, RunMemory
  <2>5. /\ s = "running" => s \in RunStatus
        /\ o = "partial" => o \in Verdicts
    BY DEF RunStatus, Verdicts
  <2>6. proc'[q].op = op /\ proc'[q].todo = TestSteps(op) /\ proc'[q].mem = m
        /\ UNCHANGED testVars => RunOK(q)'
    BY <1>3, <1>7, <2>1, <2>3, <2>5 DEF RunOK, Op, Mem, FirstCall, testVars
  <2> QED BY <1>2, <2>1, <2>2, <2>4, <2>6 DEF RequestOK
<1>8. CASE op \in {"createTestRunResult", "updateTestRunResult"}
  <2>1. PICK i \in TestIds, r \in TestIds \cup {NoTest}, c \in TestIds \cup {NoTest},
             s \in {"passed", "failed"} :
            /\ StartTest(q, op, [id |-> i, run |-> r, case |-> c, status |-> s])
            /\ op = "createTestRunResult" => r \in TestIds /\ c \in TestIds /\ cases[c].state # "absent"
            /\ op = "updateTestRunResult" => results[i].state # "absent"
    <3>1. CASE op = "createTestRunResult"
      BY <1>1, <3>1 DEF TestStart, PackOps
    <3>2. CASE op = "updateTestRunResult"
      BY <1>1, <3>2 DEF TestStart, PackOps
    <3> QED BY <1>8, <3>1, <3>2
  <2>2. PICK m : m = [id |-> i, run |-> r, case |-> c, status |-> s]
    OBVIOUS
  <2>3. m \in ResultMemory /\ m.id = i /\ m.run = r /\ m.case = c
    BY <2>2 DEF ResultMemory, ResultStatus
  <2>4. m \in TestMemory
    BY <2>3 DEF TestMemory, ResultMemory
  <2>5. proc'[q].op = op /\ proc'[q].todo = TestSteps(op) /\ proc'[q].mem = m
        /\ UNCHANGED testVars => ResultOK(q)'
    BY <1>3, <1>8, <2>1, <2>3 DEF ResultOK, Op, Mem, testVars
  <2> QED BY <1>2, <2>1, <2>2, <2>4, <2>5 DEF RequestOK
<1> QED BY <1>5, <1>6, <1>7, <1>8 DEF TestOps, RunOps

-----------------------------------------------------------------------------
(* Types and invariant of every behaviour.                                  *)

\* At the start the databases have one version each, and all else is empty or
\* in order.
LEMMA InitOK == Init => TypeOK /\ WorkInv
<1> SUFFICES ASSUME Init PROVE TypeOK /\ WorkInv
  OBVIOUS
<1> USE ServiceDataAssumption
<1>1. /\ proc = [q \in Requests |-> [op |-> "none", todo |-> <<>>, mem |-> NoMem]]
      /\ clean = TRUE
  BY DEF Init, ReqsInit
<1>2. <<>> \in Seq(Calls)
  OBVIOUS
<1>3. ReqsType(Ops, Calls, Memory) /\ \A q \in Requests : RequestOK(q)
  BY <1>1, <1>2 DEF ReqsType, RequestOK
<1>4. PICK d \in {Absent} \cup [state : {"live"}, name : DbNames, schema : Schemas] :
         /\ dbs = [i \in Ids |-> IF i = Old THEN d ELSE Absent]
         /\ versions = IF d = Absent THEN {} ELSE {[db |-> Old, number |-> 1, schema |-> d.schema]}
  BY DEF Init, DataInit
<1>5. dbs \in [Ids -> Db]
  BY <1>4 DEF Db
<1>6. versions \subseteq Version /\ \A i \in Ids : LogOK(i)
  <2>1. CASE d = Absent
    BY <1>4, <2>1 DEF LogOK, VersionsOf
  <2>2. CASE d # Absent
    <3>1. PICK v : v = [db |-> Old, number |-> 1, schema |-> d.schema]
      OBVIOUS
    <3>2. versions = {v} /\ v \in Version /\ v.number = 1 /\ v.db = Old
      BY <1>4, <2>2, <3>1 DEF Version, Ids
    <3>3. \A i \in Ids : LogOK(i)
      BY <3>2 DEF LogOK, VersionsOf, Follows
    <3> QED BY <3>2, <3>3
  <2> QED BY <2>1, <2>2
<1>7. PICK x \in {NoQuery} \cup [state : {"live"}, folder : {Old, None}, ref : Refs \cup {None}] :
         queries = [i \in Ids |-> IF i = Old /\ LiveDb(Old) THEN x ELSE NoQuery]
  BY DEF Init, DataInit
<1>8. queries \in [Ids -> Query] /\ OneQueryPerRef
  <2>1. x \in Query /\ NoQuery \in Query
    BY DEF Query, Ids
  <2>2. \A i \in Ids : i # Old => queries[i].state = "absent"
    BY <1>7 DEF NoQuery
  <2>3. queries \in [Ids -> Query]
    BY <1>7, <2>1
  <2> QED BY <2>2, <2>3 DEF OneQueryPerRef
<1>9. folders \in [Ids -> States] /\ held = {}
  BY DEF Init, DataInit, States
<1>10. PICK s \in States, l \in States :
         /\ s = "absent" => l = "absent"
         /\ contents = [k \in Kinds |-> [i \in Ids |-> IF i = Old THEN s ELSE "absent"]]
         /\ links = [k \in Kinds |-> [i \in Ids |-> IF i = Old THEN l ELSE "absent"]]
         /\ objects = IF s = "absent" THEN {} ELSE {<<k, Old>> : k \in Kinds}
  BY DEF Init, DataInit, States
<1>11. /\ contents \in [Kinds -> [Ids -> States]] /\ links \in [Kinds -> [Ids -> States]]
       /\ objects \subseteq Kinds \X Ids /\ LinkedIsStored
  <2>1. /\ contents \in [Kinds -> [Ids -> States]] /\ links \in [Kinds -> [Ids -> States]]
    BY <1>10 DEF States
  <2>2. objects \subseteq Kinds \X Ids
    BY <1>10 DEF Ids
  <2>3. LinkedIsStored
    BY <1>10 DEF LinkedIsStored
  <2> QED BY <2>1, <2>2, <2>3
<1>12. HeldByStats
  BY <1>1, <1>9 DEF HeldByStats, At
<1>13. TestsTypeOK /\ ResultsOK
  <2>1. /\ packs \in [TestIds -> RowStates] /\ cases \in [TestIds -> Case]
        /\ runs \in [TestIds -> Run]
    BY DEF Init, TestsInit, RowStates, Case, Run, TestIds, RunStatus, Verdicts
  <2>2. results = [i \in TestIds |-> NoResult]
    BY DEF Init, TestsInit
  <2> QED BY <2>1, <2>2 DEF TestsTypeOK, Result, NoResult, ResultsOK
<1> QED BY <1>3, <1>5, <1>6, <1>8, <1>9, <1>11, <1>12, <1>13
        DEF TypeOK, DataTypeOK, WorkInv, Ops, Calls, Memory

\* Every step keeps types and invariant.
LEMMA NextOK == TypeOK /\ WorkInv /\ [Next]_vars => TypeOK' /\ WorkInv'
<1> SUFFICES ASSUME TypeOK, WorkInv, [Next]_vars PROVE TypeOK' /\ WorkInv'
  OBVIOUS
<1>1. CASE UNCHANGED vars
  <2>1. \A i \in Ids : LogOK(i)'
    BY <1>1, LogsStay DEF vars, dataVars
  <2>2. Grows /\ proc' = proc
    BY <1>1 DEF Grows, vars, dataVars, testVars
  <2>3. \A p \in Requests : RequestOK(p)'
    BY <2>2, WaitingOK DEF WorkInv
  <2>4. HeldByStats'
    BY <1>1 DEF WorkInv, HeldByStats, At, vars, dataVars
  <2>5. OneQueryPerRef' /\ ResultsOK' /\ LinkedIsStored'
    BY <1>1 DEF WorkInv, OneQueryPerRef, ResultsOK, LinkedIsStored, vars, dataVars, testVars
  <2>6. TypeOK'
    BY <1>1 DEF TypeOK, ReqsType, DataTypeOK, TestsTypeOK, vars, dataVars, testVars
  <2> QED BY <2>1, <2>3, <2>4, <2>5, <2>6 DEF WorkInv
<1>2. ASSUME NEW q \in Requests, UNCHANGED testVars,
             (\E op \in workload \cap DataOps : DataStart(q, op)) \/ DataStep(q)
      PROVE  TypeOK' /\ WorkInv'
  <2>1. ASSUME NEW op \in DataOps, DataStart(q, op) PROVE TypeOK' /\ WorkInv'
    BY <1>2, <2>1, DbArrives, QueryArrives, LinkArrives DEF DataStart
  <2>2. CASE DataAborts(q)
    BY <1>2, <2>2, AbortSteps DEF DataAborts
  <2>3. CASE DataStep(q) /\ ~DataAborts(q)
    BY <1>2, <2>3, DbSteps, QuerySteps, LinkSteps DEF DataStep
  <2> QED BY <1>2, <2>1, <2>2, <2>3
<1>3. ASSUME NEW q \in Requests, UNCHANGED dataVars,
             (\E op \in workload \cap TestOps : TestStart(q, op)) \/ TestStep(q)
      PROVE  TypeOK' /\ WorkInv'
  <2>1. ASSUME NEW op \in TestOps, TestStart(q, op) PROVE TypeOK' /\ WorkInv'
    BY <1>3, <2>1, TestArrives
  <2>2. CASE TestAborts(q)
    <3>1. Busy(q) /\ proc[q].op \in TestOps /\ Aborts(q) /\ UNCHANGED testVars
      BY <2>2 DEF TestAborts, Aborts, Op
    <3>2. proc[q].op \notin LinkOps
      BY <3>1 DEF TestOps, PackOps, CaseOps, RunOps, LinkOps
    <3>3. ~Counts(q)
      BY <3>1, <3>2, KindOfCall DEF Counts, At, FirstCall, LinkCalls, LinkOK
    <3>4. held' = held \ {q}
      BY <1>3, <3>3 DEF WorkInv, HeldByStats, Counts, dataVars
    <3> QED BY <1>3, <3>1, <3>4, AbortSteps DEF dataVars
  <2>3. CASE TestStep(q) /\ ~TestAborts(q)
    BY <1>3, <2>3, CaseSteps, RunSteps, ResultSteps DEF TestStep
  <2> QED BY <1>3, <2>1, <2>2, <2>3
<1>4. CASE Next
  BY <1>2, <1>3, <1>4 DEF Next
<1> QED BY <1>1, <1>4

\* Rows, requests and what the requests hold have their types whatever requests
\* there are, however they overlap and wherever they are cut short (ServiceData,
\* ServiceTests).
THEOREM WorkspaceTypeCorrect == Spec => []TypeOK
<1>1. Spec => [](TypeOK /\ WorkInv)
  BY InitOK, NextOK, PTL DEF Spec
<1> QED BY <1>1, PTL

\* What a service page lists has a row and a stored file, and connections are
\* held by the statistics under way alone, wherever requests are cut short
\* (handleCreateServiceDoc, handleCreateServiceDiagram, ListServiceStats).
THEOREM CutShortAnywhere == Spec => []CutShortIsSafe
<1>1. Spec => [](TypeOK /\ WorkInv)
  BY InitOK, NextOK, PTL DEF Spec
<1>2. WorkInv => CutShortIsSafe
  BY DEF WorkInv, CutShortIsSafe
<1> QED BY <1>1, <1>2, PTL

-----------------------------------------------------------------------------
(* What is reported twice counts once.                                      *)

\* At most one live query per reference, counted.
LEMMA OneSynced == TypeOK /\ WorkInv => SyncedOnce
<1> SUFFICES ASSUME OneQueryPerRef, NEW r \in Refs PROVE Cardinality(Synced(r)) <= 1
  BY DEF WorkInv, SyncedOnce
<1>1. r # None
  BY ServiceDataAssumption
<1>2. \A i, j \in Synced(r) : i = j
  BY <1>1 DEF Synced, OneQueryPerRef
<1>3. CASE Synced(r) = {}
  BY <1>3, FS_EmptySet
<1>4. CASE Synced(r) # {}
  <2>1. PICK i : i \in Synced(r)
    BY <1>4
  <2>2. Synced(r) = {i}
    BY <1>2, <2>1
  <2> QED BY <2>2, FS_Singleton
<1> QED BY <1>3, <1>4

\* The sizes of two disjoint finite sets add up.
LEMMA DisjointSizes ==
    ASSUME NEW S, NEW T, IsFiniteSet(S), IsFiniteSet(T), S \cap T = {}
    PROVE  IsFiniteSet(S \cup T) /\ Cardinality(S \cup T) = Cardinality(S) + Cardinality(T)
<1>1. Cardinality(S \cap T) = 0
  BY FS_EmptySet
<1>2. IsFiniteSet(S \cup T)
      /\ Cardinality(S \cup T) = Cardinality(S) + Cardinality(T) - Cardinality(S \cap T)
  BY FS_Union
<1>3. Cardinality(S) \in Nat /\ Cardinality(T) \in Nat
  BY FS_CardinalityType
<1> QED BY <1>1, <1>2, <1>3

\* A run has at most as many results as there are cases, whatever they say.
LEMMA SummaryFits == TypeOK /\ WorkInv => SummaryWithinCases
<1> SUFFICES ASSUME TypeOK, ResultsOK, NEW r \in TestIds
             PROVE  ListTestRunsSummary(r, "passed") + ListTestRunsSummary(r, "failed")
                    + ListTestRunsSummary(r, "skipped") + ListTestRunsSummary(r, "blocked")
                        <= Cardinality({c \in TestIds : cases[c].state # "absent"})
  BY DEF WorkInv, SummaryWithinCases
<1> DEFINE R == ResultsOf(r)
           C == {c \in TestIds : cases[c].state # "absent"}
           P == {i \in R : results[i].status = "passed"}
           F == {i \in R : results[i].status = "failed"}
           S == {i \in R : results[i].status = "skipped"}
           B == {i \in R : results[i].status = "blocked"}
           all == ((P \cup F) \cup S) \cup B
<1>1. IsFiniteSet(TestIds)
  BY ServiceTestsAssumption, FS_AddElement DEF TestIds
<1>2. P \subseteq TestIds /\ F \subseteq TestIds /\ S \subseteq TestIds /\ B \subseteq TestIds
      /\ C \subseteq TestIds
  BY DEF ResultsOf
<1>3. P \cap F = {} /\ (P \cup F) \cap S = {} /\ ((P \cup F) \cup S) \cap B = {}
  OBVIOUS
<1>4. \A i \in all : results[i].case \in C /\ i \in TestIds /\ results[i].state = "live"
                     /\ results[i].run = r
  <2>1. \A i \in TestIds : results[i].state = "live" => results[i].case \in TestIds
    BY DEF TypeOK, TestsTypeOK, Result, NoResult
  <2> QED BY <2>1 DEF ResultsOf, ResultsOK
<1>5. \A i, j \in all : results[i].case = results[j].case => i = j
  BY <1>4 DEF ResultsOK
<1>6. /\ ListTestRunsSummary(r, "passed") = Cardinality(P)
      /\ ListTestRunsSummary(r, "failed") = Cardinality(F)
      /\ ListTestRunsSummary(r, "skipped") = Cardinality(S)
      /\ ListTestRunsSummary(r, "blocked") = Cardinality(B)
  BY DEF ListTestRunsSummary
<1>7. \A i \in all : results[i].case \in C
  BY <1>4
<1>8. [i \in all |-> results[i].case] \in [all -> C]
  BY <1>7
<1> HIDE DEF R, C, P, F, S, B
<1>9. IsFiniteSet(P) /\ IsFiniteSet(F) /\ IsFiniteSet(S) /\ IsFiniteSet(B) /\ IsFiniteSet(C)
  BY <1>1, <1>2, FS_Subset
<1>10. IsFiniteSet(P \cup F) /\ Cardinality(P \cup F) = Cardinality(P) + Cardinality(F)
  BY <1>3, <1>9, DisjointSizes
<1>11. /\ IsFiniteSet((P \cup F) \cup S)
       /\ Cardinality((P \cup F) \cup S) = Cardinality(P \cup F) + Cardinality(S)
  BY <1>3, <1>9, <1>10, DisjointSizes
<1>12. IsFiniteSet(all) /\ Cardinality(all) = Cardinality((P \cup F) \cup S) + Cardinality(B)
  BY <1>3, <1>9, <1>11, DisjointSizes
<1>13. Cardinality(all) <= Cardinality(C)
  <2> DEFINE f == [i \in all |-> results[i].case]
  <2>1. Cardinality(all) \in Nat /\ Cardinality(C) \in Nat
    BY <1>9, <1>12, FS_CardinalityType
  <2>2. ASSUME Cardinality(C) < Cardinality(all) PROVE FALSE
    <3>1. \E x, y \in all : x # y /\ f[x] = f[y]
      <4> HIDE DEF all, f
      <4>1. f \in [all -> C]
        BY <1>8 DEF f
      <4> QED BY <1>9, <1>12, <2>2, <4>1, FS_PigeonHole
    <3> QED BY <1>5, <3>1
  <2> QED BY <2>1, <2>2
<1>14. Cardinality(P) \in Nat /\ Cardinality(F) \in Nat /\ Cardinality(S) \in Nat
       /\ Cardinality(B) \in Nat /\ Cardinality(C) \in Nat
  BY <1>9, FS_CardinalityType
<1>15. Cardinality(all) = Cardinality(P) + Cardinality(F) + Cardinality(S) + Cardinality(B)
  BY <1>10, <1>11, <1>12, <1>14
<1> QED BY <1>6, <1>13, <1>15 DEF C

\* Syncs of one saved query and reports of one test case that overlap or come
\* again count once (UpsertSavedQueryBySourceRef, CreateTestRunResult,
\* ListTestRunsSummary).
THEOREM ReportsCountOnce == Spec => []ReportedOnce
<1>1. Spec => [](TypeOK /\ WorkInv)
  BY InitOK, NextOK, PTL DEF Spec
<1>2. TypeOK /\ WorkInv => ReportedOnce
  BY OneSynced, SummaryFits DEF ReportedOnce
<1> QED BY <1>1, <1>2, PTL

-----------------------------------------------------------------------------
(* The versions of a database are a log.                                    *)

\* A request that arrives changes no table and no file.
LEMMA StartsChangeNothing ==
    ASSUME NEW q \in Requests, NEW op, DataStart(q, op)
    PROVE  UNCHANGED dataVars
<1>1. CASE op \in DbOps /\ DbStart(q, op)
  <2>1. CASE op = "createDB"
    BY <1>1, <2>1 DEF DbStart, StartDb
  <2>2. CASE op \in {"updateDB", "createDBVersion"}
    BY <1>1, <2>2 DEF DbStart, StartDb
  <2>3. CASE op = "deleteDB"
    BY <1>1, <2>3 DEF DbStart, StartDb
  <2>4. CASE op = "restoreDBVersion"
    BY <1>1, <2>4 DEF DbStart, StartDb
  <2> QED BY <1>1, <2>1, <2>2, <2>3, <2>4 DEF DbOps
<1>2. CASE QueryStart(q, op)
  BY <1>2 DEF QueryStart, StartQuery
<1>3. CASE LinkStart(q, op)
  BY <1>3 DEF LinkStart, StartLink
<1> QED BY <1>1, <1>2, <1>3 DEF DataStart

\* Only CreateServiceDBVersion changes the versions, and it adds one whose
\* number is free and follows one of its database.
LEMMA DbVersionsGrow ==
    ASSUME TypeOK, WorkInv, [Next]_vars, versions' # versions
    PROVE  \E i \in Ids, n \in Nat, s \in Schemas :
              /\ Follows(i, n) /\ ~\E v \in VersionsOf(i) : v.number = n
              /\ versions' = versions \cup {[db |-> i, number |-> n, schema |-> s]}
<1>1. ~UNCHANGED dataVars /\ ~UNCHANGED vars
  BY DEF dataVars, vars
<1>2. PICK q \in Requests : (\E op \in workload \cap DataOps : DataStart(q, op)) \/ DataStep(q)
  BY <1>1 DEF Next
<1>3. CreateServiceDBVersion(q)
  <2>1. ASSUME NEW op, DataStart(q, op) PROVE FALSE
    BY <1>1, <2>1, StartsChangeNothing
  <2>2. CASE DataStep(q)
    BY <2>2 DEF DataStep, CreateServiceDB, GetServiceDB, UpdateServiceDB, SoftDeleteServiceDB,
       GetServiceDBVersion, CreateServiceDBVersionSnapshot, SnapshotFails, EnsureDBInService,
       CreateSavedQueryFolder, GetSavedQueryFolder, ClearFolder, SoftDeleteSavedQueryFolder,
       CreateSavedQuery, GetSavedQuery, UpdateSavedQuery, SoftDeleteSavedQuery,
       UpsertSavedQueryBySourceRef, InsertContent, GetContent, CreateServiceLink,
       GetServiceLink, SoftDeleteServiceLink, ListServiceStats, ServiceStatsForID,
       UploadContent, CloseRows, DataAborts, dataVars
  <2> QED BY <1>2, <2>1, <2>2
<1>4. Busy(q) /\ FirstCall(q) = "insertVersion" /\ DbOK(q)
  <2>1. Busy(q) /\ FirstCall(q) = "insertVersion"
    BY <1>3 DEF CreateServiceDBVersion, At, Busy, FirstCall
  <2> QED BY <2>1, KindOfCall DEF DbCalls
<1>5. PICK i \in Ids, n \in Nat, s \in Schemas :
         /\ i = Mem(q).id /\ n = Mem(q).number /\ s = Mem(q).schema /\ Follows(i, n)
  BY <1>4 DEF DbOK, DbMemory, Mem
<1>6. versions' = versions \cup IF \E v \in VersionsOf(i) : v.number = n THEN {}
                                ELSE {[db |-> i, number |-> n, schema |-> s]}
  BY <1>3, <1>5 DEF CreateServiceDBVersion
<1> QED BY <1>5, <1>6

Entry(v) == [doc |-> v.db, number |-> v.number, value |-> v.schema]
Entries == {Entry(v) : v \in versions}

\* The entries of a document are the versions of the database.
LEMMA EntriesOf ==
    ASSUME TypeOK, NEW d
    PROVE  /\ \A e \in DbLog!Of(d) : \E v \in VersionsOf(d) : e = Entry(v)
           /\ \A v \in VersionsOf(d) : Entry(v) \in DbLog!Of(d)
           /\ \A v : Entry(v).number = v.number
           /\ DbLog!Used(d) = {v.number : v \in VersionsOf(d)}
<1>1. DbLog!Of(d) = {e \in Entries : e.doc = d}
  BY DEF DbLog!Of, Entries, Entry
<1>2. \A v : Entry(v).number = v.number /\ Entry(v).doc = v.db
  BY DEF Entry
<1>3. \A e \in DbLog!Of(d) : \E v \in VersionsOf(d) : e = Entry(v)
  BY <1>1, <1>2 DEF Entries, VersionsOf
<1>4. \A v \in VersionsOf(d) : Entry(v) \in DbLog!Of(d)
  BY <1>1, <1>2 DEF Entries, VersionsOf
<1>5. DbLog!Used(d) = {e.number : e \in DbLog!Of(d)}
  BY DEF DbLog!Used
<1>6. DbLog!Used(d) \subseteq {v.number : v \in VersionsOf(d)}
  BY <1>2, <1>3, <1>5
<1>7. ASSUME NEW v \in VersionsOf(d) PROVE v.number \in DbLog!Used(d)
  BY <1>2, <1>4, <1>5
<1> QED BY <1>2, <1>3, <1>4, <1>6, <1>7

\* A log of versions, as LogOK has it, is a log that may have been there.
LEMMA DbLogInit == TypeOK /\ WorkInv => DbLog!Init
<1> SUFFICES ASSUME TypeOK, WorkInv PROVE DbLog!Init
  OBVIOUS
<1>1. ASSUME NEW d \in Ids, NEW e \in DbLog!Of(d)
      PROVE  /\ e.number \in Nat \ {0} /\ (e.number = 1 \/ e.number - 1 \in DbLog!Used(d))
             /\ \A f \in DbLog!Of(d) : f.number = e.number => f = e
  <2>1. LogOK(d)
    BY DEF WorkInv
  <2>2. PICK v \in VersionsOf(d) : e = Entry(v) /\ e.number = v.number
    BY EntriesOf
  <2>3. e.number \in Nat \ {0} /\ (e.number = 1 \/ e.number - 1 \in DbLog!Used(d))
    BY <2>1, <2>2, EntriesOf DEF LogOK, Follows
  <2>4. ASSUME NEW f \in DbLog!Of(d), f.number = e.number PROVE f = e
    <3>1. PICK w \in VersionsOf(d) : f = Entry(w) /\ f.number = w.number
      BY EntriesOf
    <3>2. v = w
      BY <2>1, <2>2, <2>4, <3>1 DEF LogOK
    <3> QED BY <2>2, <3>1, <3>2
  <2> QED BY <2>3, <2>4
<1>2. \A v \in versions : v.schema \in Schemas /\ Entry(v).value = v.schema
  BY DEF TypeOK, DataTypeOK, Version, Entry
<1>3. {e.value : e \in Entries} \subseteq Schemas
  BY <1>2 DEF Entries
<1> QED BY <1>1, <1>3 DEF DbLog!Init, Entries, Entry

\* Every step appends to the log of one database or leaves all of them alone.
LEMMA DbLogNext == TypeOK /\ WorkInv /\ [Next]_vars => [DbLog!Next]_Entries
<1> SUFFICES ASSUME TypeOK, WorkInv, [Next]_vars, Entries' # Entries PROVE DbLog!Next
  OBVIOUS
<1>1. versions' # versions
  BY DEF Entries
<1>2. PICK i \in Ids, n \in Nat, s \in Schemas :
         /\ Follows(i, n) /\ ~\E v \in VersionsOf(i) : v.number = n
         /\ versions' = versions \cup {[db |-> i, number |-> n, schema |-> s]}
  BY <1>1, DbVersionsGrow
<1>3. Entries' = Entries \cup {[doc |-> i, number |-> n, value |-> s]}
  <2>1. Entry([db |-> i, number |-> n, schema |-> s]) = [doc |-> i, number |-> n, value |-> s]
    BY DEF Entry
  <2>2. Entries' = {Entry(v) : v \in versions'}
    BY DEF Entries, Entry
  <2> QED BY <1>2, <2>1, <2>2 DEF Entries
<1>4. DbLog!Used(i) = {v.number : v \in VersionsOf(i)}
  BY EntriesOf
<1>5. n \in ({1} \cup {k + 1 : k \in DbLog!Used(i)}) \ DbLog!Used(i)
  <2>1. n \notin DbLog!Used(i)
    BY <1>2, <1>4
  <2>2. n = 1 \/ \E k \in DbLog!Used(i) : k = n - 1
    BY <1>2, <1>4 DEF Follows
  <2>3. n = 1 \/ \E k \in DbLog!Used(i) : n = k + 1
    BY <2>2
  <2> QED BY <2>1, <2>3
<1>6. DbLog!Append(i, s)
  BY <1>3, <1>5 DEF DbLog!Append, Entries, Entry
<1> QED BY <1>6 DEF DbLog!Next

\* Although the next number is read in one statement and used in another, the
\* versions of every database are numbered without a gap or a repetition, grow
\* only at the end and are never rewritten: Workspace implements VersionLog
\* (CreateServiceDBVersionSnapshot, CreateServiceDBVersion).
THEOREM DbVersionsAreALog == Spec => DbVersionsRefineLog
<1>1. Init => DbLog!Init
  BY InitOK, DbLogInit
<1>2. TypeOK /\ WorkInv /\ [Next]_vars =>
         [DbLog!Next]_{[doc |-> v.db, number |-> v.number, value |-> v.schema] : v \in versions}
  BY DbLogNext DEF Entries, Entry
<1> QED BY <1>1, <1>2, InitOK, NextOK, PTL DEF Spec, DbVersionsRefineLog, DbLog!Spec

-----------------------------------------------------------------------------
(* Requests that run alone.                                                 *)

\* A request that has nothing to do relies on nothing.
LEMMA IdleAlone ==
    ASSUME NEW p \in Requests, proc'[p].todo = <<>>
    PROVE  AloneOK(p)' /\ ~Pending(p)' /\ ~Busy(p)'
BY DEF AloneOK, DbAlone, FolderAlone, TestAlone, Pending, At, Busy

\* While q runs alone, all others are idle and q holds what AloneOK says.
LEMMA AloneBefore ==
    ASSUME CleanInv, clean, NEW q \in Requests, Busy(q)
    PROVE  /\ \A p \in Requests \ {q} : proc[p].todo = <<>>
           /\ AloneOK(q)
           /\ \A i \in Ids : LiveDb(i) => Versioned(i) \/ (Pending(q) /\ Mem(q).id = i)
<1>1. \A p \in Requests \ {q} : ~Busy(p)
  BY DEF CleanInv
<1>2. \A p \in Requests \ {q} : ~Pending(p)
  BY <1>1 DEF Pending
<1> QED BY <1>1, <1>2 DEF CleanInv, Busy

\* It is enough to look at the request that takes the step.
LEMMA CleanKeeps ==
    ASSUME NEW q \in Requests,
           \A p \in Requests \ {q} : proc'[p].todo = <<>>,
           AloneOK(q)',
           \A i \in Ids : LiveDb(i)' => Versioned(i)' \/ (Pending(q)' /\ proc'[q].mem.id = i)
    PROVE  CleanInv'
<1>1. \A p \in Requests \ {q} : AloneOK(p)' /\ ~Pending(p)' /\ ~Busy(p)'
  BY IdleAlone
<1>2. \A p \in Requests : AloneOK(p)'
  BY <1>1
<1>3. \A p, r \in Requests : Busy(p)' /\ Busy(r)' => p = r
  BY <1>1
<1> QED BY <1>2, <1>3 DEF CleanInv, Mem

\* A schema that is a version's remains one.
LEMMA VersionedStay ==
    ASSUME NEW i \in Ids, Versioned(i), dbs'[i].schema = dbs[i].schema, versions \subseteq versions'
    PROVE  Versioned(i)'
BY DEF Versioned, VersionsOf

\* A step of a request that is not about databases.
LEMMA OtherStepClean ==
    ASSUME TypeOK, CleanInv, clean, NEW q \in Requests, Busy(q),
           NEW u, NEW m, Now(q, u, m), proc[q].op \notin DbOps,
           u # <<>> => Head(u) \notin {"saveDB", "insertVersion"},
           UNCHANGED <<dbs, versions>>, FolderAlone(q)', TestAlone(q)'
    PROVE  CleanInv'
<1>1. /\ \A p \in Requests \ {q} : proc[p].todo = <<>>
      /\ \A i \in Ids : LiveDb(i) => Versioned(i) \/ (Pending(q) /\ Mem(q).id = i)
  BY AloneBefore
<1>2. /\ proc'[q].op = proc[q].op /\ proc'[q].todo = u
      /\ \A p \in Requests \ {q} : proc'[p] = proc[p]
  BY NowIs
<1>3. ~Pending(q) /\ ~Pending(q)' /\ proc'[q].op # "restoreDBVersion"
  BY <1>2 DEF Pending, Op, DbOps
<1>4. DbAlone(q)'
  BY <1>2, <1>3 DEF DbAlone, At, Op
<1>5. \A i \in Ids : LiveDb(i)' => Versioned(i)'
  BY <1>1, <1>3 DEF LiveDb, Versioned, VersionsOf
<1>6. AloneOK(q)'
  BY <1>4 DEF AloneOK
<1> QED BY <1>1, <1>2, <1>5, <1>6, CleanKeeps

\* A step of a request about databases.
LEMMA DbStepClean ==
    ASSUME TypeOK, CleanInv, clean, NEW q \in Requests, Busy(q), DbOK(q),
           NEW u, u = <<>> \/ u \in DbLeft(proc[q].op), NEW m, Now(q, u, m),
           DbAlone(q)',
           \A i \in Ids : LiveDb(i)' => Versioned(i)' \/ (Pending(q)' /\ proc'[q].mem.id = i)
    PROVE  CleanInv'
<1>1. \A p \in Requests \ {q} : proc[p].todo = <<>>
  BY AloneBefore
<1>2. proc'[q].todo = u /\ \A p \in Requests \ {q} : proc'[p] = proc[p]
  BY NowIs
<1>3. u # <<>> => Head(u) \in DbCalls
  BY DbTail DEF DbOK
<1>4. FolderAlone(q)' /\ TestAlone(q)'
  BY <1>2, <1>3 DEF FolderAlone, TestAlone, At, DbCalls
<1>5. AloneOK(q)'
  BY <1>4 DEF AloneOK
<1> QED BY <1>1, <1>2, <1>5, CleanKeeps

\* The same, when q is done.
LEMMA DbEndClean ==
    ASSUME TypeOK, CleanInv, clean, NEW q \in Requests, Busy(q), DbOK(q),
           NEW m, Now(q, <<>>, m), \A i \in Ids : LiveDb(i)' => Versioned(i)'
    PROVE  CleanInv'
<1>1. proc'[q].todo = <<>>
  BY NowIs
<1>2. DbAlone(q)'
  BY <1>1, IdleAlone DEF AloneOK
<1> QED BY <1>2, DbStepClean

\* Steps of database handlers that run alone.
LEMMA DbClean ==
    ASSUME TypeOK, WorkInv, CleanInv, clean, clean', NEW q \in Requests,
           \/ CreateServiceDB(q) \/ GetServiceDB(q) \/ UpdateServiceDB(q) \/ SoftDeleteServiceDB(q)
           \/ GetServiceDBVersion(q) \/ CreateServiceDBVersionSnapshot(q)
           \/ CreateServiceDBVersion(q) \/ SnapshotFails(q)
    PROVE  CleanInv'
<1> DEFINE op == proc[q].op
           t == proc[q].todo
           m == proc[q].mem
<1> USE ServiceDataAssumption
<1>1. Busy(q) /\ FirstCall(q) \in DbCalls
  BY DEF CreateServiceDB, GetServiceDB, UpdateServiceDB, SoftDeleteServiceDB,
     GetServiceDBVersion, CreateServiceDBVersionSnapshot, CreateServiceDBVersion,
     SnapshotFails, At, Busy, FirstCall, DbCalls
<1>2. DbOK(q)
  BY <1>1, KindOfCall
<1>3. /\ op \in DbOps /\ t \in DbLeft(op) /\ m \in DbMemory
      /\ t # <<>> /\ DbNext(op, FirstCall(q), Tail(t)) /\ Tail(t) \in DbLeft(op) \cup {<<>>}
  BY <1>2, DbTail DEF DbOK, DbMemory, DbNext, FirstCall
<1>4. PICK i \in Ids : i = m.id
  BY <1>3 DEF DbMemory
<1>5. dbs \in [Ids -> Db] /\ versions \subseteq Version
  BY DEF TypeOK, DataTypeOK
<1>6. /\ DbAlone(q)
      /\ \A j \in Ids : LiveDb(j) => Versioned(j) \/ (Pending(q) /\ i = j)
  BY <1>1, <1>4, AloneBefore DEF AloneOK, Mem
<1>7. ~Pending(q) => \A j \in Ids : LiveDb(j) => Versioned(j)
  BY <1>6
<1>8. ASSUME dbs' = dbs, versions \subseteq versions', ~Pending(q)
      PROVE  \A j \in Ids : LiveDb(j)' => Versioned(j)'
  BY <1>7, <1>8, VersionedStay DEF LiveDb
<1>9. ASSUME Ends(q), dbs' = dbs, versions' = versions, ~Pending(q) PROVE CleanInv'
  <2>1. Now(q, <<>>, NoMem)
    BY <1>9, FrameSteps
  <2>2. \A j \in Ids : LiveDb(j)' => Versioned(j)'
    BY <1>8, <1>9
  <2> QED BY <1>1, <1>2, <2>1, <2>2, DbEndClean
<1>10. ASSUME GetServiceDB(q) PROVE CleanInv'
  <2>1. /\ FirstCall(q) = "getDB" /\ dbs' = dbs /\ versions' = versions /\ ~Pending(q)
    BY <1>10 DEF GetServiceDB, At, FirstCall, dataVars, Pending
  <2>2. CASE LiveDb(i)
    <3>1. PICK w : w = MergedDb(m)
      OBVIOUS
    <3>2. Now(q, Tail(t), w)
      BY <1>4, <1>10, <2>2, <3>1, FrameSteps DEF GetServiceDB, Mem
    <3>3. w.id = i /\ w.prev = dbs[i].schema /\ (m.schema = None => w.schema = dbs[i].schema)
      BY <1>3, <1>4, <3>1 DEF MergedDb, DbMemory
    <3>4. Tail(t) # <<>> /\ Head(Tail(t)) = IF op = "restoreDBVersion" THEN "getVersion"
                                            ELSE IF op = "deleteDB" THEN "deleteDB" ELSE "saveDB"
      BY <1>3, <2>1 DEF DbNext
    <3>5. op = "restoreDBVersion" => m.schema = None
      BY <1>2, <2>1 DEF DbOK, Op, Mem
    <3>6. proc'[q].op = op /\ proc'[q].todo = Tail(t) /\ proc'[q].mem = w
      BY <3>2, <3>4, NowHolds
    <3>7. DbAlone(q)'
      BY <2>1, <2>2, <3>3, <3>4, <3>5, <3>6 DEF DbAlone, Pending, At, Op, Mem, FirstCall, LiveDb
    <3>8. \A j \in Ids : LiveDb(j)' => Versioned(j)'
      BY <1>8, <2>1
    <3> QED BY <1>1, <1>2, <1>3, <3>2, <3>7, <3>8, DbStepClean
  <2>3. CASE ~LiveDb(i)
    <3>1. Ends(q)
      BY <1>4, <1>10, <2>3 DEF GetServiceDB, Mem
    <3> QED BY <1>9, <2>1, <3>1
  <2> QED BY <2>2, <2>3
<1>11. ASSUME CreateServiceDB(q) PROVE CleanInv'
  <2>1. /\ FirstCall(q) = "insertDB" /\ versions' = versions /\ ~Pending(q)
    BY <1>11 DEF CreateServiceDB, At, FirstCall, Pending
  <2>2. CASE DbNameTaken(m.id, m.name)
    <3>1. Ends(q) /\ dbs' = dbs
      BY <1>11, <2>2 DEF CreateServiceDB, Mem
    <3> QED BY <1>9, <2>1, <3>1
  <2>3. CASE ~DbNameTaken(m.id, m.name)
    <3>1. PICK w : w = m
      OBVIOUS
    <3>2. /\ Now(q, Tail(t), w)
          /\ dbs' = [dbs EXCEPT ![i] = [state |-> "live", name |-> w.name, schema |-> w.schema]]
      BY <1>4, <1>11, <2>3, <3>1, FrameSteps DEF CreateServiceDB, Mem
    <3>3. /\ dbs'[i].schema = w.schema /\ w.id = i
          /\ \A j \in Ids \ {i} : dbs'[j] = dbs[j]
      BY <1>4, <1>5, <3>1, <3>2
    <3>4. Tail(t) # <<>> /\ Head(Tail(t)) = "latestVersion" /\ op = "createDB"
      BY <1>3, <2>1 DEF DbNext
    <3>5. proc'[q].op = op /\ proc'[q].todo = Tail(t) /\ proc'[q].mem = w
      BY <3>2, <3>4, NowHolds
    <3>6. DbAlone(q)' /\ Pending(q)'
      BY <3>3, <3>4, <3>5 DEF DbAlone, Pending, At, Op, Mem, FirstCall, Busy
    <3>7. \A j \in Ids : LiveDb(j)' => Versioned(j)' \/ j = i
      BY <1>7, <2>1, <3>3, VersionedStay DEF LiveDb
    <3> QED BY <1>1, <1>2, <1>3, <3>2, <3>3, <3>5, <3>6, <3>7, DbStepClean
  <2> QED BY <2>2, <2>3
<1>12. ASSUME SoftDeleteServiceDB(q) PROVE CleanInv'
  <2>1. /\ FirstCall(q) = "deleteDB" /\ versions' = versions /\ ~Pending(q)
        /\ dbs' = [dbs EXCEPT ![i].state = "deleted"]
    BY <1>4, <1>12 DEF SoftDeleteServiceDB, At, FirstCall, Pending, Mem
  <2>2. PICK w : w = m
    OBVIOUS
  <2>3. Now(q, <<>>, w)
    BY <1>3, <1>12, <2>1, <2>2, FrameSteps DEF SoftDeleteServiceDB, DbNext
  <2>4. dbs'[i].state = "deleted" /\ \A j \in Ids \ {i} : dbs'[j] = dbs[j]
    <3>1. dbs[i] \in [state : {"live", "deleted"}, name : DbNames, schema : Schemas]
      BY <1>2, <1>4, <1>5, <2>1 DEF Db, DbOK, Absent, Mem
    <3> QED BY <1>5, <2>1, <3>1
  <2>5. \A j \in Ids : LiveDb(j)' => Versioned(j)'
    BY <1>7, <2>1, <2>4, VersionedStay DEF LiveDb
  <2> QED BY <1>1, <1>2, <2>3, <2>5, DbEndClean
<1>13. ASSUME GetServiceDBVersion(q) PROVE CleanInv'
  <2>1. /\ FirstCall(q) = "getVersion" /\ dbs' = dbs /\ versions' = versions /\ ~Pending(q)
    BY <1>13 DEF GetServiceDBVersion, At, FirstCall, Pending, dataVars
  <2>2. CASE Ends(q)
    BY <1>9, <2>1, <2>2
  <2>3. ASSUME NEW v \in VersionsOf(i), Keeps(q, [m EXCEPT !.want = v.schema]) PROVE CleanInv'
    <3>1. PICK w : w = [m EXCEPT !.want = v.schema]
      OBVIOUS
    <3>2. Now(q, Tail(t), w)
      BY <2>3, <3>1, FrameSteps
    <3>3. w.id = i /\ w.schema = m.schema /\ w.want = v.schema
      BY <1>3, <1>4, <3>1 DEF DbMemory
    <3>4. Tail(t) # <<>> /\ Head(Tail(t)) = "latestVersion" /\ op = "restoreDBVersion"
      BY <1>3, <2>1 DEF DbNext
    <3>5. proc'[q].op = op /\ proc'[q].todo = Tail(t) /\ proc'[q].mem = w
      BY <3>2, <3>4, NowHolds
    <3>6. m.schema = dbs[i].schema
      BY <1>1, <1>4, <1>6, <2>1, <3>4 DEF DbAlone, At, Op, Mem, FirstCall
    <3>7. v \in VersionsOf(i)'
      BY <2>1 DEF VersionsOf
    <3>8. DbAlone(q)'
      BY <2>1, <3>3, <3>4, <3>5, <3>6, <3>7 DEF DbAlone, Pending, At, Op, Mem, FirstCall, VersionsOf
    <3>9. \A j \in Ids : LiveDb(j)' => Versioned(j)'
      BY <1>8, <2>1
    <3> QED BY <1>1, <1>2, <1>3, <3>2, <3>8, <3>9, DbStepClean
  <2> QED BY <1>4, <1>13, <2>2, <2>3 DEF GetServiceDBVersion, Mem
<1>14. ~SnapshotFails(q)
  BY DEF SnapshotFails, Skips
<1>15. ASSUME CreateServiceDBVersionSnapshot(q) PROVE CleanInv'
  <2>1. /\ FirstCall(q) = "latestVersion" /\ dbs' = dbs /\ versions' = versions
    BY <1>15 DEF CreateServiceDBVersionSnapshot, At, FirstCall, dataVars
  <2>2. PICK n : n = LatestServiceDBVersionNumber(i) + 1
    OBVIOUS
  <2>3. \A v \in VersionsOf(i) : v.number < n
    <3>1. /\ LatestServiceDBVersionNumber(i) \in Nat
          /\ VersionsOf(i) # {} => \E v \in VersionsOf(i) :
                /\ v.number = LatestServiceDBVersionNumber(i)
                /\ \A w \in VersionsOf(i) : w.number <= v.number
      BY LatestNumber DEF WorkInv
    <3>2. \A v \in VersionsOf(i) : v.number \in Nat
      BY <1>5 DEF VersionsOf, Version
    <3> QED BY <2>2, <3>1, <3>2
  <2>4. PICK w : w = [m EXCEPT !.number = n]
    OBVIOUS
  <2>5. Now(q, Tail(t), w)
    BY <1>4, <1>15, <2>2, <2>4, FrameSteps DEF CreateServiceDBVersionSnapshot, Mem
  <2>6. w.id = i /\ w.schema = m.schema /\ w.want = m.want /\ w.number = n
    BY <1>3, <1>4, <2>4 DEF DbMemory
  <2>7. Tail(t) # <<>> /\ Head(Tail(t)) = "insertVersion"
    BY <1>3, <2>1 DEF DbNext
  <2>8. proc'[q].op = op /\ proc'[q].todo = Tail(t) /\ proc'[q].mem = w
    BY <2>5, <2>7, NowHolds
  <2>9. Pending(q)' <=> Pending(q)
    BY <1>1, <2>1, <2>7, <2>8 DEF Pending, Busy, FirstCall, Op
  <2>10. /\ Pending(q) => dbs[i].schema = m.schema
         /\ op = "restoreDBVersion" => /\ m.schema = dbs[i].schema
                                       /\ \E v \in VersionsOf(i) : v.schema = m.want
    BY <1>1, <1>4, <1>6, <2>1 DEF DbAlone, At, Op, Mem, FirstCall
  <2>11. VersionsOf(i)' = VersionsOf(i)
    BY <2>1 DEF VersionsOf
  <2>12. DbAlone(q)'
    BY <2>1, <2>3, <2>6, <2>7, <2>8, <2>9, <2>10, <2>11 DEF DbAlone, At, Op, Mem, VersionsOf
  <2>13. \A j \in Ids : LiveDb(j)' => Versioned(j)' \/ (Pending(q)' /\ proc'[q].mem.id = j)
    BY <1>6, <2>1, <2>6, <2>8, <2>9, VersionedStay DEF LiveDb
  <2> QED BY <1>1, <1>2, <1>3, <2>5, <2>12, <2>13, DbStepClean
<1>16. ASSUME CreateServiceDBVersion(q) PROVE CleanInv'
  <2>1. FirstCall(q) = "insertVersion" /\ dbs' = dbs
    BY <1>16 DEF CreateServiceDBVersion, At, FirstCall
  <2>2. m.number \in Nat /\ \A v \in VersionsOf(i) : v.number < m.number /\ v.number \in Nat
    BY <1>1, <1>3, <1>4, <1>5, <1>6, <2>1 DEF DbAlone, At, Mem, FirstCall, VersionsOf, Version,
       DbMemory
  <2>3. PICK y : y = [db |-> i, number |-> m.number, schema |-> m.schema]
    OBVIOUS
  <2>4. versions' = versions \cup {y}
    <3>1. ~\E v \in VersionsOf(i) : v.number = m.number
      BY <2>2
    <3> QED BY <1>4, <1>16, <2>3, <3>1 DEF CreateServiceDBVersion, Mem
  <2>5. /\ VersionsOf(i)' = VersionsOf(i) \cup {y} /\ y.schema = m.schema
        /\ \A v \in VersionsOf(i)' : v.number <= y.number
    BY <2>2, <2>3, <2>4 DEF VersionsOf
  <2>6. PICK w : w = m
    OBVIOUS
  <2>7. Now(q, Tail(t), w)
    BY <1>16, <2>6, FrameSteps DEF CreateServiceDBVersion
  <2>8. CASE Tail(t) = <<>>
    <3>1. op \in {"createDB", "updateDB", "createDBVersion"}
      BY <1>3, <2>1, <2>8 DEF DbNext
    <3>2. dbs[i].schema = m.schema
      BY <1>1, <1>4, <1>6, <2>1, <3>1 DEF DbAlone, Pending, Mem, Op
    <3>3. Versioned(i)'
      BY <2>1, <2>5, <3>2 DEF Versioned
    <3>4. \A j \in Ids : LiveDb(j)' => Versioned(j)'
      BY <1>6, <2>1, <2>4, <3>3, VersionedStay DEF LiveDb
    <3> QED BY <1>1, <1>2, <2>7, <2>8, <3>4, DbEndClean
  <2>9. CASE Tail(t) # <<>>
    <3>1. op = "restoreDBVersion" /\ Head(Tail(t)) = "saveDB"
      BY <1>3, <2>1, <2>9 DEF DbNext
    <3>2. proc'[q].op = op /\ proc'[q].todo = Tail(t) /\ proc'[q].mem = w
      BY <2>7, <2>9, NowHolds
    <3>3. m.schema = dbs[i].schema /\ \E v \in VersionsOf(i)' : v.schema = m.want
      BY <1>1, <1>4, <1>6, <2>1, <2>5, <3>1 DEF DbAlone, At, Op, Mem, FirstCall
    <3>4. w.id = i /\ w.schema = m.schema /\ w.want = m.want
      BY <1>4, <2>6
    <3>5. DbAlone(q)'
      BY <2>1, <2>5, <2>9, <3>1, <3>2, <3>3, <3>4 DEF DbAlone, Pending, At, Op, Mem, VersionsOf
    <3>6. ~Pending(q)
      BY <3>1 DEF Pending, Op
    <3>7. \A j \in Ids : LiveDb(j)' => Versioned(j)'
      BY <1>8, <2>1, <2>4, <3>6
    <3> QED BY <1>1, <1>2, <1>3, <2>7, <3>5, <3>7, DbStepClean
  <2> QED BY <2>8, <2>9
<1>17. ASSUME UpdateServiceDB(q) PROVE CleanInv'
  <2> DEFINE schema == IF m.want = None THEN m.schema ELSE m.want
             wanted == op = "updateDB" => schema # m.prev
  <2>1. FirstCall(q) = "saveDB" /\ versions' = versions /\ ~Pending(q)
    BY <1>17 DEF UpdateServiceDB, At, FirstCall, Pending
  <2>2. PICK s : s = schema
    OBVIOUS
  <2>3. /\ op # "restoreDBVersion" => LiveDb(i) /\ s = m.schema
        /\ op = "updateDB" => m.prev = dbs[i].schema
        /\ op = "restoreDBVersion" => \E v \in VersionsOf(i) : v.schema = s
    <3>1. /\ op # "restoreDBVersion" => LiveDb(i)
          /\ op = "updateDB" => m.prev = dbs[i].schema
          /\ op = "restoreDBVersion" => \E v \in VersionsOf(i) : v.schema = m.want
      BY <1>1, <1>4, <1>6, <2>1 DEF DbAlone, At, Op, Mem, FirstCall, Busy
    <3>2. op # "restoreDBVersion" => m.want = None
      BY <1>2 DEF DbOK, Op, Mem
    <3>3. op = "restoreDBVersion" => m.want # None
      BY <1>5, <3>1 DEF VersionsOf, Version
    <3> QED BY <2>2, <3>1, <3>2, <3>3
  <2>4. CASE Ends(q) /\ dbs' = dbs
    BY <1>9, <2>1, <2>4
  <2>5. CASE ~(Ends(q) /\ dbs' = dbs)
    <3>1. /\ dbs' = IF LiveDb(i) THEN [dbs EXCEPT ![i].name = m.name, ![i].schema = s] ELSE dbs
          /\ IF wanted THEN Proceeds(q) ELSE Ends(q)
      BY <1>4, <1>17, <2>2, <2>5 DEF UpdateServiceDB, Mem, Op
    <3>2. /\ LiveDb(i) => dbs'[i].schema = s
          /\ \A j \in Ids \ {i} : dbs'[j] = dbs[j]
          /\ \A j \in Ids : LiveDb(j)' <=> LiveDb(j)
      <4>1. CASE LiveDb(i)
        <5>1. dbs[i] \in [state : {"live", "deleted"}, name : DbNames, schema : Schemas]
          BY <1>5, <4>1 DEF Db, LiveDb, Absent
        <5>2. dbs' = [dbs EXCEPT ![i].name = m.name, ![i].schema = s]
          BY <3>1, <4>1
        <5>3. dbs'[i].schema = s /\ dbs'[i].state = dbs[i].state /\ \A j \in Ids \ {i} : dbs'[j] = dbs[j]
          BY <1>5, <5>1, <5>2
        <5> QED BY <5>3 DEF LiveDb
      <4>2. CASE ~LiveDb(i)
        BY <3>1, <4>2 DEF LiveDb
      <4> QED BY <4>1, <4>2
    <3>3. \A j \in Ids \ {i} : LiveDb(j)' => Versioned(j)'
      BY <1>7, <2>1, <3>2, VersionedStay
    <3>4. CASE op = "restoreDBVersion"
      <4>1. PICK w : w = m
        OBVIOUS
      <4>2. Tail(t) = <<>>
        BY <1>3, <2>1, <3>4 DEF DbNext
      <4>3. Now(q, <<>>, w)
        BY <3>1, <3>4, <4>1, <4>2, FrameSteps
      <4>4. LiveDb(i)' => Versioned(i)'
        BY <2>1, <2>3, <3>2, <3>4 DEF Versioned, VersionsOf
      <4>5. \A j \in Ids : LiveDb(j)' => Versioned(j)'
        BY <3>3, <4>4
      <4> QED BY <1>1, <1>2, <4>3, <4>5, DbEndClean
    <3>5. CASE op # "restoreDBVersion" /\ ~wanted
      <4>1. Now(q, <<>>, NoMem)
        BY <3>1, <3>5, FrameSteps
      <4>2. s = dbs[i].schema
        BY <2>2, <2>3, <3>5
      <4>3. \A j \in Ids : LiveDb(j)' => Versioned(j)'
        BY <1>7, <2>1, <2>3, <3>2, <3>3, <3>5, <4>2, VersionedStay
      <4> QED BY <1>1, <1>2, <4>1, <4>3, DbEndClean
    <3>6. CASE op # "restoreDBVersion" /\ wanted
      <4>1. PICK w : w = m
        OBVIOUS
      <4>2. Now(q, Tail(t), w)
        BY <3>1, <3>6, <4>1, FrameSteps
      <4>3. /\ Tail(t) # <<>> /\ Head(Tail(t)) = "latestVersion"
            /\ op \in {"updateDB", "createDBVersion"}
        BY <1>3, <2>1, <3>6 DEF DbNext
      <4>4. proc'[q].op = op /\ proc'[q].todo = Tail(t) /\ proc'[q].mem = w
        BY <4>2, <4>3, NowHolds
      <4>5. w.id = i /\ dbs'[i].schema = w.schema
        BY <1>4, <2>3, <3>2, <3>6, <4>1
      <4>6. DbAlone(q)' /\ Pending(q)'
        BY <4>3, <4>4, <4>5 DEF DbAlone, Pending, At, Op, Mem, FirstCall, Busy
      <4> QED BY <1>1, <1>2, <1>3, <3>3, <4>2, <4>4, <4>5, <4>6, DbStepClean
    <3> QED BY <3>4, <3>5, <3>6
  <2> QED BY <2>4, <2>5
<1> QED BY <1>10, <1>11, <1>12, <1>13, <1>14, <1>15, <1>16, <1>17

\* Steps of handlers of saved queries that run alone.
LEMMA QueryClean ==
    ASSUME TypeOK, WorkInv, CleanInv, clean, NEW q \in Requests,
           \/ EnsureDBInService(q) \/ CreateSavedQueryFolder(q) \/ GetSavedQueryFolder(q)
           \/ ClearFolder(q) \/ SoftDeleteSavedQueryFolder(q) \/ CreateSavedQuery(q)
           \/ GetSavedQuery(q) \/ UpdateSavedQuery(q) \/ SoftDeleteSavedQuery(q)
           \/ UpsertSavedQueryBySourceRef(q)
    PROVE  CleanInv'
<1> DEFINE t == proc[q].todo
<1>1. Busy(q) /\ FirstCall(q) \in QueryCalls /\ (Proceeds(q) \/ Ends(q))
      /\ UNCHANGED <<dbs, versions>>
  BY DEF EnsureDBInService, CreateSavedQueryFolder, GetSavedQueryFolder, ClearFolder,
     SoftDeleteSavedQueryFolder, CreateSavedQuery, GetSavedQuery, UpdateSavedQuery,
     SoftDeleteSavedQuery, UpsertSavedQueryBySourceRef, At, Busy, FirstCall, QueryCalls, dataVars
<1>2. QueryOK(q)
  BY <1>1, KindOfCall
<1>3. /\ proc[q].op \in QueryOps /\ t \in QueryLeft(proc[q].op) /\ proc[q].mem.id \in Ids
      /\ QueryNext(proc[q].op, FirstCall(q), Tail(t))
  BY <1>2, QueryTail DEF QueryOK, QueryMemory, FirstCall
<1>4. PICK u, m : /\ Now(q, u, m)
                  /\ u # <<>> => u = Tail(t) /\ m = proc[q].mem
  BY <1>1, FrameSteps
<1>5. u # <<>> => proc'[q].todo = u /\ proc'[q].mem = m
  BY <1>4, NowHolds
<1>6. proc'[q].todo = u
  BY <1>4, NowIs
<1>7. u # <<>> => Head(u) \in QueryCalls
  BY <1>3, <1>4, QueryTail DEF QueryNext
<1>8. TestAlone(q)'
  BY <1>6, <1>7 DEF TestAlone, At, QueryCalls
<1>9. FolderAlone(q)'
  <2> SUFFICES ASSUME u # <<>>, Head(u) = "deleteFolder"
               PROVE  \A i \in Ids : queries'[i].state = "live" => queries'[i].folder # proc'[q].mem.id
    BY <1>6 DEF FolderAlone, At, Mem
  <2>1. FirstCall(q) = "clearFolder"
    BY <1>3, <1>4 DEF QueryNext
  <2>2. ClearFolder(q)
    BY <2>1 DEF EnsureDBInService, CreateSavedQueryFolder, GetSavedQueryFolder,
     SoftDeleteSavedQueryFolder, CreateSavedQuery, GetSavedQuery, UpdateSavedQuery,
     SoftDeleteSavedQuery, UpsertSavedQueryBySourceRef, At, FirstCall
  <2>3. PICK f \in Ids : f = proc[q].mem.id
    BY <1>3
  <2>4. f # None
    BY ServiceDataAssumption DEF Ids
  <2>5. queries' = [i \in Ids |-> IF queries[i].state = "live" /\ queries[i].folder = f
                                  THEN [queries[i] EXCEPT !.folder = None] ELSE queries[i]]
    BY <2>2, <2>3 DEF ClearFolder, Mem
  <2>6. \A i \in Ids : queries'[i].state = "live" => queries'[i].folder # f
    <3> SUFFICES ASSUME NEW i \in Ids, queries'[i].state = "live" PROVE queries'[i].folder # f
      OBVIOUS
    <3>1. CASE queries[i].state = "live" /\ queries[i].folder = f
      <4>1. queries[i] \in [state : {"live", "deleted"}, folder : Ids \cup {None}, ref : Refs \cup {None}]
        BY <3>1 DEF TypeOK, DataTypeOK, Query, NoQuery
      <4> QED BY <2>4, <2>5, <3>1, <4>1
    <3>2. CASE ~(queries[i].state = "live" /\ queries[i].folder = f)
      BY <2>5, <3>2
    <3> QED BY <3>1, <3>2
  <2> QED BY <1>4, <1>5, <2>3, <2>6
<1>10. proc[q].op \notin DbOps
  BY <1>3 DEF QueryOps, DbOps
<1>11. u # <<>> => Head(u) \notin {"saveDB", "insertVersion"}
  BY <1>7 DEF QueryCalls
<1> QED BY <1>1, <1>4, <1>8, <1>9, <1>10, <1>11, OtherStepClean

\* Steps of handlers of documents, diagrams and statistics that run alone.
LEMMA LinkClean ==
    ASSUME TypeOK, WorkInv, CleanInv, clean, NEW q \in Requests,
           \/ UploadContent(q) \/ InsertContent(q) \/ GetContent(q)
           \/ CreateServiceLink(q) \/ GetServiceLink(q) \/ SoftDeleteServiceLink(q)
           \/ ListServiceStats(q) \/ ServiceStatsForID(q) \/ CloseRows(q)
    PROVE  CleanInv'
<1> DEFINE t == proc[q].todo
<1>1. Busy(q) /\ FirstCall(q) \in LinkCalls /\ (Proceeds(q) \/ Ends(q))
      /\ UNCHANGED <<dbs, versions>>
  BY DEF UploadContent, InsertContent, GetContent, CreateServiceLink, GetServiceLink,
     SoftDeleteServiceLink, ListServiceStats, ServiceStatsForID, CloseRows,
     At, Busy, FirstCall, LinkCalls, dataVars
<1>2. LinkOK(q)
  BY <1>1, KindOfCall
<1>3. /\ proc[q].op \in LinkOps /\ t \in LinkLeft(proc[q].op)
      /\ LinkNext(proc[q].op, FirstCall(q), Tail(t))
  BY <1>2, LinkTail DEF LinkOK, FirstCall
<1>4. PICK u, m : Now(q, u, m) /\ (u # <<>> => u = Tail(t))
  BY <1>1, FrameSteps
<1>5. proc'[q].todo = u
  BY <1>4, NowIs
<1>6. u # <<>> => Head(u) \in LinkCalls
  BY <1>3, <1>4, LinkTail DEF LinkNext
<1>7. TestAlone(q)' /\ FolderAlone(q)'
  BY <1>5, <1>6 DEF TestAlone, FolderAlone, At, LinkCalls
<1>8. proc[q].op \notin DbOps
  BY <1>3 DEF LinkOps, DbOps
<1>9. u # <<>> => Head(u) \notin {"saveDB", "insertVersion"}
  BY <1>6 DEF LinkCalls
<1> QED BY <1>1, <1>4, <1>7, <1>8, <1>9, OtherStepClean

\* Steps of handlers of tests that run alone.
LEMMA TestClean ==
    ASSUME TypeOK, WorkInv, CleanInv, clean, NEW q \in Requests, UNCHANGED dataVars,
           TestStep(q), ~TestAborts(q)
    PROVE  CleanInv'
<1> DEFINE t == proc[q].todo
           op == proc[q].op
<1> USE ServiceTestsAssumption
<1>1. /\ Busy(q) /\ FirstCall(q) \in CaseCalls \cup RunCalls \cup ResultCalls
      /\ Proceeds(q) \/ Ends(q) \/ GetTestRun(q)
  BY DEF TestStep, CreateTestPack, GetTestPack, UpdateTestPack, SoftDeleteTestPack, CreateTestCase,
     GetTestCase, UpdateTestCase, SoftDeleteTestCase, CreateTestRun, UpdateTestRun,
     CreateTestRunResult, GetTestRunResult, UpdateTestRunResult, GetTestRun,
     At, Busy, FirstCall, CaseCalls, RunCalls, ResultCalls
<1>2. op \in TestOps /\ t \in TestLeft(op)
  BY <1>1, KindOfCall DEF CaseOK, RunOK, ResultOK, TestOps, RunOps
<1>3. /\ TestNext(op, FirstCall(q), Tail(t)) /\ Tail(t) \in TestLeft(op) \cup {<<>>}
  BY <1>2, TestTail DEF TestNext, FirstCall
<1>4. PICK u, m : /\ Now(q, u, m)
                  /\ u # <<>> => u = Tail(t)
                  /\ u # <<>> => (FirstCall(q) # "getRun" => m = proc[q].mem)
                  /\ u # <<>> => (FirstCall(q) = "getRun" => m = MergedRun(proc[q].mem, runs[proc[q].mem.id]))
  <2>1. FirstCall(q) = "getRun" <=> GetTestRun(q)
    BY DEF TestStep, CreateTestPack, GetTestPack, UpdateTestPack, SoftDeleteTestPack,
       CreateTestCase, GetTestCase, UpdateTestCase, SoftDeleteTestCase, CreateTestRun,
       UpdateTestRun, CreateTestRunResult, GetTestRunResult, UpdateTestRunResult, GetTestRun,
       At, FirstCall
  <2>2. CASE ~GetTestRun(q)
    BY <1>1, <2>1, <2>2, FrameSteps
  <2>3. CASE GetTestRun(q)
    <3>1. PICK w : w = MergedRun(proc[q].mem, runs[proc[q].mem.id])
      OBVIOUS
    <3>2. Keeps(q, w) \/ Ends(q)
      BY <2>3, <3>1 DEF GetTestRun, Mem
    <3>3. Now(q, Tail(t), w) \/ Now(q, <<>>, NoMem)
      BY <3>2, FrameSteps
    <3> QED BY <2>1, <2>3, <3>1, <3>3
  <2> QED BY <2>2, <2>3
<1>5. proc'[q].todo = u
  BY <1>4, NowIs
<1>6. u # <<>> => Head(u) \in CaseCalls \cup RunCalls \cup ResultCalls
  BY <1>2, <1>3, <1>4, TestTail
<1>7. FolderAlone(q)'
  BY <1>5, <1>6 DEF FolderAlone, At, CaseCalls, RunCalls, ResultCalls
<1>8. ASSUME u # <<>>, Head(u) = "insertCase" PROVE packs'[proc'[q].mem.pack] = "live"
  <2>1. FirstCall(q) = "getCasePack" /\ Tail(t) # <<>>
    BY <1>1, <1>3, <1>4, <1>8 DEF TestNext, CaseCalls, RunCalls, ResultCalls
  <2>2. GetTestPack(q)
    BY <2>1 DEF TestStep, CreateTestPack, GetTestPack, UpdateTestPack, SoftDeleteTestPack,
       CreateTestCase, GetTestCase, UpdateTestCase, SoftDeleteTestCase, CreateTestRun,
       UpdateTestRun, CreateTestRunResult, GetTestRunResult, UpdateTestRunResult, GetTestRun,
       At, FirstCall
  <2>3. ~Ends(q)
    <3>1. Ends(q) => Now(q, <<>>, NoMem)
      BY FrameSteps
    <3>2. Now(q, <<>>, NoMem) => proc'[q].todo = <<>>
      BY NowIs
    <3> QED BY <1>5, <1>8, <3>1, <3>2
  <2>4. packs[proc[q].mem.pack] = "live" /\ packs' = packs
    BY <2>2, <2>3 DEF GetTestPack, Mem, testVars
  <2>5. proc'[q].mem = m
    BY <1>4, <1>8, NowHolds
  <2> QED BY <1>4, <1>8, <2>1, <2>4, <2>5
<1>9. ASSUME u # <<>>, Head(u) = "saveRun"
      PROVE  /\ proc'[q].mem.status \in {runs'[proc'[q].mem.id].status, "completed"}
             /\ proc'[q].mem.overall \in {runs'[proc'[q].mem.id].overall, "passed", "failed"}
  <2>1. FirstCall(q) = "getRun"
    BY <1>1, <1>3, <1>4, <1>9 DEF TestNext, CaseCalls, RunCalls, ResultCalls
  <2>2. RunOK(q)
    BY <1>1, <2>1, KindOfCall DEF RunCalls
  <2>3. PICK x \in RunMemory : x = proc[q].mem
    BY <2>2 DEF RunOK
  <2>4. x.status \in {"completed", NoTest} /\ x.overall \in {"passed", "failed", NoTest}
    BY <2>1, <2>2, <2>3 DEF RunOK, Mem
  <2>5. runs' = runs
    BY <2>1 DEF TestStep, CreateTestPack, GetTestPack, UpdateTestPack, SoftDeleteTestPack,
       CreateTestCase, GetTestCase, UpdateTestCase, SoftDeleteTestCase, CreateTestRun,
       UpdateTestRun, CreateTestRunResult, GetTestRunResult, UpdateTestRunResult, GetTestRun,
       At, FirstCall, testVars
  <2>6. m = MergedRun(x, runs[x.id])
    BY <1>4, <1>9, <2>1, <2>3
  <2>7. /\ m.id = x.id /\ m.status \in {runs[x.id].status, "completed"}
        /\ m.overall \in {runs[x.id].overall, "passed", "failed"}
    BY <2>4, <2>6 DEF MergedRun, RunMemory
  <2>8. proc'[q].mem = m
    BY <1>4, <1>9, NowHolds
  <2> QED BY <2>5, <2>7, <2>8
<1>10. TestAlone(q)'
  BY <1>5, <1>8, <1>9 DEF TestAlone, At, Mem
<1>11. op \notin DbOps
  BY <1>2 DEF TestOps, PackOps, CaseOps, RunOps, DbOps
<1>12. u # <<>> => Head(u) \notin {"saveDB", "insertVersion"}
  BY <1>6 DEF CaseCalls, RunCalls, ResultCalls
<1> QED BY <1>1, <1>4, <1>7, <1>10, <1>11, <1>12, OtherStepClean DEF dataVars

\* The calls that requests start with.
FirstCalls == {"insertDB", "getDB", "ensureDB", "upload", "getContent", "getLink", "listServices",
               "insertPack", "getPack", "getCasePack", "getCase", "insertRun", "getRun",
               "insertResult", "getResult"}

\* Whatever arrives starts with the first call of its handler.
LEMMA Started ==
    ASSUME NEW q \in Requests, NEW op,
           (op \in DataOps /\ DataStart(q, op)) \/ (op \in TestOps /\ TestStart(q, op))
    PROVE  \E t, m : /\ Arrives(q, op, t, m) /\ t # <<>> /\ Head(t) \in FirstCalls
                     /\ op = "restoreDBVersion" => Head(t) = "getDB"
<1> DEFINE Fits(t) == /\ t # <<>> /\ Head(t) \in FirstCalls
                      /\ op = "restoreDBVersion" => Head(t) = "getDB"
<1>1. ASSUME op \in DbOps, DbStart(q, op) PROVE \E t, m : Arrives(q, op, t, m) /\ Fits(t)
  <2>1. PICK t : t = CASE op = "createDB" -> CreateDBSteps
                       [] op = "updateDB" -> UpdateDBSteps
                       [] op = "deleteDB" -> DeleteDBSteps
                       [] op = "createDBVersion" -> CreateDBVersionSteps
                       [] op = "restoreDBVersion" -> RestoreDBVersionSteps
    OBVIOUS
  <2>2. Fits(t)
    BY <1>1, <2>1 DEF FirstCalls, DbOps, CreateDBSteps, UpdateDBSteps, DeleteDBSteps,
       CreateDBVersionSteps, RestoreDBVersionSteps
  <2>3. \E m : Arrives(q, op, t, m)
    <3>1. CASE op = "createDB"
      BY <1>1, <2>1, <3>1 DEF DbStart, StartDb
    <3>2. CASE op \in {"updateDB", "createDBVersion"}
      BY <1>1, <2>1, <3>2 DEF DbStart, StartDb
    <3>3. CASE op = "deleteDB"
      BY <1>1, <2>1, <3>3 DEF DbStart, StartDb
    <3>4. CASE op = "restoreDBVersion"
      BY <1>1, <2>1, <3>4 DEF DbStart, StartDb
    <3> QED BY <1>1, <3>1, <3>2, <3>3, <3>4 DEF DbOps
  <2> QED BY <2>2, <2>3
<1>2. ASSUME op \in QueryOps, QueryStart(q, op) PROVE \E t, m : Arrives(q, op, t, m) /\ Fits(t)
  <2>1. PICK t : t = CASE op = "createSavedQueryFolder" -> CreateSavedQueryFolderSteps
                       [] op = "deleteSavedQueryFolder" -> DeleteSavedQueryFolderSteps
                       [] op = "createSavedQuery" -> CreateSavedQuerySteps
                       [] op = "updateSavedQuery" -> UpdateSavedQuerySteps
                       [] op = "deleteSavedQuery" -> DeleteSavedQuerySteps
                       [] op = "syncSavedQuery" -> SyncSavedQuerySteps
    OBVIOUS
  <2>2. Fits(t)
    BY <1>2, <2>1 DEF FirstCalls, QueryOps, CreateSavedQueryFolderSteps,
       DeleteSavedQueryFolderSteps, CreateSavedQuerySteps, UpdateSavedQuerySteps,
       DeleteSavedQuerySteps, SyncSavedQuerySteps
  <2>3. \E m : Arrives(q, op, t, m)
    BY <1>2, <2>1 DEF QueryStart, StartQuery
  <2> QED BY <2>2, <2>3
<1>3. ASSUME op \in LinkOps, LinkStart(q, op) PROVE \E t, m : Arrives(q, op, t, m) /\ Fits(t)
  <2>1. PICK i \in Ids : StartLink(q, op, i)
    BY <1>3 DEF LinkStart
  <2>2. Fits(CreateDocSteps(i = q)) \/ op # "createDoc"
    BY DEF CreateDocSteps, FirstCalls
  <2>3. Fits(CreateDiagramSteps(i = q)) \/ op # "createDiagram"
    BY DEF CreateDiagramSteps, FirstCalls
  <2>4. op # "restoreDBVersion"
    BY <1>3 DEF LinkOps
  <2>5. Fits(DeleteDocSteps) /\ Fits(DeleteDiagramSteps) /\ Fits(ListStatsSteps)
    BY <2>4 DEF DeleteDocSteps, DeleteDiagramSteps, ListStatsSteps, FirstCalls
  <2> HIDE DEF Fits
  <2> QED BY <2>1, <2>2, <2>3, <2>5 DEF StartLink
<1>4. ASSUME op \in TestOps, TestStart(q, op) PROVE \E t, m : Arrives(q, op, t, m) /\ Fits(t)
  <2>1. PICK t : t = TestSteps(op)
    OBVIOUS
  <2>2. Fits(t)
    <3>1. CASE op = "createTestPack"
      <4>1. t = CreateTestPackSteps
        BY <2>1, <3>1 DEF TestSteps
      <4> QED BY <3>1, <4>1 DEF CreateTestPackSteps, FirstCalls
    <3>2. CASE op = "updateTestPack"
      <4>1. t = UpdateTestPackSteps
        BY <2>1, <3>2 DEF TestSteps
      <4> QED BY <3>2, <4>1 DEF UpdateTestPackSteps, FirstCalls
    <3>3. CASE op = "deleteTestPack"
      <4>1. t = DeleteTestPackSteps
        BY <2>1, <3>3 DEF TestSteps
      <4> QED BY <3>3, <4>1 DEF DeleteTestPackSteps, FirstCalls
    <3>4. CASE op = "createTestCase"
      <4>1. t = CreateTestCaseSteps
        BY <2>1, <3>4 DEF TestSteps
      <4> QED BY <3>4, <4>1 DEF CreateTestCaseSteps, FirstCalls
    <3>5. CASE op = "updateTestCase"
      <4>1. t = UpdateTestCaseSteps
        BY <2>1, <3>5 DEF TestSteps
      <4> QED BY <3>5, <4>1 DEF UpdateTestCaseSteps, FirstCalls
    <3>6. CASE op = "deleteTestCase"
      <4>1. t = DeleteTestCaseSteps
        BY <2>1, <3>6 DEF TestSteps
      <4> QED BY <3>6, <4>1 DEF DeleteTestCaseSteps, FirstCalls
    <3>7. CASE op = "createTestRun"
      <4>1. t = CreateTestRunSteps
        BY <2>1, <3>7 DEF TestSteps
      <4> QED BY <3>7, <4>1 DEF CreateTestRunSteps, FirstCalls
    <3>8. CASE op = "updateTestRun"
      <4>1. t = UpdateTestRunSteps
        BY <2>1, <3>8 DEF TestSteps
      <4> QED BY <3>8, <4>1 DEF UpdateTestRunSteps, FirstCalls
    <3>9. CASE op = "createTestRunResult"
      <4>1. t = CreateTestRunResultSteps
        BY <2>1, <3>9 DEF TestSteps
      <4> QED BY <3>9, <4>1 DEF CreateTestRunResultSteps, FirstCalls
    <3>10. CASE op = "updateTestRunResult"
      <4>1. t = UpdateTestRunResultSteps
        BY <2>1, <3>10 DEF TestSteps
      <4> QED BY <3>10, <4>1 DEF UpdateTestRunResultSteps, FirstCalls
    <3> QED BY <1>4, <3>1, <3>2, <3>3, <3>4, <3>5, <3>6, <3>7, <3>8, <3>9, <3>10
            DEF TestOps, PackOps, CaseOps, RunOps
  <2>3. \E m : StartTest(q, op, m)
    <3>1. CASE op \in PackOps
      BY ONLY <1>4, <3>1 DEF TestStart, PackOps
    <3>2. CASE op \in CaseOps
      BY ONLY <1>4, <3>2 DEF TestStart, PackOps, CaseOps
    <3>3. CASE op \in RunOps
      BY ONLY <1>4, <3>3 DEF TestStart, PackOps, RunOps
    <3> QED BY <1>4, <3>1, <3>2, <3>3 DEF TestOps
  <2> QED BY <2>1, <2>2, <2>3 DEF StartTest
<1> QED BY <1>1, <1>2, <1>3, <1>4 DEF DataStart, DataOps

\* A request that arrives while nothing else happens.
LEMMA ArrivalClean ==
    ASSUME TypeOK, CleanInv, clean', NEW q \in Requests, NEW op, NEW t, NEW m,
           Arrives(q, op, t, m), t # <<>>, Head(t) \in FirstCalls,
           op = "restoreDBVersion" => Head(t) = "getDB", UNCHANGED <<dbs, versions>>
    PROVE  CleanInv'
<1>1. /\ proc'[q].op = op /\ proc'[q].todo = t
      /\ \A p \in Requests \ {q} : proc'[p] = proc[p]
      /\ clean' = (clean /\ Quiet)
  BY Arrived
<1>2. clean /\ \A p \in Requests : proc[p].todo = <<>>
  BY <1>1 DEF Quiet, Busy
<1>3. \A i \in Ids : LiveDb(i)' => Versioned(i)'
  BY <1>2 DEF CleanInv, Pending, Busy, LiveDb, Versioned, VersionsOf
<1>4. Head(t) \notin {"latestVersion", "insertVersion", "saveDB", "deleteFolder", "insertCase", "saveRun"}
  BY DEF FirstCalls
<1>5. AloneOK(q)'
  BY <1>1, <1>4 DEF AloneOK, DbAlone, FolderAlone, TestAlone, Pending, At, Op, FirstCall
<1> QED BY <1>1, <1>2, <1>3, <1>5, CleanKeeps

\* At the start all is quiet and every schema has its version.
LEMMA InitClean == Init => CleanInv
<1> SUFFICES ASSUME Init PROVE CleanInv
  OBVIOUS
<1>1. \A q \in Requests : proc[q].todo = <<>>
  BY DEF Init, ReqsInit
<1>2. \A q \in Requests : ~Busy(q) /\ AloneOK(q)
  BY <1>1 DEF AloneOK, DbAlone, FolderAlone, TestAlone, Pending, At, Busy
<1>3. \A i \in Ids : LiveDb(i) => Versioned(i)
  <2>1. PICK d \in {Absent} \cup [state : {"live"}, name : DbNames, schema : Schemas] :
           /\ dbs = [i \in Ids |-> IF i = Old THEN d ELSE Absent]
           /\ versions = IF d = Absent THEN {} ELSE {[db |-> Old, number |-> 1, schema |-> d.schema]}
    BY DEF Init, DataInit
  <2> SUFFICES ASSUME NEW i \in Ids, LiveDb(i) PROVE Versioned(i)
    OBVIOUS
  <2>2. Absent.state = "absent"
    BY DEF Absent
  <2>3. i = Old /\ d # Absent /\ dbs[i] = d
    BY <2>1, <2>2 DEF LiveDb
  <2>4. PICK v : v = [db |-> Old, number |-> 1, schema |-> d.schema]
    OBVIOUS
  <2>5. v \in versions /\ v.db = i /\ v.schema = dbs[i].schema
    BY <2>1, <2>3, <2>4
  <2> QED BY <2>5 DEF Versioned, VersionsOf
<1> QED BY <1>2, <1>3 DEF CleanInv

\* Every step keeps what holds of requests that run alone.
LEMMA NextClean == TypeOK /\ WorkInv /\ CleanInv /\ [Next]_vars => CleanInv'
<1> SUFFICES ASSUME TypeOK, WorkInv, CleanInv, [Next]_vars, clean' PROVE CleanInv'
  BY DEF CleanInv
<1>1. CASE UNCHANGED vars
  BY <1>1 DEF CleanInv, AloneOK, DbAlone, FolderAlone, TestAlone, Pending, At, Busy, Op, Mem,
     FirstCall, LiveDb, Versioned, VersionsOf, vars, dataVars, testVars
<1>2. ASSUME NEW q \in Requests, DataStep(q) PROVE CleanInv'
  <2>1. ~DataAborts(q) /\ ~SnapshotFails(q)
    BY DEF DataAborts, Aborts, SnapshotFails, Skips
  <2>2. clean
    BY <1>2, <2>1 DEF DataStep, CreateServiceDB, GetServiceDB, UpdateServiceDB,
       SoftDeleteServiceDB, GetServiceDBVersion, CreateServiceDBVersionSnapshot,
       CreateServiceDBVersion, EnsureDBInService, CreateSavedQueryFolder, GetSavedQueryFolder,
       ClearFolder, SoftDeleteSavedQueryFolder, CreateSavedQuery, GetSavedQuery,
       UpdateSavedQuery, SoftDeleteSavedQuery, UpsertSavedQueryBySourceRef, InsertContent,
       GetContent, CreateServiceLink, GetServiceLink, SoftDeleteServiceLink, ListServiceStats,
       ServiceStatsForID, UploadContent, CloseRows, Proceeds, Keeps, Ends, Goes
  <2> QED BY <1>2, <2>1, <2>2, DbClean, QueryClean, LinkClean DEF DataStep
<1>3. ASSUME NEW q \in Requests, TestStep(q), UNCHANGED dataVars PROVE CleanInv'
  <2>1. ~TestAborts(q)
    BY DEF TestAborts, Aborts
  <2>2. clean
    BY <1>3, <2>1 DEF TestStep, CreateTestPack, GetTestPack, UpdateTestPack, SoftDeleteTestPack,
       CreateTestCase, GetTestCase, UpdateTestCase, SoftDeleteTestCase, CreateTestRun,
       GetTestRun, UpdateTestRun, CreateTestRunResult, GetTestRunResult, UpdateTestRunResult,
       Proceeds, Keeps, Ends, Goes
  <2> QED BY <1>3, <2>1, <2>2, TestClean
<1>4. ASSUME NEW q \in Requests, NEW op \in DataOps, DataStart(q, op) PROVE CleanInv'
  <2>1. UNCHANGED <<dbs, versions>>
    BY <1>4, StartsChangeNothing DEF dataVars
  <2> QED BY <1>4, <2>1, Started, ArrivalClean
<1>5. ASSUME NEW q \in Requests, NEW op \in TestOps, TestStart(q, op), UNCHANGED dataVars
      PROVE  CleanInv'
  <2>1. UNCHANGED <<dbs, versions>>
    BY <1>5 DEF dataVars
  <2> QED BY <1>5, <2>1, Started, ArrivalClean
<1>6. CASE Next
  BY <1>2, <1>3, <1>4, <1>5, <1>6 DEF Next
<1> QED BY <1>1, <1>6

\* As long as requests neither overlap nor fail, the schema of every database
\* can be got back from one of its versions (handleCreateDB, handleUpdateDB,
\* handleCreateDBVersion, handleRestoreDBVersion).
THEOREM SchemasStayVersioned == Spec => []SchemaIsVersioned
<1>1. Spec => [](TypeOK /\ WorkInv /\ CleanInv)
  BY InitOK, NextOK, InitClean, NextClean, PTL DEF Spec
<1>2. CleanInv => SchemaIsVersioned
  BY DEF CleanInv, SchemaIsVersioned, Quiet, Pending, Versioned
<1> QED BY <1>1, <1>2, PTL

-----------------------------------------------------------------------------
(* What a request that runs alone does.                                     *)

\* Who changes the rows of databases.
LEMMA DbsChange ==
    ASSUME [Next]_vars, dbs' # dbs
    PROVE  \E q \in Requests : CreateServiceDB(q) \/ UpdateServiceDB(q) \/ SoftDeleteServiceDB(q)
<1>1. ~UNCHANGED dataVars /\ ~UNCHANGED vars
  BY DEF dataVars, vars
<1>2. PICK q \in Requests : (\E op \in workload \cap DataOps : DataStart(q, op)) \/ DataStep(q)
  BY <1>1 DEF Next
<1>3. ASSUME NEW op, DataStart(q, op) PROVE FALSE
  BY <1>1, <1>3, StartsChangeNothing
<1>4. DataStep(q) => CreateServiceDB(q) \/ UpdateServiceDB(q) \/ SoftDeleteServiceDB(q)
  BY DEF DataStep, GetServiceDB, GetServiceDBVersion, CreateServiceDBVersionSnapshot,
     CreateServiceDBVersion, SnapshotFails, EnsureDBInService, CreateSavedQueryFolder,
     GetSavedQueryFolder, ClearFolder, SoftDeleteSavedQueryFolder, CreateSavedQuery,
     GetSavedQuery, UpdateSavedQuery, SoftDeleteSavedQuery, UpsertSavedQueryBySourceRef,
     InsertContent, GetContent, CreateServiceLink, GetServiceLink, SoftDeleteServiceLink,
     ListServiceStats, ServiceStatsForID, UploadContent, CloseRows, DataAborts, dataVars
<1> QED BY <1>2, <1>3, <1>4

\* Who changes the folders of saved queries.
LEMMA FoldersChange ==
    ASSUME [Next]_vars, folders' # folders
    PROVE  \E q \in Requests : CreateSavedQueryFolder(q) \/ SoftDeleteSavedQueryFolder(q)
<1>1. ~UNCHANGED dataVars /\ ~UNCHANGED vars
  BY DEF dataVars, vars
<1>2. PICK q \in Requests : (\E op \in workload \cap DataOps : DataStart(q, op)) \/ DataStep(q)
  BY <1>1 DEF Next
<1>3. ASSUME NEW op, DataStart(q, op) PROVE FALSE
  BY <1>1, <1>3, StartsChangeNothing
<1>4. DataStep(q) => CreateSavedQueryFolder(q) \/ SoftDeleteSavedQueryFolder(q)
  BY DEF DataStep, CreateServiceDB, GetServiceDB, UpdateServiceDB, SoftDeleteServiceDB,
     GetServiceDBVersion, CreateServiceDBVersionSnapshot, CreateServiceDBVersion, SnapshotFails,
     EnsureDBInService, GetSavedQueryFolder, ClearFolder, CreateSavedQuery, GetSavedQuery,
     UpdateSavedQuery, SoftDeleteSavedQuery, UpsertSavedQueryBySourceRef, InsertContent,
     GetContent, CreateServiceLink, GetServiceLink, SoftDeleteServiceLink, ListServiceStats,
     ServiceStatsForID, UploadContent, CloseRows, DataAborts, dataVars
<1> QED BY <1>2, <1>3, <1>4

\* Who changes cases and runs.
LEMMA TestsChange ==
    ASSUME [Next]_vars
    PROVE  /\ cases' # cases => \E q \in Requests : \/ CreateTestCase(q) \/ UpdateTestCase(q)
                                                    \/ SoftDeleteTestCase(q)
           /\ runs' # runs => \E q \in Requests : CreateTestRun(q) \/ UpdateTestRun(q)
<1>1. CASE UNCHANGED testVars \/ UNCHANGED vars
  BY <1>1 DEF testVars, vars
<1>2. CASE ~UNCHANGED testVars /\ ~UNCHANGED vars
  <2>1. PICK q \in Requests : (\E op \in workload \cap TestOps : TestStart(q, op)) \/ TestStep(q)
    BY <1>2 DEF Next
  <2>2. ASSUME NEW op \in TestOps, TestStart(q, op) PROVE UNCHANGED testVars
    <3>1. \E m : StartTest(q, op, m)
      <4>1. CASE op \in PackOps
        BY ONLY <2>2, <4>1 DEF TestStart, PackOps
      <4>2. CASE op \in CaseOps
        BY ONLY <2>2, <4>2 DEF TestStart, PackOps, CaseOps
      <4>3. CASE op \in RunOps
        BY ONLY <2>2, <4>3 DEF TestStart, PackOps, RunOps
      <4> QED BY <4>1, <4>2, <4>3 DEF TestOps
    <3> QED BY <3>1 DEF StartTest
  <2>3. TestStep(q)
    BY <1>2, <2>1, <2>2
  <2>4. cases' # cases => CreateTestCase(q) \/ UpdateTestCase(q) \/ SoftDeleteTestCase(q)
    BY <2>3 DEF TestStep, CreateTestPack, GetTestPack, UpdateTestPack, SoftDeleteTestPack,
       GetTestCase, CreateTestRun, GetTestRun, UpdateTestRun, CreateTestRunResult,
       GetTestRunResult, UpdateTestRunResult, TestAborts, testVars
  <2>5. runs' # runs => CreateTestRun(q) \/ UpdateTestRun(q)
    BY <2>3 DEF TestStep, CreateTestPack, GetTestPack, UpdateTestPack, SoftDeleteTestPack,
       CreateTestCase, GetTestCase, UpdateTestCase, SoftDeleteTestCase, GetTestRun,
       CreateTestRunResult, GetTestRunResult, UpdateTestRunResult, TestAborts, testVars
  <2> QED BY <2>4, <2>5
<1> QED BY <1>1, <1>2

\* A restore that runs alone has kept what it replaces as the last version.
LEMMA RestoreStep ==
    ASSUME TypeOK, WorkInv, CleanInv, [Next]_vars, NEW i \in Ids, clean,
           dbs'[i].schema # dbs[i].schema, LiveDb(i),
           NEW q \in Requests, At(q, "saveDB"), Op(q) = "restoreDBVersion"
    PROVE  \E v \in VersionsOf(i) : v.schema = dbs[i].schema
                                    /\ v.number = LatestServiceDBVersionNumber(i)
<1>1. PICK p \in Requests : CreateServiceDB(p) \/ UpdateServiceDB(p) \/ SoftDeleteServiceDB(p)
  BY DbsChange
<1>2. Busy(p) /\ Busy(q)
  BY <1>1 DEF CreateServiceDB, UpdateServiceDB, SoftDeleteServiceDB, At, Busy
<1>3. p = q
  BY <1>2 DEF CleanInv
<1>4. UpdateServiceDB(q)
  BY <1>1, <1>3 DEF CreateServiceDB, SoftDeleteServiceDB, At
<1>5. DbOK(q)
  BY <1>2, KindOfCall DEF At, FirstCall, DbCalls
<1>6. dbs \in [Ids -> Db] /\ Mem(q).id \in Ids
  BY <1>5 DEF TypeOK, DataTypeOK, DbOK, DbMemory, Mem
<1>7. i = Mem(q).id
  BY <1>4, <1>6 DEF UpdateServiceDB
<1>8. DbAlone(q)
  BY DEF CleanInv, AloneOK
<1>9. Mem(q).schema = dbs[i].schema
  BY <1>2, <1>7, <1>8 DEF DbAlone, At
<1>10. PICK v \in VersionsOf(i) : v.schema = dbs[i].schema
                                  /\ \A w \in VersionsOf(i) : w.number <= v.number
  BY <1>7, <1>8, <1>9 DEF DbAlone
<1>11. PICK x \in VersionsOf(i) : x.number = LatestServiceDBVersionNumber(i)
                                  /\ \A w \in VersionsOf(i) : w.number <= x.number
  BY <1>10, LatestNumber DEF WorkInv
<1>12. v.number \in Nat /\ x.number \in Nat
  BY DEF TypeOK, DataTypeOK, VersionsOf, Version
<1>13. v.number <= x.number /\ x.number <= v.number
  BY <1>10, <1>11
<1> QED BY <1>10, <1>11, <1>12, <1>13

\* A folder that a request deletes alone has no queries left.
LEMMA FolderStep ==
    ASSUME TypeOK, WorkInv, CleanInv, [Next]_vars, NEW f \in Ids, clean,
           folders[f] = "live", folders'[f] = "deleted"
    PROVE  \A i \in Ids : queries[i].state = "live" => queries[i].folder # f
<1>1. PICK p \in Requests : CreateSavedQueryFolder(p) \/ SoftDeleteSavedQueryFolder(p)
  BY FoldersChange
<1>2. folders \in [Ids -> States] /\ p \in Ids
  BY DEF TypeOK, DataTypeOK, Ids
<1>3. SoftDeleteSavedQueryFolder(p)
  BY <1>1, <1>2 DEF CreateSavedQueryFolder
<1>4. QueryOK(p)
  BY <1>3, KindOfCall DEF SoftDeleteSavedQueryFolder, At, Busy, FirstCall, QueryCalls
<1>5. Mem(p).id \in Ids
  BY <1>4 DEF QueryOK, QueryMemory, Mem
<1>6. f = Mem(p).id
  BY <1>2, <1>3, <1>5 DEF SoftDeleteSavedQueryFolder
<1>7. FolderAlone(p)
  BY DEF CleanInv, AloneOK
<1> QED BY <1>3, <1>6, <1>7 DEF FolderAlone, SoftDeleteSavedQueryFolder

\* A case that a request creates alone is in a pack that is there.
LEMMA CaseStep ==
    ASSUME TypeOK, WorkInv, CleanInv, [Next]_vars, NEW i \in TestIds, clean,
           cases[i].state = "absent", cases'[i].state = "live"
    PROVE  packs[cases'[i].pack] = "live"
<1>1. PICK p \in Requests : CreateTestCase(p) \/ UpdateTestCase(p) \/ SoftDeleteTestCase(p)
  BY TestsChange
<1>2. cases \in [TestIds -> Case] /\ p \in TestIds
  BY DEF TypeOK, TestsTypeOK, TestIds
<1>3. CaseOK(p)
  BY <1>1, KindOfCall DEF CreateTestCase, UpdateTestCase, SoftDeleteTestCase, At, Busy, FirstCall,
     CaseCalls
<1>4. PICK j \in TestIds : j = Mem(p).id
  BY <1>3 DEF CaseOK, CaseMemory, Mem
<1>5. CASE CreateTestCase(p)
  <2>1. cases' = [cases EXCEPT ![p] = [state |-> "live", pack |-> Mem(p).pack]] /\ At(p, "insertCase")
    BY <1>5 DEF CreateTestCase
  <2>2. i = p
    BY <1>2, <2>1
  <2>3. cases'[i].pack = Mem(p).pack
    BY <1>2, <2>1, <2>2
  <2>4. TestAlone(p)
    BY DEF CleanInv, AloneOK
  <2> QED BY <2>1, <2>3, <2>4 DEF TestAlone
<1>6. ASSUME UpdateTestCase(p) \/ SoftDeleteTestCase(p) PROVE FALSE
  <2>1. TestNext(Op(p), FirstCall(p), Tail(proc[p].todo))
    BY <1>3, TestTail DEF CaseOK, TestOps, Op, FirstCall
  <2>2. cases[j].state # "absent"
    BY <1>3, <1>4, <1>6, <2>1 DEF UpdateTestCase, SoftDeleteTestCase, CaseOK, TestNext, At, FirstCall
  <2>3. cases[j] \in [state : {"live", "deleted"}, pack : TestIds]
    BY <1>2, <2>2 DEF Case, NoCase
  <2>4. i # j
    BY <2>2
  <2>5. cases'[i] = cases[i]
    BY <1>2, <1>4, <1>6, <2>4 DEF UpdateTestCase, SoftDeleteTestCase
  <2> QED BY <2>5
<1> QED BY <1>1, <1>5, <1>6

\* An update of a run that runs alone changes what it gives.
LEMMA RunStep ==
    ASSUME TypeOK, WorkInv, CleanInv, [Next]_vars, NEW q \in Requests, clean, At(q, "saveRun")
    PROVE  /\ runs'[Mem(q).id].status \in {runs[Mem(q).id].status, "completed"}
           /\ runs'[Mem(q).id].overall \in {runs[Mem(q).id].overall, "passed", "failed"}
           /\ runs'[Mem(q).id].pack = runs[Mem(q).id].pack
<1>1. CASE runs' = runs
  BY <1>1
<1>2. CASE runs' # runs
  <2>1. PICK p \in Requests : CreateTestRun(p) \/ UpdateTestRun(p)
    BY <1>2, TestsChange
  <2>2. Busy(p) /\ Busy(q)
    BY <2>1 DEF CreateTestRun, UpdateTestRun, At, Busy
  <2>3. p = q
    BY <2>2 DEF CleanInv
  <2>4. UpdateTestRun(q)
    BY <2>1, <2>3 DEF CreateTestRun, At
  <2>5. RunOK(q)
    BY <2>2, KindOfCall DEF At, FirstCall, RunCalls
  <2>6. PICK i \in TestIds : i = Mem(q).id
    BY <2>5 DEF RunOK, RunMemory, Mem
  <2>7. TestNext(Op(q), FirstCall(q), Tail(proc[q].todo)) /\ FirstCall(q) = "saveRun"
    BY <2>5, TestTail DEF RunOK, TestOps, RunOps, Op, FirstCall, At
  <2>8. runs[i] \in [state : {"live"}, pack : TestIds, status : RunStatus, overall : Verdicts]
    <3>1. runs[i].state # "absent"
      BY <2>5, <2>6, <2>7 DEF RunOK, TestNext
    <3> QED BY <3>1 DEF TypeOK, TestsTypeOK, Run, NoRun
  <2>9. TestAlone(q)
    BY DEF CleanInv, AloneOK
  <2>10. /\ Mem(q).status \in {runs[i].status, "completed"}
         /\ Mem(q).overall \in {runs[i].overall, "passed", "failed"}
    BY <2>6, <2>9 DEF TestAlone
  <2>11. PICK s, o : s = Mem(q).status /\ o = Mem(q).overall
    OBVIOUS
  <2>12. runs' = [runs EXCEPT ![i].status = s, ![i].overall = o]
    BY <2>4, <2>6, <2>11 DEF UpdateTestRun
  <2>13. runs'[i].status = s /\ runs'[i].overall = o /\ runs'[i].pack = runs[i].pack
    <3>1. runs \in [TestIds -> Run]
      BY DEF TypeOK, TestsTypeOK
    <3> QED BY <2>8, <2>12, <3>1
  <2> QED BY <2>6, <2>10, <2>11, <2>13
<1> QED BY <1>1, <1>2

\* A request of several statements that runs alone does exactly what it is for
\* (handleRestoreDBVersion, SoftDeleteSavedQueryFolder, handleCreateTestCase,
\* handleUpdateTestRun).
THEOREM AloneRequestsAreExact == Spec => AloneIsExact
<1> DEFINE Inv == TypeOK /\ WorkInv /\ CleanInv
<1>1. Spec => []Inv
  BY InitOK, NextOK, InitClean, NextClean, PTL DEF Spec
<1>2. Inv /\ [Next]_vars =>
        [\A i \in Ids : clean /\ dbs'[i].schema # dbs[i].schema /\ LiveDb(i)
                        /\ (\E q \in Requests : At(q, "saveDB") /\ Op(q) = "restoreDBVersion") =>
           \E v \in VersionsOf(i) : v.schema = dbs[i].schema
               /\ v.number = LatestServiceDBVersionNumber(i)]_<<dbs, versions, proc, clean>>
  BY RestoreStep
<1>3. Inv /\ [Next]_vars =>
        [\A f \in Ids : clean /\ folders[f] = "live" /\ folders'[f] = "deleted" =>
           \A i \in Ids : queries[i].state = "live" => queries[i].folder # f]_<<folders, queries, clean>>
  BY FolderStep
<1>4. Inv /\ [Next]_vars =>
        [\A i \in TestIds : clean /\ cases[i].state = "absent" /\ cases'[i].state = "live" =>
           packs[cases'[i].pack] = "live"]_<<packs, cases, clean>>
  BY CaseStep
<1>5. Inv /\ [Next]_vars =>
        [\A i \in TestIds, q \in Requests :
           clean /\ At(q, "saveRun") /\ Mem(q).id = i =>
               /\ runs'[i].status \in {runs[i].status, "completed"}
               /\ runs'[i].overall \in {runs[i].overall, "passed", "failed"}
               /\ runs'[i].pack = runs[i].pack]_<<runs, proc, clean>>
  BY RunStep
<1>6. Spec => RestoreKeepsReplaced
  BY <1>1, <1>2, PTL DEF Spec, RestoreKeepsReplaced
<1>7. Spec => FolderEmptiedFirst
  BY <1>1, <1>3, PTL DEF Spec, FolderEmptiedFirst
<1>8. Spec => CreatedInLivePack
  BY <1>1, <1>4, PTL DEF Spec, CreatedInLivePack
<1>9. Spec => RunUpdateExact
  BY <1>1, <1>5, PTL DEF Spec, RunUpdateExact
<1> QED BY <1>6, <1>7, <1>8, <1>9 DEF AloneIsExact
=============================================================================
