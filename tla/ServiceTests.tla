---------------------------- MODULE ServiceTests ----------------------------
(***************************************************************************)
(* Test packs of a service, their cases, the runs of a pack and the result *)
(* of each case in a run.  Nothing is deleted along with what it belongs   *)
(* to.  Of a case and a pack only what the others refer to is kept; a run  *)
(* has the two fields that its updates give separately.                    *)
(***************************************************************************)
EXTENDS Handlers

CONSTANTS
    OldTest,    \* id of the rows that were there before; a new row has its request's id
    NoTest      \* NULL, or a field the body does not give

ASSUME ServiceTestsAssumption ==
    /\ OldTest \notin Requests /\ NoTest \notin Requests \cup {OldTest}
    /\ IsFiniteSet(Requests)

VARIABLES
    packs,      \* test_packs
    cases,      \* test_cases
    runs,       \* test_runs
    results     \* test_run_results

testVars == <<packs, cases, runs, results>>

TestIds == Requests \cup {OldTest}
RowStates == {"absent", "live", "deleted"}
RunStatus == {"running", "completed", "aborted"}
Verdicts == {"passed", "failed", "partial"}
ResultStatus == {"passed", "failed", "skipped", "blocked"}
NoCase == [state |-> "absent", pack |-> NoTest]
NoRun == [state |-> "absent", pack |-> NoTest, status |-> NoTest, overall |-> NoTest]
NoResult == [state |-> "absent", run |-> NoTest, case |-> NoTest, status |-> NoTest]
Case == {NoCase} \cup [state : {"live", "deleted"}, pack : TestIds]
Run == {NoRun} \cup [state : {"live"}, pack : TestIds, status : RunStatus, overall : Verdicts]
Result == {NoResult} \cup [state : {"live"}, run : TestIds, case : TestIds, status : ResultStatus]
TestMemory ==
    [id : TestIds, pack : TestIds] \cup
    [id : TestIds, pack : TestIds \cup {NoTest}, status : RunStatus \cup {NoTest},
     overall : Verdicts \cup {NoTest}] \cup
    [id : TestIds, run : TestIds \cup {NoTest}, case : TestIds \cup {NoTest},
     status : ResultStatus]

(***************************************************************************)
(* The handlers, as the calls they make.                                   *)
(***************************************************************************)
CreateTestPackSteps == <<"insertPack">>
UpdateTestPackSteps == <<"getPack", "savePack">>
DeleteTestPackSteps == <<"getPack", "deletePack">>

\* Mutant: the pack is not looked at.
CreateCaseUnchecked == <<"insertCase">>

CreateTestCaseSteps == <<"getCasePack", "insertCase">>

\* The pack a case is moved to is not looked at.
UpdateTestCaseSteps == <<"getCase", "saveCase">>
DeleteTestCaseSteps == <<"getCase", "deleteCase">>
CreateTestRunSteps == <<"insertRun">>
UpdateTestRunSteps == <<"getRun", "saveRun">>
CreateTestRunResultSteps == <<"insertResult">>
UpdateTestRunResultSteps == <<"getResult", "saveResult">>

PackOps == {"createTestPack", "updateTestPack", "deleteTestPack"}
CaseOps == {"createTestCase", "updateTestCase", "deleteTestCase"}
RunOps == {"createTestRun", "updateTestRun", "createTestRunResult", "updateTestRunResult"}
TestOps == PackOps \cup CaseOps \cup RunOps
TestCalls == {"insertPack", "getPack", "savePack", "deletePack", "getCasePack", "insertCase",
              "getCase", "saveCase", "deleteCase", "insertRun", "getRun", "saveRun",
              "insertResult", "getResult", "saveResult"}

TestSteps(op) ==
    CASE op = "createTestPack" -> CreateTestPackSteps
      [] op = "updateTestPack" -> UpdateTestPackSteps
      [] op = "deleteTestPack" -> DeleteTestPackSteps
      [] op = "createTestCase" -> CreateTestCaseSteps
      [] op = "updateTestCase" -> UpdateTestCaseSteps
      [] op = "deleteTestCase" -> DeleteTestCaseSteps
      [] op = "createTestRun" -> CreateTestRunSteps
      [] op = "updateTestRun" -> UpdateTestRunSteps
      [] op = "createTestRunResult" -> CreateTestRunResultSteps
      [] op = "updateTestRunResult" -> UpdateTestRunResultSteps

\* There may be a pack with a case and a run of it.
TestsInit ==
    \E there \in BOOLEAN :
        LET Only(row, none) == [i \in TestIds |-> IF i = OldTest /\ there THEN row ELSE none] IN
        /\ packs = Only("live", "absent")
        /\ cases = Only([state |-> "live", pack |-> OldTest], NoCase)
        /\ runs = Only([state |-> "live", pack |-> OldTest, status |-> "running",
                        overall |-> "partial"], NoRun)
        /\ results = [i \in TestIds |-> NoResult]

StartTest(q, op, mem) ==
    /\ Arrives(q, op, TestSteps(op), mem)
    /\ UNCHANGED testVars

\* A case that is made or moved names a pack; foreign keys want it to exist.
PackThere(p) == packs[p] # "absent"

TestStart(q, op) ==
    CASE op \in PackOps -> \E i \in {x \in TestIds : IF op = "createTestPack" THEN x = q ELSE PackThere(x)} :
            StartTest(q, op, [id |-> i, pack |-> i])
      [] op = "createTestCase" -> \E p \in TestIds : PackThere(p) /\
            StartTest(q, op, [id |-> q, pack |-> p])
      [] op \in {"updateTestCase", "deleteTestCase"} ->
            \E i \in TestIds, p \in IF op = "updateTestCase" THEN TestIds ELSE {OldTest} :
                /\ cases[i].state # "absent" /\ PackThere(p)
                /\ StartTest(q, op, [id |-> i, pack |-> p])
      [] op = "createTestRun" -> \E p \in TestIds : PackThere(p) /\
            StartTest(q, op, [id |-> q, pack |-> p, status |-> "running", overall |-> "partial"])
      [] op = "updateTestRun" ->
            \E i \in TestIds, s \in {"completed", NoTest}, o \in {"passed", "failed", NoTest} :
                /\ runs[i].state # "absent"
                /\ StartTest(q, op, [id |-> i, pack |-> NoTest, status |-> s, overall |-> o])
      [] op = "createTestRunResult" ->
            \E r, c \in TestIds, s \in {"passed", "failed"} :
                /\ runs[r].state # "absent" /\ cases[c].state # "absent"
                /\ StartTest(q, op, [id |-> q, run |-> r, case |-> c, status |-> s])
      [] op = "updateTestRunResult" ->
            \E i \in TestIds, s \in {"passed", "failed"} :
                /\ results[i].state # "absent"
                /\ StartTest(q, op, [id |-> i, run |-> NoTest, case |-> NoTest, status |-> s])

(***************************************************************************)
(* Packs and cases.                                                        *)
(***************************************************************************)
CreateTestPack(q) ==
    /\ At(q, "insertPack")
    /\ packs' = [packs EXCEPT ![q] = "live"]
    /\ Proceeds(q)
    /\ UNCHANGED <<cases, runs, results>>

GetTestPack(q) ==
    /\ At(q, "getPack") \/ At(q, "getCasePack")
    /\ IF packs[Mem(q).pack] = "live" THEN Proceeds(q) ELSE Ends(q)
    /\ UNCHANGED testVars

\* Name, type, load settings and baseline: nothing that others refer to.
UpdateTestPack(q) ==
    /\ At(q, "savePack")
    /\ Proceeds(q)
    /\ UNCHANGED testVars

SoftDeleteTestPack(q) ==
    /\ At(q, "deletePack")
    /\ packs' = [packs EXCEPT ![Mem(q).pack] = "deleted"]
    /\ Proceeds(q)
    /\ UNCHANGED <<cases, runs, results>>

CreateTestCase(q) ==
    /\ At(q, "insertCase")
    /\ cases' = [cases EXCEPT ![q] = [state |-> "live", pack |-> Mem(q).pack]]
    /\ Proceeds(q)
    /\ UNCHANGED <<packs, runs, results>>

GetTestCase(q) ==
    /\ At(q, "getCase")
    /\ IF cases[Mem(q).id].state = "live" THEN Proceeds(q) ELSE Ends(q)
    /\ UNCHANGED testVars

UpdateTestCase(q) ==
    /\ At(q, "saveCase")
    /\ cases' = [cases EXCEPT ![Mem(q).id].pack =
                    IF cases[Mem(q).id].state = "live" THEN Mem(q).pack ELSE @]
    /\ Proceeds(q)
    /\ UNCHANGED <<packs, runs, results>>

SoftDeleteTestCase(q) ==
    /\ At(q, "deleteCase")
    /\ cases' = [cases EXCEPT ![Mem(q).id].state = "deleted"]
    /\ Proceeds(q)
    /\ UNCHANGED <<packs, runs, results>>

(***************************************************************************)
(* Runs and results.                                                       *)
(***************************************************************************)
CreateTestRun(q) ==
    /\ At(q, "insertRun")
    /\ runs' = [runs EXCEPT ![q] = [state |-> "live", pack |-> Mem(q).pack,
                                      status |-> Mem(q).status, overall |-> Mem(q).overall]]
    /\ Proceeds(q)
    /\ UNCHANGED <<packs, cases, results>>

\* Mutant: a status that is not given is the default of a new run.
MergedAsNew(m, row) == [m EXCEPT !.status = IF @ = NoTest THEN "running" ELSE @,
                                 !.overall = IF @ = NoTest THEN "partial" ELSE @]

\* Mutant: what the body does not give is written as NULL.
MergedBlank(m, row) == m

\* What the body does not give stays as it was read.
MergedRun(m, row) == [m EXCEPT !.status = IF @ = NoTest THEN row.status ELSE @,
                               !.overall = IF @ = NoTest THEN row.overall ELSE @]

GetTestRun(q) ==
    /\ At(q, "getRun")
    /\ LET row == runs[Mem(q).id] IN
       IF row.state = "live" THEN Keeps(q, MergedRun(Mem(q), row)) ELSE Ends(q)
    /\ UNCHANGED testVars

UpdateTestRun(q) ==
    /\ At(q, "saveRun")
    /\ runs' = [runs EXCEPT ![Mem(q).id].status = Mem(q).status,
                            ![Mem(q).id].overall = Mem(q).overall]
    /\ Proceeds(q)
    /\ UNCHANGED <<packs, cases, results>>

ResultsOf(r) == {i \in TestIds : results[i].state = "live" /\ results[i].run = r}

\* Mutant: there is no such constraint.
NeverReported(m) == FALSE

\* UNIQUE (test_run_id, test_case_id): the second report of a case is an error.
Reported(m) == \E i \in ResultsOf(m.run) : results[i].case = m.case

CreateTestRunResult(q) ==
    /\ At(q, "insertResult")
    /\ results' = IF Reported(Mem(q)) THEN results
                  ELSE [results EXCEPT ![q] = [state |-> "live", run |-> Mem(q).run,
                                               case |-> Mem(q).case, status |-> Mem(q).status]]
    /\ Proceeds(q)
    /\ UNCHANGED <<packs, cases, runs>>

GetTestRunResult(q) ==
    /\ At(q, "getResult")
    /\ IF results[Mem(q).id].state = "live" THEN Proceeds(q) ELSE Ends(q)
    /\ UNCHANGED testVars

UpdateTestRunResult(q) ==
    /\ At(q, "saveResult")
    /\ results' = [results EXCEPT ![Mem(q).id].status = Mem(q).status]
    /\ Proceeds(q)
    /\ UNCHANGED <<packs, cases, runs>>

\* What a page of runs shows of one: how many of its results have the status.
ListTestRunsSummary(r, status) ==
    Cardinality({i \in ResultsOf(r) : results[i].status = status})

TestAborts(q) == Op(q) \in TestOps /\ Aborts(q) /\ UNCHANGED testVars

TestStep(q) ==
    \/ CreateTestPack(q) \/ GetTestPack(q) \/ UpdateTestPack(q) \/ SoftDeleteTestPack(q)
    \/ CreateTestCase(q) \/ GetTestCase(q) \/ UpdateTestCase(q) \/ SoftDeleteTestCase(q)
    \/ CreateTestRun(q) \/ GetTestRun(q) \/ UpdateTestRun(q) \/ CreateTestRunResult(q)
    \/ GetTestRunResult(q) \/ UpdateTestRunResult(q) \/ TestAborts(q)

(***************************************************************************)
(* Properties.                                                             *)
(***************************************************************************)
\* The rows have the types of the database columns.
TestsTypeOK ==
    /\ packs \in [TestIds -> RowStates]
    /\ cases \in [TestIds -> Case]
    /\ runs \in [TestIds -> Run]
    /\ results \in [TestIds -> Result]

\* Two reports of one case in one run, at the same time or again after a
\* failure, leave one result, so the four counts of a run's summary never add
\* up to more than the cases there are.
SummaryWithinCases ==
    \A r \in TestIds : runs[r].state # "absent" =>
        ListTestRunsSummary(r, "passed") + ListTestRunsSummary(r, "failed")
        + ListTestRunsSummary(r, "skipped") + ListTestRunsSummary(r, "blocked")
            <= Cardinality({c \in TestIds : cases[c].state # "absent"})

\* A case that is created while nothing else happens is in a pack that can be
\* seen (the pack is checked; one that another request deletes meanwhile, or
\* that a case is moved to, is not).
CreatedInLivePack ==
    [][\A i \in TestIds : clean /\ cases[i].state = "absent" /\ cases'[i].state = "live" =>
          packs[cases'[i].pack] = "live"]_<<packs, cases, clean>>

\* An update of a run that runs alone changes what it gives and nothing else:
\* a run that was completed is still completed when its verdict comes in.
RunUpdateExact ==
    [][\A i \in TestIds, q \in Requests :
          clean /\ At(q, "saveRun") /\ Mem(q).id = i =>
              /\ runs'[i].status \in {runs[i].status, "completed"}
              /\ runs'[i].overall \in {runs[i].overall, "passed", "failed"}
              /\ runs'[i].pack = runs[i].pack]_<<runs, proc, clean>>
==============================================================================
