------------------------- MODULE GithubImportProofs -------------------------
(***************************************************************************)
(* Theorems about GithubImport, for any set of workers, polls and requests *)
(* and any bounds.                                                         *)
(***************************************************************************)
EXTENDS GithubImport, FiniteSetTheorems, TLAPS

-----------------------------------------------------------------------------
(* Type correctness.                                                        *)

\* A fresh job row is a row.
LEMMA NewJobType == NewJob \in JobRow
BY DEF NewJob, JobRow

\* So is a row whose lease is released with a later available_at.
LEMMA ReleasedRowType ==
    ASSUME NEW x \in JobRow
    PROVE  [x EXCEPT !.due = FALSE, !.owner = NoOwner, !.live = FALSE] \in JobRow
BY DEF JobRow

\* A workflow_run event of an existing run leaves well-typed rows.
LEMMA RunEventType ==
    ASSUME TypeOK, NEW r \in RunIds, NEW a, NEW s, ApplyWorkflowRunEvent(r, a, s)
    PROVE  imp' \in ImportRow /\ job' \in [Kinds -> JobRow]
<1>1. RunIds \subseteq 0..MaxRuns
  BY ConstantsAssumption DEF RunIds
<1>2. job' \in [Kinds -> JobRow]
  BY NewJobType DEF ApplyWorkflowRunEvent, InsertOpenPR, TypeOK, Kinds
<1>3. imp' \in ImportRow
  BY <1>1 DEF ApplyWorkflowRunEvent, TypeOK, ImportRow, Statuses, Terminal
<1> QED BY <1>2, <1>3

\* So does a workflow_job event.
LEMMA JobEventType ==
    ASSUME TypeOK, NEW r \in RunIds, NEW a, NEW b \in RunAttempts,
           ApplyWorkflowJobEvent(r, a, b)
    PROVE  imp' \in ImportRow
<1>1. RunIds \subseteq 0..MaxRuns
  BY ConstantsAssumption DEF RunIds
<1>2. <<r, b>> \in RunIds \X RunAttempts
  OBVIOUS
<1>3. CASE imp' = imp
  BY <1>3 DEF TypeOK
<1>4. CASE imp' = [imp EXCEPT !.steps = @ \cup {<<r, b>>}, !.runId = r]
  <2>1. imp.steps \cup {<<r, b>>} \in SUBSET (RunIds \X RunAttempts)
    BY <1>2 DEF TypeOK, ImportRow
  <2> HIDE DEF RunIds, RunAttempts
  <2> QED BY <1>1, <1>4, <2>1 DEF TypeOK, ImportRow
<1> QED BY <1>3, <1>4 DEF ApplyWorkflowJobEvent

\* The initial state is well typed.
LEMMA InitType == Init => TypeOK
<1> SUFFICES ASSUME Init PROVE TypeOK
  OBVIOUS
<1> USE ConstantsAssumption DEF Init
<1>1. imp \in ImportRow
  BY DEF ImportRow, Statuses
<1>2. job \in [Kinds -> JobRow]
  BY DEF NewJob, JobRow
<1>3. worker \in [Workers -> WorkerState]
  BY DEF IdleWorker, WorkerState, Kinds
<1>4. gh \in [RunIds -> [attempt : 0..MaxRunAttempts, state : RunStates]]
  BY DEF RunStates
<1>5. /\ poll \in [Polls -> PollState]
      /\ \A p \in Polls : poll[p].phase \in {"fetched", "stepsApplied"} => poll[p].run # 0
  BY DEF IdlePoll, PollState, RunStates
<1>6. /\ rerun \in [Requests -> RerunState]
      /\ \A q \in Requests : rerun[q].phase # "idle" => rerun[q].run # 0
  BY DEF IdleRerun, RerunState
<1> QED BY <1>1, <1>2, <1>3, <1>4, <1>5, <1>6 DEF TypeOK

\* Every step keeps the types.
LEMMA NextType == TypeOK /\ [Next]_vars => TypeOK'
<1> SUFFICES ASSUME TypeOK, [Next]_vars PROVE TypeOK'
  OBVIOUS
<1> USE ConstantsAssumption DEF TypeOK
<1>1. CASE CreateImport \/ RetryImport
  <2>1. imp' \in ImportRow
    <3>1. CASE CreateImport
      BY <3>1 DEF CreateImport, InsertImport, ImportRow, Statuses
    <3>2. CASE RetryImport
      <4>1. 0 \in 0..MaxRuns /\ {} \in SUBSET (RunIds \X RunAttempts) /\ 1 \in Nat
        OBVIOUS
      <4> QED BY <3>2, <4>1 DEF RetryImport, ImportRow, Statuses
    <3> QED BY <1>1, <3>1, <3>2
  <2>2. job' \in [Kinds -> JobRow]
    BY <1>1, NewJobType DEF CreateImport, InsertImport, RetryImport, Kinds
  <2> QED BY <1>1, <2>1, <2>2 DEF CreateImport, InsertImport, RetryImport
<1>2. ASSUME NEW r \in RunIds, NEW a \in RunAttempts,
             WebhookRunProgress(r, a) \/ WebhookRunCompleted(r, a)
      PROVE  TypeOK'
  <2>1. imp' \in ImportRow /\ job' \in [Kinds -> JobRow]
    BY <1>2, RunEventType DEF WebhookRunProgress, WebhookRunCompleted
  <2>2. recorded' \subseteq RunIds \X RunAttempts
    BY <1>2 DEF WebhookRunProgress, WebhookRunCompleted, RecordWebhook
  <2> QED BY <1>2, <2>1, <2>2 DEF WebhookRunProgress, WebhookRunCompleted
<1>3. ASSUME NEW r \in RunIds, NEW a \in RunAttempts, WebhookLost(r, a)
      PROVE  TypeOK'
  BY <1>3 DEF WebhookLost, RecordWebhook
<1>4. ASSUME NEW r \in RunIds, NEW a \in RunAttempts, WebhookJob(r, a)
      PROVE  TypeOK'
  BY <1>4, JobEventType DEF WebhookJob
<1>5. ASSUME NEW p \in Polls,
             PollRead(p) \/ PollGetWorkflowRun(p) \/ PollAborts(p)
      PROVE  TypeOK'
  <2>1. imp.runId \in 0..MaxRuns
    BY DEF ImportRow
  <2>2. poll[p].run \in 0..MaxRuns
    BY DEF PollState
  <2>3. /\ poll' \in [Polls -> PollState]
        /\ \A i \in Polls : poll'[i].phase \in {"fetched", "stepsApplied"} => poll'[i].run # 0
    <3>1. CASE PollRead(p)
      <4>1. ReadPoll(imp.runId) \in PollState /\ ReadPoll(imp.runId).phase = "read"
        BY <2>1 DEF ReadPoll, PollState, RunStates
      <4> QED BY <3>1, <4>1 DEF PollRead
    <3>2. CASE PollAborts(p)
      BY <3>2 DEF PollAborts, IdlePoll, PollState, RunStates
    <3>3. CASE PollGetWorkflowRun(p)
      BY <3>3, <2>2 DEF PollGetWorkflowRun, IdlePoll, PollState, RunStates, RunIds
    <3> QED BY <1>5, <3>1, <3>2, <3>3
  <2> QED BY <1>5, <2>3 DEF PollRead, PollGetWorkflowRun, PollAborts
<1>6. ASSUME NEW p \in Polls, PollApplySteps(p)
      PROVE  TypeOK'
  <2>1. poll[p].run \in RunIds
    BY <1>6 DEF PollApplySteps, PollState, RunIds
  <2>2. imp' \in ImportRow
    BY <1>6, <2>1, JobEventType DEF PollApplySteps
  <2>3. /\ poll' \in [Polls -> PollState]
        /\ \A i \in Polls : poll'[i].phase \in {"fetched", "stepsApplied"} => poll'[i].run # 0
    BY <1>6 DEF PollApplySteps, PollState
  <2> QED BY <1>6, <2>2, <2>3 DEF PollApplySteps
<1>7. ASSUME NEW p \in Polls, PollApplyRun(p)
      PROVE  TypeOK'
  <2>1. poll[p].run \in RunIds
    BY <1>7 DEF PollApplyRun, PollState, RunIds
  <2>2. imp' \in ImportRow /\ job' \in [Kinds -> JobRow]
    BY <1>7, <2>1, RunEventType DEF PollApplyRun
  <2>3. /\ poll' \in [Polls -> PollState]
        /\ \A i \in Polls : poll'[i].phase \in {"fetched", "stepsApplied"} => poll'[i].run # 0
    BY <1>7 DEF PollApplyRun, IdlePoll, PollState, RunStates
  <2> QED BY <1>7, <2>2, <2>3 DEF PollApplyRun
<1>8. ASSUME NEW q \in Requests, RerunRead(q) \/ RerunAborts(q)
      PROVE  TypeOK'
  <2>1. imp.runId \in 0..MaxRuns
    BY DEF ImportRow
  <2>2. /\ rerun' \in [Requests -> RerunState]
        /\ \A i \in Requests : rerun'[i].phase # "idle" => rerun'[i].run # 0
    <3>1. CASE RerunRead(q)
      BY <2>1, <3>1 DEF RerunRead, RerunState
    <3>2. CASE RerunAborts(q)
      BY <3>2 DEF RerunAborts, IdleRerun, RerunState
    <3> QED BY <1>8, <3>1, <3>2
  <2> QED BY <1>8, <2>2 DEF RerunRead, RerunAborts
<1>9. ASSUME NEW q \in Requests, RerunFailedJobs(q)
      PROVE  TypeOK'
  <2>1. rerun[q].run \in RunIds
    BY <1>9 DEF RerunFailedJobs, RerunState, RunIds
  <2>2. gh' \in [RunIds -> [attempt : 0..MaxRunAttempts, state : RunStates]]
    BY <1>9, <2>1 DEF RerunFailedJobs, RunStates
  <2>3. /\ rerun' \in [Requests -> RerunState]
        /\ \A i \in Requests : rerun'[i].phase # "idle" => rerun'[i].run # 0
    BY <1>9 DEF RerunFailedJobs, RerunState
  <2> QED BY <1>9, <2>2, <2>3 DEF RerunFailedJobs
<1>10. ASSUME NEW q \in Requests, ResumeImportRun(q)
       PROVE  TypeOK'
  <2>1. imp' \in ImportRow
    <3>1. imp.runAttempt + 1 \in Nat /\ {} \in SUBSET (RunIds \X RunAttempts)
      BY DEF ImportRow
    <3>2. CASE imp' = imp
      BY <3>2
    <3>3. CASE imp' = [imp EXCEPT !.status = "run_running", !.error = FALSE,
                                  !.steps = {}, !.runAttempt = @ + 1]
      BY <3>1, <3>3 DEF ImportRow, Statuses
    <3> QED BY <1>10, <3>2, <3>3 DEF ResumeImportRun
  <2>2. /\ rerun' \in [Requests -> RerunState]
        /\ \A i \in Requests : rerun'[i].phase # "idle" => rerun'[i].run # 0
    BY <1>10 DEF ResumeImportRun, IdleRerun, RerunState
  <2> QED BY <1>10, <2>1, <2>2 DEF ResumeImportRun
<1>11. ASSUME NEW w \in Workers, WorkerStep(w) \/ AbandonJob(w) \/ WorkerStops(w)
       PROVE  TypeOK'
  <2>1. CASE \E k \in Kinds : ClaimJob(w, k)
    BY <2>1 DEF ClaimJob, JobRow, WorkerState
  <2>2. CASE ProcessFails(w)
    BY <2>2 DEF ProcessFails, WorkerState
  <2>3. CASE StartRun(w)
    <3>1. latest' \in 0..MaxRuns /\ gh' \in [RunIds -> [attempt : 0..MaxRunAttempts, state : RunStates]]
      BY <2>3 DEF StartRun, GitHubStartsRun, RunStates, RunIds
    <3>2. worker' \in [Workers -> WorkerState]
      BY <2>3 DEF StartRun, WorkerState
    <3> QED BY <2>3, <3>1, <3>2 DEF StartRun
  <2>4. CASE SetImportRunQueued(w) \/ SetImportPullRequest(w)
    <3>1. imp' \in ImportRow
      BY <2>4 DEF SetImportRunQueued, SetImportPullRequest, ImportRow, Statuses
    <3>2. worker' \in [Workers -> WorkerState]
      BY <2>4 DEF SetImportRunQueued, SetImportPullRequest, WorkerState
    <3> QED BY <2>4, <3>1, <3>2 DEF SetImportRunQueued, SetImportPullRequest
  <2>5. CASE OpenPullRequest(w)
    BY <2>5 DEF OpenPullRequest, WorkerState
  <2>6. [IdleWorker EXCEPT !.phase = "dead"] \in WorkerState /\ IdleWorker \in WorkerState
    BY DEF IdleWorker, WorkerState, Kinds
  <2>7. \A k : FinishRow(k, w) => job' \in [Kinds -> JobRow]
    <3>1. [NewJob EXCEPT !.state = "done"] \in JobRow
      BY DEF NewJob, JobRow
    <3> QED BY <3>1 DEF FinishRow
  <2>8. CASE CompleteJob(w)
    BY <2>6, <2>7, <2>8 DEF CompleteJob
  <2>9. CASE RetryJobExhausted(w)
    <3>1. imp' \in ImportRow
      BY <2>9 DEF RetryJobExhausted, ImportRow, Statuses, Terminal
    <3> QED BY <2>6, <2>7, <2>9, <3>1 DEF RetryJobExhausted
  <2>10. CASE RetryJobLater(w)
    <3>1. job' \in [Kinds -> JobRow]
      <4> DEFINE k == worker[w].kind
      <4>1. k \in Kinds
        BY DEF WorkerState
      <4>2. [job[k] EXCEPT !.due = FALSE, !.owner = NoOwner, !.live = FALSE] \in JobRow
        BY <4>1, ReleasedRowType
      <4>3. \/ job' = job
            \/ job' = [job EXCEPT ![k] = [job[k] EXCEPT !.due = FALSE, !.owner = NoOwner,
                                                        !.live = FALSE]]
        BY <2>10, <4>1 DEF RetryJobLater
      <4> QED BY <4>1, <4>2, <4>3
    <3> QED BY <2>6, <2>10, <3>1 DEF RetryJobLater
  <2>11. CASE AbandonJob(w) \/ WorkerStops(w)
    BY <2>6, <2>11 DEF AbandonJob, WorkerStops
  <2> QED BY <1>11, <2>1, <2>2, <2>3, <2>4, <2>5, <2>8, <2>9, <2>10, <2>11 DEF WorkerStep
<1>12. ASSUME NEW k \in Kinds, LeaseExpires(k) \/ BackoffElapses(k)
       PROVE  TypeOK'
  <2>1. [job[k] EXCEPT !.live = FALSE] \in JobRow /\ [job[k] EXCEPT !.due = TRUE] \in JobRow
    BY DEF JobRow
  <2> QED BY <1>12, <2>1 DEF LeaseExpires, BackoffElapses
<1>13. ASSUME NEW r \in RunIds, GitHubFinishesRun(r)
       PROVE  TypeOK'
  BY <1>13 DEF GitHubFinishesRun, RunStates
<1>14. CASE UNCHANGED vars
  BY <1>14 DEF vars
<1> QED BY <1>1, <1>2, <1>3, <1>4, <1>5, <1>6, <1>7, <1>8, <1>9, <1>10, <1>11,
           <1>12, <1>13, <1>14 DEF Next

\* The import row, the job rows, GitHub's runs and every request in flight keep
\* their types.
THEOREM TypeCorrect == Spec => []TypeOK
<1>1. Init => TypeOK
  BY InitType
<1>2. TypeOK /\ [Next]_vars => TypeOK'
  BY NextType
<1> QED BY <1>1, <1>2, PTL DEF Spec

-----------------------------------------------------------------------------
(* No import is left waiting for a job that is gone.                        *)

\* What makes NoLostStart inductive: a worker that is about to mark the start
\* job done, and still owns its lease, has already moved the import on.  It
\* holds because a retry, the only way back to "selected", clears the lease.
FinishAfterStart ==
    \A w \in Workers :
        worker[w].phase = "complete" /\ worker[w].kind = "start" /\ job["start"].owner = w
        => imp.status # "selected"

StartInv == NoLostStart /\ FinishAfterStart

\* Neither a run event nor a job event makes an import "selected", and the only
\* row they touch is that of the open_pr job.
LEMMA EventKeepsStart ==
    ASSUME TypeOK, StartInv, UNCHANGED worker,
           \/ \E r, a, s : ApplyWorkflowRunEvent(r, a, s)
           \/ (\E r, a, b : ApplyWorkflowJobEvent(r, a, b)) /\ UNCHANGED job
           \/ UNCHANGED <<imp, job>>
    PROVE  StartInv'
<1>1. job'["start"] = job["start"]
  BY DEF ApplyWorkflowRunEvent, InsertOpenPR, TypeOK, Kinds
<1>2. imp'.status = "selected" => imp.status = "selected"
  BY DEF ApplyWorkflowRunEvent, ApplyWorkflowJobEvent, TypeOK, ImportRow
<1> QED BY <1>1, <1>2 DEF StartInv, NoLostStart, FinishAfterStart

\* Every step keeps StartInv.
LEMMA NextStart == TypeOK /\ StartInv /\ [Next]_vars => StartInv'
<1> SUFFICES ASSUME TypeOK, StartInv, [Next]_vars PROVE StartInv'
  OBVIOUS
<1> USE ConstantsAssumption DEF TypeOK
<1>1. CASE CreateImport \/ RetryImport
  <2>1. job'["start"] = NewJob /\ worker' = worker
    BY <1>1 DEF CreateImport, InsertImport, RetryImport, Kinds
  <2> QED BY <2>1 DEF NewJob, StartInv, NoLostStart, FinishAfterStart
<1>2. ASSUME NEW r \in RunIds, NEW a \in RunAttempts,
             \/ WebhookRunProgress(r, a) \/ WebhookRunCompleted(r, a)
             \/ WebhookLost(r, a) \/ WebhookJob(r, a)
      PROVE  StartInv'
  BY <1>2, EventKeepsStart
     DEF WebhookRunProgress, WebhookRunCompleted, WebhookLost, WebhookJob
<1>3. ASSUME NEW p \in Polls,
             \/ PollRead(p) \/ PollGetWorkflowRun(p) \/ PollApplySteps(p)
             \/ PollApplyRun(p) \/ PollAborts(p)
      PROVE  StartInv'
  BY <1>3, EventKeepsStart
     DEF PollRead, PollGetWorkflowRun, PollApplySteps, PollApplyRun, PollAborts
<1>4. ASSUME NEW q \in Requests, RerunRead(q) \/ RerunFailedJobs(q) \/ RerunAborts(q)
      PROVE  StartInv'
  BY <1>4 DEF RerunRead, RerunFailedJobs, RerunAborts, StartInv, NoLostStart, FinishAfterStart
<1>5. ASSUME NEW q \in Requests, ResumeImportRun(q)
      PROVE  StartInv'
  <2>1. imp'.status = "selected" => imp.status = "selected"
    BY <1>5 DEF ResumeImportRun, ImportRow
  <2> QED BY <1>5, <2>1 DEF ResumeImportRun, StartInv, NoLostStart, FinishAfterStart
<1>6. ASSUME NEW w \in Workers, NEW k \in Kinds, ClaimJob(w, k)
      PROVE  StartInv'
  <2>1. job'["start"].state = job["start"].state
    BY <1>6 DEF ClaimJob, Kinds, JobRow
  <2>2. \A v \in Workers : worker'[v].phase = "complete" => v # w /\ worker'[v] = worker[v]
    BY <1>6 DEF ClaimJob
  <2>3. \A v \in Workers : v # w /\ job'["start"].owner = v => job["start"].owner = v
    BY <1>6 DEF ClaimJob, Kinds, JobRow
  <2> QED BY <1>6, <2>1, <2>2, <2>3 DEF ClaimJob, StartInv, NoLostStart, FinishAfterStart
<1>7. ASSUME NEW w \in Workers,
             \/ ProcessFails(w) \/ StartRun(w) \/ OpenPullRequest(w)
             \/ AbandonJob(w) \/ WorkerStops(w)
      PROVE  StartInv'
  <2>1. imp' = imp /\ job' = job
    BY <1>7 DEF ProcessFails, StartRun, OpenPullRequest, AbandonJob, WorkerStops
  <2>2. \A v \in Workers : worker'[v].phase = "complete" => worker'[v] = worker[v]
    BY <1>7 DEF ProcessFails, StartRun, OpenPullRequest, AbandonJob, WorkerStops, IdleWorker,
                WorkerState
  <2> QED BY <2>1, <2>2 DEF StartInv, NoLostStart, FinishAfterStart
<1>8. ASSUME NEW w \in Workers, SetImportRunQueued(w)
      PROVE  StartInv'
  <2>1. imp'.status # "selected"
    BY <1>8 DEF SetImportRunQueued, ImportRow
  <2> QED BY <2>1 DEF StartInv, NoLostStart, FinishAfterStart
<1>9. ASSUME NEW w \in Workers, SetImportPullRequest(w)
      PROVE  StartInv'
  <2>1. imp'.status = imp.status /\ job' = job
    BY <1>9 DEF SetImportPullRequest, ImportRow
  <2>2. \A v \in Workers : worker'[v].kind = "start" => worker'[v] = worker[v]
    BY <1>9 DEF SetImportPullRequest, WorkerState
  <2> QED BY <2>1, <2>2 DEF StartInv, NoLostStart, FinishAfterStart
<1>10. ASSUME NEW w \in Workers,
              CompleteJob(w) \/ RetryJobExhausted(w) \/ RetryJobLater(w)
       PROVE  StartInv'
  <2>1. \A v \in Workers : worker'[v].phase = "complete" => worker'[v] = worker[v]
    BY <1>10 DEF CompleteJob, RetryJobExhausted, RetryJobLater, IdleWorker, WorkerState
  <2>2. \A v \in Workers : job'["start"].owner = v => job["start"].owner = v
    <3>1. CASE CompleteJob(w) \/ RetryJobExhausted(w)
      <4>1. \/ job' = job
            \/ job' = [job EXCEPT ![worker[w].kind] = [NewJob EXCEPT !.state = "done"]]
        BY <3>1 DEF CompleteJob, RetryJobExhausted, FinishRow
      <4>2. [NewJob EXCEPT !.state = "done"].owner = NoOwner
        BY DEF NewJob
      <4> QED BY <4>1, <4>2 DEF Kinds
    <3>2. CASE RetryJobLater(w)
      BY <3>2 DEF RetryJobLater, Kinds, JobRow
    <3> QED BY <1>10, <3>1, <3>2
  <2>3. imp'.status = "selected" => imp.status = "selected"
    BY <1>10 DEF CompleteJob, RetryJobExhausted, RetryJobLater, ImportRow
  <2>4. imp'.status = "selected" => job'["start"].state = job["start"].state
    <3>1. CASE CompleteJob(w)
      <4>1. imp' = imp
        BY <3>1 DEF CompleteJob
      <4>2. CASE worker[w].kind = "start" /\ job["start"].owner = w
        BY <3>1, <4>1, <4>2 DEF CompleteJob, StartInv, FinishAfterStart
      <4>3. CASE ~(worker[w].kind = "start" /\ job["start"].owner = w)
        BY <3>1, <4>3 DEF CompleteJob, FinishRow, Kinds
      <4> QED BY <4>2, <4>3
    <3>2. CASE RetryJobExhausted(w)
      <4>1. CASE worker[w].kind = "start"
        BY <3>2, <4>1 DEF RetryJobExhausted, ImportRow
      <4>2. CASE worker[w].kind # "start"
        BY <3>2, <4>2 DEF RetryJobExhausted, FinishRow, Kinds
      <4> QED BY <4>1, <4>2
    <3>3. CASE RetryJobLater(w)
      BY <3>3 DEF RetryJobLater, Kinds, JobRow
    <3> QED BY <1>10, <3>1, <3>2, <3>3
  <2> QED BY <2>1, <2>2, <2>3, <2>4 DEF StartInv, NoLostStart, FinishAfterStart
<1>11. ASSUME NEW k \in Kinds, LeaseExpires(k) \/ BackoffElapses(k)
       PROVE  StartInv'
  <2>1. /\ job'["start"].state = job["start"].state
        /\ job'["start"].owner = job["start"].owner
    BY <1>11 DEF LeaseExpires, BackoffElapses, Kinds, JobRow
  <2> QED BY <1>11, <2>1 DEF LeaseExpires, BackoffElapses, StartInv, NoLostStart, FinishAfterStart
<1>12. ASSUME NEW r \in RunIds, GitHubFinishesRun(r)
       PROVE  StartInv'
  BY <1>12 DEF GitHubFinishesRun, StartInv, NoLostStart, FinishAfterStart
<1>13. CASE UNCHANGED vars
  BY <1>13 DEF vars, StartInv, NoLostStart, FinishAfterStart
<1> QED BY <1>1, <1>2, <1>3, <1>4, <1>5, <1>6, <1>7, <1>8, <1>9, <1>10, <1>11,
           <1>12, <1>13 DEF Next, WorkerStep

\* However workers, leases, retries and late replies interleave, an import that
\* waits to be started has a start job waiting for a worker.
THEOREM StartIsNeverLost == Spec => []NoLostStart
<1>1. Init => StartInv
  BY DEF Init, StartInv, NoLostStart, FinishAfterStart
<1>2. TypeOK /\ StartInv /\ [Next]_vars => StartInv'
  BY NextStart
<1>3. StartInv => NoLostStart
  BY DEF StartInv
<1> QED BY <1>1, <1>2, <1>3, TypeCorrect, PTL DEF Spec

-----------------------------------------------------------------------------
(* The row tells one story.                                                 *)

\* What makes RowIsCoherent inductive: the open_pr job is inserted with the
\* completion that stores the service, a service is never taken back, and a
\* worker on an open_pr job took it from that row.
PullRequestFollowsService ==
    /\ job["open_pr"].state # "absent" => imp.service
    /\ \A w \in Workers : worker[w].kind = "open_pr" => imp.service

RowInv == RowIsCoherent /\ PullRequestFollowsService

\* A run event leaves a coherent row: it fails an import with its error, or
\* completes it with its service and its open_pr job.
LEMMA RunEventKeepsRow ==
    ASSUME TypeOK, RowInv, UNCHANGED worker, NEW r \in RunIds, NEW a \in 0..MaxRunAttempts,
           NEW s, ApplyWorkflowRunEvent(r, a, s)
    PROVE  RowInv'
<1> USE ConstantsAssumption DEF TypeOK, RowInv, RowIsCoherent
<1>1. imp.runId \in Nat /\ r \in Nat /\ \A x \in imp.steps : x[1] \in Nat
  BY DEF ImportRow, RunIds
<1>2. StepsNotNewerThanRun'
  <2>1. imp'.steps = imp.steps /\ (imp'.runId = imp.runId \/ (imp'.runId = r /\ ~StaleEvent(r, a)))
    <3>1. CASE imp' = imp
      BY <3>1
    <3>2. CASE ~StaleEvent(r, a) /\ ~UNCHANGED <<imp, job>>
      <4>1. \/ imp' = [imp EXCEPT !.status = "run_running", !.runId = r]
            \/ imp' = [imp EXCEPT !.status = "failed", !.error = TRUE, !.runId = r]
            \/ imp' = [imp EXCEPT !.status = "completed", !.service = TRUE, !.runId = r]
        BY <3>2 DEF ApplyWorkflowRunEvent
      <4> QED BY <3>2, <4>1 DEF ImportRow
    <3> QED BY <3>1, <3>2 DEF ApplyWorkflowRunEvent
  <2>2. imp'.runId >= imp.runId /\ imp'.runId \in Nat
    BY <1>1, <2>1 DEF StaleEvent
  <2> QED BY <1>1, <2>1, <2>2 DEF StepsNotNewerThanRun
<1>3. ErrorIffFailed'
  BY DEF ApplyWorkflowRunEvent, ActiveImport, Terminal, ErrorIffFailed, ImportRow
<1>4. imp.service => imp'.service
  BY DEF ApplyWorkflowRunEvent, ImportRow
<1>5. imp'.pr = imp.pr
  BY DEF ApplyWorkflowRunEvent, ImportRow
<1>6. PullRequestNeedsService'
  BY <1>4, <1>5 DEF PullRequestNeedsService
<1>7. \/ job' = job /\ (imp'.status = "completed" => imp.status = "completed")
      \/ imp'.service /\ InsertOpenPR
  BY DEF ApplyWorkflowRunEvent, ImportRow
<1>8. InsertOpenPR => job'["open_pr"].state # "absent"
  BY DEF InsertOpenPR, HasActive, NewJob, Kinds
<1>9. CompletionLeavesJob'
  BY <1>7, <1>8 DEF CompletionLeavesJob
<1>10. PullRequestFollowsService'
  BY <1>4, <1>7 DEF PullRequestFollowsService
<1> QED BY <1>2, <1>3, <1>6, <1>9, <1>10

\* So does a job event: run_id moves along with the steps.
LEMMA JobEventKeepsRow ==
    ASSUME TypeOK, RowInv, UNCHANGED <<worker, job>>, NEW r \in RunIds,
           NEW a \in 0..MaxRunAttempts, NEW b, ApplyWorkflowJobEvent(r, a, b)
    PROVE  RowInv'
<1> USE ConstantsAssumption DEF TypeOK, RowInv, RowIsCoherent
<1>1. imp.runId \in Nat /\ r \in Nat /\ \A x \in imp.steps : x[1] \in Nat
  BY DEF ImportRow, RunIds
<1>2. StepsNotNewerThanRun'
  <2>1. CASE imp' = imp
    BY <2>1 DEF StepsNotNewerThanRun
  <2>2. CASE imp' # imp
    <3>1. imp'.steps = imp.steps \cup {<<r, b>>} /\ imp'.runId = r /\ r >= imp.runId
      BY <1>1, <2>2 DEF ApplyWorkflowJobEvent, StaleEvent, ImportRow
    <3> QED BY <1>1, <3>1 DEF StepsNotNewerThanRun
  <2> QED BY <2>1, <2>2
<1>3. /\ imp'.status = imp.status /\ imp'.error = imp.error
      /\ imp'.service = imp.service /\ imp'.pr = imp.pr
  BY DEF ApplyWorkflowJobEvent, ImportRow
<1> QED BY <1>2, <1>3 DEF ErrorIffFailed, PullRequestNeedsService, CompletionLeavesJob,
                          PullRequestFollowsService

\* A step that leaves the row alone, keeps each job in being and puts no worker
\* on an open_pr job that is not there leaves the row coherent.
LEMMA OthersKeepRow ==
    ASSUME TypeOK, RowInv, imp' = imp,
           \A k \in Kinds : (job'[k].state = "absent") <=> (job[k].state = "absent"),
           \A w \in Workers : worker'[w].kind = "open_pr" =>
               worker[w].kind = "open_pr" \/ job["open_pr"].state # "absent"
    PROVE  RowInv'
BY DEF RowInv, RowIsCoherent, ErrorIffFailed, StepsNotNewerThanRun, PullRequestNeedsService,
       CompletionLeavesJob, PullRequestFollowsService, Kinds

\* Every step keeps RowInv.
LEMMA NextRow == TypeOK /\ RowInv /\ [Next]_vars => RowInv'
<1> SUFFICES ASSUME TypeOK, RowInv, [Next]_vars PROVE RowInv'
  OBVIOUS
<1> USE ConstantsAssumption DEF TypeOK
<1>a. RunAttempts \subseteq 0..MaxRunAttempts
  BY DEF RunAttempts
<1>1. CASE CreateImport \/ RetryImport
  <2>1. /\ job'["open_pr"] = job["open_pr"] /\ worker' = worker
        /\ imp'.status = "selected" /\ ~imp'.error
        /\ imp'.service = imp.service /\ imp'.pr = imp.pr
    BY <1>1 DEF CreateImport, InsertImport, RetryImport, Kinds, ImportRow, RowInv,
                RowIsCoherent, ErrorIffFailed
  <2>2. StepsNotNewerThanRun'
    BY <1>1 DEF CreateImport, InsertImport, RetryImport, ImportRow, RowInv, RowIsCoherent,
                StepsNotNewerThanRun
  <2> QED BY <2>1, <2>2 DEF RowInv, RowIsCoherent, ErrorIffFailed, PullRequestNeedsService,
                            CompletionLeavesJob, PullRequestFollowsService
<1>2. ASSUME NEW r \in RunIds, NEW a \in RunAttempts,
             WebhookRunProgress(r, a) \/ WebhookRunCompleted(r, a)
      PROVE  RowInv'
  BY <1>2, <1>a, RunEventKeepsRow DEF WebhookRunProgress, WebhookRunCompleted
<1>3. ASSUME NEW r \in RunIds, NEW a \in RunAttempts, WebhookJob(r, a)
      PROVE  RowInv'
  BY <1>3, <1>a, JobEventKeepsRow DEF WebhookJob
<1>4. ASSUME NEW r \in RunIds, NEW a \in RunAttempts, WebhookLost(r, a)
      PROVE  RowInv'
  BY <1>4, OthersKeepRow DEF WebhookLost
<1>5. ASSUME NEW p \in Polls, PollRead(p) \/ PollGetWorkflowRun(p) \/ PollAborts(p)
      PROVE  RowInv'
  BY <1>5, OthersKeepRow DEF PollRead, PollGetWorkflowRun, PollAborts
<1>6. ASSUME NEW p \in Polls, PollApplySteps(p)
      PROVE  RowInv'
  <2>1. poll[p].run \in RunIds /\ poll[p].attempt \in 0..MaxRunAttempts
    BY <1>6 DEF PollApplySteps, PollState, RunIds
  <2>2. CASE imp' = imp
    BY <1>6, <2>2, OthersKeepRow DEF PollApplySteps
  <2>3. CASE \E b \in RunAttempts : ApplyWorkflowJobEvent(poll[p].run, poll[p].attempt, b)
    BY <1>6, <2>1, <2>3, JobEventKeepsRow DEF PollApplySteps
  <2> QED BY <1>6, <2>2, <2>3 DEF PollApplySteps
<1>7. ASSUME NEW p \in Polls, PollApplyRun(p)
      PROVE  RowInv'
  <2>1. poll[p].run \in RunIds /\ poll[p].attempt \in 0..MaxRunAttempts
    BY <1>7 DEF PollApplyRun, PollState, RunIds
  <2> QED BY <1>7, <2>1, RunEventKeepsRow DEF PollApplyRun
<1>8. ASSUME NEW q \in Requests, RerunRead(q) \/ RerunFailedJobs(q) \/ RerunAborts(q)
      PROVE  RowInv'
  BY <1>8, OthersKeepRow DEF RerunRead, RerunFailedJobs, RerunAborts
<1>9. ASSUME NEW q \in Requests, ResumeImportRun(q)
      PROVE  RowInv'
  <2>1. CASE imp' = imp
    BY <1>9, <2>1, OthersKeepRow DEF ResumeImportRun
  <2>2. CASE imp' # imp
    <3>1. /\ imp'.status = "run_running" /\ ~imp'.error /\ imp'.steps = {}
          /\ imp'.service = imp.service /\ imp'.pr = imp.pr
      BY <1>9, <2>2 DEF ResumeImportRun, ImportRow
    <3> QED BY <1>9, <3>1 DEF ResumeImportRun, RowInv, RowIsCoherent, ErrorIffFailed,
               StepsNotNewerThanRun, PullRequestNeedsService, CompletionLeavesJob,
               PullRequestFollowsService
  <2> QED BY <2>1, <2>2
<1>10. ASSUME NEW w \in Workers, NEW k \in Kinds, ClaimJob(w, k)
       PROVE  RowInv'
  <2>1. \A j \in Kinds : job'[j].state = job[j].state
    BY <1>10 DEF ClaimJob, JobRow
  <2>2. \A v \in Workers : worker'[v].kind = "open_pr" =>
            worker[v].kind = "open_pr" \/ job["open_pr"].state # "absent"
    BY <1>10 DEF ClaimJob
  <2> QED BY <1>10, <2>1, <2>2, OthersKeepRow DEF ClaimJob
<1>11. ASSUME NEW w \in Workers,
              \/ ProcessFails(w) \/ StartRun(w) \/ OpenPullRequest(w)
              \/ AbandonJob(w) \/ WorkerStops(w)
       PROVE  RowInv'
  <2>1. imp' = imp /\ job' = job
    BY <1>11 DEF ProcessFails, StartRun, OpenPullRequest, AbandonJob, WorkerStops
  <2>2. \A v \in Workers : worker'[v].kind = "open_pr" => worker[v].kind = "open_pr"
    BY <1>11 DEF ProcessFails, StartRun, OpenPullRequest, AbandonJob, WorkerStops, IdleWorker,
                 WorkerState
  <2> QED BY <2>1, <2>2, OthersKeepRow
<1>12. ASSUME NEW w \in Workers, SetImportRunQueued(w) \/ SetImportPullRequest(w)
       PROVE  RowInv'
  <2>1. \A v \in Workers : worker'[v].kind = "open_pr" => worker[v].kind = "open_pr"
    BY <1>12 DEF SetImportRunQueued, SetImportPullRequest, WorkerState
  <2>2. /\ imp'.steps = imp.steps /\ imp'.runId = imp.runId /\ imp'.error = imp.error
        /\ imp'.service = imp.service
        /\ \/ imp'.status = imp.status
           \/ imp.status = "selected" /\ imp'.status = "run_queued"
    BY <1>12 DEF SetImportRunQueued, SetImportPullRequest, ImportRow
  <2>3. imp'.pr => imp.service
    <3>1. CASE SetImportRunQueued(w)
      BY <3>1 DEF SetImportRunQueued, ImportRow, RowInv, RowIsCoherent, PullRequestNeedsService
    <3>2. CASE SetImportPullRequest(w)
      BY <3>2 DEF SetImportPullRequest, RowInv, PullRequestFollowsService
    <3> QED BY <1>12, <3>1, <3>2
  <2>4. job' = job
    BY <1>12 DEF SetImportRunQueued, SetImportPullRequest
  <2> QED BY <2>1, <2>2, <2>3, <2>4 DEF RowInv, RowIsCoherent, ErrorIffFailed,
             StepsNotNewerThanRun, PullRequestNeedsService, CompletionLeavesJob,
             PullRequestFollowsService
<1>13. ASSUME NEW w \in Workers,
              CompleteJob(w) \/ RetryJobExhausted(w) \/ RetryJobLater(w)
       PROVE  RowInv'
  <2>1. \A v \in Workers : worker'[v].kind = "open_pr" => worker[v].kind = "open_pr"
    BY <1>13 DEF CompleteJob, RetryJobExhausted, RetryJobLater, IdleWorker, WorkerState
  <2>2. \A k \in Kinds : job'[k].state # "absent" => job[k].state # "absent" \/ worker[w].kind = k
    <3>1. CASE CompleteJob(w) \/ RetryJobExhausted(w)
      BY <3>1 DEF CompleteJob, RetryJobExhausted, FinishRow
    <3>2. CASE RetryJobLater(w)
      BY <3>2 DEF RetryJobLater, JobRow
    <3> QED BY <1>13, <3>1, <3>2
  <2>3. job["open_pr"].state # "absent" => job'["open_pr"].state # "absent"
    <3>1. [NewJob EXCEPT !.state = "done"].state = "done"
      BY DEF NewJob
    <3>2. CASE CompleteJob(w) \/ RetryJobExhausted(w)
      BY <3>1, <3>2 DEF CompleteJob, RetryJobExhausted, FinishRow, Kinds
    <3>3. CASE RetryJobLater(w)
      BY <3>3 DEF RetryJobLater, JobRow, Kinds
    <3> QED BY <1>13, <3>2, <3>3
  <2>4. /\ imp'.steps = imp.steps /\ imp'.runId = imp.runId /\ imp'.service = imp.service
        /\ imp'.pr = imp.pr
        /\ \/ imp'.status = imp.status /\ imp'.error = imp.error
           \/ imp'.status = "failed" /\ imp'.error
    BY <1>13 DEF CompleteJob, RetryJobExhausted, RetryJobLater, ImportRow
  <2> QED BY <2>1, <2>2, <2>3, <2>4 DEF RowInv, RowIsCoherent, ErrorIffFailed,
             StepsNotNewerThanRun, PullRequestNeedsService, CompletionLeavesJob,
             PullRequestFollowsService, Kinds
<1>14. ASSUME NEW k \in Kinds, LeaseExpires(k) \/ BackoffElapses(k)
       PROVE  RowInv'
  <2>1. \A j \in Kinds : job'[j].state = job[j].state
    BY <1>14 DEF LeaseExpires, BackoffElapses, JobRow
  <2> QED BY <1>14, <2>1, OthersKeepRow DEF LeaseExpires, BackoffElapses
<1>15. ASSUME NEW r \in RunIds, GitHubFinishesRun(r)
       PROVE  RowInv'
  BY <1>15, OthersKeepRow DEF GitHubFinishesRun
<1>16. CASE UNCHANGED vars
  BY <1>16, OthersKeepRow DEF vars
<1> QED BY <1>1, <1>2, <1>3, <1>4, <1>5, <1>6, <1>7, <1>8, <1>9, <1>10, <1>11, <1>12,
           <1>13, <1>14, <1>15, <1>16 DEF Next, WorkerStep

\* Whichever worker, webhook, poll or request wrote last, the row's error is
\* that of its failure, its steps are not of a newer run than it follows, its
\* pull request has a service and its completion an open_pr job.
THEOREM RowStaysCoherent == Spec => []RowIsCoherent
<1>1. Init => RowInv
  BY DEF Init, RowInv, RowIsCoherent, ErrorIffFailed, StepsNotNewerThanRun, NewJob, IdleWorker,
         PullRequestNeedsService, CompletionLeavesJob, PullRequestFollowsService, Kinds
<1>2. TypeOK /\ RowInv /\ [Next]_vars => RowInv'
  BY NextRow
<1>3. RowInv => RowIsCoherent
  BY DEF RowInv
<1> QED BY <1>1, <1>2, <1>3, TypeCorrect, PTL DEF Spec

-----------------------------------------------------------------------------
(* The import moves forward.                                                *)

\* What a step may do to the run and to a completed status.
Forward ==
    /\ imp'.runId >= imp.runId \/ (imp.status = "failed" /\ imp'.status = "selected")
    /\ imp.status = "completed" /\ imp'.status # "completed" =>
         /\ imp'.status = "failed"
         /\ \E w \in Workers : /\ worker[w].phase = "retry" /\ worker[w].kind = "start"
                               /\ worker[w].attempts >= MaxAttempts

\* An event is applied only to an active import and only when it is not of an
\* older run.
LEMMA EventMovesForward ==
    ASSUME TypeOK, NEW r \in RunIds, NEW a, NEW b,
           ApplyWorkflowRunEvent(r, a, b) \/ ApplyWorkflowJobEvent(r, a, b)
    PROVE  Forward
<1>1. imp.runId \in Nat /\ r \in Nat
  BY ConstantsAssumption DEF TypeOK, ImportRow, RunIds
<1>2. CASE imp' = imp
  BY <1>1, <1>2 DEF Forward
<1>3. CASE ActiveImport /\ ~StaleEvent(r, a) /\ imp' # imp
  <2>1. \/ imp' = [imp EXCEPT !.status = "run_running", !.runId = r]
        \/ imp' = [imp EXCEPT !.status = "failed", !.error = TRUE, !.runId = r]
        \/ imp' = [imp EXCEPT !.status = "completed", !.service = TRUE, !.runId = r]
        \/ imp' = [imp EXCEPT !.steps = @ \cup {<<r, b>>}, !.runId = r]
    BY <1>3 DEF ApplyWorkflowRunEvent, ApplyWorkflowJobEvent
  <2>2. imp'.runId = r
    BY <2>1 DEF TypeOK, ImportRow
  <2>3. r >= imp.runId
    BY <1>1, <1>3 DEF StaleEvent
  <2>4. imp.status # "completed"
    BY <1>3 DEF ActiveImport, Terminal
  <2> QED BY <2>2, <2>3, <2>4 DEF Forward
<1> QED BY <1>2, <1>3 DEF ApplyWorkflowRunEvent, ApplyWorkflowJobEvent

\* Every step moves the import forward.
LEMMA NextForward == TypeOK /\ [Next]_vars => Forward
<1> SUFFICES ASSUME TypeOK, [Next]_vars PROVE Forward
  OBVIOUS
<1> USE ConstantsAssumption DEF TypeOK
<1>a. imp.runId \in Nat
  BY DEF ImportRow
<1>b. imp' = imp => Forward
  BY <1>a DEF Forward
<1>1. CASE CreateImport \/ RetryImport
  <2>1. CASE CreateImport
    <3>1. imp'.runId = imp.runId /\ imp.status # "completed"
      BY <2>1 DEF CreateImport, InsertImport, ImportRow
    <3> QED BY <3>1, <1>a DEF Forward
  <2>2. CASE RetryImport
    <3>1. imp.status = "failed" /\ imp'.status = "selected"
      BY <2>2 DEF RetryImport, ImportRow
    <3> QED BY <3>1 DEF Forward
  <2> QED BY <1>1, <2>1, <2>2
<1>2. ASSUME NEW r \in RunIds, NEW a \in RunAttempts,
             \/ WebhookRunProgress(r, a) \/ WebhookRunCompleted(r, a)
             \/ WebhookLost(r, a) \/ WebhookJob(r, a)
      PROVE  Forward
  BY <1>2, <1>b, EventMovesForward
     DEF WebhookRunProgress, WebhookRunCompleted, WebhookLost, WebhookJob
<1>3. ASSUME NEW p \in Polls, PollRead(p) \/ PollGetWorkflowRun(p) \/ PollAborts(p)
      PROVE  Forward
  BY <1>3, <1>b DEF PollRead, PollGetWorkflowRun, PollAborts
<1>4. ASSUME NEW p \in Polls, PollApplySteps(p) \/ PollApplyRun(p)
      PROVE  Forward
  <2>1. poll[p].run \in RunIds
    BY <1>4 DEF PollApplySteps, PollApplyRun, PollState, RunIds
  <2> QED BY <1>4, <1>b, <2>1, EventMovesForward DEF PollApplySteps, PollApplyRun
<1>5. ASSUME NEW q \in Requests,
             RerunRead(q) \/ RerunFailedJobs(q) \/ ResumeImportRun(q) \/ RerunAborts(q)
      PROVE  Forward
  <2>1. CASE ResumeImportRun(q)
    BY <2>1, <1>a DEF ResumeImportRun, ImportRow, Forward
  <2> QED BY <1>5, <1>b, <2>1 DEF RerunRead, RerunFailedJobs, RerunAborts
<1>6. ASSUME NEW w \in Workers, WorkerStep(w) \/ AbandonJob(w) \/ WorkerStops(w)
      PROVE  Forward
  <2>1. CASE SetImportRunQueued(w) \/ SetImportPullRequest(w)
    BY <2>1, <1>a DEF SetImportRunQueued, SetImportPullRequest, ImportRow, Forward
  <2>2. CASE RetryJobExhausted(w)
    BY <2>2, <1>a DEF RetryJobExhausted, ImportRow, Forward
  <2> QED BY <1>6, <1>b, <2>1, <2>2 DEF WorkerStep, ClaimJob, ProcessFails, StartRun,
             OpenPullRequest, CompleteJob, RetryJobLater, AbandonJob, WorkerStops
<1>7. ASSUME NEW k \in Kinds, LeaseExpires(k) \/ BackoffElapses(k)
      PROVE  Forward
  BY <1>7, <1>b DEF LeaseExpires, BackoffElapses
<1>8. ASSUME NEW r \in RunIds, GitHubFinishesRun(r)
      PROVE  Forward
  BY <1>8, <1>b DEF GitHubFinishesRun
<1>9. CASE UNCHANGED vars
  BY <1>9, <1>b DEF vars
<1> QED BY <1>1, <1>2, <1>3, <1>4, <1>5, <1>6, <1>7, <1>8, <1>9 DEF Next

\* No webhook, poll or late worker takes an import back to an older run, and
\* nothing but the exhausted start job of a worker takes one out of completion.
THEOREM ImportMovesForward == Spec => MovesForward
<1>1. TypeOK /\ [Next]_vars =>
         [imp'.runId >= imp.runId \/ (imp.status = "failed" /\ imp'.status = "selected")]_vars
  BY NextForward DEF Forward
<1>2. TypeOK /\ [Next]_vars =>
         [imp.status = "completed" /\ imp'.status # "completed" =>
            /\ imp'.status = "failed"
            /\ \E w \in Workers : /\ worker[w].phase = "retry" /\ worker[w].kind = "start"
                                  /\ worker[w].attempts >= MaxAttempts]_vars
  BY NextForward DEF Forward
<1> QED BY <1>1, <1>2, TypeCorrect, PTL DEF Spec, MovesForward, RunIdMonotone, CompletedIsSticky

-----------------------------------------------------------------------------
(* The attempts of a run, when there is only one.                           *)

\* The requests GitHub has started an attempt for and that have not resumed
\* the import yet.
Resuming == {q \in Requests : rerun[q].phase = "accepted"}

\* Every attempt the row counts, and every one it is still to count, is one
\* that GitHub has started.
AttemptInv ==
    /\ imp.runAttempt >= 1
    /\ IsFiniteSet(Resuming)
    /\ latest = 0 => gh[1].state = "running" /\ Resuming = {} /\ imp.runAttempt = 1
    /\ latest = 1 => imp.runAttempt + Cardinality(Resuming) <= gh[1].attempt

\* A step that counts no attempt and starts none.
LEMMA AttemptsKept ==
    ASSUME TypeOK, AttemptInv, imp'.runAttempt = imp.runAttempt \/ imp'.runAttempt = 1,
           latest' = latest, gh' = gh, Resuming' \subseteq Resuming
    PROVE  AttemptInv'
<1>1. /\ IsFiniteSet(Resuming) /\ Cardinality(Resuming) \in Nat
      /\ IsFiniteSet(Resuming') /\ Cardinality(Resuming') \in Nat
      /\ Cardinality(Resuming') <= Cardinality(Resuming)
  BY FS_Subset, FS_CardinalityType DEF AttemptInv
<1>2. imp.runAttempt \in Nat /\ gh[1].attempt \in Nat
  BY ConstantsAssumption DEF TypeOK, ImportRow, RunIds
<1> QED BY <1>1, <1>2 DEF AttemptInv

\* Events leave the attempt of the row alone.
LEMMA EventKeepsAttempt ==
    ASSUME TypeOK, NEW r, NEW a, NEW b, NEW s,
           \/ ApplyWorkflowRunEvent(r, a, s) \/ ApplyWorkflowJobEvent(r, a, b) \/ UNCHANGED imp
    PROVE  imp'.runAttempt = imp.runAttempt
BY DEF TypeOK, ImportRow, ApplyWorkflowRunEvent, ApplyWorkflowJobEvent

LEMMA NextAttempt ==
    ASSUME MaxRuns = 1
    PROVE  TypeOK /\ AttemptInv /\ [Next]_vars => AttemptInv'
<1> SUFFICES ASSUME TypeOK, AttemptInv, [Next]_vars PROVE AttemptInv'
  OBVIOUS
<1>0. /\ imp \in ImportRow /\ imp.runAttempt \in Nat /\ latest \in 0..1 /\ 1 \in RunIds
      /\ gh \in [RunIds -> [attempt : 0..MaxRunAttempts, state : RunStates]]
      /\ gh[1].attempt \in Nat /\ MaxRunAttempts \in Nat /\ \A r \in RunIds : r = 1
  BY ConstantsAssumption DEF TypeOK, ImportRow, RunIds
<1>1. /\ IsFiniteSet(Resuming) /\ Cardinality(Resuming) \in Nat
  BY FS_CardinalityType DEF AttemptInv
<1>2. CASE CreateImport \/ RetryImport
  <2>1. /\ imp'.runAttempt = imp.runAttempt \/ imp'.runAttempt = 1
        /\ latest' = latest /\ gh' = gh /\ Resuming' = Resuming
    BY <1>0, <1>2 DEF CreateImport, InsertImport, RetryImport, ImportRow, Resuming
  <2> QED BY <2>1, AttemptsKept
<1>3. ASSUME NEW r \in RunIds, NEW a \in RunAttempts,
             \/ WebhookRunProgress(r, a) \/ WebhookRunCompleted(r, a)
             \/ WebhookLost(r, a) \/ WebhookJob(r, a)
      PROVE  AttemptInv'
  <2>1. imp'.runAttempt = imp.runAttempt
    BY <1>3, EventKeepsAttempt
       DEF WebhookRunProgress, WebhookRunCompleted, WebhookLost, WebhookJob
  <2>2. latest' = latest /\ gh' = gh /\ Resuming' = Resuming
    BY <1>3 DEF WebhookRunProgress, WebhookRunCompleted, WebhookLost, WebhookJob, Resuming
  <2> QED BY <2>1, <2>2, AttemptsKept
<1>4. ASSUME NEW p \in Polls, \/ PollRead(p) \/ PollGetWorkflowRun(p) \/ PollAborts(p)
                              \/ PollApplySteps(p) \/ PollApplyRun(p)
      PROVE  AttemptInv'
  <2>1. imp'.runAttempt = imp.runAttempt
    BY <1>4, EventKeepsAttempt
       DEF PollRead, PollGetWorkflowRun, PollAborts, PollApplySteps, PollApplyRun
  <2>2. latest' = latest /\ gh' = gh /\ Resuming' = Resuming
    BY <1>4 DEF PollRead, PollGetWorkflowRun, PollAborts, PollApplySteps, PollApplyRun, Resuming
  <2> QED BY <2>1, <2>2, AttemptsKept
<1>5. ASSUME NEW q \in Requests, RerunRead(q) \/ RerunAborts(q) PROVE AttemptInv'
  <2>1. latest' = latest /\ gh' = gh /\ imp' = imp
    BY <1>5 DEF RerunRead, RerunAborts
  <2>2. Resuming' \subseteq Resuming
    BY <1>5 DEF TypeOK, RerunState, RerunRead, RerunAborts, IdleRerun, Resuming
  <2> QED BY <2>1, <2>2, AttemptsKept
<1>6. ASSUME NEW q \in Requests, RerunFailedJobs(q) PROVE AttemptInv'
  <2>1. rerun[q].run = 1 /\ rerun[q].phase = "read" /\ imp' = imp /\ latest' = latest
    BY <1>0, <1>6 DEF TypeOK, RerunState, RerunFailedJobs
  <2>2. gh[1].state = "failure" /\ gh'[1].attempt = gh[1].attempt + 1
    BY <1>0, <1>6, <2>1 DEF RerunFailedJobs
  <2>3. Resuming' = Resuming \cup {q} /\ q \notin Resuming
    BY <1>6, <2>1 DEF TypeOK, RerunState, RerunFailedJobs, Resuming
  <2>4. /\ IsFiniteSet(Resuming \cup {q})
        /\ Cardinality(Resuming \cup {q}) = Cardinality(Resuming) + 1
    BY <1>1, <2>3, FS_AddElement
  <2>5. IsFiniteSet(Resuming') /\ Cardinality(Resuming') = Cardinality(Resuming) + 1
    BY <2>3, <2>4
  <2>6. latest = 1
    BY <1>0, <2>2 DEF AttemptInv
  <2> QED BY <1>0, <1>1, <2>1, <2>2, <2>5, <2>6 DEF AttemptInv
<1>7. ASSUME NEW q \in Requests, ResumeImportRun(q) PROVE AttemptInv'
  <2>1. latest' = latest /\ gh' = gh /\ rerun[q].phase = "accepted"
    BY <1>7 DEF ResumeImportRun
  <2>2. imp'.runAttempt \in {imp.runAttempt, imp.runAttempt + 1}
    BY <1>0, <1>7 DEF ResumeImportRun, ImportRow
  <2>3. Resuming' = Resuming \ {q} /\ q \in Resuming
    BY <1>7, <2>1 DEF TypeOK, RerunState, ResumeImportRun, IdleRerun, Resuming
  <2>4. IsFiniteSet(Resuming \ {q}) /\ Cardinality(Resuming \ {q}) = Cardinality(Resuming) - 1
    BY <1>1, <2>3, FS_RemoveElement
  <2>5. IsFiniteSet(Resuming') /\ Cardinality(Resuming') = Cardinality(Resuming) - 1
    BY <2>3, <2>4
  <2>6. latest = 1
    BY <1>0, <2>3 DEF AttemptInv
  <2> QED BY <1>0, <1>1, <2>1, <2>2, <2>5, <2>6 DEF AttemptInv
<1>8. ASSUME NEW w \in Workers, StartRun(w) PROVE AttemptInv'
  <2>1. latest = 0 /\ latest' = 1 /\ gh'[1].attempt = 1 /\ imp' = imp /\ Resuming' = Resuming
    BY <1>0, <1>8 DEF StartRun, GitHubStartsRun, Resuming
  <2>2. Resuming = {} /\ imp.runAttempt = 1 /\ Cardinality({}) = 0
    BY <2>1, FS_EmptySet DEF AttemptInv
  <2> QED BY <1>0, <1>1, <2>1, <2>2 DEF AttemptInv
<1>9. ASSUME NEW w \in Workers, ~StartRun(w), WorkerStep(w) \/ AbandonJob(w) \/ WorkerStops(w)
      PROVE  AttemptInv'
  <2>1. imp'.runAttempt = imp.runAttempt
    BY <1>0, <1>9 DEF WorkerStep, ClaimJob, ProcessFails, SetImportRunQueued, OpenPullRequest,
       SetImportPullRequest, CompleteJob, RetryJobExhausted, RetryJobLater, AbandonJob, WorkerStops,
       ImportRow
  <2>2. latest' = latest /\ gh' = gh /\ Resuming' = Resuming
    BY <1>9 DEF WorkerStep, ClaimJob, ProcessFails, SetImportRunQueued, OpenPullRequest,
       SetImportPullRequest, CompleteJob, RetryJobExhausted, RetryJobLater, AbandonJob, WorkerStops,
       Resuming
  <2> QED BY <2>1, <2>2, AttemptsKept
<1>10. ASSUME NEW k \in Kinds, LeaseExpires(k) \/ BackoffElapses(k) PROVE AttemptInv'
  <2>1. imp' = imp /\ latest' = latest /\ gh' = gh /\ Resuming' = Resuming
    BY <1>10 DEF LeaseExpires, BackoffElapses, Resuming
  <2> QED BY <2>1, AttemptsKept
<1>11. ASSUME NEW r \in RunIds, GitHubFinishesRun(r) PROVE AttemptInv'
  <2>1. r = 1 /\ latest = 1 /\ imp' = imp /\ latest' = latest /\ Resuming' = Resuming
    BY <1>0, <1>11 DEF GitHubFinishesRun, Resuming
  <2>2. gh'[1].attempt = gh[1].attempt
    BY <1>0, <1>11, <2>1 DEF GitHubFinishesRun
  <2> QED BY <1>0, <1>1, <2>1, <2>2 DEF AttemptInv
<1>12. CASE UNCHANGED vars
  BY <1>12 DEF vars, AttemptInv, Resuming
<1> QED BY <1>2, <1>3, <1>4, <1>5, <1>6, <1>7, <1>8, <1>9, <1>10, <1>11, <1>12 DEF Next

\* As long as the branch has a single workflow run, however often it is re-run
\* and the import retried, the poll is never shut out: the row's run_attempt
\* counts no attempt that GitHub has not started.  (With a second run the row
\* keeps counting from the first; the run import_stuck shows it.)
THEOREM OneRunCanFinish ==
    ASSUME MaxRuns = 1
    PROVE  Spec => []PollCanFinish
<1>1. Init => AttemptInv
  <2> SUFFICES ASSUME Init PROVE AttemptInv
    OBVIOUS
  <2>1. Resuming = {}
    BY DEF Init, Resuming, IdleRerun
  <2> QED BY <2>1, FS_EmptySet DEF Init, AttemptInv, RunIds
<1>2. TypeOK /\ AttemptInv /\ [Next]_vars => AttemptInv'
  BY NextAttempt
<1>3. TypeOK /\ AttemptInv => PollCanFinish
  <2> SUFFICES ASSUME TypeOK, AttemptInv, imp.runId # 0, gh[imp.runId].state # "running"
               PROVE  ~StaleEvent(imp.runId, gh[imp.runId].attempt)
    BY DEF PollCanFinish
  <2>1. /\ imp.runId = 1 /\ imp.runAttempt \in Nat /\ latest \in 0..1 /\ gh[1].attempt \in Nat
    BY ConstantsAssumption DEF TypeOK, ImportRow, RunIds
  <2>2. latest = 1
    BY <2>1 DEF AttemptInv
  <2>3. Cardinality(Resuming) \in Nat
    BY FS_CardinalityType DEF AttemptInv
  <2>4. imp.runAttempt <= gh[1].attempt
    BY <2>1, <2>2, <2>3 DEF AttemptInv
  <2> QED BY <2>1, <2>4 DEF StaleEvent
<1> QED BY <1>1, <1>2, <1>3, TypeCorrect, PTL DEF Spec
=============================================================================
