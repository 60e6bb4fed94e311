---------------------------- MODULE GithubImport ----------------------------
(***************************************************************************)
(* One repository import of the GitHub App integration: the import row,    *)
(* its two background jobs, the workers that lease the jobs, the workflow  *)
(* runs GitHub starts for the onboarding branch, the webhooks those runs   *)
(* emit, the poll that backs them up, and the user's retry and re-run      *)
(* requests.                                                               *)
(*                                                                         *)
(* Every SQL statement or transaction of the store is one atomic step;     *)
(* what a handler or a worker does between two of them is separate steps,  *)
(* so anything may happen in between.                                      *)
(***************************************************************************)
EXTENDS Integers, FiniteSets

CONSTANTS
    Workers,        \* worker incarnations; a restarted process is a new one
    Polls,          \* concurrent requests that read the import and reconcile it
    Requests,       \* concurrent rerun-failed-jobs requests
    MaxRuns,        \* bound: workflow runs GitHub creates for the branch
    MaxRunAttempts, \* bound: attempts of one workflow run
    MaxAttempts,    \* the max_attempts column (8 in the database)
    ClaimBound,     \* bound: claims of one job row
    MaxRetries,     \* bound: user retries of the import
    NoOwner         \* NULL in the lease_owner column

ASSUME ConstantsAssumption ==
    /\ MaxRuns \in Nat \ {0}
    /\ MaxRunAttempts \in Nat \ {0}
    /\ MaxAttempts \in Nat \ {0}
    /\ ClaimBound \in Nat
    /\ MaxRetries \in Nat
    /\ NoOwner \notin Workers

VARIABLES
    imp,      \* the row of repository_imports
    job,      \* the newest row of repository_import_jobs for each kind
    worker,   \* where each worker is in runOne
    gh,       \* GitHub: the workflow runs of the onboarding branch
    latest,   \* GitHub: the newest of those runs, 0 when there is none
    recorded, \* completed-run webhooks recorded: pairs of run and attempt
    poll,     \* where each poll is in reconcileImport
    rerun,    \* where each rerun-failed-jobs request is
    retries   \* how many times the user retried the import

vars == <<imp, job, worker, gh, latest, recorded, poll, rerun, retries>>

(***************************************************************************)
(* Types.                                                                  *)
(***************************************************************************)
RunIds == 1..MaxRuns
RunAttempts == 1..MaxRunAttempts
Kinds == {"start", "open_pr"}
Terminal == {"completed", "failed"}
Statuses == {"absent", "selected", "run_queued", "run_running"} \cup Terminal
RunStates == {"running", "success", "failure"}

\* Steps are kept by the attempt of the run that reported them.
ImportRow ==
    [status : Statuses, runId : 0..MaxRuns, runAttempt : Nat,
     steps : SUBSET (RunIds \X RunAttempts),
     error : BOOLEAN, service : BOOLEAN, pr : BOOLEAN]

\* A completed row is never read again: every statement filters on
\* completed_at IS NULL or on lease_owner, which completion clears.  So one
\* slot per kind is enough.
JobRow ==
    [state : {"absent", "pending", "done"}, owner : Workers \cup {NoOwner},
     live : BOOLEAN, due : BOOLEAN, attempts : Nat]

WorkerState ==
    [phase : {"idle", "process", "store", "complete", "retry", "dead"},
     kind : Kinds, attempts : Nat]

PollState ==
    [phase : {"idle", "read", "fetched", "stepsApplied"}, run : 0..MaxRuns,
     attempt : 0..MaxRunAttempts, state : RunStates]

RerunState == [phase : {"idle", "read", "accepted"}, run : 0..MaxRuns]

IdleWorker == [phase |-> "idle", kind |-> "start", attempts |-> 0]
ReadPoll(r) == [phase |-> "read", run |-> r, attempt |-> 0, state |-> "running"]
IdlePoll == [phase |-> "idle", run |-> 0, attempt |-> 0, state |-> "running"]
IdleRerun == [phase |-> "idle", run |-> 0]

\* Mutant: the attempts column counts from one too few.
NewJobFromMinusOne == [state |-> "pending", owner |-> NoOwner, live |-> FALSE,
                       due |-> TRUE, attempts |-> -1]

NewJob == [state |-> "pending", owner |-> NoOwner, live |-> FALSE,
           due |-> TRUE, attempts |-> 0]

\* INSERT ... ON CONFLICT (import_id, kind) WHERE completed_at IS NULL
HasActive(k) == job[k].state = "pending"

Init ==
    /\ imp = [status |-> "absent", runId |-> 0, runAttempt |-> 1, steps |-> {},
              error |-> FALSE, service |-> FALSE, pr |-> FALSE]
    /\ job = [k \in Kinds |-> [NewJob EXCEPT !.state = "absent"]]
    /\ worker = [w \in Workers |-> IdleWorker]
    /\ gh = [r \in RunIds |-> [attempt |-> 0, state |-> "running"]]
    /\ latest = 0
    /\ recorded = {}
    /\ poll = [p \in Polls |-> IdlePoll]
    /\ rerun = [q \in Requests |-> IdleRerun]
    /\ retries = 0

(***************************************************************************)
(* GitHub (external): runs are numbered in the order they start, each has  *)
(* attempts, and only the last attempt of a run can be other than failed.  *)
(***************************************************************************)
\* What GitHub reports for attempt a of run r in a completed event.
Conclusion(r, a) == IF a < gh[r].attempt THEN "failure" ELSE gh[r].state

\* The onboarding workflow runs on the push of the branch.
GitHubStartsRun ==
    /\ latest < MaxRuns
    /\ latest' = latest + 1
    /\ gh' = [gh EXCEPT ![latest + 1] = [attempt |-> 1, state |-> "running"]]

GitHubFinishesRun(r) ==
    /\ r <= latest /\ gh[r].state = "running"
    /\ \E c \in {"success", "failure"} : gh' = [gh EXCEPT ![r].state = c]
    /\ UNCHANGED <<imp, job, worker, latest, recorded, poll, rerun, retries>>

(***************************************************************************)
(* The store: what an event does to the import it resolves to.             *)
(***************************************************************************)
\* Mutant: only failed imports are left alone by late events.
ActiveUnlessFailed == imp.status \notin {"failed", "absent"}

ActiveImport == imp.status \notin Terminal \cup {"absent"}

\* Mutant: the events of older runs are not dropped.
StaleAttemptOnly(r, a) == r = imp.runId /\ a # 0 /\ a < imp.runAttempt

\* Mutant: the current attempt is taken for an old one.
StaleOffByOne(r, a) ==
    \/ r < imp.runId
    \/ r = imp.runId /\ a # 0 /\ a <= imp.runAttempt

StaleEvent(r, a) ==
    \/ r < imp.runId
    \/ r = imp.runId /\ a # 0 /\ a < imp.runAttempt

\* Mutant: completion forgets the job.
InsertNothing == UNCHANGED job

\* INSERT of an open_pr job, ON CONFLICT DO NOTHING.
InsertOpenPR == job' = IF HasActive("open_pr") THEN job
                       ELSE [job EXCEPT !["open_pr"] = NewJob]

\* Mutant: service_id is not stored.
ApplyWithoutService(r, a, state) ==
    IF ~ActiveImport \/ StaleEvent(r, a) THEN UNCHANGED <<imp, job>>
    ELSE IF state = "success"
    THEN imp' = [imp EXCEPT !.status = "completed", !.runId = r] /\ InsertOpenPR
    ELSE imp' = [imp EXCEPT !.status = "run_running", !.runId = r] /\ UNCHANGED job

\* The service lookup by repository URL finds a row or not: matched.
ApplyWorkflowRunEvent(r, a, state) ==
    IF ~ActiveImport \/ StaleEvent(r, a) THEN UNCHANGED <<imp, job>>
    ELSE
    \/ /\ state = "running"
       /\ imp' = [imp EXCEPT !.status = "run_running", !.runId = r]
       /\ UNCHANGED job
    \/ /\ state = "failure"
       /\ imp' = [imp EXCEPT !.status = "failed", !.error = TRUE, !.runId = r]
       /\ UNCHANGED job
    \/ /\ state = "success"
       /\ \/ /\ imp' = [imp EXCEPT !.status = "failed", !.error = TRUE, !.runId = r]
             /\ UNCHANGED job
          \/ /\ imp' = [imp EXCEPT !.status = "completed", !.service = TRUE, !.runId = r]
             /\ InsertOpenPR

\* Mutant: run_id does not follow the steps.
ApplyStepsOnly(r, a, b) ==
    imp' = IF ~ActiveImport \/ StaleEvent(r, a) THEN imp
           ELSE [imp EXCEPT !.steps = @ \cup {<<r, b>>}]

\* b is the attempt whose jobs the steps describe.
ApplyWorkflowJobEvent(r, a, b) ==
    imp' = IF ~ActiveImport \/ StaleEvent(r, a) THEN imp
           ELSE [imp EXCEPT !.steps = @ \cup {<<r, b>>}, !.runId = r]

(***************************************************************************)
(* Handlers: create, retry, webhooks.                                      *)
(***************************************************************************)
\* One transaction: the row and its start job.
InsertImport ==
    /\ imp' = [imp EXCEPT !.status = "selected"]
    /\ job' = [job EXCEPT !["start"] = NewJob]

CreateImport ==
    /\ imp.status = "absent"
    /\ InsertImport
    /\ UNCHANGED <<worker, gh, latest, recorded, poll, rerun, retries>>

\* Mutant: ON CONFLICT DO NOTHING, which keeps the lease of a late worker.
RetryKeepingLease ==
    /\ retries < MaxRetries
    /\ imp.status = "failed"
    /\ imp' = [imp EXCEPT !.status = "selected", !.error = FALSE, !.runId = 0,
                          !.steps = {}, !.runAttempt = 1]
    /\ job' = IF HasActive("start") THEN job ELSE [job EXCEPT !["start"] = NewJob]
    /\ retries' = retries + 1
    /\ UNCHANGED <<worker, gh, latest, recorded, poll, rerun>>

\* Both branches of the upsert leave a fresh, unleased row.
RetryImport ==
    /\ retries < MaxRetries
    /\ imp.status = "failed"
    /\ imp' = [imp EXCEPT !.status = "selected", !.error = FALSE, !.runId = 0,
                          !.steps = {}, !.runAttempt = 1]
    /\ job' = [job EXCEPT !["start"] = NewJob]
    /\ retries' = retries + 1
    /\ UNCHANGED <<worker, gh, latest, recorded, poll, rerun>>

\* A workflow_run event that is not "completed" (requested, in_progress), any
\* time after the attempt began.
WebhookRunProgress(r, a) ==
    /\ a <= gh[r].attempt
    /\ ApplyWorkflowRunEvent(r, a, "running")
    /\ UNCHANGED <<worker, gh, latest, recorded, poll, rerun, retries>>

\* RecordWebhook makes a delivery count once; a redelivery changes nothing.
RecordWebhook(r, a) ==
    /\ <<r, a>> \notin recorded
    /\ recorded' = recorded \cup {<<r, a>>}

WebhookRunCompleted(r, a) ==
    /\ a <= gh[r].attempt /\ Conclusion(r, a) # "running"
    /\ RecordWebhook(r, a)
    /\ ApplyWorkflowRunEvent(r, a, Conclusion(r, a))
    /\ UNCHANGED <<worker, gh, latest, poll, rerun, retries>>

\* The delivery is recorded and the process stops, or the database fails,
\* before it is applied: the redelivery will be ignored.
WebhookLost(r, a) ==
    /\ a <= gh[r].attempt /\ Conclusion(r, a) # "running"
    /\ RecordWebhook(r, a)
    /\ UNCHANGED <<imp, job, worker, gh, latest, poll, rerun, retries>>

\* A workflow_job event with steps; an attempt sends several.
WebhookJob(r, a) ==
    /\ a <= gh[r].attempt
    /\ ApplyWorkflowJobEvent(r, a, a)
    /\ UNCHANGED <<job, worker, gh, latest, recorded, poll, rerun, retries>>

(***************************************************************************)
(* The poll: reconcileImport, run by a GET of the import.                  *)
(***************************************************************************)
\* Mutant: an import already running is not polled.
PollReadQueuedOnly(p) ==
    /\ poll[p].phase = "idle"
    /\ imp.status = "run_queued"
    /\ poll' = [poll EXCEPT ![p] = ReadPoll(imp.runId)]
    /\ UNCHANGED <<imp, job, worker, gh, latest, recorded, rerun, retries>>

PollRead(p) ==
    /\ poll[p].phase = "idle"
    /\ imp.status \in {"run_queued", "run_running"}
    /\ poll' = [poll EXCEPT ![p] = ReadPoll(imp.runId)]
    /\ UNCHANGED <<imp, job, worker, gh, latest, recorded, rerun, retries>>

PollGetWorkflowRun(p) ==
    /\ poll[p].phase = "read"
    /\ LET r == IF poll[p].run # 0 THEN poll[p].run ELSE latest
       IN  poll' = [poll EXCEPT ![p] =
                      IF r = 0 THEN IdlePoll
                      ELSE [phase |-> "fetched", run |-> r,
                            attempt |-> gh[r].attempt, state |-> gh[r].state]]
    /\ UNCHANGED <<imp, job, worker, gh, latest, recorded, rerun, retries>>

\* The jobs are listed at some moment after the run was fetched, so they may
\* be those of a later attempt; a run that has not begun has no steps.
PollApplySteps(p) ==
    /\ poll[p].phase = "fetched"
    /\ poll' = [poll EXCEPT ![p].phase = "stepsApplied"]
    /\ \/ \E b \in RunAttempts :
              /\ poll[p].attempt <= b /\ b <= gh[poll[p].run].attempt
              /\ ApplyWorkflowJobEvent(poll[p].run, poll[p].attempt, b)
       \/ UNCHANGED imp
    /\ UNCHANGED <<job, worker, gh, latest, recorded, rerun, retries>>

PollApplyRun(p) ==
    /\ poll[p].phase = "stepsApplied"
    /\ poll' = [poll EXCEPT ![p] = IdlePoll]
    /\ ApplyWorkflowRunEvent(poll[p].run, poll[p].attempt, poll[p].state)
    /\ UNCHANGED <<worker, gh, latest, recorded, rerun, retries>>

\* A GitHub or database error, or a client that went away.
PollAborts(p) ==
    /\ poll[p].phase # "idle"
    /\ poll' = [poll EXCEPT ![p] = IdlePoll]
    /\ UNCHANGED <<imp, job, worker, gh, latest, recorded, rerun, retries>>

(***************************************************************************)
(* RerunFailedJobs: read the row, ask GitHub, resume the row.              *)
(***************************************************************************)
RerunRead(q) ==
    /\ rerun[q].phase = "idle"
    /\ imp.runId # 0
    /\ rerun' = [rerun EXCEPT ![q] = [phase |-> "read", run |-> imp.runId]]
    /\ UNCHANGED <<imp, job, worker, gh, latest, recorded, poll, retries>>

\* GitHub accepts only a run that has completed with failed jobs.
RerunFailedJobs(q) ==
    /\ rerun[q].phase = "read"
    /\ LET r == rerun[q].run
       IN  /\ gh[r].state = "failure"
           /\ gh[r].attempt < MaxRunAttempts
           /\ gh' = [gh EXCEPT ![r] = [attempt |-> @.attempt + 1, state |-> "running"]]
    /\ rerun' = [rerun EXCEPT ![q].phase = "accepted"]
    /\ UNCHANGED <<imp, job, worker, latest, recorded, poll, retries>>

\* The guard of the UPDATE fails with a conflict and changes nothing.
ResumeImportRun(q) ==
    /\ rerun[q].phase = "accepted"
    /\ imp' = IF imp.status = "failed" /\ imp.runId # 0
              THEN [imp EXCEPT !.status = "run_running", !.error = FALSE,
                               !.steps = {}, !.runAttempt = @ + 1]
              ELSE imp
    /\ rerun' = [rerun EXCEPT ![q] = IdleRerun]
    /\ UNCHANGED <<job, worker, gh, latest, recorded, poll, retries>>

\* GitHub refuses, a call fails, or the server stops between two calls.
RerunAborts(q) ==
    /\ rerun[q].phase # "idle"
    /\ rerun' = [rerun EXCEPT ![q] = IdleRerun]
    /\ UNCHANGED <<imp, job, worker, gh, latest, recorded, poll, retries>>

(***************************************************************************)
(* The worker: runOne and process.                                         *)
(***************************************************************************)
ClaimJob(w, k) ==
    /\ worker[w].phase = "idle"
    /\ job[k].state = "pending" /\ job[k].due /\ ~job[k].live
    /\ job[k].attempts < ClaimBound
    /\ job' = [job EXCEPT ![k].owner = w, ![k].live = TRUE, ![k].attempts = @ + 1]
    /\ worker' = [worker EXCEPT ![w] = [phase |-> "process", kind |-> k,
                                        attempts |-> job[k].attempts + 1]]
    /\ UNCHANGED <<imp, gh, latest, recorded, poll, rerun, retries>>

\* A load, the installation, its account, the repository or GitHub's API
\* fails before anything was changed there.
ProcessFails(w) ==
    /\ worker[w].phase \in {"process", "store"}
    /\ worker' = [worker EXCEPT ![w].phase = "retry"]
    /\ UNCHANGED <<imp, job, gh, latest, recorded, poll, rerun, retries>>

\* The push moves the branch and GitHub starts a run; the reply may be lost.
StartRun(w) ==
    /\ worker[w].phase = "process" /\ worker[w].kind = "start"
    /\ GitHubStartsRun
    /\ \E p \in {"store", "retry"} : worker' = [worker EXCEPT ![w].phase = p]
    /\ UNCHANGED <<imp, job, recorded, poll, rerun, retries>>

\* Mutant: the UPDATE is not conditional on the status.
SetRunQueuedAlways(w) ==
    /\ worker[w].phase = "store" /\ worker[w].kind = "start"
    /\ imp' = [imp EXCEPT !.status = "run_queued"]
    /\ worker' = [worker EXCEPT ![w].phase = "complete"]
    /\ UNCHANGED <<job, gh, latest, recorded, poll, rerun, retries>>

SetImportRunQueued(w) ==
    /\ worker[w].phase = "store" /\ worker[w].kind = "start"
    /\ imp' = IF imp.status = "selected" THEN [imp EXCEPT !.status = "run_queued"] ELSE imp
    /\ worker' = [worker EXCEPT ![w].phase = "complete"]
    /\ UNCHANGED <<job, gh, latest, recorded, poll, rerun, retries>>

\* An existing pull request of the branch is found and reused, so repeating
\* the call is harmless.
OpenPullRequest(w) ==
    /\ worker[w].phase = "process" /\ worker[w].kind = "open_pr"
    /\ worker' = [worker EXCEPT ![w].phase = "store"]
    /\ UNCHANGED <<imp, job, gh, latest, recorded, poll, rerun, retries>>

SetImportPullRequest(w) ==
    /\ worker[w].phase = "store" /\ worker[w].kind = "open_pr"
    /\ imp' = [imp EXCEPT !.pr = TRUE]
    /\ worker' = [worker EXCEPT ![w].phase = "complete"]
    /\ UNCHANGED <<job, gh, latest, recorded, poll, rerun, retries>>

\* completed_at = NOW(), lease cleared, only while w is the lease owner; the
\* other columns of a completed row are not read again.
FinishRow(k, w) ==
    job' = IF job[k].owner = w
           THEN [job EXCEPT ![k] = [NewJob EXCEPT !.state = "done"]]
           ELSE job

CompleteJob(w) ==
    /\ worker[w].phase = "complete"
    /\ FinishRow(worker[w].kind, w)
    /\ worker' = [worker EXCEPT ![w] = IdleWorker]
    /\ UNCHANGED <<imp, gh, latest, recorded, poll, rerun, retries>>

\* The failure of the import is not conditional on the lease.
RetryJobExhausted(w) ==
    /\ worker[w].phase = "retry"
    /\ worker[w].attempts >= MaxAttempts
    /\ FinishRow(worker[w].kind, w)
    /\ imp' = IF worker[w].kind = "start"
              THEN [imp EXCEPT !.status = "failed", !.error = TRUE] ELSE imp
    /\ worker' = [worker EXCEPT ![w] = IdleWorker]
    /\ UNCHANGED <<gh, latest, recorded, poll, rerun, retries>>

RetryJobLater(w) ==
    LET k == worker[w].kind
    IN  /\ worker[w].phase = "retry"
        /\ worker[w].attempts < MaxAttempts
        /\ job' = IF job[k].owner = w
                  THEN [job EXCEPT ![k].due = FALSE, ![k].owner = NoOwner, ![k].live = FALSE]
                  ELSE job
        /\ worker' = [worker EXCEPT ![w] = IdleWorker]
        /\ UNCHANGED <<imp, gh, latest, recorded, poll, rerun, retries>>

\* The bound on claims is kept free for the claims that follow a stop.
MayClaimAgain(k) == job[k].attempts < ClaimBound

\* CompleteJob or RetryJob itself fails: runOne returns, the row stays leased.
AbandonJob(w) ==
    /\ worker[w].phase \in {"complete", "retry"}
    /\ MayClaimAgain(worker[w].kind)
    /\ worker' = [worker EXCEPT ![w] = IdleWorker]
    /\ UNCHANGED <<imp, job, gh, latest, recorded, poll, rerun, retries>>

\* The process stops; the next one has a new lease owner.
WorkerStops(w) ==
    /\ worker[w].phase # "dead"
    /\ \E v \in Workers \ {w} : worker[v].phase # "dead"
    /\ worker[w].phase # "idle" => MayClaimAgain(worker[w].kind)
    /\ worker' = [worker EXCEPT ![w] = [IdleWorker EXCEPT !.phase = "dead"]]
    /\ UNCHANGED <<imp, job, gh, latest, recorded, poll, rerun, retries>>

\* Two minutes pass since the claim, whether or not the owner still works.
LeaseExpires(k) ==
    /\ job[k].live
    /\ MayClaimAgain(k)
    /\ job' = [job EXCEPT ![k].live = FALSE]
    /\ UNCHANGED <<imp, worker, gh, latest, recorded, poll, rerun, retries>>

\* available_at passes.
BackoffElapses(k) ==
    /\ job[k].state = "pending" /\ ~job[k].due
    /\ job' = [job EXCEPT ![k].due = TRUE]
    /\ UNCHANGED <<imp, worker, gh, latest, recorded, poll, rerun, retries>>

WorkerStep(w) ==
    \/ \E k \in Kinds : ClaimJob(w, k)
    \/ ProcessFails(w) \/ StartRun(w) \/ SetImportRunQueued(w)
    \/ OpenPullRequest(w) \/ SetImportPullRequest(w)
    \/ CompleteJob(w) \/ RetryJobExhausted(w) \/ RetryJobLater(w)

Next ==
    \/ CreateImport \/ RetryImport
    \/ \E r \in RunIds, a \in RunAttempts :
          \/ WebhookRunProgress(r, a) \/ WebhookRunCompleted(r, a)
          \/ WebhookLost(r, a) \/ WebhookJob(r, a)
    \/ \E p \in Polls : \/ PollRead(p) \/ PollGetWorkflowRun(p) \/ PollApplySteps(p)
                         \/ PollApplyRun(p) \/ PollAborts(p)
    \/ \E q \in Requests : RerunRead(q) \/ RerunFailedJobs(q) \/ ResumeImportRun(q)
                           \/ RerunAborts(q)
    \/ \E w \in Workers : WorkerStep(w) \/ AbandonJob(w) \/ WorkerStops(w)
    \/ \E k \in Kinds : LeaseExpires(k) \/ BackoffElapses(k)
    \/ \E r \in RunIds : GitHubFinishesRun(r)

Spec == Init /\ [][Next]_vars

(***************************************************************************)
(* Fairness: a live worker keeps ticking (Worker.Run has a one second      *)
(* ticker), time passes, GitHub ends the runs it started, and the user     *)
(* interface keeps asking for the import, now and then without an error.   *)
(* Nothing is assumed of webhooks or of the user's buttons.                *)
(***************************************************************************)
Fairness ==
    /\ \A w \in Workers : WF_vars(WorkerStep(w))
    /\ \A k \in Kinds : WF_vars(LeaseExpires(k)) /\ WF_vars(BackoffElapses(k))
    /\ \A r \in RunIds : WF_vars(GitHubFinishesRun(r))
    /\ \A p \in Polls : /\ SF_vars(PollRead(p)) /\ SF_vars(PollGetWorkflowRun(p))
                        /\ SF_vars(PollApplySteps(p)) /\ SF_vars(PollApplyRun(p))

FairSpec == Spec /\ Fairness

-----------------------------------------------------------------------------
(***************************************************************************)
(* Properties.                                                             *)
(***************************************************************************)

\* Every variable stays in its type, and a request that is past its read has a
\* run to ask GitHub about.
TypeOK ==
    /\ imp \in ImportRow
    /\ job \in [Kinds -> JobRow]
    /\ worker \in [Workers -> WorkerState]
    /\ gh \in [RunIds -> [attempt : 0..MaxRunAttempts, state : RunStates]]
    /\ latest \in 0..MaxRuns
    /\ recorded \subseteq RunIds \X RunAttempts
    /\ poll \in [Polls -> PollState]
    /\ \A p \in Polls : poll[p].phase \in {"fetched", "stepsApplied"} => poll[p].run # 0
    /\ rerun \in [Requests -> RerunState]
    /\ \A q \in Requests : rerun[q].phase # "idle" => rerun[q].run # 0
    /\ retries \in 0..MaxRetries

\* An import that waits for its run to be started always has a start job that
\* some worker will still take: neither a worker finishing late on an earlier
\* lease nor a retry that reuses the row may leave it "selected" with no job
\* (RetryImport's upsert against CompleteJob and RetryJob).
NoLostStart == imp.status = "selected" => job["start"].state = "pending"

\* The error shown with an import is that of its present failure: RetryImport
\* and ResumeImportRun clear it, and every way to fail sets it.
ErrorIffFailed == imp.error <=> imp.status = "failed"

\* No step shown for an import belongs to a run newer than the one the import
\* follows (ApplyWorkflowJobEvent moves run_id along with the steps).
StepsNotNewerThanRun == \A s \in imp.steps : s[1] <= imp.runId

\* A pull request is recorded only for an import whose repository was matched
\* to a service, whichever run, retry or late worker recorded it.
PullRequestNeedsService == imp.pr => imp.service

\* An import that completed has its pull request opened, being opened, or
\* given up by an exhausted job: completion always leaves an open_pr job.
CompletionLeavesJob == imp.status = "completed" => job["open_pr"].state # "absent"

\* The row of an import tells one story although workers, webhooks, polls and
\* requests each write a part of it: error and status, run and steps, service
\* and pull request, completion and the job that follows it.
RowIsCoherent ==
    ErrorIffFailed /\ StepsNotNewerThanRun /\ PullRequestNeedsService /\ CompletionLeavesJob

\* The run an import follows is never replaced by an older one, except that a
\* retry forgets it.
RunIdMonotone ==
    [][imp'.runId >= imp.runId \/ (imp.status = "failed" /\ imp'.status = "selected")]_vars

\* A completed import is left only when a worker gives up on the last attempt
\* of the start job (whose reply from GitHub was lost, or whose lease passed to
\* another worker); no event, poll, retry or re-run does it.
CompletedIsSticky ==
    [][imp.status = "completed" /\ imp'.status # "completed" =>
         /\ imp'.status = "failed"
         /\ \E w \in Workers : /\ worker[w].phase = "retry" /\ worker[w].kind = "start"
                               /\ worker[w].attempts >= MaxAttempts]_vars

\* An import moves forward: it is not taken back to an older run, nor out of
\* its completion by what comes late.
MovesForward == RunIdMonotone /\ CompletedIsSticky

\* When the run an import follows has ended, the poll can still bring the
\* import to its end: what it fetches is not taken for an event of an older
\* attempt (run_attempt against the attempts of the run that run_id names).
PollCanFinish ==
    /\ imp.status \in {"run_queued", "run_running"}
    /\ imp.runId # 0
    /\ gh[imp.runId].state # "running"
    => ~StaleEvent(imp.runId, gh[imp.runId].attempt)

\* Every import ends: the poll makes up for the webhooks that are late, lost
\* or dropped, and the job gives up after its last attempt.
EventuallyTerminal == imp.status # "absent" ~> imp.status \in Terminal
=============================================================================
