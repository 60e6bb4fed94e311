---------------------------- MODULE DiagramProofs ----------------------------
(***************************************************************************)
(* Theorems about Diagram, for every set of contents, requests, workers    *)
(* and operations.                                                         *)
(***************************************************************************)
EXTENDS Diagram, TLAPS

\* A handler's list of calls is a sequence of step names.
LEMMA StepsType ==
    ASSUME NEW op \in RequestOps \cup {"screenshot"}
    PROVE  Steps(op) \in Seq(StepNames)
<1>1. CreateSteps \in Seq(StepNames)
  BY DEF CreateSteps, StepNames
<1>2. SyncCreateSteps \in Seq(StepNames)
  BY DEF SyncCreateSteps, StepNames
<1>3. UpdateSteps \in Seq(StepNames)
  BY DEF UpdateSteps, StepNames
<1>4. TouchSteps \in Seq(StepNames)
  BY DEF TouchSteps, StepNames
<1>5. SyncSteps \in Seq(StepNames)
  BY DEF SyncSteps, StepNames
<1>6. ThumbnailSteps \in Seq(StepNames)
  BY DEF ThumbnailSteps, StepNames
<1>7. GenerateSteps \in Seq(StepNames)
  BY DEF GenerateSteps, StepNames
<1>8. DeleteSteps \in Seq(StepNames)
  BY DEF DeleteSteps, StepNames
<1>9. RestoreSteps \in Seq(StepNames)
  BY DEF RestoreSteps, StepNames
<1>10. CreateVersionSteps \in Seq(StepNames)
  BY DEF CreateVersionSteps, StepNames
<1>11. GetContentSteps \in Seq(StepNames)
  BY DEF GetContentSteps, StepNames
<1>12. ScreenshotSteps \in Seq(StepNames)
  BY DEF ScreenshotSteps, StepNames
<1> QED
  BY <1>1, <1>2, <1>3, <1>4, <1>5, <1>6, <1>7,
     <1>8, <1>9, <1>10, <1>11, <1>12
     DEF Steps, RequestOps, ContentOps, CreateOps

\* What a cache miss adds is one too.
LEMMA MissType ==
    ASSUME NEW op, NEW t \in Seq(StepNames)
    PROVE  MissSteps(op) \o t \in Seq(StepNames)
<1>1. <<"download", "cacheSet">> \in Seq(StepNames)
  BY DEF StepNames
<1>2. <<"get", "download", "cacheSet">> \in Seq(StepNames)
  BY DEF StepNames
<1>3. MissSteps(op) \in Seq(StepNames)
  BY <1>1, <1>2 DEF MissSteps
<1> QED BY <1>3

\* A step that leaves typed values leaves typed processes.
LEMMA GoesType ==
    ASSUME proc \in [Procs -> Proc], NEW p \in Procs,
           NEW t \in Seq(StepNames), NEW c \in MaybeContent,
           NEW h \in MaybeContent, NEW r \in Row, NEW n \in Nat,
           Goes(p, t, c, h, r, n)
    PROVE  proc' \in [Procs -> Proc]
BY DEF Goes, Proc

\* A process that proceeds or ends keeps its type.
LEMMA ProceedsType ==
    ASSUME proc \in [Procs -> Proc], NEW p \in Procs,
           (Proceeds(p) /\ proc[p].todo # <<>>) \/ Ends(p)
    PROVE  proc' \in [Procs -> Proc]
<1>1. /\ proc[p].content \in MaybeContent /\ proc[p].hash \in MaybeContent
      /\ proc[p].copy \in Row /\ proc[p].num \in Nat /\ proc[p].todo \in Seq(StepNames)
  BY DEF Proc
<1>2. <<>> \in Seq(StepNames)
  OBVIOUS
<1>3. CASE Ends(p)
  BY <1>1, <1>2, <1>3, GoesType DEF Ends
<1>4. CASE Proceeds(p) /\ proc[p].todo # <<>>
  <2>1. Tail(proc[p].todo) \in Seq(StepNames)
    BY <1>1, <1>4
  <2> QED BY <1>1, <1>4, <2>1, GoesType DEF Proceeds
<1> QED BY <1>3, <1>4

\* A new process has its type.
LEMMA NewProcType ==
    ASSUME NEW op \in RequestOps \cup {"screenshot"}, NEW c \in MaybeContent
    PROVE  NewProc(op, c) \in Proc
<1>1. Steps(op) \in Seq(StepNames)
  BY StepsType
<1>2. [state |-> "live", hash |-> c, status |-> "pending"] \in Row
  BY DEF Row
<1> QED BY <1>1, <1>2 DEF NewProc, Proc

\* The initial state is well typed.
LEMMA InitType == Init => TypeOK
<1> SUFFICES ASSUME Init PROVE TypeOK
  OBVIOUS
<1>1. NoRow \in Row
  BY DEF NoRow, Row, MaybeContent
<1>2. NoProc \in Proc
  <2>1. <<>> \in Seq(StepNames)
    OBVIOUS
  <2> QED BY <1>1, <2>1 DEF NoProc, Proc, MaybeContent
<1> QED BY <1>1, <1>2 DEF Init, TypeOK, MaybeContent

\* Every step keeps the types.
LEMMA NextType == TypeOK /\ [Next]_vars => TypeOK'
<1> SUFFICES ASSUME TypeOK, [Next]_vars PROVE TypeOK'
  OBVIOUS
<1> USE DiagramAssumption
<1>0. proc \in [Procs -> Proc] /\ row \in Row
  BY DEF TypeOK
<1>1. ASSUME NEW p \in Procs
      PROVE  /\ proc[p].content \in MaybeContent /\ proc[p].hash \in MaybeContent
             /\ proc[p].copy \in Row /\ proc[p].num \in Nat
             /\ proc[p].todo \in Seq(StepNames)
             /\ proc[p].todo # <<>> => Tail(proc[p].todo) \in Seq(StepNames)
  BY <1>0 DEF Proc
<1>2. row.hash \in MaybeContent /\ NoContent \in MaybeContent /\ 1 \in Nat
  BY <1>0 DEF Row, MaybeContent
<1>3. ASSUME NEW q \in Requests, NEW op \in Ops, NEW c \in MaybeContent, Start(q, op, c)
      PROVE  TypeOK'
  <2>1. NewProc(op, c) \in Proc
    BY NewProcType
  <2> QED BY <1>3, <2>1 DEF Start, TypeOK, Procs
<1>4. ASSUME NEW p \in Procs, GetDiagram(p) PROVE TypeOK'
  <2>1. RowRead(p) \in Row
    BY <1>0 DEF RowRead, Row
  <2>2. <<>> \in Seq(StepNames) /\ <<"save">> \in Seq(StepNames)
    BY DEF StepNames
  <2>3. proc' \in [Procs -> Proc]
    <3>1. CASE Ends(p)
      BY <1>0, <3>1, ProceedsType
    <3>2. CASE Goes(p, <<>>, proc[p].content, proc[p].hash, row, proc[p].num)
      BY <1>0, <1>1, <2>2, <3>2, GoesType
    <3>3. CASE Goes(p, <<"save">>, proc[p].content, proc[p].hash, row, proc[p].num)
      BY <1>0, <1>1, <2>2, <3>3, GoesType
    <3>4. CASE Goes(p, Tail(proc[p].todo), proc[p].content, row.hash, RowRead(p), proc[p].num)
      BY <1>0, <1>1, <1>2, <1>4, <2>1, <3>4, GoesType DEF GetDiagram, At
    <3>5. CASE Goes(p, Tail(proc[p].todo), proc[p].content, proc[p].hash, RowRead(p), proc[p].num)
      BY <1>0, <1>1, <1>2, <1>4, <2>1, <3>5, GoesType DEF GetDiagram, At
    <3> QED BY <1>4, <3>1, <3>2, <3>3, <3>4, <3>5 DEF GetDiagram
  <2> QED BY <1>4, <2>3 DEF GetDiagram, TypeOK
<1>5. ASSUME NEW p \in Procs,
             CreateDiagram(p) \/ UpdateDiagram(p) \/ SoftDeleteDiagram(p) \/ SetPreviewPending(p)
      PROVE  TypeOK'
  <2>1. proc' \in [Procs -> Proc]
    BY <1>0, <1>5, ProceedsType
       DEF CreateDiagram, UpdateDiagram, SoftDeleteDiagram, SetPreviewPending, At
  <2>2. row' \in Row
    BY <1>0, <1>1, <1>5
       DEF CreateDiagram, UpdateDiagram, SoftDeleteDiagram, SetPreviewPending, SetStatus, Row
  <2> QED BY <1>5, <2>1, <2>2
          DEF CreateDiagram, UpdateDiagram, SoftDeleteDiagram, SetPreviewPending, TypeOK
<1>6. ASSUME NEW q \in Requests, LatestVersionNumber(q) PROVE TypeOK'
  <2>1. q \in Procs
    BY DEF Procs
  <2>2. PICK n \in Numbers \cup {0} :
           Goes(q, Tail(proc[q].todo), proc[q].content, proc[q].hash, proc[q].copy, n + 1)
    BY <1>6 DEF LatestVersionNumber
  <2>3. n + 1 \in Nat
    BY DEF Numbers, TypeOK, Version
  <2>4. proc' \in [Procs -> Proc]
    BY <1>0, <1>1, <1>6, <2>1, <2>2, <2>3, GoesType DEF LatestVersionNumber, At
  <2> QED BY <1>6, <2>4 DEF LatestVersionNumber, TypeOK
<1>7. ASSUME NEW q \in Requests, CreateDiagramVersion(q) PROVE TypeOK'
  <2>1. q \in Procs
    BY DEF Procs
  <2>2. proc' \in [Procs -> Proc]
    BY <1>0, <1>7, <2>1, ProceedsType DEF CreateDiagramVersion, At
  <2>3. [id |-> q, number |-> proc[q].num, hash |-> proc[q].hash] \in Version
    BY <1>1, <2>1 DEF Version
  <2>4. versions' \in SUBSET Version
    BY <1>7, <2>3 DEF CreateDiagramVersion, TypeOK
  <2> QED BY <1>7, <2>2, <2>4 DEF CreateDiagramVersion, TypeOK
<1>8. ASSUME NEW q \in Requests, GetDiagramVersion(q) PROVE TypeOK'
  <2>1. q \in Procs
    BY DEF Procs
  <2>2. CASE Ends(q)
    BY <1>0, <1>8, <2>1, <2>2, ProceedsType DEF GetDiagramVersion, TypeOK
  <2>3. ASSUME NEW v \in versions,
               Goes(q, Tail(proc[q].todo), vobject[v.id], v.hash, proc[q].copy, 1)
        PROVE  TypeOK'
    <3>1. vobject[v.id] \in MaybeContent /\ v.hash \in MaybeContent
      BY DEF TypeOK, Version
    <3>2. proc' \in [Procs -> Proc]
      BY <1>0, <1>1, <1>2, <1>8, <2>1, <2>3, <3>1, GoesType DEF GetDiagramVersion, At
    <3> QED BY <1>8, <3>2 DEF GetDiagramVersion, TypeOK
  <2> QED BY <1>8, <2>2, <2>3 DEF GetDiagramVersion
<1>9. ASSUME NEW q \in Requests, UploadVersion(q) PROVE TypeOK'
  <2>1. q \in Procs
    BY DEF Procs
  <2>2. proc' \in [Procs -> Proc]
    BY <1>0, <1>9, <2>1, ProceedsType DEF UploadVersion, At
  <2>3. vobject' \in [Requests -> MaybeContent]
    BY <1>1, <1>9, <2>1 DEF UploadVersion, TypeOK
  <2> QED BY <1>9, <2>2, <2>3 DEF UploadVersion, TypeOK
<1>10. ASSUME NEW p \in Procs, UploadContent(p) PROVE TypeOK'
  <2>1. [proc[p].copy EXCEPT !.hash = proc[p].hash] \in Row
    BY <1>1 DEF Row
  <2>2. proc' \in [Procs -> Proc]
    BY <1>0, <1>1, <1>10, <2>1, GoesType DEF UploadContent, At
  <2> QED BY <1>1, <1>10, <2>2 DEF UploadContent, TypeOK
<1>11. ASSUME NEW p \in Procs, DownloadContent(p) PROVE TypeOK'
  <2>1. object \in MaybeContent
    BY DEF TypeOK
  <2>2. proc' \in [Procs -> Proc]
    BY <1>0, <1>1, <1>11, <2>1, GoesType DEF DownloadContent, At
  <2> QED BY <1>11, <2>2 DEF DownloadContent, TypeOK
<1>12. ASSUME NEW p \in Procs, CacheGet(p) PROVE TypeOK'
  <2>1. cache \in MaybeContent
    BY DEF TypeOK
  <2>2. Tail(proc[p].todo) \in Seq(StepNames)
    BY <1>1, <1>12 DEF CacheGet, At
  <2>3. MissSteps(proc[p].op) \o Tail(proc[p].todo) \in Seq(StepNames)
    BY <2>2, MissType
  <2>4. proc' \in [Procs -> Proc]
    BY <1>0, <1>1, <1>12, <2>1, <2>2, <2>3, GoesType DEF CacheGet
  <2> QED BY <1>12, <2>4 DEF CacheGet, TypeOK
<1>13. ASSUME NEW p \in Procs,
              UploadAsset(p) \/ CacheSet(p) \/ CacheDel(p) \/ EnqueueScreenshot(p)
       PROVE  TypeOK'
  <2>1. proc' \in [Procs -> Proc]
    BY <1>0, <1>13, ProceedsType DEF UploadAsset, CacheSet, CacheDel, EnqueueScreenshot, At
  <2> QED BY <1>1, <1>2, <1>13, <2>1
          DEF UploadAsset, CacheSet, CacheDel, EnqueueScreenshot, TypeOK
<1>14. ASSUME NEW q \in Requests,
              RequestAborts(q) \/ VersionUploadFails(q) \/ CacheWriteFails(q)
       PROVE  TypeOK'
  <2>1. q \in Procs
    BY DEF Procs
  <2>2. CASE VersionUploadFails(q)
    <3>1. SubSeq(proc[q].todo, 3, Len(proc[q].todo)) \in Seq(StepNames)
      BY <1>1, <2>1
    <3>2. proc' \in [Procs -> Proc]
      BY <1>0, <1>1, <2>1, <2>2, <3>1, GoesType DEF VersionUploadFails
    <3> QED BY <2>2, <3>2 DEF VersionUploadFails, TypeOK
  <2>3. CASE RequestAborts(q) \/ CacheWriteFails(q)
    <3>1. proc' \in [Procs -> Proc]
      BY <1>0, <2>1, <2>3, ProceedsType DEF RequestAborts, CacheWriteFails, At
    <3> QED BY <2>3, <3>1 DEF RequestAborts, CacheWriteFails, TypeOK
  <2> QED BY <1>14, <2>2, <2>3
<1>15. ASSUME NEW w \in Workers, DequeueScreenshot(w) PROVE TypeOK'
  <2>1. NewProc("screenshot", NoContent) \in Proc
    BY <1>2, NewProcType
  <2> QED BY <1>15, <2>1 DEF DequeueScreenshot, TypeOK, Procs
<1>16. ASSUME NEW w \in Workers, GenerateFails(w) \/ WorkerStops(w) PROVE TypeOK'
  <2>1. w \in Procs
    BY DEF Procs
  <2>2. proc' \in [Procs -> Proc]
    BY <1>0, <1>16, <2>1, ProceedsType DEF GenerateFails, WorkerStops
  <2>3. row' \in Row
    BY <1>0, <1>16 DEF GenerateFails, WorkerStops, SetStatus, Row
  <2> QED BY <1>16, <2>2, <2>3 DEF GenerateFails, WorkerStops, TypeOK
<1>17. CASE DebounceElapses \/ CacheExpires \/ UNCHANGED vars
  BY <1>2, <1>17 DEF DebounceElapses, CacheExpires, vars, TypeOK
<1> QED
  BY <1>3, <1>4, <1>5, <1>6, <1>7, <1>8, <1>9, <1>10, <1>11, <1>12, <1>13,
     <1>14, <1>15, <1>16, <1>17
     DEF Next, Step, RowStep, VersionStep, OtherStep

\* The rows, objects, cache, queue and processes of one diagram keep their
\* types under every interleaving of requests, workers and failures.
THEOREM DiagramTypeCorrect == Spec => []TypeOK
BY InitType, NextType, PTL DEF Spec
(***************************************************************************)
(* Version numbers.  NoGap is not inductive alone: a number is read in one *)
(* step and inserted in a later one, so the numbers that processes hold    *)
(* must be next to a number of the table as well.                          *)
(***************************************************************************)
Follows(n) == n = 1 \/ \E u \in versions : u.number = n - 1
HeldNumbers == \A p \in Procs : Follows(proc[p].num)
NumberInv == NoGap /\ HeldNumbers /\ NoRepeat

\* A step that leaves the version rows alone, and the numbers held where they
\* are or at 1, keeps the invariant.
LEMMA SameNumbers ==
    ASSUME NumberInv, UNCHANGED versions,
           \A p \in Procs : proc'[p].num \in {proc[p].num, 1}
    PROVE  NumberInv'
BY DEF NumberInv, NoGap, NoRepeat, HeldNumbers, Follows

\* A step of p that goes on holding p's number, or 1, leaves every number
\* where it is or at 1.
LEMMA GoesNumbers ==
    ASSUME TypeOK, NEW p \in Procs, NEW t, NEW c, NEW h, NEW r,
           NEW n \in {proc[p].num, 1}, Goes(p, t, c, h, r, n)
    PROVE  \A i \in Procs : proc'[i].num \in {proc[i].num, 1}
BY DEF Goes, TypeOK

\* Every step keeps version numbers contiguous.
LEMMA NextNumbers == TypeOK /\ NumberInv /\ [Next]_vars => NumberInv'
<1> SUFFICES ASSUME TypeOK, NumberInv, [Next]_vars PROVE NumberInv'
  OBVIOUS
<1> USE DiagramAssumption
<1>0. Requests \subseteq Procs /\ Workers \subseteq Procs
  BY DEF Procs
<1>1. ASSUME NEW p \in Procs, UNCHANGED versions, Proceeds(p) \/ Ends(p)
      PROVE  NumberInv'
  BY <1>1, GoesNumbers, SameNumbers DEF Proceeds, Ends
<1>2. ASSUME NEW p \in Procs, NEW op, NEW c, UNCHANGED versions,
             proc' = [proc EXCEPT ![p] = NewProc(op, c)]
      PROVE  NumberInv'
  <2>1. \A i \in Procs : proc'[i].num \in {proc[i].num, 1}
    BY <1>2 DEF NewProc, TypeOK
  <2> QED BY <1>2, <2>1, SameNumbers
<1>3. ASSUME NEW q \in Requests, LatestVersionNumber(q) PROVE NumberInv'
  <2>1. PICK n \in Numbers \cup {0} :
           Goes(q, Tail(proc[q].todo), proc[q].content, proc[q].hash, proc[q].copy, n + 1)
    BY <1>3 DEF LatestVersionNumber
  <2>2. n \in Nat /\ (n = 0 \/ \E u \in versions : u.number = n)
    BY DEF Numbers, TypeOK, Version
  <2>3. Follows(n + 1)
    BY <2>2 DEF Follows
  <2>4. versions' = versions
    BY <1>3 DEF LatestVersionNumber
  <2>5. \A i \in Procs : proc'[i].num \in {proc[i].num, n + 1}
    BY <1>0, <2>1 DEF Goes, TypeOK
  <2> QED BY <2>3, <2>4, <2>5 DEF NumberInv, NoGap, NoRepeat, HeldNumbers, Follows
<1>4. ASSUME NEW q \in Requests, CreateDiagramVersion(q) PROVE NumberInv'
  <2> DEFINE new == [id |-> q, number |-> proc[q].num, hash |-> proc[q].hash]
  <2>1. CASE versions' = versions
    BY <1>0, <1>1, <1>4, <2>1 DEF CreateDiagramVersion
  <2>2. CASE proc[q].num \notin Numbers /\ versions' = versions \cup {new}
    <3>1. new.number = proc[q].num
      OBVIOUS
    <3>2. Follows(new.number)
      BY <1>0, <3>1 DEF NumberInv, HeldNumbers
    <3>3. \A v \in versions : v.number # new.number
      BY <2>2, <3>1 DEF Numbers
    <3> HIDE DEF new
    <3>4. NoGap'
      BY <2>2, <3>2 DEF NumberInv, NoGap, Follows
    <3>5. NoRepeat'
      BY <2>2, <3>3 DEF NumberInv, NoRepeat
    <3>6. \A i \in Procs : proc'[i].num = proc[i].num
      BY <1>0, <1>4 DEF CreateDiagramVersion, Proceeds, Goes, TypeOK
    <3>7. HeldNumbers'
      BY <2>2, <3>6 DEF NumberInv, HeldNumbers, Follows
    <3> QED BY <3>4, <3>5, <3>7 DEF NumberInv
  <2> QED BY <1>4, <2>1, <2>2 DEF CreateDiagramVersion
<1>5. ASSUME NEW q \in Requests, GetDiagramVersion(q) PROVE NumberInv'
  <2>1. versions' = versions
    BY <1>5 DEF GetDiagramVersion
  <2>2. CASE Ends(q)
    BY <1>0, <1>1, <2>1, <2>2
  <2>3. ASSUME NEW v \in versions,
               Goes(q, Tail(proc[q].todo), vobject[v.id], v.hash, proc[q].copy, 1)
        PROVE  NumberInv'
    BY <1>0, <2>1, <2>3, GoesNumbers, SameNumbers
  <2> QED BY <1>5, <2>2, <2>3 DEF GetDiagramVersion
<1>6. ASSUME NEW q \in Requests, NEW op \in Ops, NEW c \in MaybeContent, Start(q, op, c)
      PROVE  NumberInv'
  BY <1>0, <1>2, <1>6 DEF Start
<1>7. ASSUME NEW p \in Procs, GetDiagram(p) PROVE NumberInv'
  <2>1. PICK t, h, r : Goes(p, t, proc[p].content, h, r, proc[p].num)
    BY <1>7 DEF GetDiagram, Ends
  <2> QED BY <1>7, <2>1, GoesNumbers, SameNumbers DEF GetDiagram
<1>8. ASSUME NEW p \in Procs,
             \/ CreateDiagram(p) \/ UpdateDiagram(p) \/ SoftDeleteDiagram(p)
             \/ SetPreviewPending(p) \/ UploadAsset(p) \/ CacheSet(p)
             \/ CacheDel(p) \/ EnqueueScreenshot(p)
      PROVE  NumberInv'
  BY <1>1, <1>8 DEF CreateDiagram, UpdateDiagram, SoftDeleteDiagram,
     SetPreviewPending, UploadAsset, CacheSet, CacheDel, EnqueueScreenshot
<1>9. ASSUME NEW p \in Procs, UploadContent(p) \/ DownloadContent(p) \/ CacheGet(p)
      PROVE  NumberInv'
  <2>1. PICK t, c, r : Goes(p, t, c, proc[p].hash, r, proc[p].num)
    BY <1>9 DEF UploadContent, DownloadContent, CacheGet
  <2> QED BY <1>9, <2>1, GoesNumbers, SameNumbers DEF UploadContent, DownloadContent, CacheGet
<1>10. ASSUME NEW q \in Requests,
              \/ UploadVersion(q) \/ RequestAborts(q) \/ VersionUploadFails(q)
              \/ CacheWriteFails(q)
       PROVE  NumberInv'
  <2>1. PICK t : Goes(q, t, proc[q].content, proc[q].hash, proc[q].copy, proc[q].num)
    BY <1>10 DEF UploadVersion, RequestAborts, VersionUploadFails, CacheWriteFails,
       Proceeds, Ends
  <2> QED BY <1>0, <1>10, <2>1, GoesNumbers, SameNumbers
          DEF UploadVersion, RequestAborts, VersionUploadFails, CacheWriteFails
<1>11. ASSUME NEW w \in Workers, DequeueScreenshot(w) \/ GenerateFails(w) \/ WorkerStops(w)
       PROVE  NumberInv'
  BY <1>0, <1>1, <1>2, <1>11 DEF DequeueScreenshot, GenerateFails, WorkerStops
<1>12. CASE DebounceElapses \/ CacheExpires \/ UNCHANGED vars
  BY <1>12, SameNumbers DEF DebounceElapses, CacheExpires, vars
<1> QED
  BY <1>3, <1>4, <1>5, <1>6, <1>7, <1>8, <1>9, <1>10, <1>11, <1>12
     DEF Next, Step, RowStep, VersionStep, OtherStep

\* Version numbers are 1, 2, 3, ... however many Syncs, restores and manual
\* versions interleave between LatestVersionNumber and CreateDiagramVersion.
THEOREM VersionNumbersContiguous == Spec => []VersionsContiguous
<1>1. Init => NumberInv
  BY DEF Init, NoProc, NumberInv, NoGap, NoRepeat, HeldNumbers, Follows
<1>2. NumberInv => VersionsContiguous
  BY DEF NumberInv, VersionsContiguous
<1> QED BY <1>1, <1>2, InitType, NextType, NextNumbers, PTL DEF Spec

\* The row of a deleted diagram never changes: UpdateDiagram and
\* SetDiagramPreviewStatus filter on deleted_at, whoever writes late.
THEOREM DeletedRowIsFinal == Spec => DeletedIsFinal
<1>1. [Next]_vars => [row.state = "deleted" => row' = row]_row
  <2> SUFFICES ASSUME [Next]_vars, row.state = "deleted" PROVE row' = row
    OBVIOUS
  <2>1. ~Live
    BY DEF Live
  <2> QED
    BY <2>1
       DEF Next, vars, Start, Step, RowStep, VersionStep, OtherStep, GetDiagram,
           CreateDiagram, UpdateDiagram, SoftDeleteDiagram, SetPreviewPending,
           SetStatus, LatestVersionNumber, CreateDiagramVersion, GetDiagramVersion,
           UploadVersion, UploadContent, DownloadContent, UploadAsset, CacheGet,
           CacheSet, CacheDel, EnqueueScreenshot, RequestAborts, VersionUploadFails,
           CacheWriteFails, DequeueScreenshot, GenerateFails, WorkerStops,
           DebounceElapses, CacheExpires
<1> QED BY <1>1, PTL DEF Spec, DeletedIsFinal
(***************************************************************************)
(* Stored objects.  ObjectsStored relates the row and the versions to the  *)
(* object store, which are written in different calls, so its inductive    *)
(* invariant says what a process has stored by the calls it has left: what *)
(* it is about to insert is stored already, what it is about to store is a *)
(* content, and nobody stores again what a version row names.              *)
(***************************************************************************)
\* In every list of calls an upload comes right before the row it is for.
RowAfterObject(t) ==
    /\ \A i \in 1..Len(t) : t[i] = "vinsert" => i = 1 \/ t[i - 1] = "vupload"
    /\ \A i \in 1..Len(t) : t[i] = "insert" => i = 1 \/ t[i - 1] = "upload"
    /\ \A i \in 1..Len(t) : t[i] = "vupload" => i < Len(t) /\ t[i + 1] = "vinsert"
    /\ \A i, j \in 1..Len(t) : i < j /\ t[i] = "vinsert" => t[j] # "vupload"

\* The calls after which a process holds another content, and those that store
\* or insert what it holds.
Reads == {"getVersion", "cacheGet", "download"}
Stores == {"upload", "vupload"}
Writes == {"upload", "vupload", "insert", "vinsert"}

\* Manual versions are the ones whose hash may not be that of their content.
Manual == "createVersion" \in Ops

\* Only a manual version reads through the cache what it then stores.
CacheOnlyRead(t) ==
    \/ Manual
    \/ \A i \in 1..Len(t) : t[i] \notin {"cacheGet", "download"}
    \/ \A i \in 1..Len(t) : t[i] \notin Writes

\* c is a content, and the one whose hash is h.
Whole(c, h) == c # NoContent /\ (Manual \/ c = h)

\* What is stored next is held already, or read before it is stored.
HoldsWhatItStores(t, c, h) ==
    \A i \in 1..Len(t) : t[i] \in Stores =>
        Whole(c, h) \/ \E j \in 1..(i - 1) : t[j] \in Reads

\* A create is given its content and reads none.
NoRead(op, t) == op \in CreateOps => \A i \in 1..Len(t) : t[i] \notin Reads

RequestOK(q) ==
    /\ RowAfterObject(proc[q].todo)
    /\ NoRead(proc[q].op, proc[q].todo)
    /\ CacheOnlyRead(proc[q].todo)
    /\ HoldsWhatItStores(proc[q].todo, proc[q].content, proc[q].hash)
    /\ At(q, "insert") => object # NoContent
    /\ At(q, "vinsert") => vobject[q] = proc[q].content
                             /\ Whole(proc[q].content, proc[q].hash)
    /\ proc[q].op \notin CreateOps \cup {"none"} => row.state # "absent"
    /\ proc[q].op = "none" => proc[q].todo = <<>>
    /\ proc[q].op = "createVersion" => Manual

VersionOK(v) ==
    /\ Whole(vobject[v.id], v.hash)
    /\ proc[v.id].op # "none"
    /\ \A i \in 1..Len(proc[v.id].todo) : proc[v.id].todo[i] # "vupload"

\* Workers draw; they neither store contents nor insert rows.
WorkerOK(w) == \A i \in 1..Len(proc[w].todo) : proc[w].todo[i] \notin Writes

\* A row that is written back was read, or made, as one that is there.
CopyOK(p) == Busy(p) => proc[p].copy.state # "absent"

ObjectInv ==
    /\ RowHasObject
    /\ \A p \in Procs : CopyOK(p)
    /\ \A q \in Requests : RequestOK(q)
    /\ \A v \in versions : VersionOK(v)
    /\ \A w \in Workers : WorkerOK(w)

\* What is left of a list of calls is in order too.
LEMMA TailInOrder ==
    ASSUME NEW t \in Seq(StepNames), t # <<>>, RowAfterObject(t)
    PROVE  RowAfterObject(Tail(t))
<1> DEFINE s == Tail(t)
<1>1. s \in Seq(StepNames) /\ Len(s) = Len(t) - 1 /\ \A i \in 1..Len(s) : s[i] = t[i + 1]
  OBVIOUS
<1>2. \A i \in 1..Len(s) : i + 1 \in 1..Len(t) /\ (i # 1 => i - 1 \in 1..Len(s))
  BY <1>1
<1> HIDE DEF s
<1>3. \A i \in 1..Len(s) : s[i] = "vinsert" => i = 1 \/ s[i - 1] = "vupload"
  BY <1>1, <1>2 DEF RowAfterObject
<1>4. \A i \in 1..Len(s) : s[i] = "insert" => i = 1 \/ s[i - 1] = "upload"
  BY <1>1, <1>2 DEF RowAfterObject
<1>5. \A i \in 1..Len(s) : s[i] = "vupload" => i < Len(s) /\ s[i + 1] = "vinsert"
  BY <1>1, <1>2 DEF RowAfterObject
<1>6. \A i, j \in 1..Len(s) : i < j /\ s[i] = "vinsert" => s[j] # "vupload"
  BY <1>1, <1>2 DEF RowAfterObject
<1> QED BY <1>3, <1>4, <1>5, <1>6 DEF RowAfterObject, s

\* A call that reads nothing leaves what is held as it has to be.
LEMMA TailHolds ==
    ASSUME NEW t \in Seq(StepNames), t # <<>>, NEW c, NEW h
    PROVE  /\ CacheOnlyRead(t) => CacheOnlyRead(Tail(t))
           /\ \A op : NoRead(op, t) => NoRead(op, Tail(t))
           /\ HoldsWhatItStores(t, c, h) /\ Head(t) \notin Reads
              => HoldsWhatItStores(Tail(t), c, h)
<1> DEFINE s == Tail(t)
<1>1. /\ s \in Seq(StepNames) /\ Len(s) = Len(t) - 1 /\ Head(t) = t[1]
      /\ \A i \in 1..Len(s) : s[i] = t[i + 1] /\ i + 1 \in 1..Len(t)
  OBVIOUS
<1> HIDE DEF s
<1>2. CacheOnlyRead(t) => CacheOnlyRead(s)
  BY <1>1 DEF CacheOnlyRead
<1>3. ASSUME HoldsWhatItStores(t, c, h), Head(t) \notin Reads
      PROVE  HoldsWhatItStores(s, c, h)
  <2> SUFFICES ASSUME NEW i \in 1..Len(s), s[i] \in Stores, ~Whole(c, h)
               PROVE  \E j \in 1..(i - 1) : s[j] \in Reads
    BY DEF HoldsWhatItStores
  <2>1. PICK j \in 1..i : t[j] \in Reads
    BY <1>1, <1>3 DEF HoldsWhatItStores
  <2>2. j # 1
    BY <1>1, <1>3, <2>1
  <2>3. j - 1 \in 1..(i - 1) /\ s[j - 1] = t[j]
    BY <1>1, <2>2
  <2> QED BY <2>1, <2>3
<1>4. \A op : NoRead(op, t) => NoRead(op, s)
  BY <1>1 DEF NoRead
<1> QED BY <1>2, <1>3, <1>4 DEF s

\* Every handler stores first and inserts next.
LEMMA HandlersInOrder ==
    ASSUME NEW op \in RequestOps
    PROVE  RowAfterObject(Steps(op)) /\ Head(Steps(op)) \notin {"insert", "vinsert"}
<1>1. RowAfterObject(CreateSteps) /\ Head(CreateSteps) \notin {"insert", "vinsert"}
  BY DEF CreateSteps, RowAfterObject
<1>2. RowAfterObject(SyncCreateSteps) /\ Head(SyncCreateSteps) \notin {"insert", "vinsert"}
  BY DEF SyncCreateSteps, RowAfterObject
<1>3. RowAfterObject(UpdateSteps) /\ Head(UpdateSteps) \notin {"insert", "vinsert"}
  BY DEF UpdateSteps, RowAfterObject
<1>4. RowAfterObject(TouchSteps) /\ Head(TouchSteps) \notin {"insert", "vinsert"}
  BY DEF TouchSteps, RowAfterObject
<1>5. RowAfterObject(SyncSteps) /\ Head(SyncSteps) \notin {"insert", "vinsert"}
  BY DEF SyncSteps, RowAfterObject
<1>6. RowAfterObject(ThumbnailSteps) /\ Head(ThumbnailSteps) \notin {"insert", "vinsert"}
  BY DEF ThumbnailSteps, RowAfterObject
<1>7. RowAfterObject(GenerateSteps) /\ Head(GenerateSteps) \notin {"insert", "vinsert"}
  BY DEF GenerateSteps, RowAfterObject
<1>8. RowAfterObject(DeleteSteps) /\ Head(DeleteSteps) \notin {"insert", "vinsert"}
  BY DEF DeleteSteps, RowAfterObject
<1>9. RowAfterObject(RestoreSteps) /\ Head(RestoreSteps) \notin {"insert", "vinsert"}
  BY DEF RestoreSteps, RowAfterObject
<1>10. RowAfterObject(CreateVersionSteps) /\ Head(CreateVersionSteps) \notin {"insert", "vinsert"}
  BY DEF CreateVersionSteps, RowAfterObject
<1>11. RowAfterObject(GetContentSteps) /\ Head(GetContentSteps) \notin {"insert", "vinsert"}
  BY DEF GetContentSteps, RowAfterObject
<1> QED
  BY <1>1, <1>2, <1>3, <1>4, <1>5, <1>6, <1>7, <1>8, <1>9, <1>10, <1>11
     DEF Steps, RequestOps, ContentOps, CreateOps

\* A handler that is not given a content stores one it has read.
LEMMA HandlersHold ==
    ASSUME NEW op \in Ops, NEW c \in IF op \in ContentOps THEN Contents ELSE {NoContent}
    PROVE  /\ CacheOnlyRead(Steps(op)) /\ NoRead(op, Steps(op))
           /\ HoldsWhatItStores(Steps(op), c, c)
<1> USE DiagramAssumption
<1>0. op \in RequestOps
  OBVIOUS
<1>1. CASE op \in ContentOps
  <2>1. Whole(c, c)
    BY <1>1 DEF Whole
  <2>2. HoldsWhatItStores(Steps(op), c, c)
    BY <2>1 DEF HoldsWhatItStores
  <2>3. \A i \in 1..Len(CreateSteps) : CreateSteps[i] \notin Reads
    BY DEF CreateSteps, Reads
  <2>4. \A i \in 1..Len(SyncCreateSteps) : SyncCreateSteps[i] \notin Reads
    BY DEF SyncCreateSteps, Reads
  <2>5. \A i \in 1..Len(UpdateSteps) : UpdateSteps[i] \notin {"cacheGet", "download"}
    BY DEF UpdateSteps
  <2>6. \A i \in 1..Len(SyncSteps) : SyncSteps[i] \notin {"cacheGet", "download"}
    BY DEF SyncSteps
  <2>7. CacheOnlyRead(Steps(op))
    BY <1>1, <2>3, <2>4, <2>5, <2>6 DEF CacheOnlyRead, Reads, Steps, ContentOps, CreateOps
  <2>8. NoRead(op, Steps(op))
    BY <2>3, <2>4 DEF NoRead, Steps, CreateOps
  <2> QED BY <2>2, <2>7, <2>8
<1>10. op \notin ContentOps => NoRead(op, Steps(op))
  BY DEF NoRead, ContentOps
<1>2. ASSUME NEW t, Steps(op) = t, op \notin ContentOps, \A i \in 1..Len(t) : t[i] \notin Writes
      PROVE  CacheOnlyRead(t) /\ NoRead(op, t) /\ HoldsWhatItStores(t, c, c)
  BY <1>2, <1>10 DEF CacheOnlyRead, HoldsWhatItStores, Stores, Writes
<1>3. CASE op = "touch"
  <2>1. Steps(op) = TouchSteps /\ \A i \in 1..Len(TouchSteps) : TouchSteps[i] \notin Writes
    BY <1>3 DEF Steps, TouchSteps, Writes
  <2> QED BY <1>2, <1>3, <2>1 DEF ContentOps, CreateOps
<1>4. CASE op = "thumbnail"
  <2>1. Steps(op) = ThumbnailSteps
        /\ \A i \in 1..Len(ThumbnailSteps) : ThumbnailSteps[i] \notin Writes
    BY <1>4 DEF Steps, ThumbnailSteps, Writes
  <2> QED BY <1>2, <1>4, <2>1 DEF ContentOps, CreateOps
<1>5. CASE op = "generate"
  <2>1. Steps(op) = GenerateSteps
        /\ \A i \in 1..Len(GenerateSteps) : GenerateSteps[i] \notin Writes
    BY <1>5 DEF Steps, GenerateSteps, Writes
  <2> QED BY <1>2, <1>5, <2>1 DEF ContentOps, CreateOps
<1>6. CASE op = "delete"
  <2>1. Steps(op) = DeleteSteps /\ \A i \in 1..Len(DeleteSteps) : DeleteSteps[i] \notin Writes
    BY <1>6 DEF Steps, DeleteSteps, Writes
  <2> QED BY <1>2, <1>6, <2>1 DEF ContentOps, CreateOps
<1>7. CASE op = "getContent"
  <2>1. Steps(op) = GetContentSteps
        /\ \A i \in 1..Len(GetContentSteps) : GetContentSteps[i] \notin Writes
    BY <1>7 DEF Steps, GetContentSteps, Writes
  <2> QED BY <1>2, <1>7, <2>1 DEF ContentOps, CreateOps
<1>8. CASE op = "restore"
  <2>1. Steps(op) = RestoreSteps
    BY <1>8 DEF Steps
  <2>2. \A i \in 1..Len(RestoreSteps) : RestoreSteps[i] \notin {"cacheGet", "download"}
    BY DEF RestoreSteps
  <2>3. RestoreSteps[2] \in Reads
    BY DEF RestoreSteps, Reads
  <2>4. \A i \in 1..Len(RestoreSteps) : RestoreSteps[i] \in Stores => 2 \in 1..(i - 1)
    BY DEF RestoreSteps, Stores
  <2> QED BY <1>8, <1>10, <2>1, <2>2, <2>3, <2>4
          DEF CacheOnlyRead, HoldsWhatItStores, ContentOps, CreateOps
<1>9. CASE op = "createVersion"
  <2>1. Steps(op) = CreateVersionSteps
    BY <1>9 DEF Steps
  <2>2. CreateVersionSteps[2] \in Reads
    BY DEF CreateVersionSteps, Reads
  <2>3. \A i \in 1..Len(CreateVersionSteps) : CreateVersionSteps[i] \in Stores => 2 \in 1..(i - 1)
    BY DEF CreateVersionSteps, Stores
  <2> QED BY <1>9, <1>10, <2>1, <2>2, <2>3
          DEF CacheOnlyRead, HoldsWhatItStores, Manual, ContentOps, CreateOps
<1> QED BY <1>0, <1>1, <1>3, <1>4, <1>5, <1>6, <1>7, <1>8, <1>9 DEF RequestOps

\* The other processes are not concerned by a step that takes nothing away.
LEMMA OthersKeep ==
    ASSUME TypeOK, ObjectInv, NEW p \in Procs, NEW x,
           proc' = [proc EXCEPT ![p] = x],
           object # NoContent => object' # NoContent,
           row.state # "absent" => row'.state # "absent",
           \A q \in Requests \ {p} : vobject'[q] = vobject[q]
    PROVE  /\ \A q \in Requests \ {p} : RequestOK(q)'
           /\ \A w \in Workers \ {p} : WorkerOK(w)'
           /\ \A q \in Procs \ {p} : CopyOK(q)'
<1> USE DiagramAssumption
<1>1. \A q \in Procs \ {p} : proc'[q] = proc[q]
  BY DEF TypeOK
<1>2. ASSUME NEW q \in Requests \ {p} PROVE RequestOK(q)'
  <2>1. proc'[q] = proc[q] /\ RequestOK(q)
    BY <1>1 DEF Procs, ObjectInv
  <2>2. vobject'[q] = vobject[q]
    OBVIOUS
  <2> QED BY <2>1, <2>2 DEF RequestOK, At
<1>3. ASSUME NEW w \in Workers \ {p} PROVE WorkerOK(w)'
  BY <1>1 DEF Procs, ObjectInv, WorkerOK
<1>4. ASSUME NEW q \in Procs \ {p} PROVE CopyOK(q)'
  BY <1>1 DEF ObjectInv, CopyOK, Busy
<1> QED BY <1>2, <1>3, <1>4

\* A step of p that leaves versions and their objects alone keeps the
\* invariant when it leaves p with what it has to hold.
LEMMA StepKeeps ==
    ASSUME TypeOK, ObjectInv, NEW p \in Procs, NEW t \in Seq(StepNames),
           NEW c, NEW h, NEW r, NEW n, Goes(p, t, c, h, r, n),
           versions' = versions, vobject' = vobject,
           object # NoContent => object' # NoContent,
           row.state # "absent" => row'.state # "absent",
           RowHasObject', t # <<>> => r.state # "absent",
           p \in Requests => RequestOK(p)', p \in Workers => WorkerOK(p)',
           (\A i \in 1..Len(proc[p].todo) : proc[p].todo[i] # "vupload")
              => \A i \in 1..Len(t) : t[i] # "vupload"
    PROVE  ObjectInv'
<1>1. /\ \A q \in Requests \ {p} : RequestOK(q)'
      /\ \A w \in Workers \ {p} : WorkerOK(w)'
      /\ \A q \in Procs \ {p} : CopyOK(q)'
  BY OthersKeep DEF Goes
<1>2. proc'[p].op = proc[p].op /\ proc'[p].todo = t /\ \A q \in Procs \ {p} : proc'[q] = proc[q]
  BY DEF Goes, TypeOK
<1>3. ASSUME NEW v \in versions PROVE VersionOK(v)'
  <2>1. VersionOK(v) /\ v.id \in Procs
    BY DEF ObjectInv, TypeOK, Version, Procs
  <2>2. vobject'[v.id] = vobject[v.id] /\ proc'[v.id].op = proc[v.id].op
    BY <1>2, <2>1
  <2>3. \A i \in 1..Len(proc'[v.id].todo) : proc'[v.id].todo[i] # "vupload"
    BY <1>2, <2>1 DEF VersionOK
  <2> QED BY <2>1, <2>2, <2>3 DEF VersionOK
<1>4. CopyOK(p)'
  BY DEF CopyOK, Busy, Goes, TypeOK
<1> QED BY <1>1, <1>3, <1>4 DEF ObjectInv

\* A call that neither reads nor stores nor inserts a content, done by p.
LEMMA CallDone ==
    ASSUME TypeOK, ObjectInv, NEW p \in Procs, proc[p].todo # <<>>,
           Head(proc[p].todo) \notin Reads \cup Writes,
           NEW h, NEW r, NEW n,
           Goes(p, Tail(proc[p].todo), proc[p].content, h, r, n),
           h = proc[p].hash \/ (p \in Requests => Manual),
           r.state # "absent",
           versions' = versions, vobject' = vobject, object' = object,
           row.state # "absent" => row'.state # "absent", RowHasObject'
    PROVE  ObjectInv'
<1> DEFINE t == proc[p].todo
           c == proc[p].content
           s == Tail(t)
<1>1. t \in Seq(StepNames)
  BY DEF TypeOK, Proc
<1>2. /\ s \in Seq(StepNames) /\ Len(s) = Len(t) - 1 /\ Head(t) = t[1]
      /\ \A i \in 1..Len(s) : s[i] = t[i + 1] /\ i + 1 \in 1..Len(t)
  BY <1>1
<1>3. /\ proc'[p].todo = s /\ proc'[p].content = c /\ proc'[p].hash = h
      /\ proc'[p].op = proc[p].op
  BY DEF Goes, TypeOK
<1>4. ASSUME p \in Requests PROVE RequestOK(p)'
  <2>1. RequestOK(p)
    BY <1>4 DEF ObjectInv
  <2>2. RowAfterObject(s)
    BY <1>1, <2>1, TailInOrder DEF RequestOK
  <2>3. CacheOnlyRead(s) /\ HoldsWhatItStores(s, c, proc[p].hash) /\ NoRead(proc[p].op, s)
    BY <1>1, <2>1, TailHolds DEF RequestOK
  <2>4. HoldsWhatItStores(s, c, h)
    BY <1>4, <2>3 DEF HoldsWhatItStores, Whole
  <2>5. s # <<>> => s[1] # "insert" /\ s[1] # "vinsert"
    <3>1. SUFFICES ASSUME s # <<>> PROVE s[1] # "insert" /\ s[1] # "vinsert"
      OBVIOUS
    <3>2. 2 \in 1..Len(t) /\ s[1] = t[2]
      BY <1>1, <1>2, <3>1
    <3>3. t[1] # "upload" /\ t[1] # "vupload"
      BY <1>2 DEF Writes
    <3>4. RowAfterObject(t)
      BY <2>1 DEF RequestOK
    <3> HIDE DEF t, s
    <3> QED BY <3>2, <3>3, <3>4 DEF RowAfterObject
  <2>6. ~At(p, "insert")' /\ ~At(p, "vinsert")'
    BY <1>2, <1>3, <2>5 DEF At
  <2>7. proc[p].op # "none"
    BY <2>1 DEF RequestOK
  <2> QED BY <1>3, <2>1, <2>2, <2>3, <2>4, <2>6, <2>7 DEF RequestOK
<1>5. ASSUME p \in Workers PROVE WorkerOK(p)'
  <2>1. WorkerOK(p)
    BY <1>5 DEF ObjectInv
  <2> QED BY <1>2, <1>3, <2>1 DEF WorkerOK
<1>6. (\A i \in 1..Len(t) : t[i] # "vupload") => \A i \in 1..Len(s) : s[i] # "vupload"
  BY <1>2
<1> HIDE DEF t, s, c
<1> QED BY <1>2, <1>4, <1>5, <1>6, StepKeeps DEF s, t, c

\* A request that is over, or a worker that gives up, keeps the invariant.
LEMMA CallsOver ==
    ASSUME TypeOK, ObjectInv, NEW p \in Procs, NEW c, NEW h, NEW r, NEW n,
           \/ Goes(p, <<>>, c, h, r, n)
           \/ (Goes(p, <<"save">>, c, h, r, n) /\ r.state # "absent"),
           proc[p].todo # <<>>,
           versions' = versions, vobject' = vobject, object' = object,
           row.state # "absent" => row'.state # "absent", RowHasObject'
    PROVE  ObjectInv'
<1>1. PICK t \in {<<>>, <<"save">>} :
         Goes(p, t, c, h, r, n) /\ (t # <<>> => r.state # "absent")
  OBVIOUS
<1>2. t \in Seq(StepNames) /\ (t = <<>> \/ (Len(t) = 1 /\ t[1] = "save"))
  <2>1. <<>> \in Seq(StepNames) /\ <<"save">> \in Seq(StepNames)
    BY DEF StepNames
  <2>2. Len(<<"save">>) = 1 /\ <<"save">>[1] = "save"
    OBVIOUS
  <2>3. t = <<>> \/ t = <<"save">>
    BY <1>1
  <2> QED BY ONLY <2>1, <2>2, <2>3
<1>3. proc'[p].todo = t /\ proc'[p].op = proc[p].op
  BY <1>1 DEF Goes, TypeOK
<1>4. \A i \in 1..Len(t) : t[i] = "save"
  BY <1>2
<1>5. ASSUME p \in Requests PROVE RequestOK(p)'
  <2>1. RequestOK(p)
    BY <1>5 DEF ObjectInv
  <2>2. RowAfterObject(t)
    BY <1>4 DEF RowAfterObject
  <2>3. CacheOnlyRead(t) /\ HoldsWhatItStores(t, c, h) /\ NoRead(proc[p].op, t)
    BY <1>4 DEF CacheOnlyRead, HoldsWhatItStores, Stores, NoRead, Reads
  <2>4. proc'[p].content = c /\ proc'[p].hash = h
    BY <1>1 DEF Goes, TypeOK
  <2>5. ~At(p, "insert")' /\ ~At(p, "vinsert")'
    BY <1>2, <1>3 DEF At
  <2>6. proc[p].op # "none"
    BY <2>1 DEF RequestOK
  <2> QED BY <1>3, <2>1, <2>2, <2>3, <2>4, <2>5, <2>6 DEF RequestOK
<1>6. p \in Workers => WorkerOK(p)'
  BY <1>3, <1>4 DEF WorkerOK, Writes
<1> QED BY <1>1, <1>2, <1>4, <1>5, <1>6, StepKeeps

\* A call that reads a content, done by p.
LEMMA ReadDone ==
    ASSUME TypeOK, ObjectInv, NEW p \in Procs, proc[p].todo # <<>>,
           Head(proc[p].todo) \in Reads,
           NEW c, NEW h, NEW n,
           Goes(p, Tail(proc[p].todo), c, h, proc[p].copy, n),
           \/ p \in Workers \/ Whole(c, h)
           \/ \A i \in 1..Len(proc[p].todo) : proc[p].todo[i] \notin Writes,
           versions' = versions, vobject' = vobject, object' = object, row' = row
    PROVE  ObjectInv'
<1> DEFINE t == proc[p].todo
           s == Tail(t)
<1>1. t \in Seq(StepNames)
  BY DEF TypeOK, Proc
<1>2. /\ s \in Seq(StepNames) /\ Len(s) = Len(t) - 1 /\ Head(t) = t[1]
      /\ \A i \in 1..Len(s) : s[i] = t[i + 1] /\ i + 1 \in 1..Len(t)
  BY <1>1
<1>3. /\ proc'[p].todo = s /\ proc'[p].content = c /\ proc'[p].hash = h
      /\ proc'[p].op = proc[p].op
  BY DEF Goes, TypeOK
<1>4. ASSUME p \in Requests PROVE RequestOK(p)'
  <2>1. RequestOK(p) /\ p \notin Workers
    BY <1>4, DiagramAssumption DEF ObjectInv
  <2>2. RowAfterObject(s)
    BY <1>1, <2>1, TailInOrder DEF RequestOK
  <2>3. CacheOnlyRead(s) /\ NoRead(proc[p].op, s)
    BY <1>1, <2>1, TailHolds DEF RequestOK
  <2>4. HoldsWhatItStores(s, c, h)
    BY <1>2, <2>1 DEF HoldsWhatItStores, Stores, Writes
  <2>5. s # <<>> => s[1] # "insert" /\ s[1] # "vinsert"
    <3>1. SUFFICES ASSUME s # <<>> PROVE s[1] # "insert" /\ s[1] # "vinsert"
      OBVIOUS
    <3>2. 2 \in 1..Len(t) /\ s[1] = t[2]
      BY <1>1, <1>2, <3>1
    <3>3. t[1] # "upload" /\ t[1] # "vupload"
      BY <1>2 DEF Reads
    <3>4. RowAfterObject(t)
      BY <2>1 DEF RequestOK
    <3> HIDE DEF t, s
    <3> QED BY <3>2, <3>3, <3>4 DEF RowAfterObject
  <2>6. ~At(p, "insert")' /\ ~At(p, "vinsert")'
    BY <1>2, <1>3, <2>5 DEF At
  <2>7. proc[p].op # "none"
    BY <2>1 DEF RequestOK
  <2> QED BY <1>3, <2>1, <2>2, <2>3, <2>4, <2>6, <2>7 DEF RequestOK
<1>5. ASSUME p \in Workers PROVE WorkerOK(p)'
  <2>1. WorkerOK(p)
    BY <1>5 DEF ObjectInv
  <2> QED BY <1>2, <1>3, <2>1 DEF WorkerOK
<1>6. (\A i \in 1..Len(t) : t[i] # "vupload") => \A i \in 1..Len(s) : s[i] # "vupload"
  BY <1>2
<1>7. proc[p].copy.state # "absent" /\ RowHasObject'
  BY DEF ObjectInv, CopyOK, Busy, RowHasObject
<1>8. PICK r : r = proc[p].copy
  OBVIOUS
<1> HIDE DEF t, s
<1>9. Goes(p, s, c, h, r, n) /\ r.state # "absent"
  BY <1>7, <1>8 DEF s, t
<1> QED BY <1>2, <1>4, <1>5, <1>6, <1>7, <1>9, StepKeeps DEF t

\* Where the elements of two joined lists are.
LEMMA Joined ==
    ASSUME NEW S, NEW k \in Seq(S), NEW s \in Seq(S)
    PROVE  /\ k \o s \in Seq(S) /\ Len(k \o s) = Len(k) + Len(s)
           /\ Len(k) \in Nat /\ Len(s) \in Nat
           /\ \A i \in 1..Len(k) : (k \o s)[i] = k[i]
           /\ \A i \in 1..(Len(k) + Len(s)) : i > Len(k) => (k \o s)[i] = s[i - Len(k)]
OBVIOUS

\* A cache miss puts the calls that fetch the content in front of the others.
LEMMA MissHolds ==
    ASSUME NEW op, NEW t \in Seq(StepNames), t # <<>>, Head(t) = "cacheGet", NEW c, NEW h
    PROVE  LET u == MissSteps(op) \o Tail(t) IN
           /\ RowAfterObject(t) => RowAfterObject(u)
           /\ CacheOnlyRead(t) => CacheOnlyRead(u)
           /\ NoRead(op, t) => NoRead(op, u)
           /\ HoldsWhatItStores(u, c, h)
           /\ u # <<>> /\ Head(u) \in {"get", "download"}
           /\ \A x \in Writes : (\A i \in 1..Len(t) : t[i] # x) => \A i \in 1..Len(u) : u[i] # x
<1> DEFINE s == Tail(t)
           k == MissSteps(op)
           m == Len(k)
           u == k \o s
<1>1. /\ k \in Seq(StepNames) /\ m \in {2, 3} /\ k[m - 1] = "download"
      /\ k[1] \in {"get", "download"}
      /\ \A i \in 1..m : k[i] \in {"get", "download", "cacheSet"}
  <2>1. <<"download", "cacheSet">> \in Seq(StepNames)
    BY DEF StepNames
  <2>2. <<"get", "download", "cacheSet">> \in Seq(StepNames)
    BY DEF StepNames
  <2>3. CASE k = <<"download", "cacheSet">>
    BY <2>1, <2>3
  <2>4. CASE k = <<"get", "download", "cacheSet">>
    BY <2>2, <2>4
  <2> QED BY <2>3, <2>4 DEF MissSteps
<1>2. /\ s \in Seq(StepNames) /\ Len(s) = Len(t) - 1 /\ t[1] = "cacheGet"
      /\ \A i \in 1..Len(s) : s[i] = t[i + 1] /\ i + 1 \in 1..Len(t)
  OBVIOUS
<1>3. /\ u \in Seq(StepNames) /\ Len(u) = m + Len(s) /\ Len(s) \in Nat
      /\ \A i \in 1..m : u[i] = k[i]
      /\ \A i \in 1..(m + Len(s)) : i > m => u[i] = s[i - m]
  <2> HIDE DEF k, s
  <2>1. k \in Seq(StepNames) /\ s \in Seq(StepNames)
    BY <1>1, <1>2
  <2>2. /\ k \o s \in Seq(StepNames) /\ Len(k \o s) = Len(k) + Len(s) /\ Len(s) \in Nat
        /\ \A i \in 1..Len(k) : (k \o s)[i] = k[i]
        /\ \A i \in 1..(Len(k) + Len(s)) : i > Len(k) => (k \o s)[i] = s[i - Len(k)]
    BY ONLY <2>1, Joined
  <2> QED BY ONLY <2>2
<1> HIDE DEF k, s, u, m
<1>6. m \in {2, 3}
  BY <1>1
<1>4. \A i \in 1..Len(u) : i > m => i - m + 1 \in 1..Len(t) /\ u[i] = t[i - m + 1]
  <2> SUFFICES ASSUME NEW i \in 1..Len(u), i > m
               PROVE  i - m + 1 \in 1..Len(t) /\ u[i] = t[i - m + 1]
    OBVIOUS
  <2>1. i - m \in 1..Len(s) /\ u[i] = s[i - m]
    BY <1>3, <1>6
  <2> QED BY <1>2, <2>1
<1>5. \A i \in 1..m : u[i] \notin Writes /\ i \in 1..Len(u)
  <2>1. \A i \in 1..m : u[i] = k[i] /\ k[i] \in {"get", "download", "cacheSet"}
    BY <1>1, <1>3
  <2>2. \A i \in 1..m : i \in 1..Len(u)
    BY <1>3, <1>6
  <2> QED BY <2>1, <2>2 DEF Writes
<1>7. \A i \in 1..Len(u) : u[i] \in Writes =>
         i > m /\ i - m + 1 \in 1..Len(t) /\ u[i] = t[i - m + 1]
  <2> SUFFICES ASSUME NEW i \in 1..Len(u), u[i] \in Writes
               PROVE  i > m /\ i - m + 1 \in 1..Len(t) /\ u[i] = t[i - m + 1]
    OBVIOUS
  <2>1. i > m
    BY <1>5, <1>6
  <2> QED BY <1>4, <2>1
<1>8. Len(t) = Len(u) - m + 1
  BY <1>2, <1>3, <1>6
<1>9. ASSUME RowAfterObject(t) PROVE RowAfterObject(u)
  <2>1. ASSUME NEW i \in 1..Len(u), u[i] = "vinsert" PROVE i = 1 \/ u[i - 1] = "vupload"
    <3>1. i > m /\ i - m + 1 \in 1..Len(t) /\ t[i - m + 1] = "vinsert"
      BY <1>7, <2>1 DEF Writes
    <3>2. t[i - m] = "vupload" /\ i - m # 1
      BY <1>2, <1>6, <1>9, <3>1 DEF RowAfterObject
    <3>3. i - 1 \in 1..Len(u) /\ i - 1 > m /\ (i - 1) - m + 1 = i - m
      BY <1>6, <3>1, <3>2
    <3>4. u[i - 1] = t[i - m]
      BY <1>4, <3>3
    <3> QED BY <3>2, <3>4
  <2>2. ASSUME NEW i \in 1..Len(u), u[i] = "insert" PROVE i = 1 \/ u[i - 1] = "upload"
    <3>1. i > m /\ i - m + 1 \in 1..Len(t) /\ t[i - m + 1] = "insert"
      BY <1>7, <2>2 DEF Writes
    <3>2. t[i - m] = "upload" /\ i - m # 1
      BY <1>2, <1>6, <1>9, <3>1 DEF RowAfterObject
    <3>3. i - 1 \in 1..Len(u) /\ i - 1 > m /\ (i - 1) - m + 1 = i - m
      BY <1>6, <3>1, <3>2
    <3>4. u[i - 1] = t[i - m]
      BY <1>4, <3>3
    <3> QED BY <3>2, <3>4
  <2>3. ASSUME NEW i \in 1..Len(u), u[i] = "vupload" PROVE i < Len(u) /\ u[i + 1] = "vinsert"
    <3>1. i > m /\ i - m + 1 \in 1..Len(t) /\ t[i - m + 1] = "vupload"
      BY <1>7, <2>3 DEF Writes
    <3>2. i - m + 1 < Len(t) /\ t[i - m + 2] = "vinsert"
      BY <1>6, <1>9, <3>1 DEF RowAfterObject
    <3>3. i + 1 \in 1..Len(u) /\ i + 1 > m /\ (i + 1) - m + 1 = i - m + 2
      BY <1>3, <1>2, <1>6, <1>8, <3>1, <3>2
    <3>4. u[i + 1] = t[i - m + 2]
      BY <1>4, <3>3
    <3> QED BY <3>2, <3>3, <3>4
  <2>4. ASSUME NEW i \in 1..Len(u), NEW j \in 1..Len(u), i < j, u[i] = "vinsert"
        PROVE  u[j] # "vupload"
    <3>1. i > m /\ i - m + 1 \in 1..Len(t) /\ t[i - m + 1] = "vinsert"
      BY <1>7, <2>4 DEF Writes
    <3>2. j - m + 1 \in 1..Len(t) /\ u[j] = t[j - m + 1] /\ i - m + 1 < j - m + 1
      <4>1. j > m /\ i - m + 1 < j - m + 1
        BY <1>6, <2>4, <3>1
      <4> QED BY <1>4, <4>1
    <3> QED BY <1>9, <3>1, <3>2 DEF RowAfterObject
  <2> QED BY <2>1, <2>2, <2>3, <2>4 DEF RowAfterObject
<1>10. CacheOnlyRead(t) => CacheOnlyRead(u)
  <2>1. 1 \in 1..Len(t)
    OBVIOUS
  <2> QED BY <1>2, <1>7, <2>1 DEF CacheOnlyRead
<1>11. NoRead(op, t) => NoRead(op, u)
  <2>1. 1 \in 1..Len(t)
    OBVIOUS
  <2> QED BY <1>2, <2>1 DEF NoRead, Reads
<1>12. HoldsWhatItStores(u, c, h)
  <2> SUFFICES ASSUME NEW i \in 1..Len(u), u[i] \in Stores
               PROVE  \E j \in 1..(i - 1) : u[j] \in Reads
    BY DEF HoldsWhatItStores
  <2>1. i > m
    BY <1>7 DEF Stores, Writes
  <2>2. m - 1 \in 1..m /\ m - 1 \in 1..(i - 1)
    BY <1>6, <2>1
  <2>3. u[m - 1] = "download"
    BY <1>1, <1>3, <2>2
  <2> QED BY <2>2, <2>3 DEF Reads
<1>13. u # <<>> /\ Head(u) \in {"get", "download"}
  <2>1. 1 \in 1..m /\ 1 \in 1..Len(u)
    BY <1>5, <1>6
  <2>2. u[1] \in {"get", "download"}
    BY <1>1, <1>3, <2>1
  <2> QED BY <1>3, <2>1, <2>2
<1>14. \A x \in Writes : (\A i \in 1..Len(t) : t[i] # x) => \A i \in 1..Len(u) : u[i] # x
  BY <1>7
<1> QED BY <1>9, <1>10, <1>11, <1>12, <1>13, <1>14 DEF u, k, s

\* Every step keeps what the database names in the object store.
LEMMA NextObjects == TypeOK /\ ObjectInv /\ [Next]_vars => ObjectInv'
<1> SUFFICES ASSUME TypeOK, ObjectInv, [Next]_vars PROVE ObjectInv'
  OBVIOUS
<1> USE DiagramAssumption
<1>0. Requests \subseteq Procs /\ Workers \subseteq Procs
  BY DEF Procs
<1>1. ASSUME NEW p \in Procs, Busy(p)
      PROVE  /\ proc[p].copy.state # "absent"
             /\ proc[p].todo \in Seq(StepNames) /\ proc[p].todo # <<>>
             /\ Head(proc[p].todo) = proc[p].todo[1] /\ Len(proc[p].todo) > 0
  BY <1>1 DEF ObjectInv, CopyOK, Busy, TypeOK, Proc
<1>2. ASSUME NEW p \in Procs, At(p, "upload") \/ At(p, "insert")
      PROVE  p \in Requests
  <2>1. ASSUME p \in Workers PROVE FALSE
    BY <1>1, <1>2, <2>1 DEF ObjectInv, WorkerOK, Writes, At, Busy
  <2> QED BY <2>1 DEF Procs
<1>3. RowHasObject
  BY DEF ObjectInv
<1>4. ASSUME NEW q \in Requests, NEW op \in Ops, NEW c \in MaybeContent, Start(q, op, c)
      PROVE  ObjectInv'
  <2>1. /\ proc'[q] = NewProc(op, c)
        /\ proc'[q].todo = Steps(op) /\ proc'[q].content = c /\ proc'[q].hash = c
        /\ proc'[q].op = op /\ proc'[q].copy.state = "live"
    BY <1>0, <1>4 DEF Start, NewProc, TypeOK
  <2>2. c \in IF op \in ContentOps THEN Contents ELSE {NoContent}
    BY <1>4 DEF Start
  <2>3. RowAfterObject(Steps(op))
    BY HandlersInOrder
  <2>4. CacheOnlyRead(Steps(op)) /\ HoldsWhatItStores(Steps(op), c, c) /\ NoRead(op, Steps(op))
    BY <2>2, HandlersHold
  <2>5. Head(Steps(op)) # "insert" /\ Head(Steps(op)) # "vinsert"
    BY HandlersInOrder
  <2>6. op # "none" /\ (op = "createVersion" => Manual)
    BY DEF Manual, RequestOps, ContentOps, CreateOps
  <2>7. op \notin CreateOps => row'.state # "absent"
    BY <1>4 DEF Start
  <2>8. RequestOK(q)'
    BY <2>1, <2>3, <2>4, <2>5, <2>6, <2>7 DEF RequestOK, At
  <2>9. /\ \A i \in Requests \ {q} : RequestOK(i)'
        /\ \A w \in Workers \ {q} : WorkerOK(w)'
        /\ \A i \in Procs \ {q} : CopyOK(i)'
    BY <1>0, <1>4, OthersKeep DEF Start
  <2>10. ASSUME NEW v \in versions PROVE VersionOK(v)'
    <3>1. VersionOK(v) /\ v.id \in Procs /\ v.id # q
      BY <1>0, <1>4 DEF ObjectInv, VersionOK, TypeOK, Version, Start
    <3>2. proc'[v.id] = proc[v.id] /\ vobject' = vobject
      BY <1>4, <3>1 DEF Start, TypeOK
    <3> QED BY <3>1, <3>2 DEF VersionOK
  <2>11. CopyOK(q)' /\ RowHasObject' /\ versions' = versions /\ q \notin Workers
    BY <1>3, <1>4, <2>1 DEF CopyOK, Start, RowHasObject
  <2> QED BY <2>8, <2>9, <2>10, <2>11 DEF ObjectInv
<1>5. ASSUME NEW p \in Procs, GetDiagram(p) PROVE ObjectInv'
  <2>1. /\ proc[p].todo # <<>> /\ Head(proc[p].todo) = "get"
        /\ UNCHANGED <<row, object, versions, vobject>>
    BY <1>5 DEF GetDiagram, At
  <2>2. Head(proc[p].todo) \notin Reads \cup Writes
    BY <2>1 DEF Reads, Writes
  <2>3. RowHasObject'
    BY <1>3, <2>1 DEF RowHasObject
  <2>4. CASE Ends(p)
    BY <2>1, <2>3, <2>4, CallsOver DEF Ends
  <2>5. CASE Live /\ (Goes(p, <<>>, proc[p].content, proc[p].hash, row, proc[p].num)
                      \/ Goes(p, <<"save">>, proc[p].content, proc[p].hash, row, proc[p].num))
    <3>1. row.state # "absent"
      BY <2>5 DEF Live
    <3> QED BY <2>1, <2>3, <2>5, <3>1, CallsOver
  <2>6. ASSUME Live, NEW h, h = proc[p].hash \/ (proc[p].op = "createVersion"),
               Goes(p, Tail(proc[p].todo), proc[p].content, h, RowRead(p), proc[p].num)
        PROVE  ObjectInv'
    <3>1. RowRead(p).state # "absent"
      BY <2>6 DEF RowRead, Live, TypeOK, Row
    <3>2. h = proc[p].hash \/ (p \in Requests => Manual)
      BY <2>6 DEF ObjectInv, RequestOK
    <3>3. PICK r : r = RowRead(p)
      OBVIOUS
    <3> QED BY ONLY TypeOK, ObjectInv, p \in Procs, <2>1, <2>2, <2>3, <2>6, <3>1, <3>2, <3>3, CallDone
  <2>7. ASSUME Live, Goes(p, Tail(proc[p].todo), proc[p].content,
                          IF proc[p].op = "createVersion" THEN row.hash ELSE proc[p].hash,
                          RowRead(p), proc[p].num)
        PROVE  ObjectInv'
    BY <2>6, <2>7
  <2> QED BY <1>5, <2>4, <2>5, <2>7 DEF GetDiagram
<1>6. ASSUME NEW p \in Procs,
             UpdateDiagram(p) \/ SoftDeleteDiagram(p) \/ SetPreviewPending(p)
      PROVE  ObjectInv'
  <2>1. /\ Busy(p) /\ Head(proc[p].todo) \in {"save", "softDelete", "pending"}
        /\ UNCHANGED <<object, versions, vobject>> /\ Proceeds(p)
    BY <1>6 DEF UpdateDiagram, SoftDeleteDiagram, SetPreviewPending, At, Busy
  <2>2. Head(proc[p].todo) \notin Reads \cup Writes
    BY <2>1 DEF Reads, Writes
  <2>3. row.state # "absent" <=> row'.state # "absent"
    BY <1>1, <1>6, <2>1 DEF UpdateDiagram, SoftDeleteDiagram, SetPreviewPending, SetStatus,
       Live, TypeOK, Row
  <2>4. RowHasObject'
    BY <1>3, <2>1, <2>3 DEF RowHasObject
  <2> QED BY <1>1, <2>1, <2>2, <2>3, <2>4, CallDone DEF Proceeds
<1>7. ASSUME NEW p \in Procs, CreateDiagram(p) PROVE ObjectInv'
  <2>1. /\ Busy(p) /\ At(p, "insert") /\ row.state = "absent" /\ row' = proc[p].copy
        /\ UNCHANGED <<object, versions, vobject>> /\ Proceeds(p)
    BY <1>7 DEF CreateDiagram, At, Busy
  <2>2. p \in Requests /\ RequestOK(p) /\ p \notin Workers
    BY <1>2, <2>1 DEF ObjectInv
  <2>3. RowHasObject'
    BY <2>1, <2>2 DEF RowHasObject, RequestOK
  <2> DEFINE t == proc[p].todo
             s == Tail(t)
  <2>4. t \in Seq(StepNames) /\ t # <<>> /\ t[1] = "insert" /\ Head(t) = "insert"
    BY <1>1, <2>1 DEF At
  <2>5. /\ s \in Seq(StepNames) /\ Len(s) = Len(t) - 1
        /\ \A i \in 1..Len(s) : s[i] = t[i + 1] /\ i + 1 \in 1..Len(t)
    BY <2>4
  <2>6. RowAfterObject(t) /\ RowAfterObject(s) /\ CacheOnlyRead(s) /\ NoRead(proc[p].op, s)
        /\ HoldsWhatItStores(s, proc[p].content, proc[p].hash)
    BY <2>2, <2>4, TailInOrder, TailHolds DEF RequestOK, Reads
  <2>7. /\ proc'[p].todo = s /\ proc'[p].content = proc[p].content
        /\ proc'[p].hash = proc[p].hash /\ proc'[p].op = proc[p].op
    BY <2>1 DEF Proceeds, Goes, TypeOK
  <2>8. (\A i \in 1..Len(t) : t[i] # "vupload") => \A i \in 1..Len(s) : s[i] # "vupload"
    BY <2>5
  <2>9. s # <<>> => s[1] # "insert" /\ s[1] # "vinsert"
    <3> SUFFICES ASSUME s # <<>> PROVE s[1] # "insert" /\ s[1] # "vinsert"
      OBVIOUS
    <3>1. 2 \in 1..Len(t) /\ s[1] = t[2]
      BY <2>5
    <3> HIDE DEF s, t
    <3> QED BY <2>4, <2>6, <3>1 DEF RowAfterObject
  <2>10. ~At(p, "insert")' /\ ~At(p, "vinsert")'
    BY <2>5, <2>7, <2>9 DEF At
  <2>11. proc[p].op # "none" /\ row'.state # "absent"
    BY <1>1, <2>1, <2>2 DEF RequestOK, Busy
  <2>12. RequestOK(p)'
    BY <2>2, <2>6, <2>7, <2>10, <2>11 DEF RequestOK
  <2> HIDE DEF s, t
  <2> QED BY <1>1, <2>1, <2>2, <2>3, <2>5, <2>8, <2>11, <2>12, StepKeeps DEF Proceeds, s, t
<1>8. ASSUME NEW p \in Procs,
             UploadAsset(p) \/ CacheSet(p) \/ CacheDel(p) \/ EnqueueScreenshot(p)
      PROVE  ObjectInv'
  <2>1. /\ Busy(p) /\ Head(proc[p].todo) \in {"asset", "cacheSet", "cacheDel", "enqueue"}
        /\ UNCHANGED <<row, object, versions, vobject>> /\ Proceeds(p)
    BY <1>8 DEF UploadAsset, CacheSet, CacheDel, EnqueueScreenshot, At, Busy
  <2>2. Head(proc[p].todo) \notin Reads \cup Writes
    BY <2>1 DEF Reads, Writes
  <2>3. RowHasObject'
    BY <1>3, <2>1 DEF RowHasObject
  <2> QED BY <1>1, <2>1, <2>2, <2>3, CallDone DEF Proceeds
<1>9. ASSUME NEW q \in Requests, LatestVersionNumber(q) \/ CacheWriteFails(q) PROVE ObjectInv'
  <2>1. /\ Busy(q) /\ Head(proc[q].todo) \in {"latest", "cacheSet", "cacheDel"}
        /\ UNCHANGED <<row, object, versions, vobject>>
    BY <1>9 DEF LatestVersionNumber, CacheWriteFails, At, Busy
  <2>2. Head(proc[q].todo) \notin Reads \cup Writes
    BY <2>1 DEF Reads, Writes
  <2>3. RowHasObject'
    BY <1>3, <2>1 DEF RowHasObject
  <2>4. PICK n : Goes(q, Tail(proc[q].todo), proc[q].content, proc[q].hash, proc[q].copy, n)
    BY <1>9 DEF LatestVersionNumber, CacheWriteFails, Proceeds
  <2> QED BY <1>0, <1>1, <2>1, <2>2, <2>3, <2>4, CallDone
<1>10. ASSUME NEW q \in Requests, RequestAborts(q) PROVE ObjectInv'
  BY <1>0, <1>3, <1>10, CallsOver DEF RequestAborts, Ends, Busy, RowHasObject
<1>11. ASSUME NEW w \in Workers, GenerateFails(w) \/ WorkerStops(w) PROVE ObjectInv'
  <2>1. Busy(w) /\ UNCHANGED <<object, versions, vobject>> /\ Ends(w)
    BY <1>11 DEF GenerateFails, WorkerStops
  <2>2. row.state # "absent" <=> row'.state # "absent"
    BY <1>11 DEF GenerateFails, WorkerStops, SetStatus, Live, TypeOK, Row
  <2>3. RowHasObject'
    BY <1>3, <2>1, <2>2 DEF RowHasObject
  <2> QED BY <1>0, <2>1, <2>2, <2>3, CallsOver DEF Ends, Busy
<1>12. ASSUME NEW w \in Workers, DequeueScreenshot(w) PROVE ObjectInv'
  <2>1. proc' = [proc EXCEPT ![w] = NewProc("screenshot", NoContent)]
        /\ UNCHANGED <<row, object, versions, vobject>> /\ w \notin Requests
    BY <1>12 DEF DequeueScreenshot
  <2>2. proc'[w].todo = ScreenshotSteps /\ proc'[w].copy.state = "live"
    BY <1>0, <2>1 DEF NewProc, Steps, TypeOK
  <2>3. WorkerOK(w)' /\ CopyOK(w)'
    BY <2>2 DEF WorkerOK, CopyOK, ScreenshotSteps, Writes
  <2>4. /\ \A i \in Requests \ {w} : RequestOK(i)'
        /\ \A i \in Workers \ {w} : WorkerOK(i)'
        /\ \A i \in Procs \ {w} : CopyOK(i)'
    BY <1>0, <2>1, OthersKeep
  <2>5. ASSUME NEW v \in versions PROVE VersionOK(v)'
    <3>1. VersionOK(v) /\ v.id \in Requests
      BY DEF ObjectInv, TypeOK, Version
    <3>2. proc'[v.id] = proc[v.id]
      BY <1>0, <2>1, <3>1 DEF TypeOK
    <3> QED BY <2>1, <3>1, <3>2 DEF VersionOK
  <2>6. RowHasObject'
    BY <1>3, <2>1 DEF RowHasObject
  <2> QED BY <2>1, <2>3, <2>4, <2>5, <2>6 DEF ObjectInv
<1>13. CASE DebounceElapses \/ CacheExpires \/ UNCHANGED vars
  <2>1. UNCHANGED <<row, object, versions, vobject, proc>>
    BY <1>13 DEF DebounceElapses, CacheExpires, vars
  <2> QED BY <2>1 DEF ObjectInv, RowHasObject, CopyOK, Busy, RequestOK, At, VersionOK, WorkerOK
<1>14. ASSUME NEW p \in Procs, proc[p].todo # <<>>, p \in Requests
      PROVE  /\ proc[p].todo \in Seq(StepNames) /\ Tail(proc[p].todo) \in Seq(StepNames)
             /\ proc[p].todo[1] = Head(proc[p].todo)
             /\ Len(Tail(proc[p].todo)) = Len(proc[p].todo) - 1
             /\ \A i \in 1..Len(Tail(proc[p].todo)) :
                   Tail(proc[p].todo)[i] = proc[p].todo[i + 1] /\ i + 1 \in 1..Len(proc[p].todo)
             /\ RowAfterObject(proc[p].todo) /\ RowAfterObject(Tail(proc[p].todo))
             /\ CacheOnlyRead(proc[p].todo) /\ CacheOnlyRead(Tail(proc[p].todo))
             /\ NoRead(proc[p].op, proc[p].todo) /\ NoRead(proc[p].op, Tail(proc[p].todo))
             /\ HoldsWhatItStores(proc[p].todo, proc[p].content, proc[p].hash)
             /\ (\A i \in 1..Len(proc[p].todo) : proc[p].todo[i] # "vupload")
                   => \A i \in 1..Len(Tail(proc[p].todo)) : Tail(proc[p].todo)[i] # "vupload"
             /\ proc[p].op # "none" /\ proc[p].copy.state # "absent"
  <2> DEFINE t == proc[p].todo
  <2>1. t \in Seq(StepNames) /\ t # <<>>
    BY <1>14 DEF TypeOK, Proc
  <2>2. /\ Tail(t) \in Seq(StepNames) /\ t[1] = Head(t) /\ Len(Tail(t)) = Len(t) - 1
        /\ \A i \in 1..Len(Tail(t)) : Tail(t)[i] = t[i + 1] /\ i + 1 \in 1..Len(t)
    BY <2>1
  <2>3. RequestOK(p)
    BY <1>14 DEF ObjectInv
  <2>4. RowAfterObject(t) /\ RowAfterObject(Tail(t))
    BY <2>1, <2>3, TailInOrder DEF RequestOK
  <2>5. CacheOnlyRead(t) /\ CacheOnlyRead(Tail(t))
        /\ NoRead(proc[p].op, t) /\ NoRead(proc[p].op, Tail(t))
    BY <2>1, <2>3, TailHolds DEF RequestOK
  <2>6. (\A i \in 1..Len(t) : t[i] # "vupload") => \A i \in 1..Len(Tail(t)) : Tail(t)[i] # "vupload"
    BY <2>2
  <2>7. proc[p].copy.state # "absent" /\ proc[p].op # "none"
        /\ HoldsWhatItStores(t, proc[p].content, proc[p].hash)
    BY <1>1, <1>14, <2>3 DEF RequestOK, Busy
  <2> HIDE DEF t
  <2>8. QED BY <2>1, <2>2, <2>4, <2>5, <2>6, <2>7 DEF t
<1>15. ASSUME NEW p \in Procs, UploadContent(p) PROVE ObjectInv'
  <2> DEFINE t == proc[p].todo
             s == Tail(t)
             c == proc[p].content
             h == proc[p].hash
             r == [proc[p].copy EXCEPT !.hash = h]
  <2>1. /\ t # <<>> /\ Head(t) = "upload" /\ At(p, "upload") /\ object' = c
        /\ UNCHANGED <<row, versions, vobject>> /\ Goes(p, s, c, h, r, proc[p].num)
    BY <1>15 DEF UploadContent, At
  <2>2. p \in Requests /\ RequestOK(p) /\ p \notin Workers
    BY <1>2, <2>1 DEF ObjectInv
  <2>3. /\ s \in Seq(StepNames) /\ t \in Seq(StepNames) /\ Len(s) = Len(t) - 1
        /\ \A i \in 1..Len(s) : s[i] = t[i + 1] /\ i + 1 \in 1..Len(t)
        /\ t[1] = "upload" /\ RowAfterObject(t) /\ RowAfterObject(s) /\ CacheOnlyRead(s)
        /\ HoldsWhatItStores(t, c, h) /\ NoRead(proc[p].op, s)
        /\ (\A i \in 1..Len(t) : t[i] # "vupload") => \A i \in 1..Len(s) : s[i] # "vupload"
        /\ proc[p].op # "none" /\ proc[p].copy.state # "absent"
    BY <1>14, <2>1, <2>2
  <2>4. Whole(c, h)
    <3>1. 1 \in 1..Len(t) /\ t[1] \in Stores
      BY <2>1, <2>3 DEF Stores
    <3>2. ~ \E j \in 1..(1 - 1) : t[j] \in Reads
      OBVIOUS
    <3> HIDE DEF t, c, h
    <3> QED BY <2>3, <3>1, <3>2 DEF HoldsWhatItStores
  <2>5. HoldsWhatItStores(s, c, h) /\ object' # NoContent
    BY <2>1, <2>4 DEF HoldsWhatItStores, Whole
  <2>6. RowHasObject'
    BY <2>5 DEF RowHasObject
  <2>7. /\ proc'[p].todo = s /\ proc'[p].content = c
        /\ proc'[p].hash = h /\ proc'[p].op = proc[p].op
    BY <2>1 DEF Goes, TypeOK
  <2>8. s # <<>> => s[1] # "vinsert"
    <3> SUFFICES ASSUME s # <<>> PROVE s[1] # "vinsert"
      OBVIOUS
    <3>1. 2 \in 1..Len(t) /\ s[1] = t[2]
      BY <2>3
    <3> HIDE DEF s, t
    <3> QED BY <2>3, <3>1 DEF RowAfterObject
  <2>9. ~At(p, "vinsert")'
    BY <2>3, <2>7, <2>8 DEF At
  <2>10. RequestOK(p)'
    BY <2>1, <2>2, <2>3, <2>5, <2>7, <2>9 DEF RequestOK
  <2>11. r.state # "absent"
    BY <2>3 DEF TypeOK, Proc, Row
  <2>12. versions' = versions /\ vobject' = vobject /\ row' = row
    BY <2>1
  <2>13. PICK n : n = proc[p].num
    OBVIOUS
  <2> HIDE DEF s, t, c, h, r
  <2>14. Goes(p, s, c, h, r, n)
    BY <2>1, <2>13
  <2>15. (\A i \in 1..Len(proc[p].todo) : proc[p].todo[i] # "vupload")
              => \A i \in 1..Len(s) : s[i] # "vupload"
    BY <2>3 DEF t
  <2> QED BY <2>2, <2>3, <2>5, <2>6, <2>10, <2>11, <2>12, <2>14, <2>15, StepKeeps
<1>16. ASSUME NEW q \in Requests, UploadVersion(q) PROVE ObjectInv'
  <2> DEFINE t == proc[q].todo
             s == Tail(t)
             c == proc[q].content
             h == proc[q].hash
  <2>1. /\ t # <<>> /\ Head(t) = "vupload" /\ vobject' = [vobject EXCEPT ![q] = c]
        /\ UNCHANGED <<row, versions, object>> /\ Proceeds(q)
    BY <1>16 DEF UploadVersion, At
  <2>2. RequestOK(q) /\ q \notin Workers /\ q \in Procs
    BY <1>0 DEF ObjectInv
  <2>3. /\ s \in Seq(StepNames) /\ t \in Seq(StepNames) /\ Len(s) = Len(t) - 1
        /\ \A i \in 1..Len(s) : s[i] = t[i + 1] /\ i + 1 \in 1..Len(t)
        /\ t[1] = "vupload" /\ RowAfterObject(t) /\ RowAfterObject(s) /\ CacheOnlyRead(s)
        /\ HoldsWhatItStores(t, c, h) /\ NoRead(proc[q].op, s)
        /\ proc[q].op # "none" /\ proc[q].copy.state # "absent"
    BY <1>14, <2>1, <2>2
  <2>4. Whole(c, h)
    <3>1. 1 \in 1..Len(t) /\ t[1] \in Stores
      BY <2>1, <2>3 DEF Stores
    <3>2. ~ \E j \in 1..(1 - 1) : t[j] \in Reads
      OBVIOUS
    <3> HIDE DEF t, c, h
    <3> QED BY <2>3, <3>1, <3>2 DEF HoldsWhatItStores
  <2>5. HoldsWhatItStores(s, c, h)
    BY <2>4 DEF HoldsWhatItStores
  <2>6. RowHasObject'
    BY <1>3, <2>1 DEF RowHasObject
  <2>7. /\ proc'[q].todo = s /\ proc'[q].content = c /\ proc'[q].copy = proc[q].copy
        /\ proc'[q].hash = h /\ proc'[q].op = proc[q].op /\ vobject'[q] = c
        /\ \A i \in Procs \ {q} : proc'[i] = proc[i]
        /\ \A i \in Requests \ {q} : vobject'[i] = vobject[i]
    BY <2>1, <2>2 DEF Proceeds, Goes, TypeOK
  <2>8. s # <<>> => s[1] # "insert"
    <3> SUFFICES ASSUME s # <<>> PROVE s[1] # "insert"
      OBVIOUS
    <3>1. 2 \in 1..Len(t) /\ s[1] = t[2]
      BY <2>3
    <3> HIDE DEF s, t
    <3> QED BY <2>3, <3>1 DEF RowAfterObject
  <2>9. ~At(q, "insert")'
    BY <2>3, <2>7, <2>8 DEF At
  <2>10. RequestOK(q)' /\ CopyOK(q)'
    BY <2>1, <2>2, <2>3, <2>4, <2>5, <2>7, <2>9 DEF RequestOK, CopyOK
  <2>11. PICK x : proc' = [proc EXCEPT ![q] = x]
    BY <2>1 DEF Proceeds, Goes
  <2>12. /\ \A i \in Requests \ {q} : RequestOK(i)'
         /\ \A i \in Workers \ {q} : WorkerOK(i)'
         /\ \A i \in Procs \ {q} : CopyOK(i)'
    BY <2>1, <2>2, <2>7, <2>11, OthersKeep
  <2>13. ASSUME NEW v \in versions PROVE VersionOK(v)'
    <3>1. VersionOK(v) /\ v.id \in Requests
      BY DEF ObjectInv, TypeOK, Version
    <3>2. v.id # q
      BY <2>3, <3>1 DEF VersionOK
    <3>3. proc'[v.id] = proc[v.id] /\ vobject'[v.id] = vobject[v.id]
      BY <1>0, <2>7, <3>1, <3>2
    <3> QED BY <3>1, <3>3 DEF VersionOK
  <2> QED BY <2>1, <2>2, <2>6, <2>10, <2>12, <2>13 DEF ObjectInv
<1>17. ASSUME NEW q \in Requests, GetDiagramVersion(q) PROVE ObjectInv'
  <2>1. /\ proc[q].todo # <<>> /\ Head(proc[q].todo) \in Reads
        /\ UNCHANGED <<row, object, versions, vobject>> /\ RowHasObject'
    BY <1>3, <1>17 DEF GetDiagramVersion, At, Reads, RowHasObject
  <2>2. CASE Ends(q)
    BY <1>0, <2>1, <2>2, CallsOver DEF Ends
  <2>3. ASSUME NEW v \in versions,
               Goes(q, Tail(proc[q].todo), vobject[v.id], v.hash, proc[q].copy, 1)
        PROVE  ObjectInv'
    <3>1. Whole(vobject[v.id], v.hash)
      BY DEF ObjectInv, VersionOK
    <3>2. PICK c, h : c = vobject[v.id] /\ h = v.hash
      OBVIOUS
    <3>3. Whole(c, h) /\ Goes(q, Tail(proc[q].todo), c, h, proc[q].copy, 1)
      BY <2>3, <3>1, <3>2
    <3> QED BY <1>0, <2>1, <3>3, ReadDone
  <2> QED BY <1>17, <2>2, <2>3 DEF GetDiagramVersion
<1>18. ASSUME NEW p \in Procs, NEW c, c # NoContent, proc[p].todo # <<>>,
              Head(proc[p].todo) \in {"cacheGet", "download"}
       PROVE  \/ p \in Workers \/ Whole(c, proc[p].hash)
              \/ \A i \in 1..Len(proc[p].todo) : proc[p].todo[i] \notin Writes
  <2> SUFFICES ASSUME p \in Requests, ~Manual
               PROVE  \A i \in 1..Len(proc[p].todo) : proc[p].todo[i] \notin Writes
    BY <1>18 DEF Procs, Whole
  <2>1. CacheOnlyRead(proc[p].todo) /\ proc[p].todo[1] = Head(proc[p].todo)
        /\ 1 \in 1..Len(proc[p].todo)
    BY <1>14, <1>18
  <2> QED BY <1>18, <2>1 DEF CacheOnlyRead
<1>19. ASSUME NEW p \in Procs, DownloadContent(p) PROVE ObjectInv'
  <2>1. /\ proc[p].todo # <<>> /\ Head(proc[p].todo) = "download"
        /\ UNCHANGED <<row, object, versions, vobject>>
        /\ Goes(p, Tail(proc[p].todo), object, proc[p].hash, proc[p].copy, proc[p].num)
    BY <1>19 DEF DownloadContent, At
  <2>2. p \in Workers \/ object # NoContent
    <3> SUFFICES ASSUME p \in Requests PROVE object # NoContent
      BY DEF Procs
    <3>1. NoRead(proc[p].op, proc[p].todo) /\ proc[p].todo[1] = "download"
          /\ 1 \in 1..Len(proc[p].todo) /\ proc[p].op # "none"
      BY <1>14, <2>1
    <3>2. proc[p].op \notin CreateOps
      BY <3>1 DEF NoRead, Reads
    <3>3. row.state # "absent"
      BY <3>1, <3>2 DEF ObjectInv, RequestOK
    <3> QED BY <1>3, <3>3 DEF RowHasObject
  <2>3. PICK c, h, n : c = object /\ h = proc[p].hash /\ n = proc[p].num
    OBVIOUS
  <2>4. \/ p \in Workers \/ Whole(c, h)
        \/ \A i \in 1..Len(proc[p].todo) : proc[p].todo[i] \notin Writes
    BY <1>18, <2>1, <2>2, <2>3
  <2>5. Goes(p, Tail(proc[p].todo), c, h, proc[p].copy, n) /\ Head(proc[p].todo) \in Reads
    BY <2>1, <2>3 DEF Reads
  <2> QED BY <2>1, <2>4, <2>5, ReadDone
<1>20. ASSUME NEW p \in Procs, CacheGet(p) PROVE ObjectInv'
  <2>1. /\ proc[p].todo # <<>> /\ Head(proc[p].todo) = "cacheGet"
        /\ UNCHANGED <<row, object, versions, vobject>>
    BY <1>20 DEF CacheGet, At
  <2>2. CASE cache # NoContent
    <3>1. PICK c, h, n : c = cache /\ h = proc[p].hash /\ n = proc[p].num
      OBVIOUS
    <3>2. \/ p \in Workers \/ Whole(c, h)
          \/ \A i \in 1..Len(proc[p].todo) : proc[p].todo[i] \notin Writes
      BY <1>18, <2>1, <2>2, <3>1
    <3>3. Goes(p, Tail(proc[p].todo), c, h, proc[p].copy, n) /\ Head(proc[p].todo) \in Reads
      BY <1>20, <2>1, <2>2, <3>1 DEF Reads, CacheGet
    <3> QED BY <2>1, <3>2, <3>3, ReadDone
  <2>3. CASE cache = NoContent
    <3> DEFINE t == proc[p].todo
               c == proc[p].content
               h == proc[p].hash
               u == MissSteps(proc[p].op) \o Tail(t)
    <3>1. Goes(p, u, c, h, proc[p].copy, proc[p].num)
      BY <1>20, <2>3 DEF CacheGet
    <3>2. t \in Seq(StepNames) /\ Tail(t) \in Seq(StepNames) /\ u \in Seq(StepNames)
      <4>1. t \in Seq(StepNames) /\ Tail(t) \in Seq(StepNames)
        BY <2>1 DEF TypeOK, Proc
      <4> HIDE DEF t
      <4> QED BY <4>1, MissType
    <3>3. /\ RowAfterObject(t) => RowAfterObject(u)
          /\ CacheOnlyRead(t) => CacheOnlyRead(u)
          /\ NoRead(proc[p].op, t) => NoRead(proc[p].op, u)
          /\ HoldsWhatItStores(u, c, h)
          /\ u # <<>> /\ Head(u) \in {"get", "download"}
          /\ \A x \in Writes : (\A i \in 1..Len(t) : t[i] # x) => \A i \in 1..Len(u) : u[i] # x
      BY <2>1, <3>2, MissHolds
    <3>4. /\ proc'[p].todo = u /\ proc'[p].content = c /\ proc'[p].hash = h
          /\ proc'[p].op = proc[p].op
      BY <3>1 DEF Goes, TypeOK
    <3> HIDE DEF u
    <3>5. ASSUME p \in Requests PROVE RequestOK(p)'
      <4>1. RequestOK(p) /\ proc[p].op # "none"
        BY <1>14, <2>1, <3>5 DEF ObjectInv
      <4>2. ~At(p, "insert")' /\ ~At(p, "vinsert")'
        BY <3>3, <3>4 DEF At
      <4> QED BY <2>1, <3>3, <3>4, <4>1, <4>2 DEF RequestOK
    <3>6. ASSUME p \in Workers PROVE WorkerOK(p)'
      <4>1. WorkerOK(p)
        BY <3>6 DEF ObjectInv
      <4>2. \A x \in Writes : \A i \in 1..Len(u) : u[i] # x
        BY <3>3, <4>1 DEF WorkerOK
      <4> QED BY <3>4, <4>2 DEF WorkerOK
    <3>7. (\A i \in 1..Len(t) : t[i] # "vupload") => \A i \in 1..Len(u) : u[i] # "vupload"
      BY <3>3 DEF Writes
    <3>8. proc[p].copy.state # "absent" /\ RowHasObject'
      BY <1>1, <1>3, <2>1 DEF Busy, RowHasObject
    <3> HIDE DEF c, h
    <3>9. PICK r, n : r = proc[p].copy /\ n = proc[p].num
      OBVIOUS
    <3>10. Goes(p, u, c, h, r, n) /\ r.state # "absent"
      BY <3>1, <3>8, <3>9
    <3> QED BY <2>1, <3>2, <3>5, <3>6, <3>7, <3>8, <3>10, StepKeeps
  <2> QED BY <2>2, <2>3
<1>21. ASSUME NEW q \in Requests, CreateDiagramVersion(q) PROVE ObjectInv'
  <2> DEFINE t == proc[q].todo
             s == Tail(t)
             c == proc[q].content
             h == proc[q].hash
             new == [id |-> q, number |-> proc[q].num, hash |-> h]
  <2>1. /\ t # <<>> /\ Head(t) = "vinsert" /\ At(q, "vinsert")
        /\ versions' = versions \/ versions' = versions \cup {new}
        /\ UNCHANGED <<row, object, vobject>> /\ Proceeds(q)
    BY <1>21 DEF CreateDiagramVersion, At
  <2>2. RequestOK(q) /\ q \notin Workers /\ q \in Procs
    BY <1>0 DEF ObjectInv
  <2>3. /\ s \in Seq(StepNames) /\ t \in Seq(StepNames) /\ Len(s) = Len(t) - 1
        /\ \A i \in 1..Len(s) : s[i] = t[i + 1] /\ i + 1 \in 1..Len(t)
        /\ t[1] = "vinsert" /\ RowAfterObject(t) /\ RowAfterObject(s) /\ CacheOnlyRead(s)
        /\ HoldsWhatItStores(t, c, h) /\ NoRead(proc[q].op, s)
        /\ proc[q].op # "none" /\ proc[q].copy.state # "absent"
    BY <1>14, <2>1, <2>2
  <2>4. Whole(c, h) /\ vobject[q] = c
    BY <2>1, <2>2 DEF RequestOK
  <2>5. HoldsWhatItStores(s, c, h)
    BY <2>4 DEF HoldsWhatItStores
  <2>6. RowHasObject'
    BY <1>3, <2>1 DEF RowHasObject
  <2>7. /\ proc'[q].todo = s /\ proc'[q].content = c /\ proc'[q].copy = proc[q].copy
        /\ proc'[q].hash = h /\ proc'[q].op = proc[q].op
        /\ \A i \in Procs \ {q} : proc'[i] = proc[i]
    BY <2>1, <2>2 DEF Proceeds, Goes, TypeOK
  <2>8. s # <<>> => s[1] # "insert" /\ s[1] # "vinsert"
    <3> SUFFICES ASSUME s # <<>> PROVE s[1] # "insert" /\ s[1] # "vinsert"
      OBVIOUS
    <3>1. 2 \in 1..Len(t) /\ s[1] = t[2]
      BY <2>3
    <3> HIDE DEF s, t
    <3> QED BY <2>3, <3>1 DEF RowAfterObject
  <2>9. ~At(q, "insert")' /\ ~At(q, "vinsert")'
    BY <2>3, <2>7, <2>8 DEF At
  <2>10. RequestOK(q)' /\ CopyOK(q)'
    BY <2>1, <2>2, <2>3, <2>5, <2>7, <2>9 DEF RequestOK, CopyOK
  <2>11. PICK x : proc' = [proc EXCEPT ![q] = x]
    BY <2>1 DEF Proceeds, Goes
  <2>12. /\ \A i \in Requests \ {q} : RequestOK(i)'
         /\ \A i \in Workers \ {q} : WorkerOK(i)'
         /\ \A i \in Procs \ {q} : CopyOK(i)'
    BY <2>1, <2>2, <2>11, OthersKeep
  <2>13. \A i \in 1..Len(s) : s[i] # "vupload"
    <3>1. \A i \in 1..Len(s) : 1 \in 1..Len(t) /\ i + 1 \in 1..Len(t) /\ 1 < i + 1 /\ s[i] = t[i + 1]
      BY <2>3
    <3> HIDE DEF s, t
    <3> QED BY <2>3, <3>1 DEF RowAfterObject
  <2>14. ASSUME NEW v \in versions PROVE VersionOK(v)'
    <3>1. VersionOK(v) /\ v.id \in Requests
      BY DEF ObjectInv, TypeOK, Version
    <3>2. CASE v.id = q
      BY <2>1, <2>7, <2>13, <3>1, <3>2 DEF VersionOK
    <3>3. CASE v.id # q
      <4>1. proc'[v.id] = proc[v.id] /\ vobject'[v.id] = vobject[v.id]
        BY <1>0, <2>1, <2>7, <3>1, <3>3
      <4> QED BY <3>1, <4>1 DEF VersionOK
    <3> QED BY <3>2, <3>3
  <2>15. PICK w : w = new
    OBVIOUS
  <2>16. ASSUME versions' = versions \cup {w} PROVE VersionOK(w)'
    <3>1. w.id = q /\ w.hash = h
      BY <2>15
    <3>2. vobject'[q] = c /\ Whole(vobject'[q], w.hash)
      BY <2>1, <2>4, <3>1
    <3> HIDE DEF new, s
    <3> QED BY <2>3, <2>7, <2>13, <3>1, <3>2 DEF VersionOK, Whole
  <2>17. \A v \in versions' : VersionOK(v)'
    <3>1. versions' = versions \/ versions' = versions \cup {w}
      BY <2>1, <2>15
    <3> HIDE DEF new, s, t
    <3> QED BY <2>14, <2>16, <3>1
  <2> QED BY <2>2, <2>6, <2>10, <2>12, <2>17 DEF ObjectInv
<1>22. ASSUME NEW q \in Requests, VersionUploadFails(q) PROVE ObjectInv'
  <2> DEFINE t == proc[q].todo
             s == SubSeq(t, 3, Len(t))
             c == proc[q].content
             h == proc[q].hash
  <2>1. /\ t # <<>> /\ Head(t) = "vupload"
        /\ UNCHANGED <<row, object, versions, vobject>>
        /\ Goes(q, s, c, h, proc[q].copy, proc[q].num)
    BY <1>22 DEF VersionUploadFails, At
  <2>2. RequestOK(q) /\ q \notin Workers /\ q \in Procs
    BY <1>0 DEF ObjectInv
  <2>3. /\ t \in Seq(StepNames) /\ t[1] = "vupload" /\ RowAfterObject(t) /\ CacheOnlyRead(t)
        /\ HoldsWhatItStores(t, c, h) /\ NoRead(proc[q].op, t)
        /\ proc[q].op # "none" /\ proc[q].copy.state # "absent"
    BY <1>14, <2>1, <2>2
  <2>4. Whole(c, h)
    <3>1. 1 \in 1..Len(t) /\ t[1] \in Stores
      BY <2>1, <2>3 DEF Stores
    <3>2. ~ \E j \in 1..(1 - 1) : t[j] \in Reads
      OBVIOUS
    <3> HIDE DEF t, c, h
    <3> QED BY <2>3, <3>1, <3>2 DEF HoldsWhatItStores
  <2>5. 1 < Len(t) /\ t[2] = "vinsert"
    <3>1. 1 \in 1..Len(t)
      BY <2>1, <2>3
    <3> HIDE DEF t
    <3> QED BY <2>3, <3>1 DEF RowAfterObject
  <2>6. /\ s \in Seq(StepNames) /\ Len(s) = Len(t) - 2
        /\ \A i \in 1..Len(s) : s[i] = t[i + 2] /\ i + 2 \in 1..Len(t)
    BY <2>3, <2>5
  <2> HIDE DEF s, t, c, h
  <2>7. RowAfterObject(s) /\ (\A i \in 1..Len(s) : s[i] # "vupload")
        /\ (s # <<>> => s[1] # "insert" /\ s[1] # "vinsert")
    <3>1. Len(t) \in Nat /\ Len(s) \in Nat
      BY <2>3, <2>6
    <3>2. 2 \in 1..Len(t)
      BY <2>5, <3>1
    <3>3. \A i \in 1..Len(s) : 2 < i + 2 /\ s[i] = t[i + 2] /\ i + 2 \in 1..Len(t)
      BY <2>6, <3>1
    <3>4. \A i \in 1..Len(s) : s[i] # "vupload"
      BY <2>3, <2>5, <3>2, <3>3 DEF RowAfterObject
    <3>5. \A i \in 1..Len(s) : t[i + 1] = "vupload" => FALSE
      <4> SUFFICES ASSUME NEW i \in 1..Len(s), t[i + 1] = "vupload" PROVE FALSE
        OBVIOUS
      <4>1. i + 1 \in 1..Len(t) /\ i \in Nat
        BY <3>1, <3>3
      <4>2. i = 1 \/ (2 < i + 1)
        BY <4>1
      <4> QED BY <2>3, <2>5, <3>2, <4>1, <4>2 DEF RowAfterObject
    <3>6. \A i \in 1..Len(s) : s[i] # "vinsert"
      <4> SUFFICES ASSUME NEW i \in 1..Len(s), s[i] = "vinsert" PROVE FALSE
        OBVIOUS
      <4>1. i + 2 \in 1..Len(t) /\ t[i + 2] = "vinsert" /\ (i + 2) - 1 = i + 1 /\ i + 2 # 1
        BY <3>3
      <4>2. t[i + 1] = "vupload"
        BY <2>3, <4>1 DEF RowAfterObject
      <4> QED BY <3>5, <4>2
    <3>7. ASSUME NEW i \in 1..Len(s), s[i] = "insert" PROVE i # 1 /\ s[i - 1] = "upload"
      <4>1. i + 2 \in 1..Len(t) /\ t[i + 2] = "insert" /\ (i + 2) - 1 = i + 1 /\ i + 2 # 1
        BY <3>3, <3>7
      <4>2. t[i + 1] = "upload"
        BY <2>3, <4>1 DEF RowAfterObject
      <4>3. i # 1
        BY <2>5, <4>2
      <4>4. i - 1 \in 1..Len(s) /\ (i - 1) + 2 = i + 1
        BY <3>1, <4>3
      <4> QED BY <3>3, <4>2, <4>3, <4>4
    <3>8. s # <<>> => 1 \in 1..Len(s)
      BY <2>6
    <3> QED BY <3>4, <3>6, <3>7, <3>8 DEF RowAfterObject
  <2>8. CacheOnlyRead(s) /\ NoRead(proc[q].op, s)
    BY <2>3, <2>6 DEF CacheOnlyRead, NoRead
  <2>9. HoldsWhatItStores(s, c, h) /\ RowHasObject'
    BY <1>3, <2>1, <2>4 DEF HoldsWhatItStores, RowHasObject
  <2>10. /\ proc'[q].todo = s /\ proc'[q].content = c /\ proc'[q].hash = h
         /\ proc'[q].op = proc[q].op
    BY <2>1, <2>2 DEF Goes, TypeOK
  <2>11. ~At(q, "insert")' /\ ~At(q, "vinsert")'
    BY <2>6, <2>7, <2>10 DEF At
  <2>12. RequestOK(q)'
    BY <2>1, <2>2, <2>3, <2>7, <2>8, <2>9, <2>10, <2>11 DEF RequestOK
  <2>13. PICK r, n : r = proc[q].copy /\ n = proc[q].num
    OBVIOUS
  <2>14. Goes(q, s, c, h, r, n) /\ r.state # "absent"
    BY <2>1, <2>3, <2>13
  <2> QED BY <2>1, <2>2, <2>6, <2>7, <2>9, <2>12, <2>14, StepKeeps
<1> QED
  BY <1>4, <1>5, <1>6, <1>7, <1>8, <1>9, <1>10, <1>11, <1>12, <1>13, <1>15, <1>16,
     <1>17, <1>19, <1>20, <1>21, <1>22
     DEF Next, Step, RowStep, VersionStep, OtherStep

\* Nothing is stored or named at first.
LEMMA InitObjects == Init => ObjectInv
<1> SUFFICES ASSUME Init PROVE ObjectInv
  OBVIOUS
<1>1. \A p \in Procs : proc[p] = NoProc /\ proc[p].todo = <<>> /\ proc[p].op = "none"
  BY DEF Init, NoProc
<1>2. RowHasObject /\ versions = {}
  BY DEF Init, NoRow, RowHasObject
<1>3. \A p \in Procs : CopyOK(p)
  BY <1>1 DEF CopyOK, Busy
<1>4. \A w \in Workers : WorkerOK(w)
  BY <1>1 DEF WorkerOK, Procs
<1>5. ASSUME NEW q \in Requests PROVE RequestOK(q)
  <2>1. proc[q].todo = <<>> /\ proc[q].op = "none"
    BY <1>1 DEF Procs
  <2>2. ~At(q, "insert") /\ ~At(q, "vinsert")
    BY <2>1 DEF At
  <2>3. RowAfterObject(<<>>) /\ CacheOnlyRead(<<>>) /\ NoRead("none", <<>>)
        /\ HoldsWhatItStores(<<>>, proc[q].content, proc[q].hash)
    BY DEF RowAfterObject, CacheOnlyRead, NoRead, HoldsWhatItStores
  <2> QED BY <2>1, <2>2, <2>3 DEF RequestOK
<1> QED BY <1>2, <1>3, <1>4, <1>5 DEF ObjectInv

\* The object of a version that is there.
VersionHasObject == \A v \in versions : vobject[v.id] # NoContent

\* Whatever the operations are and wherever they are cut short, the row of a
\* diagram has its content in the object store, and every version row an
\* object: Create uploads before it inserts, and so does every version.
THEOREM RowsHaveObjects == Spec => [](RowHasObject /\ VersionHasObject)
<1>1. ObjectInv => RowHasObject /\ VersionHasObject
  BY DEF ObjectInv, VersionHasObject, VersionOK, Whole
<1> QED BY <1>1, InitType, NextType, InitObjects, NextObjects, PTL DEF Spec

\* Without manual versions, what the object store has for a version is also the
\* content whose hash the version row names (CreateVersion pairs the hash of
\* the row with content it reads later, and is the one exception).
THEOREM SnapshotsStored ==
    ASSUME "createVersion" \notin Ops
    PROVE  Spec => []ObjectsStored
<1>1. TypeOK /\ ObjectInv => ObjectsStored
  <2> SUFFICES ASSUME TypeOK, ObjectInv PROVE ObjectsStored
    OBVIOUS
  <2>1. ASSUME NEW v \in versions PROVE vobject[v.id] = v.hash /\ v.hash # NoContent
    BY DEF ObjectInv, VersionOK, Whole, Manual
  <2> QED BY <2>1 DEF ObjectInv, ObjectsStored, SnapshotIntact
<1> QED BY <1>1, InitType, NextType, InitObjects, NextObjects, PTL DEF Spec
==============================================================================
