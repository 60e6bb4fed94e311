--------------------------- MODULE ContentProofs ---------------------------
(***************************************************************************)
(* Theorems about Content, for every set of requests, references, contents *)
(* of screenshots and workloads, whatever overlaps or fails; and, in the   *)
(* second part, about requests that neither overlap nor fail.              *)
(*                                                                         *)
(* The handlers have some hundred lists of calls and the invariants do not *)
(* follow them one by one.  A call has a rank (look, prepare, write, tidy  *)
(* up) and every list is in the order of the ranks; what a request may     *)
(* rely on depends on the calls it has left, as a set.                     *)
(***************************************************************************)
EXTENDS Content, FiniteSetTheorems, WellFoundedInduction, TLAPS

(***************************************************************************)
(* Calls, and lists of calls.                                              *)
(***************************************************************************)
AllCalls == Verbs \X (Tables \cup {"component", "agent"})
RowCalls == (Verbs \ {"getStatus", "deploy"}) \X Tables
NumberCalls == Verbs \X {"component", "agent"}
DeployCalls == {"getStatus", "deploy"} \X {"version"}

Looks == {"count", "get", "getManual", "getTags", "getCanvas", "ensure", "ensureIf",
          "getComponent", "load", "getStatus"}
Prepares == {"resolve", "store", "upload", "message", "slug", "number"}

Rank(v) ==
    IF v \in Looks THEN 1
    ELSE IF v \in Prepares THEN 2
    ELSE IF v = "dropOld" THEN 3
    ELSE IF v \in {"firstVersion", "dropFile", "clearFields"} THEN 5
    ELSE IF v \in {"insertFields", "delete"} THEN 6 ELSE 4

\* A call of rank r may be followed by one of rank s.
Precedes(r, s) == r < s \/ (r = 1 /\ s = 1)

Ordered(s) ==
    \A i, j \in 1..Len(s) : i < j => Precedes(Rank(s[i][1]), Rank(s[j][1]))

CallsOf(s) == {s[n] : n \in 1..Len(s)}
Left(q) == CallsOf(proc[q].todo)

Listed(s) == s \in Seq(AllCalls) /\ Ordered(s)

(***************************************************************************)
(* What a request knows.                                                   *)
(***************************************************************************)
Getters == {"get", "getManual", "getTags", "getCanvas"}

\* The calls that use the row that was read.
Uses == {"save", "saveAll", "upsert", "saveProject", "saveExperiment", "saveFinding", "dropOld",
         "dropFile"}

\* The calls that make a row, and the table of that row.
Makers == {"insert", "firstVersion", "createProject", "sync", "syncEvent"}
Made(c) == IF c[1] = "firstVersion" THEN "version" ELSE c[2]

\* The operations that may write to rows that are deleted.
Revivers == {"syncProjects", "createProject", "restoreProjects", "syncModels", "syncVersions",
             "syncExperiments", "syncRuns", "syncArtifacts", "syncDatasets", "syncEvaluations"}

FrameCalls == {"resolve", "insert", "save", "saveAll"} \X {"frame"}

\* All calls but the checks of other rows are about one table.
OneTable(L) ==
    /\ \E t \in Tables : \A c \in L : c[1] \notin {"ensure", "ensureIf"} => c[2] = t
    /\ \A c \in L : c[1] = "firstVersion" => c[2] = "model"

LiveRow == {r \in Row : r.state = "live"}

HeldKnown(L, m) ==
    (\E c \in L : c[1] \in Uses) => m.held \in LiveRow \/ \E g \in L : g[1] \in Getters

NewRowKnown(q, L, m) ==
    \A c \in L :
        /\ c[1] = "insert" => m.id = q
        /\ c[1] \in Makers => <<Made(c), q>> \notin DOMAIN rows
        /\ c[1] \in {"insert", "firstVersion"} => m.ref = Null
        /\ c[1] \in {"createProject", "sync", "syncEvent", "restore"} => m.ref \in Refs
        /\ c[1] \in {"createProject", "sync", "restore"} => Op(q) \in Revivers

FrameKnown(L, m) ==
    L \cap FrameCalls # {} =>
        /\ m.file \in Shots \cup {Asset, Null}
        /\ m.file \in Shots => <<"resolve", "frame">> \in L \/ <<"frame", m.id>> \in DOMAIN files
        /\ m.held # Null /\ m.held.file \in Shots => <<"frame", m.id>> \in DOMAIN files

ArtifactKnown(q, L, m) ==
    /\ <<"insert", "artifact">> \in L =>
         \/ m.file = Null
         \/ m.file = q /\ (<<"upload", "artifact">> \in L \/ <<"artifact", q>> \in DOMAIN files)
    /\ <<"save", "artifact">> \in L \/ <<"sync", "artifact">> \in L => m.file = Null
    /\ <<"dropFile", "artifact">> \in L =>
         /\ m.held # Null => m.held.file \in {Null, m.id} /\ <<"artifact", m.id>> \in DOMAIN rows
         /\ \/ <<"remove", "artifact">> \in L
            \/ <<"artifact", m.id>> \in DOMAIN rows /\ ~Live("artifact", m.id)

RowKnown(q, L, m) ==
    /\ m \in RowMemory /\ L \subseteq RowCalls /\ OneTable(L)
    /\ HeldKnown(L, m) /\ NewRowKnown(q, L, m) /\ FrameKnown(L, m) /\ ArtifactKnown(q, L, m)

NumberKnown(q, L, m) ==
    /\ m \in NumberMemory /\ L \subseteq NumberCalls /\ (\A c, d \in L : c[2] = d[2])
    /\ <<"create", "agent">> \in L => agents[q] = Null
    /\ <<"insertStep", "agent">> \in L =>
         \/ <<"number", "agent">> \in L
         \/ m.number = 1 \/ m.number - 1 \in StepsOf(m.id)

DeployKnown(L, m) ==
    /\ m \in DeployMemory /\ L \subseteq DeployCalls
    /\ <<"deploy", "version">> \in L => <<"getStatus", "version">> \in L \/ m.from \in Statuses

Knows(q) ==
    /\ Listed(proc[q].todo)
    /\ Op(q) = "none" => /\ Left(q) = {} /\ agents[q] = Null
                         /\ \A t \in Tables : <<t, q>> \notin DOMAIN rows
    /\ \/ Left(q) = {}
       \/ RowKnown(q, Left(q), Mem(q))
       \/ NumberKnown(q, Left(q), Mem(q))
       \/ DeployKnown(Left(q), Mem(q))

(***************************************************************************)
(* What the tables keep.                                                   *)
(***************************************************************************)
RefTables == MlTables \cup {"event"}

RowOK(k) ==
    /\ k[1] = "frame" /\ rows[k].file \in Shots => k \in DOMAIN files
    /\ k[1] = "artifact" => /\ rows[k].file \in {Null, k[2]}
                            /\ rows[k].state = "live" /\ rows[k].file # Null => k \in DOMAIN files
    /\ k[1] \in {"event", "canvas"} => rows[k].state = "live"

OneRefEach ==
    \A t \in RefTables, i, j \in RowIds :
        (/\ <<t, i>> \in DOMAIN rows /\ <<t, j>> \in DOMAIN rows
         /\ rows[<<t, i>>].ref = rows[<<t, j>>].ref /\ rows[<<t, i>>].ref # Null) => i = j

RowsInv == (\A k \in DOMAIN rows : RowOK(k)) /\ OneRefEach

StepRows(i) == {s \in agentSteps : s.session = i}

NotesInv ==
    /\ SlugsDiffer /\ IsFiniteSet(DOMAIN comps)
    /\ \A i \in RowIds : IsFiniteSet(StepRows(i)) /\ StepsOf(i) = 1..Cardinality(StepRows(i))

ProcType == ReqsType(ContentOps, AllCalls, RowMemory \cup DeployMemory \cup NumberMemory)
OtherType == failedOpen \in BOOLEAN /\ deployments \in [RowIds -> Seq([from : Statuses, to : Statuses])]

ContentInv ==
    /\ ProcType /\ RowsTypeOK(Tables) /\ NotesTypeOK /\ OtherType
    /\ RowsInv /\ NotesInv
    /\ \A q \in Requests : Knows(q)

(***************************************************************************)
(* Moving on.                                                              *)
(***************************************************************************)
\* The calls after the first are the others, and come after it.
LEMMA TailCalls ==
    ASSUME NEW s, Listed(s), s # <<>>
    PROVE  /\ Listed(Tail(s)) /\ Head(s) \in CallsOf(s) /\ Head(s) \in AllCalls
           /\ CallsOf(Tail(s)) \subseteq CallsOf(s)
           /\ CallsOf(s) \subseteq CallsOf(Tail(s)) \cup {Head(s)}
           /\ \A d \in CallsOf(Tail(s)) : Precedes(Rank(Head(s)[1]), Rank(d[1]))
           /\ (Len(s) = 1) <=> (Tail(s) = <<>>)
           /\ Tail(s) # s
<1> DEFINE t == Tail(s)
<1>1. s \in Seq(AllCalls) /\ Len(s) \in Nat /\ Len(s) # 0 /\ Head(s) = s[1] /\ 1 \in 1..Len(s)
  BY DEF Listed
<1>2. t \in Seq(AllCalls) /\ Len(t) = Len(s) - 1 /\ \A i \in 1..Len(t) : t[i] = s[i + 1]
  BY <1>1
<1>3. /\ \A i \in 1..Len(t) : i + 1 \in 1..Len(s)
      /\ \A i \in 1..Len(s) : i = 1 \/ (i - 1 \in 1..Len(t) /\ s[i] = t[i - 1])
  <2>1. \A i \in 1..Len(s) : i # 1 => i - 1 \in 1..Len(t) /\ (i - 1) + 1 = i
    BY <1>1, <1>2
  <2> QED BY <1>1, <1>2, <2>1
<1> HIDE DEF t
<1>4. Ordered(t)
  <2> SUFFICES ASSUME NEW i \in 1..Len(t), NEW j \in 1..Len(t), i < j
               PROVE  Precedes(Rank(t[i][1]), Rank(t[j][1]))
    BY DEF Ordered
  <2>1. i + 1 \in 1..Len(s) /\ j + 1 \in 1..Len(s) /\ i + 1 < j + 1
    BY <1>3
  <2> QED BY <1>2, <2>1 DEF Listed, Ordered
<1>5. CallsOf(t) \subseteq CallsOf(s)
  BY <1>2, <1>3 DEF CallsOf
<1>6. CallsOf(s) \subseteq CallsOf(t) \cup {Head(s)}
  BY <1>1, <1>3 DEF CallsOf
<1>7. \A d \in CallsOf(t) : Precedes(Rank(Head(s)[1]), Rank(d[1]))
  <2> SUFFICES ASSUME NEW i \in 1..Len(t) PROVE Precedes(Rank(s[1][1]), Rank(t[i][1]))
    BY <1>1 DEF CallsOf
  <2>1. i + 1 \in 1..Len(s) /\ 1 < i + 1
    BY <1>3
  <2> QED BY <1>1, <1>2, <2>1 DEF Listed, Ordered
<1>8. (Len(s) = 1) <=> (t = <<>>)
  <2>1. (t = <<>>) <=> (Len(t) = 0)
    BY <1>2
  <2> QED BY <1>1, <1>2, <2>1
<1>9. Head(s) \in CallsOf(s) /\ Head(s) \in AllCalls
  BY <1>1 DEF CallsOf
<1>10. t # s
  BY <1>1, <1>2
<1> QED BY <1>2, <1>4, <1>5, <1>6, <1>7, <1>8, <1>9, <1>10 DEF t, Listed

\* A list without calls.
LEMMA NoCalls == Listed(<<>>) /\ CallsOf(<<>>) = {}
<1>1. <<>> \in Seq(AllCalls) /\ Len(<<>>) = 0 /\ 1..0 = {}
  OBVIOUS
<1> QED BY <1>1 DEF Listed, Ordered, CallsOf

LEMMA CallsEmpty ==
    ASSUME NEW s \in Seq(AllCalls)
    PROVE  (CallsOf(s) = {}) <=> (s = <<>>)
<1>1. Len(s) \in Nat /\ ((s = <<>>) <=> (Len(s) = 0))
  OBVIOUS
<1>2. Len(s) # 0 => 1 \in 1..Len(s)
  BY <1>1
<1>3. Len(s) = 0 => 1..Len(s) = {}
  OBVIOUS
<1> QED BY <1>1, <1>2, <1>3 DEF CallsOf

Memories == RowMemory \cup DeployMemory \cup NumberMemory

Others(q) == \A p \in Requests : p # q => proc'[p] = proc[p]

\* q has done the call c, and holds m as long as it has calls left.
Moved(q, c, m) ==
    /\ Others(q) /\ proc'[q] # proc[q] /\ Op(q)' = Op(q) /\ Listed(proc[q].todo)'
    /\ Left(q)' \subseteq Left(q) /\ Left(q) \subseteq Left(q)' \cup {c}
    /\ \A d \in Left(q)' : Precedes(Rank(c[1]), Rank(d[1]))
    /\ Left(q)' # {} => Mem(q)' = m

Ended(q) == Others(q) /\ Op(q)' = Op(q) /\ Listed(proc[q].todo)' /\ Left(q)' = {}

\* What a step of q writes into proc.
LEMMA Written ==
    ASSUME ProcType, NEW q \in Requests, NEW op \in ContentOps \cup {"none"}, NEW t \in Seq(AllCalls),
           NEW m \in Memories \cup {NoMem},
           proc' = [proc EXCEPT ![q] = [op |-> op, todo |-> t, mem |-> m]], clean' \in BOOLEAN
    PROVE  /\ ProcType' /\ Others(q)
           /\ Op(q)' = op /\ proc'[q].todo = t /\ Left(q)' = CallsOf(t) /\ Mem(q)' = m
<1>1. /\ Others(q) /\ proc'[q] = [op |-> op, todo |-> t, mem |-> m]
  BY DEF Others, ProcType, ReqsType
<1>2. ProcType'
  BY DEF ProcType, ReqsType, Memories
<1> QED BY <1>1, <1>2 DEF Op, Left, Mem

\* Two fields of a request set one after the other.
LEMMA Rewritten ==
    ASSUME ProcType, NEW q \in Requests, NEW t \in Seq(AllCalls), NEW n \in Memories \cup {NoMem},
           proc' = [proc EXCEPT ![q].todo = t, ![q].mem = n]
    PROVE  proc' = [proc EXCEPT ![q] = [op |-> proc[q].op, todo |-> t, mem |-> n]]
<1>1. proc \in [Requests -> [op : ContentOps \cup {"none"}, todo : Seq(AllCalls),
                              mem : Memories \cup {NoMem}]]
  BY DEF ProcType, ReqsType, Memories
<1>2. proc'[q] = [op |-> proc[q].op, todo |-> t, mem |-> n]
  BY <1>1
<1>3. proc' = [proc EXCEPT ![q] = proc'[q]]
  BY <1>1
<1> QED BY <1>2, <1>3

LEMMA KeepsMoves ==
    ASSUME ProcType, NEW q \in Requests, Listed(proc[q].todo), NEW c, At(q, c),
           NEW m \in Memories, Keeps(q, m)
    PROVE  ProcType' /\ Moved(q, c, m) /\ clean' = clean
<1>1. PICK s : s = proc[q].todo
  OBVIOUS
<1>2. s # <<>> /\ Head(s) = c /\ Listed(s)
  BY <1>1 DEF At
<1>3. PICK t : t = Tail(s)
  OBVIOUS
<1>4. /\ Listed(t) /\ CallsOf(t) \subseteq CallsOf(s) /\ CallsOf(s) \subseteq CallsOf(t) \cup {c}
      /\ \A d \in CallsOf(t) : Precedes(Rank(c[1]), Rank(d[1]))
      /\ t # s
  BY <1>2, <1>3, TailCalls
<1>5. PICK n : n = IF t = <<>> THEN NoMem ELSE m
  OBVIOUS
<1>6. PICK op : op = proc[q].op
  OBVIOUS
<1>7. /\ proc' = [proc EXCEPT ![q] = [op |-> op, todo |-> t, mem |-> n]] /\ clean' = clean
      /\ op \in ContentOps \cup {"none"} /\ t \in Seq(AllCalls) /\ n \in Memories \cup {NoMem}
      /\ clean \in BOOLEAN
  BY <1>1, <1>3, <1>4, <1>5, <1>6 DEF Keeps, Goes, Listed, ProcType, ReqsType
<1>8. /\ ProcType' /\ Others(q)
      /\ Op(q)' = op /\ proc'[q].todo = t /\ Left(q)' = CallsOf(t) /\ Mem(q)' = n
  BY <1>7, Written
<1>9. CallsOf(t) # {} => t # <<>>
  BY NoCalls
<1> QED BY <1>1, <1>4, <1>5, <1>6, <1>7, <1>8, <1>9 DEF Moved, Left, Op

LEMMA ProceedsMoves ==
    ASSUME ProcType, NEW q \in Requests, Listed(proc[q].todo), NEW c, At(q, c),
           Mem(q) \in Memories, Proceeds(q)
    PROVE  ProcType' /\ Moved(q, c, Mem(q)) /\ clean' = clean
BY KeepsMoves DEF Proceeds, Mem

LEMMA EndsMoves ==
    ASSUME ProcType, NEW q \in Requests, Ends(q) \/ Aborts(q)
    PROVE  ProcType' /\ Ended(q) /\ (clean' => clean /\ Ends(q))
<1>1. PICK op : op = proc[q].op
  OBVIOUS
<1>2. /\ proc' = [proc EXCEPT ![q] = [op |-> op, todo |-> <<>>, mem |-> NoMem]]
      /\ clean' \in BOOLEAN /\ (clean' => clean /\ Ends(q)) /\ op \in ContentOps \cup {"none"}
  <2>1. op \in ContentOps \cup {"none"} /\ clean \in BOOLEAN
    BY <1>1 DEF ProcType, ReqsType
  <2>2. CASE Ends(q)
    BY <1>1, <2>1, <2>2 DEF Ends, Goes
  <2>3. CASE Aborts(q)
    <3>1. <<>> \in Seq(AllCalls) /\ NoMem \in Memories \cup {NoMem}
      OBVIOUS
    <3>2. proc' = [proc EXCEPT ![q].todo = <<>>, ![q].mem = NoMem] /\ clean' = FALSE
      BY <2>3 DEF Aborts
    <3>3. proc' = [proc EXCEPT ![q] = [op |-> proc[q].op, todo |-> <<>>, mem |-> NoMem]]
      BY <3>1, <3>2, Rewritten
    <3> QED BY <1>1, <2>1, <3>2, <3>3
  <2> QED BY <2>2, <2>3
<1>3. <<>> \in Seq(AllCalls) /\ NoMem \in Memories \cup {NoMem} /\ Listed(<<>>) /\ CallsOf(<<>>) = {}
  BY NoCalls
<1>4. /\ ProcType' /\ Others(q)
      /\ Op(q)' = op /\ proc'[q].todo = <<>> /\ Left(q)' = CallsOf(<<>>) /\ Mem(q)' = NoMem
  BY <1>2, <1>3, Written
<1> QED BY <1>1, <1>2, <1>3, <1>4 DEF Ended, Op

LEMMA SkipsMoves ==
    ASSUME ProcType, NEW q \in Requests, Listed(proc[q].todo), NEW c, At(q, c),
           Mem(q) \in Memories, Skips(q)
    PROVE  ProcType' /\ Moved(q, c, Mem(q)) /\ clean' = FALSE
<1>1. PICK s : s = proc[q].todo
  OBVIOUS
<1>2. s # <<>> /\ Head(s) = c /\ Listed(s)
  BY <1>1 DEF At
<1>3. PICK t : t = Tail(s)
  OBVIOUS
<1>4. /\ Listed(t) /\ CallsOf(t) \subseteq CallsOf(s) /\ CallsOf(s) \subseteq CallsOf(t) \cup {c}
      /\ \A d \in CallsOf(t) : Precedes(Rank(c[1]), Rank(d[1]))
      /\ (Len(s) = 1) <=> (t = <<>>)
      /\ t # s
  BY <1>2, <1>3, TailCalls
<1>5. PICK n : n = IF Len(s) = 1 THEN NoMem ELSE Mem(q)
  OBVIOUS
<1>6. PICK op : op = proc[q].op
  OBVIOUS
<1>7. proc' = [proc EXCEPT ![q].todo = t, ![q].mem = n] /\ clean' = FALSE
  BY <1>1, <1>3, <1>5 DEF Skips, Mem
<1>8. proc[q] \in [op : ContentOps \cup {"none"}, todo : Seq(AllCalls), mem : Memories \cup {NoMem}]
  BY DEF ProcType, ReqsType, Memories
<1>9. /\ proc' = [proc EXCEPT ![q] = [op |-> op, todo |-> t, mem |-> n]]
      /\ op \in ContentOps \cup {"none"} /\ t \in Seq(AllCalls) /\ n \in Memories \cup {NoMem}
  <2>1. proc' = [proc EXCEPT ![q] = [op |-> op, todo |-> t, mem |-> n]]
    <3>1. t \in Seq(AllCalls) /\ n \in Memories \cup {NoMem}
      BY <1>4, <1>5 DEF Listed
    <3>2. proc' = [proc EXCEPT ![q] = [op |-> proc[q].op, todo |-> t, mem |-> n]]
      BY <1>7, <3>1, Rewritten
    <3> QED BY <1>6, <3>2
  <2> QED BY <1>4, <1>5, <1>6, <1>8, <2>1 DEF Listed
<1>10. /\ ProcType' /\ Others(q)
       /\ Op(q)' = op /\ proc'[q].todo = t /\ Left(q)' = CallsOf(t) /\ Mem(q)' = n
  <2>1. clean' \in BOOLEAN
    BY <1>7
  <2> QED BY <1>9, <2>1, Written
<1>11. CallsOf(t) # {} => t # <<>>
  BY NoCalls
<1>12. proc'[q] # proc[q]
  BY <1>1, <1>4, <1>10
<1>13. clean' = FALSE
  BY <1>7
<1> QED BY <1>1, <1>4, <1>5, <1>6, <1>10, <1>11, <1>12, <1>13 DEF Moved, Left, Op

LEMMA ArrivesMoves ==
    ASSUME ProcType, NEW q \in Requests, NEW op \in ContentOps, NEW s, Listed(s), NEW m \in Memories,
           Arrives(q, op, s, m)
    PROVE  /\ ProcType' /\ Others(q) /\ Op(q) = "none" /\ Op(q)' = op
           /\ proc'[q].todo = s /\ Left(q)' = CallsOf(s) /\ Mem(q)' = m
<1>1. /\ proc' = [proc EXCEPT ![q] = [op |-> op, todo |-> s, mem |-> m]] /\ clean' \in BOOLEAN
      /\ s \in Seq(AllCalls) /\ Op(q) = "none"
  BY DEF Arrives, Listed, Op, ProcType, ReqsType
<1> QED BY <1>1, Written

(***************************************************************************)
(* What the steps of one request leave to the others.                      *)
(***************************************************************************)
RowEnv(q) ==
    /\ \A k \in DOMAIN rows' : k \notin DOMAIN rows => k[2] = q \/ k = <<"canvas", Seed>>
    /\ \A k \in DOMAIN rows : rows[k].state = "deleted" =>
          k \in DOMAIN rows' /\ (rows'[k] # rows[k] => Op(q) \in Revivers /\ proc'[q] # proc[q])
    /\ \A i \in RowIds : <<"artifact", i>> \in DOMAIN rows =>
          /\ <<"artifact", i>> \in DOMAIN rows'
          /\ ~Live("artifact", i) => ~Live("artifact", i)'
    /\ \A i \in RowIds : Live("map", i)' /\ ~Live("map", i) => i = q /\ At(q, <<"insert", "map">>)

FileEnv(q) ==
    \A i \in RowIds :
        /\ <<"frame", i>> \in DOMAIN files => <<"frame", i>> \in DOMAIN files'
        /\ <<"artifact", i>> \in DOMAIN files =>
             <<"artifact", i>> \in DOMAIN files' \/ i = q \/ <<"artifact", i>> \in DOMAIN rows

NoteEnv(q) ==
    /\ \A p \in Requests : p # q /\ agents[p] = Null => agents'[p] = Null
    /\ \A i \in RowIds : StepsOf(i) \subseteq StepsOf(i)'
    /\ \A i \in RowIds : agents[i] \in {"completed", "failed"} => agents'[i] = agents[i]

\* The others still know what they knew.
LEMMA RowKnownKept ==
    ASSUME NEW q \in Requests, NEW p \in Requests, p # q, Op(p)' = Op(p), RowEnv(q),
           FileEnv(q), NEW L, NEW m, RowKnown(p, L, m)
    PROVE  RowKnown(p, L, m)'
<1>1. m \in RowMemory /\ m.id \in RowIds /\ p \in RowIds /\ Seed \notin Requests
  BY RowsAssumption DEF RowKnown, RowMemory, RowIds
<1>2. HeldKnown(L, m)' /\ OneTable(L)' /\ L \subseteq RowCalls
  BY DEF RowKnown, HeldKnown, OneTable
<1>3. \A t : <<t, p>> \notin DOMAIN rows => <<t, p>> \notin DOMAIN rows'
  BY <1>1 DEF RowEnv
<1>5. NewRowKnown(p, L, m) /\ FrameKnown(L, m) /\ ArtifactKnown(p, L, m)
  BY DEF RowKnown
<1>6. NewRowKnown(p, L, m)'
  BY <1>3, <1>5 DEF NewRowKnown, Made
<1>7. FrameKnown(L, m)'
  BY <1>1, <1>5 DEF FrameKnown, FileEnv
<1>8. ArtifactKnown(p, L, m)'
  <2>1. <<"insert", "artifact">> \in L => <<"artifact", p>> \notin DOMAIN rows
    BY <1>5 DEF NewRowKnown, Makers, Made
  <2>2. <<"insert", "artifact">> \in L /\ <<"artifact", p>> \in DOMAIN files => <<"artifact", p>> \in DOMAIN files'
    BY <1>1, <2>1 DEF FileEnv
  <2>3. <<"artifact", m.id>> \in DOMAIN rows =>
          <<"artifact", m.id>> \in DOMAIN rows' /\ (~Live("artifact", m.id) => ~Live("artifact", m.id)')
    BY <1>1 DEF RowEnv
  <2> QED BY <1>5, <2>2, <2>3 DEF ArtifactKnown
<1> QED BY <1>1, <1>2, <1>6, <1>7, <1>8 DEF RowKnown

LEMMA OthersKnow ==
    ASSUME NEW q \in Requests, Others(q), RowEnv(q), FileEnv(q), NoteEnv(q),
           \A p \in Requests : Knows(p)
    PROVE  \A p \in Requests : p # q => Knows(p)'
<1> SUFFICES ASSUME NEW p \in Requests, p # q PROVE Knows(p)'
  OBVIOUS
<1>1. proc'[p] = proc[p] /\ p \in RowIds
  BY DEF Others, RowIds
<1>2. Op(p)' = Op(p) /\ Mem(p)' = Mem(p) /\ Left(p)' = Left(p)
  BY <1>1 DEF Op, Mem, Left
<1>3. PICK L, m : L = Left(p) /\ m = Mem(p)
  OBVIOUS
<1>4. RowKnown(p, L, m) => RowKnown(p, L, m)'
  BY <1>2, RowKnownKept
<1>5. NumberKnown(p, L, m) => NumberKnown(p, L, m)'
  BY <1>1 DEF NumberKnown, NoteEnv, NumberMemory
<1>6. DeployKnown(L, m) => DeployKnown(L, m)'
  BY DEF DeployKnown
<1>7. /\ Listed(proc[p].todo)'
      /\ Op(p)' = "none" => Left(p)' = {} /\ agents'[p] = Null
  BY <1>1, <1>2 DEF Knows, NoteEnv
<1>8. Op(p)' = "none" => \A t \in Tables : <<t, p>> \notin DOMAIN rows'
  <2>1. \A t \in Tables : <<t, p>> \in DOMAIN rows' => <<t, p>> \in DOMAIN rows
    BY RowsAssumption DEF RowEnv
  <2> QED BY <1>2, <2>1 DEF Knows
<1>9. Left(p)' = {} \/ RowKnown(p, L, m)' \/ NumberKnown(p, L, m)' \/ DeployKnown(L, m)'
  BY <1>2, <1>3, <1>4, <1>5, <1>6 DEF Knows
<1>10. /\ RowKnown(p, L, m)' => RowKnown(p, Left(p), Mem(p))'
       /\ NumberKnown(p, L, m)' => NumberKnown(p, Left(p), Mem(p))'
       /\ DeployKnown(L, m)' => DeployKnown(Left(p), Mem(p))'
  BY <1>2, <1>3
<1> QED BY <1>7, <1>8, <1>9, <1>10 DEF Knows

(***************************************************************************)
(* What a request knows at a call, and after it.                           *)
(***************************************************************************)
LEMMA TablesApart == "component" \notin Tables /\ "agent" \notin Tables /\ "version" \in Tables
BY DEF Tables, MapTables, NoteTables, MlTables

LEMMA AtCall ==
    ASSUME NEW q \in Requests, Knows(q), NEW c, At(q, c)
    PROVE  c \in Left(q) /\ c \in AllCalls /\ Listed(proc[q].todo) /\ Op(q) # "none"
BY TailCalls DEF Knows, At, Left

LEMMA AtRow ==
    ASSUME NEW q \in Requests, Knows(q), NEW v, v \notin {"getStatus", "deploy"}, NEW t \in Tables,
           At(q, <<v, t>>)
    PROVE  /\ RowKnown(q, Left(q), Mem(q)) /\ <<v, t>> \in Left(q)
           /\ Listed(proc[q].todo) /\ Op(q) # "none" /\ Mem(q) \in RowMemory /\ Mem(q) \in Memories
<1>1. <<v, t>> \in Left(q) /\ Listed(proc[q].todo) /\ Op(q) # "none"
  BY AtCall
<1>2. ~NumberKnown(q, Left(q), Mem(q))
  BY <1>1, TablesApart DEF NumberKnown, NumberCalls
<1>3. ~DeployKnown(Left(q), Mem(q))
  BY <1>1 DEF DeployKnown, DeployCalls
<1>4. RowKnown(q, Left(q), Mem(q))
  BY <1>1, <1>2, <1>3 DEF Knows
<1> QED BY <1>1, <1>4 DEF RowKnown, Memories

LEMMA AtNumber ==
    ASSUME NEW q \in Requests, Knows(q), NEW v, NEW t \in {"component", "agent"}, At(q, <<v, t>>)
    PROVE  /\ NumberKnown(q, Left(q), Mem(q)) /\ <<v, t>> \in Left(q)
           /\ Listed(proc[q].todo) /\ Op(q) # "none" /\ Mem(q) \in NumberMemory /\ Mem(q) \in Memories
<1>1. <<v, t>> \in Left(q) /\ Listed(proc[q].todo) /\ Op(q) # "none"
  BY AtCall
<1>2. ~RowKnown(q, Left(q), Mem(q))
  BY <1>1, TablesApart DEF RowKnown, RowCalls
<1>3. ~DeployKnown(Left(q), Mem(q))
  BY <1>1 DEF DeployKnown, DeployCalls
<1>4. NumberKnown(q, Left(q), Mem(q))
  BY <1>1, <1>2, <1>3 DEF Knows
<1> QED BY <1>1, <1>4 DEF NumberKnown, Memories

LEMMA AtDeploy ==
    ASSUME NEW q \in Requests, Knows(q), NEW v \in {"getStatus", "deploy"}, At(q, <<v, "version">>)
    PROVE  /\ DeployKnown(Left(q), Mem(q)) /\ <<v, "version">> \in Left(q)
           /\ Listed(proc[q].todo) /\ Op(q) # "none" /\ Mem(q) \in DeployMemory /\ Mem(q) \in Memories
<1>1. <<v, "version">> \in Left(q) /\ Listed(proc[q].todo) /\ Op(q) # "none"
  BY AtCall
<1>2. ~RowKnown(q, Left(q), Mem(q))
  BY <1>1 DEF RowKnown, RowCalls
<1>3. ~NumberKnown(q, Left(q), Mem(q))
  BY <1>1 DEF NumberKnown, NumberCalls
<1>4. DeployKnown(Left(q), Mem(q))
  BY <1>1, <1>2, <1>3 DEF Knows
<1> QED BY <1>1, <1>4 DEF DeployKnown, Memories

\* The calls that come after a write.
LEMMA AfterRank ==
    ASSUME NEW v, Rank(v) > 4
    PROVE  v \in {"firstVersion", "dropFile", "clearFields", "insertFields", "delete"}
BY DEF Rank

LEMMA RankFacts ==
    /\ \A v \in Looks : Rank(v) = 1
    /\ \A v \in Prepares : Rank(v) = 2
    /\ Rank("dropOld") = 3
    /\ \A v \in {"insert", "save", "remove", "saveAll", "upsert", "touch", "saveEvent", "erase",
                 "syncEvent", "create", "finish", "insertStep", "createProject", "saveProject",
                 "restore", "saveCard", "saveExperiment", "saveFinding", "setRun", "setVersion",
                 "sync", "deploy"} : Rank(v) = 4
    /\ \A v \in {"firstVersion", "dropFile", "clearFields"} : Rank(v) = 5
    /\ \A v \in {"insertFields", "delete"} : Rank(v) = 6
<1>1. /\ \A v \in Looks : Rank(v) = 1
      /\ \A v \in Prepares : Rank(v) = 2
  BY DEF Rank, Looks, Prepares
<1>2. Rank("dropOld") = 3
  BY DEF Rank, Looks, Prepares
<1>3. /\ \A v \in {"insert", "save", "remove", "saveAll", "upsert", "touch", "saveEvent", "erase",
                 "syncEvent", "create", "finish", "insertStep", "createProject", "saveProject",
                 "restore", "saveCard", "saveExperiment", "saveFinding", "setRun", "setVersion",
                 "sync", "deploy"} : Rank(v) = 4
  BY DEF Rank, Looks, Prepares
<1>4. /\ \A v \in {"firstVersion", "dropFile", "clearFields"} : Rank(v) = 5
      /\ \A v \in {"insertFields", "delete"} : Rank(v) = 6
  BY DEF Rank, Looks, Prepares
<1> QED BY <1>1, <1>2, <1>3, <1>4

\* After a write only the first version of a model and the file of an artifact
\* are left.
LEMMA AfterWrite ==
    ASSUME NEW q \in Requests, Op(q) # "none", NEW c, c \in Left(q), RowKnown(q, Left(q), Mem(q)),
           Moved(q, c, Mem(q)), Rank(c[1]) \in {4, 5, 6}, RowEnv(q),
           \A k \in DOMAIN rows' : k \notin DOMAIN rows => k[1] = Made(c),
           c = <<"remove", "artifact">> => \A i \in RowIds : i = Mem(q).id => ~Live("artifact", i)'
    PROVE  Knows(q)'
<1>1. PICK L, m, N : L = Left(q) /\ m = Mem(q) /\ N = Left(q)'
  OBVIOUS
<1>2. /\ N \subseteq L /\ L \subseteq N \cup {c} /\ (N # {} => Mem(q)' = m)
      /\ \A d \in N : Precedes(Rank(c[1]), Rank(d[1]))
      /\ Op(q)' = Op(q) /\ Listed(proc[q].todo)'
  BY <1>1 DEF Moved
<1>3. \A d \in N : d[1] \in {"firstVersion", "dropFile", "clearFields", "insertFields", "delete"}
                   /\ Rank(d[1]) > Rank(c[1])
  <2> SUFFICES ASSUME NEW d \in N
               PROVE  /\ d[1] \in {"firstVersion", "dropFile", "clearFields", "insertFields", "delete"}
                      /\ Rank(d[1]) > Rank(c[1])
    OBVIOUS
  <2>1. Rank(d[1]) > Rank(c[1]) /\ Rank(d[1]) > 4
    BY <1>2 DEF Precedes, Rank
  <2> QED BY <2>1, AfterRank
<1>4. RowKnown(q, L, m) /\ c \in L /\ m.id \in RowIds
  BY <1>1 DEF RowKnown, RowMemory
<1>5. m \in RowMemory /\ N \subseteq RowCalls /\ OneTable(N)
  BY <1>2, <1>4 DEF RowKnown, OneTable
<1>6. HeldKnown(N, m)
  <2>1. c[1] \notin Getters
    BY RankFacts DEF Getters, Looks
  <2> QED BY <1>2, <1>4, <2>1 DEF RowKnown, HeldKnown
<1>7. NewRowKnown(q, N, m)'
  <2>1. \A d \in N : d[1] = "firstVersion" => <<"version", q>> \notin DOMAIN rows'
    <3> SUFFICES ASSUME NEW d \in N, d[1] = "firstVersion", <<"version", q>> \in DOMAIN rows'
                 PROVE  FALSE
      OBVIOUS
    <3>1. <<"version", q>> \notin DOMAIN rows
      BY <1>2, <1>4 DEF RowKnown, NewRowKnown, Makers, Made
    <3>2. Made(c) = "version"
      BY <3>1
    <3>3. c[1] # "firstVersion" /\ c[1] \notin {"ensure", "ensureIf"}
      BY <1>3, RankFacts DEF Looks
    <3>4. c[2] = d[2] /\ d[2] = "model"
      BY <1>2, <1>4, <3>3 DEF RowKnown, OneTable
    <3> QED BY <3>2, <3>3, <3>4 DEF Made
  <2>2. \A d \in N : d[1] = "firstVersion" => m.ref = Null
    BY <1>2, <1>4 DEF RowKnown, NewRowKnown
  <2> QED BY <1>3, <2>1, <2>2 DEF NewRowKnown, Makers, Made
<1>8. FrameKnown(N, m)'
  BY <1>3 DEF FrameKnown, FrameCalls
<1>9. ArtifactKnown(q, N, m)'
  <2>1. <<"insert", "artifact">> \notin N /\ <<"save", "artifact">> \notin N
        /\ <<"sync", "artifact">> \notin N /\ <<"remove", "artifact">> \notin N
    BY <1>3
  <2>2. ASSUME <<"dropFile", "artifact">> \in N
        PROVE  /\ m.held # Null => m.held.file \in {Null, m.id} /\ <<"artifact", m.id>> \in DOMAIN rows'
               /\ <<"artifact", m.id>> \in DOMAIN rows' /\ ~Live("artifact", m.id)'
    <3>1. /\ m.held # Null => m.held.file \in {Null, m.id} /\ <<"artifact", m.id>> \in DOMAIN rows
          /\ \/ <<"remove", "artifact">> \in L
             \/ <<"artifact", m.id>> \in DOMAIN rows /\ ~Live("artifact", m.id)
      BY <1>2, <1>4, <2>2 DEF RowKnown, ArtifactKnown
    <3>2. m.held # Null
      <4>1. <<"dropFile", "artifact">>[1] \in Uses
        BY DEF Uses
      <4>2. m.held \in Row \/ \E g \in N : g[1] \in Getters
        BY <1>6, <2>2, <4>1 DEF HeldKnown, LiveRow
      <4>3. \A g \in N : g[1] \notin Getters
        BY <1>3 DEF Getters
      <4> QED BY <4>2, <4>3, RowsAssumption
    <3>3. <<"artifact", m.id>> \in DOMAIN rows'
          /\ (~Live("artifact", m.id) => ~Live("artifact", m.id)')
      BY <1>4, <3>1, <3>2 DEF RowEnv
    <3>4. <<"remove", "artifact">> \in L => ~Live("artifact", m.id)'
      BY <1>1, <1>2, <1>4, <2>1
    <3> QED BY <3>1, <3>2, <3>3, <3>4
  <2> QED BY <2>1, <2>2 DEF ArtifactKnown
<1>10. RowKnown(q, N, m)'
  BY <1>5, <1>6, <1>7, <1>8, <1>9 DEF RowKnown, HeldKnown, OneTable
<1>11. N # {} => RowKnown(q, Left(q), Mem(q))'
  BY <1>1, <1>2, <1>10
<1> QED BY <1>1, <1>2, <1>11 DEF Knows

\* A call that only looks.
LEMMA AfterRead ==
    ASSUME NEW q \in Requests, Op(q) # "none", NEW c, c \in Left(q), RowKnown(q, Left(q), Mem(q)),
           c[1] \in Looks, UNCHANGED rowVars, NEW r \in Row \cup {Null},
           Moved(q, c, [Mem(q) EXCEPT !.held = r]),
           \/ r = Mem(q).held /\ c[1] \notin Getters
           \/ /\ r \in LiveRow /\ c[1] \in Getters
              /\ c[2] = "frame" /\ r.file \in Shots => <<"frame", Mem(q).id>> \in DOMAIN files
              /\ c[2] = "artifact" =>
                   r.file \in {Null, Mem(q).id} /\ <<"artifact", Mem(q).id>> \in DOMAIN rows
    PROVE  Knows(q)'
<1>1. PICK L, m, N, n : L = Left(q) /\ m = Mem(q) /\ N = Left(q)' /\ n = [m EXCEPT !.held = r]
  OBVIOUS
<1>2. /\ N \subseteq L /\ L \subseteq N \cup {c} /\ (N # {} => Mem(q)' = n)
      /\ Op(q)' = Op(q) /\ Listed(proc[q].todo)'
  BY <1>1 DEF Moved
<1>3. RowKnown(q, L, m) /\ c \in L /\ m \in RowMemory
  BY <1>1 DEF RowKnown
<1>4. /\ n \in RowMemory /\ n.id = m.id /\ n.ref = m.ref /\ n.file = m.file /\ n.held = r
  BY <1>1, <1>3 DEF RowMemory
<1>5. N \subseteq RowCalls /\ OneTable(N)
  BY <1>2, <1>3 DEF RowKnown, OneTable
<1>6. HeldKnown(N, n)
  <2>1. CASE r \in LiveRow
    BY <1>4, <2>1 DEF HeldKnown
  <2>2. CASE r = m.held /\ c[1] \notin Getters
    BY <1>2, <1>3, <1>4, <2>2 DEF RowKnown, HeldKnown
  <2> QED BY <1>1, <2>1, <2>2
<1>7. NewRowKnown(q, N, n)'
  <2>1. rows' = rows
    BY DEF rowVars
  <2> QED BY <1>2, <1>3, <1>4, <2>1 DEF RowKnown, NewRowKnown
<1>8. c \notin FrameCalls /\ <<"remove", "artifact">> # c /\ <<"upload", "artifact">> # c
      /\ <<"resolve", "frame">> # c
  BY DEF Looks, FrameCalls
<1>9. c[1] \in Getters => \A d \in N : d[1] \notin {"ensure", "ensureIf"} => d[2] = c[2]
  BY <1>2, <1>3 DEF RowKnown, OneTable, Getters
<1>10. FrameKnown(N, n)'
  <2> SUFFICES ASSUME N \cap FrameCalls # {}
               PROVE  /\ n.file \in Shots \cup {Asset, Null}
                      /\ n.file \in Shots => <<"resolve", "frame">> \in N \/ <<"frame", n.id>> \in DOMAIN files
                      /\ n.held # Null /\ n.held.file \in Shots => <<"frame", n.id>> \in DOMAIN files
    BY DEF FrameKnown, rowVars
  <2>1. PICK d \in N : d \in FrameCalls
    OBVIOUS
  <2>2. d[1] \notin {"ensure", "ensureIf"} /\ d[2] = "frame" /\ L \cap FrameCalls # {}
    BY <1>2, <2>1 DEF FrameCalls
  <2>3. FrameKnown(L, m)
    BY <1>3 DEF RowKnown
  <2>4. /\ m.file \in Shots \cup {Asset, Null}
        /\ m.file \in Shots => <<"resolve", "frame">> \in L \/ <<"frame", m.id>> \in DOMAIN files
        /\ m.held # Null /\ m.held.file \in Shots => <<"frame", m.id>> \in DOMAIN files
    BY <2>2, <2>3 DEF FrameKnown
  <2>5. r # Null /\ r.file \in Shots => <<"frame", n.id>> \in DOMAIN files
    BY <1>1, <1>4, <1>9, <2>1, <2>2, <2>4
  <2> QED BY <1>2, <1>4, <1>8, <2>4, <2>5
<1>11. ArtifactKnown(q, N, n)'
  <2>1. ArtifactKnown(q, L, m)
    BY <1>3 DEF RowKnown
  <2>2. rows' = rows /\ files' = files /\ \A i : Live("artifact", i)' = Live("artifact", i)
    BY DEF rowVars, Live
  <2>3. <<"insert", "artifact">> \in N =>
         \/ n.file = Null
         \/ n.file = q /\ (<<"upload", "artifact">> \in N \/ <<"artifact", q>> \in DOMAIN files)
    BY <1>2, <1>4, <1>8, <2>1 DEF ArtifactKnown
  <2>4. <<"save", "artifact">> \in N \/ <<"sync", "artifact">> \in N => n.file = Null
    BY <1>2, <1>4, <2>1 DEF ArtifactKnown
  <2>5. ASSUME <<"dropFile", "artifact">> \in N
        PROVE  /\ n.held # Null => n.held.file \in {Null, n.id} /\ <<"artifact", n.id>> \in DOMAIN rows
               /\ \/ <<"remove", "artifact">> \in N
                  \/ <<"artifact", n.id>> \in DOMAIN rows /\ ~Live("artifact", n.id)
    <3>1. c[1] \in Getters => c[2] = "artifact"
      BY <1>9, <2>5
    <3>2. /\ m.held # Null => m.held.file \in {Null, m.id} /\ <<"artifact", m.id>> \in DOMAIN rows
          /\ \/ <<"remove", "artifact">> \in L
             \/ <<"artifact", m.id>> \in DOMAIN rows /\ ~Live("artifact", m.id)
      BY <1>2, <2>1, <2>5 DEF ArtifactKnown
    <3> QED BY <1>1, <1>2, <1>4, <1>8, <3>1, <3>2
  <2> QED BY <2>2, <2>3, <2>4, <2>5 DEF ArtifactKnown
<1>12. RowKnown(q, N, n)'
  BY <1>4, <1>5, <1>6, <1>7, <1>10, <1>11 DEF RowKnown, HeldKnown, OneTable
<1>13. N # {} => RowKnown(q, Left(q), Mem(q))'
  BY <1>1, <1>2, <1>12
<1> QED BY <1>1, <1>2, <1>13 DEF Knows

(***************************************************************************)
(* One row is written.                                                     *)
(***************************************************************************)
WriteOK(q, t, i, r) ==
    /\ t \in Tables /\ i \in RowIds /\ r \in Row
    /\ IF <<t, i>> \in DOMAIN rows THEN rows[<<t, i>>].state = "live"
       ELSE \/ i = q /\ (t = "map" => At(q, <<"insert", "map">>))
            \/ t = "canvas" /\ i = Seed
    /\ t = "frame" /\ r.file \in Shots => <<t, i>> \in DOMAIN files
    /\ t = "artifact" => /\ r.file \in {Null, i}
                         /\ r.state = "live" /\ r.file # Null => <<t, i>> \in DOMAIN files
    /\ t \in {"event", "canvas"} => r.state = "live"
    /\ t \in RefTables /\ r.ref # Null =>
         \A j \in RowIds : j # i /\ <<t, j>> \in DOMAIN rows => rows[<<t, j>>].ref # r.ref

LEMMA OneRow ==
    ASSUME RowsTypeOK(Tables), RowsInv, NEW q \in Requests, NEW t, NEW i, NEW r, WriteOK(q, t, i, r),
           rows' = With(rows, <<t, i>>, r), files' = files
    PROVE  RowsTypeOK(Tables)' /\ RowsInv' /\ RowEnv(q) /\ FileEnv(q)
<1>1. PICK k : k = <<t, i>>
  OBVIOUS
<1>2. /\ DOMAIN rows' = DOMAIN rows \cup {k} /\ rows'[k] = r
      /\ \A x \in DOMAIN rows : x # k => rows'[x] = rows[x]
  BY <1>1 DEF With
<1>3. /\ t \in Tables /\ i \in RowIds /\ r \in Row /\ k[1] = t /\ k[2] = i
      /\ (k \in DOMAIN rows => rows[k].state = "live")
      /\ (k \in DOMAIN rows \/ i = q \/ k = <<"canvas", Seed>>)
  BY <1>1 DEF WriteOK
<1>4. RowsTypeOK(Tables)'
  BY <1>1, <1>2, <1>3 DEF RowsTypeOK
<1>5. \A x \in DOMAIN rows' : RowOK(x)'
  <2> SUFFICES ASSUME NEW x \in DOMAIN rows' PROVE RowOK(x)'
    OBVIOUS
  <2>1. CASE x = k
    BY <1>1, <1>2, <2>1 DEF RowOK, WriteOK
  <2>2. CASE x # k
    <3>1. x \in DOMAIN rows /\ rows'[x] = rows[x]
      BY <1>2, <2>2
    <3>2. RowOK(x)
      BY <3>1 DEF RowsInv
    <3> QED BY <3>1, <3>2 DEF RowOK
  <2> QED BY <2>1, <2>2
<1>6. OneRefEach'
  <2> SUFFICES ASSUME NEW u \in RefTables, NEW a \in RowIds, NEW b \in RowIds,
                      <<u, a>> \in DOMAIN rows', <<u, b>> \in DOMAIN rows',
                      rows'[<<u, a>>].ref = rows'[<<u, b>>].ref, rows'[<<u, a>>].ref # Null, a # b
               PROVE  FALSE
    BY DEF OneRefEach
  <2>1. CASE <<u, a>> = k
    <3>1. u = t /\ a = i /\ <<u, b>> # k
      BY <1>1, <2>1
    <3> QED BY <1>2, <2>1, <3>1 DEF WriteOK
  <2>2. CASE <<u, b>> = k
    <3>1. u = t /\ b = i /\ <<u, a>> # k
      BY <1>1, <2>2
    <3> QED BY <1>2, <2>2, <3>1 DEF WriteOK
  <2>3. CASE <<u, a>> # k /\ <<u, b>> # k
    BY <1>2, <2>3 DEF RowsInv, OneRefEach
  <2> QED BY <2>1, <2>2, <2>3
<1>7. RowEnv(q)
  <2>1. \A x \in DOMAIN rows' : x \notin DOMAIN rows => x[2] = q \/ x = <<"canvas", Seed>>
    BY <1>2, <1>3
  <2>2. \A x \in DOMAIN rows : rows[x].state = "deleted" => x \in DOMAIN rows' /\ rows'[x] = rows[x]
    BY <1>2, <1>3
  <2>3. \A j \in RowIds : <<"artifact", j>> \in DOMAIN rows =>
          /\ <<"artifact", j>> \in DOMAIN rows'
          /\ ~Live("artifact", j) => ~Live("artifact", j)'
    <3> SUFFICES ASSUME NEW j \in RowIds, <<"artifact", j>> \in DOMAIN rows
                 PROVE  /\ <<"artifact", j>> \in DOMAIN rows'
                        /\ ~Live("artifact", j) => ~Live("artifact", j)'
      OBVIOUS
    <3>1. CASE <<"artifact", j>> = k
      BY <1>2, <1>3, <3>1 DEF Live
    <3>2. CASE <<"artifact", j>> # k
      BY <1>2, <3>2 DEF Live
    <3> QED BY <3>1, <3>2
  <2>4. ASSUME NEW j \in RowIds, Live("map", j)', ~Live("map", j)
        PROVE  j = q /\ At(q, <<"insert", "map">>)
    <3>1. <<"map", j>> = k /\ k \notin DOMAIN rows
      BY <1>2, <1>3, <2>4 DEF Live
    <3>2. t = "map" /\ i = j
      BY <1>1, <3>1
    <3> QED BY <1>1, <3>1, <3>2 DEF WriteOK
  <2> QED BY <2>1, <2>2, <2>3, <2>4 DEF RowEnv
<1>8. FileEnv(q)
  BY DEF FileEnv
<1> QED BY <1>4, <1>5, <1>6, <1>7, <1>8 DEF RowsInv

\* Nothing is written.
LEMMA NoRow ==
    ASSUME RowsTypeOK(Tables), RowsInv, NEW q \in Requests, UNCHANGED rows
    PROVE  /\ RowEnv(q)
           /\ UNCHANGED files => RowsTypeOK(Tables)' /\ RowsInv' /\ FileEnv(q)
<1>1. RowEnv(q)
  BY DEF RowEnv, Live
<1>2. ASSUME UNCHANGED files PROVE RowsTypeOK(Tables)' /\ RowsInv' /\ FileEnv(q)
  <2>1. RowsTypeOK(Tables)' /\ FileEnv(q)
    BY <1>2 DEF RowsTypeOK, FileEnv
  <2>2. RowsInv'
    BY <1>2 DEF RowsInv, RowOK, OneRefEach
  <2> QED BY <2>1, <2>2
<1> QED BY <1>1, <1>2

\* The row part of a step of q.
RowStepOK(q) ==
    /\ ProcType' /\ Others(q) /\ Knows(q)'
    /\ RowsTypeOK(Tables)' /\ RowsInv' /\ RowEnv(q) /\ FileEnv(q)

LEMMA EndsOK ==
    ASSUME ProcType, RowsTypeOK(Tables), RowsInv, NEW q \in Requests, Op(q) # "none",
           Ends(q) \/ Aborts(q), UNCHANGED rowVars
    PROVE  RowStepOK(q)
<1>1. rows' = rows /\ files' = files
  BY DEF rowVars
<1>2. ProcType' /\ Ended(q)
  BY EndsMoves
<1>3. Others(q) /\ Knows(q)'
  BY <1>2 DEF Ended, Knows
<1> QED BY <1>1, <1>2, <1>3, NoRow DEF RowStepOK

LEMMA HeadFirst ==
    ASSUME NEW q \in Requests, Knows(q), NEW c, At(q, c)
    PROVE  \A d \in Left(q) : d = c \/ Precedes(Rank(c[1]), Rank(d[1]))
BY TailCalls DEF Knows, At, Left

\* What was read is there when it is used.
LEMMA HeldAt ==
    ASSUME NEW q \in Requests, Knows(q), NEW v \in Uses, NEW t \in Tables, At(q, <<v, t>>)
    PROVE  Mem(q).held \in Row /\ Mem(q).held.state = "live"
<1>1. Rank(v) \in {3, 4, 5} /\ v \notin {"getStatus", "deploy"}
  BY RankFacts DEF Uses
<1>2. <<v, t>> \in Left(q) /\ RowKnown(q, Left(q), Mem(q))
  BY <1>1, AtRow
<1>3. \A g \in Left(q) : g[1] \notin Getters
  <2> SUFFICES ASSUME NEW g \in Left(q), g[1] \in Getters PROVE FALSE
    OBVIOUS
  <2>1. Rank(g[1]) = 1
    BY RankFacts DEF Getters, Looks
  <2>2. g = <<v, t>> \/ Precedes(Rank(v), Rank(g[1]))
    BY HeadFirst
  <2> QED BY <1>1, <2>1, <2>2 DEF Precedes
<1> QED BY <1>2, <1>3 DEF RowKnown, HeldKnown, LiveRow

LEMMA WriteStep ==
    ASSUME ProcType, RowsTypeOK(Tables), RowsInv, NEW q \in Requests, Knows(q),
           NEW v, Rank(v) \in {4, 5, 6}, v # "deploy", NEW t \in Tables, At(q, <<v, t>>),
           Proceeds(q), UNCHANGED files,
           \/ UNCHANGED rows
           \/ \E i, r : WriteOK(q, Made(<<v, t>>), i, r) /\ rows' = With(rows, <<Made(<<v, t>>), i>>, r),
           v = "remove" /\ t = "artifact" => \A i \in RowIds : i = Mem(q).id => ~Live("artifact", i)'
    PROVE  RowStepOK(q)
<1>1. PICK c : c = <<v, t>>
  OBVIOUS
<1>2. v \notin {"getStatus", "deploy"}
  BY RankFacts DEF Looks
<1>3. /\ RowKnown(q, Left(q), Mem(q)) /\ c \in Left(q)
      /\ Listed(proc[q].todo) /\ Op(q) # "none" /\ Mem(q) \in RowMemory /\ Mem(q) \in Memories
  BY <1>1, <1>2, AtRow
<1>4. ProcType' /\ Moved(q, c, Mem(q))
  BY <1>1, <1>3, ProceedsMoves
<1>5. /\ RowsTypeOK(Tables)' /\ RowsInv' /\ RowEnv(q) /\ FileEnv(q)
      /\ \A k \in DOMAIN rows' : k \notin DOMAIN rows => k[1] = Made(c)
  <2>1. CASE UNCHANGED rows
    BY <2>1, NoRow
  <2>2. CASE \E i, r : WriteOK(q, Made(c), i, r) /\ rows' = With(rows, <<Made(c), i>>, r)
    <3>1. PICK i, r : WriteOK(q, Made(c), i, r) /\ rows' = With(rows, <<Made(c), i>>, r)
      BY <2>2
    <3>2. RowsTypeOK(Tables)' /\ RowsInv' /\ RowEnv(q) /\ FileEnv(q)
      BY <3>1, OneRow
    <3>3. \A k \in DOMAIN rows' : k \notin DOMAIN rows => k[1] = Made(c)
      BY <3>1 DEF With
    <3> QED BY <3>2, <3>3
  <2> QED BY <1>1, <2>1, <2>2
<1>6. c = <<"remove", "artifact">> => \A i \in RowIds : i = Mem(q).id => ~Live("artifact", i)'
  BY <1>1
<1>7. Rank(c[1]) \in {4, 5, 6}
  BY <1>1
<1>8. Knows(q)'
  BY <1>3, <1>4, <1>5, <1>6, <1>7, AfterWrite
<1> QED BY <1>4, <1>5, <1>8 DEF RowStepOK, Moved

(***************************************************************************)
(* The calls that write a row.                                             *)
(***************************************************************************)
RowPre(q) == ProcType /\ RowsTypeOK(Tables) /\ RowsInv /\ Knows(q)

\* A row that is there is written again.
LEMMA LiveWrite ==
    ASSUME RowsTypeOK(Tables), RowsInv, NEW q \in Requests, NEW t \in Tables, NEW i \in RowIds,
           Live(t, i), NEW r \in Row, t \in RefTables => r.ref = rows[<<t, i>>].ref,
           t \in {"event", "canvas"} => r.state = "live",
           \/ r.file = rows[<<t, i>>].file
           \/ t \notin {"frame", "artifact"}
           \/ t = "frame" /\ (r.file \in Shots => <<t, i>> \in DOMAIN files)
    PROVE  WriteOK(q, t, i, r)
<1>1. <<t, i>> \in DOMAIN rows /\ rows[<<t, i>>].state = "live" /\ RowOK(<<t, i>>)
  BY DEF Live, RowsInv
<1>2. ASSUME t \in RefTables, r.ref # Null, NEW j \in RowIds, j # i, <<t, j>> \in DOMAIN rows
      PROVE  rows[<<t, j>>].ref # r.ref
  BY <1>1, <1>2 DEF RowsInv, OneRefEach
<1>3. t = "frame" /\ r.file \in Shots => <<t, i>> \in DOMAIN files
  BY <1>1 DEF RowOK
<1>4. t = "artifact" => /\ r.file \in {Null, i}
                        /\ r.state = "live" /\ r.file # Null => <<t, i>> \in DOMAIN files
  BY <1>1 DEF RowOK
<1> QED BY <1>1, <1>2, <1>3, <1>4 DEF WriteOK

\* At a write nothing is left to be prepared.
LEMMA NothingToPrepare ==
    ASSUME NEW q \in Requests, Knows(q), NEW c, At(q, c), Rank(c[1]) \in {4, 5, 6}
    PROVE  \A d \in Left(q) : d[1] \notin Prepares
<1> SUFFICES ASSUME NEW d \in Left(q), d[1] \in Prepares PROVE FALSE
  OBVIOUS
<1>1. Rank(d[1]) = 2
  BY RankFacts
<1>2. d = c \/ Precedes(Rank(c[1]), Rank(d[1]))
  BY HeadFirst
<1> QED BY <1>1, <1>2 DEF Precedes

\* What is given goes into the row.
LEMMA MergedFacts ==
    ASSUME NEW m, m.held \in Row, m.file \in FileRefs, NEW q \in Requests, NEW t, NEW w \in Row,
           NEW r, r = Merged(m, q, t, w)
    PROVE  /\ r \in Row /\ r.ref = w.ref /\ r.state = w.state /\ r.parent = w.parent /\ r.link = w.link
           /\ r.file = IF m.file # Null THEN m.file
                       ELSE IF t \in {"frame", "doc"} THEN m.held.file ELSE w.file
           /\ r.name = IF "name" \in m.gives THEN q ELSE m.held.name
           /\ r.note = IF "note" \in m.gives THEN q ELSE m.held.note
<1>1. PICK a, b, c : /\ a = IF "name" \in m.gives THEN q ELSE m.held.name
                     /\ b = IF "note" \in m.gives THEN q ELSE m.held.note
                     /\ c = IF m.file # Null THEN m.file
                            ELSE IF t \in {"frame", "doc"} THEN m.held.file ELSE w.file
  OBVIOUS
<1>2. a \in RowIds /\ b \in RowIds /\ c \in FileRefs
  BY <1>1 DEF Row, RowIds
<1>3. PICK x : x = [w EXCEPT !.name = a, !.note = b, !.file = c]
  OBVIOUS
<1>4. /\ x \in Row /\ x.ref = w.ref /\ x.state = w.state /\ x.parent = w.parent /\ x.link = w.link
      /\ x.name = a /\ x.note = b /\ x.file = c
  BY <1>2, <1>3 DEF Row
<1>5. r = x
  BY <1>1, <1>3 DEF Merged, Row
<1> QED BY <1>1, <1>4, <1>5

LEMMA InsertsOK ==
    ASSUME NEW q \in Requests, RowPre(q), NEW t \in Tables, Inserts(q, t)
    PROVE  RowStepOK(q)
<1>1. At(q, <<"insert", t>>) /\ Proceeds(q) /\ UNCHANGED files /\ Knows(q)
  BY DEF Inserts, RowPre
<1>2. PICK m, L : m = Mem(q) /\ L = Left(q)
  OBVIOUS
<1>3. RowKnown(q, L, m) /\ <<"insert", t>> \in L /\ m \in RowMemory
  BY <1>1, <1>2, AtRow
<1>4. Rank("insert") = 4
  BY RankFacts
<1>5. <<"resolve", "frame">> \notin L /\ <<"upload", "artifact">> \notin L
  BY <1>1, <1>2, <1>4, NothingToPrepare DEF Prepares
<1>6. m.id = q /\ <<t, q>> \notin DOMAIN rows /\ m.ref = Null
  BY <1>3 DEF RowKnown, NewRowKnown, Makers, Made
<1>7. PICK r : r = NewRow(m, q)
  OBVIOUS
<1>8. r \in Row /\ r.ref = Null /\ r.file = m.file /\ r.state = "live"
  BY <1>3, <1>6, <1>7 DEF NewRow, Row, RowMemory, RowIds
<1>9. t = "frame" /\ r.file \in Shots => <<t, q>> \in DOMAIN files
  <2>1. <<"insert", "frame">> \in FrameCalls
    BY DEF FrameCalls
  <2> QED BY <1>3, <1>5, <1>6, <1>8, <2>1 DEF RowKnown, FrameKnown
<1>10. t = "artifact" => r.file \in {Null, q} /\ (r.file # Null => <<t, q>> \in DOMAIN files)
  BY <1>3, <1>5, <1>8 DEF RowKnown, ArtifactKnown
<1>11. WriteOK(q, t, q, r)
  BY <1>1, <1>6, <1>8, <1>9, <1>10 DEF WriteOK, RowIds
<1>12. rows' = With(rows, <<t, q>>, r) /\ Made(<<"insert", t>>) = t
  BY <1>2, <1>6, <1>7 DEF Inserts, Made
<1> QED BY <1>1, <1>4, <1>11, <1>12, WriteStep DEF RowPre

LEMMA SavesOK ==
    ASSUME NEW q \in Requests, RowPre(q), NEW t \in Tables, Saves(q, t)
    PROVE  RowStepOK(q)
<1>1. At(q, <<"save", t>>) /\ Proceeds(q) /\ UNCHANGED files /\ Knows(q)
  BY DEF Saves, RowPre
<1>2. PICK m, L : m = Mem(q) /\ L = Left(q)
  OBVIOUS
<1>3. RowKnown(q, L, m) /\ <<"save", t>> \in L /\ m \in RowMemory
  BY <1>1, <1>2, AtRow
<1>4. Rank("save") = 4 /\ Made(<<"save", t>>) = t
  BY RankFacts DEF Made
<1>5. <<"resolve", "frame">> \notin L
  BY <1>1, <1>2, <1>4, NothingToPrepare DEF Prepares
<1>6. m.held \in Row /\ m.held # Null /\ m.id \in RowIds
  BY <1>1, <1>2, <1>3, HeldAt, RowsAssumption DEF Uses, RowMemory
<1>7. ASSUME Live(t, m.id)
      PROVE  \E i, r : WriteOK(q, t, i, r) /\ rows' = With(rows, <<t, i>>, r)
  <2>1. PICK w, r : w = rows[<<t, m.id>>] /\ r = Merged(m, q, t, w)
    OBVIOUS
  <2>2. w \in Row /\ w.state = "live"
    BY <1>7, <2>1 DEF Live, RowPre, RowsTypeOK
  <2>3. r \in Row /\ r.ref = w.ref /\ r.state = "live"
        /\ r.file = IF m.file # Null THEN m.file ELSE IF t \in {"frame", "doc"} THEN m.held.file ELSE w.file
    BY <1>3, <1>6, <2>1, <2>2, MergedFacts DEF RowMemory
  <2>4. \/ r.file = w.file
        \/ t \notin {"frame", "artifact"}
        \/ t = "frame" /\ (r.file \in Shots => <<t, m.id>> \in DOMAIN files)
    <3>1. t = "artifact" => m.file = Null
      BY <1>3 DEF RowKnown, ArtifactKnown
    <3>2. t = "frame" => L \cap FrameCalls # {}
      BY <1>3 DEF FrameCalls
    <3>3. t = "frame" => /\ m.file \in Shots => <<"frame", m.id>> \in DOMAIN files
                         /\ m.held.file \in Shots => <<"frame", m.id>> \in DOMAIN files
      BY <1>3, <1>5, <1>6, <3>2 DEF RowKnown, FrameKnown
    <3> QED BY <2>3, <3>1, <3>3
  <2>5. WriteOK(q, t, m.id, r)
    BY <1>6, <1>7, <2>1, <2>3, <2>4, LiveWrite DEF RowPre
  <2>6. rows' = With(rows, <<t, m.id>>, r)
    BY <1>2, <1>7, <2>1 DEF Saves
  <2> QED BY <2>5, <2>6
<1>8. ~Live(t, m.id) => UNCHANGED rows
  BY <1>2 DEF Saves
<1> QED BY <1>1, <1>4, <1>7, <1>8, WriteStep DEF RowPre

LEMMA RemovesOK ==
    ASSUME NEW q \in Requests, RowPre(q), NEW t \in Tables, t \notin {"event", "canvas"}, Removes(q, t)
    PROVE  RowStepOK(q)
<1>1. At(q, <<"remove", t>>) /\ Proceeds(q) /\ UNCHANGED files /\ Knows(q)
  BY DEF Removes, RowPre
<1>2. PICK i : i = Mem(q).id
  OBVIOUS
<1>3. i \in RowIds
  BY <1>1, <1>2, AtRow DEF RowMemory
<1>4. Rank("remove") = 4 /\ Made(<<"remove", t>>) = t
  BY RankFacts DEF Made
<1>5. ASSUME Live(t, i)
      PROVE  /\ \E r : WriteOK(q, t, i, r) /\ rows' = With(rows, <<t, i>>, r)
             /\ ~Live(t, i)'
  <2>1. PICK w, r : w = rows[<<t, i>>] /\ r = [w EXCEPT !.state = "deleted"]
    OBVIOUS
  <2>2. w \in Row
    BY <1>5, <2>1 DEF Live, RowPre, RowsTypeOK
  <2>3. r \in Row /\ r.ref = w.ref /\ r.file = w.file /\ r.state = "deleted"
    BY <2>1, <2>2 DEF Row
  <2>4. WriteOK(q, t, i, r)
    BY <1>3, <1>5, <2>1, <2>3, LiveWrite DEF RowPre
  <2>5. rows' = With(rows, <<t, i>>, r)
    BY <1>2, <1>5, <2>1 DEF Removes
  <2>6. ~Live(t, i)'
    BY <2>3, <2>5 DEF Live, With
  <2> QED BY <2>4, <2>5, <2>6
<1>6. ~Live(t, i) => UNCHANGED rows /\ ~Live(t, i)'
  BY <1>2 DEF Removes, Live
<1>7. t = "artifact" => \A j \in RowIds : j = Mem(q).id => ~Live("artifact", j)'
  BY <1>2, <1>5, <1>6
<1> QED BY <1>1, <1>4, <1>5, <1>6, <1>7, WriteStep DEF RowPre

LEMMA SyncFrameOK ==
    ASSUME NEW q \in Requests, RowPre(q), SyncFrame(q)
    PROVE  RowStepOK(q)
<1>1. At(q, <<"saveAll", "frame">>) /\ Proceeds(q) /\ UNCHANGED files /\ Knows(q) /\ "frame" \in Tables
  BY DEF SyncFrame, RowPre, Tables, MapTables
<1>2. PICK m, L : m = Mem(q) /\ L = Left(q)
  OBVIOUS
<1>3. RowKnown(q, L, m) /\ <<"saveAll", "frame">> \in L /\ m \in RowMemory
  BY <1>1, <1>2, AtRow
<1>4. Rank("saveAll") = 4 /\ Made(<<"saveAll", "frame">>) = "frame"
  BY RankFacts DEF Made
<1>5. <<"resolve", "frame">> \notin L
  BY <1>1, <1>2, <1>4, NothingToPrepare DEF Prepares
<1>6. m.held \in Row /\ m.held # Null /\ m.id \in RowIds
  BY <1>1, <1>2, <1>3, HeldAt, RowsAssumption DEF Uses, RowMemory
<1>7. ASSUME Live("frame", m.id)
      PROVE  \E i, r : WriteOK(q, "frame", i, r) /\ rows' = With(rows, <<"frame", i>>, r)
  <2>1. PICK n, r : n = [m EXCEPT !.gives = Columns] /\ r = Merged(n, q, "frame", m.held)
    OBVIOUS
  <2>2. n.held = m.held /\ n.file = m.file /\ n.file \in FileRefs
    BY <1>3, <2>1 DEF RowMemory
  <2>3. r \in Row /\ r.file = IF m.file # Null THEN m.file ELSE m.held.file
    <3>1. PICK w : w = m.held
      OBVIOUS
    <3>2. n.held \in Row /\ n.file \in FileRefs /\ w \in Row /\ r = Merged(n, q, "frame", w)
      BY <1>6, <2>1, <2>2, <3>1
    <3>3. r \in Row /\ r.file = IF n.file # Null THEN n.file
                                ELSE IF "frame" \in {"frame", "doc"} THEN n.held.file ELSE w.file
      BY <3>2, MergedFacts
    <3> QED BY <2>2, <3>3
  <2>4. r.file \in Shots => <<"frame", m.id>> \in DOMAIN files
    <3>1. L \cap FrameCalls # {}
      BY <1>3 DEF FrameCalls
    <3> QED BY <1>3, <1>5, <1>6, <2>3, <3>1 DEF RowKnown, FrameKnown
  <2>5. "frame" \notin RefTables
    BY DEF RefTables, MlTables
  <2>6. WriteOK(q, "frame", m.id, r)
    BY <1>1, <1>6, <1>7, <2>3, <2>4, <2>5, LiveWrite DEF RowPre
  <2>7. rows' = With(rows, <<"frame", m.id>>, r)
    BY <1>2, <1>7, <2>1 DEF SyncFrame
  <2> QED BY <2>6, <2>7
<1>8. ~Live("frame", m.id) => UNCHANGED rows
  BY <1>2 DEF SyncFrame
<1> QED BY <1>1, <1>4, <1>7, <1>8, WriteStep DEF RowPre

LEMMA UpsertCanvasOK ==
    ASSUME NEW q \in Requests, RowPre(q), UpsertCanvas(q)
    PROVE  RowStepOK(q)
<1>1. At(q, <<"upsert", "canvas">>) /\ Proceeds(q) /\ UNCHANGED files /\ Knows(q) /\ "canvas" \in Tables
  BY DEF UpsertCanvas, RowPre, Tables, MapTables
<1>2. PICK m : m = Mem(q)
  OBVIOUS
<1>3. m \in RowMemory /\ m.held \in Row /\ m.held.state = "live"
  BY <1>1, <1>2, AtRow, HeldAt DEF Uses
<1>4. Rank("upsert") = 4 /\ Made(<<"upsert", "canvas">>) = "canvas"
  BY RankFacts DEF Made
<1>5. PICK r : r = Merged(m, q, "canvas", m.held)
  OBVIOUS
<1>6. r \in Row /\ r.state = "live"
  BY <1>3, <1>5, MergedFacts DEF RowMemory
<1>7. "canvas" \notin RefTables
  BY DEF RefTables, MlTables
<1>8. <<"canvas", Seed>> \in DOMAIN rows => rows[<<"canvas", Seed>>].state = "live"
  BY DEF RowPre, RowsInv, RowOK
<1>9. WriteOK(q, "canvas", Seed, r)
  BY <1>1, <1>6, <1>7, <1>8 DEF WriteOK, RowIds
<1>10. rows' = With(rows, <<"canvas", Seed>>, r)
  BY <1>2, <1>5 DEF UpsertCanvas
<1> QED BY <1>1, <1>4, <1>9, <1>10, WriteStep DEF RowPre

\* A column of a row that is there is set.
LEMMA ColumnSet ==
    ASSUME NEW q \in Requests, RowPre(q), NEW v, Rank(v) = 4, v \notin {"deploy", "remove"},
           NEW t \in Tables, t \notin {"frame", "artifact"}, At(q, <<v, t>>), Proceeds(q), UNCHANGED files,
           \/ UNCHANGED rows
           \/ \E i \in RowIds, r \in Row :
                /\ Live(t, i) /\ rows' = With(rows, <<t, i>>, r)
                /\ r.ref = rows[<<t, i>>].ref /\ r.state = "live"
    PROVE  RowStepOK(q)
<1>1. v # "firstVersion"
  BY RankFacts
<1>2. Made(<<v, t>>) = t
  BY <1>1 DEF Made
<1>3. ASSUME NEW i \in RowIds, NEW r \in Row, Live(t, i), rows' = With(rows, <<t, i>>, r),
             r.ref = rows[<<t, i>>].ref, r.state = "live"
      PROVE  WriteOK(q, t, i, r)
  BY <1>3, LiveWrite DEF RowPre
<1>4. UNCHANGED rows \/ \E i, r : WriteOK(q, t, i, r) /\ rows' = With(rows, <<t, i>>, r)
  BY <1>3
<1> QED BY <1>2, <1>4, WriteStep DEF RowPre

LEMMA ColumnSetsOK ==
    ASSUME NEW q \in Requests, RowPre(q),
           \/ TouchChatSession(q) \/ UpdateEvent(q) \/ UpdateMLModel(q)
           \/ SetMLModelVersionRun(q) \/ SetMLEvaluationsVersion(q)
    PROVE  RowStepOK(q)
<1>1. /\ "chat" \in Tables /\ "event" \in Tables /\ "model" \in Tables /\ "version" \in Tables
      /\ "evaluation" \in Tables
  BY DEF Tables, NoteTables, MlTables
<1>2. /\ Rank("touch") = 4 /\ Rank("saveEvent") = 4 /\ Rank("saveCard") = 4 /\ Rank("setRun") = 4
      /\ Rank("setVersion") = 4
  BY RankFacts
<1>3. q \in RowIds /\ q \in FileRefs /\ Knows(q)
  BY DEF RowIds, FileRefs, RowPre
<1>4. ASSUME NEW k \in DOMAIN rows, NEW x \in RowIds \cup {Null}, NEW r,
             \/ r = [rows[k] EXCEPT !.link = x]
             \/ r = [rows[k] EXCEPT !.name = q, !.note = q]
             \/ r = [rows[k] EXCEPT !.file = q]
      PROVE  r \in Row /\ r.ref = rows[k].ref /\ r.state = rows[k].state
  <2>1. PICK w : w = rows[k]
    OBVIOUS
  <2>2. w \in Row
    BY <1>4, <2>1 DEF RowPre, RowsTypeOK
  <2>3. \/ r = [w EXCEPT !.link = x]
        \/ r = [w EXCEPT !.name = q, !.note = q]
        \/ r = [w EXCEPT !.file = q]
    BY <1>4, <2>1
  <2>4. r \in Row /\ r.ref = w.ref /\ r.state = w.state
    BY <1>3, <2>2, <2>3 DEF Row
  <2> QED BY <2>1, <2>4
<1>5. PICK m : m = Mem(q)
  OBVIOUS
<1>6. ASSUME NEW v, v \notin {"getStatus", "deploy"}, NEW t \in Tables, At(q, <<v, t>>)
      PROVE  m.id \in RowIds /\ m.link \in RowIds \cup {Null}
  BY <1>3, <1>5, <1>6, AtRow DEF RowMemory
<1>7. CASE TouchChatSession(q)
  <2>1. At(q, <<"touch", "chat">>) /\ Proceeds(q) /\ UNCHANGED files
    BY <1>7 DEF TouchChatSession
  <2>2. m.id \in RowIds
    BY <1>1, <1>6, <2>1
  <2>3. ASSUME Live("chat", m.id)
        PROVE  \E i \in RowIds, r \in Row :
                /\ Live("chat", i) /\ rows' = With(rows, <<"chat", i>>, r)
                /\ r.ref = rows[<<"chat", i>>].ref /\ r.state = "live"
    <3>1. PICK r : r = [rows[<<"chat", m.id>>] EXCEPT !.link = q]
      OBVIOUS
    <3>2. rows' = With(rows, <<"chat", m.id>>, r) /\ <<"chat", m.id>> \in DOMAIN rows
          /\ rows[<<"chat", m.id>>].state = "live"
      BY <1>5, <1>7, <2>3, <3>1 DEF TouchChatSession, Live
    <3>4. r \in Row /\ r.ref = rows[<<"chat", m.id>>].ref /\ r.state = rows[<<"chat", m.id>>].state
      <4>1. PICK k, x : k = <<"chat", m.id>> /\ x = q
        OBVIOUS
      <4> QED BY <1>3, <1>4, <2>2, <2>3, <3>1, <3>2, <4>1
    <3> QED BY <2>2, <2>3, <3>2, <3>4
  <2>4. ~Live("chat", m.id) => UNCHANGED rows
    BY <1>5, <1>7 DEF TouchChatSession
  <2> QED BY <1>1, <1>2, <2>1, <2>3, <2>4, ColumnSet
<1>8. CASE UpdateEvent(q)
  <2>1. At(q, <<"saveEvent", "event">>) /\ Proceeds(q) /\ UNCHANGED files
    BY <1>8 DEF UpdateEvent
  <2>2. m.id \in RowIds
    BY <1>1, <1>6, <2>1
  <2>3. ASSUME <<"event", m.id>> \in DOMAIN rows
        PROVE  \E i \in RowIds, r \in Row :
                /\ Live("event", i) /\ rows' = With(rows, <<"event", i>>, r)
                /\ r.ref = rows[<<"event", i>>].ref /\ r.state = "live"
    <3>1. PICK r : r = [rows[<<"event", m.id>>] EXCEPT !.name = q, !.note = q]
      OBVIOUS
    <3>2. rows' = With(rows, <<"event", m.id>>, r)
      BY <1>5, <1>8, <2>3, <3>1 DEF UpdateEvent
    <3>3. Live("event", m.id) /\ rows[<<"event", m.id>>].state = "live"
      BY <2>3 DEF Live, RowPre, RowsInv, RowOK
    <3>4. r \in Row /\ r.ref = rows[<<"event", m.id>>].ref /\ r.state = rows[<<"event", m.id>>].state
      <4>1. PICK k, x : k = <<"event", m.id>> /\ x = q
        OBVIOUS
      <4> QED BY <1>3, <1>4, <2>2, <2>3, <3>1, <3>2, <4>1
    <3> QED BY <2>2, <2>3, <3>2, <3>3, <3>4
  <2>4. <<"event", m.id>> \notin DOMAIN rows => UNCHANGED rows
    BY <1>5, <1>8 DEF UpdateEvent
  <2> QED BY <1>1, <1>2, <2>1, <2>3, <2>4, ColumnSet
<1>9. CASE UpdateMLModel(q)
  <2>1. At(q, <<"saveCard", "model">>) /\ Proceeds(q) /\ UNCHANGED files
    BY <1>9 DEF UpdateMLModel
  <2>2. m.id \in RowIds
    BY <1>1, <1>6, <2>1
  <2>3. ASSUME Live("model", m.id)
        PROVE  \E i \in RowIds, r \in Row :
                /\ Live("model", i) /\ rows' = With(rows, <<"model", i>>, r)
                /\ r.ref = rows[<<"model", i>>].ref /\ r.state = "live"
    <3>1. PICK r : r = [rows[<<"model", m.id>>] EXCEPT !.file = q]
      OBVIOUS
    <3>2. rows' = With(rows, <<"model", m.id>>, r) /\ <<"model", m.id>> \in DOMAIN rows
          /\ rows[<<"model", m.id>>].state = "live"
      BY <1>5, <1>9, <2>3, <3>1 DEF UpdateMLModel, Live
    <3>4. r \in Row /\ r.ref = rows[<<"model", m.id>>].ref /\ r.state = rows[<<"model", m.id>>].state
      <4>1. PICK k, x : k = <<"model", m.id>> /\ x = q
        OBVIOUS
      <4> QED BY <1>3, <1>4, <2>2, <2>3, <3>1, <3>2, <4>1
    <3> QED BY <2>2, <2>3, <3>2, <3>4
  <2>4. ~Live("model", m.id) => UNCHANGED rows
    BY <1>5, <1>9 DEF UpdateMLModel
  <2> QED BY <1>1, <1>2, <2>1, <2>3, <2>4, ColumnSet
<1>10. CASE SetMLModelVersionRun(q)
  <2>1. At(q, <<"setRun", "version">>) /\ Proceeds(q) /\ UNCHANGED files
    BY <1>10 DEF SetMLModelVersionRun
  <2>2. m.id \in RowIds /\ m.link \in RowIds \cup {Null}
    BY <1>1, <1>6, <2>1
  <2>3. ASSUME Live("version", m.id)
        PROVE  \E i \in RowIds, r \in Row :
                /\ Live("version", i) /\ rows' = With(rows, <<"version", i>>, r)
                /\ r.ref = rows[<<"version", i>>].ref /\ r.state = "live"
    <3>1. PICK r : r = [rows[<<"version", m.id>>] EXCEPT !.link = m.link]
      OBVIOUS
    <3>2. rows' = With(rows, <<"version", m.id>>, r) /\ <<"version", m.id>> \in DOMAIN rows
          /\ rows[<<"version", m.id>>].state = "live"
      BY <1>5, <1>10, <2>3, <3>1 DEF SetMLModelVersionRun, Live
    <3>4. r \in Row /\ r.ref = rows[<<"version", m.id>>].ref /\ r.state = rows[<<"version", m.id>>].state
      <4>1. PICK k, x : k = <<"version", m.id>> /\ x = m.link
        OBVIOUS
      <4> QED BY <1>3, <1>4, <2>2, <2>3, <3>1, <3>2, <4>1
    <3> QED BY <2>2, <2>3, <3>2, <3>4
  <2>4. ~Live("version", m.id) => UNCHANGED rows
    BY <1>5, <1>10 DEF SetMLModelVersionRun
  <2> QED BY <1>1, <1>2, <2>1, <2>3, <2>4, ColumnSet
<1>11. CASE SetMLEvaluationsVersion(q)
  <2>1. At(q, <<"setVersion", "evaluation">>) /\ Proceeds(q) /\ UNCHANGED files
    BY <1>11 DEF SetMLEvaluationsVersion
  <2>2. m.id \in RowIds /\ m.link \in RowIds \cup {Null}
    BY <1>1, <1>6, <2>1
  <2>3. ASSUME Live("evaluation", m.id), m.link # Null
        PROVE  \E i \in RowIds, r \in Row :
                /\ Live("evaluation", i) /\ rows' = With(rows, <<"evaluation", i>>, r)
                /\ r.ref = rows[<<"evaluation", i>>].ref /\ r.state = "live"
    <3>1. PICK r : r = [rows[<<"evaluation", m.id>>] EXCEPT !.link = m.link]
      OBVIOUS
    <3>2. rows' = With(rows, <<"evaluation", m.id>>, r) /\ <<"evaluation", m.id>> \in DOMAIN rows
          /\ rows[<<"evaluation", m.id>>].state = "live"
      BY <1>5, <1>11, <2>3, <3>1 DEF SetMLEvaluationsVersion, Live
    <3>4. r \in Row /\ r.ref = rows[<<"evaluation", m.id>>].ref /\ r.state = rows[<<"evaluation", m.id>>].state
      <4>1. PICK k, x : k = <<"evaluation", m.id>> /\ x = m.link
        OBVIOUS
      <4> QED BY <1>3, <1>4, <2>2, <2>3, <3>1, <3>2, <4>1
    <3> QED BY <2>2, <2>3, <3>2, <3>4
  <2>4. ~(Live("evaluation", m.id) /\ m.link # Null) => UNCHANGED rows
    BY <1>5, <1>11 DEF SetMLEvaluationsVersion
  <2> QED BY <1>1, <1>2, <2>1, <2>3, <2>4, ColumnSet
<1> QED BY <1>7, <1>8, <1>9, <1>10, <1>11

LEMMA UpdateMLProjectOK ==
    ASSUME NEW q \in Requests, RowPre(q), UpdateMLProject(q)
    PROVE  RowStepOK(q)
<1>1. At(q, <<"saveProject", "project">>) /\ UNCHANGED files /\ Knows(q) /\ "project" \in Tables
  BY DEF UpdateMLProject, RowPre, Tables, MlTables
<1>2. PICK m : m = Mem(q)
  OBVIOUS
<1>3. m \in RowMemory /\ m.held \in Row /\ m.id \in RowIds /\ Op(q) # "none"
  BY <1>1, <1>2, AtRow, HeldAt DEF Uses, RowMemory
<1>4. Rank("saveProject") = 4 /\ Made(<<"saveProject", "project">>) = "project"
  BY RankFacts DEF Made
<1>5. PICK ref : ref = IF m.ref = Null THEN m.held.ref ELSE m.ref
  OBVIOUS
<1>6. ref \in Refs \cup {Null}
  BY <1>3, <1>5 DEF Row, RowMemory
<1>7. CASE ~Live("project", m.id)
  <2>1. Proceeds(q) /\ UNCHANGED rows
    BY <1>2, <1>7 DEF UpdateMLProject
  <2> QED BY <1>1, <1>4, <2>1, WriteStep DEF RowPre
<1>8. CASE Live("project", m.id) /\ ProjectNameTaken(m.id, ref)
  <2>1. Ends(q) /\ UNCHANGED rowVars
    BY <1>1, <1>2, <1>5, <1>8 DEF UpdateMLProject, rowVars
  <2> QED BY <1>3, <2>1, EndsOK DEF RowPre
<1>9. CASE Live("project", m.id) /\ ~ProjectNameTaken(m.id, ref)
  <2>1. PICK w, x, r : /\ w = rows[<<"project", m.id>>] /\ x = Merged(m, q, "project", w)
                       /\ r = [x EXCEPT !.ref = ref]
    OBVIOUS
  <2>2. w \in Row /\ w.state = "live"
    BY <1>9, <2>1 DEF Live, RowPre, RowsTypeOK
  <2>3. x \in Row /\ x.state = "live"
    BY <1>3, <2>1, <2>2, MergedFacts DEF RowMemory
  <2>4. r \in Row /\ r.state = "live" /\ r.ref = ref
    BY <1>6, <2>1, <2>3 DEF Row
  <2>5. \A j \in RowIds : j # m.id /\ <<"project", j>> \in DOMAIN rows => rows[<<"project", j>>].ref # ref
    BY <1>9 DEF ProjectNameTaken, RefOwners, Known
  <2>6. WriteOK(q, "project", m.id, r)
    BY <1>1, <1>3, <1>9, <2>4, <2>5 DEF WriteOK, Live
  <2>7. rows' = With(rows, <<"project", m.id>>, r) /\ Proceeds(q)
    BY <1>2, <1>5, <1>9, <2>1 DEF UpdateMLProject
  <2> QED BY <1>1, <1>4, <2>6, <2>7, WriteStep DEF RowPre
<1> QED BY <1>7, <1>8, <1>9

LEMMA CreateMLModelVersionOK ==
    ASSUME NEW q \in Requests, RowPre(q), CreateMLModelVersion(q)
    PROVE  RowStepOK(q)
<1>1. /\ At(q, <<"firstVersion", "model">>) /\ Proceeds(q) /\ UNCHANGED files /\ Knows(q)
      /\ "model" \in Tables /\ "version" \in Tables
  BY DEF CreateMLModelVersion, RowPre, Tables, MlTables
<1>2. PICK m, L : m = Mem(q) /\ L = Left(q)
  OBVIOUS
<1>3. RowKnown(q, L, m) /\ <<"firstVersion", "model">> \in L /\ m \in RowMemory
  BY <1>1, <1>2, AtRow
<1>4. Rank("firstVersion") = 5 /\ Made(<<"firstVersion", "model">>) = "version"
  BY RankFacts DEF Made
<1>5. <<"version", q>> \notin DOMAIN rows /\ m.ref = Null
  BY <1>3 DEF RowKnown, NewRowKnown, Makers, Made
<1>6. PICK r : r = [NewRow(m, q) EXCEPT !.parent = q]
  OBVIOUS
<1>7. r \in Row /\ r.ref = Null /\ r.state = "live"
  BY <1>3, <1>5, <1>6 DEF NewRow, Row, RowMemory, RowIds
<1>8. WriteOK(q, "version", q, r)
  BY <1>1, <1>5, <1>7 DEF WriteOK, RowIds
<1>9. rows' = With(rows, <<"version", q>>, r)
  BY <1>2, <1>6 DEF CreateMLModelVersion
<1> QED BY <1>1, <1>4, <1>8, <1>9, WriteStep DEF RowPre

LEMMA MergedSavesOK ==
    ASSUME NEW q \in Requests, RowPre(q), UpdateMLExperiment(q) \/ UpdateMLFinding(q)
    PROVE  RowStepOK(q)
<1>1. Knows(q) /\ "experiment" \in Tables /\ "finding" \in Tables
  BY DEF RowPre, Tables, MlTables
<1>2. PICK m : m = Mem(q)
  OBVIOUS
<1>3. Rank("saveExperiment") = 4 /\ Rank("saveFinding") = 4
  BY RankFacts
<1>4. ASSUME NEW t \in Tables, Live(t, m.id), m \in RowMemory, m.held \in Row,
             NEW r, \/ \E y \in RowIds \cup {Null} :
                         r = [Merged(m, q, t, rows[<<t, m.id>>]) EXCEPT !.parent = y]
                    \/ \E y \in RowIds \cup {Null} :
                         r = [Merged(m, q, t, rows[<<t, m.id>>]) EXCEPT !.link = y]
      PROVE  r \in Row /\ r.ref = rows[<<t, m.id>>].ref /\ r.state = "live"
  <2>1. PICK w, x : w = rows[<<t, m.id>>] /\ x = Merged(m, q, t, w)
    OBVIOUS
  <2>2. w \in Row /\ w.state = "live"
    BY <1>4, <2>1 DEF Live, RowPre, RowsTypeOK
  <2>3. x \in Row /\ x.state = "live" /\ x.ref = w.ref
    BY <1>4, <2>1, <2>2, MergedFacts DEF RowMemory
  <2>4. PICK y \in RowIds \cup {Null} : r = [x EXCEPT !.parent = y] \/ r = [x EXCEPT !.link = y]
    BY <1>4, <2>1
  <2>5. r \in Row /\ r.ref = x.ref /\ r.state = "live"
    BY <2>3, <2>4 DEF Row
  <2> QED BY <2>1, <2>3, <2>5
<1>5. CASE UpdateMLExperiment(q)
  <2>1. At(q, <<"saveExperiment", "experiment">>) /\ Proceeds(q) /\ UNCHANGED files
    BY <1>5 DEF UpdateMLExperiment
  <2>2. m \in RowMemory /\ m.held \in Row /\ m.id \in RowIds
    BY <1>1, <1>2, <2>1, AtRow, HeldAt DEF Uses, RowMemory
  <2>3. ASSUME Live("experiment", m.id)
        PROVE  \E i \in RowIds, r \in Row :
                /\ Live("experiment", i) /\ rows' = With(rows, <<"experiment", i>>, r)
                /\ r.ref = rows[<<"experiment", i>>].ref /\ r.state = "live"
    <3>1. PICK y : y = IF m.link = Null THEN m.held.parent ELSE m.link
      OBVIOUS
    <3>2. y \in RowIds \cup {Null}
      BY <2>2, <3>1 DEF RowMemory, Row
    <3>3. PICK r : r = [Merged(m, q, "experiment", rows[<<"experiment", m.id>>]) EXCEPT !.parent = y]
      OBVIOUS
    <3>4. r \in Row /\ r.ref = rows[<<"experiment", m.id>>].ref /\ r.state = "live"
      BY <1>1, <1>4, <2>2, <2>3, <3>2, <3>3
    <3>5. rows' = With(rows, <<"experiment", m.id>>, r)
      BY <1>2, <1>5, <2>3, <3>1, <3>3 DEF UpdateMLExperiment
    <3> QED BY <2>2, <2>3, <3>4, <3>5
  <2>4. ~Live("experiment", m.id) => UNCHANGED rows
    BY <1>2, <1>5 DEF UpdateMLExperiment
  <2> QED BY <1>1, <1>3, <2>1, <2>3, <2>4, ColumnSet
<1>6. CASE UpdateMLFinding(q)
  <2>1. At(q, <<"saveFinding", "finding">>) /\ Proceeds(q) /\ UNCHANGED files
    BY <1>6 DEF UpdateMLFinding
  <2>2. m \in RowMemory /\ m.held \in Row /\ m.id \in RowIds
    BY <1>1, <1>2, <2>1, AtRow, HeldAt DEF Uses, RowMemory
  <2>3. ASSUME Live("finding", m.id)
        PROVE  \E i \in RowIds, r \in Row :
                /\ Live("finding", i) /\ rows' = With(rows, <<"finding", i>>, r)
                /\ r.ref = rows[<<"finding", i>>].ref /\ r.state = "live"
    <3>1. PICK y : y = IF m.link = Null THEN m.held.link ELSE m.link
      OBVIOUS
    <3>2. y \in RowIds \cup {Null}
      BY <2>2, <3>1 DEF RowMemory, Row
    <3>3. PICK r : r = [Merged(m, q, "finding", rows[<<"finding", m.id>>]) EXCEPT !.link = y]
      OBVIOUS
    <3>4. r \in Row /\ r.ref = rows[<<"finding", m.id>>].ref /\ r.state = "live"
      BY <1>1, <1>4, <2>2, <2>3, <3>2, <3>3
    <3>5. rows' = With(rows, <<"finding", m.id>>, r)
      BY <1>2, <1>6, <2>3, <3>1, <3>3 DEF UpdateMLFinding
    <3> QED BY <2>2, <2>3, <3>4, <3>5
  <2>4. ~Live("finding", m.id) => UNCHANGED rows
    BY <1>2, <1>6 DEF UpdateMLFinding
  <2> QED BY <1>1, <1>3, <2>1, <2>3, <2>4, ColumnSet
<1> QED BY <1>5, <1>6

(***************************************************************************)
(* The calls that write the rows of a reference.                           *)
(***************************************************************************)
SpreadOK(q) ==
    /\ DOMAIN rows' = DOMAIN rows
    /\ \A k \in DOMAIN rows :
         /\ rows'[k] \in Row /\ rows'[k].ref = rows[k].ref
         /\ rows'[k].state = rows[k].state \/ k[1] = "project"
         /\ rows'[k].file = rows[k].file \/ k[1] = "model"
         /\ rows[k].state = "deleted" /\ rows'[k] # rows[k] => Op(q) \in Revivers

LEMMA SpreadStep ==
    ASSUME NEW q \in Requests, RowPre(q), NEW v, Rank(v) = 4, v \notin {"deploy", "remove"},
           NEW t \in Tables, At(q, <<v, t>>), Proceeds(q), UNCHANGED files, SpreadOK(q)
    PROVE  RowStepOK(q)
<1>1. PICK c : c = <<v, t>>
  OBVIOUS
<1>2. v \notin {"getStatus", "deploy"}
  BY RankFacts DEF Looks
<1>3. /\ RowKnown(q, Left(q), Mem(q)) /\ c \in Left(q)
      /\ Listed(proc[q].todo) /\ Op(q) # "none" /\ Mem(q) \in Memories
  BY <1>1, <1>2, AtRow DEF RowPre
<1>4. ProcType' /\ Moved(q, c, Mem(q))
  BY <1>1, <1>3, ProceedsMoves DEF RowPre
<1>5. RowsTypeOK(Tables)'
  BY DEF RowPre, RowsTypeOK, SpreadOK
<1>6. \A k \in DOMAIN rows' : RowOK(k)'
  <2> SUFFICES ASSUME NEW k \in DOMAIN rows PROVE RowOK(k)'
    BY DEF SpreadOK
  <2>1. RowOK(k)
    BY DEF RowPre, RowsInv
  <2> QED BY <2>1 DEF RowOK, SpreadOK
<1>7. OneRefEach'
  <2>1. \A k \in DOMAIN rows' : k \in DOMAIN rows /\ rows'[k].ref = rows[k].ref
    BY DEF SpreadOK
  <2> QED BY <2>1 DEF RowPre, RowsInv, OneRefEach
<1>8. RowEnv(q)
  <2>1. proc'[q] # proc[q]
    BY <1>4 DEF Moved
  <2>2. \A i \in RowIds : <<"artifact", i>> \in DOMAIN rows =>
          /\ <<"artifact", i>> \in DOMAIN rows'
          /\ ~Live("artifact", i) => ~Live("artifact", i)'
    BY DEF SpreadOK, Live
  <2>3. \A i \in RowIds : Live("map", i)' => Live("map", i)
    BY DEF SpreadOK, Live
  <2> QED BY <2>1, <2>2, <2>3 DEF RowEnv, SpreadOK
<1>9. FileEnv(q)
  BY DEF FileEnv
<1>10. Knows(q)'
  <2>1. Rank(c[1]) \in {4, 5, 6} /\ c # <<"remove", "artifact">>
    BY <1>1
  <2>2. \A k \in DOMAIN rows' : k \notin DOMAIN rows => k[1] = Made(c)
    BY DEF SpreadOK
  <2> QED BY <1>3, <1>4, <1>8, <2>1, <2>2, AfterWrite
<1> QED BY <1>4, <1>5, <1>6, <1>7, <1>8, <1>9, <1>10 DEF RowStepOK, RowsInv, Moved

LEMMA UpsertsOK ==
    ASSUME NEW q \in Requests, RowPre(q), NEW v, NEW t \in RefTables,
           \/ v = "sync"
           \/ v = "createProject" /\ t = "project"
           \/ v = "syncEvent" /\ t = "event",
           At(q, <<v, t>>), NEW link \in RowIds \cup {Null}, Upserts(q, t, link), Proceeds(q),
           UNCHANGED files
    PROVE  RowStepOK(q)
<1>1. PICK m, L, old : m = Mem(q) /\ L = Left(q) /\ old = RefOwners(t, m.ref)
  OBVIOUS
<1>2. t \in Tables /\ v \notin {"getStatus", "deploy", "remove", "insert", "firstVersion"}
      /\ Knows(q) /\ q \in RowIds /\ t \notin {"frame", "map"}
  BY DEF RefTables, Tables, NoteTables, MlTables, RowPre, RowIds
<1>3. RowKnown(q, L, m) /\ <<v, t>> \in L /\ m \in RowMemory
  BY <1>1, <1>2, AtRow
<1>4. Rank(v) = 4 /\ Made(<<v, t>>) = t
  BY <1>2, RankFacts DEF Made
<1>5. /\ m.ref \in Refs /\ m.ref # Null /\ <<t, q>> \notin DOMAIN rows
      /\ v # "syncEvent" => Op(q) \in Revivers
  BY <1>3, RowsAssumption DEF RowKnown, NewRowKnown, Makers, Made
<1>6. CASE old = {}
  <2>1. PICK r : r = NewRow([m EXCEPT !.link = link], q)
    OBVIOUS
  <2>2. r \in Row /\ r.ref = m.ref /\ r.state = "live" /\ r.file = m.file
    <3>1. PICK n : n = [m EXCEPT !.link = link]
      OBVIOUS
    <3>2. n \in RowMemory /\ n.ref = m.ref /\ n.file = m.file
      BY <1>3, <3>1 DEF RowMemory
    <3>3. r = NewRow(n, q)
      BY <2>1, <3>1
    <3> QED BY <1>2, <3>2, <3>3 DEF NewRow, Row, RowMemory
  <2>3. t = "artifact" => m.file = Null
    BY <1>3 DEF RowKnown, ArtifactKnown
  <2>4. \A j \in RowIds : <<t, j>> \in DOMAIN rows => rows[<<t, j>>].ref # m.ref
    BY <1>1, <1>6 DEF RefOwners, Known
  <2>5. WriteOK(q, t, q, r)
    BY <1>2, <1>5, <2>2, <2>3, <2>4 DEF WriteOK
  <2>6. rows' = With(rows, <<t, q>>, r)
    BY <1>1, <1>6, <2>1 DEF Upserts
  <2> QED BY <1>2, <1>4, <2>5, <2>6, WriteStep DEF RowPre
<1>7. CASE old # {}
  <2>1. rows' = [k \in DOMAIN rows |->
                    IF k[1] = t /\ k[2] \in old
                    THEN [rows[k] EXCEPT !.name = q, !.note = q,
                                         !.file = IF t = "model" THEN q ELSE @,
                                         !.parent = IF m.parent = Null THEN @ ELSE m.parent,
                                         !.link = IF link = Null THEN @ ELSE link]
                    ELSE rows[k]]
    BY <1>1, <1>7 DEF Upserts
  <2>2. ASSUME NEW k \in DOMAIN rows
        PROVE  /\ rows'[k] \in Row /\ rows'[k].ref = rows[k].ref
               /\ rows'[k].state = rows[k].state
               /\ rows'[k].file = rows[k].file \/ k[1] = "model"
               /\ rows'[k] # rows[k] => k[1] = t
    <3>1. PICK w : w = rows[k]
      OBVIOUS
    <3>2. w \in Row
      BY <3>1 DEF RowPre, RowsTypeOK
    <3>3. CASE k[1] = t /\ k[2] \in old
      <4>1. PICK f, p, l : /\ f = IF t = "model" THEN q ELSE w.file
                           /\ p = IF m.parent = Null THEN w.parent ELSE m.parent
                           /\ l = IF link = Null THEN w.link ELSE link
        OBVIOUS
      <4>2. f \in FileRefs /\ p \in RowIds \cup {Null} /\ l \in RowIds \cup {Null}
        BY <1>2, <1>3, <3>2, <4>1 DEF Row, RowMemory, FileRefs
      <4>3. PICK x : x = [w EXCEPT !.name = q, !.note = q, !.file = f, !.parent = p, !.link = l]
        OBVIOUS
      <4>4. x \in Row /\ x.ref = w.ref /\ x.state = w.state /\ x.file = f
        BY <1>2, <3>2, <4>2, <4>3 DEF Row
      <4>5. rows'[k] = x
        BY <2>1, <3>1, <3>2, <3>3, <4>1, <4>3 DEF Row
      <4> QED BY <3>1, <3>3, <4>1, <4>4, <4>5
    <3>4. CASE ~(k[1] = t /\ k[2] \in old)
      BY <2>1, <3>1, <3>2, <3>4
    <3> QED BY <3>3, <3>4
  <2>3. ASSUME NEW k \in DOMAIN rows, rows[k].state = "deleted", rows'[k] # rows[k]
        PROVE  Op(q) \in Revivers
    <3>1. RowOK(k) /\ k[1] = t
      BY <2>2, <2>3 DEF RowPre, RowsInv
    <3>2. t # "event"
      BY <2>3, <3>1 DEF RowOK
    <3> QED BY <1>5, <3>2
  <2>4. SpreadOK(q)
    BY <2>1, <2>2, <2>3 DEF SpreadOK
  <2> QED BY <1>2, <1>4, <2>4, SpreadStep
<1> QED BY <1>6, <1>7

LEMMA RestoresOK ==
    ASSUME NEW q \in Requests, RowPre(q), RestoreMLProjects(q)
    PROVE  RowStepOK(q)
<1>1. /\ At(q, <<"restore", "project">>) /\ Proceeds(q) /\ UNCHANGED files /\ Knows(q)
      /\ "project" \in Tables /\ Rank("restore") = 4
  BY RankFacts DEF RestoreMLProjects, RowPre, Tables, MlTables
<1>2. Op(q) \in Revivers
  <2>1. RowKnown(q, Left(q), Mem(q)) /\ <<"restore", "project">> \in Left(q)
    BY <1>1, AtRow
  <2> QED BY <2>1 DEF RowKnown, NewRowKnown
<1>3. PICK a : a = Mem(q).ref
  OBVIOUS
<1>4. rows' = [k \in DOMAIN rows |-> IF k[1] = "project" /\ rows[k].ref = a
                                      THEN [rows[k] EXCEPT !.state = "live"] ELSE rows[k]]
  BY <1>3 DEF RestoreMLProjects
<1>5. ASSUME NEW k \in DOMAIN rows
      PROVE  /\ rows'[k] \in Row /\ rows'[k].ref = rows[k].ref /\ rows'[k].file = rows[k].file
             /\ rows'[k].state = rows[k].state \/ k[1] = "project"
  <2>1. PICK w : w = rows[k]
    OBVIOUS
  <2>2. w \in Row
    BY <2>1 DEF RowPre, RowsTypeOK
  <2>3. PICK x : x = [w EXCEPT !.state = "live"]
    OBVIOUS
  <2>4. x \in Row /\ x.ref = w.ref /\ x.file = w.file
    BY <2>2, <2>3 DEF Row
  <2>5. rows'[k] = IF k[1] = "project" /\ w.ref = a THEN x ELSE w
    BY <1>4, <2>1, <2>3
  <2> QED BY <2>1, <2>2, <2>4, <2>5
<1>6. SpreadOK(q)
  BY <1>2, <1>4, <1>5 DEF SpreadOK
<1> QED BY <1>1, <1>6, SpreadStep

LEMMA DeleteEventOK ==
    ASSUME NEW q \in Requests, RowPre(q), DeleteEvent(q)
    PROVE  RowStepOK(q)
<1>1. /\ At(q, <<"erase", "event">>) /\ Proceeds(q) /\ UNCHANGED files /\ Knows(q)
      /\ "event" \in Tables /\ Rank("erase") = 4
  BY RankFacts DEF DeleteEvent, RowPre, Tables, NoteTables
<1>2. PICK k, c : k = <<"event", Mem(q).id>> /\ c = <<"erase", "event">>
  OBVIOUS
<1>3. /\ RowKnown(q, Left(q), Mem(q)) /\ c \in Left(q)
      /\ Listed(proc[q].todo) /\ Op(q) # "none" /\ Mem(q) \in Memories
  BY <1>1, <1>2, AtRow
<1>4. ProcType' /\ Moved(q, c, Mem(q))
  BY <1>1, <1>2, <1>3, ProceedsMoves DEF RowPre
<1>5. DOMAIN rows' = DOMAIN rows \ {k} /\ (\A x \in DOMAIN rows' : rows'[x] = rows[x]) /\ k[1] = "event"
  BY <1>2 DEF DeleteEvent, Without
<1>6. RowsTypeOK(Tables)'
  BY <1>1, <1>5 DEF RowPre, RowsTypeOK
<1>7. \A x \in DOMAIN rows' : RowOK(x)'
  <2> SUFFICES ASSUME NEW x \in DOMAIN rows' PROVE RowOK(x)'
    OBVIOUS
  <2>1. RowOK(x) /\ rows'[x] = rows[x]
    BY <1>5 DEF RowPre, RowsInv
  <2> QED BY <1>1, <2>1 DEF RowOK
<1>8. OneRefEach'
  BY <1>5 DEF RowPre, RowsInv, OneRefEach
<1>9. RowEnv(q)
  <2>1. k \in DOMAIN rows => rows[k].state = "live"
    BY <1>5 DEF RowPre, RowsInv, RowOK
  <2>2. \A x \in DOMAIN rows : rows[x].state = "deleted" => x \in DOMAIN rows' /\ rows'[x] = rows[x]
    BY <1>5, <2>1
  <2>3. \A i \in RowIds : <<"artifact", i>> \in DOMAIN rows =>
          /\ <<"artifact", i>> \in DOMAIN rows'
          /\ ~Live("artifact", i) => ~Live("artifact", i)'
    BY <1>2, <1>5 DEF Live
  <2>4. \A i \in RowIds : Live("map", i)' => Live("map", i)
    BY <1>5 DEF Live
  <2> QED BY <1>5, <2>2, <2>3, <2>4 DEF RowEnv
<1>10. FileEnv(q)
  BY <1>1 DEF FileEnv
<1>11. Knows(q)'
  <2>1. Rank(c[1]) \in {4, 5, 6} /\ c # <<"remove", "artifact">>
    BY <1>1, <1>2
  <2>2. \A x \in DOMAIN rows' : x \notin DOMAIN rows => x[1] = Made(c)
    BY <1>5
  <2> QED BY <1>3, <1>4, <1>9, <2>1, <2>2, AfterWrite
<1> QED BY <1>4, <1>6, <1>7, <1>8, <1>9, <1>10, <1>11 DEF RowStepOK, RowsInv, Moved

(***************************************************************************)
(* The calls that look.                                                    *)
(***************************************************************************)
LEMMA ReadStep ==
    ASSUME NEW q \in Requests, RowPre(q), NEW v \in Looks, v # "getStatus", NEW t \in Tables,
           At(q, <<v, t>>), UNCHANGED rowVars,
           \/ Ends(q)
           \/ v \notin Getters /\ (Proceeds(q) \/ Skips(q))
           \/ v \in Getters /\ Live(t, Mem(q).id) /\ Keeps(q, [Mem(q) EXCEPT !.held = rows[<<t, Mem(q).id>>]])
           \/ v \in Getters /\ t = "canvas" /\ \E r \in LiveRow : Keeps(q, [Mem(q) EXCEPT !.held = r])
    PROVE  RowStepOK(q)
<1>1. PICK c, m : c = <<v, t>> /\ m = Mem(q)
  OBVIOUS
<1>2. v # "deploy" /\ Knows(q) /\ ProcType
  BY DEF Looks, RowPre
<1>3. /\ RowKnown(q, Left(q), Mem(q)) /\ c \in Left(q)
      /\ Listed(proc[q].todo) /\ Op(q) # "none" /\ m \in RowMemory /\ m.id \in RowIds
  BY <1>1, <1>2, AtRow DEF RowMemory
<1>4. CASE Ends(q)
  BY <1>3, <1>4, EndsOK DEF RowPre
<1>5. ASSUME NEW r \in Row \cup {Null}, ProcType', Moved(q, c, [Mem(q) EXCEPT !.held = r]),
             \/ r = Mem(q).held /\ c[1] \notin Getters
             \/ /\ r \in LiveRow /\ c[1] \in Getters
                /\ c[2] = "frame" /\ r.file \in Shots => <<"frame", Mem(q).id>> \in DOMAIN files
                /\ c[2] = "artifact" =>
                     r.file \in {Null, Mem(q).id} /\ <<"artifact", Mem(q).id>> \in DOMAIN rows
      PROVE  RowStepOK(q)
  <2>1. c[1] \in Looks
    BY <1>1
  <2>2. Knows(q)'
    BY <1>3, <1>5, <2>1, AfterRead
  <2>3. rows' = rows /\ files' = files
    BY DEF rowVars
  <2> QED BY <1>5, <2>2, <2>3, NoRow DEF RowStepOK, RowPre, Moved
<1>6. CASE v \notin Getters /\ (Proceeds(q) \/ Skips(q))
  <2>1. Mem(q) \in Memories
    BY <1>1, <1>3 DEF Memories
  <2>2. ProcType' /\ Moved(q, c, Mem(q))
    BY <1>1, <1>2, <1>3, <1>6, <2>1, ProceedsMoves, SkipsMoves
  <2>3. m = [m EXCEPT !.held = m.held] /\ m.held \in Row \cup {Null}
    BY <1>3 DEF RowMemory
  <2> QED BY <1>1, <1>5, <1>6, <2>2, <2>3
<1>7. ASSUME NEW r \in LiveRow, Keeps(q, [Mem(q) EXCEPT !.held = r])
      PROVE  ProcType' /\ Moved(q, c, [Mem(q) EXCEPT !.held = r]) /\ r \in Row
  <2>1. PICK n : n = [m EXCEPT !.held = r]
    OBVIOUS
  <2>2. n \in RowMemory /\ n \in Memories /\ r \in Row
    BY <1>3, <2>1 DEF RowMemory, Memories, LiveRow
  <2> QED BY <1>1, <1>2, <1>3, <1>7, <2>1, <2>2, KeepsMoves
<1>8. CASE v \in Getters /\ Live(t, m.id) /\ Keeps(q, [m EXCEPT !.held = rows[<<t, m.id>>]])
  <2>1. PICK r : r = rows[<<t, m.id>>]
    OBVIOUS
  <2>2. r \in LiveRow /\ RowOK(<<t, m.id>>) /\ <<t, m.id>> \in DOMAIN rows
    BY <1>8, <2>1 DEF Live, LiveRow, RowPre, RowsTypeOK, RowsInv
  <2>3. /\ t = "frame" /\ r.file \in Shots => <<"frame", m.id>> \in DOMAIN files
        /\ t = "artifact" => r.file \in {Null, m.id} /\ <<"artifact", m.id>> \in DOMAIN rows
    BY <2>1, <2>2 DEF RowOK
  <2>4. ProcType' /\ Moved(q, c, [Mem(q) EXCEPT !.held = r]) /\ r \in Row
    BY <1>1, <1>7, <1>8, <2>1, <2>2
  <2> QED BY <1>1, <1>5, <1>8, <2>2, <2>3, <2>4
<1>9. CASE v \in Getters /\ t = "canvas" /\ \E r \in LiveRow : Keeps(q, [m EXCEPT !.held = r])
  <2>1. PICK r \in LiveRow : Keeps(q, [m EXCEPT !.held = r])
    BY <1>9
  <2>2. ProcType' /\ Moved(q, c, [Mem(q) EXCEPT !.held = r]) /\ r \in Row
    BY <1>1, <1>7, <2>1
  <2> QED BY <1>1, <1>5, <1>9, <2>2
<1> QED BY <1>1, <1>4, <1>6, <1>8, <1>9

LEMMA LooksOK ==
    ASSUME NEW q \in Requests, RowPre(q),
           \/ \E t \in Tables : Gets(q, t) \/ GetsManual(q, t) \/ Ensures(q, t) \/ EnsuresIf(q, t)
           \/ GetCanvas(q) \/ CountMaps(q) \/ LimitUnknown(q) \/ GetMLExperiment(q)
    PROVE  RowStepOK(q)
<1>1. /\ "canvas" \in Tables /\ "map" \in Tables /\ "experiment" \in Tables
  BY DEF Tables, MapTables, MlTables
<1>2. /\ {"get", "getManual", "ensure", "ensureIf", "getCanvas", "count", "getTags"} \subseteq Looks
      /\ {"get", "getManual", "getCanvas", "getTags"} \subseteq Getters
      /\ {"ensure", "ensureIf", "count"} \cap Getters = {}
  BY DEF Looks, Getters
<1>3. ASSUME NEW t \in Tables, Gets(q, t) PROVE RowStepOK(q)
  <2>1. At(q, <<"get", t>>) /\ UNCHANGED rowVars
        /\ (\/ Ends(q)
            \/ Live(t, Mem(q).id) /\ Keeps(q, [Mem(q) EXCEPT !.held = rows[<<t, Mem(q).id>>]]))
    BY <1>3 DEF Gets
  <2> QED BY <1>2, <2>1, ReadStep
<1>4. ASSUME NEW t \in Tables, GetsManual(q, t) PROVE RowStepOK(q)
  <2>1. At(q, <<"getManual", t>>) /\ UNCHANGED rowVars
        /\ (\/ Ends(q)
            \/ Live(t, Mem(q).id) /\ Keeps(q, [Mem(q) EXCEPT !.held = rows[<<t, Mem(q).id>>]]))
    BY <1>4 DEF GetsManual
  <2> QED BY <1>2, <2>1, ReadStep
<1>5. ASSUME NEW t \in Tables, Ensures(q, t) PROVE RowStepOK(q)
  <2>1. At(q, <<"ensure", t>>) /\ UNCHANGED rowVars /\ (Ends(q) \/ Proceeds(q))
    BY <1>5 DEF Ensures
  <2> QED BY <1>2, <2>1, ReadStep
<1>6. ASSUME NEW t \in Tables, EnsuresIf(q, t) PROVE RowStepOK(q)
  <2>1. At(q, <<"ensureIf", t>>) /\ UNCHANGED rowVars /\ (Ends(q) \/ Proceeds(q))
    BY <1>6 DEF EnsuresIf
  <2> QED BY <1>2, <2>1, ReadStep
<1>7. CASE GetCanvas(q)
  <2>1. PICK r : r = IF Live("canvas", Seed) THEN rows[<<"canvas", Seed>>] ELSE SeedRow(Null)
    OBVIOUS
  <2>2. SeedRow(Null) \in LiveRow
    BY DEF SeedRow, LiveRow, Row, RowIds, FileRefs
  <2>3. r \in LiveRow
    BY <2>1, <2>2 DEF Live, LiveRow, RowPre, RowsTypeOK
  <2>4. At(q, <<"getCanvas", "canvas">>) /\ UNCHANGED rowVars /\ Keeps(q, [Mem(q) EXCEPT !.held = r])
    BY <1>7, <2>1 DEF GetCanvas
  <2> QED BY <1>1, <1>2, <2>3, <2>4, ReadStep
<1>8. CASE CountMaps(q)
  <2>1. At(q, <<"count", "map">>) /\ UNCHANGED rowVars /\ (Ends(q) \/ Proceeds(q))
    BY <1>8 DEF CountMaps
  <2> QED BY <1>1, <1>2, <2>1, ReadStep
<1>9. CASE LimitUnknown(q)
  <2>1. At(q, <<"count", "map">>) /\ UNCHANGED rowVars /\ Skips(q)
    BY <1>9 DEF LimitUnknown
  <2> QED BY <1>1, <1>2, <2>1, ReadStep
<1>10. CASE GetMLExperiment(q)
  <2>1. CASE GetsManual(q, "experiment")
    BY <1>1, <1>4, <2>1
  <2>2. CASE ~GetsManual(q, "experiment")
    <3>1. PICK m, k : m = Mem(q) /\ k = <<"experiment", m.id>>
      OBVIOUS
    <3>2. At(q, <<"getTags", "experiment">>) /\ UNCHANGED rowVars
          /\ (\/ Ends(q)
              \/ Live("experiment", m.id) /\ Keeps(q, [m EXCEPT !.held = rows[k]]))
      BY <1>10, <2>2, <3>1 DEF GetMLExperiment
    <3>3. \/ Ends(q)
          \/ Live("experiment", Mem(q).id) /\ Keeps(q, [Mem(q) EXCEPT !.held = rows[<<"experiment", Mem(q).id>>]])
      BY <3>1, <3>2
    <3> QED BY <1>1, <1>2, <3>2, <3>3, ReadStep
  <2> QED BY <2>1, <2>2
<1> QED BY <1>3, <1>4, <1>5, <1>6, <1>7, <1>8, <1>9, <1>10

(***************************************************************************)
(* The calls of the object store.                                          *)
(***************************************************************************)
\* A file that goes belongs to no row that is listed.
FilesKept(q) ==
    /\ \A k \in DOMAIN files' : k[1] \in Tables /\ files'[k] \in FileRefs
    /\ \A i \in RowIds :
         /\ <<"frame", i>> \in DOMAIN files => <<"frame", i>> \in DOMAIN files'
         /\ <<"artifact", i>> \in DOMAIN files =>
              \/ <<"artifact", i>> \in DOMAIN files'
              \/ ~Live("artifact", i) /\ (i = q \/ <<"artifact", i>> \in DOMAIN rows)

LEMMA FilesChange ==
    ASSUME RowsTypeOK(Tables), RowsInv, NEW q \in Requests, UNCHANGED rows, FilesKept(q)
    PROVE  RowsTypeOK(Tables)' /\ RowsInv' /\ RowEnv(q) /\ FileEnv(q)
<1>1. RowsTypeOK(Tables)'
  BY DEF RowsTypeOK, FilesKept
<1>2. \A k \in DOMAIN rows' : RowOK(k)'
  <2> SUFFICES ASSUME NEW k \in DOMAIN rows PROVE RowOK(k)'
    OBVIOUS
  <2>1. PICK t \in Tables, i \in RowIds : k = <<t, i>>
    BY DEF RowsTypeOK
  <2>2. RowOK(<<t, i>>)
    BY <2>1 DEF RowsInv
  <2>3. <<t, i>> \in DOMAIN rows
    BY <2>1
  <2>4. RowOK(<<t, i>>)'
    BY <2>2, <2>3 DEF RowOK, FilesKept, Live
  <2> QED BY <2>1, <2>4
<1>3. OneRefEach'
  BY DEF RowsInv, OneRefEach
<1>4. RowEnv(q)
  BY NoRow
<1>5. FileEnv(q)
  BY DEF FileEnv, FilesKept
<1> QED BY <1>1, <1>2, <1>3, <1>4, <1>5 DEF RowsInv

LEMMA FileStep ==
    ASSUME NEW q \in Requests, RowPre(q), 
           NEW v \in {"resolve", "store", "dropOld", "upload", "dropFile", "message"},
           NEW t \in Tables, At(q, <<v, t>>), Proceeds(q), UNCHANGED rows, FilesKept(q),
           v # "dropFile" => \A i \in RowIds : <<"artifact", i>> \in DOMAIN files =>
                                                   <<"artifact", i>> \in DOMAIN files',
           v = "resolve" /\ t = "frame" => \A i : i = Mem(q).id /\ Mem(q).file \in Shots =>
                                                      <<"frame", i>> \in DOMAIN files',
           v = "upload" /\ t = "artifact" => <<"artifact", q>> \in DOMAIN files'
    PROVE  RowStepOK(q)
<1>1. PICK c, m, L : c = <<v, t>> /\ m = Mem(q) /\ L = Left(q)
  OBVIOUS
<1>2. /\ RowKnown(q, L, m) /\ c \in L /\ Mem(q) \in Memories
      /\ Listed(proc[q].todo) /\ Op(q) # "none" /\ m \in RowMemory /\ m.id \in RowIds /\ q \in RowIds
  BY <1>1, AtRow DEF RowMemory, RowPre, RowIds
<1>3. ProcType' /\ Moved(q, c, Mem(q))
  BY <1>1, <1>2, ProceedsMoves DEF RowPre
<1>4. PICK N : N = Left(q)'
  OBVIOUS
<1>5. /\ N \subseteq L /\ L \subseteq N \cup {c} /\ (N # {} => Mem(q)' = m)
      /\ \A d \in N : Precedes(Rank(c[1]), Rank(d[1]))
      /\ Op(q)' = Op(q) /\ Listed(proc[q].todo)'
  BY <1>1, <1>3, <1>4 DEF Moved
<1>6. RowsTypeOK(Tables)' /\ RowsInv' /\ RowEnv(q) /\ FileEnv(q)
  BY FilesChange DEF RowPre
<1>7. N \subseteq RowCalls /\ OneTable(N) /\ HeldKnown(N, m)
  <2>1. c[1] \notin Getters
    BY <1>1 DEF Getters
  <2> QED BY <1>2, <1>5, <2>1 DEF RowKnown, OneTable, HeldKnown
<1>8. NewRowKnown(q, N, m)'
  BY <1>2, <1>5 DEF RowKnown, NewRowKnown
<1>9. FrameKnown(N, m)'
  <2> SUFFICES ASSUME N \cap FrameCalls # {}
               PROVE  /\ m.file \in Shots \cup {Asset, Null}
                      /\ m.file \in Shots => <<"resolve", "frame">> \in N \/ <<"frame", m.id>> \in DOMAIN files'
                      /\ m.held # Null /\ m.held.file \in Shots => <<"frame", m.id>> \in DOMAIN files'
    BY DEF FrameKnown
  <2>1. FrameKnown(L, m) /\ L \cap FrameCalls # {}
    BY <1>2, <1>5 DEF RowKnown
  <2>2. <<"frame", m.id>> \in DOMAIN files => <<"frame", m.id>> \in DOMAIN files'
    BY <1>2 DEF FilesKept
  <2>3. /\ m.file \in Shots \cup {Asset, Null}
        /\ m.file \in Shots => <<"resolve", "frame">> \in L \/ <<"frame", m.id>> \in DOMAIN files'
        /\ m.held # Null /\ m.held.file \in Shots => <<"frame", m.id>> \in DOMAIN files'
    BY <2>1, <2>2 DEF FrameKnown
  <2>4. <<"resolve", "frame">> = c /\ m.file \in Shots => <<"frame", m.id>> \in DOMAIN files'
    BY <1>1
  <2> QED BY <1>5, <2>3, <2>4
<1>10. ArtifactKnown(q, N, m)'
  <2>1. ArtifactKnown(q, L, m)
    BY <1>2 DEF RowKnown
  <2>2. \A i : Live("artifact", i)' = Live("artifact", i)
    BY DEF Live
  <2>3. <<"insert", "artifact">> \in N => v # "dropFile"
    BY <1>1, <1>5, RankFacts DEF Precedes
  <2>4. <<"insert", "artifact">> \in N =>
         \/ m.file = Null
         \/ m.file = q /\ (<<"upload", "artifact">> \in N \/ <<"artifact", q>> \in DOMAIN files')
    BY <1>1, <1>2, <1>5, <2>1, <2>3 DEF ArtifactKnown
  <2>5. c # <<"remove", "artifact">>
    BY <1>1
  <2> QED BY <1>5, <2>1, <2>2, <2>4, <2>5 DEF ArtifactKnown
<1>11. RowKnown(q, N, m)'
  BY <1>2, <1>7, <1>8, <1>9, <1>10 DEF RowKnown, HeldKnown, OneTable
<1>12. N # {} => RowKnown(q, Left(q), Mem(q))'
  BY <1>4, <1>5, <1>11
<1>13. Knows(q)'
  BY <1>2, <1>4, <1>5, <1>12 DEF Knows
<1> QED BY <1>3, <1>6, <1>13 DEF RowStepOK, Moved

LEMMA ResolveOK ==
    ASSUME NEW q \in Requests, RowPre(q), ResolveScreenshotAsset(q)
    PROVE  RowStepOK(q)
<1>1. At(q, <<"resolve", "frame">>) /\ UNCHANGED rows /\ Knows(q) /\ "frame" \in Tables
  BY DEF ResolveScreenshotAsset, RowPre, Tables, MapTables
<1>2. PICK m, L : m = Mem(q) /\ L = Left(q)
  OBVIOUS
<1>3. /\ RowKnown(q, L, m) /\ <<"resolve", "frame">> \in L /\ Op(q) # "none"
      /\ m \in RowMemory /\ m.id \in RowIds
  BY <1>1, <1>2, AtRow DEF RowMemory
<1>4. /\ m.file \in Shots \cup {Asset, Null} /\ Asset \notin Shots /\ Null \notin Shots
      /\ m.held # Null /\ m.held.file \in Shots => <<"frame", m.id>> \in DOMAIN files
  <2>1. L \cap FrameCalls # {}
    BY <1>3 DEF FrameCalls
  <2> QED BY <1>3, <2>1, RowsAssumption DEF RowKnown, FrameKnown
<1>5. CASE m.file # Null /\ SameScreenshot(m) /\ Op(q) = "syncFrame"
  <2>1. Ends(q) /\ UNCHANGED rowVars
    BY <1>1, <1>2, <1>5 DEF ResolveScreenshotAsset, rowVars
  <2> QED BY <1>3, <2>1, EndsOK DEF RowPre
<1>6. CASE ~(m.file # Null /\ SameScreenshot(m) /\ Op(q) = "syncFrame")
  <2> Proceeds(q)
    BY <1>2, <1>6 DEF ResolveScreenshotAsset
  <2>1. \/ files' = files /\ (m.file \in Shots => <<"frame", m.id>> \in DOMAIN files)
        \/ files' = With(files, <<"frame", m.id>>, m.file)
    BY <1>2, <1>4, <1>6 DEF ResolveScreenshotAsset, SameScreenshot, UploadScreenshot
  <2>2. FilesKept(q)
    BY <1>1, <1>3, <2>1 DEF FilesKept, With, RowPre, RowsTypeOK, RowMemory
  <2>3. \A i \in RowIds : <<"artifact", i>> \in DOMAIN files => <<"artifact", i>> \in DOMAIN files'
    BY <2>1 DEF With
  <2>4. m.file \in Shots => <<"frame", m.id>> \in DOMAIN files'
    BY <2>1 DEF With
  <2> QED BY <1>1, <1>2, <2>2, <2>3, <2>4, FileStep
<1> QED BY <1>5, <1>6

LEMMA DocFilesOK ==
    ASSUME NEW q \in Requests, RowPre(q), ResolveDocContent(q) \/ DropOldAsset(q)
    PROVE  RowStepOK(q)
<1>1. "doc" \in Tables /\ Knows(q) /\ q \in FileRefs
  BY DEF RowPre, Tables, NoteTables, FileRefs, RowIds
<1>2. CASE ResolveDocContent(q)
  <2>1. /\ At(q, <<"store", "doc">>) /\ Proceeds(q) /\ UNCHANGED rows
        /\ files' = files \/ files' = With(files, <<"doc", q>>, q)
    BY <1>2 DEF ResolveDocContent
  <2>2. FilesKept(q) /\ \A i \in RowIds : <<"artifact", i>> \in DOMAIN files => <<"artifact", i>> \in DOMAIN files'
    BY <1>1, <2>1 DEF FilesKept, With, RowPre, RowsTypeOK
  <2> QED BY <1>1, <2>1, <2>2, FileStep
<1>3. CASE DropOldAsset(q)
  <2>1. PICK f : f = Mem(q).held.file
    OBVIOUS
  <2>2. /\ At(q, <<"dropOld", "doc">>) /\ Proceeds(q) /\ UNCHANGED rows
        /\ files' = files \/ files' = Without(files, <<"doc", f>>)
    BY <1>3, <2>1 DEF DropOldAsset
  <2>3. FilesKept(q) /\ \A i \in RowIds : <<"artifact", i>> \in DOMAIN files => <<"artifact", i>> \in DOMAIN files'
    BY <2>2 DEF FilesKept, Without, RowPre, RowsTypeOK
  <2> QED BY <1>1, <2>2, <2>3, FileStep
<1> QED BY <1>2, <1>3

LEMMA ArtifactFilesOK ==
    ASSUME NEW q \in Requests, RowPre(q),
           UploadArtifact(q) \/ CreateMLArtifactFails(q) \/ DeleteArtifactFile(q)
    PROVE  RowStepOK(q)
<1>1. "artifact" \in Tables /\ Knows(q) /\ q \in FileRefs /\ q \in RowIds
  BY DEF RowPre, Tables, MlTables, FileRefs, RowIds
<1>2. CASE UploadArtifact(q)
  <2>1. /\ At(q, <<"upload", "artifact">>) /\ Proceeds(q) /\ UNCHANGED rows
        /\ files' = With(files, <<"artifact", q>>, q)
    BY <1>2 DEF UploadArtifact
  <2>2. /\ FilesKept(q) /\ <<"artifact", q>> \in DOMAIN files'
        /\ \A i \in RowIds : <<"artifact", i>> \in DOMAIN files => <<"artifact", i>> \in DOMAIN files'
    BY <1>1, <2>1 DEF FilesKept, With, RowPre, RowsTypeOK
  <2> QED BY <1>1, <2>1, <2>2, FileStep
<1>3. CASE CreateMLArtifactFails(q)
  <2>1. At(q, <<"insert", "artifact">>) /\ Aborts(q) /\ UNCHANGED rows
        /\ (files' = files \/ files' = Without(files, <<"artifact", q>>))
    BY <1>3 DEF CreateMLArtifactFails
  <2>2. /\ RowKnown(q, Left(q), Mem(q)) /\ <<"insert", "artifact">> \in Left(q) /\ Op(q) # "none"
    BY <1>1, <2>1, AtRow
  <2>3. <<"artifact", q>> \notin DOMAIN rows
    BY <2>2 DEF RowKnown, NewRowKnown, Makers, Made
  <2>4. FilesKept(q)
    BY <1>1, <2>1, <2>3 DEF FilesKept, Without, RowPre, RowsTypeOK, Live
  <2>5. ProcType' /\ Ended(q)
    BY <2>1, EndsMoves DEF RowPre
  <2>6. Others(q) /\ Knows(q)'
    BY <2>2, <2>5 DEF Ended, Knows
  <2>7. RowsTypeOK(Tables)' /\ RowsInv' /\ RowEnv(q) /\ FileEnv(q)
    BY <2>1, <2>4, FilesChange DEF RowPre
  <2> QED BY <2>5, <2>6, <2>7 DEF RowStepOK
<1>4. CASE DeleteArtifactFile(q)
  <2>1. PICK f, m, L : f = Mem(q).held.file /\ m = Mem(q) /\ L = Left(q)
    OBVIOUS
  <2>2. /\ At(q, <<"dropFile", "artifact">>) /\ Proceeds(q) /\ UNCHANGED rows
        /\ files' = Without(files, <<"artifact", f>>)
    BY <1>4, <2>1 DEF DeleteArtifactFile
  <2>3. RowKnown(q, L, m) /\ <<"dropFile", "artifact">> \in L
    BY <1>1, <2>1, <2>2, AtRow
  <2>4. <<"remove", "artifact">> \notin L
    <3>1. Rank("dropFile") = 5 /\ Rank("remove") = 4
      BY RankFacts
    <3>2. <<"remove", "artifact">> \in L => Precedes(Rank("dropFile"), Rank("remove"))
      BY <1>1, <2>1, <2>2, HeadFirst
    <3> QED BY <3>1, <3>2 DEF Precedes
  <2>5. m.held # Null
    BY <1>1, <2>1, <2>2, HeldAt, RowsAssumption DEF Uses
  <2>6. f \in {Null, m.id} /\ <<"artifact", m.id>> \in DOMAIN rows /\ ~Live("artifact", m.id)
    BY <2>1, <2>3, <2>4, <2>5 DEF RowKnown, ArtifactKnown
  <2>7. FilesKept(q)
    BY <2>2, <2>6, RowsAssumption DEF FilesKept, Without, RowPre, RowsTypeOK, RowIds
  <2> QED BY <1>1, <2>2, <2>7, FileStep
<1> QED BY <1>2, <1>3, <1>4

(***************************************************************************)
(* All calls that are about rows.                                          *)
(***************************************************************************)
LEMMA GenericOK ==
    ASSUME NEW q \in Requests, RowPre(q)
    PROVE  \A t \in Tables :
             /\ Inserts(q, t) \/ Saves(q, t) => RowStepOK(q)
             /\ t \notin {"event", "canvas"} /\ Removes(q, t) => RowStepOK(q)
             /\ Gets(q, t) \/ GetsManual(q, t) \/ Ensures(q, t) \/ EnsuresIf(q, t) => RowStepOK(q)
<1> SUFFICES ASSUME NEW t \in Tables
             PROVE  /\ Inserts(q, t) \/ Saves(q, t) => RowStepOK(q)
                    /\ t \notin {"event", "canvas"} /\ Removes(q, t) => RowStepOK(q)
                    /\ Gets(q, t) \/ GetsManual(q, t) \/ Ensures(q, t) \/ EnsuresIf(q, t) => RowStepOK(q)
  OBVIOUS
<1>1. Inserts(q, t) => RowStepOK(q)
  BY InsertsOK
<1>2. Saves(q, t) => RowStepOK(q)
  BY SavesOK
<1>3. t \notin {"event", "canvas"} /\ Removes(q, t) => RowStepOK(q)
  BY RemovesOK
<1>4. Gets(q, t) \/ GetsManual(q, t) \/ Ensures(q, t) \/ EnsuresIf(q, t) => RowStepOK(q)
  BY LooksOK
<1> QED BY <1>1, <1>2, <1>3, <1>4

LEMMA MapStepOK ==
    ASSUME NEW q \in Requests, RowPre(q), MapStep(q), failedOpen \in BOOLEAN
    PROVE  RowStepOK(q) /\ failedOpen' \in BOOLEAN
<1>1. /\ "map" \in Tables /\ "frame" \in Tables /\ "point" \in Tables /\ "group" \in Tables
      /\ "frameLink" \in Tables /\ "meta" \in Tables
  BY DEF Tables, MapTables
<1>2. failedOpen' \in BOOLEAN
  BY DEF MapStep, LimitUnknown
<1>3. CASE \/ CountMaps(q) \/ LimitUnknown(q) \/ GetCanvas(q)
           \/ ResolveScreenshotAsset(q) \/ SyncFrame(q) \/ UpsertCanvas(q)
  BY <1>2, <1>3, LooksOK, ResolveOK, SyncFrameOK, UpsertCanvasOK
<1>4. CASE \/ CreateMap(q) \/ GetMap(q) \/ UpdateMap(q) \/ SoftDeleteMap(q)
           \/ CreateFrame(q) \/ GetFrame(q) \/ UpdateFrame(q) \/ SoftDeleteFrame(q)
  BY <1>1, <1>2, <1>4, GenericOK DEF CreateMap, GetMap, UpdateMap, SoftDeleteMap, CreateFrame,
     GetFrame, UpdateFrame, SoftDeleteFrame
<1>5. CASE \/ CreateFocalPoint(q) \/ GetFocalPoint(q) \/ UpdateFocalPoint(q) \/ SoftDeleteFocalPoint(q)
           \/ CreateFrameGroup(q) \/ GetFrameGroup(q) \/ UpdateFrameGroup(q) \/ SoftDeleteFrameGroup(q)
  BY <1>1, <1>2, <1>5, GenericOK DEF CreateFocalPoint, GetFocalPoint, UpdateFocalPoint,
     SoftDeleteFocalPoint, CreateFrameGroup, GetFrameGroup, UpdateFrameGroup, SoftDeleteFrameGroup
<1>6. CASE \/ CreateFrameLink(q) \/ GetFrameLink(q) \/ UpdateFrameLink(q) \/ SoftDeleteFrameLink(q)
           \/ CreateFocalPointMeta(q) \/ GetFocalPointMeta(q) \/ UpdateFocalPointMeta(q)
           \/ SoftDeleteFocalPointMeta(q)
  BY <1>1, <1>2, <1>6, GenericOK DEF CreateFrameLink, GetFrameLink, UpdateFrameLink,
     SoftDeleteFrameLink, CreateFocalPointMeta, GetFocalPointMeta, UpdateFocalPointMeta,
     SoftDeleteFocalPointMeta
<1> QED BY <1>3, <1>4, <1>5, <1>6 DEF MapStep

\* The calls of Notes that leave components and agent sessions alone.
NoteRowStep(q) ==
    \/ CreateFolder(q) \/ GetFolder(q) \/ UpdateFolder(q) \/ DeleteFolder(q)
    \/ CreateComment(q) \/ GetComment(q) \/ UpdateComment(q) \/ SoftDeleteComment(q)
    \/ ResolveDocContent(q) \/ DropOldAsset(q) \/ CreateDoc(q) \/ GetDoc(q)
    \/ UpdateDoc(q) \/ SoftDeleteDoc(q) \/ CreateChatSession(q) \/ OwnedSession(q)
    \/ UpdateChatSession(q) \/ SoftDeleteChatSession(q) \/ TouchChatSession(q)
    \/ CreateEvent(q) \/ UpdateEvent(q) \/ DeleteEvent(q) \/ UpsertEventBySourceRef(q)

LEMMA NoteRowStepOK ==
    ASSUME NEW q \in Requests, RowPre(q), NoteRowStep(q)
    PROVE  RowStepOK(q)
<1>1. /\ "folder" \in Tables /\ "comment" \in Tables /\ "doc" \in Tables /\ "chat" \in Tables
      /\ "event" \in Tables
  BY DEF Tables, NoteTables
<1>2. CASE \/ CreateFolder(q) \/ GetFolder(q) \/ UpdateFolder(q) \/ DeleteFolder(q)
           \/ CreateComment(q) \/ GetComment(q) \/ UpdateComment(q) \/ SoftDeleteComment(q)
  BY <1>1, <1>2, GenericOK DEF CreateFolder, GetFolder, UpdateFolder, DeleteFolder,
     CreateComment, GetComment, UpdateComment, SoftDeleteComment
<1>3. CASE \/ CreateDoc(q) \/ GetDoc(q) \/ UpdateDoc(q) \/ SoftDeleteDoc(q) \/ CreateEvent(q)
           \/ CreateChatSession(q) \/ OwnedSession(q) \/ UpdateChatSession(q) \/ SoftDeleteChatSession(q)
  BY <1>1, <1>3, GenericOK DEF CreateDoc, GetDoc, UpdateDoc, SoftDeleteDoc, CreateEvent,
     CreateChatSession, OwnedSession, UpdateChatSession, SoftDeleteChatSession
<1>4. CASE ResolveDocContent(q) \/ DropOldAsset(q) \/ TouchChatSession(q) \/ UpdateEvent(q) \/ DeleteEvent(q)
  BY <1>4, DocFilesOK, ColumnSetsOK, DeleteEventOK
<1>5. CASE UpsertEventBySourceRef(q)
  <2>1. /\ At(q, <<"syncEvent", "event">>) /\ Upserts(q, "event", Null) /\ Proceeds(q) /\ UNCHANGED files
        /\ "event" \in RefTables /\ Null \in RowIds \cup {Null}
    BY <1>5 DEF UpsertEventBySourceRef, RefTables
  <2> QED BY <2>1, UpsertsOK
<1> QED BY <1>2, <1>3, <1>4, <1>5 DEF NoteRowStep

LEMMA SyncsOK ==
    ASSUME NEW q \in Requests, RowPre(q), NEW sync, sync.table \in RefTables,
           NEW a \in BOOLEAN, NEW b \in BOOLEAN, Syncs(q, sync, a, b)
    PROVE  RowStepOK(q)
<1>1. PICK t, m, found : /\ t = sync.table /\ m = Mem(q)
                         /\ found = (m.link # Null /\ Resolved(sync.link, m.link))
  OBVIOUS
<1>2. At(q, <<"sync", t>>) /\ UNCHANGED files /\ t \in Tables /\ Knows(q) /\ t \in RefTables
  BY <1>1 DEF Syncs, RefTables, Tables, NoteTables, RowPre
<1>3. Op(q) # "none" /\ m \in RowMemory
  BY <1>1, <1>2, AtRow
<1>4. PICK l : l = IF found THEN m.link ELSE Null
  OBVIOUS
<1>5. l \in RowIds \cup {Null}
  BY <1>3, <1>4 DEF RowMemory
<1>6. (Ends(q) /\ UNCHANGED rows) \/ (Upserts(q, t, l) /\ Proceeds(q))
  BY <1>1, <1>4 DEF Syncs
<1>7. CASE Ends(q) /\ UNCHANGED rows
  BY <1>2, <1>3, <1>7, EndsOK DEF RowPre, rowVars
<1>8. CASE Upserts(q, t, l) /\ Proceeds(q)
  BY <1>2, <1>5, <1>8, UpsertsOK
<1> QED BY <1>6, <1>7, <1>8

(***************************************************************************)
(* Deployments.                                                            *)
(***************************************************************************)
DeploysType == deployments \in [RowIds -> Seq([from : Statuses, to : Statuses])]

\* The end of a sequence.
LEMMA SeqEnd ==
    ASSUME NEW S, NEW s \in Seq(S), NEW e \in S
    PROVE  Append(s, e) \in Seq(S) /\ (s # <<>> => s[Len(s)] \in S)
OBVIOUS

LEMMA DeploysOK ==
    ASSUME NEW q \in Requests, RowPre(q), DeploysType,
           CheckVersionTransition(q) \/ CreateVersionDeploymentUpdate(q)
    PROVE  RowStepOK(q) /\ DeploysType'
<1>1. ProcType /\ Knows(q) /\ RowsTypeOK(Tables) /\ RowsInv
  BY DEF RowPre
<1>2. PICK m, L, N : m = Mem(q) /\ L = Left(q) /\ N = Left(q)'
  OBVIOUS
<1>3. Rank("getStatus") = 1 /\ Rank("deploy") = 4
  BY RankFacts DEF Looks
<1>4. CASE CheckVersionTransition(q)
  <2>1. /\ At(q, <<"getStatus", "version">>) /\ UNCHANGED rowVars /\ deployments' = deployments
        /\ rows' = rows /\ files' = files
    BY <1>4 DEF CheckVersionTransition, rowVars
  <2>2. /\ DeployKnown(L, m) /\ Listed(proc[q].todo) /\ Op(q) # "none" /\ m \in DeployMemory
    BY <1>1, <1>2, <2>1, AtDeploy
  <2>3. CASE Ends(q)
    BY <1>1, <2>1, <2>2, <2>3, EndsOK DEF DeploysType
  <2>4. CASE ~Ends(q)
    <3>1. PICK f, n : f = DeploymentStatus(m.id) /\ n = [m EXCEPT !.from = f]
      OBVIOUS
    <3>2. f \in Statuses
      <4>1. PICK s : s = deployments[m.id]
        OBVIOUS
      <4>2. s \in Seq([from : Statuses, to : Statuses])
        BY <2>2, <4>1 DEF DeployMemory, DeploysType
      <4>3. [from |-> "candidate", to |-> "candidate"] \in [from : Statuses, to : Statuses]
        BY DEF Statuses
      <4>4. s # <<>> => s[Len(s)] \in [from : Statuses, to : Statuses]
        BY <4>2, <4>3, SeqEnd
      <4> QED BY <3>1, <4>1, <4>4 DEF DeploymentStatus, Statuses
    <3>3. n \in DeployMemory /\ n \in Memories /\ n.from = f
      BY <2>2, <3>1, <3>2 DEF DeployMemory, Memories
    <3>4. Keeps(q, n)
      BY <1>2, <1>4, <2>4, <3>1 DEF CheckVersionTransition
    <3>5. ProcType' /\ Moved(q, <<"getStatus", "version">>, n)
      BY <1>1, <2>1, <2>2, <3>3, <3>4, KeepsMoves
    <3>6. DeployKnown(N, n)
      BY <1>2, <2>2, <3>2, <3>3, <3>5 DEF Moved, DeployKnown
    <3>7. N # {} => DeployKnown(Left(q), Mem(q))'
      BY <1>2, <3>5, <3>6 DEF Moved, DeployKnown
    <3>8. Knows(q)'
      BY <1>2, <2>2, <3>5, <3>7 DEF Moved, Knows
    <3> QED BY <1>1, <2>1, <3>5, <3>8, NoRow DEF RowStepOK, DeploysType, Moved
  <2> QED BY <2>3, <2>4
<1>5. CASE CreateVersionDeploymentUpdate(q)
  <2>1. /\ At(q, <<"deploy", "version">>) /\ Proceeds(q)
        /\ rows' = rows /\ files' = files
    BY <1>5 DEF CreateVersionDeploymentUpdate, rowVars
  <2>2. /\ DeployKnown(L, m) /\ <<"deploy", "version">> \in L /\ Listed(proc[q].todo)
        /\ Op(q) # "none" /\ m \in DeployMemory /\ Mem(q) \in Memories
    BY <1>1, <1>2, <2>1, AtDeploy
  <2>3. <<"getStatus", "version">> \notin L
    <3>1. <<"getStatus", "version">> \in L => Precedes(Rank("deploy"), Rank("getStatus"))
      BY <1>1, <1>2, <2>1, HeadFirst
    <3> QED BY <1>3, <3>1 DEF Precedes
  <2>4. m.from \in Statuses /\ m.to \in Statuses /\ m.id \in RowIds
    BY <2>2, <2>3 DEF DeployKnown, DeployMemory
  <2>5. DeploysType'
    <3>1. PICK e : e = [from |-> m.from, to |-> m.to]
      OBVIOUS
    <3>2. e \in [from : Statuses, to : Statuses]
      BY <2>4, <3>1
    <3>3. Append(deployments[m.id], e) \in Seq([from : Statuses, to : Statuses])
      BY <2>4, <3>2, SeqEnd DEF DeploysType
    <3>4. deployments' = [deployments EXCEPT ![m.id] = Append(deployments[m.id], e)]
      BY <1>2, <1>5, <3>1 DEF CreateVersionDeploymentUpdate
    <3> QED BY <3>3, <3>4 DEF DeploysType
  <2>6. ProcType' /\ Moved(q, <<"deploy", "version">>, m)
    BY <1>1, <1>2, <2>1, <2>2, ProceedsMoves
  <2>7. N # {} => DeployKnown(Left(q), Mem(q))'
    BY <1>2, <2>2, <2>6 DEF Moved, DeployKnown
  <2>8. Knows(q)'
    BY <1>2, <2>2, <2>6, <2>7 DEF Moved, Knows
  <2> QED BY <1>1, <2>1, <2>5, <2>6, <2>8, NoRow DEF RowStepOK, Moved
<1> QED BY <1>4, <1>5

LEMMA MlStepOK ==
    ASSUME NEW q \in Requests, RowPre(q), DeploysType, MlStep(q)
    PROVE  RowStepOK(q) /\ DeploysType'
<1>1. CASE CheckVersionTransition(q) \/ CreateVersionDeploymentUpdate(q)
  BY <1>1, DeploysOK
<1>2. CASE ~(CheckVersionTransition(q) \/ CreateVersionDeploymentUpdate(q))
  <2>1. DeploysType'
    BY <1>2 DEF MlStep, DeploysType
  <2>2. /\ "project" \in Tables /\ "model" \in Tables /\ "version" \in Tables
        /\ "experiment" \in Tables /\ "run" \in Tables /\ "dataset" \in Tables
        /\ "artifact" \in Tables /\ "evaluation" \in Tables /\ "deployment" \in Tables
        /\ "finding" \in Tables
    BY DEF Tables, MlTables
  <2>3. CASE CreateMLProject(q)
    <3>1. /\ At(q, <<"createProject", "project">>) /\ Upserts(q, "project", Null) /\ Proceeds(q)
          /\ UNCHANGED files /\ "project" \in RefTables /\ Null \in RowIds \cup {Null}
      BY <2>3 DEF CreateMLProject, RefTables, MlTables
    <3> QED BY <2>1, <3>1, UpsertsOK
  <2>4. CASE \/ UpdateMLProject(q) \/ RestoreMLProjects(q) \/ CreateMLModelVersion(q)
             \/ UpdateMLModel(q) \/ UpdateMLExperiment(q) \/ UpdateMLFinding(q)
             \/ SetMLModelVersionRun(q) \/ SetMLEvaluationsVersion(q)
             \/ UploadArtifact(q) \/ CreateMLArtifactFails(q) \/ DeleteArtifactFile(q)
             \/ GetMLExperiment(q)
    BY <2>1, <2>4, UpdateMLProjectOK, RestoresOK, CreateMLModelVersionOK, ColumnSetsOK,
       MergedSavesOK, ArtifactFilesOK, LooksOK
  <2>5. CASE \/ GetMLProject(q) \/ DeleteMLProject(q) \/ EnsureProjectInOrg(q) \/ EnsureModelInOrg(q)
             \/ EnsureVersionInOrg(q) \/ EnsureExperimentInOrg(q) \/ EnsureRunsInOrg(q)
             \/ EnsureEvaluationsInOrg(q)
    BY <2>1, <2>2, <2>5, GenericOK DEF GetMLProject, DeleteMLProject, EnsureProjectInOrg,
       EnsureModelInOrg, EnsureVersionInOrg, EnsureExperimentInOrg, EnsureRunsInOrg,
       EnsureEvaluationsInOrg
  <2>6. CASE \/ CreateMLModel(q) \/ GetMLModel(q) \/ UpdateMLModelInfo(q) \/ DeleteMLModel(q)
             \/ CreateMLExperiment(q) \/ DeleteMLExperiment(q) \/ GetMLModelVersion(q)
             \/ CreateMLRun(q) \/ GetMLRun(q) \/ UpdateMLRun(q) \/ DeleteMLRun(q)
    BY <2>1, <2>2, <2>6, GenericOK DEF CreateMLModel, GetMLModel, UpdateMLModelInfo, DeleteMLModel,
       CreateMLExperiment, DeleteMLExperiment, GetMLModelVersion, CreateMLRun, GetMLRun, UpdateMLRun,
       DeleteMLRun
  <2>7. CASE \/ CreateMLDataset(q) \/ GetMLDataset(q) \/ UpdateMLDataset(q) \/ DeleteMLDataset(q)
             \/ CreateMLArtifact(q) \/ GetMLArtifact(q) \/ UpdateMLArtifact(q) \/ DeleteMLArtifact(q)
    BY <2>1, <2>2, <2>7, GenericOK DEF CreateMLDataset, GetMLDataset, UpdateMLDataset,
       DeleteMLDataset, CreateMLArtifact, GetMLArtifact, UpdateMLArtifact, DeleteMLArtifact
  <2>8. CASE \/ CreateMLEvaluation(q) \/ GetMLEvaluation(q) \/ UpdateMLEvaluation(q)
             \/ DeleteMLEvaluation(q) \/ CreateMLDeployment(q) \/ GetMLDeployment(q)
             \/ UpdateMLDeployment(q) \/ DeleteMLDeployment(q) \/ CreateMLFinding(q)
             \/ GetMLFinding(q) \/ DeleteMLFinding(q)
    BY <2>1, <2>2, <2>8, GenericOK DEF CreateMLEvaluation, GetMLEvaluation, UpdateMLEvaluation,
       DeleteMLEvaluation, CreateMLDeployment, GetMLDeployment, UpdateMLDeployment,
       DeleteMLDeployment, CreateMLFinding, GetMLFinding, DeleteMLFinding
  <2>9. CASE \/ UpsertMLProjects(q) \/ UpsertMLModels(q) \/ UpsertMLModelVersions(q)
             \/ UpsertMLExperiments(q) \/ UpsertMLRuns(q) \/ UpsertMLArtifacts(q)
             \/ UpsertMLDatasets(q) \/ UpsertMLEvaluations(q)
    <3>1. PICK sync \in {SyncProjects, SyncModels, SyncVersions, SyncExperiments, SyncRuns,
                         SyncArtifacts, SyncDatasets, SyncEvaluations},
               a \in BOOLEAN, b \in BOOLEAN : Syncs(q, sync, a, b)
      BY <2>9 DEF UpsertMLProjects, UpsertMLModels, UpsertMLModelVersions, UpsertMLExperiments,
         UpsertMLRuns, UpsertMLArtifacts, UpsertMLDatasets, UpsertMLEvaluations
    <3>2. sync.table \in RefTables
      BY <3>1 DEF SyncProjects, SyncModels, SyncVersions, SyncExperiments, SyncRuns, SyncArtifacts,
         SyncDatasets, SyncEvaluations, RefTables, MlTables
    <3> QED BY <2>1, <3>1, <3>2, SyncsOK
  <2> QED BY <1>2, <2>3, <2>4, <2>5, <2>6, <2>7, <2>8, <2>9 DEF MlStep
<1> QED BY <1>1, <1>2

(***************************************************************************)
(* Components, chat messages and agent sessions.                           *)
(***************************************************************************)
NoteStepsKept(q) == NotesTypeOK' /\ NotesInv' /\ NoteEnv(q)

\* Nothing is written.
LEMMA NotesSame ==
    ASSUME NotesTypeOK, NotesInv, NEW q, UNCHANGED noteVars
    PROVE  NoteStepsKept(q)
<1>1. messages' = messages /\ comps' = comps /\ fields' = fields /\ agents' = agents /\ agentSteps' = agentSteps
  BY DEF noteVars
<1>2. NotesTypeOK'
  BY <1>1 DEF NotesTypeOK
<1>3. NotesInv'
  BY <1>1 DEF NotesInv, SlugsDiffer, StepRows, StepsOf
<1>4. NoteEnv(q)
  BY <1>1 DEF NoteEnv, StepsOf
<1> QED BY <1>2, <1>3, <1>4 DEF NoteStepsKept

\* A call about a component or an agent session is done.
LEMMA NumberStep ==
    ASSUME NEW q \in Requests, RowPre(q), NEW v, NEW t \in {"component", "agent"}, At(q, <<v, t>>),
           NEW n \in NumberMemory, Keeps(q, n), UNCHANGED rowVars, NoteEnv(q),
           v # "create" /\ agents[q] = Null => agents'[q] = Null,
           \/ n = Mem(q) /\ v # "number"
           \/ t = "component"
           \/ n.number = 1 \/ n.number - 1 \in StepsOf(n.id)
    PROVE  RowStepOK(q)
<1>1. PICK c, m, L, N : c = <<v, t>> /\ m = Mem(q) /\ L = Left(q) /\ N = Left(q)'
  OBVIOUS
<1>2. ProcType /\ RowsTypeOK(Tables) /\ RowsInv /\ Knows(q)
  BY DEF RowPre
<1>3. /\ NumberKnown(q, L, m) /\ c \in L /\ Listed(proc[q].todo) /\ Op(q) # "none" /\ m \in NumberMemory
  BY <1>1, <1>2, AtNumber
<1>4. ProcType' /\ Moved(q, c, n)
  <2>1. n \in Memories
    BY DEF Memories
  <2> QED BY <1>1, <1>2, <1>3, <2>1, KeepsMoves
<1>5. /\ N \subseteq L /\ L \subseteq N \cup {c} /\ (N # {} => Mem(q)' = n)
      /\ \A d \in N : Precedes(Rank(c[1]), Rank(d[1]))
      /\ Op(q)' = Op(q) /\ Listed(proc[q].todo)'
  BY <1>1, <1>4 DEF Moved
<1>6. n.id \in RowIds /\ StepsOf(n.id) \subseteq StepsOf(n.id)'
  BY DEF NumberMemory, NoteEnv
<1>7. <<"create", "agent">> \in N => agents'[q] = Null
  <2>1. v = "create" => <<"create", "agent">> \notin N
    BY <1>1, <1>5, RankFacts DEF Precedes
  <2> QED BY <1>3, <1>5, <2>1 DEF NumberKnown
<1>8. <<"insertStep", "agent">> \in N =>
         \/ <<"number", "agent">> \in N
         \/ n.number = 1 \/ n.number - 1 \in StepsOf(n.id)'
  <2> SUFFICES ASSUME <<"insertStep", "agent">> \in N
               PROVE  <<"number", "agent">> \in N \/ n.number = 1 \/ n.number - 1 \in StepsOf(n.id)'
    OBVIOUS
  <2>1. t = "agent"
    BY <1>1, <1>3, <1>5 DEF NumberKnown
  <2>2. <<"number", "agent">> \in L \/ m.number = 1 \/ m.number - 1 \in StepsOf(m.id)
    BY <1>3, <1>5 DEF NumberKnown
  <2> QED BY <1>1, <1>5, <1>6, <2>1, <2>2
<1>9. NumberKnown(q, N, n)'
  BY <1>3, <1>5, <1>7, <1>8 DEF NumberKnown
<1>10. N # {} => NumberKnown(q, Left(q), Mem(q))'
  BY <1>1, <1>5, <1>9
<1>11. Knows(q)'
  BY <1>1, <1>3, <1>5, <1>10 DEF Knows
<1>12. Others(q) /\ rows' = rows /\ files' = files
  BY <1>4 DEF Moved, rowVars
<1> QED BY <1>2, <1>4, <1>11, <1>12, NoRow DEF RowStepOK

LEMMA MessagesOK ==
    ASSUME NEW q \in Requests, RowPre(q), NotesTypeOK, NotesInv, CreateChatMessage(q)
    PROVE  RowStepOK(q) /\ NoteStepsKept(q)
<1>1. /\ At(q, <<"message", "chat">>) /\ Proceeds(q) /\ rows' = rows /\ files' = files
      /\ comps' = comps /\ fields' = fields /\ agents' = agents /\ agentSteps' = agentSteps
      /\ "chat" \in Tables /\ Knows(q)
  BY DEF CreateChatMessage, rowVars, Tables, NoteTables, RowPre
<1>2. PICK i : i = Mem(q).id
  OBVIOUS
<1>3. Mem(q) \in RowMemory /\ i \in RowIds
  BY <1>1, <1>2, AtRow DEF RowMemory
<1>4. messages' \in [RowIds -> Seq(Requests)]
  <2>1. PICK s : s = Append(messages[i], q)
    OBVIOUS
  <2>2. s \in Seq(Requests)
    BY <1>3, <2>1, SeqEnd DEF NotesTypeOK
  <2>3. messages' = [messages EXCEPT ![i] = s]
    BY <1>2, <2>1 DEF CreateChatMessage
  <2> QED BY <2>2, <2>3 DEF NotesTypeOK
<1>5. NotesTypeOK'
  BY <1>1, <1>4 DEF NotesTypeOK
<1>6. NotesInv' /\ NoteEnv(q)
  BY <1>1 DEF NotesInv, SlugsDiffer, StepRows, StepsOf, NoteEnv
<1>7. FilesKept(q) /\ \A j \in RowIds : <<"artifact", j>> \in DOMAIN files => <<"artifact", j>> \in DOMAIN files'
  BY <1>1 DEF FilesKept, RowPre, RowsTypeOK
<1> QED BY <1>1, <1>5, <1>6, <1>7, FileStep DEF NoteStepsKept

\* Induction over the natural numbers, for a set of them: the least number
\* outside of it would bound the smallest interval that is not within it.
LEMMA SetInduction ==
    ASSUME NEW S, 0 \in S, \A n \in Nat : n \in S => n + 1 \in S
    PROVE  Nat \subseteq S
<1> SUFFICES ASSUME NEW m \in Nat, m \notin S PROVE FALSE
  OBVIOUS
<1> DEFINE T == {0..k : k \in {x \in 0..m : x \notin S}}
<1>1. IsFiniteSet(0..m)
  BY FS_Interval
<1>2. IsWellFoundedOn(StrictSubsetOrdering(0..m), SUBSET (0..m))
  BY <1>1, FS_StrictSubsetOrderingWellFounded, FS_FiniteSubsetsOfFinite
<1>3. T \subseteq SUBSET (0..m) /\ T # {}
  <2>1. 0..m \in T
    OBVIOUS
  <2>2. \A k \in 0..m : 0..k \subseteq 0..m
    OBVIOUS
  <2> QED BY <2>1, <2>2
<1>4. PICK x \in T : \A y \in T : ~(<<y, x>> \in StrictSubsetOrdering(0..m))
  <2> HIDE DEF T
  <2> QED BY <1>2, <1>3, WFMin
<1>5. PICK k \in 0..m : k \notin S /\ x = 0..k
  OBVIOUS
<1>6. k # 0 /\ k - 1 \in 0..m
  BY <1>5
<1>7. k - 1 \notin S
  <2>1. k - 1 \in Nat /\ (k - 1) + 1 = k
    BY <1>6
  <2> QED BY <1>5, <2>1
<1>8. 0..(k - 1) \in T
  BY <1>6, <1>7
<1>9. <<0..(k - 1), x>> \in StrictSubsetOrdering(0..m)
  BY <1>3, <1>5, <1>6, <1>8 DEF StrictSubsetOrdering
<1> QED BY <1>4, <1>8, <1>9

\* A set of numbers that is not empty has a least one.
LEMMA LeastNumber ==
    ASSUME NEW F, F \subseteq Nat, F # {}
    PROVE  \E n \in F : \A k \in F : n <= k
<1> DEFINE S == {n \in Nat : \A k \in F : n <= k}
<1> SUFFICES ASSUME \A n \in F : \E k \in F : ~(n <= k) PROVE FALSE
  OBVIOUS
<1>1. 0 \in S
  OBVIOUS
<1>2. ASSUME NEW n \in Nat, n \in S PROVE n + 1 \in S
  <2>1. n \notin F
    BY <1>2
  <2>2. \A k \in F : k \in Nat /\ n <= k /\ k # n
    BY <1>2, <2>1
  <2>3. \A k \in F : n + 1 <= k
    BY <2>2
  <2> QED BY <2>3
<1>3. Nat \subseteq S
  <2> HIDE DEF S
  <2> QED BY <1>1, <1>2, SetInduction
<1>4. PICK k \in F : TRUE
  OBVIOUS
<1>5. k + 1 \in S
  BY <1>3, <1>4
<1> QED BY <1>4, <1>5

\* Of the first n + 1 slugs one is free, when there are n components.
LEMMA SlugIsFree ==
    ASSUME NotesTypeOK, IsFiniteSet(DOMAIN comps), NEW i, NEW n, n = Cardinality(DOMAIN comps)
    PROVE  n \in Nat /\ \E s \in 0..n : s \notin SlugsOfOthers(i)
<1>1. n \in Nat
  BY FS_CardinalityType
<1> SUFFICES ASSUME 0..n \subseteq SlugsOfOthers(i) PROVE FALSE
  BY <1>1
<1>2. \A s \in 0..n : \E j \in DOMAIN comps : comps[j].slug = s
  BY DEF SlugsOfOthers
<1> DEFINE f == [s \in 0..n |-> CHOOSE j \in DOMAIN comps : comps[j].slug = s]
<1>3. f \in [0..n -> DOMAIN comps] /\ \A s \in 0..n : comps[f[s]].slug = s
  BY <1>2
<1>4. IsFiniteSet(0..n) /\ Cardinality(0..n) = n + 1
  BY <1>1, FS_Interval
<1> HIDE DEF f
<1>5. \E x, y \in 0..n : x # y /\ f[x] = f[y]
  <2>1. Cardinality(0..n) > Cardinality(DOMAIN comps)
    BY <1>1, <1>4
  <2> QED BY <1>3, <1>4, <2>1, FS_PigeonHole
<1> QED BY <1>3, <1>5

LEMMA ComponentsOK ==
    ASSUME NEW q \in Requests, RowPre(q), NotesTypeOK, NotesInv,
           \/ UniqueComponentSlug(q) \/ SaveCustomComponent(q) \/ GetComponent(q)
           \/ ClearComponentFields(q) \/ InsertComponentFields(q) \/ DeleteComponent(q)
    PROVE  RowStepOK(q) /\ NoteStepsKept(q)
<1>1. PICK m, i : m = Mem(q) /\ i = m.id
  OBVIOUS
<1>2. ProcType /\ RowsTypeOK(Tables) /\ RowsInv /\ Knows(q) /\ UNCHANGED rowVars
      /\ q \in RowIds /\ Null \notin RowIds
  BY RowsAssumption DEF RowPre, UniqueComponentSlug, SaveCustomComponent, GetComponent, ClearComponentFields,
     InsertComponentFields, DeleteComponent, RowIds
<1>3. PICK v : At(q, <<v, "component">>) /\ v \in {"slug", "save", "getComponent", "clearFields",
                                                   "insertFields", "delete"}
  BY DEF UniqueComponentSlug, SaveCustomComponent, GetComponent, ClearComponentFields,
     InsertComponentFields, DeleteComponent
<1>4. m \in NumberMemory /\ i \in RowIds /\ m.number \in Nat /\ Op(q) # "none"
  BY <1>1, <1>2, <1>3, AtNumber DEF NumberMemory
<1>5. messages' = messages /\ agents' = agents /\ agentSteps' = agentSteps
  BY DEF UniqueComponentSlug, SaveCustomComponent, GetComponent, ClearComponentFields,
     InsertComponentFields, DeleteComponent, noteVars
<1>6. NoteEnv(q)
  BY <1>5 DEF NoteEnv, StepsOf
<1>7. Proceeds(q) => RowStepOK(q)
  <2>1. Proceeds(q) => Keeps(q, m)
    BY <1>1 DEF Proceeds, Mem
  <2> QED BY <1>2, <1>3, <1>4, <1>5, <1>6, <2>1, NumberStep
<1>8. Ends(q) => RowStepOK(q)
  BY <1>2, <1>4, EndsOK
<1>9. ASSUME UNCHANGED comps, fields' \in [RowIds -> RowIds \cup {Null}] PROVE NoteStepsKept(q)
  <2>1. NotesTypeOK'
    BY <1>5, <1>9 DEF NotesTypeOK
  <2>2. NotesInv'
    BY <1>5, <1>9 DEF NotesInv, SlugsDiffer, StepRows, StepsOf
  <2> QED BY <1>6, <2>1, <2>2 DEF NoteStepsKept
<1>10. CASE UniqueComponentSlug(q)
  <2>1. PICK free : free = (0..Cardinality(DOMAIN comps)) \ SlugsOfOthers(i)
    OBVIOUS
  <2>2. PICK s : s = CHOOSE n \in free : \A k \in free : n <= k
    OBVIOUS
  <2>3. s \in Nat
    <3>1. free # {} /\ free \subseteq Nat
      BY <2>1, SlugIsFree DEF NotesInv
    <3>2. \E n \in free : \A k \in free : n <= k
      BY <3>1, LeastNumber
    <3> QED BY <2>2, <3>1, <3>2
  <2>4. PICK n : n = [m EXCEPT !.number = s]
    OBVIOUS
  <2>5. n \in NumberMemory
    BY <1>4, <2>3, <2>4 DEF NumberMemory
  <2>6. Keeps(q, n) /\ UNCHANGED noteVars
    BY <1>1, <1>10, <2>1, <2>2, <2>4 DEF UniqueComponentSlug
  <2>7. RowStepOK(q)
    BY <1>2, <1>3, <1>5, <1>6, <2>5, <2>6, NumberStep
  <2> QED BY <2>6, <2>7, NotesSame
<1>11. CASE GetComponent(q)
  BY <1>7, <1>8, <1>11, NotesSame DEF GetComponent
<1>12. CASE ClearComponentFields(q)
  <2>1. fields' = [fields EXCEPT ![i] = Null] /\ Proceeds(q) /\ UNCHANGED comps
    BY <1>1, <1>12 DEF ClearComponentFields
  <2> QED BY <1>7, <1>9, <2>1 DEF NotesTypeOK
<1>13. CASE InsertComponentFields(q)
  <2>1. /\ (fields' = [fields EXCEPT ![i] = q] /\ Proceeds(q)) \/ (fields' = fields /\ Ends(q))
        /\ UNCHANGED comps
    BY <1>1, <1>13 DEF InsertComponentFields
  <2> QED BY <1>2, <1>7, <1>8, <1>9, <2>1 DEF NotesTypeOK
<1>14. CASE DeleteComponent(q)
  <2>1. /\ fields' = [fields EXCEPT ![i] = Null] /\ Proceeds(q)
        /\ DOMAIN comps' = DOMAIN comps \ {i} /\ \A j \in DOMAIN comps' : comps'[j] = comps[j]
    BY <1>1, <1>14 DEF DeleteComponent, Without
  <2>2. NotesTypeOK'
    BY <1>5, <2>1 DEF NotesTypeOK
  <2>3. IsFiniteSet(DOMAIN comps')
    BY <2>1, FS_RemoveElement DEF NotesInv
  <2>4. SlugsDiffer'
    BY <2>1 DEF NotesInv, SlugsDiffer
  <2>5. NotesInv'
    BY <1>5, <2>3, <2>4 DEF NotesInv, StepRows, StepsOf
  <2> QED BY <1>6, <1>7, <2>1, <2>2, <2>5 DEF NoteStepsKept
<1>15. CASE SaveCustomComponent(q)
  <2>1. CASE SlugTaken(m)
    <3>1. Ends(q) /\ UNCHANGED noteVars
      BY <1>1, <1>15, <2>1 DEF SaveCustomComponent, noteVars
    <3> QED BY <1>8, <3>1, NotesSame
  <2>2. CASE ~SlugTaken(m)
    <3>1. PICK r : r = [slug |-> m.number, by |-> q]
      OBVIOUS
    <3>2. comps' = With(comps, i, r) /\ Proceeds(q) /\ fields' = fields
      BY <1>1, <1>15, <2>2, <3>1 DEF SaveCustomComponent
    <3>3. /\ DOMAIN comps' = DOMAIN comps \cup {i} /\ comps'[i] = r
          /\ \A j \in DOMAIN comps : j # i => comps'[j] = comps[j]
      BY <3>2 DEF With
    <3>4. r \in [slug : Nat, by : RowIds] /\ r.slug = m.number
      BY <1>2, <1>4, <3>1
    <3>5. NotesTypeOK'
      BY <1>4, <1>5, <3>2, <3>3, <3>4 DEF NotesTypeOK
    <3>6. IsFiniteSet(DOMAIN comps')
      BY <3>3, FS_AddElement DEF NotesInv
    <3>7. \A j \in DOMAIN comps : j # i => comps[j].slug # m.number
      BY <1>1, <2>2 DEF SlugTaken, SlugsOfOthers
    <3>8. SlugsDiffer'
      BY <3>3, <3>4, <3>7 DEF NotesInv, SlugsDiffer
    <3>9. NotesInv'
      BY <1>5, <3>6, <3>8 DEF NotesInv, StepRows, StepsOf
    <3> QED BY <1>6, <1>7, <3>2, <3>5, <3>9 DEF NoteStepsKept
  <2> QED BY <2>1, <2>2
<1> QED BY <1>10, <1>11, <1>12, <1>13, <1>14, <1>15

\* The highest number of a step is the number of steps.
LEMMA LastStepIs ==
    ASSUME NotesInv, NEW i \in RowIds
    PROVE  LastStep(i) = Cardinality(StepRows(i)) /\ LastStep(i) \in Nat
<1>1. PICK n : n = Cardinality(StepRows(i))
  OBVIOUS
<1>2. n \in Nat /\ StepsOf(i) = 1..n
  BY <1>1, FS_CardinalityType DEF NotesInv
<1>3. n \in StepsOf(i) \cup {0} /\ \A k \in StepsOf(i) : k <= n
  BY <1>2
<1>4. \A x \in StepsOf(i) \cup {0} : (\A k \in StepsOf(i) : k <= x) => x = n
  BY <1>2
<1>5. LastStep(i) = n
  BY <1>3, <1>4 DEF LastStep
<1> QED BY <1>1, <1>2, <1>5

LEMMA AgentsOK ==
    ASSUME NEW q \in Requests, RowPre(q), NotesTypeOK, NotesInv,
           \/ CreateAgentSession(q) \/ LoadSession(q) \/ FinishAgentSession(q) \/ NumberAgentStep(q)
           \/ CreateAgentSessionStep(q)
    PROVE  RowStepOK(q) /\ NoteStepsKept(q)
<1>1. PICK m, i : m = Mem(q) /\ i = m.id
  OBVIOUS
<1>2. ProcType /\ RowsTypeOK(Tables) /\ RowsInv /\ Knows(q) /\ UNCHANGED rowVars
      /\ q \in RowIds /\ Null \notin RowIds
  BY RowsAssumption DEF RowPre, CreateAgentSession, LoadSession, FinishAgentSession, NumberAgentStep,
     CreateAgentSessionStep, RowIds
<1>3. PICK v : /\ At(q, <<v, "agent">>) /\ v \in {"create", "load", "finish", "number", "insertStep"}
               /\ v = "create" <=> CreateAgentSession(q)
               /\ v = "number" <=> NumberAgentStep(q)
  BY DEF CreateAgentSession, LoadSession, FinishAgentSession, NumberAgentStep, CreateAgentSessionStep, At
<1>4. /\ m \in NumberMemory /\ i \in RowIds /\ m.number \in Nat /\ m.status \in AgentStatus
      /\ Op(q) # "none" /\ NumberKnown(q, Left(q), m) /\ <<v, "agent">> \in Left(q)
  BY <1>1, <1>2, <1>3, AtNumber DEF NumberMemory
<1>5. messages' = messages /\ comps' = comps /\ fields' = fields
  BY DEF CreateAgentSession, LoadSession, FinishAgentSession, NumberAgentStep,
     CreateAgentSessionStep, noteVars
<1>6. SlugsDiffer' /\ IsFiniteSet(DOMAIN comps')
  BY <1>5 DEF NotesInv, SlugsDiffer
<1>7. ASSUME Proceeds(q), NoteEnv(q), v # "number", v # "create" /\ agents[q] = Null => agents'[q] = Null
      PROVE  RowStepOK(q)
  <2>1. Keeps(q, m)
    BY <1>1, <1>7 DEF Proceeds, Mem
  <2> QED BY <1>1, <1>2, <1>3, <1>4, <1>7, <2>1, NumberStep
<1>8. ASSUME agentSteps' = agentSteps, agents' \in [RowIds -> AgentStatus \cup {Null}],
             \A j \in RowIds : agents'[j] # agents[j] => agents[j] = "running" \/ (j = q /\ agents[j] = Null)
      PROVE  NoteStepsKept(q)
  <2>1. NotesTypeOK'
    BY <1>5, <1>8 DEF NotesTypeOK
  <2>2. NotesInv'
    BY <1>6, <1>8 DEF NotesInv, StepRows, StepsOf
  <2>3. Null # "running" /\ Null \notin {"completed", "failed"} /\ Requests \subseteq RowIds
    BY NotesAssumption DEF AgentStatus, RowIds
  <2>4. NoteEnv(q)
    BY <1>8, <2>3 DEF NoteEnv, StepsOf
  <2> QED BY <2>1, <2>2, <2>4 DEF NoteStepsKept
<1>9. CASE CreateAgentSession(q)
  <2>1. agents[q] = Null
    BY <1>3, <1>4, <1>9 DEF NumberKnown
  <2>2. agents' = [agents EXCEPT ![q] = "running"] /\ agentSteps' = agentSteps /\ Proceeds(q)
    BY <1>9 DEF CreateAgentSession
  <2>3. NoteStepsKept(q)
    BY <1>2, <1>8, <2>1, <2>2 DEF NotesTypeOK, AgentStatus
  <2>4. v = "create"
    BY <1>3, <1>9
  <2> QED BY <1>7, <2>2, <2>3, <2>4 DEF NoteStepsKept
<1>10. CASE LoadSession(q)
  <2>1. Proceeds(q) /\ UNCHANGED noteVars /\ agents' = agents /\ v # "number"
    BY <1>3, <1>10 DEF LoadSession, noteVars, NumberAgentStep, At
  <2>2. NoteStepsKept(q)
    BY <2>1, NotesSame
  <2> QED BY <1>7, <2>1, <2>2 DEF NoteStepsKept
<1>11. CASE FinishAgentSession(q)
  <2>1. /\ Proceeds(q) /\ agentSteps' = agentSteps /\ v # "number"
        /\ agents' = agents \/ (agents[i] = "running" /\ agents' = [agents EXCEPT ![i] = m.status])
    BY <1>1, <1>3, <1>11 DEF FinishAgentSession, NumberAgentStep, At, StillRunning
  <2>2. NoteStepsKept(q)
    <3>1. agents' \in [RowIds -> AgentStatus \cup {Null}]
      BY <1>4, <2>1 DEF NotesTypeOK
    <3>2. \A j \in RowIds : agents'[j] # agents[j] => agents[j] = "running"
      BY <1>4, <2>1 DEF NotesTypeOK
    <3> QED BY <1>8, <2>1, <3>1, <3>2
  <2>3. agents[q] = Null => agents'[q] = Null
    BY <1>2, <1>4, <2>1, NotesAssumption DEF NotesTypeOK, AgentStatus
  <2> QED BY <1>7, <2>1, <2>2, <2>3 DEF NoteStepsKept
<1>12. CASE NumberAgentStep(q)
  <2>1. PICK l, n : l = LastStep(i) /\ n = [m EXCEPT !.number = l + 1]
    OBVIOUS
  <2>2. l \in Nat /\ l = Cardinality(StepRows(i)) /\ StepsOf(i) = 1..l
    BY <1>4, <2>1, LastStepIs DEF NotesInv
  <2>3. n \in NumberMemory /\ n.number = l + 1 /\ n.id = i
    BY <1>1, <1>4, <2>1, <2>2 DEF NumberMemory
  <2>4. n.number = 1 \/ n.number - 1 \in StepsOf(n.id)
    BY <2>2, <2>3
  <2>5. Keeps(q, n) /\ UNCHANGED noteVars /\ agents' = agents
    BY <1>1, <1>12, <2>1 DEF NumberAgentStep, noteVars
  <2>6. NoteStepsKept(q)
    BY <2>5, NotesSame
  <2>7. NoteEnv(q)
    BY <2>6 DEF NoteStepsKept
  <2>8. RowStepOK(q)
    BY <1>2, <1>3, <2>3, <2>4, <2>5, <2>7, NumberStep
  <2> QED BY <2>6, <2>8
<1>13. CASE CreateAgentSessionStep(q)
  <2>1. At(q, <<"insertStep", "agent">>) /\ Proceeds(q) /\ agents' = agents /\ v # "number" /\ v # "create"
        /\ v = "insertStep"
    BY <1>3, <1>13 DEF CreateAgentSessionStep, NumberAgentStep, CreateAgentSession, At
  <2>2. CASE SeqTaken(m)
    <3>1. UNCHANGED noteVars
      BY <1>1, <1>5, <1>13, <2>1, <2>2 DEF CreateAgentSessionStep, noteVars
    <3>2. NoteStepsKept(q)
      BY <3>1, NotesSame
    <3> QED BY <1>7, <2>1, <3>2 DEF NoteStepsKept
  <2>3. CASE ~SeqTaken(m)
    <3>1. PICK x : x = [session |-> i, seq |-> m.number, id |-> q]
      OBVIOUS
    <3>2. /\ agentSteps' = agentSteps \cup {x} /\ x \in [session : RowIds, seq : Nat, id : Requests]
          /\ x.session = i /\ x.seq = m.number
      BY <1>1, <1>4, <1>13, <2>3, <3>1 DEF CreateAgentSessionStep
    <3>3. NotesTypeOK'
      BY <1>5, <2>1, <3>2 DEF NotesTypeOK
    <3>4. /\ StepRows(i)' = StepRows(i) \cup {x} /\ StepsOf(i)' = StepsOf(i) \cup {m.number}
          /\ \A j \in RowIds : j # i => StepRows(j)' = StepRows(j) /\ StepsOf(j)' = StepsOf(j)
      BY <3>2 DEF StepRows, StepsOf
    <3>5. PICK n, A, B : n = Cardinality(StepRows(i)) /\ A = StepRows(i) /\ B = StepsOf(i)
      OBVIOUS
    <3>6. IsFiniteSet(A) /\ n \in Nat /\ B = 1..n /\ m.number \notin B
      BY <1>1, <1>4, <2>3, <3>5, FS_CardinalityType DEF NotesInv, SeqTaken
    <3>7. x \notin A
      BY <3>2, <3>5, <3>6 DEF StepRows, StepsOf
    <3>8. IsFiniteSet(A \cup {x}) /\ Cardinality(A \cup {x}) = n + 1
      BY <3>5, <3>6, <3>7, FS_AddElement
    <3>9. m.number = n + 1
      <4>1. <<"number", "agent">> \notin Left(q)
        <5>1. <<"number", "agent">> \in Left(q) => Precedes(Rank("insertStep"), Rank("number"))
          BY <1>2, <2>1, HeadFirst
        <5>2. Rank("insertStep") = 4 /\ Rank("number") = 2
          BY RankFacts DEF Prepares
        <5> QED BY <5>1, <5>2 DEF Precedes
      <4>2. m.number = 1 \/ m.number - 1 \in B
        BY <1>1, <1>4, <2>1, <3>5, <4>1 DEF NumberKnown
      <4> QED BY <1>4, <3>6, <4>2
    <3>10. B \cup {m.number} = 1..(n + 1)
      BY <3>6, <3>9
    <3>11. IsFiniteSet(StepRows(i)') /\ StepsOf(i)' = 1..Cardinality(StepRows(i)')
      BY <3>4, <3>5, <3>8, <3>10
    <3>12. NotesInv'
      <4>1. \A j \in RowIds : IsFiniteSet(StepRows(j)') /\ StepsOf(j)' = 1..Cardinality(StepRows(j)')
        BY <3>4, <3>11 DEF NotesInv
      <4> QED BY <1>6, <4>1 DEF NotesInv
    <3>13. NoteEnv(q)
      <4>1. \A j \in RowIds : StepsOf(j) \subseteq StepsOf(j)'
        BY <3>2 DEF StepsOf
      <4> QED BY <2>1, <4>1 DEF NoteEnv
    <3> QED BY <1>7, <2>1, <3>3, <3>12, <3>13 DEF NoteStepsKept
  <2> QED BY <2>2, <2>3
<1> QED BY <1>9, <1>10, <1>11, <1>12, <1>13

LEMMA NoteStepOK ==
    ASSUME NEW q \in Requests, RowPre(q), NotesTypeOK, NotesInv, NoteStep(q)
    PROVE  RowStepOK(q) /\ NoteStepsKept(q)
<1>1. CASE NoteRowStep(q) /\ UNCHANGED noteVars
  BY <1>1, NoteRowStepOK, NotesSame
<1>2. CASE CreateChatMessage(q)
  BY <1>2, MessagesOK
<1>3. CASE \/ UniqueComponentSlug(q) \/ SaveCustomComponent(q) \/ GetComponent(q)
           \/ ClearComponentFields(q) \/ InsertComponentFields(q) \/ DeleteComponent(q)
  BY <1>3, ComponentsOK
<1>4. CASE \/ CreateAgentSession(q) \/ LoadSession(q) \/ FinishAgentSession(q) \/ NumberAgentStep(q)
           \/ CreateAgentSessionStep(q)
  BY <1>4, AgentsOK
<1> QED BY <1>1, <1>2, <1>3, <1>4 DEF NoteStep, NoteRowStep

(***************************************************************************)
(* A request arrives.                                                      *)
(***************************************************************************)
\* Short lists.
LEMMA ShortLists ==
    /\ \A a \in AllCalls : Listed(<<a>>) /\ CallsOf(<<a>>) = {a}
    /\ \A a, b \in AllCalls : Precedes(Rank(a[1]), Rank(b[1])) =>
         Listed(<<a, b>>) /\ CallsOf(<<a, b>>) = {a, b}
    /\ \A a, b, c \in AllCalls :
         Precedes(Rank(a[1]), Rank(b[1])) /\ Precedes(Rank(a[1]), Rank(c[1]))
           /\ Precedes(Rank(b[1]), Rank(c[1])) =>
         Listed(<<a, b, c>>) /\ CallsOf(<<a, b, c>>) = {a, b, c}
<1>1. ASSUME NEW a \in AllCalls PROVE Listed(<<a>>) /\ CallsOf(<<a>>) = {a}
  <2>1. <<a>> \in Seq(AllCalls) /\ Len(<<a>>) = 1 /\ 1..1 = {1} /\ <<a>>[1] = a
    OBVIOUS
  <2> QED BY <2>1 DEF Listed, Ordered, CallsOf
<1>2. ASSUME NEW a \in AllCalls, NEW b \in AllCalls, Precedes(Rank(a[1]), Rank(b[1]))
      PROVE  Listed(<<a, b>>) /\ CallsOf(<<a, b>>) = {a, b}
  <2>1. PICK s : s = <<a, b>>
    OBVIOUS
  <2>2. s \in Seq(AllCalls) /\ Len(s) = 2 /\ 1..2 = {1, 2} /\ s[1] = a /\ s[2] = b
    BY <2>1
  <2>3. Ordered(s)
    BY <1>2, <2>2 DEF Ordered
  <2>4. CallsOf(s) = {a, b}
    BY <2>2 DEF CallsOf
  <2> QED BY <2>1, <2>2, <2>3, <2>4 DEF Listed
<1>3. ASSUME NEW a \in AllCalls, NEW b \in AllCalls, NEW c \in AllCalls,
             Precedes(Rank(a[1]), Rank(b[1])), Precedes(Rank(a[1]), Rank(c[1])),
             Precedes(Rank(b[1]), Rank(c[1]))
      PROVE  Listed(<<a, b, c>>) /\ CallsOf(<<a, b, c>>) = {a, b, c}
  <2>1. PICK s : s = <<a, b, c>>
    OBVIOUS
  <2>2. s \in Seq(AllCalls) /\ Len(s) = 3 /\ 1..3 = {1, 2, 3} /\ s[1] = a /\ s[2] = b /\ s[3] = c
    BY <2>1
  <2>3. Ordered(s)
    BY <1>3, <2>2 DEF Ordered
  <2>4. CallsOf(s) = {a, b, c}
    BY <2>2 DEF CallsOf
  <2> QED BY <2>1, <2>2, <2>3, <2>4 DEF Listed
<1> QED BY <1>1, <1>2, <1>3

\* Maps are counted before one is added.
Counted(L) == <<"insert", "map">> \in L => <<"count", "map">> \in L

\* The tables whose rows are saved only when they were made by hand, those whose
\* rows belong to a row of another table, and those that may name a version.
HandSaved == {"model", "run", "dataset", "artifact", "evaluation"}
Owned == {"run", "dataset", "evaluation", "artifact", "deployment", "finding"}
Over(t) == IF t = "artifact" THEN "run" ELSE IF t \in {"deployment", "finding"} THEN "model" ELSE "experiment"
Linked == {"evaluation", "deployment", "finding"}

FrameWrites == {<<"insert", "frame">>, <<"save", "frame">>, <<"saveAll", "frame">>}
DocWrites == {<<"insert", "doc">>, <<"save", "doc">>}
DocCalls == {<<"store", "doc">>, <<"dropOld", "doc">>, <<"insert", "doc">>, <<"save", "doc">>}

\* The calls that need the row as it was read.
Renews == {"save", "saveAll", "saveProject", "saveExperiment", "saveFinding", "dropOld", "message",
           "touch"}

\* What is yet to come in a list of calls, however much of it is done.
Planned(L) ==
    /\ \A t \in HandSaved : <<"save", t>> \in L => \A g \in L : g[1] \in Getters => g[1] = "getManual"
    /\ <<"saveExperiment", "experiment">> \in L => \A g \in L : g[1] \in Getters => g[1] = "getTags"
    /\ <<"insert", "frame">> \in L => \A g \in L : g[1] \notin Getters
    /\ <<"resolve", "frame">> \in L => \E w \in FrameWrites : w \in L
    /\ <<"insert", "model">> \in L => <<"firstVersion", "model">> \in L
    /\ <<"dropOld", "doc">> \in L => <<"save", "doc">> \in L
    /\ <<"message", "chat">> \in L => <<"touch", "chat">> \in L
    /\ <<"save", "component">> \in L => <<"insertFields", "component">> \in L
    /\ <<"clearFields", "component">> \in L =>
          <<"insertFields", "component">> \in L \/ <<"delete", "component">> \in L

\* What comes before a call in a list of which nothing is done.
Begins(L) ==
    /\ \A t \in Owned : <<"insert", t>> \in L => <<"ensure", Over(t)>> \in L
    /\ \A t \in Linked : <<"insert", t>> \in L => <<"ensureIf", "version">> \in L
    /\ <<"firstVersion", "model">> \in L => <<"insert", "model">> \in L
    /\ \A c \in FrameWrites : c \in L => <<"resolve", "frame">> \in L
    /\ \A c \in DocCalls : c \in L => <<"store", "doc">> \in L
    /\ <<"save", "doc">> \in L => <<"dropOld", "doc">> \in L
    /\ <<"touch", "chat">> \in L => <<"message", "chat">> \in L
    /\ <<"insertFields", "component">> \in L => <<"save", "component">> \in L
    /\ <<"delete", "component">> \in L => <<"clearFields", "component">> \in L
    /\ <<"deploy", "version">> \in L => <<"getStatus", "version">> \in L
    /\ \A c \in L : c[1] \in Renews /\ c[2] \in Tables => \E g \in L : g[1] \in Getters

Laid(L) == Counted(L) /\ Planned(L) /\ Begins(L)

\* The file that a body names for a document, what is held of a frame, and the
\* operations that sync.
Given(q, op, L, m) ==
    /\ L \cap DocCalls # {} => m.file \in {q, Asset, Null}
    /\ L \cap FrameCalls # {} => m.held = Null
    /\ op \in DOMAIN MlSyncs => \A c \in L : c[1] = "sync"
    /\ \A t \in Tables : <<"sync", t>> \in L => op \in DOMAIN MlSyncs /\ MlSyncs[op].table = t

StartOK(q) ==
    /\ RowStepOK(q) /\ Op(q) = "none" /\ Laid(Left(q)') /\ Given(q, Op(q)', Left(q)', Mem(q)')
    /\ clean' = (clean /\ Quiet)
    /\ Cardinality({p \in Requests : Busy(p)}) < InFlight

\* What a request knows when it arrives.
LEMMA ArrivesOK ==
    ASSUME NEW q \in Requests, RowPre(q), NEW op \in ContentOps, NEW s, Listed(s), NEW m,
           Arrives(q, op, s, m), UNCHANGED rowVars,
           \/ RowKnown(q, CallsOf(s), m)' \/ NumberKnown(q, CallsOf(s), m)' \/ DeployKnown(CallsOf(s), m),
           Laid(CallsOf(s)), Given(q, op, CallsOf(s), m)
    PROVE  StartOK(q)
<1>1. ProcType /\ RowsTypeOK(Tables) /\ RowsInv /\ rows' = rows /\ files' = files
  BY DEF RowPre, rowVars
<1>2. m \in Memories
  BY DEF RowKnown, NumberKnown, DeployKnown, Memories
<1>3. /\ ProcType' /\ Others(q) /\ Op(q)' = op
      /\ proc'[q].todo = s /\ Left(q)' = CallsOf(s) /\ Mem(q)' = m
  BY <1>1, <1>2, ArrivesMoves
<1>4. op # "none"
  BY DEF ContentOps, MapOps, NoteOps, MlOps, MapSteps, NoteSteps, ComponentSteps, AgentOps, MlSteps, MlSyncs
<1>5. \/ RowKnown(q, Left(q), Mem(q))' \/ NumberKnown(q, Left(q), Mem(q))' \/ DeployKnown(Left(q), Mem(q))'
  <2>1. CASE RowKnown(q, CallsOf(s), m)'
    BY <1>3, <2>1
  <2>2. CASE NumberKnown(q, CallsOf(s), m)'
    BY <1>3, <2>2
  <2>3. CASE DeployKnown(CallsOf(s), m)
    BY <1>3, <2>3 DEF DeployKnown
  <2> QED BY <2>1, <2>2, <2>3
<1>6. Knows(q)'
  BY <1>3, <1>4, <1>5 DEF Knows
<1>7. RowStepOK(q)
  BY <1>1, <1>3, <1>6, NoRow DEF RowStepOK
<1>8. Op(q) = "none" /\ Cardinality({p \in Requests : Busy(p)}) < InFlight /\ clean' = (clean /\ Quiet)
  BY DEF Arrives, Op
<1>9. PICK N, n, o : N = Left(q)' /\ n = Mem(q)' /\ o = Op(q)'
  OBVIOUS
<1>10. Laid(N) /\ Given(q, o, N, n)
  BY <1>3, <1>9
<1> QED BY <1>7, <1>8, <1>9, <1>10 DEF StartOK

\* A list of calls about rows that knows what it needs, and the files that a
\* body may name for it.
StepsOK(L) ==
    /\ L \subseteq RowCalls /\ OneTable(L)
    /\ (\E c \in L : c[1] \in Uses) => \E g \in L : g[1] \in Getters
    /\ Laid(L)
    /\ \A c \in L : /\ c[1] \notin {"createProject", "sync", "syncEvent", "restore"}
                    /\ c[1] = "resolve" => c[2] = "frame"
                    /\ c[1] = "upload" => c[2] = "artifact" /\ <<"save", "artifact">> \notin L
                    /\ c[1] = "dropFile" => <<"remove", "artifact">> \in L

BodyOK(q, L, F) ==
    /\ F \subseteq FileRefs
    /\ L \cap FrameCalls # {} => /\ F \subseteq Shots \cup {Asset, Null}
                                 /\ F = {Null} \/ <<"resolve", "frame">> \in L
    /\ <<"insert", "artifact">> \in L => F = {Null} \/ (F = {q} /\ <<"upload", "artifact">> \in L)
    /\ <<"save", "artifact">> \in L => F = {Null}
    /\ L \cap DocCalls # {} => F \subseteq {q, Asset, Null}

LEMMA RowStartOK ==
    ASSUME NEW q \in Requests, RowPre(q), NEW op \in ContentOps, op \notin DOMAIN MlSyncs, NEW s, Listed(s),
           StepsOK(CallsOf(s)), NEW F, BodyOK(q, CallsOf(s), F), RowStart(q, op, s, F), UNCHANGED rowVars
    PROVE  StartOK(q)
<1>1. PICK L : L = CallsOf(s)
  OBVIOUS
<1>2. DOMAIN s = 1..Len(s) /\ \A v : Does(s, v) <=> \E c \in L : c[1] = v
  BY <1>1 DEF Listed, Does, CallsOf
<1>3. PICK i \in IF Does(s, "insert") THEN {q} ELSE Known(Subject(s)),
           p \in RowIds \cup {Null}, l \in RowIds \cup {Null}, g \in SUBSET Columns, f \in F :
             Arrives(q, op, s, [id |-> i, parent |-> p, link |-> l, gives |-> g, ref |-> Null,
                                file |-> f, held |-> Null])
  <2>1. \A t : Known(t) \subseteq RowIds
    BY DEF Known
  <2>2. \A v : UNION {Known(t) : t \in Checked(s, v)} \subseteq RowIds
    BY <2>1
  <2>3. Gives \subseteq SUBSET Columns /\ Columns \in SUBSET Columns
    BY RowsAssumption
  <2> QED BY <2>2, <2>3 DEF RowStart
<1>4. PICK m : m = [id |-> i, parent |-> p, link |-> l, gives |-> g, ref |-> Null,
                    file |-> f, held |-> Null]
  OBVIOUS
<1>5. /\ m \in RowMemory /\ m.id = i /\ m.ref = Null /\ m.file = f /\ m.held = Null
      /\ (Does(s, "insert") => m.id = q)
  <2>1. i \in RowIds /\ f \in FileRefs
    BY <1>1, <1>3 DEF Known, RowIds, BodyOK
  <2> QED BY <1>3, <1>4, <2>1 DEF RowMemory
<1>6. Op(q) = "none" /\ rows' = rows /\ files' = files
  BY <1>3 DEF Arrives, Op, rowVars
<1>7. \A t \in Tables : <<t, q>> \notin DOMAIN rows'
  BY <1>6 DEF RowPre, Knows
<1>8. StepsOK(L) /\ BodyOK(q, L, F) /\ "version" \in Tables
  BY <1>1, TablesApart
<1>9. HeldKnown(L, m)
  BY <1>8 DEF StepsOK, HeldKnown
<1>10. NewRowKnown(q, L, m)'
  <2>1. \A c \in L : Made(c) \in Tables
    BY <1>8 DEF StepsOK, RowCalls, Made
  <2>2. \A c \in L : c[1] \notin {"createProject", "sync", "syncEvent", "restore"}
    BY <1>8 DEF StepsOK
  <2> QED BY <1>2, <1>5, <1>7, <2>1, <2>2 DEF NewRowKnown
<1>11. FrameKnown(L, m)'
  BY <1>3, <1>5, <1>8, RowsAssumption DEF BodyOK, FrameKnown
<1>12. ArtifactKnown(q, L, m)'
  <2>1. <<"sync", "artifact">> \notin L
    BY <1>8 DEF StepsOK
  <2>2. <<"dropFile", "artifact">> \in L => <<"remove", "artifact">> \in L
    BY <1>8 DEF StepsOK
  <2> QED BY <1>3, <1>5, <1>8, <2>1, <2>2 DEF BodyOK, ArtifactKnown
<1>13. RowKnown(q, L, m)'
  BY <1>5, <1>8, <1>9, <1>10, <1>11, <1>12 DEF StepsOK, RowKnown, HeldKnown, OneTable
<1>14. Given(q, op, L, m)
  BY <1>3, <1>5, <1>8 DEF BodyOK, StepsOK, Given
<1>15. Arrives(q, op, s, m) /\ RowKnown(q, CallsOf(s), m)' /\ Laid(CallsOf(s)) /\ Given(q, op, CallsOf(s), m)
  BY <1>1, <1>3, <1>4, <1>8, <1>13, <1>14 DEF StepsOK
<1> QED BY <1>15, ArrivesOK

GoodSteps(s) == Listed(s) /\ StepsOK(CallsOf(s))

\* The calls are known.
LEMMA KnownVerbs ==
    /\ {"insert", "get", "getManual", "ensure", "ensureIf", "save", "remove", "count", "resolve",
        "saveAll", "getCanvas", "upsert", "store", "dropOld", "message", "touch", "saveEvent", "erase",
        "syncEvent"} \subseteq Verbs \ {"getStatus", "deploy"}
    /\ {"createProject", "saveProject", "restore", "firstVersion", "saveCard", "getTags",
        "saveExperiment", "upload", "dropFile", "saveFinding", "setRun", "setVersion",
        "sync"} \subseteq Verbs \ {"getStatus", "deploy"}
    /\ RowCalls \subseteq AllCalls
<1>1. {"insert", "get", "getManual", "ensure", "ensureIf", "save", "remove", "count", "resolve",
        "saveAll", "getCanvas", "upsert", "store", "dropOld", "message", "touch", "saveEvent", "erase",
        "syncEvent"} \subseteq Verbs \ {"getStatus", "deploy"}
  BY DEF Verbs, MapVerbs, NoteVerbs
<1>2. {"createProject", "saveProject", "restore", "firstVersion", "saveCard", "getTags",
        "saveExperiment", "upload", "dropFile", "saveFinding", "setRun", "setVersion",
        "sync"} \subseteq Verbs \ {"getStatus", "deploy"}
  BY DEF Verbs, MlVerbs
<1> QED BY <1>1, <1>2 DEF RowCalls, AllCalls

\* One call.
LEMMA OneCall ==
    ASSUME NEW t \in Tables, NEW v \in {"insert", "remove", "saveEvent", "erase"},
           v = "insert" => t \notin {"map", "model", "frame", "doc"} \cup Owned
    PROVE  GoodSteps(<<<<v, t>>>>)
<1>1. PICK a : a = <<v, t>>
  OBVIOUS
<1>2. a \in RowCalls /\ a \in AllCalls
  BY <1>1, KnownVerbs DEF RowCalls
<1>3. Listed(<<a>>) /\ CallsOf(<<a>>) = {a}
  BY <1>2, ShortLists
<1>4. StepsOK({a})
  BY <1>1, <1>2 DEF StepsOK, OneTable, Laid, Planned, Begins, Counted, Getters, Uses,
     HandSaved, Owned, Over, Linked, FrameWrites, DocCalls, Renews
<1> QED BY <1>1, <1>3, <1>4 DEF GoodSteps

\* A row is read and written.
LEMMA GetAndWrite ==
    ASSUME NEW t \in Tables, NEW v \in {"get", "getManual"}, NEW w \in {"save", "remove", "saveCard"},
           w = "save" => t \notin {"frame", "doc"} /\ (t \in HandSaved => v = "getManual")
    PROVE  GoodSteps(<<<<v, t>>, <<w, t>>>>)
<1>1. PICK a, b : a = <<v, t>> /\ b = <<w, t>>
  OBVIOUS
<1>2. a \in RowCalls /\ a \in AllCalls /\ b \in RowCalls /\ b \in AllCalls
  BY <1>1, KnownVerbs DEF RowCalls
<1>3. Rank(a[1]) = 1 /\ Rank(b[1]) = 4
  BY <1>1, RankFacts DEF Looks
<1>4. Precedes(Rank(a[1]), Rank(b[1]))
  BY <1>3 DEF Precedes
<1>5. Listed(<<a, b>>) /\ CallsOf(<<a, b>>) = {a, b}
  BY <1>2, <1>4, ShortLists
<1>6. Laid({a, b})
  <2>1. Planned({a, b})
    BY <1>1, TablesApart DEF Planned, Getters
  <2>2. Begins({a, b})
    BY <1>1 DEF Begins, FrameWrites, DocCalls, Getters
  <2> QED BY <1>1, <2>1, <2>2 DEF Laid, Counted
<1>7. StepsOK({a, b})
  BY <1>1, <1>2, <1>6 DEF StepsOK, OneTable, Uses, Getters
<1> QED BY <1>1, <1>5, <1>7 DEF GoodSteps

\* A row is made when something else is in order.
LEMMA CheckAndInsert ==
    ASSUME NEW t \in Tables, NEW u \in Tables, NEW v \in {"ensure", "count", "resolve", "store"},
           t = "map" => v = "count", v = "count" => u = t, v = "store" <=> t = "doc", v = "store" => u = t,
           v = "resolve" <=> t = "frame", v = "resolve" => u = "frame",
           t \in Owned => v = "ensure" /\ u = Over(t), t \notin Linked \cup {"model"}
    PROVE  GoodSteps(<<<<v, u>>, <<"insert", t>>>>)
<1>1. PICK a, b : a = <<v, u>> /\ b = <<"insert", t>>
  OBVIOUS
<1>2. a \in RowCalls /\ a \in AllCalls /\ b \in RowCalls /\ b \in AllCalls
  BY <1>1, KnownVerbs DEF RowCalls
<1>3. Rank(a[1]) \in {1, 2} /\ Rank(b[1]) = 4
  BY <1>1, RankFacts DEF Looks, Prepares
<1>4. Precedes(Rank(a[1]), Rank(b[1]))
  BY <1>3 DEF Precedes
<1>5. Listed(<<a, b>>) /\ CallsOf(<<a, b>>) = {a, b}
  BY <1>2, <1>4, ShortLists
<1>6. StepsOK({a, b})
  BY <1>1, <1>2 DEF StepsOK, OneTable, Laid, Planned, Begins, Counted, Getters, Uses,
     HandSaved, Owned, Over, Linked, FrameWrites, DocCalls, Renews
<1> QED BY <1>1, <1>5, <1>6 DEF GoodSteps

LEMMA MapListsOK == \A op \in DOMAIN MapSteps : GoodSteps(MapSteps[op])
<1>1. /\ "map" \in Tables /\ "frame" \in Tables /\ "point" \in Tables /\ "group" \in Tables
      /\ "frameLink" \in Tables /\ "meta" \in Tables
  BY DEF Tables, MapTables
<1>2. GoodSteps(CreateMapSteps) /\ GoodSteps(CreateFrameSteps) /\ GoodSteps(SyncNewFrameSteps)
  BY <1>1, CheckAndInsert DEF CreateMapSteps, CreateFrameSteps, SyncNewFrameSteps, Owned, Linked
<1>3. ASSUME NEW w \in {"save", "saveAll"}
      PROVE  GoodSteps(<<<<"get", "frame">>, <<"resolve", "frame">>, <<w, "frame">>>>)
  <2>1. PICK a, b, c : a = <<"get", "frame">> /\ b = <<"resolve", "frame">> /\ c = <<w, "frame">>
    OBVIOUS
  <2>2. a \in RowCalls /\ b \in RowCalls /\ c \in RowCalls /\ a \in AllCalls /\ b \in AllCalls /\ c \in AllCalls
    BY <1>1, <2>1, KnownVerbs DEF RowCalls
  <2>3. Rank(a[1]) = 1 /\ Rank(b[1]) = 2 /\ Rank(c[1]) = 4
    BY <2>1, RankFacts DEF Looks, Prepares
  <2>4. Precedes(Rank(a[1]), Rank(b[1])) /\ Precedes(Rank(a[1]), Rank(c[1])) /\ Precedes(Rank(b[1]), Rank(c[1]))
    BY <2>3 DEF Precedes
  <2>5. Listed(<<a, b, c>>) /\ CallsOf(<<a, b, c>>) = {a, b, c}
    BY <2>2, <2>4, ShortLists
  <2>6. StepsOK({a, b, c})
    BY <1>1, <2>1, <2>2 DEF StepsOK, OneTable, Laid, Planned, Begins, Counted, Getters, Uses,
       HandSaved, Owned, Over, Linked, FrameWrites, DocCalls, Renews
  <2> QED BY <2>1, <2>5, <2>6 DEF GoodSteps
<1>4. GoodSteps(UpdateFrameSteps) /\ GoodSteps(SyncFrameSteps)
  BY <1>3 DEF UpdateFrameSteps, SyncFrameSteps
<1>5. /\ GoodSteps(UpdateMapSteps) /\ GoodSteps(UpdateFocalPointSteps) /\ GoodSteps(UpdateGroupSteps)
      /\ GoodSteps(UpdateLinkSteps) /\ GoodSteps(UpdateMetaSteps)
  BY <1>1, GetAndWrite DEF HandSaved, UpdateMapSteps, UpdateFocalPointSteps, UpdateGroupSteps, UpdateLinkSteps,
     UpdateMetaSteps
<1>6. /\ GoodSteps(DeleteMapSteps) /\ GoodSteps(DeleteFrameSteps)
      /\ GoodSteps(CreateFocalPointSteps) /\ GoodSteps(DeleteFocalPointSteps)
      /\ GoodSteps(CreateGroupSteps) /\ GoodSteps(DeleteGroupSteps) /\ GoodSteps(CreateLinkSteps)
      /\ GoodSteps(DeleteLinkSteps) /\ GoodSteps(CreateMetaSteps) /\ GoodSteps(DeleteMetaSteps)
  BY <1>1, OneCall DEF Owned, DeleteMapSteps, DeleteFrameSteps, CreateFocalPointSteps, DeleteFocalPointSteps,
     CreateGroupSteps, DeleteGroupSteps, CreateLinkSteps, DeleteLinkSteps, CreateMetaSteps,
     DeleteMetaSteps
<1> QED BY <1>2, <1>4, <1>5, <1>6 DEF MapSteps

\* Without a file, and with a screenshot or an upload.
LEMMA BodiesOK ==
    ASSUME NEW q \in Requests, NEW s, GoodSteps(s)
    PROVE  /\ BodyOK(q, CallsOf(s), {Null})
           /\ Does(s, "resolve") => BodyOK(q, CallsOf(s), Shots \cup {Asset, Null})
           /\ Does(s, "upload") => BodyOK(q, CallsOf(s), {q})
<1>1. PICK L : L = CallsOf(s)
  OBVIOUS
<1>2. StepsOK(L) /\ \A v : Does(s, v) => \E c \in L : c[1] = v
  <2>1. Listed(s) /\ DOMAIN s = 1..Len(s)
    BY DEF GoodSteps, Listed
  <2> QED BY <1>1, <2>1 DEF GoodSteps, Does, CallsOf
<1>3. /\ Null \in FileRefs /\ q \in FileRefs /\ Shots \cup {Asset, Null} \subseteq FileRefs
      /\ {Null} \subseteq Shots \cup {Asset, Null}
  BY DEF FileRefs, RowIds
<1>4. BodyOK(q, L, {Null})
  BY <1>3 DEF BodyOK
<1>5. PICK t : \A c \in L : c[1] \notin {"ensure", "ensureIf"} => c[2] = t
  BY <1>2 DEF StepsOK, OneTable
<1>6. ASSUME Does(s, "resolve") PROVE BodyOK(q, L, Shots \cup {Asset, Null})
  <2>1. PICK c \in L : c[1] = "resolve" /\ c[2] = "frame" /\ c \in RowCalls
    BY <1>2, <1>6 DEF StepsOK
  <2>2. t = "frame" /\ c = <<"resolve", "frame">>
    BY <1>5, <2>1 DEF RowCalls
  <2>3. <<"insert", "artifact">> \notin L /\ <<"save", "artifact">> \notin L /\ L \cap DocCalls = {}
    <3>1. t = "frame"
      BY <2>2
    <3> QED BY <1>5, <3>1 DEF DocCalls
  <2> QED BY <1>3, <2>1, <2>2, <2>3 DEF BodyOK
<1>7. ASSUME Does(s, "upload") PROVE BodyOK(q, L, {q})
  <2>1. PICK c \in L : c[1] = "upload" /\ c[2] = "artifact" /\ c \in RowCalls
    BY <1>2, <1>7 DEF StepsOK
  <2>2. t = "artifact" /\ c = <<"upload", "artifact">> /\ <<"save", "artifact">> \notin L
    BY <1>2, <1>5, <2>1 DEF RowCalls, StepsOK
  <2>3. L \cap FrameCalls = {} /\ L \cap DocCalls = {}
    <3>1. t = "artifact"
      BY <2>2
    <3> QED BY <1>5, <3>1 DEF FrameCalls, DocCalls
  <2> QED BY <1>3, <2>1, <2>2, <2>3 DEF BodyOK
<1> QED BY <1>1, <1>4, <1>6, <1>7

LEMMA MapStartOK ==
    ASSUME NEW q \in Requests, RowPre(q), NEW op \in MapOps, MapStart(q, op)
    PROVE  StartOK(q) /\ UNCHANGED failedOpen
<1>1. op \in ContentOps /\ UNCHANGED rowVars /\ UNCHANGED failedOpen /\ rows' = rows /\ files' = files
  BY DEF ContentOps, MapStart, rowVars
<1>4. op \notin DOMAIN MlSyncs
  BY DEF MapOps, MapSteps, MlSyncs
<1>2. CASE op \in DOMAIN MapSteps
  <2>1. PICK s, F : /\ s = MapSteps[op]
                    /\ F = IF Does(MapSteps[op], "resolve") THEN Shots \cup {Asset, Null} ELSE {Null}
    OBVIOUS
  <2>2. RowStart(q, op, s, F)
    BY <1>2, <2>1 DEF MapStart, MapSteps
  <2>3. GoodSteps(s)
    BY <1>2, <2>1, MapListsOK
  <2>4. BodyOK(q, CallsOf(s), F)
    BY <2>1, <2>3, BodiesOK
  <2> QED BY <1>1, <1>4, <2>2, <2>3, <2>4, RowStartOK DEF GoodSteps
<1>3. CASE op \notin DOMAIN MapSteps
  <2>1. PICK g \in Gives : Arrives(q, op, UpsertCanvasSteps,
                       [id |-> Seed, parent |-> Null, link |-> Null, gives |-> g, ref |-> Null,
                        file |-> Null, held |-> Null])
    BY <1>3 DEF MapStart
  <2>2. PICK a, b, m : /\ a = <<"getCanvas", "canvas">> /\ b = <<"upsert", "canvas">>
                       /\ m = [id |-> Seed, parent |-> Null, link |-> Null, gives |-> g, ref |-> Null,
                               file |-> Null, held |-> Null]
    OBVIOUS
  <2>3. a \in RowCalls /\ a \in AllCalls /\ b \in RowCalls /\ b \in AllCalls /\ "canvas" \in Tables
    BY <2>2, KnownVerbs DEF RowCalls, Tables, MapTables
  <2>4. Rank(a[1]) = 1 /\ Rank(b[1]) = 4
    BY <2>2, RankFacts DEF Looks
  <2>5. Listed(<<a, b>>) /\ CallsOf(<<a, b>>) = {a, b}
    <3>1. Precedes(Rank(a[1]), Rank(b[1]))
      BY <2>4 DEF Precedes
    <3> QED BY <2>3, <3>1, ShortLists
  <2>6. m \in RowMemory
    BY <2>2, RowsAssumption DEF RowMemory, RowIds, FileRefs
  <2>7. OneTable({a, b}) /\ HeldKnown({a, b}, m)
    BY <2>2, <2>3 DEF OneTable, HeldKnown, Getters
  <2>8. NewRowKnown(q, {a, b}, m)' /\ FrameKnown({a, b}, m)' /\ ArtifactKnown(q, {a, b}, m)'
    BY <2>2 DEF NewRowKnown, FrameKnown, FrameCalls, ArtifactKnown, Makers
  <2>9. RowKnown(q, {a, b}, m)'
    BY <2>3, <2>6, <2>7, <2>8 DEF RowKnown, OneTable, HeldKnown
  <2>10. Arrives(q, op, <<a, b>>, m) /\ RowKnown(q, CallsOf(<<a, b>>), m)'
    BY <2>1, <2>2, <2>5, <2>9 DEF UpsertCanvasSteps
  <2>11. Laid(CallsOf(<<a, b>>))
    BY <2>2, <2>5 DEF Laid, Planned, Begins, Counted, Getters, Uses,
       HandSaved, Owned, Over, Linked, FrameWrites, DocCalls, Renews
  <2>12. Given(q, op, CallsOf(<<a, b>>), m)
    BY <1>3, <2>2, <2>5 DEF Given, DocCalls, FrameCalls, MapOps, MlSyncs
  <2> QED BY <1>1, <2>5, <2>10, <2>11, <2>12, ArrivesOK
<1> QED BY <1>2, <1>3

\* A list of any length.
LEMMA LongList ==
    ASSUME NEW s \in Seq(AllCalls),
           \A i \in 1..Len(s), j \in 1..Len(s) : i < j => Precedes(Rank(s[i][1]), Rank(s[j][1]))
    PROVE  Listed(s)
BY DEF Listed, Ordered

LEMMA NoteListsOK == \A op \in DOMAIN NoteSteps : GoodSteps(NoteSteps[op])
<1>1. /\ "folder" \in Tables /\ "comment" \in Tables /\ "doc" \in Tables /\ "chat" \in Tables
      /\ "event" \in Tables
  BY DEF Tables, NoteTables
<1>2. GoodSteps(CreateDocSteps)
  BY <1>1, CheckAndInsert DEF CreateDocSteps, Owned, Linked
<1>3. /\ GoodSteps(UpdateFolderSteps) /\ GoodSteps(UpdateCommentSteps) /\ GoodSteps(DeleteDocSteps)
      /\ GoodSteps(UpdateSessionSteps) /\ GoodSteps(DeleteSessionSteps)
  BY <1>1, GetAndWrite DEF HandSaved, UpdateFolderSteps, UpdateCommentSteps, DeleteDocSteps, UpdateSessionSteps,
     DeleteSessionSteps
<1>4. /\ GoodSteps(CreateFolderSteps) /\ GoodSteps(DeleteFolderSteps) /\ GoodSteps(CreateCommentSteps)
      /\ GoodSteps(DeleteCommentSteps) /\ GoodSteps(CreateSessionSteps) /\ GoodSteps(CreateEventSteps)
      /\ GoodSteps(UpdateEventSteps) /\ GoodSteps(DeleteEventSteps)
  BY <1>1, OneCall DEF Owned, CreateFolderSteps, DeleteFolderSteps, CreateCommentSteps, DeleteCommentSteps,
     CreateSessionSteps, CreateEventSteps, UpdateEventSteps, DeleteEventSteps
<1>5. GoodSteps(CreateMessageSteps)
  <2>1. PICK a, b, c : a = <<"get", "chat">> /\ b = <<"message", "chat">> /\ c = <<"touch", "chat">>
    OBVIOUS
  <2>2. a \in RowCalls /\ b \in RowCalls /\ c \in RowCalls /\ a \in AllCalls /\ b \in AllCalls /\ c \in AllCalls
    BY <1>1, <2>1, KnownVerbs DEF RowCalls
  <2>3. Rank(a[1]) = 1 /\ Rank(b[1]) = 2 /\ Rank(c[1]) = 4
    BY <2>1, RankFacts DEF Looks, Prepares
  <2>4. Precedes(Rank(a[1]), Rank(b[1])) /\ Precedes(Rank(a[1]), Rank(c[1])) /\ Precedes(Rank(b[1]), Rank(c[1]))
    BY <2>3 DEF Precedes
  <2>5. Listed(<<a, b, c>>) /\ CallsOf(<<a, b, c>>) = {a, b, c}
    BY <2>2, <2>4, ShortLists
  <2>6. StepsOK({a, b, c})
    BY <1>1, <2>1, <2>2 DEF StepsOK, OneTable, Laid, Planned, Begins, Counted, Getters, Uses,
       HandSaved, Owned, Over, Linked, FrameWrites, DocCalls, Renews
  <2> QED BY <2>1, <2>5, <2>6 DEF GoodSteps, CreateMessageSteps
<1>6. GoodSteps(UpdateDocSteps)
  <2>1. PICK a, b, c, d : /\ a = <<"get", "doc">> /\ b = <<"store", "doc">> /\ c = <<"dropOld", "doc">>
                          /\ d = <<"save", "doc">>
    OBVIOUS
  <2>2. /\ a \in RowCalls /\ b \in RowCalls /\ c \in RowCalls /\ d \in RowCalls
        /\ a \in AllCalls /\ b \in AllCalls /\ c \in AllCalls /\ d \in AllCalls
    BY <1>1, <2>1, KnownVerbs DEF RowCalls
  <2>3. Rank(a[1]) = 1 /\ Rank(b[1]) = 2 /\ Rank(c[1]) = 3 /\ Rank(d[1]) = 4
    BY <2>1, RankFacts DEF Looks, Prepares
  <2>4. PICK s : s = <<a, b, c, d>>
    OBVIOUS
  <2>5. /\ s \in Seq(AllCalls) /\ Len(s) = 4 /\ 1..4 = {1, 2, 3, 4}
        /\ s[1] = a /\ s[2] = b /\ s[3] = c /\ s[4] = d
    BY <2>2, <2>4
  <2>6. Listed(s)
    BY <2>3, <2>5, LongList DEF Precedes
  <2>7. CallsOf(s) = {a, b, c, d}
    BY <2>5 DEF CallsOf
  <2>8. StepsOK({a, b, c, d})
    BY <1>1, <2>1, <2>2 DEF StepsOK, OneTable, Laid, Planned, Begins, Counted, Getters, Uses,
       HandSaved, Owned, Over, Linked, FrameWrites, DocCalls, Renews
  <2> QED BY <2>1, <2>4, <2>6, <2>7, <2>8 DEF GoodSteps, UpdateDocSteps
<1> QED BY <1>2, <1>3, <1>4, <1>5, <1>6 DEF NoteSteps

\* One call that syncs, makes or restores rows by their reference.
LEMMA RefStartOK ==
    ASSUME NEW q \in Requests, RowPre(q), NEW op \in ContentOps, NEW t \in Tables, NEW r \in Refs,
           NEW v \in {"syncEvent", "createProject", "restore", "sync"},
           v = "syncEvent" \/ op \in Revivers,
           IF v = "sync" THEN op \in DOMAIN MlSyncs /\ MlSyncs[op].table = t ELSE op \notin DOMAIN MlSyncs,
           NEW p \in RowIds \cup {Null}, NEW l \in RowIds \cup {Null},
           Arrives(q, op, <<<<v, t>>>>,
                   [id |-> q, parent |-> p, link |-> l, gives |-> Columns, ref |-> r,
                    file |-> Null, held |-> Null]),
           UNCHANGED rowVars
    PROVE  StartOK(q)
<1>1. PICK a, m : /\ a = <<v, t>>
                  /\ m = [id |-> q, parent |-> p, link |-> l, gives |-> Columns, ref |-> r,
                          file |-> Null, held |-> Null]
  OBVIOUS
<1>2. a \in RowCalls /\ a \in AllCalls
  BY <1>1, KnownVerbs DEF RowCalls
<1>3. Listed(<<a>>) /\ CallsOf(<<a>>) = {a}
  BY <1>2, ShortLists
<1>4. m \in RowMemory /\ m.ref = r /\ m.file = Null
  BY <1>1 DEF RowMemory, RowIds, FileRefs
<1>5. /\ Op(q) = "none" /\ rows' = rows /\ ProcType
  BY DEF Arrives, Op, rowVars, RowPre
<1>6. Op(q)' = op
  <2>1. m \in Memories /\ Arrives(q, op, <<a>>, m)
    BY <1>1, <1>4 DEF Memories
  <2> QED BY <1>3, <1>5, <2>1, ArrivesMoves
<1>7. <<t, q>> \notin DOMAIN rows'
  BY <1>5 DEF RowPre, Knows
<1>8. OneTable({a}) /\ HeldKnown({a}, m)
  BY <1>1 DEF OneTable, HeldKnown, Uses
<1>9. NewRowKnown(q, {a}, m)'
  BY <1>1, <1>4, <1>6, <1>7 DEF NewRowKnown, Made
<1>10. FrameKnown({a}, m)' /\ ArtifactKnown(q, {a}, m)'
  BY <1>1, <1>4 DEF FrameKnown, FrameCalls, ArtifactKnown
<1>11. RowKnown(q, {a}, m)'
  BY <1>2, <1>4, <1>8, <1>9, <1>10 DEF RowKnown, OneTable, HeldKnown
<1>12. Arrives(q, op, <<a>>, m) /\ RowKnown(q, CallsOf(<<a>>), m)'
  BY <1>1, <1>3, <1>11
<1>13. Laid(CallsOf(<<a>>))
  <2>1. \A c \in {a} : c[1] \notin {"insert", "save", "saveExperiment", "dropOld", "message", "firstVersion"}
                          \cup {"resolve", "saveAll", "store", "touch", "insertFields", "delete", "deploy", "clearFields"}
    BY <1>1
  <2>2. a[1] \notin Renews
    BY <1>1 DEF Renews
  <2>3. Planned({a})
    BY <2>1 DEF Planned
  <2>4. Begins({a})
    BY <2>1, <2>2 DEF Begins, FrameWrites, DocCalls
  <2> QED BY <1>3, <2>1, <2>3, <2>4 DEF Laid, Counted
<1>14. Given(q, op, CallsOf(<<a>>), m)
  <2>1. {a} \cap DocCalls = {} /\ {a} \cap FrameCalls = {}
    BY <1>1 DEF DocCalls, FrameCalls
  <2>2. CASE v = "sync"
    BY <1>1, <1>3, <2>1, <2>2 DEF Given
  <2>3. CASE v # "sync"
    <3>1. \A u : <<"sync", u>> \notin {a}
      BY <1>1, <2>3
    <3> QED BY <1>3, <2>1, <2>3, <3>1 DEF Given
  <2> QED BY <2>2, <2>3
<1> QED BY <1>3, <1>12, <1>13, <1>14, ArrivesOK

\* The lists of components and of agent sessions.
LEMMA NumberListsOK ==
    /\ \A op \in DOMAIN ComponentSteps :
         /\ Listed(ComponentSteps[op]) /\ CallsOf(ComponentSteps[op]) \subseteq Verbs \X {"component"}
         /\ Laid(CallsOf(ComponentSteps[op]))
    /\ Listed(CreateAgentSessionSteps) /\ CallsOf(CreateAgentSessionSteps) = {<<"create", "agent">>}
    /\ Listed(FinishSteps) /\ CallsOf(FinishSteps) = {<<"load", "agent">>, <<"finish", "agent">>}
    /\ Listed(CreateStepSteps)
    /\ CallsOf(CreateStepSteps) = {<<"load", "agent">>, <<"number", "agent">>, <<"insertStep", "agent">>}
<1>1. {"slug", "save", "clearFields", "insertFields", "getComponent", "delete", "create", "load", "finish",
       "number", "insertStep"} \subseteq Verbs
  BY DEF Verbs, NoteVerbs
<1>2. \A v \in Verbs : <<v, "component">> \in AllCalls /\ <<v, "agent">> \in AllCalls
  BY DEF AllCalls
<1>3. /\ Rank("slug") = 2 /\ Rank("save") = 4 /\ Rank("clearFields") = 5 /\ Rank("insertFields") = 6
      /\ Rank("getComponent") = 1 /\ Rank("delete") = 6 /\ Rank("load") = 1 /\ Rank("finish") = 4
      /\ Rank("number") = 2 /\ Rank("insertStep") = 4
  BY RankFacts DEF Looks, Prepares
<1>4. /\ Listed(CreateComponentSteps) /\ CallsOf(CreateComponentSteps) \subseteq Verbs \X {"component"}
      /\ Laid(CallsOf(CreateComponentSteps))
  <2>1. PICK a, b, c, d : /\ a = <<"slug", "component">> /\ b = <<"save", "component">>
                          /\ c = <<"clearFields", "component">> /\ d = <<"insertFields", "component">>
    OBVIOUS
  <2>2. PICK s : s = <<a, b, c, d>>
    OBVIOUS
  <2>3. a \in AllCalls /\ b \in AllCalls /\ c \in AllCalls /\ d \in AllCalls
    BY <1>1, <1>2, <2>1
  <2>4. /\ s \in Seq(AllCalls) /\ Len(s) = 4 /\ 1..4 = {1, 2, 3, 4}
        /\ s[1] = a /\ s[2] = b /\ s[3] = c /\ s[4] = d
    BY <2>2, <2>3
  <2>5. Rank(a[1]) = 2 /\ Rank(b[1]) = 4 /\ Rank(c[1]) = 5 /\ Rank(d[1]) = 6
    BY <1>3, <2>1
  <2>6. Listed(s)
    BY <2>4, <2>5, LongList DEF Precedes
  <2>7. CallsOf(s) \subseteq Verbs \X {"component"} /\ CallsOf(s) = {a, b, c, d}
    <3>1. CallsOf(s) = {a, b, c, d}
      BY <2>4 DEF CallsOf
    <3> QED BY <1>1, <2>1, <3>1
  <2>8. Laid({a, b, c, d})
    BY <2>1, TablesApart DEF Laid, Planned, Begins, Counted, Getters, Uses,
       HandSaved, Owned, Over, Linked, FrameWrites, DocCalls, Renews
  <2> QED BY <2>1, <2>2, <2>6, <2>7, <2>8 DEF CreateComponentSteps
<1>5. /\ Listed(UpdateComponentSteps) /\ CallsOf(UpdateComponentSteps) \subseteq Verbs \X {"component"}
      /\ Laid(CallsOf(UpdateComponentSteps))
  <2>1. PICK a, b, c, d, e : /\ a = <<"slug", "component">> /\ b = <<"save", "component">>
                             /\ c = <<"clearFields", "component">> /\ d = <<"insertFields", "component">>
                             /\ e = <<"getComponent", "component">>
    OBVIOUS
  <2>2. PICK s, t : s = <<e>> \o <<a, b, c, d>> /\ t = <<a, b, c, d>>
    OBVIOUS
  <2>3. a \in AllCalls /\ b \in AllCalls /\ c \in AllCalls /\ d \in AllCalls /\ e \in AllCalls
    BY <1>1, <1>2, <2>1
  <2>4. /\ t \in Seq(AllCalls) /\ Len(t) = 4 /\ <<e>> \in Seq(AllCalls) /\ Len(<<e>>) = 1
        /\ t[1] = a /\ t[2] = b /\ t[3] = c /\ t[4] = d /\ <<e>>[1] = e
    BY <2>2, <2>3
  <2>5. /\ s \in Seq(AllCalls) /\ Len(s) = 5 /\ 1..5 = {1, 2, 3, 4, 5}
        /\ s[1] = e /\ s[2] = a /\ s[3] = b /\ s[4] = c /\ s[5] = d
    BY <2>2, <2>4
  <2>6. Rank(a[1]) = 2 /\ Rank(b[1]) = 4 /\ Rank(c[1]) = 5 /\ Rank(d[1]) = 6 /\ Rank(e[1]) = 1
    BY <1>3, <2>1
  <2>7. Listed(s)
    BY <2>5, <2>6, LongList DEF Precedes
  <2>8. CallsOf(s) \subseteq Verbs \X {"component"} /\ CallsOf(s) = {a, b, c, d, e}
    <3>1. CallsOf(s) = {a, b, c, d, e}
      BY <2>5 DEF CallsOf
    <3> QED BY <1>1, <2>1, <3>1
  <2>9. Laid({a, b, c, d, e})
    BY <2>1, TablesApart DEF Laid, Planned, Begins, Counted, Getters, Uses,
       HandSaved, Owned, Over, Linked, FrameWrites, DocCalls, Renews
  <2> QED BY <2>1, <2>2, <2>7, <2>8, <2>9 DEF UpdateComponentSteps, CreateComponentSteps
<1>6. ASSUME NEW v \in Verbs, NEW w \in Verbs, Rank(v) < Rank(w), NEW t \in {"component", "agent"},
             NEW a, NEW b, a = <<v, t>>, b = <<w, t>>
      PROVE  Listed(<<a, b>>) /\ CallsOf(<<a, b>>) = {a, b}
  <2>1. Precedes(Rank(a[1]), Rank(b[1])) /\ a \in AllCalls /\ b \in AllCalls
    BY <1>2, <1>6 DEF Precedes
  <2> QED BY <2>1, ShortLists
<1>7. /\ Listed(DeleteComponentSteps) /\ CallsOf(DeleteComponentSteps) \subseteq Verbs \X {"component"}
      /\ Laid(CallsOf(DeleteComponentSteps))
  <2>1. PICK a, b : a = <<"clearFields", "component">> /\ b = <<"delete", "component">>
    OBVIOUS
  <2>2. Listed(<<a, b>>) /\ CallsOf(<<a, b>>) = {a, b}
    BY <1>1, <1>3, <1>6, <2>1
  <2>3. {a, b} \subseteq Verbs \X {"component"}
    BY <1>1, <2>1
  <2>4. Laid({a, b})
    BY <2>1, TablesApart DEF Laid, Planned, Begins, Counted, Getters, Uses,
       HandSaved, Owned, Over, Linked, FrameWrites, DocCalls, Renews
  <2> QED BY <2>1, <2>2, <2>3, <2>4 DEF DeleteComponentSteps
<1>8. \A op \in DOMAIN ComponentSteps :
         /\ Listed(ComponentSteps[op]) /\ CallsOf(ComponentSteps[op]) \subseteq Verbs \X {"component"}
         /\ Laid(CallsOf(ComponentSteps[op]))
  BY <1>4, <1>5, <1>7 DEF ComponentSteps
<1>9. Listed(CreateAgentSessionSteps) /\ CallsOf(CreateAgentSessionSteps) = {<<"create", "agent">>}
  BY <1>1, <1>2, ShortLists DEF CreateAgentSessionSteps
<1>10. Listed(FinishSteps) /\ CallsOf(FinishSteps) = {<<"load", "agent">>, <<"finish", "agent">>}
  <2>1. PICK a, b : a = <<"load", "agent">> /\ b = <<"finish", "agent">>
    OBVIOUS
  <2>2. Listed(<<a, b>>) /\ CallsOf(<<a, b>>) = {a, b}
    BY <1>1, <1>3, <1>6, <2>1
  <2> QED BY <2>1, <2>2 DEF FinishSteps
<1>11. /\ Listed(CreateStepSteps)
       /\ CallsOf(CreateStepSteps) = {<<"load", "agent">>, <<"number", "agent">>, <<"insertStep", "agent">>}
  <2>1. PICK a, b, c : a = <<"load", "agent">> /\ b = <<"number", "agent">> /\ c = <<"insertStep", "agent">>
    OBVIOUS
  <2>2. /\ a \in AllCalls /\ b \in AllCalls /\ c \in AllCalls
        /\ Rank(a[1]) = 1 /\ Rank(b[1]) = 2 /\ Rank(c[1]) = 4
    BY <1>1, <1>2, <1>3, <2>1
  <2>3. Precedes(Rank(a[1]), Rank(b[1])) /\ Precedes(Rank(a[1]), Rank(c[1])) /\ Precedes(Rank(b[1]), Rank(c[1]))
    BY <2>2 DEF Precedes
  <2>4. Listed(<<a, b, c>>) /\ CallsOf(<<a, b, c>>) = {a, b, c}
    BY <2>2, <2>3, ShortLists
  <2> QED BY <2>1, <2>4 DEF CreateStepSteps
<1> QED BY <1>8, <1>9, <1>10, <1>11

\* A request about a component or an agent session.
LEMMA NumberStartOK ==
    ASSUME NEW q \in Requests, RowPre(q), NEW op \in ContentOps, NEW s, Listed(s),
           NEW t \in {"component", "agent"}, CallsOf(s) \subseteq Verbs \X {t},
           <<"insertStep", "agent">> \in CallsOf(s) => <<"number", "agent">> \in CallsOf(s),
           Laid(CallsOf(s)), op \notin DOMAIN MlSyncs, NEW i \in RowIds, NEW st \in AgentStatus,
           Arrives(q, op, s, [id |-> i, number |-> 0, status |-> st]), UNCHANGED rowVars, UNCHANGED noteVars
    PROVE  StartOK(q)
<1>1. PICK m, L : m = [id |-> i, number |-> 0, status |-> st] /\ L = CallsOf(s)
  OBVIOUS
<1>2. m \in NumberMemory
  BY <1>1 DEF NumberMemory
<1>3. Op(q) = "none" /\ agents' = agents
  BY DEF Arrives, Op, noteVars
<1>4. agents'[q] = Null
  BY <1>3 DEF RowPre, Knows
<1>5. L \subseteq NumberCalls /\ \A c, d \in L : c[2] = d[2]
  BY <1>1 DEF NumberCalls
<1>6. NumberKnown(q, L, m)'
  BY <1>1, <1>2, <1>4, <1>5 DEF NumberKnown
<1>7. Arrives(q, op, s, m) /\ NumberKnown(q, CallsOf(s), m)'
  BY <1>1, <1>6
<1>8. Given(q, op, L, m)
  BY <1>1, <1>5, TablesApart DEF NumberCalls, Given, DocCalls, FrameCalls
<1> QED BY <1>1, <1>7, <1>8, ArrivesOK

LEMMA NoteStartOK ==
    ASSUME NEW q \in Requests, RowPre(q), NotesTypeOK, NEW op \in NoteOps, NoteStart(q, op)
    PROVE  StartOK(q) /\ UNCHANGED noteVars
<1>1. /\ op \in ContentOps /\ UNCHANGED rowVars /\ UNCHANGED noteVars /\ q \in RowIds
      /\ rows' = rows /\ files' = files
  BY DEF ContentOps, NoteStart, rowVars, RowIds
<1>6. op \notin DOMAIN MlSyncs
  BY DEF NoteOps, NoteSteps, ComponentSteps, AgentOps, MlSyncs
<1>2. CASE op \in DOMAIN NoteSteps
  <2>1. PICK s, F : /\ s = NoteSteps[op]
                    /\ F = IF op = "createDoc" THEN {q, Asset}
                           ELSE IF op = "updateDoc" THEN {q, Asset, Null} ELSE {Null}
    OBVIOUS
  <2>2. RowStart(q, op, s, F)
    BY <1>2, <2>1 DEF NoteStart, NoteSteps, ComponentSteps, AgentOps
  <2>3. GoodSteps(s)
    BY <1>2, <2>1, NoteListsOK
  <2>4. BodyOK(q, CallsOf(s), F)
    <3>1. CASE op \notin {"createDoc", "updateDoc"}
      BY <2>1, <2>3, <3>1, BodiesOK
    <3>2. CASE op \in {"createDoc", "updateDoc"}
      <4>1. \A n \in 1..Len(s) : s[n][2] = "doc"
        <5>1. s = <<<<"store", "doc">>, <<"insert", "doc">>>>
              \/ s = <<<<"get", "doc">>, <<"store", "doc">>, <<"dropOld", "doc">>, <<"save", "doc">>>>
          BY <2>1, <3>2 DEF NoteSteps, CreateDocSteps, UpdateDocSteps
        <5>2. CASE s = <<<<"store", "doc">>, <<"insert", "doc">>>>
          BY <5>2
        <5>3. CASE s = <<<<"get", "doc">>, <<"store", "doc">>, <<"dropOld", "doc">>, <<"save", "doc">>>>
          BY <5>3
        <5> QED BY <5>1, <5>2, <5>3
      <4>2. \A c \in CallsOf(s) : c[2] = "doc"
        BY <4>1 DEF CallsOf
      <4>3. CallsOf(s) \cap FrameCalls = {} /\ <<"insert", "artifact">> \notin CallsOf(s)
            /\ <<"save", "artifact">> \notin CallsOf(s)
        BY <4>2 DEF FrameCalls
      <4>4. F \subseteq FileRefs /\ F \subseteq {q, Asset, Null}
        BY <2>1, <3>2 DEF FileRefs, RowIds
      <4> QED BY <4>3, <4>4 DEF BodyOK
    <3> QED BY <3>1, <3>2
  <2> QED BY <1>1, <1>6, <2>2, <2>3, <2>4, RowStartOK DEF GoodSteps
<1>3. CASE op = "syncEvent"
  <2>1. PICK r \in Refs : Arrives(q, op, SyncEventSteps,
                       [id |-> q, parent |-> Null, link |-> Null, gives |-> Columns, ref |-> r,
                        file |-> Null, held |-> Null])
    BY <1>3 DEF NoteStart, NoteSteps, ComponentSteps, AgentOps
  <2>2. "event" \in Tables
    BY DEF Tables, NoteTables
  <2> QED BY <1>1, <1>6, <2>1, <2>2, RefStartOK DEF SyncEventSteps
<1>4. CASE op \in DOMAIN ComponentSteps
  <2>1. PICK s : s = ComponentSteps[op]
    OBVIOUS
  <2>2. PICK i \in RowIds : Arrives(q, op, s, [id |-> i, number |-> 0, status |-> "running"])
    <3>1. DOMAIN comps \subseteq RowIds
      BY DEF NotesTypeOK
    <3> QED BY <1>1, <1>4, <2>1, <3>1 DEF NoteStart, NoteSteps, ComponentSteps, AgentOps
  <2>3. /\ Listed(s) /\ CallsOf(s) \subseteq Verbs \X {"component"} /\ "running" \in AgentStatus
        /\ Laid(CallsOf(s))
    BY <1>4, <2>1, NumberListsOK DEF AgentStatus
  <2>4. <<"insertStep", "agent">> \notin CallsOf(s)
    BY <2>3
  <2> QED BY <1>1, <1>6, <2>2, <2>3, <2>4, NumberStartOK
<1>5. CASE op \in AgentOps
  <2>1. {"create", "load", "finish", "number", "insertStep"} \subseteq Verbs
    BY DEF Verbs, NoteVerbs
  <2>2. \/ \E i \in RowIds : Arrives(q, op, CreateAgentSessionSteps, [id |-> i, number |-> 0, status |-> "running"])
        \/ \E i \in RowIds, st \in AgentStatus : Arrives(q, op, FinishSteps, [id |-> i, number |-> 0, status |-> st])
        \/ \E i \in RowIds : Arrives(q, op, CreateStepSteps, [id |-> i, number |-> 0, status |-> "running"])
    BY <1>1, <1>5 DEF NoteStart, NoteSteps, ComponentSteps, AgentOps
  <2>3. PICK i \in RowIds, st \in AgentStatus, s \in {CreateAgentSessionSteps, FinishSteps, CreateStepSteps} :
           Arrives(q, op, s, [id |-> i, number |-> 0, status |-> st])
    BY <2>2 DEF AgentStatus
  <2>4. /\ Listed(s) /\ CallsOf(s) \subseteq Verbs \X {"agent"}
        /\ <<"insertStep", "agent">> \in CallsOf(s) => <<"number", "agent">> \in CallsOf(s)
    BY <2>1, NumberListsOK
  <2>5. Laid(CallsOf(s))
    <3>1. \A c \in CallsOf(s) : c[2] = "agent"
      BY <2>4
    <3> QED BY <3>1, TablesApart DEF Laid, Planned, Begins, Counted, HandSaved, Owned, Linked, FrameWrites, DocCalls
  <2> QED BY <1>1, <1>6, <2>3, <2>4, <2>5, NumberStartOK
<1> QED BY <1>2, <1>3, <1>4, <1>5 DEF NoteOps

LEMMA MlTablesKnown ==
    /\ "project" \in Tables /\ "model" \in Tables /\ "version" \in Tables
    /\ "experiment" \in Tables /\ "run" \in Tables /\ "dataset" \in Tables
    /\ "artifact" \in Tables /\ "evaluation" \in Tables /\ "deployment" \in Tables
    /\ "finding" \in Tables
BY DEF Tables, MlTables

\* Three calls about the rows of ML Studio.
LEMMA ThreeCalls ==
    ASSUME NEW a \in RowCalls, NEW b \in RowCalls, NEW c \in RowCalls,
           Precedes(Rank(a[1]), Rank(b[1])), Precedes(Rank(a[1]), Rank(c[1])),
           Precedes(Rank(b[1]), Rank(c[1])), StepsOK({a, b, c})
    PROVE  GoodSteps(<<a, b, c>>)
<1>1. a \in AllCalls /\ b \in AllCalls /\ c \in AllCalls
  BY KnownVerbs
<1>2. Listed(<<a, b, c>>) /\ CallsOf(<<a, b, c>>) = {a, b, c}
  BY <1>1, ShortLists
<1> QED BY <1>2 DEF GoodSteps

LEMMA MlThreesOK ==
    /\ GoodSteps(CreateModelSteps) /\ GoodSteps(UpdateExperimentSteps) /\ GoodSteps(UploadArtifactSteps)
    /\ GoodSteps(DeleteArtifactSteps) /\ GoodSteps(CreateEvaluationSteps)
    /\ GoodSteps(CreateDeploymentSteps) /\ GoodSteps(SetVersionRunSteps)
    /\ GoodSteps(LinkVersionEvaluationsSteps)
<1>1. /\ Rank("ensure") = 1 /\ Rank("ensureIf") = 1 /\ Rank("get") = 1 /\ Rank("getManual") = 1
      /\ Rank("getTags") = 1 /\ Rank("upload") = 2 /\ Rank("insert") = 4 /\ Rank("remove") = 4
      /\ Rank("saveExperiment") = 4 /\ Rank("setRun") = 4 /\ Rank("setVersion") = 4
      /\ Rank("firstVersion") = 5 /\ Rank("dropFile") = 5
  BY RankFacts DEF Looks, Prepares
<1>2. Precedes(1, 1) /\ Precedes(1, 2) /\ Precedes(1, 4) /\ Precedes(1, 5) /\ Precedes(2, 4) /\ Precedes(4, 5)
  BY DEF Precedes
<1>3. \A v \in {"ensure", "ensureIf", "get", "getManual", "getTags", "upload", "insert", "remove",
                "saveExperiment", "setRun", "setVersion", "firstVersion", "dropFile"}, t \in Tables :
          <<v, t>> \in RowCalls
  BY KnownVerbs DEF RowCalls
<1>4. GoodSteps(CreateModelSteps)
  <2>1. PICK a, b, c : a = <<"ensure", "project">> /\ b = <<"insert", "model">> /\ c = <<"firstVersion", "model">>
    OBVIOUS
  <2>2. a \in RowCalls /\ b \in RowCalls /\ c \in RowCalls
    BY <1>3, <2>1, MlTablesKnown
  <2>3. StepsOK({a, b, c})
    BY <2>1, <2>2, MlTablesKnown DEF StepsOK, OneTable, Laid, Planned, Begins, Counted, Getters, Uses,
       HandSaved, Owned, Over, Linked, FrameWrites, DocCalls, Renews
  <2> QED BY <1>1, <1>2, <2>1, <2>2, <2>3, ThreeCalls DEF CreateModelSteps
<1>5. GoodSteps(UpdateExperimentSteps)
  <2>1. PICK a, b, c : /\ a = <<"getTags", "experiment">> /\ b = <<"ensureIf", "project">>
                       /\ c = <<"saveExperiment", "experiment">>
    OBVIOUS
  <2>2. a \in RowCalls /\ b \in RowCalls /\ c \in RowCalls
    BY <1>3, <2>1, MlTablesKnown
  <2>3. StepsOK({a, b, c})
    BY <2>1, <2>2, MlTablesKnown DEF StepsOK, OneTable, Laid, Planned, Begins, Counted, Getters, Uses,
       HandSaved, Owned, Over, Linked, FrameWrites, DocCalls, Renews
  <2> QED BY <1>1, <1>2, <2>1, <2>2, <2>3, ThreeCalls DEF UpdateExperimentSteps
<1>6. GoodSteps(UploadArtifactSteps)
  <2>1. PICK a, b, c : a = <<"ensure", "run">> /\ b = <<"upload", "artifact">> /\ c = <<"insert", "artifact">>
    OBVIOUS
  <2>2. a \in RowCalls /\ b \in RowCalls /\ c \in RowCalls
    BY <1>3, <2>1, MlTablesKnown
  <2>3. StepsOK({a, b, c})
    BY <2>1, <2>2, MlTablesKnown DEF StepsOK, OneTable, Laid, Planned, Begins, Counted, Getters, Uses,
       HandSaved, Owned, Over, Linked, FrameWrites, DocCalls, Renews
  <2> QED BY <1>1, <1>2, <2>1, <2>2, <2>3, ThreeCalls DEF UploadArtifactSteps
<1>7. GoodSteps(DeleteArtifactSteps)
  <2>1. PICK a, b, c : a = <<"getManual", "artifact">> /\ b = <<"remove", "artifact">> /\ c = <<"dropFile", "artifact">>
    OBVIOUS
  <2>2. a \in RowCalls /\ b \in RowCalls /\ c \in RowCalls
    BY <1>3, <2>1, MlTablesKnown
  <2>3. StepsOK({a, b, c})
    BY <2>1, <2>2, MlTablesKnown DEF StepsOK, OneTable, Laid, Planned, Begins, Counted, Getters, Uses,
       HandSaved, Owned, Over, Linked, FrameWrites, DocCalls, Renews
  <2> QED BY <1>1, <1>2, <2>1, <2>2, <2>3, ThreeCalls DEF DeleteArtifactSteps
<1>8. ASSUME NEW t \in {"evaluation", "deployment"}, NEW u \in {"experiment", "model"}, u = Over(t)
      PROVE  GoodSteps(<<<<"ensure", u>>, <<"ensureIf", "version">>, <<"insert", t>>>>)
  <2>1. PICK a, b, c : a = <<"ensure", u>> /\ b = <<"ensureIf", "version">> /\ c = <<"insert", t>>
    OBVIOUS
  <2>2. a \in RowCalls /\ b \in RowCalls /\ c \in RowCalls
    BY <1>3, <2>1, MlTablesKnown
  <2>3. StepsOK({a, b, c})
    BY <1>8, <2>1, <2>2, MlTablesKnown DEF StepsOK, OneTable, Laid, Planned, Begins, Counted, Getters, Uses,
       HandSaved, Owned, Over, Linked, FrameWrites, DocCalls, Renews
  <2> QED BY <1>1, <1>2, <2>1, <2>2, <2>3, ThreeCalls
<1>9. GoodSteps(CreateEvaluationSteps) /\ GoodSteps(CreateDeploymentSteps)
  BY <1>8 DEF CreateEvaluationSteps, CreateDeploymentSteps, Over
<1>10. GoodSteps(SetVersionRunSteps)
  <2>1. PICK a, b, c : a = <<"get", "version">> /\ b = <<"ensureIf", "run">> /\ c = <<"setRun", "version">>
    OBVIOUS
  <2>2. a \in RowCalls /\ b \in RowCalls /\ c \in RowCalls
    BY <1>3, <2>1, MlTablesKnown
  <2>3. StepsOK({a, b, c})
    BY <2>1, <2>2, MlTablesKnown DEF StepsOK, OneTable, Laid, Planned, Begins, Counted, Getters, Uses,
       HandSaved, Owned, Over, Linked, FrameWrites, DocCalls, Renews
  <2> QED BY <1>1, <1>2, <2>1, <2>2, <2>3, ThreeCalls DEF SetVersionRunSteps
<1>11. GoodSteps(LinkVersionEvaluationsSteps)
  <2>1. PICK a, b, c : /\ a = <<"ensureIf", "version">> /\ b = <<"get", "evaluation">>
                       /\ c = <<"setVersion", "evaluation">>
    OBVIOUS
  <2>2. a \in RowCalls /\ b \in RowCalls /\ c \in RowCalls
    BY <1>3, <2>1, MlTablesKnown
  <2>3. StepsOK({a, b, c})
    BY <2>1, <2>2, MlTablesKnown DEF StepsOK, OneTable, Laid, Planned, Begins, Counted, Getters, Uses,
       HandSaved, Owned, Over, Linked, FrameWrites, DocCalls, Renews
  <2> QED BY <1>1, <1>2, <2>1, <2>2, <2>3, ThreeCalls DEF LinkVersionEvaluationsSteps
<1> QED BY <1>4, <1>5, <1>6, <1>7, <1>9, <1>10, <1>11

LEMMA FindingListsOK == GoodSteps(CreateFindingSteps) /\ GoodSteps(UpdateFindingSteps)
<1>1. /\ Rank("ensure") = 1 /\ Rank("ensureIf") = 1 /\ Rank("get") = 1 /\ Rank("insert") = 4
      /\ Rank("saveFinding") = 4
  BY RankFacts DEF Looks
<1>2. Precedes(1, 1) /\ Precedes(1, 4)
  BY DEF Precedes
<1>3. ASSUME NEW a, NEW e, \/ a = <<"ensure", "model">> /\ e = <<"insert", "finding">>
                           \/ a = <<"get", "finding">> /\ e = <<"saveFinding", "finding">>
      PROVE  GoodSteps(<<a, <<"ensureIf", "version">>, <<"ensureIf", "run">>,
                         <<"ensureIf", "evaluation">>, e>>)
  <2>1. PICK b, c, d : /\ b = <<"ensureIf", "version">> /\ c = <<"ensureIf", "run">>
                       /\ d = <<"ensureIf", "evaluation">>
    OBVIOUS
  <2>2. /\ a \in RowCalls /\ b \in RowCalls /\ c \in RowCalls /\ d \in RowCalls /\ e \in RowCalls
        /\ a \in AllCalls /\ b \in AllCalls /\ c \in AllCalls /\ d \in AllCalls /\ e \in AllCalls
    BY <1>3, <2>1, KnownVerbs, MlTablesKnown DEF RowCalls
  <2>3. Rank(a[1]) = 1 /\ Rank(b[1]) = 1 /\ Rank(c[1]) = 1 /\ Rank(d[1]) = 1 /\ Rank(e[1]) = 4
    BY <1>1, <1>3, <2>1
  <2>4. PICK s : s = <<a, b, c, d, e>>
    OBVIOUS
  <2>5. /\ s \in Seq(AllCalls) /\ Len(s) = 5 /\ 1..5 = {1, 2, 3, 4, 5}
        /\ s[1] = a /\ s[2] = b /\ s[3] = c /\ s[4] = d /\ s[5] = e
    BY <2>2, <2>4
  <2>6. Listed(s)
    BY <1>2, <2>3, <2>5, LongList
  <2>7. CallsOf(s) = {a, b, c, d, e}
    BY <2>5 DEF CallsOf
  <2>8. StepsOK({a, b, c, d, e})
    <3>1. {a, b, c, d, e} \subseteq RowCalls
      BY <2>2
    <3>2. OneTable({a, b, c, d, e})
      BY <1>3, <2>1, MlTablesKnown DEF OneTable
    <3>3. (\E x \in {a, b, c, d, e} : x[1] \in Uses) => \E g \in {a, b, c, d, e} : g[1] \in Getters
      BY <1>3, <2>1 DEF Uses, Getters
    <3> QED BY <1>3, <2>1, <3>1, <3>2, <3>3 DEF StepsOK, Laid, Planned, Begins, Counted, Getters, Uses,
       HandSaved, Owned, Over, Linked, FrameWrites, DocCalls, Renews
  <2> QED BY <2>1, <2>4, <2>6, <2>7, <2>8 DEF GoodSteps
<1> QED BY <1>3 DEF CreateFindingSteps, UpdateFindingSteps

LEMMA MlListsOK == \A op \in DOMAIN MlSteps : GoodSteps(MlSteps[op])
<1>1. GoodSteps(UploadUntypedSteps)
  <2>1. PICK a, b : a = <<"ensure", "run">> /\ b = <<"upload", "artifact">>
    OBVIOUS
  <2>2. a \in RowCalls /\ a \in AllCalls /\ b \in RowCalls /\ b \in AllCalls
    BY <2>1, KnownVerbs, MlTablesKnown DEF RowCalls
  <2>3. Rank(a[1]) = 1 /\ Rank(b[1]) = 2
    BY <2>1, RankFacts DEF Looks, Prepares
  <2>4. Precedes(Rank(a[1]), Rank(b[1]))
    BY <2>3 DEF Precedes
  <2>5. Listed(<<a, b>>) /\ CallsOf(<<a, b>>) = {a, b}
    BY <2>2, <2>4, ShortLists
  <2>6. StepsOK({a, b})
    BY <2>1, <2>2, MlTablesKnown DEF StepsOK, OneTable, Laid, Planned, Begins, Counted, Getters, Uses,
       HandSaved, Owned, Over, Linked, FrameWrites, DocCalls, Renews
  <2> QED BY <2>1, <2>5, <2>6 DEF GoodSteps, UploadUntypedSteps
<1>2. /\ GoodSteps(CreateExperimentSteps) /\ GoodSteps(CreateRunSteps) /\ GoodSteps(CreateDatasetSteps)
      /\ GoodSteps(CreateArtifactSteps)
  BY MlTablesKnown, CheckAndInsert DEF CreateExperimentSteps, CreateRunSteps, CreateDatasetSteps,
     CreateArtifactSteps, Owned, Over, Linked
<1>3. /\ GoodSteps(DeleteProjectSteps) /\ GoodSteps(UpdateModelSteps) /\ GoodSteps(UpdateModelInfoSteps)
      /\ GoodSteps(DeleteModelSteps) /\ GoodSteps(DeleteExperimentSteps) /\ GoodSteps(UpdateRunSteps)
      /\ GoodSteps(DeleteRunSteps) /\ GoodSteps(UpdateDatasetSteps)
  BY MlTablesKnown, GetAndWrite DEF HandSaved, DeleteProjectSteps, UpdateModelSteps, UpdateModelInfoSteps,
     DeleteModelSteps, DeleteExperimentSteps, UpdateRunSteps, DeleteRunSteps, UpdateDatasetSteps
<1>4. /\ GoodSteps(DeleteDatasetSteps) /\ GoodSteps(UpdateArtifactSteps)
      /\ GoodSteps(UpdateEvaluationSteps) /\ GoodSteps(DeleteEvaluationSteps)
      /\ GoodSteps(UpdateDeploymentSteps)
  BY MlTablesKnown, GetAndWrite DEF HandSaved, DeleteDatasetSteps, UpdateArtifactSteps,
     UpdateEvaluationSteps, DeleteEvaluationSteps, UpdateDeploymentSteps
<1>5. GoodSteps(DeleteDeploymentSteps) /\ GoodSteps(DeleteFindingSteps)
  BY MlTablesKnown, OneCall DEF DeleteDeploymentSteps, DeleteFindingSteps
<1> QED BY <1>1, <1>2, <1>3, <1>4, <1>5, MlThreesOK, FindingListsOK DEF MlSteps

LEMMA MlStartOK ==
    ASSUME NEW q \in Requests, RowPre(q), NEW op \in MlOps, MlStart(q, op)
    PROVE  StartOK(q) /\ UNCHANGED deployments
<1>1. /\ op \in ContentOps /\ UNCHANGED rowVars /\ UNCHANGED deployments /\ q \in RowIds /\ Seed \in RowIds
      /\ rows' = rows /\ files' = files
  BY DEF ContentOps, MlStart, rowVars, RowIds
<1>2. PICK D : D = DOMAIN MlSteps
  OBVIOUS
<1>3. /\ DOMAIN MlSyncs \cap D = {}
      /\ DOMAIN MlSyncs \cap {"createProject", "updateProject", "restoreProjects", "createVersionDeploymentUpdate"} = {}
      /\ D \cap {"createProject", "updateProject", "restoreProjects", "createVersionDeploymentUpdate"} = {}
  BY <1>2 DEF MlSteps, MlSyncs
<1>4. CASE op \in D
  <2>1. PICK s, F : s = MlSteps[op] /\ F = IF Does(MlSteps[op], "upload") THEN {q} ELSE {Null}
    OBVIOUS
  <2>2. RowStart(q, op, s, F)
    BY <1>2, <1>3, <1>4, <2>1 DEF MlStart
  <2>3. GoodSteps(s)
    BY <1>2, <1>4, <2>1, MlListsOK
  <2>4. BodyOK(q, CallsOf(s), F)
    BY <2>1, <2>3, BodiesOK
  <2> QED BY <1>1, <1>3, <1>4, <2>2, <2>3, <2>4, RowStartOK DEF GoodSteps
<1>5. CASE op \in DOMAIN MlSyncs
  <2>1. PICK r \in Refs, p \in {Seed, Null}, l \in {Seed, Null} :
           Arrives(q, op, <<<<"sync", MlSyncs[op].table>>>>,
                          [id |-> q, parent |-> p, link |-> l, gives |-> Columns, ref |-> r,
                           file |-> Null, held |-> Null])
    BY <1>2, <1>3, <1>5 DEF MlStart
  <2>2. PICK t : t = MlSyncs[op].table
    OBVIOUS
  <2>3. t \in Tables
    BY <1>5, <2>2, MlTablesKnown DEF MlSyncs, SyncProjects, SyncModels, SyncVersions, SyncExperiments,
       SyncRuns, SyncArtifacts, SyncDatasets, SyncEvaluations
  <2>4. op \in Revivers
    BY <1>5 DEF MlSyncs, Revivers
  <2>5. Arrives(q, op, <<<<"sync", t>>>>,
                          [id |-> q, parent |-> p, link |-> l, gives |-> Columns, ref |-> r,
                           file |-> Null, held |-> Null])
    BY <2>1, <2>2
  <2> QED BY <1>1, <1>5, <2>2, <2>3, <2>4, <2>5, RefStartOK
<1>6. CASE op = "updateProject"
  <2>1. PICK i \in Known("project"), g \in Gives, r \in Refs \cup {Null} :
               Arrives(q, op, UpdateProjectSteps,
                       [id |-> i, parent |-> Null, link |-> Null, gives |-> g, ref |-> r,
                        file |-> Null, held |-> Null])
    BY <1>2, <1>3, <1>6 DEF MlStart
  <2>2. PICK a, b, m : /\ a = <<"get", "project">> /\ b = <<"saveProject", "project">>
                       /\ m = [id |-> i, parent |-> Null, link |-> Null, gives |-> g, ref |-> r,
                               file |-> Null, held |-> Null]
    OBVIOUS
  <2>3. a \in RowCalls /\ a \in AllCalls /\ b \in RowCalls /\ b \in AllCalls
    BY <2>2, KnownVerbs, MlTablesKnown DEF RowCalls
  <2>4. Rank(a[1]) = 1 /\ Rank(b[1]) = 4
    BY <2>2, RankFacts DEF Looks
  <2>5. Listed(<<a, b>>) /\ CallsOf(<<a, b>>) = {a, b}
    <3>1. Precedes(Rank(a[1]), Rank(b[1]))
      BY <2>4 DEF Precedes
    <3> QED BY <2>3, <3>1, ShortLists
  <2>6. m \in RowMemory
    <3>1. i \in RowIds /\ g \in SUBSET Columns
      BY RowsAssumption DEF Known
    <3> QED BY <2>2, <3>1 DEF RowMemory, FileRefs
  <2>7. OneTable({a, b}) /\ HeldKnown({a, b}, m)
    BY <2>2, <2>3, MlTablesKnown DEF OneTable, HeldKnown, Getters
  <2>8. NewRowKnown(q, {a, b}, m)' /\ FrameKnown({a, b}, m)' /\ ArtifactKnown(q, {a, b}, m)'
    BY <2>2 DEF NewRowKnown, FrameKnown, FrameCalls, ArtifactKnown, Makers
  <2>9. RowKnown(q, {a, b}, m)'
    BY <2>3, <2>6, <2>7, <2>8 DEF RowKnown, OneTable, HeldKnown
  <2>10. Arrives(q, op, <<a, b>>, m) /\ RowKnown(q, CallsOf(<<a, b>>), m)'
    BY <2>1, <2>2, <2>5, <2>9 DEF UpdateProjectSteps
  <2>11. Laid(CallsOf(<<a, b>>))
    BY <2>2, <2>5 DEF Laid, Planned, Begins, Counted, Getters, Uses,
       HandSaved, Owned, Over, Linked, FrameWrites, DocCalls, Renews
  <2>12. Given(q, op, CallsOf(<<a, b>>), m)
    BY <1>3, <1>6, <2>2, <2>5 DEF Given, DocCalls, FrameCalls
  <2> QED BY <1>1, <2>5, <2>10, <2>11, <2>12, ArrivesOK
<1>7. CASE op \in {"createProject", "restoreProjects"}
  <2>1. PICK r \in Refs :
               Arrives(q, op, IF op = "createProject" THEN CreateProjectSteps ELSE RestoreProjectsSteps,
                       [id |-> q, parent |-> Null, link |-> Null, gives |-> Columns, ref |-> r,
                        file |-> Null, held |-> Null])
    BY <1>2, <1>3, <1>7 DEF MlStart
  <2>2. PICK v \in {"createProject", "restore"} :
          (IF op = "createProject" THEN CreateProjectSteps ELSE RestoreProjectsSteps) = <<<<v, "project">>>>
    BY DEF CreateProjectSteps, RestoreProjectsSteps
  <2>3. op \in Revivers /\ op \notin DOMAIN MlSyncs /\ v # "sync"
    BY <1>3, <1>7 DEF Revivers
  <2>4. Null \in RowIds \cup {Null} /\ "project" \in Tables
    BY MlTablesKnown
  <2>5. v \in {"syncEvent", "createProject", "restore", "sync"}
    OBVIOUS
  <2>6. Arrives(q, op, <<<<v, "project">>>>,
                       [id |-> q, parent |-> Null, link |-> Null, gives |-> Columns, ref |-> r,
                        file |-> Null, held |-> Null])
    BY <2>1, <2>2
  <2>7. IF v = "sync" THEN op \in DOMAIN MlSyncs /\ MlSyncs[op].table = "project" ELSE op \notin DOMAIN MlSyncs
    BY <2>3
  <2> QED BY <1>1, <2>3, <2>4, <2>5, <2>6, <2>7, RefStartOK
<1>8. CASE op = "createVersionDeploymentUpdate"
  <2>1. PICK i \in Known("version"), to \in Statuses :
               Arrives(q, op, CreateVersionDeploymentUpdateSteps, [id |-> i, from |-> Null, to |-> to])
    BY <1>2, <1>3, <1>8 DEF MlStart
  <2>2. PICK a, b, m : /\ a = <<"getStatus", "version">> /\ b = <<"deploy", "version">>
                       /\ m = [id |-> i, from |-> Null, to |-> to]
    OBVIOUS
  <2>3. a \in AllCalls /\ b \in AllCalls /\ a \in DeployCalls /\ b \in DeployCalls
    BY <2>2, MlTablesKnown DEF AllCalls, DeployCalls, Verbs, MlVerbs
  <2>4. Rank(a[1]) = 1 /\ Rank(b[1]) = 4
    BY <2>2, RankFacts DEF Looks
  <2>5. Listed(<<a, b>>) /\ CallsOf(<<a, b>>) = {a, b}
    <3>1. Precedes(Rank(a[1]), Rank(b[1]))
      BY <2>4 DEF Precedes
    <3> QED BY <2>3, <3>1, ShortLists
  <2>6. m \in DeployMemory
    BY <2>2 DEF DeployMemory, Known
  <2>7. DeployKnown({a, b}, m)
    BY <2>2, <2>3, <2>6 DEF DeployKnown
  <2>8. Arrives(q, op, <<a, b>>, m) /\ DeployKnown(CallsOf(<<a, b>>), m)
    BY <2>1, <2>2, <2>5, <2>7 DEF CreateVersionDeploymentUpdateSteps
  <2>9. Laid(CallsOf(<<a, b>>))
    BY <2>2, <2>5 DEF Laid, Planned, Begins, Counted, Getters, Uses,
       HandSaved, Owned, Over, Linked, FrameWrites, DocCalls, Renews
  <2>10. Given(q, op, CallsOf(<<a, b>>), m)
    BY <1>3, <1>8, <2>2, <2>5 DEF Given, DocCalls, FrameCalls
  <2> QED BY <1>1, <2>5, <2>8, <2>9, <2>10, ArrivesOK
<1> QED BY <1>2, <1>4, <1>5, <1>6, <1>7, <1>8 DEF MlOps

(***************************************************************************)
(* The invariant.                                                          *)
(***************************************************************************)
LEMMA InitRows ==
    ASSUME Init
    PROVE  /\ RowsTypeOK(Tables) /\ RowsInv
           /\ \A k \in DOMAIN rows :
                /\ k = <<k[1], Seed>> /\ k[2] = Seed /\ rows[k].state = "live"
                /\ rows[k].file \in {Seed, Null} /\ (k[1] = "frame" => rows[k].file = Null)
                /\ k[1] \in {"deployment", "finding"} => rows[k].ref = Null
<1>1. PICK r \in Refs \cup {Null} :
         rows = [k \in workload.tables \X {Seed} |->
                    [SeedRow(IF k[1] = "project" THEN CHOOSE x \in Refs : TRUE
                             ELSE IF k[1] \in SyncedTables THEN r ELSE Null)
                     EXCEPT !.parent = IF k[1] \in MlTables \ {"project"} THEN Seed ELSE Null,
                            !.file = IF (k[1] = "doc" \/ (k[1] = "artifact" /\ r = Null))
                                     THEN Seed ELSE Null]]
  BY DEF Init
<1>2. /\ files = [k \in {x \in DOMAIN rows : rows[x].file = Seed} |-> Seed]
      /\ workload.tables \subseteq Tables /\ Seed \in RowIds /\ Seed \in FileRefs /\ Null \in FileRefs
  BY ContentAssumption DEF Init, RowIds, FileRefs
<1>3. DOMAIN rows = workload.tables \X {Seed}
  BY <1>1
<1>4. ASSUME NEW k \in DOMAIN rows
      PROVE  /\ k[1] \in Tables /\ k[2] = Seed /\ k = <<k[1], Seed>> /\ rows[k] \in Row
             /\ rows[k].state = "live" /\ rows[k].file \in {Seed, Null}
             /\ k[1] = "frame" => rows[k].file = Null
             /\ k[1] \in {"deployment", "finding"} => rows[k].ref = Null
  <2>1. k[1] \in Tables /\ k[2] = Seed /\ k = <<k[1], Seed>> /\ k \in workload.tables \X {Seed}
    BY <1>2, <1>3, <1>4
  <2>2. PICK ref, p, f : /\ ref = (IF k[1] = "project" THEN CHOOSE x \in Refs : TRUE
                                   ELSE IF k[1] \in SyncedTables THEN r ELSE Null)
                         /\ p = (IF k[1] \in MlTables \ {"project"} THEN Seed ELSE Null)
                         /\ f = (IF (k[1] = "doc" \/ (k[1] = "artifact" /\ r = Null)) THEN Seed ELSE Null)
    OBVIOUS
  <2>3. ref \in Refs \cup {Null} /\ p \in RowIds \cup {Null} /\ f \in {Seed, Null}
        /\ (k[1] = "frame" => f = Null) /\ (k[1] \in {"deployment", "finding"} => ref = Null)
    <3>1. "deployment" \notin SyncedTables /\ "finding" \notin SyncedTables
      BY DEF SyncedTables, MlSyncs, SyncProjects, SyncModels, SyncVersions, SyncExperiments, SyncRuns,
         SyncArtifacts, SyncDatasets, SyncEvaluations
    <3> QED BY <1>2, <2>2, <3>1, RowsAssumption
  <2>4. PICK w : w = SeedRow(ref)
    OBVIOUS
  <2>5. w \in Row /\ w.state = "live" /\ w.ref = ref
    BY <1>2, <2>3, <2>4 DEF SeedRow, Row
  <2>6. rows[k] = [w EXCEPT !.parent = p, !.file = f]
    <3>1. \A x \in workload.tables \X {Seed} : rows[x] =
                    [SeedRow(IF x[1] = "project" THEN CHOOSE y \in Refs : TRUE
                             ELSE IF x[1] \in SyncedTables THEN r ELSE Null)
                     EXCEPT !.parent = IF x[1] \in MlTables \ {"project"} THEN Seed ELSE Null,
                            !.file = IF (x[1] = "doc" \/ (x[1] = "artifact" /\ r = Null))
                                     THEN Seed ELSE Null]
      BY <1>1, Zenon
    <3>2. rows[k] =
                    [SeedRow(IF k[1] = "project" THEN CHOOSE y \in Refs : TRUE
                             ELSE IF k[1] \in SyncedTables THEN r ELSE Null)
                     EXCEPT !.parent = IF k[1] \in MlTables \ {"project"} THEN Seed ELSE Null,
                            !.file = IF (k[1] = "doc" \/ (k[1] = "artifact" /\ r = Null))
                                     THEN Seed ELSE Null]
      BY <2>1, <3>1, Zenon
    <3> QED BY <2>2, <2>4, <3>2, Zenon
  <2>7. rows[k] \in Row /\ rows[k].state = "live" /\ rows[k].file = f /\ rows[k].ref = ref
    <3>1. PICK x : x = [w EXCEPT !.parent = p, !.file = f]
      OBVIOUS
    <3>2. f \in FileRefs
      BY <1>2, <2>3
    <3>3. x \in Row /\ x.state = "live" /\ x.file = f /\ x.ref = ref
      BY <2>3, <2>5, <3>1, <3>2 DEF Row
    <3> QED BY <2>6, <3>1, <3>3, Zenon
  <2> QED BY <2>1, <2>3, <2>7
<1>5. RowsTypeOK(Tables)
  <2>1. \A k \in DOMAIN files : k \in DOMAIN rows /\ files[k] = Seed
    BY <1>2
  <2>2. DOMAIN rows \subseteq Tables \X RowIds
    BY <1>2, <1>3
  <2> QED BY <1>2, <1>4, <2>1, <2>2 DEF RowsTypeOK
<1>6. \A k \in DOMAIN rows : RowOK(k)
  <2> SUFFICES ASSUME NEW k \in DOMAIN rows PROVE RowOK(k)
    OBVIOUS
  <2>1. rows[k].file = Seed => k \in DOMAIN files
    BY <1>2
  <2> QED BY <1>4, <2>1, RowsAssumption DEF RowOK
<1>7. OneRefEach
  <2>1. \A t, i : <<t, i>> \in DOMAIN rows => i = Seed
    BY <1>3
  <2> QED BY <2>1 DEF OneRefEach
<1> QED BY <1>4, <1>5, <1>6, <1>7 DEF RowsInv

LEMMA ContentInit == Init => ContentInv
<1> SUFFICES ASSUME Init PROVE ContentInv
  OBVIOUS
<1>1. RowsTypeOK(Tables) /\ RowsInv /\ \A k \in DOMAIN rows : k[2] = Seed /\ rows[k].state = "live"
  BY InitRows
<1>2. /\ proc = [q \in Requests |-> [op |-> "none", todo |-> <<>>, mem |-> NoMem]] /\ clean = TRUE
      /\ deployments = [i \in RowIds |-> <<>>] /\ messages = [i \in RowIds |-> <<>>]
      /\ comps = [i \in {} |-> Null] /\ fields = [i \in RowIds |-> Null]
      /\ agents = [i \in RowIds |-> IF i = Seed /\ "finish" \in workload.ops THEN "running" ELSE Null]
      /\ agentSteps = {} /\ failedOpen = FALSE
  BY DEF Init, ReqsInit
<1>3. ProcType
  <2>1. <<>> \in Seq(AllCalls)
    OBVIOUS
  <2> QED BY <1>2, <2>1 DEF ProcType, ReqsType
<1>4. OtherType
  <2>1. <<>> \in Seq([from : Statuses, to : Statuses])
    OBVIOUS
  <2> QED BY <1>2, <2>1 DEF OtherType
<1>5. NotesTypeOK
  <2>1. <<>> \in Seq(Requests)
    OBVIOUS
  <2>2. messages \in [RowIds -> Seq(Requests)]
    BY <1>2, <2>1
  <2>3. agents \in [RowIds -> AgentStatus \cup {Null}] /\ fields \in [RowIds -> RowIds \cup {Null}]
    BY <1>2 DEF AgentStatus
  <2>4. DOMAIN comps = {}
    BY <1>2
  <2> QED BY <1>2, <2>2, <2>3, <2>4 DEF NotesTypeOK
<1>6. NotesInv
  <2>1. DOMAIN comps = {}
    BY <1>2
  <2>2. IsFiniteSet({}) /\ Cardinality({}) = 0 /\ 1..0 = {}
    BY FS_EmptySet
  <2>3. \A i \in RowIds : StepRows(i) = {} /\ StepsOf(i) = {}
    BY <1>2 DEF StepRows, StepsOf
  <2>4. SlugsDiffer
    BY <2>1 DEF SlugsDiffer
  <2> QED BY <2>1, <2>2, <2>3, <2>4 DEF NotesInv
<1>7. ASSUME NEW q \in Requests PROVE Knows(q)
  <2>1. proc[q].todo = <<>> /\ Op(q) = "none"
    BY <1>2 DEF Op
  <2>2. q # Seed /\ q \in RowIds
    BY RowsAssumption DEF RowIds
  <2>3. agents[q] = Null
    BY <1>2, <2>2
  <2>4. \A t \in Tables : <<t, q>> \notin DOMAIN rows
    BY <1>1, <2>2
  <2> QED BY <2>1, <2>3, <2>4, NoCalls DEF Knows, Left
<1> QED BY <1>1, <1>3, <1>4, <1>5, <1>6, <1>7 DEF ContentInv

\* What a step of q does to the tables and to the others.
StepOK(q) ==
    /\ RowStepOK(q) /\ NoteStepsKept(q) /\ OtherType'

LEMMA StepsDoOK ==
    ASSUME ContentInv, NEW q \in Requests,
           \/ Starts(q)
           \/ MapStep(q) /\ UNCHANGED <<noteVars, deployments>>
           \/ NoteStep(q) /\ UNCHANGED <<deployments, failedOpen>>
           \/ MlStep(q) /\ UNCHANGED <<noteVars, failedOpen>>
           \/ Aborts(q) /\ UNCHANGED <<rowVars, noteVars, deployments, failedOpen>>
    PROVE  StepOK(q)
<1>1. /\ RowPre(q) /\ NotesTypeOK /\ NotesInv /\ DeploysType /\ failedOpen \in BOOLEAN
      /\ ProcType /\ RowsTypeOK(Tables) /\ RowsInv /\ Knows(q)
  BY DEF ContentInv, RowPre, OtherType, DeploysType
<1>2. OtherType' <=> (DeploysType' /\ failedOpen' \in BOOLEAN)
  BY DEF OtherType, DeploysType
<1>3. UNCHANGED deployments => DeploysType'
  BY <1>1 DEF DeploysType
<1>4. UNCHANGED noteVars => NoteStepsKept(q)
  BY <1>1, NotesSame
<1>5. CASE MapStep(q) /\ UNCHANGED <<noteVars, deployments>>
  BY <1>1, <1>2, <1>3, <1>4, <1>5, MapStepOK DEF StepOK
<1>6. CASE NoteStep(q) /\ UNCHANGED <<deployments, failedOpen>>
  BY <1>1, <1>2, <1>3, <1>6, NoteStepOK DEF StepOK
<1>7. CASE MlStep(q) /\ UNCHANGED <<noteVars, failedOpen>>
  BY <1>1, <1>2, <1>4, <1>7, MlStepOK DEF StepOK
<1>8. CASE Aborts(q) /\ UNCHANGED <<rowVars, noteVars, deployments, failedOpen>>
  <2>1. Op(q) # "none"
    <3>1. proc[q].todo # <<>> /\ Listed(proc[q].todo)
      BY <1>1, <1>8 DEF Aborts, Busy, Knows
    <3>2. Left(q) # {}
      BY <3>1, CallsEmpty DEF Left, Listed
    <3> QED BY <1>1, <3>2 DEF Knows
  <2>2. RowStepOK(q)
    BY <1>1, <1>8, <2>1, EndsOK
  <2> QED BY <1>1, <1>2, <1>3, <1>4, <1>8, <2>2 DEF StepOK
<1>9. CASE Starts(q)
  <2>1. PICK op :
        \/ op \in MapOps /\ MapStart(q, op) /\ UNCHANGED <<noteVars, deployments>>
        \/ op \in NoteOps /\ NoteStart(q, op) /\ UNCHANGED <<deployments, failedOpen>>
        \/ op \in MlOps /\ MlStart(q, op) /\ UNCHANGED <<noteVars, failedOpen>>
    BY <1>9 DEF Starts
  <2>2. CASE op \in MapOps /\ MapStart(q, op) /\ UNCHANGED <<noteVars, deployments>>
    BY <1>1, <1>2, <1>3, <1>4, <2>2, MapStartOK DEF StepOK, StartOK
  <2>3. CASE op \in NoteOps /\ NoteStart(q, op) /\ UNCHANGED <<deployments, failedOpen>>
    BY <1>1, <1>2, <1>3, <1>4, <2>3, NoteStartOK DEF StepOK, StartOK
  <2>4. CASE op \in MlOps /\ MlStart(q, op) /\ UNCHANGED <<noteVars, failedOpen>>
    BY <1>1, <1>2, <1>3, <1>4, <2>4, MlStartOK DEF StepOK, StartOK
  <2> QED BY <2>1, <2>2, <2>3, <2>4
<1> QED BY <1>5, <1>6, <1>7, <1>8, <1>9

LEMMA ContentNext == ContentInv /\ [Next]_vars => ContentInv'
<1> SUFFICES ASSUME ContentInv, [Next]_vars PROVE ContentInv'
  OBVIOUS
<1>1. CASE UNCHANGED vars
  <2>1. /\ proc' = proc /\ clean' = clean /\ rows' = rows /\ files' = files /\ deployments' = deployments
        /\ failedOpen' = failedOpen /\ UNCHANGED noteVars
        /\ messages' = messages /\ comps' = comps /\ fields' = fields /\ agents' = agents
        /\ agentSteps' = agentSteps
    BY <1>1 DEF vars, rowVars, noteVars
  <2>2. ProcType' /\ RowsTypeOK(Tables)' /\ OtherType' /\ NotesTypeOK'
    BY <2>1 DEF ContentInv, ProcType, ReqsType, RowsTypeOK, OtherType, NotesTypeOK
  <2>3. RowsInv' /\ NotesInv'
    BY <2>1 DEF ContentInv, RowsInv, RowOK, OneRefEach, NotesInv, SlugsDiffer, StepRows, StepsOf
  <2>4. \A q \in Requests : Knows(q)'
    <3> SUFFICES ASSUME NEW q \in Requests PROVE Knows(q)'
      OBVIOUS
    <3>1. Knows(q) /\ Op(q)' = Op(q) /\ Left(q)' = Left(q) /\ Mem(q)' = Mem(q)
      BY <2>1 DEF ContentInv, Op, Left, Mem
    <3>2. PICK L, m : L = Left(q) /\ m = Mem(q)
      OBVIOUS
    <3>3. RowKnown(q, L, m) => RowKnown(q, L, m)'
      BY <2>1, <3>1 DEF RowKnown, HeldKnown, OneTable, NewRowKnown, FrameKnown, ArtifactKnown, Live
    <3>4. NumberKnown(q, L, m) => NumberKnown(q, L, m)'
      BY <2>1 DEF NumberKnown, StepsOf
    <3>5. DeployKnown(L, m) => DeployKnown(L, m)'
      BY DEF DeployKnown
    <3>6. \/ Left(q)' = {}
          \/ RowKnown(q, Left(q), Mem(q))' \/ NumberKnown(q, Left(q), Mem(q))' \/ DeployKnown(Left(q), Mem(q))'
      BY <3>1, <3>2, <3>3, <3>4, <3>5 DEF Knows
    <3> QED BY <2>1, <3>1, <3>6 DEF Knows
  <2> QED BY <2>2, <2>3, <2>4 DEF ContentInv
<1>2. CASE Next
  <2>1. PICK q \in Requests :
           \/ Starts(q)
           \/ MapStep(q) /\ UNCHANGED <<noteVars, deployments>>
           \/ NoteStep(q) /\ UNCHANGED <<deployments, failedOpen>>
           \/ MlStep(q) /\ UNCHANGED <<noteVars, failedOpen>>
           \/ Aborts(q) /\ UNCHANGED <<rowVars, noteVars, deployments, failedOpen>>
    BY <1>2 DEF Next
  <2>2. StepOK(q)
    BY <2>1, StepsDoOK
  <2>3. \A p \in Requests : p # q => Knows(p)'
    BY <2>2, OthersKnow DEF StepOK, RowStepOK, NoteStepsKept, ContentInv
  <2> QED BY <2>2, <2>3 DEF StepOK, RowStepOK, NoteStepsKept, ContentInv
<1> QED BY <1>1, <1>2

(***************************************************************************)
(* The theorems.                                                           *)
(***************************************************************************)
LEMMA ContentInvariant == Spec => []ContentInv
BY ContentInit, ContentNext, PTL DEF Spec

\* Whatever overlaps or fails, rows, files, requests and what the requests hold
\* have the types of the database columns and of the handlers' variables.
THEOREM ContentTypeCorrect == Spec => []TypeOK
<1>1. ContentInv => TypeOK
  BY DEF ContentInv, TypeOK, ProcType, AllCalls, OtherType
<1> QED BY <1>1, ContentInvariant, PTL

\* Whatever overlaps or fails, a frame whose row has the hash of an image has
\* an image stored, and an artifact that is listed with a file has it: handlers
\* upload before they insert and drop files after they delete the row.
THEOREM ContentFilesStored == Spec => []FilesStored
<1>1. ASSUME ContentInv PROVE FilesStored
  <2>1. \A k \in DOMAIN rows : RowOK(k)
    BY <1>1 DEF ContentInv, RowsInv
  <2>2. FrameObjectStored
    BY <2>1 DEF FrameObjectStored, RowOK
  <2>3. ArtifactFileStored
    <3> SUFFICES ASSUME NEW i \in LiveIds("artifact"), rows[<<"artifact", i>>].file # Null
                 PROVE  <<"artifact", i>> \in DOMAIN files
      BY DEF ArtifactFileStored
    <3>1. PICK k : k = <<"artifact", i>>
      OBVIOUS
    <3>2. k \in DOMAIN rows /\ k[1] = "artifact" /\ rows[k].state = "live" /\ rows[k].file # Null
      BY <3>1 DEF LiveIds, Live
    <3>3. RowOK(k)
      BY <2>1, <3>2
    <3> QED BY <3>1, <3>2, <3>3 DEF RowOK
  <2> QED BY <2>2, <2>3 DEF FilesStored
<1> QED BY <1>1, ContentInvariant, PTL

\* The rows with one ref are one row at most.
LEMMA OneOwner ==
    ASSUME ContentInv, NEW t \in RefTables, NEW r \in Refs
    PROVE  Cardinality(RefOwners(t, r)) <= 1
<1>1. r # Null
  BY RowsAssumption
<1>2. \A i, j \in RefOwners(t, r) : i = j
  BY <1>1 DEF ContentInv, RowsInv, OneRefEach, RefOwners, Known
<1>3. CASE RefOwners(t, r) = {}
  BY <1>3, FS_EmptySet
<1>4. CASE RefOwners(t, r) # {}
  <2>1. PICK i : i \in RefOwners(t, r)
    BY <1>4
  <2>2. RefOwners(t, r) = {i}
    BY <1>2, <2>1
  <2>3. Cardinality({i}) = 1
    BY FS_Singleton
  <2> QED BY <2>2, <2>3
<1> QED BY <1>3, <1>4

\* What is deleted stays as it was, whoever still holds it, and a finished
\* agent session stays finished: late updates carry deleted_at IS NULL or
\* status = running in their WHERE.
THEOREM ContentEndedIsFinal == Spec => EndedIsFinal
<1>1. ASSUME ContentInv, Next
      PROVE  /\ \A k \in DOMAIN rows : rows[k].state = "deleted" =>
                  /\ k \in DOMAIN rows'
                  /\ rows'[k] # rows[k] => \E q \in Requests : Op(q) \in Revivers /\ proc'[q] # proc[q]
             /\ \A i \in RowIds : agents[i] \in {"completed", "failed"} => agents'[i] = agents[i]
  <2>1. PICK q \in Requests :
           \/ Starts(q)
           \/ MapStep(q) /\ UNCHANGED <<noteVars, deployments>>
           \/ NoteStep(q) /\ UNCHANGED <<deployments, failedOpen>>
           \/ MlStep(q) /\ UNCHANGED <<noteVars, failedOpen>>
           \/ Aborts(q) /\ UNCHANGED <<rowVars, noteVars, deployments, failedOpen>>
    BY <1>1 DEF Next
  <2>2. RowEnv(q) /\ NoteEnv(q)
    BY <1>1, <2>1, StepsDoOK DEF StepOK, RowStepOK, NoteStepsKept
  <2> QED BY <2>2 DEF RowEnv, NoteEnv
<1>2. ContentInv /\ [Next]_vars =>
        [\A k \in DOMAIN rows : rows[k].state = "deleted" =>
          /\ k \in DOMAIN rows'
          /\ rows'[k] # rows[k] => \E q \in Requests : Op(q) \in {"syncProjects", "createProject",
                 "restoreProjects", "syncModels", "syncVersions", "syncExperiments", "syncRuns",
                 "syncArtifacts", "syncDatasets", "syncEvaluations"} /\ proc'[q] # proc[q]]_rows
  BY <1>1 DEF vars, rowVars, Revivers
<1>3. ContentInv /\ [Next]_vars =>
        [\A i \in RowIds : agents[i] \in {"completed", "failed"} => agents'[i] = agents[i]]_agents
  BY <1>1 DEF vars, noteVars
<1> QED BY <1>2, <1>3, ContentInvariant, PTL DEF Spec, EndedIsFinal, DeletedIsFrozen, FinishedForGood

(***************************************************************************)
(* The limit of maps.                                                      *)
(***************************************************************************)
\* q works on the call c, and c passes the limit of maps only below it.
Advances(q) == (\E m : Keeps(q, m)) \/ Ends(q) \/ Skips(q) \/ Aborts(q)

Passes(q) ==
    \/ Ends(q) \/ Aborts(q) \/ failedOpen' = TRUE
    \/ ~MapLimitReached(Cardinality(LiveIds("map")))

Works(q) == \E c : At(q, c) /\ Advances(q) /\ (c = <<"count", "map">> => Passes(q))

LEMMA WorksIf ==
    ASSUME NEW q, NEW v, NEW t, v # "count", At(q, <<v, t>>), Advances(q)
    PROVE  Works(q)
BY DEF Works

LEMMA RowCallsWork ==
    ASSUME NEW q, NEW t,
           \/ Inserts(q, t) \/ Gets(q, t) \/ GetsManual(q, t) \/ Ensures(q, t) \/ EnsuresIf(q, t)
           \/ Saves(q, t) \/ Removes(q, t)
    PROVE  Works(q)
<1>1. \E v : v # "count" /\ At(q, <<v, t>>) /\ Advances(q)
  BY DEF Inserts, Gets, GetsManual, Ensures, EnsuresIf, Saves, Removes, Advances, Proceeds
<1> QED BY <1>1, WorksIf

LEMMA MapWorks ==
    ASSUME NEW q, MapStep(q)
    PROVE  Works(q) /\ (failedOpen' = failedOpen \/ failedOpen' = TRUE)
<1>5. failedOpen' = failedOpen \/ failedOpen' = TRUE
  BY DEF MapStep, LimitUnknown
<1> SUFFICES Works(q)
  BY <1>5
<1>1. CASE CountMaps(q)
  <2>1. At(q, <<"count", "map">>) /\ Advances(q) /\ Passes(q)
    BY <1>1 DEF CountMaps, Advances, Proceeds, Passes
  <2> QED BY <2>1 DEF Works
<1>2. CASE LimitUnknown(q)
  <2>1. At(q, <<"count", "map">>) /\ Advances(q) /\ Passes(q)
    BY <1>2 DEF LimitUnknown, Advances, Passes
  <2> QED BY <2>1 DEF Works
<1>3. CASE \/ CreateMap(q) \/ GetMap(q) \/ UpdateMap(q) \/ SoftDeleteMap(q)
           \/ CreateFrame(q) \/ GetFrame(q) \/ UpdateFrame(q) \/ SoftDeleteFrame(q)
           \/ CreateFocalPoint(q) \/ GetFocalPoint(q) \/ UpdateFocalPoint(q) \/ SoftDeleteFocalPoint(q)
           \/ CreateFrameGroup(q) \/ GetFrameGroup(q) \/ UpdateFrameGroup(q) \/ SoftDeleteFrameGroup(q)
           \/ CreateFrameLink(q) \/ GetFrameLink(q) \/ UpdateFrameLink(q) \/ SoftDeleteFrameLink(q)
           \/ CreateFocalPointMeta(q) \/ GetFocalPointMeta(q) \/ UpdateFocalPointMeta(q)
           \/ SoftDeleteFocalPointMeta(q)
  BY <1>3, RowCallsWork DEF CreateMap, GetMap, UpdateMap, SoftDeleteMap, CreateFrame, GetFrame,
     UpdateFrame, SoftDeleteFrame, CreateFocalPoint, GetFocalPoint, UpdateFocalPoint,
     SoftDeleteFocalPoint, CreateFrameGroup, GetFrameGroup, UpdateFrameGroup, SoftDeleteFrameGroup,
     CreateFrameLink, GetFrameLink, UpdateFrameLink, SoftDeleteFrameLink, CreateFocalPointMeta,
     GetFocalPointMeta, UpdateFocalPointMeta, SoftDeleteFocalPointMeta
<1>4. CASE ResolveScreenshotAsset(q) \/ SyncFrame(q) \/ GetCanvas(q) \/ UpsertCanvas(q)
  <2>1. \E v, t : v # "count" /\ At(q, <<v, t>>) /\ Advances(q)
    BY <1>4 DEF ResolveScreenshotAsset, SyncFrame, GetCanvas, UpsertCanvas, Advances, Proceeds
  <2> QED BY <2>1, WorksIf
<1> QED BY <1>1, <1>2, <1>3, <1>4 DEF MapStep

LEMMA NoteWorks ==
    ASSUME NEW q, NoteStep(q)
    PROVE  Works(q)
<1>1. CASE \/ CreateFolder(q) \/ GetFolder(q) \/ UpdateFolder(q) \/ DeleteFolder(q)
           \/ CreateComment(q) \/ GetComment(q) \/ UpdateComment(q) \/ SoftDeleteComment(q)
           \/ CreateDoc(q) \/ GetDoc(q) \/ UpdateDoc(q) \/ SoftDeleteDoc(q) \/ CreateChatSession(q)
           \/ OwnedSession(q) \/ UpdateChatSession(q) \/ SoftDeleteChatSession(q) \/ CreateEvent(q)
  BY <1>1, RowCallsWork DEF CreateFolder, GetFolder, UpdateFolder, DeleteFolder, CreateComment,
     GetComment, UpdateComment, SoftDeleteComment, CreateDoc, GetDoc, UpdateDoc, SoftDeleteDoc,
     CreateChatSession, OwnedSession, UpdateChatSession, SoftDeleteChatSession, CreateEvent
<1>2. CASE \/ ResolveDocContent(q) \/ DropOldAsset(q) \/ TouchChatSession(q) \/ UpdateEvent(q)
           \/ DeleteEvent(q) \/ UpsertEventBySourceRef(q) \/ CreateChatMessage(q)
  <2>1. \E v, t : v # "count" /\ At(q, <<v, t>>) /\ Advances(q)
    BY <1>2 DEF ResolveDocContent, DropOldAsset, TouchChatSession, UpdateEvent, DeleteEvent,
       UpsertEventBySourceRef, CreateChatMessage, Advances, Proceeds
  <2> QED BY <2>1, WorksIf
<1>3. CASE \/ UniqueComponentSlug(q) \/ SaveCustomComponent(q) \/ GetComponent(q)
           \/ ClearComponentFields(q) \/ InsertComponentFields(q) \/ DeleteComponent(q)
  <2>1. \E v, t : v # "count" /\ At(q, <<v, t>>) /\ Advances(q)
    BY <1>3 DEF UniqueComponentSlug, SaveCustomComponent, GetComponent, ClearComponentFields,
       InsertComponentFields, DeleteComponent, Advances, Proceeds
  <2> QED BY <2>1, WorksIf
<1>4. CASE \/ CreateAgentSession(q) \/ LoadSession(q) \/ FinishAgentSession(q)
           \/ NumberAgentStep(q) \/ CreateAgentSessionStep(q)
  <2>1. \E v, t : v # "count" /\ At(q, <<v, t>>) /\ Advances(q)
    BY <1>4 DEF CreateAgentSession, LoadSession, FinishAgentSession, NumberAgentStep,
       CreateAgentSessionStep, Advances, Proceeds
  <2> QED BY <2>1, WorksIf
<1> QED BY <1>1, <1>2, <1>3, <1>4 DEF NoteStep

LEMMA MlWorks ==
    ASSUME NEW q, MlStep(q)
    PROVE  Works(q)
<1>1. CASE \/ GetMLProject(q) \/ DeleteMLProject(q) \/ EnsureProjectInOrg(q) \/ EnsureModelInOrg(q)
           \/ EnsureVersionInOrg(q) \/ EnsureExperimentInOrg(q) \/ EnsureRunsInOrg(q)
           \/ EnsureEvaluationsInOrg(q) \/ CreateMLModel(q)
           \/ GetMLModel(q) \/ UpdateMLModelInfo(q) \/ DeleteMLModel(q)
           \/ CreateMLExperiment(q) \/ DeleteMLExperiment(q)
           \/ CreateMLRun(q) \/ GetMLRun(q) \/ UpdateMLRun(q) \/ DeleteMLRun(q)
  BY <1>1, RowCallsWork DEF GetMLProject, DeleteMLProject, EnsureProjectInOrg, EnsureModelInOrg,
     EnsureVersionInOrg, EnsureExperimentInOrg, EnsureRunsInOrg, EnsureEvaluationsInOrg, CreateMLModel,
     GetMLModel, UpdateMLModelInfo, DeleteMLModel, CreateMLExperiment, DeleteMLExperiment, CreateMLRun,
     GetMLRun, UpdateMLRun, DeleteMLRun
<1>2. CASE \/ CreateMLDataset(q) \/ GetMLDataset(q) \/ UpdateMLDataset(q)
           \/ DeleteMLDataset(q) \/ CreateMLArtifact(q) \/ GetMLArtifact(q) \/ UpdateMLArtifact(q)
           \/ DeleteMLArtifact(q) \/ CreateMLEvaluation(q)
           \/ GetMLEvaluation(q) \/ UpdateMLEvaluation(q) \/ DeleteMLEvaluation(q)
           \/ CreateMLDeployment(q) \/ GetMLDeployment(q) \/ UpdateMLDeployment(q)
           \/ DeleteMLDeployment(q) \/ CreateMLFinding(q) \/ GetMLFinding(q)
           \/ DeleteMLFinding(q) \/ GetMLModelVersion(q)
  BY <1>2, RowCallsWork DEF CreateMLDataset, GetMLDataset, UpdateMLDataset, DeleteMLDataset,
     CreateMLArtifact, GetMLArtifact, UpdateMLArtifact, DeleteMLArtifact, CreateMLEvaluation,
     GetMLEvaluation, UpdateMLEvaluation, DeleteMLEvaluation, CreateMLDeployment, GetMLDeployment,
     UpdateMLDeployment, DeleteMLDeployment, CreateMLFinding, GetMLFinding, DeleteMLFinding,
     GetMLModelVersion
<1>3. CASE \/ CreateMLProject(q) \/ UpdateMLProject(q) \/ RestoreMLProjects(q)
           \/ CreateMLModelVersion(q) \/ UpdateMLModel(q) \/ UpdateMLExperiment(q)
  <2>1. \E v, t : v # "count" /\ At(q, <<v, t>>) /\ Advances(q)
    BY <1>3 DEF CreateMLProject, UpdateMLProject, RestoreMLProjects, CreateMLModelVersion,
       UpdateMLModel, UpdateMLExperiment, Advances, Proceeds
  <2> QED BY <2>1, WorksIf
<1>4. CASE GetMLExperiment(q)
  <2>1. CASE GetsManual(q, "experiment")
    BY <2>1, RowCallsWork
  <2>2. CASE ~GetsManual(q, "experiment")
    <3>1. At(q, <<"getTags", "experiment">>) /\ Advances(q)
      BY <1>4, <2>2 DEF GetMLExperiment, Advances
    <3> QED BY <3>1, WorksIf
  <2> QED BY <2>1, <2>2
<1>5. CASE \/ UploadArtifact(q) \/ CreateMLArtifactFails(q) \/ DeleteArtifactFile(q)
           \/ UpdateMLFinding(q) \/ SetMLModelVersionRun(q) \/ SetMLEvaluationsVersion(q)
  <2>1. \E v, t : v # "count" /\ At(q, <<v, t>>) /\ Advances(q)
    BY <1>5 DEF UploadArtifact, CreateMLArtifactFails, DeleteArtifactFile, UpdateMLFinding,
       SetMLModelVersionRun, SetMLEvaluationsVersion, Advances, Proceeds
  <2> QED BY <2>1, WorksIf
<1>6. CASE CheckVersionTransition(q) \/ CreateVersionDeploymentUpdate(q)
  <2>1. \E v, t : v # "count" /\ At(q, <<v, t>>) /\ Advances(q)
    BY <1>6 DEF CheckVersionTransition, CreateVersionDeploymentUpdate, Advances, Proceeds
  <2> QED BY <2>1, WorksIf
<1>7. ASSUME NEW sync, NEW a, NEW b, Syncs(q, sync, a, b) PROVE Works(q)
  <2>1. At(q, <<"sync", sync.table>>) /\ Advances(q)
    BY <1>7 DEF Syncs, Advances, Proceeds
  <2> QED BY <2>1, WorksIf
<1>8. CASE \/ UpsertMLProjects(q) \/ UpsertMLModels(q) \/ UpsertMLModelVersions(q)
           \/ UpsertMLExperiments(q) \/ UpsertMLRuns(q) \/ UpsertMLArtifacts(q)
           \/ UpsertMLDatasets(q) \/ UpsertMLEvaluations(q)
  BY <1>7, <1>8 DEF UpsertMLProjects, UpsertMLModels, UpsertMLModelVersions, UpsertMLExperiments,
     UpsertMLRuns, UpsertMLArtifacts, UpsertMLDatasets, UpsertMLEvaluations
<1> QED BY <1>1, <1>2, <1>3, <1>4, <1>5, <1>6, <1>8 DEF MlStep

\* Moving on takes the call at hand from the list, or all of them.
LEMMA AdvancesOn ==
    ASSUME ProcType, NEW q \in Requests, Knows(q), NEW c, At(q, c), Advances(q)
    PROVE  /\ Others(q) /\ Left(q)' \subseteq Left(q) /\ c \in Left(q)
           /\ \/ Left(q)' = {}
              \/ /\ Left(q) \subseteq Left(q)' \cup {c} /\ ~Ends(q) /\ ~Aborts(q)
                 /\ \A d \in Left(q)' : Precedes(Rank(c[1]), Rank(d[1]))
<1>1. PICK s, t : s = proc[q].todo /\ t = Tail(s)
  OBVIOUS
<1>2. s # <<>> /\ Head(s) = c /\ Listed(s)
  BY <1>1 DEF At, Knows
<1>3. /\ c \in CallsOf(s) /\ CallsOf(t) \subseteq CallsOf(s) /\ CallsOf(s) \subseteq CallsOf(t) \cup {c}
      /\ \A d \in CallsOf(t) : Precedes(Rank(c[1]), Rank(d[1]))
  BY <1>1, <1>2, TailCalls
<1>4. proc \in [Requests -> [op : ContentOps \cup {"none"}, todo : Seq(AllCalls),
                              mem : Memories \cup {NoMem}]]
  BY DEF ProcType, ReqsType, Memories
<1>5. Others(q)
  BY <1>4 DEF Advances, Keeps, Goes, Ends, Skips, Aborts, Others
<1>6. CASE Ends(q) \/ Aborts(q)
  <2>1. proc'[q].todo = <<>>
    BY <1>4, <1>6 DEF Ends, Goes, Aborts
  <2>2. Left(q)' = {}
    BY <2>1, NoCalls DEF Left
  <2> QED BY <1>1, <1>3, <1>5, <2>2 DEF Left
<1>7. CASE ~Ends(q) /\ ~Aborts(q)
  <2>1. proc'[q].todo = t
    <3>1. CASE Skips(q)
      <4>1. PICK n : n = IF Len(proc[q].todo) = 1 THEN NoMem ELSE proc[q].mem
        OBVIOUS
      <4>2. proc' = [proc EXCEPT ![q].todo = t, ![q].mem = n]
        BY <1>1, <3>1, <4>1 DEF Skips
      <4> QED BY <1>4, <4>2
    <3>2. CASE \E m : Keeps(q, m)
      BY <1>1, <1>4, <3>2 DEF Keeps, Goes
    <3> QED BY <1>7, <3>1, <3>2 DEF Advances
  <2>2. Left(q)' = CallsOf(t) /\ Left(q) = CallsOf(s)
    BY <1>1, <2>1 DEF Left
  <2> QED BY <1>3, <1>5, <1>7, <2>2
<1> QED BY <1>6, <1>7

\* The requests under way, and those that have counted the maps and not yet
\* added theirs.
UnderWay == {q \in Requests : Busy(q)}
Past == {q \in Requests : <<"insert", "map">> \in Left(q) /\ <<"count", "map">> \notin Left(q)}

LimitInv ==
    /\ IsFiniteSet(UnderWay) /\ Cardinality(UnderWay) <= InFlight
    /\ IsFiniteSet(LiveIds("map"))
    /\ failedOpen \/ Cardinality(LiveIds("map")) + Cardinality(Past) <= MaxMaps + InFlight - 1

\* Maps and requests past the count, before and after a step.
LEMMA LimitKept ==
    ASSUME NEW A, NEW B, NEW P, NEW Q, NEW D, NEW q, IsFiniteSet(A), IsFiniteSet(P), IsFiniteSet(D),
           Cardinality(D) <= InFlight, Q \subseteq D,
           \/ B \subseteq A /\ Q \subseteq P /\ Cardinality(A) + Cardinality(P) <= MaxMaps + InFlight - 1
           \/ /\ B \subseteq A \cup {q} /\ q \in P /\ Q \subseteq P \ {q}
              /\ Cardinality(A) + Cardinality(P) <= MaxMaps + InFlight - 1
           \/ B \subseteq A /\ ~MapLimitReached(Cardinality(A))
    PROVE  Cardinality(B) + Cardinality(Q) <= MaxMaps + InFlight - 1
<1>1. /\ Cardinality(A) \in Nat /\ Cardinality(P) \in Nat /\ Cardinality(D) \in Nat
      /\ MaxMaps \in Nat /\ InFlight \in Nat
  BY FS_CardinalityType, MapsAssumption, HandlersAssumption
<1>2. ASSUME NEW S, NEW T, IsFiniteSet(S), T \subseteq S
      PROVE  IsFiniteSet(T) /\ Cardinality(T) \in Nat /\ Cardinality(T) <= Cardinality(S)
  <2>1. IsFiniteSet(T) /\ Cardinality(T) <= Cardinality(S)
    BY <1>2, FS_Subset
  <2> QED BY <2>1, FS_CardinalityType
<1>3. CASE B \subseteq A /\ Q \subseteq P /\ Cardinality(A) + Cardinality(P) <= MaxMaps + InFlight - 1
  <2>1. Cardinality(B) \in Nat /\ Cardinality(B) <= Cardinality(A)
    BY <1>2, <1>3
  <2>2. Cardinality(Q) \in Nat /\ Cardinality(Q) <= Cardinality(P)
    BY <1>2, <1>3
  <2> QED BY <1>1, <1>3, <2>1, <2>2
<1>4. CASE /\ B \subseteq A \cup {q} /\ q \in P /\ Q \subseteq P \ {q}
           /\ Cardinality(A) + Cardinality(P) <= MaxMaps + InFlight - 1
  <2>1. /\ IsFiniteSet(A \cup {q})
        /\ Cardinality(A \cup {q}) = Cardinality(A) \/ Cardinality(A \cup {q}) = Cardinality(A) + 1
    BY FS_AddElement
  <2>2. IsFiniteSet(P \ {q}) /\ Cardinality(P \ {q}) = Cardinality(P) - 1
    BY <1>4, FS_RemoveElement
  <2>3. Cardinality(B) \in Nat /\ Cardinality(B) <= Cardinality(A \cup {q})
    BY <1>2, <1>4, <2>1
  <2>4. Cardinality(Q) \in Nat /\ Cardinality(Q) <= Cardinality(P \ {q})
    BY <1>2, <1>4, <2>2
  <2> QED BY <1>1, <1>4, <2>1, <2>2, <2>3, <2>4
<1>5. CASE B \subseteq A /\ ~MapLimitReached(Cardinality(A))
  <2>1. Cardinality(B) \in Nat /\ Cardinality(B) <= Cardinality(A)
    BY <1>2, <1>5
  <2>2. Cardinality(Q) \in Nat /\ Cardinality(Q) <= Cardinality(D)
    BY <1>2
  <2>3. Cardinality(A) < MaxMaps
    BY <1>1, <1>5 DEF MapLimitReached
  <2> QED BY <1>1, <2>1, <2>2, <2>3
<1> QED BY <1>3, <1>4, <1>5

LEMMA StartsCount ==
    ASSUME ContentInv, NEW q \in Requests, Starts(q)
    PROVE  StartOK(q) /\ failedOpen' = failedOpen
<1>1. RowPre(q) /\ NotesTypeOK
  BY DEF ContentInv, RowPre
<1>2. PICK op :
        \/ op \in MapOps /\ MapStart(q, op) /\ UNCHANGED <<noteVars, deployments>>
        \/ op \in NoteOps /\ NoteStart(q, op) /\ UNCHANGED <<deployments, failedOpen>>
        \/ op \in MlOps /\ MlStart(q, op) /\ UNCHANGED <<noteVars, failedOpen>>
  BY DEF Starts
<1> QED BY <1>1, <1>2, MapStartOK, NoteStartOK, MlStartOK

\* A step of q that is not its arrival.
LEMMA StepsWork ==
    ASSUME ContentInv, NEW q \in Requests,
           \/ MapStep(q) /\ UNCHANGED <<noteVars, deployments>>
           \/ NoteStep(q) /\ UNCHANGED <<deployments, failedOpen>>
           \/ MlStep(q) /\ UNCHANGED <<noteVars, failedOpen>>
           \/ Aborts(q) /\ UNCHANGED <<rowVars, noteVars, deployments, failedOpen>>
    PROVE  Works(q) /\ (failedOpen' = failedOpen \/ failedOpen' = TRUE)
<1>1. CASE Aborts(q) /\ UNCHANGED <<rowVars, noteVars, deployments, failedOpen>>
  <2>1. PICK c : c = Head(proc[q].todo)
    OBVIOUS
  <2>2. At(q, c) /\ Advances(q) /\ Passes(q)
    BY <1>1, <2>1 DEF Aborts, Busy, At, Advances, Passes
  <2> QED BY <1>1, <2>2 DEF Works
<1> QED BY <1>1, MapWorks, NoteWorks, MlWorks

\* The lists of the others are what they were.
LEMMA OthersLists ==
    ASSUME NEW q \in Requests, Others(q)
    PROVE  \A p \in Requests : p # q => Left(p)' = Left(p) /\ (Busy(p)' <=> Busy(p))
BY DEF Others, Left, Busy

LEMMA LimitInit == Init => LimitInv
<1> SUFFICES ASSUME Init PROVE LimitInv
  OBVIOUS
<1>1. proc = [q \in Requests |-> [op |-> "none", todo |-> <<>>, mem |-> NoMem]]
  BY DEF Init, ReqsInit
<1>2. UnderWay = {} /\ Past = {}
  BY <1>1, NoCalls DEF UnderWay, Busy, Past, Left
<1>3. IsFiniteSet({}) /\ Cardinality({}) = 0 /\ IsFiniteSet({Seed}) /\ Cardinality({Seed}) = 1
  BY FS_EmptySet, FS_Singleton
<1>4. PICK A : A = LiveIds("map")
  OBVIOUS
<1>5. A \subseteq {Seed}
  BY <1>4, InitRows DEF LiveIds, Live
<1>6. IsFiniteSet(A) /\ Cardinality(A) \in Nat /\ Cardinality(A) <= 1
  <2>1. IsFiniteSet(A) /\ Cardinality(A) <= Cardinality({Seed})
    BY <1>3, <1>5, FS_Subset
  <2> QED BY <1>3, <2>1, FS_CardinalityType
<1>7. MaxMaps \in Nat /\ MaxMaps # 0 /\ InFlight \in Nat /\ InFlight # 0
  BY MapsAssumption, HandlersAssumption
<1> QED BY <1>2, <1>3, <1>4, <1>6, <1>7 DEF LimitInv

LEMMA LimitStep ==
    ASSUME ContentInv, LimitInv, NEW q \in Requests,
           \/ Starts(q)
           \/ MapStep(q) /\ UNCHANGED <<noteVars, deployments>>
           \/ NoteStep(q) /\ UNCHANGED <<deployments, failedOpen>>
           \/ MlStep(q) /\ UNCHANGED <<noteVars, failedOpen>>
           \/ Aborts(q) /\ UNCHANGED <<rowVars, noteVars, deployments, failedOpen>>
    PROVE  LimitInv'
<1>1. RowStepOK(q) /\ Knows(q) /\ ProcType
  BY StepsDoOK DEF StepOK, ContentInv
<1>2. RowEnv(q) /\ Others(q)
  BY <1>1 DEF RowStepOK
<1>3. PICK A, B, P, Q, D, E : /\ A = LiveIds("map") /\ B = LiveIds("map")' /\ P = Past /\ Q = Past'
                              /\ D = UnderWay /\ E = UnderWay'
  OBVIOUS
<1>4. PICK L, N : L = Left(q) /\ N = Left(q)'
  OBVIOUS
<1>5. \A p \in Requests : p # q => Left(p)' = Left(p) /\ (Busy(p)' <=> Busy(p))
  BY <1>2, OthersLists
<1>6. /\ P \subseteq Requests /\ Q \subseteq Requests /\ D \subseteq Requests /\ E \subseteq Requests
      /\ \A p \in Requests : p # q => (p \in Q <=> p \in P) /\ (p \in E <=> p \in D)
      /\ q \in P <=> (<<"insert", "map">> \in L /\ <<"count", "map">> \notin L)
      /\ q \in Q <=> (<<"insert", "map">> \in N /\ <<"count", "map">> \notin N)
  BY <1>3, <1>4, <1>5 DEF Past, UnderWay
<1>7. P \subseteq D /\ Q \subseteq E
  <2>1. \A p \in Requests : proc[p].todo = <<>> => Left(p) = {}
    BY NoCalls DEF Left
  <2>2. \A p \in Requests : proc'[p].todo = <<>> => Left(p)' = {}
    BY NoCalls DEF Left
  <2>3. P \subseteq D
    BY <1>3, <2>1 DEF Past, UnderWay, Busy
  <2>4. Q \subseteq E
    BY <1>3, <2>2 DEF Past, UnderWay, Busy
  <2> QED BY <2>3, <2>4
<1>8. B \subseteq A \cup {q} /\ (~At(q, <<"insert", "map">>) => B \subseteq A)
  BY <1>2, <1>3 DEF RowEnv, LiveIds
<1>9. /\ IsFiniteSet(A) /\ IsFiniteSet(D) /\ Cardinality(D) <= InFlight /\ IsFiniteSet(P) /\ IsFiniteSet(B)
      /\ failedOpen \/ Cardinality(A) + Cardinality(P) <= MaxMaps + InFlight - 1
      /\ Cardinality(D) \in Nat /\ InFlight \in Nat
  <2>1. /\ IsFiniteSet(A) /\ IsFiniteSet(D) /\ Cardinality(D) <= InFlight
        /\ failedOpen \/ Cardinality(A) + Cardinality(P) <= MaxMaps + InFlight - 1
    BY <1>3 DEF LimitInv
  <2>2. IsFiniteSet(P)
    BY <1>7, <2>1, FS_Subset
  <2>3. IsFiniteSet(A \cup {q})
    BY <2>1, FS_AddElement
  <2>4. IsFiniteSet(B)
    BY <1>8, <2>3, FS_Subset
  <2> QED BY <2>1, <2>2, <2>4, FS_CardinalityType, HandlersAssumption
<1>10. SUFFICES /\ IsFiniteSet(E) /\ Cardinality(E) <= InFlight
                /\ failedOpen' \/ Cardinality(B) + Cardinality(Q) <= MaxMaps + InFlight - 1
  BY <1>3, <1>9 DEF LimitInv
<1>11. CASE Starts(q)
  <2>1. StartOK(q) /\ failedOpen' = failedOpen
    BY <1>11, StartsCount
  <2>2. Op(q) = "none" /\ Counted(N) /\ Cardinality(D) < InFlight
    BY <1>3, <1>4, <2>1 DEF StartOK, Laid, UnderWay
  <2>3. L = {}
    BY <1>1, <1>4, <2>2 DEF Knows
  <2>4. ~At(q, <<"insert", "map">>)
    BY <1>1, <2>2, AtCall
  <2>5. B \subseteq A /\ Q \subseteq P
    BY <1>6, <1>8, <2>2, <2>4 DEF Counted
  <2>6. IsFiniteSet(D \cup {q}) /\ Cardinality(D \cup {q}) <= InFlight
    <3>1. /\ IsFiniteSet(D \cup {q})
          /\ Cardinality(D \cup {q}) = Cardinality(D) \/ Cardinality(D \cup {q}) = Cardinality(D) + 1
      BY <1>9, FS_AddElement
    <3> QED BY <1>9, <2>2, <3>1
  <2>7. E \subseteq D \cup {q}
    BY <1>6
  <2>8. IsFiniteSet(E) /\ Cardinality(E) <= InFlight
    <3>1. IsFiniteSet(E) /\ Cardinality(E) <= Cardinality(D \cup {q})
      BY <2>6, <2>7, FS_Subset
    <3> QED BY <1>9, <2>6, <3>1, FS_CardinalityType
  <2>9. failedOpen \/ Cardinality(B) + Cardinality(Q) <= MaxMaps + InFlight - 1
    BY <1>7, <1>9, <2>5, <2>8, LimitKept
  <2> QED BY <2>1, <2>8, <2>9
<1>12. CASE ~Starts(q)
  <2>1. Works(q) /\ (failedOpen' = failedOpen \/ failedOpen' = TRUE)
    BY <1>12, StepsWork
  <2>2. PICK c : At(q, c) /\ Advances(q) /\ (c = <<"count", "map">> => Passes(q))
    BY <2>1 DEF Works
  <2>3. /\ N \subseteq L /\ c \in L
        /\ \/ N = {}
           \/ /\ L \subseteq N \cup {c} /\ ~Ends(q) /\ ~Aborts(q)
              /\ \A d \in N : Precedes(Rank(c[1]), Rank(d[1]))
    BY <1>1, <1>4, <2>2, AdvancesOn
  <2>4. E \subseteq D
    <3>1. q \in D
      BY <1>3, <2>2 DEF At, UnderWay, Busy
    <3> QED BY <1>6, <3>1
  <2>5. IsFiniteSet(E) /\ Cardinality(E) <= InFlight /\ Q \subseteq D
    <3>1. IsFiniteSet(E) /\ Cardinality(E) <= Cardinality(D)
      BY <1>9, <2>4, FS_Subset
    <3> QED BY <1>7, <1>9, <2>4, <3>1, FS_CardinalityType
  <2>6. SUFFICES ASSUME failedOpen' # TRUE
                 PROVE  Cardinality(B) + Cardinality(Q) <= MaxMaps + InFlight - 1
    BY <2>5
  <2>7. Cardinality(A) + Cardinality(P) <= MaxMaps + InFlight - 1
    <3>1. failedOpen \in BOOLEAN /\ failedOpen' = failedOpen
      BY <2>1, <2>6 DEF ContentInv, OtherType
    <3> QED BY <1>9, <2>6, <3>1
  <2>8. CASE c = <<"insert", "map">>
    <3>1. <<"count", "map">> \notin L
      <4>1. Rank("insert") = 4 /\ Rank("count") = 1
        BY RankFacts DEF Looks
      <4>2. <<"count", "map">> \in L =>
              <<"count", "map">> = c \/ Precedes(Rank(c[1]), Rank("count"))
        BY <1>1, <1>4, <2>2, HeadFirst
      <4> QED BY <2>8, <4>1, <4>2 DEF Precedes
    <3>2. <<"insert", "map">> \notin N
      <4>1. Rank("insert") = 4
        BY RankFacts
      <4> QED BY <2>3, <2>8, <4>1 DEF Precedes
    <3>3. q \in P /\ Q \subseteq P \ {q}
      BY <1>6, <2>3, <2>8, <3>1, <3>2
    <3> QED BY <1>8, <1>9, <2>5, <2>7, <3>3, LimitKept
  <2>9. CASE c = <<"count", "map">>
    <3>1. ~At(q, <<"insert", "map">>)
      BY <2>2, <2>9 DEF At
    <3>2. B \subseteq A
      BY <1>8, <3>1
    <3>3. CASE N = {}
      <4>1. Q \subseteq P
        BY <1>6, <3>3
      <4> QED BY <1>9, <2>5, <2>7, <3>2, <4>1, LimitKept
    <3>4. CASE N # {}
      <4>1. ~MapLimitReached(Cardinality(A))
        BY <1>3, <2>2, <2>3, <2>6, <2>9, <3>4 DEF Passes
      <4> QED BY <1>9, <2>5, <3>2, <4>1, LimitKept
    <3> QED BY <3>3, <3>4
  <2>10. CASE c \notin {<<"insert", "map">>, <<"count", "map">>}
    <3>1. ~At(q, <<"insert", "map">>)
      BY <2>2, <2>10 DEF At
    <3>2. Q \subseteq P
      BY <1>6, <2>3, <2>10
    <3> QED BY <1>8, <1>9, <2>5, <2>7, <3>1, <3>2, LimitKept
  <2> QED BY <2>8, <2>9, <2>10
<1> QED BY <1>11, <1>12

LEMMA LimitNext == ContentInv /\ LimitInv /\ [Next]_vars => LimitInv'
<1> SUFFICES ASSUME ContentInv, LimitInv, [Next]_vars PROVE LimitInv'
  OBVIOUS
<1>1. CASE UNCHANGED vars
  <2>1. proc' = proc /\ rows' = rows /\ failedOpen' = failedOpen
    BY <1>1 DEF vars, rowVars
  <2> QED BY <2>1 DEF LimitInv, UnderWay, Busy, Past, Left, LiveIds, Live
<1>2. CASE Next
  BY <1>2, LimitStep DEF Next
<1> QED BY <1>1, <1>2

\* What is looked up in one statement and relied on in another still holds:
\* references of CI and of MLflow, slugs and the numbers of steps stay unique
\* however requests overlap and fail, and as long as the plan can be read the
\* limit of maps is passed by one map less than are under way at once.
THEOREM ContentCheckedHolds == Spec => []CheckedStillHolds
<1>1. ASSUME ContentInv, LimitInv PROVE CheckedStillHolds
  <2>1. OneEventPerRef
    BY <1>1, OneOwner DEF OneEventPerRef, RefTables
  <2>2. OneRowPerRef
    BY <1>1, OneOwner DEF OneRowPerRef, RefTables
  <2>3. SlugsDiffer /\ StepsNumbered
    BY <1>1 DEF ContentInv, NotesInv, StepsNumbered, StepRows
  <2>4. MapLimitOvershoot
    <3>1. PICK A, P : A = LiveIds("map") /\ P = Past
      OBVIOUS
    <3>2. IsFiniteSet(A) /\ IsFiniteSet(P)
      <4>1. P \subseteq UnderWay
        BY <3>1, NoCalls DEF Past, UnderWay, Busy, Left
      <4> QED BY <1>1, <3>1, <4>1, FS_Subset DEF LimitInv
    <3>3. /\ Cardinality(A) \in Nat /\ Cardinality(P) \in Nat /\ MaxMaps \in Nat /\ InFlight \in Nat
      BY <3>2, FS_CardinalityType, MapsAssumption, HandlersAssumption
    <3>4. failedOpen \/ Cardinality(A) + Cardinality(P) <= MaxMaps + InFlight - 1
      BY <1>1, <3>1 DEF LimitInv
    <3> QED BY <3>1, <3>3, <3>4 DEF MapLimitOvershoot
  <2> QED BY <2>1, <2>2, <2>3, <2>4 DEF CheckedStillHolds
<1> QED BY <1>1, ContentInvariant, LimitInit, LimitNext, PTL DEF Spec

(***************************************************************************)
(* Requests that come one after the other.                                 *)
(*                                                                         *)
(* As long as none overlaps and none fails, one request has calls left and *)
(* what it has read is still so.  What it writes in several places agrees  *)
(* when it is over; until then the request itself says what is missing.    *)
(***************************************************************************)
\* A call waits for another that comes before it; when that is done, so is
\* everything of its rank and before.
After(L, b, a) == b \in L /\ a \notin L => \A d \in L : Rank(d[1]) > Rank(a[1])

Staged(L) ==
    /\ \A w \in FrameWrites : After(L, w, <<"resolve", "frame">>)
    /\ After(L, <<"save", "doc">>, <<"dropOld", "doc">>)
    /\ After(L, <<"touch", "chat">>, <<"message", "chat">>)
    /\ After(L, <<"insertFields", "component">>, <<"save", "component">>)
    /\ After(L, <<"delete", "component">>, <<"clearFields", "component">>)
    /\ After(L, <<"firstVersion", "model">>, <<"insert", "model">>)

NoGetter(L) == \A g \in L : g[1] \notin Getters

ReadNow(L, m) ==
    NoGetter(L) => \A c \in L : c[1] \in Renews /\ c[2] \in Tables \ {"canvas"} =>
                       Live(c[2], m.id) /\ m.held = rows[<<c[2], m.id>>]

\* By hand only what was made by hand is written, and of a synced experiment
\* only the tags.
HandNow(L, m) ==
    /\ \A t \in HandSaved : <<"save", t>> \in L /\ NoGetter(L) => m.held.ref = Null
    /\ <<"saveExperiment", "experiment">> \in L /\ NoGetter(L) => OnlyTags(m, m.held)

\* What a new row belongs to is still to be looked at, or is there.
UnderNow(q, L, m) ==
    /\ \A t \in Owned : <<"insert", t>> \in L =>
          <<"ensure", Over(t)>> \in L \/ Live(Over(t), m.parent)
    /\ \A t \in Linked : <<"insert", t>> \in L =>
          <<"ensureIf", "version">> \in L \/ m.link = Null \/ Live("version", m.link)
    /\ <<"firstVersion", "model">> \in L => <<"insert", "model">> \in L \/ Live("model", q)

ImageNow(L, m) ==
    /\ <<"insert", "frame">> \in L => m.held = Null
    /\ L \cap FrameWrites # {} /\ <<"resolve", "frame">> \notin L /\ m.file \in Shots =>
           files[<<"frame", m.id>>] = m.file

DocNow(q, L, m) ==
    L \cap DocCalls # {} =>
        /\ m.file \in {q, Asset, Null}
        /\ m.file = q => <<"store", "doc">> \in L \/ <<"doc", q>> \in DOMAIN files
        /\ L \cap DocWrites # {} /\ m.file = q => \A k \in DOMAIN rows : k[1] = "doc" => rows[k].file # q

Last(s) == s[Len(s)]

ChatNow(q, L, m) ==
    <<"touch", "chat">> \in L /\ <<"message", "chat">> \notin L =>
        messages[m.id] # <<>> /\ Last(messages[m.id]) = q

FieldsNow(q, L, m) ==
    <<"insertFields", "component">> \in L /\ <<"save", "component">> \notin L =>
        m.id \in DOMAIN comps /\ comps[m.id].by = q

DeployNow(L, m) ==
    <<"deploy", "version">> \in L /\ <<"getStatus", "version">> \notin L => m.from = DeploymentStatus(m.id)

Now(q) ==
    LET L == Left(q)
        m == Mem(q) IN
    /\ Planned(L) /\ Staged(L)
    /\ ReadNow(L, m) /\ HandNow(L, m) /\ UnderNow(q, L, m)
    /\ ImageNow(L, m) /\ DocNow(q, L, m) /\ ChatNow(q, L, m) /\ FieldsNow(q, L, m) /\ DeployNow(L, m)

Alone == \A p, q \in Requests : Busy(p) /\ Busy(q) => p = q

HandRows == \A k \in DOMAIN rows : k[1] \in {"deployment", "finding"} => rows[k].ref = Null

\* A frame whose image is not the one of the row: q has stored it and is about
\* to write the row.
Redraws(q, i) ==
    /\ <<"save", "frame">> \in Left(q) \/ <<"saveAll", "frame">> \in Left(q)
    /\ <<"resolve", "frame">> \notin Left(q) /\ Mem(q).id = i /\ Mem(q).file \in Shots

ImageInv ==
    \A k \in DOMAIN rows : k[1] = "frame" /\ rows[k].file \in Shots =>
        files[k] = rows[k].file \/ \E q \in Requests : Redraws(q, k[2])

\* A document whose file is gone: q is about to write the row.
Rewrites(q, i) ==
    /\ <<"save", "doc">> \in Left(q) /\ <<"dropOld", "doc">> \notin Left(q)
    /\ Mem(q).id = i /\ Mem(q).file # Null

DocInv ==
    /\ \A i \in LiveIds("doc") : rows[<<"doc", i>>].file \notin {Null, Asset} =>
          \/ <<"doc", rows[<<"doc", i>>].file>> \in DOMAIN files
          \/ \E q \in Requests : Rewrites(q, i)
    /\ \A k, l \in DOMAIN rows :
          k[1] = "doc" /\ l[1] = "doc" /\ rows[k].file = rows[l].file /\ rows[k].file \notin {Null, Asset} =>
              k = l
    /\ \A q \in Requests : Op(q) = "none" => \A k \in DOMAIN rows : k[1] = "doc" => rows[k].file # q

\* A session that does not show its last message: q is about to touch it.
Touches(q, i) ==
    <<"touch", "chat">> \in Left(q) /\ <<"message", "chat">> \notin Left(q) /\ Mem(q).id = i

ChatInv ==
    /\ \A i \in RowIds : messages[i] # <<>> => <<"chat", i>> \in DOMAIN rows
    /\ \A i \in LiveIds("chat") : messages[i] # <<>> =>
          rows[<<"chat", i>>].link = Last(messages[i]) \/ \E q \in Requests : Touches(q, i)

\* A component whose fields are not its own: q is about to insert them, or to
\* delete the component.
Refits(q, i) ==
    /\ \/ <<"insertFields", "component">> \in Left(q) /\ <<"save", "component">> \notin Left(q)
       \/ <<"delete", "component">> \in Left(q) /\ <<"clearFields", "component">> \notin Left(q)
    /\ Mem(q).id = i

FieldsInv ==
    \A i \in DOMAIN comps : fields[i] = comps[i].by \/ \E q \in Requests : Refits(q, i)

ModelInv ==
    \A i \in Requests : <<"model", i>> \in DOMAIN rows =>
        \/ rows[<<"model", i>>].ref # Null
        \/ <<"version", i>> \in DOMAIN rows /\ rows[<<"version", i>>].parent = i /\ rows[<<"version", i>>].ref = Null
        \/ <<"firstVersion", "model">> \in Left(i)

ChainInv ==
    \A i \in RowIds : \A n \in 2..Len(deployments[i]) :
        deployments[i][n].from = deployments[i][n - 1].to

WholeInv ==
    clean => /\ Alone /\ (\A q \in Requests : Now(q))
             /\ HandRows /\ ImageInv /\ DocInv /\ ChatInv /\ FieldsInv /\ ModelInv /\ ChainInv

RouteInv ==
    \A q \in Requests :
        /\ Op(q) \in DOMAIN MlSyncs => \A c \in Left(q) : c[1] = "sync"
        /\ \A t \in Tables : <<"sync", t>> \in Left(q) => Op(q) \in DOMAIN MlSyncs /\ MlSyncs[Op(q)].table = t

(***************************************************************************)
(* What a call does, and what it leaves alone.                             *)
(***************************************************************************)
RowWrites ==
    ({"insert"} \X (Tables \ {"project", "version", "canvas"}))
    \cup ({"save"} \X (Tables \ {"project", "experiment", "finding", "version", "canvas", "event"}))
    \cup ({"remove"} \X (Tables \ {"event", "version", "canvas"}))
    \cup ({"sync"} \X {"project", "model", "version", "experiment", "run", "artifact", "dataset", "evaluation"})
    \cup {<<"saveAll", "frame">>, <<"upsert", "canvas">>, <<"touch", "chat">>, <<"saveEvent", "event">>,
          <<"erase", "event">>, <<"syncEvent", "event">>, <<"createProject", "project">>,
          <<"saveProject", "project">>, <<"restore", "project">>, <<"firstVersion", "model">>,
          <<"saveCard", "model">>, <<"saveExperiment", "experiment">>, <<"saveFinding", "finding">>,
          <<"setRun", "version">>, <<"setVersion", "evaluation">>}

FileWrites == {<<"resolve", "frame">>, <<"store", "doc">>, <<"dropOld", "doc">>,
               <<"upload", "artifact">>, <<"dropFile", "artifact">>}

Foot(q, c) ==
    /\ rows' = rows \/ c \in RowWrites
    /\ \A k \in DOMAIN rows : k[1] # Made(c) => k \in DOMAIN rows' /\ rows'[k] = rows[k]
    /\ \A k \in DOMAIN rows' : k[1] # Made(c) => k \in DOMAIN rows
    /\ files' = files \/ c \in FileWrites
    /\ \A k \in DOMAIN files : k[1] # c[2] => k \in DOMAIN files' /\ files'[k] = files[k]
    /\ messages' = messages \/ c = <<"message", "chat">>
    /\ comps' = comps \/ c \in {<<"save", "component">>, <<"delete", "component">>}
    /\ fields' = fields \/ c \in {"clearFields", "insertFields", "delete"} \X {"component"}
    /\ deployments' = deployments \/ c = <<"deploy", "version">>

Stays == UNCHANGED <<rows, files, messages, comps, fields, deployments>>

\* The calls at which a request may be turned away.
Door(c) ==
    \/ c[1] \in Looks
    \/ c \in {<<"resolve", "frame">>, <<"saveProject", "project">>, <<"save", "component">>,
              <<"insertFields", "component">>}
    \/ c \in {"sync"} \X MlTables

\* q goes on with what it held, with the row or the number that it read, or it
\* is turned away and nothing is written.
Walks(q, c) ==
    \/ Ends(q) /\ Stays /\ Door(c)
    \/ c[1] \notin Getters \cup {"slug", "number", "getStatus"} /\ Proceeds(q)
    \/ c[1] \in Getters /\ \E r : Keeps(q, [Mem(q) EXCEPT !.held = r])
    \/ c[1] \in {"slug", "number"} /\ \E n : Keeps(q, [Mem(q) EXCEPT !.number = n])
    \/ c[1] = "getStatus" /\ \E f : Keeps(q, [Mem(q) EXCEPT !.from = f])

\* The call by its name.
RowDeed(q, c) ==
    /\ c[1] = "insert" => Inserts(q, c[2])
    /\ c[1] = "save" /\ c[2] \in Tables => Saves(q, c[2])
    /\ c[1] = "remove" => Removes(q, c[2])
    /\ c[1] = "get" => Gets(q, c[2])
    /\ c[1] = "getManual" => GetsManual(q, c[2])
    /\ c[1] = "ensure" => Ensures(q, c[2])
    /\ c[1] = "ensureIf" => EnsuresIf(q, c[2])
    /\ c[1] = "save" => c \in RowWrites \cup {<<"save", "component">>}
    /\ c[1] = "getCanvas" => c[2] = "canvas"
    /\ c[1] \in {"slug", "number"} => c[2] \in {"component", "agent"}

NoteDeed(q, c) ==
    /\ c[1] = "resolve" => ResolveScreenshotAsset(q)
    /\ c[1] = "saveAll" => SyncFrame(q)
    /\ c[1] = "store" => ResolveDocContent(q)
    /\ c[1] = "dropOld" => DropOldAsset(q)
    /\ c[1] = "message" => CreateChatMessage(q)
    /\ c[1] = "touch" => TouchChatSession(q)
    /\ c = <<"save", "component">> => SaveCustomComponent(q)
    /\ c[1] = "clearFields" => ClearComponentFields(q)
    /\ c[1] = "insertFields" => InsertComponentFields(q)
    /\ c[1] = "delete" => DeleteComponent(q)

GetsTags(q) ==
    /\ At(q, <<"getTags", "experiment">>)
    /\ LET m == Mem(q)
           k == <<"experiment", m.id>> IN
       IF Live("experiment", m.id) /\ OnlyTags(m, rows[k])
       THEN Keeps(q, [m EXCEPT !.held = rows[k]]) ELSE Ends(q)
    /\ UNCHANGED rowVars

MlDeed(q, c) ==
    /\ c[1] = "getTags" => GetsTags(q)
    /\ c[1] = "firstVersion" => CreateMLModelVersion(q)
    /\ c[1] = "saveCard" => UpdateMLModel(q)
    /\ c[1] = "saveExperiment" => UpdateMLExperiment(q)
    /\ c[1] = "saveFinding" => UpdateMLFinding(q)
    /\ c[1] = "setRun" => SetMLModelVersionRun(q)
    /\ c[1] = "setVersion" => SetMLEvaluationsVersion(q)
    /\ c[1] = "sync" => \/ UpsertMLProjects(q) \/ UpsertMLModels(q) \/ UpsertMLModelVersions(q)
                        \/ UpsertMLExperiments(q) \/ UpsertMLRuns(q) \/ UpsertMLArtifacts(q)
                        \/ UpsertMLDatasets(q) \/ UpsertMLEvaluations(q)
    /\ c[1] = "getStatus" => CheckVersionTransition(q)
    /\ c[1] = "deploy" => CreateVersionDeploymentUpdate(q)

Did(q) == \E c : /\ At(q, c) /\ Foot(q, c) /\ Walks(q, c)
                 /\ RowDeed(q, c) /\ NoteDeed(q, c) /\ MlDeed(q, c)

LEMMA DidIf ==
    ASSUME NEW q, NEW c, At(q, c), Foot(q, c), Walks(q, c), RowDeed(q, c), NoteDeed(q, c), MlDeed(q, c)
    PROVE  Did(q)
BY DEF Did

\* The usual calls about a table.
LEMMA RowCallsDone ==
    ASSUME NEW q, NEW t \in Tables, UNCHANGED <<noteVars, deployments>>,
           \/ Inserts(q, t) /\ t \notin {"project", "version", "canvas"}
           \/ Saves(q, t) /\ t \notin {"project", "experiment", "finding", "version", "canvas", "event"}
           \/ Removes(q, t) /\ t \notin {"event", "version", "canvas"}
           \/ Gets(q, t) \/ GetsManual(q, t) \/ Ensures(q, t) \/ EnsuresIf(q, t)
    PROVE  Did(q)
<1>1. /\ messages' = messages /\ comps' = comps /\ fields' = fields /\ deployments' = deployments
      /\ files' = files
  BY DEF noteVars, Inserts, Saves, Removes, Gets, GetsManual, Ensures, EnsuresIf, rowVars
<1>2. CASE Inserts(q, t) /\ t \notin {"project", "version", "canvas"}
  <2>1. PICK c : c = <<"insert", t>>
    OBVIOUS
  <2>2. Foot(q, c)
    BY <1>1, <1>2, <2>1 DEF Foot, RowWrites, Made, Inserts, With
  <2>3. At(q, c) /\ Walks(q, c)
    BY <1>2, <2>1 DEF Inserts, Walks, Getters
  <2>4. RowDeed(q, c) /\ NoteDeed(q, c) /\ MlDeed(q, c)
    BY <1>2, <2>1 DEF RowDeed, NoteDeed, MlDeed
  <2> QED BY <2>2, <2>3, <2>4, DidIf
<1>3. CASE Saves(q, t) /\ t \notin {"project", "experiment", "finding", "version", "canvas", "event"}
  <2>1. PICK c : c = <<"save", t>>
    OBVIOUS
  <2>2. Foot(q, c)
    BY <1>1, <1>3, <2>1 DEF Foot, RowWrites, Made, Saves, With
  <2>3. At(q, c) /\ Walks(q, c)
    BY <1>3, <2>1 DEF Saves, Walks, Getters
  <2>4. RowDeed(q, c) /\ NoteDeed(q, c) /\ MlDeed(q, c)
    BY <1>3, <2>1, TablesApart DEF RowDeed, NoteDeed, MlDeed, RowWrites
  <2> QED BY <2>2, <2>3, <2>4, DidIf
<1>4. CASE Removes(q, t) /\ t \notin {"event", "version", "canvas"}
  <2>1. PICK c : c = <<"remove", t>>
    OBVIOUS
  <2>2. Foot(q, c)
    BY <1>1, <1>4, <2>1 DEF Foot, RowWrites, Made, Removes, With
  <2>3. At(q, c) /\ Walks(q, c)
    BY <1>4, <2>1 DEF Removes, Walks, Getters
  <2>4. RowDeed(q, c) /\ NoteDeed(q, c) /\ MlDeed(q, c)
    BY <1>4, <2>1 DEF RowDeed, NoteDeed, MlDeed
  <2> QED BY <2>2, <2>3, <2>4, DidIf
<1>5. CASE Gets(q, t) \/ GetsManual(q, t) \/ Ensures(q, t) \/ EnsuresIf(q, t)
  <2>1. PICK c : /\ c \in {"get", "getManual", "ensure", "ensureIf"} \X {t} /\ At(q, c)
                 /\ c[1] = "get" => Gets(q, t)
                 /\ c[1] = "getManual" => GetsManual(q, t)
                 /\ c[1] = "ensure" => Ensures(q, t)
                 /\ c[1] = "ensureIf" => EnsuresIf(q, t)
    <3>1. CASE Gets(q, t)
      <4> WITNESS <<"get", t>>
      <4> QED BY <3>1 DEF Gets
    <3>2. CASE GetsManual(q, t)
      <4> WITNESS <<"getManual", t>>
      <4> QED BY <3>2 DEF GetsManual
    <3>3. CASE Ensures(q, t)
      <4> WITNESS <<"ensure", t>>
      <4> QED BY <3>3 DEF Ensures
    <3>4. CASE EnsuresIf(q, t)
      <4> WITNESS <<"ensureIf", t>>
      <4> QED BY <3>4 DEF EnsuresIf
    <3> QED BY <1>5, <3>1, <3>2, <3>3, <3>4
  <2>2. rows' = rows
    BY <1>5 DEF Gets, GetsManual, Ensures, EnsuresIf, rowVars
  <2>3. Foot(q, c) /\ Stays
    BY <1>1, <2>2 DEF Foot, Stays
  <2>4. Walks(q, c)
    <3>1. CASE c[1] = "get"
      BY <2>1, <2>3, <3>1 DEF Gets, Walks, Getters, Door, Looks
    <3>2. CASE c[1] = "getManual"
      BY <2>1, <2>3, <3>2 DEF GetsManual, Walks, Getters, Door, Looks
    <3>3. CASE c[1] = "ensure"
      BY <2>1, <2>3, <3>3 DEF Ensures, Walks, Getters, Door, Looks
    <3>4. CASE c[1] = "ensureIf"
      BY <2>1, <2>3, <3>4 DEF EnsuresIf, Walks, Getters, Door, Looks
    <3> QED BY <2>1, <3>1, <3>2, <3>3, <3>4
  <2>5. RowDeed(q, c) /\ NoteDeed(q, c) /\ MlDeed(q, c)
    BY <2>1 DEF RowDeed, NoteDeed, MlDeed
  <2> QED BY <2>1, <2>3, <2>4, <2>5, DidIf
<1> QED BY <1>2, <1>3, <1>4, <1>5

\* A call fails, and no row is written.
Fails(q) == (Skips(q) \/ Aborts(q)) /\ rows' = rows

LEMMA MapDone ==
    ASSUME NEW q, MapStep(q), UNCHANGED <<noteVars, deployments>>
    PROVE  Did(q) \/ Fails(q)
<1>1. /\ messages' = messages /\ comps' = comps /\ fields' = fields /\ deployments' = deployments
  BY DEF noteVars
<1>2. /\ "map" \in Tables /\ "frame" \in Tables /\ "point" \in Tables /\ "group" \in Tables
      /\ "frameLink" \in Tables /\ "meta" \in Tables
  BY DEF Tables, MapTables
<1>3. CASE LimitUnknown(q)
  BY <1>3 DEF LimitUnknown, Fails, rowVars
<1>4. CASE \/ CreateMap(q) \/ GetMap(q) \/ UpdateMap(q) \/ SoftDeleteMap(q)
           \/ CreateFrame(q) \/ GetFrame(q) \/ UpdateFrame(q) \/ SoftDeleteFrame(q)
           \/ CreateFocalPoint(q) \/ GetFocalPoint(q) \/ UpdateFocalPoint(q) \/ SoftDeleteFocalPoint(q)
           \/ CreateFrameGroup(q) \/ GetFrameGroup(q) \/ UpdateFrameGroup(q) \/ SoftDeleteFrameGroup(q)
           \/ CreateFrameLink(q) \/ GetFrameLink(q) \/ UpdateFrameLink(q) \/ SoftDeleteFrameLink(q)
           \/ CreateFocalPointMeta(q) \/ GetFocalPointMeta(q) \/ UpdateFocalPointMeta(q)
           \/ SoftDeleteFocalPointMeta(q)
  BY <1>2, <1>4, RowCallsDone DEF CreateMap, GetMap, UpdateMap, SoftDeleteMap, CreateFrame, GetFrame,
     UpdateFrame, SoftDeleteFrame, CreateFocalPoint, GetFocalPoint, UpdateFocalPoint,
     SoftDeleteFocalPoint, CreateFrameGroup, GetFrameGroup, UpdateFrameGroup, SoftDeleteFrameGroup,
     CreateFrameLink, GetFrameLink, UpdateFrameLink, SoftDeleteFrameLink, CreateFocalPointMeta,
     GetFocalPointMeta, UpdateFocalPointMeta, SoftDeleteFocalPointMeta
<1>5. CASE CountMaps(q)
  <2>1. PICK c : c = <<"count", "map">>
    OBVIOUS
  <2>2. rows' = rows /\ files' = files /\ At(q, c)
    BY <1>5, <2>1 DEF CountMaps, rowVars
  <2>3. Foot(q, c) /\ Stays
    BY <1>1, <2>2 DEF Foot, Stays
  <2>4. Walks(q, c)
    BY <1>5, <2>1, <2>3 DEF CountMaps, Walks, Getters, Door, Looks
  <2>5. RowDeed(q, c) /\ NoteDeed(q, c) /\ MlDeed(q, c)
    BY <2>1 DEF RowDeed, NoteDeed, MlDeed
  <2> QED BY <2>2, <2>3, <2>4, <2>5, DidIf
<1>6. CASE ResolveScreenshotAsset(q)
  <2>1. PICK c : c = <<"resolve", "frame">>
    OBVIOUS
  <2>2. rows' = rows /\ At(q, c)
    BY <1>6, <2>1 DEF ResolveScreenshotAsset
  <2>3. \A k \in DOMAIN files : k[1] # c[2] => k \in DOMAIN files' /\ files'[k] = files[k]
    BY <1>6, <2>1 DEF ResolveScreenshotAsset, UploadScreenshot, With
  <2>4. Foot(q, c)
    BY <1>1, <2>1, <2>2, <2>3 DEF Foot, FileWrites
  <2>5. Walks(q, c)
    BY <1>1, <1>6, <2>1, <2>2 DEF ResolveScreenshotAsset, Walks, Getters, Door, Stays
  <2>6. RowDeed(q, c) /\ NoteDeed(q, c) /\ MlDeed(q, c)
    BY <1>6, <2>1 DEF RowDeed, NoteDeed, MlDeed
  <2> QED BY <2>2, <2>4, <2>5, <2>6, DidIf
<1>7. CASE SyncFrame(q)
  <2>1. PICK c : c = <<"saveAll", "frame">>
    OBVIOUS
  <2>2. Foot(q, c)
    BY <1>1, <1>7, <2>1 DEF Foot, RowWrites, Made, SyncFrame, With
  <2>3. At(q, c) /\ Walks(q, c)
    BY <1>7, <2>1 DEF SyncFrame, Walks, Getters
  <2>4. RowDeed(q, c) /\ NoteDeed(q, c) /\ MlDeed(q, c)
    BY <1>7, <2>1 DEF RowDeed, NoteDeed, MlDeed
  <2> QED BY <2>2, <2>3, <2>4, DidIf
<1>8. CASE GetCanvas(q)
  <2>1. PICK c : c = <<"getCanvas", "canvas">>
    OBVIOUS
  <2>2. rows' = rows /\ files' = files /\ At(q, c)
    BY <1>8, <2>1 DEF GetCanvas, rowVars
  <2>3. Foot(q, c)
    BY <1>1, <2>2 DEF Foot
  <2>4. Walks(q, c)
    BY <1>8, <2>1 DEF GetCanvas, Walks, Getters
  <2>5. RowDeed(q, c) /\ NoteDeed(q, c) /\ MlDeed(q, c)
    BY <2>1 DEF RowDeed, NoteDeed, MlDeed
  <2> QED BY <2>2, <2>3, <2>4, <2>5, DidIf
<1>9. CASE UpsertCanvas(q)
  <2>1. PICK c : c = <<"upsert", "canvas">>
    OBVIOUS
  <2>2. Foot(q, c)
    BY <1>1, <1>9, <2>1 DEF Foot, RowWrites, Made, UpsertCanvas, With
  <2>3. At(q, c) /\ Walks(q, c)
    BY <1>9, <2>1 DEF UpsertCanvas, Walks, Getters
  <2>4. RowDeed(q, c) /\ NoteDeed(q, c) /\ MlDeed(q, c)
    BY <2>1 DEF RowDeed, NoteDeed, MlDeed
  <2> QED BY <2>2, <2>3, <2>4, DidIf
<1> QED BY <1>3, <1>4, <1>5, <1>6, <1>7, <1>8, <1>9 DEF MapStep

\* A call that writes no row.
LEMMA Looked ==
    ASSUME NEW q, NEW v, NEW t, At(q, <<v, t>>),
           UNCHANGED <<rows, files, messages, comps, fields, deployments>>,
           Walks(q, <<v, t>>),
           RowDeed(q, <<v, t>>), NoteDeed(q, <<v, t>>), MlDeed(q, <<v, t>>)
    PROVE  Did(q)
<1>1. PICK c : c = <<v, t>>
  OBVIOUS
<1>2. Foot(q, c)
  BY DEF Foot
<1> QED BY <1>1, <1>2, DidIf

\* A row is inserted, or the row with the reference is updated.
LEMMA UpsertFoot ==
    ASSUME NEW q, NEW t, NEW link, Upserts(q, t, link)
    PROVE  /\ \A k \in DOMAIN rows : k \in DOMAIN rows' /\ (k[1] # t => rows'[k] = rows[k])
           /\ \A k \in DOMAIN rows' : k[1] # t => k \in DOMAIN rows
<1>1. PICK old, R : old = RefOwners(t, Mem(q).ref) /\ R = NewRow([Mem(q) EXCEPT !.link = link], q)
  OBVIOUS
<1>2. CASE old = {}
  <2>1. rows' = With(rows, <<t, q>>, R)
    BY <1>1, <1>2 DEF Upserts
  <2> QED BY <2>1 DEF With
<1>3. CASE old # {}
  <2>1. /\ DOMAIN rows' = DOMAIN rows
        /\ \A k \in DOMAIN rows : ~(k[1] = t /\ k[2] \in old) => rows'[k] = rows[k]
    BY <1>1, <1>3 DEF Upserts
  <2> QED BY <2>1
<1> QED BY <1>2, <1>3

LEMMA NoteDone ==
    ASSUME NEW q, NoteStep(q), UNCHANGED deployments
    PROVE  Did(q)
<1>1. /\ "folder" \in Tables /\ "comment" \in Tables /\ "doc" \in Tables /\ "chat" \in Tables
      /\ "event" \in Tables
  BY DEF Tables, NoteTables
<1>2. CASE /\ \/ CreateFolder(q) \/ GetFolder(q) \/ UpdateFolder(q) \/ DeleteFolder(q)
              \/ CreateComment(q) \/ GetComment(q) \/ UpdateComment(q) \/ SoftDeleteComment(q)
              \/ CreateDoc(q) \/ GetDoc(q) \/ UpdateDoc(q) \/ SoftDeleteDoc(q) \/ CreateChatSession(q)
              \/ OwnedSession(q) \/ UpdateChatSession(q) \/ SoftDeleteChatSession(q) \/ CreateEvent(q)
           /\ UNCHANGED noteVars
  BY <1>1, <1>2, RowCallsDone DEF CreateFolder, GetFolder, UpdateFolder, DeleteFolder, CreateComment,
     GetComment, UpdateComment, SoftDeleteComment, CreateDoc, GetDoc, UpdateDoc, SoftDeleteDoc,
     CreateChatSession, OwnedSession, UpdateChatSession, SoftDeleteChatSession, CreateEvent
<1>3. CASE /\ \/ ResolveDocContent(q) \/ DropOldAsset(q) \/ TouchChatSession(q)
              \/ UpdateEvent(q) \/ DeleteEvent(q) \/ UpsertEventBySourceRef(q)
           /\ UNCHANGED noteVars
  <2>1. messages' = messages /\ comps' = comps /\ fields' = fields /\ deployments' = deployments
    BY <1>3 DEF noteVars
  <2>2. CASE ResolveDocContent(q)
    <3>1. PICK c : c = <<"store", "doc">>
      OBVIOUS
    <3>2. \A k \in DOMAIN files : k[1] # c[2] => k \in DOMAIN files' /\ files'[k] = files[k]
      BY <2>2, <3>1 DEF ResolveDocContent, With
    <3>3. Foot(q, c) /\ At(q, c)
      BY <2>1, <2>2, <3>1, <3>2 DEF Foot, FileWrites, ResolveDocContent
    <3>4. Walks(q, c)
      BY <2>2, <3>1 DEF ResolveDocContent, Walks, Getters
    <3>5. RowDeed(q, c) /\ NoteDeed(q, c) /\ MlDeed(q, c)
      BY <2>2, <3>1 DEF RowDeed, NoteDeed, MlDeed
    <3> QED BY <3>3, <3>4, <3>5, DidIf
  <2>3. CASE DropOldAsset(q)
    <3>1. PICK c : c = <<"dropOld", "doc">>
      OBVIOUS
    <3>2. \A k \in DOMAIN files : k[1] # c[2] => k \in DOMAIN files' /\ files'[k] = files[k]
      BY <2>3, <3>1 DEF DropOldAsset, Without
    <3>3. Foot(q, c) /\ At(q, c)
      BY <2>1, <2>3, <3>1, <3>2 DEF Foot, FileWrites, DropOldAsset
    <3>4. Walks(q, c)
      BY <2>3, <3>1 DEF DropOldAsset, Walks, Getters
    <3>5. RowDeed(q, c) /\ NoteDeed(q, c) /\ MlDeed(q, c)
      BY <2>3, <3>1 DEF RowDeed, NoteDeed, MlDeed
    <3> QED BY <3>3, <3>4, <3>5, DidIf
  <2>4. CASE TouchChatSession(q)
    <3>1. PICK c : c = <<"touch", "chat">>
      OBVIOUS
    <3>2. Foot(q, c)
      BY <2>1, <2>4, <3>1 DEF Foot, RowWrites, Made, TouchChatSession, With
    <3>3. At(q, c) /\ Walks(q, c)
      BY <2>4, <3>1 DEF TouchChatSession, Walks, Getters
    <3>4. RowDeed(q, c) /\ NoteDeed(q, c) /\ MlDeed(q, c)
      BY <2>4, <3>1 DEF RowDeed, NoteDeed, MlDeed
    <3> QED BY <3>2, <3>3, <3>4, DidIf
  <2>5. CASE UpdateEvent(q)
    <3>1. PICK c : c = <<"saveEvent", "event">>
      OBVIOUS
    <3>2. Foot(q, c)
      BY <2>1, <2>5, <3>1 DEF Foot, RowWrites, Made, UpdateEvent, With
    <3>3. At(q, c) /\ Walks(q, c)
      BY <2>5, <3>1 DEF UpdateEvent, Walks, Getters
    <3>4. RowDeed(q, c) /\ NoteDeed(q, c) /\ MlDeed(q, c)
      BY <3>1 DEF RowDeed, NoteDeed, MlDeed
    <3> QED BY <3>2, <3>3, <3>4, DidIf
  <2>6. CASE DeleteEvent(q)
    <3>1. PICK c : c = <<"erase", "event">>
      OBVIOUS
    <3>2. Foot(q, c)
      BY <2>1, <2>6, <3>1 DEF Foot, RowWrites, Made, DeleteEvent, Without
    <3>3. At(q, c) /\ Walks(q, c)
      BY <2>6, <3>1 DEF DeleteEvent, Walks, Getters
    <3>4. RowDeed(q, c) /\ NoteDeed(q, c) /\ MlDeed(q, c)
      BY <3>1 DEF RowDeed, NoteDeed, MlDeed
    <3> QED BY <3>2, <3>3, <3>4, DidIf
  <2>7. CASE UpsertEventBySourceRef(q)
    <3>1. PICK c : c = <<"syncEvent", "event">>
      OBVIOUS
    <3>2. Foot(q, c)
      BY <2>1, <2>7, <3>1, UpsertFoot DEF Foot, RowWrites, Made, UpsertEventBySourceRef
    <3>3. At(q, c) /\ Walks(q, c)
      BY <2>7, <3>1 DEF UpsertEventBySourceRef, Walks, Getters
    <3>4. RowDeed(q, c) /\ NoteDeed(q, c) /\ MlDeed(q, c)
      BY <3>1 DEF RowDeed, NoteDeed, MlDeed
    <3> QED BY <3>2, <3>3, <3>4, DidIf
  <2> QED BY <1>3, <2>2, <2>3, <2>4, <2>5, <2>6, <2>7
<1>4. CASE CreateChatMessage(q)
  <2>1. PICK c : c = <<"message", "chat">>
    OBVIOUS
  <2>2. Foot(q, c) /\ At(q, c) /\ Walks(q, c)
    BY <1>4, <2>1 DEF Foot, CreateChatMessage, Walks, Getters, rowVars
  <2>3. RowDeed(q, c) /\ NoteDeed(q, c) /\ MlDeed(q, c)
    BY <1>4, <2>1 DEF RowDeed, NoteDeed, MlDeed
  <2> QED BY <2>2, <2>3, DidIf
<1>5. CASE SaveCustomComponent(q)
  <2>1. PICK c : c = <<"save", "component">>
    OBVIOUS
  <2>2. Foot(q, c) /\ At(q, c)
    BY <1>5, <2>1 DEF Foot, SaveCustomComponent, rowVars
  <2>3. Walks(q, c)
    BY <1>5, <2>1 DEF SaveCustomComponent, Walks, Getters, Door, Stays, rowVars
  <2>4. RowDeed(q, c) /\ NoteDeed(q, c) /\ MlDeed(q, c)
    BY <1>5, <2>1, TablesApart DEF RowDeed, NoteDeed, MlDeed
  <2> QED BY <2>2, <2>3, <2>4, DidIf
<1>6. CASE ClearComponentFields(q)
  <2>1. PICK c : c = <<"clearFields", "component">>
    OBVIOUS
  <2>2. Foot(q, c) /\ At(q, c) /\ Walks(q, c)
    BY <1>6, <2>1 DEF Foot, ClearComponentFields, Walks, Getters, rowVars
  <2>3. RowDeed(q, c) /\ NoteDeed(q, c) /\ MlDeed(q, c)
    BY <1>6, <2>1 DEF RowDeed, NoteDeed, MlDeed
  <2> QED BY <2>2, <2>3, DidIf
<1>7. CASE InsertComponentFields(q)
  <2>1. PICK c : c = <<"insertFields", "component">>
    OBVIOUS
  <2>2. Foot(q, c) /\ At(q, c)
    BY <1>7, <2>1 DEF Foot, InsertComponentFields, rowVars
  <2>3. Walks(q, c)
    BY <1>7, <2>1 DEF InsertComponentFields, Walks, Getters, Door, Stays, rowVars
  <2>4. RowDeed(q, c) /\ NoteDeed(q, c) /\ MlDeed(q, c)
    BY <1>7, <2>1 DEF RowDeed, NoteDeed, MlDeed
  <2> QED BY <2>2, <2>3, <2>4, DidIf
<1>8. CASE DeleteComponent(q)
  <2>1. PICK c : c = <<"delete", "component">>
    OBVIOUS
  <2>2. Foot(q, c) /\ At(q, c) /\ Walks(q, c)
    BY <1>8, <2>1 DEF Foot, DeleteComponent, Walks, Getters, rowVars
  <2>3. RowDeed(q, c) /\ NoteDeed(q, c) /\ MlDeed(q, c)
    BY <1>8, <2>1 DEF RowDeed, NoteDeed, MlDeed
  <2> QED BY <2>2, <2>3, DidIf
<1>9. CASE \/ UniqueComponentSlug(q) \/ GetComponent(q) \/ CreateAgentSession(q) \/ LoadSession(q)
           \/ FinishAgentSession(q) \/ NumberAgentStep(q) \/ CreateAgentSessionStep(q)
  <2>1. UNCHANGED <<rows, files, messages, comps, fields, deployments>>
    BY <1>9 DEF UniqueComponentSlug, GetComponent, CreateAgentSession, LoadSession, FinishAgentSession,
       NumberAgentStep, CreateAgentSessionStep, rowVars, noteVars
  <2>2. \E v \in {"slug", "getComponent", "create", "load", "finish", "number", "insertStep"},
           t \in {"component", "agent"} : At(q, <<v, t>>) /\ Walks(q, <<v, t>>)
    BY <1>9, <2>1 DEF UniqueComponentSlug, GetComponent, CreateAgentSession, LoadSession,
       FinishAgentSession, NumberAgentStep, CreateAgentSessionStep, Walks, Getters, Door, Looks, Stays
  <2>3. PICK v \in {"slug", "getComponent", "create", "load", "finish", "number", "insertStep"},
             t \in {"component", "agent"} : At(q, <<v, t>>) /\ Walks(q, <<v, t>>)
    BY <2>2
  <2>4. RowDeed(q, <<v, t>>) /\ NoteDeed(q, <<v, t>>) /\ MlDeed(q, <<v, t>>)
    BY DEF RowDeed, NoteDeed, MlDeed
  <2> QED BY <2>1, <2>3, <2>4, Looked
<1> QED BY <1>2, <1>3, <1>4, <1>5, <1>6, <1>7, <1>8, <1>9 DEF NoteStep

\* One transaction of a sync.
LEMMA SyncDone ==
    ASSUME NEW q, NEW s, NEW a, NEW b, Syncs(q, s, a, b), UNCHANGED <<noteVars, deployments>>,
           s.table \in {"project", "model", "version", "experiment", "run", "artifact", "dataset", "evaluation"},
           MlDeed(q, <<"sync", s.table>>)
    PROVE  Did(q)
<1>1. PICK c, t, link : /\ t = s.table /\ c = <<"sync", t>>
                        /\ link = IF Mem(q).link # Null /\ Resolved(s.link, Mem(q).link)
                                  THEN Mem(q).link ELSE Null
  OBVIOUS
<1>2. /\ messages' = messages /\ comps' = comps /\ fields' = fields /\ deployments' = deployments
      /\ files' = files /\ At(q, c)
  BY <1>1 DEF noteVars, Syncs
<1>3. (Ends(q) /\ rows' = rows) \/ (Upserts(q, t, link) /\ Proceeds(q))
  BY <1>1 DEF Syncs
<1>4. Walks(q, c)
  BY <1>1, <1>2, <1>3 DEF Walks, Getters, Door, Stays, MlTables
<1>5. c \in RowWrites /\ Made(c) = t
  BY <1>1 DEF RowWrites, Made
<1>6. Foot(q, c)
  <2>1. CASE rows' = rows
    BY <1>2, <2>1 DEF Foot
  <2>2. CASE Upserts(q, t, link)
    <3>1. /\ \A k \in DOMAIN rows : k \in DOMAIN rows' /\ (k[1] # t => rows'[k] = rows[k])
          /\ \A k \in DOMAIN rows' : k[1] # t => k \in DOMAIN rows
      BY <2>2, UpsertFoot
    <3> QED BY <1>2, <1>5, <3>1 DEF Foot
  <2> QED BY <1>3, <2>1, <2>2
<1>7. RowDeed(q, c) /\ NoteDeed(q, c) /\ MlDeed(q, c)
  BY <1>1 DEF RowDeed, NoteDeed
<1> QED BY <1>2, <1>4, <1>6, <1>7, DidIf

LEMMA MlDone ==
    ASSUME NEW q, MlStep(q), UNCHANGED noteVars
    PROVE  Did(q) \/ Fails(q)
<1>1. messages' = messages /\ comps' = comps /\ fields' = fields
  BY DEF noteVars
<1>2. CASE CheckVersionTransition(q)
  <2>1. UNCHANGED <<rows, files, messages, comps, fields, deployments>> /\ At(q, <<"getStatus", "version">>)
    BY <1>1, <1>2 DEF CheckVersionTransition, rowVars
  <2>2. Walks(q, <<"getStatus", "version">>)
    BY <1>2, <2>1 DEF CheckVersionTransition, Walks, Getters, Door, Looks, Stays
  <2>3. /\ RowDeed(q, <<"getStatus", "version">>) /\ NoteDeed(q, <<"getStatus", "version">>)
        /\ MlDeed(q, <<"getStatus", "version">>)
    BY <1>2 DEF RowDeed, NoteDeed, MlDeed
  <2> QED BY <2>1, <2>2, <2>3, Looked
<1>3. CASE CreateVersionDeploymentUpdate(q)
  <2>1. PICK c : c = <<"deploy", "version">>
    OBVIOUS
  <2>2. Foot(q, c) /\ At(q, c) /\ Walks(q, c)
    BY <1>1, <1>3, <2>1 DEF Foot, CreateVersionDeploymentUpdate, Walks, Getters, rowVars
  <2>3. RowDeed(q, c) /\ NoteDeed(q, c) /\ MlDeed(q, c)
    BY <1>3, <2>1 DEF RowDeed, NoteDeed, MlDeed
  <2> QED BY <2>2, <2>3, DidIf
<1>4. ASSUME deployments' = deployments, ~CheckVersionTransition(q), ~CreateVersionDeploymentUpdate(q)
      PROVE  Did(q) \/ Fails(q)
  <2>1. CASE \/ GetMLProject(q) \/ DeleteMLProject(q) \/ EnsureProjectInOrg(q) \/ EnsureModelInOrg(q)
             \/ EnsureVersionInOrg(q) \/ EnsureExperimentInOrg(q) \/ EnsureRunsInOrg(q)
             \/ EnsureEvaluationsInOrg(q) \/ CreateMLModel(q)
             \/ GetMLModel(q) \/ UpdateMLModelInfo(q) \/ DeleteMLModel(q)
             \/ CreateMLExperiment(q) \/ DeleteMLExperiment(q)
             \/ CreateMLRun(q) \/ GetMLRun(q) \/ UpdateMLRun(q) \/ DeleteMLRun(q)
    BY <1>4, <2>1, MlTablesKnown, RowCallsDone DEF GetMLProject, DeleteMLProject, EnsureProjectInOrg,
       EnsureModelInOrg, EnsureVersionInOrg, EnsureExperimentInOrg, EnsureRunsInOrg,
       EnsureEvaluationsInOrg, CreateMLModel, GetMLModel, UpdateMLModelInfo, DeleteMLModel,
       CreateMLExperiment, DeleteMLExperiment, CreateMLRun, GetMLRun, UpdateMLRun, DeleteMLRun
  <2>2. CASE \/ CreateMLDataset(q) \/ GetMLDataset(q) \/ UpdateMLDataset(q)
             \/ DeleteMLDataset(q) \/ CreateMLArtifact(q) \/ GetMLArtifact(q) \/ UpdateMLArtifact(q)
             \/ DeleteMLArtifact(q) \/ CreateMLEvaluation(q)
             \/ GetMLEvaluation(q) \/ UpdateMLEvaluation(q) \/ DeleteMLEvaluation(q)
             \/ CreateMLDeployment(q) \/ GetMLDeployment(q) \/ UpdateMLDeployment(q)
             \/ DeleteMLDeployment(q) \/ CreateMLFinding(q) \/ GetMLFinding(q)
             \/ DeleteMLFinding(q) \/ GetMLModelVersion(q)
    BY <1>4, <2>2, MlTablesKnown, RowCallsDone DEF CreateMLDataset, GetMLDataset, UpdateMLDataset,
       DeleteMLDataset, CreateMLArtifact, GetMLArtifact, UpdateMLArtifact, DeleteMLArtifact,
       CreateMLEvaluation, GetMLEvaluation, UpdateMLEvaluation, DeleteMLEvaluation, CreateMLDeployment,
       GetMLDeployment, UpdateMLDeployment, DeleteMLDeployment, CreateMLFinding, GetMLFinding,
       DeleteMLFinding, GetMLModelVersion
  <2>3. CASE CreateMLProject(q)
    <3>1. PICK c : c = <<"createProject", "project">>
      OBVIOUS
    <3>2. Foot(q, c)
      BY <1>1, <1>4, <2>3, <3>1, UpsertFoot DEF Foot, RowWrites, Made, CreateMLProject
    <3>3. At(q, c) /\ Walks(q, c)
      BY <2>3, <3>1 DEF CreateMLProject, Walks, Getters
    <3>4. RowDeed(q, c) /\ NoteDeed(q, c) /\ MlDeed(q, c)
      BY <3>1 DEF RowDeed, NoteDeed, MlDeed
    <3> QED BY <3>2, <3>3, <3>4, DidIf
  <2>4. CASE UpdateMLProject(q)
    <3>1. PICK c : c = <<"saveProject", "project">>
      OBVIOUS
    <3>2. PICK R : (Ends(q) /\ rows' = rows) \/ (Proceeds(q) /\ rows' = rows)
                   \/ (Proceeds(q) /\ rows' = With(rows, <<"project", Mem(q).id>>, R))
      BY <2>4 DEF UpdateMLProject
    <3>3. Foot(q, c) /\ files' = files
      BY <1>1, <1>4, <2>4, <3>1, <3>2 DEF Foot, RowWrites, Made, UpdateMLProject, With
    <3>4. At(q, c)
      BY <2>4, <3>1 DEF UpdateMLProject
    <3>5. Walks(q, c)
      BY <1>1, <1>4, <3>1, <3>2, <3>3 DEF Walks, Getters, Door, Stays
    <3>6. RowDeed(q, c) /\ NoteDeed(q, c) /\ MlDeed(q, c)
      BY <3>1 DEF RowDeed, NoteDeed, MlDeed
    <3> QED BY <3>3, <3>4, <3>5, <3>6, DidIf
  <2>5. CASE RestoreMLProjects(q)
    <3>1. PICK c : c = <<"restore", "project">>
      OBVIOUS
    <3>2. Foot(q, c)
      BY <1>1, <1>4, <2>5, <3>1 DEF Foot, RowWrites, Made, RestoreMLProjects
    <3>3. At(q, c) /\ Walks(q, c)
      BY <2>5, <3>1 DEF RestoreMLProjects, Walks, Getters
    <3>4. RowDeed(q, c) /\ NoteDeed(q, c) /\ MlDeed(q, c)
      BY <3>1 DEF RowDeed, NoteDeed, MlDeed
    <3> QED BY <3>2, <3>3, <3>4, DidIf
  <2>6. CASE CreateMLModelVersion(q)
    <3>1. PICK c : c = <<"firstVersion", "model">>
      OBVIOUS
    <3>2. Foot(q, c)
      BY <1>1, <1>4, <2>6, <3>1 DEF Foot, RowWrites, Made, CreateMLModelVersion, With
    <3>3. At(q, c) /\ Walks(q, c)
      BY <2>6, <3>1 DEF CreateMLModelVersion, Walks, Getters
    <3>4. RowDeed(q, c) /\ NoteDeed(q, c) /\ MlDeed(q, c)
      BY <2>6, <3>1 DEF RowDeed, NoteDeed, MlDeed
    <3> QED BY <3>2, <3>3, <3>4, DidIf
  <2>7. CASE UpdateMLModel(q)
    <3>1. PICK c : c = <<"saveCard", "model">>
      OBVIOUS
    <3>2. Foot(q, c)
      BY <1>1, <1>4, <2>7, <3>1 DEF Foot, RowWrites, Made, UpdateMLModel, With
    <3>3. At(q, c) /\ Walks(q, c)
      BY <2>7, <3>1 DEF UpdateMLModel, Walks, Getters
    <3>4. RowDeed(q, c) /\ NoteDeed(q, c) /\ MlDeed(q, c)
      BY <2>7, <3>1 DEF RowDeed, NoteDeed, MlDeed
    <3> QED BY <3>2, <3>3, <3>4, DidIf
  <2>8. CASE GetMLExperiment(q)
    <3>1. CASE GetsManual(q, "experiment")
      BY <1>4, <3>1, MlTablesKnown, RowCallsDone
    <3>2. CASE GetsTags(q)
      <4>1. UNCHANGED <<rows, files, messages, comps, fields, deployments>> /\ At(q, <<"getTags", "experiment">>)
        BY <1>1, <1>4, <3>2 DEF GetsTags, rowVars
      <4>2. Walks(q, <<"getTags", "experiment">>)
        BY <3>2, <4>1 DEF GetsTags, Walks, Getters, Door, Looks, Stays
      <4>3. /\ RowDeed(q, <<"getTags", "experiment">>) /\ NoteDeed(q, <<"getTags", "experiment">>)
            /\ MlDeed(q, <<"getTags", "experiment">>)
        BY <3>2 DEF RowDeed, NoteDeed, MlDeed
      <4> QED BY <4>1, <4>2, <4>3, Looked
    <3> QED BY <2>8, <3>1, <3>2 DEF GetMLExperiment, GetsTags
  <2>9. CASE UpdateMLExperiment(q)
    <3>1. PICK c : c = <<"saveExperiment", "experiment">>
      OBVIOUS
    <3>2. Foot(q, c)
      BY <1>1, <1>4, <2>9, <3>1 DEF Foot, RowWrites, Made, UpdateMLExperiment, With
    <3>3. At(q, c) /\ Walks(q, c)
      BY <2>9, <3>1 DEF UpdateMLExperiment, Walks, Getters
    <3>4. RowDeed(q, c) /\ NoteDeed(q, c) /\ MlDeed(q, c)
      BY <2>9, <3>1 DEF RowDeed, NoteDeed, MlDeed
    <3> QED BY <3>2, <3>3, <3>4, DidIf
  <2>10. CASE UploadArtifact(q) \/ DeleteArtifactFile(q)
    <3>1. PICK c \in {"upload", "dropFile"} \X {"artifact"} : At(q, c)
      BY <2>10 DEF UploadArtifact, DeleteArtifactFile
    <3>2. rows' = rows /\ Proceeds(q)
      BY <2>10 DEF UploadArtifact, DeleteArtifactFile
    <3>3. \A k \in DOMAIN files : k[1] # "artifact" => k \in DOMAIN files' /\ files'[k] = files[k]
      BY <2>10 DEF UploadArtifact, DeleteArtifactFile, With, Without
    <3>4. Foot(q, c)
      BY <1>1, <1>4, <3>1, <3>2, <3>3 DEF Foot, FileWrites
    <3>5. Walks(q, c)
      BY <3>1, <3>2 DEF Walks, Getters
    <3>6. RowDeed(q, c) /\ NoteDeed(q, c) /\ MlDeed(q, c)
      BY <3>1 DEF RowDeed, NoteDeed, MlDeed
    <3> QED BY <3>1, <3>4, <3>5, <3>6, DidIf
  <2>11. CASE CreateMLArtifactFails(q)
    BY <2>11 DEF CreateMLArtifactFails, Fails
  <2>12. CASE UpdateMLFinding(q)
    <3>1. PICK c : c = <<"saveFinding", "finding">>
      OBVIOUS
    <3>2. Foot(q, c)
      BY <1>1, <1>4, <2>12, <3>1 DEF Foot, RowWrites, Made, UpdateMLFinding, With
    <3>3. At(q, c) /\ Walks(q, c)
      BY <2>12, <3>1 DEF UpdateMLFinding, Walks, Getters
    <3>4. RowDeed(q, c) /\ NoteDeed(q, c) /\ MlDeed(q, c)
      BY <2>12, <3>1 DEF RowDeed, NoteDeed, MlDeed
    <3> QED BY <3>2, <3>3, <3>4, DidIf
  <2>13. CASE SetMLModelVersionRun(q)
    <3>1. PICK c : c = <<"setRun", "version">>
      OBVIOUS
    <3>2. Foot(q, c)
      BY <1>1, <1>4, <2>13, <3>1 DEF Foot, RowWrites, Made, SetMLModelVersionRun, With
    <3>3. At(q, c) /\ Walks(q, c)
      BY <2>13, <3>1 DEF SetMLModelVersionRun, Walks, Getters
    <3>4. RowDeed(q, c) /\ NoteDeed(q, c) /\ MlDeed(q, c)
      BY <2>13, <3>1 DEF RowDeed, NoteDeed, MlDeed
    <3> QED BY <3>2, <3>3, <3>4, DidIf
  <2>14. CASE SetMLEvaluationsVersion(q)
    <3>1. PICK c : c = <<"setVersion", "evaluation">>
      OBVIOUS
    <3>2. Foot(q, c)
      BY <1>1, <1>4, <2>14, <3>1 DEF Foot, RowWrites, Made, SetMLEvaluationsVersion, With
    <3>3. At(q, c) /\ Walks(q, c)
      BY <2>14, <3>1 DEF SetMLEvaluationsVersion, Walks, Getters
    <3>4. RowDeed(q, c) /\ NoteDeed(q, c) /\ MlDeed(q, c)
      BY <2>14, <3>1 DEF RowDeed, NoteDeed, MlDeed
    <3> QED BY <3>2, <3>3, <3>4, DidIf
  <2>15. CASE \/ UpsertMLProjects(q) \/ UpsertMLModels(q) \/ UpsertMLModelVersions(q)
              \/ UpsertMLExperiments(q) \/ UpsertMLRuns(q) \/ UpsertMLArtifacts(q)
              \/ UpsertMLDatasets(q) \/ UpsertMLEvaluations(q)
    <3>1. \A t : MlDeed(q, <<"sync", t>>)
      BY <2>15 DEF MlDeed
    <3>2. PICK s \in {SyncProjects, SyncModels, SyncVersions, SyncExperiments, SyncRuns, SyncArtifacts,
                      SyncDatasets, SyncEvaluations}, a \in BOOLEAN, b \in BOOLEAN : Syncs(q, s, a, b)
      BY <2>15 DEF UpsertMLProjects, UpsertMLModels, UpsertMLModelVersions, UpsertMLExperiments,
         UpsertMLRuns, UpsertMLArtifacts, UpsertMLDatasets, UpsertMLEvaluations
    <3>3. s.table \in {"project", "model", "version", "experiment", "run", "artifact", "dataset", "evaluation"}
      BY <3>2 DEF SyncProjects, SyncModels, SyncVersions, SyncExperiments, SyncRuns, SyncArtifacts,
         SyncDatasets, SyncEvaluations
    <3> QED BY <1>4, <3>1, <3>2, <3>3, SyncDone
  <2> QED BY <1>4, <2>1, <2>2, <2>3, <2>4, <2>5, <2>6, <2>7, <2>8, <2>9, <2>10, <2>11, <2>12, <2>13,
             <2>14, <2>15 DEF MlStep
<1> QED BY <1>2, <1>3, <1>4 DEF MlStep

\* A step of q: its arrival, a call that is done, or a call that fails.
LEMMA StepsDone ==
    ASSUME NEW q \in Requests,
           \/ Starts(q)
           \/ MapStep(q) /\ UNCHANGED <<noteVars, deployments>>
           \/ NoteStep(q) /\ UNCHANGED <<deployments, failedOpen>>
           \/ MlStep(q) /\ UNCHANGED <<noteVars, failedOpen>>
           \/ Aborts(q) /\ UNCHANGED <<rowVars, noteVars, deployments, failedOpen>>
    PROVE  Starts(q) \/ Did(q) \/ Fails(q)
<1>1. CASE MapStep(q) /\ UNCHANGED <<noteVars, deployments>>
  BY <1>1, MapDone
<1>2. CASE NoteStep(q) /\ UNCHANGED <<deployments, failedOpen>>
  BY <1>2, NoteDone
<1>3. CASE MlStep(q) /\ UNCHANGED <<noteVars, failedOpen>>
  BY <1>3, MlDone
<1>4. CASE Aborts(q) /\ UNCHANGED <<rowVars, noteVars, deployments, failedOpen>>
  BY <1>4 DEF Fails, rowVars
<1> QED BY <1>1, <1>2, <1>3, <1>4

(***************************************************************************)
(* Moving on along a list.                                                 *)
(***************************************************************************)
LEMMA AfterKept ==
    ASSUME NEW L, NEW N, NEW c, NEW a, NEW b, Rank(a[1]) # 1, After(L, b, a),
           N \subseteq L, L \subseteq N \cup {c}, \A d \in N : Precedes(Rank(c[1]), Rank(d[1]))
    PROVE  After(N, b, a)
BY DEF After, Precedes

LEMMA PlanKept ==
    ASSUME NEW L, NEW N, NEW c, Planned(L), Staged(L),
           N \subseteq L, L \subseteq N \cup {c}, \A d \in N : Precedes(Rank(c[1]), Rank(d[1]))
    PROVE  Planned(N) /\ Staged(N)
<1>1. /\ Rank("resolve") = 2 /\ Rank("message") = 2 /\ Rank("dropOld") = 3 /\ Rank("save") = 4
      /\ Rank("insert") = 4 /\ Rank("saveAll") = 4 /\ Rank("touch") = 4 /\ Rank("clearFields") = 5
      /\ Rank("firstVersion") = 5 /\ Rank("insertFields") = 6 /\ Rank("delete") = 6
  BY RankFacts DEF Prepares
<1>2. /\ ~Precedes(4, 2) /\ ~Precedes(4, 3) /\ ~Precedes(5, 4) /\ ~Precedes(6, 4) /\ ~Precedes(6, 5)
  BY DEF Precedes
<1>3. \A a, b : a \in N /\ b \in L /\ ~Precedes(Rank(b[1]), Rank(a[1])) => b \in N
  OBVIOUS
<1>4. Planned(N)
  <2>1. <<"resolve", "frame">> \in N => \E w \in FrameWrites : w \in N
    BY <1>1, <1>2, <1>3 DEF Planned, FrameWrites
  <2>2. <<"insert", "model">> \in N => <<"firstVersion", "model">> \in N
    BY <1>1, <1>2, <1>3 DEF Planned
  <2>3. <<"dropOld", "doc">> \in N => <<"save", "doc">> \in N
    BY <1>1, <1>2, <1>3 DEF Planned
  <2>4. <<"message", "chat">> \in N => <<"touch", "chat">> \in N
    BY <1>1, <1>2, <1>3 DEF Planned
  <2>5. <<"save", "component">> \in N => <<"insertFields", "component">> \in N
    BY <1>1, <1>2, <1>3 DEF Planned
  <2>6. <<"clearFields", "component">> \in N =>
          <<"insertFields", "component">> \in N \/ <<"delete", "component">> \in N
    BY <1>1, <1>2, <1>3 DEF Planned
  <2> QED BY <2>1, <2>2, <2>3, <2>4, <2>5, <2>6 DEF Planned
<1>5. ASSUME NEW a, NEW b, Rank(a[1]) # 1, After(L, b, a) PROVE After(N, b, a)
  BY <1>5, AfterKept
<1>6. /\ Rank(<<"resolve", "frame">>[1]) # 1 /\ Rank(<<"dropOld", "doc">>[1]) # 1
      /\ Rank(<<"message", "chat">>[1]) # 1 /\ Rank(<<"save", "component">>[1]) # 1
      /\ Rank(<<"clearFields", "component">>[1]) # 1 /\ Rank(<<"insert", "model">>[1]) # 1
  BY <1>1
<1>7. Staged(N)
  BY <1>5, <1>6 DEF Staged
<1> QED BY <1>4, <1>7

\* A list of which nothing is done.
LEMMA LaidIsPlanned ==
    ASSUME NEW L, Laid(L)
    PROVE  Planned(L) /\ Staged(L)
<1>1. Planned(L) /\ Begins(L)
  BY DEF Laid
<1>2. FrameWrites \subseteq FrameWrites /\ DocCalls = DocCalls /\ <<"save", "doc">> \in DocCalls
  BY DEF DocCalls
<1>3. Staged(L)
  BY <1>1, <1>2 DEF Staged, Begins, After
<1> QED BY <1>1, <1>3

\* What q carries on after the call c.
Carries(q, c) ==
    IF c[1] \in Getters THEN \E r : Mem(q)' = [Mem(q) EXCEPT !.held = r]
    ELSE IF c[1] \in {"slug", "number"} THEN \E n : Mem(q)' = [Mem(q) EXCEPT !.number = n]
    ELSE IF c[1] = "getStatus" THEN \E f : Mem(q)' = [Mem(q) EXCEPT !.from = f]
    ELSE Mem(q)' = Mem(q)

OnWith(q, c) ==
    /\ Left(q) \subseteq Left(q)' \cup {c}
    /\ \A d \in Left(q)' : Precedes(Rank(c[1]), Rank(d[1]))
    /\ Left(q)' # {} => Carries(q, c)

Turned(q, c) ==
    Left(q)' = {} /\ Stays /\ Door(c)

LEMMA KeepsOn ==
    ASSUME ProcType, NEW q \in Requests, Knows(q), NEW c, At(q, c), NEW m, Keeps(q, m)
    PROVE  /\ Others(q) /\ Op(q)' = Op(q) /\ clean' = clean
           /\ Left(q)' \subseteq Left(q) /\ Left(q) \subseteq Left(q)' \cup {c}
           /\ \A d \in Left(q)' : Precedes(Rank(c[1]), Rank(d[1]))
           /\ Left(q)' # {} => Mem(q)' = m
<1>1. PICK s : s = proc[q].todo
  OBVIOUS
<1>2. Listed(s) /\ s # <<>> /\ c = Head(s)
  BY <1>1 DEF Knows, At
<1>3. /\ Listed(Tail(s)) /\ CallsOf(Tail(s)) \subseteq CallsOf(s)
      /\ CallsOf(s) \subseteq CallsOf(Tail(s)) \cup {Head(s)}
      /\ \A d \in CallsOf(Tail(s)) : Precedes(Rank(Head(s)[1]), Rank(d[1]))
  BY <1>2, TailCalls
<1>4. PICK n : n = IF Tail(s) = <<>> THEN NoMem ELSE m
  OBVIOUS
<1>5. proc' = [proc EXCEPT ![q] = [op |-> proc[q].op, todo |-> Tail(s), mem |-> n]] /\ clean' = clean
  BY <1>1, <1>4 DEF Keeps, Goes
<1>6. proc'[q] = [op |-> proc[q].op, todo |-> Tail(s), mem |-> n] /\ Others(q)
  BY <1>5 DEF ProcType, ReqsType, Others
<1>7. Op(q)' = Op(q) /\ Left(q)' = CallsOf(Tail(s)) /\ Left(q) = CallsOf(s) /\ Mem(q)' = n
  BY <1>1, <1>6 DEF Op, Left, Mem
<1>8. Left(q)' # {} => n = m
  BY <1>4, <1>7, NoCalls
<1> QED BY <1>2, <1>3, <1>5, <1>6, <1>7, <1>8

\* A call that is done, from the list's point of view.
LEMMA WalksOn ==
    ASSUME ContentInv, NEW q \in Requests, NEW c, At(q, c), Walks(q, c)
    PROVE  /\ c \in Left(q) /\ c \in AllCalls /\ Op(q) # "none"
           /\ Others(q) /\ Op(q)' = Op(q) /\ clean' = clean /\ Left(q)' \subseteq Left(q)
           /\ Turned(q, c) \/ OnWith(q, c)
<1>1. ProcType /\ Knows(q)
  BY DEF ContentInv
<1>2. c \in Left(q) /\ c \in AllCalls /\ Op(q) # "none"
  BY <1>1, AtCall
<1>3. ASSUME NEW m, Keeps(q, m), Left(q)' # {} /\ Mem(q)' = m => Carries(q, c)
      PROVE  /\ Others(q) /\ Op(q)' = Op(q) /\ clean' = clean /\ Left(q)' \subseteq Left(q)
             /\ OnWith(q, c)
  <2>1. /\ Others(q) /\ Op(q)' = Op(q) /\ clean' = clean
        /\ Left(q)' \subseteq Left(q) /\ Left(q) \subseteq Left(q)' \cup {c}
        /\ \A d \in Left(q)' : Precedes(Rank(c[1]), Rank(d[1]))
        /\ Left(q)' # {} => Mem(q)' = m
    BY <1>1, <1>3, KeepsOn
  <2> QED BY <1>3, <2>1 DEF OnWith
<1>4. CASE Ends(q) /\ Stays /\ Door(c)
  <2>1. Ended(q) /\ clean' = clean
    BY <1>1, <1>4, EndsMoves DEF Ends, Goes
  <2> QED BY <1>2, <1>4, <2>1 DEF Ended, Turned
<1>5. CASE c[1] \notin Getters \cup {"slug", "number", "getStatus"} /\ Proceeds(q)
  <2>1. PICK m : m = Mem(q)
    OBVIOUS
  <2>2. Keeps(q, m)
    BY <1>5, <2>1 DEF Proceeds, Mem
  <2>3. Left(q)' # {} /\ Mem(q)' = m => Carries(q, c)
    BY <1>5, <2>1 DEF Carries
  <2> QED BY <1>2, <1>3, <2>2, <2>3
<1>6. CASE c[1] \in Getters /\ \E r : Keeps(q, [Mem(q) EXCEPT !.held = r])
  <2>1. PICK r : Keeps(q, [Mem(q) EXCEPT !.held = r])
    BY <1>6
  <2>2. PICK m : m = [Mem(q) EXCEPT !.held = r]
    OBVIOUS
  <2>3. Left(q)' # {} /\ Mem(q)' = m => Carries(q, c)
    BY <1>6, <2>2 DEF Carries
  <2> QED BY <1>2, <1>3, <2>1, <2>2, <2>3
<1>7. CASE c[1] \in {"slug", "number"} /\ \E n : Keeps(q, [Mem(q) EXCEPT !.number = n])
  <2>1. PICK r : Keeps(q, [Mem(q) EXCEPT !.number = r])
    BY <1>7
  <2>2. PICK m : m = [Mem(q) EXCEPT !.number = r]
    OBVIOUS
  <2>3. Left(q)' # {} /\ Mem(q)' = m => Carries(q, c)
    BY <1>7, <2>2 DEF Carries, Getters
  <2> QED BY <1>2, <1>3, <2>1, <2>2, <2>3
<1>8. CASE c[1] = "getStatus" /\ \E f : Keeps(q, [Mem(q) EXCEPT !.from = f])
  <2>1. PICK r : Keeps(q, [Mem(q) EXCEPT !.from = r])
    BY <1>8
  <2>2. PICK m : m = [Mem(q) EXCEPT !.from = r]
    OBVIOUS
  <2>3. Left(q)' # {} /\ Mem(q)' = m => Carries(q, c)
    BY <1>8, <2>2 DEF Carries, Getters
  <2> QED BY <1>2, <1>3, <2>1, <2>2, <2>3
<1> QED BY <1>4, <1>5, <1>6, <1>7, <1>8 DEF Walks

(***************************************************************************)
(* A call of the only request that is busy.                                *)
(***************************************************************************)
LEMMA RowLeft ==
    ASSUME NEW q \in Requests, Knows(q), NEW d, d \in Left(q), d[2] \in Tables,
           d[1] \notin {"getStatus", "deploy"}
    PROVE  RowKnown(q, Left(q), Mem(q))
<1>1. ~NumberKnown(q, Left(q), Mem(q))
  BY TablesApart DEF NumberKnown, NumberCalls
<1>2. ~DeployKnown(Left(q), Mem(q))
  BY DEF DeployKnown, DeployCalls
<1> QED BY <1>1, <1>2 DEF Knows

LEMMA NumberLeft ==
    ASSUME NEW q \in Requests, Knows(q), NEW d, d \in Left(q), d[2] = "component"
    PROVE  NumberKnown(q, Left(q), Mem(q))
<1>1. ~RowKnown(q, Left(q), Mem(q))
  BY TablesApart DEF RowKnown, RowCalls
<1>2. ~DeployKnown(Left(q), Mem(q))
  BY DEF DeployKnown, DeployCalls
<1> QED BY <1>1, <1>2 DEF Knows

LEMMA DeployLeft ==
    ASSUME NEW q \in Requests, Knows(q), NEW d, d \in Left(q), d[1] = "deploy", d[2] = "version"
    PROVE  DeployKnown(Left(q), Mem(q))
<1>1. ~RowKnown(q, Left(q), Mem(q))
  BY DEF RowKnown, RowCalls
<1>2. ~NumberKnown(q, Left(q), Mem(q))
  BY DEF NumberKnown, NumberCalls
<1> QED BY <1>1, <1>2 DEF Knows

\* The ranks of the calls that write.
LEMMA WriteRanks ==
    /\ \A c \in RowWrites : Rank(c[1]) \in {4, 5}
    /\ \A v \in Verbs : Rank(v) \in 1..6
    /\ \A v \in Getters : Rank(v) = 1
    /\ \A v \in Renews : Rank(v) \in {2, 3, 4}
<1>1. \A c \in RowWrites : Rank(c[1]) \in {4, 5}
  BY RankFacts DEF RowWrites
<1>2. \A v \in Verbs : Rank(v) \in 1..6
  BY DEF Rank
<1>3. \A v \in Getters : Rank(v) = 1
  BY RankFacts DEF Getters, Looks
<1>4. \A v \in Renews : Rank(v) \in {2, 3, 4}
  BY RankFacts DEF Renews, Prepares
<1> QED BY <1>1, <1>2, <1>3, <1>4

\* q does the call c, and nothing else is under way.
Plays(q, c) ==
    /\ ContentInv /\ q \in Requests /\ (\A p \in Requests : p # q => Left(p) = {})
    /\ At(q, c) /\ c \in Left(q) /\ c \in AllCalls /\ Op(q) # "none"
    /\ Others(q) /\ Op(q)' = Op(q) /\ Left(q)' \subseteq Left(q)
    /\ Turned(q, c) \/ OnWith(q, c)
    /\ Foot(q, c) /\ RowDeed(q, c) /\ NoteDeed(q, c) /\ MlDeed(q, c)
    /\ Now(q)

\* The calls of a step of q before and after it, and what it held and holds.
Around(q, c, L, m, N, n) ==
    /\ L = Left(q) /\ m = Mem(q) /\ N = Left(q)' /\ n = Mem(q)'
    /\ c \in L /\ N \subseteq L /\ L \subseteq N \cup {c} /\ N # {}
    /\ \A d \in N : Precedes(Rank(c[1]), Rank(d[1]))
    /\ Rank(c[1]) \in 1..6
    /\ \A d \in N : Rank(d[1]) <= 4 => Rank(c[1]) < 4
    /\ Rank(c[1]) < 4 => rows' = rows
    /\ n.id = m.id
    /\ RowKnown(q, L, m) => /\ n.parent = m.parent /\ n.link = m.link /\ n.gives = m.gives
                            /\ n.file = m.file
                            /\ c[1] \notin Getters => n = m

LEMMA GoesOn ==
    ASSUME NEW q, NEW c, Plays(q, c), OnWith(q, c), Left(q)' # {}
    PROVE  Around(q, c, Left(q), Mem(q), Left(q)', Mem(q)')
<1>1. PICK L, m, N, n : L = Left(q) /\ m = Mem(q) /\ N = Left(q)' /\ n = Mem(q)'
  OBVIOUS
<1>2. /\ c \in L /\ N \subseteq L /\ L \subseteq N \cup {c} /\ N # {} /\ c \in AllCalls
      /\ \A d \in N : Precedes(Rank(c[1]), Rank(d[1]))
  BY <1>1 DEF Plays, OnWith
<1>3. Rank(c[1]) \in 1..6
  BY <1>2, WriteRanks DEF AllCalls
<1>4. \A d \in N : Rank(d[1]) <= 4 => Rank(c[1]) < 4
  <2>1. \A d \in N : Rank(d[1]) \in 1..6
    BY <1>1, WriteRanks DEF Plays, ContentInv, Knows, RowKnown, RowCalls, NumberKnown, NumberCalls, DeployKnown, DeployCalls, Verbs, MlVerbs
  <2> QED BY <1>2, <1>3, <2>1 DEF Precedes
<1>5. Rank(c[1]) < 4 => rows' = rows
  BY <1>3, WriteRanks DEF Plays, Foot
<1>6. /\ c[1] \in Getters => \E r : n = [m EXCEPT !.held = r]
      /\ c[1] \in {"slug", "number"} => \E r : n = [m EXCEPT !.number = r]
      /\ c[1] = "getStatus" => \E r : n = [m EXCEPT !.from = r]
      /\ c[1] \notin Getters \cup {"slug", "number", "getStatus"} => n = m
  BY <1>1, <1>2 DEF OnWith, Carries, Getters
<1>7. RowKnown(q, L, m) \/ NumberKnown(q, L, m) \/ DeployKnown(L, m)
  BY <1>1, <1>2 DEF Plays, ContentInv, Knows
<1>8. n.id = m.id
  BY <1>6, <1>7 DEF RowKnown, NumberKnown, DeployKnown, RowMemory, NumberMemory, DeployMemory
<1>9. ASSUME RowKnown(q, L, m)
      PROVE  /\ n.parent = m.parent /\ n.link = m.link /\ n.gives = m.gives /\ n.file = m.file
             /\ c[1] \notin Getters => n = m
  <2>1. m \in RowMemory /\ c \in RowCalls
    BY <1>2, <1>9 DEF RowKnown
  <2>2. c[1] \notin {"slug", "number", "getStatus"}
    BY <2>1, TablesApart DEF Plays, RowDeed, RowCalls
  <2>3. CASE c[1] \in Getters
    BY <1>6, <2>1, <2>3 DEF RowMemory
  <2> QED BY <1>6, <2>2, <2>3
<1> QED BY <1>1, <1>2, <1>3, <1>4, <1>5, <1>8, <1>9 DEF Around

\* The row that was read is the one that is there.
LEMMA GotRow ==
    ASSUME NEW q, NEW c, Plays(q, c), Left(q)' # {}, c[1] \in Getters, c[2] \in Tables \ {"canvas"}
    PROVE  /\ Live(c[2], Mem(q).id) /\ rows' = rows
           /\ Mem(q)' = [Mem(q) EXCEPT !.held = rows[<<c[2], Mem(q).id>>]]
           /\ c[1] = "getManual" => rows[<<c[2], Mem(q).id>>].ref = Null
           /\ c[1] = "getTags" => c[2] = "experiment" /\ OnlyTags(Mem(q), rows[<<c[2], Mem(q).id>>])
<1>1. PICK t, m, k : t = c[2] /\ m = Mem(q) /\ k = <<t, m.id>>
  OBVIOUS
<1>2. ProcType /\ Knows(q) /\ q \in Requests /\ At(q, c) /\ RowDeed(q, c) /\ MlDeed(q, c)
  BY DEF Plays, ContentInv
<1>3. ~Ends(q)
  BY <1>2, EndsMoves DEF Ended
<1>4. ASSUME NEW r, Keeps(q, r) PROVE Mem(q)' = r
  BY <1>2, <1>4, KeepsOn
<1>5. CASE c[1] = "get"
  <2>1. Gets(q, t)
    BY <1>1, <1>2, <1>5 DEF RowDeed
  <2>2. Live(t, m.id) /\ Keeps(q, [m EXCEPT !.held = rows[k]]) /\ rows' = rows
    BY <1>1, <1>3, <2>1 DEF Gets, rowVars
  <2> QED BY <1>1, <1>4, <1>5, <2>2
<1>6. CASE c[1] = "getManual"
  <2>1. GetsManual(q, t)
    BY <1>1, <1>2, <1>6 DEF RowDeed
  <2>2. Live(t, m.id) /\ rows[k].ref = Null /\ Keeps(q, [m EXCEPT !.held = rows[k]]) /\ rows' = rows
    BY <1>1, <1>3, <2>1 DEF GetsManual, rowVars, Synced
  <2> QED BY <1>1, <1>4, <1>6, <2>2
<1>7. CASE c[1] = "getTags"
  <2>1. GetsTags(q)
    BY <1>1, <1>2, <1>7 DEF MlDeed
  <2>2. t = "experiment"
    BY <1>1, <1>2, <2>1 DEF GetsTags, At
  <2>3. Live(t, m.id) /\ OnlyTags(m, rows[k]) /\ Keeps(q, [m EXCEPT !.held = rows[k]]) /\ rows' = rows
    BY <1>1, <1>3, <2>1, <2>2 DEF GetsTags, rowVars
  <2> QED BY <1>1, <1>4, <1>7, <2>2, <2>3
<1>8. c[1] # "getCanvas"
  BY <1>2 DEF RowDeed
<1> QED BY <1>5, <1>6, <1>7, <1>8 DEF Getters

\* A request that has looked at a row goes on with calls about its table.
LEMMA SameTable ==
    ASSUME NEW q, NEW L, NEW m, RowKnown(q, L, m), NEW c \in L, NEW d \in L,
           c[1] \notin {"ensure", "ensureIf"}, d[1] \notin {"ensure", "ensureIf"}
    PROVE  c[2] = d[2] /\ c[2] \in Tables
BY DEF RowKnown, OneTable

LEMMA ReadNext ==
    ASSUME NEW q, NEW c, Plays(q, c), OnWith(q, c), Left(q)' # {}
    PROVE  ReadNow(Left(q), Mem(q))' /\ HandNow(Left(q), Mem(q))'
<1>1. PICK L, m, N, n : L = Left(q) /\ m = Mem(q) /\ N = Left(q)' /\ n = Mem(q)'
  OBVIOUS
<1>2. Around(q, c, L, m, N, n)
  BY <1>1, GoesOn
<1>3. q \in Requests /\ Knows(q) /\ Planned(L) /\ ReadNow(L, m) /\ HandNow(L, m)
  BY <1>1 DEF Plays, ContentInv, Now
<1>4. ASSUME NEW d \in N, NoGetter(N), d[1] \in Renews, d[2] \in Tables \ {"canvas"}
      PROVE  /\ rows' = rows /\ RowKnown(q, L, m)
             /\ \/ NoGetter(L) /\ n = m
                \/ /\ c[1] \in Getters /\ c[2] = d[2]
                   /\ Live(d[2], m.id) /\ n = [m EXCEPT !.held = rows[<<d[2], m.id>>]]
                   /\ c[1] = "getManual" => rows[<<d[2], m.id>>].ref = Null
                   /\ c[1] = "getTags" => OnlyTags(m, rows[<<d[2], m.id>>])
  <2>1. RowKnown(q, L, m)
    BY <1>1, <1>2, <1>3, <1>4, RowLeft DEF Around, Renews
  <2>2. Rank(d[1]) <= 4
    BY <1>4, WriteRanks
  <2>3. rows' = rows
    BY <1>2, <1>4, <2>2 DEF Around
  <2>4. CASE c[1] \in Getters
    <3>1. c[2] = d[2]
      BY <1>2, <1>4, <2>1, <2>4, SameTable DEF Around, Renews, Getters
    <3> QED BY <1>1, <1>2, <1>4, <2>1, <2>3, <2>4, <3>1, GotRow DEF Around
  <2>5. CASE c[1] \notin Getters
    BY <1>2, <1>4, <2>1, <2>3, <2>5 DEF Around, NoGetter
  <2> QED BY <2>4, <2>5
<1>5. \A t \in HandSaved \cup {"experiment"} : t \in Tables \ {"canvas"}
  BY MlTablesKnown DEF HandSaved
<1>6. ASSUME NEW d \in N, NoGetter(N), d[1] \in Renews, d[2] \in Tables \ {"canvas"}
      PROVE  Live(d[2], n.id)' /\ n.held = rows'[<<d[2], n.id>>]
  <2>1. /\ rows' = rows /\ RowKnown(q, L, m)
        /\ \/ NoGetter(L) /\ n = m
           \/ Live(d[2], m.id) /\ n = [m EXCEPT !.held = rows[<<d[2], m.id>>]]
    BY <1>4, <1>6
  <2>2. d \in L /\ m \in RowMemory
    BY <1>2, <2>1 DEF Around, RowKnown
  <2>3. Live(d[2], m.id) /\ n.held = rows[<<d[2], m.id>>] /\ n.id = m.id
    BY <1>3, <1>6, <2>1, <2>2 DEF ReadNow, RowMemory
  <2> QED BY <2>1, <2>3 DEF Live
<1>7. ASSUME NEW t \in HandSaved, <<"save", t>> \in N, NoGetter(N) PROVE n.held.ref = Null
  <2>1. PICK d : d = <<"save", t>>
    OBVIOUS
  <2>2. /\ rows' = rows /\ RowKnown(q, L, m) /\ d \in L
        /\ \/ NoGetter(L) /\ n = m
           \/ /\ c[1] \in Getters /\ n = [m EXCEPT !.held = rows[<<t, m.id>>]]
              /\ c[1] = "getManual" => rows[<<t, m.id>>].ref = Null
    BY <1>2, <1>4, <1>5, <1>7, <2>1 DEF Renews, Around
  <2>3. CASE NoGetter(L) /\ n = m
    BY <1>3, <2>1, <2>2, <2>3 DEF HandNow
  <2>4. CASE c[1] \in Getters /\ n = [m EXCEPT !.held = rows[<<t, m.id>>]]
    <3>1. c[1] = "getManual"
      BY <1>2, <1>3, <2>1, <2>2, <2>4 DEF Planned, Around
    <3>2. PICK w : w = rows[<<t, m.id>>]
      OBVIOUS
    <3>3. m \in RowMemory /\ n = [m EXCEPT !.held = w] /\ w.ref = Null
      BY <1>2, <2>2, <2>4, <3>1, <3>2 DEF RowKnown, NoGetter, Around
    <3> QED BY <3>3 DEF RowMemory
  <2> QED BY <2>2, <2>3, <2>4
<1>8. ASSUME <<"saveExperiment", "experiment">> \in N, NoGetter(N) PROVE OnlyTags(n, n.held)
  <2>1. PICK d : d = <<"saveExperiment", "experiment">>
    OBVIOUS
  <2>2. /\ rows' = rows /\ RowKnown(q, L, m) /\ d \in L
        /\ \/ NoGetter(L) /\ n = m
           \/ /\ c[1] \in Getters /\ n = [m EXCEPT !.held = rows[<<"experiment", m.id>>]]
              /\ c[1] = "getTags" => OnlyTags(m, rows[<<"experiment", m.id>>])
    BY <1>2, <1>4, <1>5, <1>8, <2>1 DEF Renews, Around
  <2>3. CASE NoGetter(L) /\ n = m
    BY <1>3, <2>1, <2>2, <2>3 DEF HandNow
  <2>4. CASE c[1] \in Getters /\ n = [m EXCEPT !.held = rows[<<"experiment", m.id>>]]
    <3>1. c[1] = "getTags"
      BY <1>2, <1>3, <2>1, <2>2, <2>4 DEF Planned, Around
    <3>2. PICK w : w = rows[<<"experiment", m.id>>]
      OBVIOUS
    <3>3. m \in RowMemory /\ n = [m EXCEPT !.held = w] /\ OnlyTags(m, w)
      BY <1>2, <2>2, <2>4, <3>1, <3>2 DEF RowKnown, NoGetter, Around
    <3>4. n.held = w /\ n.gives = m.gives /\ n.link = m.link
      BY <3>3 DEF RowMemory
    <3> QED BY <3>3, <3>4 DEF OnlyTags
  <2> QED BY <2>2, <2>3, <2>4
<1> QED BY <1>1, <1>6, <1>7, <1>8 DEF ReadNow, HandNow, NoGetter

LEMMA UnderNext ==
    ASSUME NEW q, NEW c, Plays(q, c), OnWith(q, c), Left(q)' # {}
    PROVE  UnderNow(q, Left(q), Mem(q))'
<1>1. PICK L, m, N, n : L = Left(q) /\ m = Mem(q) /\ N = Left(q)' /\ n = Mem(q)'
  OBVIOUS
<1>2. Around(q, c, L, m, N, n)
  BY <1>1, GoesOn
<1>3. q \in Requests /\ Knows(q) /\ ProcType /\ Staged(L) /\ UnderNow(q, L, m) /\ RowDeed(q, c) /\ Foot(q, c)
  BY <1>1 DEF Plays, ContentInv, Now
<1>4. ~Ends(q)
  BY <1>1, <1>2, <1>3, EndsMoves DEF Ended, Around
<1>5. Rank("insert") = 4 /\ Rank("firstVersion") = 5
  BY RankFacts
<1>6. ASSUME NEW t \in Tables, <<"insert", t>> \in N
      PROVE  /\ rows' = rows /\ n.parent = m.parent /\ n.link = m.link
             /\ \A u : Live(u, n.parent)' <=> Live(u, m.parent)
             /\ \A u : Live(u, n.link)' <=> Live(u, m.link)
  <2>1. RowKnown(q, L, m)
    BY <1>1, <1>2, <1>3, <1>6, RowLeft DEF Around
  <2>2. rows' = rows /\ n.parent = m.parent /\ n.link = m.link
    BY <1>2, <1>5, <1>6, <2>1 DEF Around
  <2> QED BY <2>2 DEF Live
<1>7. /\ \A t : c = <<"ensure", t>> => Live(t, m.parent)
      /\ \A t : c = <<"ensureIf", t>> => m.link = Null \/ Live(t, m.link)
  BY <1>1, <1>3, <1>4 DEF RowDeed, Ensures, EnsuresIf
<1>8. \A t \in Owned \cup Linked : t \in Tables
  BY MlTablesKnown DEF Owned, Linked
<1>9. ASSUME NEW t \in Owned, <<"insert", t>> \in N
      PROVE  <<"ensure", Over(t)>> \in N \/ Live(Over(t), n.parent)'
  BY <1>2, <1>3, <1>6, <1>7, <1>8, <1>9 DEF UnderNow, Around
<1>10. ASSUME NEW t \in Linked, <<"insert", t>> \in N
       PROVE  <<"ensureIf", "version">> \in N \/ n.link = Null \/ Live("version", n.link)'
  BY <1>2, <1>3, <1>6, <1>7, <1>8, <1>10 DEF UnderNow, Around
<1>11. ASSUME <<"firstVersion", "model">> \in N
       PROVE  <<"insert", "model">> \in N \/ Live("model", q)'
  <2>1. CASE <<"insert", "model">> \in L
    <3>1. CASE c = <<"insert", "model">>
      <4>1. RowKnown(q, L, m)
        BY <1>1, <1>3, <2>1, RowLeft, MlTablesKnown
      <4>2. m.id = q
        BY <2>1, <4>1 DEF RowKnown, NewRowKnown
      <4>3. rows' = With(rows, <<"model", q>>, NewRow(m, q))
        BY <1>1, <1>3, <3>1, <4>2 DEF RowDeed, Inserts
      <4> QED BY <4>3 DEF Live, With, NewRow
    <3> QED BY <1>2, <2>1, <3>1 DEF Around
  <2>2. CASE <<"insert", "model">> \notin L
    <3>1. Live("model", q) /\ \A d \in L : Rank(d[1]) > 4
      BY <1>2, <1>3, <1>5, <1>11, <2>2 DEF UnderNow, Staged, After, Around
    <3>2. Rank(c[1]) > 4 /\ c # <<"firstVersion", "model">>
      BY <1>2, <1>5, <1>11, <3>1 DEF Around, Precedes
    <3>3. c \notin RowWrites
      BY <3>2, RankFacts DEF RowWrites
    <3> QED BY <1>3, <3>1, <3>3 DEF Foot, Live
  <2> QED BY <2>1, <2>2
<1> QED BY <1>1, <1>9, <1>10, <1>11 DEF UnderNow

LEMMA ImageNext ==
    ASSUME NEW q, NEW c, Plays(q, c), OnWith(q, c), Left(q)' # {}, ImageInv
    PROVE  ImageNow(Left(q), Mem(q))'
<1>1. PICK L, m, N, n : L = Left(q) /\ m = Mem(q) /\ N = Left(q)' /\ n = Mem(q)'
  OBVIOUS
<1>2. Around(q, c, L, m, N, n)
  BY <1>1, GoesOn
<1>3. /\ q \in Requests /\ Knows(q) /\ ProcType /\ Planned(L) /\ Staged(L) /\ ImageNow(L, m) /\ ReadNow(L, m)
      /\ NoteDeed(q, c) /\ Foot(q, c) /\ \A p \in Requests : p # q => Left(p) = {}
  BY <1>1 DEF Plays, ContentInv, Now
<1>4. ~Ends(q)
  BY <1>1, <1>2, <1>3, EndsMoves DEF Ended, Around
<1>5. /\ \A w \in FrameWrites : Rank(w[1]) = 4 /\ w[2] = "frame" /\ w[1] \notin {"getStatus", "deploy"}
      /\ Rank("resolve") = 2 /\ "frame" \in Tables
  BY RankFacts DEF FrameWrites, Prepares, Tables, MapTables
<1>6. ASSUME NEW w \in FrameWrites, w \in N
      PROVE  /\ rows' = rows /\ n.file = m.file /\ n.id = m.id /\ RowKnown(q, L, m) /\ w \in L
             /\ c[1] \notin Getters => n = m
  <2>1. RowKnown(q, L, m)
    BY <1>1, <1>2, <1>3, <1>5, <1>6, RowLeft DEF Around
  <2> QED BY <1>2, <1>5, <1>6, <2>1 DEF Around
<1>7. ASSUME <<"insert", "frame">> \in N PROVE n.held = Null
  <2>1. <<"insert", "frame">> \in FrameWrites
    BY DEF FrameWrites
  <2>2. <<"insert", "frame">> \in L /\ (c[1] \notin Getters => n = m)
    BY <1>6, <1>7, <2>1
  <2>3. c[1] \notin Getters
    BY <1>2, <1>3, <2>2 DEF Planned, Around
  <2> QED BY <1>3, <2>2, <2>3 DEF ImageNow
<1>8. ASSUME NEW w \in FrameWrites, w \in N, <<"resolve", "frame">> \notin N, n.file \in Shots
      PROVE  files'[<<"frame", n.id>>] = n.file
  <2>1. PICK k : k = <<"frame", m.id>>
    OBVIOUS
  <2>2. /\ rows' = rows /\ n.file = m.file /\ n.id = m.id /\ RowKnown(q, L, m) /\ w \in L
    BY <1>6, <1>8
  <2>3. m.file # Null /\ m.file # Asset
    BY <1>8, <2>2, RowsAssumption
  <2>4. CASE <<"resolve", "frame">> \in L
    <3>1. c = <<"resolve", "frame">>
      BY <1>2, <1>8, <2>4 DEF Around
    <3>2. ResolveScreenshotAsset(q)
      BY <1>3, <3>1 DEF NoteDeed
    <3>3. CASE SameScreenshot(m)
      <4>1. files' = files /\ m.held # Null /\ m.held.file = m.file
        BY <1>1, <2>3, <3>2, <3>3 DEF ResolveScreenshotAsset, SameScreenshot
      <4>2. NoGetter(L)
        BY <1>2, <1>5, <3>1, WriteRanks DEF NoGetter, Around, Precedes, Getters
      <4>3. w \in {<<"save", "frame">>, <<"saveAll", "frame">>}
        BY <1>3, <2>2, <4>1 DEF ImageNow, FrameWrites
      <4>4. Live("frame", m.id) /\ m.held = rows[k]
        BY <1>3, <1>5, <2>1, <2>2, <4>2, <4>3 DEF ReadNow, Renews
      <4>5. \A p \in Requests : ~Redraws(p, m.id)
        BY <1>1, <1>3, <2>4 DEF Redraws
      <4>6. files[k] = m.file
        BY <1>8, <2>1, <2>2, <4>1, <4>4, <4>5 DEF ImageInv, Live
      <4> QED BY <2>1, <2>2, <4>1, <4>6
    <3>4. CASE ~SameScreenshot(m)
      <4>1. files' = With(files, k, m.file)
        BY <1>1, <2>1, <2>3, <3>2, <3>4 DEF ResolveScreenshotAsset, UploadScreenshot
      <4> QED BY <2>1, <2>2, <4>1 DEF With
    <3> QED BY <3>3, <3>4
  <2>5. CASE <<"resolve", "frame">> \notin L
    <3>1. L \cap FrameWrites # {}
      BY <1>8, <2>2
    <3>2. files[k] = m.file /\ \A d \in L : Rank(d[1]) > 2
      BY <1>3, <1>5, <1>8, <2>1, <2>2, <2>5, <3>1 DEF ImageNow, Staged, After
    <3>3. c[1] \notin {"ensure", "ensureIf"} /\ w[1] \notin {"ensure", "ensureIf"}
      BY <1>2, <1>5, <3>2, RankFacts DEF Around, Looks
    <3>4. c[2] = "frame"
      BY <1>2, <1>5, <2>2, <3>3, SameTable DEF Around
    <3>5. c \notin FileWrites
      BY <1>2, <2>5, <3>4 DEF FileWrites, Around
    <3> QED BY <1>3, <2>1, <2>2, <3>2, <3>5 DEF Foot
  <2> QED BY <2>4, <2>5
<1>9. N \cap FrameWrites # {} => \E w \in FrameWrites : w \in N
  OBVIOUS
<1> QED BY <1>1, <1>7, <1>8, <1>9 DEF ImageNow

LEMMA DocNext ==
    ASSUME NEW q, NEW c, Plays(q, c), OnWith(q, c), Left(q)' # {}
    PROVE  DocNow(q, Left(q), Mem(q))'
<1>1. PICK L, m, N, n : L = Left(q) /\ m = Mem(q) /\ N = Left(q)' /\ n = Mem(q)'
  OBVIOUS
<1>2. Around(q, c, L, m, N, n)
  BY <1>1, GoesOn
<1>3. /\ q \in Requests /\ Knows(q) /\ ProcType /\ DocNow(q, L, m) /\ NoteDeed(q, c) /\ Foot(q, c)
  BY <1>1 DEF Plays, ContentInv, Now
<1>4. SUFFICES ASSUME NEW d \in DocCalls, d \in N
               PROVE  /\ n.file \in {q, Asset, Null}
                      /\ n.file = q => <<"store", "doc">> \in N \/ <<"doc", q>> \in DOMAIN files'
                      /\ N \cap DocWrites # {} /\ n.file = q =>
                           \A k \in DOMAIN rows' : k[1] = "doc" => rows'[k].file # q
  <2>1. N \cap DocCalls # {} => \E d \in DocCalls : d \in N
    OBVIOUS
  <2> QED BY <1>1, <1>4, <2>1 DEF DocNow
<1>5. d \in L /\ d[2] = "doc" /\ "doc" \in Tables /\ d[1] \notin {"getStatus", "deploy"}
  BY <1>2, <1>4 DEF DocCalls, Around, Tables, NoteTables
<1>6. RowKnown(q, L, m)
  BY <1>1, <1>3, <1>5, RowLeft
<1>7. n.file = m.file /\ L \cap DocCalls # {}
  BY <1>2, <1>4, <1>5, <1>6 DEF Around
<1>8. n.file \in {q, Asset, Null}
  BY <1>3, <1>7 DEF DocNow
<1>9. ASSUME n.file = q PROVE <<"store", "doc">> \in N \/ <<"doc", q>> \in DOMAIN files'
  <2>1. CASE c = <<"store", "doc">>
    <3>1. files' = With(files, <<"doc", q>>, q)
      BY <1>1, <1>3, <1>7, <1>9, <2>1 DEF NoteDeed, ResolveDocContent
    <3> QED BY <3>1 DEF With
  <2>2. CASE c = <<"dropOld", "doc">> /\ <<"store", "doc">> \notin L
    <3>1. <<"doc", q>> \in DOMAIN files
      BY <1>3, <1>7, <1>9, <2>2 DEF DocNow
    <3>2. files' = files \/ (m.held.file # q /\ files' = Without(files, <<"doc", m.held.file>>))
      BY <1>1, <1>3, <1>7, <1>9, <2>2 DEF NoteDeed, DropOldAsset, DropsOld
    <3> QED BY <3>1, <3>2 DEF Without
  <2>3. CASE c \notin {<<"store", "doc">>, <<"dropOld", "doc">>} /\ <<"store", "doc">> \notin L
    <3>1. <<"doc", q>> \in DOMAIN files
      BY <1>3, <1>7, <1>9, <2>3 DEF DocNow
    <3>2. files' = files \/ c[2] \in {"frame", "artifact"}
      BY <1>3, <2>3 DEF Foot, FileWrites
    <3> QED BY <1>3, <3>1, <3>2 DEF Foot
  <2>4. CASE c # <<"store", "doc">> /\ <<"store", "doc">> \in L
    BY <1>2, <2>4 DEF Around
  <2> QED BY <2>1, <2>2, <2>3, <2>4
<1>10. ASSUME N \cap DocWrites # {}, n.file = q
       PROVE  \A k \in DOMAIN rows' : k[1] = "doc" => rows'[k].file # q
  <2>1. PICK w \in DocWrites : w \in N
    BY <1>10
  <2>2. Rank(w[1]) = 4
    BY RankFacts DEF DocWrites
  <2>3. rows' = rows /\ w \in L
    BY <1>2, <2>1, <2>2 DEF Around
  <2> QED BY <1>3, <1>7, <1>10, <2>1, <2>3 DEF DocNow
<1> QED BY <1>8, <1>9, <1>10

LEMMA ChatNext ==
    ASSUME NEW q, NEW c, Plays(q, c), OnWith(q, c), Left(q)' # {}
    PROVE  ChatNow(q, Left(q), Mem(q))'
<1>1. PICK L, m, N, n : L = Left(q) /\ m = Mem(q) /\ N = Left(q)' /\ n = Mem(q)'
  OBVIOUS
<1>2. Around(q, c, L, m, N, n)
  BY <1>1, GoesOn
<1>3. /\ q \in Requests /\ Knows(q) /\ NotesTypeOK /\ ChatNow(q, L, m) /\ NoteDeed(q, c) /\ Foot(q, c)
  BY <1>1 DEF Plays, ContentInv, Now
<1>4. SUFFICES ASSUME <<"touch", "chat">> \in N, <<"message", "chat">> \notin N
               PROVE  messages'[n.id] # <<>> /\ Last(messages'[n.id]) = q
  BY <1>1 DEF ChatNow, Last
<1>5. <<"touch", "chat">> \in L /\ "chat" \in Tables /\ n.id = m.id
  BY <1>2, <1>4 DEF Around, Tables, NoteTables
<1>6. RowKnown(q, L, m)
  BY <1>1, <1>3, <1>5, RowLeft
<1>7. CASE <<"message", "chat">> \in L
  <2>1. c = <<"message", "chat">>
    BY <1>2, <1>4, <1>7 DEF Around
  <2>2. m.id \in RowIds
    BY <1>6 DEF RowKnown, RowMemory
  <2>3. messages'[m.id] = Append(messages[m.id], q) /\ messages[m.id] \in Seq(Requests)
    BY <1>1, <1>3, <2>1, <2>2 DEF NoteDeed, CreateChatMessage, NotesTypeOK
  <2>4. messages'[m.id] # <<>> /\ Last(messages'[m.id]) = q
    BY <1>3, <2>3 DEF Last
  <2> QED BY <1>5, <2>4
<1>8. CASE <<"message", "chat">> \notin L
  <2>1. messages' = messages
    BY <1>2, <1>3, <1>8 DEF Foot, Around
  <2> QED BY <1>3, <1>5, <1>8, <2>1 DEF ChatNow
<1> QED BY <1>7, <1>8

LEMMA FieldsNext ==
    ASSUME NEW q, NEW c, Plays(q, c), OnWith(q, c), Left(q)' # {}
    PROVE  FieldsNow(q, Left(q), Mem(q))'
<1>1. PICK L, m, N, n : L = Left(q) /\ m = Mem(q) /\ N = Left(q)' /\ n = Mem(q)'
  OBVIOUS
<1>2. Around(q, c, L, m, N, n)
  BY <1>1, GoesOn
<1>3. /\ q \in Requests /\ ProcType /\ FieldsNow(q, L, m) /\ NoteDeed(q, c) /\ Foot(q, c)
  BY <1>1 DEF Plays, ContentInv, Now
<1>4. SUFFICES ASSUME <<"insertFields", "component">> \in N, <<"save", "component">> \notin N
               PROVE  n.id \in DOMAIN comps' /\ comps'[n.id].by = q
  BY <1>1 DEF FieldsNow
<1>5. <<"insertFields", "component">> \in L /\ n.id = m.id
  BY <1>2, <1>4 DEF Around
<1>6. CASE <<"save", "component">> \in L
  <2>1. c = <<"save", "component">>
    BY <1>2, <1>4, <1>6 DEF Around
  <2>2. ~Ends(q)
    BY <1>1, <1>2, <1>3, EndsMoves DEF Ended, Around
  <2>3. comps' = With(comps, m.id, [slug |-> m.number, by |-> q])
    BY <1>1, <1>3, <2>1, <2>2 DEF NoteDeed, SaveCustomComponent
  <2> QED BY <1>5, <2>3 DEF With
<1>7. CASE <<"save", "component">> \notin L
  <2>1. Rank("insertFields") = 6 /\ Rank("delete") = 6
    BY RankFacts
  <2>2. c \notin {<<"save", "component">>, <<"delete", "component">>}
    BY <1>2, <1>4, <1>7, <2>1 DEF Around, Precedes
  <2>3. comps' = comps
    BY <1>3, <2>2 DEF Foot
  <2> QED BY <1>3, <1>5, <1>7, <2>3 DEF FieldsNow
<1> QED BY <1>6, <1>7

LEMMA DeployNext ==
    ASSUME NEW q, NEW c, Plays(q, c), OnWith(q, c), Left(q)' # {}
    PROVE  DeployNow(Left(q), Mem(q))'
<1>1. PICK L, m, N, n : L = Left(q) /\ m = Mem(q) /\ N = Left(q)' /\ n = Mem(q)'
  OBVIOUS
<1>2. Around(q, c, L, m, N, n)
  BY <1>1, GoesOn
<1>3. /\ q \in Requests /\ Knows(q) /\ ProcType /\ DeployNow(L, m) /\ MlDeed(q, c) /\ At(q, c)
  BY <1>1 DEF Plays, ContentInv, Now
<1>4. SUFFICES ASSUME <<"deploy", "version">> \in N, <<"getStatus", "version">> \notin N
               PROVE  n.from = DeploymentStatus(n.id)'
  BY <1>1 DEF DeployNow, DeploymentStatus
<1>5. <<"deploy", "version">> \in L /\ n.id = m.id
  BY <1>2, <1>4 DEF Around
<1>6. m \in DeployMemory /\ L \subseteq DeployCalls
  BY <1>1, <1>3, <1>5, DeployLeft DEF DeployKnown
<1>7. c # <<"deploy", "version">>
  BY <1>2, <1>4, RankFacts DEF Around, Precedes
<1>8. c = <<"getStatus", "version">>
  BY <1>2, <1>6, <1>7 DEF Around, DeployCalls
<1>9. ~Ends(q)
  BY <1>1, <1>2, <1>3, EndsMoves DEF Ended, Around
<1>10. Keeps(q, [m EXCEPT !.from = DeploymentStatus(m.id)]) /\ deployments' = deployments
  BY <1>1, <1>3, <1>8, <1>9 DEF MlDeed, CheckVersionTransition
<1>11. n = [m EXCEPT !.from = DeploymentStatus(m.id)]
  BY <1>1, <1>2, <1>3, <1>10, KeepsOn DEF Around
<1>12. PICK f : f = DeploymentStatus(m.id)
  OBVIOUS
<1>13. n.from = f
  BY <1>6, <1>11, <1>12 DEF DeployMemory
<1> QED BY <1>5, <1>10, <1>12, <1>13 DEF DeploymentStatus

\* q goes on, and what it relies on is still so.
LEMMA NowNext ==
    ASSUME NEW q, NEW c, Plays(q, c), ImageInv
    PROVE  Now(q)'
<1>1. PICK L, m, N, n : L = Left(q) /\ m = Mem(q) /\ N = Left(q)' /\ n = Mem(q)'
  OBVIOUS
<1>2. CASE Left(q)' = {}
  <2>1. Planned({}) /\ Staged({})
    BY DEF Planned, Staged, After
  <2>2. /\ ReadNow(Left(q), Mem(q))' /\ HandNow(Left(q), Mem(q))' /\ UnderNow(q, Left(q), Mem(q))'
        /\ ImageNow(Left(q), Mem(q))' /\ DocNow(q, Left(q), Mem(q))' /\ ChatNow(q, Left(q), Mem(q))'
        /\ FieldsNow(q, Left(q), Mem(q))' /\ DeployNow(Left(q), Mem(q))'
    BY <1>2 DEF ReadNow, HandNow, UnderNow, ImageNow, DocNow, ChatNow, FieldsNow, DeployNow
  <2>3. Planned(Left(q)') /\ Staged(Left(q)')
    BY <1>2, <2>1
  <2> QED BY <2>2, <2>3 DEF Now, Planned, Staged, After
<1>3. CASE Left(q)' # {}
  <2>1. OnWith(q, c)
    BY <1>3 DEF Plays, Turned
  <2>2. /\ ReadNow(Left(q), Mem(q))' /\ HandNow(Left(q), Mem(q))' /\ UnderNow(q, Left(q), Mem(q))'
        /\ ImageNow(Left(q), Mem(q))' /\ DocNow(q, Left(q), Mem(q))' /\ ChatNow(q, Left(q), Mem(q))'
        /\ FieldsNow(q, Left(q), Mem(q))' /\ DeployNow(Left(q), Mem(q))'
    BY <1>3, <2>1, ReadNext, UnderNext, ImageNext, DocNext, ChatNext, FieldsNext, DeployNext
  <2>3. Around(q, c, L, m, N, n)
    BY <1>1, <1>3, <2>1, GoesOn
  <2>4. Planned(L) /\ Staged(L)
    BY <1>1 DEF Plays, Now
  <2>5. Planned(N) /\ Staged(N)
    BY <2>3, <2>4, PlanKept DEF Around
  <2> QED BY <1>1, <2>2, <2>5 DEF Now
<1> QED BY <1>2, <1>3

(***************************************************************************)
(* What is written in several places.                                      *)
(***************************************************************************)
\* Nobody is turned away half way through what it writes.
LEMMA DoorShut ==
    ASSUME NEW q, NEW c, Plays(q, c), Turned(q, c), NEW d \in Left(q),
           d[2] \in {"frame", "doc", "chat", "model"}, d[1] \notin {"ensure", "ensureIf", "getStatus", "deploy"},
           \A e \in Left(q) : Rank(e[1]) > 2, d[2] = "model" => \A e \in Left(q) : Rank(e[1]) > 4
    PROVE  FALSE
<1>1. q \in Requests /\ Knows(q) /\ Door(c) /\ c \in Left(q)
  BY DEF Plays, ContentInv, Turned
<1>2. d[2] \in Tables
  BY DEF Tables, MapTables, NoteTables, MlTables
<1>3. RowKnown(q, Left(q), Mem(q))
  BY <1>1, <1>2, RowLeft
<1>4. /\ \A v \in Looks : Rank(v) = 1
      /\ Rank("resolve") = 2 /\ Rank("saveProject") = 4 /\ Rank("sync") = 4 /\ Rank("save") = 4
  BY RankFacts DEF Prepares
<1>5. c[1] \notin Looks /\ c # <<"resolve", "frame">>
  BY <1>1, <1>4
<1>6. c[2] = d[2]
  BY <1>1, <1>3, <1>5, SameTable DEF Looks
<1>7. c[2] \notin {"component", "project"}
  BY <1>6
<1>8. c \in {"sync"} \X MlTables
  BY <1>1, <1>5, <1>7 DEF Door
<1>9. c[2] = "model"
  BY <1>6, <1>8 DEF MlTables
<1> QED BY <1>1, <1>4, <1>6, <1>8, <1>9

\* What q is about to write stays so until it does.
LEMMA Excused ==
    ASSUME NEW q, NEW c, Plays(q, c), NEW i
    PROVE  /\ Redraws(q, i) => Redraws(q, i)' \/ c \in {<<"save", "frame">>, <<"saveAll", "frame">>}
           /\ Rewrites(q, i) => Rewrites(q, i)' \/ c = <<"save", "doc">>
           /\ Touches(q, i) => Touches(q, i)' \/ c = <<"touch", "chat">>
           /\ Refits(q, i) => Refits(q, i)' \/ c \in {<<"insertFields", "component">>, <<"delete", "component">>}
           /\ <<"firstVersion", "model">> \in Left(q) =>
                 \/ <<"firstVersion", "model">> \in Left(q)' \/ c = <<"firstVersion", "model">>
                 \/ <<"insert", "model">> \in Left(q)
<1>1. PICK L, m, N, n : L = Left(q) /\ m = Mem(q) /\ N = Left(q)' /\ n = Mem(q)'
  OBVIOUS
<1>2. /\ q \in Requests /\ Knows(q) /\ Staged(L) /\ N \subseteq L /\ c \in L
  BY <1>1 DEF Plays, ContentInv, Now
<1>3. /\ Rank("resolve") = 2 /\ Rank("dropOld") = 3 /\ Rank("message") = 2 /\ Rank("save") = 4
      /\ Rank("insert") = 4 /\ Rank("clearFields") = 5
      /\ \A v \in Looks : Rank(v) = 1
  BY RankFacts DEF Prepares
<1>4. CASE Turned(q, c)
  <2>1. ~Redraws(q, i)
    BY <1>1, <1>2, <1>3, <1>4, DoorShut DEF Redraws, Staged, After, FrameWrites
  <2>2. ~Rewrites(q, i)
    <3>1. Rewrites(q, i) => \A e \in L : Rank(e[1]) > 3
      BY <1>1, <1>2, <1>3 DEF Rewrites, Staged, After
    <3>2. Rewrites(q, i) => \A e \in L : Rank(e[1]) > 2
      BY <3>1 DEF Rank
    <3> QED BY <1>1, <1>4, <3>2, DoorShut DEF Rewrites
  <2>3. ~Touches(q, i)
    BY <1>1, <1>2, <1>3, <1>4, DoorShut DEF Touches, Staged, After
  <2>4. ASSUME Refits(q, i) PROVE c = <<"insertFields", "component">>
    <3>1. \A e \in L : Rank(e[1]) > 4
      BY <1>1, <1>2, <1>3, <2>4 DEF Refits, Staged, After, Rank
    <3>2. Rank("saveProject") = 4 /\ Rank("sync") = 4
      BY RankFacts
    <3> QED BY <1>2, <1>3, <1>4, <3>1, <3>2 DEF Turned, Door
  <2>5. ASSUME <<"firstVersion", "model">> \in L PROVE <<"insert", "model">> \in L
    <3>1. <<"insert", "model">> \notin L => \A e \in L : Rank(e[1]) > 4
      BY <1>2, <1>3, <2>5 DEF Staged, After
    <3>2. <<"insert", "model">> \notin L => \A e \in L : Rank(e[1]) > 2
      BY <3>1 DEF Rank
    <3> QED BY <1>1, <1>4, <2>5, <3>1, <3>2, DoorShut
  <2> QED BY <1>1, <2>1, <2>2, <2>3, <2>4, <2>5
<1>5. CASE OnWith(q, c)
  <2>1. \A e \in L : e # c => e \in N
    BY <1>1, <1>5 DEF OnWith
  <2>2. ASSUME N # {} PROVE n.id = m.id /\ (RowKnown(q, L, m) => n.file = m.file)
    BY <1>1, <1>5, <2>2, GoesOn DEF Around
  <2>3. \A e \in L : e[2] \in {"frame", "doc"} /\ e[1] \notin {"getStatus", "deploy"} => RowKnown(q, L, m)
    BY <1>1, <1>2, RowLeft DEF Tables, MapTables, NoteTables
  <2>4. Redraws(q, i) => Redraws(q, i)' \/ c \in {<<"save", "frame">>, <<"saveAll", "frame">>}
    BY <1>1, <1>2, <2>1, <2>2, <2>3 DEF Redraws
  <2>5. Rewrites(q, i) => Rewrites(q, i)' \/ c = <<"save", "doc">>
    BY <1>1, <1>2, <2>1, <2>2, <2>3 DEF Rewrites
  <2>6. Touches(q, i) => Touches(q, i)' \/ c = <<"touch", "chat">>
    BY <1>1, <1>2, <2>1, <2>2 DEF Touches
  <2>7. Refits(q, i) => Refits(q, i)' \/ c \in {<<"insertFields", "component">>, <<"delete", "component">>}
    BY <1>1, <1>2, <2>1, <2>2 DEF Refits
  <2> QED BY <1>1, <2>1, <2>4, <2>5, <2>6, <2>7
<1> QED BY <1>4, <1>5 DEF Plays

\* At a write of a row that was read, the row is as it was read.
LEMMA AtRenews ==
    ASSUME NEW q, NEW c, Plays(q, c), c[1] \in Renews, c[2] \in Tables \ {"canvas"}
    PROVE  /\ RowKnown(q, Left(q), Mem(q)) /\ Mem(q) \in RowMemory
           /\ OnWith(q, c) =>
                /\ NoGetter(Left(q)) /\ Live(c[2], Mem(q).id) /\ Mem(q).held = rows[<<c[2], Mem(q).id>>]
                /\ rows[<<c[2], Mem(q).id>>] \in Row
                /\ \A d \in Left(q) : d = c \/ Rank(d[1]) > Rank(c[1])
<1>1. PICK L, m : L = Left(q) /\ m = Mem(q)
  OBVIOUS
<1>2. /\ q \in Requests /\ Knows(q) /\ ReadNow(L, m) /\ c \in L /\ RowsTypeOK(Tables)
  BY <1>1 DEF Plays, ContentInv, Now
<1>3. RowKnown(q, L, m) /\ m \in RowMemory
  BY <1>1, <1>2, RowLeft DEF Renews, RowKnown
<1>4. Rank(c[1]) \in {2, 3, 4}
  BY WriteRanks
<1>5. ASSUME OnWith(q, c)
      PROVE  /\ NoGetter(L) /\ Live(c[2], m.id) /\ m.held = rows[<<c[2], m.id>>]
             /\ rows[<<c[2], m.id>>] \in Row /\ \A d \in L : d = c \/ Rank(d[1]) > Rank(c[1])
  <2>1. \A d \in L : d = c \/ Rank(d[1]) > Rank(c[1])
    BY <1>1, <1>4, <1>5 DEF OnWith, Precedes
  <2>2. NoGetter(L)
    BY <1>4, <2>1, WriteRanks DEF NoGetter
  <2> QED BY <1>2, <2>1, <2>2 DEF ReadNow, Live, RowsTypeOK
<1> QED BY <1>1, <1>3, <1>5

\* The files that rows name, after a step.
NamesFile(t, c) == c \in {<<"insert", t>>, <<"save", t>>} \cup FrameWrites

LEMMA FileRows ==
    ASSUME NEW q, NEW c, Plays(q, c), NEW t \in {"frame", "doc"}, NEW k \in DOMAIN rows', k[1] = t
    PROVE  \/ /\ k \in DOMAIN rows /\ rows'[k].file = rows[k].file
              /\ rows'[k].state = "live" => rows[k].state = "live"
              /\ c[2] = t /\ NamesFile(t, c) /\ k[2] = Mem(q).id => Mem(q).file = Null
           \/ /\ k = <<t, Mem(q).id>> /\ rows'[k].file = Mem(q).file /\ c[2] = t /\ NamesFile(t, c) /\ OnWith(q, c)
              /\ k \in DOMAIN rows => c[1] # "insert"
              /\ RowKnown(q, Left(q), Mem(q)) /\ \A d \in Left(q) : d = c \/ Rank(d[1]) > 4
<1>1. PICK L, m, x : L = Left(q) /\ m = Mem(q) /\ x = <<t, m.id>>
  OBVIOUS
<1>2. /\ q \in Requests /\ Knows(q) /\ c \in L /\ RowsTypeOK(Tables) /\ Foot(q, c) /\ RowDeed(q, c) /\ NoteDeed(q, c)
      /\ (Turned(q, c) \/ OnWith(q, c)) /\ t \in Tables \ {"canvas"} /\ t # "component"
  BY <1>1 DEF Plays, ContentInv, Tables, MapTables, NoteTables
<1>3. CASE ~NamesFile(t, c) \/ c[2] # t
  <2>1. CASE c = <<"remove", t>>
    <3>1. rows' = rows \/ (rows' = With(rows, x, [rows[x] EXCEPT !.state = "deleted"]) /\ x \in DOMAIN rows)
      BY <1>1, <1>2, <2>1 DEF RowDeed, Removes, Live
    <3>2. x \in DOMAIN rows => rows[x] \in Row
      BY <1>2 DEF RowsTypeOK
    <3>3. k \in DOMAIN rows /\ rows'[k].file = rows[k].file /\ (rows'[k].state = "live" => rows[k].state = "live")
      BY <3>1, <3>2 DEF With, Row
    <3> QED BY <1>3, <3>3
  <2>2. CASE c # <<"remove", t>>
    <3>1. rows' = rows \/ Made(c) # t
      BY <1>2, <1>3, <2>2 DEF Foot, RowWrites, Made, NamesFile, FrameWrites
    <3>2. k \in DOMAIN rows /\ rows'[k] = rows[k]
      BY <1>2, <3>1 DEF Foot
    <3> QED BY <1>3, <3>2
  <2> QED BY <2>1, <2>2
<1>4. CASE NamesFile(t, c) /\ c[2] = t
  <2>1. ~Turned(q, c) /\ OnWith(q, c) /\ Rank(c[1]) = 4
    BY <1>2, <1>4, RankFacts DEF NamesFile, FrameWrites, Turned, Door, Looks
  <2>2. \A d \in L : d = c \/ Rank(d[1]) > 4
    BY <1>1, <2>1 DEF OnWith, Precedes
  <2>3. CASE c[1] = "insert"
    <3>1. RowKnown(q, L, m) /\ m \in RowMemory
      BY <1>1, <1>2, <1>4, <2>3, RowLeft DEF RowKnown
    <3>2. m.id = q /\ x \notin DOMAIN rows
      BY <1>1, <1>2, <1>4, <2>3, <3>1 DEF RowKnown, NewRowKnown, Makers, Made
    <3>3. rows' = With(rows, x, NewRow(m, q))
      BY <1>1, <1>2, <1>4, <2>3 DEF RowDeed, Inserts
    <3>4. CASE k = x
      BY <1>1, <1>4, <2>1, <2>2, <3>1, <3>2, <3>3, <3>4 DEF With, NewRow
    <3>5. CASE k # x
      <4>1. k \in DOMAIN rows /\ rows'[k] = rows[k]
        BY <3>3, <3>5 DEF With
      <4>2. k[2] # m.id
        BY <1>1, <1>2, <3>5, <4>1 DEF RowsTypeOK
      <4> QED BY <1>1, <4>1, <4>2
    <3> QED BY <3>4, <3>5
  <2>4. CASE c[1] # "insert"
    <3>1. c[1] \in {"save", "saveAll"}
      BY <1>4, <2>4 DEF NamesFile, FrameWrites
    <3>2. /\ RowKnown(q, L, m) /\ m \in RowMemory /\ Live(t, m.id) /\ m.held = rows[x] /\ rows[x] \in Row
      BY <1>1, <1>2, <1>4, <2>1, <3>1, AtRenews DEF Renews
    <3>3. PICK r, u : /\ rows' = With(rows, x, r) /\ u \in SUBSET Columns
                      /\ r = Merged([m EXCEPT !.gives = u], q, t, rows[x])
      <4>1. CASE c[1] = "save"
        <5>1. rows' = With(rows, x, Merged(m, q, t, rows[x]))
          BY <1>1, <1>2, <1>4, <3>2, <4>1 DEF RowDeed, Saves
        <5>2. [m EXCEPT !.gives = m.gives] = m /\ m.gives \in SUBSET Columns
          BY <3>2 DEF RowMemory
        <5> QED BY <5>1, <5>2
      <4>2. CASE c[1] = "saveAll"
        <5>1. t = "frame"
          BY <1>4, <4>2 DEF NamesFile, FrameWrites
        <5>2. rows' = With(rows, x, Merged([m EXCEPT !.gives = Columns], q, t, rows[x]))
          BY <1>1, <1>2, <1>4, <3>2, <4>2, <5>1 DEF NoteDeed, SyncFrame
        <5> QED BY <5>2
      <4> QED BY <3>1, <4>1, <4>2
    <3>4. r.file = IF m.file # Null THEN m.file ELSE rows[x].file
      BY <3>2, <3>3 DEF Merged, Row, RowMemory
    <3>5. r.state = rows[x].state
      BY <3>2, <3>3 DEF Merged, Row, RowMemory
    <3>6. CASE k = x
      BY <1>1, <1>4, <2>1, <2>2, <2>4, <3>2, <3>3, <3>4, <3>5, <3>6 DEF With, Live
    <3>7. CASE k # x
      <4>1. k \in DOMAIN rows /\ rows'[k] = rows[k]
        BY <3>3, <3>7 DEF With
      <4>2. k[2] # m.id
        BY <1>1, <1>2, <3>7, <4>1 DEF RowsTypeOK
      <4> QED BY <1>1, <4>1, <4>2
    <3> QED BY <3>6, <3>7
  <2> QED BY <2>3, <2>4
<1> QED BY <1>3, <1>4

\* An excuse is one of the request that plays.
LEMMA OwnExcuse ==
    ASSUME NEW q, NEW c, Plays(q, c), NEW p \in Requests, NEW i,
           Redraws(p, i) \/ Rewrites(p, i) \/ Touches(p, i) \/ Refits(p, i)
    PROVE  p = q
<1>1. Left(p) # {}
  BY DEF Redraws, Rewrites, Touches, Refits
<1> QED BY <1>1 DEF Plays

LEMMA ImageKept ==
    ASSUME NEW q, NEW c, Plays(q, c), ImageInv
    PROVE  ImageInv'
<1>1. PICK L, m, N, n : L = Left(q) /\ m = Mem(q) /\ N = Left(q)' /\ n = Mem(q)'
  OBVIOUS
<1>2. /\ q \in Requests /\ Knows(q) /\ c \in L /\ RowsTypeOK(Tables) /\ Foot(q, c) /\ NoteDeed(q, c) /\ RowsInv
      /\ Planned(L) /\ ImageNow(L, m)
  BY <1>1 DEF Plays, ContentInv, Now
<1>3. /\ Rank("resolve") = 2 /\ "frame" \in Tables /\ ~Precedes(2, 2)
  BY RankFacts DEF Prepares, Tables, MapTables, Precedes
<1>4. SUFFICES ASSUME NEW k \in DOMAIN rows', k[1] = "frame", rows'[k].file \in Shots
               PROVE  files'[k] = rows'[k].file \/ Redraws(q, k[2])'
  <2>1. ASSUME NEW i, Redraws(q, i)' PROVE \E p \in Requests : Redraws(p, i)'
    BY <1>2, <2>1
  <2> QED BY <1>4, <2>1 DEF ImageInv
<1>5. CASE /\ k \in DOMAIN rows /\ rows'[k].file = rows[k].file
           /\ c[2] = "frame" /\ NamesFile("frame", c) /\ k[2] = m.id => m.file = Null
  <2>1. CASE Redraws(q, k[2])
    <3>1. m.file # Null /\ k[2] = m.id
      BY <1>1, <2>1, RowsAssumption DEF Redraws
    <3>2. c \notin {<<"save", "frame">>, <<"saveAll", "frame">>}
      BY <1>5, <3>1 DEF NamesFile, FrameWrites
    <3> QED BY <2>1, <3>2, Excused
  <2>2. CASE ~Redraws(q, k[2])
    <3>1. files[k] = rows[k].file /\ k \in DOMAIN files
      BY <1>2, <1>4, <1>5, <2>2, OwnExcuse DEF ImageInv, RowsInv, RowOK
    <3>2. CASE c = <<"resolve", "frame">>
      <4>1. PICK x : x = <<"frame", m.id>>
        OBVIOUS
      <4>2. ResolveScreenshotAsset(q)
        BY <1>2, <3>2 DEF NoteDeed
      <4>3. files' = files \/ (files' = With(files, x, m.file) /\ m.file # Null /\ m.file # Asset)
        BY <1>1, <4>1, <4>2 DEF ResolveScreenshotAsset, UploadScreenshot
      <4>4. CASE files' = files \/ k # x
        BY <1>5, <3>1, <4>3, <4>4 DEF With
      <4>5. CASE files' # files /\ k = x
        <5>1. OnWith(q, c)
          BY <4>5 DEF Plays, Turned, Stays
        <5>2. RowKnown(q, L, m)
          BY <1>1, <1>2, <1>3, <3>2, RowLeft
        <5>3. m.file \in Shots
          BY <1>2, <3>2, <4>3, <4>5, <5>2 DEF RowKnown, FrameKnown, FrameCalls
        <5>4. <<"insert", "frame">> \notin L
          BY <1>5, <4>1, <4>5, <5>2 DEF RowKnown, NewRowKnown, Makers, Made
        <5>5. PICK w \in {<<"save", "frame">>, <<"saveAll", "frame">>} : w \in L
          BY <1>2, <3>2, <5>4 DEF Planned, FrameWrites
        <5>6. w \in N /\ c \notin N
          BY <1>1, <1>3, <3>2, <5>1, <5>5 DEF OnWith
        <5>7. n.id = m.id /\ n.file = m.file
          BY <1>1, <5>1, <5>2, <5>6, GoesOn DEF Around
        <5> QED BY <1>1, <3>2, <4>1, <4>5, <5>3, <5>5, <5>6, <5>7 DEF Redraws
      <4> QED BY <4>4, <4>5
    <3>3. CASE c # <<"resolve", "frame">>
      <4>1. files' = files \/ c[2] # "frame"
        BY <1>2, <3>3 DEF Foot, FileWrites
      <4>2. files'[k] = files[k]
        BY <1>2, <1>4, <3>1, <4>1 DEF Foot
      <4> QED BY <1>5, <3>1, <4>2
    <3> QED BY <3>2, <3>3
  <2> QED BY <2>1, <2>2
<1>6. CASE /\ k = <<"frame", m.id>> /\ rows'[k].file = m.file /\ c[2] = "frame" /\ NamesFile("frame", c)
           /\ \A d \in L : d = c \/ Rank(d[1]) > 4
  <2>1. c \in FrameWrites /\ c # <<"resolve", "frame">>
    BY <1>6 DEF NamesFile, FrameWrites
  <2>2. <<"resolve", "frame">> \notin L
    BY <1>3, <1>6, <2>1
  <2>3. files[k] = m.file
    BY <1>2, <1>4, <1>6, <2>1, <2>2 DEF ImageNow
  <2>4. c \notin FileWrites
    BY <2>1 DEF FrameWrites, FileWrites
  <2> QED BY <1>2, <1>6, <2>3, <2>4 DEF Foot
<1> QED BY <1>1, <1>4, <1>5, <1>6, FileRows

LEMMA DocKept ==
    ASSUME NEW q, NEW c, Plays(q, c), DocInv
    PROVE  DocInv'
<1>1. PICK L, m, N, n : L = Left(q) /\ m = Mem(q) /\ N = Left(q)' /\ n = Mem(q)'
  OBVIOUS
<1>2. /\ q \in Requests /\ Knows(q) /\ c \in L /\ RowsTypeOK(Tables) /\ Foot(q, c) /\ NoteDeed(q, c)
      /\ Planned(L) /\ DocNow(q, L, m) /\ ReadNow(L, m) /\ Op(q)' = Op(q) /\ Op(q) # "none" /\ Others(q)
  BY <1>1 DEF Plays, ContentInv, Now
<1>3. /\ Rank("store") = 2 /\ Rank("dropOld") = 3 /\ "doc" \in Tables \ {"canvas"} /\ ~Precedes(3, 3)
  BY RankFacts DEF Prepares, Tables, NoteTables, Precedes
<1>4. ASSUME NEW k \in DOMAIN rows', k[1] = "doc"
      PROVE  \/ /\ k \in DOMAIN rows /\ rows'[k].file = rows[k].file
                /\ rows'[k].state = "live" => rows[k].state = "live"
                /\ c = <<"save", "doc">> /\ k[2] = m.id => m.file = Null
             \/ /\ k = <<"doc", m.id>> /\ rows'[k].file = m.file /\ c \in DocWrites
                /\ m.file \in {q, Asset, Null} /\ <<"store", "doc">> \notin L
  <2>1. CASE /\ k \in DOMAIN rows /\ rows'[k].file = rows[k].file
             /\ rows'[k].state = "live" => rows[k].state = "live"
             /\ c[2] = "doc" /\ NamesFile("doc", c) /\ k[2] = m.id => m.file = Null
    BY <2>1 DEF NamesFile
  <2>2. CASE /\ k = <<"doc", m.id>> /\ rows'[k].file = m.file /\ c[2] = "doc" /\ NamesFile("doc", c)
             /\ \A d \in L : d = c \/ Rank(d[1]) > 4
    <3>1. c \in DocWrites /\ c # <<"store", "doc">> /\ c \in DocCalls
      BY <2>2 DEF NamesFile, FrameWrites, DocWrites, DocCalls
    <3> QED BY <1>2, <1>3, <2>2, <3>1 DEF DocNow
  <2> QED BY <1>1, <1>4, <2>1, <2>2, FileRows
<1>5. \A k \in DOMAIN rows : k[1] = "doc" /\ c \in DocWrites /\ m.file = q => rows[k].file # q
  BY <1>2 DEF DocNow, DocWrites, DocCalls
<1>6. ASSUME NEW k \in DOMAIN rows', NEW l \in DOMAIN rows', k[1] = "doc", l[1] = "doc",
             rows'[k].file = rows'[l].file, rows'[k].file \notin {Null, Asset}
      PROVE  k = l
  <2>1. \/ k \in DOMAIN rows /\ rows'[k].file = rows[k].file
        \/ k = <<"doc", m.id>> /\ rows'[k].file = m.file /\ c \in DocWrites /\ m.file \in {q, Asset, Null}
    BY <1>4, <1>6
  <2>2. \/ l \in DOMAIN rows /\ rows'[l].file = rows[l].file
        \/ l = <<"doc", m.id>> /\ rows'[l].file = m.file /\ c \in DocWrites /\ m.file \in {q, Asset, Null}
    BY <1>4, <1>6
  <2> QED BY <1>5, <1>6, <2>1, <2>2 DEF DocInv
<1>7. ASSUME NEW p \in Requests, Op(p)' = "none", NEW k \in DOMAIN rows', k[1] = "doc"
      PROVE  rows'[k].file # p
  <2>1. p # q /\ Op(p) = "none"
    BY <1>2, <1>7 DEF Others, Op
  <2>2. p # Asset /\ p # Null
    BY RowsAssumption
  <2> QED BY <1>4, <1>7, <2>1, <2>2 DEF DocInv
<1>8. ASSUME NEW i \in RowIds, Live("doc", i)', rows'[<<"doc", i>>].file \notin {Null, Asset}
      PROVE  <<"doc", rows'[<<"doc", i>>].file>> \in DOMAIN files' \/ Rewrites(q, i)'
  <2>1. PICK k, f : k = <<"doc", i>> /\ f = rows'[k].file
    OBVIOUS
  <2>2. k \in DOMAIN rows' /\ rows'[k].state = "live" /\ k[1] = "doc" /\ k[2] = i /\ f \notin {Null, Asset}
    BY <1>8, <2>1 DEF Live
  <2>3. ASSUME NEW g, <<"doc", g>> \in DOMAIN files, c # <<"dropOld", "doc">> PROVE <<"doc", g>> \in DOMAIN files'
    <3>1. CASE c = <<"store", "doc">>
      <4>1. files' = files \/ files' = With(files, <<"doc", q>>, q)
        BY <1>2, <3>1 DEF NoteDeed, ResolveDocContent
      <4> QED BY <2>3, <4>1 DEF With
    <3>2. CASE c # <<"store", "doc">>
      <4>1. files' = files \/ c[2] # "doc"
        BY <1>2, <2>3, <3>2 DEF Foot, FileWrites
      <4> QED BY <1>2, <2>3, <4>1 DEF Foot
    <3> QED BY <3>1, <3>2
  <2>4. CASE /\ k \in DOMAIN rows /\ f = rows[k].file /\ rows[k].state = "live"
             /\ c = <<"save", "doc">> /\ i = m.id => m.file = Null
    <3>1. CASE Rewrites(q, i)
      <4>1. c # <<"save", "doc">>
        BY <1>1, <2>4, <3>1 DEF Rewrites
      <4> QED BY <3>1, <4>1, Excused
    <3>2. CASE ~Rewrites(q, i)
      <4>1. i \in LiveIds("doc")
        BY <1>8, <2>1, <2>4 DEF LiveIds, Live
      <4>2. <<"doc", f>> \in DOMAIN files
        BY <2>1, <2>2, <2>4, <3>2, <4>1, OwnExcuse DEF DocInv
      <4>3. CASE c = <<"dropOld", "doc">> /\ <<"doc", f>> \notin DOMAIN files'
        <5>1. files' = IF DropsOld(m) THEN Without(files, <<"doc", m.held.file>>) ELSE files
          BY <1>1, <1>2, <4>3 DEF NoteDeed, DropOldAsset
        <5>2. DropsOld(m) /\ f = m.held.file
          BY <4>2, <4>3, <5>1 DEF Without
        <5>3. ~Turned(q, c) /\ OnWith(q, c)
          BY <4>3 DEF Plays, Turned, Door, Looks
        <5>4. Live("doc", m.id) /\ m.held = rows[<<"doc", m.id>>] /\ RowKnown(q, L, m)
          BY <1>1, <1>3, <4>3, <5>3, AtRenews DEF Renews
        <5>5. i = m.id
          <6>1. <<"doc", m.id>> \in DOMAIN rows /\ rows[<<"doc", m.id>>].file = rows[k].file
            BY <2>4, <5>2, <5>4 DEF Live
          <6>2. k = <<"doc", m.id>>
            BY <2>2, <2>4, <6>1 DEF DocInv
          <6> QED BY <2>1, <6>2
        <5>6. <<"save", "doc">> \in N /\ <<"dropOld", "doc">> \notin N
          BY <1>1, <1>2, <1>3, <4>3, <5>3 DEF Planned, OnWith
        <5>7. n.id = m.id /\ n.file = m.file /\ m.file # Null
          BY <1>1, <5>2, <5>3, <5>4, <5>6, GoesOn DEF Around, DropsOld
        <5> QED BY <1>1, <5>5, <5>6, <5>7 DEF Rewrites
      <4> QED BY <2>1, <2>3, <4>2, <4>3
    <3> QED BY <3>1, <3>2
  <2>5. CASE k = <<"doc", m.id>> /\ f = m.file /\ c \in DocWrites /\ m.file = q /\ <<"store", "doc">> \notin L
    <3>1. <<"doc", q>> \in DOMAIN files
      BY <1>2, <2>5 DEF DocNow, DocWrites, DocCalls
    <3>2. c # <<"dropOld", "doc">>
      BY <2>5 DEF DocWrites
    <3> QED BY <2>1, <2>3, <2>5, <3>1, <3>2
  <2> QED BY <1>4, <2>1, <2>2, <2>4, <2>5
<1>9. ASSUME NEW i, Rewrites(q, i)' PROVE \E p \in Requests : Rewrites(p, i)'
  BY <1>2, <1>9
<1> QED BY <1>6, <1>7, <1>8, <1>9 DEF DocInv, LiveIds

LEMMA ChatRows ==
    ASSUME NEW q, NEW c, Plays(q, c), NEW i \in RowIds
    PROVE  /\ <<"chat", i>> \in DOMAIN rows => <<"chat", i>> \in DOMAIN rows'
           /\ Live("chat", i)' =>
                \/ <<"chat", i>> \notin DOMAIN rows /\ c = <<"insert", "chat">>
                \/ i = Mem(q).id /\ rows'[<<"chat", i>>].link = q /\ c = <<"touch", "chat">>
                \/ /\ Live("chat", i) /\ rows'[<<"chat", i>>].link = rows[<<"chat", i>>].link
                   /\ c = <<"touch", "chat">> => i # Mem(q).id
<1>1. PICK L, m, k, x : L = Left(q) /\ m = Mem(q) /\ k = <<"chat", i>> /\ x = <<"chat", m.id>>
  OBVIOUS
<1>2. /\ q \in Requests /\ Knows(q) /\ c \in L /\ RowsTypeOK(Tables) /\ Foot(q, c) /\ RowDeed(q, c) /\ NoteDeed(q, c)
      /\ (Turned(q, c) \/ OnWith(q, c)) /\ "chat" \in Tables \ {"canvas"}
  BY <1>1 DEF Plays, ContentInv, Tables, NoteTables
<1>3. k[1] = "chat" /\ (k = x <=> i = m.id) /\ (k \in DOMAIN rows => rows[k] \in Row)
  BY <1>1, <1>2 DEF RowsTypeOK
<1>4. CASE c = <<"insert", "chat">>
  <2>1. rows' = With(rows, x, NewRow(m, q))
    BY <1>1, <1>2, <1>4 DEF RowDeed, Inserts
  <2>2. m.id = q /\ x \notin DOMAIN rows
    BY <1>1, <1>2, <1>4, RowLeft DEF RowKnown, NewRowKnown, Makers, Made
  <2> QED BY <1>1, <1>3, <1>4, <2>1, <2>2 DEF With, Live
<1>5. CASE c = <<"save", "chat">>
  <2>1. ~Turned(q, c) /\ OnWith(q, c)
    BY <1>2, <1>5 DEF Turned, Door, Looks
  <2>2. m \in RowMemory /\ Live("chat", m.id) /\ m.held = rows[x] /\ rows[x] \in Row
    BY <1>1, <1>2, <1>5, <2>1, AtRenews DEF Renews
  <2>3. PICK r : r = Merged(m, q, "chat", rows[x])
    OBVIOUS
  <2>4. rows' = With(rows, x, r)
    BY <1>1, <1>2, <1>5, <2>2, <2>3 DEF RowDeed, Saves
  <2>5. r.link = rows[x].link
    BY <1>2, <2>2, <2>3, MergedFacts DEF RowMemory
  <2> QED BY <1>1, <1>3, <1>5, <2>2, <2>4, <2>5 DEF With, Live
<1>6. CASE c = <<"remove", "chat">>
  <2>1. PICK w, r : w = rows[x] /\ r = [w EXCEPT !.state = "deleted"]
    OBVIOUS
  <2>2. rows' = rows \/ (rows' = With(rows, x, r) /\ x \in DOMAIN rows)
    BY <1>1, <1>2, <1>6, <2>1 DEF RowDeed, Removes, Live
  <2>3. x \in DOMAIN rows => r.state = "deleted"
    BY <1>2, <2>1 DEF RowsTypeOK, Row
  <2> QED BY <1>1, <1>3, <1>6, <2>2, <2>3 DEF With, Live
<1>7. CASE c = <<"touch", "chat">>
  <2>1. ~Turned(q, c) /\ OnWith(q, c)
    BY <1>2, <1>7 DEF Turned, Door, Looks
  <2>2. m \in RowMemory /\ Live("chat", m.id) /\ rows[x] \in Row
    BY <1>1, <1>2, <1>7, <2>1, AtRenews DEF Renews
  <2>3. PICK w, r : w = rows[x] /\ r = [w EXCEPT !.link = q]
    OBVIOUS
  <2>4. rows' = With(rows, x, r)
    BY <1>1, <1>2, <1>7, <2>2, <2>3 DEF NoteDeed, TouchChatSession
  <2>5. r.link = q
    BY <2>2, <2>3 DEF Row
  <2> QED BY <1>1, <1>3, <1>7, <2>4, <2>5 DEF With, Live
<1>8. CASE c \notin {<<"insert", "chat">>, <<"save", "chat">>, <<"remove", "chat">>, <<"touch", "chat">>}
  <2>1. rows' = rows \/ Made(c) # "chat"
    BY <1>2, <1>8 DEF Foot, RowWrites, Made
  <2>2. /\ k \in DOMAIN rows => k \in DOMAIN rows' /\ rows'[k] = rows[k]
        /\ k \in DOMAIN rows' => k \in DOMAIN rows
    BY <1>2, <1>3, <2>1 DEF Foot
  <2> QED BY <1>1, <1>8, <2>2 DEF Live
<1> QED BY <1>4, <1>5, <1>6, <1>7, <1>8

LEMMA ChatKept ==
    ASSUME NEW q, NEW c, Plays(q, c), ChatInv
    PROVE  ChatInv'
<1>1. PICK L, m, N, n : L = Left(q) /\ m = Mem(q) /\ N = Left(q)' /\ n = Mem(q)'
  OBVIOUS
<1>2. /\ q \in Requests /\ Knows(q) /\ c \in L /\ NotesTypeOK /\ Foot(q, c) /\ NoteDeed(q, c)
      /\ Planned(L) /\ ChatNow(q, L, m) /\ "chat" \in Tables \ {"canvas"}
  BY <1>1 DEF Plays, ContentInv, Now, Tables, NoteTables
<1>3. /\ Rank("message") = 2 /\ Rank("touch") = 4 /\ ~Precedes(2, 2)
  BY RankFacts DEF Prepares, Precedes
<1>4. ASSUME c = <<"message", "chat">>
      PROVE  /\ m.id \in RowIds /\ Live("chat", m.id)
             /\ \A i \in RowIds : i # m.id => messages'[i] = messages[i]
             /\ Touches(q, m.id)' /\ \A i : ~Touches(q, i)
  <2>1. ~Turned(q, c) /\ OnWith(q, c)
    BY <1>4 DEF Plays, Turned, Door, Looks
  <2>2. m \in RowMemory /\ Live("chat", m.id)
    <3>1. c[1] \in Renews /\ c[2] = "chat"
      BY <1>4 DEF Renews
    <3> QED BY <1>1, <1>2, <2>1, <3>1, AtRenews
  <2>3. messages' = [messages EXCEPT ![m.id] = Append(@, q)]
    BY <1>1, <1>2, <1>4 DEF NoteDeed, CreateChatMessage
  <2>4. <<"touch", "chat">> \in N /\ c \notin N
    BY <1>1, <1>2, <1>3, <1>4, <2>1 DEF Planned, OnWith
  <2>5. n.id = m.id
    BY <1>1, <2>1, <2>4, GoesOn DEF Around
  <2> QED BY <1>1, <1>2, <1>4, <2>2, <2>3, <2>4, <2>5 DEF Touches, RowMemory, NotesTypeOK
<1>5. c # <<"message", "chat">> => messages' = messages
  BY <1>2 DEF Foot
<1>6. ASSUME NEW i \in RowIds, messages'[i] # <<>> PROVE <<"chat", i>> \in DOMAIN rows'
  <2>1. <<"chat", i>> \in DOMAIN rows
    BY <1>4, <1>5, <1>6 DEF ChatInv, Live
  <2> QED BY <1>6, <2>1, ChatRows
<1>7. ASSUME NEW i \in RowIds, Live("chat", i)', messages'[i] # <<>>
      PROVE  rows'[<<"chat", i>>].link = Last(messages'[i]) \/ Touches(q, i)'
  <2>1. CASE c = <<"message", "chat">> /\ i = m.id
    BY <1>4, <2>1
  <2>2. CASE c = <<"touch", "chat">> /\ i = m.id
    <3>1. ~Turned(q, c) /\ OnWith(q, c)
      BY <2>2 DEF Plays, Turned, Door, Looks
    <3>2. <<"message", "chat">> \notin L
      <4>1. c[1] \in Renews /\ c[2] = "chat" /\ c # <<"message", "chat">> /\ c[1] = "touch"
        BY <2>2 DEF Renews
      <4>2. \A d \in L : d = c \/ Rank(d[1]) > 4
        BY <1>1, <1>2, <1>3, <3>1, <4>1, AtRenews
      <4> QED BY <1>3, <4>1, <4>2
    <3>3. Last(messages[m.id]) = q /\ messages' = messages
      BY <1>2, <1>5, <2>2, <3>2 DEF ChatNow
    <3>4. <<"chat", i>> \in DOMAIN rows
      BY <1>5, <1>7, <2>2 DEF ChatInv
    <3>5. rows'[<<"chat", i>>].link = q
      BY <1>1, <1>7, <2>2, <3>4, ChatRows
    <3> QED BY <2>2, <3>3, <3>5
  <2>3. CASE ~(c \in {<<"message", "chat">>, <<"touch", "chat">>} /\ i = m.id)
    <3>1. messages'[i] = messages[i]
      BY <1>4, <1>5, <2>3
    <3>2. <<"chat", i>> \in DOMAIN rows
      BY <1>7, <3>1 DEF ChatInv
    <3>3. Live("chat", i) /\ rows'[<<"chat", i>>].link = rows[<<"chat", i>>].link
      BY <1>1, <1>7, <2>3, <3>2, ChatRows
    <3>4. CASE Touches(q, i)
      <4>1. c # <<"touch", "chat">>
        BY <1>1, <2>3, <3>4 DEF Touches
      <4> QED BY <3>4, <4>1, Excused
    <3>5. CASE ~Touches(q, i)
      <4>1. rows[<<"chat", i>>].link = Last(messages[i])
        BY <1>7, <3>1, <3>3, <3>5, OwnExcuse DEF ChatInv, LiveIds
      <4> QED BY <3>1, <3>3, <4>1
    <3> QED BY <3>4, <3>5
  <2> QED BY <2>1, <2>2, <2>3
<1>8. ASSUME NEW i, Touches(q, i)' PROVE \E p \in Requests : Touches(p, i)'
  BY <1>2, <1>8
<1> QED BY <1>6, <1>7, <1>8 DEF ChatInv, LiveIds, Last

LEMMA FieldsKept ==
    ASSUME NEW q, NEW c, Plays(q, c), FieldsInv
    PROVE  FieldsInv'
<1>1. PICK L, m, N, n : L = Left(q) /\ m = Mem(q) /\ N = Left(q)' /\ n = Mem(q)'
  OBVIOUS
<1>2. /\ q \in Requests /\ Knows(q) /\ c \in L /\ NotesTypeOK /\ Foot(q, c) /\ NoteDeed(q, c)
      /\ Planned(L) /\ FieldsNow(q, L, m) /\ (Turned(q, c) \/ OnWith(q, c)) /\ Staged(L)
  BY <1>1 DEF Plays, ContentInv, Now
<1>3. /\ Rank("save") = 4 /\ Rank("clearFields") = 5 /\ Rank("insertFields") = 6 /\ Rank("delete") = 6
      /\ ~Precedes(4, 4) /\ ~Precedes(5, 4) /\ ~Precedes(5, 5) /\ ~Precedes(6, 4)
  BY RankFacts DEF Precedes
<1>4. c[2] = "component" => m.id \in RowIds
  BY <1>1, <1>2, NumberLeft DEF NumberKnown, NumberMemory
<1>5. SUFFICES ASSUME NEW i \in DOMAIN comps' PROVE fields'[i] = comps'[i].by \/ Refits(q, i)'
  <2>1. ASSUME NEW i, Refits(q, i)' PROVE \E p \in Requests : Refits(p, i)'
    BY <1>2, <2>1
  <2> QED BY <1>5, <2>1 DEF FieldsInv
<1>6. ASSUME NEW w, w \in N, w # c, OnWith(q, c) PROVE n.id = m.id
  BY <1>1, <1>6, GoesOn DEF Around
<1>7. CASE c = <<"save", "component">> /\ comps' # comps
  <2>1. OnWith(q, c)
    BY <1>2, <1>7 DEF Turned, Stays
  <2>2. fields' = fields /\ comps' = With(comps, m.id, [slug |-> m.number, by |-> q])
    BY <1>1, <1>2, <1>7 DEF NoteDeed, SaveCustomComponent
  <2>3. <<"insertFields", "component">> \in N /\ c \notin N
    BY <1>1, <1>2, <1>3, <1>7, <2>1 DEF Planned, OnWith
  <2>4. Refits(q, m.id)'
    BY <1>1, <1>6, <1>7, <2>1, <2>3 DEF Refits
  <2>5. CASE i # m.id
    <3>1. i \in DOMAIN comps /\ comps'[i] = comps[i] /\ ~Refits(q, i)
      BY <1>1, <2>2, <2>5 DEF With, Refits
    <3> QED BY <2>2, <3>1, OwnExcuse DEF FieldsInv
  <2> QED BY <2>4, <2>5
<1>8. CASE c = <<"clearFields", "component">>
  <2>1. ~Turned(q, c) /\ OnWith(q, c)
    BY <1>2, <1>8 DEF Turned, Door, Looks
  <2>2. comps' = comps /\ fields' = [fields EXCEPT ![m.id] = Null]
    BY <1>1, <1>2, <1>8 DEF NoteDeed, ClearComponentFields
  <2>3. c \notin N /\ <<"save", "component">> \notin N
    BY <1>1, <1>3, <1>8, <2>1 DEF OnWith
  <2>4. <<"insertFields", "component">> \in N \/ <<"delete", "component">> \in N
    BY <1>1, <1>2, <1>8, <2>1 DEF Planned, OnWith
  <2>5. Refits(q, m.id)'
    BY <1>1, <1>6, <1>8, <2>1, <2>3, <2>4 DEF Refits
  <2>6. CASE i # m.id
    <3>1. ~Refits(q, i)
      BY <1>1, <2>6 DEF Refits
    <3>2. i \in DOMAIN fields
      BY <1>2, <1>5, <2>2 DEF NotesTypeOK
    <3> QED BY <1>5, <2>2, <2>6, <3>1, <3>2, OwnExcuse DEF FieldsInv
  <2> QED BY <2>5, <2>6
<1>9. CASE c = <<"insertFields", "component">>
  <2>1. <<"save", "component">> \in L => OnWith(q, c) \/ FALSE
    <3>1. CASE Turned(q, c) /\ <<"save", "component">> \in L
      <4>1. PICK s : s = proc[q].todo
        OBVIOUS
      <4>2. Listed(s) /\ s # <<>> /\ Head(s) = c /\ L = CallsOf(s)
        BY <1>1, <1>2, <4>1 DEF Plays, Knows, At, Left
      <4>3. <<"save", "component">> \in CallsOf(Tail(s))
        BY <1>9, <3>1, <4>2, TailCalls
      <4> QED BY <1>3, <1>9, <4>2, <4>3, TailCalls
    <3> QED BY <1>2, <3>1
  <2>2. <<"save", "component">> \notin L
    BY <1>1, <1>3, <1>9, <2>1 DEF OnWith
  <2>3. m.id \in DOMAIN comps /\ comps[m.id].by = q /\ comps' = comps
    BY <1>2, <1>9, <2>2 DEF FieldsNow, Foot
  <2>4. fields' = [fields EXCEPT ![m.id] = q]
    BY <1>1, <1>2, <1>9, <2>3 DEF NoteDeed, InsertComponentFields
  <2>5. CASE i # m.id
    <3>1. ~Refits(q, i)
      BY <1>1, <2>5 DEF Refits
    <3>2. i \in DOMAIN fields
      BY <1>2, <1>5, <2>3 DEF NotesTypeOK
    <3> QED BY <1>5, <2>3, <2>4, <2>5, <3>1, <3>2, OwnExcuse DEF FieldsInv
  <2>6. CASE i = m.id
    BY <1>2, <1>4, <1>9, <2>3, <2>4, <2>6 DEF NotesTypeOK
  <2> QED BY <2>5, <2>6
<1>10. CASE c = <<"delete", "component">>
  <2>1. comps' = Without(comps, m.id) /\ fields' = [fields EXCEPT ![m.id] = Null]
    BY <1>1, <1>2, <1>10 DEF NoteDeed, DeleteComponent
  <2>2. i # m.id /\ i \in DOMAIN comps /\ comps'[i] = comps[i]
    BY <1>5, <2>1 DEF Without
  <2>3. ~Refits(q, i)
    BY <1>1, <2>2 DEF Refits
  <2>4. i \in DOMAIN fields
    BY <1>2, <2>2 DEF NotesTypeOK
  <2> QED BY <2>1, <2>2, <2>3, <2>4, OwnExcuse DEF FieldsInv
<1>11. CASE /\ c \notin {"clearFields", "insertFields", "delete"} \X {"component"}
            /\ comps' = comps
  <2>1. fields' = fields
    BY <1>2, <1>11 DEF Foot
  <2> QED BY <1>5, <1>11, <2>1, Excused, OwnExcuse DEF FieldsInv
<1> QED BY <1>2, <1>7, <1>8, <1>9, <1>10, <1>11 DEF Foot

\* What an upsert writes: rows with the ref, or one new row.
LEMMA UpsertRows ==
    ASSUME RowsTypeOK(Tables), NEW q, NEW t \in Tables, NEW link, Upserts(q, t, link), Mem(q) \in RowMemory,
           <<t, q>> \notin DOMAIN rows
    PROVE  /\ \A k \in DOMAIN rows :
                /\ k \in DOMAIN rows' /\ rows'[k].ref = rows[k].ref
                /\ rows'[k] # rows[k] => k[1] = t /\ rows[k].ref = Mem(q).ref
           /\ \A k \in DOMAIN rows' : k \notin DOMAIN rows =>
                /\ k = <<t, q>> /\ rows'[k].ref = Mem(q).ref
                /\ rows'[k].parent = Mem(q).parent /\ rows'[k].link = link
<1>1. PICK m, old : m = Mem(q) /\ old = RefOwners(t, m.ref)
  OBVIOUS
<1>2. \A k \in DOMAIN rows : rows[k] \in Row
  BY DEF RowsTypeOK
<1>3. CASE old = {}
  <2>1. PICK v : v = [m EXCEPT !.link = link]
    OBVIOUS
  <2>2. rows' = With(rows, <<t, q>>, NewRow(v, q))
    BY <1>1, <1>3, <2>1 DEF Upserts
  <2>3. v.ref = m.ref /\ v.parent = m.parent /\ v.link = link
    BY <1>1, <2>1 DEF RowMemory
  <2>4. PICK r : r = NewRow(v, q)
    OBVIOUS
  <2>5. r.ref = m.ref /\ r.parent = m.parent /\ r.link = link
    BY <2>3, <2>4 DEF NewRow
  <2> QED BY <1>1, <2>2, <2>4, <2>5 DEF With
<1>4. CASE old # {}
  <2>1. rows' = [k \in DOMAIN rows |->
                    IF k[1] = t /\ k[2] \in old
                    THEN [rows[k] EXCEPT !.name = q, !.note = q,
                                         !.file = IF t = "model" THEN q ELSE @,
                                         !.parent = IF m.parent = Null THEN @ ELSE m.parent,
                                         !.link = IF link = Null THEN @ ELSE link]
                    ELSE rows[k]]
    BY <1>1, <1>4 DEF Upserts
  <2>2. DOMAIN rows' = DOMAIN rows
    BY <2>1
  <2>3. ASSUME NEW k \in DOMAIN rows
        PROVE  /\ rows'[k].ref = rows[k].ref
               /\ rows'[k] # rows[k] => k[1] = t /\ rows[k].ref = m.ref
    <3>1. CASE k[1] = t /\ k[2] \in old
      <4>1. PICK w : w = rows[k]
        OBVIOUS
      <4>2. rows'[k] = [w EXCEPT !.name = q, !.note = q,
                                 !.file = IF t = "model" THEN q ELSE @,
                                 !.parent = IF m.parent = Null THEN @ ELSE m.parent,
                                 !.link = IF link = Null THEN @ ELSE link]
        BY <2>1, <2>3, <3>1, <4>1
      <4>3. rows'[k].ref = w.ref
        BY <1>2, <4>1, <4>2 DEF Row
      <4>4. rows[k].ref = m.ref
        <5>1. k = <<t, k[2]>>
          BY <2>3, <3>1 DEF RowsTypeOK
        <5> QED BY <1>1, <3>1, <5>1 DEF RefOwners
      <4> QED BY <3>1, <4>1, <4>3, <4>4
    <3>2. CASE ~(k[1] = t /\ k[2] \in old)
      BY <2>1, <3>2
    <3> QED BY <3>1, <3>2
  <2> QED BY <1>1, <2>2, <2>3
<1> QED BY <1>3, <1>4

\* A sync writes under rows of MLflow that are there.
LEMMA SyncRows ==
    ASSUME ContentInv, NEW q \in Requests, NEW c, At(q, c), c[1] = "sync", MlDeed(q, c)
    PROVE  /\ c[2] \in MlTables /\ c[2] \in Tables
           /\ \/ rows' = rows
              \/ \E link :
                   /\ Upserts(q, c[2], link)
                   /\ c[2] \in {"run", "dataset", "evaluation"} => Live("experiment", Mem(q).parent)
                   /\ c[2] = "artifact" => Live("run", Mem(q).parent)
                   /\ c[2] = "version" => Live("model", Mem(q).parent)
                   /\ c[2] = "evaluation" /\ link # Null => Live("version", link)
<1>1. PICK m : m = Mem(q)
  OBVIOUS
<1>2. ASSUME NEW s, NEW a \in BOOLEAN, NEW b \in BOOLEAN, Syncs(q, s, a, b)
      PROVE  /\ c = <<"sync", s.table>>
             /\ \/ rows' = rows
                \/ \E link : /\ Upserts(q, s.table, link)
                             /\ a => Live(s.parent, m.parent)
                             /\ link # Null => Live(s.link, link)
  BY <1>1, <1>2 DEF Syncs, At, Resolved
<1> DEFINE Fits(s, a) ==
        /\ s.table \in MlTables /\ s.table \in Tables
        /\ s.table \in {"run", "dataset", "evaluation"} => a /\ s.parent = "experiment"
        /\ s.table = "artifact" => a /\ s.parent = "run"
        /\ s.table = "version" => a /\ s.parent = "model"
        /\ s.table = "evaluation" => s.link = "version"
<1>3. Fits(SyncProjects, FALSE) /\ Fits(SyncModels, FALSE) /\ Fits(SyncExperiments, FALSE)
  BY MlTablesKnown DEF SyncProjects, SyncModels, SyncExperiments, MlTables
<1>4. Fits(SyncVersions, TRUE) /\ Fits(SyncRuns, TRUE) /\ Fits(SyncArtifacts, TRUE)
  BY MlTablesKnown DEF SyncVersions, SyncRuns, SyncArtifacts, MlTables
<1>5. Fits(SyncDatasets, TRUE) /\ Fits(SyncEvaluations, TRUE)
  BY MlTablesKnown DEF SyncDatasets, SyncEvaluations, MlTables
<1> HIDE DEF Fits
<1>6. PICK s, a, b : a \in BOOLEAN /\ b \in BOOLEAN /\ Syncs(q, s, a, b) /\ Fits(s, a)
  BY <1>3, <1>4, <1>5 DEF MlDeed, UpsertMLProjects, UpsertMLModels, UpsertMLModelVersions,
     UpsertMLExperiments, UpsertMLRuns, UpsertMLArtifacts, UpsertMLDatasets, UpsertMLEvaluations
<1>7. /\ c[2] = s.table
      /\ \/ rows' = rows
         \/ \E link : /\ Upserts(q, s.table, link)
                      /\ a => Live(s.parent, m.parent)
                      /\ link # Null => Live(s.link, link)
  BY <1>2, <1>6
<1>8. CASE rows' = rows
  BY <1>6, <1>7, <1>8 DEF Fits
<1>9. CASE \E link : /\ Upserts(q, s.table, link) /\ (a => Live(s.parent, m.parent))
                     /\ link # Null => Live(s.link, link)
  BY <1>1, <1>6, <1>7, <1>9 DEF Fits
<1> QED BY <1>7, <1>8, <1>9

(***************************************************************************)
(* The rows of ML Studio.                                                  *)
(***************************************************************************)
\* q does the call c, whatever else is under way.
Acts(q, c) ==
    /\ ContentInv /\ q \in Requests /\ At(q, c) /\ c \in Left(q) /\ c \in AllCalls
    /\ Foot(q, c) /\ RowDeed(q, c) /\ MlDeed(q, c)

\* The rows that a row of table t belongs to are there.
UnderLive(t, r) ==
    /\ t \in {"run", "dataset", "evaluation"} => Live("experiment", r.parent)
    /\ t = "artifact" => Live("run", r.parent)
    /\ t \in {"deployment", "finding", "version"} => Live("model", r.parent)
    /\ t \in {"evaluation", "deployment", "finding"} /\ r.link # Null => Live("version", r.link)

\* A row that is there keeps its ref, and is written by a sync of that ref, in a
\* column that MLflow does not know, or by the update of its id.
OldRow(q, c, k) ==
    /\ k \in DOMAIN rows' /\ rows'[k].ref = rows[k].ref
    /\ rows'[k] # rows[k] =>
         \/ c[1] = "sync" /\ rows[k].ref = Mem(q).ref
         \/ /\ c[1] \in {"remove", "saveCard", "setRun", "setVersion"}
            /\ rows'[k].name = rows[k].name /\ rows'[k].parent = rows[k].parent
         \/ /\ c \in {<<"save", k[1]>>, <<"saveExperiment", "experiment">>, <<"saveFinding", "finding">>}
            /\ c[2] = k[1] /\ k[1] # "version" /\ k[2] = Mem(q).id
            /\ rows'[k].name = IF "name" \in Mem(q).gives THEN q ELSE Mem(q).held.name

\* A new row is made by hand, without a ref, or by a sync.
FreshRow(q, c, k) ==
    /\ k = <<Made(c), q>>
    /\ \/ /\ c[1] = "insert" /\ rows'[k].ref = Null
          /\ rows'[k].parent = Mem(q).parent /\ rows'[k].link = Mem(q).link
       \/ c = <<"firstVersion", "model">> /\ rows'[k].ref = Null /\ rows'[k].parent = q
       \/ c[1] = "sync" /\ rows'[k].ref = Mem(q).ref /\ UnderLive(c[2], rows'[k])

MlRow(q, c, k) ==
    /\ k \in DOMAIN rows => OldRow(q, c, k)
    /\ k \in DOMAIN rows' /\ k \notin DOMAIN rows => FreshRow(q, c, k)

\* One row is written.
LEMMA MlOneRow ==
    ASSUME NEW q, NEW c, NEW x, NEW r, NEW k, rows' = rows \/ rows' = With(rows, x, r),
           x \in DOMAIN rows /\ rows' # rows =>
                r.ref = rows[x].ref /\ (k = x => rows'[k] = rows[k] \/ OldRow(q, c, k)),
           x \notin DOMAIN rows /\ k = x /\ rows' # rows => FreshRow(q, c, k)
    PROVE  MlRow(q, c, k)
BY DEF MlRow, OldRow, With

LEMMA MlInserted ==
    ASSUME NEW q, NEW c, Acts(q, c), NEW k, c[1] \in {"insert", "firstVersion"}, c[2] \in MlTables
    PROVE  MlRow(q, c, k)
<1>1. PICK L, m : L = Left(q) /\ m = Mem(q)
  OBVIOUS
<1>2. q \in Requests /\ Knows(q) /\ c \in L /\ RowDeed(q, c) /\ MlDeed(q, c) /\ c[2] \in Tables
  BY <1>1 DEF Acts, ContentInv, Tables
<1>3. RowKnown(q, L, m) /\ m \in RowMemory
  BY <1>1, <1>2, RowLeft DEF RowKnown
<1>4. m.ref = Null /\ <<Made(c), q>> \notin DOMAIN rows /\ (c[1] = "insert" => m.id = q)
  BY <1>2, <1>3 DEF RowKnown, NewRowKnown, Makers
<1>5. CASE c[1] = "insert"
  <2>1. PICK x, r : x = <<c[2], q>> /\ r = NewRow(m, q)
    OBVIOUS
  <2>2. rows' = With(rows, x, r) /\ x \notin DOMAIN rows /\ x = <<Made(c), q>>
    BY <1>1, <1>2, <1>4, <1>5, <2>1 DEF RowDeed, Inserts, Made
  <2>3. r.ref = Null /\ r.parent = m.parent /\ r.link = m.link
    BY <1>4, <2>1 DEF NewRow
  <2>4. rows'[x] = r
    BY <2>2 DEF With
  <2> QED BY <1>1, <1>5, <2>2, <2>3, <2>4, MlOneRow DEF FreshRow
<1>6. CASE c[1] = "firstVersion"
  <2>1. PICK w, x, r : w = NewRow(m, q) /\ x = <<"version", q>> /\ r = [w EXCEPT !.parent = q]
    OBVIOUS
  <2>2. rows' = With(rows, x, r) /\ x \notin DOMAIN rows /\ x = <<Made(c), q>>
    BY <1>1, <1>2, <1>4, <1>6, <2>1 DEF MlDeed, CreateMLModelVersion, Made
  <2>3. r.ref = Null /\ r.parent = q
    BY <1>4, <2>1 DEF NewRow
  <2>4. rows'[x] = r
    BY <2>2 DEF With
  <2>5. c = <<"firstVersion", "model">>
    <3>1. c[2] = "model"
      BY <1>2, <1>3, <1>6 DEF RowKnown, OneTable
    <3> QED BY <1>6, <3>1 DEF Acts, AllCalls
  <2> QED BY <1>1, <2>2, <2>3, <2>4, <2>5, MlOneRow DEF FreshRow
<1> QED BY <1>5, <1>6

LEMMA MlSaved ==
    ASSUME NEW q, NEW c, Acts(q, c), NEW k, c[2] \in MlTables \ {"project"},
           c[1] \in {"save", "saveExperiment", "saveFinding"}
    PROVE  MlRow(q, c, k)
<1>1. PICK L, m, t : L = Left(q) /\ m = Mem(q) /\ t = c[2]
  OBVIOUS
<1>2. /\ q \in Requests /\ Knows(q) /\ At(q, c) /\ c \in L /\ RowsTypeOK(Tables) /\ RowDeed(q, c) /\ MlDeed(q, c)
      /\ t \in Tables /\ c = <<c[1], t>> /\ Foot(q, c) /\ t \in MlTables
  BY <1>1 DEF Acts, ContentInv, Tables, AllCalls
<1>3. RowKnown(q, L, m) /\ m \in RowMemory /\ m.held \in Row
  <2>1. c[1] \in Uses /\ c[1] \notin {"getStatus", "deploy"}
    BY DEF Uses
  <2>2. m.held \in Row
    BY <1>1, <1>2, <2>1, HeldAt
  <2> QED BY <1>1, <1>2, <2>1, <2>2, RowLeft DEF RowKnown
<1>4. PICK x, w : x = <<t, m.id>> /\ w = rows[x]
  OBVIOUS
<1>5. CASE rows' = rows
  BY <1>5 DEF MlRow, OldRow
<1>6. CASE rows' # rows
  <2>1. c \in RowWrites /\ t # "version"
    BY <1>1, <1>2, <1>6 DEF Foot, RowWrites
  <2>2. x \in DOMAIN rows /\ w \in Row /\ Live(t, m.id)
    <3>1. Live(t, m.id)
      BY <1>1, <1>2, <1>6, <2>1 DEF RowDeed, Saves, MlDeed, UpdateMLExperiment, UpdateMLFinding, RowWrites
    <3> QED BY <1>2, <1>4, <3>1 DEF Live, RowsTypeOK
  <2>3. PICK v : v = Merged(m, q, t, w)
    OBVIOUS
  <2>4. v \in Row /\ v.ref = w.ref /\ v.name = IF "name" \in m.gives THEN q ELSE m.held.name
    BY <1>2, <1>3, <2>2, <2>3, MergedFacts DEF RowMemory
  <2>5. PICK r : /\ rows' = With(rows, x, r) /\ r.ref = w.ref /\ r.name = v.name
                 /\ c \in {<<"save", t>>, <<"saveExperiment", "experiment">>, <<"saveFinding", "finding">>}
    <3>1. CASE c[1] = "save"
      <4>1. rows' = With(rows, x, v)
        BY <1>1, <1>2, <1>4, <2>2, <2>3, <3>1 DEF RowDeed, Saves
      <4> QED BY <1>2, <2>4, <3>1, <4>1
    <3>2. CASE c[1] = "saveExperiment"
      <4>1. t = "experiment"
        BY <1>1, <2>1, <3>2 DEF RowWrites
      <4>2. PICK p : p = IF m.link = Null THEN m.held.parent ELSE m.link
        OBVIOUS
      <4>3. PICK r : r = [v EXCEPT !.parent = p]
        OBVIOUS
      <4>4. rows' = With(rows, x, r)
        BY <1>1, <1>2, <1>4, <2>2, <2>3, <3>2, <4>1, <4>2, <4>3 DEF MlDeed, UpdateMLExperiment
      <4>5. r.ref = v.ref /\ r.name = v.name
        BY <2>4, <4>3 DEF Row
      <4> QED BY <1>2, <2>4, <3>2, <4>1, <4>4, <4>5
    <3>3. CASE c[1] = "saveFinding"
      <4>1. t = "finding"
        BY <1>1, <2>1, <3>3 DEF RowWrites
      <4>2. PICK p : p = IF m.link = Null THEN m.held.link ELSE m.link
        OBVIOUS
      <4>3. PICK r : r = [v EXCEPT !.link = p]
        OBVIOUS
      <4>4. rows' = With(rows, x, r)
        BY <1>1, <1>2, <1>4, <2>2, <2>3, <3>3, <4>1, <4>2, <4>3 DEF MlDeed, UpdateMLFinding
      <4>5. r.ref = v.ref /\ r.name = v.name
        BY <2>4, <4>3 DEF Row
      <4> QED BY <1>2, <2>4, <3>3, <4>1, <4>4, <4>5
    <3> QED BY <3>1, <3>2, <3>3
  <2>6. rows'[x] = r /\ x \in DOMAIN rows'
    BY <2>5 DEF With
  <2>7. k = x => OldRow(q, c, k)
    BY <1>1, <1>4, <2>1, <2>4, <2>5, <2>6 DEF OldRow
  <2> QED BY <1>4, <2>2, <2>5, <2>7, MlOneRow
<1> QED BY <1>5, <1>6

LEMMA MlSet ==
    ASSUME NEW q, NEW c, Acts(q, c), NEW k, c[2] \in MlTables \ {"project"},
           c[1] \in {"remove", "saveCard", "setRun", "setVersion"}
    PROVE  MlRow(q, c, k)
<1>1. PICK m, t : m = Mem(q) /\ t = c[2]
  OBVIOUS
<1>2. RowsTypeOK(Tables) /\ Foot(q, c) /\ RowDeed(q, c) /\ MlDeed(q, c) /\ t \in Tables /\ c = <<c[1], t>>
  BY <1>1 DEF Acts, ContentInv, Tables, AllCalls
<1>3. PICK x, w : x = <<t, m.id>> /\ w = rows[x]
  OBVIOUS
<1>4. CASE rows' = rows
  BY <1>4 DEF MlRow, OldRow
<1>5. CASE rows' # rows
  <2>1. c \in RowWrites
    BY <1>2, <1>5 DEF Foot
  <2>2. Live(t, m.id)
    BY <1>1, <1>2, <1>5, <2>1 DEF RowWrites, RowDeed, Removes, MlDeed, UpdateMLModel, SetMLModelVersionRun,
       SetMLEvaluationsVersion
  <2>3. x \in DOMAIN rows /\ w \in Row
    BY <1>2, <1>3, <2>2 DEF Live, RowsTypeOK
  <2>4. PICK r : rows' = With(rows, x, r) /\ r.ref = w.ref /\ r.name = w.name /\ r.parent = w.parent
    <3>1. CASE c[1] = "remove"
      <4>1. PICK r : r = [w EXCEPT !.state = "deleted"]
        OBVIOUS
      <4>2. rows' = With(rows, x, r)
        BY <1>1, <1>2, <1>3, <2>2, <3>1, <4>1 DEF RowDeed, Removes
      <4> QED BY <2>3, <4>1, <4>2 DEF Row
    <3>2. CASE c[1] = "saveCard"
      <4>1. PICK r : r = [w EXCEPT !.file = q]
        OBVIOUS
      <4>2. rows' = With(rows, x, r)
        BY <1>1, <1>2, <1>3, <2>1, <2>2, <3>2, <4>1 DEF RowWrites, MlDeed, UpdateMLModel
      <4> QED BY <2>3, <4>1, <4>2 DEF Row
    <3>3. CASE c[1] \in {"setRun", "setVersion"}
      <4>1. PICK r : r = [w EXCEPT !.link = m.link]
        OBVIOUS
      <4>2. rows' = With(rows, x, r)
        BY <1>1, <1>2, <1>3, <1>5, <2>1, <2>2, <3>3, <4>1
           DEF RowWrites, MlDeed, SetMLModelVersionRun, SetMLEvaluationsVersion
      <4> QED BY <2>3, <4>1, <4>2 DEF Row
    <3> QED BY <3>1, <3>2, <3>3
  <2>5. rows'[x] = r /\ x \in DOMAIN rows'
    BY <2>4 DEF With
  <2>6. k = x => OldRow(q, c, k)
    BY <1>3, <2>4, <2>5 DEF OldRow
  <2> QED BY <1>3, <2>3, <2>4, <2>6, MlOneRow
<1> QED BY <1>4, <1>5

LEMMA MlSynced ==
    ASSUME NEW q, NEW c, Acts(q, c), NEW k, c[1] = "sync"
    PROVE  MlRow(q, c, k) /\ Mem(q).ref \in Refs
<1>1. PICK m, t : m = Mem(q) /\ t = c[2]
  OBVIOUS
<1>2. /\ q \in Requests /\ Knows(q) /\ c \in Left(q) /\ RowsTypeOK(Tables) /\ ContentInv /\ At(q, c) /\ MlDeed(q, c)
  BY DEF Acts, ContentInv
<1>3. /\ t \in MlTables /\ t \in Tables
      /\ \/ rows' = rows
         \/ \E link :
              /\ Upserts(q, t, link)
              /\ t \in {"run", "dataset", "evaluation"} => Live("experiment", m.parent)
              /\ t = "artifact" => Live("run", m.parent)
              /\ t = "version" => Live("model", m.parent)
              /\ t = "evaluation" /\ link # Null => Live("version", link)
  BY <1>1, <1>2, SyncRows
<1>4. m \in RowMemory /\ m.ref \in Refs /\ <<t, q>> \notin DOMAIN rows
  <2>1. RowKnown(q, Left(q), m)
    BY <1>1, <1>2, <1>3, RowLeft
  <2> QED BY <1>1, <1>2, <2>1 DEF RowKnown, NewRowKnown, Makers, Made
<1>5. CASE rows' = rows
  BY <1>1, <1>4, <1>5 DEF MlRow, OldRow
<1>6. CASE rows' # rows
  <2>1. PICK link :
              /\ Upserts(q, t, link)
              /\ t \in {"run", "dataset", "evaluation"} => Live("experiment", m.parent)
              /\ t = "artifact" => Live("run", m.parent)
              /\ t = "version" => Live("model", m.parent)
              /\ t = "evaluation" /\ link # Null => Live("version", link)
    BY <1>3, <1>6
  <2>2. /\ k \in DOMAIN rows =>
             /\ k \in DOMAIN rows' /\ rows'[k].ref = rows[k].ref
             /\ rows'[k] # rows[k] => k[1] = t /\ rows[k].ref = m.ref
        /\ k \in DOMAIN rows' => (k \notin DOMAIN rows =>
             /\ k = <<t, q>> /\ rows'[k].ref = m.ref
             /\ rows'[k].parent = m.parent /\ rows'[k].link = link)
    BY <1>1, <1>2, <1>3, <1>4, <2>1, UpsertRows
  <2>3. k \in DOMAIN rows => OldRow(q, c, k)
    BY <1>1, <2>2 DEF OldRow
  <2>4. t \notin {"deployment", "finding"}
    BY <1>1, <1>6 DEF Acts, Foot, RowWrites
  <2>5. ASSUME k \in DOMAIN rows' /\ k \notin DOMAIN rows PROVE FreshRow(q, c, k)
    <3>1. UnderLive(t, rows'[k])
      BY <2>1, <2>2, <2>4, <2>5 DEF UnderLive
    <3> QED BY <1>1, <2>2, <2>5, <3>1 DEF FreshRow, Made
  <2> QED BY <1>1, <1>4, <2>3, <2>5 DEF MlRow
<1> QED BY <1>5, <1>6

\* What a call does to a row of ML Studio, of a project apart.
LEMMA MlRows ==
    ASSUME NEW q, NEW c, Acts(q, c), NEW k, k[1] \in MlTables \ {"project"}
    PROVE  MlRow(q, c, k)
<1>1. Foot(q, c)
  BY DEF Acts
<1>2. CASE rows' = rows
  BY <1>2 DEF MlRow, OldRow
<1>3. CASE Made(c) # k[1]
  BY <1>1, <1>3 DEF Foot, MlRow, OldRow
<1>4. CASE rows' # rows /\ Made(c) = k[1]
  <2>1. c \in RowWrites
    BY <1>1, <1>4 DEF Foot
  <2>2. /\ c[1] \in {"insert", "firstVersion", "save", "saveExperiment", "saveFinding", "remove", "saveCard",
                     "setRun", "setVersion", "sync"}
        /\ c[2] \in MlTables \ {"project"}
    BY <1>4, <2>1 DEF RowWrites, Made, MlTables
  <2> QED BY <2>2, MlInserted, MlSaved, MlSet, MlSynced
<1> QED BY <1>2, <1>3, <1>4

LEMMA HandKept ==
    ASSUME NEW q, NEW c, Plays(q, c), HandRows
    PROVE  HandRows'
<1>1. Acts(q, c) /\ Foot(q, c)
  BY DEF Plays, Acts
<1>2. SUFFICES ASSUME NEW k \in DOMAIN rows', k[1] \in {"deployment", "finding"}
               PROVE  rows'[k].ref = Null
  BY DEF HandRows
<1>3. MlRow(q, c, k)
  <2>1. k[1] \in MlTables \ {"project"}
    BY <1>2 DEF MlTables
  <2> QED BY <1>1, <2>1, MlRows
<1>4. CASE k \in DOMAIN rows
  BY <1>2, <1>3, <1>4 DEF MlRow, OldRow, HandRows
<1>5. CASE k \notin DOMAIN rows
  <2>1. FreshRow(q, c, k) /\ c \in RowWrites
    BY <1>1, <1>2, <1>3, <1>5 DEF MlRow, Foot
  <2>2. ~(c[1] = "sync")
    BY <1>2, <2>1 DEF FreshRow, Made, RowWrites
  <2> QED BY <2>1, <2>2 DEF FreshRow
<1> QED BY <1>4, <1>5

LEMMA ModelKept ==
    ASSUME NEW q, NEW c, Plays(q, c), ModelInv
    PROVE  ModelInv'
<1>1. PICK L, m, N : L = Left(q) /\ m = Mem(q) /\ N = Left(q)'
  OBVIOUS
<1>2. /\ q \in Requests /\ Knows(q) /\ c \in L /\ Acts(q, c) /\ MlDeed(q, c) /\ Planned(L)
      /\ (Turned(q, c) \/ OnWith(q, c)) /\ (\A p \in Requests : p # q => Left(p) = {})
      /\ "model" \in Tables /\ c \in AllCalls
  BY <1>1 DEF Plays, Acts, ContentInv, Now, Tables, MlTables
<1>3. Null \notin Refs
  BY RowsAssumption
<1>4. SUFFICES ASSUME NEW i \in Requests, <<"model", i>> \in DOMAIN rows'
               PROVE  \/ rows'[<<"model", i>>].ref # Null
                      \/ /\ <<"version", i>> \in DOMAIN rows' /\ rows'[<<"version", i>>].parent = i
                         /\ rows'[<<"version", i>>].ref = Null
                      \/ <<"firstVersion", "model">> \in Left(i)'
  BY DEF ModelInv
<1>5. PICK k, v : k = <<"model", i>> /\ v = <<"version", i>>
  OBVIOUS
<1>6. MlRow(q, c, k) /\ MlRow(q, c, v)
  <2>1. k[1] \in MlTables \ {"project"} /\ v[1] \in MlTables \ {"project"}
    BY <1>5 DEF MlTables
  <2> QED BY <1>2, <2>1, MlRows
<1>7. c[1] = "sync" => m.ref \in Refs
  BY <1>1, <1>2, MlSynced
<1>8. CASE k \notin DOMAIN rows
  <2>1. FreshRow(q, c, k)
    BY <1>4, <1>5, <1>6, <1>8 DEF MlRow
  <2>2. i = q /\ Made(c) = "model"
    BY <1>5, <2>1 DEF FreshRow
  <2>3. CASE c[1] = "sync"
    BY <1>1, <1>3, <1>5, <1>7, <2>1, <2>3 DEF FreshRow
  <2>4. CASE c[1] = "insert"
    <3>1. c = <<"insert", "model">>
      BY <1>2, <2>2, <2>4 DEF AllCalls, Made
    <3>2. <<"firstVersion", "model">> \in L
      BY <1>2, <3>1 DEF Planned
    <3>3. ~Turned(q, c) /\ OnWith(q, c)
      BY <1>2, <3>1 DEF Turned, Door, Looks
    <3> QED BY <1>1, <2>2, <3>1, <3>2, <3>3 DEF OnWith
  <2> QED BY <2>1, <2>2, <2>3, <2>4 DEF FreshRow, Made
<1>9. CASE k \in DOMAIN rows
  <2>1. rows'[k].ref = rows[k].ref
    BY <1>6, <1>9 DEF MlRow, OldRow
  <2>2. \/ rows[k].ref # Null
        \/ v \in DOMAIN rows /\ rows[v].parent = i /\ rows[v].ref = Null
        \/ <<"firstVersion", "model">> \in Left(i)
    BY <1>5, <1>9 DEF ModelInv
  <2>3. CASE rows[k].ref # Null
    BY <1>5, <2>1, <2>3
  <2>4. CASE v \in DOMAIN rows /\ rows[v].parent = i /\ rows[v].ref = Null
    <3>1. v \in DOMAIN rows' /\ rows'[v].ref = Null /\ (rows'[v] = rows[v] \/ rows'[v].parent = rows[v].parent)
      BY <1>1, <1>3, <1>5, <1>6, <1>7, <2>4 DEF MlRow, OldRow
    <3> QED BY <1>5, <2>4, <3>1
  <2>5. CASE <<"firstVersion", "model">> \in Left(i)
    <3>1. i = q
      BY <1>2, <2>5
    <3>2. RowKnown(q, L, m)
      BY <1>1, <1>2, <2>5, <3>1, RowLeft
    <3>3. <<"insert", "model">> \notin L
      BY <1>5, <1>9, <3>1, <3>2 DEF RowKnown, NewRowKnown, Makers, Made
    <3>4. <<"firstVersion", "model">> \in N \/ c = <<"firstVersion", "model">>
      BY <1>1, <2>5, <3>1, <3>3, Excused
    <3>5. ASSUME c = <<"firstVersion", "model">>
          PROVE  v \in DOMAIN rows' /\ rows'[v].parent = i /\ rows'[v].ref = Null
      <4>1. v \notin DOMAIN rows
        BY <1>2, <1>5, <3>1, <3>2, <3>5 DEF RowKnown, NewRowKnown, Makers, Made
      <4>2. v \in DOMAIN rows'
        BY <1>2, <1>5, <3>1, <3>5 DEF MlDeed, CreateMLModelVersion, With
      <4>3. FreshRow(q, c, v)
        BY <1>6, <4>1, <4>2 DEF MlRow
      <4> QED BY <3>1, <3>5, <4>2, <4>3 DEF FreshRow
    <3> QED BY <1>1, <1>5, <3>1, <3>4, <3>5
  <2> QED BY <2>2, <2>3, <2>4, <2>5
<1> QED BY <1>8, <1>9

LEMMA ChainKept ==
    ASSUME NEW q, NEW c, Plays(q, c), ChainInv
    PROVE  ChainInv'
<1>1. PICK L, m : L = Left(q) /\ m = Mem(q)
  OBVIOUS
<1>2. /\ q \in Requests /\ Knows(q) /\ At(q, c) /\ c \in L /\ Foot(q, c) /\ MlDeed(q, c) /\ DeployNow(L, m)
      /\ deployments \in [RowIds -> Seq([from : Statuses, to : Statuses])]
  BY <1>1 DEF Plays, ContentInv, OtherType, Now
<1>3. CASE c # <<"deploy", "version">>
  <2>1. deployments' = deployments
    BY <1>2, <1>3 DEF Foot
  <2> QED BY <2>1 DEF ChainInv
<1>4. CASE c = <<"deploy", "version">>
  <2>1. DeployKnown(L, m)
    BY <1>1, <1>2, <1>4, DeployLeft
  <2>2. m \in DeployMemory /\ m.id \in RowIds
    BY <2>1 DEF DeployKnown, DeployMemory
  <2>3. <<"getStatus", "version">> \notin L
    <3>1. Rank("deploy") = 4 /\ Rank("getStatus") = 1
      BY RankFacts DEF Looks
    <3>2. <<"getStatus", "version">> \in L => Precedes(Rank("deploy"), Rank("getStatus"))
      BY <1>1, <1>2, <1>4, HeadFirst
    <3> QED BY <3>1, <3>2 DEF Precedes
  <2>4. m.from = DeploymentStatus(m.id)
    BY <1>2, <1>4, <2>3 DEF DeployNow
  <2>5. PICK j, s, e : j = m.id /\ s = deployments[j] /\ e = [from |-> m.from, to |-> m.to]
    OBVIOUS
  <2>6. e \in [from : Statuses, to : Statuses] /\ s \in Seq([from : Statuses, to : Statuses])
    BY <1>2, <1>4, <2>1, <2>2, <2>3, <2>5 DEF DeployKnown, DeployMemory
  <2>7. deployments' = [deployments EXCEPT ![j] = Append(s, e)]
    BY <1>1, <1>2, <1>4, <2>5 DEF MlDeed, CreateVersionDeploymentUpdate
  <2>8. SUFFICES ASSUME NEW i \in RowIds, NEW n \in 2..Len(deployments'[i])
                 PROVE  deployments'[i][n].from = deployments'[i][n - 1].to
    BY DEF ChainInv
  <2>9. CASE i # j
    BY <1>2, <2>7, <2>8, <2>9 DEF ChainInv
  <2>10. CASE i = j
    <3>1. deployments'[i] = Append(s, e)
      BY <1>2, <2>2, <2>5, <2>7, <2>10
    <3>2. /\ Len(s) \in Nat /\ Len(Append(s, e)) = Len(s) + 1 /\ Append(s, e)[Len(s) + 1] = e
          /\ \A u \in 1..Len(s) : Append(s, e)[u] = s[u]
      BY <2>6
    <3>3. CASE n = Len(s) + 1
      <4>1. s # <<>> /\ n - 1 = Len(s) /\ Len(s) \in 1..Len(s)
        BY <2>6, <2>8, <3>1, <3>2, <3>3
      <4>2. e.from = s[Len(s)].to
        BY <2>4, <2>5, <4>1 DEF DeploymentStatus
      <4> QED BY <3>1, <3>2, <3>3, <4>1, <4>2
    <3>4. CASE n # Len(s) + 1
      <4>1. n \in 2..Len(s) /\ n \in 1..Len(s) /\ n - 1 \in 1..Len(s)
        BY <2>8, <3>1, <3>2, <3>4
      <4>2. s[n].from = s[n - 1].to
        BY <2>5, <2>8, <2>10, <4>1 DEF ChainInv
      <4> QED BY <3>1, <3>2, <4>1, <4>2
    <3> QED BY <3>3, <3>4
  <2> QED BY <2>9, <2>10
<1> QED BY <1>3, <1>4

(***************************************************************************)
(* The invariant of requests that come one after the other.                *)
(***************************************************************************)
\* A request that is not under way.
LEMMA IdleNow ==
    ASSUME NEW p, Left(p)' = {}
    PROVE  Now(p)'
<1>1. PICK N, n : N = Left(p)' /\ n = Mem(p)'
  OBVIOUS
<1>2. N = {}
  BY <1>1
<1>3. Planned(N) /\ Staged(N)
  BY <1>2 DEF Planned, Staged, After
<1>4. ReadNow(N, n)' /\ HandNow(N, n)' /\ UnderNow(p, N, n)'
  BY <1>2 DEF ReadNow, HandNow, UnderNow
<1>5. ImageNow(N, n)' /\ DocNow(p, N, n)' /\ ChatNow(p, N, n)' /\ FieldsNow(p, N, n)' /\ DeployNow(N, n)'
  BY <1>2 DEF ImageNow, DocNow, ChatNow, FieldsNow, DeployNow
<1> QED BY <1>1, <1>3, <1>4, <1>5 DEF Now

\* Between requests nothing is missing.
Settled ==
    /\ HandRows /\ ChainInv
    /\ \A k \in DOMAIN rows : k[1] = "frame" /\ rows[k].file \in Shots => files[k] = rows[k].file
    /\ \A i \in LiveIds("doc") : rows[<<"doc", i>>].file \notin {Null, Asset} =>
          <<"doc", rows[<<"doc", i>>].file>> \in DOMAIN files
    /\ \A k, l \in DOMAIN rows :
          k[1] = "doc" /\ l[1] = "doc" /\ rows[k].file = rows[l].file /\ rows[k].file \notin {Null, Asset} =>
              k = l
    /\ \A i \in RowIds : messages[i] # <<>> => <<"chat", i>> \in DOMAIN rows
    /\ \A i \in LiveIds("chat") : messages[i] # <<>> => rows[<<"chat", i>>].link = Last(messages[i])
    /\ \A i \in DOMAIN comps : fields[i] = comps[i].by
    /\ \A i \in Requests : <<"model", i>> \in DOMAIN rows =>
          \/ rows[<<"model", i>>].ref # Null
          \/ <<"version", i>> \in DOMAIN rows /\ rows[<<"version", i>>].parent = i /\ rows[<<"version", i>>].ref = Null

LEMMA QuietSettled ==
    ASSUME WholeInv, clean, Quiet
    PROVE  Settled
<1>1. \A q \in Requests : Left(q) = {}
  BY NoCalls DEF Quiet, Busy, Left
<1>2. \A q \in Requests : \A i : ~Redraws(q, i) /\ ~Rewrites(q, i) /\ ~Touches(q, i) /\ ~Refits(q, i)
  BY <1>1 DEF Redraws, Rewrites, Touches, Refits
<1>3. HandRows /\ ImageInv /\ DocInv /\ ChatInv /\ FieldsInv /\ ModelInv /\ ChainInv
  BY DEF WholeInv
<1>4. \A k \in DOMAIN rows : k[1] = "frame" /\ rows[k].file \in Shots => files[k] = rows[k].file
  BY <1>2, <1>3 DEF ImageInv
<1>5. /\ \A i \in LiveIds("doc") : rows[<<"doc", i>>].file \notin {Null, Asset} =>
            <<"doc", rows[<<"doc", i>>].file>> \in DOMAIN files
      /\ \A k, l \in DOMAIN rows :
            k[1] = "doc" /\ l[1] = "doc" /\ rows[k].file = rows[l].file /\ rows[k].file \notin {Null, Asset} =>
                k = l
  BY <1>2, <1>3 DEF DocInv
<1>6. /\ \A i \in RowIds : messages[i] # <<>> => <<"chat", i>> \in DOMAIN rows
      /\ \A i \in LiveIds("chat") : messages[i] # <<>> => rows[<<"chat", i>>].link = Last(messages[i])
  BY <1>2, <1>3 DEF ChatInv
<1>7. \A i \in DOMAIN comps : fields[i] = comps[i].by
  BY <1>2, <1>3 DEF FieldsInv
<1>8. \A i \in Requests : <<"model", i>> \in DOMAIN rows =>
          \/ rows[<<"model", i>>].ref # Null
          \/ <<"version", i>> \in DOMAIN rows /\ rows[<<"version", i>>].parent = i /\ rows[<<"version", i>>].ref = Null
  BY <1>1, <1>3 DEF ModelInv
<1> QED BY <1>3, <1>4, <1>5, <1>6, <1>7, <1>8 DEF Settled

\* A call of a request that nothing overlaps.
LEMMA DidPlays ==
    ASSUME ContentInv, WholeInv, NEW q \in Requests, Did(q), clean'
    PROVE  clean /\ \E c : Plays(q, c)
<1>1. PICK c : /\ At(q, c) /\ Foot(q, c) /\ Walks(q, c)
               /\ RowDeed(q, c) /\ NoteDeed(q, c) /\ MlDeed(q, c)
  BY DEF Did
<1>2. /\ c \in Left(q) /\ c \in AllCalls /\ Op(q) # "none"
      /\ Others(q) /\ Op(q)' = Op(q) /\ clean' = clean /\ Left(q)' \subseteq Left(q)
      /\ Turned(q, c) \/ OnWith(q, c)
  BY <1>1, WalksOn
<1>3. clean
  BY <1>2
<1>4. Alone /\ Now(q)
  BY <1>3 DEF WholeInv
<1>5. \A p \in Requests : p # q => Left(p) = {}
  <2>1. Busy(q)
    BY <1>1 DEF At, Busy
  <2>2. \A p \in Requests : p # q => proc[p].todo = <<>>
    BY <1>4, <2>1 DEF Alone, Busy
  <2> QED BY <2>2, NoCalls DEF Left
<1>6. Plays(q, c)
  BY <1>1, <1>2, <1>4, <1>5 DEF Plays
<1> QED BY <1>3, <1>6

LEMMA WholeCall ==
    ASSUME ContentInv, WholeInv, NEW q \in Requests, Did(q)
    PROVE  WholeInv'
<1>1. SUFFICES ASSUME clean'
               PROVE  /\ Alone' /\ (\A p \in Requests : Now(p)')
                      /\ HandRows' /\ ImageInv' /\ DocInv' /\ ChatInv' /\ FieldsInv' /\ ModelInv' /\ ChainInv'
  BY DEF WholeInv
<1>2. PICK c : clean /\ Plays(q, c)
  BY <1>1, DidPlays
<1>3. HandRows /\ ImageInv /\ DocInv /\ ChatInv /\ FieldsInv /\ ModelInv /\ ChainInv
  BY <1>2 DEF WholeInv
<1>4. HandRows' /\ ImageInv' /\ DocInv' /\ ChatInv' /\ FieldsInv' /\ ModelInv' /\ ChainInv'
  BY <1>2, <1>3, HandKept, ImageKept, DocKept, ChatKept, FieldsKept, ModelKept, ChainKept
<1>5. Others(q) /\ (\A p \in Requests : p # q => Left(p) = {}) /\ Alone /\ At(q, c)
  BY <1>2 DEF Plays, WholeInv
<1>6. \A p \in Requests : p # q => Left(p)' = Left(p) /\ (Busy(p)' <=> Busy(p))
  BY <1>5, OthersLists
<1>7. \A p \in Requests : Now(p)'
  <2>1. SUFFICES ASSUME NEW p \in Requests PROVE Now(p)'
    OBVIOUS
  <2>2. CASE p = q
    BY <1>2, <1>3, <2>2, NowNext
  <2>3. CASE p # q
    BY <1>5, <1>6, <2>3, IdleNow
  <2> QED BY <2>2, <2>3
<1>8. Alone'
  <2>1. Busy(q)
    BY <1>5 DEF At, Busy
  <2>2. \A p \in Requests : p # q => ~Busy(p)'
    BY <1>5, <1>6, <2>1 DEF Alone
  <2> QED BY <2>2 DEF Alone
<1> QED BY <1>4, <1>7, <1>8

\* A request that arrives has read nothing, and its calls are yet to come.
LEMMA StartNow ==
    ASSUME NEW q \in Requests, StartOK(q), DocInv, Stays
    PROVE  Now(q)'
<1>1. PICK N, n : N = Left(q)' /\ n = Mem(q)'
  OBVIOUS
<1>2. Laid(N) /\ Begins(N) /\ Given(q, Op(q)', N, n) /\ Op(q) = "none"
  BY <1>1 DEF StartOK, Laid
<1>3. Planned(N) /\ Staged(N)
  BY <1>2, LaidIsPlanned
<1>4. NoGetter(N) => \A c \in N : ~(c[1] \in Renews /\ c[2] \in Tables)
  BY <1>2 DEF NoGetter, Begins
<1>5. ReadNow(N, n)'
  BY <1>4 DEF ReadNow, NoGetter
<1>6. HandNow(N, n)'
  <2>1. HandSaved \subseteq Tables /\ "experiment" \in Tables /\ "save" \in Renews /\ "saveExperiment" \in Renews
    BY DEF HandSaved, Tables, MlTables, Renews
  <2> QED BY <1>4, <2>1 DEF HandNow, NoGetter
<1>7. UnderNow(q, N, n)'
  BY <1>2 DEF Begins, UnderNow
<1>8. ImageNow(N, n)'
  <2>1. <<"insert", "frame">> \in N => n.held = Null
    BY <1>2 DEF Given, FrameCalls
  <2>2. N \cap FrameWrites # {} => <<"resolve", "frame">> \in N
    BY <1>2 DEF Begins
  <2> QED BY <2>1, <2>2 DEF ImageNow
<1>9. DocNow(q, N, n)'
  <2>1. N \cap DocCalls # {} => n.file \in {q, Asset, Null} /\ <<"store", "doc">> \in N
    BY <1>2 DEF Begins, Given
  <2>2. \A k \in DOMAIN rows' : k[1] = "doc" => rows'[k].file # q
    BY <1>2 DEF Stays, DocInv
  <2> QED BY <2>1, <2>2 DEF DocNow
<1>10. ChatNow(q, N, n)' /\ FieldsNow(q, N, n)' /\ DeployNow(N, n)'
  BY <1>2 DEF Begins, ChatNow, FieldsNow, DeployNow
<1> QED BY <1>1, <1>3, <1>5, <1>6, <1>7, <1>8, <1>9, <1>10 DEF Now

LEMMA StartsStay ==
    ASSUME NEW q, Starts(q)
    PROVE  Stays
<1>1. \/ UNCHANGED <<rowVars, noteVars, deployments>>
      \/ UNCHANGED <<rowVars, noteVars>> /\ UNCHANGED deployments
      \/ UNCHANGED <<rowVars, deployments>> /\ UNCHANGED noteVars
  BY DEF Starts, MapStart, NoteStart, MlStart
<1> QED BY <1>1 DEF Stays, rowVars, noteVars

\* What is settled stays so while nothing is written, and needs no excuse.
LEMMA SettledStays ==
    ASSUME Settled, Stays, DocInv,
           \A p \in Requests : Op(p)' = "none" => Op(p) = "none"
    PROVE  HandRows' /\ ImageInv' /\ DocInv' /\ ChatInv' /\ FieldsInv' /\ ModelInv' /\ ChainInv'
<1>1. /\ rows' = rows /\ files' = files /\ messages' = messages /\ comps' = comps /\ fields' = fields
      /\ deployments' = deployments
  BY DEF Stays
<1>2. HandRows' /\ ChainInv'
  BY <1>1 DEF Settled, HandRows, ChainInv
<1>3. ImageInv'
  BY <1>1 DEF Settled, ImageInv
<1>4. LiveIds("doc")' = LiveIds("doc") /\ LiveIds("chat")' = LiveIds("chat")
  BY <1>1 DEF LiveIds, Live
<1>5. DocInv'
  <2>1. \A p \in Requests : Op(p)' = "none" => \A k \in DOMAIN rows : k[1] = "doc" => rows[k].file # p
    BY DEF DocInv
  <2>2. /\ \A i \in LiveIds("doc")' : rows'[<<"doc", i>>].file \notin {Null, Asset} =>
              <<"doc", rows'[<<"doc", i>>].file>> \in DOMAIN files'
        /\ \A k, l \in DOMAIN rows' :
              k[1] = "doc" /\ l[1] = "doc" /\ rows'[k].file = rows'[l].file
                /\ rows'[k].file \notin {Null, Asset} => k = l
    BY <1>1, <1>4 DEF Settled
  <2> QED BY <1>1, <2>1, <2>2 DEF DocInv
<1>6. ChatInv'
  BY <1>1, <1>4 DEF Settled, ChatInv
<1>7. FieldsInv' /\ ModelInv'
  BY <1>1 DEF Settled, FieldsInv, ModelInv
<1> QED BY <1>2, <1>3, <1>5, <1>6, <1>7

LEMMA WholeStart ==
    ASSUME ContentInv, WholeInv, NEW q \in Requests, Starts(q)
    PROVE  WholeInv'
<1>1. SUFFICES ASSUME clean'
               PROVE  /\ Alone' /\ (\A p \in Requests : Now(p)')
                      /\ HandRows' /\ ImageInv' /\ DocInv' /\ ChatInv' /\ FieldsInv' /\ ModelInv' /\ ChainInv'
  BY DEF WholeInv
<1>2. StartOK(q) /\ Stays
  BY StartsCount, StartsStay
<1>3. clean /\ Quiet /\ Op(q) = "none" /\ Others(q)
  BY <1>1, <1>2 DEF StartOK, RowStepOK
<1>4. DocInv /\ Settled
  BY <1>3, QuietSettled DEF WholeInv
<1>5. HandRows' /\ ImageInv' /\ DocInv' /\ ChatInv' /\ FieldsInv' /\ ModelInv' /\ ChainInv'
  <2>1. \A p \in Requests : Op(p)' = "none" => Op(p) = "none"
    BY <1>3 DEF Others, Op
  <2> QED BY <1>2, <1>4, <2>1, SettledStays
<1>6. \A p \in Requests : p # q => Left(p)' = Left(p) /\ (Busy(p)' <=> Busy(p))
  BY <1>3, OthersLists
<1>7. \A p \in Requests : Left(p) = {} /\ ~Busy(p)
  BY <1>3, NoCalls DEF Quiet, Busy, Left
<1>8. \A p \in Requests : Now(p)'
  <2>1. SUFFICES ASSUME NEW p \in Requests PROVE Now(p)'
    OBVIOUS
  <2>2. CASE p = q
    BY <1>2, <1>4, <2>2, StartNow
  <2>3. CASE p # q
    BY <1>6, <1>7, <2>3, IdleNow
  <2> QED BY <2>2, <2>3
<1>9. Alone'
  BY <1>6, <1>7 DEF Alone
<1> QED BY <1>5, <1>8, <1>9

LEMMA WholeNext == ContentInv /\ WholeInv /\ [Next]_vars => WholeInv'
<1> SUFFICES ASSUME ContentInv, WholeInv, [Next]_vars PROVE WholeInv'
  OBVIOUS
<1>1. CASE UNCHANGED vars
  <2>1. /\ proc' = proc /\ clean' = clean /\ rows' = rows /\ files' = files /\ messages' = messages
        /\ comps' = comps /\ fields' = fields /\ deployments' = deployments
    BY <1>1 DEF vars, rowVars, noteVars
  <2>2. \A p, i : Live(p, i)' <=> Live(p, i)
    BY <2>1 DEF Live
  <2>3. \A p \in Requests : /\ Left(p)' = Left(p) /\ Mem(p)' = Mem(p) /\ Op(p)' = Op(p)
                            /\ Busy(p)' <=> Busy(p)
    BY <2>1 DEF Left, Mem, Op, Busy
  <2>4. Alone => Alone'
    BY <2>3 DEF Alone
  <2>5. \A p \in Requests : Now(p) => Now(p)'
    <3>1. SUFFICES ASSUME NEW p \in Requests, Now(p) PROVE Now(p)'
      OBVIOUS
    <3>2. PICK L, m : L = Left(p) /\ m = Mem(p)
      OBVIOUS
    <3>3. /\ Planned(L) /\ Staged(L) /\ ReadNow(L, m) /\ HandNow(L, m) /\ UnderNow(p, L, m)
          /\ ImageNow(L, m) /\ DocNow(p, L, m) /\ ChatNow(p, L, m) /\ FieldsNow(p, L, m) /\ DeployNow(L, m)
      BY <3>1, <3>2 DEF Now
    <3>4. ReadNow(L, m)' /\ HandNow(L, m)' /\ UnderNow(p, L, m)'
      BY <2>1, <2>2, <3>3 DEF ReadNow, HandNow, UnderNow
    <3>5. ImageNow(L, m)' /\ DocNow(p, L, m)' /\ ChatNow(p, L, m)' /\ FieldsNow(p, L, m)' /\ DeployNow(L, m)'
      BY <2>1, <3>3 DEF ImageNow, DocNow, ChatNow, FieldsNow, DeployNow, DeploymentStatus
    <3> QED BY <2>3, <3>2, <3>3, <3>4, <3>5 DEF Now
  <2>6. /\ HandRows => HandRows'
        /\ ImageInv => ImageInv'
        /\ FieldsInv => FieldsInv'
        /\ ModelInv => ModelInv'
        /\ ChainInv => ChainInv'
    BY <2>1, <2>3 DEF HandRows, ImageInv, Redraws, FieldsInv, Refits, ModelInv, ChainInv
  <2>7. (DocInv => DocInv') /\ (ChatInv => ChatInv')
    BY <2>1, <2>3 DEF DocInv, Rewrites, LiveIds, Live, ChatInv, Touches
  <2> QED BY <2>1, <2>4, <2>5, <2>6, <2>7 DEF WholeInv
<1>2. CASE Next
  <2>1. PICK q \in Requests : Starts(q) \/ Did(q) \/ Fails(q)
    BY <1>2, StepsDone DEF Next
  <2>2. CASE Fails(q)
    BY <2>2 DEF Fails, Skips, Aborts, WholeInv
  <2> QED BY <2>1, <2>2, WholeStart, WholeCall
<1> QED BY <1>1, <1>2

LEMMA WholeInit == Init => WholeInv
<1> SUFFICES ASSUME Init PROVE WholeInv
  OBVIOUS
<1>1. /\ proc = [q \in Requests |-> [op |-> "none", todo |-> <<>>, mem |-> NoMem]]
      /\ files = [k \in {x \in DOMAIN rows : rows[x].file = Seed} |-> Seed]
      /\ deployments = [i \in RowIds |-> <<>>] /\ messages = [i \in RowIds |-> <<>>] /\ comps = [i \in {} |-> Null]
  BY DEF Init, ReqsInit
<1>2. \A k \in DOMAIN rows :
        /\ k = <<k[1], Seed>> /\ k[2] = Seed /\ rows[k].state = "live"
        /\ rows[k].file \in {Seed, Null} /\ (k[1] = "frame" => rows[k].file = Null)
        /\ k[1] \in {"deployment", "finding"} => rows[k].ref = Null
  BY InitRows
<1>3. Seed \notin Requests /\ Null \notin Requests /\ Null \notin Shots
  BY RowsAssumption
<1>4. \A q \in Requests : Left(q) = {} /\ ~Busy(q)
  BY <1>1, NoCalls DEF Left, Busy
<1>5. Alone
  BY <1>4 DEF Alone
<1>6. \A q \in Requests : Now(q)
  <2>1. SUFFICES ASSUME NEW q \in Requests PROVE Now(q)
    OBVIOUS
  <2>2. PICK L, m : L = Left(q) /\ m = Mem(q)
    OBVIOUS
  <2>3. L = {}
    BY <1>4, <2>2
  <2>4. Planned(L) /\ Staged(L) /\ ReadNow(L, m) /\ HandNow(L, m) /\ UnderNow(q, L, m)
    BY <2>3 DEF Planned, Staged, After, ReadNow, HandNow, UnderNow
  <2>5. ImageNow(L, m) /\ DocNow(q, L, m) /\ ChatNow(q, L, m) /\ FieldsNow(q, L, m) /\ DeployNow(L, m)
    BY <2>3 DEF ImageNow, DocNow, ChatNow, FieldsNow, DeployNow
  <2> QED BY <2>2, <2>4, <2>5 DEF Now
<1>7. HandRows /\ ImageInv
  BY <1>2, <1>3 DEF HandRows, ImageInv
<1>8. DocInv
  <2>1. \A k \in DOMAIN rows : rows[k].file # Null => k \in DOMAIN files /\ rows[k].file = Seed
    BY <1>1, <1>2
  <2>2. \A i \in LiveIds("doc") : <<"doc", i>> \in DOMAIN rows /\ i = Seed
    BY <1>2 DEF LiveIds, Live
  <2>3. \A i \in LiveIds("doc") : rows[<<"doc", i>>].file \notin {Null, Asset} =>
            <<"doc", rows[<<"doc", i>>].file>> \in DOMAIN files
    BY <2>1, <2>2
  <2>4. \A k, l \in DOMAIN rows : k[1] = "doc" /\ l[1] = "doc" => k = l
    BY <1>2
  <2>5. \A q \in Requests : \A k \in DOMAIN rows : rows[k].file # q
    BY <1>2, <1>3
  <2> QED BY <2>3, <2>4, <2>5 DEF DocInv
<1>9. ChatInv
  BY <1>1 DEF ChatInv, LiveIds
<1>10. FieldsInv
  BY <1>1 DEF FieldsInv
<1>11. ModelInv
  <2>1. \A i : <<"model", i>> \in DOMAIN rows => i = Seed
    BY <1>2
  <2> QED BY <1>3, <2>1 DEF ModelInv
<1>12. ChainInv
  BY <1>1 DEF ChainInv
<1> QED BY <1>5, <1>6, <1>7, <1>8, <1>9, <1>10, <1>11, <1>12 DEF WholeInv

LEMMA WholeInvariant == Spec => []WholeInv
BY ContentInvariant, WholeInit, WholeNext, PTL DEF Spec

\* What a request does stays what it is.
LEMMA AdvancesOp ==
    ASSUME ProcType, NEW q \in Requests, Advances(q)
    PROVE  Op(q)' = Op(q)
<1>1. q \in DOMAIN proc /\ proc[q].op = Op(q) /\ DOMAIN proc[q] = {"op", "todo", "mem"}
  BY DEF ProcType, ReqsType, Op
<1>2. CASE (\E m : Keeps(q, m)) \/ Ends(q)
  <2>1. PICK t, m : Goes(q, t, m)
    BY <1>2 DEF Keeps, Ends
  <2>2. PICK n : n = IF t = <<>> THEN NoMem ELSE m
    OBVIOUS
  <2>3. proc' = [proc EXCEPT ![q] = [op |-> proc[q].op, todo |-> t, mem |-> n]]
    BY <2>1, <2>2 DEF Goes
  <2> QED BY <1>1, <2>3 DEF Op
<1>3. CASE Skips(q)
  <2>1. PICK t, n : t = Tail(proc[q].todo) /\ n = IF Len(proc[q].todo) = 1 THEN NoMem ELSE proc[q].mem
    OBVIOUS
  <2>2. proc' = [proc EXCEPT ![q].todo = t, ![q].mem = n]
    BY <1>3, <2>1 DEF Skips
  <2> QED BY <1>1, <2>2 DEF Op
<1>4. CASE Aborts(q)
  BY <1>1, <1>4 DEF Aborts, Op
<1> QED BY <1>2, <1>3, <1>4 DEF Advances

LEMMA RouteNext == ContentInv /\ RouteInv /\ [Next]_vars => RouteInv'
<1> SUFFICES ASSUME ContentInv, RouteInv, [Next]_vars PROVE RouteInv'
  OBVIOUS
<1>1. CASE UNCHANGED vars
  <2>1. \A p \in Requests : Left(p)' = Left(p) /\ Op(p)' = Op(p)
    BY <1>1 DEF vars, Left, Op
  <2> QED BY <2>1 DEF RouteInv
<1>2. CASE Next
  <2>1. PICK q \in Requests :
          \/ Starts(q)
          \/ MapStep(q) /\ UNCHANGED <<noteVars, deployments>>
          \/ NoteStep(q) /\ UNCHANGED <<deployments, failedOpen>>
          \/ MlStep(q) /\ UNCHANGED <<noteVars, failedOpen>>
          \/ Aborts(q) /\ UNCHANGED <<rowVars, noteVars, deployments, failedOpen>>
    BY <1>2 DEF Next
  <2>2. /\ Others(q)
        /\ \/ Given(q, Op(q)', Left(q)', Mem(q)')
           \/ Op(q)' = Op(q) /\ Left(q)' \subseteq Left(q)
    <3>1. CASE Starts(q)
      BY <3>1, StartsCount DEF StartOK, RowStepOK
    <3>2. CASE ~Starts(q)
      <4>1. Works(q) /\ ProcType /\ Knows(q)
        BY <2>1, <3>2, StepsWork DEF ContentInv
      <4>2. PICK c : At(q, c) /\ Advances(q)
        BY <4>1 DEF Works
      <4> QED BY <4>1, <4>2, AdvancesOn, AdvancesOp
    <3> QED BY <3>1, <3>2
  <2>3. \A p \in Requests : p # q => Left(p)' = Left(p) /\ Op(p)' = Op(p)
    BY <2>2 DEF Others, Left, Op
  <2>4. SUFFICES ASSUME NEW p \in Requests
                 PROVE  /\ Op(p)' \in DOMAIN MlSyncs => \A c \in Left(p)' : c[1] = "sync"
                        /\ \A t \in Tables : <<"sync", t>> \in Left(p)' =>
                              Op(p)' \in DOMAIN MlSyncs /\ MlSyncs[Op(p)'].table = t
    BY DEF RouteInv
  <2>5. CASE p # q
    BY <2>3, <2>4, <2>5 DEF RouteInv
  <2>6. CASE p = q
    <3>1. PICK o, N, n : o = Op(q)' /\ N = Left(q)' /\ n = Mem(q)'
      OBVIOUS
    <3>2. CASE Given(q, o, N, n)
      BY <2>6, <3>1, <3>2 DEF Given
    <3>3. CASE o = Op(q) /\ N \subseteq Left(q)
      BY <2>6, <3>1, <3>3 DEF RouteInv
    <3> QED BY <2>2, <3>1, <3>2, <3>3
  <2> QED BY <2>5, <2>6
<1> QED BY <1>1, <1>2

LEMMA RouteInvariant == Spec => []RouteInv
<1>1. ASSUME Init PROVE RouteInv
  <2>1. \A q \in Requests : Left(q) = {}
    BY <1>1, NoCalls DEF Init, ReqsInit, Left
  <2> QED BY <2>1 DEF RouteInv
<1> QED BY <1>1, ContentInvariant, RouteNext, PTL DEF Spec

\* When requests that came one after the other are over, what they wrote in
\* several places agrees: the image of a frame with the hash in its row, a
\* document with its file although the old one goes first, a session with its
\* last message, a component with its fields, a model with its first version and
\* each deployment update with the one before.
THEOREM ContentQuietIsWhole == Spec => []QuietIsWhole
<1>1. ASSUME ContentInv, WholeInv PROVE QuietIsWhole
  <2>1. DeploymentLogChained
    BY <1>1 DEF DeploymentLogChained, WholeInv, ChainInv
  <2>2. ASSUME clean, Quiet
        PROVE  Settled
    BY <1>1, <2>2, QuietSettled
  <2>3. ScreenshotMatchesHash
    BY <1>1, <2>2 DEF ScreenshotMatchesHash, Settled, ContentInv, RowsInv, RowOK
  <2>4. DocFileStored
    BY <2>2 DEF DocFileStored, Settled
  <2>5. ChatShowsLatest
    BY <2>2 DEF ChatShowsLatest, Settled, Last
  <2>6. ComponentWhole
    BY <2>2 DEF ComponentWhole, Settled
  <2>7. ModelHasVersion
    <3>1. \A i \in LiveIds("model") \ {Seed} : i \in Requests /\ <<"model", i>> \in DOMAIN rows
      BY DEF LiveIds, Live, RowIds
    <3>2. \A i \in Requests : <<"version", i>> \in DOMAIN rows => i \in Known("version")
      BY DEF Known, RowIds
    <3> QED BY <2>2, <3>1, <3>2 DEF ModelHasVersion, Settled, Synced
  <2> QED BY <2>1, <2>3, <2>4, <2>5, <2>6, <2>7 DEF QuietIsWhole
<1> QED BY <1>1, ContentInvariant, WholeInvariant, PTL

(***************************************************************************)
(* What a request writes.                                                  *)
(***************************************************************************)
\* A step that changes rows is a call that is done, or clears clean.
LEMMA DidActs ==
    ASSUME ContentInv, NEW q \in Requests, Did(q)
    PROVE  clean' = clean /\ \E c : Acts(q, c) /\ (WholeInv /\ clean => Plays(q, c))
<1>1. PICK c : /\ At(q, c) /\ Foot(q, c) /\ Walks(q, c)
               /\ RowDeed(q, c) /\ NoteDeed(q, c) /\ MlDeed(q, c)
  BY DEF Did
<1>2. c \in Left(q) /\ c \in AllCalls /\ clean' = clean
  BY <1>1, WalksOn
<1>3. Acts(q, c)
  BY <1>1, <1>2 DEF Acts
<1>4. ASSUME WholeInv, clean PROVE Plays(q, c)
  <2>1. \E d : Plays(q, d)
    BY <1>2, <1>4, DidPlays
  <2>2. PICK d : Plays(q, d)
    BY <2>1
  <2>3. d = c
    BY <1>1, <2>2 DEF Plays, At
  <2> QED BY <2>2, <2>3
<1> QED BY <1>2, <1>3, <1>4

\* The step of Next, and whose it is.
LEMMA NextDone ==
    ASSUME ContentInv, Next
    PROVE  \E q \in Requests :
             /\ \A p \in Requests : proc'[p] # proc[p] => p = q
             /\ \/ Did(q)
                \/ rows' = rows /\ (clean' => \A c : ~At(q, c))
<1>1. PICK q \in Requests : /\ Starts(q) \/ Did(q) \/ Fails(q)
                            /\ StepOK(q)
  BY StepsDone, StepsDoOK DEF Next
<1>2. \A p \in Requests : proc'[p] # proc[p] => p = q
  BY <1>1 DEF StepOK, RowStepOK, Others
<1>3. CASE Starts(q)
  <2>1. rows' = rows
    BY <1>3, StartsStay DEF Stays
  <2>2. Op(q) = "none" /\ Knows(q)
    BY <1>3, StartsCount DEF StartOK, ContentInv
  <2>3. \A c : ~At(q, c)
    BY <2>2, AtCall
  <2> QED BY <1>2, <2>1, <2>3
<1>4. CASE Fails(q)
  <2>1. rows' = rows /\ ~clean'
    BY <1>4 DEF Fails, Skips, Aborts
  <2> QED BY <1>2, <2>1
<1> QED BY <1>1, <1>2, <1>3, <1>4

LEMMA UpdatesExactly ==
    ASSUME NEW q, NEW c, Plays(q, c), NEW k \in DOMAIN rows, c = <<"save", k[1]>>, Mem(q).id = k[2]
    PROVE  \A o \in Columns : rows'[k][o] = IF o \in Mem(q).gives THEN q ELSE rows[k][o]
<1>1. PICK m, t, w : m = Mem(q) /\ t = k[1] /\ w = rows[k]
  OBVIOUS
<1>2. /\ q \in Requests /\ RowDeed(q, c) /\ (Turned(q, c) \/ OnWith(q, c)) /\ t \in Tables /\ k = <<t, m.id>>
      /\ w \in Row
  BY <1>1 DEF Plays, ContentInv, RowsTypeOK
<1>3. t \notin {"canvas", "component"}
  BY <1>1, <1>2, TablesApart DEF RowDeed, RowWrites
<1>4. c[1] \in Renews /\ c[2] = t /\ c = <<"save", t>>
  BY <1>1 DEF Renews
<1>5. OnWith(q, c)
  BY <1>2, <1>3, <1>4 DEF Turned, Door, Looks
<1>6. m \in RowMemory /\ Live(t, m.id) /\ m.held = w
  BY <1>1, <1>2, <1>3, <1>4, <1>5, AtRenews
<1>7. PICK r : r = Merged(m, q, t, w)
  OBVIOUS
<1>8. rows' = With(rows, k, r)
  <2>1. Saves(q, t)
    BY <1>2, <1>4 DEF RowDeed
  <2>2. rows' = With(rows, <<t, m.id>>, Merged(m, q, t, rows[<<t, m.id>>]))
    BY <1>1, <1>6, <2>1 DEF Saves
  <2>3. rows[<<t, m.id>>] = w
    BY <1>1, <1>2
  <2> QED BY <1>2, <1>7, <2>2, <2>3
<1>9. /\ r.name = IF "name" \in m.gives THEN q ELSE w.name
      /\ r.note = IF "note" \in m.gives THEN q ELSE w.note
  BY <1>2, <1>6, <1>7, MergedFacts DEF RowMemory
<1>10. rows'[k] = r
  BY <1>8 DEF With
<1> QED BY <1>1, <1>9, <1>10 DEF Columns

\* By hand the name of a synced row is not changed.
LEMMA HandKeepsName ==
    ASSUME NEW q, NEW c, Plays(q, c), HandRows, NEW k \in DOMAIN rows, k[1] \in MlTables \ {"project"},
           rows[k].ref # Null, rows'[k].name # rows[k].name
    PROVE  c[1] = "sync"
<1>1. PICK L, m, t : L = Left(q) /\ m = Mem(q) /\ t = k[1]
  OBVIOUS
<1>2. /\ c \in L /\ HandNow(L, m) /\ (Turned(q, c) \/ OnWith(q, c)) /\ Foot(q, c) /\ Acts(q, c)
      /\ k = <<t, k[2]>> /\ t \in Tables
  BY <1>1 DEF Plays, Now, Acts, ContentInv, RowsTypeOK
<1>3. OldRow(q, c, k)
  BY <1>2, MlRows DEF MlRow
<1>4. SUFFICES ASSUME c[1] # "sync" PROVE FALSE
  OBVIOUS
<1>5. /\ c \in {<<"save", t>>, <<"saveExperiment", "experiment">>, <<"saveFinding", "finding">>}
      /\ c[2] = t /\ k[2] = m.id
      /\ rows'[k].name = IF "name" \in m.gives THEN q ELSE m.held.name
  BY <1>1, <1>3, <1>4 DEF OldRow
<1>6. c \in RowWrites
  BY <1>2 DEF Foot
<1>7. c[1] \in Renews /\ t # "canvas"
  BY <1>1, <1>5 DEF Renews, MlTables
<1>8. OnWith(q, c)
  BY <1>2, <1>5, TablesApart DEF Turned, Door, Looks
<1>9. NoGetter(L) /\ m.held = rows[k]
  BY <1>1, <1>2, <1>5, <1>7, <1>8, AtRenews
<1>10. "name" \in m.gives
  BY <1>5, <1>9
<1>11. t \notin {"deployment", "finding"}
  BY <1>1 DEF HandRows
<1>12. CASE c = <<"save", t>>
  <2>1. t \in HandSaved
    BY <1>1, <1>6, <1>11, <1>12 DEF RowWrites, HandSaved, MlTables
  <2> QED BY <1>2, <1>9, <1>12, <2>1 DEF HandNow
<1>13. CASE c = <<"saveExperiment", "experiment">>
  BY <1>2, <1>9, <1>10, <1>13 DEF HandNow, OnlyTags
<1> QED BY <1>5, <1>11, <1>12, <1>13

\* What is made is made under rows that are there.
LEMMA MadeUnder ==
    ASSUME NEW q, NEW c, Plays(q, c), NEW k \in DOMAIN rows', k[1] \in MlTables, k \notin DOMAIN rows
    PROVE  UnderLive(k[1], rows'[k])
<1>1. PICK L, m, t, r : L = Left(q) /\ m = Mem(q) /\ t = k[1] /\ r = rows'[k]
  OBVIOUS
<1>2. q \in Requests /\ Knows(q) /\ At(q, c) /\ c \in L /\ UnderNow(q, L, m) /\ Foot(q, c) /\ Acts(q, c) /\ c \in AllCalls
  BY <1>1 DEF Plays, Now, Acts, ContentInv
<1>3. CASE t = "project"
  BY <1>1, <1>3 DEF UnderLive
<1>4. CASE t # "project"
  <2>1. FreshRow(q, c, k)
    BY <1>1, <1>2, <1>4, MlRows DEF MlRow
  <2>2. c \in RowWrites /\ Made(c) = t
    BY <1>1, <1>2, <2>1 DEF Foot, FreshRow
  <2>3. CASE c[1] = "insert"
    <3>1. c = <<"insert", t>> /\ t # "version" /\ r.parent = m.parent /\ r.link = m.link
      BY <1>1, <1>2, <2>1, <2>2, <2>3 DEF FreshRow, RowWrites, Made, AllCalls
    <3>2. Rank("insert") = 4 /\ Rank("ensure") = 1 /\ Rank("ensureIf") = 1
      BY RankFacts DEF Looks
    <3>3. \A d \in L : d = c \/ Precedes(4, Rank(d[1]))
      BY <1>1, <1>2, <3>1, <3>2, HeadFirst
    <3>4. \A s : <<"ensure", s>> \notin L /\ <<"ensureIf", s>> \notin L
      BY <3>1, <3>2, <3>3 DEF Precedes
    <3>5. /\ t \in Owned => Live(Over(t), m.parent)
          /\ t \in Linked => m.link = Null \/ Live("version", m.link)
      BY <1>2, <3>1, <3>4 DEF UnderNow
    <3> QED BY <1>1, <3>1, <3>5 DEF UnderLive, Owned, Over, Linked
  <2>4. CASE c = <<"firstVersion", "model">>
    <3>1. t = "version" /\ r.parent = q
      BY <1>1, <2>1, <2>2, <2>4 DEF FreshRow, Made
    <3>2. Rank("insert") = 4 /\ Rank("firstVersion") = 5
      BY RankFacts
    <3>3. \A d \in L : d = c \/ Precedes(5, Rank(d[1]))
      BY <1>1, <1>2, <2>4, <3>2, HeadFirst
    <3>4. <<"insert", "model">> \notin L
      BY <2>4, <3>2, <3>3 DEF Precedes
    <3> QED BY <1>1, <1>2, <2>4, <3>1, <3>4 DEF UnderNow, UnderLive
  <2>5. CASE c[1] = "sync"
    BY <1>1, <2>1, <2>2, <2>5 DEF FreshRow, Made
  <2> QED BY <2>1, <2>3, <2>4, <2>5 DEF FreshRow
<1> QED BY <1>3, <1>4

\* A request changes what it is about and nothing else: an update that nothing
\* overlaps the columns its body gives, a sync what came from MLflow, whatever
\* overlaps, and requests by hand nothing that MLflow says; what is made while
\* nothing overlaps is made under rows that the handler found there.
THEOREM ContentWritesExact == Spec => WritesExact
<1>1. ASSUME ContentInv, WholeInv, [Next]_vars
      PROVE  [\A q \in Requests, k \in DOMAIN rows :
                 (/\ clean' /\ proc'[q] # proc[q] /\ At(q, <<"save", k[1]>>)
                  /\ Mem(q).id = k[2] /\ rows[k].state = "live") =>
                     \A c \in Columns :
                         rows'[k][c] = IF c \in Mem(q).gives THEN q ELSE rows[k][c]]_<<rows, proc, clean>>
  <2>1. CASE UNCHANGED vars
    BY <2>1 DEF vars, rowVars
  <2>2. CASE Next
    <3>1. PICK p \in Requests : /\ \A s \in Requests : proc'[s] # proc[s] => s = p
                                /\ \/ Did(p)
                                   \/ rows' = rows /\ (clean' => \A c : ~At(p, c))
      BY <1>1, <2>2, NextDone
    <3>2. SUFFICES ASSUME NEW q \in Requests, NEW k \in DOMAIN rows,
                          clean', proc'[q] # proc[q], At(q, <<"save", k[1]>>), Mem(q).id = k[2]
                   PROVE  \A c \in Columns :
                            rows'[k][c] = IF c \in Mem(q).gives THEN q ELSE rows[k][c]
      OBVIOUS
    <3>3. p = q /\ Did(q)
      BY <3>1, <3>2
    <3>4. PICK c : Plays(q, c)
      BY <1>1, <3>2, <3>3, DidPlays
    <3>5. c = <<"save", k[1]>>
      BY <3>2, <3>4 DEF Plays, At
    <3> QED BY <3>2, <3>4, <3>5, UpdatesExactly
  <2> QED BY <1>1, <2>1, <2>2
<1>2. ASSUME ContentInv, WholeInv, RouteInv, [Next]_vars
      PROVE  [\A k \in DOMAIN rows, q \in Requests :
                 k[1] \in MlTables \ {"project"} /\ k \in DOMAIN rows' /\ rows'[k] # rows[k]
                   /\ proc'[q] # proc[q] =>
                     IF rows[k].ref = Null THEN Op(q) \notin DOMAIN MlSyncs
                     ELSE clean /\ rows'[k].name # rows[k].name => Op(q) \in DOMAIN MlSyncs]_<<rows, proc>>
  <2>1. CASE UNCHANGED vars
    BY <2>1 DEF vars, rowVars
  <2>2. CASE Next
    <3>1. PICK p \in Requests : /\ \A s \in Requests : proc'[s] # proc[s] => s = p
                                /\ \/ Did(p)
                                   \/ rows' = rows /\ (clean' => \A c : ~At(p, c))
      BY <1>2, <2>2, NextDone
    <3>2. SUFFICES ASSUME NEW k \in DOMAIN rows, NEW q \in Requests, k[1] \in MlTables \ {"project"},
                          k \in DOMAIN rows', rows'[k] # rows[k], proc'[q] # proc[q]
                   PROVE  IF rows[k].ref = Null THEN Op(q) \notin DOMAIN MlSyncs
                          ELSE clean /\ rows'[k].name # rows[k].name => Op(q) \in DOMAIN MlSyncs
      OBVIOUS
    <3>3. p = q /\ Did(q)
      BY <3>1, <3>2
    <3>4. PICK c : Acts(q, c) /\ (WholeInv /\ clean => Plays(q, c))
      BY <1>2, <3>3, DidActs
    <3>5. c \in Left(q) /\ c \in AllCalls /\ At(q, c) /\ MlDeed(q, c)
      BY <3>4 DEF Acts
    <3>6. CASE rows[k].ref = Null
      <4>1. OldRow(q, c, k)
        BY <3>2, <3>4, MlRows DEF MlRow
      <4>2. c[1] # "sync"
        <5>1. c[1] = "sync" => Mem(q).ref \in Refs
          BY <3>4, MlSynced
        <5> QED BY <3>2, <3>6, <4>1, <5>1, RowsAssumption DEF OldRow
      <4> QED BY <1>2, <3>5, <3>6, <4>2 DEF RouteInv
    <3>7. CASE rows[k].ref # Null
      <4>1. SUFFICES ASSUME clean, rows'[k].name # rows[k].name PROVE Op(q) \in DOMAIN MlSyncs
        BY <3>7
      <4>2. Plays(q, c) /\ HandRows
        BY <1>2, <3>4, <4>1 DEF WholeInv
      <4>3. c[1] = "sync"
        BY <3>2, <3>7, <4>1, <4>2, HandKeepsName
      <4>4. c[2] \in Tables
        BY <1>2, <3>5, <4>3, SyncRows
      <4>5. c = <<"sync", c[2]>>
        BY <3>5, <4>3 DEF AllCalls
      <4> QED BY <1>2, <3>5, <4>4, <4>5 DEF RouteInv
    <3> QED BY <3>6, <3>7
  <2> QED BY <1>2, <2>1, <2>2
<1>3. ASSUME ContentInv, WholeInv, [Next]_vars
      PROVE  [\A k \in DOMAIN rows' : clean /\ k[1] \in MlTables /\ k \notin DOMAIN rows =>
                 /\ k[1] \in {"run", "dataset", "evaluation"} => Live("experiment", rows'[k].parent)
                 /\ k[1] = "artifact" => Live("run", rows'[k].parent)
                 /\ k[1] \in {"deployment", "finding", "version"} => Live("model", rows'[k].parent)
                 /\ k[1] \in {"evaluation", "deployment", "finding"} /\ rows'[k].link # Null =>
                       Live("version", rows'[k].link)]_rows
  <2>1. CASE UNCHANGED vars
    BY <2>1 DEF vars, rowVars
  <2>2. CASE Next
    <3>1. PICK q \in Requests : Did(q) \/ rows' = rows
      BY <1>3, <2>2, NextDone
    <3>2. SUFFICES ASSUME NEW k \in DOMAIN rows', clean, k[1] \in MlTables, k \notin DOMAIN rows
                   PROVE  UnderLive(k[1], rows'[k])
      BY DEF UnderLive
    <3>3. PICK c : Plays(q, c)
      BY <1>3, <3>1, <3>2, DidActs
    <3> QED BY <3>2, <3>3, MadeUnder
  <2> QED BY <1>3, <2>1, <2>2
<1>4. Spec => UpdateExact
  BY <1>1, ContentInvariant, WholeInvariant, PTL DEF Spec, UpdateExact
<1>5. Spec => SyncAndHandApart
  BY <1>2, ContentInvariant, WholeInvariant, RouteInvariant, PTL DEF Spec, SyncAndHandApart
<1>6. Spec => MadeUnderLiveParent
  BY <1>3, ContentInvariant, WholeInvariant, PTL DEF Spec, MadeUnderLiveParent
<1> QED BY <1>4, <1>5, <1>6 DEF WritesExact
=============================================================================
