-------------------------------- MODULE Rows --------------------------------
(***************************************************************************)
(* Tables of soft-deleted rows behind create, update, delete and sync      *)
(* handlers, the pattern that most of the API follows: a row is read, what *)
(* the body gives is put in its place, and the whole row is written back;  *)
(* deleting sets deleted_at, and every later statement asks for            *)
(* deleted_at IS NULL.  Rows refer to files in the object store.           *)
(*                                                                         *)
(* A call is a pair of a verb and the table it is about.  What a request   *)
(* writes into a column is its own id, so that a column tells who wrote it *)
(* last.  Checks whose outcome does not depend on these tables (the body   *)
(* is well formed, the principal may do this) come first and are left out; *)
(* so is reading a row again for the answer.                               *)
(***************************************************************************)
EXTENDS Handlers

CONSTANTS
    Seed,       \* id of the row each table may start with; a new row has its request's id
    Null,       \* NULL, or something the body does not give
    Refs,       \* the ids that external systems give the rows they sync
    Shots,      \* contents of screenshots
    Gives,      \* bound: the sets of columns that the body of an update gives
    Asset       \* a file that was uploaded on its own, which bodies may name

Columns == {"name", "note"}

VARIABLES
    rows,       \* the rows there are, by table and id
    files       \* the stored files that rows of a table refer to: [<<table, key>> -> content]

rowVars == <<rows, files>>

RowIds == Requests \cup {Seed}
FileRefs == RowIds \cup Shots \cup {Asset, Null}

\* ref is not NULL in a row that was synced; parent and link are the rows it
\* belongs to; name and note are two columns that a body gives separately; file
\* is what the row says of its stored file, or who wrote a model's card.
Row == [state : {"live", "deleted"}, ref : Refs \cup {Null}, parent : RowIds \cup {Null},
        link : RowIds \cup {Null}, name : RowIds, note : RowIds, file : FileRefs]

ASSUME RowsAssumption ==
    /\ Seed \notin Requests /\ Null \notin Requests \cup Refs \cup Shots \cup {Seed, Asset}
    /\ Null \notin Row /\ Refs # {}
    /\ Gives \subseteq SUBSET Columns
    /\ Asset \notin Requests \cup Shots \cup {Seed}

\* What a request holds: its body, and the row it read.
RowMemory == [id : RowIds, parent : RowIds \cup {Null}, link : RowIds \cup {Null},
              gives : SUBSET Columns, ref : Refs \cup {Null}, file : FileRefs,
              held : Row \cup {Null}]

Known(t) == {i \in RowIds : <<t, i>> \in DOMAIN rows}
Live(t, i) == <<t, i>> \in DOMAIN rows /\ rows[<<t, i>>].state = "live"
LiveIds(t) == {i \in RowIds : Live(t, i)}
Synced(t, i) == rows[<<t, i>>].ref # Null

With(f, k, v) == [x \in DOMAIN f \cup {k} |-> IF x = k THEN v ELSE f[x]]
Without(f, k) == [x \in DOMAIN f \ {k} |-> f[x]]

SeedRow(ref) == [state |-> "live", ref |-> ref, parent |-> Null, link |-> Null,
                 name |-> Seed, note |-> Seed, file |-> Null]

(***************************************************************************)
(* A request arrives.  Its steps tell what its body has to name.           *)
(***************************************************************************)
Does(steps, verb) == \E n \in DOMAIN steps : steps[n][1] = verb
Checked(steps, verb) == {steps[n][2] : n \in {m \in DOMAIN steps : steps[m][1] = verb}}

\* The first table that is not only asked whether a parent is there.
Subject(steps) ==
    LET own == {n \in DOMAIN steps : steps[n][1] \notin {"ensure", "ensureIf"}}
    IN  steps[CHOOSE n \in own : \A m \in own : n <= m][2]

RowStart(q, op, steps, bodyFiles) ==
    LET t == Subject(steps) IN
    \E i \in IF Does(steps, "insert") THEN {q} ELSE Known(t),
       p \in IF Does(steps, "ensure") THEN UNION {Known(s) : s \in Checked(steps, "ensure")}
             ELSE {Null},
       l \in IF Does(steps, "ensureIf")
             THEN {Null} \cup UNION {Known(s) : s \in Checked(steps, "ensureIf")} ELSE {Null},
       g \in IF Does(steps, "save") THEN Gives ELSE {Columns},
       f \in bodyFiles :
         Arrives(q, op, steps, [id |-> i, parent |-> p, link |-> l, gives |-> g, ref |-> Null,
                                file |-> f, held |-> Null])

(***************************************************************************)
(* The calls.                                                              *)
(***************************************************************************)
\* Mutant: the name is left NULL.
NewRowUnnamed(m, q) == [state |-> "live", ref |-> m.ref, parent |-> m.parent, link |-> m.link,
                        name |-> Null, note |-> q, file |-> m.file]

NewRow(m, q) == [state |-> "live", ref |-> m.ref, parent |-> m.parent, link |-> m.link,
                 name |-> q, note |-> q, file |-> m.file]

\* INSERT.
Inserts(q, t) ==
    /\ At(q, <<"insert", t>>)
    /\ rows' = With(rows, <<t, Mem(q).id>>, NewRow(Mem(q), q))
    /\ Proceeds(q)
    /\ UNCHANGED files

\* SELECT ... WHERE id AND deleted_at IS NULL; without a row the answer is 404.
Gets(q, t) ==
    /\ At(q, <<"get", t>>)
    /\ LET i == Mem(q).id IN
       IF Live(t, i) THEN Keeps(q, [Mem(q) EXCEPT !.held = rows[<<t, i>>]]) ELSE Ends(q)
    /\ UNCHANGED rowVars

\* The same, and a row that was synced is refused.
GetsManual(q, t) ==
    /\ At(q, <<"getManual", t>>)
    /\ LET i == Mem(q).id IN
       IF Live(t, i) /\ ~Synced(t, i) THEN Keeps(q, [Mem(q) EXCEPT !.held = rows[<<t, i>>]])
       ELSE Ends(q)
    /\ UNCHANGED rowVars

\* The row that the body names as parent, and the one it may name as link.
Ensures(q, t) ==
    /\ At(q, <<"ensure", t>>)
    /\ IF Live(t, Mem(q).parent) THEN Proceeds(q) ELSE Ends(q)
    /\ UNCHANGED rowVars

EnsuresIf(q, t) ==
    /\ At(q, <<"ensureIf", t>>)
    /\ IF Mem(q).link = Null \/ Live(t, Mem(q).link) THEN Proceeds(q) ELSE Ends(q)
    /\ UNCHANGED rowVars

\* Mutant: what the body does not give is overwritten as well.
MergedWhole(m, q, t, row) == [row EXCEPT !.name = q, !.note = q]

\* The columns of the row that was read, with what the body gives, over the row
\* of now.
Merged(m, q, t, row) ==
    [row EXCEPT !.name = IF "name" \in m.gives THEN q ELSE m.held.name,
                !.note = IF "note" \in m.gives THEN q ELSE m.held.note,
                !.file = IF m.file # Null THEN m.file
                         ELSE IF t \in {"frame", "doc"} THEN m.held.file ELSE @]

\* Mutant: UPDATE ... WHERE id alone.
SavesDeleted(q, t) ==
    /\ At(q, <<"save", t>>)
    /\ rows' = With(rows, <<t, Mem(q).id>>, Merged(Mem(q), q, t, rows[<<t, Mem(q).id>>]))
    /\ Proceeds(q)
    /\ UNCHANGED files

\* UPDATE ... WHERE id AND deleted_at IS NULL: a row deleted meanwhile is left.
Saves(q, t) ==
    /\ At(q, <<"save", t>>)
    /\ LET i == Mem(q).id IN
       rows' = IF Live(t, i) THEN With(rows, <<t, i>>, Merged(Mem(q), q, t, rows[<<t, i>>])) ELSE rows
    /\ Proceeds(q)
    /\ UNCHANGED files

Removes(q, t) ==
    /\ At(q, <<"remove", t>>)
    /\ LET i == Mem(q).id IN
       rows' = IF Live(t, i) THEN With(rows, <<t, i>>, [rows[<<t, i>>] EXCEPT !.state = "deleted"])
               ELSE rows
    /\ Proceeds(q)
    /\ UNCHANGED files

\* The row that has the ref, deleted or not.
RefOwners(t, ref) == {i \in Known(t) : rows[<<t, i>>].ref = ref}

\* INSERT ... ON CONFLICT (ref) DO UPDATE; the row stays deleted if it is.
\* What the body does not name the row belongs to stays what it was (COALESCE).
Upserts(q, t, link) ==
    LET m == Mem(q)
        old == RefOwners(t, m.ref) IN
    rows' = IF old = {} THEN With(rows, <<t, q>>, NewRow([m EXCEPT !.link = link], q))
            ELSE [k \in DOMAIN rows |->
                    IF k[1] = t /\ k[2] \in old
                    THEN [rows[k] EXCEPT !.name = q, !.note = q,
                                         !.file = IF t = "model" THEN q ELSE @,
                                         !.parent = IF m.parent = Null THEN @ ELSE m.parent,
                                         !.link = IF link = Null THEN @ ELSE link]
                    ELSE rows[k]]

(***************************************************************************)
(* Properties.                                                             *)
(***************************************************************************)
\* The rows there are have the columns of their tables.
RowsTypeOK(Tables) ==
    /\ DOMAIN rows \subseteq Tables \X RowIds
    /\ \A k \in DOMAIN rows : rows[k] \in Row
    /\ \A k \in DOMAIN files : k[1] \in Tables /\ files[k] \in FileRefs

\* What is deleted stays as it was, whoever still holds it: of all requests
\* only a sync from outside may write to it, and only a restore of projects
\* may bring it back.
DeletedIsFrozen ==
    [][\A k \in DOMAIN rows : rows[k].state = "deleted" =>
          /\ k \in DOMAIN rows'
          /\ rows'[k] # rows[k] => \E q \in Requests : Op(q) \in {"syncProjects", "createProject",
                 "restoreProjects", "syncModels", "syncVersions", "syncExperiments", "syncRuns",
                 "syncArtifacts", "syncDatasets", "syncEvaluations"} /\ proc'[q] # proc[q]]_rows

\* An update that nothing overlaps changes exactly what its body gives, in any
\* of the tables.
UpdateExact ==
    [][\A q \in Requests, k \in DOMAIN rows :
          (/\ clean' /\ proc'[q] # proc[q] /\ At(q, <<"save", k[1]>>)
           /\ Mem(q).id = k[2] /\ rows[k].state = "live") =>
              \A c \in Columns :
                  rows'[k][c] = IF c \in Mem(q).gives THEN q ELSE rows[k][c]]_<<rows, proc, clean>>
=============================================================================
