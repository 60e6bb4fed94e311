------------------------------ MODULE Startup ------------------------------
(***************************************************************************)
(* The start of a server process: pending migrations, each in one          *)
(* transaction, and then the first organisation and admin.  Several        *)
(* processes may start at once, and one may stop anywhere.  A request      *)
(* stands for a process.                                                   *)
(***************************************************************************)
EXTENDS AccountTables

CONSTANT Migrations     \* how many migrations there are; bound

ASSUME StartupAssumption == Migrations \in Nat

VARIABLE schema     \* the migrations that were committed, in that order

\* RunFS, for the files in their order, and Run.
BootSteps == <<"isApplied", "anyUser", "createOrg", "upsertUser", "addMember">>

BootOps == {"boot"}
BootCalls == {"isApplied", "applyMigration", "anyUser", "upsertUser"}

BootStart(q, op) == Arrives(q, op, BootSteps, [Blank EXCEPT !.role = "admin"])

Committed(n) == \E i \in DOMAIN schema : schema[i] = n

\* isApplied for the file after the last one that this process is done with.
IsApplied(q) ==
    /\ At(q, "isApplied")
    /\ LET v == Mem(q).version IN
       IF v = Migrations THEN Proceeds(q)
       ELSE IF Committed(v + 1) THEN Goes(q, proc[q].todo, [Mem(q) EXCEPT !.version = v + 1])
       ELSE Goes(q, <<"applyMigration">> \o proc[q].todo, Mem(q))
    /\ UNCHANGED <<db, schema>>

\* Mutant: no primary key keeps a version from being entered twice.
VersionFree(v) == FALSE

\* schema_migrations (version) PRIMARY KEY: the transaction is rolled back and
\* the process stops.
VersionTaken(v) == Committed(v)

ApplyMigration(q) ==
    /\ At(q, "applyMigration")
    /\ LET v == Mem(q).version + 1 IN
       IF VersionTaken(v) THEN Ends(q) /\ UNCHANGED schema
       ELSE Keeps(q, [Mem(q) EXCEPT !.version = v]) /\ schema' = Append(schema, v)
    /\ UNCHANGED db

\* Mutant: every start makes an admin.
NobodyThere == TRUE

NoUserYet == db.users = Empty

AnyUserExists(q) ==
    /\ At(q, "anyUser")
    /\ IF NoUserYet THEN Reads(q, Mem(q)) ELSE Refuses(q)
    /\ UNCHANGED schema

\* ON CONFLICT (email) the user there is keeps its id, and AddMember is called
\* with the other one.
UpsertUser(q) ==
    /\ At(q, "upsertUser")
    /\ LET there == ByEmail(SeedEmail)
           row == [email |-> SeedEmail, login |-> AdminLogin, password |-> q, disabled |-> FALSE,
                   serverAdmin |-> TRUE] IN
       Writes(q, [db EXCEPT !.users = IF there = {} THEN With(@, q, row)
                                      ELSE [u \in DOMAIN @ |-> IF u \in there THEN row ELSE @[u]]],
              [Mem(q) EXCEPT !.user = q])
    /\ UNCHANGED schema

BootStep(q) ==
    /\ IsApplied(q) \/ ApplyMigration(q) \/ AnyUserExists(q) \/ UpsertUser(q)
    /\ UNCHANGED failedOpen

(***************************************************************************)
(* Properties.                                                             *)
(***************************************************************************)
\* However many processes start at once and wherever they stop, every migration
\* is committed once, in order, and all of them before anything is stored.
MigratedInOrder ==
    /\ schema = [i \in 1..Len(schema) |-> i]
    /\ db.users # Empty => Len(schema) = Migrations

\* As long as processes start one after the other and none stops half-way,
\* every organisation has an admin: a start that finds a user adds nothing.
\* (Two at once leave an organisation that nobody is a member of, and one that
\* stops before the last statement leaves an admin without any.)
EveryOrgHasAdmin ==
    (clean /\ Quiet /\ \A q \in Requests : Op(q) \in {"boot", "none"}) =>
        \A o \in DOMAIN db.orgs : \E u \in DOMAIN db.users :
            <<u, o>> \in DOMAIN db.members /\ db.members[<<u, o>>].role = "admin"
=============================================================================
