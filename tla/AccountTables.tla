---------------------------- MODULE AccountTables ----------------------------
(***************************************************************************)
(* The tables of organisations, people, service accounts, identity         *)
(* providers and sessions, and the statements that several handlers share. *)
(* A new row has its request's id.  What a request writes into a column    *)
(* (a password, a secret, a key) is its own id, so that a column tells who *)
(* wrote it last.  A statement that breaks a constraint is an error, and   *)
(* its handler answers with it.                                            *)
(*                                                                         *)
(* Checks whose outcome does not depend on these tables come first and are *)
(* left out.  Time does not pass: the 30 days of a session, the 10 minutes *)
(* of a state and the expiry of a token are longer than a behaviour,       *)
(* except that a state may be found expired when it is used.               *)
(***************************************************************************)
EXTENDS Handlers

CONSTANTS
    Seed,       \* id of the rows there were before
    Null,       \* NULL, or something the body does not give
    Emails,     \* email addresses
    SeedEmail,  \* the address of the user there was before, and of the first admin
    AdminLogin, \* the login of the first admin, the part of its address before the @
    Seats       \* how many members the organisation's plan allows

ASSUME AccountTablesAssumption ==
    /\ Seed \notin Requests /\ Null \notin Requests \cup Emails \cup {Seed, AdminLogin}
    /\ SeedEmail \in Emails /\ AdminLogin \notin Emails
    /\ Seats \in Nat \ {0}

VARIABLES
    db,         \* the tables, each a function from ids to rows
    failedOpen  \* history: the plan could not be read and a member was let through

Ids == Requests \cup {Seed}
MaybeId == Ids \cup {Null}
Roles == {"admin", "editor", "viewer"}

\* A login is an address, except the first admin's.  Without a password only
\* single sign-on is left.  serverAdmin is the role "server_admin".
UserRow == [email : Emails, login : Emails \cup {AdminLogin}, password : MaybeId,
            disabled : BOOLEAN, serverAdmin : BOOLEAN]
OrgRow == [name : Ids, autoJoin : Ids, onboarded : BOOLEAN]
MemberRow == [role : Roles, source : {"manual", "sso"}]
AccountRow == [org : Ids, name : {"System", "GitHub Import", "other"}, internal : BOOLEAN,
               disabled : BOOLEAN, deleted : BOOLEAN]
TokenRow == [account : Ids, name : {"repository", "other"}, revoked : BOOLEAN]
ProviderRow == [kind : {"oidc", "saml"}, enabled : BOOLEAN, signUp : BOOLEAN,
                secret : MaybeId, key : MaybeId]
SessionRow == [user : Ids, state : MaybeId, began : MaybeId, ended : MaybeId]
StateRow == [github : {Null, "g1", "g2"}, consumed : BOOLEAN]

Empty == [i \in {} |-> Null]
With(f, k, v) == [x \in DOMAIN f \cup {k} |-> IF x = k THEN v ELSE f[x]]
Keep(f, S) == [x \in DOMAIN f \cap S |-> f[x]]

\* What a request holds: what it is about, its body, and what it read.
AccountMemory ==
    [user : MaybeId, org : MaybeId, email : Emails \cup {Null}, role : Roles, ref : MaybeId,
     aux : MaybeId, provider : MaybeId, isMember : BOOLEAN,
     change : {Null, "promote", "disable", "enable", "password", "login", "name", "autoJoin",
               "g1", "g2"},
     body : {Null} \cup ProviderRow, version : Nat,
     held : {Null} \cup UserRow \cup OrgRow \cup ProviderRow, listed : SUBSET Ids]

Blank == [user |-> Null, org |-> Seed, email |-> Null, role |-> "viewer", ref |-> Null,
          aux |-> Null, provider |-> Null, isMember |-> FALSE, change |-> Null,
          body |-> Null, version |-> 0, held |-> Null, listed |-> {}]

\* A statement is done and the tables are as in new; a read is done; a
\* statement fails, or what it asks for is missing, and so the handler ends.
Writes(q, new, mem) == db' = new /\ Keeps(q, mem)
Reads(q, mem) == Keeps(q, mem) /\ UNCHANGED db
Refuses(q) == Ends(q) /\ UNCHANGED db

(***************************************************************************)
(* Users, organisations and members.                                       *)
(***************************************************************************)
ByEmail(e) == {u \in DOMAIN db.users : db.users[u].email = e}

\* Mutant: there are no unique constraints.
NeverTaken(u, email, login) == FALSE

\* UNIQUE (email), UNIQUE (login), for a row with id u.
Taken(u, email, login) ==
    \E v \in DOMAIN db.users \ {u} : db.users[v].email = email \/ db.users[v].login = login

\* Mutant: the login is left out.
NewUserUnnamed(q, email, password) ==
    [email |-> email, login |-> Null, password |-> password, disabled |-> FALSE,
     serverAdmin |-> FALSE]

NewUser(q, email, password) ==
    [email |-> email, login |-> email, password |-> password, disabled |-> FALSE,
     serverAdmin |-> FALSE]

\* GetUserByEmail of a handler that wants the address to be free.
EmailFree(q) ==
    /\ At(q, "emailFree")
    /\ IF ByEmail(Mem(q).email) = {} THEN Reads(q, Mem(q)) ELSE Refuses(q)
    /\ UNCHANGED failedOpen

\* A user who signs in for the first time with single sign-on has no password.
CreateUser(q) ==
    /\ At(q, "createUser")
    /\ LET m == Mem(q) IN
       IF m.user # Null THEN Reads(q, m)
       ELSE IF Taken(q, m.email, m.email) THEN Refuses(q)
       ELSE Writes(q, [db EXCEPT !.users = With(@, q,
                NewUser(q, m.email, IF Op(q) = "callback" THEN Null ELSE q))],
                [m EXCEPT !.user = q])
    /\ UNCHANGED failedOpen

CreateOrg(q) ==
    /\ At(q, "createOrg")
    /\ Writes(q, [db EXCEPT !.orgs = With(@, q, [name |-> q, autoJoin |-> q, onboarded |-> FALSE])],
              [Mem(q) EXCEPT !.org = q])
    /\ UNCHANGED failedOpen

\* Mutant: only the primary key (user_id, org_id) is kept.
NoMemberYet(u, o) == <<u, o>> \notin DOMAIN db.members

\* The foreign keys of org_members, and its primary key.
MayJoin(u, o) ==
    u \in DOMAIN db.users /\ o \in DOMAIN db.orgs /\ <<u, o>> \notin DOMAIN db.members

AddMember(q) ==
    /\ At(q, "addMember")
    /\ LET m == Mem(q) IN
       IF MayJoin(m.user, m.org)
       THEN Writes(q, [db EXCEPT !.members = With(@, <<m.user, m.org>>,
                           [role |-> m.role, source |-> "manual"])], m)
       ELSE Refuses(q)
    /\ UNCHANGED failedOpen

MembersOf(o) == {k \in DOMAIN db.members : k[2] = o}

\* Mutant: the limit may be exceeded by one.
SeatsOffByOne(n) == n > Seats

SeatsFull(n) == n >= Seats

\* ListMembers; somebody who is a member already needs no seat.
SeatLimitReached(q) ==
    /\ At(q, "seats")
    /\ IF Mem(q).isMember \/ ~SeatsFull(Cardinality(MembersOf(Mem(q).org)))
       THEN Reads(q, Mem(q)) ELSE Refuses(q)
    /\ UNCHANGED failedOpen

\* The plan cannot be read: the check fails open.
SeatLimitUnknown(q) ==
    /\ At(q, "seats")
    /\ Skips(q)
    /\ failedOpen' = TRUE
    /\ UNCHANGED db

(***************************************************************************)
(* Service accounts and sessions.                                          *)
(***************************************************************************)
\* UNIQUE (org_id, name), which also counts deleted accounts.
NameTaken(a, o, name) ==
    \E b \in DOMAIN db.accounts \ {a} : db.accounts[b].org = o /\ db.accounts[b].name = name /\ name # "other"

InsertAccount(q, o, name) ==
    With(db.accounts, q, [org |-> o, name |-> name, internal |-> name = "System",
                          disabled |-> FALSE, deleted |-> FALSE])

CreateSystemAccount(q) ==
    /\ At(q, "createSystemAccount")
    /\ LET o == Mem(q).org IN
       IF o \in DOMAIN db.orgs /\ ~NameTaken(q, o, "System")
       THEN Writes(q, [db EXCEPT !.accounts = InsertAccount(q, o, "System")], Mem(q))
       ELSE Refuses(q)
    /\ UNCHANGED failedOpen

\* state is the login state the session came from, began the provider that the
\* state was made for, ended the provider that vouched for the user.
CreateSession(q) ==
    /\ At(q, "createSession")
    /\ LET m == Mem(q) IN
       Writes(q, [db EXCEPT !.sessions = With(@, q,
                     IF Op(q) = "callback"
                     THEN [user |-> m.user, state |-> m.ref, began |-> m.aux, ended |-> m.provider]
                     ELSE [user |-> m.user, state |-> Null, began |-> Null, ended |-> Null])], m)
    /\ UNCHANGED failedOpen

SharedStep(q) ==
    \/ EmailFree(q) \/ CreateUser(q) \/ CreateOrg(q) \/ AddMember(q) \/ SeatLimitReached(q)
    \/ SeatLimitUnknown(q) \/ CreateSystemAccount(q) \/ CreateSession(q)

SharedCalls == {"emailFree", "createUser", "createOrg", "addMember", "seats",
                "createSystemAccount", "createSession"}

(***************************************************************************)
(* Properties.                                                             *)
(***************************************************************************)
\* Two requests that both found an address free never make two users of it,
\* nor does a change of login give two users the same one.
OneUserPerAddress ==
    \A u, v \in DOMAIN db.users : u # v =>
        db.users[u].email # db.users[v].email /\ db.users[u].login # db.users[v].login

\* Members are counted in one statement and added in another, so requests
\* under way at once may exceed the plan, each by one at most, unless the plan
\* could not be read; without such an overlap the plan holds.
SeatOvershoot ==
    failedOpen \/ Cardinality(MembersOf(Seed)) <= IF clean THEN Seats ELSE Seats + InFlight - 1
==============================================================================
