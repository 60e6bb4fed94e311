------------------------------ MODULE Accounts ------------------------------
(***************************************************************************)
(* People, sign-in, tokens and the start of servers over one database.  A  *)
(* behaviour draws its requests from one workload, a set of operations,    *)
(* and starts with an empty database or with an organisation that has a    *)
(* row of every kind.                                                      *)
(***************************************************************************)
EXTENDS People, SignIn, Tokens, Startup

CONSTANT
    Workloads   \* [ops, account]: operations, and the name of the service account
                \* there is; bound: one per behaviour

\* A server answers requests after it has started, and the rows there are before
\* are not there when the first one starts.
ASSUME AccountsAssumption ==
    \A w \in Workloads :
        /\ w.account \in {"System", "GitHub Import", "other"}
        /\ "boot" \in w.ops => w.ops = {"boot"}

VARIABLE workload

vars == <<proc, clean, db, failedOpen, githubVars, schema, workload>>

Only(row) == [i \in {Seed} |-> row]

Nothing ==
    [users |-> Empty, orgs |-> Empty, members |-> Empty, teams |-> Empty, teamMembers |-> Empty,
     accounts |-> Empty, tokens |-> Empty, sessions |-> Empty, providers |-> Empty, rules |-> Empty,
     loginStates |-> Empty, identities |-> Empty, domains |-> Empty, attempts |-> 0,
     installStates |-> Empty, installation |-> Null]

\* The user there is may be disabled already; a token may be revoked.
Populated(disabled, name) ==
    [Nothing EXCEPT
        !.users = Only([email |-> SeedEmail, login |-> SeedEmail, password |-> Seed,
                        disabled |-> disabled, serverAdmin |-> FALSE]),
        !.orgs = Only([name |-> Seed, autoJoin |-> Seed, onboarded |-> FALSE]),
        !.members = [k \in {<<Seed, Seed>>} |-> [role |-> "admin", source |-> "manual"]],
        !.teams = Only(Seed),
        !.accounts = Only([org |-> Seed, name |-> name, internal |-> name = "System",
                           disabled |-> FALSE, deleted |-> FALSE]),
        !.tokens = Only([account |-> Seed, name |-> IF name = "GitHub Import" THEN "repository"
                                                    ELSE "other", revoked |-> FALSE]),
        !.sessions = Only([user |-> Seed, state |-> Null, began |-> Null, ended |-> Null]),
        !.providers = Only([kind |-> "saml", enabled |-> TRUE, signUp |-> TRUE,
                            secret |-> Seed, key |-> Null]),
        !.rules = Only([provider |-> Seed, role |-> "editor"]),
        !.loginStates = Only(Seed),
        !.installStates = Only([github |-> Null, consumed |-> FALSE])]

Init ==
    /\ workload \in Workloads
    /\ ReqsInit
    /\ failedOpen = FALSE
    /\ linked = {}
    /\ IF "boot" \in workload.ops
       THEN db = Nothing /\ schema = <<>> /\ github = [has |-> {}, had |-> {}]
       ELSE /\ \E disabled \in BOOLEAN, i \in {Null, Seed} :
                 /\ disabled => workload.ops \cap {"login", "callback", "updateUser"} # {}
                 /\ i = Seed => workload.ops \cap {"uninstall", "importToken"} # {}
                 /\ db = [Populated(disabled, workload.account) EXCEPT !.installation = i]
                 /\ github = [has |-> {i} \ {Null}, had |-> {}]
            /\ schema = [n \in 1..Migrations |-> n]

Starts(q) ==
    \E op \in workload.ops :
        \/ /\ \/ op \in PeopleOps /\ PeopleStart(q, op)
              \/ op \in SignInOps /\ SignInStart(q, op)
              \/ op \in BootOps /\ BootStart(q, op)
           /\ UNCHANGED <<db, failedOpen, githubVars>>
        \/ op \in TokenOps /\ TokenStart(q, op)

\* workload.ops tells whether anybody installs the App at GitHub.
Next ==
    /\ \/ \E q \in Requests :
            \/ /\ \/ Starts(q)
                  \/ SharedStep(q) /\ UNCHANGED githubVars
                  \/ PeopleStep(q) /\ UNCHANGED githubVars
                  \/ SignInStep(q) /\ UNCHANGED githubVars
                  \/ TokenStep(q)
                  \/ Aborts(q) /\ UNCHANGED <<db, failedOpen, githubVars>>
               /\ UNCHANGED schema
            \/ BootStep(q) /\ UNCHANGED githubVars
       \/ /\ "authorize" \in workload.ops
          /\ \E i \in Ids : InstalledAtGitHub(i)
          /\ UNCHANGED schema
    /\ UNCHANGED workload

Spec == Init /\ [][Next]_vars

(***************************************************************************)
(* Properties.                                                             *)
(***************************************************************************)
\* The tables, the requests and what they hold have the types of the columns
\* and of the handlers' variables.
TypeOK ==
    /\ ReqsType(PeopleOps \cup SignInOps \cup TokenOps \cup BootOps,
                SharedCalls \cup PeopleCalls \cup SignInCalls \cup TokenCalls \cup BootCalls,
                AccountMemory)
    /\ \A u \in DOMAIN db.users : db.users[u] \in UserRow
    /\ \A o \in DOMAIN db.orgs : db.orgs[o] \in OrgRow
    /\ \A k \in DOMAIN db.members : k \in Ids \X Ids /\ db.members[k] \in MemberRow
    /\ \A a \in DOMAIN db.accounts : db.accounts[a] \in AccountRow
    /\ \A t \in DOMAIN db.tokens : db.tokens[t] \in TokenRow
    /\ \A p \in DOMAIN db.providers : db.providers[p] \in ProviderRow
    /\ \A s \in DOMAIN db.sessions : db.sessions[s] \in SessionRow
    /\ \A s \in DOMAIN db.installStates : db.installStates[s] \in StateRow
    /\ db.installation \in MaybeId /\ db.attempts \in Nat /\ failedOpen \in BOOLEAN

\* Nothing refers to what is not there: members and sessions have their users,
\* members, teams and service accounts their organisation, team members their
\* team, tokens their account, rules and login states their provider, although
\* an organisation or a provider goes away under requests that still hold it.
NothingDangles ==
    /\ \A k \in DOMAIN db.members : k[1] \in DOMAIN db.users /\ k[2] \in DOMAIN db.orgs
    /\ \A s \in DOMAIN db.sessions : db.sessions[s].user \in DOMAIN db.users
    /\ \A t \in DOMAIN db.teams : db.teams[t] \in DOMAIN db.orgs
    /\ \A k \in DOMAIN db.teamMembers : k[1] \in DOMAIN db.teams /\ db.teamMembers[k] \in DOMAIN db.orgs
    /\ \A a \in DOMAIN db.accounts : db.accounts[a].org \in DOMAIN db.orgs
    /\ \A t \in DOMAIN db.tokens : db.tokens[t].account \in DOMAIN db.accounts
    /\ \A r \in DOMAIN db.rules : db.rules[r].provider \in DOMAIN db.providers
    /\ \A s \in DOMAIN db.loginStates : db.loginStates[s] \in DOMAIN db.providers

\* What is good for once is used once, whoever races for it: an address, a
\* login state (for the provider it was made for), an install state.
UsedOnce == OneUserPerAddress /\ StateUsedOnce /\ SignInThroughSameProvider /\ InstallStateOnce

\* A limit that is checked in one statement and used up in another is passed by
\* what is under way at once and by no more: seats, discovery attempts, domains
\* and good import tokens.
OvershootBounded ==
    SeatOvershoot /\ AttemptsOvershoot /\ DomainOvershoot /\ ImportTokensBounded

\* What is set up in several steps is whole at the end: the schema before its
\* rows, the first organisation with its admin, a sign-up with its organisation.
SetUpWhole == MigratedInOrder /\ EveryOrgHasAdmin /\ ProvisionedIsWhole

\* What an administrator or an identity provider relies on stays as it was set:
\* completed onboarding, a disabled user, a provider's secret and key pair, the
\* team of a member.
SettingsStay == OnboardingSticks /\ DisableSticks /\ ProviderSecretsKept /\ MemberTeamReplaced

\* Access is decided on what holds when it is used: the password, the user, the
\* provider, the session, the key and its account, the installation at GitHub.
AccessIsCurrent == SignInIsCurrent /\ KeyIsCurrent /\ UninstalledBeforeForgotten
=============================================================================
