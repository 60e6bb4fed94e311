------------------------------- MODULE Tokens -------------------------------
(***************************************************************************)
(* Service accounts and their API tokens, the token that a repository's    *)
(* import workflow gets, and the GitHub App's installation.  Imports are   *)
(* about one repository.  GitHub's side of an installation is external.    *)
(***************************************************************************)
EXTENDS AccountTables

VARIABLES
    github,     \* the App's installations that GitHub has, and the ones it had
    linked      \* history: which callback used which state, and for whom

githubVars == <<github, linked>>

CreateServiceAccountSteps == <<"createAccount">>
UpdateServiceAccountSteps == <<"getAccount", "updateAccount">>
DeleteServiceAccountSteps == <<"getAccount", "deleteAccount">>
CreateTokenSteps == <<"createToken">>
RevokeTokenSteps == <<"revokeToken">>

\* OrgHandler.Create by a service account, which makes no member.
CreateOrgByKeySteps == <<"getToken", "getKeyAccount", "createOrg", "createSystemAccount">>

CreateImportTokenSteps ==
    <<"getInstallation", "findImportAccount", "listTokens", "revokeTokens", "createToken">>

InstallSteps == <<"createInstallState">>

\* Callback without an installation, and as GitHub calls it after installing.
CallbackAuthorizeSteps ==
    <<"authorizeState", "findInstallation", "verifyInstallation", "consumeInstallState", "upsertInstallation">>
CallbackInstalledSteps == <<"verifyInstallation", "consumeInstallState", "upsertInstallation">>

\* Mutant: the row goes first.
DeleteRowFirst == <<"getInstallation", "deleteInstallation", "deleteAtGitHub">>

DeleteInstallationSteps == <<"getInstallation", "deleteAtGitHub", "deleteInstallation">>

TokenOps == {"createAccount", "updateAccount", "deleteAccount", "createToken", "revokeToken",
             "createOrgByKey", "importToken", "install", "authorize", "installed", "uninstall"}
TokenCalls == {"createAccount", "getAccount", "updateAccount", "deleteAccount", "createToken",
               "revokeToken", "getToken", "getKeyAccount", "getInstallation", "findImportAccount",
               "listTokens", "revokeTokens", "createInstallState", "authorizeState",
               "findInstallation", "verifyInstallation", "createImportAccount", "consumeInstallState",
               "upsertInstallation", "deleteAtGitHub", "deleteInstallation"}
GitHubUsers == {"g1", "g2"}

TokenStart(q, op) ==
    /\ CASE op = "createAccount" -> \E o \in DOMAIN db.orgs :
              Arrives(q, op, CreateServiceAccountSteps, [Blank EXCEPT !.org = o])
         [] op \in {"updateAccount", "deleteAccount"} -> \E a \in DOMAIN db.accounts :
              Arrives(q, op, IF op = "updateAccount" THEN UpdateServiceAccountSteps
                             ELSE DeleteServiceAccountSteps, [Blank EXCEPT !.ref = a])
         [] op = "createToken" -> \E a \in DOMAIN db.accounts :
              Arrives(q, op, CreateTokenSteps, [Blank EXCEPT !.ref = a])
         [] op \in {"revokeToken", "createOrgByKey"} -> \E t \in DOMAIN db.tokens :
              Arrives(q, op, IF op = "revokeToken" THEN RevokeTokenSteps ELSE CreateOrgByKeySteps,
                      [Blank EXCEPT !.aux = t])
         [] op = "importToken" -> Arrives(q, op, CreateImportTokenSteps, Blank)
         [] op = "install" -> Arrives(q, op, InstallSteps, Blank)
         [] op = "authorize" -> \E s \in DOMAIN db.installStates, g \in GitHubUsers :
              Arrives(q, op, CallbackAuthorizeSteps, [Blank EXCEPT !.ref = s, !.change = g])
         [] op = "installed" -> \E s \in DOMAIN db.installStates, g \in GitHubUsers, i \in Ids :
              Arrives(q, op, CallbackInstalledSteps, [Blank EXCEPT !.ref = s, !.change = g, !.aux = i])
         [] op = "uninstall" -> Arrives(q, op, DeleteInstallationSteps, Blank)
    /\ UNCHANGED <<db, failedOpen, githubVars>>

(***************************************************************************)
(* Service accounts and tokens.                                            *)
(***************************************************************************)
LiveAccount(a) == a \in DOMAIN db.accounts /\ ~db.accounts[a].deleted

CreateServiceAccount(q) ==
    /\ At(q, "createAccount")
    /\ \E name \in {"GitHub Import", "other"} :
         IF Mem(q).org \in DOMAIN db.orgs /\ ~NameTaken(q, Mem(q).org, name)
         THEN Writes(q, [db EXCEPT !.accounts = InsertAccount(q, Mem(q).org, name)], Mem(q))
         ELSE Refuses(q)

\* "System service account cannot be edited", nor deleted.
Editable(row) == ~row.internal

GetServiceAccount(q) ==
    /\ At(q, "getAccount")
    /\ LET a == Mem(q).ref IN
       IF LiveAccount(a) /\ Editable(db.accounts[a]) THEN Reads(q, Mem(q)) ELSE Refuses(q)

\* The body gives all columns; the name stays what others refer to it by.
UpdateServiceAccount(q) ==
    /\ At(q, "updateAccount")
    /\ \E d \in BOOLEAN :
         Writes(q, IF LiveAccount(Mem(q).ref) THEN [db EXCEPT !.accounts[Mem(q).ref].disabled = d] ELSE db,
                Mem(q))

DeleteServiceAccount(q) ==
    /\ At(q, "deleteAccount")
    /\ Writes(q, IF Mem(q).ref \in DOMAIN db.accounts
                 THEN [db EXCEPT !.accounts[Mem(q).ref].deleted = TRUE] ELSE db, Mem(q))

\* No more is asked of the account than that it exists (foreign key).
CreateToken(q) ==
    /\ At(q, "createToken")
    /\ LET a == Mem(q).ref IN
       IF a \in DOMAIN db.accounts
       THEN Writes(q, [db EXCEPT !.tokens = With(@, q,
                [account |-> a, name |-> IF Op(q) = "importToken" THEN "repository" ELSE "other",
                 revoked |-> FALSE])], Mem(q))
       ELSE Refuses(q)

Revoked(tokens, S) == [t \in DOMAIN tokens |-> IF t \in S THEN [tokens[t] EXCEPT !.revoked = TRUE] ELSE tokens[t]]

RevokeToken(q) ==
    /\ At(q, "revokeToken")
    /\ Writes(q, [db EXCEPT !.tokens = Revoked(@, {Mem(q).aux})], Mem(q))

\* verifyAPIKey: the token, and then its account.
GetTokenByPrefix(q) ==
    /\ At(q, "getToken")
    /\ LET t == Mem(q).aux IN
       IF t \in DOMAIN db.tokens /\ ~db.tokens[t].revoked
       THEN Reads(q, [Mem(q) EXCEPT !.ref = db.tokens[t].account]) ELSE Refuses(q)

\* Mutant: a disabled account is as good as another.
LiveSuffices(row) == ~row.deleted

Usable(row) == ~row.deleted /\ ~row.disabled

VerifyAPIKey(q) ==
    /\ At(q, "getKeyAccount")
    /\ LET a == Mem(q).ref IN
       IF a \in DOMAIN db.accounts /\ Usable(db.accounts[a]) THEN Reads(q, Mem(q)) ELSE Refuses(q)

(***************************************************************************)
(* The import token.  The store looks for the account, makes it when there *)
(* is none, and revokes the repository's tokens one by one.                *)
(***************************************************************************)
ImportAccounts == {a \in DOMAIN db.accounts :
                      /\ LiveAccount(a) /\ Editable(db.accounts[a])
                      /\ db.accounts[a].org = Seed /\ db.accounts[a].name = "GitHub Import"}

FindImportAccount(q) ==
    /\ At(q, "findImportAccount")
    /\ \/ \E a \in ImportAccounts : Reads(q, [Mem(q) EXCEPT !.ref = a])
       \/ ImportAccounts = {} /\ Goes(q, <<"createImportAccount">> \o Tail(proc[q].todo), Mem(q)) /\ UNCHANGED db

\* A deleted account still has the name, and then no other can be made.
CreateImportAccount(q) ==
    /\ At(q, "createImportAccount")
    /\ IF Seed \in DOMAIN db.orgs /\ ~NameTaken(q, Seed, "GitHub Import")
       THEN Writes(q, [db EXCEPT !.accounts = InsertAccount(q, Seed, "GitHub Import")],
                   [Mem(q) EXCEPT !.ref = q])
       ELSE Refuses(q)

\* Mutant: tokens of earlier requests are left as they are.
KeepsTokens(a) == {}

\* The repository's tokens that are to be revoked.
Superseded(a) == {t \in DOMAIN db.tokens : /\ db.tokens[t].account = a /\ ~db.tokens[t].revoked
                                           /\ db.tokens[t].name = "repository"}

ListTokens(q) ==
    /\ At(q, "listTokens")
    /\ Reads(q, [Mem(q) EXCEPT !.listed = Superseded(Mem(q).ref)])

RevokeListed(q) ==
    /\ At(q, "revokeTokens")
    /\ LET left == Mem(q).listed IN
       IF left = {} THEN Reads(q, Mem(q))
       ELSE \E t \in left :
            /\ db' = [db EXCEPT !.tokens = Revoked(@, {t})]
            /\ Goes(q, proc[q].todo, [Mem(q) EXCEPT !.listed = left \ {t}])

(***************************************************************************)
(* The installation.                                                       *)
(***************************************************************************)
CreateInstallState(q) ==
    /\ At(q, "createInstallState")
    /\ IF Seed \in DOMAIN db.orgs
       THEN Writes(q, [db EXCEPT !.installStates = With(@, q, [github |-> Null, consumed |-> FALSE])], Mem(q))
       ELSE Refuses(q)

Pending(s) == s \in DOMAIN db.installStates /\ ~db.installStates[s].consumed

AuthorizeInstallState(q) ==
    /\ At(q, "authorizeState")
    /\ LET s == Mem(q).ref IN
       IF Pending(s) /\ db.installStates[s].github = Null
       THEN Writes(q, [db EXCEPT !.installStates[s].github = Mem(q).change], Mem(q)) ELSE Refuses(q)

\* FindUserInstallation and VerifyUserInstallation; the user of an installation
\* that is there may or may not have access to it.  Without one the browser is
\* sent to install the App.
FindUserInstallation(q) ==
    /\ At(q, "findInstallation")
    /\ \/ \E i \in github.has : Reads(q, [Mem(q) EXCEPT !.aux = i])
       \/ Refuses(q)

VerifyUserInstallation(q) ==
    /\ At(q, "verifyInstallation")
    /\ \/ Mem(q).aux \in github.has /\ Reads(q, Mem(q))
       \/ Refuses(q)

\* Mutant: a state may be used again.
AuthorizedBy(s, g) == s \in DOMAIN db.installStates /\ db.installStates[s].github = g

\* Not consumed, not expired, authorized, and by this GitHub user.
Consumable(s, g) == Pending(s) /\ db.installStates[s].github = g

ConsumeInstallState(q) ==
    /\ At(q, "consumeInstallState")
    /\ LET s == Mem(q).ref IN
       IF Consumable(s, Mem(q).change)
       THEN /\ Writes(q, [db EXCEPT !.installStates[s].consumed = TRUE], Mem(q))
            /\ linked' = linked \cup {<<s, q, Mem(q).change>>}
       ELSE Refuses(q) /\ UNCHANGED linked

UpsertInstallation(q) ==
    /\ At(q, "upsertInstallation")
    /\ IF Seed \in DOMAIN db.orgs THEN Writes(q, [db EXCEPT !.installation = Mem(q).aux], Mem(q))
       ELSE Refuses(q)

GetInstallation(q) ==
    /\ At(q, "getInstallation")
    /\ IF db.installation # Null THEN Reads(q, [Mem(q) EXCEPT !.aux = db.installation]) ELSE Refuses(q)

\* GitHub answers that it has no such installation when it is gone already.
DeleteAtGitHub(q) ==
    /\ At(q, "deleteAtGitHub")
    /\ LET i == Mem(q).aux IN
       IF i \in github.has
       THEN /\ github' = [has |-> github.has \ {i}, had |-> github.had \cup {i}]
            /\ Reads(q, Mem(q))
       ELSE Refuses(q) /\ UNCHANGED github

DeleteInstallation(q) ==
    /\ At(q, "deleteInstallation")
    /\ Writes(q, [db EXCEPT !.installation = Null], Mem(q))

\* Somebody installs the App at GitHub.
InstalledAtGitHub(i) ==
    /\ i \notin github.has \cup github.had
    /\ github' = [github EXCEPT !.has = @ \cup {i}]
    /\ UNCHANGED <<proc, clean, db, failedOpen, linked>>

TokenStep(q) ==
    /\ \/ /\ \/ CreateServiceAccount(q) \/ GetServiceAccount(q) \/ UpdateServiceAccount(q)
             \/ DeleteServiceAccount(q) \/ CreateToken(q) \/ RevokeToken(q) \/ GetTokenByPrefix(q)
             \/ VerifyAPIKey(q) \/ FindImportAccount(q) \/ CreateImportAccount(q) \/ ListTokens(q)
             \/ RevokeListed(q) \/ CreateInstallState(q) \/ AuthorizeInstallState(q)
             \/ FindUserInstallation(q) \/ VerifyUserInstallation(q) \/ UpsertInstallation(q)
             \/ GetInstallation(q) \/ DeleteInstallation(q)
          /\ UNCHANGED githubVars
       \/ ConsumeInstallState(q) /\ UNCHANGED github
       \/ DeleteAtGitHub(q) /\ UNCHANGED linked
    /\ UNCHANGED failedOpen

(***************************************************************************)
(* Properties.                                                             *)
(***************************************************************************)
\* Of the tokens that a repository's workflow was ever given no more are good
\* than requests are under way at once (each revokes the ones it finds, and two
\* at once may miss each other's), and one as long as they do not overlap.
ImportTokensBounded ==
    LET good == {t \in DOMAIN db.tokens : ~db.tokens[t].revoked /\ db.tokens[t].name = "repository"} IN
    Cardinality(good) <= IF clean /\ Quiet THEN 1 ELSE InFlight

\* What a key does, it does while the token is not revoked and its account is
\* neither disabled nor deleted, provided that nothing overlaps.
KeyIsCurrent ==
    [][\A q \in Requests : (clean' /\ Op(q) = "createOrgByKey" /\ At(q, "createOrg") /\ proc'[q] # proc[q]) =>
          /\ ~db.tokens[Mem(q).aux].revoked
          /\ ~db.accounts[Mem(q).ref].disabled /\ ~db.accounts[Mem(q).ref].deleted]_<<db, proc, clean>>

\* An install state links at most one installation, and for the GitHub user
\* who authorized it, however often the browser comes back.
InstallStateOnce ==
    \A a, b \in linked :
        /\ a[1] = b[1] => a = b
        /\ a[1] \in DOMAIN db.installStates => db.installStates[a[1]].github = a[3]

\* The organisation's installation is forgotten only after GitHub has deleted
\* the one that was read, so a failure in between can be repaired by hand.
\* (Another one, linked in between, is forgotten along with it.)
UninstalledBeforeForgotten ==
    [][\A q \in Requests : Op(q) = "uninstall" /\ At(q, "deleteInstallation") /\ db' # db /\ proc'[q] # proc[q] =>
          Mem(q).aux \in github.had]_<<db, proc, github>>
=============================================================================
