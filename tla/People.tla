------------------------------- MODULE People -------------------------------
(***************************************************************************)
(* Organisations, users, members and teams.  Deleting an organisation      *)
(* takes along whatever refers to it; removing a member takes nothing.     *)
(***************************************************************************)
EXTENDS AccountTables

CreateOrgSteps == <<"createOrg", "addMember", "createSystemAccount">>
UpdateOrgSteps == <<"getOrg", "updateOrg">>
DeleteOrgSteps == <<"deleteOrg">>
CompleteOnboardingSteps == <<"getOrg", "setOnboardingDone">>

CreateUserSteps == <<"emailFree", "createUser">>
UpdateUserSteps == <<"getUser", "updateUser">>
ResetPasswordSteps == <<"getUser", "updateUser">>
SetAccountPasswordSteps == <<"getUser", "updateUser">>
DisableSteps == <<"disableUser">>

AddMemberSteps == <<"emailFree", "seats", "createUser", "addMember">>

\* Mutant: the teams of before are kept.
UpdateMemberAdds == <<"getUser", "getClash", "updateUser", "updateMemberRole", "joinTeam">>

UpdateMemberSteps ==
    <<"getUser", "getClash", "updateUser", "updateMemberRole", "leaveTeams", "joinTeam">>
RemoveMemberSteps == <<"removeMember">>

CreateTeamSteps == <<"createTeam">>
UpdateTeamSteps == <<"updateTeam">>
DeleteTeamSteps == <<"deleteTeam">>
AddTeamMemberSteps == <<"joinTeam">>
RemoveTeamMemberSteps == <<"leaveTeam">>

PeopleOps == {"createOrg", "updateOrg", "deleteOrg", "completeOnboarding", "createUser",
              "updateUser", "resetPassword", "setAccountPassword", "disable", "addMember",
              "updateMember", "removeMember", "createTeam", "updateTeam", "deleteTeam",
              "addTeamMember", "removeTeamMember"}
PeopleCalls == {"getOrg", "updateOrg", "deleteOrg", "setOnboardingDone", "getUser", "updateUser",
                "disableUser", "getClash", "updateMemberRole", "leaveTeams", "joinTeam",
                "removeMember", "createTeam", "updateTeam", "deleteTeam", "leaveTeam"}

PeopleStart(q, op) ==
    \E u \in DOMAIN db.users, o \in DOMAIN db.orgs :
        CASE op = "createOrg" -> o = Seed /\ Arrives(q, op, CreateOrgSteps,
                [Blank EXCEPT !.user = u, !.role = "admin"])
          [] op = "updateOrg" -> u = Seed /\ \E c \in {"name", "autoJoin"} :
                Arrives(q, op, UpdateOrgSteps, [Blank EXCEPT !.org = o, !.change = c])
          [] op = "deleteOrg" -> u = Seed /\ Arrives(q, op, DeleteOrgSteps, [Blank EXCEPT !.org = o])
          [] op = "completeOnboarding" -> u = Seed /\
                Arrives(q, op, CompleteOnboardingSteps, [Blank EXCEPT !.org = o])
          [] op = "createUser" -> u = Seed /\ \E e \in Emails :
                Arrives(q, op, CreateUserSteps, [Blank EXCEPT !.email = e])
          [] op = "updateUser" -> o = Seed /\ \E c \in {"promote", "disable", "enable"} :
                Arrives(q, op, UpdateUserSteps, [Blank EXCEPT !.user = u, !.change = c])
          [] op = "resetPassword" -> o = Seed /\
                Arrives(q, op, ResetPasswordSteps, [Blank EXCEPT !.user = u, !.change = "password"])
          [] op = "setAccountPassword" -> o = Seed /\
                Arrives(q, op, SetAccountPasswordSteps, [Blank EXCEPT !.user = u, !.change = "password"])
          [] op = "disable" -> o = Seed /\ Arrives(q, op, DisableSteps, [Blank EXCEPT !.user = u])
          [] op = "addMember" -> u = Seed /\ \E e \in Emails :
                Arrives(q, op, AddMemberSteps, [Blank EXCEPT !.org = o, !.email = e])
          [] op = "updateMember" -> \E e \in Emails, t \in DOMAIN db.teams \cup {Null} :
                Arrives(q, op, UpdateMemberSteps, [Blank EXCEPT !.user = u, !.org = o, !.email = e,
                                                           !.change = "login", !.ref = t])
          [] op = "removeMember" -> Arrives(q, op, RemoveMemberSteps, [Blank EXCEPT !.user = u, !.org = o])
          [] op = "createTeam" -> u = Seed /\ Arrives(q, op, CreateTeamSteps, [Blank EXCEPT !.org = o])
          [] op \in {"updateTeam", "deleteTeam"} -> u = Seed /\ o = Seed /\ \E t \in DOMAIN db.teams :
                Arrives(q, op, IF op = "updateTeam" THEN UpdateTeamSteps ELSE DeleteTeamSteps,
                   [Blank EXCEPT !.ref = t])
          [] op \in {"addTeamMember", "removeTeamMember"} -> \E t \in DOMAIN db.teams :
                Arrives(q, op, IF op = "addTeamMember" THEN AddTeamMemberSteps ELSE RemoveTeamMemberSteps,
                   [Blank EXCEPT !.user = u, !.org = o, !.ref = t])

(***************************************************************************)
(* Organisations.                                                          *)
(***************************************************************************)
GetOrg(q) ==
    /\ At(q, "getOrg")
    /\ LET m == Mem(q) IN
       IF m.org \in DOMAIN db.orgs THEN Reads(q, [m EXCEPT !.held = db.orgs[m.org]]) ELSE Refuses(q)

\* Mutant: the whole row that was read is written back.
OrgWhole(q, row, m) ==
    [m.held EXCEPT !.name = IF m.change = "name" THEN q ELSE @,
                   !.autoJoin = IF m.change = "autoJoin" THEN q ELSE @]

\* Name, disabled and auto_join as they were read, with what the body gives;
\* onboarding_done is not among the columns.
OrgMerged(q, row, m) ==
    [row EXCEPT !.name = IF m.change = "name" THEN q ELSE m.held.name,
                !.autoJoin = IF m.change = "autoJoin" THEN q ELSE m.held.autoJoin]

UpdateOrg(q) ==
    /\ At(q, "updateOrg")
    /\ LET m == Mem(q) IN
       Writes(q, IF m.org \in DOMAIN db.orgs
                 THEN [db EXCEPT !.orgs[m.org] = OrgMerged(q, @, m)] ELSE db, m)

SetOnboardingDone(q) ==
    /\ At(q, "setOnboardingDone")
    /\ LET m == Mem(q) IN
       Writes(q, IF m.org \in DOMAIN db.orgs THEN [db EXCEPT !.orgs[m.org].onboarded = TRUE] ELSE db, m)

\* ON DELETE CASCADE.  Providers, domains and installations are the first
\* organisation's.
DeleteOrg(q) ==
    /\ At(q, "deleteOrg")
    /\ LET o == Mem(q).org
           accounts == {a \in DOMAIN db.accounts : db.accounts[a].org # o}
           teams == {t \in DOMAIN db.teams : db.teams[t] # o}
           Of(f) == IF o = Seed THEN Empty ELSE f IN
       Writes(q, [db EXCEPT
           !.orgs = Keep(@, Ids \ {o}),
           !.members = Keep(@, {k \in DOMAIN db.members : k[2] # o}),
           !.teams = Keep(@, teams),
           !.teamMembers = Keep(@, {k \in DOMAIN db.teamMembers : k[1] \in teams /\ db.teamMembers[k] # o}),
           !.accounts = Keep(@, accounts),
           !.tokens = Keep(@, {t \in DOMAIN db.tokens : db.tokens[t].account \in accounts}),
           !.providers = Of(@), !.rules = Of(@), !.loginStates = Of(@), !.domains = Of(@),
           !.installStates = Of(@), !.installation = IF o = Seed THEN Null ELSE @], Mem(q))

(***************************************************************************)
(* Users.                                                                  *)
(***************************************************************************)
GetUser(q) ==
    /\ At(q, "getUser")
    /\ Reads(q, [Mem(q) EXCEPT !.held = db.users[Mem(q).user]])

\* Mutant: a new password also enables the account.
ChangedEnables(q, row, m) ==
    IF m.change = "password" THEN [row EXCEPT !.password = q, !.disabled = FALSE] ELSE row

\* The row that was read, with what the body gives.  The address of a member
\* is given too, but only the login is ever written.
Changed(q, row, m) ==
    CASE m.change = "promote" -> [row EXCEPT !.serverAdmin = TRUE]
      [] m.change = "disable" -> [row EXCEPT !.disabled = TRUE]
      [] m.change = "enable" -> [row EXCEPT !.disabled = FALSE]
      [] m.change = "password" -> [row EXCEPT !.password = q]
      [] m.change = "login" -> [row EXCEPT !.login = m.email]

UpdateUser(q) ==
    /\ At(q, "updateUser")
    /\ LET m == Mem(q)
           row == Changed(q, m.held, m) IN
       IF Taken(m.user, m.held.email, row.login) THEN Refuses(q)
       ELSE Writes(q, [db EXCEPT !.users[m.user] = row], m)

DisableUser(q) ==
    /\ At(q, "disableUser")
    /\ Writes(q, [db EXCEPT !.users[Mem(q).user].disabled = TRUE], Mem(q))

(***************************************************************************)
(* Members and teams.                                                      *)
(***************************************************************************)
\* The address is compared with the one that was read, and looked up if it is new.
GetClash(q) ==
    /\ At(q, "getClash")
    /\ LET m == Mem(q) IN
       IF m.email = m.held.email \/ ByEmail(m.email) \subseteq {m.user} THEN Reads(q, m) ELSE Refuses(q)

UpdateMemberRole(q) ==
    /\ At(q, "updateMemberRole")
    /\ LET m == Mem(q) IN
       Writes(q, IF <<m.user, m.org>> \in DOMAIN db.members
                 THEN [db EXCEPT !.members[<<m.user, m.org>>] = [role |-> m.role, source |-> "manual"]]
                 ELSE db, m)

RemoveMember(q) ==
    /\ At(q, "removeMember")
    /\ Writes(q, [db EXCEPT !.members = Keep(@, DOMAIN @ \ {<<Mem(q).user, Mem(q).org>>})], Mem(q))

CreateTeam(q) ==
    /\ At(q, "createTeam")
    /\ LET m == Mem(q) IN
       IF m.org \in DOMAIN db.orgs THEN Writes(q, [db EXCEPT !.teams = With(@, q, m.org)], m)
       ELSE Refuses(q)

\* Name and address: nothing that others refer to.
UpdateTeam(q) ==
    /\ At(q, "updateTeam")
    /\ Writes(q, db, Mem(q))

DeleteTeam(q) ==
    /\ At(q, "deleteTeam")
    /\ LET t == Mem(q).ref IN
       Writes(q, [db EXCEPT !.teams = Keep(@, DOMAIN @ \ {t}),
                            !.teamMembers = Keep(@, {k \in DOMAIN @ : k[1] # t})], Mem(q))

\* ON CONFLICT (team_id, user_id) only the permission changes.  That the team
\* is the organisation's is not asked, nor that the user is a member.
AddTeamMember(q) ==
    /\ At(q, "joinTeam")
    /\ LET m == Mem(q)
           k == <<m.ref, m.user>> IN
       IF m.ref = Null THEN Reads(q, m)
       ELSE IF m.ref \in DOMAIN db.teams /\ m.org \in DOMAIN db.orgs
       THEN Writes(q, IF k \in DOMAIN db.teamMembers THEN db
                      ELSE [db EXCEPT !.teamMembers = With(@, k, m.org)], m)
       ELSE Refuses(q)

RemoveTeamMember(q) ==
    /\ At(q, "leaveTeam")
    /\ Writes(q, [db EXCEPT !.teamMembers = Keep(@, DOMAIN @ \ {<<Mem(q).ref, Mem(q).user>>})], Mem(q))

TeamsOf(u, o) == {k \in DOMAIN db.teamMembers : k[2] = u /\ db.teamMembers[k] = o}

RemoveUserFromOrgTeams(q) ==
    /\ At(q, "leaveTeams")
    /\ LET m == Mem(q) IN
       Writes(q, [db EXCEPT !.teamMembers = Keep(@, DOMAIN @ \ TeamsOf(m.user, m.org))], m)

PeopleStep(q) ==
    /\ \/ GetOrg(q) \/ UpdateOrg(q) \/ SetOnboardingDone(q) \/ DeleteOrg(q) \/ GetUser(q)
       \/ UpdateUser(q) \/ DisableUser(q) \/ GetClash(q) \/ UpdateMemberRole(q) \/ RemoveMember(q)
       \/ CreateTeam(q) \/ UpdateTeam(q) \/ DeleteTeam(q) \/ AddTeamMember(q)
       \/ RemoveTeamMember(q) \/ RemoveUserFromOrgTeams(q)
    /\ UNCHANGED failedOpen

(***************************************************************************)
(* Properties.                                                             *)
(***************************************************************************)
\* Onboarding that was completed stays so, although updates of the organisation
\* write back what they read before: the flag is not among what they write.
OnboardingSticks ==
    [][\A o \in DOMAIN db.orgs \cap DOMAIN db'.orgs :
          db.orgs[o].onboarded => db'.orgs[o].onboarded]_db

\* As long as requests neither overlap nor fail, a disabled user is enabled by
\* nothing but an update that says so.  (One that overlaps writes back the
\* whole user as it was read, and so may undo a disabling.)
DisableSticks ==
    [][\A u \in DOMAIN db.users : clean' /\ db.users[u].disabled /\ ~db'.users[u].disabled =>
          \E q \in Requests : Busy(q) /\ Op(q) = "updateUser" /\ Mem(q).change = "enable" /\ proc'[q] # proc[q]]_<<db, proc, clean>>

\* An update of a member that runs alone leaves the user in the team it names
\* and in no other of the organisation, whatever teams the user was in (unless
\* the user was put into that very team under another organisation's path).
MemberTeamReplaced ==
    [][\A q \in Requests :
          LET u == Mem(q).user
              o == Mem(q).org
              t == Mem(q).ref
              wanted == {t} \ {Null} IN
          (/\ clean' /\ proc'[q] # proc[q] /\ Op(q) = "updateMember" /\ At(q, "joinTeam")
           /\ wanted \subseteq DOMAIN db.teams
           /\ \A k \in DOMAIN db.teamMembers : k = <<t, u>> => db.teamMembers[k] = o) =>
              {k[1] : k \in {x \in DOMAIN db'.teamMembers : x[2] = u /\ db'.teamMembers[x] = o}}
                  = wanted]_<<db, proc, clean>>
=============================================================================
