------------------------------- MODULE SignIn -------------------------------
(***************************************************************************)
(* Signing in and up: passwords, sessions, single sign-on through an       *)
(* organisation's identity providers, and the providers' settings.  The    *)
(* first organisation has providers; they all have the same slug, so that  *)
(* there is one at a time, and one deleted may be followed by another.     *)
(* What a provider says of a user (the address, the rules that its claims  *)
(* match) is chosen when the browser comes back.                           *)
(***************************************************************************)
EXTENDS AccountTables

CONSTANTS
    DiscoverLimit,  \* discoverLimit, attempts in a window of 15 minutes; one window is looked at
    Domains         \* email domains

ASSUME SignInAssumption == DiscoverLimit \in Nat /\ Null \notin Domains

LoginSteps == <<"findLogin", "createSession">>
LogoutSteps == <<"getSession", "deleteSession">>
SessionTokenSteps == <<"getSession", "createSession">>
DiscoverOrgsSteps == <<"countAttempts", "recordAttempt">>

\* Mutant: the session is made first.
ProvisionSessionFirst ==
    <<"emailFree", "createUser", "createSession", "createOrg", "addMember", "createSystemAccount">>

ProvisionAccountSteps ==
    <<"emailFree", "createUser", "createOrg", "addMember", "createSystemAccount", "createSession">>

InitiateLoginSteps == <<"loadProvider", "createLoginState">>

\* OIDCCallback and SAMLACS, which differ in how the provider is asked.
CallbackSteps == <<"consumeState", "loadProvider", "findUser", "createUser">> \o
    <<"listRoleMappings", "getMember", "seats", "upsertMember", "upsertIdentity", "createSession">>

CreateProviderSteps == <<"createProvider">>
UpdateProviderSteps == <<"load", "updateProvider">>
DeleteProviderSteps == <<"load", "deleteProvider">>
SAMLMetadataSteps == <<"load", "ensureKeypair">>
CreateRoleMappingSteps == <<"load", "createRule">>
UpdateRoleMappingSteps == <<"load", "updateRule">>
DeleteRoleMappingSteps == <<"load", "deleteRule">>
CreateDomainSteps == <<"listDomains", "createDomain">>
UpdateDomainSteps == <<"updateDomain">>
DeleteDomainSteps == <<"deleteDomain">>

SignInOps == {"login", "logout", "sessionToken", "discover", "provision", "initiateLogin", "callback",
              "createProvider", "updateProvider", "deleteProvider", "samlMetadata", "createRule",
              "updateRule", "deleteRule", "createDomain", "updateDomain", "deleteDomain"}
SignInCalls == {"findLogin", "getSession", "deleteSession", "countAttempts", "recordAttempt",
                "loadProvider", "createLoginState", "consumeState", "findUser", "listRoleMappings",
                "getMember", "upsertMember", "upsertIdentity", "createProvider", "load",
                "updateProvider", "deleteProvider", "ensureKeypair", "createRule", "updateRule",
                "deleteRule", "listDomains", "createDomain", "updateDomain", "deleteDomain"}

SignInStart(q, op) ==
    CASE op = "login" -> \E e \in Emails, p \in Ids :
            Arrives(q, op, LoginSteps, [Blank EXCEPT !.email = e, !.aux = p])
      [] op = "logout" -> \E s \in DOMAIN db.sessions :
            Arrives(q, op, LogoutSteps, [Blank EXCEPT !.ref = s])
      [] op = "sessionToken" -> \E s \in DOMAIN db.sessions :
            Arrives(q, op, SessionTokenSteps, [Blank EXCEPT !.ref = s])
      [] op = "discover" -> Arrives(q, op, DiscoverOrgsSteps, Blank)
      [] op = "provision" -> \E e \in Emails :
            Arrives(q, op, ProvisionAccountSteps, [Blank EXCEPT !.email = e, !.role = "admin"])
      [] op = "initiateLogin" -> Arrives(q, op, InitiateLoginSteps, Blank)
      [] op = "callback" -> \E e \in Emails,
               s \in {Seed} \cup {p \in Requests : Op(p) = "initiateLogin"} :
            Arrives(q, op, CallbackSteps, [Blank EXCEPT !.email = e, !.ref = s])
      [] op \in {"createProvider", "updateProvider"} ->
            \E b \in [kind : {"oidc", "saml"}, enabled : BOOLEAN, signUp : BOOLEAN, secret : {q, Null}, key : {Null}] :
                Arrives(q, op, IF op = "createProvider" THEN CreateProviderSteps ELSE UpdateProviderSteps,
                        [Blank EXCEPT !.body = b])
      [] op = "deleteProvider" -> Arrives(q, op, DeleteProviderSteps, Blank)
      [] op = "samlMetadata" -> Arrives(q, op, SAMLMetadataSteps, Blank)
      [] op \in {"createRule", "updateRule", "deleteRule"} ->
            \E i \in IF op = "createRule" THEN {q} ELSE DOMAIN db.rules, r \in {"editor", "admin"} :
                Arrives(q, op, CASE op = "createRule" -> CreateRoleMappingSteps
                                 [] op = "updateRule" -> UpdateRoleMappingSteps
                                 [] op = "deleteRule" -> DeleteRoleMappingSteps,
                        [Blank EXCEPT !.aux = i, !.role = r])
      [] op = "createDomain" -> Arrives(q, op, CreateDomainSteps, Blank)
      [] op \in {"updateDomain", "deleteDomain"} -> \E d \in DOMAIN db.domains :
            Arrives(q, op, IF op = "updateDomain" THEN UpdateDomainSteps ELSE DeleteDomainSteps,
                    [Blank EXCEPT !.ref = d])

(***************************************************************************)
(* Passwords and sessions.                                                 *)
(***************************************************************************)
\* Mutant: the account is not asked whether it is disabled.
PasswordAlone(row, m) == row.password = m.aux

MayLogin(row, m) == row.password = m.aux /\ ~row.disabled

\* GetUserByEmail; the body gives the password that aux set.
FindLogin(q) ==
    /\ At(q, "findLogin")
    /\ LET found == ByEmail(Mem(q).email) IN
       \/ \E u \in found : /\ MayLogin(db.users[u], Mem(q))
                           /\ Reads(q, [Mem(q) EXCEPT !.user = u])
       \/ (\A u \in found : ~MayLogin(db.users[u], Mem(q))) /\ Refuses(q)

\* GetSessionByToken.  A principal is made of it without a look at whether the
\* user is disabled.
GetSessionByToken(q) ==
    /\ At(q, "getSession")
    /\ LET s == Mem(q).ref IN
       IF s \in DOMAIN db.sessions THEN Reads(q, [Mem(q) EXCEPT !.user = db.sessions[s].user])
       ELSE Refuses(q)

DeleteSession(q) ==
    /\ At(q, "deleteSession")
    /\ Writes(q, [db EXCEPT !.sessions = Keep(@, DOMAIN @ \ {Mem(q).ref})], Mem(q))

\* Mutant: one attempt too many.
AttemptsOffByOne(n) == n > DiscoverLimit

TooManyAttempts(n) == n >= DiscoverLimit

CountLoginAttempts(q) ==
    /\ At(q, "countAttempts")
    /\ IF TooManyAttempts(db.attempts) THEN Refuses(q) ELSE Reads(q, Mem(q))

RecordLoginAttempt(q) ==
    /\ At(q, "recordAttempt")
    /\ Writes(q, [db EXCEPT !.attempts = @ + 1], Mem(q))

(***************************************************************************)
(* Single sign-on.                                                         *)
(***************************************************************************)
\* Mutant: whichever provider has the slug now will do.
AnyProvider(m, p) == TRUE

\* The provider that the state was made for.
SameProvider(m, p) == m.aux = p

\* A disabled provider is not found.  A callback compares it with the state's.
LoadProvider(q) ==
    /\ At(q, "loadProvider")
    /\ LET found == {p \in DOMAIN db.providers :
                        /\ db.providers[p].enabled
                        /\ Op(q) = "callback" => SameProvider(Mem(q), p)} IN
       \/ \E p \in found : Reads(q, [Mem(q) EXCEPT !.provider = p, !.held = db.providers[p]])
       \/ found = {} /\ Refuses(q)

CreateLoginState(q) ==
    /\ At(q, "createLoginState")
    /\ LET p == Mem(q).provider IN
       IF p \in DOMAIN db.providers
       THEN Writes(q, [db EXCEPT !.loginStates = With(@, q, p)], Mem(q)) ELSE Refuses(q)

\* Mutant: the state is only looked up.
LookUpState(q) ==
    /\ At(q, "consumeState")
    /\ LET s == Mem(q).ref IN
       \/ s \in DOMAIN db.loginStates /\ Reads(q, [Mem(q) EXCEPT !.aux = db.loginStates[s]])
       \/ s \notin DOMAIN db.loginStates /\ Refuses(q)

\* DELETE ... RETURNING; an expired state is deleted too.
ConsumeLoginState(q) ==
    /\ At(q, "consumeState")
    /\ LET s == Mem(q).ref
           rest == [db EXCEPT !.loginStates = Keep(@, DOMAIN @ \ {s})] IN
       \/ s \in DOMAIN db.loginStates /\ Writes(q, rest, [Mem(q) EXCEPT !.aux = db.loginStates[s]])
       \/ s \in DOMAIN db.loginStates /\ db' = rest /\ Ends(q)
       \/ s \notin DOMAIN db.loginStates /\ Refuses(q)

\* A disabled user is refused; a new one the provider must allow, as it was read.
FindUser(q) ==
    /\ At(q, "findUser")
    /\ LET found == ByEmail(Mem(q).email) IN
       \/ \E u \in found : IF db.users[u].disabled THEN Refuses(q)
                           ELSE Reads(q, [Mem(q) EXCEPT !.user = u])
       \/ found = {} /\ IF Mem(q).held.signUp THEN Reads(q, Mem(q)) ELSE Refuses(q)

\* The rules of the provider in their order: the first that the claims match
\* gives the role.  Without one it is the default role, a viewer's here.
ListRoleMappings(q) ==
    /\ At(q, "listRoleMappings")
    /\ \E r \in {db.rules[i].role : i \in {j \in DOMAIN db.rules :
                    db.rules[j].provider = Mem(q).provider}} \cup {"viewer"} :
         Reads(q, [Mem(q) EXCEPT !.role = r])

GetMember(q) ==
    /\ At(q, "getMember")
    /\ Reads(q, [Mem(q) EXCEPT !.isMember = <<Mem(q).user, Seed>> \in DOMAIN db.members])

\* ON CONFLICT the role and the source are overwritten.
UpsertMember(q) ==
    /\ At(q, "upsertMember")
    /\ IF Seed \in DOMAIN db.orgs
       THEN Writes(q, [db EXCEPT !.members = With(@, <<Mem(q).user, Seed>>,
                           [role |-> Mem(q).role, source |-> "sso"])], Mem(q))
       ELSE Refuses(q)

\* ON CONFLICT (provider, sub) the user changes; the subject is always the same.
UpsertAuthIdentity(q) ==
    /\ At(q, "upsertIdentity")
    /\ Writes(q, [db EXCEPT !.identities = With(@, Mem(q).provider, Mem(q).user)], Mem(q))

(***************************************************************************)
(* The settings.                                                           *)
(***************************************************************************)
NoProvider == [kind |-> "oidc", enabled |-> FALSE, signUp |-> FALSE, secret |-> Null, key |-> Null]

\* Mutant: a secret that is not given is lost.
AppliedBlank(q, body, row) ==
    [body EXCEPT !.key = IF body.kind = "saml" /\ row.key = Null THEN q ELSE row.key]

\* The body over a row: a secret that is not given (blank, or the mask that
\* stands for it) stays, and a key pair is made for SAML when there is none.
Applied(q, body, row) ==
    [body EXCEPT !.secret = IF @ # Null /\ body.kind = "oidc" THEN @ ELSE row.secret,
                 !.key = IF body.kind = "saml" /\ row.key = Null THEN q ELSE row.key]

\* UNIQUE (org_id, slug).
CreateAuthProvider(q) ==
    /\ At(q, "createProvider")
    /\ IF db.providers = Empty /\ Seed \in DOMAIN db.orgs
       THEN Writes(q, [db EXCEPT !.providers = With(@, q, Applied(q, Mem(q).body, NoProvider))], Mem(q))
       ELSE Refuses(q)

\* GetAuthProviderBySlug, enabled or not.
Load(q) ==
    /\ At(q, "load")
    /\ \/ \E p \in DOMAIN db.providers :
            Reads(q, [Mem(q) EXCEPT !.provider = p, !.held = db.providers[p]])
       \/ db.providers = Empty /\ Refuses(q)

\* Every column, as it was read or as the body gives it.
UpdateAuthProvider(q) ==
    /\ At(q, "updateProvider")
    /\ LET m == Mem(q) IN
       IF m.provider \in DOMAIN db.providers
       THEN Writes(q, [db EXCEPT !.providers[m.provider] = Applied(q, m.body, m.held)], m)
       ELSE Refuses(q)

\* ON DELETE CASCADE takes the rules and the login states along.
DeleteAuthProvider(q) ==
    /\ At(q, "deleteProvider")
    /\ LET p == Mem(q).provider IN
       Writes(q, [db EXCEPT
           !.providers = Keep(@, DOMAIN @ \ {p}),
           !.rules = Keep(@, {i \in DOMAIN @ : @[i].provider # p}),
           !.loginStates = Keep(@, {s \in DOMAIN @ : @[s] # p})], Mem(q))

\* A SAML provider that has no key pair gets one, and its row is written back.
EnsureSPKeypair(q) ==
    /\ At(q, "ensureKeypair")
    /\ LET m == Mem(q) IN
       IF m.held.kind # "saml" THEN Refuses(q)
       ELSE IF m.held.key # Null THEN Reads(q, m)
       ELSE IF m.provider \in DOMAIN db.providers
       THEN Writes(q, [db EXCEPT !.providers[m.provider] = [m.held EXCEPT !.key = q]], m)
       ELSE Refuses(q)

CreateRoleMapping(q) ==
    /\ At(q, "createRule")
    /\ LET m == Mem(q) IN
       IF m.provider \in DOMAIN db.providers
       THEN Writes(q, [db EXCEPT !.rules = With(@, q, [provider |-> m.provider, role |-> m.role])], m)
       ELSE Refuses(q)

OwnRule(m) == m.aux \in DOMAIN db.rules /\ db.rules[m.aux].provider = m.provider

UpdateRoleMapping(q) ==
    /\ At(q, "updateRule")
    /\ IF OwnRule(Mem(q)) THEN Writes(q, [db EXCEPT !.rules[Mem(q).aux].role = Mem(q).role], Mem(q))
       ELSE Refuses(q)

DeleteRoleMapping(q) ==
    /\ At(q, "deleteRule")
    /\ Writes(q, IF OwnRule(Mem(q)) THEN [db EXCEPT !.rules = Keep(@, DOMAIN @ \ {Mem(q).aux})] ELSE db,
              Mem(q))

\* Mutant: nobody asks.
AnyNumber(n) == FALSE

\* "an organization can currently have only one domain"
HasDomain(n) == n > 0

ListOrgDomains(q) ==
    /\ At(q, "listDomains")
    /\ IF HasDomain(Cardinality(DOMAIN db.domains)) THEN Refuses(q) ELSE Reads(q, Mem(q))

DomainThere(d) == \E i \in DOMAIN db.domains : db.domains[i] = d

\* ON CONFLICT (org_id, domain) DO NOTHING.
CreateOrgDomain(q) ==
    /\ At(q, "createDomain")
    /\ IF Seed \notin DOMAIN db.orgs THEN Refuses(q)
       ELSE \E d \in Domains :
            Writes(q, IF DomainThere(d) THEN db ELSE [db EXCEPT !.domains = With(@, q, d)], Mem(q))

UpdateOrgDomain(q) ==
    /\ At(q, "updateDomain")
    /\ LET i == Mem(q).ref IN
       \E d \in Domains :
          IF i \in DOMAIN db.domains /\ (db.domains[i] = d \/ ~DomainThere(d))
          THEN Writes(q, [db EXCEPT !.domains[i] = d], Mem(q)) ELSE Refuses(q)

DeleteOrgDomain(q) ==
    /\ At(q, "deleteDomain")
    /\ Writes(q, [db EXCEPT !.domains = Keep(@, DOMAIN @ \ {Mem(q).ref})], Mem(q))

SignInStep(q) ==
    /\ \/ FindLogin(q) \/ GetSessionByToken(q) \/ DeleteSession(q) \/ CountLoginAttempts(q)
       \/ RecordLoginAttempt(q) \/ LoadProvider(q) \/ CreateLoginState(q) \/ ConsumeLoginState(q)
       \/ FindUser(q) \/ ListRoleMappings(q) \/ GetMember(q) \/ UpsertMember(q)
       \/ UpsertAuthIdentity(q) \/ CreateAuthProvider(q) \/ Load(q) \/ UpdateAuthProvider(q)
       \/ DeleteAuthProvider(q) \/ EnsureSPKeypair(q) \/ CreateRoleMapping(q) \/ UpdateRoleMapping(q)
       \/ DeleteRoleMapping(q) \/ ListOrgDomains(q) \/ CreateOrgDomain(q) \/ UpdateOrgDomain(q)
       \/ DeleteOrgDomain(q)
    /\ UNCHANGED failedOpen

(***************************************************************************)
(* Properties.                                                             *)
(***************************************************************************)
\* A login state is good for one session, however often and however close
\* together the browser comes back with it.
StateUsedOnce ==
    \A s, t \in DOMAIN db.sessions :
        s # t /\ db.sessions[s].state # Null => db.sessions[s].state # db.sessions[t].state

\* Whoever signs in through a provider started with that same one, although a
\* provider may be deleted and another take over its slug in between.
SignInThroughSameProvider ==
    \A s \in DOMAIN db.sessions : db.sessions[s].began = db.sessions[s].ended

\* A request that nothing overlaps gives a session only to a user who is not
\* disabled, for the password that holds, through a provider that is enabled,
\* or for a session that has not been logged out.  (A session of a user who is
\* disabled later goes on, and is good for further ones.)
SignInIsCurrent ==
    [][\A q \in Requests : (clean' /\ At(q, "createSession") /\ proc'[q] # proc[q]) =>
          LET m == Mem(q)
              user == db.users[m.user] IN
          CASE Op(q) = "login" -> ~user.disabled /\ user.password = m.aux
            [] Op(q) = "callback" -> ~user.disabled /\ db.providers[m.provider].enabled
            [] Op(q) = "sessionToken" -> m.ref \in DOMAIN db.sessions /\ db.sessions[m.ref].user = m.user
            [] Op(q) = "provision" -> m.user = q]_<<db, proc, clean>>

\* Attempts are counted in one statement and recorded in another: requests
\* under way at once may exceed the limit, each by one at most, and one after
\* the other they do not.
AttemptsOvershoot == db.attempts <= IF clean THEN DiscoverLimit ELSE DiscoverLimit + InFlight - 1

\* That an organisation has no domain yet is asked in one statement and one is
\* added in another, so there are never more than requests under way at once,
\* and one as long as they do not overlap.
DomainOvershoot == Cardinality(DOMAIN db.domains) <= IF clean THEN 1 ELSE InFlight

\* What was told to the identity provider stays true: as long as updates do not
\* overlap, a key pair once made is kept, and a secret changes only when one is
\* given.
ProviderSecretsKept ==
    [][\A p \in DOMAIN db.providers \cap DOMAIN db'.providers : clean' =>
          LET old == db.providers[p]
              new == db'.providers[p] IN
          /\ old.key # Null => new.key = old.key
          /\ new.secret # old.secret => new.secret # Null]_<<db, proc, clean>>

\* Whatever fails or overlaps, an account that was provisioned to the end, to
\* its session, owns an organisation with an admin and the system account, as
\* long as the organisation is not deleted.
ProvisionedIsWhole ==
    \A q \in DOMAIN db.sessions \cap Requests :
        Op(q) = "provision" /\ q \in DOMAIN db.orgs =>
            /\ \/ <<q, q>> \in DOMAIN db.members
               \/ \E p \in Requests : Op(p) = "removeMember"
            /\ \E a \in DOMAIN db.accounts : /\ db.accounts[a].org = q /\ db.accounts[a].internal
                                             /\ ~db.accounts[a].disabled /\ ~db.accounts[a].deleted
=============================================================================
