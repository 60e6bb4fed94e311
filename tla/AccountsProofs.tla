--------------------------- MODULE AccountsProofs ---------------------------
(***************************************************************************)
(* Theorems about Accounts, for every set of requests and addresses and    *)
(* every plan, whatever overlaps or fails.                                 *)
(*                                                                         *)
(* What a request relies on depends on the calls it has left, as a set: a  *)
(* user that was looked up, a row that was read, a provider that was       *)
(* compared.  Some calls have a rank, and in every list they are in the    *)
(* order of their ranks.  What the tables rely on of one another are their *)
(* foreign keys and unique constraints.                                    *)
(***************************************************************************)
EXTENDS Accounts, FiniteSetTheorems, TLAPS

(***************************************************************************)
(* Calls, and lists of calls.                                              *)
(***************************************************************************)
AllOps == PeopleOps \cup SignInOps \cup TokenOps \cup BootOps
AllCalls == SharedCalls \cup PeopleCalls \cup SignInCalls \cup TokenCalls \cup BootCalls

\* The calls that make a service account, and those that make something else
\* of which the request has one.
Inserters == {"createAccount", "createSystemAccount", "createImportAccount"}
Makers == {"createLoginState", "createInstallState", "recordAttempt", "createDomain"}

\* Calls without a rank have 0.
Rank(c) ==
    IF c \in {"consumeState", "getUser", "getOrg", "load", "countAttempts", "listDomains",
            "getInstallation", "getAccount", "applyMigration"} THEN 1
    ELSE IF c \in {"loadProvider", "updateUser", "updateOrg", "updateProvider", "ensureKeypair",
            "updateAccount", "deleteAccount", "isApplied", "getToken", "deleteAtGitHub"} THEN 2
    ELSE IF c \in {"findUser", "findImportAccount", "anyUser", "getKeyAccount", "leaveTeams",
            "deleteInstallation"} THEN 3
    ELSE IF c \in {"getMember", "createOrg", "joinTeam"} THEN 4
    ELSE IF c \in {"seats", "upsertUser"} THEN 5
    ELSE IF c \in {"addMember", "upsertMember"} THEN 6
    ELSE IF c \in Inserters \cup Makers THEN 7
    ELSE IF c = "listTokens" THEN 8
    ELSE IF c = "revokeTokens" THEN 9
    ELSE IF c \in {"createToken", "createSession"} THEN 10 ELSE 0

\* The call c may come before the call d.  A session is made last, and a user is
\* made once and before it is a member.
Precedes(c, d) ==
    /\ Rank(c) = 0 \/ Rank(d) = 0 \/ Rank(c) < Rank(d)
    /\ c # "createSession" /\ ~(c \in {"upsertMember", "addMember", "createUser"} /\ d = "createUser")

Ordered(s) == \A i, j \in 1..Len(s) : i < j => Precedes(s[i], s[j])

CallsOf(s) == {s[n] : n \in 1..Len(s)}
Left(q) == CallsOf(proc[q].todo)

Listed(s) == s \in Seq(AllCalls) /\ Ordered(s)

(***************************************************************************)
(* What a request knows, by its operation o, the calls L that it has left  *)
(* and what it holds.                                                      *)
(***************************************************************************)
\* Operations that are followed more closely than by a call that is left.
CallsOfOp(o, L) ==
    /\ o = "callback" => L \subseteq {CallbackSteps[n] : n \in 1..10}
    /\ o = "addMember" => L \subseteq {AddMemberSteps[n] : n \in 1..4}
    /\ o = "importToken" =>
         L \subseteq {CreateImportTokenSteps[n] : n \in 1..5} \cup {"createImportAccount"}
    /\ o = "boot" => L \subseteq {BootSteps[n] : n \in 1..5} \cup {"applyMigration"}
    /\ "upsertMember" \in L => o = "callback"
    /\ L \cap {"isApplied", "applyMigration", "upsertUser"} # {} => o = "boot"
    /\ L \cap {"listTokens", "revokeTokens", "findImportAccount", "createImportAccount"} # {} =>
         o = "importToken"
    /\ "findImportAccount" \in L => "createImportAccount" \notin L
    /\ L \cap {"getUser", "updateUser"} # {} =>
         L \cap {"getOrg", "updateOrg", "load", "loadProvider", "updateProvider", "ensureKeypair"} = {}
    /\ L \cap {"getOrg", "updateOrg"} # {} =>
         L \cap {"load", "loadProvider", "updateProvider", "ensureKeypair"} = {}
    /\ "loadProvider" \in L => L \cap {"load", "updateProvider", "ensureKeypair"} = {}

\* What the body gives.
Given(L, m) ==
    /\ L \cap {"emailFree", "createUser", "findLogin", "findUser", "getClash"} # {} => m.email \in Emails
    /\ "updateUser" \in L =>
         /\ m.change \in {"promote", "disable", "enable", "password", "login"}
         /\ m.change = "login" => m.email \in Emails
    /\ L \cap {"createProvider", "updateProvider"} # {} => m.body \in ProviderRow
    /\ "authorizeState" \in L => m.change \in GitHubUsers

NamedUser(row) == row \in UserRow /\ (row.login = AdminLogin => row.email = SeedEmail)

\* The rows that were read.
HeldRows(L, m) ==
    /\ "updateUser" \in L /\ "getUser" \notin L => NamedUser(m.held)
    /\ "updateOrg" \in L /\ "getOrg" \notin L => m.held \in OrgRow
    /\ L \cap {"updateProvider", "ensureKeypair"} # {} /\ "load" \notin L => m.held \in ProviderRow

\* The user that the request is about, who is never removed.
HeldUser(L, m) ==
    /\ L \cap {"getUser", "updateUser", "disableUser"} # {} => m.user \in DOMAIN db.users
    /\ "createUser" \in L => m.user \in DOMAIN db.users \cup {Null}
    /\ L \cap {"createSession", "upsertMember", "upsertIdentity"} # {}
         /\ L \cap {"findLogin", "getSession", "createUser"} = {} => m.user \in DOMAIN db.users

\* A callback; who adds a member did not look whether there is one.
HeldState(o, L, m) ==
    /\ o = "addMember" => ~m.isMember
    /\ o = "callback" =>
        /\ m.org = Seed
        /\ "consumeState" \in L => "loadProvider" \in L
        /\ "loadProvider" \in L \/ m.aux = m.provider
        /\ "findUser" \in L => "getMember" \in L
        /\ "getMember" \in L => "seats" \in L /\ ~m.isMember

Known(o, L, m) ==
    /\ CallsOfOp(o, L) /\ Given(L, m) /\ HeldRows(L, m) /\ HeldUser(L, m) /\ HeldState(o, L, m)

Knows(q) ==
    /\ Listed(proc[q].todo)
    /\ Op(q) = "none" => Left(q) = {}
    /\ Left(q) # {} =>
         Mem(q) \in AccountMemory /\ Known(Op(q), Left(q), Mem(q))

(***************************************************************************)
(* The tables.                                                             *)
(***************************************************************************)
Fields == {"users", "orgs", "members", "teams", "teamMembers", "accounts", "tokens", "sessions",
           "providers", "rules", "loginStates", "identities", "domains", "attempts",
           "installStates", "installation"}

UsersOK(users) ==
    /\ DOMAIN users \subseteq Ids
    /\ \A u \in DOMAIN users : NamedUser(users[u])
    /\ \A u, v \in DOMAIN users : u # v => users[u].email # users[v].email /\ users[u].login # users[v].login

OrgsOK(orgs) == DOMAIN orgs \subseteq Ids /\ \A o \in DOMAIN orgs : orgs[o] \in OrgRow

MembersOK(members, users, orgs) ==
    \A k \in DOMAIN members : /\ k \in Ids \X Ids /\ members[k] \in MemberRow
                              /\ k[1] \in DOMAIN users /\ k[2] \in DOMAIN orgs

SessionsOK(sessions, users) ==
    \A s \in DOMAIN sessions : /\ sessions[s] \in SessionRow /\ sessions[s].user \in DOMAIN users
                               /\ sessions[s].began = sessions[s].ended /\ s \in Ids

TeamsOK(teams, teamMembers, orgs) ==
    /\ DOMAIN teams \subseteq Ids
    /\ \A t \in DOMAIN teams : teams[t] \in DOMAIN orgs
    /\ \A k \in DOMAIN teamMembers : k[1] \in DOMAIN teams /\ teamMembers[k] \in DOMAIN orgs

AccountsOK(accounts, orgs) ==
    /\ DOMAIN accounts \subseteq Ids
    /\ \A a \in DOMAIN accounts : accounts[a] \in AccountRow /\ accounts[a].org \in DOMAIN orgs

TokensOK(tokens, accounts) ==
    /\ DOMAIN tokens \subseteq Ids
    /\ \A t \in DOMAIN tokens : tokens[t] \in TokenRow /\ tokens[t].account \in DOMAIN accounts

ProvidersOK(providers, rules, states) ==
    /\ DOMAIN providers \subseteq Ids /\ DOMAIN rules \subseteq Ids /\ DOMAIN states \subseteq Ids
    /\ \A p \in DOMAIN providers : providers[p] \in ProviderRow
    /\ \A r \in DOMAIN rules : rules[r] \in [provider : DOMAIN providers, role : Roles]
    /\ \A s \in DOMAIN states : states[s] \in DOMAIN providers

OthersOK(domains, attempts, installStates, installation) ==
    /\ DOMAIN domains \subseteq Ids /\ DOMAIN installStates \subseteq Ids
    /\ \A s \in DOMAIN installStates : installStates[s] \in StateRow
    /\ attempts \in Nat /\ installation \in MaybeId

DbOK ==
    /\ DOMAIN db = Fields
    /\ UsersOK(db.users) /\ OrgsOK(db.orgs) /\ MembersOK(db.members, db.users, db.orgs)
    /\ SessionsOK(db.sessions, db.users) /\ TeamsOK(db.teams, db.teamMembers, db.orgs)
    /\ AccountsOK(db.accounts, db.orgs) /\ TokensOK(db.tokens, db.accounts)
    /\ ProvidersOK(db.providers, db.rules, db.loginStates)
    /\ OthersOK(db.domains, db.attempts, db.installStates, db.installation)

ProcType == ReqsType(AllOps, AllCalls, AccountMemory)

\* Inductive.
AccountsInv ==
    /\ ProcType /\ failedOpen \in BOOLEAN /\ DbOK
    /\ \A q \in Requests : Knows(q)

(***************************************************************************)
(* Moving on.                                                              *)
(***************************************************************************)
\* The calls after the first are the others, and come after it.
LEMMA TailCalls ==
    ASSUME NEW s, Listed(s), s # <<>>
    PROVE  /\ Listed(Tail(s)) /\ Head(s) \in CallsOf(s) /\ Head(s) \in AllCalls
           /\ CallsOf(Tail(s)) \subseteq CallsOf(s)
           /\ CallsOf(s) \subseteq CallsOf(Tail(s)) \cup {Head(s)}
           /\ \A d \in CallsOf(Tail(s)) : Precedes(Head(s), d)
           /\ \A d \in CallsOf(s) : d = Head(s) \/ Precedes(Head(s), d)
           /\ (Len(s) = 1) <=> (Tail(s) = <<>>)
           /\ Tail(s) # s
<1> DEFINE t == Tail(s)
<1>1. s \in Seq(AllCalls) /\ Len(s) \in Nat /\ Len(s) # 0 /\ Head(s) = s[1] /\ 1 \in 1..Len(s)
  BY DEF Listed
<1>2. t \in Seq(AllCalls) /\ Len(t) = Len(s) - 1 /\ \A i \in 1..Len(t) : t[i] = s[i + 1]
  BY <1>1
<1>3. /\ \A i \in 1..Len(t) : i + 1 \in 1..Len(s)
      /\ \A i \in 1..Len(s) : i = 1 \/ (i - 1 \in 1..Len(t) /\ s[i] = t[i - 1])
  <2>1. \A i \in 1..Len(s) : i # 1 => i - 1 \in 1..Len(t) /\ (i - 1) + 1 = i
    BY <1>1, <1>2
  <2> QED BY <1>1, <1>2, <2>1
<1> HIDE DEF t
<1>4. Ordered(t)
  <2> SUFFICES ASSUME NEW i \in 1..Len(t), NEW j \in 1..Len(t), i < j
               PROVE  Precedes(t[i], t[j])
    BY DEF Ordered
  <2>1. i + 1 \in 1..Len(s) /\ j + 1 \in 1..Len(s) /\ i + 1 < j + 1
    BY <1>3
  <2> QED BY <1>2, <2>1 DEF Listed, Ordered
<1>5. CallsOf(t) \subseteq CallsOf(s)
  BY <1>2, <1>3 DEF CallsOf
<1>6. CallsOf(s) \subseteq CallsOf(t) \cup {Head(s)}
  BY <1>1, <1>3 DEF CallsOf
<1>7. \A d \in CallsOf(t) : Precedes(Head(s), d)
  <2> SUFFICES ASSUME NEW i \in 1..Len(t) PROVE Precedes(s[1], t[i])
    BY <1>1 DEF CallsOf
  <2>1. i + 1 \in 1..Len(s) /\ 1 < i + 1
    BY <1>3
  <2> QED BY <1>1, <1>2, <2>1 DEF Listed, Ordered
<1>8. (Len(s) = 1) <=> (t = <<>>)
  <2>1. (t = <<>>) <=> (Len(t) = 0)
    BY <1>2
  <2> QED BY <1>1, <1>2, <2>1
<1>9. Head(s) \in CallsOf(s) /\ Head(s) \in AllCalls
  BY <1>1 DEF CallsOf
<1>10. t # s
  BY <1>1, <1>2
<1>11. \A d \in CallsOf(s) : d = Head(s) \/ Precedes(Head(s), d)
  BY <1>6, <1>7
<1> QED BY <1>2, <1>4, <1>5, <1>6, <1>7, <1>8, <1>9, <1>10, <1>11 DEF t, Listed

\* A list without calls.
LEMMA NoCalls == Listed(<<>>) /\ CallsOf(<<>>) = {}
<1>1. <<>> \in Seq(AllCalls) /\ Len(<<>>) = 0 /\ 1..0 = {}
  OBVIOUS
<1> QED BY <1>1 DEF Listed, Ordered, CallsOf

LEMMA CallsEmpty ==
    ASSUME NEW s \in Seq(AllCalls)
    PROVE  (CallsOf(s) = {}) <=> (s = <<>>)
<1>1. Len(s) \in Nat /\ ((s = <<>>) <=> (Len(s) = 0))
  OBVIOUS
<1>2. Len(s) # 0 => 1 \in 1..Len(s)
  BY <1>1
<1>3. Len(s) = 0 => 1..Len(s) = {}
  OBVIOUS
<1> QED BY <1>1, <1>2, <1>3 DEF CallsOf

Others(q) == \A p \in Requests : p # q => proc'[p] = proc[p]

\* q has done the call c, and holds m as long as it has calls left.
Moved(q, c, m) ==
    /\ Others(q) /\ proc'[q] # proc[q] /\ Op(q)' = Op(q) /\ Listed(proc[q].todo)'
    /\ Left(q)' \subseteq Left(q) /\ Left(q) \subseteq Left(q)' \cup {c}
    /\ \A d \in Left(q)' : Precedes(c, d)
    /\ Left(q)' # {} => Mem(q)' = m

Ended(q) == Others(q) /\ Op(q)' = Op(q) /\ Listed(proc[q].todo)' /\ Left(q)' = {}

\* What a step of q writes into proc.
LEMMA Written ==
    ASSUME ProcType, NEW q \in Requests, NEW op \in AllOps \cup {"none"}, NEW t \in Seq(AllCalls),
           NEW m \in AccountMemory \cup {NoMem},
           proc' = [proc EXCEPT ![q] = [op |-> op, todo |-> t, mem |-> m]], clean' \in BOOLEAN
    PROVE  /\ ProcType' /\ Others(q)
           /\ Op(q)' = op /\ proc'[q].todo = t /\ Left(q)' = CallsOf(t) /\ Mem(q)' = m
<1>1. /\ Others(q) /\ proc'[q] = [op |-> op, todo |-> t, mem |-> m]
  BY DEF Others, ProcType, ReqsType
<1>2. ProcType'
  BY DEF ProcType, ReqsType
<1> QED BY <1>1, <1>2 DEF Op, Left, Mem

\* Two fields of a request set one after the other.
LEMMA Rewritten ==
    ASSUME ProcType, NEW q \in Requests, NEW t \in Seq(AllCalls), NEW n \in AccountMemory \cup {NoMem},
           proc' = [proc EXCEPT ![q].todo = t, ![q].mem = n]
    PROVE  proc' = [proc EXCEPT ![q] = [op |-> proc[q].op, todo |-> t, mem |-> n]]
<1>1. proc \in [Requests -> [op : AllOps \cup {"none"}, todo : Seq(AllCalls),
                              mem : AccountMemory \cup {NoMem}]]
  BY DEF ProcType, ReqsType
<1>2. proc'[q] = [op |-> proc[q].op, todo |-> t, mem |-> n]
  BY <1>1
<1>3. proc' = [proc EXCEPT ![q] = proc'[q]]
  BY <1>1
<1> QED BY <1>2, <1>3

LEMMA KeepsMoves ==
    ASSUME ProcType, NEW q \in Requests, Listed(proc[q].todo), NEW c, At(q, c),
           NEW m \in AccountMemory, Keeps(q, m)
    PROVE  ProcType' /\ Moved(q, c, m) /\ clean' = clean
<1>1. PICK s : s = proc[q].todo
  OBVIOUS
<1>2. s # <<>> /\ Head(s) = c /\ Listed(s)
  BY <1>1 DEF At
<1>3. PICK t : t = Tail(s)
  OBVIOUS
<1>4. /\ Listed(t) /\ CallsOf(t) \subseteq CallsOf(s) /\ CallsOf(s) \subseteq CallsOf(t) \cup {c}
      /\ \A d \in CallsOf(t) : Precedes(c, d)
      /\ t # s
  BY <1>2, <1>3, TailCalls
<1>5. PICK n : n = IF t = <<>> THEN NoMem ELSE m
  OBVIOUS
<1>6. PICK op : op = proc[q].op
  OBVIOUS
<1>7. /\ proc' = [proc EXCEPT ![q] = [op |-> op, todo |-> t, mem |-> n]] /\ clean' = clean
      /\ op \in AllOps \cup {"none"} /\ t \in Seq(AllCalls) /\ n \in AccountMemory \cup {NoMem}
      /\ clean \in BOOLEAN
  BY <1>1, <1>3, <1>4, <1>5, <1>6 DEF Keeps, Goes, Listed, ProcType, ReqsType
<1>8. /\ ProcType' /\ Others(q)
      /\ Op(q)' = op /\ proc'[q].todo = t /\ Left(q)' = CallsOf(t) /\ Mem(q)' = n
  BY <1>7, Written
<1>9. CallsOf(t) # {} => t # <<>>
  BY NoCalls
<1> QED BY <1>1, <1>4, <1>5, <1>6, <1>7, <1>8, <1>9 DEF Moved, Left, Op

LEMMA ProceedsMoves ==
    ASSUME ProcType, NEW q \in Requests, Listed(proc[q].todo), NEW c, At(q, c),
           Mem(q) \in AccountMemory, Proceeds(q)
    PROVE  ProcType' /\ Moved(q, c, Mem(q)) /\ clean' = clean
BY KeepsMoves DEF Proceeds, Mem

LEMMA EndsMoves ==
    ASSUME ProcType, NEW q \in Requests, Ends(q) \/ Aborts(q)
    PROVE  ProcType' /\ Ended(q) /\ (clean' => clean /\ Ends(q))
<1>1. PICK op : op = proc[q].op
  OBVIOUS
<1>2. /\ proc' = [proc EXCEPT ![q] = [op |-> op, todo |-> <<>>, mem |-> NoMem]]
      /\ clean' \in BOOLEAN /\ (clean' => clean /\ Ends(q)) /\ op \in AllOps \cup {"none"}
  <2>1. op \in AllOps \cup {"none"} /\ clean \in BOOLEAN
    BY <1>1 DEF ProcType, ReqsType
  <2>2. CASE Ends(q)
    BY <1>1, <2>1, <2>2 DEF Ends, Goes
  <2>3. CASE Aborts(q)
    <3>1. <<>> \in Seq(AllCalls) /\ NoMem \in AccountMemory \cup {NoMem}
      OBVIOUS
    <3>2. proc' = [proc EXCEPT ![q].todo = <<>>, ![q].mem = NoMem] /\ clean' = FALSE
      BY <2>3 DEF Aborts
    <3>3. proc' = [proc EXCEPT ![q] = [op |-> proc[q].op, todo |-> <<>>, mem |-> NoMem]]
      BY <3>1, <3>2, Rewritten
    <3> QED BY <1>1, <2>1, <3>2, <3>3
  <2> QED BY <2>2, <2>3
<1>3. <<>> \in Seq(AllCalls) /\ NoMem \in AccountMemory \cup {NoMem} /\ Listed(<<>>) /\ CallsOf(<<>>) = {}
  BY NoCalls
<1>4. /\ ProcType' /\ Others(q)
      /\ Op(q)' = op /\ proc'[q].todo = <<>> /\ Left(q)' = CallsOf(<<>>) /\ Mem(q)' = NoMem
  BY <1>2, <1>3, Written
<1> QED BY <1>1, <1>2, <1>3, <1>4 DEF Ended, Op

LEMMA SkipsMoves ==
    ASSUME ProcType, NEW q \in Requests, Listed(proc[q].todo), NEW c, At(q, c),
           Mem(q) \in AccountMemory, Skips(q)
    PROVE  ProcType' /\ Moved(q, c, Mem(q)) /\ clean' = FALSE
<1>1. PICK s : s = proc[q].todo
  OBVIOUS
<1>2. s # <<>> /\ Head(s) = c /\ Listed(s)
  BY <1>1 DEF At
<1>3. PICK t : t = Tail(s)
  OBVIOUS
<1>4. /\ Listed(t) /\ CallsOf(t) \subseteq CallsOf(s) /\ CallsOf(s) \subseteq CallsOf(t) \cup {c}
      /\ \A d \in CallsOf(t) : Precedes(c, d)
      /\ (Len(s) = 1) <=> (t = <<>>)
      /\ t # s
  BY <1>2, <1>3, TailCalls
<1>5. PICK n : n = IF Len(s) = 1 THEN NoMem ELSE Mem(q)
  OBVIOUS
<1>6. PICK op : op = proc[q].op
  OBVIOUS
<1>7. proc' = [proc EXCEPT ![q].todo = t, ![q].mem = n] /\ clean' = FALSE
  BY <1>1, <1>3, <1>5 DEF Skips, Mem
<1>8. proc[q] \in [op : AllOps \cup {"none"}, todo : Seq(AllCalls), mem : AccountMemory \cup {NoMem}]
  BY DEF ProcType, ReqsType
<1>9. /\ proc' = [proc EXCEPT ![q] = [op |-> op, todo |-> t, mem |-> n]]
      /\ op \in AllOps \cup {"none"} /\ t \in Seq(AllCalls) /\ n \in AccountMemory \cup {NoMem}
  <2>1. proc' = [proc EXCEPT ![q] = [op |-> op, todo |-> t, mem |-> n]]
    <3>1. t \in Seq(AllCalls) /\ n \in AccountMemory \cup {NoMem}
      BY <1>4, <1>5 DEF Listed
    <3>2. proc' = [proc EXCEPT ![q] = [op |-> proc[q].op, todo |-> t, mem |-> n]]
      BY <1>7, <3>1, Rewritten
    <3> QED BY <1>6, <3>2
  <2> QED BY <1>4, <1>5, <1>6, <1>8, <2>1 DEF Listed
<1>10. /\ ProcType' /\ Others(q)
       /\ Op(q)' = op /\ proc'[q].todo = t /\ Left(q)' = CallsOf(t) /\ Mem(q)' = n
  <2>1. clean' \in BOOLEAN
    BY <1>7
  <2> QED BY <1>9, <2>1, Written
<1>11. CallsOf(t) # {} => t # <<>>
  BY NoCalls
<1>12. proc'[q] # proc[q]
  BY <1>1, <1>4, <1>10
<1>13. clean' = FALSE
  BY <1>7
<1> QED BY <1>1, <1>4, <1>5, <1>6, <1>10, <1>11, <1>12, <1>13 DEF Moved, Left, Op

LEMMA ArrivesMoves ==
    ASSUME ProcType, NEW q \in Requests, NEW op \in AllOps, NEW s, Listed(s), NEW m \in AccountMemory,
           Arrives(q, op, s, m)
    PROVE  /\ ProcType' /\ Others(q) /\ Op(q) = "none" /\ Op(q)' = op
           /\ proc'[q].todo = s /\ Left(q)' = CallsOf(s) /\ Mem(q)' = m
<1>1. /\ proc' = [proc EXCEPT ![q] = [op |-> op, todo |-> s, mem |-> m]] /\ clean' \in BOOLEAN
      /\ s \in Seq(AllCalls) /\ Op(q) = "none"
  BY DEF Arrives, Listed, Op, ProcType, ReqsType
<1> QED BY <1>1, Written

\* q has the calls t left, whatever they are.
LEMMA GoesMoves ==
    ASSUME ProcType, NEW q \in Requests, NEW t \in Seq(AllCalls), NEW m \in AccountMemory, Goes(q, t, m)
    PROVE  /\ ProcType' /\ Others(q) /\ Op(q)' = Op(q) /\ clean' = clean
           /\ proc'[q].todo = t /\ Left(q)' = CallsOf(t) /\ (t # <<>> => Mem(q)' = m)
<1>1. PICK n : n = IF t = <<>> THEN NoMem ELSE m
  OBVIOUS
<1>2. PICK op : op = proc[q].op
  OBVIOUS
<1>3. /\ proc' = [proc EXCEPT ![q] = [op |-> op, todo |-> t, mem |-> n]] /\ clean' = clean
      /\ op \in AllOps \cup {"none"} /\ n \in AccountMemory \cup {NoMem} /\ clean \in BOOLEAN
  BY <1>1, <1>2 DEF Goes, ProcType, ReqsType
<1>4. /\ ProcType' /\ Others(q)
      /\ Op(q)' = op /\ proc'[q].todo = t /\ Left(q)' = CallsOf(t) /\ Mem(q)' = n
  BY <1>3, Written
<1> QED BY <1>1, <1>2, <1>3, <1>4 DEF Op

(***************************************************************************)
(* What a step of one request leaves to it and to the others.              *)
(***************************************************************************)
Stay == DOMAIN db.users \subseteq DOMAIN db'.users

LEMMA StillKnows ==
    ASSUME NEW p, proc'[p] = proc[p], Stay, Knows(p)
    PROVE  Knows(p)'
<1>1. PICK o, L, m : o = Op(p) /\ L = Left(p) /\ m = Mem(p)
  OBVIOUS
<1>2. o = Op(p)' /\ L = Left(p)' /\ m = Mem(p)'
  BY <1>1 DEF Op, Left, Mem
<1>3. Known(o, L, m) => Known(o, L, m)'
  BY DEF Known, CallsOfOp, Given, HeldRows, HeldUser, HeldState, Stay
<1>4. Listed(proc[p].todo) /\ (o = "none" => L = {}) /\ (L # {} => m \in AccountMemory /\ Known(o, L, m))
  BY <1>1 DEF Knows
<1>5. Known(o, L, m)' => Known(Op(p), Left(p), Mem(p))'
  BY <1>2
<1> QED BY <1>2, <1>3, <1>4, <1>5 DEF Knows

LEMMA OthersKnow ==
    ASSUME NEW q \in Requests, Others(q), Stay, \A p \in Requests : Knows(p)
    PROVE  \A p \in Requests : p # q => Knows(p)'
BY StillKnows DEF Others

\* The calls L that may be left after c.
After(q, c, L) == L \subseteq Left(q) /\ Left(q) \subseteq L \cup {c} /\ \A d \in L : Precedes(c, d)

\* After c, q holds n and knows what n says.
Learns(q, c, n) ==
    /\ n \in AccountMemory /\ n.email = Mem(q).email /\ n.change = Mem(q).change /\ n.body = Mem(q).body
    /\ \/ c \notin {"getUser", "getOrg", "load"} /\ n.held = Mem(q).held
       \/ \A L : After(q, c, L) => HeldRows(L, n)
    /\ \/ c \notin {"createUser", "findLogin", "getSession"} /\ n.user = Mem(q).user
       \/ \A L : After(q, c, L) => HeldUser(L, n)'
    /\ \/ /\ c # "loadProvider" /\ n.aux = Mem(q).aux /\ n.provider = Mem(q).provider
          /\ n.org = Mem(q).org /\ n.isMember = Mem(q).isMember
       \/ \A L : After(q, c, L) => HeldState(Op(q), L, n)

LEMMA KnownAfter ==
    ASSUME NEW q \in Requests, NEW c, NEW n, NEW L, NEW o, o = Op(q), Known(Op(q), Left(q), Mem(q)),
           After(q, c, L), Learns(q, c, n), Stay
    PROVE  Known(o, L, n)'
<1>1. PICK K, m : K = Left(q) /\ m = Mem(q)
  OBVIOUS
<1>2. Known(o, K, m) /\ L \subseteq K /\ K \subseteq L \cup {c} /\ \A d \in L : Precedes(c, d)
  BY <1>1 DEF After
<1>3. CallsOfOp(o, L)'
  BY <1>2 DEF Known, CallsOfOp
<1>4. Given(L, n)'
  BY <1>1, <1>2 DEF Known, Given, Learns
<1>5. HeldRows(L, n)'
  <2>1. CASE c \notin {"getUser", "getOrg", "load"} /\ n.held = m.held
    BY <1>2, <2>1 DEF Known, HeldRows, NamedUser
  <2>2. CASE \A M : After(q, c, M) => HeldRows(M, n)
    BY <2>2 DEF HeldRows, NamedUser
  <2> QED BY <1>1, <2>1, <2>2 DEF Learns
<1>6. HeldUser(L, n)'
  <2>1. CASE c \notin {"createUser", "findLogin", "getSession"} /\ n.user = m.user
    BY <1>2, <2>1 DEF Known, HeldUser, Stay
  <2> QED BY <1>1, <2>1 DEF Learns
<1>7. HeldState(o, L, n)'
  <2>1. CASE /\ c # "loadProvider" /\ n.aux = m.aux /\ n.provider = m.provider
             /\ n.org = m.org /\ n.isMember = m.isMember
    <3>1. /\ "loadProvider" \in K => "loadProvider" \in L
          /\ "findUser" \in L /\ "getMember" \in K => "getMember" \in L
          /\ "getMember" \in L /\ "seats" \in K => "seats" \in L
      BY <1>2, <2>1 DEF Precedes, Rank
    <3> QED BY <1>2, <2>1, <3>1 DEF Known, HeldState
  <2>2. CASE \A M : After(q, c, M) => HeldState(Op(q), M, n)
    BY <2>2 DEF HeldState
  <2> QED BY <1>1, <2>1, <2>2 DEF Learns
<1> QED BY <1>3, <1>4, <1>5, <1>6, <1>7 DEF Known

\* A request at a call knows what it holds.
LEMMA AtCall ==
    ASSUME AccountsInv, NEW q \in Requests, NEW c, At(q, c)
    PROVE  /\ c \in Left(q) /\ Listed(proc[q].todo) /\ Op(q) # "none"
           /\ Mem(q) \in AccountMemory /\ Known(Op(q), Left(q), Mem(q))
           /\ \A d \in Left(q) : d = c \/ Precedes(c, d)
<1>1. PICK s : s = proc[q].todo
  OBVIOUS
<1>2. s # <<>> /\ Head(s) = c /\ Listed(s) /\ Knows(q)
  BY <1>1 DEF At, AccountsInv, Knows
<1>3. c \in CallsOf(s) /\ \A d \in CallsOf(s) : d = c \/ Precedes(c, d)
  BY <1>2, TailCalls
<1> QED BY <1>1, <1>2, <1>3 DEF Left, Knows

\* The call c is done.
LEMMA StepOK ==
    ASSUME AccountsInv, NEW q \in Requests, NEW c, At(q, c), NEW n, Keeps(q, n),
           Learns(q, c, n), DbOK', Stay, failedOpen' \in BOOLEAN
    PROVE  AccountsInv' /\ Moved(q, c, n)
<1>1. /\ Listed(proc[q].todo) /\ Op(q) # "none" /\ Known(Op(q), Left(q), Mem(q)) /\ ProcType
      /\ \A p \in Requests : Knows(p)
  BY AtCall DEF AccountsInv
<1>2. n \in AccountMemory
  BY DEF Learns
<1>3. ProcType' /\ Moved(q, c, n)
  BY <1>1, <1>2, KeepsMoves
<1>4. \A p \in Requests : p # q => Knows(p)'
  BY <1>1, <1>3, OthersKnow DEF Moved
<1>5. PICK o, L : o = Op(q) /\ L = Left(q)'
  OBVIOUS
<1>6. After(q, c, L) /\ o = Op(q)' /\ (L # {} => Mem(q)' = n) /\ Listed(proc[q].todo)'
  BY <1>3, <1>5 DEF Moved, After
<1>7. Known(o, L, n)'
  BY <1>1, <1>5, <1>6, KnownAfter
<1>8. L # {} => Known(Op(q), Left(q), Mem(q))'
  BY <1>5, <1>6, <1>7
<1>9. Knows(q)'
  BY <1>1, <1>2, <1>5, <1>6, <1>8 DEF Knows
<1> QED BY <1>3, <1>4, <1>9 DEF AccountsInv

LEMMA EndsOK ==
    ASSUME AccountsInv, NEW q \in Requests, Ends(q) \/ Aborts(q), DbOK', Stay, failedOpen' \in BOOLEAN
    PROVE  AccountsInv' /\ Ended(q)
<1>1. ProcType' /\ Ended(q) /\ \A p \in Requests : Knows(p)
  BY EndsMoves DEF AccountsInv
<1>2. \A p \in Requests : p # q => Knows(p)'
  BY <1>1, OthersKnow DEF Ended
<1>3. Knows(q)'
  BY <1>1 DEF Ended, Knows
<1> QED BY <1>1, <1>2, <1>3 DEF AccountsInv

(***************************************************************************)
(* Steps that read, and steps that write one table.                        *)
(***************************************************************************)
Teachers == {"getUser", "getOrg", "load", "createUser", "findLogin", "getSession", "loadProvider"}

LEMMA LearnsNothing ==
    ASSUME AccountsInv, NEW q \in Requests, NEW c, At(q, c), c \notin Teachers
    PROVE  Learns(q, c, Mem(q))
BY AtCall DEF Learns, Teachers

LEMMA ReadsOK ==
    ASSUME AccountsInv, NEW q \in Requests, NEW c, At(q, c), NEW n, Reads(q, n), Learns(q, c, n),
           UNCHANGED failedOpen
    PROVE  AccountsInv'
<1>1. db' = db /\ Keeps(q, n)
  BY DEF Reads
<1>2. DbOK' /\ Stay /\ failedOpen' \in BOOLEAN
  BY <1>1 DEF AccountsInv, DbOK, Stay
<1> QED BY <1>1, <1>2, StepOK

LEMMA RefusesOK ==
    ASSUME AccountsInv, NEW q \in Requests, Refuses(q) \/ (Aborts(q) /\ UNCHANGED db),
           UNCHANGED failedOpen
    PROVE  AccountsInv'
<1>1. db' = db /\ (Ends(q) \/ Aborts(q))
  BY DEF Refuses
<1>2. DbOK' /\ Stay /\ failedOpen' \in BOOLEAN
  BY <1>1 DEF AccountsInv, DbOK, Stay
<1> QED BY <1>1, <1>2, EndsOK

LEMMA WritesOK ==
    ASSUME AccountsInv, NEW q \in Requests, NEW c, At(q, c), NEW n, NEW new, Writes(q, new, n),
           Learns(q, c, n), DbOK', Stay, UNCHANGED failedOpen
    PROVE  AccountsInv'
<1>1. Keeps(q, n) /\ failedOpen' \in BOOLEAN
  BY DEF Writes, AccountsInv
<1> QED BY <1>1, StepOK

\* A write that teaches nothing.
LEMMA PlainWritesOK ==
    ASSUME AccountsInv, NEW q \in Requests, NEW c, At(q, c), c \notin Teachers, NEW new,
           Writes(q, new, Mem(q)), DbOK', Stay, UNCHANGED failedOpen
    PROVE  AccountsInv'
BY LearnsNothing, WritesOK

LEMMA PlainReadsOK ==
    ASSUME AccountsInv, NEW q \in Requests, NEW c, At(q, c), c \notin Teachers, Reads(q, Mem(q)),
           UNCHANGED failedOpen
    PROVE  AccountsInv'
BY LearnsNothing, ReadsOK

\* Only the table f is written.
LEMMA OneTable ==
    ASSUME DOMAIN db = Fields, NEW f \in Fields, NEW v, db' = [db EXCEPT ![f] = v]
    PROVE  DOMAIN db' = Fields /\ db'[f] = v /\ \A g \in Fields \ {f} : db'[g] = db[g]
OBVIOUS

LEMMA SameOK == ASSUME AccountsInv, db' = db PROVE DbOK' /\ Stay
BY DEF AccountsInv, DbOK, Stay

LEMMA SetUsers ==
    ASSUME AccountsInv, NEW us, db' = [db EXCEPT !.users = us], UsersOK(us), DOMAIN db.users
           \subseteq DOMAIN us
    PROVE  DbOK' /\ Stay
<1>1. DOMAIN db' = Fields /\ db'.users = us /\ \A g \in Fields \ {"users"} : db'[g] = db[g]
  BY OneTable DEF AccountsInv, DbOK, Fields
<1>2. MembersOK(db.members, us, db.orgs) /\ SessionsOK(db.sessions, us)
  BY DEF AccountsInv, DbOK, MembersOK, SessionsOK
<1> QED BY <1>1, <1>2 DEF AccountsInv, DbOK, Stay, Fields

LEMMA SetOrgs ==
    ASSUME AccountsInv, NEW os, db' = [db EXCEPT !.orgs = os], OrgsOK(os), DOMAIN db.orgs \subseteq DOMAIN os
    PROVE  DbOK' /\ Stay
<1>1. DOMAIN db' = Fields /\ db'.orgs = os /\ \A g \in Fields \ {"orgs"} : db'[g] = db[g]
  BY OneTable DEF AccountsInv, DbOK, Fields
<1>2. /\ MembersOK(db.members, db.users, os) /\ TeamsOK(db.teams, db.teamMembers, os)
      /\ AccountsOK(db.accounts, os)
  BY DEF AccountsInv, DbOK, MembersOK, TeamsOK, AccountsOK
<1> QED BY <1>1, <1>2 DEF AccountsInv, DbOK, Stay, Fields

LEMMA SetMembers ==
    ASSUME AccountsInv, NEW ms, db' = [db EXCEPT !.members = ms], MembersOK(ms, db.users, db.orgs)
    PROVE  DbOK' /\ Stay
<1>1. DOMAIN db' = Fields /\ db'.members = ms /\ \A g \in Fields \ {"members"} : db'[g] = db[g]
  BY OneTable DEF AccountsInv, DbOK, Fields
<1> QED BY <1>1 DEF AccountsInv, DbOK, Stay, Fields

LEMMA SetSessions ==
    ASSUME AccountsInv, NEW ss, db' = [db EXCEPT !.sessions = ss], SessionsOK(ss, db.users)
    PROVE  DbOK' /\ Stay
<1>1. DOMAIN db' = Fields /\ db'.sessions = ss /\ \A g \in Fields \ {"sessions"} : db'[g] = db[g]
  BY OneTable DEF AccountsInv, DbOK, Fields
<1> QED BY <1>1 DEF AccountsInv, DbOK, Stay, Fields

LEMMA SetTeams ==
    ASSUME AccountsInv, NEW ts, db' = [db EXCEPT !.teams = ts], TeamsOK(ts, db.teamMembers, db.orgs)
    PROVE  DbOK' /\ Stay
<1>1. DOMAIN db' = Fields /\ db'.teams = ts /\ \A g \in Fields \ {"teams"} : db'[g] = db[g]
  BY OneTable DEF AccountsInv, DbOK, Fields
<1> QED BY <1>1 DEF AccountsInv, DbOK, Stay, Fields

LEMMA SetTeamMembers ==
    ASSUME AccountsInv, NEW ts, db' = [db EXCEPT !.teamMembers = ts], TeamsOK(db.teams, ts, db.orgs)
    PROVE  DbOK' /\ Stay
<1>1. DOMAIN db' = Fields /\ db'.teamMembers = ts /\ \A g \in Fields \ {"teamMembers"} : db'[g] = db[g]
  BY OneTable DEF AccountsInv, DbOK, Fields
<1> QED BY <1>1 DEF AccountsInv, DbOK, Stay, Fields

LEMMA SetAccounts ==
    ASSUME AccountsInv, NEW as, db' = [db EXCEPT !.accounts = as], AccountsOK(as, db.orgs),
           DOMAIN db.accounts \subseteq DOMAIN as
    PROVE  DbOK' /\ Stay
<1>1. DOMAIN db' = Fields /\ db'.accounts = as /\ \A g \in Fields \ {"accounts"} : db'[g] = db[g]
  BY OneTable DEF AccountsInv, DbOK, Fields
<1>2. TokensOK(db.tokens, as)
  BY DEF AccountsInv, DbOK, TokensOK
<1> QED BY <1>1, <1>2 DEF AccountsInv, DbOK, Stay, Fields

LEMMA SetTokens ==
    ASSUME AccountsInv, NEW ts, db' = [db EXCEPT !.tokens = ts], TokensOK(ts, db.accounts)
    PROVE  DbOK' /\ Stay
<1>1. DOMAIN db' = Fields /\ db'.tokens = ts /\ \A g \in Fields \ {"tokens"} : db'[g] = db[g]
  BY OneTable DEF AccountsInv, DbOK, Fields
<1> QED BY <1>1 DEF AccountsInv, DbOK, Stay, Fields

LEMMA SetProviders ==
    ASSUME AccountsInv, NEW ps, db' = [db EXCEPT !.providers = ps], ProvidersOK(ps, db.rules, db.loginStates)
    PROVE  DbOK' /\ Stay
<1>1. DOMAIN db' = Fields /\ db'.providers = ps /\ \A g \in Fields \ {"providers"} : db'[g] = db[g]
  BY OneTable DEF AccountsInv, DbOK, Fields
<1> QED BY <1>1 DEF AccountsInv, DbOK, Stay, Fields

LEMMA SetRules ==
    ASSUME AccountsInv, NEW rs, db' = [db EXCEPT !.rules = rs], ProvidersOK(db.providers, rs, db.loginStates)
    PROVE  DbOK' /\ Stay
<1>1. DOMAIN db' = Fields /\ db'.rules = rs /\ \A g \in Fields \ {"rules"} : db'[g] = db[g]
  BY OneTable DEF AccountsInv, DbOK, Fields
<1> QED BY <1>1 DEF AccountsInv, DbOK, Stay, Fields

LEMMA SetLoginStates ==
    ASSUME AccountsInv, NEW ss, db' = [db EXCEPT !.loginStates = ss], ProvidersOK(db.providers, db.rules, ss)
    PROVE  DbOK' /\ Stay
<1>1. DOMAIN db' = Fields /\ db'.loginStates = ss /\ \A g \in Fields \ {"loginStates"} : db'[g] = db[g]
  BY OneTable DEF AccountsInv, DbOK, Fields
<1> QED BY <1>1 DEF AccountsInv, DbOK, Stay, Fields

LEMMA SetOther ==
    ASSUME AccountsInv, NEW f \in {"identities", "domains", "attempts", "installStates", "installation"},
           NEW v, db' = [db EXCEPT ![f] = v],
           OthersOK(IF f = "domains" THEN v ELSE db.domains, IF f = "attempts" THEN v ELSE db.attempts,
                    IF f = "installStates" THEN v ELSE db.installStates,
                    IF f = "installation" THEN v ELSE db.installation)
    PROVE  DbOK' /\ Stay
<1>1. DOMAIN db' = Fields /\ db'[f] = v /\ \A g \in Fields \ {f} : db'[g] = db[g]
  BY OneTable DEF AccountsInv, DbOK, Fields
<1>2. /\ db'.domains = IF f = "domains" THEN v ELSE db.domains
      /\ db'.attempts = IF f = "attempts" THEN v ELSE db.attempts
      /\ db'.installStates = IF f = "installStates" THEN v ELSE db.installStates
      /\ db'.installation = IF f = "installation" THEN v ELSE db.installation
  BY <1>1 DEF Fields
<1>3. \A g \in Fields \ {"identities", "domains", "attempts", "installStates", "installation"} :
          db'[g] = db[g]
  BY <1>1
<1>4. OthersOK(db.domains, db.attempts, db.installStates, db.installation)'
  BY <1>2
<1> QED BY <1>1, <1>3, <1>4 DEF AccountsInv, DbOK, Stay, Fields

(***************************************************************************)
(* The shared calls.                                                       *)
(***************************************************************************)
LEMMA MemoryIs ==
    ASSUME NEW m \in AccountMemory
    PROVE  /\ m.user \in MaybeId /\ m.org \in MaybeId /\ m.role \in Roles /\ m.ref \in MaybeId
           /\ m.aux \in MaybeId /\ m.provider \in MaybeId /\ m.isMember \in BOOLEAN /\ m.listed \subseteq Ids
BY DEF AccountMemory

\* A row is read before it is written.
LEMMA ReadsFirst ==
    /\ \A c \in {"updateUser", "updateOrg", "updateProvider", "ensureKeypair"} :
         \A d \in {"getUser", "getOrg", "load"} : ~Precedes(c, d)
BY DEF Precedes, Rank

LEMMA CreateUserOK ==
    ASSUME AccountsInv, NEW q \in Requests, CreateUser(q)
    PROVE  AccountsInv'
<1>1. PICK m : m = Mem(q)
  OBVIOUS
<1>2. At(q, "createUser") /\ UNCHANGED failedOpen /\ q \in Ids
  BY DEF CreateUser, Ids
<1>3. /\ m \in AccountMemory /\ "createUser" \in Left(q) /\ m.email \in Emails
      /\ m.user \in DOMAIN db.users \cup {Null}
  BY <1>1, <1>2, AtCall DEF Known, Given, HeldUser
<1>4. CASE m.user # Null
  <2>1. Reads(q, m)
    BY <1>1, <1>4 DEF CreateUser
  <2>2. db' = db
    BY <2>1 DEF Reads
  <2>3. Learns(q, "createUser", m)
    BY <1>1, <1>3, <1>4, <2>2 DEF Learns, HeldUser
  <2> QED BY <1>2, <2>1, <2>3, ReadsOK
<1>5. CASE m.user = Null /\ Taken(q, m.email, m.email)
  BY <1>1, <1>2, <1>5, RefusesOK DEF CreateUser
<1>6. CASE m.user = Null /\ ~Taken(q, m.email, m.email)
  <2>1. PICK w \in MaybeId : w = IF Op(q) = "callback" THEN Null ELSE q
    BY <1>2 DEF MaybeId
  <2>2. PICK row : row = NewUser(q, m.email, w)
    OBVIOUS
  <2>3. PICK us : us = With(db.users, q, row)
    OBVIOUS
  <2>4. PICK n : n = [m EXCEPT !.user = q]
    OBVIOUS
  <2>5. Writes(q, [db EXCEPT !.users = us], n)
    BY <1>1, <1>6, <2>1, <2>2, <2>3, <2>4 DEF CreateUser
  <2>6. NamedUser(row) /\ row.email = m.email /\ row.login = m.email
    BY <1>3, <2>1, <2>2, AccountTablesAssumption DEF NewUser, NamedUser, UserRow
  <2>7. \A v \in DOMAIN db.users \ {q} : db.users[v].email # m.email /\ db.users[v].login # m.email
    BY <1>6 DEF Taken
  <2>8. UsersOK(db.users)
    BY DEF AccountsInv, DbOK
  <2>9. UsersOK(us) /\ DOMAIN db.users \subseteq DOMAIN us /\ q \in DOMAIN us
    <3>1. /\ DOMAIN us = DOMAIN db.users \cup {q} /\ us[q] = row
          /\ \A x \in DOMAIN db.users : x # q => us[x] = db.users[x]
      BY <2>3 DEF With
    <3> QED BY <1>2, <2>6, <2>7, <2>8, <3>1 DEF UsersOK
  <2>10. db' = [db EXCEPT !.users = us]
    BY <2>5 DEF Writes
  <2>11. DbOK' /\ Stay
    BY <2>9, <2>10, SetUsers
  <2>12. q \in DOMAIN db'.users
    BY <2>9, <2>10, OneTable DEF AccountsInv, DbOK, Fields
  <2>13. /\ n \in AccountMemory /\ n.user = q /\ n.email = m.email /\ n.change = m.change
         /\ n.body = m.body /\ n.held = m.held /\ n.aux = m.aux /\ n.provider = m.provider
         /\ n.org = m.org /\ n.isMember = m.isMember
    BY <1>2, <1>3, <2>4 DEF AccountMemory, MaybeId
  <2>14. Learns(q, "createUser", n)
    BY <1>1, <2>12, <2>13 DEF Learns, HeldUser
  <2> QED BY <1>2, <2>5, <2>11, <2>14, WritesOK
<1> QED BY <1>4, <1>5, <1>6

LEMMA CreateOrgOK ==
    ASSUME AccountsInv, NEW q \in Requests, CreateOrg(q)
    PROVE  AccountsInv'
<1>1. PICK m : m = Mem(q)
  OBVIOUS
<1>2. At(q, "createOrg") /\ UNCHANGED failedOpen /\ q \in Ids
  BY DEF CreateOrg, Ids
<1>3. m \in AccountMemory /\ "createOrg" \in Left(q) /\ CallsOfOp(Op(q), Left(q))
  BY <1>1, <1>2, AtCall DEF Known
<1>4. PICK os : os = With(db.orgs, q, [name |-> q, autoJoin |-> q, onboarded |-> FALSE])
  OBVIOUS
<1>5. PICK n : n = [m EXCEPT !.org = q]
  OBVIOUS
<1>6. Writes(q, [db EXCEPT !.orgs = os], n)
  BY <1>1, <1>4, <1>5 DEF CreateOrg
<1>7. OrgsOK(db.orgs)
  BY DEF AccountsInv, DbOK
<1>8. OrgsOK(os) /\ DOMAIN db.orgs \subseteq DOMAIN os
  <2>1. PICK row : row = [name |-> q, autoJoin |-> q, onboarded |-> FALSE]
    OBVIOUS
  <2>2. /\ DOMAIN os = DOMAIN db.orgs \cup {q} /\ os[q] = row
        /\ \A x \in DOMAIN db.orgs : x # q => os[x] = db.orgs[x]
    BY <1>4, <2>1 DEF With
  <2>3. row \in OrgRow
    BY <1>2, <2>1 DEF OrgRow
  <2> QED BY <1>2, <1>7, <2>2, <2>3 DEF OrgsOK
<1>9. DbOK' /\ Stay
  BY <1>6, <1>8, SetOrgs DEF Writes
<1>10. /\ n \in AccountMemory /\ n.user = m.user /\ n.email = m.email /\ n.change = m.change
       /\ n.body = m.body /\ n.held = m.held /\ n.isMember = m.isMember
  BY <1>2, <1>3, <1>5 DEF AccountMemory, MaybeId
<1>11. Op(q) # "callback" /\ Op(q) # "addMember"
  BY <1>3 DEF CallsOfOp, CallbackSteps, AddMemberSteps
<1>12. Learns(q, "createOrg", n)
  BY <1>1, <1>10, <1>11 DEF Learns, HeldState
<1> QED BY <1>2, <1>6, <1>9, <1>12, WritesOK

LEMMA AddMemberOK ==
    ASSUME AccountsInv, NEW q \in Requests, AddMember(q)
    PROVE  AccountsInv'
<1>1. PICK m : m = Mem(q)
  OBVIOUS
<1>2. At(q, "addMember") /\ UNCHANGED failedOpen
  BY DEF AddMember
<1>3. m \in AccountMemory /\ m.role \in Roles
  BY <1>1, <1>2, AtCall, MemoryIs
<1>4. CASE MayJoin(m.user, m.org)
  <2>1. PICK ms : ms = With(db.members, <<m.user, m.org>>, [role |-> m.role, source |-> "manual"])
    OBVIOUS
  <2>2. Writes(q, [db EXCEPT !.members = ms], Mem(q))
    BY <1>1, <1>4, <2>1 DEF AddMember
  <2>3. /\ MembersOK(db.members, db.users, db.orgs) /\ DOMAIN db.users \subseteq Ids
             /\ DOMAIN db.orgs \subseteq Ids
        /\ m.user \in DOMAIN db.users /\ m.org \in DOMAIN db.orgs
    BY <1>4 DEF AccountsInv, DbOK, UsersOK, OrgsOK, MayJoin
  <2>4. MembersOK(ms, db.users, db.orgs)
    <3>1. PICK k : k = <<m.user, m.org>>
      OBVIOUS
    <3>2. /\ DOMAIN ms = DOMAIN db.members \cup {k} /\ ms[k] = [role |-> m.role, source |-> "manual"]
          /\ \A x \in DOMAIN db.members : x # k => ms[x] = db.members[x]
      BY <2>1, <3>1 DEF With
    <3>3. k \in Ids \X Ids /\ k[1] = m.user /\ k[2] = m.org
      BY <2>3, <3>1
    <3> QED BY <1>3, <2>3, <3>2, <3>3 DEF MembersOK, MemberRow
  <2>5. DbOK' /\ Stay
    BY <2>2, <2>4, SetMembers DEF Writes
  <2> QED BY <1>2, <2>2, <2>5, PlainWritesOK DEF Teachers
<1>5. CASE ~MayJoin(m.user, m.org)
  BY <1>1, <1>2, <1>5, RefusesOK DEF AddMember
<1> QED BY <1>4, <1>5

LEMMA SeatsOK ==
    ASSUME AccountsInv, NEW q \in Requests, SeatLimitReached(q) \/ SeatLimitUnknown(q)
    PROVE  AccountsInv'
<1>1. At(q, "seats")
  BY DEF SeatLimitReached, SeatLimitUnknown
<1>2. CASE SeatLimitReached(q)
  BY <1>1, <1>2, PlainReadsOK, RefusesOK DEF SeatLimitReached, Teachers
<1>3. CASE SeatLimitUnknown(q)
  <2>1. Skips(q) /\ failedOpen' = TRUE /\ db' = db
    BY <1>3 DEF SeatLimitUnknown
  <2>2. /\ Listed(proc[q].todo) /\ Op(q) # "none" /\ Known(Op(q), Left(q), Mem(q)) /\ ProcType
        /\ Mem(q) \in AccountMemory /\ \A p \in Requests : Knows(p)
    BY <1>1, AtCall DEF AccountsInv
  <2>3. ProcType' /\ Moved(q, "seats", Mem(q))
    BY <1>1, <2>1, <2>2, SkipsMoves
  <2>4. DbOK' /\ Stay
    BY <2>1, SameOK
  <2>5. \A p \in Requests : p # q => Knows(p)'
    BY <2>2, <2>3, <2>4, OthersKnow DEF Moved
  <2>6. PICK o, L, m : o = Op(q) /\ L = Left(q)' /\ m = Mem(q)
    OBVIOUS
  <2>7. Learns(q, "seats", m)
    BY <1>1, <2>6, LearnsNothing DEF Teachers
  <2>8. After(q, "seats", L) /\ o = Op(q)' /\ (L # {} => Mem(q)' = m) /\ Listed(proc[q].todo)'
    BY <2>3, <2>6 DEF Moved, After
  <2>9. Known(o, L, m)'
    BY <2>2, <2>4, <2>6, <2>7, <2>8, KnownAfter
  <2>10. L # {} => Known(Op(q), Left(q), Mem(q))'
    BY <2>6, <2>8, <2>9
  <2>11. Knows(q)'
    BY <2>2, <2>6, <2>8, <2>10 DEF Knows
  <2> QED BY <2>1, <2>3, <2>4, <2>5, <2>11 DEF AccountsInv
<1> QED BY <1>2, <1>3

LEMMA InsertAccountOK ==
    ASSUME AccountsInv, NEW q \in Requests, NEW o \in DOMAIN db.orgs,
           NEW name \in {"System", "GitHub Import", "other"},
               db' = [db EXCEPT !.accounts = InsertAccount(q, o, name)]
    PROVE  DbOK' /\ Stay
<1>1. PICK as : as = InsertAccount(q, o, name)
  OBVIOUS
<1>2. AccountsOK(db.accounts, db.orgs) /\ q \in Ids /\ o \in Ids
  BY DEF AccountsInv, DbOK, OrgsOK, Ids
<1>3. PICK row : row = [org |-> o, name |-> name, internal |-> name = "System",
                       disabled |-> FALSE, deleted |-> FALSE]
  OBVIOUS
<1> row \in AccountRow
  <2>1. PICK b \in BOOLEAN : b <=> name = "System"
    BY Zenon
  <2>2. (name = "System") = b /\ (name = "System") \in BOOLEAN
    BY <2>1
  <2> QED BY <1>2, <1>3, <2>2 DEF AccountRow
<1>4. as = With(db.accounts, q, row) /\ row.org = o
  BY <1>1, <1>3 DEF InsertAccount
<1>5. AccountsOK(as, db.orgs) /\ DOMAIN db.accounts \subseteq DOMAIN as
  <2>1. /\ DOMAIN as = DOMAIN db.accounts \cup {q} /\ as[q] = row
        /\ \A x \in DOMAIN db.accounts : x # q => as[x] = db.accounts[x]
    BY <1>4 DEF With
  <2> QED BY <1>2, <1>4, <2>1 DEF AccountsOK
<1> QED BY <1>1, <1>5, SetAccounts

LEMMA CreateSystemAccountOK ==
    ASSUME AccountsInv, NEW q \in Requests, CreateSystemAccount(q)
    PROVE  AccountsInv'
<1>1. At(q, "createSystemAccount") /\ UNCHANGED failedOpen
  BY DEF CreateSystemAccount
<1>2. PICK o : o = Mem(q).org
  OBVIOUS
<1>3. CASE o \in DOMAIN db.orgs /\ ~NameTaken(q, o, "System")
  <2>1. Writes(q, [db EXCEPT !.accounts = InsertAccount(q, o, "System")], Mem(q))
    BY <1>2, <1>3 DEF CreateSystemAccount
  <2>2. DbOK' /\ Stay
    BY <1>3, <2>1, InsertAccountOK DEF Writes
  <2> QED BY <1>1, <2>1, <2>2, PlainWritesOK DEF Teachers
<1>4. CASE ~(o \in DOMAIN db.orgs /\ ~NameTaken(q, o, "System"))
  BY <1>1, <1>2, <1>4, RefusesOK DEF CreateSystemAccount
<1> QED BY <1>3, <1>4

LEMMA CreateSessionOK ==
    ASSUME AccountsInv, NEW q \in Requests, CreateSession(q)
    PROVE  AccountsInv'
<1>1. PICK m : m = Mem(q)
  OBVIOUS
<1>2. At(q, "createSession") /\ UNCHANGED failedOpen /\ q \in Ids
  BY DEF CreateSession, Ids
<1>3. /\ m \in AccountMemory /\ "createSession" \in Left(q) /\ Known(Op(q), Left(q), m)
      /\ \A d \in Left(q) : d = "createSession" \/ Precedes("createSession", d)
  BY <1>1, <1>2, AtCall
<1>4. m.user \in DOMAIN db.users
  <2>1. Left(q) \cap {"findLogin", "getSession", "createUser"} = {}
    BY <1>3 DEF Precedes
  <2> QED BY <1>1, <1>3, <2>1 DEF Known, HeldUser
<1>5. Op(q) = "callback" => m.aux = m.provider
  <2>1. "loadProvider" \notin Left(q)
    BY <1>3 DEF Precedes, Rank
  <2> QED BY <1>3, <2>1 DEF Known, HeldState
<1>6. PICK row : row = IF Op(q) = "callback"
                      THEN [user |-> m.user, state |-> m.ref, began |-> m.aux, ended |-> m.provider]
                      ELSE [user |-> m.user, state |-> Null, began |-> Null, ended |-> Null]
  OBVIOUS
<1>7. PICK ss : ss = With(db.sessions, q, row)
  OBVIOUS
<1>8. Writes(q, [db EXCEPT !.sessions = ss], Mem(q))
  BY <1>1, <1>6, <1>7 DEF CreateSession
<1>9. SessionsOK(db.sessions, db.users) /\ DOMAIN db.users \subseteq Ids
  BY DEF AccountsInv, DbOK, UsersOK
<1>10. row \in SessionRow /\ row.user \in DOMAIN db.users /\ row.began = row.ended
  BY <1>3, <1>4, <1>5, <1>6, <1>9, MemoryIs DEF SessionRow, MaybeId
<1>11. SessionsOK(ss, db.users)
  <2>1. /\ DOMAIN ss = DOMAIN db.sessions \cup {q} /\ ss[q] = row
        /\ \A x \in DOMAIN db.sessions : x # q => ss[x] = db.sessions[x]
    BY <1>7 DEF With
  <2> QED BY <1>2, <1>9, <1>10, <2>1 DEF SessionsOK
<1>12. DbOK' /\ Stay
  BY <1>8, <1>11, SetSessions DEF Writes
<1> QED BY <1>2, <1>8, <1>12, PlainWritesOK DEF Teachers

LEMMA SharedOK ==
    ASSUME AccountsInv, NEW q \in Requests, SharedStep(q)
    PROVE  AccountsInv'
<1>1. CASE EmailFree(q)
  BY <1>1, PlainReadsOK, RefusesOK DEF EmailFree, Teachers
<1> QED BY <1>1, CreateUserOK, CreateOrgOK, AddMemberOK, SeatsOK, CreateSystemAccountOK,
        CreateSessionOK DEF SharedStep

(***************************************************************************)
(* People.                                                                 *)
(***************************************************************************)
LEMMA GetOrgOK ==
    ASSUME AccountsInv, NEW q \in Requests, GetOrg(q) \/ GetUser(q), UNCHANGED failedOpen
    PROVE  AccountsInv'
<1>1. PICK m : m = Mem(q)
  OBVIOUS
<1>2. CASE GetOrg(q) /\ m.org \in DOMAIN db.orgs
  <2>1. PICK n : n = [m EXCEPT !.held = db.orgs[m.org]]
    OBVIOUS
  <2>2. At(q, "getOrg") /\ Reads(q, n)
    BY <1>1, <1>2, <2>1 DEF GetOrg
  <2>3. m \in AccountMemory /\ CallsOfOp(Op(q), Left(q)) /\ HeldRows(Left(q), m) /\ db.orgs[m.org] \in OrgRow
    BY <1>1, <1>2, <2>2, AtCall DEF Known, AccountsInv, DbOK, OrgsOK
  <2>4. /\ n \in AccountMemory /\ n.user = m.user /\ n.email = m.email /\ n.change = m.change
        /\ n.body = m.body /\ n.held = db.orgs[m.org] /\ n.aux = m.aux /\ n.provider = m.provider
        /\ n.org = m.org /\ n.isMember = m.isMember
    BY <2>1, <2>3 DEF AccountMemory
  <2>5. "updateUser" \notin Left(q) /\ "updateProvider" \notin Left(q) /\ "ensureKeypair" \notin Left(q)
    BY <2>2, <2>3, AtCall DEF CallsOfOp
  <2>6. \A L : After(q, "getOrg", L) => HeldRows(L, n)
    BY <2>3, <2>4, <2>5 DEF HeldRows, After
  <2>7. Learns(q, "getOrg", n)
    BY <1>1, <2>4, <2>6 DEF Learns
  <2> QED BY <2>2, <2>7, ReadsOK
<1>3. CASE GetOrg(q) /\ m.org \notin DOMAIN db.orgs
  BY <1>1, <1>3, RefusesOK DEF GetOrg
<1>4. CASE GetUser(q)
  <2>1. PICK n : n = [m EXCEPT !.held = db.users[m.user]]
    OBVIOUS
  <2>2. At(q, "getUser") /\ Reads(q, n)
    BY <1>1, <1>4, <2>1 DEF GetUser
  <2>3. m \in AccountMemory /\ CallsOfOp(Op(q), Left(q)) /\ HeldRows(Left(q), m)
            /\ NamedUser(db.users[m.user])
    BY <1>1, <2>2, AtCall DEF Known, HeldUser, AccountsInv, DbOK, UsersOK
  <2>4. /\ n \in AccountMemory /\ n.user = m.user /\ n.email = m.email /\ n.change = m.change
        /\ n.body = m.body /\ n.held = db.users[m.user] /\ n.aux = m.aux /\ n.provider = m.provider
        /\ n.org = m.org /\ n.isMember = m.isMember
    BY <2>1, <2>3 DEF AccountMemory, NamedUser
  <2>5. "updateOrg" \notin Left(q) /\ "updateProvider" \notin Left(q) /\ "ensureKeypair" \notin Left(q)
    BY <2>2, <2>3, AtCall DEF CallsOfOp
  <2>6. \A L : After(q, "getUser", L) => HeldRows(L, n)
    BY <2>3, <2>4, <2>5 DEF HeldRows, After
  <2>7. Learns(q, "getUser", n)
    BY <1>1, <2>4, <2>6 DEF Learns
  <2> QED BY <2>2, <2>7, ReadsOK
<1> QED BY <1>2, <1>3, <1>4

LEMMA UpdateOrgOK ==
    ASSUME AccountsInv, NEW q \in Requests, UpdateOrg(q) \/ SetOnboardingDone(q), UNCHANGED failedOpen
    PROVE  AccountsInv'
<1>1. PICK m : m = Mem(q)
  OBVIOUS
<1>2. PICK c \in {"updateOrg", "setOnboardingDone"} : At(q, c) /\ (c = "updateOrg" <=> UpdateOrg(q))
  BY DEF UpdateOrg, SetOnboardingDone, At
<1>3. q \in Ids /\ m \in AccountMemory /\ HeldRows(Left(q), m) /\ c \in Left(q)
      /\ \A d \in Left(q) : d = c \/ Precedes(c, d)
  BY <1>1, <1>2, AtCall DEF Known, Ids
<1>4. OrgsOK(db.orgs)
  BY DEF AccountsInv, DbOK
<1>5. CASE m.org \notin DOMAIN db.orgs
  <2>1. Writes(q, db, Mem(q))
    BY <1>1, <1>5 DEF UpdateOrg, SetOnboardingDone
  <2>2. DbOK' /\ Stay
    BY <2>1, SameOK DEF Writes
  <2> QED BY <1>2, <2>1, <2>2, PlainWritesOK DEF Teachers
<1>6. CASE m.org \in DOMAIN db.orgs
  <2>1. PICK row : row = IF UpdateOrg(q) THEN OrgMerged(q, db.orgs[m.org], m)
                         ELSE [db.orgs[m.org] EXCEPT !.onboarded = TRUE]
    OBVIOUS
  <2>2. PICK os : os = [db.orgs EXCEPT ![m.org] = row]
    OBVIOUS
  <2>3. Writes(q, [db EXCEPT !.orgs = os], Mem(q))
    BY <1>1, <1>6, <2>1, <2>2 DEF UpdateOrg, SetOnboardingDone
  <2>4. db.orgs[m.org] \in OrgRow
    BY <1>4, <1>6 DEF OrgsOK
  <2>5. row \in OrgRow
    <3>1. CASE UpdateOrg(q)
      <4>1. c = "updateOrg" /\ "getOrg" \notin Left(q)
        <5>1. c = "updateOrg"
          BY <1>2, <3>1
        <5>2. \A d \in Left(q) : d = "updateOrg" \/ Precedes("updateOrg", d)
          BY <1>3, <5>1
        <5> QED BY <5>1, <5>2, ReadsFirst
      <4>2. m.held \in OrgRow
        BY <1>3, <4>1 DEF HeldRows
      <4>3. row = [db.orgs[m.org] EXCEPT !.name = IF m.change = "name" THEN q ELSE m.held.name,
                       !.autoJoin = IF m.change = "autoJoin" THEN q ELSE m.held.autoJoin]
        BY <2>1, <3>1 DEF OrgMerged
      <4> QED BY <1>3, <2>4, <4>2, <4>3 DEF OrgRow
    <3>2. CASE ~UpdateOrg(q)
      BY <2>1, <2>4, <3>2 DEF OrgRow
    <3> QED BY <3>1, <3>2
  <2>6. OrgsOK(os) /\ DOMAIN db.orgs \subseteq DOMAIN os
    BY <1>4, <2>2, <2>5 DEF OrgsOK
  <2>7. DbOK' /\ Stay
    BY <2>3, <2>6, SetOrgs DEF Writes
  <2> QED BY <1>2, <2>3, <2>7, PlainWritesOK DEF Teachers
<1> QED BY <1>5, <1>6

\* The tables after an organisation went away.
DeletedOrg(o) ==
    LET accounts == {a \in DOMAIN db.accounts : db.accounts[a].org # o}
        teams == {t \in DOMAIN db.teams : db.teams[t] # o} IN
    /\ DOMAIN db' = Fields
    /\ db'.users = db.users /\ db'.sessions = db.sessions /\ db'.attempts = db.attempts
    /\ db'.orgs = Keep(db.orgs, Ids \ {o})
    /\ db'.members = Keep(db.members, {k \in DOMAIN db.members : k[2] # o})
    /\ db'.teams = Keep(db.teams, teams)
    /\ db'.teamMembers = Keep(db.teamMembers,
                              {k \in DOMAIN db.teamMembers : k[1] \in teams /\ db.teamMembers[k] # o})
    /\ db'.accounts = Keep(db.accounts, accounts)
    /\ db'.tokens = Keep(db.tokens, {t \in DOMAIN db.tokens : db.tokens[t].account \in accounts})
    /\ IF o = Seed
       THEN /\ db'.providers = Empty /\ db'.rules = Empty /\ db'.loginStates = Empty
            /\ db'.domains = Empty /\ db'.installStates = Empty /\ db'.installation = Null
       ELSE /\ db'.providers = db.providers /\ db'.rules = db.rules /\ db'.loginStates = db.loginStates
            /\ db'.domains = db.domains /\ db'.installStates = db.installStates
            /\ db'.installation = db.installation

LEMMA DeleteOrgDoes ==
    ASSUME DOMAIN db = Fields, NEW q \in Requests, DeleteOrg(q)
    PROVE  DeletedOrg(Mem(q).org) /\ Keeps(q, Mem(q))
<1>1. PICK o : o = Mem(q).org
  OBVIOUS
<1>2. PICK accounts : accounts = {a \in DOMAIN db.accounts : db.accounts[a].org # o}
  OBVIOUS
<1>3. PICK teams : teams = {t \in DOMAIN db.teams : db.teams[t] # o}
  OBVIOUS
<1>4. PICK ps, rs, ls, ds, is, i :
        /\ ps = IF o = Seed THEN Empty ELSE db.providers
        /\ rs = IF o = Seed THEN Empty ELSE db.rules
        /\ ls = IF o = Seed THEN Empty ELSE db.loginStates
        /\ ds = IF o = Seed THEN Empty ELSE db.domains
        /\ is = IF o = Seed THEN Empty ELSE db.installStates
        /\ i = IF o = Seed THEN Null ELSE db.installation
  OBVIOUS
<1>5. PICK os, ms, ts, tms, as, ks :
        /\ os = Keep(db.orgs, Ids \ {o})
        /\ ms = Keep(db.members, {k \in DOMAIN db.members : k[2] # o})
        /\ ts = Keep(db.teams, teams)
        /\ tms = Keep(db.teamMembers, {k \in DOMAIN db.teamMembers : k[1] \in teams /\ db.teamMembers[k] # o})
        /\ as = Keep(db.accounts, accounts)
        /\ ks = Keep(db.tokens, {t \in DOMAIN db.tokens : db.tokens[t].account \in accounts})
  OBVIOUS
<1>6. /\ db' = [db EXCEPT !.orgs = os, !.members = ms, !.teams = ts, !.teamMembers = tms,
                          !.accounts = as, !.tokens = ks, !.providers = ps, !.rules = rs,
                          !.loginStates = ls, !.domains = ds, !.installStates = is, !.installation = i]
      /\ Keeps(q, Mem(q))
  BY <1>1, <1>2, <1>3, <1>4, <1>5 DEF DeleteOrg, Writes
<1>7. /\ DOMAIN db' = Fields /\ db'.users = db.users /\ db'.sessions = db.sessions
           /\ db'.attempts = db.attempts
      /\ db'.orgs = os /\ db'.members = ms /\ db'.teams = ts /\ db'.teamMembers = tms
      /\ db'.accounts = as /\ db'.tokens = ks /\ db'.providers = ps /\ db'.rules = rs
      /\ db'.loginStates = ls /\ db'.domains = ds /\ db'.installStates = is /\ db'.installation = i
  BY <1>6 DEF Fields
<1> QED BY <1>1, <1>2, <1>3, <1>4, <1>5, <1>6, <1>7 DEF DeletedOrg

LEMMA DeletedOrgOK ==
    ASSUME AccountsInv, NEW o, DeletedOrg(o)
    PROVE  DbOK' /\ Stay
<1> DEFINE accounts == {a \in DOMAIN db.accounts : db.accounts[a].org # o}
           teams == {t \in DOMAIN db.teams : db.teams[t] # o}
<1>1. DbOK
  BY DEF AccountsInv
<1>2. UsersOK(db.users)' /\ SessionsOK(db.sessions, db.users)' /\ Stay
  BY <1>1 DEF DbOK, DeletedOrg, Stay
<1>3. /\ DOMAIN db'.orgs = DOMAIN db.orgs \ {o} /\ \A x \in DOMAIN db'.orgs : db'.orgs[x] = db.orgs[x]
  BY <1>1 DEF DbOK, OrgsOK, DeletedOrg, Keep
<1>4. OrgsOK(db.orgs)'
  BY <1>1, <1>3 DEF DbOK, OrgsOK
<1>5. MembersOK(db.members, db.users, db.orgs)'
  <2>1. /\ DOMAIN db'.members = {k \in DOMAIN db.members : k[2] # o}
        /\ \A k \in DOMAIN db'.members : db'.members[k] = db.members[k]
    BY DEF DeletedOrg, Keep
  <2>2. db'.users = db.users
    BY DEF DeletedOrg
  <2> QED BY <1>1, <1>3, <2>1, <2>2 DEF DbOK, MembersOK
<1>6. TeamsOK(db.teams, db.teamMembers, db.orgs)'
  <2>1. /\ DOMAIN db'.teams = teams /\ \A t \in teams : db'.teams[t] = db.teams[t]
        /\ DOMAIN db'.teamMembers = {k \in DOMAIN db.teamMembers : k[1] \in teams /\ db.teamMembers[k] # o}
        /\ \A k \in DOMAIN db'.teamMembers : db'.teamMembers[k] = db.teamMembers[k]
    BY DEF DeletedOrg, Keep
  <2> QED BY <1>1, <1>3, <2>1 DEF DbOK, TeamsOK
<1>7. AccountsOK(db.accounts, db.orgs)' /\ TokensOK(db.tokens, db.accounts)'
  <2>1. /\ DOMAIN db'.accounts = accounts /\ \A a \in accounts : db'.accounts[a] = db.accounts[a]
        /\ DOMAIN db'.tokens = {t \in DOMAIN db.tokens : db.tokens[t].account \in accounts}
        /\ \A t \in DOMAIN db'.tokens : db'.tokens[t] = db.tokens[t]
    BY DEF DeletedOrg, Keep
  <2> QED BY <1>1, <1>3, <2>1 DEF DbOK, AccountsOK, TokensOK
<1>8. /\ ProvidersOK(db.providers, db.rules, db.loginStates)'
      /\ OthersOK(db.domains, db.attempts, db.installStates, db.installation)'
  <2>1. CASE o = Seed
    <3>1. DOMAIN Empty = {} /\ Null \in MaybeId
      BY DEF Empty, MaybeId
    <3>2. /\ db'.providers = Empty /\ db'.rules = Empty /\ db'.loginStates = Empty
          /\ db'.domains = Empty /\ db'.installStates = Empty /\ db'.installation = Null
          /\ db'.attempts = db.attempts
      BY <2>1 DEF DeletedOrg
    <3> QED BY <1>1, <3>1, <3>2 DEF DbOK, ProvidersOK, OthersOK
  <2>2. CASE o # Seed
    BY <1>1, <2>2 DEF DbOK, DeletedOrg
  <2> QED BY <2>1, <2>2
<1> QED BY <1>2, <1>4, <1>5, <1>6, <1>7, <1>8 DEF DbOK, DeletedOrg

LEMMA DeleteOrgOK ==
    ASSUME AccountsInv, NEW q \in Requests, DeleteOrg(q), UNCHANGED failedOpen
    PROVE  AccountsInv'
<1>1. At(q, "deleteOrg")
  BY DEF DeleteOrg
<1>2. DeletedOrg(Mem(q).org) /\ Keeps(q, Mem(q))
  BY DeleteOrgDoes DEF AccountsInv, DbOK
<1>3. DbOK' /\ Stay
  BY <1>2, DeletedOrgOK
<1>4. Learns(q, "deleteOrg", Mem(q)) /\ failedOpen' \in BOOLEAN
  BY <1>1, LearnsNothing DEF Teachers, AccountsInv
<1> QED BY <1>1, <1>2, <1>3, <1>4, StepOK

LEMMA UpdateUserOK ==
    ASSUME AccountsInv, NEW q \in Requests, UpdateUser(q), UNCHANGED failedOpen
    PROVE  AccountsInv'
<1>1. PICK m : m = Mem(q)
  OBVIOUS
<1>2. PICK row : row = Changed(q, m.held, m)
  OBVIOUS
<1>3. At(q, "updateUser") /\ q \in Ids
  BY DEF UpdateUser, Ids
<1>4. /\ m \in AccountMemory /\ "updateUser" \in Left(q) /\ Known(Op(q), Left(q), m)
      /\ \A d \in Left(q) : d = "updateUser" \/ Precedes("updateUser", d)
  BY <1>1, <1>3, AtCall
<1>5. "getUser" \notin Left(q)
  BY <1>4, ReadsFirst
<1>6. /\ NamedUser(m.held) /\ m.user \in DOMAIN db.users
      /\ m.change \in {"promote", "disable", "enable", "password", "login"}
      /\ m.change = "login" => m.email \in Emails
  BY <1>4, <1>5 DEF Known, HeldRows, HeldUser, Given
<1>7. NamedUser(row) /\ row.email = m.held.email
  <2>1. m.held \in UserRow /\ (m.held.login = AdminLogin => m.held.email = SeedEmail) /\ q \in MaybeId
    BY <1>3, <1>6 DEF NamedUser, MaybeId
  <2>2. CASE m.change = "promote"
    <3>1. row = [m.held EXCEPT !.serverAdmin = TRUE]
      BY <1>2, <2>2 DEF Changed
    <3> QED BY <2>1, <3>1 DEF UserRow, NamedUser
  <2>3. CASE m.change = "disable"
    <3>1. row = [m.held EXCEPT !.disabled = TRUE]
      BY <1>2, <2>3 DEF Changed
    <3> QED BY <2>1, <3>1 DEF UserRow, NamedUser
  <2>4. CASE m.change = "enable"
    <3>1. row = [m.held EXCEPT !.disabled = FALSE]
      BY <1>2, <2>4 DEF Changed
    <3> QED BY <2>1, <3>1 DEF UserRow, NamedUser
  <2>5. CASE m.change = "password"
    <3>1. row = [m.held EXCEPT !.password = q]
      BY <1>2, <2>5 DEF Changed
    <3> QED BY <2>1, <3>1 DEF UserRow, NamedUser
  <2>6. CASE m.change = "login"
    <3>1. row = [m.held EXCEPT !.login = m.email]
      BY <1>2, <2>6 DEF Changed
    <3> QED BY <1>6, <2>1, <2>6, <3>1, AccountTablesAssumption DEF UserRow, NamedUser
  <2> QED BY <1>6, <2>2, <2>3, <2>4, <2>5, <2>6
<1>8. CASE Taken(m.user, m.held.email, row.login)
  BY <1>1, <1>2, <1>8, RefusesOK DEF UpdateUser
<1>9. CASE ~Taken(m.user, m.held.email, row.login)
  <2>1. PICK us : us = [db.users EXCEPT ![m.user] = row]
    OBVIOUS
  <2>2. Writes(q, [db EXCEPT !.users = us], Mem(q))
    BY <1>1, <1>2, <1>9, <2>1 DEF UpdateUser
  <2>3. UsersOK(db.users)
    BY DEF AccountsInv, DbOK
  <2>4. /\ DOMAIN us = DOMAIN db.users /\ us[m.user] = row
        /\ \A v \in DOMAIN db.users : v # m.user =>
             us[v] = db.users[v] /\ db.users[v].email # row.email /\ db.users[v].login # row.login
    BY <1>6, <1>7, <1>9, <2>1 DEF Taken
  <2>5. UsersOK(us) /\ DOMAIN db.users \subseteq DOMAIN us
    BY <1>7, <2>3, <2>4 DEF UsersOK
  <2>6. DbOK' /\ Stay
    BY <2>2, <2>5, SetUsers DEF Writes
  <2> QED BY <1>3, <2>2, <2>6, PlainWritesOK DEF Teachers
<1> QED BY <1>8, <1>9

LEMMA DisableUserOK ==
    ASSUME AccountsInv, NEW q \in Requests, DisableUser(q), UNCHANGED failedOpen
    PROVE  AccountsInv'
<1>1. PICK u : u = Mem(q).user
  OBVIOUS
<1>2. At(q, "disableUser")
  BY DEF DisableUser
<1>3. u \in DOMAIN db.users
  BY <1>1, <1>2, AtCall DEF Known, HeldUser
<1>4. PICK row : row = [db.users[u] EXCEPT !.disabled = TRUE]
  OBVIOUS
<1>5. PICK us : us = [db.users EXCEPT ![u] = row]
  OBVIOUS
<1>6. Writes(q, [db EXCEPT !.users = us], Mem(q))
  BY <1>1, <1>4, <1>5 DEF DisableUser
<1>7. UsersOK(db.users)
  BY DEF AccountsInv, DbOK
<1>8. NamedUser(row) /\ row.email = db.users[u].email /\ row.login = db.users[u].login
  BY <1>3, <1>4, <1>7 DEF UsersOK, NamedUser, UserRow
<1>9. /\ DOMAIN us = DOMAIN db.users /\ us[u] = row
      /\ \A v \in DOMAIN db.users : v # u => us[v] = db.users[v]
  BY <1>3, <1>5
<1>10. UsersOK(us) /\ DOMAIN db.users \subseteq DOMAIN us
  BY <1>3, <1>7, <1>8, <1>9 DEF UsersOK
<1>11. DbOK' /\ Stay
  BY <1>6, <1>10, SetUsers DEF Writes
<1> QED BY <1>2, <1>6, <1>11, PlainWritesOK DEF Teachers

LEMMA MemberStepsOK ==
    ASSUME AccountsInv, NEW q \in Requests, UNCHANGED failedOpen,
           GetClash(q) \/ UpdateMemberRole(q) \/ RemoveMember(q)
    PROVE  AccountsInv'
<1>1. PICK m : m = Mem(q)
  OBVIOUS
<1>2. MembersOK(db.members, db.users, db.orgs)
  BY DEF AccountsInv, DbOK
<1>3. CASE GetClash(q)
  BY <1>3, PlainReadsOK, RefusesOK DEF GetClash, Teachers
<1>4. CASE UpdateMemberRole(q) /\ <<m.user, m.org>> \in DOMAIN db.members
  <2>1. PICK k : k = <<m.user, m.org>>
    OBVIOUS
  <2>2. PICK row : row = [role |-> m.role, source |-> "manual"]
    OBVIOUS
  <2>3. PICK ms : ms = [db.members EXCEPT ![k] = row]
    OBVIOUS
  <2>4. At(q, "updateMemberRole") /\ Writes(q, [db EXCEPT !.members = ms], Mem(q))
    BY <1>1, <1>4, <2>1, <2>2, <2>3 DEF UpdateMemberRole
  <2>5. row \in MemberRow
    BY <1>1, <2>2, <2>4, AtCall, MemoryIs DEF MemberRow
  <2>6. MembersOK(ms, db.users, db.orgs)
    BY <1>2, <2>3, <2>5 DEF MembersOK
  <2>7. DbOK' /\ Stay
    BY <2>4, <2>6, SetMembers DEF Writes
  <2> QED BY <2>4, <2>7, PlainWritesOK DEF Teachers
<1>5. CASE UpdateMemberRole(q) /\ <<m.user, m.org>> \notin DOMAIN db.members
  <2>1. At(q, "updateMemberRole") /\ Writes(q, db, Mem(q))
    BY <1>1, <1>5 DEF UpdateMemberRole
  <2>2. DbOK' /\ Stay
    BY <2>1, SameOK DEF Writes
  <2> QED BY <2>1, <2>2, PlainWritesOK DEF Teachers
<1>6. CASE RemoveMember(q)
  <2>1. PICK ms : ms = Keep(db.members, DOMAIN db.members \ {<<m.user, m.org>>})
    OBVIOUS
  <2>2. At(q, "removeMember") /\ Writes(q, [db EXCEPT !.members = ms], Mem(q))
    BY <1>1, <1>6, <2>1 DEF RemoveMember
  <2>3. MembersOK(ms, db.users, db.orgs)
    BY <1>2, <2>1 DEF MembersOK, Keep
  <2>4. DbOK' /\ Stay
    BY <2>2, <2>3, SetMembers DEF Writes
  <2> QED BY <2>2, <2>4, PlainWritesOK DEF Teachers
<1> QED BY <1>3, <1>4, <1>5, <1>6

LEMMA DeleteTeamOK ==
    ASSUME AccountsInv, NEW q \in Requests, DeleteTeam(q), UNCHANGED failedOpen
    PROVE  AccountsInv'
<1>1. PICK t : t = Mem(q).ref
  OBVIOUS
<1>2. PICK ts : ts = Keep(db.teams, DOMAIN db.teams \ {t})
  OBVIOUS
<1>3. PICK tms : tms = Keep(db.teamMembers, {k \in DOMAIN db.teamMembers : k[1] # t})
  OBVIOUS
<1>4. At(q, "deleteTeam") /\ Writes(q, [db EXCEPT !.teams = ts, !.teamMembers = tms], Mem(q))
  BY <1>1, <1>2, <1>3 DEF DeleteTeam
<1>5. DbOK
  BY DEF AccountsInv
<1>6. /\ DOMAIN db' = Fields /\ db'.teams = ts /\ db'.teamMembers = tms
      /\ \A f \in Fields \ {"teams", "teamMembers"} : db'[f] = db[f]
  BY <1>4, <1>5 DEF Writes, DbOK, Fields
<1>7. TeamsOK(ts, tms, db.orgs)
  BY <1>2, <1>3, <1>5 DEF DbOK, TeamsOK, Keep
<1>8. DbOK' /\ Stay
  BY <1>5, <1>6, <1>7 DEF DbOK, Stay, Fields
<1> QED BY <1>4, <1>8, PlainWritesOK DEF Teachers

LEMMA TeamStepsOK ==
    ASSUME AccountsInv, NEW q \in Requests, UNCHANGED failedOpen,
           CreateTeam(q) \/ UpdateTeam(q) \/ AddTeamMember(q) \/ RemoveTeamMember(q)
               \/ RemoveUserFromOrgTeams(q)
    PROVE  AccountsInv'
<1>1. PICK m : m = Mem(q)
  OBVIOUS
<1>2. TeamsOK(db.teams, db.teamMembers, db.orgs) /\ q \in Ids
  BY DEF AccountsInv, DbOK, Ids
<1>3. CASE CreateTeam(q) /\ m.org \in DOMAIN db.orgs
  <2>1. PICK ts : ts = With(db.teams, q, m.org)
    OBVIOUS
  <2>2. At(q, "createTeam") /\ Writes(q, [db EXCEPT !.teams = ts], Mem(q))
    BY <1>1, <1>3, <2>1 DEF CreateTeam
  <2>3. TeamsOK(ts, db.teamMembers, db.orgs)
    BY <1>2, <1>3, <2>1 DEF TeamsOK, With
  <2>4. DbOK' /\ Stay
    BY <2>2, <2>3, SetTeams DEF Writes
  <2> QED BY <2>2, <2>4, PlainWritesOK DEF Teachers
<1>4. CASE CreateTeam(q) /\ m.org \notin DOMAIN db.orgs
  BY <1>1, <1>4, RefusesOK DEF CreateTeam
<1>5. CASE UpdateTeam(q)
  <2>1. DbOK' /\ Stay
    BY <1>5, SameOK DEF UpdateTeam, Writes
  <2> QED BY <1>5, <2>1, PlainWritesOK DEF UpdateTeam, Teachers
<1>6. CASE AddTeamMember(q) /\ m.ref = Null
  BY <1>1, <1>6, PlainReadsOK DEF AddTeamMember, Teachers
<1>7. CASE AddTeamMember(q) /\ m.ref # Null /\ m.ref \in DOMAIN db.teams /\ m.org \in DOMAIN db.orgs
  <2>1. PICK k : k = <<m.ref, m.user>>
    OBVIOUS
  <2>2. PICK tms : tms = With(db.teamMembers, k, m.org)
    OBVIOUS
  <2>3. /\ At(q, "joinTeam")
        /\ Writes(q, IF k \in DOMAIN db.teamMembers THEN db ELSE [db EXCEPT !.teamMembers = tms], Mem(q))
    BY <1>1, <1>7, <2>1, <2>2 DEF AddTeamMember
  <2>4. TeamsOK(db.teams, tms, db.orgs)
    BY <1>2, <1>7, <2>1, <2>2 DEF TeamsOK, With
  <2>5. DbOK' /\ Stay
    BY <2>3, <2>4, SetTeamMembers, SameOK DEF Writes
  <2> QED BY <2>3, <2>5, PlainWritesOK DEF Teachers
<1>8. CASE AddTeamMember(q) /\ m.ref # Null /\ ~(m.ref \in DOMAIN db.teams /\ m.org \in DOMAIN db.orgs)
  BY <1>1, <1>8, RefusesOK DEF AddTeamMember
<1>9. CASE RemoveTeamMember(q) \/ RemoveUserFromOrgTeams(q)
  <2>1. PICK c, S : c \in {"leaveTeam", "leaveTeams"} /\ At(q, c) /\ Writes(q,
            [db EXCEPT !.teamMembers = Keep(db.teamMembers, S)], Mem(q))
    <3>1. CASE RemoveTeamMember(q)
      BY <3>1 DEF RemoveTeamMember
    <3>2. CASE RemoveUserFromOrgTeams(q)
      BY <3>2 DEF RemoveUserFromOrgTeams
    <3> QED BY <1>9, <3>1, <3>2
  <2>2. PICK tms : tms = Keep(db.teamMembers, S)
    OBVIOUS
  <2>3. TeamsOK(db.teams, tms, db.orgs)
    BY <1>2, <2>2 DEF TeamsOK, Keep
  <2>4. DbOK' /\ Stay
    BY <2>1, <2>2, <2>3, SetTeamMembers DEF Writes
  <2> QED BY <2>1, <2>4, PlainWritesOK DEF Teachers
<1> QED BY <1>3, <1>4, <1>5, <1>6, <1>7, <1>8, <1>9

LEMMA PeopleOK ==
    ASSUME AccountsInv, NEW q \in Requests, PeopleStep(q)
    PROVE  AccountsInv'
BY GetOrgOK, UpdateOrgOK, DeleteOrgOK, UpdateUserOK, DisableUserOK, MemberStepsOK, DeleteTeamOK, TeamStepsOK
   DEF PeopleStep

(***************************************************************************)
(* Signing in.                                                             *)
(***************************************************************************)
\* The user of a request is found.
LEMMA UserFound ==
    ASSUME AccountsInv, NEW q \in Requests, NEW c, At(q, c), c \notin {"getUser", "getOrg", "load",
           "loadProvider"},
           NEW u \in DOMAIN db.users, Reads(q, [Mem(q) EXCEPT !.user = u]), UNCHANGED failedOpen
    PROVE  AccountsInv'
<1>1. PICK m : m = Mem(q)
  OBVIOUS
<1>2. m \in AccountMemory /\ u \in Ids /\ db' = db
  BY <1>1, AtCall DEF AccountsInv, DbOK, UsersOK, Reads
<1>3. PICK n : n = [m EXCEPT !.user = u]
  OBVIOUS
<1>4. /\ n \in AccountMemory /\ n.user = u /\ n.email = m.email /\ n.change = m.change
      /\ n.body = m.body /\ n.held = m.held /\ n.aux = m.aux /\ n.provider = m.provider
      /\ n.org = m.org /\ n.isMember = m.isMember
  BY <1>2, <1>3 DEF AccountMemory, MaybeId
<1>5. Learns(q, c, n)
  BY <1>1, <1>2, <1>4 DEF Learns, HeldUser
<1> QED BY <1>1, <1>3, <1>5, ReadsOK

LEMMA PasswordStepsOK ==
    ASSUME AccountsInv, NEW q \in Requests, UNCHANGED failedOpen,
           FindLogin(q) \/ GetSessionByToken(q) \/ DeleteSession(q) \/ CountLoginAttempts(q)
               \/ RecordLoginAttempt(q)
    PROVE  AccountsInv'
<1>1. CASE FindLogin(q)
  <2>1. At(q, "findLogin")
    BY <1>1 DEF FindLogin
  <2>2. CASE \E u \in ByEmail(Mem(q).email) : Reads(q, [Mem(q) EXCEPT !.user = u])
    BY <2>1, <2>2, UserFound DEF ByEmail
  <2>3. CASE Refuses(q)
    BY <2>3, RefusesOK
  <2> QED BY <1>1, <2>2, <2>3 DEF FindLogin
<1>2. CASE GetSessionByToken(q)
  <2>1. At(q, "getSession")
    BY <1>2 DEF GetSessionByToken
  <2>2. CASE Mem(q).ref \in DOMAIN db.sessions
    <3>1. PICK u : u = db.sessions[Mem(q).ref].user
      OBVIOUS
    <3>2. u \in DOMAIN db.users
      BY <2>2, <3>1 DEF AccountsInv, DbOK, SessionsOK
    <3>3. Reads(q, [Mem(q) EXCEPT !.user = u])
      BY <1>2, <2>2, <3>1 DEF GetSessionByToken
    <3> QED BY <2>1, <3>2, <3>3, UserFound
  <2>3. CASE Mem(q).ref \notin DOMAIN db.sessions
    BY <1>2, <2>3, RefusesOK DEF GetSessionByToken
  <2> QED BY <2>2, <2>3
<1>3. CASE DeleteSession(q)
  <2>1. PICK ss : ss = Keep(db.sessions, DOMAIN db.sessions \ {Mem(q).ref})
    OBVIOUS
  <2>2. At(q, "deleteSession") /\ Writes(q, [db EXCEPT !.sessions = ss], Mem(q))
    BY <1>3, <2>1 DEF DeleteSession
  <2>3. SessionsOK(ss, db.users)
    BY <2>1 DEF AccountsInv, DbOK, SessionsOK, Keep
  <2>4. DbOK' /\ Stay
    BY <2>2, <2>3, SetSessions DEF Writes
  <2> QED BY <2>2, <2>4, PlainWritesOK DEF Teachers
<1>4. CASE CountLoginAttempts(q)
  BY <1>4, PlainReadsOK, RefusesOK DEF CountLoginAttempts, Teachers
<1>5. CASE RecordLoginAttempt(q)
  <2>1. PICK v : v = db.attempts + 1
    OBVIOUS
  <2>2. At(q, "recordAttempt") /\ Writes(q, [db EXCEPT !.attempts = v], Mem(q))
    BY <1>5, <2>1 DEF RecordLoginAttempt
  <2>3. OthersOK(db.domains, v, db.installStates, db.installation)
    BY <2>1 DEF AccountsInv, DbOK, OthersOK
  <2>4. DbOK' /\ Stay
    BY <2>2, <2>3, SetOther DEF Writes
  <2> QED BY <2>2, <2>4, PlainWritesOK DEF Teachers
<1> QED BY <1>1, <1>2, <1>3, <1>4, <1>5

\* The provider of a request is found.
LEMMA ProviderFound ==
    ASSUME AccountsInv, NEW q \in Requests, NEW c \in {"load", "loadProvider"}, At(q, c),
           NEW p \in DOMAIN db.providers, (c = "loadProvider" /\ Op(q) = "callback") => Mem(q).aux = p,
           Reads(q, [Mem(q) EXCEPT !.provider = p, !.held = db.providers[p]]), UNCHANGED failedOpen
    PROVE  AccountsInv'
<1>1. PICK m : m = Mem(q)
  OBVIOUS
<1>2. PICK row : row = db.providers[p]
  OBVIOUS
<1>3. m \in AccountMemory /\ p \in Ids /\ row \in ProviderRow /\ c \in Left(q) /\ Known(Op(q), Left(q), m)
  BY <1>1, <1>2, AtCall DEF AccountsInv, DbOK, ProvidersOK
<1>4. PICK n : n = [m EXCEPT !.provider = p, !.held = row]
  OBVIOUS
<1>5. /\ n \in AccountMemory /\ n.user = m.user /\ n.email = m.email /\ n.change = m.change
      /\ n.body = m.body /\ n.held = row /\ n.aux = m.aux /\ n.provider = p
      /\ n.org = m.org /\ n.isMember = m.isMember
  BY <1>3, <1>4 DEF AccountMemory, MaybeId
<1>6. \A L : After(q, c, L) => HeldRows(L, n)
  <2>1. "updateUser" \notin Left(q) /\ "updateOrg" \notin Left(q)
    BY <1>3 DEF Known, CallsOfOp
  <2> QED BY <1>3, <1>5, <2>1 DEF HeldRows, After
<1>7. \A L : After(q, c, L) => HeldState(Op(q), L, n)
  <2> SUFFICES ASSUME NEW L, After(q, c, L) PROVE HeldState(Op(q), L, n)
    OBVIOUS
  <2>1. Op(q) = "callback" => c = "loadProvider"
    BY <1>3 DEF Known, CallsOfOp, CallbackSteps
  <2>2. "consumeState" \notin L
    BY <1>3, <2>1 DEF After, Precedes, Rank
  <2>3. /\ "findUser" \in L /\ "getMember" \in Left(q) => "getMember" \in L
        /\ "getMember" \in L /\ "seats" \in Left(q) => "seats" \in L
        /\ L \subseteq Left(q)
    BY DEF After
  <2>4. HeldState(Op(q), Left(q), m)
    BY <1>3 DEF Known
  <2> QED BY <1>1, <1>5, <2>1, <2>2, <2>3, <2>4 DEF HeldState
<1>8. Learns(q, c, n)
  BY <1>1, <1>5, <1>6, <1>7 DEF Learns
<1> QED BY <1>1, <1>2, <1>4, <1>8, ReadsOK

LEMMA LoadsOK ==
    ASSUME AccountsInv, NEW q \in Requests, UNCHANGED failedOpen, LoadProvider(q) \/ Load(q)
    PROVE  AccountsInv'
<1>1. CASE LoadProvider(q)
  <2>1. CASE Refuses(q)
    BY <2>1, RefusesOK
  <2>2. CASE \E p \in DOMAIN db.providers :
               /\ Op(q) = "callback" => SameProvider(Mem(q), p)
               /\ Reads(q, [Mem(q) EXCEPT !.provider = p, !.held = db.providers[p]])
    BY <1>1, <2>2, ProviderFound DEF LoadProvider, SameProvider
  <2> QED BY <1>1, <2>1, <2>2 DEF LoadProvider
<1>2. CASE Load(q)
  <2>1. CASE Refuses(q)
    BY <2>1, RefusesOK
  <2>2. CASE \E p \in DOMAIN db.providers :
               Reads(q, [Mem(q) EXCEPT !.provider = p, !.held = db.providers[p]])
    BY <1>2, <2>2, ProviderFound DEF Load
  <2> QED BY <1>2, <2>1, <2>2 DEF Load
<1> QED BY <1>1, <1>2

\* A callback comes to know its state's provider before it compares.
LEMMA ConsumeLoginStateOK ==
    ASSUME AccountsInv, NEW q \in Requests, UNCHANGED failedOpen, ConsumeLoginState(q)
    PROVE  AccountsInv'
<1>1. PICK m : m = Mem(q)
  OBVIOUS
<1>2. At(q, "consumeState")
  BY DEF ConsumeLoginState
<1>3. CASE m.ref \notin DOMAIN db.loginStates
  BY <1>1, <1>3, RefusesOK DEF ConsumeLoginState
<1>4. CASE m.ref \in DOMAIN db.loginStates
  <2>1. PICK ss : ss = Keep(db.loginStates, DOMAIN db.loginStates \ {m.ref})
    OBVIOUS
  <2>2. PICK p : p = db.loginStates[m.ref]
    OBVIOUS
  <2>3. PICK n : n = [m EXCEPT !.aux = p]
    OBVIOUS
  <2>4. /\ db' = [db EXCEPT !.loginStates = ss]
        /\ Keeps(q, n) \/ Ends(q)
    BY <1>1, <1>4, <2>1, <2>2, <2>3 DEF ConsumeLoginState, Writes
  <2>5. p \in Ids /\ ProvidersOK(db.providers, db.rules, ss)
    BY <1>4, <2>1, <2>2 DEF AccountsInv, DbOK, ProvidersOK, Keep
  <2>6. DbOK' /\ Stay /\ failedOpen' \in BOOLEAN
    BY <2>4, <2>5, SetLoginStates DEF AccountsInv
  <2>7. m \in AccountMemory /\ "consumeState" \in Left(q) /\ Known(Op(q), Left(q), m)
    BY <1>1, <1>2, AtCall
  <2>8. /\ n \in AccountMemory /\ n.user = m.user /\ n.email = m.email /\ n.change = m.change
        /\ n.body = m.body /\ n.held = m.held /\ n.provider = m.provider
        /\ n.org = m.org /\ n.isMember = m.isMember
    BY <2>3, <2>5, <2>7 DEF AccountMemory, MaybeId
  <2>9. \A L : After(q, "consumeState", L) => HeldState(Op(q), L, n)
    <3> SUFFICES ASSUME NEW L, After(q, "consumeState", L) PROVE HeldState(Op(q), L, n)
      OBVIOUS
    <3>1. /\ \A d \in Left(q) : d # "consumeState" => d \in L
          /\ L \subseteq Left(q)
      BY DEF After
    <3>2. HeldState(Op(q), Left(q), m)
      BY <2>7 DEF Known
    <3> QED BY <2>7, <2>8, <3>1, <3>2 DEF HeldState
  <2>10. Learns(q, "consumeState", n)
    BY <1>1, <2>8, <2>9 DEF Learns
  <2> QED BY <1>2, <2>4, <2>6, <2>10, StepOK, EndsOK
<1> QED BY <1>3, <1>4

LEMMA CreateLoginStateOK ==
    ASSUME AccountsInv, NEW q \in Requests, UNCHANGED failedOpen, CreateLoginState(q)
    PROVE  AccountsInv'
<1>1. PICK p : p = Mem(q).provider
  OBVIOUS
<1>2. CASE p \notin DOMAIN db.providers
  BY <1>1, <1>2, RefusesOK DEF CreateLoginState
<1>3. CASE p \in DOMAIN db.providers
  <2>1. PICK ss : ss = With(db.loginStates, q, p)
    OBVIOUS
  <2>2. At(q, "createLoginState") /\ Writes(q, [db EXCEPT !.loginStates = ss], Mem(q))
    BY <1>1, <1>3, <2>1 DEF CreateLoginState
  <2>3. ProvidersOK(db.providers, db.rules, ss)
    BY <1>3, <2>1 DEF AccountsInv, DbOK, ProvidersOK, With, Ids
  <2>4. DbOK' /\ Stay
    BY <2>2, <2>3, SetLoginStates DEF Writes
  <2> QED BY <2>2, <2>4, PlainWritesOK DEF Teachers
<1> QED BY <1>2, <1>3

LEMMA FindUserOK ==
    ASSUME AccountsInv, NEW q \in Requests, UNCHANGED failedOpen, FindUser(q)
    PROVE  AccountsInv'
<1>1. At(q, "findUser")
  BY DEF FindUser
<1>2. CASE \E u \in ByEmail(Mem(q).email) : Reads(q, [Mem(q) EXCEPT !.user = u])
  BY <1>1, <1>2, UserFound DEF ByEmail
<1>3. CASE Refuses(q)
  BY <1>3, RefusesOK
<1>4. CASE Reads(q, Mem(q))
  BY <1>1, <1>4, PlainReadsOK DEF Teachers
<1> QED BY <1>2, <1>3, <1>4 DEF FindUser

LEMMA RoleStepsOK ==
    ASSUME AccountsInv, NEW q \in Requests, UNCHANGED failedOpen, ListRoleMappings(q) \/ GetMember(q)
    PROVE  AccountsInv'
<1>1. PICK m : m = Mem(q)
  OBVIOUS
<1>2. CASE ListRoleMappings(q)
  <2>1. PICK r : /\ r \in {db.rules[i].role : i \in {j \in DOMAIN db.rules :
                               db.rules[j].provider = m.provider}} \cup {"viewer"}
                 /\ Reads(q, [m EXCEPT !.role = r])
    BY <1>1, <1>2 DEF ListRoleMappings
  <2>2. At(q, "listRoleMappings") /\ m \in AccountMemory
    BY <1>1, <1>2, AtCall DEF ListRoleMappings
  <2>3. r \in Roles
    BY <2>1 DEF AccountsInv, DbOK, ProvidersOK, Roles
  <2>4. PICK n : n = [m EXCEPT !.role = r]
    OBVIOUS
  <2>5. /\ n \in AccountMemory /\ n.user = m.user /\ n.email = m.email /\ n.change = m.change
        /\ n.body = m.body /\ n.held = m.held /\ n.aux = m.aux /\ n.provider = m.provider
        /\ n.org = m.org /\ n.isMember = m.isMember
    BY <2>2, <2>3, <2>4 DEF AccountMemory
  <2>6. Learns(q, "listRoleMappings", n)
    BY <1>1, <2>5 DEF Learns
  <2> QED BY <2>1, <2>2, <2>4, <2>6, ReadsOK
<1>3. CASE GetMember(q)
  <2>1. PICK b \in BOOLEAN : b <=> <<m.user, Seed>> \in DOMAIN db.members
    BY Zenon
  <2> b = (<<m.user, Seed>> \in DOMAIN db.members)
    BY <2>1
  <2>2. PICK n : n = [m EXCEPT !.isMember = b]
    OBVIOUS
  <2>3. At(q, "getMember") /\ Reads(q, n)
    BY <1>1, <1>3, <2>1, <2>2 DEF GetMember
  <2>4. m \in AccountMemory /\ Known(Op(q), Left(q), m) /\ "getMember" \in Left(q)
    BY <1>1, <2>3, AtCall
  <2>5. /\ n \in AccountMemory /\ n.user = m.user /\ n.email = m.email /\ n.change = m.change
        /\ n.body = m.body /\ n.held = m.held /\ n.aux = m.aux /\ n.provider = m.provider
        /\ n.org = m.org
    BY <2>2, <2>4 DEF AccountMemory
  <2>6. \A L : After(q, "getMember", L) => HeldState(Op(q), L, n)
    <3> SUFFICES ASSUME NEW L, After(q, "getMember", L) PROVE HeldState(Op(q), L, n)
      OBVIOUS
    <3>1. /\ \A d \in Left(q) : d # "getMember" => d \in L
          /\ L \subseteq Left(q) /\ "getMember" \notin L /\ "findUser" \notin L
      <4>1. ~Precedes("getMember", "findUser") /\ ~Precedes("getMember", "getMember")
        BY DEF Precedes, Rank
      <4> QED BY <4>1 DEF After
    <3>2. HeldState(Op(q), Left(q), m) /\ Op(q) # "addMember"
      BY <2>4 DEF Known, CallsOfOp, AddMemberSteps
    <3> QED BY <2>5, <3>1, <3>2 DEF HeldState
  <2>7. Learns(q, "getMember", n)
    BY <1>1, <2>5, <2>6 DEF Learns
  <2> QED BY <2>3, <2>7, ReadsOK
<1> QED BY <1>2, <1>3

LEMMA UpsertsOK ==
    ASSUME AccountsInv, NEW q \in Requests, UNCHANGED failedOpen, UpsertMember(q) \/ UpsertAuthIdentity(q)
    PROVE  AccountsInv'
<1>1. PICK m : m = Mem(q)
  OBVIOUS
<1>2. CASE UpsertMember(q) /\ Seed \notin DOMAIN db.orgs
  BY <1>2, RefusesOK DEF UpsertMember
<1>3. CASE UpsertMember(q) /\ Seed \in DOMAIN db.orgs
  <2>1. PICK k : k = <<m.user, Seed>>
    OBVIOUS
  <2>2. PICK row : row = [role |-> m.role, source |-> "sso"]
    OBVIOUS
  <2>3. PICK ms : ms = With(db.members, k, row)
    OBVIOUS
  <2>4. At(q, "upsertMember") /\ Writes(q, [db EXCEPT !.members = ms], Mem(q))
    BY <1>1, <1>3, <2>1, <2>2, <2>3 DEF UpsertMember
  <2>5. /\ Known(Op(q), Left(q), m) /\ "upsertMember" \in Left(q) /\ m.role \in Roles
        /\ \A d \in Left(q) : d = "upsertMember" \/ Precedes("upsertMember", d)
    BY <1>1, <2>4, AtCall, MemoryIs
  <2>6. m.user \in DOMAIN db.users
    <3>1. ~Precedes("upsertMember", "createUser")
      BY DEF Precedes
    <3>2. "createUser" \notin Left(q)
      BY <2>5, <3>1
    <3>3. "findLogin" \notin Left(q) /\ "getSession" \notin Left(q)
      BY <2>5 DEF Known, CallsOfOp, CallbackSteps
    <3> QED BY <2>5, <3>2, <3>3 DEF Known, HeldUser
  <2>7. row \in MemberRow
    BY <2>2, <2>5 DEF MemberRow
  <2>8. MembersOK(ms, db.users, db.orgs)
    <3>1. MembersOK(db.members, db.users, db.orgs) /\ DOMAIN db.users \subseteq Ids /\ Seed \in Ids
      BY DEF AccountsInv, DbOK, UsersOK, Ids
    <3>2. k \in Ids \X Ids /\ k[1] = m.user /\ k[2] = Seed
      BY <2>1, <2>6, <3>1
    <3> QED BY <1>3, <2>3, <2>6, <2>7, <3>1, <3>2 DEF MembersOK, With
  <2>9. DbOK' /\ Stay
    BY <2>4, <2>8, SetMembers DEF Writes
  <2> QED BY <2>4, <2>9, PlainWritesOK DEF Teachers
<1>4. CASE UpsertAuthIdentity(q)
  <2>1. PICK is : is = With(db.identities, m.provider, m.user)
    OBVIOUS
  <2>2. At(q, "upsertIdentity") /\ Writes(q, [db EXCEPT !.identities = is], Mem(q))
    BY <1>1, <1>4, <2>1 DEF UpsertAuthIdentity
  <2>3. OthersOK(db.domains, db.attempts, db.installStates, db.installation)
    BY DEF AccountsInv, DbOK
  <2>4. DbOK' /\ Stay
    BY <2>2, <2>3, SetOther DEF Writes
  <2> QED BY <2>2, <2>4, PlainWritesOK DEF Teachers
<1> QED BY <1>2, <1>3, <1>4

\* What the body leaves open the row gives.
LEMMA AppliedRow ==
    ASSUME NEW q \in Requests, NEW b \in ProviderRow, NEW row \in ProviderRow
    PROVE  Applied(q, b, row) \in ProviderRow
<1>1. PICK s \in MaybeId : s = IF b.secret # Null /\ b.kind = "oidc" THEN b.secret ELSE row.secret
  BY DEF ProviderRow
<1>2. PICK k \in MaybeId : k = IF b.kind = "saml" /\ row.key = Null THEN q ELSE row.key
  BY DEF ProviderRow, MaybeId, Ids
<1>3. Applied(q, b, row) = [b EXCEPT !.secret = s, !.key = k]
  BY <1>1, <1>2 DEF Applied
<1> QED BY <1>1, <1>2, <1>3 DEF ProviderRow

LEMMA ProviderWritten ==
    ASSUME AccountsInv, NEW q \in Requests, UNCHANGED failedOpen, NEW c, c \notin Teachers, At(q, c),
           NEW p \in Ids, NEW row \in ProviderRow, NEW ps, Writes(q, [db EXCEPT !.providers = ps], Mem(q)),
           ps = With(db.providers, p, row)
    PROVE  AccountsInv'
<1>1. ProvidersOK(ps, db.rules, db.loginStates)
  BY DEF AccountsInv, DbOK, ProvidersOK, With
<1>2. DbOK' /\ Stay
  BY <1>1, SetProviders DEF Writes
<1> QED BY <1>2, PlainWritesOK

LEMMA ProviderStepsOK ==
    ASSUME AccountsInv, NEW q \in Requests, UNCHANGED failedOpen,
           CreateAuthProvider(q) \/ UpdateAuthProvider(q) \/ EnsureSPKeypair(q)
    PROVE  AccountsInv'
<1>1. PICK m : m = Mem(q)
  OBVIOUS
<1>2. q \in Ids /\ DOMAIN db.providers \subseteq Ids
  BY DEF AccountsInv, DbOK, ProvidersOK, Ids
<1>3. CASE Refuses(q)
  BY <1>3, RefusesOK
<1>4. CASE CreateAuthProvider(q) /\ ~Refuses(q)
  <2>1. PICK row : row = Applied(q, m.body, NoProvider)
    OBVIOUS
  <2>2. PICK ps : ps = With(db.providers, q, row)
    OBVIOUS
  <2>3. At(q, "createProvider") /\ Writes(q, [db EXCEPT !.providers = ps], Mem(q))
    BY <1>1, <1>4, <2>1, <2>2 DEF CreateAuthProvider
  <2>4. m.body \in ProviderRow
    BY <1>1, <2>3, AtCall DEF Known, Given
  <2>5. NoProvider \in ProviderRow
    BY DEF NoProvider, ProviderRow, MaybeId
  <2>6. row \in ProviderRow
    BY <2>1, <2>4, <2>5, AppliedRow
  <2> QED BY <1>2, <2>2, <2>3, <2>6, ProviderWritten DEF Teachers
<1>5. CASE UpdateAuthProvider(q) /\ ~Refuses(q)
  <2>1. PICK row : row = Applied(q, m.body, m.held)
    OBVIOUS
  <2>2. PICK ps : ps = [db.providers EXCEPT ![m.provider] = row]
    OBVIOUS
  <2>3. /\ At(q, "updateProvider") /\ Writes(q, [db EXCEPT !.providers = ps], Mem(q))
        /\ m.provider \in DOMAIN db.providers
    BY <1>1, <1>5, <2>1, <2>2 DEF UpdateAuthProvider
  <2>4. /\ Known(Op(q), Left(q), m) /\ "updateProvider" \in Left(q)
        /\ \A d \in Left(q) : d = "updateProvider" \/ Precedes("updateProvider", d)
    BY <1>1, <2>3, AtCall
  <2>5. m.body \in ProviderRow /\ m.held \in ProviderRow
    <3>1. "load" \notin Left(q)
      BY <2>4, ReadsFirst
    <3> QED BY <2>4, <3>1 DEF Known, Given, HeldRows
  <2>6. row \in ProviderRow
    BY <2>1, <2>5, AppliedRow
  <2>7. ps = With(db.providers, m.provider, row)
    BY <2>2, <2>3 DEF With
  <2> QED BY <1>2, <2>3, <2>6, <2>7, ProviderWritten DEF Teachers
<1>6. CASE EnsureSPKeypair(q) /\ ~Refuses(q)
  <2>1. At(q, "ensureKeypair")
    BY <1>6 DEF EnsureSPKeypair
  <2>2. CASE Reads(q, m)
    BY <1>1, <2>1, <2>2, PlainReadsOK DEF Teachers
  <2>3. CASE ~Reads(q, m)
    <3>1. PICK row : row = [m.held EXCEPT !.key = q]
      OBVIOUS
    <3>2. PICK ps : ps = [db.providers EXCEPT ![m.provider] = row]
      OBVIOUS
    <3>3. Writes(q, [db EXCEPT !.providers = ps], Mem(q)) /\ m.provider \in DOMAIN db.providers
      BY <1>1, <1>6, <2>3, <3>1, <3>2 DEF EnsureSPKeypair
    <3>4. /\ Known(Op(q), Left(q), m) /\ "ensureKeypair" \in Left(q)
          /\ \A d \in Left(q) : d = "ensureKeypair" \/ Precedes("ensureKeypair", d)
      BY <1>1, <2>1, AtCall
    <3>5. m.held \in ProviderRow
      <4>1. "load" \notin Left(q)
        BY <3>4, ReadsFirst
      <4> QED BY <3>4, <4>1 DEF Known, HeldRows
    <3>6. row \in ProviderRow
      BY <1>2, <3>1, <3>5 DEF ProviderRow, MaybeId
    <3>7. ps = With(db.providers, m.provider, row)
      BY <3>2, <3>3 DEF With
    <3> QED BY <1>2, <2>1, <3>3, <3>6, <3>7, ProviderWritten DEF Teachers
  <2> QED BY <2>2, <2>3
<1> QED BY <1>3, <1>4, <1>5, <1>6

LEMMA DeleteProviderOK ==
    ASSUME AccountsInv, NEW q \in Requests, UNCHANGED failedOpen, DeleteAuthProvider(q)
    PROVE  AccountsInv'
<1>1. PICK p : p = Mem(q).provider
  OBVIOUS
<1>2. PICK ps : ps = Keep(db.providers, DOMAIN db.providers \ {p})
  OBVIOUS
<1>3. PICK rs : rs = Keep(db.rules, {i \in DOMAIN db.rules : db.rules[i].provider # p})
  OBVIOUS
<1>4. PICK ss : ss = Keep(db.loginStates, {s \in DOMAIN db.loginStates : db.loginStates[s] # p})
  OBVIOUS
<1>5. /\ At(q, "deleteProvider")
      /\ Writes(q, [db EXCEPT !.providers = ps, !.rules = rs, !.loginStates = ss], Mem(q))
  BY <1>1, <1>2, <1>3, <1>4 DEF DeleteAuthProvider
<1>6. DbOK
  BY DEF AccountsInv
<1>7. /\ DOMAIN db' = Fields /\ db'.providers = ps /\ db'.rules = rs /\ db'.loginStates = ss
      /\ \A f \in Fields \ {"providers", "rules", "loginStates"} : db'[f] = db[f]
  BY <1>5, <1>6 DEF Writes, DbOK, Fields
<1>8. ProvidersOK(ps, rs, ss)
  <2>1. /\ DOMAIN ps = DOMAIN db.providers \ {p} /\ \A x \in DOMAIN ps : ps[x] = db.providers[x]
        /\ DOMAIN rs = {i \in DOMAIN db.rules : db.rules[i].provider # p}
        /\ \A x \in DOMAIN rs : rs[x] = db.rules[x]
        /\ DOMAIN ss = {s \in DOMAIN db.loginStates : db.loginStates[s] # p}
        /\ \A x \in DOMAIN ss : ss[x] = db.loginStates[x]
    BY <1>2, <1>3, <1>4 DEF Keep
  <2>2. ProvidersOK(db.providers, db.rules, db.loginStates)
    BY <1>6 DEF DbOK
  <2>3. \A r \in DOMAIN rs : rs[r] \in [provider : DOMAIN ps, role : Roles]
    <3> SUFFICES ASSUME NEW r \in DOMAIN rs PROVE rs[r] \in [provider : DOMAIN ps, role : Roles]
      OBVIOUS
    <3>1. db.rules[r] \in [provider : DOMAIN db.providers, role : Roles] /\ db.rules[r].provider # p
      BY <2>1, <2>2 DEF ProvidersOK
    <3> QED BY <2>1, <3>1
  <2> QED BY <2>1, <2>2, <2>3 DEF ProvidersOK
<1>9. DbOK' /\ Stay
  BY <1>6, <1>7, <1>8 DEF DbOK, Stay, Fields
<1> QED BY <1>5, <1>9, PlainWritesOK DEF Teachers

LEMMA RuleStepsOK ==
    ASSUME AccountsInv, NEW q \in Requests, UNCHANGED failedOpen,
           CreateRoleMapping(q) \/ UpdateRoleMapping(q) \/ DeleteRoleMapping(q)
    PROVE  AccountsInv'
<1>1. PICK m : m = Mem(q)
  OBVIOUS
<1>2. ProvidersOK(db.providers, db.rules, db.loginStates) /\ q \in Ids
  BY DEF AccountsInv, DbOK, Ids
<1>3. CASE Refuses(q)
  BY <1>3, RefusesOK
<1>4. CASE CreateRoleMapping(q) /\ ~Refuses(q)
  <2>1. PICK row : row = [provider |-> m.provider, role |-> m.role]
    OBVIOUS
  <2>2. PICK rs : rs = With(db.rules, q, row)
    OBVIOUS
  <2>3. /\ At(q, "createRule") /\ Writes(q, [db EXCEPT !.rules = rs], Mem(q))
        /\ m.provider \in DOMAIN db.providers
    BY <1>1, <1>4, <2>1, <2>2 DEF CreateRoleMapping
  <2>4. row \in [provider : DOMAIN db.providers, role : Roles]
    BY <1>1, <2>1, <2>3, AtCall, MemoryIs
  <2>5. ProvidersOK(db.providers, rs, db.loginStates)
    BY <1>2, <2>2, <2>4 DEF ProvidersOK, With
  <2>6. DbOK' /\ Stay
    BY <2>3, <2>5, SetRules DEF Writes
  <2> QED BY <2>3, <2>6, PlainWritesOK DEF Teachers
<1>5. CASE UpdateRoleMapping(q) /\ ~Refuses(q)
  <2>1. PICK row : row = [db.rules[m.aux] EXCEPT !.role = m.role]
    OBVIOUS
  <2>2. PICK rs : rs = [db.rules EXCEPT ![m.aux] = row]
    OBVIOUS
  <2>3. /\ At(q, "updateRule") /\ Writes(q, [db EXCEPT !.rules = rs], Mem(q))
        /\ m.aux \in DOMAIN db.rules
    BY <1>1, <1>5, <2>1, <2>2 DEF UpdateRoleMapping, OwnRule
  <2>4. row \in [provider : DOMAIN db.providers, role : Roles]
    <3>1. m.role \in Roles
      BY <1>1, <2>3, AtCall, MemoryIs
    <3>2. db.rules[m.aux] \in [provider : DOMAIN db.providers, role : Roles]
      BY <1>2, <2>3 DEF ProvidersOK
    <3> QED BY <2>1, <3>1, <3>2
  <2>5. ProvidersOK(db.providers, rs, db.loginStates)
    BY <1>2, <2>2, <2>4 DEF ProvidersOK
  <2>6. DbOK' /\ Stay
    BY <2>3, <2>5, SetRules DEF Writes
  <2> QED BY <2>3, <2>6, PlainWritesOK DEF Teachers
<1>6. CASE DeleteRoleMapping(q)
  <2>1. PICK rs : rs = Keep(db.rules, DOMAIN db.rules \ {m.aux})
    OBVIOUS
  <2>2. /\ At(q, "deleteRule")
        /\ Writes(q, IF OwnRule(m) THEN [db EXCEPT !.rules = rs] ELSE db, Mem(q))
    BY <1>1, <1>6, <2>1 DEF DeleteRoleMapping
  <2>3. ProvidersOK(db.providers, rs, db.loginStates)
    BY <1>2, <2>1 DEF ProvidersOK, Keep
  <2>4. DbOK' /\ Stay
    BY <2>2, <2>3, SetRules, SameOK DEF Writes
  <2> QED BY <2>2, <2>4, PlainWritesOK DEF Teachers
<1> QED BY <1>3, <1>4, <1>5, <1>6

LEMMA DomainStepsOK ==
    ASSUME AccountsInv, NEW q \in Requests, UNCHANGED failedOpen,
           ListOrgDomains(q) \/ CreateOrgDomain(q) \/ UpdateOrgDomain(q) \/ DeleteOrgDomain(q)
    PROVE  AccountsInv'
<1>1. PICK i : i = Mem(q).ref
  OBVIOUS
<1>2. OthersOK(db.domains, db.attempts, db.installStates, db.installation) /\ q \in Ids
  BY DEF AccountsInv, DbOK, Ids
<1>3. CASE Refuses(q)
  BY <1>3, RefusesOK
<1>4. CASE ListOrgDomains(q)
  BY <1>4, PlainReadsOK, RefusesOK DEF ListOrgDomains, Teachers
<1>5. CASE (CreateOrgDomain(q) \/ UpdateOrgDomain(q) \/ DeleteOrgDomain(q)) /\ ~Refuses(q)
  <2>1. PICK c, ds : /\ c \in {"createDomain", "updateDomain", "deleteDomain"} /\ At(q, c)
                     /\ DOMAIN ds \subseteq DOMAIN db.domains \cup {q}
                     /\ Writes(q, db, Mem(q)) \/ Writes(q, [db EXCEPT !.domains = ds], Mem(q))
    <3>1. CASE CreateOrgDomain(q)
      <4>1. PICK d \in Domains :
              Writes(q, IF DomainThere(d) THEN db ELSE [db EXCEPT !.domains = With(@, q, d)], Mem(q))
        BY <1>5, <3>1 DEF CreateOrgDomain
      <4>2. PICK ds : ds = With(db.domains, q, d)
        OBVIOUS
      <4>3. At(q, "createDomain") /\ DOMAIN ds \subseteq DOMAIN db.domains \cup {q}
        BY <3>1, <4>2 DEF CreateOrgDomain, With
      <4> QED BY <4>1, <4>2, <4>3
    <3>2. CASE UpdateOrgDomain(q)
      <4>1. PICK d \in Domains : Writes(q, [db EXCEPT !.domains[i] = d], Mem(q))
        BY <1>1, <1>5, <3>2 DEF UpdateOrgDomain
      <4>2. PICK ds : ds = [db.domains EXCEPT ![i] = d]
        OBVIOUS
      <4>3. Writes(q, [db EXCEPT !.domains = ds], Mem(q)) /\ DOMAIN ds = DOMAIN db.domains
        BY <4>1, <4>2
      <4>4. At(q, "updateDomain")
        BY <3>2 DEF UpdateOrgDomain
      <4> QED BY <4>3, <4>4
    <3>3. CASE DeleteOrgDomain(q)
      <4>1. PICK ds : ds = Keep(db.domains, DOMAIN db.domains \ {i})
        OBVIOUS
      <4>2. /\ At(q, "deleteDomain") /\ Writes(q, [db EXCEPT !.domains = ds], Mem(q))
            /\ DOMAIN ds \subseteq DOMAIN db.domains
        BY <1>1, <3>3, <4>1 DEF DeleteOrgDomain, Keep
      <4> QED BY <4>2
    <3> QED BY <1>5, <3>1, <3>2, <3>3
  <2>2. OthersOK(ds, db.attempts, db.installStates, db.installation)
    BY <1>2, <2>1 DEF OthersOK
  <2>3. DbOK' /\ Stay
    BY <2>1, <2>2, SetOther, SameOK DEF Writes
  <2> QED BY <2>1, <2>3, PlainWritesOK DEF Teachers
<1> QED BY <1>3, <1>4, <1>5

LEMMA SignInOK ==
    ASSUME AccountsInv, NEW q \in Requests, SignInStep(q)
    PROVE  AccountsInv'
<1>1. UNCHANGED failedOpen
  BY DEF SignInStep
<1> QED BY <1>1, PasswordStepsOK, LoadsOK, ConsumeLoginStateOK, CreateLoginStateOK, FindUserOK,
        RoleStepsOK, UpsertsOK,
           ProviderStepsOK, DeleteProviderOK, RuleStepsOK, DomainStepsOK
        DEF SignInStep

(***************************************************************************)
(* Tokens and the installation.                                            *)
(***************************************************************************)
\* Another call comes first.
LEMMA Prepended ==
    ASSUME NEW s, Listed(s), NEW c \in AllCalls, \A d \in CallsOf(s) : Precedes(c, d)
    PROVE  /\ Listed(<<c>> \o s) /\ CallsOf(<<c>> \o s) = CallsOf(s) \cup {c} /\ <<c>> \o s # <<>>
<1>1. PICK t : t = <<c>> \o s
  OBVIOUS
<1>2. s \in Seq(AllCalls) /\ Len(s) \in Nat
  BY DEF Listed
<1>3. /\ t \in Seq(AllCalls) /\ Len(t) = Len(s) + 1 /\ t[1] = c
      /\ \A i \in 1..Len(s) : t[i + 1] = s[i]
  BY <1>1, <1>2
<1>4. \A i \in 1..Len(t) : i = 1 \/ (i - 1 \in 1..Len(s) /\ t[i] = s[i - 1])
  <2>1. \A i \in 1..Len(t) : i # 1 => i - 1 \in 1..Len(s) /\ (i - 1) + 1 = i
    BY <1>2, <1>3
  <2> QED BY <1>3, <2>1
<1>5. Ordered(t)
  <2> SUFFICES ASSUME NEW i \in 1..Len(t), NEW j \in 1..Len(t), i < j
               PROVE  Precedes(t[i], t[j])
    BY DEF Ordered
  <2>1. j - 1 \in 1..Len(s) /\ t[j] = s[j - 1]
    BY <1>2, <1>3, <1>4
  <2>2. CASE i = 1
    BY <1>3, <2>1, <2>2 DEF CallsOf
  <2>3. CASE i # 1
    <3>1. i - 1 \in 1..Len(s) /\ t[i] = s[i - 1] /\ i - 1 < j - 1
      BY <1>2, <1>3, <1>4, <2>3
    <3> QED BY <2>1, <3>1 DEF Listed, Ordered
  <2> QED BY <2>2, <2>3
<1>6. CallsOf(t) = CallsOf(s) \cup {c}
  <2>1. \A i \in 1..Len(s) : i + 1 \in 1..Len(t)
    BY <1>2, <1>3
  <2>2. 1 \in 1..Len(t)
    BY <1>2, <1>3
  <2>3. CallsOf(t) \subseteq CallsOf(s) \cup {c}
    BY <1>3, <1>4 DEF CallsOf
  <2>4. CallsOf(s) \cup {c} \subseteq CallsOf(t)
    BY <1>3, <2>1, <2>2 DEF CallsOf
  <2> QED BY <2>3, <2>4
<1>7. t # <<>>
  BY <1>2, <1>3
<1> QED BY <1>1, <1>3, <1>5, <1>6, <1>7 DEF Listed

\* q has other calls left, and knows what it holds for them.
LEMMA GoesOK ==
    ASSUME AccountsInv, NEW q \in Requests, NEW t, Listed(t), NEW m \in AccountMemory, Goes(q, t, m),
           Op(q) # "none", Known(Op(q), CallsOf(t), m), DbOK', Stay, failedOpen' \in BOOLEAN
    PROVE  AccountsInv'
<1>1. ProcType /\ t \in Seq(AllCalls) /\ \A p \in Requests : Knows(p)
  BY DEF AccountsInv, Listed
<1>2. /\ ProcType' /\ Others(q) /\ Op(q)' = Op(q)
      /\ proc'[q].todo = t /\ Left(q)' = CallsOf(t) /\ (t # <<>> => Mem(q)' = m)
  BY <1>1, GoesMoves
<1>3. \A p \in Requests : p # q => Knows(p)'
  BY <1>1, <1>2, OthersKnow
<1>4. PICK o, L : o = Op(q) /\ L = CallsOf(t)
  OBVIOUS
<1>5. Known(o, L, m)'
  BY <1>4 DEF Known, CallsOfOp, Given, HeldRows, HeldUser, HeldState, Stay
<1>6. L # {} => t # <<>>
  BY <1>4, NoCalls
<1>7. L # {} => Known(Op(q), Left(q), Mem(q))'
  BY <1>2, <1>4, <1>5, <1>6
<1>8. Knows(q)'
  BY <1>2, <1>4, <1>6, <1>7 DEF Knows
<1> QED BY <1>2, <1>3, <1>8 DEF AccountsInv

\* A request that holds something else in ref or listed.
LEMMA LearnsRef ==
    ASSUME AccountsInv, NEW q \in Requests, NEW c, At(q, c), c \notin Teachers,
           NEW r \in MaybeId, NEW S \in SUBSET Ids, NEW n,
           n = [Mem(q) EXCEPT !.ref = r] \/ n = [Mem(q) EXCEPT !.listed = S]
    PROVE  Learns(q, c, n)
<1>1. PICK m : m = Mem(q)
  OBVIOUS
<1>2. m \in AccountMemory
  BY <1>1, AtCall
<1>3. /\ n \in AccountMemory /\ n.user = m.user /\ n.email = m.email /\ n.change = m.change
      /\ n.body = m.body /\ n.held = m.held /\ n.aux = m.aux /\ n.provider = m.provider
      /\ n.org = m.org /\ n.isMember = m.isMember
  BY <1>1, <1>2 DEF AccountMemory
<1> QED BY <1>1, <1>3 DEF Learns, Teachers

\* A request other than a callback that holds something else in aux.
LEMMA LearnsAux ==
    ASSUME AccountsInv, NEW q \in Requests, NEW c \in {"findInstallation", "getInstallation"}, At(q, c),
           NEW r \in MaybeId, NEW n, n = [Mem(q) EXCEPT !.aux = r]
    PROVE  Learns(q, c, n)
<1>1. PICK m : m = Mem(q)
  OBVIOUS
<1>2. m \in AccountMemory /\ c \in Left(q) /\ Known(Op(q), Left(q), m)
  BY <1>1, AtCall
<1>3. /\ n \in AccountMemory /\ n.user = m.user /\ n.email = m.email /\ n.change = m.change
      /\ n.body = m.body /\ n.held = m.held /\ n.provider = m.provider
      /\ n.org = m.org /\ n.isMember = m.isMember
  BY <1>1, <1>2 DEF AccountMemory
<1>4. Op(q) # "callback" /\ Op(q) # "addMember"
  BY <1>2 DEF Known, CallsOfOp, CallbackSteps, AddMemberSteps
<1>5. \A L : HeldState(Op(q), L, n)
  BY <1>4 DEF HeldState
<1> QED BY <1>1, <1>3, <1>5 DEF Learns

\* The rows of accounts stay, with other flags.
LEMMA FlagsOK ==
    ASSUME AccountsInv, NEW a, NEW b \in BOOLEAN,
           \/ a \in DOMAIN db.accounts /\ db' = [db EXCEPT !.accounts[a].disabled = b]
           \/ a \in DOMAIN db.accounts /\ db' = [db EXCEPT !.accounts[a].deleted = b]
    PROVE  DbOK' /\ Stay
<1>1. AccountsOK(db.accounts, db.orgs)
  BY DEF AccountsInv, DbOK
<1>2. PICK row : /\ row \in {[db.accounts[a] EXCEPT !.disabled = b], [db.accounts[a] EXCEPT !.deleted = b]}
                 /\ db' = [db EXCEPT !.accounts = [db.accounts EXCEPT ![a] = row]]
  OBVIOUS
<1>3. a \in DOMAIN db.accounts /\ db.accounts[a] \in AccountRow /\ db.accounts[a].org \in DOMAIN db.orgs
  BY <1>1 DEF AccountsOK
<1>4. row \in AccountRow /\ row.org = db.accounts[a].org
  BY <1>2, <1>3 DEF AccountRow
<1>5. PICK as : as = [db.accounts EXCEPT ![a] = row]
  OBVIOUS
<1>6. AccountsOK(as, db.orgs) /\ DOMAIN db.accounts \subseteq DOMAIN as
  BY <1>1, <1>3, <1>4, <1>5 DEF AccountsOK
<1> QED BY <1>2, <1>5, <1>6, SetAccounts

\* Tokens are only marked.
LEMMA RevokedOK ==
    ASSUME AccountsInv, NEW S, db' = [db EXCEPT !.tokens = Revoked(db.tokens, S)]
    PROVE  DbOK' /\ Stay
<1>1. TokensOK(db.tokens, db.accounts)
  BY DEF AccountsInv, DbOK
<1>2. PICK ts : ts = Revoked(db.tokens, S)
  OBVIOUS
<1>3. /\ DOMAIN ts = DOMAIN db.tokens
      /\ \A t \in DOMAIN ts : ts[t] = db.tokens[t] \/ ts[t] = [db.tokens[t] EXCEPT !.revoked = TRUE]
  BY <1>2 DEF Revoked
<1>4. \A t \in DOMAIN ts : ts[t] \in TokenRow /\ ts[t].account = db.tokens[t].account
  <2> SUFFICES ASSUME NEW t \in DOMAIN ts
               PROVE  ts[t] \in TokenRow /\ ts[t].account = db.tokens[t].account
    OBVIOUS
  <2>1. PICK row : row = db.tokens[t]
    OBVIOUS
  <2>2. row \in TokenRow
    BY <1>1, <1>3, <2>1 DEF TokensOK
  <2>3. ts[t] = row \/ ts[t] = [row EXCEPT !.revoked = TRUE]
    BY <1>3, <2>1
  <2> QED BY <2>1, <2>2, <2>3 DEF TokenRow
<1>5. TokensOK(ts, db.accounts)
  BY <1>1, <1>3, <1>4 DEF TokensOK
<1> QED BY <1>2, <1>5, SetTokens

LEMMA AccountStepsOK ==
    ASSUME AccountsInv, NEW q \in Requests, UNCHANGED failedOpen,
           CreateServiceAccount(q) \/ GetServiceAccount(q) \/ UpdateServiceAccount(q)
               \/ DeleteServiceAccount(q)
    PROVE  AccountsInv'
<1>1. PICK a : a = Mem(q).ref
  OBVIOUS
<1>2. CASE CreateServiceAccount(q)
  <2>1. At(q, "createAccount")
    BY <1>2 DEF CreateServiceAccount
  <2>2. PICK name \in {"GitHub Import", "other"} :
          IF Mem(q).org \in DOMAIN db.orgs /\ ~NameTaken(q, Mem(q).org, name)
          THEN Writes(q, [db EXCEPT !.accounts = InsertAccount(q, Mem(q).org, name)], Mem(q))
          ELSE Refuses(q)
    BY <1>2 DEF CreateServiceAccount
  <2>3. CASE Refuses(q)
    BY <2>3, RefusesOK
  <2>4. CASE ~Refuses(q)
    <3>1. PICK o \in DOMAIN db.orgs : o = Mem(q).org
      BY <2>2, <2>4
    <3>2. Writes(q, [db EXCEPT !.accounts = InsertAccount(q, o, name)], Mem(q))
      BY <2>2, <2>4, <3>1
    <3>3. DbOK' /\ Stay
      BY <3>2, InsertAccountOK DEF Writes
    <3> QED BY <2>1, <3>2, <3>3, PlainWritesOK DEF Teachers
  <2> QED BY <2>3, <2>4
<1>3. CASE GetServiceAccount(q)
  BY <1>3, PlainReadsOK, RefusesOK DEF GetServiceAccount, Teachers
<1>4. CASE UpdateServiceAccount(q)
  <2>1. PICK d \in BOOLEAN :
          Writes(q, IF LiveAccount(a) THEN [db EXCEPT !.accounts[a].disabled = d] ELSE db, Mem(q))
    BY <1>1, <1>4 DEF UpdateServiceAccount
  <2>2. At(q, "updateAccount")
    BY <1>4 DEF UpdateServiceAccount
  <2>3. DbOK' /\ Stay
    BY <2>1, FlagsOK, SameOK DEF Writes, LiveAccount
  <2> QED BY <2>1, <2>2, <2>3, PlainWritesOK DEF Teachers
<1>5. CASE DeleteServiceAccount(q)
  <2>1. /\ At(q, "deleteAccount")
        /\ Writes(q, IF a \in DOMAIN db.accounts THEN [db EXCEPT !.accounts[a].deleted = TRUE] ELSE db,
             Mem(q))
    BY <1>1, <1>5 DEF DeleteServiceAccount
  <2>2. DbOK' /\ Stay
    BY <2>1, FlagsOK, SameOK DEF Writes
  <2> QED BY <2>1, <2>2, PlainWritesOK DEF Teachers
<1> QED BY <1>2, <1>3, <1>4, <1>5

LEMMA TokenStepsOK ==
    ASSUME AccountsInv, NEW q \in Requests, UNCHANGED failedOpen,
           CreateToken(q) \/ RevokeToken(q) \/ GetTokenByPrefix(q) \/ VerifyAPIKey(q)
    PROVE  AccountsInv'
<1>1. CASE Refuses(q)
  BY <1>1, RefusesOK
<1>2. CASE CreateToken(q) /\ ~Refuses(q)
  <2>1. PICK a : a = Mem(q).ref
    OBVIOUS
  <2>2. PICK row : row = [account |-> a, name |-> IF Op(q) = "importToken" THEN "repository" ELSE "other",
                          revoked |-> FALSE]
    OBVIOUS
  <2>3. PICK ts : ts = With(db.tokens, q, row)
    OBVIOUS
  <2>4. /\ At(q, "createToken") /\ a \in DOMAIN db.accounts
        /\ Writes(q, [db EXCEPT !.tokens = ts], Mem(q))
    BY <1>2, <2>1, <2>2, <2>3 DEF CreateToken
  <2>5. TokensOK(db.tokens, db.accounts) /\ DOMAIN db.accounts \subseteq Ids /\ q \in Ids
    BY DEF AccountsInv, DbOK, AccountsOK, Ids
  <2>6. row \in TokenRow /\ row.account = a
    BY <2>2, <2>4, <2>5 DEF TokenRow
  <2>7. TokensOK(ts, db.accounts)
    BY <2>3, <2>4, <2>5, <2>6 DEF TokensOK, With
  <2>8. DbOK' /\ Stay
    BY <2>4, <2>7, SetTokens DEF Writes
  <2> QED BY <2>4, <2>8, PlainWritesOK DEF Teachers
<1>3. CASE RevokeToken(q)
  <2>1. At(q, "revokeToken") /\ Writes(q, [db EXCEPT !.tokens = Revoked(db.tokens, {Mem(q).aux})], Mem(q))
    BY <1>3 DEF RevokeToken
  <2>2. DbOK' /\ Stay
    BY <2>1, RevokedOK DEF Writes
  <2> QED BY <2>1, <2>2, PlainWritesOK DEF Teachers
<1>4. CASE GetTokenByPrefix(q) /\ ~Refuses(q)
  <2>1. PICK t : t = Mem(q).aux
    OBVIOUS
  <2>2. /\ At(q, "getToken") /\ t \in DOMAIN db.tokens
        /\ Reads(q, [Mem(q) EXCEPT !.ref = db.tokens[t].account])
    BY <1>4, <2>1 DEF GetTokenByPrefix
  <2>3. PICK r : r = db.tokens[t].account
    OBVIOUS
  <2>4. r \in MaybeId
    BY <2>2, <2>3 DEF AccountsInv, DbOK, TokensOK, TokenRow, MaybeId
  <2>5. PICK n : n = [Mem(q) EXCEPT !.ref = r]
    OBVIOUS
  <2>6. Learns(q, "getToken", n)
    <3>1. {} \in SUBSET Ids /\ "getToken" \notin Teachers
      BY DEF Teachers
    <3> QED BY <2>2, <2>4, <2>5, <3>1, LearnsRef
  <2> QED BY <2>2, <2>3, <2>5, <2>6, ReadsOK
<1>5. CASE VerifyAPIKey(q)
  BY <1>5, PlainReadsOK, RefusesOK DEF VerifyAPIKey, Teachers
<1> QED BY <1>1, <1>2, <1>3, <1>4, <1>5

LEMMA FindImportAccountOK ==
    ASSUME AccountsInv, NEW q \in Requests, UNCHANGED failedOpen, FindImportAccount(q)
    PROVE  AccountsInv'
<1>1. At(q, "findImportAccount") /\ "findImportAccount" \notin Teachers
  BY DEF FindImportAccount, Teachers
<1>2. ASSUME NEW a \in ImportAccounts, Reads(q, [Mem(q) EXCEPT !.ref = a])
      PROVE  AccountsInv'
  <2>1. a \in MaybeId /\ {} \in SUBSET Ids
    BY <1>2 DEF ImportAccounts, AccountsInv, DbOK, AccountsOK, MaybeId
  <2>2. PICK n : n = [Mem(q) EXCEPT !.ref = a]
    OBVIOUS
  <2>3. Learns(q, "findImportAccount", n)
    BY <1>1, <2>1, <2>2, LearnsRef
  <2> QED BY <1>1, <1>2, <2>2, <2>3, ReadsOK
<1>3. CASE Goes(q, <<"createImportAccount">> \o Tail(proc[q].todo), Mem(q)) /\ UNCHANGED db
  <2>1. PICK s : s = proc[q].todo
    OBVIOUS
  <2>2. s # <<>> /\ Head(s) = "findImportAccount" /\ Listed(s) /\ Left(q) = CallsOf(s)
    BY <1>1, <2>1, AtCall DEF At, Left
  <2>3. PICK t : t = Tail(s)
    OBVIOUS
  <2>4. /\ Listed(t) /\ CallsOf(t) \subseteq CallsOf(s) /\ CallsOf(s) \subseteq CallsOf(t) \cup {Head(s)}
        /\ \A d \in CallsOf(t) : Precedes(Head(s), d)
    BY <2>2, <2>3, TailCalls
  <2>5. PICK o, K, m : o = Op(q) /\ K = Left(q) /\ m = Mem(q)
    OBVIOUS
  <2>6. m \in AccountMemory /\ Known(o, K, m) /\ o # "none" /\ "findImportAccount" \in K
    BY <1>1, <2>5, AtCall
  <2>7. /\ o = "importToken" /\ "createImportAccount" \notin K
        /\ K \subseteq {"getInstallation", "findImportAccount", "listTokens", "revokeTokens", "createToken"}
    BY <2>6 DEF Known, CallsOfOp, CreateImportTokenSteps
  <2>8. /\ Precedes("createImportAccount", "listTokens") /\ Precedes("createImportAccount", "revokeTokens")
        /\ Precedes("createImportAccount", "createToken")
        /\ ~Precedes("findImportAccount", "getInstallation")
        /\ ~Precedes("findImportAccount", "findImportAccount")
    BY DEF Precedes, Rank, Inserters, Makers
  <2>9. "findImportAccount" \notin CallsOf(t) /\ "getInstallation" \notin CallsOf(t)
    BY <2>2, <2>4, <2>8
  <2>10. \A d \in CallsOf(t) : Precedes("createImportAccount", d)
    BY <2>2, <2>4, <2>5, <2>7, <2>8, <2>9
  <2>11. "createImportAccount" \in AllCalls
    BY DEF AllCalls, TokenCalls
  <2>12. PICK u, L : u = <<"createImportAccount">> \o t /\ L = CallsOf(t) \cup {"createImportAccount"}
    OBVIOUS
  <2>13. Listed(u) /\ CallsOf(u) = L
    BY <2>4, <2>10, <2>11, <2>12, Prepended
  <2>14. L \subseteq {"getInstallation", "createImportAccount", "listTokens", "revokeTokens", "createToken"}
    BY <2>2, <2>4, <2>5, <2>7, <2>9, <2>12
  <2>15. Known(o, L, m)
    <3>1. CallsOfOp(o, L)
      BY <2>7, <2>14 DEF CallsOfOp, CreateImportTokenSteps
    <3> QED BY <2>7, <2>14, <3>1 DEF Known, Given, HeldRows, HeldUser, HeldState
  <2>16. DbOK' /\ Stay /\ failedOpen' \in BOOLEAN /\ Goes(q, u, m)
    BY <1>3, <2>1, <2>3, <2>5, <2>12, SameOK DEF AccountsInv
  <2> QED BY <2>5, <2>6, <2>13, <2>15, <2>16, GoesOK
<1> QED BY <1>2, <1>3 DEF FindImportAccount

LEMMA ImportStepsOK ==
    ASSUME AccountsInv, NEW q \in Requests, UNCHANGED failedOpen,
           CreateImportAccount(q) \/ ListTokens(q) \/ RevokeListed(q)
    PROVE  AccountsInv'
<1>1. PICK m : m = Mem(q)
  OBVIOUS
<1>2. q \in Ids /\ q \in MaybeId /\ {} \in SUBSET Ids /\ Null \in MaybeId
  BY DEF Ids, MaybeId
<1>3. CASE Refuses(q)
  BY <1>3, RefusesOK
<1>4. CASE CreateImportAccount(q) /\ ~Refuses(q)
  <2>1. PICK n : n = [m EXCEPT !.ref = q]
    OBVIOUS
  <2>2. /\ At(q, "createImportAccount") /\ Seed \in DOMAIN db.orgs
        /\ Writes(q, [db EXCEPT !.accounts = InsertAccount(q, Seed, "GitHub Import")], n)
    BY <1>1, <1>4, <2>1 DEF CreateImportAccount
  <2>3. DbOK' /\ Stay
    BY <2>2, InsertAccountOK DEF Writes
  <2>4. Learns(q, "createImportAccount", n)
    BY <1>1, <1>2, <2>1, <2>2, LearnsRef DEF Teachers
  <2> QED BY <2>2, <2>3, <2>4, WritesOK
<1>5. CASE ListTokens(q)
  <2>1. PICK S : S = Superseded(m.ref)
    OBVIOUS
  <2>2. PICK n : n = [m EXCEPT !.listed = S]
    OBVIOUS
  <2>3. At(q, "listTokens") /\ Reads(q, n)
    BY <1>1, <1>5, <2>1, <2>2 DEF ListTokens
  <2>4. S \in SUBSET Ids
    BY <2>1 DEF Superseded, AccountsInv, DbOK, TokensOK
  <2>5. Learns(q, "listTokens", n)
    BY <1>1, <1>2, <2>2, <2>3, <2>4, LearnsRef DEF Teachers
  <2> QED BY <2>3, <2>5, ReadsOK
<1>6. CASE RevokeListed(q) /\ m.listed = {}
  BY <1>1, <1>6, PlainReadsOK DEF RevokeListed, Teachers
<1>7. CASE RevokeListed(q) /\ m.listed # {}
  <2>1. At(q, "revokeTokens")
    BY <1>7 DEF RevokeListed
  <2>2. PICK t \in m.listed : /\ db' = [db EXCEPT !.tokens = Revoked(db.tokens, {t})]
                              /\ Goes(q, proc[q].todo, [m EXCEPT !.listed = m.listed \ {t}])
    BY <1>1, <1>7 DEF RevokeListed
  <2>3. DbOK' /\ Stay /\ failedOpen' \in BOOLEAN
    BY <2>2, RevokedOK DEF AccountsInv
  <2>4. /\ m \in AccountMemory /\ Known(Op(q), Left(q), m) /\ Op(q) # "none" /\ "revokeTokens" \in Left(q)
        /\ Listed(proc[q].todo)
    BY <1>1, <2>1, AtCall
  <2>5. PICK n : n = [m EXCEPT !.listed = m.listed \ {t}]
    OBVIOUS
  <2>6. m.listed \subseteq Ids
    BY <2>4, MemoryIs
  <2>7. n \in AccountMemory
    BY <2>4, <2>5, <2>6 DEF AccountMemory
  <2>8. PICK o, L : o = Op(q) /\ L = Left(q)
    OBVIOUS
  <2>9. o = "importToken" /\ L \subseteq {CreateImportTokenSteps[k] : k \in 1..5} \cup {"createImportAccount"}
    BY <2>4, <2>8 DEF Known, CallsOfOp
  <2>10. Known(o, L, n)
    <3>1. CallsOfOp(o, L)
      BY <2>4, <2>8 DEF Known
    <3> QED BY <2>9, <3>1 DEF Known, Given, HeldRows, HeldUser, HeldState, CreateImportTokenSteps
  <2> QED BY <2>2, <2>3, <2>4, <2>5, <2>7, <2>8, <2>10, GoesOK DEF Left
<1> QED BY <1>3, <1>4, <1>5, <1>6, <1>7

LEMMA InstallStateWritten ==
    ASSUME AccountsInv, NEW q \in Requests, UNCHANGED failedOpen, NEW c, c \notin Teachers, At(q, c),
           NEW s \in Ids, NEW row \in StateRow, NEW ss, ss = With(db.installStates, s, row),
           Writes(q, [db EXCEPT !.installStates = ss], Mem(q))
    PROVE  AccountsInv'
<1>1. OthersOK(db.domains, db.attempts, ss, db.installation)
  BY DEF AccountsInv, DbOK, OthersOK, With
<1>2. DbOK' /\ Stay
  BY <1>1, SetOther DEF Writes
<1> QED BY <1>2, PlainWritesOK

LEMMA InstallStatesOK ==
    ASSUME AccountsInv, NEW q \in Requests, UNCHANGED failedOpen,
           CreateInstallState(q) \/ AuthorizeInstallState(q) \/ ConsumeInstallState(q)
    PROVE  AccountsInv'
<1>1. PICK m : m = Mem(q)
  OBVIOUS
<1>2. /\ q \in Ids /\ DOMAIN db.installStates \subseteq Ids
      /\ \A s \in DOMAIN db.installStates : db.installStates[s] \in StateRow
  BY DEF Ids, AccountsInv, DbOK, OthersOK
<1>3. CASE Refuses(q)
  BY <1>3, RefusesOK
<1>4. CASE CreateInstallState(q) /\ ~Refuses(q)
  <2>1. PICK row : row = [github |-> Null, consumed |-> FALSE]
    OBVIOUS
  <2>2. PICK ss : ss = With(db.installStates, q, row)
    OBVIOUS
  <2>3. At(q, "createInstallState") /\ Writes(q, [db EXCEPT !.installStates = ss], Mem(q))
    BY <1>4, <2>1, <2>2 DEF CreateInstallState
  <2>4. row \in StateRow
    BY <2>1 DEF StateRow
  <2> QED BY <1>2, <2>2, <2>3, <2>4, InstallStateWritten DEF Teachers
<1>5. CASE AuthorizeInstallState(q) /\ ~Refuses(q)
  <2>1. PICK s : s = m.ref
    OBVIOUS
  <2>2. PICK row : row = [db.installStates[s] EXCEPT !.github = m.change]
    OBVIOUS
  <2>3. PICK ss : ss = [db.installStates EXCEPT ![s] = row]
    OBVIOUS
  <2>4. /\ At(q, "authorizeState") /\ s \in DOMAIN db.installStates
        /\ Writes(q, [db EXCEPT !.installStates = ss], Mem(q))
    BY <1>1, <1>5, <2>1, <2>2, <2>3 DEF AuthorizeInstallState, Pending
  <2>5. m.change \in GitHubUsers
    BY <1>1, <2>4, AtCall DEF Known, Given
  <2>6. row \in StateRow
    <3>1. db.installStates[s] \in StateRow
      BY <1>2, <2>4
    <3> QED BY <2>2, <2>5, <3>1 DEF StateRow, GitHubUsers
  <2>7. ss = With(db.installStates, s, row)
    BY <2>3, <2>4 DEF With
  <2> QED BY <1>2, <2>4, <2>6, <2>7, InstallStateWritten DEF Teachers
<1>6. CASE ConsumeInstallState(q) /\ ~Refuses(q)
  <2>1. PICK s : s = m.ref
    OBVIOUS
  <2>2. PICK row : row = [db.installStates[s] EXCEPT !.consumed = TRUE]
    OBVIOUS
  <2>3. PICK ss : ss = [db.installStates EXCEPT ![s] = row]
    OBVIOUS
  <2>4. /\ At(q, "consumeInstallState") /\ s \in DOMAIN db.installStates
        /\ Writes(q, [db EXCEPT !.installStates = ss], Mem(q))
    BY <1>1, <1>6, <2>1, <2>2, <2>3 DEF ConsumeInstallState, Consumable, Pending
  <2>5. row \in StateRow
    <3>1. db.installStates[s] \in StateRow
      BY <1>2, <2>4
    <3> QED BY <2>2, <3>1 DEF StateRow
  <2>6. ss = With(db.installStates, s, row)
    BY <2>3, <2>4 DEF With
  <2> QED BY <1>2, <2>4, <2>5, <2>6, InstallStateWritten DEF Teachers
<1> QED BY <1>3, <1>4, <1>5, <1>6

\* GitHub's side.
GithubInv == github \in [has : SUBSET Ids, had : SUBSET Ids]

LEMMA InstallationStepsOK ==
    ASSUME AccountsInv, GithubInv, NEW q \in Requests, UNCHANGED failedOpen,
           \/ FindUserInstallation(q) \/ VerifyUserInstallation(q) \/ UpsertInstallation(q)
           \/ GetInstallation(q) \/ DeleteAtGitHub(q) \/ DeleteInstallation(q)
    PROVE  AccountsInv'
<1>1. PICK m : m = Mem(q)
  OBVIOUS
<1>2. OthersOK(db.domains, db.attempts, db.installStates, db.installation) /\ Null \in MaybeId
  BY DEF AccountsInv, DbOK, MaybeId
<1>3. CASE Refuses(q)
  BY <1>3, RefusesOK
<1>4. CASE (FindUserInstallation(q) \/ GetInstallation(q)) /\ ~Refuses(q)
  <2>1. PICK c, i : /\ c \in {"findInstallation", "getInstallation"} /\ At(q, c) /\ i \in MaybeId
                    /\ Reads(q, [Mem(q) EXCEPT !.aux = i])
    BY <1>2, <1>4 DEF FindUserInstallation, GetInstallation, OthersOK, GithubInv, MaybeId
  <2>2. PICK n : n = [Mem(q) EXCEPT !.aux = i]
    OBVIOUS
  <2>3. Learns(q, c, n)
    BY <2>1, <2>2, LearnsAux
  <2> QED BY <2>1, <2>2, <2>3, ReadsOK
<1>5. CASE VerifyUserInstallation(q) /\ ~Refuses(q)
  BY <1>5, PlainReadsOK DEF VerifyUserInstallation, Teachers
<1>6. CASE (UpsertInstallation(q) \/ DeleteInstallation(q)) /\ ~Refuses(q)
  <2>1. PICK c, i : /\ c \in {"upsertInstallation", "deleteInstallation"} /\ At(q, c) /\ i \in {m.aux, Null}
                    /\ Writes(q, [db EXCEPT !.installation = i], Mem(q))
    BY <1>1, <1>6 DEF UpsertInstallation, DeleteInstallation
  <2>2. i \in MaybeId
    BY <1>1, <1>2, <2>1, AtCall, MemoryIs
  <2>3. OthersOK(db.domains, db.attempts, db.installStates, i)
    BY <1>2, <2>2 DEF OthersOK
  <2>4. DbOK' /\ Stay
    BY <2>1, <2>3, SetOther DEF Writes
  <2> QED BY <2>1, <2>4, PlainWritesOK DEF Teachers
<1>7. CASE DeleteAtGitHub(q) /\ ~Refuses(q)
  BY <1>7, PlainReadsOK DEF DeleteAtGitHub, Teachers
<1> QED BY <1>3, <1>4, <1>5, <1>6, <1>7

LEMMA TokensStepOK ==
    ASSUME AccountsInv, GithubInv, NEW q \in Requests, TokenStep(q)
    PROVE  AccountsInv' /\ GithubInv'
<1>1. UNCHANGED failedOpen
  BY DEF TokenStep
<1>2. AccountsInv'
  BY <1>1, AccountStepsOK, TokenStepsOK, FindImportAccountOK, ImportStepsOK, InstallStatesOK,
      InstallationStepsOK
     DEF TokenStep
<1>3. CASE UNCHANGED github
  BY <1>2, <1>3 DEF GithubInv
<1>4. CASE DeleteAtGitHub(q)
  <2>1. CASE Mem(q).aux \in github.has
    <3>1. github' = [has |-> github.has \ {Mem(q).aux}, had |-> github.had \cup {Mem(q).aux}]
      BY <1>4, <2>1 DEF DeleteAtGitHub
    <3> QED BY <1>2, <2>1, <3>1 DEF GithubInv
  <2>2. CASE Mem(q).aux \notin github.has
    BY <1>2, <1>4, <2>2 DEF GithubInv, DeleteAtGitHub
  <2> QED BY <2>1, <2>2
<1> QED BY <1>3, <1>4 DEF TokenStep, githubVars

(***************************************************************************)
(* The start of a server.                                                  *)
(***************************************************************************)
LEMMA IsAppliedOK ==
    ASSUME AccountsInv, NEW q \in Requests, UNCHANGED failedOpen, IsApplied(q)
    PROVE  AccountsInv'
<1>1. At(q, "isApplied") /\ db' = db
  BY DEF IsApplied
<1>2. DbOK' /\ Stay /\ failedOpen' \in BOOLEAN
  BY <1>1, SameOK DEF AccountsInv
<1>3. PICK s, m : s = proc[q].todo /\ m = Mem(q)
  OBVIOUS
<1>4. /\ m \in AccountMemory /\ Known(Op(q), Left(q), m) /\ Op(q) # "none" /\ "isApplied" \in Left(q)
      /\ Listed(s) /\ Left(q) = CallsOf(s)
  BY <1>1, <1>3, AtCall DEF Left
<1>5. PICK o, L : o = Op(q) /\ L = Left(q)
  OBVIOUS
<1>6. /\ o = "boot" /\ Known(o, L, m)
      /\ L \subseteq {"isApplied", "anyUser", "createOrg", "upsertUser", "addMember", "applyMigration"}
  BY <1>4, <1>5 DEF Known, CallsOfOp, BootSteps
<1>7. CASE Proceeds(q)
  <2>1. Reads(q, Mem(q))
    BY <1>1, <1>7 DEF Proceeds, Reads, Mem
  <2> QED BY <1>1, <2>1, PlainReadsOK DEF Teachers
<1>8. CASE Goes(q, s, [m EXCEPT !.version = m.version + 1])
  <2>1. PICK n : n = [m EXCEPT !.version = m.version + 1]
    OBVIOUS
  <2>2. n \in AccountMemory
    BY <1>4, <2>1 DEF AccountMemory
  <2>3. Known(o, L, n)
    BY <1>6 DEF Known, Given, HeldRows, HeldUser, HeldState
  <2> QED BY <1>2, <1>4, <1>5, <1>8, <2>1, <2>2, <2>3, GoesOK
<1>9. CASE Goes(q, <<"applyMigration">> \o s, m)
  <2>1. \A d \in CallsOf(s) : Precedes("applyMigration", d)
    <3>1. \A d \in L : d = "isApplied" \/ Precedes("isApplied", d)
      BY <1>1, <1>5, AtCall
    <3>2. ~Precedes("isApplied", "applyMigration")
      BY DEF Precedes, Rank
    <3>3. \A d \in L : d \in {"isApplied", "anyUser", "createOrg", "upsertUser", "addMember"}
      BY <1>6, <3>1, <3>2
    <3>4. \A d \in {"isApplied", "anyUser", "createOrg", "upsertUser", "addMember"} :
              Rank("applyMigration") = 1 /\ 1 < Rank(d)
      BY DEF Rank
    <3>5. \A d \in {"isApplied", "anyUser", "createOrg", "upsertUser", "addMember"} :
              Precedes("applyMigration", d)
      BY <3>4 DEF Precedes
    <3> QED BY <1>4, <1>5, <3>3, <3>5
  <2>2. "applyMigration" \in AllCalls
    BY DEF AllCalls, BootCalls
  <2>3. PICK t, M : t = <<"applyMigration">> \o s /\ M = CallsOf(s) \cup {"applyMigration"}
    OBVIOUS
  <2>4. Listed(t) /\ CallsOf(t) = M
    BY <1>4, <2>1, <2>2, <2>3, Prepended
  <2>5. Known(o, M, m)
    <3>1. M \subseteq {"isApplied", "anyUser", "createOrg", "upsertUser", "addMember", "applyMigration"}
      BY <1>4, <1>5, <1>6, <2>3
    <3>2. CallsOfOp(o, M)
      BY <1>6, <3>1 DEF CallsOfOp, BootSteps
    <3> QED BY <1>6, <3>1, <3>2 DEF Known, Given, HeldRows, HeldUser, HeldState
  <2> QED BY <1>2, <1>4, <1>5, <1>9, <2>3, <2>4, <2>5, GoesOK
<1> QED BY <1>3, <1>7, <1>8, <1>9 DEF IsApplied

LEMMA ApplyMigrationOK ==
    ASSUME AccountsInv, NEW q \in Requests, UNCHANGED failedOpen, ApplyMigration(q) \/ AnyUserExists(q)
    PROVE  AccountsInv'
<1>1. CASE AnyUserExists(q)
  BY <1>1, PlainReadsOK, RefusesOK DEF AnyUserExists, Teachers
<1>2. CASE ApplyMigration(q) /\ Ends(q)
  BY <1>2, RefusesOK DEF ApplyMigration, Refuses
<1>3. CASE ApplyMigration(q) /\ ~Ends(q)
  <2>1. PICK m : m = Mem(q)
    OBVIOUS
  <2>2. PICK n : n = [m EXCEPT !.version = m.version + 1]
    OBVIOUS
  <2>3. At(q, "applyMigration") /\ Reads(q, n)
    BY <1>3, <2>1, <2>2 DEF ApplyMigration, Reads
  <2>4. m \in AccountMemory
    BY <2>1, <2>3, AtCall
  <2>5. /\ n \in AccountMemory /\ n.user = m.user /\ n.email = m.email /\ n.change = m.change
        /\ n.body = m.body /\ n.held = m.held /\ n.aux = m.aux /\ n.provider = m.provider
        /\ n.org = m.org /\ n.isMember = m.isMember
    BY <2>2, <2>4 DEF AccountMemory
  <2>6. Learns(q, "applyMigration", n)
    BY <2>1, <2>5 DEF Learns
  <2> QED BY <2>3, <2>6, ReadsOK
<1> QED BY <1>1, <1>2, <1>3

LEMMA UpsertUserOK ==
    ASSUME AccountsInv, NEW q \in Requests, UNCHANGED failedOpen, UpsertUser(q)
    PROVE  AccountsInv'
<1>1. PICK m : m = Mem(q)
  OBVIOUS
<1>2. PICK n : n = [m EXCEPT !.user = q]
  OBVIOUS
<1>3. PICK row : row = [email |-> SeedEmail, login |-> AdminLogin, password |-> q, disabled |-> FALSE,
                        serverAdmin |-> TRUE]
  OBVIOUS
<1>4. PICK us : us = IF ByEmail(SeedEmail) = {} THEN With(db.users, q, row)
                     ELSE [u \in DOMAIN db.users |-> IF u \in ByEmail(SeedEmail) THEN row ELSE db.users[u]]
  OBVIOUS
<1>5. At(q, "upsertUser") /\ Writes(q, [db EXCEPT !.users = us], n)
  BY <1>1, <1>2, <1>3, <1>4 DEF UpsertUser
<1>6. NamedUser(row) /\ row.email = SeedEmail /\ row.login = AdminLogin /\ q \in Ids
  BY <1>3, AccountTablesAssumption DEF NamedUser, UserRow, MaybeId, Ids
<1>7. UsersOK(db.users)
  BY DEF AccountsInv, DbOK
<1>8. UsersOK(us) /\ DOMAIN db.users \subseteq DOMAIN us
  <2>1. CASE ByEmail(SeedEmail) = {}
    <3>1. /\ DOMAIN us = DOMAIN db.users \cup {q} /\ us[q] = row
          /\ \A x \in DOMAIN db.users : x # q => us[x] = db.users[x]
      BY <1>4, <2>1 DEF With
    <3>2. \A x \in DOMAIN db.users : db.users[x].email # SeedEmail /\ db.users[x].login # AdminLogin
      BY <1>7, <2>1 DEF ByEmail, UsersOK, NamedUser
    <3> QED BY <1>6, <1>7, <3>1, <3>2 DEF UsersOK
  <2>2. CASE ByEmail(SeedEmail) # {}
    <3>1. PICK v \in DOMAIN db.users : db.users[v].email = SeedEmail
      BY <2>2 DEF ByEmail
    <3>2. ByEmail(SeedEmail) = {v}
      BY <1>7, <3>1 DEF ByEmail, UsersOK
    <3>3. /\ DOMAIN us = DOMAIN db.users /\ us[v] = row
          /\ \A x \in DOMAIN db.users : x # v => us[x] = db.users[x]
      BY <1>4, <2>2, <3>1, <3>2
    <3>4. \A x \in DOMAIN db.users : x # v => db.users[x].email # SeedEmail /\ db.users[x].login # AdminLogin
      BY <1>7, <3>1 DEF UsersOK, NamedUser
    <3> QED BY <1>6, <1>7, <3>1, <3>3, <3>4 DEF UsersOK
  <2> QED BY <2>1, <2>2
<1>9. DbOK' /\ Stay
  BY <1>5, <1>8, SetUsers DEF Writes
<1>10. /\ m \in AccountMemory /\ Known(Op(q), Left(q), m) /\ "upsertUser" \in Left(q)
  BY <1>1, <1>5, AtCall
<1>11. /\ n \in AccountMemory /\ n.email = m.email /\ n.change = m.change
       /\ n.body = m.body /\ n.held = m.held /\ n.aux = m.aux /\ n.provider = m.provider
       /\ n.org = m.org /\ n.isMember = m.isMember
  BY <1>2, <1>6, <1>10 DEF AccountMemory, MaybeId
<1>12. Left(q) \subseteq {"isApplied", "anyUser", "createOrg", "upsertUser", "addMember", "applyMigration"}
  BY <1>10 DEF Known, CallsOfOp, BootSteps
<1>13. \A L : After(q, "upsertUser", L) => HeldUser(L, n)'
  BY <1>12 DEF After, HeldUser
<1>14. Learns(q, "upsertUser", n)
  BY <1>1, <1>11, <1>13 DEF Learns
<1> QED BY <1>5, <1>9, <1>14, WritesOK

LEMMA BootOK ==
    ASSUME AccountsInv, NEW q \in Requests, BootStep(q)
    PROVE  AccountsInv'
BY IsAppliedOK, ApplyMigrationOK, UpsertUserOK DEF BootStep

(***************************************************************************)
(* The lists of calls.                                                     *)
(***************************************************************************)
LEMMA OneCall ==
    ASSUME NEW c \in AllCalls
    PROVE  Listed(<<c>>) /\ CallsOf(<<c>>) = {c}
<1>1. PICK s : s = <<c>>
  OBVIOUS
<1>2. s \in Seq(AllCalls) /\ Len(s) = 1 /\ s[1] = c
  BY <1>1
<1>3. 1..1 = {1}
  OBVIOUS
<1>4. CallsOf(s) = {c}
  BY <1>2, <1>3 DEF CallsOf
<1>5. Ordered(s)
  BY <1>2, <1>3 DEF Ordered
<1> QED BY <1>1, <1>2, <1>4, <1>5 DEF Listed

LEMMA TwoCalls ==
    ASSUME NEW c \in AllCalls, NEW d \in AllCalls, Precedes(c, d)
    PROVE  Listed(<<c, d>>) /\ CallsOf(<<c, d>>) = {c, d}
<1>1. PICK s : s = <<c, d>>
  OBVIOUS
<1>2. s \in Seq(AllCalls) /\ Len(s) = 2 /\ s[1] = c /\ s[2] = d
  BY <1>1
<1>3. 1..2 = {1, 2}
  OBVIOUS
<1>4. CallsOf(s) = {c, d}
  BY <1>2, <1>3 DEF CallsOf
<1>5. Ordered(s)
  BY <1>2, <1>3 DEF Ordered
<1> QED BY <1>1, <1>2, <1>4, <1>5 DEF Listed

\* Two lists, one after the other.
LEMMA Joined ==
    ASSUME NEW s, NEW t, Listed(s), Listed(t), \A c \in CallsOf(s), d \in CallsOf(t) : Precedes(c, d)
    PROVE  Listed(s \o t) /\ CallsOf(s \o t) = CallsOf(s) \cup CallsOf(t)
<1>1. PICK w : w = s \o t
  OBVIOUS
<1>2. s \in Seq(AllCalls) /\ t \in Seq(AllCalls) /\ Len(s) \in Nat /\ Len(t) \in Nat
  BY DEF Listed
<1>3. /\ w \in Seq(AllCalls) /\ Len(w) = Len(s) + Len(t)
      /\ \A i \in 1..Len(s) : w[i] = s[i]
      /\ \A i \in 1..Len(t) : w[i + Len(s)] = t[i]
  BY <1>1, <1>2
<1>4. /\ \A i \in 1..Len(s) : i \in 1..Len(w)
      /\ \A i \in 1..Len(t) : i + Len(s) \in 1..Len(w)
  BY <1>2, <1>3
<1>5. \A i \in 1..Len(w) : \/ i \in 1..Len(s) /\ w[i] = s[i]
                           \/ i - Len(s) \in 1..Len(t) /\ w[i] = t[i - Len(s)]
  <2>1. \A i \in 1..Len(w) : i \notin 1..Len(s) =>
           i - Len(s) \in 1..Len(t) /\ (i - Len(s)) + Len(s) = i
    BY <1>2, <1>3
  <2> QED BY <1>3, <2>1
<1>6. CallsOf(w) \subseteq CallsOf(s) \cup CallsOf(t)
  BY <1>5 DEF CallsOf
<1>7. CallsOf(s) \cup CallsOf(t) \subseteq CallsOf(w)
  BY <1>3, <1>4 DEF CallsOf
<1>8. Ordered(w)
  <2> SUFFICES ASSUME NEW i \in 1..Len(w), NEW j \in 1..Len(w), i < j
               PROVE  Precedes(w[i], w[j])
    BY DEF Ordered
  <2>1. CASE j \in 1..Len(s)
    <3>1. i \in 1..Len(s) /\ w[i] = s[i] /\ w[j] = s[j]
      BY <1>2, <1>3, <2>1
    <3> QED BY <2>1, <3>1 DEF Listed, Ordered
  <2>2. CASE j \notin 1..Len(s)
    <3>1. j - Len(s) \in 1..Len(t) /\ w[j] = t[j - Len(s)]
      BY <1>5, <2>2
    <3>2. CASE i \in 1..Len(s)
      <4>1. w[i] \in CallsOf(s) /\ w[j] \in CallsOf(t)
        BY <1>3, <3>1, <3>2 DEF CallsOf
      <4> QED BY <4>1
    <3>3. CASE i \notin 1..Len(s)
      <4>1. i - Len(s) \in 1..Len(t) /\ w[i] = t[i - Len(s)]
        BY <1>5, <3>3
      <4>2. i - Len(s) < j - Len(s)
        BY <1>2
      <4> QED BY <3>1, <4>1, <4>2 DEF Listed, Ordered
    <3> QED BY <3>2, <3>3
  <2> QED BY <2>1, <2>2
<1> QED BY <1>1, <1>3, <1>6, <1>7, <1>8 DEF Listed

LEMMA ThreeCalls ==
    ASSUME NEW a \in AllCalls, NEW b \in AllCalls, NEW c \in AllCalls,
           Precedes(a, b), Precedes(a, c), Precedes(b, c)
    PROVE  Listed(<<a, b, c>>) /\ CallsOf(<<a, b, c>>) = {a, b, c}
<1>1. PICK s : s = <<a, b, c>>
  OBVIOUS
<1>2. s \in Seq(AllCalls) /\ Len(s) = 3 /\ s[1] = a /\ s[2] = b /\ s[3] = c
  BY <1>1
<1>3. 1..3 = {1, 2, 3}
  OBVIOUS
<1>4. CallsOf(s) = {a, b, c}
  BY <1>2, <1>3 DEF CallsOf
<1>5. Ordered(s)
  BY <1>2, <1>3 DEF Ordered
<1> QED BY <1>1, <1>2, <1>4, <1>5 DEF Listed

LEMMA FourCalls ==
    ASSUME NEW a \in AllCalls, NEW b \in AllCalls, NEW c \in AllCalls, NEW d \in AllCalls,
           \A x \in {b, c, d} : Precedes(a, x), \A x \in {c, d} : Precedes(b, x), Precedes(c, d)
    PROVE  Listed(<<a, b, c, d>>) /\ CallsOf(<<a, b, c, d>>) = {a, b, c, d}
<1>1. PICK s : s = <<a, b, c, d>>
  OBVIOUS
<1>2. s \in Seq(AllCalls) /\ Len(s) = 4 /\ s[1] = a /\ s[2] = b /\ s[3] = c /\ s[4] = d
  BY <1>1
<1>3. 1..4 = {1, 2, 3, 4}
  OBVIOUS
<1>4. CallsOf(s) = {a, b, c, d}
  BY <1>2, <1>3 DEF CallsOf
<1>5. Ordered(s)
  BY <1>2, <1>3 DEF Ordered
<1> QED BY <1>1, <1>2, <1>4, <1>5 DEF Listed

LEMMA FiveCalls ==
    ASSUME NEW a \in AllCalls, NEW b \in AllCalls, NEW c \in AllCalls, NEW d \in AllCalls, NEW e \in AllCalls,
           \A x \in {b, c, d, e} : Precedes(a, x), \A x \in {c, d, e} : Precedes(b, x),
           \A x \in {d, e} : Precedes(c, x), Precedes(d, e)
    PROVE  Listed(<<a, b, c, d, e>>) /\ CallsOf(<<a, b, c, d, e>>) = {a, b, c, d, e}
<1>1. PICK s : s = <<a, b, c, d, e>>
  OBVIOUS
<1>2. s \in Seq(AllCalls) /\ Len(s) = 5 /\ s[1] = a /\ s[2] = b /\ s[3] = c /\ s[4] = d /\ s[5] = e
  BY <1>1
<1>3. 1..5 = {1, 2, 3, 4, 5}
  OBVIOUS
<1>4. CallsOf(s) = {a, b, c, d, e}
  BY <1>2, <1>3 DEF CallsOf
<1>5. Ordered(s)
  BY <1>2, <1>3 DEF Ordered
<1> QED BY <1>1, <1>2, <1>4, <1>5 DEF Listed

LEMMA SixCalls ==
    ASSUME NEW a \in AllCalls, NEW b \in AllCalls, NEW c \in AllCalls, NEW d \in AllCalls, NEW e \in AllCalls,
           NEW f \in AllCalls,
           \A x \in {b, c, d, e, f} : Precedes(a, x), \A x \in {c, d, e, f} : Precedes(b, x),
           \A x \in {d, e, f} : Precedes(c, x), \A x \in {e, f} : Precedes(d, x), Precedes(e, f)
    PROVE  Listed(<<a, b, c, d, e, f>>) /\ CallsOf(<<a, b, c, d, e, f>>) = {a, b, c, d, e, f}
<1>1. PICK s : s = <<a, b, c, d, e, f>>
  OBVIOUS
<1>2. s \in Seq(AllCalls) /\ Len(s) = 6 /\ s[1] = a /\ s[2] = b /\ s[3] = c /\ s[4] = d /\ s[5] = e
          /\ s[6] = f
  BY <1>1
<1>3. 1..6 = {1, 2, 3, 4, 5, 6}
  OBVIOUS
<1>4. CallsOf(s) = {a, b, c, d, e, f}
  BY <1>2, <1>3 DEF CallsOf
<1>5. Ordered(s)
  BY <1>2, <1>3 DEF Ordered
<1> QED BY <1>1, <1>2, <1>4, <1>5 DEF Listed

\* The calls of the operations on people.
LEMMA PeopleLists ==
    /\ Listed(CreateOrgSteps) /\ CallsOf(CreateOrgSteps) = {"createOrg", "addMember", "createSystemAccount"}
    /\ Listed(UpdateOrgSteps) /\ CallsOf(UpdateOrgSteps) = {"getOrg", "updateOrg"}
    /\ Listed(DeleteOrgSteps) /\ CallsOf(DeleteOrgSteps) = {"deleteOrg"}
    /\ Listed(CompleteOnboardingSteps) /\ CallsOf(CompleteOnboardingSteps) = {"getOrg", "setOnboardingDone"}
    /\ Listed(CreateUserSteps) /\ CallsOf(CreateUserSteps) = {"emailFree", "createUser"}
    /\ Listed(UpdateUserSteps) /\ CallsOf(UpdateUserSteps) = {"getUser", "updateUser"}
    /\ Listed(ResetPasswordSteps) /\ CallsOf(ResetPasswordSteps) = {"getUser", "updateUser"}
    /\ Listed(SetAccountPasswordSteps) /\ CallsOf(SetAccountPasswordSteps) = {"getUser", "updateUser"}
    /\ Listed(DisableSteps) /\ CallsOf(DisableSteps) = {"disableUser"}
    /\ Listed(AddMemberSteps) /\ CallsOf(AddMemberSteps) = {"emailFree", "seats", "createUser", "addMember"}
    /\ Listed(UpdateMemberSteps)
         /\ CallsOf(UpdateMemberSteps) = {"getUser", "getClash", "updateUser", "updateMemberRole",
         "leaveTeams", "joinTeam"}
    /\ Listed(RemoveMemberSteps) /\ CallsOf(RemoveMemberSteps) = {"removeMember"}
    /\ Listed(CreateTeamSteps) /\ CallsOf(CreateTeamSteps) = {"createTeam"}
    /\ Listed(UpdateTeamSteps) /\ CallsOf(UpdateTeamSteps) = {"updateTeam"}
    /\ Listed(DeleteTeamSteps) /\ CallsOf(DeleteTeamSteps) = {"deleteTeam"}
    /\ Listed(AddTeamMemberSteps) /\ CallsOf(AddTeamMemberSteps) = {"joinTeam"}
    /\ Listed(RemoveTeamMemberSteps) /\ CallsOf(RemoveTeamMemberSteps) = {"leaveTeam"}
<1>1. Listed(CreateOrgSteps) /\ CallsOf(CreateOrgSteps) = {"createOrg", "addMember", "createSystemAccount"}
  <2>1. {"createOrg", "addMember", "createSystemAccount"} \subseteq AllCalls
    BY DEF AllCalls, SharedCalls, PeopleCalls
  <2>2. /\ \A x \in {"addMember", "createSystemAccount"} : Precedes("createOrg", x)
        /\ Precedes("addMember", "createSystemAccount")
    BY DEF Precedes, Rank, Inserters, Makers
  <2> QED BY <2>1, <2>2, ThreeCalls DEF CreateOrgSteps
<1>2. Listed(UpdateOrgSteps) /\ CallsOf(UpdateOrgSteps) = {"getOrg", "updateOrg"}
  <2>1. {"getOrg", "updateOrg"} \subseteq AllCalls
    BY DEF AllCalls, SharedCalls, PeopleCalls
  <2>2. Precedes("getOrg", "updateOrg")
    BY DEF Precedes, Rank, Inserters, Makers
  <2> QED BY <2>1, <2>2, TwoCalls DEF UpdateOrgSteps
<1>3. Listed(DeleteOrgSteps) /\ CallsOf(DeleteOrgSteps) = {"deleteOrg"}
  BY OneCall DEF DeleteOrgSteps, AllCalls, PeopleCalls
<1>4. Listed(CompleteOnboardingSteps) /\ CallsOf(CompleteOnboardingSteps) = {"getOrg", "setOnboardingDone"}
  <2>1. {"getOrg", "setOnboardingDone"} \subseteq AllCalls
    BY DEF AllCalls, SharedCalls, PeopleCalls
  <2>2. Precedes("getOrg", "setOnboardingDone")
    BY DEF Precedes, Rank, Inserters, Makers
  <2> QED BY <2>1, <2>2, TwoCalls DEF CompleteOnboardingSteps
<1>5. Listed(CreateUserSteps) /\ CallsOf(CreateUserSteps) = {"emailFree", "createUser"}
  <2>1. {"emailFree", "createUser"} \subseteq AllCalls
    BY DEF AllCalls, SharedCalls, PeopleCalls
  <2>2. Precedes("emailFree", "createUser")
    BY DEF Precedes, Rank, Inserters, Makers
  <2> QED BY <2>1, <2>2, TwoCalls DEF CreateUserSteps
<1>6. Listed(UpdateUserSteps) /\ CallsOf(UpdateUserSteps) = {"getUser", "updateUser"}
  <2>1. {"getUser", "updateUser"} \subseteq AllCalls
    BY DEF AllCalls, SharedCalls, PeopleCalls
  <2>2. Precedes("getUser", "updateUser")
    BY DEF Precedes, Rank, Inserters, Makers
  <2> QED BY <2>1, <2>2, TwoCalls DEF UpdateUserSteps
<1>7. Listed(ResetPasswordSteps) /\ CallsOf(ResetPasswordSteps) = {"getUser", "updateUser"}
  <2>1. {"getUser", "updateUser"} \subseteq AllCalls
    BY DEF AllCalls, SharedCalls, PeopleCalls
  <2>2. Precedes("getUser", "updateUser")
    BY DEF Precedes, Rank, Inserters, Makers
  <2> QED BY <2>1, <2>2, TwoCalls DEF ResetPasswordSteps
<1>8. Listed(SetAccountPasswordSteps) /\ CallsOf(SetAccountPasswordSteps) = {"getUser", "updateUser"}
  <2>1. {"getUser", "updateUser"} \subseteq AllCalls
    BY DEF AllCalls, SharedCalls, PeopleCalls
  <2>2. Precedes("getUser", "updateUser")
    BY DEF Precedes, Rank, Inserters, Makers
  <2> QED BY <2>1, <2>2, TwoCalls DEF SetAccountPasswordSteps
<1>9. Listed(DisableSteps) /\ CallsOf(DisableSteps) = {"disableUser"}
  BY OneCall DEF DisableSteps, AllCalls, PeopleCalls
<1>10. Listed(AddMemberSteps) /\ CallsOf(AddMemberSteps) = {"emailFree", "seats", "createUser", "addMember"}
  <2>1. {"emailFree", "seats", "createUser", "addMember"} \subseteq AllCalls
    BY DEF AllCalls, SharedCalls, PeopleCalls
  <2>2. /\ \A x \in {"seats", "createUser", "addMember"} : Precedes("emailFree", x)
        /\ \A x \in {"createUser", "addMember"} : Precedes("seats", x)
        /\ Precedes("createUser", "addMember")
    BY DEF Precedes, Rank, Inserters, Makers
  <2> QED BY <2>1, <2>2, FourCalls DEF AddMemberSteps
<1>11. Listed(UpdateMemberSteps)
           /\ CallsOf(UpdateMemberSteps) = {"getUser", "getClash", "updateUser", "updateMemberRole",
           "leaveTeams", "joinTeam"}
  <2>1. {"getUser", "getClash", "updateUser", "updateMemberRole", "leaveTeams", "joinTeam"} \subseteq AllCalls
    BY DEF AllCalls, SharedCalls, PeopleCalls
  <2>2. /\ \A x \in {"getClash", "updateUser", "updateMemberRole", "leaveTeams", "joinTeam"} :
             Precedes("getUser", x)
        /\ \A x \in {"updateUser", "updateMemberRole", "leaveTeams", "joinTeam"} : Precedes("getClash", x)
        /\ \A x \in {"updateMemberRole", "leaveTeams", "joinTeam"} : Precedes("updateUser", x)
        /\ \A x \in {"leaveTeams", "joinTeam"} : Precedes("updateMemberRole", x)
        /\ Precedes("leaveTeams", "joinTeam")
    BY DEF Precedes, Rank, Inserters, Makers
  <2> QED BY <2>1, <2>2, SixCalls DEF UpdateMemberSteps
<1>12. Listed(RemoveMemberSteps) /\ CallsOf(RemoveMemberSteps) = {"removeMember"}
  BY OneCall DEF RemoveMemberSteps, AllCalls, PeopleCalls
<1>13. Listed(CreateTeamSteps) /\ CallsOf(CreateTeamSteps) = {"createTeam"}
  BY OneCall DEF CreateTeamSteps, AllCalls, PeopleCalls
<1>14. Listed(UpdateTeamSteps) /\ CallsOf(UpdateTeamSteps) = {"updateTeam"}
  BY OneCall DEF UpdateTeamSteps, AllCalls, PeopleCalls
<1>15. Listed(DeleteTeamSteps) /\ CallsOf(DeleteTeamSteps) = {"deleteTeam"}
  BY OneCall DEF DeleteTeamSteps, AllCalls, PeopleCalls
<1>16. Listed(AddTeamMemberSteps) /\ CallsOf(AddTeamMemberSteps) = {"joinTeam"}
  BY OneCall DEF AddTeamMemberSteps, AllCalls, PeopleCalls
<1>17. Listed(RemoveTeamMemberSteps) /\ CallsOf(RemoveTeamMemberSteps) = {"leaveTeam"}
  BY OneCall DEF RemoveTeamMemberSteps, AllCalls, PeopleCalls
<1> QED BY <1>1, <1>2, <1>3, <1>4, <1>5, <1>6, <1>7, <1>8, <1>9, <1>10, <1>11, <1>12, <1>13, <1>14,
        <1>15, <1>16, <1>17

\* The calls of signing in, but for those of the callback.
LEMMA SignInLists ==
    /\ Listed(LoginSteps) /\ CallsOf(LoginSteps) = {"findLogin", "createSession"}
    /\ Listed(LogoutSteps) /\ CallsOf(LogoutSteps) = {"getSession", "deleteSession"}
    /\ Listed(SessionTokenSteps) /\ CallsOf(SessionTokenSteps) = {"getSession", "createSession"}
    /\ Listed(DiscoverOrgsSteps) /\ CallsOf(DiscoverOrgsSteps) = {"countAttempts", "recordAttempt"}
    /\ Listed(ProvisionAccountSteps)
         /\ CallsOf(ProvisionAccountSteps) = {"emailFree", "createUser", "createOrg", "addMember",
         "createSystemAccount", "createSession"}
    /\ Listed(InitiateLoginSteps) /\ CallsOf(InitiateLoginSteps) = {"loadProvider", "createLoginState"}
    /\ Listed(CreateProviderSteps) /\ CallsOf(CreateProviderSteps) = {"createProvider"}
    /\ Listed(UpdateProviderSteps) /\ CallsOf(UpdateProviderSteps) = {"load", "updateProvider"}
    /\ Listed(DeleteProviderSteps) /\ CallsOf(DeleteProviderSteps) = {"load", "deleteProvider"}
    /\ Listed(SAMLMetadataSteps) /\ CallsOf(SAMLMetadataSteps) = {"load", "ensureKeypair"}
    /\ Listed(CreateRoleMappingSteps) /\ CallsOf(CreateRoleMappingSteps) = {"load", "createRule"}
    /\ Listed(UpdateRoleMappingSteps) /\ CallsOf(UpdateRoleMappingSteps) = {"load", "updateRule"}
    /\ Listed(DeleteRoleMappingSteps) /\ CallsOf(DeleteRoleMappingSteps) = {"load", "deleteRule"}
    /\ Listed(CreateDomainSteps) /\ CallsOf(CreateDomainSteps) = {"listDomains", "createDomain"}
    /\ Listed(UpdateDomainSteps) /\ CallsOf(UpdateDomainSteps) = {"updateDomain"}
    /\ Listed(DeleteDomainSteps) /\ CallsOf(DeleteDomainSteps) = {"deleteDomain"}
<1>1. Listed(LoginSteps) /\ CallsOf(LoginSteps) = {"findLogin", "createSession"}
  <2>1. {"findLogin", "createSession"} \subseteq AllCalls
    BY DEF AllCalls, SharedCalls, SignInCalls
  <2>2. Precedes("findLogin", "createSession")
    BY DEF Precedes, Rank, Inserters, Makers
  <2> QED BY <2>1, <2>2, TwoCalls DEF LoginSteps
<1>2. Listed(LogoutSteps) /\ CallsOf(LogoutSteps) = {"getSession", "deleteSession"}
  <2>1. {"getSession", "deleteSession"} \subseteq AllCalls
    BY DEF AllCalls, SharedCalls, SignInCalls
  <2>2. Precedes("getSession", "deleteSession")
    BY DEF Precedes, Rank, Inserters, Makers
  <2> QED BY <2>1, <2>2, TwoCalls DEF LogoutSteps
<1>3. Listed(SessionTokenSteps) /\ CallsOf(SessionTokenSteps) = {"getSession", "createSession"}
  <2>1. {"getSession", "createSession"} \subseteq AllCalls
    BY DEF AllCalls, SharedCalls, SignInCalls
  <2>2. Precedes("getSession", "createSession")
    BY DEF Precedes, Rank, Inserters, Makers
  <2> QED BY <2>1, <2>2, TwoCalls DEF SessionTokenSteps
<1>4. Listed(DiscoverOrgsSteps) /\ CallsOf(DiscoverOrgsSteps) = {"countAttempts", "recordAttempt"}
  <2>1. {"countAttempts", "recordAttempt"} \subseteq AllCalls
    BY DEF AllCalls, SharedCalls, SignInCalls
  <2>2. Precedes("countAttempts", "recordAttempt")
    BY DEF Precedes, Rank, Inserters, Makers
  <2> QED BY <2>1, <2>2, TwoCalls DEF DiscoverOrgsSteps
<1>5. Listed(ProvisionAccountSteps)
          /\ CallsOf(ProvisionAccountSteps) = {"emailFree", "createUser", "createOrg", "addMember",
          "createSystemAccount", "createSession"}
  <2>1. {"emailFree", "createUser", "createOrg", "addMember", "createSystemAccount",
            "createSession"} \subseteq AllCalls
    BY DEF AllCalls, SharedCalls, SignInCalls
  <2>2. /\ \A x \in {"createUser", "createOrg", "addMember", "createSystemAccount", "createSession"} :
             Precedes("emailFree", x)
        /\ \A x \in {"createOrg", "addMember", "createSystemAccount", "createSession"} :
             Precedes("createUser", x)
        /\ \A x \in {"addMember", "createSystemAccount", "createSession"} : Precedes("createOrg", x)
        /\ \A x \in {"createSystemAccount", "createSession"} : Precedes("addMember", x)
        /\ Precedes("createSystemAccount", "createSession")
    BY DEF Precedes, Rank, Inserters, Makers
  <2> QED BY <2>1, <2>2, SixCalls DEF ProvisionAccountSteps
<1>6. Listed(InitiateLoginSteps) /\ CallsOf(InitiateLoginSteps) = {"loadProvider", "createLoginState"}
  <2>1. {"loadProvider", "createLoginState"} \subseteq AllCalls
    BY DEF AllCalls, SharedCalls, SignInCalls
  <2>2. Precedes("loadProvider", "createLoginState")
    BY DEF Precedes, Rank, Inserters, Makers
  <2> QED BY <2>1, <2>2, TwoCalls DEF InitiateLoginSteps
<1>7. Listed(CreateProviderSteps) /\ CallsOf(CreateProviderSteps) = {"createProvider"}
  BY OneCall DEF CreateProviderSteps, AllCalls, SignInCalls
<1>8. Listed(UpdateProviderSteps) /\ CallsOf(UpdateProviderSteps) = {"load", "updateProvider"}
  <2>1. {"load", "updateProvider"} \subseteq AllCalls
    BY DEF AllCalls, SharedCalls, SignInCalls
  <2>2. Precedes("load", "updateProvider")
    BY DEF Precedes, Rank, Inserters, Makers
  <2> QED BY <2>1, <2>2, TwoCalls DEF UpdateProviderSteps
<1>9. Listed(DeleteProviderSteps) /\ CallsOf(DeleteProviderSteps) = {"load", "deleteProvider"}
  <2>1. {"load", "deleteProvider"} \subseteq AllCalls
    BY DEF AllCalls, SharedCalls, SignInCalls
  <2>2. Precedes("load", "deleteProvider")
    BY DEF Precedes, Rank, Inserters, Makers
  <2> QED BY <2>1, <2>2, TwoCalls DEF DeleteProviderSteps
<1>10. Listed(SAMLMetadataSteps) /\ CallsOf(SAMLMetadataSteps) = {"load", "ensureKeypair"}
  <2>1. {"load", "ensureKeypair"} \subseteq AllCalls
    BY DEF AllCalls, SharedCalls, SignInCalls
  <2>2. Precedes("load", "ensureKeypair")
    BY DEF Precedes, Rank, Inserters, Makers
  <2> QED BY <2>1, <2>2, TwoCalls DEF SAMLMetadataSteps
<1>11. Listed(CreateRoleMappingSteps) /\ CallsOf(CreateRoleMappingSteps) = {"load", "createRule"}
  <2>1. {"load", "createRule"} \subseteq AllCalls
    BY DEF AllCalls, SharedCalls, SignInCalls
  <2>2. Precedes("load", "createRule")
    BY DEF Precedes, Rank, Inserters, Makers
  <2> QED BY <2>1, <2>2, TwoCalls DEF CreateRoleMappingSteps
<1>12. Listed(UpdateRoleMappingSteps) /\ CallsOf(UpdateRoleMappingSteps) = {"load", "updateRule"}
  <2>1. {"load", "updateRule"} \subseteq AllCalls
    BY DEF AllCalls, SharedCalls, SignInCalls
  <2>2. Precedes("load", "updateRule")
    BY DEF Precedes, Rank, Inserters, Makers
  <2> QED BY <2>1, <2>2, TwoCalls DEF UpdateRoleMappingSteps
<1>13. Listed(DeleteRoleMappingSteps) /\ CallsOf(DeleteRoleMappingSteps) = {"load", "deleteRule"}
  <2>1. {"load", "deleteRule"} \subseteq AllCalls
    BY DEF AllCalls, SharedCalls, SignInCalls
  <2>2. Precedes("load", "deleteRule")
    BY DEF Precedes, Rank, Inserters, Makers
  <2> QED BY <2>1, <2>2, TwoCalls DEF DeleteRoleMappingSteps
<1>14. Listed(CreateDomainSteps) /\ CallsOf(CreateDomainSteps) = {"listDomains", "createDomain"}
  <2>1. {"listDomains", "createDomain"} \subseteq AllCalls
    BY DEF AllCalls, SharedCalls, SignInCalls
  <2>2. Precedes("listDomains", "createDomain")
    BY DEF Precedes, Rank, Inserters, Makers
  <2> QED BY <2>1, <2>2, TwoCalls DEF CreateDomainSteps
<1>15. Listed(UpdateDomainSteps) /\ CallsOf(UpdateDomainSteps) = {"updateDomain"}
  BY OneCall DEF UpdateDomainSteps, AllCalls, SignInCalls
<1>16. Listed(DeleteDomainSteps) /\ CallsOf(DeleteDomainSteps) = {"deleteDomain"}
  BY OneCall DEF DeleteDomainSteps, AllCalls, SignInCalls
<1> QED BY <1>1, <1>2, <1>3, <1>4, <1>5, <1>6, <1>7, <1>8, <1>9, <1>10, <1>11, <1>12, <1>13, <1>14,
        <1>15, <1>16

\* The calls of the operations on tokens and the installation.
LEMMA TokenLists ==
    /\ Listed(CreateServiceAccountSteps) /\ CallsOf(CreateServiceAccountSteps) = {"createAccount"}
    /\ Listed(UpdateServiceAccountSteps)
         /\ CallsOf(UpdateServiceAccountSteps) = {"getAccount", "updateAccount"}
    /\ Listed(DeleteServiceAccountSteps)
         /\ CallsOf(DeleteServiceAccountSteps) = {"getAccount", "deleteAccount"}
    /\ Listed(CreateTokenSteps) /\ CallsOf(CreateTokenSteps) = {"createToken"}
    /\ Listed(RevokeTokenSteps) /\ CallsOf(RevokeTokenSteps) = {"revokeToken"}
    /\ Listed(CreateOrgByKeySteps)
         /\ CallsOf(CreateOrgByKeySteps) = {"getToken", "getKeyAccount", "createOrg", "createSystemAccount"}
    /\ Listed(CreateImportTokenSteps)
         /\ CallsOf(CreateImportTokenSteps) = {"getInstallation", "findImportAccount", "listTokens",
         "revokeTokens", "createToken"}
    /\ Listed(InstallSteps) /\ CallsOf(InstallSteps) = {"createInstallState"}
    /\ Listed(CallbackAuthorizeSteps)
         /\ CallsOf(CallbackAuthorizeSteps) = {"authorizeState", "findInstallation",
         "verifyInstallation", "consumeInstallState", "upsertInstallation"}
    /\ Listed(CallbackInstalledSteps)
         /\ CallsOf(CallbackInstalledSteps) = {"verifyInstallation", "consumeInstallState",
         "upsertInstallation"}
    /\ Listed(DeleteInstallationSteps)
         /\ CallsOf(DeleteInstallationSteps) = {"getInstallation", "deleteAtGitHub", "deleteInstallation"}
<1>1. Listed(CreateServiceAccountSteps) /\ CallsOf(CreateServiceAccountSteps) = {"createAccount"}
  BY OneCall DEF CreateServiceAccountSteps, AllCalls, TokenCalls
<1>2. Listed(UpdateServiceAccountSteps)
          /\ CallsOf(UpdateServiceAccountSteps) = {"getAccount", "updateAccount"}
  <2>1. {"getAccount", "updateAccount"} \subseteq AllCalls
    BY DEF AllCalls, SharedCalls, TokenCalls
  <2>2. Precedes("getAccount", "updateAccount")
    BY DEF Precedes, Rank, Inserters, Makers
  <2> QED BY <2>1, <2>2, TwoCalls DEF UpdateServiceAccountSteps
<1>3. Listed(DeleteServiceAccountSteps)
          /\ CallsOf(DeleteServiceAccountSteps) = {"getAccount", "deleteAccount"}
  <2>1. {"getAccount", "deleteAccount"} \subseteq AllCalls
    BY DEF AllCalls, SharedCalls, TokenCalls
  <2>2. Precedes("getAccount", "deleteAccount")
    BY DEF Precedes, Rank, Inserters, Makers
  <2> QED BY <2>1, <2>2, TwoCalls DEF DeleteServiceAccountSteps
<1>4. Listed(CreateTokenSteps) /\ CallsOf(CreateTokenSteps) = {"createToken"}
  BY OneCall DEF CreateTokenSteps, AllCalls, TokenCalls
<1>5. Listed(RevokeTokenSteps) /\ CallsOf(RevokeTokenSteps) = {"revokeToken"}
  BY OneCall DEF RevokeTokenSteps, AllCalls, TokenCalls
<1>6. Listed(CreateOrgByKeySteps)
          /\ CallsOf(CreateOrgByKeySteps) = {"getToken", "getKeyAccount", "createOrg", "createSystemAccount"}
  <2>1. {"getToken", "getKeyAccount", "createOrg", "createSystemAccount"} \subseteq AllCalls
    BY DEF AllCalls, SharedCalls, TokenCalls
  <2>2. /\ \A x \in {"getKeyAccount", "createOrg", "createSystemAccount"} : Precedes("getToken", x)
        /\ \A x \in {"createOrg", "createSystemAccount"} : Precedes("getKeyAccount", x)
        /\ Precedes("createOrg", "createSystemAccount")
    BY DEF Precedes, Rank, Inserters, Makers
  <2> QED BY <2>1, <2>2, FourCalls DEF CreateOrgByKeySteps
<1>7. Listed(CreateImportTokenSteps)
          /\ CallsOf(CreateImportTokenSteps) = {"getInstallation", "findImportAccount", "listTokens",
          "revokeTokens", "createToken"}
  <2>1. {"getInstallation", "findImportAccount", "listTokens", "revokeTokens", "createToken"}
            \subseteq AllCalls
    BY DEF AllCalls, SharedCalls, TokenCalls
  <2>2. /\ \A x \in {"findImportAccount", "listTokens", "revokeTokens", "createToken"} :
             Precedes("getInstallation", x)
        /\ \A x \in {"listTokens", "revokeTokens", "createToken"} : Precedes("findImportAccount", x)
        /\ \A x \in {"revokeTokens", "createToken"} : Precedes("listTokens", x)
        /\ Precedes("revokeTokens", "createToken")
    BY DEF Precedes, Rank, Inserters, Makers
  <2> QED BY <2>1, <2>2, FiveCalls DEF CreateImportTokenSteps
<1>8. Listed(InstallSteps) /\ CallsOf(InstallSteps) = {"createInstallState"}
  BY OneCall DEF InstallSteps, AllCalls, TokenCalls
<1>9. Listed(CallbackAuthorizeSteps)
          /\ CallsOf(CallbackAuthorizeSteps) = {"authorizeState", "findInstallation",
          "verifyInstallation", "consumeInstallState", "upsertInstallation"}
  <2>1. {"authorizeState", "findInstallation", "verifyInstallation", "consumeInstallState",
            "upsertInstallation"} \subseteq AllCalls
    BY DEF AllCalls, SharedCalls, TokenCalls
  <2>2. /\ \A x \in {"findInstallation", "verifyInstallation", "consumeInstallState",
             "upsertInstallation"} : Precedes("authorizeState", x)
        /\ \A x \in {"verifyInstallation", "consumeInstallState", "upsertInstallation"} :
             Precedes("findInstallation", x)
        /\ \A x \in {"consumeInstallState", "upsertInstallation"} : Precedes("verifyInstallation", x)
        /\ Precedes("consumeInstallState", "upsertInstallation")
    BY DEF Precedes, Rank, Inserters, Makers
  <2> QED BY <2>1, <2>2, FiveCalls DEF CallbackAuthorizeSteps
<1>10. Listed(CallbackInstalledSteps)
           /\ CallsOf(CallbackInstalledSteps) = {"verifyInstallation", "consumeInstallState",
           "upsertInstallation"}
  <2>1. {"verifyInstallation", "consumeInstallState", "upsertInstallation"} \subseteq AllCalls
    BY DEF AllCalls, SharedCalls, TokenCalls
  <2>2. /\ \A x \in {"consumeInstallState", "upsertInstallation"} : Precedes("verifyInstallation", x)
        /\ Precedes("consumeInstallState", "upsertInstallation")
    BY DEF Precedes, Rank, Inserters, Makers
  <2> QED BY <2>1, <2>2, ThreeCalls DEF CallbackInstalledSteps
<1>11. Listed(DeleteInstallationSteps)
           /\ CallsOf(DeleteInstallationSteps) = {"getInstallation", "deleteAtGitHub", "deleteInstallation"}
  <2>1. {"getInstallation", "deleteAtGitHub", "deleteInstallation"} \subseteq AllCalls
    BY DEF AllCalls, SharedCalls, TokenCalls
  <2>2. /\ \A x \in {"deleteAtGitHub", "deleteInstallation"} : Precedes("getInstallation", x)
        /\ Precedes("deleteAtGitHub", "deleteInstallation")
    BY DEF Precedes, Rank, Inserters, Makers
  <2> QED BY <2>1, <2>2, ThreeCalls DEF DeleteInstallationSteps
<1> QED BY <1>1, <1>2, <1>3, <1>4, <1>5, <1>6, <1>7, <1>8, <1>9, <1>10, <1>11

\* The calls of a start.
LEMMA BootLists ==
    /\ Listed(BootSteps)
         /\ CallsOf(BootSteps) = {"isApplied", "anyUser", "createOrg", "upsertUser", "addMember"}
<1>1. Listed(BootSteps)
          /\ CallsOf(BootSteps) = {"isApplied", "anyUser", "createOrg", "upsertUser", "addMember"}
  <2>1. {"isApplied", "anyUser", "createOrg", "upsertUser", "addMember"} \subseteq AllCalls
    BY DEF AllCalls, SharedCalls, BootCalls
  <2>2. /\ \A x \in {"anyUser", "createOrg", "upsertUser", "addMember"} : Precedes("isApplied", x)
        /\ \A x \in {"createOrg", "upsertUser", "addMember"} : Precedes("anyUser", x)
        /\ \A x \in {"upsertUser", "addMember"} : Precedes("createOrg", x)
        /\ Precedes("upsertUser", "addMember")
    BY DEF Precedes, Rank, Inserters, Makers
  <2> QED BY <2>1, <2>2, FiveCalls DEF BootSteps
<1> QED BY <1>1

\* The calls of the callback.
LEMMA CallbackList ==
    /\ Listed(CallbackSteps)
    /\ CallsOf(CallbackSteps) = {"consumeState", "loadProvider", "findUser", "createUser", "listRoleMappings",
                                 "getMember", "seats", "upsertMember", "upsertIdentity", "createSession"}
<1>1. PICK s : s = <<"consumeState", "loadProvider", "findUser", "createUser">>
  OBVIOUS
<1>2. PICK t : t = <<"listRoleMappings", "getMember", "seats", "upsertMember", "upsertIdentity",
          "createSession">>
  OBVIOUS
<1>3. {"consumeState", "loadProvider", "findUser", "createUser", "listRoleMappings",
       "getMember", "seats", "upsertMember", "upsertIdentity", "createSession"} \subseteq AllCalls
  BY DEF AllCalls, SharedCalls, SignInCalls
<1>4. /\ \A x \in {"loadProvider", "findUser", "createUser"} : Precedes("consumeState", x)
      /\ \A x \in {"findUser", "createUser"} : Precedes("loadProvider", x)
      /\ Precedes("findUser", "createUser")
  BY DEF Precedes, Rank, Inserters, Makers
<1>5. /\ \A x \in {"getMember", "seats", "upsertMember", "upsertIdentity", "createSession"} :
           Precedes("listRoleMappings", x)
      /\ \A x \in {"seats", "upsertMember", "upsertIdentity", "createSession"} : Precedes("getMember", x)
      /\ \A x \in {"upsertMember", "upsertIdentity", "createSession"} : Precedes("seats", x)
      /\ \A x \in {"upsertIdentity", "createSession"} : Precedes("upsertMember", x)
      /\ Precedes("upsertIdentity", "createSession")
  BY DEF Precedes, Rank, Inserters, Makers
<1>6. Listed(s) /\ CallsOf(s) = {"consumeState", "loadProvider", "findUser", "createUser"}
  BY <1>1, <1>3, <1>4, FourCalls
<1>7. /\ Listed(t)
      /\ CallsOf(t) = {"listRoleMappings", "getMember", "seats", "upsertMember", "upsertIdentity",
           "createSession"}
  <2>1. {"listRoleMappings", "getMember", "seats", "upsertMember", "upsertIdentity",
            "createSession"} \subseteq AllCalls
    BY <1>3
  <2>2. LET u == <<"listRoleMappings", "getMember", "seats", "upsertMember", "upsertIdentity",
            "createSession">> IN
        Listed(u) /\ CallsOf(u) = {"listRoleMappings", "getMember", "seats", "upsertMember", "upsertIdentity",
                                   "createSession"}
    BY <1>5, <2>1, SixCalls
  <2> QED BY <1>2, <2>2
<1>8. \A c \in CallsOf(s), d \in CallsOf(t) : Precedes(c, d)
  BY <1>6, <1>7 DEF Precedes, Rank, Inserters, Makers
<1>9. Listed(s \o t) /\ CallsOf(s \o t) = CallsOf(s) \cup CallsOf(t)
  BY <1>6, <1>7, <1>8, Joined
<1>10. CallbackSteps = s \o t
  BY <1>1, <1>2 DEF CallbackSteps
<1> QED BY <1>6, <1>7, <1>9, <1>10

(***************************************************************************)
(* Requests arrive.                                                        *)
(***************************************************************************)
LEMMA BlankOK ==
    /\ Blank \in AccountMemory /\ Blank.user = Null /\ Blank.org = Seed /\ Blank.isMember = FALSE
    /\ Blank.aux = Null /\ Blank.provider = Null
BY DEF Blank, AccountMemory, MaybeId, Ids, Roles

\* Calls that need something of what the request holds.
Special == {"upsertMember", "isApplied", "applyMigration", "upsertUser", "listTokens", "revokeTokens",
            "findImportAccount", "createImportAccount", "getUser", "updateUser", "getOrg", "updateOrg",
            "load", "loadProvider", "updateProvider", "ensureKeypair", "emailFree", "createUser", "findLogin",
            "findUser", "getClash", "createProvider", "authorizeState", "disableUser", "createSession",
            "upsertIdentity"}

LEMMA PlainKnown ==
    ASSUME NEW op, NEW L, NEW m, op \notin {"callback", "addMember", "importToken", "boot"},
           L \cap Special = {}
    PROVE  Known(op, L, m)
BY DEF Known, CallsOfOp, Given, HeldRows, HeldUser, HeldState, Special

LEMMA StartsWith ==
    ASSUME AccountsInv, NEW q \in Requests, NEW op \in AllOps, NEW s, Listed(s), NEW L, CallsOf(s) = L,
           NEW m \in AccountMemory, Known(op, L, m), Arrives(q, op, s, m), UNCHANGED <<db, failedOpen>>
    PROVE  AccountsInv'
<1>1. /\ ProcType' /\ Others(q) /\ Op(q)' = op
      /\ proc'[q].todo = s /\ Left(q)' = CallsOf(s) /\ Mem(q)' = m
  BY ArrivesMoves DEF AccountsInv
<1>2. DbOK' /\ Stay /\ failedOpen' \in BOOLEAN
  BY SameOK DEF AccountsInv
<1>3. \A p \in Requests : p # q => Knows(p)'
  BY <1>1, <1>2, OthersKnow DEF AccountsInv
<1>4. Known(op, L, m)'
  BY DEF Known, CallsOfOp, Given, HeldRows, HeldUser, HeldState
<1>5. Known(Op(q), Left(q), Mem(q))'
  BY <1>1, <1>4
<1>6. op # "none"
  BY DEF AllOps, PeopleOps, SignInOps, TokenOps, BootOps
<1>7. Knows(q)'
  BY <1>1, <1>5, <1>6 DEF Knows
<1> QED BY <1>1, <1>2, <1>3, <1>7 DEF AccountsInv

LEMMA PeopleStartOK ==
    ASSUME AccountsInv, NEW q \in Requests, NEW op \in PeopleOps, PeopleStart(q, op), UNCHANGED <<db,
           failedOpen>>
    PROVE  AccountsInv'
<1>0. /\ DOMAIN db.users \subseteq Ids /\ DOMAIN db.orgs \subseteq Ids /\ DOMAIN db.teams \subseteq Ids
      /\ op \in AllOps
  BY DEF AccountsInv, DbOK, UsersOK, OrgsOK, TeamsOK, AllOps
<1>1. CASE op = "createOrg"
  <2>1. PICK u \in DOMAIN db.users, o \in DOMAIN db.orgs :
            Arrives(q, op, CreateOrgSteps, [Blank EXCEPT !.user = u, !.role = "admin"])
    BY <1>1 DEF PeopleStart
  <2>2. PICK m : m = [Blank EXCEPT !.user = u, !.role = "admin"]
    OBVIOUS
  <2>3. m \in AccountMemory
    BY <1>0, <2>2, BlankOK DEF AccountMemory, MaybeId, Roles
  <2>4. Known(op, {"createOrg", "addMember", "createSystemAccount"}, m)
    BY <1>0, <1>1, <2>1, <2>3 DEF Known, CallsOfOp, Given, HeldRows, HeldUser, HeldState, Roles
  <2> QED BY <2>1, <2>2, <2>3, <2>4, PeopleLists, <1>0, StartsWith
<1>2. CASE op = "updateOrg"
  <2>1. PICK u \in DOMAIN db.users, o \in DOMAIN db.orgs, c \in {"name", "autoJoin"} :
            Arrives(q, op, UpdateOrgSteps, [Blank EXCEPT !.org = o, !.change = c])
    BY <1>2 DEF PeopleStart
  <2>2. PICK m : m = [Blank EXCEPT !.org = o, !.change = c]
    OBVIOUS
  <2>3. m \in AccountMemory
    BY <1>0, <2>2, BlankOK DEF AccountMemory, MaybeId
  <2>4. Known(op, {"getOrg", "updateOrg"}, m)
    BY <1>0, <1>2, <2>1, <2>3 DEF Known, CallsOfOp, Given, HeldRows, HeldUser, HeldState
  <2> QED BY <2>1, <2>2, <2>3, <2>4, PeopleLists, <1>0, StartsWith
<1>3. CASE op = "deleteOrg"
  <2>1. PICK u \in DOMAIN db.users, o \in DOMAIN db.orgs :
            Arrives(q, op, DeleteOrgSteps, [Blank EXCEPT !.org = o])
    BY <1>3 DEF PeopleStart
  <2>2. PICK m : m = [Blank EXCEPT !.org = o]
    OBVIOUS
  <2>3. m \in AccountMemory
    BY <1>0, <2>2, BlankOK DEF AccountMemory, MaybeId
  <2>4. Known(op, {"deleteOrg"}, m)
    BY <1>3, PlainKnown DEF Special
  <2> QED BY <2>1, <2>2, <2>3, <2>4, PeopleLists, <1>0, StartsWith
<1>4. CASE op = "completeOnboarding"
  <2>1. PICK u \in DOMAIN db.users, o \in DOMAIN db.orgs :
            Arrives(q, op, CompleteOnboardingSteps, [Blank EXCEPT !.org = o])
    BY <1>4 DEF PeopleStart
  <2>2. PICK m : m = [Blank EXCEPT !.org = o]
    OBVIOUS
  <2>3. m \in AccountMemory
    BY <1>0, <2>2, BlankOK DEF AccountMemory, MaybeId
  <2>4. Known(op, {"getOrg", "setOnboardingDone"}, m)
    BY <1>0, <1>4, <2>1, <2>3 DEF Known, CallsOfOp, Given, HeldRows, HeldUser, HeldState
  <2> QED BY <2>1, <2>2, <2>3, <2>4, PeopleLists, <1>0, StartsWith
<1>5. CASE op = "createUser"
  <2>1. PICK u \in DOMAIN db.users, o \in DOMAIN db.orgs, e \in Emails :
            Arrives(q, op, CreateUserSteps, [Blank EXCEPT !.email = e])
    BY <1>5 DEF PeopleStart
  <2>2. PICK m : m = [Blank EXCEPT !.email = e]
    OBVIOUS
  <2>3. m \in AccountMemory /\ m.email = e /\ m.user = Null
    BY <1>0, <2>2, BlankOK DEF AccountMemory, MaybeId
  <2>4. Known(op, {"emailFree", "createUser"}, m)
    BY <1>0, <1>5, <2>1, <2>3 DEF Known, CallsOfOp, Given, HeldRows, HeldUser, HeldState
  <2> QED BY <2>1, <2>2, <2>3, <2>4, PeopleLists, <1>0, StartsWith
<1>6. CASE op = "updateUser"
  <2>1. PICK u \in DOMAIN db.users, o \in DOMAIN db.orgs, c \in {"promote", "disable", "enable"} :
            Arrives(q, op, UpdateUserSteps, [Blank EXCEPT !.user = u, !.change = c])
    BY <1>6 DEF PeopleStart
  <2>2. PICK m : m = [Blank EXCEPT !.user = u, !.change = c]
    OBVIOUS
  <2>3. m \in AccountMemory /\ m.user = u /\ m.change = c
    BY <1>0, <2>2, BlankOK DEF AccountMemory, MaybeId
  <2>4. Known(op, {"getUser", "updateUser"}, m)
    BY <1>0, <1>6, <2>1, <2>3 DEF Known, CallsOfOp, Given, HeldRows, HeldUser, HeldState
  <2> QED BY <2>1, <2>2, <2>3, <2>4, PeopleLists, <1>0, StartsWith
<1>7. CASE op = "resetPassword"
  <2>1. PICK u \in DOMAIN db.users, o \in DOMAIN db.orgs :
            Arrives(q, op, ResetPasswordSteps, [Blank EXCEPT !.user = u, !.change = "password"])
    BY <1>7 DEF PeopleStart
  <2>2. PICK m : m = [Blank EXCEPT !.user = u, !.change = "password"]
    OBVIOUS
  <2>3. m \in AccountMemory /\ m.user = u /\ m.change = "password"
    BY <1>0, <2>2, BlankOK DEF AccountMemory, MaybeId
  <2>4. Known(op, {"getUser", "updateUser"}, m)
    BY <1>0, <1>7, <2>1, <2>3 DEF Known, CallsOfOp, Given, HeldRows, HeldUser, HeldState
  <2> QED BY <2>1, <2>2, <2>3, <2>4, PeopleLists, <1>0, StartsWith
<1>8. CASE op = "setAccountPassword"
  <2>1. PICK u \in DOMAIN db.users, o \in DOMAIN db.orgs :
            Arrives(q, op, SetAccountPasswordSteps, [Blank EXCEPT !.user = u, !.change = "password"])
    BY <1>8 DEF PeopleStart
  <2>2. PICK m : m = [Blank EXCEPT !.user = u, !.change = "password"]
    OBVIOUS
  <2>3. m \in AccountMemory /\ m.user = u /\ m.change = "password"
    BY <1>0, <2>2, BlankOK DEF AccountMemory, MaybeId
  <2>4. Known(op, {"getUser", "updateUser"}, m)
    BY <1>0, <1>8, <2>1, <2>3 DEF Known, CallsOfOp, Given, HeldRows, HeldUser, HeldState
  <2> QED BY <2>1, <2>2, <2>3, <2>4, PeopleLists, <1>0, StartsWith
<1>9. CASE op = "disable"
  <2>1. PICK u \in DOMAIN db.users, o \in DOMAIN db.orgs :
            Arrives(q, op, DisableSteps, [Blank EXCEPT !.user = u])
    BY <1>9 DEF PeopleStart
  <2>2. PICK m : m = [Blank EXCEPT !.user = u]
    OBVIOUS
  <2>3. m \in AccountMemory /\ m.user = u
    BY <1>0, <2>2, BlankOK DEF AccountMemory, MaybeId
  <2>4. Known(op, {"disableUser"}, m)
    BY <1>0, <1>9, <2>1, <2>3 DEF Known, CallsOfOp, Given, HeldRows, HeldUser, HeldState
  <2> QED BY <2>1, <2>2, <2>3, <2>4, PeopleLists, <1>0, StartsWith
<1>10. CASE op = "addMember"
  <2>1. PICK u \in DOMAIN db.users, o \in DOMAIN db.orgs, e \in Emails :
            Arrives(q, op, AddMemberSteps, [Blank EXCEPT !.org = o, !.email = e])
    BY <1>10 DEF PeopleStart
  <2>2. PICK m : m = [Blank EXCEPT !.org = o, !.email = e]
    OBVIOUS
  <2>3. m \in AccountMemory /\ m.email = e /\ m.user = Null /\ m.isMember = FALSE
    BY <1>0, <2>2, BlankOK DEF AccountMemory, MaybeId, AddMemberSteps
  <2>4. Known(op, {"emailFree", "seats", "createUser", "addMember"}, m)
    BY <1>0, <1>10, <2>1, <2>3 DEF Known, CallsOfOp, Given, HeldRows, HeldUser, HeldState, AddMemberSteps
  <2> QED BY <2>1, <2>2, <2>3, <2>4, PeopleLists, <1>0, StartsWith
<1>11. CASE op = "updateMember"
  <2>1. PICK u \in DOMAIN db.users, o \in DOMAIN db.orgs, e \in Emails, t \in DOMAIN db.teams \cup {Null} :
            Arrives(q, op, UpdateMemberSteps, [Blank EXCEPT !.user = u, !.org = o, !.email = e,
            !.change = "login", !.ref = t])
    BY <1>11 DEF PeopleStart
  <2>2. PICK m : m = [Blank EXCEPT !.user = u, !.org = o, !.email = e, !.change = "login", !.ref = t]
    OBVIOUS
  <2>3. m \in AccountMemory /\ m.user = u /\ m.email = e /\ m.change = "login"
    BY <1>0, <2>2, BlankOK DEF AccountMemory, MaybeId
  <2>4. Known(op, {"getUser", "getClash", "updateUser", "updateMemberRole", "leaveTeams", "joinTeam"}, m)
    BY <1>0, <1>11, <2>1, <2>3 DEF Known, CallsOfOp, Given, HeldRows, HeldUser, HeldState
  <2> QED BY <2>1, <2>2, <2>3, <2>4, PeopleLists, <1>0, StartsWith
<1>12. CASE op = "removeMember"
  <2>1. PICK u \in DOMAIN db.users, o \in DOMAIN db.orgs :
            Arrives(q, op, RemoveMemberSteps, [Blank EXCEPT !.user = u, !.org = o])
    BY <1>12 DEF PeopleStart
  <2>2. PICK m : m = [Blank EXCEPT !.user = u, !.org = o]
    OBVIOUS
  <2>3. m \in AccountMemory
    BY <1>0, <2>2, BlankOK DEF AccountMemory, MaybeId
  <2>4. Known(op, {"removeMember"}, m)
    BY <1>12, PlainKnown DEF Special
  <2> QED BY <2>1, <2>2, <2>3, <2>4, PeopleLists, <1>0, StartsWith
<1>13. CASE op = "createTeam"
  <2>1. PICK u \in DOMAIN db.users, o \in DOMAIN db.orgs :
            Arrives(q, op, CreateTeamSteps, [Blank EXCEPT !.org = o])
    BY <1>13 DEF PeopleStart
  <2>2. PICK m : m = [Blank EXCEPT !.org = o]
    OBVIOUS
  <2>3. m \in AccountMemory
    BY <1>0, <2>2, BlankOK DEF AccountMemory, MaybeId
  <2>4. Known(op, {"createTeam"}, m)
    BY <1>13, PlainKnown DEF Special
  <2> QED BY <2>1, <2>2, <2>3, <2>4, PeopleLists, <1>0, StartsWith
<1>14. CASE op = "updateTeam"
  <2>1. PICK u \in DOMAIN db.users, o \in DOMAIN db.orgs, t \in DOMAIN db.teams :
            Arrives(q, op, UpdateTeamSteps, [Blank EXCEPT !.ref = t])
    BY <1>14 DEF PeopleStart
  <2>2. PICK m : m = [Blank EXCEPT !.ref = t]
    OBVIOUS
  <2>3. m \in AccountMemory
    BY <1>0, <2>2, BlankOK DEF AccountMemory, MaybeId
  <2>4. Known(op, {"updateTeam"}, m)
    BY <1>14, PlainKnown DEF Special
  <2> QED BY <2>1, <2>2, <2>3, <2>4, PeopleLists, <1>0, StartsWith
<1>15. CASE op = "deleteTeam"
  <2>1. PICK u \in DOMAIN db.users, o \in DOMAIN db.orgs, t \in DOMAIN db.teams :
            Arrives(q, op, DeleteTeamSteps, [Blank EXCEPT !.ref = t])
    BY <1>15 DEF PeopleStart
  <2>2. PICK m : m = [Blank EXCEPT !.ref = t]
    OBVIOUS
  <2>3. m \in AccountMemory
    BY <1>0, <2>2, BlankOK DEF AccountMemory, MaybeId
  <2>4. Known(op, {"deleteTeam"}, m)
    BY <1>15, PlainKnown DEF Special
  <2> QED BY <2>1, <2>2, <2>3, <2>4, PeopleLists, <1>0, StartsWith
<1>16. CASE op = "addTeamMember"
  <2>1. PICK u \in DOMAIN db.users, o \in DOMAIN db.orgs, t \in DOMAIN db.teams :
            Arrives(q, op, AddTeamMemberSteps, [Blank EXCEPT !.user = u, !.org = o, !.ref = t])
    BY <1>16 DEF PeopleStart
  <2>2. PICK m : m = [Blank EXCEPT !.user = u, !.org = o, !.ref = t]
    OBVIOUS
  <2>3. m \in AccountMemory
    BY <1>0, <2>2, BlankOK DEF AccountMemory, MaybeId
  <2>4. Known(op, {"joinTeam"}, m)
    BY <1>16, PlainKnown DEF Special
  <2> QED BY <2>1, <2>2, <2>3, <2>4, PeopleLists, <1>0, StartsWith
<1>17. CASE op = "removeTeamMember"
  <2>1. PICK u \in DOMAIN db.users, o \in DOMAIN db.orgs, t \in DOMAIN db.teams :
            Arrives(q, op, RemoveTeamMemberSteps, [Blank EXCEPT !.user = u, !.org = o, !.ref = t])
    BY <1>17 DEF PeopleStart
  <2>2. PICK m : m = [Blank EXCEPT !.user = u, !.org = o, !.ref = t]
    OBVIOUS
  <2>3. m \in AccountMemory
    BY <1>0, <2>2, BlankOK DEF AccountMemory, MaybeId
  <2>4. Known(op, {"leaveTeam"}, m)
    BY <1>17, PlainKnown DEF Special
  <2> QED BY <2>1, <2>2, <2>3, <2>4, PeopleLists, <1>0, StartsWith
<1> QED BY <1>1, <1>2, <1>3, <1>4, <1>5, <1>6, <1>7, <1>8, <1>9, <1>10, <1>11, <1>12, <1>13, <1>14,
        <1>15, <1>16, <1>17 DEF PeopleOps

LEMMA SignInStartOK ==
    ASSUME AccountsInv, NEW q \in Requests, NEW op \in SignInOps, SignInStart(q, op), UNCHANGED <<db,
           failedOpen>>
    PROVE  AccountsInv'
<1>0. /\ DOMAIN db.sessions \subseteq Ids /\ DOMAIN db.rules \subseteq Ids /\ DOMAIN db.domains \subseteq Ids
      /\ op \in AllOps /\ q \in Ids
  BY DEF AccountsInv, DbOK, SessionsOK, ProvidersOK, OthersOK, AllOps, Ids
<1>1. CASE op = "login"
  <2>1. PICK e \in Emails, p \in Ids : Arrives(q, op, LoginSteps, [Blank EXCEPT !.email = e, !.aux = p])
    BY <1>1 DEF SignInStart
  <2>2. PICK m : m = [Blank EXCEPT !.email = e, !.aux = p]
    OBVIOUS
  <2>3. m \in AccountMemory /\ m.email = e
    BY <1>0, <2>2, BlankOK DEF AccountMemory, MaybeId
  <2>4. Known(op, {"findLogin", "createSession"}, m)
    BY <1>0, <1>1, <2>1, <2>3 DEF Known, CallsOfOp, Given, HeldRows, HeldUser, HeldState
  <2> QED BY <2>1, <2>2, <2>3, <2>4, SignInLists, <1>0, StartsWith
<1>2. CASE op = "logout"
  <2>1. PICK s \in DOMAIN db.sessions : Arrives(q, op, LogoutSteps, [Blank EXCEPT !.ref = s])
    BY <1>2 DEF SignInStart
  <2>2. PICK m : m = [Blank EXCEPT !.ref = s]
    OBVIOUS
  <2>3. m \in AccountMemory
    BY <1>0, <2>2, BlankOK DEF AccountMemory, MaybeId
  <2>4. Known(op, {"getSession", "deleteSession"}, m)
    BY <1>2, PlainKnown DEF Special
  <2> QED BY <2>1, <2>2, <2>3, <2>4, SignInLists, <1>0, StartsWith
<1>3. CASE op = "sessionToken"
  <2>1. PICK s \in DOMAIN db.sessions : Arrives(q, op, SessionTokenSteps, [Blank EXCEPT !.ref = s])
    BY <1>3 DEF SignInStart
  <2>2. PICK m : m = [Blank EXCEPT !.ref = s]
    OBVIOUS
  <2>3. m \in AccountMemory
    BY <1>0, <2>2, BlankOK DEF AccountMemory, MaybeId
  <2>4. Known(op, {"getSession", "createSession"}, m)
    BY <1>0, <1>3, <2>1, <2>3 DEF Known, CallsOfOp, Given, HeldRows, HeldUser, HeldState
  <2> QED BY <2>1, <2>2, <2>3, <2>4, SignInLists, <1>0, StartsWith
<1>4. CASE op = "discover"
  <2>1. Arrives(q, op, DiscoverOrgsSteps, Blank)
    BY <1>4 DEF SignInStart
  <2>2. PICK m : m = Blank
    OBVIOUS
  <2>3. m \in AccountMemory
    BY <1>0, <2>2, BlankOK DEF AccountMemory, MaybeId
  <2>4. Known(op, {"countAttempts", "recordAttempt"}, m)
    BY <1>4, PlainKnown DEF Special
  <2> QED BY <2>1, <2>2, <2>3, <2>4, SignInLists, <1>0, StartsWith
<1>5. CASE op = "provision"
  <2>1. PICK e \in Emails :
            Arrives(q, op, ProvisionAccountSteps, [Blank EXCEPT !.email = e, !.role = "admin"])
    BY <1>5 DEF SignInStart
  <2>2. PICK m : m = [Blank EXCEPT !.email = e, !.role = "admin"]
    OBVIOUS
  <2>3. m \in AccountMemory /\ m.email = e /\ m.user = Null
    BY <1>0, <2>2, BlankOK DEF AccountMemory, MaybeId, Roles
  <2>4. Known(op, {"emailFree", "createUser", "createOrg", "addMember", "createSystemAccount",
            "createSession"}, m)
    BY <1>0, <1>5, <2>1, <2>3 DEF Known, CallsOfOp, Given, HeldRows, HeldUser, HeldState, Roles
  <2> QED BY <2>1, <2>2, <2>3, <2>4, SignInLists, <1>0, StartsWith
<1>6. CASE op = "initiateLogin"
  <2>1. Arrives(q, op, InitiateLoginSteps, Blank)
    BY <1>6 DEF SignInStart
  <2>2. PICK m : m = Blank
    OBVIOUS
  <2>3. m \in AccountMemory
    BY <1>0, <2>2, BlankOK DEF AccountMemory, MaybeId
  <2>4. Known(op, {"loadProvider", "createLoginState"}, m)
    BY <1>0, <1>6, <2>1, <2>3 DEF Known, CallsOfOp, Given, HeldRows, HeldUser, HeldState
  <2> QED BY <2>1, <2>2, <2>3, <2>4, SignInLists, <1>0, StartsWith
<1>7. CASE op = "callback"
  <2>1. PICK e \in Emails, s \in {Seed} \cup {p \in Requests : Op(p) = "initiateLogin"} :
          Arrives(q, op, CallbackSteps, [Blank EXCEPT !.email = e, !.ref = s])
    BY <1>7 DEF SignInStart
  <2>2. PICK m : m = [Blank EXCEPT !.email = e, !.ref = s]
    OBVIOUS
  <2>3. s \in MaybeId
    BY DEF Ids, MaybeId
  <2>4. m \in AccountMemory /\ m.email = e /\ m.user = Null /\ m.org = Seed /\ m.isMember = FALSE
    BY <2>2, <2>3, BlankOK DEF AccountMemory
  <2>5. PICK L : L = {"consumeState", "loadProvider", "findUser", "createUser", "listRoleMappings",
                            "getMember", "seats", "upsertMember", "upsertIdentity", "createSession"}
    OBVIOUS
  <2>6. CallsOf(CallbackSteps) = L /\ Listed(CallbackSteps)
    BY <2>5, CallbackList
  <2>7. L \subseteq {CallbackSteps[n] : n \in 1..10}
    <3>1. Len(CallbackSteps) = 10
      BY DEF CallbackSteps
    <3> QED BY <2>6, <3>1 DEF CallsOf
  <2>8. CallsOfOp(op, L)
    BY <1>7, <2>5, <2>7 DEF CallsOfOp
  <2>9. Known(op, L, m)
    BY <1>7, <2>4, <2>5, <2>8 DEF Known, Given, HeldRows, HeldUser, HeldState
  <2> QED BY <1>0, <2>1, <2>2, <2>4, <2>6, <2>9, StartsWith
<1>8. CASE op = "createProvider"
  <2>1. PICK b \in [kind : {"oidc", "saml"}, enabled : BOOLEAN, signUp : BOOLEAN, secret : {q, Null},
            key : {Null}] :
          Arrives(q, op, CreateProviderSteps, [Blank EXCEPT !.body = b])
    BY <1>8 DEF SignInStart
  <2>2. PICK m : m = [Blank EXCEPT !.body = b]
    OBVIOUS
  <2>3. b \in ProviderRow
    BY <1>0 DEF ProviderRow, MaybeId
  <2>4. m \in AccountMemory /\ m.body = b
    BY <2>2, <2>3, BlankOK DEF AccountMemory
  <2>5. Known(op, {"createProvider"}, m)
    BY <1>8, <2>3, <2>4 DEF Known, CallsOfOp, Given, HeldRows, HeldUser, HeldState
  <2> QED BY <1>0, <2>1, <2>2, <2>4, <2>5, SignInLists, StartsWith
<1>9. CASE op = "updateProvider"
  <2>1. PICK b \in [kind : {"oidc", "saml"}, enabled : BOOLEAN, signUp : BOOLEAN, secret : {q, Null},
            key : {Null}] :
          Arrives(q, op, UpdateProviderSteps, [Blank EXCEPT !.body = b])
    BY <1>9 DEF SignInStart
  <2>2. PICK m : m = [Blank EXCEPT !.body = b]
    OBVIOUS
  <2>3. b \in ProviderRow
    BY <1>0 DEF ProviderRow, MaybeId
  <2>4. m \in AccountMemory /\ m.body = b
    BY <2>2, <2>3, BlankOK DEF AccountMemory
  <2>5. Known(op, {"load", "updateProvider"}, m)
    BY <1>9, <2>3, <2>4 DEF Known, CallsOfOp, Given, HeldRows, HeldUser, HeldState
  <2> QED BY <1>0, <2>1, <2>2, <2>4, <2>5, SignInLists, StartsWith
<1>10. CASE op = "deleteProvider"
  <2>1. Arrives(q, op, DeleteProviderSteps, Blank)
    BY <1>10 DEF SignInStart
  <2>2. PICK m : m = Blank
    OBVIOUS
  <2>3. m \in AccountMemory
    BY <1>0, <2>2, BlankOK DEF AccountMemory, MaybeId
  <2>4. Known(op, {"load", "deleteProvider"}, m)
    BY <1>0, <1>10, <2>1, <2>3 DEF Known, CallsOfOp, Given, HeldRows, HeldUser, HeldState
  <2> QED BY <2>1, <2>2, <2>3, <2>4, SignInLists, <1>0, StartsWith
<1>11. CASE op = "samlMetadata"
  <2>1. Arrives(q, op, SAMLMetadataSteps, Blank)
    BY <1>11 DEF SignInStart
  <2>2. PICK m : m = Blank
    OBVIOUS
  <2>3. m \in AccountMemory
    BY <1>0, <2>2, BlankOK DEF AccountMemory, MaybeId
  <2>4. Known(op, {"load", "ensureKeypair"}, m)
    BY <1>0, <1>11, <2>1, <2>3 DEF Known, CallsOfOp, Given, HeldRows, HeldUser, HeldState
  <2> QED BY <2>1, <2>2, <2>3, <2>4, SignInLists, <1>0, StartsWith
<1>12. CASE op = "createRule"
  <2>1. PICK i \in {q}, r \in {"editor", "admin"} :
            Arrives(q, op, CreateRoleMappingSteps, [Blank EXCEPT !.aux = i, !.role = r])
    BY <1>12 DEF SignInStart
  <2>2. PICK m : m = [Blank EXCEPT !.aux = i, !.role = r]
    OBVIOUS
  <2>3. m \in AccountMemory
    BY <1>0, <2>2, BlankOK DEF AccountMemory, MaybeId, Roles
  <2>4. Known(op, {"load", "createRule"}, m)
    BY <1>0, <1>12, <2>1, <2>3 DEF Known, CallsOfOp, Given, HeldRows, HeldUser, HeldState, Roles
  <2> QED BY <2>1, <2>2, <2>3, <2>4, SignInLists, <1>0, StartsWith
<1>13. CASE op = "updateRule"
  <2>1. PICK i \in DOMAIN db.rules, r \in {"editor", "admin"} :
            Arrives(q, op, UpdateRoleMappingSteps, [Blank EXCEPT !.aux = i, !.role = r])
    BY <1>13 DEF SignInStart
  <2>2. PICK m : m = [Blank EXCEPT !.aux = i, !.role = r]
    OBVIOUS
  <2>3. m \in AccountMemory
    BY <1>0, <2>2, BlankOK DEF AccountMemory, MaybeId, Roles
  <2>4. Known(op, {"load", "updateRule"}, m)
    BY <1>0, <1>13, <2>1, <2>3 DEF Known, CallsOfOp, Given, HeldRows, HeldUser, HeldState, Roles
  <2> QED BY <2>1, <2>2, <2>3, <2>4, SignInLists, <1>0, StartsWith
<1>14. CASE op = "deleteRule"
  <2>1. PICK i \in DOMAIN db.rules, r \in {"editor", "admin"} :
            Arrives(q, op, DeleteRoleMappingSteps, [Blank EXCEPT !.aux = i, !.role = r])
    BY <1>14 DEF SignInStart
  <2>2. PICK m : m = [Blank EXCEPT !.aux = i, !.role = r]
    OBVIOUS
  <2>3. m \in AccountMemory
    BY <1>0, <2>2, BlankOK DEF AccountMemory, MaybeId, Roles
  <2>4. Known(op, {"load", "deleteRule"}, m)
    BY <1>0, <1>14, <2>1, <2>3 DEF Known, CallsOfOp, Given, HeldRows, HeldUser, HeldState, Roles
  <2> QED BY <2>1, <2>2, <2>3, <2>4, SignInLists, <1>0, StartsWith
<1>15. CASE op = "createDomain"
  <2>1. Arrives(q, op, CreateDomainSteps, Blank)
    BY <1>15 DEF SignInStart
  <2>2. PICK m : m = Blank
    OBVIOUS
  <2>3. m \in AccountMemory
    BY <1>0, <2>2, BlankOK DEF AccountMemory, MaybeId
  <2>4. Known(op, {"listDomains", "createDomain"}, m)
    BY <1>15, PlainKnown DEF Special
  <2> QED BY <2>1, <2>2, <2>3, <2>4, SignInLists, <1>0, StartsWith
<1>16. CASE op = "updateDomain"
  <2>1. PICK d \in DOMAIN db.domains : Arrives(q, op, UpdateDomainSteps, [Blank EXCEPT !.ref = d])
    BY <1>16 DEF SignInStart
  <2>2. PICK m : m = [Blank EXCEPT !.ref = d]
    OBVIOUS
  <2>3. m \in AccountMemory
    BY <1>0, <2>2, BlankOK DEF AccountMemory, MaybeId
  <2>4. Known(op, {"updateDomain"}, m)
    BY <1>16, PlainKnown DEF Special
  <2> QED BY <2>1, <2>2, <2>3, <2>4, SignInLists, <1>0, StartsWith
<1>17. CASE op = "deleteDomain"
  <2>1. PICK d \in DOMAIN db.domains : Arrives(q, op, DeleteDomainSteps, [Blank EXCEPT !.ref = d])
    BY <1>17 DEF SignInStart
  <2>2. PICK m : m = [Blank EXCEPT !.ref = d]
    OBVIOUS
  <2>3. m \in AccountMemory
    BY <1>0, <2>2, BlankOK DEF AccountMemory, MaybeId
  <2>4. Known(op, {"deleteDomain"}, m)
    BY <1>17, PlainKnown DEF Special
  <2> QED BY <2>1, <2>2, <2>3, <2>4, SignInLists, <1>0, StartsWith
<1> QED BY <1>1, <1>2, <1>3, <1>4, <1>5, <1>6, <1>7, <1>8, <1>9, <1>10, <1>11, <1>12, <1>13, <1>14,
        <1>15, <1>16, <1>17 DEF SignInOps

LEMMA TokenStartOK ==
    ASSUME AccountsInv, NEW q \in Requests, NEW op \in TokenOps, TokenStart(q, op)
    PROVE  AccountsInv'
<1>0. /\ DOMAIN db.orgs \subseteq Ids /\ DOMAIN db.accounts \subseteq Ids /\ DOMAIN db.tokens \subseteq Ids
      /\ DOMAIN db.installStates \subseteq Ids /\ op \in AllOps /\ UNCHANGED <<db, failedOpen>>
  BY DEF AccountsInv, DbOK, OrgsOK, AccountsOK, TokensOK, OthersOK, AllOps, TokenStart
<1>1. CASE op = "createAccount"
  <2>1. PICK o \in DOMAIN db.orgs : Arrives(q, op, CreateServiceAccountSteps, [Blank EXCEPT !.org = o])
    BY <1>1 DEF TokenStart
  <2>2. PICK m : m = [Blank EXCEPT !.org = o]
    OBVIOUS
  <2>3. m \in AccountMemory
    BY <1>0, <2>2, BlankOK DEF AccountMemory, MaybeId
  <2>4. Known(op, {"createAccount"}, m)
    BY <1>1, PlainKnown DEF Special
  <2> QED BY <2>1, <2>2, <2>3, <2>4, TokenLists, <1>0, StartsWith
<1>2. CASE op = "updateAccount"
  <2>1. PICK a \in DOMAIN db.accounts : Arrives(q, op, UpdateServiceAccountSteps, [Blank EXCEPT !.ref = a])
    BY <1>2 DEF TokenStart
  <2>2. PICK m : m = [Blank EXCEPT !.ref = a]
    OBVIOUS
  <2>3. m \in AccountMemory
    BY <1>0, <2>2, BlankOK DEF AccountMemory, MaybeId
  <2>4. Known(op, {"getAccount", "updateAccount"}, m)
    BY <1>2, PlainKnown DEF Special
  <2> QED BY <2>1, <2>2, <2>3, <2>4, TokenLists, <1>0, StartsWith
<1>3. CASE op = "deleteAccount"
  <2>1. PICK a \in DOMAIN db.accounts : Arrives(q, op, DeleteServiceAccountSteps, [Blank EXCEPT !.ref = a])
    BY <1>3 DEF TokenStart
  <2>2. PICK m : m = [Blank EXCEPT !.ref = a]
    OBVIOUS
  <2>3. m \in AccountMemory
    BY <1>0, <2>2, BlankOK DEF AccountMemory, MaybeId
  <2>4. Known(op, {"getAccount", "deleteAccount"}, m)
    BY <1>3, PlainKnown DEF Special
  <2> QED BY <2>1, <2>2, <2>3, <2>4, TokenLists, <1>0, StartsWith
<1>4. CASE op = "createToken"
  <2>1. PICK a \in DOMAIN db.accounts : Arrives(q, op, CreateTokenSteps, [Blank EXCEPT !.ref = a])
    BY <1>4 DEF TokenStart
  <2>2. PICK m : m = [Blank EXCEPT !.ref = a]
    OBVIOUS
  <2>3. m \in AccountMemory
    BY <1>0, <2>2, BlankOK DEF AccountMemory, MaybeId
  <2>4. Known(op, {"createToken"}, m)
    BY <1>4, PlainKnown DEF Special
  <2> QED BY <2>1, <2>2, <2>3, <2>4, TokenLists, <1>0, StartsWith
<1>5. CASE op = "revokeToken"
  <2>1. PICK t \in DOMAIN db.tokens : Arrives(q, op, RevokeTokenSteps, [Blank EXCEPT !.aux = t])
    BY <1>5 DEF TokenStart
  <2>2. PICK m : m = [Blank EXCEPT !.aux = t]
    OBVIOUS
  <2>3. m \in AccountMemory
    BY <1>0, <2>2, BlankOK DEF AccountMemory, MaybeId
  <2>4. Known(op, {"revokeToken"}, m)
    BY <1>5, PlainKnown DEF Special
  <2> QED BY <2>1, <2>2, <2>3, <2>4, TokenLists, <1>0, StartsWith
<1>6. CASE op = "createOrgByKey"
  <2>1. PICK t \in DOMAIN db.tokens : Arrives(q, op, CreateOrgByKeySteps, [Blank EXCEPT !.aux = t])
    BY <1>6 DEF TokenStart
  <2>2. PICK m : m = [Blank EXCEPT !.aux = t]
    OBVIOUS
  <2>3. m \in AccountMemory
    BY <1>0, <2>2, BlankOK DEF AccountMemory, MaybeId
  <2>4. Known(op, {"getToken", "getKeyAccount", "createOrg", "createSystemAccount"}, m)
    BY <1>6, PlainKnown DEF Special
  <2> QED BY <2>1, <2>2, <2>3, <2>4, TokenLists, <1>0, StartsWith
<1>7. CASE op = "importToken"
  <2>1. Arrives(q, op, CreateImportTokenSteps, Blank)
    BY <1>7 DEF TokenStart
  <2>2. PICK m : m = Blank
    OBVIOUS
  <2>3. m \in AccountMemory
    BY <1>0, <2>2, BlankOK DEF AccountMemory, MaybeId, CreateImportTokenSteps
  <2>4. Known(op, {"getInstallation", "findImportAccount", "listTokens", "revokeTokens", "createToken"}, m)
    BY <1>0, <1>7, <2>1, <2>3 DEF Known, CallsOfOp, Given, HeldRows, HeldUser, HeldState,
        CreateImportTokenSteps
  <2> QED BY <2>1, <2>2, <2>3, <2>4, TokenLists, <1>0, StartsWith
<1>8. CASE op = "install"
  <2>1. Arrives(q, op, InstallSteps, Blank)
    BY <1>8 DEF TokenStart
  <2>2. PICK m : m = Blank
    OBVIOUS
  <2>3. m \in AccountMemory
    BY <1>0, <2>2, BlankOK DEF AccountMemory, MaybeId
  <2>4. Known(op, {"createInstallState"}, m)
    BY <1>8, PlainKnown DEF Special
  <2> QED BY <2>1, <2>2, <2>3, <2>4, TokenLists, <1>0, StartsWith
<1>9. CASE op = "authorize"
  <2>1. PICK s \in DOMAIN db.installStates, g \in GitHubUsers :
            Arrives(q, op, CallbackAuthorizeSteps, [Blank EXCEPT !.ref = s, !.change = g])
    BY <1>9 DEF TokenStart
  <2>2. PICK m : m = [Blank EXCEPT !.ref = s, !.change = g]
    OBVIOUS
  <2>3. m \in AccountMemory /\ m.change = g
    BY <1>0, <2>2, BlankOK DEF AccountMemory, MaybeId, GitHubUsers
  <2>4. Known(op, {"authorizeState", "findInstallation", "verifyInstallation", "consumeInstallState",
            "upsertInstallation"}, m)
    BY <1>0, <1>9, <2>1, <2>3 DEF Known, CallsOfOp, Given, HeldRows, HeldUser, HeldState, GitHubUsers
  <2> QED BY <2>1, <2>2, <2>3, <2>4, TokenLists, <1>0, StartsWith
<1>10. CASE op = "installed"
  <2>1. PICK s \in DOMAIN db.installStates, g \in GitHubUsers, i \in Ids :
            Arrives(q, op, CallbackInstalledSteps, [Blank EXCEPT !.ref = s, !.change = g, !.aux = i])
    BY <1>10 DEF TokenStart
  <2>2. PICK m : m = [Blank EXCEPT !.ref = s, !.change = g, !.aux = i]
    OBVIOUS
  <2>3. m \in AccountMemory
    BY <1>0, <2>2, BlankOK DEF AccountMemory, MaybeId, GitHubUsers
  <2>4. Known(op, {"verifyInstallation", "consumeInstallState", "upsertInstallation"}, m)
    BY <1>10, PlainKnown DEF Special
  <2> QED BY <2>1, <2>2, <2>3, <2>4, TokenLists, <1>0, StartsWith
<1>11. CASE op = "uninstall"
  <2>1. Arrives(q, op, DeleteInstallationSteps, Blank)
    BY <1>11 DEF TokenStart
  <2>2. PICK m : m = Blank
    OBVIOUS
  <2>3. m \in AccountMemory
    BY <1>0, <2>2, BlankOK DEF AccountMemory, MaybeId
  <2>4. Known(op, {"getInstallation", "deleteAtGitHub", "deleteInstallation"}, m)
    BY <1>11, PlainKnown DEF Special
  <2> QED BY <2>1, <2>2, <2>3, <2>4, TokenLists, <1>0, StartsWith
<1> QED BY <1>1, <1>2, <1>3, <1>4, <1>5, <1>6, <1>7, <1>8, <1>9, <1>10, <1>11 DEF TokenOps

LEMMA BootStartOK ==
    ASSUME AccountsInv, NEW q \in Requests, NEW op \in BootOps, BootStart(q, op), UNCHANGED <<db, failedOpen>>
    PROVE  AccountsInv'
<1>0. op \in AllOps
  BY DEF AllOps
<1>1. CASE op = "boot"
  <2>1. Arrives(q, op, BootSteps, [Blank EXCEPT !.role = "admin"])
    BY <1>1 DEF BootStart
  <2>2. PICK m : m = [Blank EXCEPT !.role = "admin"]
    OBVIOUS
  <2>3. m \in AccountMemory
    BY <1>0, <2>2, BlankOK DEF AccountMemory, MaybeId, Roles, BootSteps
  <2>4. Known(op, {"isApplied", "anyUser", "createOrg", "upsertUser", "addMember"}, m)
    BY <1>0, <1>1, <2>1, <2>3 DEF Known, CallsOfOp, Given, HeldRows, HeldUser, HeldState, Roles, BootSteps
  <2> QED BY <2>1, <2>2, <2>3, <2>4, BootLists, <1>0, StartsWith
<1> QED BY <1>1 DEF BootOps

(***************************************************************************)
(* The specification.                                                      *)
(***************************************************************************)
LEMMA NothingOK ==
    ASSUME db = Nothing
    PROVE  DbOK
<1>1. DOMAIN Empty = {} /\ Null \in MaybeId
  BY DEF Empty, MaybeId
<1>2. PICK e : e = Empty
  OBVIOUS
<1>3. /\ DOMAIN db = Fields
      /\ db.users = e /\ db.orgs = e /\ db.members = e /\ db.teams = e /\ db.teamMembers = e
      /\ db.accounts = e /\ db.tokens = e /\ db.sessions = e /\ db.providers = e /\ db.rules = e
      /\ db.loginStates = e /\ db.domains = e /\ db.attempts = 0 /\ db.installStates = e
           /\ db.installation = Null
  BY <1>2 DEF Nothing, Fields
<1>4. DOMAIN e = {}
  BY <1>1, <1>2
<1> QED BY <1>1, <1>3, <1>4 DEF DbOK, UsersOK, OrgsOK, MembersOK, SessionsOK, TeamsOK, AccountsOK, TokensOK,
                           ProvidersOK, OthersOK

LEMMA PopulatedOK ==
    ASSUME NEW disabled \in BOOLEAN, NEW name \in {"System", "GitHub Import", "other"}, NEW i \in {Null,
           Seed},
           db = [Populated(disabled, name) EXCEPT !.installation = i]
    PROVE  DbOK
<1>1. PICK b \in BOOLEAN : b <=> name = "System"
  BY Zenon
<1>2. (name = "System") = b
  BY <1>1
<1>3. PICK us, os, ms, ts, as, ks, ss, ps, rs, ls, is, e :
        /\ us = Only([email |-> SeedEmail, login |-> SeedEmail, password |-> Seed,
                      disabled |-> disabled, serverAdmin |-> FALSE])
        /\ os = Only([name |-> Seed, autoJoin |-> Seed, onboarded |-> FALSE])
        /\ ms = [k \in {<<Seed, Seed>>} |-> [role |-> "admin", source |-> "manual"]]
        /\ ts = Only(Seed)
        /\ as = Only([org |-> Seed, name |-> name, internal |-> name = "System",
                      disabled |-> FALSE, deleted |-> FALSE])
        /\ ks = Only([account |-> Seed, name |-> IF name = "GitHub Import" THEN "repository"
                                                 ELSE "other", revoked |-> FALSE])
        /\ ss = Only([user |-> Seed, state |-> Null, began |-> Null, ended |-> Null])
        /\ ps = Only([kind |-> "saml", enabled |-> TRUE, signUp |-> TRUE, secret |-> Seed, key |-> Null])
        /\ rs = Only([provider |-> Seed, role |-> "editor"])
        /\ ls = Only(Seed)
        /\ is = Only([github |-> Null, consumed |-> FALSE])
        /\ e = Empty
  OBVIOUS
<1>4. /\ DOMAIN db = Fields /\ db.users = us /\ db.orgs = os /\ db.members = ms /\ db.teams = ts
      /\ db.teamMembers = e /\ db.accounts = as /\ db.tokens = ks /\ db.sessions = ss /\ db.providers = ps
      /\ db.rules = rs /\ db.loginStates = ls /\ db.domains = e /\ db.attempts = 0 /\ db.installStates = is
      /\ db.installation = i
  BY <1>3 DEF Populated, Nothing, Fields
<1>5. Seed \in Ids /\ Seed \in MaybeId /\ Null \in MaybeId /\ SeedEmail \in Emails /\ SeedEmail # AdminLogin
  BY AccountTablesAssumption DEF Ids, MaybeId
<1>6. UsersOK(us) /\ OrgsOK(os) /\ DOMAIN us = {Seed} /\ DOMAIN os = {Seed}
  BY <1>3, <1>5 DEF UsersOK, OrgsOK, Only, NamedUser, UserRow, OrgRow
<1>7. MembersOK(ms, us, os)
  <2>1. PICK k : k = <<Seed, Seed>>
    OBVIOUS
  <2>2. k \in Ids \X Ids /\ k[1] = Seed /\ k[2] = Seed
    BY <1>5, <2>1
  <2>3. PICK row : row = [role |-> "admin", source |-> "manual"]
    OBVIOUS
  <2>4. row \in MemberRow
    BY <2>3 DEF MemberRow, Roles
  <2>5. DOMAIN ms = {k} /\ ms[k] = row
    <3>1. ms = [x \in {k} |-> row]
      BY <1>3, <2>1, <2>3
    <3> QED BY <3>1
  <2> QED BY <1>6, <2>2, <2>4, <2>5 DEF MembersOK
<1>8. SessionsOK(ss, us)
  BY <1>3, <1>5, <1>6 DEF SessionsOK, SessionRow, Only
<1>9. DOMAIN e = {}
  BY <1>3 DEF Empty
<1>10. TeamsOK(ts, e, os)
  BY <1>3, <1>5, <1>6, <1>9 DEF TeamsOK, Only
<1>11. AccountsOK(as, os) /\ DOMAIN as = {Seed}
  <2>1. as = Only([org |-> Seed, name |-> name, internal |-> b, disabled |-> FALSE, deleted |-> FALSE])
    BY <1>2, <1>3
  <2> QED BY <1>5, <1>6, <2>1 DEF AccountsOK, AccountRow, Only
<1>12. TokensOK(ks, as)
  BY <1>3, <1>5, <1>11 DEF TokensOK, TokenRow, Only
<1>13. ProvidersOK(ps, rs, ls)
  BY <1>3, <1>5 DEF ProvidersOK, ProviderRow, Roles, Only
<1>14. OthersOK(e, 0, is, i)
  BY <1>3, <1>5, <1>9 DEF OthersOK, StateRow, Only
<1> QED BY <1>4, <1>6, <1>7, <1>8, <1>10, <1>11, <1>12, <1>13, <1>14 DEF DbOK

LEMMA AccountsInit ==
    ASSUME Init
    PROVE  AccountsInv /\ GithubInv
<1>1. \A q \in Requests : proc[q].op = "none" /\ proc[q].todo = <<>> /\ proc[q].mem = NoMem
  BY DEF Init, ReqsInit
<1>2. ProcType
  BY DEF Init, ReqsInit, ProcType, ReqsType
<1>3. \A q \in Requests : Knows(q)
  BY <1>1, NoCalls DEF Knows, Left
<1>4. DbOK /\ GithubInv
  <2>1. CASE "boot" \in workload.ops
    <3>1. db = Nothing /\ github = [has |-> {}, had |-> {}]
      BY <2>1 DEF Init
    <3> QED BY <3>1, NothingOK DEF GithubInv
  <2>2. CASE "boot" \notin workload.ops
    <3>1. PICK disabled \in BOOLEAN, i \in {Null, Seed} :
            /\ db = [Populated(disabled, workload.account) EXCEPT !.installation = i]
            /\ github = [has |-> {i} \ {Null}, had |-> {}]
      BY <2>2 DEF Init
    <3>2. workload.account \in {"System", "GitHub Import", "other"}
      BY AccountsAssumption DEF Init
    <3>3. DbOK
      BY <3>1, <3>2, PopulatedOK
    <3>4. GithubInv
      BY <3>1 DEF GithubInv, Ids
    <3> QED BY <3>3, <3>4
  <2> QED BY <2>1, <2>2
<1>5. failedOpen \in BOOLEAN
  BY DEF Init
<1> QED BY <1>2, <1>3, <1>4, <1>5 DEF AccountsInv

LEMMA AccountsStep ==
    ASSUME AccountsInv, GithubInv, [Next]_vars
    PROVE  AccountsInv' /\ GithubInv'
<1>1. ASSUME NEW q \in Requests, Starts(q)
      PROVE  AccountsInv' /\ GithubInv'
  <2>1. PICK op \in workload.ops :
          \/ /\ \/ op \in PeopleOps /\ PeopleStart(q, op)
                \/ op \in SignInOps /\ SignInStart(q, op)
                \/ op \in BootOps /\ BootStart(q, op)
             /\ UNCHANGED <<db, failedOpen, githubVars>>
          \/ op \in TokenOps /\ TokenStart(q, op)
    BY <1>1 DEF Starts
  <2>2. UNCHANGED <<db, failedOpen, githubVars>>
    BY <2>1 DEF TokenStart
  <2> QED BY <2>1, <2>2, PeopleStartOK, SignInStartOK, BootStartOK, TokenStartOK DEF GithubInv, githubVars
<1>2. ASSUME NEW q \in Requests, SharedStep(q) \/ PeopleStep(q) \/ SignInStep(q) \/ BootStep(q),
          UNCHANGED githubVars
      PROVE  AccountsInv' /\ GithubInv'
  BY <1>2, SharedOK, PeopleOK, SignInOK, BootOK DEF GithubInv, githubVars
<1>3. ASSUME NEW q \in Requests, Aborts(q), UNCHANGED <<db, failedOpen, githubVars>>
      PROVE  AccountsInv' /\ GithubInv'
  BY <1>3, RefusesOK DEF GithubInv, githubVars
<1>4. ASSUME UNCHANGED <<proc, clean, db, failedOpen>>
      PROVE  AccountsInv'
  <2>1. ProcType' /\ DbOK' /\ failedOpen' \in BOOLEAN
    BY <1>4 DEF AccountsInv, ProcType, ReqsType, DbOK
  <2>2. \A p \in Requests : Knows(p)'
    BY <1>4, StillKnows DEF AccountsInv, Stay
  <2> QED BY <2>1, <2>2 DEF AccountsInv
<1>5. ASSUME NEW i \in Ids, InstalledAtGitHub(i)
      PROVE  AccountsInv' /\ GithubInv'
  <2>1. github' = [github EXCEPT !.has = @ \cup {i}] /\ UNCHANGED <<proc, clean, db, failedOpen>>
    BY <1>5 DEF InstalledAtGitHub
  <2>2. GithubInv'
    BY <2>1 DEF GithubInv
  <2> QED BY <1>4, <2>1, <2>2
<1>6. CASE UNCHANGED vars
  <2>1. UNCHANGED <<proc, clean, db, failedOpen>> /\ UNCHANGED github
    BY <1>6 DEF vars, githubVars
  <2> QED BY <1>4, <2>1 DEF GithubInv
<1>7. CASE Next
  BY <1>1, <1>2, <1>3, <1>5, <1>7, TokensStepOK DEF Next
<1> QED BY <1>6, <1>7

LEMMA AccountsInvariant == Spec => [](AccountsInv /\ GithubInv)
<1>1. Init => AccountsInv /\ GithubInv
  BY AccountsInit
<1>2. AccountsInv /\ GithubInv /\ [Next]_vars => AccountsInv' /\ GithubInv'
  BY AccountsStep
<1> QED BY <1>1, <1>2, PTL DEF Spec

\* The tables, the requests and what they hold keep their types, and with them
\* the tables' unique columns, whatever overlaps or fails (TypeOK).
THEOREM AccountsTypeCorrect == Spec => []TypeOK
<1>1. AccountsInv => TypeOK
  <2> SUFFICES ASSUME AccountsInv PROVE TypeOK
    OBVIOUS
  <2>1. /\ ProcType /\ failedOpen \in BOOLEAN /\ UsersOK(db.users) /\ OrgsOK(db.orgs)
        /\ MembersOK(db.members, db.users, db.orgs) /\ SessionsOK(db.sessions, db.users)
        /\ AccountsOK(db.accounts, db.orgs) /\ TokensOK(db.tokens, db.accounts)
        /\ ProvidersOK(db.providers, db.rules, db.loginStates)
        /\ OthersOK(db.domains, db.attempts, db.installStates, db.installation)
    BY DEF AccountsInv, DbOK
  <2> QED BY <2>1 DEF TypeOK, ProcType, AllOps, AllCalls, UsersOK, NamedUser, OrgsOK, MembersOK, SessionsOK,
                      AccountsOK, TokensOK, ProvidersOK, OthersOK
<1> QED BY <1>1, AccountsInvariant, PTL

\* Nothing refers to what is not there (NothingDangles), however many requests
\* hold an organisation or a provider while another deletes it.
THEOREM AccountsNothingDangles == Spec => []NothingDangles
<1>1. AccountsInv => NothingDangles
  <2> SUFFICES ASSUME AccountsInv PROVE NothingDangles
    OBVIOUS
  <2>1. /\ MembersOK(db.members, db.users, db.orgs) /\ SessionsOK(db.sessions, db.users)
        /\ TeamsOK(db.teams, db.teamMembers, db.orgs)
        /\ AccountsOK(db.accounts, db.orgs) /\ TokensOK(db.tokens, db.accounts)
        /\ ProvidersOK(db.providers, db.rules, db.loginStates)
    BY DEF AccountsInv, DbOK
  <2>2. \A r \in DOMAIN db.rules : db.rules[r].provider \in DOMAIN db.providers
    BY <2>1 DEF ProvidersOK
  <2> QED BY <2>1, <2>2 DEF NothingDangles, MembersOK, SessionsOK, TeamsOK, AccountsOK, TokensOK, ProvidersOK
<1> QED BY <1>1, AccountsInvariant, PTL

(***************************************************************************)
(* What a step of a request writes and forgets.                            *)
(***************************************************************************)
\* The calls that may write a table.
Writers(f) ==
    IF f = "users" THEN {"createUser", "updateUser", "disableUser", "upsertUser"}
    ELSE IF f = "orgs" THEN {"createOrg", "updateOrg", "setOnboardingDone", "deleteOrg"}
    ELSE IF f = "members" THEN {"addMember", "upsertMember", "updateMemberRole", "removeMember", "deleteOrg"}
    ELSE IF f = "accounts" THEN Inserters \cup {"updateAccount", "deleteAccount", "deleteOrg"}
    ELSE IF f = "tokens" THEN {"createToken", "revokeToken", "revokeTokens", "deleteOrg"}
    ELSE IF f = "sessions" THEN {"createSession", "deleteSession"}
    ELSE IF f = "loginStates" THEN {"createLoginState", "consumeState", "deleteProvider", "deleteOrg"}
    ELSE IF f = "domains" THEN {"createDomain", "updateDomain", "deleteDomain", "deleteOrg"}
    ELSE IF f = "attempts" THEN {"recordAttempt"}
    ELSE IF f = "providers" THEN {"createProvider", "updateProvider", "ensureKeypair", "deleteProvider",
        "deleteOrg"}
    ELSE IF f = "teamMembers" THEN {"joinTeam", "leaveTeam", "leaveTeams", "deleteTeam", "deleteOrg"}
    ELSE IF f = "installStates" THEN {"createInstallState", "authorizeState", "consumeInstallState",
        "deleteOrg"}
    ELSE AllCalls

\* The call c leaves the tables it does not write as they are.
Spares(c, new) == \A f \in Fields : c \notin Writers(f) => new[f] = db[f]

\* What a request that held m before the call c and holds n after it still knows.
Recalls(c, m, n) ==
    /\ c \notin {"createUser", "upsertUser", "findLogin", "getSession", "findUser"} => n.user = m.user
    /\ c # "createOrg" => n.org = m.org
    /\ c \notin {"getToken", "findImportAccount", "createImportAccount"} => n.ref = m.ref
    /\ c # "getMember" => n.isMember = m.isMember
    /\ c # "listRoleMappings" => n.role = m.role
    /\ c \notin {"listTokens", "revokeTokens"} => n.listed = m.listed
    /\ c \notin {"consumeState", "findInstallation", "getInstallation"} => n.aux = m.aux
    /\ c \notin {"load", "loadProvider"} => n.provider = m.provider
    /\ c \notin {"load", "loadProvider", "getUser", "getOrg"} => n.held = m.held
    /\ n.change = m.change

\* Calls that are made again, or that other calls are put before.
Loops == {"findImportAccount", "revokeTokens", "isApplied"}

Advances(q, c) ==
    \/ Ended(q)
    \/ \E n : Moved(q, c, n) /\ Recalls(c, Mem(q), n)
    \/ /\ c \in Loops /\ Others(q) /\ Op(q)' = Op(q)
       /\ Left(q)' \subseteq Left(q) \cup {"createImportAccount", "applyMigration"}
       /\ Left(q) \subseteq Left(q)' \cup {c}
       /\ \E n : Recalls(c, Mem(q), n) /\ (Left(q)' # {} => Mem(q)' = n)

Foot(q, c) ==
    /\ At(q, c) /\ Spares(c, db') /\ Advances(q, c) /\ (clean' => clean)
    /\ c # "consumeInstallState" => linked' = linked
    /\ c # "seats" => failedOpen' = failedOpen

LEMMA SparesNothing == \A c : Spares(c, db)
BY DEF Spares

LEMMA SparesOther ==
    ASSUME AccountsInv, NEW f \in Fields, NEW v, NEW c \in Writers(f)
    PROVE  Spares(c, [db EXCEPT ![f] = v])
<1>1. DOMAIN db = Fields
  BY DEF AccountsInv, DbOK
<1> QED BY <1>1 DEF Spares

LEMMA RecallsAll == \A c, m : Recalls(c, m, m)
BY DEF Recalls

\* As KeepsMoves, whatever the request holds then.
LEMMA KeepsAdvances ==
    ASSUME AccountsInv, NEW q \in Requests, NEW c, At(q, c), NEW n, Keeps(q, n), Recalls(c, Mem(q), n)
    PROVE  Advances(q, c) /\ clean' = clean
<1>1. PICK s : s = proc[q].todo
  OBVIOUS
<1>2. s # <<>> /\ Head(s) = c /\ Listed(s)
  BY <1>1, AtCall DEF At
<1>3. PICK t : t = Tail(s)
  OBVIOUS
<1>4. /\ Listed(t) /\ CallsOf(t) \subseteq CallsOf(s) /\ CallsOf(s) \subseteq CallsOf(t) \cup {c}
      /\ \A d \in CallsOf(t) : Precedes(c, d)
      /\ t # s
  BY <1>2, <1>3, TailCalls
<1>5. PICK k : k = IF t = <<>> THEN NoMem ELSE n
  OBVIOUS
<1>6. PICK op : op = proc[q].op
  OBVIOUS
<1>7. /\ proc' = [proc EXCEPT ![q] = [op |-> op, todo |-> t, mem |-> k]] /\ clean' = clean
  BY <1>1, <1>3, <1>5, <1>6 DEF Keeps, Goes
<1>8. DOMAIN proc = Requests
  BY DEF AccountsInv, ProcType, ReqsType
<1>9. /\ Others(q) /\ Op(q)' = op /\ proc'[q].todo = t /\ Left(q)' = CallsOf(t) /\ Mem(q)' = k
  BY <1>7, <1>8 DEF Others, Op, Left, Mem
<1>10. CallsOf(t) # {} => t # <<>>
  BY NoCalls
<1>11. Moved(q, c, n)
  BY <1>1, <1>4, <1>5, <1>6, <1>7, <1>9, <1>10 DEF Moved, Left, Op
<1> QED BY <1>7, <1>11 DEF Advances

LEMMA FootReads ==
    ASSUME AccountsInv, NEW q \in Requests, NEW c, At(q, c), NEW n, Reads(q, n), Recalls(c, Mem(q), n),
           linked' = linked, failedOpen' = failedOpen
    PROVE  Foot(q, c)
<1>1. Keeps(q, n) /\ db' = db
  BY DEF Reads
<1>2. Advances(q, c) /\ clean' = clean
  BY <1>1, KeepsAdvances
<1> QED BY <1>1, <1>2, SparesNothing DEF Foot

LEMMA FootRefuses ==
    ASSUME AccountsInv, NEW q \in Requests, NEW c, At(q, c), Refuses(q),
           linked' = linked, failedOpen' = failedOpen
    PROVE  Foot(q, c)
<1>1. Ends(q) /\ db' = db /\ ProcType
  BY DEF Refuses, AccountsInv
<1>2. Ended(q) /\ (clean' => clean)
  BY <1>1, EndsMoves
<1> QED BY <1>1, <1>2, SparesNothing DEF Foot, Advances

LEMMA FootWrites ==
    ASSUME AccountsInv, NEW q \in Requests, NEW c, At(q, c), NEW new, NEW n, Writes(q, new, n),
           Spares(c, new), Recalls(c, Mem(q), n),
           c # "consumeInstallState" => linked' = linked, failedOpen' = failedOpen
    PROVE  Foot(q, c)
<1>1. Keeps(q, n) /\ db' = new
  BY DEF Writes
<1>2. Advances(q, c) /\ clean' = clean
  BY <1>1, KeepsAdvances
<1> QED BY <1>1, <1>2 DEF Foot

LEMMA FootSets ==
    ASSUME AccountsInv, NEW q \in Requests, NEW c, At(q, c), NEW f \in Fields, c \in Writers(f),
           NEW v, NEW n, Writes(q, [db EXCEPT ![f] = v], n), Recalls(c, Mem(q), n),
           c # "consumeInstallState" => linked' = linked, failedOpen' = failedOpen
    PROVE  Foot(q, c)
BY FootWrites, SparesOther
\* A read of nothing that is kept, a refusal, or a write of the table f.
Plain(q, f) ==
    \/ Reads(q, Mem(q)) \/ Refuses(q) \/ Writes(q, db, Mem(q))
    \/ \E v : Writes(q, [db EXCEPT ![f] = v], Mem(q))

LEMMA FootPlain ==
    ASSUME AccountsInv, NEW q \in Requests, NEW c, At(q, c), NEW f \in Fields, c \in Writers(f),
           Plain(q, f), linked' = linked, failedOpen' = failedOpen
    PROVE  Foot(q, c)
BY FootReads, FootRefuses, FootSets, FootWrites, SparesNothing, RecallsAll DEF Plain

\* A read that is kept, or a refusal.
LEMMA FootLooks ==
    ASSUME AccountsInv, NEW q \in Requests, NEW c, At(q, c), NEW n, Reads(q, n) \/ Refuses(q),
           Recalls(c, Mem(q), n), linked' = linked, failedOpen' = failedOpen
    PROVE  Foot(q, c)
BY FootReads, FootRefuses

\* Calls that write nothing.
LEMMA FootIdle ==
    ASSUME AccountsInv, NEW q \in Requests, NEW c, At(q, c), Reads(q, Mem(q)) \/ Refuses(q),
           linked' = linked, failedOpen' = failedOpen
    PROVE  Foot(q, c)
BY FootReads, FootRefuses, RecallsAll

LEMMA SharedFoot ==
    ASSUME AccountsInv, NEW q \in Requests, SharedStep(q), linked' = linked
    PROVE  \E c \in SharedCalls : Foot(q, c)
<1>1. ASSUME EmailFree(q) PROVE Foot(q, "emailFree")
  BY <1>1, FootIdle DEF EmailFree
<1>2. ASSUME CreateUser(q) PROVE Foot(q, "createUser")
  <2>1. At(q, "createUser") /\ failedOpen' = failedOpen
    BY <1>2 DEF CreateUser
  <2>2. PICK m, n : m = Mem(q) /\ m \in AccountMemory /\ n = [m EXCEPT !.user = q]
    BY <2>1, AtCall
  <2>3. Recalls("createUser", m, n)
    BY <2>2 DEF Recalls, AccountMemory
  <2>4. PICK us : us = With(db.users, q, NewUser(q, m.email, IF Op(q) = "callback" THEN Null ELSE q))
    OBVIOUS
  <2>5. Reads(q, m) \/ Refuses(q) \/ Writes(q, [db EXCEPT !.users = us], n)
    BY <1>2, <2>2, <2>4 DEF CreateUser
  <2>6. "users" \in Fields /\ "createUser" \in Writers("users")
    BY DEF Fields, Writers
  <2> QED BY <2>1, <2>2, <2>3, <2>5, <2>6, FootIdle, FootSets
<1>3. ASSUME CreateOrg(q) PROVE Foot(q, "createOrg")
  <2>1. At(q, "createOrg") /\ failedOpen' = failedOpen
    BY <1>3 DEF CreateOrg
  <2>2. PICK m, n : m = Mem(q) /\ m \in AccountMemory /\ n = [m EXCEPT !.org = q]
    BY <2>1, AtCall
  <2>3. Recalls("createOrg", m, n)
    BY <2>2 DEF Recalls, AccountMemory
  <2>4. PICK v : Writes(q, [db EXCEPT !.orgs = v], n)
    BY <1>3, <2>2 DEF CreateOrg
  <2>5. "orgs" \in Fields /\ "createOrg" \in Writers("orgs")
    BY DEF Fields, Writers
  <2> QED BY <2>1, <2>2, <2>3, <2>4, <2>5, FootSets
<1>4. ASSUME AddMember(q) PROVE Foot(q, "addMember")
  <2>1. Plain(q, "members")
    BY <1>4 DEF AddMember, Plain
  <2>2. "members" \in Fields /\ "addMember" \in Writers("members")
    BY DEF Fields, Writers
  <2> QED BY <1>4, <2>1, <2>2, FootPlain DEF AddMember
<1>5. ASSUME SeatLimitReached(q) PROVE Foot(q, "seats")
  BY <1>5, FootIdle DEF SeatLimitReached
<1>6. ASSUME SeatLimitUnknown(q) PROVE Foot(q, "seats")
  <2>1. At(q, "seats") /\ Skips(q) /\ db' = db
    BY <1>6 DEF SeatLimitUnknown
  <2>2. Mem(q) \in AccountMemory /\ Listed(proc[q].todo) /\ ProcType
    BY <2>1, AtCall DEF AccountsInv
  <2>3. Moved(q, "seats", Mem(q)) /\ clean' = FALSE
    BY <2>1, <2>2, SkipsMoves
  <2> QED BY <2>1, <2>3, SparesNothing, RecallsAll DEF Foot, Advances
<1>7. ASSUME CreateSystemAccount(q) PROVE Foot(q, "createSystemAccount")
  <2>1. Plain(q, "accounts")
    BY <1>7 DEF CreateSystemAccount, Plain
  <2>2. "accounts" \in Fields /\ "createSystemAccount" \in Writers("accounts")
    BY DEF Fields, Writers, Inserters
  <2> QED BY <1>7, <2>1, <2>2, FootPlain DEF CreateSystemAccount
<1>8. ASSUME CreateSession(q) PROVE Foot(q, "createSession")
  <2>1. Plain(q, "sessions")
    BY <1>8 DEF CreateSession, Plain
  <2>2. "sessions" \in Fields /\ "createSession" \in Writers("sessions")
    BY DEF Fields, Writers
  <2> QED BY <1>8, <2>1, <2>2, FootPlain DEF CreateSession
<1> QED BY <1>1, <1>2, <1>3, <1>4, <1>5, <1>6, <1>7, <1>8 DEF SharedStep, SharedCalls

LEMMA PeopleFoot ==
    ASSUME AccountsInv, NEW q \in Requests, PeopleStep(q), linked' = linked
    PROVE  \E c : Foot(q, c)
<1>0. failedOpen' = failedOpen
  BY DEF PeopleStep
<1> USE <1>0
<1>1. ASSUME GetOrg(q) PROVE Foot(q, "getOrg")
  <2>1. At(q, "getOrg") /\ Mem(q) \in AccountMemory
    BY <1>1, AtCall DEF GetOrg
  <2>2. Reads(q, Mem(q)) \/ Refuses(q) \/ \E v0 : Reads(q, [Mem(q) EXCEPT !.held = v0])
    BY <1>1 DEF GetOrg
  <2>3. \A v0 : Recalls("getOrg", Mem(q), [Mem(q) EXCEPT !.held = v0])
    BY <2>1 DEF Recalls, AccountMemory
  <2> QED BY <2>1, <2>2, <2>3, FootIdle, FootLooks
<1>2. ASSUME UpdateOrg(q) PROVE Foot(q, "updateOrg")
  <2>1. Plain(q, "orgs")
    BY <1>2 DEF UpdateOrg, Plain
  <2>2. "orgs" \in Fields /\ "updateOrg" \in Writers("orgs")
    BY DEF Fields, Writers
  <2> QED BY <1>2, <2>1, <2>2, FootPlain DEF UpdateOrg
<1>3. ASSUME SetOnboardingDone(q) PROVE Foot(q, "setOnboardingDone")
  <2>1. Plain(q, "orgs")
    BY <1>3 DEF SetOnboardingDone, Plain
  <2>2. "orgs" \in Fields /\ "setOnboardingDone" \in Writers("orgs")
    BY DEF Fields, Writers
  <2> QED BY <1>3, <2>1, <2>2, FootPlain DEF SetOnboardingDone
<1>4. ASSUME DeleteOrg(q) PROVE Foot(q, "deleteOrg")
  <2>1. DOMAIN db = Fields
    BY DEF AccountsInv, DbOK
  <2>2. At(q, "deleteOrg") /\ Keeps(q, Mem(q)) /\ DeletedOrg(Mem(q).org)
    BY <1>4, <2>1, DeleteOrgDoes DEF DeleteOrg
  <2>3. Spares("deleteOrg", db')
    <3>1. /\ "deleteOrg" \in AllCalls /\ db'.users = db.users /\ db'.sessions = db.sessions
          /\ db'.attempts = db.attempts
      BY <2>2 DEF DeletedOrg, AllCalls, PeopleCalls
    <3> QED BY <3>1 DEF Spares, Fields, Writers
  <2>4. Writes(q, db', Mem(q))
    BY <2>2 DEF Writes
  <2> QED BY <2>2, <2>3, <2>4, FootWrites, RecallsAll
<1>5. ASSUME GetUser(q) PROVE Foot(q, "getUser")
  <2>1. At(q, "getUser") /\ Mem(q) \in AccountMemory
    BY <1>5, AtCall DEF GetUser
  <2>2. Reads(q, Mem(q)) \/ Refuses(q) \/ \E v0 : Reads(q, [Mem(q) EXCEPT !.held = v0])
    BY <1>5 DEF GetUser
  <2>3. \A v0 : Recalls("getUser", Mem(q), [Mem(q) EXCEPT !.held = v0])
    BY <2>1 DEF Recalls, AccountMemory
  <2> QED BY <2>1, <2>2, <2>3, FootIdle, FootLooks
<1>6. ASSUME UpdateUser(q) PROVE Foot(q, "updateUser")
  <2>1. Plain(q, "users")
    BY <1>6 DEF UpdateUser, Plain
  <2>2. "users" \in Fields /\ "updateUser" \in Writers("users")
    BY DEF Fields, Writers
  <2> QED BY <1>6, <2>1, <2>2, FootPlain DEF UpdateUser
<1>7. ASSUME DisableUser(q) PROVE Foot(q, "disableUser")
  <2>1. Plain(q, "users")
    BY <1>7 DEF DisableUser, Plain
  <2>2. "users" \in Fields /\ "disableUser" \in Writers("users")
    BY DEF Fields, Writers
  <2> QED BY <1>7, <2>1, <2>2, FootPlain DEF DisableUser
<1>8. ASSUME GetClash(q) PROVE Foot(q, "getClash")
  BY <1>8, FootIdle DEF GetClash
<1>9. ASSUME UpdateMemberRole(q) PROVE Foot(q, "updateMemberRole")
  <2>1. Plain(q, "members")
    BY <1>9 DEF UpdateMemberRole, Plain
  <2>2. "members" \in Fields /\ "updateMemberRole" \in Writers("members")
    BY DEF Fields, Writers
  <2> QED BY <1>9, <2>1, <2>2, FootPlain DEF UpdateMemberRole
<1>10. ASSUME RemoveMember(q) PROVE Foot(q, "removeMember")
  <2>1. Plain(q, "members")
    BY <1>10 DEF RemoveMember, Plain
  <2>2. "members" \in Fields /\ "removeMember" \in Writers("members")
    BY DEF Fields, Writers
  <2> QED BY <1>10, <2>1, <2>2, FootPlain DEF RemoveMember
<1>11. ASSUME CreateTeam(q) PROVE Foot(q, "createTeam")
  <2>1. Plain(q, "teams")
    BY <1>11 DEF CreateTeam, Plain
  <2>2. "teams" \in Fields /\ "createTeam" \in Writers("teams")
    BY DEF Fields, Writers, AllCalls, PeopleCalls
  <2> QED BY <1>11, <2>1, <2>2, FootPlain DEF CreateTeam
<1>12. ASSUME UpdateTeam(q) PROVE Foot(q, "updateTeam")
  <2>1. Plain(q, "teams")
    BY <1>12 DEF UpdateTeam, Plain
  <2>2. "teams" \in Fields /\ "updateTeam" \in Writers("teams")
    BY DEF Fields, Writers, AllCalls, PeopleCalls
  <2> QED BY <1>12, <2>1, <2>2, FootPlain DEF UpdateTeam
<1>13. ASSUME DeleteTeam(q) PROVE Foot(q, "deleteTeam")
  <2>1. DOMAIN db = Fields
    BY DEF AccountsInv, DbOK
  <2>2. PICK ts, tms : /\ At(q, "deleteTeam")
                       /\ Writes(q, [db EXCEPT !.teams = ts, !.teamMembers = tms], Mem(q))
    BY <1>13 DEF DeleteTeam
  <2>3. Spares("deleteTeam", [db EXCEPT !.teams = ts, !.teamMembers = tms])
    BY <2>1 DEF Spares, Fields, Writers, AllCalls, PeopleCalls
  <2> QED BY <2>2, <2>3, FootWrites, RecallsAll
<1>14. ASSUME AddTeamMember(q) PROVE Foot(q, "joinTeam")
  <2>1. Plain(q, "teamMembers")
    BY <1>14 DEF AddTeamMember, Plain
  <2>2. "teamMembers" \in Fields /\ "joinTeam" \in Writers("teamMembers")
    BY DEF Fields, Writers, AllCalls, PeopleCalls
  <2> QED BY <1>14, <2>1, <2>2, FootPlain DEF AddTeamMember
<1>15. ASSUME RemoveTeamMember(q) PROVE Foot(q, "leaveTeam")
  <2>1. Plain(q, "teamMembers")
    BY <1>15 DEF RemoveTeamMember, Plain
  <2>2. "teamMembers" \in Fields /\ "leaveTeam" \in Writers("teamMembers")
    BY DEF Fields, Writers, AllCalls, PeopleCalls
  <2> QED BY <1>15, <2>1, <2>2, FootPlain DEF RemoveTeamMember
<1>16. ASSUME RemoveUserFromOrgTeams(q) PROVE Foot(q, "leaveTeams")
  <2>1. Plain(q, "teamMembers")
    BY <1>16 DEF RemoveUserFromOrgTeams, Plain
  <2>2. "teamMembers" \in Fields /\ "leaveTeams" \in Writers("teamMembers")
    BY DEF Fields, Writers, AllCalls, PeopleCalls
  <2> QED BY <1>16, <2>1, <2>2, FootPlain DEF RemoveUserFromOrgTeams
<1> QED BY <1>1, <1>2, <1>3, <1>4, <1>5, <1>6, <1>7, <1>8, <1>9, <1>10, <1>11, <1>12, <1>13, <1>14,
        <1>15, <1>16 DEF PeopleStep

LEMMA SignInFoot ==
    ASSUME AccountsInv, NEW q \in Requests, SignInStep(q), linked' = linked
    PROVE  \E c : Foot(q, c)
<1>0. failedOpen' = failedOpen
  BY DEF SignInStep
<1> USE <1>0
<1>1. ASSUME FindLogin(q) PROVE Foot(q, "findLogin")
  <2>1. At(q, "findLogin") /\ Mem(q) \in AccountMemory
    BY <1>1, AtCall DEF FindLogin
  <2>2. Reads(q, Mem(q)) \/ Refuses(q) \/ \E v0 : Reads(q, [Mem(q) EXCEPT !.user = v0])
    BY <1>1 DEF FindLogin
  <2>3. \A v0 : Recalls("findLogin", Mem(q), [Mem(q) EXCEPT !.user = v0])
    BY <2>1 DEF Recalls, AccountMemory
  <2> QED BY <2>1, <2>2, <2>3, FootIdle, FootLooks
<1>2. ASSUME GetSessionByToken(q) PROVE Foot(q, "getSession")
  <2>1. At(q, "getSession") /\ Mem(q) \in AccountMemory
    BY <1>2, AtCall DEF GetSessionByToken
  <2>2. Reads(q, Mem(q)) \/ Refuses(q) \/ \E v0 : Reads(q, [Mem(q) EXCEPT !.user = v0])
    BY <1>2 DEF GetSessionByToken
  <2>3. \A v0 : Recalls("getSession", Mem(q), [Mem(q) EXCEPT !.user = v0])
    BY <2>1 DEF Recalls, AccountMemory
  <2> QED BY <2>1, <2>2, <2>3, FootIdle, FootLooks
<1>3. ASSUME DeleteSession(q) PROVE Foot(q, "deleteSession")
  <2>1. Plain(q, "sessions")
    BY <1>3 DEF DeleteSession, Plain
  <2>2. "sessions" \in Fields /\ "deleteSession" \in Writers("sessions")
    BY DEF Fields, Writers
  <2> QED BY <1>3, <2>1, <2>2, FootPlain DEF DeleteSession
<1>4. ASSUME CountLoginAttempts(q) PROVE Foot(q, "countAttempts")
  BY <1>4, FootIdle DEF CountLoginAttempts
<1>5. ASSUME RecordLoginAttempt(q) PROVE Foot(q, "recordAttempt")
  <2>1. Plain(q, "attempts")
    BY <1>5 DEF RecordLoginAttempt, Plain
  <2>2. "attempts" \in Fields /\ "recordAttempt" \in Writers("attempts")
    BY DEF Fields, Writers
  <2> QED BY <1>5, <2>1, <2>2, FootPlain DEF RecordLoginAttempt
<1>6. ASSUME LoadProvider(q) PROVE Foot(q, "loadProvider")
  <2>1. At(q, "loadProvider") /\ Mem(q) \in AccountMemory
    BY <1>6, AtCall DEF LoadProvider
  <2>2. Reads(q, Mem(q)) \/ Refuses(q) \/ \E v0, v1 : Reads(q, [Mem(q) EXCEPT !.provider = v0, !.held = v1])
    BY <1>6 DEF LoadProvider
  <2>3. \A v0, v1 : Recalls("loadProvider", Mem(q), [Mem(q) EXCEPT !.provider = v0, !.held = v1])
    BY <2>1 DEF Recalls, AccountMemory
  <2> QED BY <2>1, <2>2, <2>3, FootIdle, FootLooks
<1>7. ASSUME CreateLoginState(q) PROVE Foot(q, "createLoginState")
  <2>1. Plain(q, "loginStates")
    BY <1>7 DEF CreateLoginState, Plain
  <2>2. "loginStates" \in Fields /\ "createLoginState" \in Writers("loginStates")
    BY DEF Fields, Writers
  <2> QED BY <1>7, <2>1, <2>2, FootPlain DEF CreateLoginState
<1>8. ASSUME ConsumeLoginState(q) PROVE Foot(q, "consumeState")
  <2>1. At(q, "consumeState") /\ Mem(q) \in AccountMemory
    BY <1>8, AtCall DEF ConsumeLoginState
  <2>2. PICK rest, v : /\ rest = [db EXCEPT !.loginStates = v]
                       /\ \/ Writes(q, rest, [Mem(q) EXCEPT !.aux = db.loginStates[Mem(q).ref]])
                          \/ db' = rest /\ Ends(q)
                          \/ Refuses(q)
    BY <1>8 DEF ConsumeLoginState
  <2>3. Spares("consumeState", rest)
    <3>1. "loginStates" \in Fields /\ "consumeState" \in Writers("loginStates")
      BY DEF Fields, Writers
    <3> QED BY <2>2, <3>1, SparesOther
  <2>4. \A x : Recalls("consumeState", Mem(q), [Mem(q) EXCEPT !.aux = x])
    BY <2>1 DEF Recalls, AccountMemory
  <2>5. ASSUME Ends(q), db' = rest PROVE Foot(q, "consumeState")
    <3>1. Ended(q) /\ (clean' => clean)
      BY <2>5, EndsMoves DEF AccountsInv
    <3> QED BY <2>1, <2>3, <2>5, <3>1 DEF Foot, Advances
  <2>6. PICK n : n = [Mem(q) EXCEPT !.aux = db.loginStates[Mem(q).ref]]
    OBVIOUS
  <2> QED BY <2>1, <2>2, <2>3, <2>4, <2>5, <2>6, FootWrites, FootRefuses
<1>9. ASSUME FindUser(q) PROVE Foot(q, "findUser")
  <2>1. At(q, "findUser") /\ Mem(q) \in AccountMemory
    BY <1>9, AtCall DEF FindUser
  <2>2. Reads(q, Mem(q)) \/ Refuses(q) \/ \E v0 : Reads(q, [Mem(q) EXCEPT !.user = v0])
    BY <1>9 DEF FindUser
  <2>3. \A v0 : Recalls("findUser", Mem(q), [Mem(q) EXCEPT !.user = v0])
    BY <2>1 DEF Recalls, AccountMemory
  <2> QED BY <2>1, <2>2, <2>3, FootIdle, FootLooks
<1>10. ASSUME ListRoleMappings(q) PROVE Foot(q, "listRoleMappings")
  <2>1. At(q, "listRoleMappings") /\ Mem(q) \in AccountMemory
    BY <1>10, AtCall DEF ListRoleMappings
  <2>2. Reads(q, Mem(q)) \/ Refuses(q) \/ \E v0 : Reads(q, [Mem(q) EXCEPT !.role = v0])
    BY <1>10 DEF ListRoleMappings
  <2>3. \A v0 : Recalls("listRoleMappings", Mem(q), [Mem(q) EXCEPT !.role = v0])
    BY <2>1 DEF Recalls, AccountMemory
  <2> QED BY <2>1, <2>2, <2>3, FootIdle, FootLooks
<1>11. ASSUME GetMember(q) PROVE Foot(q, "getMember")
  <2>1. At(q, "getMember") /\ Mem(q) \in AccountMemory
    BY <1>11, AtCall DEF GetMember
  <2>2. Reads(q, Mem(q)) \/ Refuses(q) \/ \E v0 : Reads(q, [Mem(q) EXCEPT !.isMember = v0])
    BY <1>11 DEF GetMember
  <2>3. \A v0 : Recalls("getMember", Mem(q), [Mem(q) EXCEPT !.isMember = v0])
    BY <2>1 DEF Recalls, AccountMemory
  <2> QED BY <2>1, <2>2, <2>3, FootIdle, FootLooks
<1>12. ASSUME UpsertMember(q) PROVE Foot(q, "upsertMember")
  <2>1. Plain(q, "members")
    BY <1>12 DEF UpsertMember, Plain
  <2>2. "members" \in Fields /\ "upsertMember" \in Writers("members")
    BY DEF Fields, Writers
  <2> QED BY <1>12, <2>1, <2>2, FootPlain DEF UpsertMember
<1>13. ASSUME UpsertAuthIdentity(q) PROVE Foot(q, "upsertIdentity")
  <2>1. Plain(q, "identities")
    BY <1>13 DEF UpsertAuthIdentity, Plain
  <2>2. "identities" \in Fields /\ "upsertIdentity" \in Writers("identities")
    BY DEF Fields, Writers, AllCalls, SignInCalls
  <2> QED BY <1>13, <2>1, <2>2, FootPlain DEF UpsertAuthIdentity
<1>14. ASSUME CreateAuthProvider(q) PROVE Foot(q, "createProvider")
  <2>1. Plain(q, "providers")
    BY <1>14 DEF CreateAuthProvider, Plain
  <2>2. "providers" \in Fields /\ "createProvider" \in Writers("providers")
    BY DEF Fields, Writers, AllCalls, SignInCalls
  <2> QED BY <1>14, <2>1, <2>2, FootPlain DEF CreateAuthProvider
<1>15. ASSUME Load(q) PROVE Foot(q, "load")
  <2>1. At(q, "load") /\ Mem(q) \in AccountMemory
    BY <1>15, AtCall DEF Load
  <2>2. Reads(q, Mem(q)) \/ Refuses(q) \/ \E v0, v1 : Reads(q, [Mem(q) EXCEPT !.provider = v0, !.held = v1])
    BY <1>15 DEF Load
  <2>3. \A v0, v1 : Recalls("load", Mem(q), [Mem(q) EXCEPT !.provider = v0, !.held = v1])
    BY <2>1 DEF Recalls, AccountMemory
  <2> QED BY <2>1, <2>2, <2>3, FootIdle, FootLooks
<1>16. ASSUME UpdateAuthProvider(q) PROVE Foot(q, "updateProvider")
  <2>1. Plain(q, "providers")
    BY <1>16 DEF UpdateAuthProvider, Plain
  <2>2. "providers" \in Fields /\ "updateProvider" \in Writers("providers")
    BY DEF Fields, Writers, AllCalls, SignInCalls
  <2> QED BY <1>16, <2>1, <2>2, FootPlain DEF UpdateAuthProvider
<1>17. ASSUME DeleteAuthProvider(q) PROVE Foot(q, "deleteProvider")
  <2>1. DOMAIN db = Fields
    BY DEF AccountsInv, DbOK
  <2>2. PICK ps, rs, ss :
          /\ At(q, "deleteProvider")
          /\ Writes(q, [db EXCEPT !.providers = ps, !.rules = rs, !.loginStates = ss], Mem(q))
    BY <1>17 DEF DeleteAuthProvider
  <2>3. Spares("deleteProvider", [db EXCEPT !.providers = ps, !.rules = rs, !.loginStates = ss])
    BY <2>1 DEF Spares, Fields, Writers, AllCalls, SignInCalls
  <2> QED BY <2>2, <2>3, FootWrites, RecallsAll
<1>18. ASSUME EnsureSPKeypair(q) PROVE Foot(q, "ensureKeypair")
  <2>1. Plain(q, "providers")
    BY <1>18 DEF EnsureSPKeypair, Plain
  <2>2. "providers" \in Fields /\ "ensureKeypair" \in Writers("providers")
    BY DEF Fields, Writers, AllCalls, SignInCalls
  <2> QED BY <1>18, <2>1, <2>2, FootPlain DEF EnsureSPKeypair
<1>19. ASSUME CreateRoleMapping(q) PROVE Foot(q, "createRule")
  <2>1. Plain(q, "rules")
    BY <1>19 DEF CreateRoleMapping, Plain
  <2>2. "rules" \in Fields /\ "createRule" \in Writers("rules")
    BY DEF Fields, Writers, AllCalls, SignInCalls
  <2> QED BY <1>19, <2>1, <2>2, FootPlain DEF CreateRoleMapping
<1>20. ASSUME UpdateRoleMapping(q) PROVE Foot(q, "updateRule")
  <2>1. Plain(q, "rules")
    BY <1>20 DEF UpdateRoleMapping, Plain
  <2>2. "rules" \in Fields /\ "updateRule" \in Writers("rules")
    BY DEF Fields, Writers, AllCalls, SignInCalls
  <2> QED BY <1>20, <2>1, <2>2, FootPlain DEF UpdateRoleMapping
<1>21. ASSUME DeleteRoleMapping(q) PROVE Foot(q, "deleteRule")
  <2>1. Plain(q, "rules")
    BY <1>21 DEF DeleteRoleMapping, Plain
  <2>2. "rules" \in Fields /\ "deleteRule" \in Writers("rules")
    BY DEF Fields, Writers, AllCalls, SignInCalls
  <2> QED BY <1>21, <2>1, <2>2, FootPlain DEF DeleteRoleMapping
<1>22. ASSUME ListOrgDomains(q) PROVE Foot(q, "listDomains")
  BY <1>22, FootIdle DEF ListOrgDomains
<1>23. ASSUME CreateOrgDomain(q) PROVE Foot(q, "createDomain")
  <2>1. Plain(q, "domains")
    BY <1>23 DEF CreateOrgDomain, Plain
  <2>2. "domains" \in Fields /\ "createDomain" \in Writers("domains")
    BY DEF Fields, Writers
  <2> QED BY <1>23, <2>1, <2>2, FootPlain DEF CreateOrgDomain
<1>24. ASSUME UpdateOrgDomain(q) PROVE Foot(q, "updateDomain")
  <2>1. Plain(q, "domains")
    BY <1>24 DEF UpdateOrgDomain, Plain
  <2>2. "domains" \in Fields /\ "updateDomain" \in Writers("domains")
    BY DEF Fields, Writers
  <2> QED BY <1>24, <2>1, <2>2, FootPlain DEF UpdateOrgDomain
<1>25. ASSUME DeleteOrgDomain(q) PROVE Foot(q, "deleteDomain")
  <2>1. Plain(q, "domains")
    BY <1>25 DEF DeleteOrgDomain, Plain
  <2>2. "domains" \in Fields /\ "deleteDomain" \in Writers("domains")
    BY DEF Fields, Writers
  <2> QED BY <1>25, <2>1, <2>2, FootPlain DEF DeleteOrgDomain
<1> QED BY <1>1, <1>2, <1>3, <1>4, <1>5, <1>6, <1>7, <1>8, <1>9, <1>10, <1>11, <1>12, <1>13, <1>14,
        <1>15, <1>16, <1>17, <1>18, <1>19, <1>20, <1>21, <1>22, <1>23, <1>24, <1>25 DEF SignInStep

\* q has other calls left.
LEMMA GoesElsewhere ==
    ASSUME AccountsInv, NEW q \in Requests, NEW t, NEW m, Goes(q, t, m)
    PROVE  /\ Others(q) /\ Op(q)' = Op(q) /\ Left(q)' = CallsOf(t) /\ clean' = clean
           /\ Left(q)' # {} => Mem(q)' = m
<1>1. PICK op, n : /\ op = proc[q].op /\ clean' = clean /\ n = IF t = <<>> THEN NoMem ELSE m
                   /\ proc' = [proc EXCEPT ![q] = [op |-> op, todo |-> t, mem |-> n]]
  BY DEF Goes
<1>2. DOMAIN proc = Requests
  BY DEF AccountsInv, ProcType, ReqsType
<1>3. Others(q) /\ Op(q)' = Op(q) /\ Left(q)' = CallsOf(t) /\ Mem(q)' = n
  BY <1>1, <1>2 DEF Others, Op, Left, Mem
<1> QED BY <1>1, <1>3, NoCalls

LEMMA CallsWithFirst ==
    ASSUME NEW s \in Seq(AllCalls), NEW c \in AllCalls
    PROVE  /\ CallsOf(<<c>> \o s) \subseteq CallsOf(s) \cup {c}
           /\ CallsOf(s) \subseteq CallsOf(<<c>> \o s) /\ c \in CallsOf(<<c>> \o s)
<1>1. PICK t : t = <<c>> \o s
  OBVIOUS
<1>2. Len(t) = Len(s) + 1 /\ t[1] = c /\ (\A i \in 1..Len(s) : t[i + 1] = s[i]) /\ Len(s) \in Nat
  BY <1>1
<1>3. \A i \in 1..Len(t) : i = 1 \/ (i - 1 \in 1..Len(s) /\ t[i] = s[i - 1])
  <2>1. \A i \in 1..Len(t) : i # 1 => i - 1 \in 1..Len(s) /\ (i - 1) + 1 = i
    BY <1>2
  <2> QED BY <1>2, <2>1
<1>4. CallsOf(t) \subseteq CallsOf(s) \cup {c}
  BY <1>2, <1>3 DEF CallsOf
<1>5. CallsOf(s) \subseteq CallsOf(t) /\ c \in CallsOf(t)
  <2>1. 1 \in 1..Len(t) /\ \A i \in 1..Len(s) : i + 1 \in 1..Len(t)
    BY <1>2
  <2> QED BY <1>2, <2>1 DEF CallsOf
<1> QED BY <1>1, <1>4, <1>5

LEMMA LoopFoot ==
    ASSUME AccountsInv, NEW q \in Requests, NEW c \in Loops, At(q, c), NEW t, NEW m, Goes(q, t, m),
           CallsOf(t) \subseteq Left(q) \cup {"createImportAccount", "applyMigration"},
           Left(q) \subseteq CallsOf(t) \cup {c}, Recalls(c, Mem(q), m),
           Spares(c, db'), linked' = linked, failedOpen' = failedOpen
    PROVE  Foot(q, c)
<1>1. /\ Others(q) /\ Op(q)' = Op(q) /\ Left(q)' = CallsOf(t) /\ clean' = clean
      /\ Left(q)' # {} => Mem(q)' = m
  BY GoesElsewhere
<1>2. c # "seats" /\ c # "consumeInstallState"
  BY DEF Loops
<1> QED BY <1>1, <1>2 DEF Foot, Advances

LEMMA TokensFoot ==
    ASSUME AccountsInv, NEW q \in Requests, TokenStep(q)
    PROVE  \E c : Foot(q, c)
<1>0. failedOpen' = failedOpen
  BY DEF TokenStep
<1> USE <1>0
<1>1. ASSUME CreateServiceAccount(q), linked' = linked PROVE Foot(q, "createAccount")
  <2>1. Plain(q, "accounts")
    BY <1>1 DEF CreateServiceAccount, Plain
  <2>2. "accounts" \in Fields /\ "createAccount" \in Writers("accounts")
    BY DEF Fields, Writers, Inserters
  <2> QED BY <1>1, <2>1, <2>2, FootPlain DEF CreateServiceAccount
<1>2. ASSUME GetServiceAccount(q), linked' = linked PROVE Foot(q, "getAccount")
  BY <1>2, FootIdle DEF GetServiceAccount
<1>3. ASSUME UpdateServiceAccount(q), linked' = linked PROVE Foot(q, "updateAccount")
  <2>1. Plain(q, "accounts")
    BY <1>3 DEF UpdateServiceAccount, Plain
  <2>2. "accounts" \in Fields /\ "updateAccount" \in Writers("accounts")
    BY DEF Fields, Writers, Inserters
  <2> QED BY <1>3, <2>1, <2>2, FootPlain DEF UpdateServiceAccount
<1>4. ASSUME DeleteServiceAccount(q), linked' = linked PROVE Foot(q, "deleteAccount")
  <2>1. Plain(q, "accounts")
    BY <1>4 DEF DeleteServiceAccount, Plain
  <2>2. "accounts" \in Fields /\ "deleteAccount" \in Writers("accounts")
    BY DEF Fields, Writers, Inserters
  <2> QED BY <1>4, <2>1, <2>2, FootPlain DEF DeleteServiceAccount
<1>5. ASSUME CreateToken(q), linked' = linked PROVE Foot(q, "createToken")
  <2>1. Plain(q, "tokens")
    BY <1>5 DEF CreateToken, Plain
  <2>2. "tokens" \in Fields /\ "createToken" \in Writers("tokens")
    BY DEF Fields, Writers
  <2> QED BY <1>5, <2>1, <2>2, FootPlain DEF CreateToken
<1>6. ASSUME RevokeToken(q), linked' = linked PROVE Foot(q, "revokeToken")
  <2>1. Plain(q, "tokens")
    BY <1>6 DEF RevokeToken, Plain
  <2>2. "tokens" \in Fields /\ "revokeToken" \in Writers("tokens")
    BY DEF Fields, Writers
  <2> QED BY <1>6, <2>1, <2>2, FootPlain DEF RevokeToken
<1>7. ASSUME GetTokenByPrefix(q), linked' = linked PROVE Foot(q, "getToken")
  <2>1. At(q, "getToken") /\ Mem(q) \in AccountMemory
    BY <1>7, AtCall DEF GetTokenByPrefix
  <2>2. Refuses(q) \/ \E v : Reads(q, [Mem(q) EXCEPT !.ref = v])
    BY <1>7 DEF GetTokenByPrefix
  <2>3. \A v : Recalls("getToken", Mem(q), [Mem(q) EXCEPT !.ref = v])
    BY <2>1 DEF Recalls, AccountMemory
  <2> QED BY <1>7, <2>1, <2>2, <2>3, FootIdle, FootLooks
<1>8. ASSUME VerifyAPIKey(q), linked' = linked PROVE Foot(q, "getKeyAccount")
  BY <1>8, FootIdle DEF VerifyAPIKey
<1>9. ASSUME FindImportAccount(q), linked' = linked PROVE Foot(q, "findImportAccount")
  <2>1. At(q, "findImportAccount") /\ Mem(q) \in AccountMemory
    BY <1>9, AtCall DEF FindImportAccount
  <2>2. PICK s, t : s = proc[q].todo /\ t = Tail(s)
    OBVIOUS
  <2>3. /\ t \in Seq(AllCalls) /\ CallsOf(t) \subseteq Left(q)
        /\ Left(q) \subseteq CallsOf(t) \cup {"findImportAccount"}
    BY <2>1, <2>2, AtCall, TailCalls DEF Listed, Left, At
  <2>4. \/ \E a : Reads(q, [Mem(q) EXCEPT !.ref = a])
        \/ Goes(q, <<"createImportAccount">> \o t, Mem(q)) /\ db' = db
    BY <1>9, <2>2 DEF FindImportAccount
  <2>5. \A a : Recalls("findImportAccount", Mem(q), [Mem(q) EXCEPT !.ref = a])
    BY <2>1 DEF Recalls, AccountMemory
  <2>6. CASE Goes(q, <<"createImportAccount">> \o t, Mem(q)) /\ db' = db
    <3>1. "createImportAccount" \in AllCalls /\ "findImportAccount" \in Loops
      BY DEF AllCalls, TokenCalls, Loops
    <3>2. PICK u, m : u = <<"createImportAccount">> \o t /\ m = Mem(q)
      OBVIOUS
    <3>3. /\ CallsOf(u) \subseteq Left(q) \cup {"createImportAccount", "applyMigration"}
          /\ Left(q) \subseteq CallsOf(u) \cup {"findImportAccount"}
      BY <2>3, <3>1, <3>2, CallsWithFirst
    <3>4. Goes(q, u, m) /\ Spares("findImportAccount", db') /\ Recalls("findImportAccount", Mem(q), m)
      BY <2>6, <3>2, SparesNothing, RecallsAll
    <3> QED BY <1>9, <2>1, <3>1, <3>3, <3>4, LoopFoot
  <2> QED BY <1>9, <2>1, <2>4, <2>5, <2>6, FootLooks
<1>10. ASSUME CreateImportAccount(q), linked' = linked PROVE Foot(q, "createImportAccount")
  <2>1. At(q, "createImportAccount") /\ Mem(q) \in AccountMemory
    BY <1>10, AtCall DEF CreateImportAccount
  <2>2. PICK n : n = [Mem(q) EXCEPT !.ref = q]
    OBVIOUS
  <2>3. Refuses(q) \/ \E v : Writes(q, [db EXCEPT !.accounts = v], n)
    BY <1>10, <2>2 DEF CreateImportAccount
  <2>4. Recalls("createImportAccount", Mem(q), n)
    BY <2>1, <2>2 DEF Recalls, AccountMemory
  <2>5. "accounts" \in Fields /\ "createImportAccount" \in Writers("accounts")
    BY DEF Fields, Writers, Inserters
  <2> QED BY <1>10, <2>1, <2>3, <2>4, <2>5, FootSets, FootRefuses
<1>11. ASSUME ListTokens(q), linked' = linked PROVE Foot(q, "listTokens")
  <2>1. At(q, "listTokens") /\ Mem(q) \in AccountMemory
    BY <1>11, AtCall DEF ListTokens
  <2>2. Refuses(q) \/ \E v : Reads(q, [Mem(q) EXCEPT !.listed = v])
    BY <1>11 DEF ListTokens
  <2>3. \A v : Recalls("listTokens", Mem(q), [Mem(q) EXCEPT !.listed = v])
    BY <2>1 DEF Recalls, AccountMemory
  <2> QED BY <1>11, <2>1, <2>2, <2>3, FootIdle, FootLooks
<1>12. ASSUME RevokeListed(q), linked' = linked PROVE Foot(q, "revokeTokens")
  <2>1. At(q, "revokeTokens")
    BY <1>12 DEF RevokeListed
  <2>2. PICK s : s = proc[q].todo
    OBVIOUS
  <2>3. \/ Reads(q, Mem(q))
        \/ \E v, w : db' = [db EXCEPT !.tokens = v] /\ Goes(q, s, [Mem(q) EXCEPT !.listed = w])
    BY <1>12, <2>2 DEF RevokeListed
  <2>4. "revokeTokens" \in Loops /\ "tokens" \in Fields /\ "revokeTokens" \in Writers("tokens")
    BY DEF Loops, Fields, Writers
  <2>5. Left(q) = CallsOf(s)
    BY <2>2 DEF Left
  <2>6. ASSUME NEW v, NEW w, db' = [db EXCEPT !.tokens = v], Goes(q, s, [Mem(q) EXCEPT !.listed = w])
        PROVE  Foot(q, "revokeTokens")
    <3>1. Spares("revokeTokens", db')
      BY <2>4, <2>6, SparesOther
    <3>2. PICK m : m = [Mem(q) EXCEPT !.listed = w]
      OBVIOUS
    <3>3. Recalls("revokeTokens", Mem(q), m)
      BY <2>1, <3>2, AtCall DEF Recalls, AccountMemory
    <3> QED BY <1>0, <1>12, <2>1, <2>4, <2>5, <2>6, <3>1, <3>2, <3>3, LoopFoot
  <2> QED BY <1>12, <2>1, <2>3, <2>6, FootIdle
<1>13. ASSUME CreateInstallState(q), linked' = linked PROVE Foot(q, "createInstallState")
  <2>1. Plain(q, "installStates")
    BY <1>13 DEF CreateInstallState, Plain
  <2>2. "installStates" \in Fields /\ "createInstallState" \in Writers("installStates")
    BY DEF Fields, Writers
  <2> QED BY <1>13, <2>1, <2>2, FootPlain DEF CreateInstallState
<1>14. ASSUME AuthorizeInstallState(q), linked' = linked PROVE Foot(q, "authorizeState")
  <2>1. Plain(q, "installStates")
    BY <1>14 DEF AuthorizeInstallState, Plain
  <2>2. "installStates" \in Fields /\ "authorizeState" \in Writers("installStates")
    BY DEF Fields, Writers
  <2> QED BY <1>14, <2>1, <2>2, FootPlain DEF AuthorizeInstallState
<1>15. ASSUME FindUserInstallation(q), linked' = linked PROVE Foot(q, "findInstallation")
  <2>1. At(q, "findInstallation") /\ Mem(q) \in AccountMemory
    BY <1>15, AtCall DEF FindUserInstallation
  <2>2. Refuses(q) \/ \E v : Reads(q, [Mem(q) EXCEPT !.aux = v])
    BY <1>15 DEF FindUserInstallation
  <2>3. \A v : Recalls("findInstallation", Mem(q), [Mem(q) EXCEPT !.aux = v])
    BY <2>1 DEF Recalls, AccountMemory
  <2> QED BY <1>15, <2>1, <2>2, <2>3, FootIdle, FootLooks
<1>16. ASSUME VerifyUserInstallation(q), linked' = linked PROVE Foot(q, "verifyInstallation")
  BY <1>16, FootIdle DEF VerifyUserInstallation
<1>17. ASSUME UpsertInstallation(q), linked' = linked PROVE Foot(q, "upsertInstallation")
  <2>1. Plain(q, "installation")
    BY <1>17 DEF UpsertInstallation, Plain
  <2>2. "installation" \in Fields /\ "upsertInstallation" \in Writers("installation")
    BY DEF Fields, Writers, AllCalls, TokenCalls
  <2> QED BY <1>17, <2>1, <2>2, FootPlain DEF UpsertInstallation
<1>18. ASSUME GetInstallation(q), linked' = linked PROVE Foot(q, "getInstallation")
  <2>1. At(q, "getInstallation") /\ Mem(q) \in AccountMemory
    BY <1>18, AtCall DEF GetInstallation
  <2>2. Refuses(q) \/ \E v : Reads(q, [Mem(q) EXCEPT !.aux = v])
    BY <1>18 DEF GetInstallation
  <2>3. \A v : Recalls("getInstallation", Mem(q), [Mem(q) EXCEPT !.aux = v])
    BY <2>1 DEF Recalls, AccountMemory
  <2> QED BY <1>18, <2>1, <2>2, <2>3, FootIdle, FootLooks
<1>19. ASSUME DeleteInstallation(q), linked' = linked PROVE Foot(q, "deleteInstallation")
  <2>1. Plain(q, "installation")
    BY <1>19 DEF DeleteInstallation, Plain
  <2>2. "installation" \in Fields /\ "deleteInstallation" \in Writers("installation")
    BY DEF Fields, Writers, AllCalls, TokenCalls
  <2> QED BY <1>19, <2>1, <2>2, FootPlain DEF DeleteInstallation
<1>20. ASSUME ConsumeInstallState(q) PROVE Foot(q, "consumeInstallState")
  <2>1. At(q, "consumeInstallState")
    BY <1>20 DEF ConsumeInstallState
  <2>2. \/ Refuses(q) /\ linked' = linked
        \/ \E v : Writes(q, [db EXCEPT !.installStates = v], Mem(q))
    BY <1>20 DEF ConsumeInstallState
  <2>3. "installStates" \in Fields /\ "consumeInstallState" \in Writers("installStates")
    BY DEF Fields, Writers
  <2> QED BY <2>1, <2>2, <2>3, FootRefuses, FootSets, RecallsAll
<1>21. ASSUME DeleteAtGitHub(q), linked' = linked PROVE Foot(q, "deleteAtGitHub")
  BY <1>21, FootIdle DEF DeleteAtGitHub
<1> QED BY <1>1, <1>2, <1>3, <1>4, <1>5, <1>6, <1>7, <1>8, <1>9, <1>10, <1>11, <1>12, <1>13, <1>14,
        <1>15, <1>16, <1>17, <1>18, <1>19, <1>20, <1>21 DEF TokenStep, githubVars

LEMMA BootFoot ==
    ASSUME AccountsInv, NEW q \in Requests, BootStep(q), linked' = linked
    PROVE  \E c : Foot(q, c)
<1>0. failedOpen' = failedOpen
  BY DEF BootStep
<1> USE <1>0
<1>1. ASSUME IsApplied(q) PROVE Foot(q, "isApplied")
  <2>1. At(q, "isApplied") /\ db' = db
    BY <1>1 DEF IsApplied
  <2>2. PICK s : s = proc[q].todo
    OBVIOUS
  <2>3. s \in Seq(AllCalls) /\ Left(q) = CallsOf(s)
    BY <2>1, <2>2, AtCall DEF Listed, Left
  <2>4. \/ Proceeds(q) \/ \E v : Goes(q, s, [Mem(q) EXCEPT !.version = v])
        \/ Goes(q, <<"applyMigration">> \o s, Mem(q))
    BY <1>1, <2>2 DEF IsApplied
  <2>5. CASE Proceeds(q)
    <3>1. Reads(q, Mem(q))
      BY <2>1, <2>5 DEF Proceeds, Reads, Mem
    <3> QED BY <2>1, <3>1, FootIdle
  <2>6. "isApplied" \in Loops /\ Spares("isApplied", db')
    BY <2>1, SparesNothing DEF Loops
  <2>7. ASSUME NEW v, Goes(q, s, [Mem(q) EXCEPT !.version = v]) PROVE Foot(q, "isApplied")
    <3>1. PICK m : m = [Mem(q) EXCEPT !.version = v]
      OBVIOUS
    <3>2. Recalls("isApplied", Mem(q), m)
      BY <2>1, <3>1, AtCall DEF Recalls, AccountMemory
    <3> QED BY <2>1, <2>3, <2>6, <2>7, <3>1, <3>2, LoopFoot
  <2>8. ASSUME Goes(q, <<"applyMigration">> \o s, Mem(q)) PROVE Foot(q, "isApplied")
    <3>1. "applyMigration" \in AllCalls
      BY DEF AllCalls, BootCalls
    <3>2. PICK t : t = <<"applyMigration">> \o s
      OBVIOUS
    <3>3. /\ CallsOf(t) \subseteq Left(q) \cup {"createImportAccount", "applyMigration"}
          /\ Left(q) \subseteq CallsOf(t) \cup {"isApplied"}
      BY <2>3, <3>1, <3>2, CallsWithFirst
    <3>4. PICK m : m = Mem(q) /\ Recalls("isApplied", Mem(q), m)
      BY RecallsAll
    <3> QED BY <2>1, <2>6, <2>8, <3>2, <3>3, <3>4, LoopFoot
  <2> QED BY <2>4, <2>5, <2>7, <2>8
<1>2. ASSUME ApplyMigration(q) PROVE Foot(q, "applyMigration")
  <2>1. At(q, "applyMigration") /\ Mem(q) \in AccountMemory /\ db' = db
    BY <1>2, AtCall DEF ApplyMigration
  <2>2. PICK n : n = [Mem(q) EXCEPT !.version = Mem(q).version + 1]
    OBVIOUS
  <2>3. Refuses(q) \/ Reads(q, n)
    BY <1>2, <2>1, <2>2 DEF ApplyMigration, Refuses, Reads
  <2>4. Recalls("applyMigration", Mem(q), n)
    BY <2>1, <2>2 DEF Recalls, AccountMemory
  <2> QED BY <2>1, <2>3, <2>4, FootLooks
<1>3. ASSUME AnyUserExists(q) PROVE Foot(q, "anyUser")
  BY <1>3, FootIdle DEF AnyUserExists
<1>4. ASSUME UpsertUser(q) PROVE Foot(q, "upsertUser")
  <2>1. At(q, "upsertUser") /\ Mem(q) \in AccountMemory
    BY <1>4, AtCall DEF UpsertUser
  <2>2. PICK n : n = [Mem(q) EXCEPT !.user = q]
    OBVIOUS
  <2>3. PICK us : Writes(q, [db EXCEPT !.users = us], n)
    BY <1>4, <2>2 DEF UpsertUser
  <2>4. Recalls("upsertUser", Mem(q), n)
    BY <2>1, <2>2 DEF Recalls, AccountMemory
  <2>5. "users" \in Fields /\ "upsertUser" \in Writers("users")
    BY DEF Fields, Writers
  <2> QED BY <2>1, <2>3, <2>4, <2>5, FootSets
<1> QED BY <1>1, <1>2, <1>3, <1>4 DEF BootStep

\* A step of a request that is under way.
Acts(q) ==
    \/ (SharedStep(q) \/ PeopleStep(q) \/ SignInStep(q) \/ BootStep(q)) /\ UNCHANGED githubVars
    \/ TokenStep(q)

LEMMA ActsFoot ==
    ASSUME AccountsInv, NEW q \in Requests, Acts(q)
    PROVE  \E c : Foot(q, c)
<1>1. CASE TokenStep(q)
  BY <1>1, TokensFoot
<1>2. CASE (SharedStep(q) \/ PeopleStep(q) \/ SignInStep(q) \/ BootStep(q)) /\ UNCHANGED githubVars
  <2>1. linked' = linked
    BY <1>2 DEF githubVars
  <2> QED BY <1>2, <2>1, SharedFoot, PeopleFoot, SignInFoot, BootFoot
<1> QED BY <1>1, <1>2 DEF Acts

(***************************************************************************)
(* Which step it is that a request takes, by the call it is at.            *)
(***************************************************************************)
LEMMA OneAt == ASSUME NEW q, NEW c, NEW d, At(q, c), At(q, d) PROVE c = d
BY DEF At

SharedAs(q, c) ==
    /\ c \in SharedCalls
    /\ c = "emailFree" => EmailFree(q)
    /\ c = "createUser" => CreateUser(q)
    /\ c = "createOrg" => CreateOrg(q)
    /\ c = "addMember" => AddMember(q)
    /\ c = "seats" => SeatLimitReached(q) \/ SeatLimitUnknown(q)
    /\ c = "createSystemAccount" => CreateSystemAccount(q)
    /\ c = "createSession" => CreateSession(q)

LEMMA SharedAt ==
    ASSUME NEW q, SharedStep(q), NEW c, At(q, c)
    PROVE  SharedAs(q, c)
<1>1. /\ EmailFree(q) => At(q, "emailFree")
      /\ CreateUser(q) => At(q, "createUser")
      /\ CreateOrg(q) => At(q, "createOrg")
      /\ AddMember(q) => At(q, "addMember")
      /\ SeatLimitReached(q) => At(q, "seats")
      /\ SeatLimitUnknown(q) => At(q, "seats")
      /\ CreateSystemAccount(q) => At(q, "createSystemAccount")
      /\ CreateSession(q) => At(q, "createSession")
  BY DEF EmailFree, CreateUser, CreateOrg, AddMember, SeatLimitReached, SeatLimitUnknown,
      CreateSystemAccount, CreateSession
<1>2. /\ EmailFree(q) => c = "emailFree"
      /\ CreateUser(q) => c = "createUser"
      /\ CreateOrg(q) => c = "createOrg"
      /\ AddMember(q) => c = "addMember"
      /\ SeatLimitReached(q) => c = "seats"
      /\ SeatLimitUnknown(q) => c = "seats"
      /\ CreateSystemAccount(q) => c = "createSystemAccount"
      /\ CreateSession(q) => c = "createSession"
  BY <1>1, OneAt
<1>3. \/ EmailFree(q) \/ CreateUser(q) \/ CreateOrg(q) \/ AddMember(q)
      \/ SeatLimitReached(q) \/ SeatLimitUnknown(q) \/ CreateSystemAccount(q) \/ CreateSession(q)
  BY DEF SharedStep
<1> QED BY <1>2, <1>3 DEF SharedAs, SharedCalls

PeopleAs(q, c) ==
    /\ c \in PeopleCalls
    /\ c = "getOrg" => GetOrg(q)
    /\ c = "updateOrg" => UpdateOrg(q)
    /\ c = "setOnboardingDone" => SetOnboardingDone(q)
    /\ c = "deleteOrg" => DeleteOrg(q)
    /\ c = "getUser" => GetUser(q)
    /\ c = "updateUser" => UpdateUser(q)
    /\ c = "disableUser" => DisableUser(q)
    /\ c = "getClash" => GetClash(q)
    /\ c = "updateMemberRole" => UpdateMemberRole(q)
    /\ c = "removeMember" => RemoveMember(q)
    /\ c = "createTeam" => CreateTeam(q)
    /\ c = "updateTeam" => UpdateTeam(q)
    /\ c = "deleteTeam" => DeleteTeam(q)
    /\ c = "joinTeam" => AddTeamMember(q)
    /\ c = "leaveTeam" => RemoveTeamMember(q)
    /\ c = "leaveTeams" => RemoveUserFromOrgTeams(q)

LEMMA PeopleAt ==
    ASSUME NEW q, PeopleStep(q), NEW c, At(q, c)
    PROVE  PeopleAs(q, c)
<1>1. /\ GetOrg(q) => At(q, "getOrg")
      /\ UpdateOrg(q) => At(q, "updateOrg")
      /\ SetOnboardingDone(q) => At(q, "setOnboardingDone")
      /\ DeleteOrg(q) => At(q, "deleteOrg")
      /\ GetUser(q) => At(q, "getUser")
      /\ UpdateUser(q) => At(q, "updateUser")
      /\ DisableUser(q) => At(q, "disableUser")
      /\ GetClash(q) => At(q, "getClash")
      /\ UpdateMemberRole(q) => At(q, "updateMemberRole")
      /\ RemoveMember(q) => At(q, "removeMember")
      /\ CreateTeam(q) => At(q, "createTeam")
      /\ UpdateTeam(q) => At(q, "updateTeam")
      /\ DeleteTeam(q) => At(q, "deleteTeam")
      /\ AddTeamMember(q) => At(q, "joinTeam")
      /\ RemoveTeamMember(q) => At(q, "leaveTeam")
      /\ RemoveUserFromOrgTeams(q) => At(q, "leaveTeams")
  BY DEF GetOrg, UpdateOrg, SetOnboardingDone, DeleteOrg, GetUser, UpdateUser, DisableUser, GetClash,
      UpdateMemberRole, RemoveMember, CreateTeam, UpdateTeam, DeleteTeam, AddTeamMember,
      RemoveTeamMember, RemoveUserFromOrgTeams
<1>2. /\ GetOrg(q) => c = "getOrg"
      /\ UpdateOrg(q) => c = "updateOrg"
      /\ SetOnboardingDone(q) => c = "setOnboardingDone"
      /\ DeleteOrg(q) => c = "deleteOrg"
      /\ GetUser(q) => c = "getUser"
      /\ UpdateUser(q) => c = "updateUser"
      /\ DisableUser(q) => c = "disableUser"
      /\ GetClash(q) => c = "getClash"
      /\ UpdateMemberRole(q) => c = "updateMemberRole"
      /\ RemoveMember(q) => c = "removeMember"
      /\ CreateTeam(q) => c = "createTeam"
      /\ UpdateTeam(q) => c = "updateTeam"
      /\ DeleteTeam(q) => c = "deleteTeam"
      /\ AddTeamMember(q) => c = "joinTeam"
      /\ RemoveTeamMember(q) => c = "leaveTeam"
      /\ RemoveUserFromOrgTeams(q) => c = "leaveTeams"
  BY <1>1, OneAt
<1>3. \/ GetOrg(q) \/ UpdateOrg(q) \/ SetOnboardingDone(q) \/ DeleteOrg(q)
      \/ GetUser(q) \/ UpdateUser(q) \/ DisableUser(q) \/ GetClash(q)
      \/ UpdateMemberRole(q) \/ RemoveMember(q) \/ CreateTeam(q) \/ UpdateTeam(q)
      \/ DeleteTeam(q) \/ AddTeamMember(q) \/ RemoveTeamMember(q) \/ RemoveUserFromOrgTeams(q)
  BY DEF PeopleStep
<1> QED BY <1>2, <1>3 DEF PeopleAs, PeopleCalls

SignInAs(q, c) ==
    /\ c \in SignInCalls
    /\ c = "findLogin" => FindLogin(q)
    /\ c = "getSession" => GetSessionByToken(q)
    /\ c = "deleteSession" => DeleteSession(q)
    /\ c = "countAttempts" => CountLoginAttempts(q)
    /\ c = "recordAttempt" => RecordLoginAttempt(q)
    /\ c = "loadProvider" => LoadProvider(q)
    /\ c = "createLoginState" => CreateLoginState(q)
    /\ c = "consumeState" => ConsumeLoginState(q)
    /\ c = "findUser" => FindUser(q)
    /\ c = "listRoleMappings" => ListRoleMappings(q)
    /\ c = "getMember" => GetMember(q)
    /\ c = "upsertMember" => UpsertMember(q)
    /\ c = "upsertIdentity" => UpsertAuthIdentity(q)
    /\ c = "createProvider" => CreateAuthProvider(q)
    /\ c = "load" => Load(q)
    /\ c = "updateProvider" => UpdateAuthProvider(q)
    /\ c = "deleteProvider" => DeleteAuthProvider(q)
    /\ c = "ensureKeypair" => EnsureSPKeypair(q)
    /\ c = "createRule" => CreateRoleMapping(q)
    /\ c = "updateRule" => UpdateRoleMapping(q)
    /\ c = "deleteRule" => DeleteRoleMapping(q)
    /\ c = "listDomains" => ListOrgDomains(q)
    /\ c = "createDomain" => CreateOrgDomain(q)
    /\ c = "updateDomain" => UpdateOrgDomain(q)
    /\ c = "deleteDomain" => DeleteOrgDomain(q)

LEMMA SignInAt ==
    ASSUME NEW q, SignInStep(q), NEW c, At(q, c)
    PROVE  SignInAs(q, c)
<1>1. /\ FindLogin(q) => At(q, "findLogin")
      /\ GetSessionByToken(q) => At(q, "getSession")
      /\ DeleteSession(q) => At(q, "deleteSession")
      /\ CountLoginAttempts(q) => At(q, "countAttempts")
      /\ RecordLoginAttempt(q) => At(q, "recordAttempt")
      /\ LoadProvider(q) => At(q, "loadProvider")
      /\ CreateLoginState(q) => At(q, "createLoginState")
      /\ ConsumeLoginState(q) => At(q, "consumeState")
      /\ FindUser(q) => At(q, "findUser")
      /\ ListRoleMappings(q) => At(q, "listRoleMappings")
      /\ GetMember(q) => At(q, "getMember")
      /\ UpsertMember(q) => At(q, "upsertMember")
      /\ UpsertAuthIdentity(q) => At(q, "upsertIdentity")
      /\ CreateAuthProvider(q) => At(q, "createProvider")
      /\ Load(q) => At(q, "load")
      /\ UpdateAuthProvider(q) => At(q, "updateProvider")
      /\ DeleteAuthProvider(q) => At(q, "deleteProvider")
      /\ EnsureSPKeypair(q) => At(q, "ensureKeypair")
      /\ CreateRoleMapping(q) => At(q, "createRule")
      /\ UpdateRoleMapping(q) => At(q, "updateRule")
      /\ DeleteRoleMapping(q) => At(q, "deleteRule")
      /\ ListOrgDomains(q) => At(q, "listDomains")
      /\ CreateOrgDomain(q) => At(q, "createDomain")
      /\ UpdateOrgDomain(q) => At(q, "updateDomain")
      /\ DeleteOrgDomain(q) => At(q, "deleteDomain")
  BY DEF FindLogin, GetSessionByToken, DeleteSession, CountLoginAttempts, RecordLoginAttempt,
      LoadProvider, CreateLoginState, ConsumeLoginState, FindUser, ListRoleMappings, GetMember,
      UpsertMember, UpsertAuthIdentity, CreateAuthProvider, Load, UpdateAuthProvider, DeleteAuthProvider,
      EnsureSPKeypair, CreateRoleMapping, UpdateRoleMapping, DeleteRoleMapping, ListOrgDomains,
      CreateOrgDomain, UpdateOrgDomain, DeleteOrgDomain
<1>2. /\ FindLogin(q) => c = "findLogin"
      /\ GetSessionByToken(q) => c = "getSession"
      /\ DeleteSession(q) => c = "deleteSession"
      /\ CountLoginAttempts(q) => c = "countAttempts"
      /\ RecordLoginAttempt(q) => c = "recordAttempt"
      /\ LoadProvider(q) => c = "loadProvider"
      /\ CreateLoginState(q) => c = "createLoginState"
      /\ ConsumeLoginState(q) => c = "consumeState"
      /\ FindUser(q) => c = "findUser"
      /\ ListRoleMappings(q) => c = "listRoleMappings"
      /\ GetMember(q) => c = "getMember"
      /\ UpsertMember(q) => c = "upsertMember"
      /\ UpsertAuthIdentity(q) => c = "upsertIdentity"
      /\ CreateAuthProvider(q) => c = "createProvider"
      /\ Load(q) => c = "load"
      /\ UpdateAuthProvider(q) => c = "updateProvider"
      /\ DeleteAuthProvider(q) => c = "deleteProvider"
      /\ EnsureSPKeypair(q) => c = "ensureKeypair"
      /\ CreateRoleMapping(q) => c = "createRule"
      /\ UpdateRoleMapping(q) => c = "updateRule"
      /\ DeleteRoleMapping(q) => c = "deleteRule"
      /\ ListOrgDomains(q) => c = "listDomains"
      /\ CreateOrgDomain(q) => c = "createDomain"
      /\ UpdateOrgDomain(q) => c = "updateDomain"
      /\ DeleteOrgDomain(q) => c = "deleteDomain"
  BY <1>1, OneAt
<1>3. \/ FindLogin(q) \/ GetSessionByToken(q) \/ DeleteSession(q) \/ CountLoginAttempts(q)
      \/ RecordLoginAttempt(q) \/ LoadProvider(q) \/ CreateLoginState(q) \/ ConsumeLoginState(q)
      \/ FindUser(q) \/ ListRoleMappings(q) \/ GetMember(q) \/ UpsertMember(q)
      \/ UpsertAuthIdentity(q) \/ CreateAuthProvider(q) \/ Load(q) \/ UpdateAuthProvider(q)
      \/ DeleteAuthProvider(q) \/ EnsureSPKeypair(q) \/ CreateRoleMapping(q) \/ UpdateRoleMapping(q)
      \/ DeleteRoleMapping(q) \/ ListOrgDomains(q) \/ CreateOrgDomain(q) \/ UpdateOrgDomain(q)
      \/ DeleteOrgDomain(q)
  BY DEF SignInStep
<1> QED BY <1>2, <1>3 DEF SignInAs, SignInCalls

TokenAs(q, c) ==
    /\ c \in TokenCalls
    /\ c = "createAccount" => CreateServiceAccount(q)
    /\ c = "getAccount" => GetServiceAccount(q)
    /\ c = "updateAccount" => UpdateServiceAccount(q)
    /\ c = "deleteAccount" => DeleteServiceAccount(q)
    /\ c = "createToken" => CreateToken(q)
    /\ c = "revokeToken" => RevokeToken(q)
    /\ c = "getToken" => GetTokenByPrefix(q)
    /\ c = "getKeyAccount" => VerifyAPIKey(q)
    /\ c = "findImportAccount" => FindImportAccount(q)
    /\ c = "createImportAccount" => CreateImportAccount(q)
    /\ c = "listTokens" => ListTokens(q)
    /\ c = "revokeTokens" => RevokeListed(q)
    /\ c = "createInstallState" => CreateInstallState(q)
    /\ c = "authorizeState" => AuthorizeInstallState(q)
    /\ c = "findInstallation" => FindUserInstallation(q)
    /\ c = "verifyInstallation" => VerifyUserInstallation(q)
    /\ c = "upsertInstallation" => UpsertInstallation(q)
    /\ c = "getInstallation" => GetInstallation(q)
    /\ c = "deleteInstallation" => DeleteInstallation(q)
    /\ c = "consumeInstallState" => ConsumeInstallState(q)
    /\ c = "deleteAtGitHub" => DeleteAtGitHub(q)

LEMMA TokenAt ==
    ASSUME NEW q, TokenStep(q), NEW c, At(q, c)
    PROVE  TokenAs(q, c)
<1>1. /\ CreateServiceAccount(q) => At(q, "createAccount")
      /\ GetServiceAccount(q) => At(q, "getAccount")
      /\ UpdateServiceAccount(q) => At(q, "updateAccount")
      /\ DeleteServiceAccount(q) => At(q, "deleteAccount")
      /\ CreateToken(q) => At(q, "createToken")
      /\ RevokeToken(q) => At(q, "revokeToken")
      /\ GetTokenByPrefix(q) => At(q, "getToken")
      /\ VerifyAPIKey(q) => At(q, "getKeyAccount")
      /\ FindImportAccount(q) => At(q, "findImportAccount")
      /\ CreateImportAccount(q) => At(q, "createImportAccount")
      /\ ListTokens(q) => At(q, "listTokens")
      /\ RevokeListed(q) => At(q, "revokeTokens")
      /\ CreateInstallState(q) => At(q, "createInstallState")
      /\ AuthorizeInstallState(q) => At(q, "authorizeState")
      /\ FindUserInstallation(q) => At(q, "findInstallation")
      /\ VerifyUserInstallation(q) => At(q, "verifyInstallation")
      /\ UpsertInstallation(q) => At(q, "upsertInstallation")
      /\ GetInstallation(q) => At(q, "getInstallation")
      /\ DeleteInstallation(q) => At(q, "deleteInstallation")
      /\ ConsumeInstallState(q) => At(q, "consumeInstallState")
      /\ DeleteAtGitHub(q) => At(q, "deleteAtGitHub")
  BY DEF CreateServiceAccount, GetServiceAccount, UpdateServiceAccount, DeleteServiceAccount,
      CreateToken, RevokeToken, GetTokenByPrefix, VerifyAPIKey, FindImportAccount, CreateImportAccount,
      ListTokens, RevokeListed, CreateInstallState, AuthorizeInstallState, FindUserInstallation,
      VerifyUserInstallation, UpsertInstallation, GetInstallation, DeleteInstallation,
      ConsumeInstallState, DeleteAtGitHub
<1>2. /\ CreateServiceAccount(q) => c = "createAccount"
      /\ GetServiceAccount(q) => c = "getAccount"
      /\ UpdateServiceAccount(q) => c = "updateAccount"
      /\ DeleteServiceAccount(q) => c = "deleteAccount"
      /\ CreateToken(q) => c = "createToken"
      /\ RevokeToken(q) => c = "revokeToken"
      /\ GetTokenByPrefix(q) => c = "getToken"
      /\ VerifyAPIKey(q) => c = "getKeyAccount"
      /\ FindImportAccount(q) => c = "findImportAccount"
      /\ CreateImportAccount(q) => c = "createImportAccount"
      /\ ListTokens(q) => c = "listTokens"
      /\ RevokeListed(q) => c = "revokeTokens"
      /\ CreateInstallState(q) => c = "createInstallState"
      /\ AuthorizeInstallState(q) => c = "authorizeState"
      /\ FindUserInstallation(q) => c = "findInstallation"
      /\ VerifyUserInstallation(q) => c = "verifyInstallation"
      /\ UpsertInstallation(q) => c = "upsertInstallation"
      /\ GetInstallation(q) => c = "getInstallation"
      /\ DeleteInstallation(q) => c = "deleteInstallation"
      /\ ConsumeInstallState(q) => c = "consumeInstallState"
      /\ DeleteAtGitHub(q) => c = "deleteAtGitHub"
  BY <1>1, OneAt
<1>3. \/ CreateServiceAccount(q) \/ GetServiceAccount(q) \/ UpdateServiceAccount(q) \/ DeleteServiceAccount(q)
      \/ CreateToken(q) \/ RevokeToken(q) \/ GetTokenByPrefix(q) \/ VerifyAPIKey(q)
      \/ FindImportAccount(q) \/ CreateImportAccount(q) \/ ListTokens(q) \/ RevokeListed(q)
      \/ CreateInstallState(q) \/ AuthorizeInstallState(q) \/ FindUserInstallation(q)
          \/ VerifyUserInstallation(q)
      \/ UpsertInstallation(q) \/ GetInstallation(q) \/ DeleteInstallation(q) \/ ConsumeInstallState(q)
      \/ DeleteAtGitHub(q)
  BY DEF TokenStep
<1> QED BY <1>2, <1>3 DEF TokenAs, TokenCalls

BootAs(q, c) ==
    /\ c \in BootCalls
    /\ c = "isApplied" => IsApplied(q)
    /\ c = "applyMigration" => ApplyMigration(q)
    /\ c = "anyUser" => AnyUserExists(q)
    /\ c = "upsertUser" => UpsertUser(q)

LEMMA BootAt ==
    ASSUME NEW q, BootStep(q), NEW c, At(q, c)
    PROVE  BootAs(q, c)
<1>1. /\ IsApplied(q) => At(q, "isApplied")
      /\ ApplyMigration(q) => At(q, "applyMigration")
      /\ AnyUserExists(q) => At(q, "anyUser")
      /\ UpsertUser(q) => At(q, "upsertUser")
  BY DEF IsApplied, ApplyMigration, AnyUserExists, UpsertUser
<1>2. /\ IsApplied(q) => c = "isApplied"
      /\ ApplyMigration(q) => c = "applyMigration"
      /\ AnyUserExists(q) => c = "anyUser"
      /\ UpsertUser(q) => c = "upsertUser"
  BY <1>1, OneAt
<1>3. \/ IsApplied(q) \/ ApplyMigration(q) \/ AnyUserExists(q) \/ UpsertUser(q)
  BY DEF BootStep
<1> QED BY <1>2, <1>3 DEF BootAs, BootCalls

ActsAs(q, c) ==
    \/ SharedAs(q, c) \/ PeopleAs(q, c) \/ SignInAs(q, c) \/ TokenAs(q, c) \/ BootAs(q, c)

\* A request that is at the call c does c.
LEMMA ActsAt ==
    ASSUME NEW q \in Requests, Acts(q), NEW c, At(q, c)
    PROVE  ActsAs(q, c)
BY SharedAt, PeopleAt, SignInAt, TokenAt, BootAt DEF Acts, ActsAs

(***************************************************************************)
(* Login states.                                                           *)
(***************************************************************************)
\* A callback that has consumed its state and has not made its session; a
\* request that has not yet made what c makes.
Holding(q) == Op(q) = "callback" /\ "consumeState" \notin Left(q) /\ "createSession" \in Left(q)
Unborn(q, c) == Op(q) = "none" \/ c \in Left(q)

\* A login state is yet to be made, or in the table, or held by one callback, or
\* named by one session.
StateInv ==
    /\ \A q \in Requests : Holding(q) =>
         /\ Mem(q).ref \in Ids \ DOMAIN db.loginStates
         /\ \A t \in DOMAIN db.sessions : db.sessions[t].state # Mem(q).ref
    /\ \A p, q \in Requests : p # q /\ Holding(p) /\ Holding(q) => Mem(p).ref # Mem(q).ref
    /\ \A t \in DOMAIN db.sessions : db.sessions[t].state \notin DOMAIN db.loginStates
    /\ StateUsedOnce
    /\ \A q \in Requests : Unborn(q, "createLoginState") =>
         /\ q \notin DOMAIN db.loginStates
         /\ \A p \in Requests : Holding(p) => Mem(p).ref # q
         /\ \A t \in DOMAIN db.sessions : db.sessions[t].state # q

HeldAsBefore(p) == Holding(p)' => Holding(p) /\ Mem(p)'.ref = Mem(p).ref

\* Nothing is made, held or named that was not before.
LEMMA StateKept ==
    ASSUME StateInv, DOMAIN db'.loginStates \subseteq DOMAIN db.loginStates,
           DOMAIN db'.sessions \subseteq DOMAIN db.sessions,
           \A t \in DOMAIN db'.sessions : db'.sessions[t] = db.sessions[t],
           \A p \in Requests : HeldAsBefore(p),
           \A p \in Requests : Unborn(p, "createLoginState")' => Unborn(p, "createLoginState")
    PROVE  StateInv'
<1>1. \A q \in Requests : Holding(q)' =>
         /\ Mem(q)'.ref \in Ids \ DOMAIN db'.loginStates
         /\ \A t \in DOMAIN db'.sessions : db'.sessions[t].state # Mem(q)'.ref
  BY DEF StateInv, HeldAsBefore
<1>2. \A p, q \in Requests : p # q /\ Holding(p)' /\ Holding(q)' => Mem(p)'.ref # Mem(q)'.ref
  BY DEF StateInv, HeldAsBefore
<1>3. \A t \in DOMAIN db'.sessions : db'.sessions[t].state \notin DOMAIN db'.loginStates
  BY DEF StateInv
<1>4. StateUsedOnce'
  BY DEF StateInv, StateUsedOnce
<1>5. \A q \in Requests : Unborn(q, "createLoginState")' =>
         /\ q \notin DOMAIN db'.loginStates
         /\ \A p \in Requests : Holding(p)' => Mem(p)'.ref # q
         /\ \A t \in DOMAIN db'.sessions : db'.sessions[t].state # q
  BY DEF StateInv, HeldAsBefore
<1> QED BY <1>1, <1>2, <1>3, <1>4, <1>5 DEF StateInv

\* Who is at a call of another operation is no callback.
LEMMA NotOfCallback ==
    ASSUME AccountsInv, NEW q \in Requests, NEW c, At(q, c), Op(q) = "callback"
    PROVE  c \notin Loops /\ c \notin {"getToken", "findImportAccount", "createImportAccount"}
<1>1. c \in Left(q) /\ CallsOfOp("callback", Left(q))
  BY AtCall DEF Known
<1> QED BY <1>1 DEF CallsOfOp, CallbackSteps, Loops

LEMMA HeldOn ==
    ASSUME AccountsInv, NEW q \in Requests, NEW c, Foot(q, c), c # "consumeState",
           NEW p \in Requests
    PROVE  HeldAsBefore(p)
<1>1. CASE p # q
  <2>1. proc'[p] = proc[p]
    BY <1>1 DEF Foot, Advances, Ended, Moved, Others
  <2> QED BY <2>1 DEF HeldAsBefore, Holding, Op, Left, Mem
<1>2. CASE p = q
  <2> SUFFICES ASSUME Holding(q)' PROVE Holding(q) /\ Mem(q)'.ref = Mem(q).ref
    BY <1>2 DEF HeldAsBefore
  <2>1. Op(q)' = "callback" /\ "consumeState" \notin Left(q)' /\ "createSession" \in Left(q)'
    BY DEF Holding
  <2>2. At(q, c) /\ Op(q)' = Op(q)
    BY DEF Foot, Advances, Ended, Moved
  <2>3. c \notin Loops /\ c \notin {"getToken", "findImportAccount", "createImportAccount"}
    BY <2>1, <2>2, NotOfCallback
  <2>4. PICK n : Moved(q, c, n) /\ Recalls(c, Mem(q), n)
    BY <2>1, <2>3 DEF Foot, Advances, Ended
  <2>5. Left(q)' \subseteq Left(q) /\ Left(q) \subseteq Left(q)' \cup {c} /\ Mem(q)' = n
    BY <2>1, <2>4 DEF Moved
  <2>6. n.ref = Mem(q).ref
    BY <2>3, <2>4 DEF Recalls
  <2> QED BY <2>1, <2>2, <2>5, <2>6 DEF Holding
<1> QED BY <1>1, <1>2

LEMMA UnbornOn ==
    ASSUME AccountsInv, NEW q \in Requests, NEW c, Foot(q, c), NEW p \in Requests,
           NEW x, x \notin {"createImportAccount", "applyMigration"}, Unborn(p, x)'
    PROVE  Unborn(p, x)
<1>1. CASE p # q
  <2>1. proc'[p] = proc[p]
    BY <1>1 DEF Foot, Advances, Ended, Moved, Others
  <2> QED BY <2>1 DEF Unborn, Op, Left
<1>2. CASE p = q
  <2>1. Op(q)' = Op(q) /\ Left(q)' \subseteq Left(q) \cup {"createImportAccount", "applyMigration"}
    BY DEF Foot, Advances, Ended, Moved
  <2> QED BY <1>2, <2>1 DEF Unborn
<1> QED BY <1>1, <1>2

\* The tables that a call leaves alone.
LEMMA Spared ==
    ASSUME NEW c, Spares(c, db')
    PROVE  /\ c \notin {"createSession", "deleteSession"} => db'.sessions = db.sessions
           /\ c \notin {"createLoginState", "consumeState", "deleteProvider", "deleteOrg"} =>
                db'.loginStates = db.loginStates
           /\ c \notin {"createInstallState", "authorizeState", "consumeInstallState", "deleteOrg"} =>
                db'.installStates = db.installStates
<1>1. "sessions" \in Fields /\ "loginStates" \in Fields /\ "installStates" \in Fields
  BY DEF Fields
<1>2. /\ Writers("sessions") = {"createSession", "deleteSession"}
      /\ Writers("loginStates") = {"createLoginState", "consumeState", "deleteProvider", "deleteOrg"}
      /\ Writers("installStates") =
           {"createInstallState", "authorizeState", "consumeInstallState", "deleteOrg"}
  BY DEF Writers
<1> QED BY <1>1, <1>2 DEF Spares

LEMMA StateQuiet ==
    ASSUME AccountsInv, StateInv, NEW q \in Requests, NEW c, Foot(q, c),
           c \notin {"createLoginState", "consumeState", "deleteProvider", "deleteOrg",
                     "createSession", "deleteSession"}
    PROVE  StateInv'
<1>1. db'.sessions = db.sessions /\ db'.loginStates = db.loginStates
  BY Spared DEF Foot
<1>2. \A p \in Requests : HeldAsBefore(p)
  BY HeldOn
<1>3. \A p \in Requests : Unborn(p, "createLoginState")' => Unborn(p, "createLoginState")
  BY UnbornOn
<1> QED BY <1>1, <1>2, <1>3, StateKept

LEMMA StateDeletes ==
    ASSUME AccountsInv, StateInv, NEW q \in Requests, NEW c, Foot(q, c), Acts(q),
           c \in {"deleteProvider", "deleteOrg", "deleteSession"}
    PROVE  StateInv'
<1>1. DOMAIN db = Fields
  BY DEF AccountsInv, DbOK
<1>2. At(q, c) /\ Spares(c, db')
  BY DEF Foot
<1>3. ActsAs(q, c)
  BY <1>2, ActsAt
<1>4. /\ DOMAIN db'.loginStates \subseteq DOMAIN db.loginStates
      /\ DOMAIN db'.sessions \subseteq DOMAIN db.sessions
      /\ \A t \in DOMAIN db'.sessions : db'.sessions[t] = db.sessions[t]
  <2>1. CASE c = "deleteProvider"
    <3>1. DeleteAuthProvider(q)
      BY <1>3, <2>1 DEF ActsAs, SharedAs, PeopleAs, SignInAs, TokenAs, BootAs, SharedCalls, PeopleCalls,
          TokenCalls, BootCalls
    <3>2. PICK ps, rs, ss :
            /\ ss = Keep(db.loginStates,
                         {s \in DOMAIN db.loginStates : db.loginStates[s] # Mem(q).provider})
            /\ db' = [db EXCEPT !.providers = ps, !.rules = rs, !.loginStates = ss]
      BY <3>1 DEF DeleteAuthProvider, Writes
    <3>3. db'.loginStates = ss /\ db'.sessions = db.sessions
      BY <1>1, <3>2 DEF Fields
    <3> QED BY <3>2, <3>3 DEF Keep
  <2>2. CASE c = "deleteOrg"
    <3>1. DeleteOrg(q)
      BY <1>3, <2>2 DEF ActsAs, SharedAs, PeopleAs, SignInAs, TokenAs, BootAs, SharedCalls, SignInCalls,
          TokenCalls, BootCalls
    <3>2. DeletedOrg(Mem(q).org)
      BY <1>1, <3>1, DeleteOrgDoes
    <3> QED BY <3>2 DEF DeletedOrg, Empty
  <2>3. CASE c = "deleteSession"
    <3>1. DeleteSession(q)
      BY <1>3, <2>3 DEF ActsAs, SharedAs, PeopleAs, SignInAs, TokenAs, BootAs, SharedCalls, PeopleCalls,
          TokenCalls, BootCalls
    <3>2. PICK ss : ss = Keep(db.sessions, DOMAIN db.sessions \ {Mem(q).ref})
              /\ db' = [db EXCEPT !.sessions = ss]
      BY <3>1 DEF DeleteSession, Writes
    <3>3. db'.loginStates = db.loginStates /\ db'.sessions = ss
      BY <1>1, <3>2 DEF Fields
    <3> QED BY <3>2, <3>3 DEF Keep
  <2> QED BY <2>1, <2>2, <2>3
<1>5. \A p \in Requests : HeldAsBefore(p)
  BY HeldOn
<1>6. \A p \in Requests : Unborn(p, "createLoginState")' => Unborn(p, "createLoginState")
  BY UnbornOn
<1> QED BY <1>4, <1>5, <1>6, StateKept

LEMMA StateConsumed ==
    ASSUME AccountsInv, StateInv, NEW q \in Requests, Foot(q, "consumeState"), ConsumeLoginState(q)
    PROVE  StateInv'
<1>1. DOMAIN db = Fields /\ DOMAIN db.loginStates \subseteq Ids
  BY DEF AccountsInv, DbOK, ProvidersOK
<1>2. At(q, "consumeState") /\ Mem(q) \in AccountMemory /\ "consumeState" \in Left(q) /\ ProcType
  BY AtCall DEF Foot, AccountsInv
<1>3. \A p \in Requests : Unborn(p, "createLoginState")' => Unborn(p, "createLoginState")
  BY UnbornOn
<1>4. db'.sessions = db.sessions
  BY Spared DEF Foot
<1>5. Others(q)
  BY DEF Foot, Advances, Ended, Moved
<1>6. \A p \in Requests : p # q => HeldAsBefore(p)
  BY <1>5 DEF Others, HeldAsBefore, Holding, Op, Left, Mem
<1>7. PICK s, ls : s = Mem(q).ref /\ ls = Keep(db.loginStates, DOMAIN db.loginStates \ {s})
  OBVIOUS
<1>8. DOMAIN ls = DOMAIN db.loginStates \ {s}
  BY <1>7 DEF Keep
<1>9. \/ /\ s \in DOMAIN db.loginStates /\ db' = [db EXCEPT !.loginStates = ls]
         /\ Ends(q) \/ Keeps(q, [Mem(q) EXCEPT !.aux = db.loginStates[s]])
      \/ Ends(q) /\ db' = db
  BY <1>7 DEF ConsumeLoginState, Writes, Refuses
<1>10. db'.loginStates = db.loginStates \/ db'.loginStates = ls
  BY <1>1, <1>9 DEF Fields
<1>11. CASE Ends(q)
  <2>1. Left(q)' = {}
    BY <1>2, <1>11, EndsMoves DEF Ended
  <2>2. HeldAsBefore(q)
    BY <2>1 DEF HeldAsBefore, Holding
  <2> QED BY <1>3, <1>4, <1>6, <1>8, <1>10, <2>2, StateKept
<1>12. CASE /\ s \in DOMAIN db.loginStates /\ db' = [db EXCEPT !.loginStates = ls]
            /\ Keeps(q, [Mem(q) EXCEPT !.aux = db.loginStates[s]])
  <2>1. PICK a \in Ids : a = db.loginStates[s]
    BY <1>12 DEF AccountsInv, DbOK, ProvidersOK
  <2>2. PICK n : n = [Mem(q) EXCEPT !.aux = a]
    OBVIOUS
  <2>3. n \in AccountMemory /\ n.ref = s
    BY <1>2, <1>7, <2>1, <2>2 DEF AccountMemory, MaybeId
  <2>4. Moved(q, "consumeState", n)
    <3>1. Listed(proc[q].todo)
      BY <1>2, AtCall
    <3> QED BY <1>2, <1>12, <2>1, <2>2, <2>3, <3>1, KeepsMoves
  <2>5. DOMAIN db'.loginStates = DOMAIN db.loginStates \ {s}
    BY <1>1, <1>8, <1>12 DEF Fields
  <2>6. Holding(q)' => Mem(q)'.ref = s
    BY <2>3, <2>4 DEF Holding, Moved
  <2>7. ~Holding(q)
    BY <1>2 DEF Holding
  <2>8. s \in Ids /\ s \in DOMAIN db.loginStates
    BY <1>1, <1>12
  <2>9. \A p \in Requests : Holding(p)' =>
         /\ Mem(p)'.ref \in Ids \ DOMAIN db'.loginStates
         /\ \A t \in DOMAIN db'.sessions : db'.sessions[t].state # Mem(p)'.ref
    BY <1>4, <1>6, <2>5, <2>6, <2>8 DEF StateInv, HeldAsBefore
  <2>10. \A p, r \in Requests : p # r /\ Holding(p)' /\ Holding(r)' => Mem(p)'.ref # Mem(r)'.ref
    <3>1. \A p \in Requests : p # q /\ Holding(p)' => Mem(p)'.ref # s
      BY <1>6, <2>8 DEF StateInv, HeldAsBefore
    <3>2. \A p, r \in Requests : p # r /\ p # q /\ r # q /\ Holding(p)' /\ Holding(r)' =>
            Mem(p)'.ref # Mem(r)'.ref
      BY <1>6 DEF StateInv, HeldAsBefore
    <3> QED BY <2>6, <3>1, <3>2
  <2>11. \A t \in DOMAIN db'.sessions : db'.sessions[t].state \notin DOMAIN db'.loginStates
    BY <1>4, <2>5 DEF StateInv
  <2>12. StateUsedOnce'
    BY <1>4 DEF StateInv, StateUsedOnce
  <2>13. \A r \in Requests : Unborn(r, "createLoginState")' =>
         /\ r \notin DOMAIN db'.loginStates
         /\ \A p \in Requests : Holding(p)' => Mem(p)'.ref # r
         /\ \A t \in DOMAIN db'.sessions : db'.sessions[t].state # r
    BY <1>3, <1>4, <1>6, <2>5, <2>6, <2>8 DEF StateInv, HeldAsBefore
  <2> QED BY <2>9, <2>10, <2>11, <2>12, <2>13 DEF StateInv
<1> QED BY <1>9, <1>11, <1>12

LEMMA StateCreated ==
    ASSUME AccountsInv, StateInv, NEW q \in Requests, Foot(q, "createLoginState"), CreateLoginState(q)
    PROVE  StateInv'
<1>1. DOMAIN db = Fields
  BY DEF AccountsInv, DbOK
<1>2. /\ At(q, "createLoginState") /\ "createLoginState" \in Left(q) /\ Op(q) # "none"
      /\ Mem(q) \in AccountMemory /\ Listed(proc[q].todo) /\ ProcType
  BY AtCall DEF Foot, AccountsInv
<1>3. \A p \in Requests : Unborn(p, "createLoginState")' => Unborn(p, "createLoginState")
  BY UnbornOn
<1>4. \A p \in Requests : HeldAsBefore(p)
  BY HeldOn
<1>5. db'.sessions = db.sessions
  BY Spared DEF Foot
<1>6. CASE Refuses(q)
  BY <1>3, <1>4, <1>5, <1>6, StateKept DEF Refuses
<1>7. ASSUME NEW ls, ls = With(db.loginStates, q, Mem(q).provider),
             Writes(q, [db EXCEPT !.loginStates = ls], Mem(q))
      PROVE  StateInv'
  <2>1. DOMAIN db'.loginStates = DOMAIN db.loginStates \cup {q}
    BY <1>1, <1>7 DEF Fields, Writes, With
  <2>2. Moved(q, "createLoginState", Mem(q))
    BY <1>2, <1>7, KeepsMoves DEF Writes
  <2>3. ~Precedes("createLoginState", "createLoginState")
    BY DEF Precedes, Rank, Makers, Inserters
  <2>4. ~Unborn(q, "createLoginState")' /\ Unborn(q, "createLoginState")
    BY <1>2, <2>2, <2>3 DEF Unborn, Moved
  <2>5. \A p \in Requests : Holding(p)' =>
         /\ Mem(p)'.ref \in Ids \ DOMAIN db'.loginStates
         /\ \A t \in DOMAIN db'.sessions : db'.sessions[t].state # Mem(p)'.ref
    BY <1>4, <1>5, <2>1, <2>4 DEF StateInv, HeldAsBefore
  <2>6. \A p, r \in Requests : p # r /\ Holding(p)' /\ Holding(r)' => Mem(p)'.ref # Mem(r)'.ref
    BY <1>4 DEF StateInv, HeldAsBefore
  <2>7. \A t \in DOMAIN db'.sessions : db'.sessions[t].state \notin DOMAIN db'.loginStates
    BY <1>5, <2>1, <2>4 DEF StateInv
  <2>8. StateUsedOnce'
    BY <1>5 DEF StateInv, StateUsedOnce
  <2>9. \A r \in Requests : Unborn(r, "createLoginState")' =>
         /\ r \notin DOMAIN db'.loginStates
         /\ \A p \in Requests : Holding(p)' => Mem(p)'.ref # r
         /\ \A t \in DOMAIN db'.sessions : db'.sessions[t].state # r
    BY <1>3, <1>4, <1>5, <2>1, <2>4 DEF StateInv, HeldAsBefore
  <2> QED BY <2>5, <2>6, <2>7, <2>8, <2>9 DEF StateInv
<1> QED BY <1>6, <1>7 DEF CreateLoginState

LEMMA StateNamed ==
    ASSUME AccountsInv, StateInv, NEW q \in Requests, Foot(q, "createSession"), CreateSession(q)
    PROVE  StateInv'
<1>1. DOMAIN db = Fields
  BY DEF AccountsInv, DbOK
<1>2. /\ At(q, "createSession") /\ "createSession" \in Left(q)
      /\ Mem(q) \in AccountMemory /\ Listed(proc[q].todo) /\ ProcType
      /\ \A d \in Left(q) : d = "createSession" \/ Precedes("createSession", d)
  BY AtCall DEF Foot, AccountsInv
<1>3. Left(q) = {"createSession"}
  BY <1>2 DEF Precedes
<1>4. \A p \in Requests : Unborn(p, "createLoginState")' => Unborn(p, "createLoginState")
  BY UnbornOn
<1>5. \A p \in Requests : HeldAsBefore(p)
  BY HeldOn
<1>6. db'.loginStates = db.loginStates
  BY Spared DEF Foot
<1>7. PICK row : row = IF Op(q) = "callback"
                       THEN [user |-> Mem(q).user, state |-> Mem(q).ref, began |-> Mem(q).aux,
                             ended |-> Mem(q).provider]
                       ELSE [user |-> Mem(q).user, state |-> Null, began |-> Null, ended |-> Null]
  OBVIOUS
<1>8. PICK ss : ss = With(db.sessions, q, row)
  OBVIOUS
<1>9. Writes(q, [db EXCEPT !.sessions = ss], Mem(q))
  BY <1>7, <1>8 DEF CreateSession
<1>10. db'.sessions = ss
  BY <1>1, <1>9 DEF Fields, Writes
<1>11. /\ DOMAIN ss = DOMAIN db.sessions \cup {q} /\ ss[q] = row
       /\ \A t \in DOMAIN ss : t # q => t \in DOMAIN db.sessions /\ ss[t] = db.sessions[t]
  BY <1>8 DEF With
<1>12. Moved(q, "createSession", Mem(q))
  BY <1>2, <1>9, KeepsMoves DEF Writes
<1>13. ~Holding(q)'
  BY <1>12 DEF Holding, Moved, Precedes
<1>14. IF Op(q) = "callback" THEN Holding(q) /\ row.state = Mem(q).ref ELSE row.state = Null
  BY <1>3, <1>7 DEF Holding
<1>15. /\ row.state \notin DOMAIN db.loginStates
       /\ \A p \in Requests : p # q /\ Holding(p) => Mem(p).ref # row.state
       /\ row.state # Null => \A t \in DOMAIN db.sessions : db.sessions[t].state # row.state
       /\ \A r \in Requests : Unborn(r, "createLoginState") => row.state # r
  <2>1. Null \notin Ids /\ DOMAIN db.loginStates \subseteq Ids /\ Requests \subseteq Ids
    BY AccountTablesAssumption DEF AccountsInv, DbOK, ProvidersOK, Ids
  <2>2. CASE Op(q) = "callback"
    BY <1>14, <2>2 DEF StateInv
  <2>3. CASE Op(q) # "callback"
    BY <1>14, <2>1, <2>3 DEF StateInv
  <2> QED BY <2>2, <2>3
<1>16. \A p \in Requests : Holding(p)' =>
         /\ Mem(p)'.ref \in Ids \ DOMAIN db'.loginStates
         /\ \A t \in DOMAIN db'.sessions : db'.sessions[t].state # Mem(p)'.ref
  BY <1>5, <1>6, <1>10, <1>11, <1>13, <1>15 DEF StateInv, HeldAsBefore
<1>17. \A p, r \in Requests : p # r /\ Holding(p)' /\ Holding(r)' => Mem(p)'.ref # Mem(r)'.ref
  BY <1>5 DEF StateInv, HeldAsBefore
<1>18. \A t \in DOMAIN db'.sessions : db'.sessions[t].state \notin DOMAIN db'.loginStates
  BY <1>6, <1>10, <1>11, <1>15 DEF StateInv
<1>19. StateUsedOnce'
  BY <1>10, <1>11, <1>15 DEF StateInv, StateUsedOnce
<1>20. \A r \in Requests : Unborn(r, "createLoginState")' =>
         /\ r \notin DOMAIN db'.loginStates
         /\ \A p \in Requests : Holding(p)' => Mem(p)'.ref # r
         /\ \A t \in DOMAIN db'.sessions : db'.sessions[t].state # r
  BY <1>4, <1>5, <1>6, <1>10, <1>11, <1>15 DEF StateInv, HeldAsBefore
<1> QED BY <1>16, <1>17, <1>18, <1>19, <1>20 DEF StateInv

LEMMA StateActs ==
    ASSUME AccountsInv, StateInv, NEW q \in Requests, Acts(q)
    PROVE  StateInv'
<1>1. PICK c : Foot(q, c)
  BY ActsFoot
<1>2. At(q, c)
  BY <1>1 DEF Foot
<1>3. ActsAs(q, c)
  BY <1>2, ActsAt
<1>4. CASE c \in {"createLoginState", "consumeState", "createSession"}
  <2>1. /\ c = "createLoginState" => CreateLoginState(q)
        /\ c = "consumeState" => ConsumeLoginState(q)
        /\ c = "createSession" => CreateSession(q)
    BY <1>3 DEF ActsAs, SharedAs, PeopleAs, SignInAs, TokenAs, BootAs,
                SharedCalls, PeopleCalls, SignInCalls, TokenCalls, BootCalls
  <2> QED BY <1>1, <1>4, <2>1, StateCreated, StateConsumed, StateNamed
<1> QED BY <1>1, <1>4, StateDeletes, StateQuiet

(***************************************************************************)
(* The start of a request.                                                 *)
(***************************************************************************)
\* What the calls L of a request that does op begin with.
Fresh(op, L) ==
    /\ op = "callback" => {"consumeState", "loadProvider", "getMember", "seats"} \subseteq L
    /\ op = "addMember" => "seats" \in L
    /\ op = "importToken" =>
         L = {"getInstallation", "findImportAccount", "listTokens", "revokeTokens", "createToken"}
    /\ op = "provision" =>
         L = {"emailFree", "createUser", "createOrg", "addMember", "createSystemAccount", "createSession"}
    /\ op = "boot" => L = {"isApplied", "anyUser", "createOrg", "upsertUser", "addMember"}
    /\ "addMember" \in L => op = "addMember" \/ "createOrg" \in L
    /\ "recordAttempt" \in L => "countAttempts" \in L
    /\ "createDomain" \in L => "listDomains" \in L
    /\ "removeMember" \in L => op = "removeMember"
    /\ L \cap {"updateAccount", "deleteAccount"} # {} => "getAccount" \in L
    /\ op = "login" => L = {"findLogin", "createSession"}
    /\ op = "sessionToken" => L = {"getSession", "createSession"}
    /\ op = "createOrgByKey" => L = {"getToken", "getKeyAccount", "createOrg", "createSystemAccount"}
    /\ op = "uninstall" => L = {"getInstallation", "deleteAtGitHub", "deleteInstallation"}
    /\ op = "updateMember" =>
         L = {"getUser", "getClash", "updateUser", "updateMemberRole", "leaveTeams", "joinTeam"}
    /\ "createSession" \in L => op \in {"login", "sessionToken", "callback", "provision"}
    /\ "updateUser" \in L =>
         /\ op \in {"updateUser", "resetPassword", "setAccountPassword", "updateMember"}
         /\ "getUser" \in L
         /\ L \subseteq {"getUser", "getClash", "updateUser", "updateMemberRole", "leaveTeams", "joinTeam"}
    /\ L \cap {"updateProvider", "ensureKeypair"} # {} =>
         "load" \in L /\ L \subseteq {"load", "updateProvider", "ensureKeypair"}

Begins(q, op, s) == \E m : Arrives(q, op, s, m)

LEMMA PeopleBegins ==
    ASSUME NEW q, NEW op \in PeopleOps, PeopleStart(q, op)
    PROVE  \E s : Begins(q, op, s) /\ Fresh(op, CallsOf(s))
<1>1. ASSUME op = "createOrg" PROVE Begins(q, op, CreateOrgSteps) /\ Fresh(op, CallsOf(CreateOrgSteps))
  <2>1. Begins(q, op, CreateOrgSteps)
    BY <1>1 DEF PeopleStart, Begins
  <2> QED BY <1>1, <2>1, PeopleLists DEF Fresh
<1>2. ASSUME op = "updateOrg" PROVE Begins(q, op, UpdateOrgSteps) /\ Fresh(op, CallsOf(UpdateOrgSteps))
  <2>1. Begins(q, op, UpdateOrgSteps)
    BY <1>2 DEF PeopleStart, Begins
  <2> QED BY <1>2, <2>1, PeopleLists DEF Fresh
<1>3. ASSUME op = "deleteOrg" PROVE Begins(q, op, DeleteOrgSteps) /\ Fresh(op, CallsOf(DeleteOrgSteps))
  <2>1. Begins(q, op, DeleteOrgSteps)
    BY <1>3 DEF PeopleStart, Begins
  <2> QED BY <1>3, <2>1, PeopleLists DEF Fresh
<1>4. ASSUME op = "completeOnboarding" PROVE Begins(q, op, CompleteOnboardingSteps) /\ Fresh(op,
          CallsOf(CompleteOnboardingSteps))
  <2>1. Begins(q, op, CompleteOnboardingSteps)
    BY <1>4 DEF PeopleStart, Begins
  <2> QED BY <1>4, <2>1, PeopleLists DEF Fresh
<1>5. ASSUME op = "createUser" PROVE Begins(q, op, CreateUserSteps) /\ Fresh(op, CallsOf(CreateUserSteps))
  <2>1. Begins(q, op, CreateUserSteps)
    BY <1>5 DEF PeopleStart, Begins
  <2> QED BY <1>5, <2>1, PeopleLists DEF Fresh
<1>6. ASSUME op = "updateUser" PROVE Begins(q, op, UpdateUserSteps) /\ Fresh(op, CallsOf(UpdateUserSteps))
  <2>1. Begins(q, op, UpdateUserSteps)
    BY <1>6 DEF PeopleStart, Begins
  <2> QED BY <1>6, <2>1, PeopleLists DEF Fresh
<1>7. ASSUME op = "resetPassword" PROVE Begins(q, op, ResetPasswordSteps) /\ Fresh(op,
          CallsOf(ResetPasswordSteps))
  <2>1. Begins(q, op, ResetPasswordSteps)
    BY <1>7 DEF PeopleStart, Begins
  <2> QED BY <1>7, <2>1, PeopleLists DEF Fresh
<1>8. ASSUME op = "setAccountPassword" PROVE Begins(q, op, SetAccountPasswordSteps) /\ Fresh(op,
          CallsOf(SetAccountPasswordSteps))
  <2>1. Begins(q, op, SetAccountPasswordSteps)
    BY <1>8 DEF PeopleStart, Begins
  <2> QED BY <1>8, <2>1, PeopleLists DEF Fresh
<1>9. ASSUME op = "disable" PROVE Begins(q, op, DisableSteps) /\ Fresh(op, CallsOf(DisableSteps))
  <2>1. Begins(q, op, DisableSteps)
    BY <1>9 DEF PeopleStart, Begins
  <2> QED BY <1>9, <2>1, PeopleLists DEF Fresh
<1>10. ASSUME op = "addMember" PROVE Begins(q, op, AddMemberSteps) /\ Fresh(op, CallsOf(AddMemberSteps))
  <2>1. Begins(q, op, AddMemberSteps)
    BY <1>10 DEF PeopleStart, Begins
  <2> QED BY <1>10, <2>1, PeopleLists DEF Fresh
<1>11. ASSUME op = "updateMember" PROVE Begins(q, op, UpdateMemberSteps) /\ Fresh(op,
           CallsOf(UpdateMemberSteps))
  <2>1. Begins(q, op, UpdateMemberSteps)
    BY <1>11 DEF PeopleStart, Begins
  <2> QED BY <1>11, <2>1, PeopleLists DEF Fresh
<1>12. ASSUME op = "removeMember" PROVE Begins(q, op, RemoveMemberSteps) /\ Fresh(op,
           CallsOf(RemoveMemberSteps))
  <2>1. Begins(q, op, RemoveMemberSteps)
    BY <1>12 DEF PeopleStart, Begins
  <2> QED BY <1>12, <2>1, PeopleLists DEF Fresh
<1>13. ASSUME op = "createTeam" PROVE Begins(q, op, CreateTeamSteps) /\ Fresh(op, CallsOf(CreateTeamSteps))
  <2>1. Begins(q, op, CreateTeamSteps)
    BY <1>13 DEF PeopleStart, Begins
  <2> QED BY <1>13, <2>1, PeopleLists DEF Fresh
<1>14. ASSUME op = "updateTeam" PROVE Begins(q, op, UpdateTeamSteps) /\ Fresh(op, CallsOf(UpdateTeamSteps))
  <2>1. Begins(q, op, UpdateTeamSteps)
    BY <1>14 DEF PeopleStart, Begins
  <2> QED BY <1>14, <2>1, PeopleLists DEF Fresh
<1>15. ASSUME op = "deleteTeam" PROVE Begins(q, op, DeleteTeamSteps) /\ Fresh(op, CallsOf(DeleteTeamSteps))
  <2>1. Begins(q, op, DeleteTeamSteps)
    BY <1>15 DEF PeopleStart, Begins
  <2> QED BY <1>15, <2>1, PeopleLists DEF Fresh
<1>16. ASSUME op = "addTeamMember" PROVE Begins(q, op, AddTeamMemberSteps) /\ Fresh(op,
           CallsOf(AddTeamMemberSteps))
  <2>1. Begins(q, op, AddTeamMemberSteps)
    BY <1>16 DEF PeopleStart, Begins
  <2> QED BY <1>16, <2>1, PeopleLists DEF Fresh
<1>17. ASSUME op = "removeTeamMember" PROVE Begins(q, op, RemoveTeamMemberSteps) /\ Fresh(op,
           CallsOf(RemoveTeamMemberSteps))
  <2>1. Begins(q, op, RemoveTeamMemberSteps)
    BY <1>17 DEF PeopleStart, Begins
  <2> QED BY <1>17, <2>1, PeopleLists DEF Fresh
<1> QED BY <1>1, <1>2, <1>3, <1>4, <1>5, <1>6, <1>7, <1>8, <1>9, <1>10, <1>11, <1>12, <1>13, <1>14,
        <1>15, <1>16, <1>17 DEF PeopleOps

LEMMA SignInBegins ==
    ASSUME NEW q, NEW op \in SignInOps, SignInStart(q, op)
    PROVE  \E s : Begins(q, op, s) /\ Fresh(op, CallsOf(s))
<1>1. ASSUME op = "login" PROVE Begins(q, op, LoginSteps) /\ Fresh(op, CallsOf(LoginSteps))
  <2>1. Begins(q, op, LoginSteps)
    BY <1>1 DEF SignInStart, Begins
  <2> QED BY <1>1, <2>1, SignInLists DEF Fresh
<1>2. ASSUME op = "logout" PROVE Begins(q, op, LogoutSteps) /\ Fresh(op, CallsOf(LogoutSteps))
  <2>1. Begins(q, op, LogoutSteps)
    BY <1>2 DEF SignInStart, Begins
  <2> QED BY <1>2, <2>1, SignInLists DEF Fresh
<1>3. ASSUME op = "sessionToken" PROVE Begins(q, op, SessionTokenSteps) /\ Fresh(op,
          CallsOf(SessionTokenSteps))
  <2>1. Begins(q, op, SessionTokenSteps)
    BY <1>3 DEF SignInStart, Begins
  <2> QED BY <1>3, <2>1, SignInLists DEF Fresh
<1>4. ASSUME op = "discover" PROVE Begins(q, op, DiscoverOrgsSteps) /\ Fresh(op, CallsOf(DiscoverOrgsSteps))
  <2>1. Begins(q, op, DiscoverOrgsSteps)
    BY <1>4 DEF SignInStart, Begins
  <2> QED BY <1>4, <2>1, SignInLists DEF Fresh
<1>5. ASSUME op = "provision" PROVE Begins(q, op, ProvisionAccountSteps) /\ Fresh(op,
          CallsOf(ProvisionAccountSteps))
  <2>1. Begins(q, op, ProvisionAccountSteps)
    BY <1>5 DEF SignInStart, Begins
  <2> QED BY <1>5, <2>1, SignInLists DEF Fresh
<1>6. ASSUME op = "initiateLogin" PROVE Begins(q, op, InitiateLoginSteps) /\ Fresh(op,
          CallsOf(InitiateLoginSteps))
  <2>1. Begins(q, op, InitiateLoginSteps)
    BY <1>6 DEF SignInStart, Begins
  <2> QED BY <1>6, <2>1, SignInLists DEF Fresh
<1>7. ASSUME op = "callback" PROVE Begins(q, op, CallbackSteps) /\ Fresh(op, CallsOf(CallbackSteps))
  <2>1. Begins(q, op, CallbackSteps)
    BY <1>7 DEF SignInStart, Begins
  <2> QED BY <1>7, <2>1, CallbackList DEF Fresh
<1>8. ASSUME op = "createProvider" PROVE Begins(q, op, CreateProviderSteps) /\ Fresh(op,
          CallsOf(CreateProviderSteps))
  <2>1. Begins(q, op, CreateProviderSteps)
    BY <1>8 DEF SignInStart, Begins
  <2> QED BY <1>8, <2>1, SignInLists DEF Fresh
<1>9. ASSUME op = "updateProvider" PROVE Begins(q, op, UpdateProviderSteps) /\ Fresh(op,
          CallsOf(UpdateProviderSteps))
  <2>1. Begins(q, op, UpdateProviderSteps)
    BY <1>9 DEF SignInStart, Begins
  <2> QED BY <1>9, <2>1, SignInLists DEF Fresh
<1>10. ASSUME op = "deleteProvider" PROVE Begins(q, op, DeleteProviderSteps) /\ Fresh(op,
           CallsOf(DeleteProviderSteps))
  <2>1. Begins(q, op, DeleteProviderSteps)
    BY <1>10 DEF SignInStart, Begins
  <2> QED BY <1>10, <2>1, SignInLists DEF Fresh
<1>11. ASSUME op = "samlMetadata" PROVE Begins(q, op, SAMLMetadataSteps) /\ Fresh(op,
           CallsOf(SAMLMetadataSteps))
  <2>1. Begins(q, op, SAMLMetadataSteps)
    BY <1>11 DEF SignInStart, Begins
  <2> QED BY <1>11, <2>1, SignInLists DEF Fresh
<1>12. ASSUME op = "createRule" PROVE Begins(q, op, CreateRoleMappingSteps) /\ Fresh(op,
           CallsOf(CreateRoleMappingSteps))
  <2>1. Begins(q, op, CreateRoleMappingSteps)
    BY <1>12 DEF SignInStart, Begins
  <2> QED BY <1>12, <2>1, SignInLists DEF Fresh
<1>13. ASSUME op = "updateRule" PROVE Begins(q, op, UpdateRoleMappingSteps) /\ Fresh(op,
           CallsOf(UpdateRoleMappingSteps))
  <2>1. Begins(q, op, UpdateRoleMappingSteps)
    BY <1>13 DEF SignInStart, Begins
  <2> QED BY <1>13, <2>1, SignInLists DEF Fresh
<1>14. ASSUME op = "deleteRule" PROVE Begins(q, op, DeleteRoleMappingSteps) /\ Fresh(op,
           CallsOf(DeleteRoleMappingSteps))
  <2>1. Begins(q, op, DeleteRoleMappingSteps)
    BY <1>14 DEF SignInStart, Begins
  <2> QED BY <1>14, <2>1, SignInLists DEF Fresh
<1>15. ASSUME op = "createDomain" PROVE Begins(q, op, CreateDomainSteps) /\ Fresh(op,
           CallsOf(CreateDomainSteps))
  <2>1. Begins(q, op, CreateDomainSteps)
    BY <1>15 DEF SignInStart, Begins
  <2> QED BY <1>15, <2>1, SignInLists DEF Fresh
<1>16. ASSUME op = "updateDomain" PROVE Begins(q, op, UpdateDomainSteps) /\ Fresh(op,
           CallsOf(UpdateDomainSteps))
  <2>1. Begins(q, op, UpdateDomainSteps)
    BY <1>16 DEF SignInStart, Begins
  <2> QED BY <1>16, <2>1, SignInLists DEF Fresh
<1>17. ASSUME op = "deleteDomain" PROVE Begins(q, op, DeleteDomainSteps) /\ Fresh(op,
           CallsOf(DeleteDomainSteps))
  <2>1. Begins(q, op, DeleteDomainSteps)
    BY <1>17 DEF SignInStart, Begins
  <2> QED BY <1>17, <2>1, SignInLists DEF Fresh
<1> QED BY <1>1, <1>2, <1>3, <1>4, <1>5, <1>6, <1>7, <1>8, <1>9, <1>10, <1>11, <1>12, <1>13, <1>14,
        <1>15, <1>16, <1>17 DEF SignInOps

LEMMA TokenBegins ==
    ASSUME NEW q, NEW op \in TokenOps, TokenStart(q, op)
    PROVE  \E s : Begins(q, op, s) /\ Fresh(op, CallsOf(s))
<1>1. ASSUME op = "createAccount" PROVE Begins(q, op, CreateServiceAccountSteps) /\ Fresh(op,
          CallsOf(CreateServiceAccountSteps))
  <2>1. Begins(q, op, CreateServiceAccountSteps)
    BY <1>1 DEF TokenStart, Begins
  <2> QED BY <1>1, <2>1, TokenLists DEF Fresh
<1>2. ASSUME op = "updateAccount" PROVE Begins(q, op, UpdateServiceAccountSteps) /\ Fresh(op,
          CallsOf(UpdateServiceAccountSteps))
  <2>1. Begins(q, op, UpdateServiceAccountSteps)
    BY <1>2 DEF TokenStart, Begins
  <2> QED BY <1>2, <2>1, TokenLists DEF Fresh
<1>3. ASSUME op = "deleteAccount" PROVE Begins(q, op, DeleteServiceAccountSteps) /\ Fresh(op,
          CallsOf(DeleteServiceAccountSteps))
  <2>1. Begins(q, op, DeleteServiceAccountSteps)
    BY <1>3 DEF TokenStart, Begins
  <2> QED BY <1>3, <2>1, TokenLists DEF Fresh
<1>4. ASSUME op = "createToken" PROVE Begins(q, op, CreateTokenSteps) /\ Fresh(op, CallsOf(CreateTokenSteps))
  <2>1. Begins(q, op, CreateTokenSteps)
    BY <1>4 DEF TokenStart, Begins
  <2> QED BY <1>4, <2>1, TokenLists DEF Fresh
<1>5. ASSUME op = "revokeToken" PROVE Begins(q, op, RevokeTokenSteps) /\ Fresh(op, CallsOf(RevokeTokenSteps))
  <2>1. Begins(q, op, RevokeTokenSteps)
    BY <1>5 DEF TokenStart, Begins
  <2> QED BY <1>5, <2>1, TokenLists DEF Fresh
<1>6. ASSUME op = "createOrgByKey" PROVE Begins(q, op, CreateOrgByKeySteps) /\ Fresh(op,
          CallsOf(CreateOrgByKeySteps))
  <2>1. Begins(q, op, CreateOrgByKeySteps)
    BY <1>6 DEF TokenStart, Begins
  <2> QED BY <1>6, <2>1, TokenLists DEF Fresh
<1>7. ASSUME op = "importToken" PROVE Begins(q, op, CreateImportTokenSteps) /\ Fresh(op,
          CallsOf(CreateImportTokenSteps))
  <2>1. Begins(q, op, CreateImportTokenSteps)
    BY <1>7 DEF TokenStart, Begins
  <2> QED BY <1>7, <2>1, TokenLists DEF Fresh
<1>8. ASSUME op = "install" PROVE Begins(q, op, InstallSteps) /\ Fresh(op, CallsOf(InstallSteps))
  <2>1. Begins(q, op, InstallSteps)
    BY <1>8 DEF TokenStart, Begins
  <2> QED BY <1>8, <2>1, TokenLists DEF Fresh
<1>9. ASSUME op = "authorize" PROVE Begins(q, op, CallbackAuthorizeSteps) /\ Fresh(op,
          CallsOf(CallbackAuthorizeSteps))
  <2>1. Begins(q, op, CallbackAuthorizeSteps)
    BY <1>9 DEF TokenStart, Begins
  <2> QED BY <1>9, <2>1, TokenLists DEF Fresh
<1>10. ASSUME op = "installed" PROVE Begins(q, op, CallbackInstalledSteps) /\ Fresh(op,
           CallsOf(CallbackInstalledSteps))
  <2>1. Begins(q, op, CallbackInstalledSteps)
    BY <1>10 DEF TokenStart, Begins
  <2> QED BY <1>10, <2>1, TokenLists DEF Fresh
<1>11. ASSUME op = "uninstall" PROVE Begins(q, op, DeleteInstallationSteps) /\ Fresh(op,
           CallsOf(DeleteInstallationSteps))
  <2>1. Begins(q, op, DeleteInstallationSteps)
    BY <1>11 DEF TokenStart, Begins
  <2> QED BY <1>11, <2>1, TokenLists DEF Fresh
<1> QED BY <1>1, <1>2, <1>3, <1>4, <1>5, <1>6, <1>7, <1>8, <1>9, <1>10, <1>11 DEF TokenOps

\* A request that was not there arrives, and nothing else happens.
LEMMA StartsFresh ==
    ASSUME AccountsInv, NEW q \in Requests, Starts(q)
    PROVE  /\ UNCHANGED <<db, failedOpen, github, linked>> /\ Others(q)
           /\ Op(q) = "none" /\ Op(q)' \in AllOps /\ Fresh(Op(q)', Left(q)')
           /\ Cardinality({p \in Requests : Busy(p)}) < InFlight
           /\ clean' = (clean /\ Quiet)
<1>1. PICK op \in workload.ops :
          \/ /\ \/ op \in PeopleOps /\ PeopleStart(q, op)
                \/ op \in SignInOps /\ SignInStart(q, op)
                \/ op \in BootOps /\ BootStart(q, op)
             /\ UNCHANGED <<db, failedOpen, githubVars>>
          \/ op \in TokenOps /\ TokenStart(q, op)
  BY DEF Starts
<1>2. UNCHANGED <<db, failedOpen, github, linked>> /\ op \in AllOps
  BY <1>1 DEF TokenStart, githubVars, AllOps
<1>3. ASSUME op \in BootOps, BootStart(q, op)
      PROVE  \E s : Begins(q, op, s) /\ Fresh(op, CallsOf(s))
  <2>1. Begins(q, op, BootSteps) /\ op = "boot"
    BY <1>3 DEF BootStart, Begins, BootOps
  <2> QED BY <2>1, BootLists DEF Fresh
<1>4. PICK s, m : Arrives(q, op, s, m) /\ Fresh(op, CallsOf(s))
  BY <1>1, <1>3, PeopleBegins, SignInBegins, TokenBegins DEF Begins
<1>5. DOMAIN proc = Requests
  BY DEF AccountsInv, ProcType, ReqsType
<1>6. /\ Op(q) = "none" /\ Cardinality({p \in Requests : Busy(p)}) < InFlight
      /\ proc' = [proc EXCEPT ![q] = [op |-> op, todo |-> s, mem |-> m]] /\ clean' = (clean /\ Quiet)
  BY <1>4 DEF Arrives, Op
<1>7. Others(q) /\ Op(q)' = op /\ Left(q)' = CallsOf(s)
  BY <1>5, <1>6 DEF Others, Op, Left
<1> QED BY <1>2, <1>4, <1>6, <1>7

\* What some requests hold when they arrive.
LEMMA StartsHolding ==
    ASSUME AccountsInv, NEW q \in Requests, Starts(q)
    PROVE  /\ Op(q)' \in workload.ops
           /\ Op(q)' \in {"provision", "login", "sessionToken", "callback"} => Mem(q)'.user = Null
           /\ Op(q)' = "boot" => Mem(q)'.role = "admin" /\ Mem(q)'.version = 0
           /\ Op(q)' = "updateMember" => Mem(q)'.org \in DOMAIN db.orgs /\ Mem(q)'.change = "login"
           /\ Op(q)' \in {"resetPassword", "setAccountPassword"} => Mem(q)'.change = "password"
<1>1. PICK op \in workload.ops :
          \/ /\ \/ op \in PeopleOps /\ PeopleStart(q, op)
                \/ op \in SignInOps /\ SignInStart(q, op)
                \/ op \in BootOps /\ BootStart(q, op)
             /\ UNCHANGED <<db, failedOpen, githubVars>>
          \/ op \in TokenOps /\ TokenStart(q, op)
  BY DEF Starts
<1>2. PICK s, m : Arrives(q, op, s, m)
  BY <1>1, PeopleBegins, SignInBegins, TokenBegins DEF Begins, BootStart
<1>3. DOMAIN proc = Requests
  BY DEF AccountsInv, ProcType, ReqsType
<1>4. ASSUME NEW t, NEW n, Arrives(q, op, t, n) PROVE Op(q)' = op /\ Mem(q)' = n
  BY <1>3, <1>4 DEF Arrives, Op, Mem
<1>5. ASSUME op \in {"provision", "login", "sessionToken", "callback"} PROVE Mem(q)'.user = Null
  <2>1. SignInStart(q, op)
    BY <1>1, <1>5 DEF PeopleOps, TokenOps, BootOps
  <2>2. PICK e, r, a, role, t :
          Arrives(q, op, t, [Blank EXCEPT !.email = e, !.role = role])
            \/ Arrives(q, op, t, [Blank EXCEPT !.email = e, !.aux = a])
            \/ Arrives(q, op, t, [Blank EXCEPT !.ref = r])
            \/ Arrives(q, op, t, [Blank EXCEPT !.email = e, !.ref = r])
    BY <1>5, <2>1 DEF SignInStart
  <2>3. PICK n : /\ Arrives(q, op, t, n)
                 /\ \/ n = [Blank EXCEPT !.email = e, !.role = role]
                    \/ n = [Blank EXCEPT !.email = e, !.aux = a]
                    \/ n = [Blank EXCEPT !.ref = r]
                    \/ n = [Blank EXCEPT !.email = e, !.ref = r]
    BY <2>2
  <2>4. n.user = Null
    BY <2>3 DEF Blank
  <2> QED BY <1>4, <2>3, <2>4
<1>6. ASSUME op = "boot" PROVE Mem(q)'.role = "admin" /\ Mem(q)'.version = 0
  <2>1. BootStart(q, op)
    BY <1>1, <1>6 DEF PeopleOps, TokenOps, SignInOps
  <2>2. PICK n : n = [Blank EXCEPT !.role = "admin"]
    OBVIOUS
  <2>3. n.role = "admin" /\ n.version = 0
    BY <2>2 DEF Blank
  <2>4. Arrives(q, op, BootSteps, n)
    BY <2>1, <2>2 DEF BootStart
  <2> QED BY <1>4, <2>3, <2>4
<1>7. ASSUME op = "updateMember" PROVE Mem(q)'.org \in DOMAIN db.orgs /\ Mem(q)'.change = "login"
  <2>1. PeopleStart(q, op)
    BY <1>1, <1>7 DEF SignInOps, TokenOps, BootOps
  <2>2. PICK u, o, e, t :
          /\ o \in DOMAIN db.orgs
          /\ Arrives(q, op, UpdateMemberSteps, [Blank EXCEPT !.user = u, !.org = o, !.email = e,
                                                             !.change = "login", !.ref = t])
    BY <1>7, <2>1 DEF PeopleStart
  <2>3. PICK n : n = [Blank EXCEPT !.user = u, !.org = o, !.email = e, !.change = "login", !.ref = t]
    OBVIOUS
  <2>4. n.org = o /\ n.change = "login"
    BY <2>3 DEF Blank
  <2> QED BY <1>4, <2>2, <2>3, <2>4
<1>8. ASSUME op \in {"resetPassword", "setAccountPassword"} PROVE Mem(q)'.change = "password"
  <2>1. PeopleStart(q, op)
    BY <1>1, <1>8 DEF SignInOps, TokenOps, BootOps
  <2>2. PICK u, t : Arrives(q, op, t, [Blank EXCEPT !.user = u, !.change = "password"])
    BY <1>8, <2>1 DEF PeopleStart
  <2>3. PICK n : n = [Blank EXCEPT !.user = u, !.change = "password"]
    OBVIOUS
  <2>4. n.change = "password"
    BY <2>3 DEF Blank
  <2> QED BY <1>4, <2>2, <2>3, <2>4
<1> QED BY <1>2, <1>4, <1>5, <1>6, <1>7, <1>8

LEMMA StateStep ==
    ASSUME AccountsInv, StateInv, [Next]_vars
    PROVE  StateInv'
<1>1. ASSUME NEW q \in Requests, Starts(q) PROVE StateInv'
  <2>1. /\ db' = db /\ Others(q) /\ Op(q) = "none" /\ Fresh(Op(q)', Left(q)')
    BY <1>1, StartsFresh
  <2>2. ~Holding(q)'
    BY <2>1 DEF Fresh, Holding
  <2>3. \A p \in Requests : HeldAsBefore(p)
    BY <2>1, <2>2 DEF HeldAsBefore, Others, Holding, Op, Left, Mem
  <2>4. \A p \in Requests : Unborn(p, "createLoginState")' => Unborn(p, "createLoginState")
    BY <2>1 DEF Others, Unborn, Op, Left
  <2> QED BY <2>1, <2>3, <2>4, StateKept
<1>2. ASSUME NEW q \in Requests, Aborts(q), db' = db PROVE StateInv'
  <2>1. Ended(q)
    BY <1>2, EndsMoves DEF AccountsInv
  <2>2. \A p \in Requests : HeldAsBefore(p)
    BY <2>1 DEF Ended, HeldAsBefore, Others, Holding, Op, Left, Mem
  <2>3. \A p \in Requests : Unborn(p, "createLoginState")' => Unborn(p, "createLoginState")
    BY <2>1 DEF Ended, Others, Unborn, Op, Left
  <2> QED BY <1>2, <2>2, <2>3, StateKept
<1>3. ASSUME UNCHANGED <<proc, db>> PROVE StateInv'
  <2>1. \A p \in Requests : HeldAsBefore(p)
    BY <1>3 DEF HeldAsBefore, Holding, Op, Left, Mem
  <2>2. \A p \in Requests : Unborn(p, "createLoginState")' => Unborn(p, "createLoginState")
    BY <1>3 DEF Unborn, Op, Left
  <2> QED BY <1>3, <2>1, <2>2, StateKept
<1>4. CASE UNCHANGED vars
  BY <1>3, <1>4 DEF vars
<1>5. ASSUME NEW i \in Ids, InstalledAtGitHub(i) PROVE StateInv'
  BY <1>3, <1>5 DEF InstalledAtGitHub
<1>6. CASE Next
  <2>1. \/ \E q \in Requests : Starts(q) \/ Acts(q) \/ (Aborts(q) /\ db' = db)
        \/ \E i \in Ids : InstalledAtGitHub(i)
    BY <1>6 DEF Next, Acts
  <2> QED BY <1>1, <1>2, <1>5, <2>1, StateActs
<1> QED BY <1>4, <1>6

(***************************************************************************)
(* Install states.                                                         *)
(***************************************************************************)
\* An install state that was used is consumed, and stays so.
LinkInv ==
    /\ \A a \in linked : a[1] \in DOMAIN db.installStates =>
         db.installStates[a[1]].consumed /\ db.installStates[a[1]].github = a[3]
    /\ \A a, b \in linked : a[1] = b[1] => a = b
    /\ \A q \in Requests : Unborn(q, "createInstallState") =>
         q \notin DOMAIN db.installStates /\ \A a \in linked : a[1] # q

\* States go, or are as they were, unless they were pending.
LEMMA LinkKept ==
    ASSUME LinkInv, linked' = linked,
           DOMAIN db'.installStates \subseteq DOMAIN db.installStates,
           \A s \in DOMAIN db'.installStates : db'.installStates[s] = db.installStates[s] \/ Pending(s),
           \A p \in Requests : Unborn(p, "createInstallState")' => Unborn(p, "createInstallState")
    PROVE  LinkInv'
BY DEF LinkInv, Pending

LEMMA LinkConsumed ==
    ASSUME AccountsInv, LinkInv, NEW q \in Requests, Foot(q, "consumeInstallState"), ConsumeInstallState(q)
    PROVE  LinkInv'
<1>1. DOMAIN db = Fields /\ \A s \in DOMAIN db.installStates : db.installStates[s] \in StateRow
  BY DEF AccountsInv, DbOK, OthersOK
<1>2. \A p \in Requests : Unborn(p, "createInstallState")' => Unborn(p, "createInstallState")
  BY UnbornOn
<1>3. CASE Refuses(q) /\ linked' = linked
  BY <1>2, <1>3, LinkKept DEF Refuses
<1>4. ASSUME NEW s, NEW g, s = Mem(q).ref, g = Mem(q).change, Consumable(s, g),
             Writes(q, [db EXCEPT !.installStates[s].consumed = TRUE], Mem(q)),
             linked' = linked \cup {<<s, q, g>>}
      PROVE  LinkInv'
  <2>1. /\ s \in DOMAIN db.installStates /\ ~db.installStates[s].consumed
        /\ db.installStates[s].github = g /\ db.installStates[s] \in StateRow
    BY <1>1, <1>4 DEF Consumable, Pending
  <2>2. \A a \in linked : a[1] # s
    BY <2>1 DEF LinkInv
  <2>3. PICK row : row = [db.installStates[s] EXCEPT !.consumed = TRUE]
    OBVIOUS
  <2>4. row.consumed /\ row.github = g
    BY <2>1, <2>3 DEF StateRow
  <2>5. PICK is : is = [db.installStates EXCEPT ![s] = row]
    OBVIOUS
  <2>6. db' = [db EXCEPT !.installStates = is]
    BY <1>4, <2>3, <2>5 DEF Writes
  <2>7. db'.installStates = is
    BY <1>1, <2>6 DEF Fields
  <2>8. /\ DOMAIN is = DOMAIN db.installStates /\ is[s] = row
        /\ \A x \in DOMAIN is : x # s => is[x] = db.installStates[x]
    BY <2>1, <2>5
  <2>9. PICK e : e = <<s, q, g>> /\ e[1] = s /\ e[3] = g
    <3>1. <<s, q, g>>[1] = s /\ <<s, q, g>>[3] = g
      OBVIOUS
    <3> QED BY <3>1
  <2>10. linked' = linked \cup {e}
    BY <1>4, <2>9
  <2>11. \A a \in linked' : a[1] \in DOMAIN db'.installStates =>
           db'.installStates[a[1]].consumed /\ db'.installStates[a[1]].github = a[3]
    BY <2>2, <2>4, <2>7, <2>8, <2>9, <2>10 DEF LinkInv
  <2>12. \A a, b \in linked' : a[1] = b[1] => a = b
    BY <2>2, <2>9, <2>10 DEF LinkInv
  <2>13. \A p \in Requests : Unborn(p, "createInstallState")' =>
           p \notin DOMAIN db'.installStates /\ \A a \in linked' : a[1] # p
    BY <1>2, <2>1, <2>7, <2>8, <2>9, <2>10 DEF LinkInv
  <2> QED BY <2>11, <2>12, <2>13 DEF LinkInv
<1> QED BY <1>3, <1>4 DEF ConsumeInstallState

LEMMA LinkCreated ==
    ASSUME AccountsInv, LinkInv, NEW q \in Requests, Foot(q, "createInstallState"), CreateInstallState(q)
    PROVE  LinkInv'
<1>1. DOMAIN db = Fields
  BY DEF AccountsInv, DbOK
<1>2. \A p \in Requests : Unborn(p, "createInstallState")' => Unborn(p, "createInstallState")
  BY UnbornOn
<1>3. /\ At(q, "createInstallState") /\ "createInstallState" \in Left(q) /\ Op(q) # "none"
      /\ Mem(q) \in AccountMemory /\ Listed(proc[q].todo) /\ ProcType /\ linked' = linked
  BY AtCall DEF Foot, AccountsInv
<1>4. CASE Refuses(q)
  BY <1>2, <1>3, <1>4, LinkKept DEF Refuses
<1>5. ASSUME NEW is, is = With(db.installStates, q, [github |-> Null, consumed |-> FALSE]),
             Writes(q, [db EXCEPT !.installStates = is], Mem(q))
      PROVE  LinkInv'
  <2>1. db'.installStates = is
    BY <1>1, <1>5 DEF Fields, Writes
  <2>2. /\ DOMAIN is = DOMAIN db.installStates \cup {q}
        /\ \A x \in DOMAIN db.installStates : x # q => is[x] = db.installStates[x]
    BY <1>5 DEF With
  <2>3. Moved(q, "createInstallState", Mem(q))
    BY <1>3, <1>5, KeepsMoves DEF Writes
  <2>4. ~Precedes("createInstallState", "createInstallState")
    BY DEF Precedes, Rank, Makers, Inserters
  <2>5. ~Unborn(q, "createInstallState")' /\ Unborn(q, "createInstallState")
    BY <1>3, <2>3, <2>4 DEF Unborn, Moved
  <2> QED BY <1>2, <1>3, <2>1, <2>2, <2>5 DEF LinkInv
<1> QED BY <1>4, <1>5 DEF CreateInstallState

LEMMA LinkActs ==
    ASSUME AccountsInv, LinkInv, NEW q \in Requests, Acts(q)
    PROVE  LinkInv'
<1>1. PICK c : Foot(q, c)
  BY ActsFoot
<1>2. At(q, c) /\ Spares(c, db') /\ (c # "consumeInstallState" => linked' = linked)
  BY <1>1 DEF Foot
<1>3. ActsAs(q, c)
  BY <1>2, ActsAt
<1>4. \A p \in Requests : Unborn(p, "createInstallState")' => Unborn(p, "createInstallState")
  BY <1>1, UnbornOn
<1>5. DOMAIN db = Fields
  BY DEF AccountsInv, DbOK
<1>6. CASE c \in {"createInstallState", "consumeInstallState"}
  <2>1. /\ c = "createInstallState" => CreateInstallState(q)
        /\ c = "consumeInstallState" => ConsumeInstallState(q)
    BY <1>3 DEF ActsAs, SharedAs, PeopleAs, SignInAs, TokenAs, BootAs,
                SharedCalls, PeopleCalls, SignInCalls, TokenCalls, BootCalls
  <2> QED BY <1>1, <1>6, <2>1, LinkCreated, LinkConsumed
<1>7. CASE c = "authorizeState"
  <2>1. AuthorizeInstallState(q)
    BY <1>3, <1>7 DEF ActsAs, SharedAs, PeopleAs, SignInAs, TokenAs, BootAs,
                      SharedCalls, PeopleCalls, SignInCalls, TokenCalls, BootCalls
  <2>2. CASE Refuses(q)
    BY <1>2, <1>4, <1>7, <2>2, LinkKept DEF Refuses
  <2>3. ASSUME NEW s, Pending(s), Writes(q, [db EXCEPT !.installStates[s].github = Mem(q).change], Mem(q))
        PROVE  LinkInv'
    <3>1. PICK row, is : /\ row = [db.installStates[s] EXCEPT !.github = Mem(q).change]
                         /\ is = [db.installStates EXCEPT ![s] = row]
      OBVIOUS
    <3>2. db' = [db EXCEPT !.installStates = is]
      BY <2>3, <3>1 DEF Writes
    <3>3. db'.installStates = is
      BY <1>5, <3>2 DEF Fields
    <3>4. DOMAIN is = DOMAIN db.installStates /\ \A x \in DOMAIN is : x # s => is[x] = db.installStates[x]
      BY <3>1
    <3> QED BY <1>2, <1>4, <1>7, <2>3, <3>3, <3>4, LinkKept
  <2> QED BY <2>1, <2>2, <2>3 DEF AuthorizeInstallState
<1>8. CASE c = "deleteOrg"
  <2>1. DeleteOrg(q)
    BY <1>3, <1>8 DEF ActsAs, SharedAs, PeopleAs, SignInAs, TokenAs, BootAs,
                      SharedCalls, PeopleCalls, SignInCalls, TokenCalls, BootCalls
  <2>2. DeletedOrg(Mem(q).org)
    BY <1>5, <2>1, DeleteOrgDoes
  <2>3. db'.installStates = Empty \/ db'.installStates = db.installStates
    BY <2>2 DEF DeletedOrg
  <2>4. DOMAIN Empty = {}
    BY DEF Empty
  <2> QED BY <1>2, <1>4, <1>8, <2>3, <2>4, LinkKept
<1>9. CASE c \notin {"createInstallState", "consumeInstallState", "authorizeState", "deleteOrg"}
  <2>1. db'.installStates = db.installStates
    BY <1>2, <1>9, Spared
  <2> QED BY <1>2, <1>4, <1>9, <2>1, LinkKept
<1> QED BY <1>6, <1>7, <1>8, <1>9

LEMMA LinkStep ==
    ASSUME AccountsInv, LinkInv, [Next]_vars
    PROVE  LinkInv'
<1>1. ASSUME NEW q \in Requests, Starts(q) PROVE LinkInv'
  <2>1. db' = db /\ linked' = linked /\ Others(q) /\ Op(q) = "none"
    BY <1>1, StartsFresh
  <2>2. \A p \in Requests : Unborn(p, "createInstallState")' => Unborn(p, "createInstallState")
    BY <2>1 DEF Others, Unborn, Op, Left
  <2> QED BY <2>1, <2>2, LinkKept
<1>2. ASSUME NEW q \in Requests, Aborts(q), UNCHANGED <<db, linked>> PROVE LinkInv'
  <2>1. Ended(q)
    BY <1>2, EndsMoves DEF AccountsInv
  <2>2. \A p \in Requests : Unborn(p, "createInstallState")' => Unborn(p, "createInstallState")
    BY <2>1 DEF Ended, Others, Unborn, Op, Left
  <2> QED BY <1>2, <2>2, LinkKept
<1>3. ASSUME UNCHANGED <<proc, db, linked>> PROVE LinkInv'
  <2>1. \A p \in Requests : Unborn(p, "createInstallState")' => Unborn(p, "createInstallState")
    BY <1>3 DEF Unborn, Op, Left
  <2> QED BY <1>3, <2>1, LinkKept
<1>4. CASE UNCHANGED vars
  BY <1>3, <1>4 DEF vars, githubVars
<1>5. ASSUME NEW i \in Ids, InstalledAtGitHub(i) PROVE LinkInv'
  BY <1>3, <1>5 DEF InstalledAtGitHub
<1>6. CASE Next
  <2>1. \/ \E q \in Requests : Starts(q) \/ Acts(q) \/ (Aborts(q) /\ UNCHANGED <<db, linked>>)
        \/ \E i \in Ids : InstalledAtGitHub(i)
    BY <1>6 DEF Next, Acts, githubVars
  <2> QED BY <1>1, <1>2, <1>5, <2>1, LinkActs
<1> QED BY <1>4, <1>6

LEMMA UsedInit ==
    ASSUME Init
    PROVE  StateInv /\ LinkInv
<1>1. \A q \in Requests : Op(q) = "none"
  BY DEF Init, ReqsInit, Op
<1>2. \A q \in Requests : ~Holding(q)
  BY <1>1 DEF Holding
<1>3. linked = {}
  BY DEF Init
<1>4. /\ DOMAIN db.loginStates \subseteq {Seed} /\ DOMAIN db.installStates \subseteq {Seed}
      /\ DOMAIN db.sessions \subseteq {Seed} /\ \A t \in DOMAIN db.sessions : db.sessions[t].state = Null
  <2>1. CASE "boot" \in workload.ops
    <3>1. PICK e : e = Empty
      OBVIOUS
    <3>2. db.loginStates = e /\ db.installStates = e /\ db.sessions = e
      BY <2>1, <3>1 DEF Init, Nothing
    <3>3. DOMAIN e = {}
      BY <3>1 DEF Empty
    <3> QED BY <3>2, <3>3
  <2>2. CASE "boot" \notin workload.ops
    <3>1. PICK disabled, i : db = [Populated(disabled, workload.account) EXCEPT !.installation = i]
      BY <2>2 DEF Init
    <3>2. PICK ls, is, ss :
            /\ ls = Only(Seed) /\ is = Only([github |-> Null, consumed |-> FALSE])
            /\ ss = Only([user |-> Seed, state |-> Null, began |-> Null, ended |-> Null])
      OBVIOUS
    <3>3. db.loginStates = ls /\ db.installStates = is /\ db.sessions = ss
      BY <3>1, <3>2 DEF Populated, Nothing
    <3>4. DOMAIN ls = {Seed} /\ DOMAIN is = {Seed} /\ DOMAIN ss = {Seed} /\ ss[Seed].state = Null
      BY <3>2 DEF Only
    <3> QED BY <3>3, <3>4
  <2> QED BY <2>1, <2>2
<1>5. Seed \notin Requests /\ Null \notin Requests /\ Null # Seed
  BY AccountTablesAssumption
<1>6. StateUsedOnce
  BY <1>4 DEF StateUsedOnce
<1>7. StateInv
  BY <1>2, <1>4, <1>5, <1>6 DEF StateInv
<1>8. LinkInv
  BY <1>3, <1>4, <1>5 DEF LinkInv
<1> QED BY <1>7, <1>8

LEMMA UsedInvariant == Spec => [](AccountsInv /\ GithubInv /\ StateInv /\ LinkInv)
<1>1. Init => AccountsInv /\ GithubInv /\ StateInv /\ LinkInv
  BY AccountsInit, UsedInit
<1>2. AccountsInv /\ GithubInv /\ StateInv /\ LinkInv /\ [Next]_vars
        => AccountsInv' /\ GithubInv' /\ StateInv' /\ LinkInv'
  BY AccountsStep, StateStep, LinkStep
<1> QED BY <1>1, <1>2, PTL DEF Spec

\* What is good for once is used once, whoever races for it (UsedOnce): no two
\* users have one address; a login state signs in one session, through the
\* provider it was made for; an install state links one installation, by the
\* account at GitHub that it was authorised for.
THEOREM AccountsUsedOnce == Spec => []UsedOnce
<1>1. AccountsInv /\ StateInv /\ LinkInv => UsedOnce
  <2> SUFFICES ASSUME AccountsInv, StateInv, LinkInv PROVE UsedOnce
    OBVIOUS
  <2>1. UsersOK(db.users) /\ SessionsOK(db.sessions, db.users)
    BY DEF AccountsInv, DbOK
  <2>2. OneUserPerAddress
    BY <2>1 DEF OneUserPerAddress, UsersOK
  <2>3. SignInThroughSameProvider
    BY <2>1 DEF SignInThroughSameProvider, SessionsOK
  <2>4. StateUsedOnce
    BY DEF StateInv
  <2>5. InstallStateOnce
    BY DEF LinkInv, InstallStateOnce
  <2> QED BY <2>2, <2>3, <2>4, <2>5 DEF UsedOnce
<1> QED BY <1>1, UsedInvariant, PTL
=============================================================================
