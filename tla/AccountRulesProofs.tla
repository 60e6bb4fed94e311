------------------------- MODULE AccountRulesProofs -------------------------
(***************************************************************************)
(* More theorems about Accounts, for every set of requests and every plan. *)
(*                                                                         *)
(* Limits are passed by what is under way at once and by no more: a limit  *)
(* is used up by the rows there are and by the requests that were let      *)
(* through and have not added theirs, and together they are no more than   *)
(* the limit and the requests that were under way with the first of them.  *)
(*                                                                         *)
(* What is set up in several steps is whole at the end: what a start of a  *)
(* server or a sign-up has done follows from the calls it has left.        *)
(*                                                                         *)
(* What is read still holds when it is used: a request that runs alone is  *)
(* the only one with calls left, and none of its own calls undoes what an  *)
(* earlier one of them read.                                               *)
(***************************************************************************)
EXTENDS AccountsProofs

(***************************************************************************)
(* Requests under way.                                                     *)
(***************************************************************************)
UnderWay == {q \in Requests : Busy(q)}

\* Requests that have not overlapped were under way one at a time.
BusyInv ==
    /\ IsFiniteSet(UnderWay) /\ Cardinality(UnderWay) <= InFlight
    /\ clean => \A p, q \in UnderWay : p = q
    /\ clean \/ InFlight # 0

LEMMA Smaller ==
    ASSUME NEW S, NEW T, IsFiniteSet(S), T \subseteq S
    PROVE  /\ IsFiniteSet(T) /\ Cardinality(T) \in Nat /\ Cardinality(S) \in Nat
           /\ Cardinality(T) <= Cardinality(S)
<1>1. IsFiniteSet(T) /\ Cardinality(T) <= Cardinality(S)
  BY FS_Subset
<1> QED BY <1>1, FS_CardinalityType

LEMMA UnionCard ==
    ASSUME NEW S, NEW T, IsFiniteSet(S), IsFiniteSet(T)
    PROVE  IsFiniteSet(S \cup T) /\ Cardinality(S \cup T) <= Cardinality(S) + Cardinality(T)
<1>1. IsFiniteSet(S \cup T) /\ Cardinality(S \cup T) = Cardinality(S) + Cardinality(T) - Cardinality(S \cap T)
  BY FS_Union
<1>2. IsFiniteSet(S \cap T)
  BY FS_Subset
<1>3. PICK a \in Nat, b \in Nat, c \in Nat :
        a = Cardinality(S) /\ b = Cardinality(T) /\ c = Cardinality(S \cap T)
  BY <1>2, FS_CardinalityType
<1>4. a + b - c <= a + b
  OBVIOUS
<1> QED BY <1>1, <1>3, <1>4

\* A set with at most one element.
LEMMA AtMostOne ==
    ASSUME NEW S, \A p, q \in S : p = q
    PROVE  IsFiniteSet(S) /\ Cardinality(S) \in Nat /\ Cardinality(S) <= 1
<1>1. CASE S = {}
  BY <1>1, FS_EmptySet
<1>2. CASE S # {}
  <2>1. PICK x : S = {x}
    BY <1>2
  <2> QED BY <2>1, FS_Singleton
<1> QED BY <1>1, <1>2

LEMMA BusyCalls ==
    ASSUME ProcType, NEW q \in Requests
    PROVE  Busy(q) <=> Left(q) # {}
<1>1. proc[q].todo \in Seq(AllCalls)
  BY DEF ProcType, ReqsType
<1> QED BY <1>1, CallsEmpty DEF Busy, Left

\* The tables, the requests and what they hold: what a step is.
LEMMA StepKinds ==
    ASSUME [Next]_vars
    PROVE  \/ \E q \in Requests : Starts(q)
           \/ \E q \in Requests : Acts(q)
           \/ \E q \in Requests : Aborts(q) /\ UNCHANGED <<db, failedOpen, linked>>
           \/ UNCHANGED <<proc, clean, db, failedOpen, linked>>
<1>1. CASE UNCHANGED vars
  BY <1>1 DEF vars, githubVars
<1>2. CASE Next
  <2>1. \/ \E q \in Requests : Starts(q) \/ Acts(q) \/ (Aborts(q) /\ UNCHANGED <<db, failedOpen, linked>>)
        \/ \E i \in Ids : InstalledAtGitHub(i)
    BY <1>2 DEF Next, Acts, githubVars
  <2>2. ASSUME NEW i \in Ids, InstalledAtGitHub(i) PROVE UNCHANGED <<proc, clean, db, failedOpen, linked>>
    BY <2>2 DEF InstalledAtGitHub
  <2> QED BY <2>1, <2>2
<1> QED BY <1>1, <1>2

\* A request that is under way acts, and the others stay as they were.
LEMMA FootBusy ==
    ASSUME AccountsInv, NEW q \in Requests, NEW c, Foot(q, c)
    PROVE  Busy(q) /\ Others(q) /\ UnderWay' \subseteq UnderWay /\ (clean' => clean)
<1>1. Busy(q) /\ Others(q) /\ (clean' => clean)
  BY DEF Foot, At, Busy, Advances, Ended, Moved
<1>2. \A p \in Requests : p # q => (Busy(p)' <=> Busy(p))
  BY <1>1 DEF Others, Busy
<1> QED BY <1>1, <1>2 DEF UnderWay

LEMMA BusyStep ==
    ASSUME AccountsInv, BusyInv, [Next]_vars
    PROVE  BusyInv' /\ (clean' => clean)
<1>1. InFlight \in Nat /\ Cardinality(UnderWay) \in Nat
  BY HandlersAssumption, FS_CardinalityType DEF BusyInv
<1>2. ASSUME UnderWay' \subseteq UnderWay, clean' => clean, clean' \/ InFlight # 0 PROVE BusyInv'
  <2>1. PICK D, E : D = UnderWay /\ E = UnderWay'
    OBVIOUS
  <2>2. IsFiniteSet(E) /\ Cardinality(E) \in Nat /\ Cardinality(E) <= Cardinality(D)
    BY <1>2, <2>1, Smaller DEF BusyInv
  <2>3. IsFiniteSet(E) /\ Cardinality(E) <= InFlight /\ (clean' => \A p, q \in E : p = q)
    BY <1>1, <1>2, <2>1, <2>2 DEF BusyInv
  <2> QED BY <1>2, <2>1, <2>3 DEF BusyInv
<1>3. ASSUME NEW q \in Requests, Busy(q) PROVE InFlight # 0
  <2>1. q \in UnderWay /\ IsFiniteSet(UnderWay)
    BY <1>3 DEF UnderWay, BusyInv
  <2>2. Cardinality(UnderWay) # 0
    BY <2>1, FS_EmptySet
  <2> QED BY <1>1, <2>2 DEF BusyInv
<1>4. ASSUME NEW q \in Requests, Starts(q) PROVE BusyInv' /\ (clean' => clean)
  <2>1. /\ Others(q) /\ Cardinality(UnderWay) < InFlight /\ clean' = (clean /\ Quiet)
    BY <1>4, StartsFresh DEF UnderWay
  <2>2. PICK D, E : D = UnderWay /\ E = UnderWay'
    OBVIOUS
  <2>3. \A p \in Requests : p # q => (Busy(p)' <=> Busy(p))
    BY <2>1 DEF Others, Busy
  <2>4. E \subseteq D \cup {q}
    BY <2>2, <2>3 DEF UnderWay
  <2>5. IsFiniteSet(D \cup {q}) /\ Cardinality(D \cup {q}) <= Cardinality(D) + 1
    <3>1. IsFiniteSet(D) /\ Cardinality(D) \in Nat
      BY <1>1, <2>2 DEF BusyInv
    <3>2. IsFiniteSet({q}) /\ Cardinality({q}) = 1
      BY FS_Singleton
    <3>3. PICK F : F = {q}
      OBVIOUS
    <3>4. IsFiniteSet(D \cup F) /\ Cardinality(D \cup F) <= Cardinality(D) + Cardinality(F)
      BY <3>1, <3>2, <3>3, UnionCard
    <3> QED BY <3>2, <3>3, <3>4
  <2>6. IsFiniteSet(E) /\ Cardinality(E) \in Nat /\ Cardinality(E) <= InFlight /\ InFlight # 0
    <3>1. IsFiniteSet(E) /\ Cardinality(E) \in Nat /\ Cardinality(D \cup {q}) \in Nat
          /\ Cardinality(E) <= Cardinality(D \cup {q})
      BY <2>4, <2>5, Smaller
    <3> QED BY <1>1, <2>1, <2>2, <2>5, <3>1
  <2>7. clean' => \A p, r \in E : p = r
    <3>1. Quiet => D = {}
      BY <2>2 DEF Quiet, UnderWay
    <3> QED BY <2>1, <2>4, <3>1
  <2> QED BY <2>1, <2>2, <2>6, <2>7 DEF BusyInv
<1>5. ASSUME NEW q \in Requests, Acts(q) PROVE BusyInv' /\ (clean' => clean)
  <2>1. PICK c : Foot(q, c)
    BY <1>5, ActsFoot
  <2>2. Busy(q) /\ UnderWay' \subseteq UnderWay /\ (clean' => clean)
    BY <2>1, FootBusy
  <2> QED BY <1>2, <1>3, <2>2
<1>6. ASSUME NEW q \in Requests, Aborts(q) PROVE BusyInv' /\ (clean' => clean)
  <2>1. Ended(q) /\ Busy(q) /\ (clean' => clean)
    BY <1>6, EndsMoves DEF AccountsInv, Aborts
  <2>2. \A p \in Requests : p # q => (Busy(p)' <=> Busy(p))
    BY <2>1 DEF Ended, Others, Busy
  <2>3. UnderWay' \subseteq UnderWay
    BY <2>1, <2>2 DEF UnderWay
  <2> QED BY <1>2, <1>3, <2>1, <2>3
<1>7. CASE UNCHANGED <<proc, clean>>
  <2>1. UnderWay' = UnderWay
    BY <1>7 DEF UnderWay, Busy
  <2> QED BY <1>2, <1>7, <2>1 DEF BusyInv
<1> QED BY <1>4, <1>5, <1>6, <1>7, StepKinds

\* How many there may be of what is limited to n.
Bound(n) == IF clean THEN n ELSE n + InFlight - 1

\* There are no more than before.
LEMMA BoundKept ==
    ASSUME AccountsInv, BusyInv, [Next]_vars, NEW n \in Nat, NEW a \in Nat, NEW b \in Nat,
           a <= Bound(n), b <= a
    PROVE  b <= Bound(n)'
<1>1. InFlight \in Nat /\ (clean' \/ InFlight # 0) /\ (clean' => clean)
  BY BusyStep, HandlersAssumption DEF BusyInv
<1> QED BY <1>1 DEF Bound

\* The ones there were are fewer than the limit, and each request under way may
\* add one.
LEMMA BoundPassed ==
    ASSUME AccountsInv, BusyInv, [Next]_vars, NEW n \in Nat, NEW a \in Nat, NEW b \in Nat,
           a < n, b <= a + Cardinality(UnderWay')
    PROVE  b <= Bound(n)'
<1>1. BusyInv' /\ InFlight \in Nat
  BY BusyStep, HandlersAssumption
<1>2. PICK E : E = UnderWay'
  OBVIOUS
<1>3. /\ IsFiniteSet(E) /\ Cardinality(E) <= InFlight /\ (clean' => \A p, q \in E : p = q)
  BY <1>1, <1>2 DEF BusyInv
<1>4. Cardinality(E) \in Nat /\ (clean' => Cardinality(E) <= 1)
  BY <1>3, AtMostOne, FS_CardinalityType
<1> QED BY <1>1, <1>2, <1>3, <1>4 DEF Bound

\* The calls of an operation whose list is not only shortened.
LEMMA LoopCalls ==
    ASSUME AccountsInv, NEW q \in Requests, NEW c \in Loops, At(q, c)
    PROVE  /\ Op(q) = "importToken" \/ Op(q) = "boot"
           /\ Left(q) \cap {"recordAttempt", "createDomain", "upsertMember"} = {}
           /\ Op(q) = "importToken" => "addMember" \notin Left(q)
<1>1. c \in Left(q) /\ CallsOfOp(Op(q), Left(q))
  BY AtCall DEF Known
<1>2. Op(q) = "importToken" \/ Op(q) = "boot"
  BY <1>1 DEF CallsOfOp, Loops
<1>3. /\ Op(q) = "importToken" => Left(q) \subseteq
           {"getInstallation", "findImportAccount", "listTokens", "revokeTokens", "createToken",
            "createImportAccount"}
      /\ Op(q) = "boot" => Left(q) \subseteq
           {"isApplied", "anyUser", "createOrg", "upsertUser", "addMember", "applyMigration"}
  BY <1>1 DEF CallsOfOp, CreateImportTokenSteps, BootSteps
<1> QED BY <1>2, <1>3

\* A request that has x left and is past y, after a call other than y, was so
\* before.
LEMMA PastBefore ==
    ASSUME AccountsInv, NEW q \in Requests, NEW c, Foot(q, c), NEW x, NEW y, y # c,
           x \in Left(q)', y \notin Left(q)', c \notin Loops
    PROVE  x \in Left(q) /\ y \notin Left(q)
BY DEF Foot, Advances, Ended, Moved

\* A call that has been made is not made again.
LEMMA CallDone ==
    ASSUME AccountsInv, NEW q \in Requests, NEW c, Foot(q, c), c \notin Loops, ~Precedes(c, c)
    PROVE  c \notin Left(q)'
BY DEF Foot, Advances, Ended, Moved

LEMMA NoneBusyLeft ==
    ASSUME ProcType, NEW q \in Requests, Left(q) # {}
    PROVE  q \in UnderWay
BY BusyCalls DEF UnderWay

(***************************************************************************)
(* Attempts at discovery, and domains.                                     *)
(***************************************************************************)
\* Requests that have counted and not yet recorded.
Attempting == {q \in Requests : "recordAttempt" \in Left(q) /\ "countAttempts" \notin Left(q)}

TryInv == db.attempts + Cardinality(Attempting) <= Bound(DiscoverLimit)

\* The requests between two calls are under way.
LEMMA AttemptingFinite ==
    ASSUME AccountsInv, BusyInv
    PROVE  /\ Attempting \subseteq UnderWay /\ IsFiniteSet(Attempting) /\ Cardinality(Attempting) \in Nat
           /\ Cardinality(Attempting) <= Cardinality(UnderWay) /\ db.attempts \in Nat
<1>1. Attempting \subseteq UnderWay
  BY NoneBusyLeft DEF Attempting, AccountsInv
<1>2. IsFiniteSet(UnderWay)
  BY DEF BusyInv
<1> QED BY <1>1, <1>2, Smaller DEF AccountsInv, DbOK, OthersOK

LEMMA TryKept ==
    ASSUME AccountsInv, BusyInv, TryInv, [Next]_vars, db'.attempts = db.attempts,
           \A q \in Requests : q \in Attempting' => q \in Attempting
    PROVE  TryInv'
<1>1. PICK P, Q : P = Attempting /\ Q = Attempting'
  OBVIOUS
<1>2. Q \subseteq P
  BY <1>1 DEF Attempting
<1>3. /\ IsFiniteSet(P) /\ db.attempts \in Nat /\ Cardinality(P) \in Nat
      /\ db.attempts + Cardinality(P) <= Bound(DiscoverLimit)
  BY <1>1, AttemptingFinite DEF TryInv
<1>4. Cardinality(Q) \in Nat /\ Cardinality(Q) <= Cardinality(P)
  BY <1>2, <1>3, Smaller
<1>5. PICK a \in Nat, b \in Nat : a = db.attempts + Cardinality(P) /\ b = db.attempts + Cardinality(Q)
  BY <1>3, <1>4
<1>6. b <= a /\ a <= Bound(DiscoverLimit)
  BY <1>3, <1>4, <1>5
<1>7. b <= Bound(DiscoverLimit)'
  BY <1>5, <1>6, BoundKept, SignInAssumption
<1> QED BY <1>1, <1>5, <1>7 DEF TryInv

LEMMA TryCounted ==
    ASSUME AccountsInv, BusyInv, TryInv, [Next]_vars, AccountsInv', NEW q \in Requests,
           Foot(q, "countAttempts"), CountLoginAttempts(q)
    PROVE  TryInv'
<1>1. BusyInv'
  BY BusyStep
<1>2. CASE Refuses(q)
  <2>1. Left(q)' = {} /\ db' = db /\ Others(q)
    BY <1>2, EndsMoves DEF Refuses, Ended, AccountsInv
  <2>2. \A p \in Requests : p \in Attempting' => p \in Attempting
    BY <2>1 DEF Attempting, Others, Left
  <2> QED BY <2>1, <2>2, TryKept
<1>3. CASE ~TooManyAttempts(db.attempts) /\ Reads(q, Mem(q))
  <2>1. db' = db /\ db.attempts \in Nat /\ DiscoverLimit \in Nat /\ db.attempts < DiscoverLimit
    BY <1>3, SignInAssumption, AttemptingFinite DEF Reads, TooManyAttempts
  <2>2. PICK Q, E : Q = Attempting' /\ E = UnderWay'
    OBVIOUS
  <2>3. Cardinality(Q) \in Nat /\ Cardinality(Q) <= Cardinality(E) /\ Cardinality(E) \in Nat
    <3>1. IsFiniteSet(E)
      BY <1>1, <2>2 DEF BusyInv
    <3>2. Q \subseteq E
      BY <2>2, NoCalls DEF Attempting, UnderWay, Left, Busy
    <3> QED BY <3>1, <3>2, Smaller
  <2>4. PICK b \in Nat : b = db.attempts + Cardinality(Q)
    BY <2>1, <2>3
  <2>5. b <= Bound(DiscoverLimit)'
    <3>1. b <= db.attempts + Cardinality(UnderWay')
      BY <2>1, <2>2, <2>3, <2>4
    <3> QED BY <2>1, <3>1, BoundPassed
  <2> QED BY <2>1, <2>2, <2>4, <2>5 DEF TryInv
<1> QED BY <1>2, <1>3 DEF CountLoginAttempts

LEMMA TryRecorded ==
    ASSUME AccountsInv, BusyInv, TryInv, [Next]_vars, NEW q \in Requests,
           Foot(q, "recordAttempt"), RecordLoginAttempt(q)
    PROVE  TryInv'
<1>1. DOMAIN db = Fields
  BY DEF AccountsInv, DbOK
<1>2. db'.attempts = db.attempts + 1
  BY <1>1 DEF RecordLoginAttempt, Writes, Fields
<1>3. PICK P, Q : P = Attempting /\ Q = Attempting'
  OBVIOUS
<1>4. At(q, "recordAttempt") /\ Others(q)
  BY FootBusy DEF Foot
<1>5. ~Precedes("recordAttempt", "countAttempts") /\ ~Precedes("recordAttempt", "recordAttempt")
  BY DEF Precedes, Rank, Makers, Inserters
<1>6. q \in P
  BY <1>3, <1>4, <1>5, AtCall DEF Attempting
<1>7. "recordAttempt" \notin Left(q)'
  BY <1>5, CallDone DEF Loops
<1>8. Q \subseteq P \ {q}
  BY <1>3, <1>4, <1>7 DEF Attempting, Others, Left
<1>9. /\ IsFiniteSet(P) /\ db.attempts \in Nat /\ Cardinality(P) \in Nat
      /\ db.attempts + Cardinality(P) <= Bound(DiscoverLimit)
  BY <1>3, AttemptingFinite DEF TryInv
<1>10. IsFiniteSet(P \ {q}) /\ Cardinality(P \ {q}) = Cardinality(P) - 1
  BY <1>6, <1>9, FS_RemoveElement
<1>11. Cardinality(Q) \in Nat /\ Cardinality(Q) <= Cardinality(P) - 1
  BY <1>8, <1>10, Smaller
<1>12. PICK a \in Nat, b \in Nat : a = db.attempts + Cardinality(P) /\ b = db'.attempts + Cardinality(Q)
  BY <1>2, <1>9, <1>11
<1>13. b <= a /\ a <= Bound(DiscoverLimit)
  BY <1>2, <1>9, <1>11, <1>12
<1>14. b <= Bound(DiscoverLimit)'
  BY <1>12, <1>13, BoundKept, SignInAssumption
<1> QED BY <1>3, <1>12, <1>14 DEF TryInv

\* Requests that have found no domain and not yet added theirs.
Naming == {q \in Requests : "createDomain" \in Left(q) /\ "listDomains" \notin Left(q)}

DomainInv ==
    /\ IsFiniteSet(DOMAIN db.domains)
    /\ Cardinality(DOMAIN db.domains \cup Naming) <= Bound(1)

LEMMA DomainKept ==
    ASSUME AccountsInv, BusyInv, DomainInv, [Next]_vars,
           (DOMAIN db.domains \cup Naming)' \subseteq DOMAIN db.domains \cup Naming
    PROVE  DomainInv'
<1>1. PICK A, P, B, Q : /\ A = DOMAIN db.domains /\ P = Naming
                        /\ B = DOMAIN db'.domains /\ Q = Naming'
  OBVIOUS
<1>2. /\ IsFiniteSet(A) /\ Cardinality(A \cup P) <= Bound(1) /\ IsFiniteSet(UnderWay)
      /\ B \cup Q \subseteq A \cup P
  BY <1>1 DEF DomainInv, BusyInv
<1>3. P \subseteq UnderWay
  BY <1>1, NoCalls DEF Naming, UnderWay, Left, Busy
<1>4. IsFiniteSet(A \cup P)
  BY <1>2, <1>3, Smaller, UnionCard
<1>5. /\ IsFiniteSet(B \cup Q) /\ Cardinality(B \cup Q) \in Nat /\ Cardinality(A \cup P) \in Nat
      /\ Cardinality(B \cup Q) <= Cardinality(A \cup P)
  BY <1>2, <1>4, Smaller
<1>6. IsFiniteSet(B)
  BY <1>5, Smaller
<1>7. PICK a \in Nat, b \in Nat : a = Cardinality(A \cup P) /\ b = Cardinality(B \cup Q)
  BY <1>5
<1>8. b <= Bound(1)'
  BY <1>2, <1>5, <1>7, BoundKept
<1> QED BY <1>1, <1>6, <1>7, <1>8 DEF DomainInv

LEMMA DomainListed ==
    ASSUME AccountsInv, BusyInv, DomainInv, [Next]_vars, NEW q \in Requests,
           Foot(q, "listDomains"), ListOrgDomains(q)
    PROVE  DomainInv'
<1>1. CASE Refuses(q)
  <2>1. Left(q)' = {} /\ db' = db /\ Others(q)
    BY <1>1, EndsMoves DEF Refuses, Ended, AccountsInv
  <2>2. Naming' \subseteq Naming
    BY <2>1 DEF Naming, Others, Left
  <2>3. (DOMAIN db.domains \cup Naming)' \subseteq DOMAIN db.domains \cup Naming
    BY <2>1, <2>2
  <2> QED BY <2>3, DomainKept
<1>2. CASE ~HasDomain(Cardinality(DOMAIN db.domains)) /\ Reads(q, Mem(q))
  <2>1. db' = db /\ IsFiniteSet(DOMAIN db.domains)
    BY <1>2 DEF Reads, DomainInv
  <2>2. Cardinality(DOMAIN db.domains) \in Nat /\ ~(Cardinality(DOMAIN db.domains) > 0)
    BY <1>2, <2>1, FS_CardinalityType DEF HasDomain
  <2>3. DOMAIN db.domains = {}
    BY <2>1, <2>2, FS_EmptySet
  <2>4. PICK B, Q, E : B = DOMAIN db'.domains /\ Q = Naming' /\ E = UnderWay'
    OBVIOUS
  <2>5. B \cup Q \subseteq E
    <3>1. Q \subseteq E
      BY <2>4, NoCalls DEF Naming, UnderWay, Left, Busy
    <3> QED BY <2>1, <2>3, <2>4, <3>1
  <2>6. IsFiniteSet(E)
    BY <2>4, BusyStep DEF BusyInv
  <2>7. Cardinality(B \cup Q) \in Nat /\ Cardinality(B \cup Q) <= Cardinality(E) /\ Cardinality(E) \in Nat
    BY <2>5, <2>6, Smaller
  <2>8. PICK b \in Nat : b = Cardinality(B \cup Q)
    BY <2>7
  <2>9. b <= Bound(1)'
    <3>1. b <= 0 + Cardinality(UnderWay')
      BY <2>4, <2>7, <2>8
    <3> QED BY <3>1, BoundPassed
  <2>10. IsFiniteSet(DOMAIN db'.domains)
    BY <2>1
  <2> QED BY <2>4, <2>8, <2>9, <2>10 DEF DomainInv
<1> QED BY <1>1, <1>2 DEF ListOrgDomains

\* The other tables that a call leaves alone.
LEMMA SparedToo ==
    ASSUME NEW c, Spares(c, db')
    PROVE  /\ c # "recordAttempt" => db'.attempts = db.attempts
           /\ c \notin {"createDomain", "updateDomain", "deleteDomain", "deleteOrg"} =>
                db'.domains = db.domains
           /\ c \notin {"addMember", "upsertMember", "updateMemberRole", "removeMember", "deleteOrg"} =>
                db'.members = db.members
           /\ c \notin Inserters \cup {"updateAccount", "deleteAccount", "deleteOrg"} =>
                db'.accounts = db.accounts
           /\ c \notin {"createToken", "revokeToken", "revokeTokens", "deleteOrg"} => db'.tokens = db.tokens
           /\ c \notin {"createOrg", "updateOrg", "setOnboardingDone", "deleteOrg"} => db'.orgs = db.orgs
<1>1. /\ "attempts" \in Fields /\ "domains" \in Fields /\ "members" \in Fields /\ "accounts" \in Fields
      /\ "tokens" \in Fields /\ "orgs" \in Fields
  BY DEF Fields
<1>2. /\ Writers("attempts") = {"recordAttempt"}
      /\ Writers("domains") = {"createDomain", "updateDomain", "deleteDomain", "deleteOrg"}
      /\ Writers("members") =
           {"addMember", "upsertMember", "updateMemberRole", "removeMember", "deleteOrg"}
      /\ Writers("accounts") = Inserters \cup {"updateAccount", "deleteAccount", "deleteOrg"}
      /\ Writers("tokens") = {"createToken", "revokeToken", "revokeTokens", "deleteOrg"}
      /\ Writers("orgs") = {"createOrg", "updateOrg", "setOnboardingDone", "deleteOrg"}
  BY DEF Writers
<1> QED BY <1>1, <1>2 DEF Spares

\* Requests that have x left and are past y: none comes to them but by y.
LEMMA PastOnly ==
    ASSUME AccountsInv, NEW q \in Requests, NEW c, Foot(q, c), NEW y, y # c,
           NEW x \in {"recordAttempt", "createDomain", "upsertMember"},
           NEW p \in Requests, x \in Left(p)', y \notin Left(p)'
    PROVE  x \in Left(p) /\ y \notin Left(p)
<1>1. CASE p # q
  BY <1>1, FootBusy DEF Others, Left
<1>2. CASE p = q
  <2>1. At(q, c)
    BY DEF Foot
  <2>2. c \in Loops => x \notin Left(q)
    BY <2>1, LoopCalls
  <2>3. Left(q)' \subseteq Left(q) \cup {"createImportAccount", "applyMigration"}
    BY DEF Foot, Advances, Ended, Moved
  <2>4. c \notin Loops
    BY <1>2, <2>2, <2>3
  <2> QED BY <1>2, <2>4, PastBefore
<1> QED BY <1>1, <1>2

LEMMA TryActs ==
    ASSUME AccountsInv, AccountsInv', BusyInv, TryInv, [Next]_vars, NEW q \in Requests, Acts(q)
    PROVE  TryInv'
<1>1. PICK c : Foot(q, c)
  BY ActsFoot
<1>2. At(q, c) /\ Spares(c, db')
  BY <1>1 DEF Foot
<1>3. ActsAs(q, c)
  BY <1>2, ActsAt
<1>4. CASE c \in {"countAttempts", "recordAttempt"}
  <2>1. /\ c = "countAttempts" => CountLoginAttempts(q)
        /\ c = "recordAttempt" => RecordLoginAttempt(q)
    BY <1>3 DEF ActsAs, SharedAs, PeopleAs, SignInAs, TokenAs, BootAs,
                SharedCalls, PeopleCalls, SignInCalls, TokenCalls, BootCalls
  <2> QED BY <1>1, <1>4, <2>1, TryCounted, TryRecorded
<1>5. CASE c \notin {"countAttempts", "recordAttempt"}
  <2>1. db'.attempts = db.attempts
    BY <1>2, <1>5, SparedToo
  <2>2. \A p \in Requests : p \in Attempting' => p \in Attempting
    BY <1>1, <1>5, PastOnly DEF Attempting
  <2> QED BY <2>1, <2>2, TryKept
<1> QED BY <1>4, <1>5

LEMMA DomainActs ==
    ASSUME AccountsInv, BusyInv, DomainInv, [Next]_vars, NEW q \in Requests, Acts(q)
    PROVE  DomainInv'
<1>1. PICK c : Foot(q, c)
  BY ActsFoot
<1>2. At(q, c) /\ Spares(c, db') /\ DOMAIN db = Fields
  BY <1>1 DEF Foot, AccountsInv, DbOK
<1>3. ActsAs(q, c)
  BY <1>2, ActsAt
<1>4. CASE c = "listDomains"
  <2>1. ListOrgDomains(q)
    BY <1>3, <1>4 DEF ActsAs, SharedAs, PeopleAs, SignInAs, TokenAs, BootAs,
                      SharedCalls, PeopleCalls, SignInCalls, TokenCalls, BootCalls
  <2> QED BY <1>1, <1>4, <2>1, DomainListed
<1>5. CASE c # "listDomains"
  <2>1. Naming' \subseteq Naming
    BY <1>1, <1>5, PastOnly DEF Naming
  <2>2. CASE c = "createDomain"
    <3>1. CreateOrgDomain(q)
      BY <1>3, <2>2 DEF ActsAs, SharedAs, PeopleAs, SignInAs, TokenAs, BootAs,
                        SharedCalls, PeopleCalls, SignInCalls, TokenCalls, BootCalls
    <3>2. ~Precedes("createDomain", "listDomains")
      BY DEF Precedes, Rank, Makers, Inserters
    <3>3. q \in Naming
      BY <1>2, <2>2, <3>2, AtCall DEF Naming
    <3>4. db' = db \/ \E d, ds : ds = With(db.domains, q, d) /\ db' = [db EXCEPT !.domains = ds]
      BY <3>1 DEF CreateOrgDomain, Writes, Refuses
    <3>5. DOMAIN db'.domains \subseteq DOMAIN db.domains \cup {q}
      <4>1. CASE db' = db
        BY <4>1
      <4>2. ASSUME NEW d, NEW ds, ds = With(db.domains, q, d), db' = [db EXCEPT !.domains = ds]
            PROVE  DOMAIN db'.domains \subseteq DOMAIN db.domains \cup {q}
        <5>1. db'.domains = ds
          BY <1>2, <4>2 DEF Fields
        <5> QED BY <4>2, <5>1 DEF With
      <4> QED BY <3>4, <4>1, <4>2
    <3> QED BY <2>1, <3>3, <3>5, DomainKept
  <2>3. CASE c = "updateDomain"
    <3>1. UpdateOrgDomain(q)
      BY <1>3, <2>3 DEF ActsAs, SharedAs, PeopleAs, SignInAs, TokenAs, BootAs,
                        SharedCalls, PeopleCalls, SignInCalls, TokenCalls, BootCalls
    <3>2. db' = db \/ \E i, d, ds : ds = [db.domains EXCEPT ![i] = d] /\ db' = [db EXCEPT !.domains = ds]
      BY <3>1 DEF UpdateOrgDomain, Writes, Refuses
    <3>3. DOMAIN db'.domains = DOMAIN db.domains
      <4>1. ASSUME NEW i, NEW d, NEW ds, ds = [db.domains EXCEPT ![i] = d], db' = [db EXCEPT !.domains = ds]
            PROVE  DOMAIN db'.domains = DOMAIN db.domains
        <5>1. db'.domains = ds
          BY <1>2, <4>1 DEF Fields
        <5> QED BY <4>1, <5>1
      <4> QED BY <3>2, <4>1
    <3> QED BY <2>1, <3>3, DomainKept
  <2>4. CASE c = "deleteDomain"
    <3>1. DeleteOrgDomain(q)
      BY <1>3, <2>4 DEF ActsAs, SharedAs, PeopleAs, SignInAs, TokenAs, BootAs,
                        SharedCalls, PeopleCalls, SignInCalls, TokenCalls, BootCalls
    <3>2. PICK ds : /\ ds = Keep(db.domains, DOMAIN db.domains \ {Mem(q).ref})
                    /\ db' = [db EXCEPT !.domains = ds]
      BY <3>1 DEF DeleteOrgDomain, Writes
    <3>3. db'.domains = ds
      BY <1>2, <3>2 DEF Fields
    <3>4. DOMAIN db'.domains \subseteq DOMAIN db.domains
      BY <3>2, <3>3 DEF Keep
    <3> QED BY <2>1, <3>4, DomainKept
  <2>5. CASE c = "deleteOrg"
    <3>1. DeleteOrg(q)
      BY <1>3, <2>5 DEF ActsAs, SharedAs, PeopleAs, SignInAs, TokenAs, BootAs,
                        SharedCalls, PeopleCalls, SignInCalls, TokenCalls, BootCalls
    <3>2. DeletedOrg(Mem(q).org) /\ DOMAIN Empty = {}
      BY <1>2, <3>1, DeleteOrgDoes DEF Empty
    <3>3. DOMAIN db'.domains \subseteq DOMAIN db.domains
      BY <3>2 DEF DeletedOrg
    <3> QED BY <2>1, <3>3, DomainKept
  <2>6. CASE c \notin {"createDomain", "updateDomain", "deleteDomain", "deleteOrg"}
    <3>1. db'.domains = db.domains
      BY <1>2, <2>6, SparedToo
    <3> QED BY <2>1, <3>1, DomainKept
  <2> QED BY <2>2, <2>3, <2>4, <2>5, <2>6
<1> QED BY <1>4, <1>5

\* A request stays as it was, ends, or arrives.
Still(p) ==
    \/ proc'[p] = proc[p]
    \/ Left(p)' = {} /\ Op(p)' = Op(p)
    \/ Op(p) = "none" /\ Op(p)' \in AllOps /\ Fresh(Op(p)', Left(p)')

LEMMA StepOrStill ==
    ASSUME AccountsInv, [Next]_vars
    PROVE  \/ \E q \in Requests : Acts(q)
           \/ UNCHANGED <<db, failedOpen>> /\ \A p \in Requests : Still(p)
<1>1. ASSUME NEW q \in Requests, Starts(q)
      PROVE  UNCHANGED <<db, failedOpen>> /\ \A p \in Requests : Still(p)
  BY <1>1, StartsFresh DEF Others, Still
<1>2. ASSUME NEW q \in Requests, Aborts(q), UNCHANGED <<db, failedOpen, linked>>
      PROVE  UNCHANGED <<db, failedOpen>> /\ \A p \in Requests : Still(p)
  BY <1>2, EndsMoves DEF AccountsInv, Ended, Others, Still
<1>3. CASE UNCHANGED <<proc, clean, db, failedOpen, linked>>
  BY <1>3 DEF Still
<1> QED BY <1>1, <1>2, <1>3, StepKinds

LEMMA TryStep ==
    ASSUME AccountsInv, AccountsInv', BusyInv, TryInv, [Next]_vars
    PROVE  TryInv'
<1>1. CASE UNCHANGED <<db, failedOpen>> /\ \A p \in Requests : Still(p)
  <2>1. \A p \in Requests : p \in Attempting' => p \in Attempting
    BY <1>1 DEF Attempting, Still, Left, Fresh
  <2> QED BY <1>1, <2>1, TryKept
<1> QED BY <1>1, StepOrStill, TryActs

LEMMA DomainStep ==
    ASSUME AccountsInv, BusyInv, DomainInv, [Next]_vars
    PROVE  DomainInv'
<1>1. CASE UNCHANGED <<db, failedOpen>> /\ \A p \in Requests : Still(p)
  <2>1. Naming' \subseteq Naming
    BY <1>1 DEF Naming, Still, Left, Fresh
  <2> QED BY <1>1, <2>1, DomainKept
<1> QED BY <1>1, StepOrStill, DomainActs

(***************************************************************************)
(* Seats.                                                                  *)
(***************************************************************************)
\* The requests that may still add a member to the first organisation, and who.
Seating(q) ==
    \/ Op(q) = "addMember" /\ "addMember" \in Left(q) /\ "seats" \notin Left(q) /\ Mem(q).org = Seed
    \/ Op(q) = "callback" /\ "upsertMember" \in Left(q) /\ (Mem(q).isMember \/ "seats" \notin Left(q))
SeatKey(q) == <<IF Mem(q).user = Null THEN q ELSE Mem(q).user, Seed>>
Seaters == {q \in Requests : Seating(q)}
Seated == MembersOf(Seed) \cup {SeatKey(q) : q \in Seaters}

\* Whoever made its organisation adds the member to that one.
OwnInv ==
    \A q \in Requests : "addMember" \in Left(q) /\ "createOrg" \notin Left(q) /\ Op(q) # "addMember" =>
        Mem(q).org = q

SeatInv ==
    /\ IsFiniteSet(MembersOf(Seed))
    /\ failedOpen \/ Cardinality(Seated) <= Bound(Seats)

\* What a request that has calls left after the call c had before it.
LEMMA GoesOn ==
    ASSUME AccountsInv, NEW q \in Requests, NEW c, Foot(q, c), Left(q)' # {}
    PROVE  /\ At(q, c) /\ Op(q)' = Op(q) /\ Recalls(c, Mem(q), Mem(q)')
           /\ Left(q)' \subseteq Left(q) \cup {"createImportAccount", "applyMigration"}
           /\ Left(q) \subseteq Left(q)' \cup {c}
           /\ c \notin Loops => Left(q)' \subseteq Left(q)
<1>1. At(q, c) /\ Advances(q, c) /\ ~Ended(q)
  BY DEF Foot, Ended
<1>2. CASE \E n : Moved(q, c, n) /\ Recalls(c, Mem(q), n)
  <2>1. PICK n : Moved(q, c, n) /\ Recalls(c, Mem(q), n)
    BY <1>2
  <2>2. Mem(q)' = n
    BY <2>1 DEF Moved
  <2>3. Recalls(c, Mem(q), Mem(q)')
    BY <2>1, <2>2
  <2> QED BY <1>1, <2>1, <2>3 DEF Moved
<1>3. CASE /\ c \in Loops /\ Others(q) /\ Op(q)' = Op(q)
           /\ Left(q)' \subseteq Left(q) \cup {"createImportAccount", "applyMigration"}
           /\ Left(q) \subseteq Left(q)' \cup {c}
           /\ \E n : Recalls(c, Mem(q), n) /\ (Left(q)' # {} => Mem(q)' = n)
  <2>1. PICK n : Recalls(c, Mem(q), n) /\ Mem(q)' = n
    BY <1>3
  <2>2. Recalls(c, Mem(q), Mem(q)')
    BY <2>1
  <2> QED BY <1>1, <1>3, <2>2
<1> QED BY <1>1, <1>2, <1>3 DEF Advances

LEMMA OwnActs ==
    ASSUME AccountsInv, OwnInv, NEW q \in Requests, Acts(q)
    PROVE  OwnInv'
<1>1. PICK c : Foot(q, c)
  BY ActsFoot
<1> SUFFICES ASSUME NEW p \in Requests, "addMember" \in Left(p)', "createOrg" \notin Left(p)',
                    Op(p)' # "addMember"
             PROVE  Mem(p)'.org = p
  BY DEF OwnInv
<1>2. CASE p # q
  <2>1. proc'[p] = proc[p]
    BY <1>1, <1>2, FootBusy DEF Others
  <2> QED BY <2>1 DEF OwnInv, Op, Left, Mem
<1>3. CASE p = q
  <2>1. /\ At(q, c) /\ Op(q)' = Op(q) /\ Recalls(c, Mem(q), Mem(q)')
        /\ "addMember" \in Left(q) /\ Left(q) \subseteq Left(q)' \cup {c}
    BY <1>1, <1>3, GoesOn
  <2>2. CASE c = "createOrg"
    <3>1. ActsAs(q, c)
      BY <2>1, ActsAt
    <3>2. CreateOrg(q)
      BY <2>2, <3>1 DEF ActsAs, SharedAs, PeopleAs, SignInAs, TokenAs, BootAs,
                        SharedCalls, PeopleCalls, SignInCalls, TokenCalls, BootCalls
    <3>3. PICK n : n = [Mem(q) EXCEPT !.org = q] /\ Keeps(q, n)
      BY <3>2 DEF CreateOrg, Writes
    <3>4. Mem(q) \in AccountMemory /\ Listed(proc[q].todo) /\ ProcType
      BY <2>1, AtCall DEF AccountsInv
    <3>5. n \in AccountMemory /\ n.org = q
      BY <3>3, <3>4 DEF AccountMemory, MaybeId, Ids
    <3>6. Moved(q, c, n)
      BY <2>1, <3>3, <3>4, <3>5, KeepsMoves
    <3>7. Mem(q)' = n
      BY <1>3, <3>6 DEF Moved
    <3> QED BY <1>3, <3>5, <3>7
  <2>3. CASE c # "createOrg"
    <3>1. "createOrg" \notin Left(q) /\ Op(q) # "addMember"
      BY <1>3, <2>1, <2>3
    <3>2. Mem(q).org = q
      BY <2>1, <3>1 DEF OwnInv
    <3> QED BY <1>3, <2>1, <2>3, <3>2 DEF Recalls
  <2> QED BY <2>2, <2>3
<1> QED BY <1>2, <1>3

LEMMA OwnStep ==
    ASSUME AccountsInv, OwnInv, [Next]_vars
    PROVE  OwnInv'
<1>1. CASE \A p \in Requests : Still(p)
  BY <1>1 DEF OwnInv, Still, Op, Left, Mem, Fresh
<1> QED BY <1>1, StepOrStill, OwnActs

\* There are no more seats taken than members and requests.
LEMMA SeatedFinite ==
    ASSUME NEW A, NEW D, IsFiniteSet(A), IsFiniteSet(D), NEW P \in SUBSET D, NEW K,
           NEW f \in Surjection(P, K)
    PROVE  /\ IsFiniteSet(A \cup K) /\ Cardinality(A \cup K) \in Nat
           /\ Cardinality(A \cup K) <= Cardinality(A) + Cardinality(D)
           /\ Cardinality(A) \in Nat /\ Cardinality(D) \in Nat
<1>1. IsFiniteSet(P) /\ Cardinality(P) \in Nat /\ Cardinality(P) <= Cardinality(D) /\ Cardinality(D) \in Nat
  BY Smaller
<1>2. IsFiniteSet(K) /\ Cardinality(K) <= Cardinality(P)
  BY <1>1, FS_Surjection
<1>3. Cardinality(A) \in Nat /\ Cardinality(K) \in Nat
  BY <1>2, FS_CardinalityType
<1>4. IsFiniteSet(A \cup K) /\ Cardinality(A \cup K) <= Cardinality(A) + Cardinality(K)
  BY <1>2, UnionCard
<1>5. Cardinality(A \cup K) \in Nat
  BY <1>4, FS_CardinalityType
<1> QED BY <1>1, <1>2, <1>3, <1>4, <1>5

LEMMA SeatedIs ==
    ASSUME ProcType, BusyInv, SeatInv
    PROVE  /\ IsFiniteSet(Seated) /\ Cardinality(Seated) \in Nat
           /\ Cardinality(MembersOf(Seed)) \in Nat
<1>1. PICK A, P, D, f, K : /\ A = MembersOf(Seed) /\ P = Seaters /\ D = UnderWay
                           /\ f = [q \in P |-> SeatKey(q)] /\ K = {SeatKey(q) : q \in P}
  OBVIOUS
<1>2. P \subseteq D
  BY <1>1, NoCalls DEF Seaters, Seating, UnderWay, Left, Busy
<1>3. IsFiniteSet(A) /\ IsFiniteSet(D)
  BY <1>1 DEF SeatInv, BusyInv
<1>4. f \in Surjection(P, K)
  BY <1>1 DEF Surjection
<1>5. Seated = A \cup K
  BY <1>1 DEF Seated
<1>6. /\ IsFiniteSet(A \cup K) /\ Cardinality(A \cup K) \in Nat /\ Cardinality(A) \in Nat
  BY <1>2, <1>3, <1>4, SeatedFinite
<1> QED BY <1>1, <1>5, <1>6

\* A seat is taken by nobody who did not have one.
LEMMA SeatKept ==
    ASSUME AccountsInv, BusyInv, SeatInv, [Next]_vars, Seated' \subseteq Seated, failedOpen => failedOpen'
    PROVE  SeatInv'
<1>1. PICK S, T, B : S = Seated /\ T = Seated' /\ B = MembersOf(Seed)'
  OBVIOUS
<1>2. IsFiniteSet(S) /\ Cardinality(S) \in Nat /\ T \subseteq S
  BY <1>1, SeatedIs DEF AccountsInv
<1>3. Cardinality(T) \in Nat /\ Cardinality(T) <= Cardinality(S)
  BY <1>2, Smaller
<1>4. B \subseteq S
  BY <1>1, <1>2 DEF Seated
<1>5. IsFiniteSet(B)
  BY <1>2, <1>4, Smaller
<1>6. failedOpen \/ Cardinality(S) <= Bound(Seats)
  BY <1>1 DEF SeatInv
<1>7. failedOpen' \/ Cardinality(T) <= Bound(Seats)'
  <2>1. CASE failedOpen
    BY <2>1
  <2>2. CASE Cardinality(S) <= Bound(Seats)
    <3>1. PICK a \in Nat, b \in Nat : a = Cardinality(S) /\ b = Cardinality(T)
      BY <1>2, <1>3
    <3>2. b <= Bound(Seats)'
      BY <1>3, <2>2, <3>1, BoundKept, AccountTablesAssumption
    <3> QED BY <3>1, <3>2
  <2> QED BY <1>6, <2>1, <2>2
<1> QED BY <1>1, <1>5, <1>7 DEF SeatInv

\* The plan has room for another member: there are no more than that and the
\* requests under way.
LEMMA SeatRoom ==
    ASSUME AccountsInv, BusyInv, SeatInv, [Next]_vars, db'.members = db.members,
           Cardinality(MembersOf(Seed)) < Seats
    PROVE  SeatInv'
<1>1. PICK A, P, D, f, K : /\ A = MembersOf(Seed)' /\ P = Seaters' /\ D = UnderWay'
                           /\ f = [q \in P |-> SeatKey(q)'] /\ K = {SeatKey(q)' : q \in P}
  OBVIOUS
<1>2. P \subseteq D
  BY <1>1, NoCalls DEF Seaters, Seating, UnderWay, Left, Busy
<1>3. A = MembersOf(Seed)
  BY <1>1 DEF MembersOf
<1>4. IsFiniteSet(A) /\ IsFiniteSet(D)
  BY <1>1, <1>3, BusyStep DEF SeatInv, BusyInv
<1>5. f \in Surjection(P, K)
  BY <1>1 DEF Surjection
<1>6. Seated' = A \cup K
  BY <1>1 DEF Seated
<1>7. /\ IsFiniteSet(A \cup K) /\ Cardinality(A \cup K) \in Nat
      /\ Cardinality(A \cup K) <= Cardinality(A) + Cardinality(D) /\ Cardinality(A) \in Nat
  BY <1>2, <1>4, <1>5, SeatedFinite
<1>8. PICK a \in Nat, b \in Nat : a = Cardinality(A) /\ b = Cardinality(A \cup K)
  BY <1>7
<1>9. a < Seats /\ b <= a + Cardinality(UnderWay')
  BY <1>1, <1>3, <1>7, <1>8
<1>10. b <= Bound(Seats)'
  BY <1>9, BoundPassed, AccountTablesAssumption
<1>11. IsFiniteSet(MembersOf(Seed)')
  BY <1>1, <1>4
<1> QED BY <1>6, <1>8, <1>10, <1>11 DEF SeatInv

\* Who has a seat after the call c had it before, or is a member.
SeatedOn(p) == Seating(p)' => SeatKey(p)' \in MembersOf(Seed) \/ (Seating(p) /\ SeatKey(p)' = SeatKey(p))

LEMMA SeatedBefore ==
    ASSUME MembersOf(Seed)' \subseteq Seated, \A p \in Requests : SeatedOn(p)
    PROVE  Seated' \subseteq Seated
<1>1. \A p \in Requests : p \in Seaters' => SeatKey(p)' \in Seated
  BY DEF Seaters, Seated, SeatedOn
<1>2. PICK K, P, B : /\ P = Seaters' /\ B = MembersOf(Seed)' /\ K = {SeatKey(p)' : p \in P}
  OBVIOUS
<1>3. K \subseteq Seated
  BY <1>1, <1>2 DEF Seaters
<1>4. Seated' = B \cup K
  BY <1>2 DEF Seated
<1> QED BY <1>2, <1>3, <1>4

\* What is written of a call of an operation that adds members.
LEMMA SeatCalls ==
    ASSUME AccountsInv, NEW q \in Requests, NEW c, At(q, c), Op(q) \in {"addMember", "callback"}
    PROVE  /\ c \notin Loops
           /\ c \notin {"upsertUser", "findLogin", "getSession", "createOrg"}
           /\ Op(q) = "addMember" => c \notin {"findUser", "getMember"} /\ ~Mem(q).isMember
           /\ Op(q) = "callback" => Mem(q).org = Seed
           /\ Op(q) = "callback" /\ c \in {"findUser", "getMember"} => "seats" \in Left(q) /\ ~Mem(q).isMember
<1>1. /\ c \in Left(q) /\ CallsOfOp(Op(q), Left(q)) /\ HeldState(Op(q), Left(q), Mem(q))
  BY AtCall DEF Known
<1>2. CASE Op(q) = "addMember"
  <2>1. c \in {"emailFree", "seats", "createUser", "addMember"}
    BY <1>1, <1>2 DEF CallsOfOp, AddMemberSteps
  <2> QED BY <1>1, <1>2, <2>1 DEF Loops, HeldState
<1>3. CASE Op(q) = "callback"
  <2>1. c \in {"consumeState", "loadProvider", "findUser", "createUser", "listRoleMappings", "getMember",
               "seats", "upsertMember", "upsertIdentity", "createSession"}
    BY <1>1, <1>3 DEF CallsOfOp, CallbackSteps
  <2> QED BY <1>1, <1>3, <2>1 DEF Loops, HeldState
<1> QED BY <1>2, <1>3

\* Most calls.
LEMMA SeatedOnward ==
    ASSUME AccountsInv, NEW q \in Requests, NEW c, Foot(q, c), c \notin {"seats", "getMember", "createUser"}
    PROVE  \A p \in Requests : SeatedOn(p)
<1> SUFFICES ASSUME NEW p \in Requests, Seating(p)'
             PROVE  Seating(p) /\ SeatKey(p)' = SeatKey(p)
  BY DEF SeatedOn
<1>1. CASE p # q
  <2>1. proc'[p] = proc[p]
    BY <1>1, FootBusy DEF Others
  <2> QED BY <2>1 DEF Seating, SeatKey, Op, Left, Mem
<1>2. CASE p = q
  <2>1. Left(q)' # {} /\ Op(q)' \in {"addMember", "callback"}
    BY <1>2 DEF Seating
  <2>2. /\ At(q, c) /\ Op(q)' = Op(q) /\ Recalls(c, Mem(q), Mem(q)')
        /\ Left(q) \subseteq Left(q)' \cup {c}
        /\ c \notin Loops => Left(q)' \subseteq Left(q)
    BY <2>1, GoesOn
  <2>3. /\ c \notin Loops
        /\ c \notin {"upsertUser", "findLogin", "getSession", "createOrg"}
        /\ Op(q) = "addMember" => c # "findUser"
        /\ Op(q) = "callback" /\ c = "findUser" => "seats" \in Left(q) /\ ~Mem(q).isMember
    BY <2>1, <2>2, SeatCalls
  <2>4. Mem(q)'.org = Mem(q).org /\ Mem(q)'.isMember = Mem(q).isMember
    BY <2>2, <2>3 DEF Recalls
  <2>5. c # "findUser"
    <3>1. CASE Op(q) = "callback" /\ c = "findUser"
      <4>1. "seats" \in Left(q)' /\ ~Mem(q)'.isMember
        BY <2>2, <2>3, <2>4, <3>1
      <4> QED BY <1>2, <2>2, <3>1, <4>1 DEF Seating
    <3> QED BY <2>1, <2>2, <2>3, <3>1
  <2>6. Mem(q)'.user = Mem(q).user
    BY <2>2, <2>3, <2>5 DEF Recalls
  <2>7. Left(q)' \subseteq Left(q) /\ ("seats" \in Left(q) => "seats" \in Left(q)')
    BY <2>2, <2>3
  <2>8. Seating(q)
    BY <1>2, <2>2, <2>4, <2>7 DEF Seating
  <2>9. SeatKey(q)' = SeatKey(q)
    BY <2>6 DEF SeatKey
  <2> QED BY <1>2, <2>8, <2>9
<1> QED BY <1>1, <1>2

\* The user that is made is the request's.
LEMMA SeatedUser ==
    ASSUME AccountsInv, NEW q \in Requests, Foot(q, "createUser"), CreateUser(q)
    PROVE  \A p \in Requests : SeatedOn(p)
<1> SUFFICES ASSUME NEW p \in Requests, Seating(p)'
             PROVE  Seating(p) /\ SeatKey(p)' = SeatKey(p)
  BY DEF SeatedOn
<1>1. CASE p # q
  <2>1. proc'[p] = proc[p]
    BY <1>1, FootBusy DEF Others
  <2> QED BY <2>1 DEF Seating, SeatKey, Op, Left, Mem
<1>2. CASE p = q
  <2>1. Left(q)' # {} /\ Op(q)' \in {"addMember", "callback"}
    BY <1>2 DEF Seating
  <2>2. /\ At(q, "createUser") /\ Op(q)' = Op(q) /\ Recalls("createUser", Mem(q), Mem(q)')
        /\ Left(q) \subseteq Left(q)' \cup {"createUser"} /\ Left(q)' \subseteq Left(q)
    BY <2>1, GoesOn DEF Loops
  <2>3. /\ Mem(q)'.org = Mem(q).org /\ Mem(q)'.isMember = Mem(q).isMember
        /\ "seats" \in Left(q) => "seats" \in Left(q)'
    BY <2>2 DEF Recalls
  <2>4. Seating(q)
    BY <1>2, <2>2, <2>3 DEF Seating
  <2>5. Mem(q) \in AccountMemory /\ Listed(proc[q].todo) /\ ProcType
    BY <2>2, AtCall DEF AccountsInv
  <2>6. PICK n : /\ n = IF Mem(q).user # Null THEN Mem(q) ELSE [Mem(q) EXCEPT !.user = q]
                 /\ Keeps(q, n) \/ Refuses(q)
    BY DEF CreateUser, Reads, Writes
  <2>7. n \in AccountMemory /\ n.user = IF Mem(q).user = Null THEN q ELSE Mem(q).user
    BY <2>5, <2>6 DEF AccountMemory, MaybeId, Ids
  <2>8. ~Refuses(q)
    BY <2>1, EndsMoves DEF Refuses, Ended, AccountsInv
  <2>9. Mem(q)' = n
    BY <2>1, <2>2, <2>5, <2>6, <2>7, <2>8, KeepsMoves DEF Moved
  <2>10. q # Null
    BY AccountTablesAssumption
  <2>11. SeatKey(q)' = SeatKey(q)
    BY <2>7, <2>9, <2>10 DEF SeatKey
  <2> QED BY <1>2, <2>4, <2>11
<1> QED BY <1>1, <1>2

\* A callback finds that its user is a member.
LEMMA SeatedMember ==
    ASSUME AccountsInv, NEW q \in Requests, Foot(q, "getMember"), GetMember(q)
    PROVE  \A p \in Requests : SeatedOn(p)
<1> SUFFICES ASSUME NEW p \in Requests, Seating(p)'
             PROVE  SeatKey(p)' \in MembersOf(Seed) \/ (Seating(p) /\ SeatKey(p)' = SeatKey(p))
  BY DEF SeatedOn
<1>1. CASE p # q
  <2>1. proc'[p] = proc[p]
    BY <1>1, FootBusy DEF Others
  <2> QED BY <2>1 DEF Seating, SeatKey, Op, Left, Mem
<1>2. CASE p = q
  <2>1. Left(q)' # {} /\ Op(q)' \in {"addMember", "callback"}
    BY <1>2 DEF Seating
  <2>2. /\ At(q, "getMember") /\ Op(q)' = Op(q) /\ Recalls("getMember", Mem(q), Mem(q)')
        /\ Left(q) \subseteq Left(q)' \cup {"getMember"} /\ Left(q)' \subseteq Left(q)
    BY <2>1, GoesOn DEF Loops
  <2>3. Op(q) = "callback" /\ "seats" \in Left(q)
    BY <2>1, <2>2, SeatCalls
  <2>4. "seats" \in Left(q)' /\ Mem(q)'.isMember
    BY <1>2, <2>2, <2>3 DEF Seating
  <2>5. Mem(q) \in AccountMemory /\ Listed(proc[q].todo) /\ ProcType
    BY <2>2, AtCall DEF AccountsInv
  <2>6. PICK u : u = Mem(q).user
    OBVIOUS
  <2>. PICK b \in BOOLEAN : b <=> <<u, Seed>> \in DOMAIN db.members
    BY Zenon
  <2>7. PICK n : n = [Mem(q) EXCEPT !.isMember = b] /\ Keeps(q, n)
    <3>1. b = (<<u, Seed>> \in DOMAIN db.members)
      BY Zenon
    <3> QED BY <2>6, <3>1 DEF GetMember, Reads
  <2>8. n \in AccountMemory /\ n.user = u /\ n.isMember = b
    BY <2>5, <2>6, <2>7 DEF AccountMemory
  <2>9. Mem(q)' = n
    BY <2>1, <2>2, <2>5, <2>7, <2>8, KeepsMoves DEF Moved
  <2>10. <<u, Seed>> \in DOMAIN db.members
    BY <2>4, <2>6, <2>8, <2>9
  <2>11. u # Null
    <3>1. MembersOK(db.members, db.users, db.orgs) /\ UsersOK(db.users)
      BY DEF AccountsInv, DbOK
    <3>2. <<u, Seed>>[1] \in DOMAIN db.users /\ DOMAIN db.users \subseteq Ids
      BY <2>10, <3>1 DEF MembersOK, UsersOK
    <3> QED BY <3>2, AccountTablesAssumption DEF Ids
  <2>12. SeatKey(q)' = <<u, Seed>>
    BY <2>8, <2>9, <2>11 DEF SeatKey
  <2>13. <<u, Seed>>[2] = Seed
    OBVIOUS
  <2> QED BY <1>2, <2>10, <2>12, <2>13 DEF MembersOf
<1> QED BY <1>1, <1>2

\* The plan is asked.
LEMMA SeatAsked ==
    ASSUME AccountsInv, BusyInv, SeatInv, [Next]_vars, NEW q \in Requests, Foot(q, "seats"),
           SeatLimitReached(q) \/ SeatLimitUnknown(q)
    PROVE  SeatInv'
<1>1. /\ db' = db /\ At(q, "seats") /\ Others(q)
  <2>1. db' = db
    BY DEF SeatLimitReached, SeatLimitUnknown, Reads, Refuses
  <2> QED BY <2>1, FootBusy DEF Foot
<1>2. MembersOf(Seed)' = MembersOf(Seed) /\ MembersOf(Seed)' \subseteq Seated
  BY <1>1 DEF MembersOf, Seated
<1>3. ASSUME Seating(q)' => Seating(q) /\ SeatKey(q)' = SeatKey(q), failedOpen => failedOpen'
      PROVE  SeatInv'
  <2>1. \A p \in Requests : p # q => proc'[p] = proc[p]
    BY <1>1 DEF Others
  <2>2. \A p \in Requests : p # q => SeatedOn(p)
    BY <2>1 DEF SeatedOn, Seating, SeatKey, Op, Left, Mem
  <2>3. SeatedOn(q)
    BY <1>3 DEF SeatedOn
  <2> QED BY <1>2, <1>3, <2>2, <2>3, SeatedBefore, SeatKept
<1>4. CASE SeatLimitUnknown(q)
  <2>1. failedOpen' = TRUE
    BY <1>4 DEF SeatLimitUnknown
  <2>2. IsFiniteSet(MembersOf(Seed)')
    BY <1>2 DEF SeatInv
  <2> QED BY <2>1, <2>2 DEF SeatInv
<1>5. CASE SeatLimitReached(q) /\ Refuses(q)
  <2>1. Left(q)' = {} /\ failedOpen' = failedOpen
    BY <1>5, EndsMoves DEF Refuses, Ended, AccountsInv, SeatLimitReached
  <2>2. ~Seating(q)'
    BY <2>1 DEF Seating
  <2> QED BY <1>3, <2>1, <2>2
<1>6. CASE /\ SeatLimitReached(q) /\ Reads(q, Mem(q))
           /\ Mem(q).isMember \/ ~SeatsFull(Cardinality(MembersOf(Mem(q).org)))
  <2>1. failedOpen' = failedOpen
    BY <1>6 DEF SeatLimitReached
  <2>2. CASE Mem(q).org = Seed /\ ~SeatsFull(Cardinality(MembersOf(Mem(q).org)))
    <3>1. Cardinality(MembersOf(Seed)) \in Nat /\ Seats \in Nat
      BY SeatedIs, AccountTablesAssumption DEF AccountsInv
    <3>2. Cardinality(MembersOf(Seed)) < Seats
      BY <2>2, <3>1 DEF SeatsFull
    <3> QED BY <1>1, <3>2, SeatRoom
  <2>3. CASE Mem(q).org # Seed \/ Mem(q).isMember
    <3> SUFFICES ASSUME Seating(q)' PROVE Seating(q) /\ SeatKey(q)' = SeatKey(q)
      BY <1>3, <2>1
    <3>1. Left(q)' # {} /\ Op(q)' \in {"addMember", "callback"}
      BY DEF Seating
    <3>2. /\ Op(q)' = Op(q) /\ Recalls("seats", Mem(q), Mem(q)') /\ Left(q)' \subseteq Left(q)
      BY <3>1, GoesOn DEF Loops
    <3>3. /\ Mem(q)'.user = Mem(q).user /\ Mem(q)'.org = Mem(q).org /\ Mem(q)'.isMember = Mem(q).isMember
      BY <3>2 DEF Recalls
    <3>4. /\ Op(q) = "addMember" => ~Mem(q).isMember
          /\ Op(q) = "callback" => Mem(q).org = Seed
      BY <1>1, <3>1, <3>2, SeatCalls
    <3>5. Op(q) = "callback" /\ Mem(q).isMember /\ "upsertMember" \in Left(q)
      BY <2>3, <3>1, <3>2, <3>3, <3>4 DEF Seating
    <3> QED BY <3>3, <3>5 DEF Seating, SeatKey
  <2> QED BY <1>6, <2>2, <2>3
<1> QED BY <1>4, <1>5, <1>6 DEF SeatLimitReached

\* Members that are written: those there were, and who has a seat.
LEMMA SeatWritten ==
    ASSUME AccountsInv, OwnInv, NEW q \in Requests, NEW c, At(q, c), ActsAs(q, c), Spares(c, db')
    PROVE  MembersOf(Seed)' \subseteq Seated
<1>0. DOMAIN db = Fields /\ \A k \in DOMAIN db.members : k[2] = Seed => k \in Seated
  BY DEF AccountsInv, DbOK, Seated, MembersOf
<1>1. ASSUME c = "addMember" PROVE \A k \in DOMAIN db'.members : k[2] = Seed => k \in Seated
  <2>1. AddMember(q)
    BY <1>1 DEF ActsAs, SharedAs, PeopleAs, SignInAs, TokenAs, BootAs,
                SharedCalls, PeopleCalls, SignInCalls, TokenCalls, BootCalls
  <2>2. CASE db' = db
    BY <1>0, <2>2
  <2>3. CASE MayJoin(Mem(q).user, Mem(q).org) /\ db' # db
    <3>1. PICK u, o, r, ms : /\ u = Mem(q).user /\ o = Mem(q).org /\ ms = With(db.members, <<u, o>>, r)
                             /\ db' = [db EXCEPT !.members = ms] /\ u \in DOMAIN db.users
      BY <2>1, <2>3 DEF AddMember, Writes, Refuses, MayJoin
    <3>2. db'.members = ms
      BY <1>0, <3>1 DEF Fields
    <3>3. DOMAIN ms \subseteq DOMAIN db.members \cup {<<u, o>>}
      BY <3>1 DEF With
    <3>4. o = Seed => <<u, o>> \in Seated
      <4> SUFFICES ASSUME o = Seed PROVE <<u, o>> \in Seated
        OBVIOUS
      <4>1. "addMember" \in Left(q) /\ \A d \in Left(q) : d = "addMember" \/ Precedes("addMember", d)
        BY <1>1, AtCall
      <4>2. ~Precedes("addMember", "seats") /\ ~Precedes("addMember", "createOrg")
        BY DEF Precedes, Rank, Makers, Inserters
      <4>3. "seats" \notin Left(q) /\ "createOrg" \notin Left(q)
        BY <4>1, <4>2
      <4>4. Op(q) = "addMember"
        BY <3>1, <4>1, <4>3, AccountTablesAssumption DEF OwnInv
      <4>5. q \in Seaters
        BY <3>1, <4>1, <4>3, <4>4 DEF Seaters, Seating
      <4>6. u # Null
        BY <3>1, AccountTablesAssumption DEF AccountsInv, DbOK, UsersOK, Ids
      <4>7. SeatKey(q) = <<u, o>>
        BY <3>1, <4>6 DEF SeatKey
      <4> QED BY <4>5, <4>7 DEF Seated
    <3>5. <<u, o>>[2] = o
      OBVIOUS
    <3> QED BY <1>0, <3>2, <3>3, <3>4, <3>5
  <2> QED BY <2>1, <2>2, <2>3 DEF AddMember, Refuses
<1>2. ASSUME c = "upsertMember" PROVE \A k \in DOMAIN db'.members : k[2] = Seed => k \in Seated
  <2>1. UpsertMember(q)
    BY <1>2 DEF ActsAs, SharedAs, PeopleAs, SignInAs, TokenAs, BootAs,
                SharedCalls, PeopleCalls, SignInCalls, TokenCalls, BootCalls
  <2>2. CASE db' = db
    BY <1>0, <2>2
  <2>3. CASE db' # db
    <3>1. PICK u, r, ms : /\ u = Mem(q).user /\ ms = With(db.members, <<u, Seed>>, r)
                          /\ db' = [db EXCEPT !.members = ms]
      BY <2>1, <2>3 DEF UpsertMember, Writes, Refuses
    <3>2. db'.members = ms
      BY <1>0, <3>1 DEF Fields
    <3>3. DOMAIN ms \subseteq DOMAIN db.members \cup {<<u, Seed>>}
      BY <3>1 DEF With
    <3>4. /\ "upsertMember" \in Left(q) /\ CallsOfOp(Op(q), Left(q)) /\ HeldUser(Left(q), Mem(q))
          /\ \A d \in Left(q) : d = "upsertMember" \/ Precedes("upsertMember", d)
      BY <1>2, AtCall DEF Known
    <3>5. ~Precedes("upsertMember", "seats") /\ ~Precedes("upsertMember", "createUser")
      BY DEF Precedes, Rank, Makers, Inserters
    <3>6. "seats" \notin Left(q) /\ "createUser" \notin Left(q) /\ Op(q) = "callback"
      BY <3>4, <3>5 DEF CallsOfOp
    <3>7. q \in Seaters
      BY <3>4, <3>6 DEF Seaters, Seating
    <3>8. u # Null
      <4>1. Left(q) \subseteq {"consumeState", "loadProvider", "findUser", "createUser",
              "listRoleMappings", "getMember", "seats", "upsertMember", "upsertIdentity", "createSession"}
        BY <3>4, <3>6 DEF CallsOfOp, CallbackSteps
      <4>2. u \in DOMAIN db.users
        BY <3>1, <3>4, <3>6, <4>1 DEF HeldUser
      <4> QED BY <4>2, AccountTablesAssumption DEF AccountsInv, DbOK, UsersOK, Ids
    <3>9. SeatKey(q) = <<u, Seed>>
      BY <3>1, <3>8 DEF SeatKey
    <3> QED BY <1>0, <3>2, <3>3, <3>7, <3>9 DEF Seated
  <2> QED BY <2>2, <2>3
<1>3. ASSUME c = "updateMemberRole" PROVE DOMAIN db'.members = DOMAIN db.members
  <2>1. UpdateMemberRole(q)
    BY <1>3 DEF ActsAs, SharedAs, PeopleAs, SignInAs, TokenAs, BootAs,
                SharedCalls, PeopleCalls, SignInCalls, TokenCalls, BootCalls
  <2>2. CASE db' = db
    BY <2>2
  <2>3. CASE db' # db
    <3>1. PICK k, r, ms : ms = [db.members EXCEPT ![k] = r] /\ db' = [db EXCEPT !.members = ms]
      BY <2>1, <2>3 DEF UpdateMemberRole, Writes
    <3>2. db'.members = ms
      BY <1>0, <3>1 DEF Fields
    <3> QED BY <3>1, <3>2
  <2> QED BY <2>2, <2>3
<1>4. ASSUME c = "removeMember" PROVE DOMAIN db'.members \subseteq DOMAIN db.members
  <2>1. RemoveMember(q)
    BY <1>4 DEF ActsAs, SharedAs, PeopleAs, SignInAs, TokenAs, BootAs,
                SharedCalls, PeopleCalls, SignInCalls, TokenCalls, BootCalls
  <2>2. PICK K, ms : ms = Keep(db.members, K) /\ db' = [db EXCEPT !.members = ms]
    BY <2>1 DEF RemoveMember, Writes
  <2>3. db'.members = ms
    BY <1>0, <2>2 DEF Fields
  <2> QED BY <2>2, <2>3 DEF Keep
<1>5. ASSUME c = "deleteOrg" PROVE DOMAIN db'.members \subseteq DOMAIN db.members
  <2>1. DeleteOrg(q)
    BY <1>5 DEF ActsAs, SharedAs, PeopleAs, SignInAs, TokenAs, BootAs,
                SharedCalls, PeopleCalls, SignInCalls, TokenCalls, BootCalls
  <2>2. DeletedOrg(Mem(q).org)
    BY <1>0, <2>1, DeleteOrgDoes
  <2>3. PICK K : db'.members = Keep(db.members, K)
    BY <2>2 DEF DeletedOrg
  <2> QED BY <2>3 DEF Keep
<1>6. ASSUME c \notin {"addMember", "upsertMember", "updateMemberRole", "removeMember", "deleteOrg"}
      PROVE  db'.members = db.members
  BY <1>6, SparedToo
<1>7. \A k \in DOMAIN db'.members : k[2] = Seed => k \in Seated
  BY <1>0, <1>1, <1>2, <1>3, <1>4, <1>5, <1>6
<1> QED BY <1>7 DEF MembersOf

LEMMA SeatActs ==
    ASSUME AccountsInv, BusyInv, OwnInv, SeatInv, [Next]_vars, NEW q \in Requests, Acts(q)
    PROVE  SeatInv'
<1>1. PICK c : Foot(q, c)
  BY ActsFoot
<1>2. At(q, c) /\ Spares(c, db') /\ (c # "seats" => failedOpen' = failedOpen)
  BY <1>1 DEF Foot
<1>3. ActsAs(q, c)
  BY <1>2, ActsAt
<1>4. /\ c = "seats" => SeatLimitReached(q) \/ SeatLimitUnknown(q)
      /\ c = "getMember" => GetMember(q)
      /\ c = "createUser" => CreateUser(q)
  BY <1>3 DEF ActsAs, SharedAs, PeopleAs, SignInAs, TokenAs, BootAs,
              SharedCalls, PeopleCalls, SignInCalls, TokenCalls, BootCalls
<1>5. CASE c = "seats"
  BY <1>1, <1>4, <1>5, SeatAsked
<1>6. CASE c # "seats"
  <2>1. \A p \in Requests : SeatedOn(p)
    BY <1>1, <1>4, <1>6, SeatedOnward, SeatedMember, SeatedUser
  <2>2. Seated' \subseteq Seated
    BY <1>2, <1>3, <2>1, SeatWritten, SeatedBefore
  <2> QED BY <1>2, <1>6, <2>2, SeatKept
<1> QED BY <1>5, <1>6

LEMMA SeatStep ==
    ASSUME AccountsInv, AccountsInv', BusyInv, OwnInv, SeatInv, [Next]_vars
    PROVE  SeatInv'
<1>1. CASE UNCHANGED <<db, failedOpen>> /\ \A p \in Requests : Still(p)
  <2>1. \A p \in Requests : SeatedOn(p)
    <3> SUFFICES ASSUME NEW p \in Requests, Seating(p)' PROVE Seating(p) /\ SeatKey(p)' = SeatKey(p)
      BY DEF SeatedOn
    <3>1. Left(p)' # {} /\ Knows(p)'
      BY DEF Seating, AccountsInv
    <3>2. CASE proc'[p] = proc[p]
      BY <3>2 DEF Seating, SeatKey, Op, Left, Mem
    <3>3. CASE Fresh(Op(p)', Left(p)')
      <4>1. Op(p)' = "callback" => "getMember" \in Left(p)' /\ "seats" \in Left(p)'
        BY <3>3 DEF Fresh
      <4>2. HeldState(Op(p), Left(p), Mem(p))'
        BY <3>1 DEF Knows, Known
      <4>3. Op(p)' = "callback" => ~Mem(p)'.isMember
        BY <4>1, <4>2 DEF HeldState
      <4> QED BY <3>3, <4>1, <4>3 DEF Fresh, Seating
    <3> QED BY <1>1, <3>1, <3>2, <3>3 DEF Still
  <2>2. MembersOf(Seed)' \subseteq Seated
    BY <1>1 DEF MembersOf, Seated
  <2> QED BY <1>1, <2>1, <2>2, SeatedBefore, SeatKept
<1> QED BY <1>1, StepOrStill, SeatActs

(***************************************************************************)
(* Import tokens.                                                          *)
(***************************************************************************)
IsImport(a) ==
    a \in DOMAIN db.accounts /\ db.accounts[a].org = Seed /\ db.accounts[a].name = "GitHub Import"

\* A request that has its account; one that has listed the tokens; one that may
\* still make an account.
Importing(q) ==
    /\ Op(q) = "importToken" /\ "createToken" \in Left(q)
    /\ Left(q) \cap {"findImportAccount", "createImportAccount"} = {}
Replacing(q) == Op(q) = "importToken" /\ "createToken" \in Left(q) /\ "listTokens" \notin Left(q)
Unmade(q) == Op(q) = "none" \/ Left(q) \cap (Inserters \cup {"findImportAccount"}) # {}

ImportCalls(L, m) ==
    /\ L \cap {"getInstallation", "findImportAccount", "createImportAccount"} # {} => "listTokens" \in L
    /\ "listTokens" \in L => "revokeTokens" \in L
    /\ "listTokens" \in L \/ "revokeTokens" \in L \/ m.listed = {}

\* The organisation has one account for imports, and their tokens are its.
OneImport == \A a, b \in DOMAIN db.accounts : IsImport(a) /\ IsImport(b) => a = b
TokensOfImport ==
    \A t \in DOMAIN db.tokens : db.tokens[t].name = "repository" => IsImport(db.tokens[t].account)
ImportsKnow ==
    \A q \in Requests : Op(q) = "importToken" /\ Left(q) # {} => ImportCalls(Left(q), Mem(q))
ImportsHold ==
    \A q \in Requests : Importing(q) /\ (Mem(q).ref \in DOMAIN db.accounts \/ Seed \in DOMAIN db.orgs) =>
        IsImport(Mem(q).ref)
UnmadeFree ==
    \A q \in Requests : Unmade(q) =>
        q \notin DOMAIN db.accounts /\ \A p \in Requests : Importing(p) => Mem(p).ref # q
ImportInv == OneImport /\ TokensOfImport /\ ImportsKnow /\ ImportsHold /\ UnmadeFree

\* The good tokens, and the requests that will not revoke one of them.
Good == {t \in DOMAIN db.tokens : ~db.tokens[t].revoked /\ db.tokens[t].name = "repository"}
Sparing(t) == {q \in Requests : Replacing(q) /\ t \notin Mem(q).listed}

\* Of any good tokens one is the first to have been made: the others, and the
\* tokens that will be made without it being revoked, are of requests that were
\* under way at once.
GoodBounded ==
    InFlight # 0 =>
        \A S \in SUBSET Good : S # {} => \E t \in S : Cardinality(S \cup Sparing(t)) <= InFlight
GoodAlone ==
    clean => IF \E q \in Requests : Replacing(q)
             THEN \A q \in Requests : Replacing(q) => Good \subseteq Mem(q).listed
             ELSE Cardinality(Good) <= 1
TokenInv == IsFiniteSet(Good) /\ GoodBounded /\ GoodAlone

\* One token of those that were listed is revoked, or there is none left.
LEMMA RevokeDoes ==
    ASSUME AccountsInv, NEW q \in Requests, RevokeListed(q)
    PROVE  \/ db' = db /\ Mem(q).listed = {} /\ Moved(q, "revokeTokens", Mem(q))
           \/ \E t \in Mem(q).listed :
                /\ db' = [db EXCEPT !.tokens = Revoked(db.tokens, {t})]
                /\ Left(q)' = Left(q) /\ Op(q)' = Op(q) /\ Others(q)
                /\ Mem(q)' = [Mem(q) EXCEPT !.listed = Mem(q).listed \ {t}]
<1>1. At(q, "revokeTokens")
  BY DEF RevokeListed
<1>2. "revokeTokens" \in Left(q) /\ Listed(proc[q].todo) /\ Mem(q) \in AccountMemory /\ ProcType
  BY <1>1, AtCall DEF AccountsInv
<1>3. CASE Mem(q).listed = {}
  <2>1. db' = db /\ Keeps(q, Mem(q))
    BY <1>3 DEF RevokeListed, Reads
  <2> QED BY <1>1, <1>2, <1>3, <2>1, KeepsMoves
<1>4. CASE Mem(q).listed # {}
  <2>1. PICK t \in Mem(q).listed :
            /\ db' = [db EXCEPT !.tokens = Revoked(db.tokens, {t})]
            /\ Goes(q, proc[q].todo, [Mem(q) EXCEPT !.listed = Mem(q).listed \ {t}])
    BY <1>4 DEF RevokeListed
  <2>2. PICK s, m : s = proc[q].todo /\ m = [Mem(q) EXCEPT !.listed = Mem(q).listed \ {t}]
    OBVIOUS
  <2>3. Left(q) = CallsOf(s) /\ CallsOf(s) # {}
    BY <1>2, <2>2 DEF Left
  <2>4. /\ Others(q) /\ Op(q)' = Op(q) /\ Left(q)' = CallsOf(s)
        /\ Left(q)' # {} => Mem(q)' = m
    BY <2>1, <2>2, GoesElsewhere
  <2> QED BY <2>1, <2>2, <2>3, <2>4
<1> QED BY <1>3, <1>4

\* What the call at hand is of an operation that gets an import token.
LEMMA ImportAt ==
    ASSUME AccountsInv, NEW q \in Requests, NEW c, At(q, c), Op(q) = "importToken"
    PROVE  /\ c \in {"getInstallation", "findImportAccount", "listTokens", "revokeTokens", "createToken",
                     "createImportAccount"}
           /\ Left(q) \subseteq {"getInstallation", "findImportAccount", "listTokens", "revokeTokens",
                                 "createToken", "createImportAccount"}
<1>1. c \in Left(q) /\ CallsOfOp(Op(q), Left(q))
  BY AtCall DEF Known
<1> QED BY <1>1 DEF CallsOfOp, CreateImportTokenSteps

LEMMA ImportOrder ==
    /\ \A c \in {"findImportAccount", "listTokens", "revokeTokens", "createToken", "createImportAccount"} :
         ~Precedes(c, "getInstallation") /\ ~Precedes(c, "findImportAccount") /\ ~Precedes(c, c)
    /\ \A c \in {"listTokens", "revokeTokens", "createToken"} : ~Precedes(c, "createImportAccount")
    /\ ~Precedes("revokeTokens", "listTokens")
    /\ ~Precedes("createToken", "listTokens") /\ ~Precedes("createToken", "revokeTokens")
    /\ \A c \in Inserters, d \in Inserters \cup {"findImportAccount"} : ~Precedes(c, d)
BY DEF Precedes, Rank, Inserters, Makers

\* A request that has its account had it before.
LEMMA ImportingOn ==
    ASSUME AccountsInv, NEW q \in Requests, NEW c, Foot(q, c),
           c \notin {"findImportAccount", "createImportAccount"}, NEW p \in Requests, Importing(p)'
    PROVE  Importing(p) /\ Mem(p)'.ref = Mem(p).ref
<1>1. CASE p # q
  <2>1. proc'[p] = proc[p]
    BY <1>1, FootBusy DEF Others
  <2> QED BY <2>1 DEF Importing, Op, Left, Mem
<1>2. CASE p = q
  <2>1. Left(q)' # {} /\ Op(q)' = "importToken"
    BY <1>2 DEF Importing
  <2>2. /\ At(q, c) /\ Op(q)' = Op(q) /\ Recalls(c, Mem(q), Mem(q)')
        /\ Left(q)' \subseteq Left(q) \cup {"createImportAccount", "applyMigration"}
        /\ Left(q) \subseteq Left(q)' \cup {c}
    BY <2>1, GoesOn
  <2>3. c # "getToken"
    BY <2>1, <2>2, ImportAt
  <2>4. Importing(q)
    BY <1>2, <2>2 DEF Importing
  <2>5. Mem(q)'.ref = Mem(q).ref
    BY <2>2, <2>3 DEF Recalls
  <2> QED BY <1>2, <2>4, <2>5
<1> QED BY <1>1, <1>2

LEMMA UnmadeOn ==
    ASSUME AccountsInv, AccountsInv', NEW q \in Requests, NEW c, Foot(q, c), ActsAs(q, c),
           NEW p \in Requests, Unmade(p)'
    PROVE  Unmade(p)
<1>1. CASE p # q
  <2>1. proc'[p] = proc[p]
    BY <1>1, FootBusy DEF Others
  <2> QED BY <2>1 DEF Unmade, Op, Left
<1>2. CASE p = q
  <2>1. At(q, c) /\ Op(q)' = Op(q)
    BY DEF Foot, Advances, Ended, Moved
  <2>2. Op(q) # "none" /\ c \in Left(q)
    BY <2>1, AtCall
  <2>3. Left(q)' \cap (Inserters \cup {"findImportAccount"}) # {}
    BY <1>2, <2>1, <2>2 DEF Unmade
  <2>4. CASE c = "findImportAccount"
    BY <1>2, <2>2, <2>4 DEF Unmade
  <2>5. CASE c = "isApplied"
    <3>1. Op(q) = "boot"
      BY <2>1, <2>2, <2>5, AtCall DEF Known, CallsOfOp
    <3>2. CallsOfOp(Op(q), Left(q))'
      BY <2>3 DEF AccountsInv, Knows, Known
    <3> QED BY <2>1, <2>3, <3>1, <3>2 DEF CallsOfOp, BootSteps, Inserters
  <2>6. CASE c = "revokeTokens"
    <3>1. RevokeListed(q)
      BY <2>6 DEF ActsAs, SharedAs, PeopleAs, SignInAs, TokenAs, BootAs,
                  SharedCalls, PeopleCalls, SignInCalls, TokenCalls, BootCalls
    <3>2. Left(q)' \subseteq Left(q)
      BY <3>1, RevokeDoes DEF Moved
    <3> QED BY <1>2, <2>3, <3>2 DEF Unmade
  <2>7. CASE c \notin Loops
    <3>1. Left(q)' \subseteq Left(q)
      BY <2>3, <2>7, GoesOn
    <3> QED BY <1>2, <2>3, <3>1 DEF Unmade
  <2> QED BY <2>4, <2>5, <2>6, <2>7 DEF Loops
<1> QED BY <1>1, <1>2

LEMMA ImportsKnowActs ==
    ASSUME AccountsInv, ImportsKnow, NEW q \in Requests, NEW c, Foot(q, c), ActsAs(q, c)
    PROVE  ImportsKnow'
<1> SUFFICES ASSUME NEW p \in Requests, Op(p)' = "importToken", Left(p)' # {}
             PROVE  ImportCalls(Left(p), Mem(p))'
  BY DEF ImportsKnow
<1>1. CASE p # q
  <2>1. proc'[p] = proc[p]
    BY <1>1, FootBusy DEF Others
  <2> QED BY <2>1 DEF ImportsKnow, ImportCalls, Op, Left, Mem
<1>2. CASE p = q
  <2>1. /\ At(q, c) /\ Op(q)' = Op(q) /\ Recalls(c, Mem(q), Mem(q)')
        /\ Left(q)' \subseteq Left(q) \cup {"createImportAccount", "applyMigration"}
        /\ Left(q) \subseteq Left(q)' \cup {c}
        /\ c \notin Loops => Left(q)' \subseteq Left(q)
    BY <1>2, GoesOn
  <2>2. /\ c \in {"getInstallation", "findImportAccount", "listTokens", "revokeTokens", "createToken",
                  "createImportAccount"}
        /\ c \in Left(q) /\ \A d \in Left(q) : d = c \/ Precedes(c, d)
    BY <1>2, <2>1, ImportAt, AtCall
  <2>3. ImportCalls(Left(q), Mem(q))
    BY <1>2, <2>1, <2>2 DEF ImportsKnow
  <2>4. CASE c = "revokeTokens"
    <3>1. RevokeListed(q)
      BY <2>4 DEF ActsAs, SharedAs, PeopleAs, SignInAs, TokenAs, BootAs,
                  SharedCalls, PeopleCalls, SignInCalls, TokenCalls, BootCalls
    <3>2. "listTokens" \notin Left(q)
      BY <2>2, <2>4, ImportOrder
    <3>3. Left(q)' \subseteq Left(q) /\ ("revokeTokens" \in Left(q)' \/ Mem(q)'.listed = {})
      <4>1. CASE /\ Mem(q).listed = {} /\ Moved(q, "revokeTokens", Mem(q))
        BY <1>2, <4>1 DEF Moved
      <4>2. CASE Left(q)' = Left(q)
        BY <2>2, <2>4, <4>2
      <4> QED BY <3>1, <4>1, <4>2, RevokeDoes
    <3> QED BY <1>2, <2>3, <3>2, <3>3 DEF ImportCalls
  <2>5. CASE c = "listTokens"
    <3>1. /\ "getInstallation" \notin Left(q) /\ "findImportAccount" \notin Left(q)
          /\ "createImportAccount" \notin Left(q) /\ "revokeTokens" \in Left(q)
      BY <2>2, <2>3, <2>5, ImportOrder DEF ImportCalls
    <3>2. Left(q)' \subseteq Left(q) /\ "revokeTokens" \in Left(q)'
      BY <2>1, <2>5, <3>1 DEF Loops
    <3> QED BY <1>2, <3>1, <3>2 DEF ImportCalls
  <2>6. CASE c \in {"getInstallation", "findImportAccount", "createImportAccount"}
    <3>1. "listTokens" \in Left(q)' /\ "revokeTokens" \in Left(q)'
      BY <2>1, <2>2, <2>3, <2>6 DEF ImportCalls
    <3> QED BY <1>2, <3>1 DEF ImportCalls
  <2>7. CASE c = "createToken"
    <3>1. Left(q) \cap {"getInstallation", "findImportAccount", "createImportAccount", "listTokens",
                        "revokeTokens"} = {}
      BY <2>2, <2>7, ImportOrder
    <3>2. Mem(q)'.listed = Mem(q).listed /\ Left(q)' \subseteq Left(q)
      BY <2>1, <2>7 DEF Recalls, Loops
    <3> QED BY <1>2, <2>3, <3>1, <3>2 DEF ImportCalls
  <2> QED BY <2>2, <2>4, <2>5, <2>6, <2>7
<1> QED BY <1>1, <1>2

\* Accounts keep their organisation and name and whether they are internal;
\* tokens their account and name, and what is revoked stays so.
AccountsStay ==
    /\ DOMAIN db'.accounts = DOMAIN db.accounts
    /\ \A a \in DOMAIN db.accounts :
         /\ db'.accounts[a].org = db.accounts[a].org /\ db'.accounts[a].name = db.accounts[a].name
         /\ db'.accounts[a].internal = db.accounts[a].internal
TokensStay ==
    /\ DOMAIN db'.tokens \subseteq DOMAIN db.tokens
    /\ \A t \in DOMAIN db'.tokens :
         /\ db'.tokens[t].account = db.tokens[t].account /\ db'.tokens[t].name = db.tokens[t].name
         /\ db.tokens[t].revoked => db'.tokens[t].revoked

LEMMA AccountsOn ==
    ASSUME AccountsInv, NEW q \in Requests, NEW c, ActsAs(q, c), Spares(c, db'),
           c \notin Inserters \cup {"deleteOrg"}
    PROVE  AccountsStay
<1>1. DOMAIN db = Fields /\ AccountsOK(db.accounts, db.orgs)
  BY DEF AccountsInv, DbOK
<1>2. ASSUME NEW a, NEW row, a \in DOMAIN db.accounts, row.org = db.accounts[a].org,
             row.name = db.accounts[a].name, row.internal = db.accounts[a].internal,
             db' = [db EXCEPT !.accounts = [db.accounts EXCEPT ![a] = row]]
      PROVE  AccountsStay
  <2>1. PICK as : as = [db.accounts EXCEPT ![a] = row]
    OBVIOUS
  <2>2. db'.accounts = as
    BY <1>1, <1>2, <2>1 DEF Fields
  <2> QED BY <1>2, <2>1, <2>2 DEF AccountsStay
<1>3. CASE c = "updateAccount"
  <2>1. UpdateServiceAccount(q)
    BY <1>3 DEF ActsAs, SharedAs, PeopleAs, SignInAs, TokenAs, BootAs,
                SharedCalls, PeopleCalls, SignInCalls, TokenCalls, BootCalls
  <2>2. CASE db' = db
    BY <2>2 DEF AccountsStay
  <2>3. CASE db' # db
    <3>1. PICK a, d, row : /\ a \in DOMAIN db.accounts /\ row = [db.accounts[a] EXCEPT !.disabled = d]
                           /\ db' = [db EXCEPT !.accounts = [db.accounts EXCEPT ![a] = row]]
      BY <2>1, <2>3 DEF UpdateServiceAccount, Writes, LiveAccount
    <3>2. /\ row.org = db.accounts[a].org /\ row.name = db.accounts[a].name
          /\ row.internal = db.accounts[a].internal
      BY <1>1, <3>1 DEF AccountsOK, AccountRow
    <3> QED BY <1>2, <3>1, <3>2
  <2> QED BY <2>2, <2>3
<1>4. CASE c = "deleteAccount"
  <2>1. DeleteServiceAccount(q)
    BY <1>4 DEF ActsAs, SharedAs, PeopleAs, SignInAs, TokenAs, BootAs,
                SharedCalls, PeopleCalls, SignInCalls, TokenCalls, BootCalls
  <2>2. CASE db' = db
    BY <2>2 DEF AccountsStay
  <2>3. CASE db' # db
    <3>1. PICK a, row : /\ a \in DOMAIN db.accounts /\ row = [db.accounts[a] EXCEPT !.deleted = TRUE]
                        /\ db' = [db EXCEPT !.accounts = [db.accounts EXCEPT ![a] = row]]
      BY <2>1, <2>3 DEF DeleteServiceAccount, Writes
    <3>2. /\ row.org = db.accounts[a].org /\ row.name = db.accounts[a].name
          /\ row.internal = db.accounts[a].internal
      BY <1>1, <3>1 DEF AccountsOK, AccountRow
    <3> QED BY <1>2, <3>1, <3>2
  <2> QED BY <2>2, <2>3
<1>5. CASE c \notin {"updateAccount", "deleteAccount"}
  BY <1>5, SparedToo DEF AccountsStay
<1> QED BY <1>3, <1>4, <1>5

LEMMA RevokedStays ==
    ASSUME AccountsInv, NEW S, db' = [db EXCEPT !.tokens = Revoked(db.tokens, S)]
    PROVE  /\ TokensStay /\ DOMAIN db'.tokens = DOMAIN db.tokens
           /\ \A t \in S \cap DOMAIN db'.tokens : db'.tokens[t].revoked
<1>1. DOMAIN db = Fields /\ TokensOK(db.tokens, db.accounts)
  BY DEF AccountsInv, DbOK
<1>2. PICK ts : ts = Revoked(db.tokens, S)
  OBVIOUS
<1>3. db'.tokens = ts
  BY <1>1, <1>2 DEF Fields
<1>4. /\ DOMAIN ts = DOMAIN db.tokens
      /\ \A t \in DOMAIN ts : ts[t] = IF t \in S THEN [db.tokens[t] EXCEPT !.revoked = TRUE] ELSE db.tokens[t]
  BY <1>2 DEF Revoked
<1>5. ASSUME NEW t \in DOMAIN ts
      PROVE  /\ ts[t].account = db.tokens[t].account /\ ts[t].name = db.tokens[t].name
             /\ db.tokens[t].revoked => ts[t].revoked
             /\ t \in S => ts[t].revoked
  <2>1. PICK row : row = db.tokens[t]
    OBVIOUS
  <2>2. row \in TokenRow
    BY <1>1, <1>4, <1>5, <2>1 DEF TokensOK
  <2>3. ts[t] = IF t \in S THEN [row EXCEPT !.revoked = TRUE] ELSE row
    BY <1>4, <1>5, <2>1
  <2> QED BY <2>1, <2>2, <2>3 DEF TokenRow
<1> QED BY <1>3, <1>4, <1>5 DEF TokensStay

LEMMA TokensOn ==
    ASSUME AccountsInv, NEW q \in Requests, NEW c, ActsAs(q, c), Spares(c, db'), c # "createToken"
    PROVE  TokensStay
<1>1. DOMAIN db = Fields
  BY DEF AccountsInv, DbOK
<1>2. CASE c = "revokeToken"
  <2>1. RevokeToken(q)
    BY <1>2 DEF ActsAs, SharedAs, PeopleAs, SignInAs, TokenAs, BootAs,
                SharedCalls, PeopleCalls, SignInCalls, TokenCalls, BootCalls
  <2>2. PICK S : db' = [db EXCEPT !.tokens = Revoked(db.tokens, S)]
    BY <2>1 DEF RevokeToken, Writes
  <2> QED BY <2>2, RevokedStays
<1>3. CASE c = "revokeTokens"
  <2>1. RevokeListed(q)
    BY <1>3 DEF ActsAs, SharedAs, PeopleAs, SignInAs, TokenAs, BootAs,
                SharedCalls, PeopleCalls, SignInCalls, TokenCalls, BootCalls
  <2>2. db' = db \/ \E S : db' = [db EXCEPT !.tokens = Revoked(db.tokens, S)]
    BY <2>1 DEF RevokeListed, Reads
  <2>3. CASE db' = db
    BY <2>3 DEF TokensStay
  <2> QED BY <2>2, <2>3, RevokedStays
<1>4. CASE c = "deleteOrg"
  <2>1. DeleteOrg(q)
    BY <1>4 DEF ActsAs, SharedAs, PeopleAs, SignInAs, TokenAs, BootAs,
                SharedCalls, PeopleCalls, SignInCalls, TokenCalls, BootCalls
  <2>2. DeletedOrg(Mem(q).org)
    BY <1>1, <2>1, DeleteOrgDoes
  <2>3. PICK K : db'.tokens = Keep(db.tokens, K)
    BY <2>2 DEF DeletedOrg
  <2> QED BY <2>3 DEF Keep, TokensStay
<1>5. CASE c \notin {"revokeToken", "revokeTokens", "deleteOrg"}
  BY <1>5, SparedToo DEF TokensStay
<1> QED BY <1>2, <1>3, <1>4, <1>5

LEMMA OrgsOn ==
    ASSUME AccountsInv, NEW q \in Requests, NEW c, ActsAs(q, c), Spares(c, db'), Seed \in DOMAIN db'.orgs
    PROVE  Seed \in DOMAIN db.orgs
<1>1. DOMAIN db = Fields /\ Seed # q
  BY AccountTablesAssumption DEF AccountsInv, DbOK
<1>2. ASSUME NEW os, db' = [db EXCEPT !.orgs = os], DOMAIN os \subseteq DOMAIN db.orgs \cup {q}
      PROVE  Seed \in DOMAIN db.orgs
  <2>1. db'.orgs = os
    BY <1>1, <1>2 DEF Fields
  <2> QED BY <1>1, <1>2, <2>1
<1>3. CASE c = "createOrg"
  <2>1. CreateOrg(q)
    BY <1>3 DEF ActsAs, SharedAs, PeopleAs, SignInAs, TokenAs, BootAs,
                SharedCalls, PeopleCalls, SignInCalls, TokenCalls, BootCalls
  <2>2. PICK row, os : os = With(db.orgs, q, row) /\ db' = [db EXCEPT !.orgs = os]
    BY <2>1 DEF CreateOrg, Writes
  <2> QED BY <1>2, <2>2 DEF With
<1>4. CASE c \in {"updateOrg", "setOnboardingDone"}
  <2>1. UpdateOrg(q) \/ SetOnboardingDone(q)
    BY <1>4 DEF ActsAs, SharedAs, PeopleAs, SignInAs, TokenAs, BootAs,
                SharedCalls, PeopleCalls, SignInCalls, TokenCalls, BootCalls
  <2>2. db' = db \/ \E o, row : db' = [db EXCEPT !.orgs = [db.orgs EXCEPT ![o] = row]]
    BY <2>1 DEF UpdateOrg, SetOnboardingDone, Writes
  <2>3. ASSUME NEW o, NEW row, db' = [db EXCEPT !.orgs = [db.orgs EXCEPT ![o] = row]]
        PROVE  Seed \in DOMAIN db.orgs
    <3>1. PICK os : os = [db.orgs EXCEPT ![o] = row]
      OBVIOUS
    <3> QED BY <1>2, <2>3, <3>1
  <2> QED BY <2>2, <2>3
<1>5. CASE c = "deleteOrg"
  <2>1. DeleteOrg(q)
    BY <1>5 DEF ActsAs, SharedAs, PeopleAs, SignInAs, TokenAs, BootAs,
                SharedCalls, PeopleCalls, SignInCalls, TokenCalls, BootCalls
  <2>2. DeletedOrg(Mem(q).org)
    BY <1>1, <2>1, DeleteOrgDoes
  <2>3. PICK K : db'.orgs = Keep(db.orgs, K)
    BY <2>2 DEF DeletedOrg
  <2> QED BY <2>3 DEF Keep
<1>6. CASE c \notin {"createOrg", "updateOrg", "setOnboardingDone", "deleteOrg"}
  BY <1>6, SparedToo
<1> QED BY <1>3, <1>4, <1>5, <1>6

LEMMA ImportKept ==
    ASSUME ImportInv, AccountsStay, TokensOfImport', ImportsKnow',
           Seed \in DOMAIN db'.orgs => Seed \in DOMAIN db.orgs,
           \A p \in Requests : Importing(p)' =>
               (Importing(p) /\ Mem(p)'.ref = Mem(p).ref) \/ IsImport(Mem(p)'.ref),
           \A p \in Requests : Unmade(p)' => Unmade(p)
    PROVE  ImportInv'
<1>1. \A a : IsImport(a)' <=> IsImport(a)
  BY DEF IsImport, AccountsStay
<1>2. DOMAIN db'.accounts = DOMAIN db.accounts
  BY DEF AccountsStay
<1>3. OneImport'
  BY <1>1, <1>2 DEF ImportInv, OneImport
<1>4. ImportsHold'
  <2> SUFFICES ASSUME NEW p \in Requests, Importing(p)',
                      Mem(p)'.ref \in DOMAIN db'.accounts \/ Seed \in DOMAIN db'.orgs
               PROVE  IsImport(Mem(p)'.ref)
    <3>1. \A p \in Requests : IsImport(Mem(p)'.ref) => IsImport(Mem(p).ref)'
      BY <1>1 DEF IsImport, AccountsStay
    <3> QED BY <3>1 DEF ImportsHold
  <2> QED BY <1>2 DEF ImportInv, ImportsHold
<1>5. UnmadeFree'
  <2> SUFFICES ASSUME NEW r \in Requests, Unmade(r)'
               PROVE  r \notin DOMAIN db'.accounts /\ \A p \in Requests : Importing(p)' => Mem(p)'.ref # r
    BY DEF UnmadeFree
  <2>1. r \notin DOMAIN db.accounts /\ \A p \in Requests : Importing(p) => Mem(p).ref # r
    BY DEF ImportInv, UnmadeFree
  <2> QED BY <1>2, <2>1 DEF IsImport
<1> QED BY <1>3, <1>4, <1>5 DEF ImportInv

\* q has made its account.
LEMMA ImportInserted ==
    ASSUME AccountsInv, ImportInv, NEW q \in Requests, NEW o, NEW name, ~NameTaken(q, o, name),
           NEW row, row.org = o, row.name = name, db'.accounts = With(db.accounts, q, row),
           db'.tokens = db.tokens, db'.orgs = db.orgs, ImportsKnow', Unmade(q), ~Unmade(q)',
           \A p \in Requests : Importing(p)' =>
               \/ Importing(p) /\ Mem(p)'.ref = Mem(p).ref
               \/ p = q /\ Mem(p)'.ref = q /\ o = Seed /\ name = "GitHub Import",
           \A p \in Requests : Unmade(p)' => Unmade(p)
    PROVE  ImportInv'
<1>1. PICK as : as = db'.accounts
  OBVIOUS
<1>2. /\ DOMAIN as = DOMAIN db.accounts \cup {q} /\ as[q] = row
      /\ \A a \in DOMAIN db.accounts : a # q => as[a] = db.accounts[a]
  BY <1>1 DEF With
<1>3. q \notin DOMAIN db.accounts /\ \A p \in Requests : Importing(p) => Mem(p).ref # q
  BY DEF ImportInv, UnmadeFree
<1>4. /\ \A a : a # q => (IsImport(a)' <=> IsImport(a))
      /\ IsImport(q)' <=> (o = Seed /\ name = "GitHub Import")
  <2>1. IsImport(q)' <=> (o = Seed /\ name = "GitHub Import")
    BY <1>1, <1>2 DEF IsImport
  <2>2. ASSUME NEW a, a # q PROVE IsImport(a)' <=> IsImport(a)
    <3>1. (a \in DOMAIN as <=> a \in DOMAIN db.accounts) /\ (a \in DOMAIN as => as[a] = db.accounts[a])
      BY <1>2, <2>2
    <3> QED BY <1>1, <3>1 DEF IsImport
  <2> QED BY <2>1, <2>2
<1>5. IsImport(q)' => \A a : ~IsImport(a)
  BY <1>3, <1>4 DEF NameTaken, IsImport
<1>6. OneImport'
  <2> SUFFICES ASSUME NEW a \in DOMAIN db'.accounts, NEW b \in DOMAIN db'.accounts, IsImport(a)', IsImport(b)'
               PROVE  a = b
    BY DEF OneImport
  <2>1. \A x, y \in DOMAIN db.accounts : IsImport(x) /\ IsImport(y) => x = y
    BY DEF ImportInv, OneImport
  <2> QED BY <1>1, <1>2, <1>4, <1>5, <2>1
<1>7. TokensOfImport'
  <2> SUFFICES ASSUME NEW t \in DOMAIN db.tokens, db.tokens[t].name = "repository"
               PROVE  IsImport(db.tokens[t].account)'
    BY DEF TokensOfImport
  <2>1. PICK a : a = db.tokens[t].account
    OBVIOUS
  <2>2. IsImport(a)
    BY <2>1 DEF ImportInv, TokensOfImport
  <2>3. a # q
    BY <1>3, <2>2 DEF IsImport
  <2>4. a \in DOMAIN as /\ as[a] = db.accounts[a]
    BY <1>2, <2>2, <2>3 DEF IsImport
  <2> QED BY <1>1, <2>1, <2>2, <2>4 DEF IsImport
<1>8. ImportsHold'
  <2> SUFFICES ASSUME NEW p \in Requests, Importing(p)',
                      Mem(p)'.ref \in DOMAIN db'.accounts \/ Seed \in DOMAIN db'.orgs
               PROVE  IsImport(Mem(p).ref)'
    BY DEF ImportsHold
  <2>1. PICK a : a = Mem(p)'.ref
    OBVIOUS
  <2>2. CASE Importing(p) /\ a = Mem(p).ref
    <3>1. a # q
      BY <1>3, <2>2
    <3>2. IsImport(a)
      BY <1>1, <1>2, <2>1, <2>2, <3>1 DEF ImportInv, ImportsHold
    <3>3. a \in DOMAIN as /\ as[a] = db.accounts[a]
      BY <1>2, <3>1, <3>2 DEF IsImport
    <3> QED BY <1>1, <2>1, <3>2, <3>3 DEF IsImport
  <2>3. CASE a = q /\ o = Seed /\ name = "GitHub Import"
    BY <1>1, <1>2, <2>1, <2>3 DEF IsImport
  <2> QED BY <2>1, <2>2, <2>3
<1>9. UnmadeFree'
  <2> SUFFICES ASSUME NEW r \in Requests, Unmade(r)'
               PROVE  r \notin DOMAIN db'.accounts /\ \A p \in Requests : Importing(p)' => Mem(p)'.ref # r
    BY DEF UnmadeFree
  <2>1. r \notin DOMAIN db.accounts /\ \A p \in Requests : Importing(p) => Mem(p).ref # r
    BY DEF ImportInv, UnmadeFree
  <2>2. r # q
    OBVIOUS
  <2>3. r \notin DOMAIN db'.accounts
    <3>1. r \notin DOMAIN as
      BY <1>2, <2>1, <2>2
    <3> QED BY <1>1, <3>1
  <2>4. ASSUME NEW p \in Requests, Importing(p)' PROVE Mem(p)'.ref # r
    BY <2>1, <2>2, <2>4
  <2> QED BY <2>3, <2>4
<1> QED BY <1>6, <1>7, <1>8, <1>9 DEF ImportInv

\* The organisation's account goes with it, and so do its tokens.
LEMMA ImportDeleted ==
    ASSUME AccountsInv, ImportInv, NEW o, DeletedOrg(o), ImportsKnow',
           \A p \in Requests : Importing(p)' => Importing(p) /\ Mem(p)'.ref = Mem(p).ref,
           \A p \in Requests : Unmade(p)' => Unmade(p)
    PROVE  ImportInv'
<1>1. PICK as, ts, os, K : /\ as = db'.accounts /\ ts = db'.tokens /\ os = db'.orgs
                           /\ K = {a \in DOMAIN db.accounts : db.accounts[a].org # o}
  OBVIOUS
<1>2. /\ as = Keep(db.accounts, K) /\ os = Keep(db.orgs, Ids \ {o})
      /\ ts = Keep(db.tokens, {t \in DOMAIN db.tokens : db.tokens[t].account \in K})
  BY <1>1 DEF DeletedOrg
<1>3. /\ DOMAIN as = K /\ \A a \in K : as[a] = db.accounts[a]
      /\ DOMAIN os = DOMAIN db.orgs \cap (Ids \ {o})
      /\ \A t \in DOMAIN ts : t \in DOMAIN db.tokens /\ ts[t] = db.tokens[t] /\ ts[t].account \in K
  BY <1>1, <1>2 DEF Keep
<1>4. \A a \in K : IsImport(a)' <=> IsImport(a)
  BY <1>1, <1>3 DEF IsImport
<1>5. OneImport'
  BY <1>1, <1>3, <1>4 DEF ImportInv, OneImport
<1>6. TokensOfImport'
  <2> SUFFICES ASSUME NEW t \in DOMAIN ts, ts[t].name = "repository"
               PROVE  IsImport(ts[t].account)'
    BY <1>1 DEF TokensOfImport
  <2>1. PICK a : a = ts[t].account
    OBVIOUS
  <2>2. IsImport(a) /\ a \in K
    BY <1>3, <2>1 DEF ImportInv, TokensOfImport
  <2> QED BY <1>1, <1>3, <2>1, <2>2 DEF IsImport
<1>7. ImportsHold'
  <2> SUFFICES ASSUME NEW p \in Requests, Importing(p)',
                      Mem(p)'.ref \in DOMAIN db'.accounts \/ Seed \in DOMAIN db'.orgs
               PROVE  IsImport(Mem(p).ref)'
    BY DEF ImportsHold
  <2>1. PICK a : a = Mem(p)'.ref /\ a = Mem(p).ref
    OBVIOUS
  <2>2. IsImport(a)
    BY <1>1, <1>3, <2>1 DEF ImportInv, ImportsHold
  <2>3. a \in K
    <3>1. CASE a \in DOMAIN as
      BY <1>3, <3>1
    <3>2. CASE Seed \in DOMAIN os
      <4>1. o # Seed
        BY <1>3, <3>2
      <4> QED BY <1>1, <2>2, <4>1 DEF IsImport
    <3> QED BY <1>1, <2>1, <3>1, <3>2
  <2> QED BY <1>1, <1>3, <2>1, <2>2, <2>3 DEF IsImport
<1>8. UnmadeFree'
  <2> SUFFICES ASSUME NEW r \in Requests, Unmade(r)'
               PROVE  r \notin DOMAIN db'.accounts /\ \A p \in Requests : Importing(p)' => Mem(p)'.ref # r
    BY DEF UnmadeFree
  <2>1. r \notin DOMAIN db.accounts /\ \A p \in Requests : Importing(p) => Mem(p).ref # r
    BY DEF ImportInv, UnmadeFree
  <2> QED BY <1>1, <1>3, <2>1
<1> QED BY <1>5, <1>6, <1>7, <1>8 DEF ImportInv

\* A service account is made, or the request ends.
LEMMA InsertDoes ==
    ASSUME AccountsInv, NEW q \in Requests, NEW c \in Inserters, At(q, c), ActsAs(q, c)
    PROVE  \/ db' = db /\ Ended(q)
           \/ \E o, name, row, n :
                /\ ~NameTaken(q, o, name) /\ row.org = o /\ row.name = name
                /\ db' = [db EXCEPT !.accounts = With(db.accounts, q, row)] /\ Moved(q, c, n)
                /\ c = "createImportAccount" => n.ref = q /\ o = Seed /\ name = "GitHub Import"
<1>1. Mem(q) \in AccountMemory /\ Listed(proc[q].todo) /\ ProcType
  BY AtCall DEF AccountsInv
<1>2. \/ Refuses(q)
      \/ \E o, name, n : /\ ~NameTaken(q, o, name)
                         /\ Writes(q, [db EXCEPT !.accounts = InsertAccount(q, o, name)], n)
                         /\ n = IF c = "createImportAccount" THEN [Mem(q) EXCEPT !.ref = q] ELSE Mem(q)
                         /\ c = "createImportAccount" => o = Seed /\ name = "GitHub Import"
  <2>1. /\ c = "createAccount" => CreateServiceAccount(q)
        /\ c = "createSystemAccount" => CreateSystemAccount(q)
        /\ c = "createImportAccount" => CreateImportAccount(q)
    BY DEF ActsAs, SharedAs, PeopleAs, SignInAs, TokenAs, BootAs,
           SharedCalls, PeopleCalls, SignInCalls, TokenCalls, BootCalls
  <2>2. CASE c = "createAccount"
    BY <2>1, <2>2 DEF CreateServiceAccount
  <2>3. CASE c = "createSystemAccount"
    BY <2>1, <2>3 DEF CreateSystemAccount
  <2>4. CASE c = "createImportAccount"
    BY <2>1, <2>4 DEF CreateImportAccount
  <2> QED BY <2>2, <2>3, <2>4 DEF Inserters
<1>3. CASE Refuses(q)
  BY <1>1, <1>3, EndsMoves DEF Refuses
<1>4. CASE ~Refuses(q)
  <2>1. PICK o, name, n :
            /\ ~NameTaken(q, o, name) /\ Writes(q, [db EXCEPT !.accounts = InsertAccount(q, o, name)], n)
            /\ n = IF c = "createImportAccount" THEN [Mem(q) EXCEPT !.ref = q] ELSE Mem(q)
            /\ c = "createImportAccount" => o = Seed /\ name = "GitHub Import"
    BY <1>2, <1>4
  <2>2. n \in AccountMemory /\ (c = "createImportAccount" => n.ref = q)
    BY <1>1, <2>1 DEF AccountMemory, MaybeId, Ids
  <2>3. Moved(q, c, n)
    BY <1>1, <2>1, <2>2, KeepsMoves DEF Writes
  <2>4. PICK row : row = [org |-> o, name |-> name, internal |-> name = "System",
                          disabled |-> FALSE, deleted |-> FALSE]
    OBVIOUS
  <2>5. row.org = o /\ row.name = name
    BY <2>4
  <2>6. db' = [db EXCEPT !.accounts = With(db.accounts, q, row)]
    BY <2>1, <2>4 DEF Writes, InsertAccount
  <2>7. \E o1, name1, row1, n1 :
            /\ ~NameTaken(q, o1, name1) /\ row1.org = o1 /\ row1.name = name1
            /\ db' = [db EXCEPT !.accounts = With(db.accounts, q, row1)] /\ Moved(q, c, n1)
            /\ c = "createImportAccount" => n1.ref = q /\ o1 = Seed /\ name1 = "GitHub Import"
    <3> WITNESS o, name, row, n
    <3> QED BY <2>1, <2>2, <2>3, <2>5, <2>6
  <2> QED BY <2>7
<1> QED BY <1>3, <1>4

LEMMA ImportInserts ==
    ASSUME AccountsInv, AccountsInv', ImportInv, NEW q \in Requests, NEW c \in Inserters, Foot(q, c),
           ActsAs(q, c)
    PROVE  ImportInv'
<1>1. At(q, c) /\ Spares(c, db') /\ DOMAIN db = Fields
  BY DEF Foot, AccountsInv, DbOK
<1>2. ImportsKnow' /\ \A p \in Requests : Unmade(p)' => Unmade(p)
  BY ImportsKnowActs, UnmadeOn DEF ImportInv
<1>3. \A p \in Requests : p # q => (Importing(p)' => Importing(p) /\ Mem(p)'.ref = Mem(p).ref)
  BY FootBusy DEF Others, Importing, Op, Left, Mem
<1>4. CASE db' = db /\ Ended(q)
  <2>1. ~Importing(q)'
    BY <1>4 DEF Ended, Importing
  <2>2. AccountsStay /\ TokensOfImport'
    BY <1>4 DEF AccountsStay, ImportInv, TokensOfImport, IsImport
  <2> QED BY <1>2, <1>3, <1>4, <2>1, <2>2, ImportKept
<1>5. ASSUME NEW o, NEW name, NEW row, NEW n,
             ~NameTaken(q, o, name), row.org = o, row.name = name,
             db' = [db EXCEPT !.accounts = With(db.accounts, q, row)], Moved(q, c, n),
             c = "createImportAccount" => n.ref = q /\ o = Seed /\ name = "GitHub Import"
      PROVE  ImportInv'
  <2>1. db'.accounts = With(db.accounts, q, row) /\ db'.tokens = db.tokens /\ db'.orgs = db.orgs
    BY <1>1, <1>5 DEF Fields
  <2>2. c \in Left(q) /\ Op(q)' = Op(q) /\ Op(q) # "none"
    BY <1>1, <1>5, AtCall DEF Moved
  <2>3. Unmade(q) /\ ~Unmade(q)'
    <3>1. \A d \in Left(q)' : Precedes(c, d)
      BY <1>5 DEF Moved
    <3> QED BY <2>2, <3>1, ImportOrder DEF Unmade
  <2>4. Importing(q)' =>
            \/ Importing(q) /\ Mem(q)'.ref = Mem(q).ref
            \/ Mem(q)'.ref = q /\ o = Seed /\ name = "GitHub Import"
    <3>1. CASE c = "createImportAccount"
      BY <1>5, <3>1 DEF Moved, Importing
    <3>2. CASE c # "createImportAccount"
      BY <3>2, ImportingOn DEF Inserters
    <3> QED BY <3>1, <3>2
  <2>5. \A p \in Requests : Importing(p)' =>
            \/ Importing(p) /\ Mem(p)'.ref = Mem(p).ref
            \/ p = q /\ Mem(p)'.ref = q /\ o = Seed /\ name = "GitHub Import"
    <3> SUFFICES ASSUME NEW p \in Requests, Importing(p)'
                 PROVE  \/ Importing(p) /\ Mem(p)'.ref = Mem(p).ref
                        \/ p = q /\ Mem(p)'.ref = q /\ o = Seed /\ name = "GitHub Import"
      OBVIOUS
    <3>1. CASE p = q
      BY <2>4, <3>1
    <3>2. CASE p # q
      BY <1>3, <3>2
    <3> QED BY <3>1, <3>2
  <2> QED BY <1>2, <1>5, <2>1, <2>3, <2>5, ImportInserted
<1>6. CASE ~(db' = db /\ Ended(q))
  <2>1. PICK o, name, row, n :
            /\ ~NameTaken(q, o, name) /\ row.org = o /\ row.name = name
            /\ db' = [db EXCEPT !.accounts = With(db.accounts, q, row)] /\ Moved(q, c, n)
            /\ c = "createImportAccount" => n.ref = q /\ o = Seed /\ name = "GitHub Import"
    BY <1>1, <1>6, InsertDoes
  <2> QED BY <1>5, <2>1
<1> QED BY <1>4, <1>6

\* q has an account, which it found.
LEMMA FindHolds ==
    ASSUME AccountsInv, NEW q \in Requests, FindImportAccount(q), Importing(q)'
    PROVE  IsImport(Mem(q)'.ref)
<1>1. At(q, "findImportAccount") /\ Left(q)' # {} /\ "createImportAccount" \notin Left(q)'
  BY DEF FindImportAccount, Importing
<1>2. Mem(q) \in AccountMemory /\ Listed(proc[q].todo) /\ ProcType
  BY <1>1, AtCall DEF AccountsInv
<1>3. ASSUME NEW a \in ImportAccounts, Reads(q, [Mem(q) EXCEPT !.ref = a]) PROVE IsImport(Mem(q)'.ref)
  <2>1. a \in Ids
    BY <1>3 DEF ImportAccounts, AccountsInv, DbOK, AccountsOK
  <2>2. PICK n : n = [Mem(q) EXCEPT !.ref = a]
    OBVIOUS
  <2>3. n \in AccountMemory /\ n.ref = a
    BY <1>2, <2>1, <2>2 DEF AccountMemory, MaybeId
  <2>4. Moved(q, "findImportAccount", n)
    BY <1>1, <1>2, <1>3, <2>2, <2>3, KeepsMoves DEF Reads
  <2>5. Mem(q)' = n
    BY <1>1, <2>4 DEF Moved
  <2>6. IsImport(a)
    BY <1>3 DEF ImportAccounts, IsImport
  <2> QED BY <2>3, <2>5, <2>6
<1>4. ASSUME Goes(q, <<"createImportAccount">> \o Tail(proc[q].todo), Mem(q)) PROVE FALSE
  <2>1. PICK s, t, u : s = proc[q].todo /\ t = Tail(s) /\ u = <<"createImportAccount">> \o t
    OBVIOUS
  <2>2. s # <<>> /\ Listed(s)
    BY <1>1, <1>2, <2>1 DEF At
  <2>3. t \in Seq(AllCalls) /\ "createImportAccount" \in AllCalls
    BY <2>1, <2>2 DEF Listed, AllCalls, TokenCalls
  <2>4. "createImportAccount" \in CallsOf(u)
    BY <2>1, <2>3, CallsWithFirst
  <2>5. Left(q)' = CallsOf(u)
    BY <1>4, <2>1, GoesElsewhere
  <2> QED BY <1>1, <2>4, <2>5
<1> QED BY <1>3, <1>4 DEF FindImportAccount

\* The token of an import is its account's.
LEMMA TokenMade ==
    ASSUME AccountsInv, ImportInv, NEW q \in Requests, CreateToken(q)
    PROVE  \/ db' = db
           \/ \E row : /\ db'.tokens = With(db.tokens, q, row) /\ db'.accounts = db.accounts
                       /\ row.name = "repository" => Op(q) = "importToken" /\ IsImport(row.account)
<1>1. At(q, "createToken") /\ DOMAIN db = Fields
  BY DEF CreateToken, AccountsInv, DbOK
<1>2. CASE db' = db
  BY <1>2
<1>3. CASE db' # db
  <2>1. PICK a, row, ts : /\ a = Mem(q).ref /\ a \in DOMAIN db.accounts /\ ts = With(db.tokens, q, row)
                          /\ row = [account |-> a, revoked |-> FALSE,
                                    name |-> IF Op(q) = "importToken" THEN "repository" ELSE "other"]
                          /\ db' = [db EXCEPT !.tokens = ts]
    BY <1>3 DEF CreateToken, Writes, Refuses
  <2>2. db'.tokens = ts /\ db'.accounts = db.accounts
    BY <1>1, <2>1 DEF Fields
  <2>3. row.account = a /\ row.name = IF Op(q) = "importToken" THEN "repository" ELSE "other"
    BY <2>1
  <2>4. ASSUME Op(q) = "importToken" PROVE IsImport(a)
    <3>1. "createToken" \in Left(q) /\ \A d \in Left(q) : d = "createToken" \/ Precedes("createToken", d)
      BY <1>1, AtCall
    <3>2. Importing(q)
      BY <2>4, <3>1, ImportOrder DEF Importing
    <3> QED BY <2>1, <3>2 DEF ImportInv, ImportsHold
  <2> QED BY <2>1, <2>2, <2>3, <2>4
<1> QED BY <1>2, <1>3

LEMMA ImportActs ==
    ASSUME AccountsInv, AccountsInv', ImportInv, NEW q \in Requests, Acts(q)
    PROVE  ImportInv'
<1>1. PICK c : Foot(q, c)
  BY ActsFoot
<1>2. At(q, c) /\ Spares(c, db') /\ DOMAIN db = Fields
  BY <1>1 DEF Foot, AccountsInv, DbOK
<1>3. ActsAs(q, c)
  BY <1>2, ActsAt
<1>4. ImportsKnow' /\ \A p \in Requests : Unmade(p)' => Unmade(p)
  BY <1>1, <1>3, ImportsKnowActs, UnmadeOn DEF ImportInv
<1>5. CASE c \in Inserters
  BY <1>1, <1>3, <1>5, ImportInserts
<1>6. CASE c = "deleteOrg"
  <2>1. DeleteOrg(q)
    BY <1>3, <1>6 DEF ActsAs, SharedAs, PeopleAs, SignInAs, TokenAs, BootAs,
                      SharedCalls, PeopleCalls, SignInCalls, TokenCalls, BootCalls
  <2>2. PICK o : DeletedOrg(o)
    BY <1>2, <2>1, DeleteOrgDoes
  <2>3. \A p \in Requests : Importing(p)' => Importing(p) /\ Mem(p)'.ref = Mem(p).ref
    BY <1>1, <1>6, ImportingOn
  <2> QED BY <1>4, <2>2, <2>3, ImportDeleted
<1>7. CASE c \notin Inserters \cup {"deleteOrg"}
  <2>1. AccountsStay /\ (Seed \in DOMAIN db'.orgs => Seed \in DOMAIN db.orgs)
    BY <1>2, <1>3, <1>7, AccountsOn, OrgsOn
  <2>2. \A a : IsImport(a)' <=> IsImport(a)
    BY <2>1 DEF IsImport, AccountsStay
  <2>3. TokensOfImport'
    <3>1. CASE c # "createToken"
      <4>1. TokensStay
        BY <1>2, <1>3, <3>1, TokensOn
      <4> SUFFICES ASSUME NEW t \in DOMAIN db'.tokens, db'.tokens[t].name = "repository"
                   PROVE  IsImport(db.tokens[t].account)'
        BY DEF TokensOfImport
      <4>2. PICK a : a = db'.tokens[t].account
        OBVIOUS
      <4>3. IsImport(a)
        BY <4>1, <4>2 DEF TokensStay, ImportInv, TokensOfImport
      <4>4. IsImport(a)'
        BY <2>2, <4>3
      <4> QED BY <4>2, <4>4 DEF IsImport
    <3>2. CASE c = "createToken"
      <4>1. CreateToken(q)
        BY <1>3, <3>2 DEF ActsAs, SharedAs, PeopleAs, SignInAs, TokenAs, BootAs,
                          SharedCalls, PeopleCalls, SignInCalls, TokenCalls, BootCalls
      <4>2. CASE db' = db
        BY <4>2 DEF ImportInv, TokensOfImport, IsImport
      <4>3. CASE db' # db
        <5>1. PICK row : /\ db'.tokens = With(db.tokens, q, row) /\ db'.accounts = db.accounts
                         /\ row.name = "repository" => Op(q) = "importToken" /\ IsImport(row.account)
          BY <4>1, <4>3, TokenMade
        <5>2. PICK ts : ts = db'.tokens
          OBVIOUS
        <5>3. \A t \in DOMAIN ts : ts[t] = row \/ (t \in DOMAIN db.tokens /\ ts[t] = db.tokens[t])
          BY <5>1, <5>2 DEF With
        <5>4. \A t \in DOMAIN ts : ts[t].name = "repository" => IsImport(ts[t].account)
          BY <5>1, <5>3 DEF ImportInv, TokensOfImport
        <5> QED BY <5>1, <5>2, <5>4 DEF TokensOfImport, IsImport
      <4> QED BY <4>2, <4>3
    <3> QED BY <3>1, <3>2
  <2>4. \A p \in Requests : Importing(p)' =>
            (Importing(p) /\ Mem(p)'.ref = Mem(p).ref) \/ IsImport(Mem(p)'.ref)
    <3> SUFFICES ASSUME NEW p \in Requests, Importing(p)'
                 PROVE  (Importing(p) /\ Mem(p)'.ref = Mem(p).ref) \/ IsImport(Mem(p)'.ref)
      OBVIOUS
    <3>1. CASE c # "findImportAccount"
      BY <1>1, <1>7, <3>1, ImportingOn DEF Inserters
    <3>2. CASE p # q
      <4>1. proc'[p] = proc[p]
        BY <1>1, <3>2, FootBusy DEF Others
      <4> QED BY <4>1 DEF Importing, Op, Left, Mem
    <3>3. CASE c = "findImportAccount" /\ p = q
      <4>1. FindImportAccount(q)
        BY <1>3, <3>3 DEF ActsAs, SharedAs, PeopleAs, SignInAs, TokenAs, BootAs,
                          SharedCalls, PeopleCalls, SignInCalls, TokenCalls, BootCalls
      <4>2. Importing(q)'
        BY <3>3
      <4> QED BY <3>3, <4>1, <4>2, FindHolds
    <3> QED BY <3>1, <3>2, <3>3
  <2> QED BY <1>4, <2>1, <2>3, <2>4, ImportKept
<1> QED BY <1>5, <1>6, <1>7

LEMMA ImportStep ==
    ASSUME AccountsInv, AccountsInv', ImportInv, [Next]_vars
    PROVE  ImportInv'
<1>1. CASE UNCHANGED <<db, failedOpen>> /\ \A p \in Requests : Still(p)
  <2>1. AccountsStay /\ TokensOfImport' /\ (Seed \in DOMAIN db'.orgs => Seed \in DOMAIN db.orgs)
    BY <1>1 DEF AccountsStay, ImportInv, TokensOfImport, IsImport
  <2>2. ASSUME NEW p \in Requests
        PROVE  /\ Op(p)' = "importToken" /\ Left(p)' # {} => ImportCalls(Left(p), Mem(p))'
               /\ Importing(p)' => Importing(p) /\ Mem(p)'.ref = Mem(p).ref
               /\ Unmade(p)' => Unmade(p)
    <3>1. CASE proc'[p] = proc[p]
      BY <3>1 DEF ImportInv, ImportsKnow, ImportCalls, Importing, Unmade, Op, Left, Mem
    <3>2. CASE Left(p)' = {} /\ Op(p)' = Op(p)
      BY <3>2 DEF Importing, Unmade
    <3>3. CASE Op(p) = "none" /\ Op(p)' \in AllOps /\ Fresh(Op(p)', Left(p)')
      <4>1. Op(p)' = "importToken" =>
                Left(p)' = {"getInstallation", "findImportAccount", "listTokens", "revokeTokens",
                            "createToken"}
        BY <3>3 DEF Fresh
      <4> QED BY <3>3, <4>1 DEF ImportCalls, Importing, Unmade
    <3> QED BY <1>1, <3>1, <3>2, <3>3 DEF Still
  <2>3. ImportsKnow'
    BY <2>2 DEF ImportsKnow
  <2> QED BY <2>1, <2>2, <2>3, ImportKept
<1> QED BY <1>1, StepOrStill, ImportActs

(***************************************************************************)
(* Good tokens.                                                            *)
(***************************************************************************)
LEMMA ReplacingBusy ==
    ASSUME AccountsInv, NEW p \in Requests, Replacing(p)
    PROVE  p \in UnderWay
BY BusyCalls DEF Replacing, UnderWay, AccountsInv

\* A request has listed the tokens, or lists them now.
LEMMA ReplacingOn ==
    ASSUME AccountsInv, NEW q \in Requests, NEW c, Foot(q, c), NEW p \in Requests, Replacing(p)',
           c # "listTokens" \/ p # q
    PROVE  Replacing(p) /\ (Mem(p)'.listed = Mem(p).listed \/ (p = q /\ c = "revokeTokens"))
<1>1. CASE p # q
  <2>1. proc'[p] = proc[p]
    BY <1>1, FootBusy DEF Others
  <2> QED BY <2>1 DEF Replacing, Op, Left, Mem
<1>2. CASE p = q
  <2>1. Left(q)' # {}
    BY <1>2 DEF Replacing
  <2>2. /\ Op(q)' = Op(q) /\ Recalls(c, Mem(q), Mem(q)')
        /\ Left(q)' \subseteq Left(q) \cup {"createImportAccount", "applyMigration"}
        /\ Left(q) \subseteq Left(q)' \cup {c}
    BY <2>1, GoesOn
  <2> QED BY <1>2, <2>2 DEF Replacing, Recalls
<1> QED BY <1>1, <1>2

LEMMA GoodStays ==
    ASSUME TokensStay
    PROVE  Good' \subseteq Good
BY DEF TokensStay, Good

\* The good tokens and those to come of requests that are under way.
LEMMA SparingFinite ==
    ASSUME AccountsInv, BusyInv, TokenInv, NEW S \in SUBSET Good, NEW t, NEW T, T \subseteq S \cup Sparing(t)
    PROVE  /\ IsFiniteSet(T) /\ Cardinality(T) \in Nat
           /\ Cardinality(S \cup Sparing(t)) <= InFlight => Cardinality(T) <= InFlight
<1>1. Sparing(t) \subseteq UnderWay
  BY ReplacingBusy DEF Sparing
<1>2. IsFiniteSet(S) /\ IsFiniteSet(Sparing(t))
  BY <1>1, FS_Subset DEF BusyInv, TokenInv
<1>3. PICK U : U = S \cup Sparing(t)
  OBVIOUS
<1>4. IsFiniteSet(U)
  BY <1>2, <1>3, FS_Union
<1>5. IsFiniteSet(T) /\ Cardinality(T) \in Nat /\ Cardinality(U) \in Nat /\ Cardinality(T) <= Cardinality(U)
  BY <1>3, <1>4, Smaller
<1>6. InFlight \in Nat
  BY HandlersAssumption
<1> QED BY <1>3, <1>5, <1>6

LEMMA BoundedKept ==
    ASSUME AccountsInv, BusyInv, TokenInv, Good' \subseteq Good,
           \A t \in Good' : Sparing(t)' \subseteq Sparing(t)
    PROVE  GoodBounded' /\ IsFiniteSet(Good')
<1>1. IsFiniteSet(Good')
  BY FS_Subset DEF TokenInv
<1>2. ASSUME InFlight # 0, NEW S \in SUBSET Good', S # {}
      PROVE  \E t \in S : Cardinality(S \cup Sparing(t)') <= InFlight
  <2>1. S \in SUBSET Good
    BY <1>2
  <2>2. PICK t \in S : Cardinality(S \cup Sparing(t)) <= InFlight
    BY <1>2, <2>1 DEF TokenInv, GoodBounded
  <2>3. PICK T : T = S \cup Sparing(t)'
    OBVIOUS
  <2>4. T \subseteq S \cup Sparing(t)
    BY <1>2, <2>2, <2>3
  <2>5. Cardinality(T) <= InFlight
    BY <2>1, <2>2, <2>4, SparingFinite
  <2> QED BY <2>2, <2>3, <2>5
<1>3. GoodBounded'
  BY <1>2 DEF GoodBounded
<1> QED BY <1>1, <1>3

\* A request that lists the tokens of its account lists all that are good.
LEMMA ListsGood ==
    ASSUME AccountsInv, ImportInv, NEW q \in Requests, ListTokens(q), Replacing(q)'
    PROVE  Good \subseteq Mem(q)'.listed
<1>1. At(q, "listTokens") /\ Left(q)' # {} /\ Op(q)' = "importToken" /\ "createToken" \in Left(q)'
  BY DEF ListTokens, Replacing
<1>2. /\ Mem(q) \in AccountMemory /\ Listed(proc[q].todo) /\ ProcType
      /\ \A d \in Left(q) : d = "listTokens" \/ Precedes("listTokens", d)
  BY <1>1, AtCall DEF AccountsInv
<1>3. PICK n : n = [Mem(q) EXCEPT !.listed = Superseded(Mem(q).ref)]
  OBVIOUS
<1>4. n \in AccountMemory /\ n.listed = Superseded(Mem(q).ref)
  BY <1>2, <1>3 DEF AccountMemory, Superseded, AccountsInv, DbOK, TokensOK
<1>5. Moved(q, "listTokens", n)
  BY <1>1, <1>2, <1>3, <1>4, KeepsMoves DEF ListTokens, Reads
<1>6. Mem(q)'.listed = Superseded(Mem(q).ref)
  BY <1>1, <1>4, <1>5 DEF Moved
<1>7. Importing(q)
  BY <1>1, <1>2, <1>5, ImportOrder DEF Importing, Moved
<1>8. ASSUME NEW t \in Good PROVE t \in Superseded(Mem(q).ref)
  <2>1. t \in DOMAIN db.tokens /\ ~db.tokens[t].revoked /\ db.tokens[t].name = "repository"
    BY <1>8 DEF Good
  <2>2. PICK a : a = db.tokens[t].account
    OBVIOUS
  <2>3. IsImport(a)
    BY <2>1, <2>2 DEF ImportInv, TokensOfImport
  <2>4. Seed \in DOMAIN db.orgs
    BY <2>3 DEF IsImport, AccountsInv, DbOK, AccountsOK
  <2>5. IsImport(Mem(q).ref)
    BY <1>7, <2>4 DEF ImportInv, ImportsHold
  <2>6. a = Mem(q).ref
    BY <2>3, <2>5 DEF ImportInv, OneImport, IsImport
  <2> QED BY <2>1, <2>2, <2>6 DEF Superseded
<1> QED BY <1>6, <1>8

\* What is revoked is neither good nor listed any more.
LEMMA RevokesGood ==
    ASSUME AccountsInv, NEW q \in Requests, RevokeListed(q)
    PROVE  \E X : /\ Good' \subseteq Good \ X
                  /\ Left(q)' # {} => Mem(q)'.listed = Mem(q).listed \ X
                  /\ Left(q) \subseteq Left(q)' \cup {"revokeTokens"} /\ Left(q)' \subseteq Left(q)
                  /\ Op(q)' = Op(q)
<1>1. CASE db' = db /\ Mem(q).listed = {} /\ Moved(q, "revokeTokens", Mem(q))
  <2>1. Good' = Good
    BY <1>1 DEF Good
  <2>2. /\ Good' \subseteq Good \ {} /\ (Left(q)' # {} => Mem(q)'.listed = Mem(q).listed \ {})
        /\ Left(q) \subseteq Left(q)' \cup {"revokeTokens"} /\ Left(q)' \subseteq Left(q) /\ Op(q)' = Op(q)
    BY <1>1, <2>1 DEF Moved
  <2> QED BY <2>2
<1>2. ASSUME NEW t \in Mem(q).listed,
             db' = [db EXCEPT !.tokens = Revoked(db.tokens, {t})],
             Left(q)' = Left(q), Op(q)' = Op(q),
             Mem(q)' = [Mem(q) EXCEPT !.listed = Mem(q).listed \ {t}]
      PROVE  \E X : /\ Good' \subseteq Good \ X
                    /\ Left(q)' # {} => Mem(q)'.listed = Mem(q).listed \ X
                    /\ Left(q) \subseteq Left(q)' \cup {"revokeTokens"} /\ Left(q)' \subseteq Left(q)
                    /\ Op(q)' = Op(q)
  <2>1. PICK X : X = {t}
    OBVIOUS
  <2>2. TokensStay /\ \A u \in X \cap DOMAIN db'.tokens : db'.tokens[u].revoked
    BY <1>2, <2>1, RevokedStays
  <2>3. Good' \subseteq Good
    BY <2>2, GoodStays
  <2>4. Good' \subseteq Good \ X
    BY <2>2, <2>3 DEF Good
  <2>5. Mem(q) \in AccountMemory
    BY AtCall DEF RevokeListed
  <2>6. Mem(q)'.listed = Mem(q).listed \ X
    BY <1>2, <2>1, <2>5 DEF AccountMemory
  <2> QED BY <1>2, <2>4, <2>6
<1>3. CASE ~(db' = db /\ Mem(q).listed = {} /\ Moved(q, "revokeTokens", Mem(q)))
  <2>1. PICK t \in Mem(q).listed :
            /\ db' = [db EXCEPT !.tokens = Revoked(db.tokens, {t})]
            /\ Left(q)' = Left(q) /\ Op(q)' = Op(q)
            /\ Mem(q)' = [Mem(q) EXCEPT !.listed = Mem(q).listed \ {t}]
    BY <1>3, RevokeDoes
  <2> QED BY <1>2, <2>1
<1> QED BY <1>1, <1>3

\* The only request that is under way.
LEMMA AloneReplaces ==
    ASSUME AccountsInv, BusyInv, clean, NEW q \in Requests, Busy(q), NEW p \in Requests, Replacing(p)
    PROVE  p = q
<1>1. p \in UnderWay /\ q \in UnderWay
  BY ReplacingBusy DEF UnderWay
<1> QED BY <1>1 DEF BusyInv

\* Without a request that has listed the tokens at most one is good.
LEMMA AloneKept ==
    ASSUME TokenInv, Good' \subseteq Good, clean, \A p \in Requests : ~Replacing(p)
    PROVE  Cardinality(Good') <= 1
<1>1. PICK G, H : G = Good /\ H = Good'
  OBVIOUS
<1>2. IsFiniteSet(G) /\ Cardinality(G) <= 1 /\ H \subseteq G
  BY <1>1 DEF TokenInv, GoodAlone
<1>3. Cardinality(H) \in Nat /\ Cardinality(G) \in Nat /\ Cardinality(H) <= Cardinality(G)
  BY <1>2, Smaller
<1>4. Cardinality(H) <= 1
  BY <1>2, <1>3
<1> QED BY <1>1, <1>4

LEMMA TokenListed ==
    ASSUME AccountsInv, BusyInv, ImportInv, TokenInv, NEW q \in Requests, Foot(q, "listTokens"), ListTokens(q)
    PROVE  TokenInv'
<1>1. At(q, "listTokens") /\ (clean' => clean) /\ db' = db
  BY DEF Foot, ListTokens, Reads
<1>2. "listTokens" \in Left(q) /\ Busy(q)
  BY <1>1, AtCall DEF At, Busy
<1>3. Good' = Good
  BY <1>1 DEF Good
<1>4. \A p \in Requests : p # q /\ Replacing(p)' => Replacing(p) /\ Mem(p)'.listed = Mem(p).listed
  BY ReplacingOn
<1>5. Replacing(q)' => Good \subseteq Mem(q)'.listed
  BY ListsGood
<1>6. \A t \in Good' : Sparing(t)' \subseteq Sparing(t)
  BY <1>3, <1>4, <1>5 DEF Sparing
<1>7. GoodBounded' /\ IsFiniteSet(Good')
  BY <1>3, <1>6, BoundedKept
<1>8. GoodAlone'
  <2> SUFFICES ASSUME clean'
               PROVE  IF \E p \in Requests : Replacing(p)'
                      THEN \A p \in Requests : Replacing(p)' => Good' \subseteq Mem(p)'.listed
                      ELSE Cardinality(Good') <= 1
    BY DEF GoodAlone
  <2>1. clean /\ \A p \in Requests : ~Replacing(p)
    BY <1>1, <1>2, AloneReplaces DEF Replacing
  <2>2. \A p \in Requests : Replacing(p)' => p = q
    BY <1>4, <2>1
  <2>3. Cardinality(Good') <= 1
    BY <1>3, <2>1, AloneKept
  <2>4. \A p \in Requests : Replacing(p)' => Good' \subseteq Mem(p)'.listed
    BY <1>3, <1>5, <2>2
  <2> QED BY <2>3, <2>4
<1> QED BY <1>7, <1>8 DEF TokenInv

LEMMA TokenRevoked ==
    ASSUME AccountsInv, BusyInv, ImportInv, TokenInv, NEW q \in Requests, Foot(q, "revokeTokens"),
           RevokeListed(q)
    PROVE  TokenInv'
<1>1. At(q, "revokeTokens") /\ (clean' => clean)
  BY DEF Foot
<1>2. Busy(q)
  BY <1>1 DEF At, Busy
<1>3. PICK X : /\ Good' \subseteq Good \ X
               /\ Left(q)' # {} => Mem(q)'.listed = Mem(q).listed \ X
               /\ Left(q) \subseteq Left(q)' \cup {"revokeTokens"} /\ Left(q)' \subseteq Left(q)
               /\ Op(q)' = Op(q)
  BY RevokesGood
<1>4. \A p \in Requests : Replacing(p)' =>
          Replacing(p) /\ Mem(p)'.listed = IF p = q THEN Mem(p).listed \ X ELSE Mem(p).listed
  <2> SUFFICES ASSUME NEW p \in Requests, Replacing(p)'
               PROVE  Replacing(p) /\ Mem(p)'.listed = IF p = q THEN Mem(p).listed \ X ELSE Mem(p).listed
    OBVIOUS
  <2>1. Replacing(p) /\ (p # q => Mem(p)'.listed = Mem(p).listed)
    BY ReplacingOn
  <2>2. p = q => Left(q)' # {}
    BY DEF Replacing
  <2> QED BY <1>3, <2>1, <2>2
<1>5. \A t \in Good' : Sparing(t)' \subseteq Sparing(t)
  <2> SUFFICES ASSUME NEW t \in Good', NEW p \in Requests, Replacing(p)', t \notin Mem(p)'.listed
               PROVE  Replacing(p) /\ t \notin Mem(p).listed
    BY DEF Sparing
  <2>1. t \notin X
    BY <1>3
  <2> QED BY <1>4, <2>1
<1>6. GoodBounded' /\ IsFiniteSet(Good')
  BY <1>3, <1>5, BoundedKept
<1>7. GoodAlone'
  <2> SUFFICES ASSUME clean'
               PROVE  IF \E p \in Requests : Replacing(p)'
                      THEN \A p \in Requests : Replacing(p)' => Good' \subseteq Mem(p)'.listed
                      ELSE Cardinality(Good') <= 1
    BY DEF GoodAlone
  <2>1. clean
    BY <1>1
  <2>2. CASE Replacing(q)
    <3>1. Replacing(q)'
      BY <1>3, <2>2 DEF Replacing
    <3>2. Good \subseteq Mem(q).listed
      BY <2>1, <2>2 DEF TokenInv, GoodAlone
    <3>3. \A p \in Requests : Replacing(p)' => p = q
      BY <1>2, <1>4, <2>1, AloneReplaces
    <3>4. Good' \subseteq Mem(q)'.listed
      BY <1>3, <1>4, <3>1, <3>2
    <3> QED BY <3>1, <3>3, <3>4
  <2>3. CASE ~Replacing(q)
    <3>1. \A p \in Requests : ~Replacing(p)
      BY <1>2, <2>1, <2>3, AloneReplaces
    <3>2. \A p \in Requests : ~Replacing(p)'
      BY <1>4, <3>1
    <3>3. Cardinality(Good') <= 1
      BY <1>3, <2>1, <3>1, AloneKept
    <3> QED BY <3>2, <3>3
  <2> QED BY <2>2, <2>3
<1> QED BY <1>6, <1>7 DEF TokenInv

\* A request that makes its token has revoked all it listed, and would not have
\* revoked any other.
LEMMA CreatesGood ==
    ASSUME AccountsInv, ImportInv, NEW q \in Requests, Foot(q, "createToken"), CreateToken(q)
    PROVE  /\ ~Replacing(q)' /\ Good' \subseteq Good \cup {q}
           /\ IF Op(q) = "importToken" THEN Replacing(q) /\ Mem(q).listed = {} ELSE Good' \subseteq Good
<1>1. At(q, "createToken") /\ Advances(q, "createToken")
  BY DEF Foot
<1>2. "createToken" \in Left(q) /\ \A d \in Left(q) : d = "createToken" \/ Precedes("createToken", d)
  BY <1>1, AtCall
<1>3. "listTokens" \notin Left(q) /\ "revokeTokens" \notin Left(q)
  BY <1>2, ImportOrder
<1>4. ~Replacing(q)'
  BY <1>1, ImportOrder DEF Advances, Ended, Moved, Loops, Replacing
<1>5. Op(q) = "importToken" => Replacing(q) /\ Mem(q).listed = {}
  <2>1. ImportsKnow
    BY DEF ImportInv
  <2> QED BY <1>2, <1>3, <2>1 DEF Replacing, ImportsKnow, ImportCalls
<1>6. Good' \subseteq Good \cup {q} /\ (Op(q) # "importToken" => Good' \subseteq Good)
  <2>1. CASE db' = db
    BY <2>1 DEF Good
  <2>2. CASE db' # db
    <3>1. PICK row : /\ db'.tokens = With(db.tokens, q, row)
                     /\ row.name = "repository" => Op(q) = "importToken"
      BY <2>2, TokenMade
    <3>2. PICK ts : ts = db'.tokens
      OBVIOUS
    <3>3. /\ DOMAIN ts = DOMAIN db.tokens \cup {q} /\ ts[q] = row
          /\ \A t \in DOMAIN db.tokens : t # q => ts[t] = db.tokens[t]
      BY <3>1, <3>2 DEF With
    <3>4. ASSUME NEW t \in Good' PROVE t \in Good \/ (t = q /\ Op(q) = "importToken")
      <4>1. t \in DOMAIN ts /\ ~ts[t].revoked /\ ts[t].name = "repository"
        BY <3>2, <3>4 DEF Good
      <4> QED BY <3>1, <3>3, <4>1 DEF Good
    <3> QED BY <3>4
  <2> QED BY <2>1, <2>2
<1> QED BY <1>4, <1>5, <1>6

LEMMA TokenCreated ==
    ASSUME AccountsInv, BusyInv, ImportInv, TokenInv, NEW q \in Requests, Foot(q, "createToken"),
           CreateToken(q)
    PROVE  TokenInv'
<1>1. Busy(q) /\ (clean' => clean) /\ q \in UnderWay
  BY FootBusy DEF UnderWay
<1>2. /\ ~Replacing(q)' /\ Good' \subseteq Good \cup {q}
      /\ IF Op(q) = "importToken" THEN Replacing(q) /\ Mem(q).listed = {} ELSE Good' \subseteq Good
  BY CreatesGood
<1>3. \A p \in Requests : Replacing(p)' => Replacing(p) /\ Mem(p)'.listed = Mem(p).listed
  BY ReplacingOn
<1>4. \A t : Sparing(t)' \subseteq Sparing(t)
  BY <1>3 DEF Sparing
<1>5. IsFiniteSet(Good')
  <2>1. IsFiniteSet(Good) /\ IsFiniteSet({q})
    BY FS_Singleton DEF TokenInv
  <2>2. IsFiniteSet(Good \cup {q})
    BY <2>1, FS_Union
  <2> QED BY <1>2, <2>2, FS_Subset
<1>6. GoodBounded'
  <2>1. CASE Good' \subseteq Good
    BY <1>4, <2>1, BoundedKept
  <2>2. CASE Replacing(q) /\ Mem(q).listed = {}
    <3> SUFFICES ASSUME InFlight # 0, NEW S \in SUBSET Good', S # {}
                 PROVE  \E t \in S : Cardinality(S \cup Sparing(t)') <= InFlight
      BY DEF GoodBounded
    <3>1. \A t : q \in Sparing(t)
      BY <2>2 DEF Sparing
    <3>2. PICK R : R = S \cap Good
      OBVIOUS
    <3>3. CASE R # {}
      <4>1. PICK t \in R : Cardinality(R \cup Sparing(t)) <= InFlight
        BY <3>2, <3>3 DEF TokenInv, GoodBounded
      <4>2. PICK T : T = S \cup Sparing(t)'
        OBVIOUS
      <4>3. T \subseteq R \cup Sparing(t)
        BY <1>2, <1>4, <3>1, <3>2, <4>2
      <4>4. R \in SUBSET Good
        BY <3>2
      <4>5. Cardinality(T) <= InFlight
        BY <4>1, <4>3, <4>4, SparingFinite
      <4> QED BY <3>2, <4>1, <4>2, <4>5
    <3>4. CASE R = {}
      <4>1. q \in S /\ S = {q}
        BY <1>2, <3>2, <3>4
      <4>2. PICK T : T = S \cup Sparing(q)'
        OBVIOUS
      <4>3. T \subseteq UnderWay
        BY <1>1, <1>4, <4>1, <4>2, ReplacingBusy DEF Sparing
      <4>4. PICK D : D = UnderWay
        OBVIOUS
      <4>5. Cardinality(T) \in Nat /\ Cardinality(D) \in Nat /\ Cardinality(T) <= Cardinality(D)
        BY <4>3, <4>4, Smaller DEF BusyInv
      <4>6. Cardinality(D) <= InFlight /\ InFlight \in Nat
        BY <4>4, HandlersAssumption DEF BusyInv
      <4>7. Cardinality(T) <= InFlight
        BY <4>5, <4>6
      <4> QED BY <4>1, <4>2, <4>7
    <3> QED BY <3>3, <3>4
  <2> QED BY <1>2, <2>1, <2>2
<1>7. GoodAlone'
  <2> SUFFICES ASSUME clean'
               PROVE  (\A p \in Requests : ~Replacing(p)') /\ Cardinality(Good') <= 1
    BY DEF GoodAlone
  <2>1. clean /\ \A p \in Requests : Replacing(p) => p = q
    BY <1>1, AloneReplaces
  <2>2. \A p \in Requests : ~Replacing(p)'
    BY <1>2, <1>3, <2>1
  <2>3. CASE Replacing(q) /\ Mem(q).listed = {}
    <3>1. Good = {}
      BY <2>1, <2>3 DEF TokenInv, GoodAlone
    <3>2. \A t, u \in Good' : t = u
      BY <1>2, <3>1
    <3> QED BY <2>2, <3>2, AtMostOne
  <2>4. CASE Op(q) # "importToken"
    <3>1. \A p \in Requests : ~Replacing(p)
      BY <2>1, <2>4 DEF Replacing
    <3> QED BY <1>2, <2>1, <2>2, <2>4, <3>1, AloneKept
  <2> QED BY <1>2, <2>3, <2>4
<1> QED BY <1>5, <1>6, <1>7 DEF TokenInv

\* Nothing else makes a token or lists one, and a request that has listed the
\* tokens has nothing else to do.
LEMMA TokenKept ==
    ASSUME AccountsInv, BusyInv, ImportInv, TokenInv, NEW q \in Requests, NEW c, Foot(q, c), ActsAs(q, c),
           c \notin {"listTokens", "revokeTokens", "createToken"}
    PROVE  TokenInv'
<1>1. At(q, c) /\ Spares(c, db')
  BY DEF Foot
<1>2. Busy(q) /\ (clean' => clean)
  BY FootBusy
<1>3. Good' \subseteq Good
  BY <1>1, TokensOn, GoodStays
<1>4. \A p \in Requests : Replacing(p)' => Replacing(p) /\ Mem(p)'.listed = Mem(p).listed
  BY ReplacingOn
<1>5. GoodBounded' /\ IsFiniteSet(Good')
  <2>1. \A t \in Good' : Sparing(t)' \subseteq Sparing(t)
    BY <1>4 DEF Sparing
  <2> QED BY <1>3, <2>1, BoundedKept
<1>6. ~Replacing(q)
  <2> SUFFICES ASSUME Replacing(q) PROVE FALSE
    OBVIOUS
  <2>1. Op(q) = "importToken" /\ "listTokens" \notin Left(q)
    BY DEF Replacing
  <2>2. c \in {"getInstallation", "findImportAccount", "createImportAccount"} /\ c \in Left(q)
    BY <1>1, <2>1, ImportAt, AtCall
  <2>3. ImportCalls(Left(q), Mem(q))
    BY <2>1, <2>2 DEF ImportInv, ImportsKnow
  <2> QED BY <2>1, <2>2, <2>3 DEF ImportCalls
<1>7. GoodAlone'
  <2> SUFFICES ASSUME clean'
               PROVE  (\A p \in Requests : ~Replacing(p)') /\ Cardinality(Good') <= 1
    BY DEF GoodAlone
  <2>1. clean /\ \A p \in Requests : ~Replacing(p)
    BY <1>2, <1>6, AloneReplaces
  <2> QED BY <1>3, <1>4, <2>1, AloneKept
<1> QED BY <1>5, <1>7 DEF TokenInv

LEMMA TokenStill ==
    ASSUME AccountsInv, BusyInv, TokenInv, db' = db, \A p \in Requests : Still(p),
           clean' => clean /\ (Quiet \/ \A p \in Requests : proc'[p] = proc[p])
    PROVE  TokenInv'
<1>1. Good' = Good
  BY DEF Good
<1>2. ASSUME NEW p \in Requests, Replacing(p)' PROVE Replacing(p) /\ Mem(p)'.listed = Mem(p).listed
  <2>1. CASE proc'[p] = proc[p]
    BY <1>2, <2>1 DEF Replacing, Op, Left, Mem
  <2>2. CASE Left(p)' = {}
    BY <1>2, <2>2 DEF Replacing
  <2>3. CASE Fresh(Op(p)', Left(p)')
    BY <1>2, <2>3 DEF Replacing, Fresh
  <2> QED BY <2>1, <2>2, <2>3 DEF Still
<1>3. GoodBounded' /\ IsFiniteSet(Good')
  <2>1. \A t \in Good' : Sparing(t)' \subseteq Sparing(t)
    BY <1>2 DEF Sparing
  <2> QED BY <1>1, <2>1, BoundedKept
<1>4. GoodAlone'
  <2>1. CASE clean /\ Quiet
    <3>1. \A p \in Requests : ~Replacing(p)
      BY <2>1, ReplacingBusy DEF Quiet, UnderWay
    <3>2. Cardinality(Good') <= 1
      BY <1>1, <2>1, <3>1, AloneKept
    <3> QED BY <1>2, <3>1, <3>2 DEF GoodAlone
  <2>2. CASE clean /\ \A p \in Requests : proc'[p] = proc[p]
    <3>1. \A p \in Requests : (Replacing(p)' <=> Replacing(p)) /\ Mem(p)' = Mem(p)
      BY <2>2 DEF Replacing, Op, Left, Mem
    <3> QED BY <1>1, <2>2, <3>1 DEF TokenInv, GoodAlone
  <2>3. CASE ~clean'
    BY <2>3 DEF GoodAlone
  <2> QED BY <2>1, <2>2, <2>3
<1> QED BY <1>3, <1>4 DEF TokenInv

LEMMA TokenActs ==
    ASSUME AccountsInv, BusyInv, ImportInv, TokenInv, NEW q \in Requests, Acts(q)
    PROVE  TokenInv'
<1>1. PICK c : Foot(q, c)
  BY ActsFoot
<1>2. At(q, c)
  BY <1>1 DEF Foot
<1>3. ActsAs(q, c)
  BY <1>2, ActsAt
<1>4. /\ c = "listTokens" => ListTokens(q)
      /\ c = "revokeTokens" => RevokeListed(q)
      /\ c = "createToken" => CreateToken(q)
  BY <1>3 DEF ActsAs, SharedAs, PeopleAs, SignInAs, TokenAs, BootAs,
              SharedCalls, PeopleCalls, SignInCalls, TokenCalls, BootCalls
<1>5. CASE c = "listTokens"
  BY <1>1, <1>4, <1>5, TokenListed
<1>6. CASE c = "revokeTokens"
  BY <1>1, <1>4, <1>6, TokenRevoked
<1>7. CASE c = "createToken"
  BY <1>1, <1>4, <1>7, TokenCreated
<1>8. CASE c \notin {"listTokens", "revokeTokens", "createToken"}
  BY <1>1, <1>3, <1>8, TokenKept
<1> QED BY <1>5, <1>6, <1>7, <1>8

LEMMA TokenInvStep ==
    ASSUME AccountsInv, BusyInv, ImportInv, TokenInv, [Next]_vars
    PROVE  TokenInv'
<1>1. ASSUME NEW q \in Requests, Starts(q) PROVE TokenInv'
  <2>1. db' = db /\ clean' = (clean /\ Quiet) /\ \A p \in Requests : Still(p)
    BY <1>1, StartsFresh DEF Others, Still
  <2> QED BY <2>1, TokenStill
<1>2. ASSUME NEW q \in Requests, Aborts(q), db' = db PROVE TokenInv'
  <2>1. ~clean' /\ \A p \in Requests : Still(p)
    BY <1>2, EndsMoves DEF AccountsInv, Ended, Others, Still, Aborts
  <2> QED BY <1>2, <2>1, TokenStill
<1>3. CASE UNCHANGED <<proc, clean, db>>
  <2>1. \A p \in Requests : Still(p) /\ proc'[p] = proc[p]
    BY <1>3 DEF Still
  <2> QED BY <1>3, <2>1, TokenStill
<1> QED BY <1>1, <1>2, <1>3, StepKinds, TokenActs

(***************************************************************************)
(* Limits hold.                                                            *)
(***************************************************************************)
LimitsInv == BusyInv /\ TryInv /\ DomainInv /\ OwnInv /\ SeatInv /\ ImportInv /\ TokenInv

LEMMA LimitsTables ==
    ASSUME Init
    PROVE  /\ db.attempts = 0 /\ DOMAIN db.domains = {} /\ DOMAIN db.members \subseteq {<<Seed, Seed>>}
           /\ DOMAIN db.accounts \subseteq {Seed} /\ DOMAIN db.tokens \subseteq {Seed}
           /\ \A t \in DOMAIN db.tokens : db.tokens[t].name = "repository" => IsImport(db.tokens[t].account)
<1>1. CASE "boot" \in workload.ops
  <2>1. PICK e : e = Empty
    OBVIOUS
  <2>2. /\ db.attempts = 0 /\ db.domains = e /\ db.members = e /\ db.accounts = e /\ db.tokens = e
    BY <1>1, <2>1 DEF Init, Nothing
  <2>3. DOMAIN e = {}
    BY <2>1 DEF Empty
  <2> QED BY <2>2, <2>3
<1>2. CASE "boot" \notin workload.ops
  <2>1. PICK disabled, i, name : /\ name = workload.account
                                 /\ db = [Populated(disabled, name) EXCEPT !.installation = i]
    BY <1>2 DEF Init
  <2>2. PICK e, ms, a, as, t, ts :
          /\ e = Empty /\ ms = [k \in {<<Seed, Seed>>} |-> [role |-> "admin", source |-> "manual"]]
          /\ a = [org |-> Seed, name |-> name, internal |-> name = "System", disabled |-> FALSE,
                  deleted |-> FALSE]
          /\ t = [account |-> Seed, name |-> IF name = "GitHub Import" THEN "repository" ELSE "other",
                  revoked |-> FALSE]
          /\ as = Only(a) /\ ts = Only(t)
    OBVIOUS
  <2>3. db.attempts = 0 /\ db.domains = e /\ db.members = ms
    BY <2>1, <2>2 DEF Populated, Nothing
  <2>4. db.accounts = as /\ db.tokens = ts
    BY <2>1, <2>2 DEF Populated, Nothing
  <2>5. /\ DOMAIN e = {} /\ DOMAIN ms = {<<Seed, Seed>>} /\ DOMAIN as = {Seed} /\ DOMAIN ts = {Seed}
        /\ as[Seed] = a /\ ts[Seed] = t
    BY <2>2 DEF Empty, Only
  <2>6. /\ a.org = Seed /\ a.name = name /\ t.account = Seed
        /\ t.name = "repository" => name = "GitHub Import"
    BY <2>2
  <2>7. \A u \in DOMAIN db.tokens : db.tokens[u].name = "repository" => IsImport(db.tokens[u].account)
    BY <2>4, <2>5, <2>6 DEF IsImport
  <2> QED BY <2>3, <2>4, <2>5, <2>7
<1> QED BY <1>1, <1>2

LEMMA LimitsInit ==
    ASSUME Init
    PROVE  LimitsInv
<1>1. \A q \in Requests : Op(q) = "none" /\ Left(q) = {} /\ ~Busy(q)
  BY NoCalls DEF Init, ReqsInit, Op, Left, Busy
<1>2. /\ clean /\ failedOpen = FALSE /\ InFlight \in Nat /\ DiscoverLimit \in Nat /\ Seats \in Nat \ {0}
      /\ Seed \notin Requests
  BY HandlersAssumption, SignInAssumption, AccountTablesAssumption DEF Init, ReqsInit
<1>3. /\ db.attempts = 0 /\ DOMAIN db.domains = {} /\ DOMAIN db.members \subseteq {<<Seed, Seed>>}
      /\ DOMAIN db.accounts \subseteq {Seed} /\ DOMAIN db.tokens \subseteq {Seed}
      /\ \A t \in DOMAIN db.tokens : db.tokens[t].name = "repository" => IsImport(db.tokens[t].account)
  BY LimitsTables
<1>4. IsFiniteSet({}) /\ Cardinality({}) = 0
  BY FS_EmptySet
<1>5. BusyInv
  <2>1. UnderWay = {}
    BY <1>1 DEF UnderWay
  <2> QED BY <1>2, <1>4, <2>1 DEF BusyInv
<1>6. TryInv
  <2>1. Attempting = {}
    BY <1>1 DEF Attempting
  <2> QED BY <1>2, <1>3, <1>4, <2>1 DEF TryInv, Bound
<1>7. DomainInv
  <2>1. Naming = {}
    BY <1>1 DEF Naming
  <2>2. DOMAIN db.domains \cup Naming = {}
    BY <1>3, <2>1
  <2> QED BY <1>2, <1>3, <1>4, <2>2 DEF DomainInv, Bound
<1>8. OwnInv
  BY <1>1 DEF OwnInv
<1>9. SeatInv
  <2>1. Seaters = {}
    BY <1>1 DEF Seaters, Seating
  <2>2. PICK M : M = MembersOf(Seed)
    OBVIOUS
  <2>3. Seated = M
    BY <2>1, <2>2 DEF Seated
  <2>4. \A k, l \in M : k = l
    BY <1>3, <2>2 DEF MembersOf
  <2>5. IsFiniteSet(M) /\ Cardinality(M) \in Nat /\ Cardinality(M) <= 1
    BY <2>4, AtMostOne
  <2> QED BY <1>2, <2>2, <2>3, <2>5 DEF SeatInv, Bound
<1>10. ImportInv
  BY <1>1, <1>2, <1>3 DEF ImportInv, OneImport, TokensOfImport, ImportsKnow, ImportsHold, UnmadeFree,
                          Importing, IsImport
<1>11. TokenInv
  <2>1. \A p \in Requests : ~Replacing(p)
    BY <1>1 DEF Replacing
  <2>2. \A t : Sparing(t) = {}
    BY <2>1 DEF Sparing
  <2>3. \A t, u \in Good : t = u
    BY <1>3 DEF Good
  <2>4. IsFiniteSet(Good) /\ Cardinality(Good) <= 1
    BY <2>3, AtMostOne
  <2>5. GoodBounded
    <3> SUFFICES ASSUME InFlight # 0, NEW S \in SUBSET Good, S # {}
                 PROVE  \E t \in S : Cardinality(S \cup Sparing(t)) <= InFlight
      BY DEF GoodBounded
    <3>1. PICK t \in S : TRUE
      OBVIOUS
    <3>2. S \cup Sparing(t) = S
      BY <2>2
    <3>3. Cardinality(S) \in Nat /\ Cardinality(S) <= 1
      BY <2>3, AtMostOne
    <3>4. Cardinality(S) <= InFlight
      BY <1>2, <3>3
    <3> QED BY <3>2, <3>4
  <2> QED BY <2>1, <2>4, <2>5 DEF TokenInv, GoodAlone
<1> QED BY <1>5, <1>6, <1>7, <1>8, <1>9, <1>10, <1>11 DEF LimitsInv

LEMMA LimitsStep ==
    ASSUME AccountsInv, AccountsInv', LimitsInv, [Next]_vars
    PROVE  LimitsInv'
<1>1. BusyInv /\ TryInv /\ DomainInv /\ OwnInv /\ SeatInv /\ ImportInv /\ TokenInv
  BY DEF LimitsInv
<1>2. BusyInv' /\ TryInv' /\ DomainInv'
  BY <1>1, BusyStep, TryStep, DomainStep
<1>3. OwnInv' /\ SeatInv'
  BY <1>1, OwnStep, SeatStep
<1>4. ImportInv' /\ TokenInv'
  BY <1>1, ImportStep, TokenInvStep
<1> QED BY <1>2, <1>3, <1>4 DEF LimitsInv

LEMMA LimitsInvariant == Spec => [](AccountsInv /\ GithubInv /\ LimitsInv)
<1>1. Init => AccountsInv /\ GithubInv /\ LimitsInv
  BY AccountsInit, LimitsInit
<1>2. AccountsInv /\ GithubInv /\ LimitsInv /\ [Next]_vars => AccountsInv' /\ GithubInv' /\ LimitsInv'
  BY AccountsStep, LimitsStep
<1> QED BY <1>1, <1>2, PTL DEF Spec

LEMMA TokensWithin ==
    ASSUME AccountsInv, BusyInv, TokenInv
    PROVE  Cardinality(Good) <= IF clean /\ Quiet THEN 1 ELSE InFlight
<1>1. CASE clean /\ Quiet
  <2>1. \A p \in Requests : ~Replacing(p)
    BY <1>1, ReplacingBusy DEF Quiet, UnderWay
  <2> QED BY <1>1, <2>1 DEF TokenInv, GoodAlone
<1>2. CASE ~(clean /\ Quiet)
  <2>1. InFlight \in Nat /\ Cardinality(UnderWay) \in Nat
    BY HandlersAssumption, FS_CardinalityType DEF BusyInv
  <2>2. InFlight # 0
    <3>1. CASE ~clean
      BY <3>1 DEF BusyInv
    <3>2. CASE ~Quiet
      <4>1. UnderWay # {} /\ IsFiniteSet(UnderWay)
        BY <3>2 DEF Quiet, UnderWay, BusyInv
      <4>2. Cardinality(UnderWay) # 0
        BY <4>1, FS_EmptySet
      <4> QED BY <2>1, <4>2 DEF BusyInv
    <3> QED BY <1>2, <3>1, <3>2
  <2>3. PICK G : G = Good
    OBVIOUS
  <2>4. CASE G = {}
    BY <1>2, <2>1, <2>3, <2>4, FS_EmptySet
  <2>5. CASE G # {}
    <3>1. PICK t \in G : Cardinality(G \cup Sparing(t)) <= InFlight
      BY <2>2, <2>3, <2>5 DEF TokenInv, GoodBounded
    <3>2. Cardinality(G) <= InFlight
      BY <2>3, <3>1, SparingFinite
    <3> QED BY <1>2, <2>3, <3>2
  <2> QED BY <2>4, <2>5
<1> QED BY <1>1, <1>2

\* A limit that is asked for in one statement and used up in another is passed
\* by the requests that are under way at once and by no more, and not at all as
\* long as they do not overlap (OvershootBounded): the seats of the plan, the
\* attempts to discover a sign-in, the domain of the organisation, and the good
\* tokens of repository imports.
THEOREM AccountsOvershootBounded == Spec => []OvershootBounded
<1>1. AccountsInv /\ LimitsInv => OvershootBounded
  <2> SUFFICES ASSUME AccountsInv, LimitsInv PROVE OvershootBounded
    OBVIOUS
  <2>1. BusyInv /\ TryInv /\ DomainInv /\ SeatInv /\ TokenInv
    BY DEF LimitsInv
  <2>2. InFlight \in Nat /\ DiscoverLimit \in Nat /\ Seats \in Nat
    BY HandlersAssumption, SignInAssumption, AccountTablesAssumption
  <2>3. AttemptsOvershoot
    <3>1. Cardinality(Attempting) \in Nat /\ db.attempts \in Nat
      BY <2>1, AttemptingFinite
    <3> QED BY <2>1, <2>2, <3>1 DEF TryInv, Bound, AttemptsOvershoot
  <2>4. DomainOvershoot
    <3>1. PICK D, T : D = DOMAIN db.domains /\ T = DOMAIN db.domains \cup Naming
      OBVIOUS
    <3>2. Naming \subseteq UnderWay /\ IsFiniteSet(UnderWay)
      BY <2>1, NoneBusyLeft DEF Naming, AccountsInv, BusyInv
    <3>3. IsFiniteSet(D) /\ IsFiniteSet(Naming)
      BY <2>1, <3>1, <3>2, FS_Subset DEF DomainInv
    <3>4. IsFiniteSet(T)
      BY <3>1, <3>3, FS_Union
    <3>5. Cardinality(D) \in Nat /\ Cardinality(T) \in Nat /\ Cardinality(D) <= Cardinality(T)
      BY <3>1, <3>4, Smaller
    <3>6. Cardinality(T) <= Bound(1)
      BY <2>1, <3>1 DEF DomainInv
    <3> QED BY <2>2, <3>1, <3>5, <3>6 DEF Bound, DomainOvershoot
  <2>5. SeatOvershoot
    <3>1. PICK M, T : M = MembersOf(Seed) /\ T = Seated
      OBVIOUS
    <3>2. IsFiniteSet(T) /\ M \subseteq T
      BY <2>1, <3>1, SeatedIs DEF Seated, AccountsInv
    <3>3. Cardinality(M) \in Nat /\ Cardinality(T) \in Nat /\ Cardinality(M) <= Cardinality(T)
      BY <3>2, Smaller
    <3>4. failedOpen \/ Cardinality(T) <= Bound(Seats)
      BY <2>1, <3>1 DEF SeatInv
    <3> QED BY <2>2, <3>1, <3>3, <3>4 DEF Bound, SeatOvershoot
  <2>6. ImportTokensBounded
    BY <2>1, TokensWithin DEF ImportTokensBounded, Good
  <2> QED BY <2>3, <2>4, <2>5, <2>6 DEF OvershootBounded
<1> QED BY <1>1, LimitsInvariant, PTL

(***************************************************************************)
(* The start of servers.                                                   *)
(***************************************************************************)
\* What a start that has the calls L left still does after each of them.
BootCallsLeft(L) ==
    /\ "addMember" \in L
    /\ "applyMigration" \in L => "isApplied" \in L
    /\ "isApplied" \in L => "anyUser" \in L
    /\ "anyUser" \in L => "createOrg" \in L
    /\ "createOrg" \in L => "upsertUser" \in L

Boots(q) == Op(q) = "boot" /\ Left(q) # {}

BootsKnow ==
    \A q \in Requests : Boots(q) => BootCallsLeft(Left(q)) /\ Mem(q).role = "admin"

\* Migrations are committed in order, one after the other: a process is at no
\* version that is not committed, and goes on when all of them are.
MigratesAt(q) ==
    IF "isApplied" \in Left(q)
    THEN /\ Mem(q).version <= Len(schema)
         /\ "applyMigration" \in Left(q) => Mem(q).version # Migrations
    ELSE Len(schema) = Migrations

SchemaInOrder ==
    schema \in Seq(Nat) /\ Len(schema) <= Migrations /\ \A i \in 1..Len(schema) : schema[i] = i

MigratesInv ==
    /\ SchemaInOrder
    /\ Len(schema) = Migrations \/ (workload.ops = {"boot"} /\ db.users = Empty)
    /\ \A q \in Requests : Boots(q) => MigratesAt(q)

OpsInv == workload \in Workloads /\ \A q \in Requests : Op(q) = "none" \/ Op(q) \in workload.ops

HasAdmins ==
    \A o \in DOMAIN db.orgs : \E u \in DOMAIN db.users :
        <<u, o>> \in DOMAIN db.members /\ db.members[<<u, o>>].role = "admin"

\* A start that found nobody; how far it is.
Founding(q) == Boots(q) /\ "anyUser" \notin Left(q)
Founded(q) ==
    /\ DOMAIN db.members = {}
    /\ DOMAIN db.orgs = (IF "createOrg" \in Left(q) THEN {} ELSE {q})
    /\ DOMAIN db.users = (IF "upsertUser" \in Left(q) THEN {} ELSE {q})
    /\ "createOrg" \in Left(q) \/ Mem(q).org = q
    /\ "upsertUser" \in Left(q) \/ Mem(q).user = q

OnlyBoots == \A q \in Requests : Op(q) \in {"boot", "none"}

AdminInv ==
    clean /\ OnlyBoots =>
        /\ \A q \in Requests : Founding(q) => Founded(q)
        /\ HasAdmins \/ \E q \in Requests : Founding(q)

(***************************************************************************)
(* Accounts that sign up.                                                  *)
(***************************************************************************)
ProvisionCalls(L) ==
    /\ L \subseteq {"emailFree", "createUser", "createOrg", "addMember", "createSystemAccount", "createSession"}
    /\ "createSession" \in L
    /\ "addMember" \in L => "createSystemAccount" \in L
    /\ "createOrg" \in L => "addMember" \in L

Provisions(q) == Op(q) = "provision" /\ Left(q) # {}

ProvisionsKnow ==
    \A q \in Requests : Provisions(q) =>
        /\ ProvisionCalls(Left(q))
        /\ Mem(q).user = q \/ ("createUser" \in Left(q) /\ Mem(q).user = Null)
        /\ "createOrg" \in Left(q) \/ Mem(q).org = q

\* What a request has not made is not there.
UnbornInv ==
    \A q \in Requests :
        /\ Unborn(q, "createOrg") => q \notin DOMAIN db.orgs
        /\ Unborn(q, "createSession") => q \notin DOMAIN db.sessions

\* An account that is about to be edited is nobody's own, now or later.
Editing(q) == Left(q) \cap {"updateAccount", "deleteAccount"} # {} /\ "getAccount" \notin Left(q)
EditInv ==
    \A q \in Requests : Editing(q) =>
        /\ Mem(q).ref \in DOMAIN db.accounts => ~db.accounts[Mem(q).ref].internal
        /\ \A p \in Requests : Unmade(p) => Mem(q).ref # p

RemoverInv == \A q \in Requests : "removeMember" \in Left(q) => Op(q) = "removeMember"

OwnAccount(q, a) ==
    /\ db.accounts[a].org = q /\ db.accounts[a].internal
    /\ ~db.accounts[a].disabled /\ ~db.accounts[a].deleted

\* What is left of a sign-up that goes on or was completed is done, as long as
\* its organisation is there.
WholeInv ==
    \A q \in Requests : Op(q) = "provision" /\ q \in DOMAIN db.orgs /\
        (Left(q) # {} \/ q \in DOMAIN db.sessions) =>
        /\ \/ "addMember" \in Left(q) \/ <<q, q>> \in DOMAIN db.members
           \/ \E p \in Requests : Op(p) = "removeMember"
        /\ "createSystemAccount" \in Left(q) \/ \E a \in DOMAIN db.accounts : OwnAccount(q, a)

\* What a step is, with the migrations and the workload.
LEMMA SetUpKinds ==
    ASSUME [Next]_vars
    PROVE  /\ workload' = workload
           /\ \/ \E q \in Requests : Starts(q) /\ schema' = schema
              \/ \E q \in Requests : Acts(q) /\ (ApplyMigration(q) \/ schema' = schema)
              \/ \E q \in Requests : Aborts(q) /\ UNCHANGED <<db, schema>>
              \/ UNCHANGED <<proc, clean, db, schema>>
<1>1. CASE UNCHANGED vars
  BY <1>1 DEF vars
<1>2. CASE Next
  <2>1. workload' = workload
    BY <1>2 DEF Next
  <2>2. \/ \E q \in Requests : \/ Starts(q) /\ schema' = schema
                               \/ Acts(q) /\ schema' = schema
                               \/ Acts(q) /\ BootStep(q)
                               \/ Aborts(q) /\ UNCHANGED <<db, schema>>
        \/ \E i \in Ids : InstalledAtGitHub(i) /\ schema' = schema
    BY <1>2 DEF Next, Acts
  <2>3. \A q \in Requests : BootStep(q) => ApplyMigration(q) \/ schema' = schema
    BY DEF BootStep, IsApplied, AnyUserExists, UpsertUser
  <2>4. \A i \in Ids : InstalledAtGitHub(i) => UNCHANGED <<proc, clean, db>>
    BY DEF InstalledAtGitHub
  <2> QED BY <2>1, <2>2, <2>3, <2>4
<1> QED BY <1>1, <1>2

LEMMA IsAppliedDoes ==
    ASSUME AccountsInv, NEW q \in Requests, IsApplied(q)
    PROVE  /\ db' = db /\ schema' = schema /\ clean' = clean /\ Others(q) /\ Op(q)' = Op(q)
           /\ \/ Mem(q).version = Migrations /\ Moved(q, "isApplied", Mem(q))
              \/ /\ Mem(q).version # Migrations /\ Committed(Mem(q).version + 1)
                 /\ Left(q)' = Left(q) /\ Mem(q)' = [Mem(q) EXCEPT !.version = Mem(q).version + 1]
              \/ /\ Mem(q).version # Migrations
                 /\ Left(q)' = Left(q) \cup {"applyMigration"} /\ Mem(q)' = Mem(q)
<1>1. At(q, "isApplied") /\ db' = db /\ schema' = schema
  BY DEF IsApplied
<1>2. PICK s, m : s = proc[q].todo /\ m = Mem(q)
  OBVIOUS
<1>3. /\ m \in AccountMemory /\ Listed(s) /\ Left(q) = CallsOf(s) /\ s \in Seq(AllCalls)
      /\ "isApplied" \in Left(q) /\ ProcType
  BY <1>1, <1>2, AtCall DEF Left, Listed, AccountsInv
<1>4. CASE m.version = Migrations
  <2>1. Proceeds(q)
    BY <1>2, <1>4 DEF IsApplied
  <2>2. Moved(q, "isApplied", Mem(q)) /\ clean' = clean
    BY <1>1, <1>2, <1>3, <2>1, ProceedsMoves
  <2> QED BY <1>1, <1>2, <1>4, <2>2 DEF Moved
<1>5. CASE m.version # Migrations /\ Committed(m.version + 1)
  <2>1. PICK n : n = [m EXCEPT !.version = m.version + 1]
    OBVIOUS
  <2>2. Goes(q, s, n)
    BY <1>2, <1>5, <2>1 DEF IsApplied
  <2>3. Others(q) /\ Op(q)' = Op(q) /\ Left(q)' = CallsOf(s) /\ clean' = clean /\ (Left(q)' # {} => Mem(q)' = n)
    BY <2>2, GoesElsewhere
  <2> QED BY <1>1, <1>2, <1>3, <1>5, <2>1, <2>3
<1>6. CASE m.version # Migrations /\ ~Committed(m.version + 1)
  <2>1. PICK t : t = <<"applyMigration">> \o s
    OBVIOUS
  <2>2. Goes(q, t, m)
    BY <1>2, <1>6, <2>1 DEF IsApplied
  <2>3. Others(q) /\ Op(q)' = Op(q) /\ Left(q)' = CallsOf(t) /\ clean' = clean /\ (Left(q)' # {} => Mem(q)' = m)
    BY <2>2, GoesElsewhere
  <2>4. "applyMigration" \in AllCalls
    BY DEF AllCalls, BootCalls
  <2>5. CallsOf(t) = Left(q) \cup {"applyMigration"}
    BY <1>3, <2>1, <2>4, CallsWithFirst
  <2> QED BY <1>1, <1>2, <1>3, <1>6, <2>3, <2>5
<1> QED BY <1>4, <1>5, <1>6

\* The calls of a start are made one after the other.
LEMMA BootOrder ==
    /\ \A c \in {"isApplied", "anyUser", "createOrg", "upsertUser", "addMember"} :
         ~Precedes(c, "applyMigration")
    /\ \A c \in {"anyUser", "createOrg", "upsertUser", "addMember"} : ~Precedes(c, "isApplied")
    /\ \A c \in {"createOrg", "upsertUser", "addMember"} : ~Precedes(c, "anyUser")
    /\ \A c \in {"upsertUser", "addMember"} : ~Precedes(c, "createOrg")
    /\ ~Precedes("addMember", "upsertUser")
    /\ \A c \in {"applyMigration", "isApplied", "anyUser", "createOrg", "upsertUser", "addMember"} :
         ~Precedes(c, c)
BY DEF Precedes, Rank

BootCallSet == {"applyMigration", "isApplied", "anyUser", "createOrg", "upsertUser", "addMember"}

\* The call at hand of a start is the first of those it has left.
LEMMA BootAtCall ==
    ASSUME AccountsInv, NEW q \in Requests, NEW c, At(q, c), Op(q) = "boot"
    PROVE  /\ c \in BootCallSet /\ c \in Left(q) /\ Left(q) \subseteq BootCallSet /\ Boots(q)
           /\ c # "applyMigration" => "applyMigration" \notin Left(q)
           /\ c \notin {"applyMigration", "isApplied"} => "isApplied" \notin Left(q)
           /\ c \in {"createOrg", "upsertUser", "addMember"} => "anyUser" \notin Left(q)
           /\ c \in {"upsertUser", "addMember"} => "createOrg" \notin Left(q)
           /\ c = "addMember" => "upsertUser" \notin Left(q)
           /\ ~Precedes(c, c)
<1>1. /\ c \in Left(q) /\ Known(Op(q), Left(q), Mem(q)) /\ \A d \in Left(q) : d = c \/ Precedes(c, d)
  BY AtCall
<1>2. Left(q) \subseteq BootCallSet
  BY <1>1 DEF Known, CallsOfOp, BootSteps, BootCallSet
<1>3. Boots(q) /\ c \in BootCallSet
  BY <1>1, <1>2 DEF Boots
<1> QED BY <1>1, <1>2, <1>3, BootOrder DEF BootCallSet

LEMMA MovedLeft ==
    ASSUME NEW q \in Requests, NEW c, NEW n, Moved(q, c, n), ~Precedes(c, c)
    PROVE  Left(q)' = Left(q) \ {c}
BY DEF Moved

\* What a start has left after a call, and what it still holds.
LEMMA BootGoesOn ==
    ASSUME AccountsInv, NEW q \in Requests, NEW c, Foot(q, c), ActsAs(q, c), Op(q) = "boot"
    PROVE  /\ \/ Left(q)' = {} \/ Left(q)' = Left(q) \ {c}
              \/ c = "isApplied" /\ Left(q)' \in {Left(q), Left(q) \cup {"applyMigration"}}
           /\ Left(q)' # {} => Mem(q)'.role = Mem(q).role
<1>1. At(q, c) /\ Advances(q, c)
  BY DEF Foot
<1>2. c \in BootCallSet /\ ~Precedes(c, c)
  BY <1>1, BootAtCall
<1>3. Left(q)' # {} => Mem(q)'.role = Mem(q).role
  BY <1>2, GoesOn DEF Recalls, BootCallSet
<1>4. CASE c = "isApplied"
  <2>1. IsApplied(q)
    BY <1>4 DEF ActsAs, SharedAs, PeopleAs, SignInAs, TokenAs, BootAs,
                SharedCalls, PeopleCalls, SignInCalls, TokenCalls, BootCalls
  <2>2. ~Precedes("isApplied", "isApplied")
    BY <1>2, <1>4
  <2>3. Moved(q, "isApplied", Mem(q)) => Left(q)' = Left(q) \ {"isApplied"}
    BY <2>2, MovedLeft
  <2> QED BY <1>3, <1>4, <2>1, <2>3, IsAppliedDoes
<1>5. CASE c # "isApplied"
  <2>1. c \notin Loops
    BY <1>2, <1>5 DEF Loops, BootCallSet
  <2>2. Ended(q) \/ \E n : Moved(q, c, n)
    BY <1>1, <2>1 DEF Advances
  <2> QED BY <1>2, <1>3, <2>2, MovedLeft DEF Ended
<1> QED BY <1>4, <1>5

LEMMA BootsKnowActs ==
    ASSUME AccountsInv, BootsKnow, NEW q \in Requests, Acts(q)
    PROVE  BootsKnow'
<1>1. PICK c : Foot(q, c)
  BY ActsFoot
<1>2. At(q, c) /\ ActsAs(q, c) /\ Others(q) /\ Op(q)' = Op(q)
  BY <1>1, ActsAt DEF Foot, Advances, Ended, Moved
<1> SUFFICES ASSUME NEW p \in Requests, Boots(p)'
             PROVE  BootCallsLeft(Left(p))' /\ Mem(p)'.role = "admin"
  BY DEF BootsKnow
<1>3. CASE p # q
  <2>1. proc'[p] = proc[p]
    BY <1>2, <1>3 DEF Others
  <2> QED BY <2>1 DEF BootsKnow, Boots, BootCallsLeft, Op, Left, Mem
<1>4. CASE p = q
  <2>1. Op(q) = "boot" /\ Left(q)' # {}
    BY <1>2, <1>4 DEF Boots
  <2>2. PICK L, M : L = Left(q) /\ M = Left(q)'
    OBVIOUS
  <2>3. /\ c \in BootCallSet /\ c \in L /\ L \subseteq BootCallSet /\ Boots(q)
        /\ c # "applyMigration" => "applyMigration" \notin L
        /\ c \notin {"applyMigration", "isApplied"} => "isApplied" \notin L
        /\ c \in {"createOrg", "upsertUser", "addMember"} => "anyUser" \notin L
        /\ c \in {"upsertUser", "addMember"} => "createOrg" \notin L
        /\ c = "addMember" => "upsertUser" \notin L
    BY <1>2, <2>1, <2>2, BootAtCall
  <2>4. BootCallsLeft(L) /\ Mem(q).role = "admin"
    BY <2>2, <2>3 DEF BootsKnow
  <2>5. /\ M # {} /\ \/ M = L \ {c}
                     \/ c = "isApplied" /\ M \in {L, L \cup {"applyMigration"}}
        /\ Mem(q)'.role = Mem(q).role
    BY <1>1, <1>2, <2>1, <2>2, BootGoesOn
  <2>6. BootCallsLeft(M)
    <3>1. CASE M = L \ {c}
      BY <2>3, <2>4, <2>5, <3>1 DEF BootCallsLeft, BootCallSet
    <3>2. CASE c = "isApplied" /\ M \in {L, L \cup {"applyMigration"}}
      BY <2>3, <2>4, <3>2 DEF BootCallsLeft
    <3> QED BY <2>5, <3>1, <3>2
  <2> QED BY <1>4, <2>2, <2>4, <2>5, <2>6 DEF BootCallsLeft
<1> QED BY <1>3, <1>4

LEMMA BootsKnowStep ==
    ASSUME AccountsInv, BootsKnow, [Next]_vars
    PROVE  BootsKnow'
<1>1. ASSUME NEW q \in Requests, Starts(q) PROVE BootsKnow'
  <2>1. Others(q) /\ Fresh(Op(q)', Left(q)') /\ (Op(q)' = "boot" => Mem(q)'.role = "admin")
    BY <1>1, StartsFresh, StartsHolding
  <2>2. Op(q)' = "boot" => Left(q)' = {"isApplied", "anyUser", "createOrg", "upsertUser", "addMember"}
    BY <2>1 DEF Fresh
  <2> QED BY <2>1, <2>2 DEF BootsKnow, Boots, BootCallsLeft, Others, Op, Left, Mem
<1>2. CASE \A p \in Requests : proc'[p] = proc[p] \/ Left(p)' = {}
  BY <1>2 DEF BootsKnow, Boots, BootCallsLeft, Op, Left, Mem
<1>3. ASSUME NEW q \in Requests, Aborts(q) PROVE \A p \in Requests : proc'[p] = proc[p] \/ Left(p)' = {}
  BY <1>3, EndsMoves DEF AccountsInv, Ended, Others
<1> QED BY <1>1, <1>2, <1>3, SetUpKinds, BootsKnowActs

(***************************************************************************)
(* Migrations.                                                             *)
(***************************************************************************)
LEMMA CommittedIs ==
    ASSUME SchemaInOrder, NEW n
    PROVE  Committed(n) <=> n \in 1..Len(schema)
<1>1. DOMAIN schema = 1..Len(schema) /\ \A i \in 1..Len(schema) : schema[i] = i
  BY DEF SchemaInOrder
<1> QED BY <1>1 DEF Committed

LEMMA OpsStep ==
    ASSUME AccountsInv, OpsInv, [Next]_vars
    PROVE  OpsInv'
<1>1. workload' = workload
  BY SetUpKinds
<1>2. ASSUME NEW q \in Requests, Starts(q) PROVE OpsInv'
  <2>1. Others(q) /\ Op(q)' \in workload.ops
    BY <1>2, StartsFresh, StartsHolding
  <2> QED BY <1>1, <2>1 DEF OpsInv, Others, Op
<1>3. CASE \A p \in Requests : Op(p)' = Op(p)
  BY <1>1, <1>3 DEF OpsInv
<1>4. ASSUME NEW q \in Requests, Aborts(q) PROVE \A p \in Requests : Op(p)' = Op(p)
  BY <1>4, EndsMoves DEF AccountsInv, Ended, Others, Op
<1>5. ASSUME NEW q \in Requests, Acts(q) PROVE \A p \in Requests : Op(p)' = Op(p)
  <2>1. PICK c : Foot(q, c)
    BY <1>5, ActsFoot
  <2> QED BY <2>1 DEF Foot, Advances, Ended, Moved, Others, Op
<1>6. CASE proc' = proc
  BY <1>6, <1>3 DEF Op
<1> QED BY <1>2, <1>3, <1>4, <1>5, <1>6, SetUpKinds

\* The next migration is committed, or another process was faster.
LEMMA MigratesApplied ==
    ASSUME AccountsInv, BootsKnow, MigratesInv, workload' = workload, NEW q \in Requests, ApplyMigration(q)
    PROVE  MigratesInv'
<1>1. At(q, "applyMigration") /\ db' = db
  BY DEF ApplyMigration
<1>2. PICK v : v = Mem(q).version
  OBVIOUS
<1>3. /\ Mem(q) \in AccountMemory /\ v \in Nat /\ ProcType /\ Listed(proc[q].todo)
      /\ "applyMigration" \in Left(q) /\ Known(Op(q), Left(q), Mem(q))
  BY <1>1, <1>2, AtCall DEF AccountMemory, AccountsInv
<1>4. Op(q) = "boot" /\ Boots(q)
  BY <1>3 DEF Known, CallsOfOp, Boots
<1>5. BootCallsLeft(Left(q)) /\ MigratesAt(q)
  BY <1>4 DEF BootsKnow, MigratesInv
<1>6. "isApplied" \in Left(q) /\ v <= Len(schema) /\ v # Migrations
  BY <1>2, <1>3, <1>5 DEF BootCallsLeft, MigratesAt
<1>7. /\ SchemaInOrder /\ schema \in Seq(Nat) /\ Len(schema) <= Migrations /\ Len(schema) \in Nat
      /\ \A i \in 1..Len(schema) : schema[i] = i
  BY DEF MigratesInv, SchemaInOrder
<1>8. CASE VersionTaken(v + 1)
  <2>1. Ends(q) /\ schema' = schema
    BY <1>2, <1>8 DEF ApplyMigration
  <2>2. Others(q) /\ Left(q)' = {}
    BY <1>3, <2>1, EndsMoves DEF Ended
  <2>3. \A p \in Requests : Boots(p)' => proc'[p] = proc[p]
    BY <2>2 DEF Boots, Others
  <2>4. \A p \in Requests : Boots(p)' => MigratesAt(p)'
    BY <2>1, <2>3 DEF MigratesInv, MigratesAt, Boots, Op, Left, Mem
  <2> QED BY <1>1, <2>1, <2>4 DEF MigratesInv, SchemaInOrder
<1>9. CASE ~VersionTaken(v + 1)
  <2>1. PICK n : n = [Mem(q) EXCEPT !.version = v + 1]
    OBVIOUS
  <2>2. Keeps(q, n) /\ schema' = Append(schema, v + 1)
    BY <1>2, <1>9, <2>1 DEF ApplyMigration
  <2>3. n \in AccountMemory /\ n.version = v + 1
    BY <1>3, <2>1 DEF AccountMemory
  <2>4. Moved(q, "applyMigration", n)
    BY <1>1, <1>3, <2>2, <2>3, KeepsMoves
  <2>5. v + 1 \notin 1..Len(schema)
    BY <1>7, <1>9, CommittedIs DEF VersionTaken
  <2>6. v = Len(schema)
    BY <1>3, <1>6, <1>7, <2>5
  <2>7. Migrations \in Nat
    BY StartupAssumption
  <2>8. /\ schema' \in Seq(Nat) /\ Len(schema') = v + 1 /\ v + 1 <= Migrations
        /\ \A i \in 1..Len(schema') : schema'[i] = i
    <3>1. schema' \in Seq(Nat) /\ Len(schema') = v + 1 /\ v + 1 <= Migrations
      BY <1>3, <1>6, <1>7, <2>2, <2>6, <2>7
    <3>2. ASSUME NEW i \in 1..(v + 1) PROVE schema'[i] = i
      BY <1>3, <1>7, <2>2, <2>6, <3>2
    <3> QED BY <3>1, <3>2
  <2>9. Len(schema) # Migrations
    BY <1>6, <2>6
  <2>10. ASSUME NEW p \in Requests, Boots(p)' PROVE MigratesAt(p)'
    <3>1. CASE p = q
      <4>1. Left(q)' # {} /\ Mem(q)' = n
        BY <2>4, <2>10, <3>1 DEF Boots, Moved
      <4>2. "isApplied" \in Left(q)' /\ "applyMigration" \notin Left(q)'
        BY <1>6, <2>4, BootOrder DEF Moved
      <4>3. v + 1 <= v + 1
        BY <1>3
      <4> QED BY <2>3, <2>8, <3>1, <4>1, <4>2, <4>3 DEF MigratesAt
    <3>2. CASE p # q
      <4>1. proc'[p] = proc[p]
        BY <2>4, <3>2 DEF Moved, Others
      <4>2. Boots(p) /\ Left(p)' = Left(p) /\ Mem(p)' = Mem(p)
        BY <2>10, <4>1 DEF Boots, Op, Left, Mem
      <4>3. MigratesAt(p)
        BY <4>2 DEF MigratesInv
      <4>4. PICK w : w = Mem(p).version
        OBVIOUS
      <4>5. w \in Nat
        BY <4>2, <4>4 DEF AccountsInv, Knows, Boots, AccountMemory
      <4>6. "isApplied" \in Left(p) /\ w <= Len(schema) /\ ("applyMigration" \in Left(p) => w # Migrations)
        BY <2>9, <4>3, <4>4 DEF MigratesAt
      <4>7. w <= v + 1
        BY <1>3, <2>6, <4>5, <4>6
      <4> QED BY <2>8, <4>2, <4>4, <4>6, <4>7 DEF MigratesAt
    <3> QED BY <3>1, <3>2
  <2>11. workload.ops = {"boot"} /\ db.users = Empty
    BY <2>9 DEF MigratesInv
  <2> QED BY <1>1, <2>8, <2>10, <2>11 DEF MigratesInv, SchemaInOrder
<1> QED BY <1>8, <1>9

LEMMA UsersSpared ==
    ASSUME NEW c, Spares(c, db'), c \notin {"createUser", "updateUser", "disableUser", "upsertUser"}
    PROVE  db'.users = db.users
<1>1. "users" \in Fields /\ Writers("users") = {"createUser", "updateUser", "disableUser", "upsertUser"}
  BY DEF Fields, Writers
<1> QED BY <1>1 DEF Spares

LEMMA MigratesChecked ==
    ASSUME AccountsInv, MigratesInv, NEW q \in Requests, IsApplied(q), Boots(q)'
    PROVE  MigratesAt(q)'
<1>1. /\ schema' = schema /\ Op(q)' = Op(q)
      /\ \/ Mem(q).version = Migrations /\ Moved(q, "isApplied", Mem(q))
         \/ /\ Mem(q).version # Migrations /\ Committed(Mem(q).version + 1)
            /\ Left(q)' = Left(q) /\ Mem(q)' = [Mem(q) EXCEPT !.version = Mem(q).version + 1]
         \/ /\ Mem(q).version # Migrations
            /\ Left(q)' = Left(q) \cup {"applyMigration"} /\ Mem(q)' = Mem(q)
  BY IsAppliedDoes
<1>2. PICK v : v = Mem(q).version
  OBVIOUS
<1>3. At(q, "isApplied") /\ Op(q) = "boot"
  BY <1>1 DEF Boots, IsApplied
<1>4. /\ Mem(q) \in AccountMemory /\ v \in Nat /\ "isApplied" \in Left(q) /\ "applyMigration" \notin Left(q)
      /\ Boots(q)
  BY <1>2, <1>3, AtCall, BootAtCall DEF AccountMemory
<1>5. /\ v <= Len(schema) /\ SchemaInOrder
      /\ Len(schema) \in Nat /\ Len(schema) <= Migrations /\ Migrations \in Nat
  BY <1>2, <1>4, StartupAssumption DEF MigratesInv, MigratesAt, SchemaInOrder
<1>6. CASE v = Migrations /\ Moved(q, "isApplied", Mem(q))
  <2>1. "isApplied" \notin Left(q)'
    BY <1>6, BootOrder DEF Moved
  <2>2. Len(schema) = Migrations
    BY <1>5, <1>6
  <2> QED BY <1>1, <2>1, <2>2 DEF MigratesAt
<1>7. CASE Committed(v + 1) /\ Left(q)' = Left(q) /\ Mem(q)' = [Mem(q) EXCEPT !.version = v + 1]
  <2>1. v + 1 \in 1..Len(schema)
    BY <1>5, <1>7, CommittedIs
  <2>2. Mem(q)'.version = v + 1 /\ v + 1 <= Len(schema)
    BY <1>4, <1>7, <2>1 DEF AccountMemory
  <2> QED BY <1>1, <1>4, <1>7, <2>2 DEF MigratesAt
<1>8. CASE v # Migrations /\ Left(q)' = Left(q) \cup {"applyMigration"} /\ Mem(q)' = Mem(q)
  BY <1>1, <1>2, <1>4, <1>5, <1>8 DEF MigratesAt
<1> QED BY <1>1, <1>2, <1>6, <1>7, <1>8

LEMMA MigratesActs ==
    ASSUME AccountsInv, OpsInv, BootsKnow, MigratesInv, workload' = workload, NEW q \in Requests, Acts(q),
           schema' = schema
    PROVE  MigratesInv'
<1>1. PICK c : Foot(q, c)
  BY ActsFoot
<1>2. At(q, c) /\ ActsAs(q, c) /\ Others(q) /\ Op(q)' = Op(q) /\ Spares(c, db')
  BY <1>1, ActsAt DEF Foot, Advances, Ended, Moved
<1>3. CASE c = "applyMigration"
  <2>1. ApplyMigration(q)
    BY <1>2, <1>3 DEF ActsAs, SharedAs, PeopleAs, SignInAs, TokenAs, BootAs,
                SharedCalls, PeopleCalls, SignInCalls, TokenCalls, BootCalls
  <2> QED BY <2>1, MigratesApplied
<1>4. CASE c # "applyMigration"
  <2>1. ASSUME NEW p \in Requests, Boots(p)' PROVE MigratesAt(p)'
    <3>1. CASE p # q
      <4>1. proc'[p] = proc[p]
        BY <1>2, <3>1 DEF Others
      <4> QED BY <2>1, <4>1 DEF MigratesInv, Boots, MigratesAt, Op, Left, Mem
    <3>2. CASE p = q /\ c = "isApplied"
      <4>1. IsApplied(q)
        BY <1>2, <3>2 DEF ActsAs, SharedAs, PeopleAs, SignInAs, TokenAs, BootAs,
                SharedCalls, PeopleCalls, SignInCalls, TokenCalls, BootCalls
      <4> QED BY <2>1, <3>2, <4>1, MigratesChecked
    <3>3. CASE p = q /\ c # "isApplied"
      <4>1. Op(q) = "boot" /\ Left(q)' # {}
        BY <1>2, <2>1, <3>3 DEF Boots
      <4>2. "isApplied" \notin Left(q) /\ Boots(q)
        BY <1>2, <1>4, <3>3, <4>1, BootAtCall
      <4>3. Left(q)' = Left(q) \ {c}
        BY <1>1, <1>2, <3>3, <4>1, BootGoesOn
      <4>4. Len(schema) = Migrations
        BY <4>2 DEF MigratesInv, MigratesAt
      <4> QED BY <3>3, <4>2, <4>3, <4>4 DEF MigratesAt
    <3> QED BY <3>1, <3>2, <3>3
  <2>2. Len(schema) = Migrations \/ (workload.ops = {"boot"} /\ db'.users = Empty)
    <3>1. SUFFICES ASSUME Len(schema) # Migrations PROVE workload.ops = {"boot"} /\ db'.users = Empty
      OBVIOUS
    <3>2. workload.ops = {"boot"} /\ db.users = Empty
      BY <3>1 DEF MigratesInv
    <3>3. Op(q) = "boot"
      BY <1>2, <3>2, AtCall DEF OpsInv
    <3>4. /\ c \in BootCallSet /\ Boots(q)
          /\ c \notin {"applyMigration", "isApplied"} => "isApplied" \notin Left(q)
      BY <1>2, <3>3, BootAtCall
    <3>5. "isApplied" \in Left(q)
      BY <3>1, <3>4 DEF MigratesInv, MigratesAt
    <3>6. c \in {"applyMigration", "isApplied"}
      BY <3>4, <3>5
    <3>7. db'.users = db.users
      BY <1>2, <3>6, UsersSpared
    <3> QED BY <3>2, <3>7
  <2> QED BY <2>1, <2>2 DEF MigratesInv, SchemaInOrder
<1> QED BY <1>3, <1>4

LEMMA MigratesStep ==
    ASSUME AccountsInv, OpsInv, BootsKnow, MigratesInv, [Next]_vars
    PROVE  MigratesInv'
<1>1. workload' = workload
  BY SetUpKinds
<1>2. ASSUME NEW q \in Requests, Starts(q), schema' = schema PROVE MigratesInv'
  <2>1. Others(q) /\ Fresh(Op(q)', Left(q)') /\ (Op(q)' = "boot" => Mem(q)'.version = 0) /\ db' = db
    BY <1>2, StartsFresh, StartsHolding
  <2>2. Op(q)' = "boot" => Left(q)' = {"isApplied", "anyUser", "createOrg", "upsertUser", "addMember"}
    BY <2>1 DEF Fresh
  <2>3. Len(schema) \in Nat /\ 0 <= Len(schema)
    BY DEF MigratesInv, SchemaInOrder
  <2>4. Boots(q)' => MigratesAt(q)'
    <3>1. HAVE Boots(q)'
    <3>2. Mem(q)'.version <= Len(schema)'
      BY <1>2, <2>1, <2>3, <3>1 DEF Boots
    <3> QED BY <2>2, <3>1, <3>2 DEF Boots, MigratesAt
  <2>5. ASSUME NEW p \in Requests, p # q, Boots(p)' PROVE MigratesAt(p)'
    BY <1>2, <2>1, <2>5 DEF MigratesInv, Boots, MigratesAt, Others, Op, Left, Mem
  <2> QED BY <1>1, <1>2, <2>1, <2>4, <2>5 DEF MigratesInv, SchemaInOrder
<1>3. CASE UNCHANGED <<db, schema>> /\ \A p \in Requests : proc'[p] = proc[p] \/ Left(p)' = {}
  <2>1. \A p \in Requests : Boots(p)' => MigratesAt(p)'
    BY <1>3 DEF MigratesInv, Boots, MigratesAt, Op, Left, Mem
  <2> QED BY <1>1, <1>3, <2>1 DEF MigratesInv, SchemaInOrder
<1>4. ASSUME NEW q \in Requests, Aborts(q) PROVE \A p \in Requests : proc'[p] = proc[p] \/ Left(p)' = {}
  BY <1>4, EndsMoves DEF AccountsInv, Ended, Others
<1> QED BY <1>1, <1>2, <1>3, <1>4, SetUpKinds, MigratesActs, MigratesApplied

(***************************************************************************)
(* The first organisation and its admin.                                   *)
(***************************************************************************)
\* As long as processes start one after the other, only the one that is under
\* way can have found nobody.
LEMMA FoundingAlone ==
    ASSUME AccountsInv, BusyInv, clean, NEW q \in Requests, NEW c, Foot(q, c)
    PROVE  \A p \in Requests : (Founding(p) => p = q) /\ (Founding(p)' => p = q)
<1>1. Busy(q) /\ Others(q) /\ \A p, r \in UnderWay : p = r
  BY FootBusy DEF BusyInv
<1>2. \A p \in Requests : Left(p) # {} => p = q
  BY <1>1, NoneBusyLeft DEF UnderWay, AccountsInv
<1>3. \A p \in Requests : p # q => Left(p)' = Left(p)
  BY <1>1 DEF Others, Left
<1> QED BY <1>2, <1>3 DEF Founding, Boots

\* Nobody is there.
LEMMA FoundsNobody ==
    ASSUME AccountsInv, BootsKnow, HasAdmins, NEW q \in Requests, Op(q) = "boot", AnyUserExists(q)
    PROVE  IF Left(q)' = {} THEN db' = db ELSE Founding(q)' /\ Founded(q)'
<1>1. At(q, "anyUser") /\ Mem(q) \in AccountMemory /\ Listed(proc[q].todo) /\ ProcType
  BY AtCall DEF AnyUserExists, AccountsInv
<1>2. db' = db
  BY DEF AnyUserExists, Reads, Refuses
<1>3. SUFFICES ASSUME Left(q)' # {} PROVE Founding(q)' /\ Founded(q)'
  BY <1>2
<1>4. NoUserYet /\ Reads(q, Mem(q))
  <2>1. Refuses(q) => Left(q)' = {}
    BY <1>1, EndsMoves DEF Refuses, Ended
  <2> QED BY <1>3, <2>1 DEF AnyUserExists
<1>5. Moved(q, "anyUser", Mem(q))
  BY <1>1, <1>4, KeepsMoves DEF Reads
<1>6. /\ Op(q)' = "boot" /\ Left(q)' = Left(q) \ {"anyUser"} /\ BootCallsLeft(Left(q)) /\ "anyUser" \in Left(q)
      /\ Boots(q)
  BY <1>1, <1>5, BootAtCall, MovedLeft DEF BootsKnow, Moved
<1>7. /\ "createOrg" \in Left(q)' /\ "upsertUser" \in Left(q)' /\ "anyUser" \notin Left(q)'
  BY <1>6 DEF BootCallsLeft
<1>8. Founding(q)'
  BY <1>3, <1>6, <1>7 DEF Founding, Boots
<1>9. DOMAIN db.users = {}
  BY <1>4 DEF NoUserYet, Empty
<1>10. DOMAIN db.orgs = {}
  BY <1>9 DEF HasAdmins
<1>11. DOMAIN db.members = {}
  BY <1>9 DEF AccountsInv, DbOK, MembersOK
<1> QED BY <1>2, <1>7, <1>8, <1>9, <1>10, <1>11 DEF Founded

LEMMA FoundsOrg ==
    ASSUME AccountsInv, BootsKnow, NEW q \in Requests, Op(q) = "boot", CreateOrg(q), Founding(q), Founded(q)
    PROVE  Founding(q)' /\ Founded(q)'
<1>1. At(q, "createOrg") /\ Mem(q) \in AccountMemory /\ Listed(proc[q].todo) /\ ProcType
  BY AtCall DEF CreateOrg, AccountsInv
<1>2. PICK row : db' = [db EXCEPT !.orgs = With(db.orgs, q, row)]
  BY DEF CreateOrg, Writes
<1>3. PICK n : n = [Mem(q) EXCEPT !.org = q] /\ Keeps(q, n)
  BY DEF CreateOrg, Writes
<1>4. n \in AccountMemory /\ n.org = q /\ n.user = Mem(q).user
  BY <1>1, <1>3 DEF AccountMemory, MaybeId, Ids
<1>5. Moved(q, "createOrg", n)
  BY <1>1, <1>3, <1>4, KeepsMoves
<1>6. /\ Op(q)' = "boot" /\ Left(q)' = Left(q) \ {"createOrg"}
      /\ BootCallsLeft(Left(q)) /\ "createOrg" \in Left(q)
  BY <1>1, <1>5, BootAtCall, MovedLeft DEF BootsKnow, Moved
<1>7. /\ "addMember" \in Left(q)' /\ "upsertUser" \in Left(q)'
      /\ "anyUser" \notin Left(q)' /\ "createOrg" \notin Left(q)'
  BY <1>6 DEF BootCallsLeft, Founding
<1>8. Mem(q)' = n
  BY <1>5, <1>7 DEF Moved
<1>9. DOMAIN db = Fields
  BY DEF AccountsInv, DbOK
<1>10. db'.orgs = With(db.orgs, q, row) /\ db'.users = db.users /\ db'.members = db.members
  BY <1>2, <1>9 DEF Fields
<1>11. DOMAIN db'.orgs = {q}
  BY <1>6, <1>10 DEF Founded, With
<1>12. "upsertUser" \in Left(q)
  BY <1>6 DEF BootCallsLeft
<1>13. DOMAIN db'.users = {} /\ DOMAIN db'.members = {}
  BY <1>10, <1>12 DEF Founded
<1>14. Founded(q)'
  BY <1>4, <1>7, <1>8, <1>11, <1>13 DEF Founded
<1> QED BY <1>6, <1>7, <1>14 DEF Founding, Boots

LEMMA FoundsUser ==
    ASSUME AccountsInv, BootsKnow, NEW q \in Requests, Op(q) = "boot", UpsertUser(q), Founding(q), Founded(q)
    PROVE  Founding(q)' /\ Founded(q)'
<1>1. At(q, "upsertUser") /\ Mem(q) \in AccountMemory /\ Listed(proc[q].todo) /\ ProcType
  BY AtCall DEF UpsertUser, AccountsInv
<1>2. /\ Op(q) = "boot" /\ BootCallsLeft(Left(q)) /\ "upsertUser" \in Left(q) /\ "createOrg" \notin Left(q)
      /\ ~Precedes("upsertUser", "upsertUser")
  BY <1>1, BootAtCall DEF BootsKnow
<1>3. DOMAIN db.users = {}
  BY <1>2 DEF Founded
<1>4. ByEmail(SeedEmail) = {}
  BY <1>3 DEF ByEmail
<1>5. PICK row : db' = [db EXCEPT !.users = With(db.users, q, row)]
  BY <1>4 DEF UpsertUser, Writes
<1>6. PICK n : n = [Mem(q) EXCEPT !.user = q] /\ Keeps(q, n)
  BY DEF UpsertUser, Writes
<1>7. n \in AccountMemory /\ n.user = q /\ n.org = Mem(q).org
  BY <1>1, <1>6 DEF AccountMemory, MaybeId, Ids
<1>8. Moved(q, "upsertUser", n)
  BY <1>1, <1>6, <1>7, KeepsMoves
<1>9. Op(q)' = "boot" /\ Left(q)' = Left(q) \ {"upsertUser"}
  BY <1>2, <1>8, MovedLeft DEF Moved
<1>10. /\ "addMember" \in Left(q)' /\ "upsertUser" \notin Left(q)'
       /\ "anyUser" \notin Left(q)' /\ "createOrg" \notin Left(q)'
  BY <1>2, <1>9 DEF BootCallsLeft, Founding
<1>11. Mem(q)' = n
  BY <1>8, <1>10 DEF Moved
<1>12. DOMAIN db = Fields
  BY DEF AccountsInv, DbOK
<1>13. db'.users = With(db.users, q, row) /\ db'.orgs = db.orgs /\ db'.members = db.members
  BY <1>5, <1>12 DEF Fields
<1>14. DOMAIN db'.users = {q}
  BY <1>3, <1>13 DEF With
<1>15. DOMAIN db'.orgs = {q} /\ DOMAIN db'.members = {} /\ Mem(q).org = q
  BY <1>2, <1>13 DEF Founded
<1>16. Founded(q)'
  BY <1>7, <1>10, <1>11, <1>14, <1>15 DEF Founded
<1> QED BY <1>9, <1>10, <1>16 DEF Founding, Boots

LEMMA FoundsAdmin ==
    ASSUME AccountsInv, BootsKnow, NEW q \in Requests, Op(q) = "boot", AddMember(q), Founding(q), Founded(q)
    PROVE  HasAdmins'
<1>1. At(q, "addMember")
  BY DEF AddMember
<1>2. /\ "upsertUser" \notin Left(q) /\ "createOrg" \notin Left(q) /\ Mem(q).role = "admin"
  BY <1>1, BootAtCall DEF BootsKnow
<1>3. /\ DOMAIN db.members = {} /\ DOMAIN db.orgs = {q}
      /\ DOMAIN db.users = {q} /\ Mem(q).org = q /\ Mem(q).user = q
  BY <1>2 DEF Founded
<1>4. MayJoin(Mem(q).user, Mem(q).org)
  BY <1>3 DEF MayJoin
<1>5. PICK row : row = [role |-> "admin", source |-> "manual"]
  OBVIOUS
<1>6. db' = [db EXCEPT !.members = With(db.members, <<q, q>>, row)]
  BY <1>2, <1>3, <1>4, <1>5 DEF AddMember, Writes
<1>7. DOMAIN db = Fields
  BY DEF AccountsInv, DbOK
<1>8. db'.members = With(db.members, <<q, q>>, row) /\ db'.orgs = db.orgs /\ db'.users = db.users
  BY <1>6, <1>7 DEF Fields
<1>9. <<q, q>> \in DOMAIN db'.members /\ db'.members[<<q, q>>] = row
  BY <1>8 DEF With
<1> QED BY <1>3, <1>5, <1>8, <1>9 DEF HasAdmins

LEMMA AdminActs ==
    ASSUME AccountsInv, BusyInv, BootsKnow, AdminInv, NEW q \in Requests, Acts(q)
    PROVE  AdminInv'
<1>1. PICK c : Foot(q, c)
  BY ActsFoot
<1>2. At(q, c) /\ ActsAs(q, c) /\ Others(q) /\ Op(q)' = Op(q) /\ Spares(c, db') /\ (clean' => clean)
  BY <1>1, ActsAt DEF Foot, Advances, Ended, Moved
<1> SUFFICES ASSUME clean', OnlyBoots'
             PROVE  /\ \A p \in Requests : Founding(p)' => Founded(p)'
                    /\ HasAdmins' \/ \E p \in Requests : Founding(p)'
  BY DEF AdminInv
<1>3. clean /\ OnlyBoots /\ Op(q) = "boot"
  <2>1. \A p \in Requests : Op(p)' = Op(p)
    BY <1>2 DEF Others, Op
  <2> QED BY <1>2, <2>1, AtCall DEF OnlyBoots
<1>4. \A p \in Requests : (Founding(p) => p = q) /\ (Founding(p)' => p = q)
  BY <1>1, <1>3, FoundingAlone
<1>5. /\ Founding(q) => Founded(q)
      /\ HasAdmins \/ Founding(q)
  BY <1>3, <1>4 DEF AdminInv
<1>6. SUFFICES (Founding(q)' /\ Founded(q)') \/ (~Founding(q)' /\ HasAdmins')
  BY <1>4
<1>7. /\ c \in BootCallSet /\ c \in Left(q) /\ Boots(q)
      /\ c \in {"createOrg", "upsertUser", "addMember"} => "anyUser" \notin Left(q)
      /\ c = "addMember" => Left(q) \subseteq {"addMember"}
  BY <1>2, <1>3, BootAtCall DEF BootCallSet
<1>8. BootCallsLeft(Left(q))
  BY <1>7 DEF BootsKnow
<1>9. CASE c \in {"applyMigration", "isApplied"}
  <2>1. "anyUser" \in Left(q)
    BY <1>7, <1>8, <1>9 DEF BootCallsLeft
  <2>2. Left(q)' # {} => "anyUser" \in Left(q)'
    BY <1>1, <1>2, <1>3, <1>9, <2>1, BootGoesOn
  <2>3. HasAdmins /\ ~Founding(q)'
    BY <1>5, <2>1, <2>2 DEF Founding, Boots
  <2>4. db'.users = db.users /\ db'.members = db.members /\ db'.orgs = db.orgs
    BY <1>2, <1>9, UsersSpared, SparedToo
  <2> QED BY <2>3, <2>4 DEF HasAdmins
<1>10. CASE c = "anyUser"
  <2>1. AnyUserExists(q)
    BY <1>2, <1>10 DEF ActsAs, SharedAs, PeopleAs, SignInAs, TokenAs, BootAs,
                SharedCalls, PeopleCalls, SignInCalls, TokenCalls, BootCalls
  <2>2. HasAdmins
    BY <1>5, <1>7, <1>10 DEF Founding
  <2>3. IF Left(q)' = {} THEN db' = db ELSE Founding(q)' /\ Founded(q)'
    BY <1>3, <2>1, <2>2, FoundsNobody
  <2> QED BY <2>2, <2>3 DEF HasAdmins, Founding, Boots
<1>11. CASE c \in {"createOrg", "upsertUser", "addMember"}
  <2>1. Founding(q) /\ Founded(q)
    BY <1>5, <1>7, <1>11 DEF Founding
  <2>2. CASE c = "createOrg"
    <3>1. CreateOrg(q)
      BY <1>2, <2>2 DEF ActsAs, SharedAs, PeopleAs, SignInAs, TokenAs, BootAs,
                SharedCalls, PeopleCalls, SignInCalls, TokenCalls, BootCalls
    <3> QED BY <1>3, <2>1, <3>1, FoundsOrg
  <2>3. CASE c = "upsertUser"
    <3>1. UpsertUser(q)
      BY <1>2, <2>3 DEF ActsAs, SharedAs, PeopleAs, SignInAs, TokenAs, BootAs,
                SharedCalls, PeopleCalls, SignInCalls, TokenCalls, BootCalls
    <3> QED BY <1>3, <2>1, <3>1, FoundsUser
  <2>4. CASE c = "addMember"
    <3>1. AddMember(q)
      BY <1>2, <2>4 DEF ActsAs, SharedAs, PeopleAs, SignInAs, TokenAs, BootAs,
                SharedCalls, PeopleCalls, SignInCalls, TokenCalls, BootCalls
    <3>2. Left(q)' = {}
      BY <1>1, <1>2, <1>3, <1>7, <2>4, BootGoesOn
    <3> QED BY <1>3, <2>1, <3>1, <3>2, FoundsAdmin DEF Founding, Boots
  <2> QED BY <1>11, <2>2, <2>3, <2>4
<1> QED BY <1>7, <1>9, <1>10, <1>11 DEF BootCallSet

LEMMA AdminStep ==
    ASSUME AccountsInv, BusyInv, BootsKnow, AdminInv, [Next]_vars
    PROVE  AdminInv'
<1>1. ASSUME NEW q \in Requests, Starts(q) PROVE AdminInv'
  <2>1. /\ Others(q) /\ Fresh(Op(q)', Left(q)') /\ db' = db /\ clean' = (clean /\ Quiet) /\ Op(q) = "none"
    BY <1>1, StartsFresh
  <2> SUFFICES ASSUME clean', OnlyBoots'
               PROVE  HasAdmins' /\ \A p \in Requests : ~Founding(p)'
    BY DEF AdminInv
  <2>2. clean /\ \A p \in Requests : Left(p) = {}
    BY <2>1, BusyCalls DEF Quiet, AccountsInv
  <2>3. OnlyBoots
    BY <2>1 DEF OnlyBoots, Others, Op
  <2>4. \A p \in Requests : ~Founding(p)
    BY <2>2 DEF Founding, Boots
  <2>5. HasAdmins
    BY <2>2, <2>3, <2>4 DEF AdminInv
  <2>6. ~Founding(q)'
    BY <2>1 DEF Founding, Boots, Fresh
  <2>7. \A p \in Requests : p # q => ~Founding(p)'
    BY <2>1, <2>2 DEF Founding, Boots, Others, Left
  <2> QED BY <2>1, <2>5, <2>6, <2>7 DEF HasAdmins
<1>2. ASSUME NEW q \in Requests, Aborts(q) PROVE AdminInv'
  BY <1>2 DEF AdminInv, Aborts
<1>3. CASE UNCHANGED <<proc, clean, db, schema>>
  BY <1>3 DEF AdminInv, OnlyBoots, HasAdmins, Founding, Founded, Boots, Op, Left, Mem
<1> QED BY <1>1, <1>2, <1>3, SetUpKinds, AdminActs

(***************************************************************************)
(* What the calls of several operations do to the tables.                  *)
(***************************************************************************)
LEMMA ActsOfCalls ==
    ASSUME NEW q, NEW c, ActsAs(q, c)
    PROVE  /\ c = "createUser" => CreateUser(q)
           /\ c = "createOrg" => CreateOrg(q)
           /\ c = "addMember" => AddMember(q)
           /\ c = "createSystemAccount" => CreateSystemAccount(q)
           /\ c = "createSession" => CreateSession(q)
           /\ c = "updateOrg" => UpdateOrg(q)
           /\ c = "setOnboardingDone" => SetOnboardingDone(q)
           /\ c = "deleteOrg" => DeleteOrg(q)
           /\ c = "updateMemberRole" => UpdateMemberRole(q)
           /\ c = "removeMember" => RemoveMember(q)
           /\ c = "upsertMember" => UpsertMember(q)
           /\ c = "deleteSession" => DeleteSession(q)
           /\ c = "getAccount" => GetServiceAccount(q)
           /\ c = "updateAccount" => UpdateServiceAccount(q)
           /\ c = "deleteAccount" => DeleteServiceAccount(q)
BY DEF ActsAs, SharedAs, PeopleAs, SignInAs, TokenAs, BootAs,
       SharedCalls, PeopleCalls, SignInCalls, TokenCalls, BootCalls

\* An organisation is made by the request whose it is.
LEMMA OrgsGrow ==
    ASSUME AccountsInv, NEW q \in Requests, NEW c, ActsAs(q, c), Spares(c, db')
    PROVE  /\ c # "createOrg" => DOMAIN db'.orgs \subseteq DOMAIN db.orgs
           /\ DOMAIN db'.orgs \subseteq DOMAIN db.orgs \cup {q}
           /\ c = "deleteOrg" => Mem(q).org \notin DOMAIN db'.orgs
<1>1. DOMAIN db = Fields
  BY DEF AccountsInv, DbOK
<1>2. CASE c = "createOrg"
  <2>1. PICK row, os : os = With(db.orgs, q, row) /\ db' = [db EXCEPT !.orgs = os]
    BY <1>2, ActsOfCalls DEF CreateOrg, Writes
  <2>2. db'.orgs = os
    BY <1>1, <2>1 DEF Fields
  <2> QED BY <1>2, <2>1, <2>2 DEF With
<1>3. CASE c \in {"updateOrg", "setOnboardingDone"}
  <2>1. UpdateOrg(q) \/ SetOnboardingDone(q)
    BY <1>3, ActsOfCalls
  <2>2. db' = db \/ \E o, row : db' = [db EXCEPT !.orgs = [db.orgs EXCEPT ![o] = row]]
    BY <2>1 DEF UpdateOrg, SetOnboardingDone, Writes
  <2>3. ASSUME NEW o, NEW row, db' = [db EXCEPT !.orgs = [db.orgs EXCEPT ![o] = row]]
        PROVE  DOMAIN db'.orgs \subseteq DOMAIN db.orgs
    <3>1. PICK os : os = [db.orgs EXCEPT ![o] = row]
      OBVIOUS
    <3>2. db'.orgs = os
      BY <1>1, <2>3, <3>1 DEF Fields
    <3> QED BY <3>1, <3>2
  <2>4. DOMAIN db'.orgs \subseteq DOMAIN db.orgs
    BY <2>2, <2>3
  <2> QED BY <1>3, <2>4
<1>4. CASE c = "deleteOrg"
  <2>1. DeletedOrg(Mem(q).org)
    BY <1>1, <1>4, ActsOfCalls, DeleteOrgDoes
  <2>2. db'.orgs = Keep(db.orgs, Ids \ {Mem(q).org})
    BY <2>1 DEF DeletedOrg
  <2> QED BY <1>4, <2>2 DEF Keep
<1>5. CASE c \notin {"createOrg", "updateOrg", "setOnboardingDone", "deleteOrg"}
  BY <1>5, SparedToo
<1> QED BY <1>2, <1>3, <1>4, <1>5

LEMMA SessionsGrow ==
    ASSUME AccountsInv, NEW q \in Requests, NEW c, ActsAs(q, c), Spares(c, db')
    PROVE  /\ c # "createSession" => DOMAIN db'.sessions \subseteq DOMAIN db.sessions
           /\ DOMAIN db'.sessions \subseteq DOMAIN db.sessions \cup {q}
<1>1. DOMAIN db = Fields
  BY DEF AccountsInv, DbOK
<1>2. CASE c = "createSession"
  <2>1. PICK row, ss : ss = With(db.sessions, q, row) /\ db' = [db EXCEPT !.sessions = ss]
    BY <1>2, ActsOfCalls DEF CreateSession, Writes
  <2>2. db'.sessions = ss
    BY <1>1, <2>1 DEF Fields
  <2> QED BY <1>2, <2>1, <2>2 DEF With
<1>3. CASE c = "deleteSession"
  <2>1. PICK K, ss : ss = Keep(db.sessions, K) /\ db' = [db EXCEPT !.sessions = ss]
    BY <1>3, ActsOfCalls DEF DeleteSession, Writes
  <2>2. db'.sessions = ss
    BY <1>1, <2>1 DEF Fields
  <2> QED BY <1>3, <2>1, <2>2 DEF Keep
<1>4. CASE c \notin {"createSession", "deleteSession"}
  BY <1>4, Spared
<1> QED BY <1>2, <1>3, <1>4

\* A member is removed by a request to remove it, or goes with the organisation.
LEMMA MembersPersist ==
    ASSUME AccountsInv, NEW q \in Requests, NEW c, ActsAs(q, c), Spares(c, db'),
           NEW k \in DOMAIN db.members
    PROVE  k \in DOMAIN db'.members \/ c = "removeMember" \/ (c = "deleteOrg" /\ k[2] = Mem(q).org)
<1>1. DOMAIN db = Fields
  BY DEF AccountsInv, DbOK
<1>2. CASE c = "addMember"
  <2>1. db' = db \/ \E x, row : db' = [db EXCEPT !.members = With(db.members, x, row)]
    BY <1>2, ActsOfCalls DEF AddMember, Writes, Refuses
  <2>2. ASSUME NEW x, NEW row, db' = [db EXCEPT !.members = With(db.members, x, row)]
        PROVE  k \in DOMAIN db'.members
    <3>1. PICK ms : ms = With(db.members, x, row)
      OBVIOUS
    <3>2. db'.members = ms
      BY <1>1, <2>2, <3>1 DEF Fields
    <3> QED BY <3>1, <3>2 DEF With
  <2> QED BY <2>1, <2>2
<1>3. CASE c = "upsertMember"
  <2>1. db' = db \/ \E x, row : db' = [db EXCEPT !.members = With(db.members, x, row)]
    BY <1>3, ActsOfCalls DEF UpsertMember, Writes, Refuses
  <2>2. ASSUME NEW x, NEW row, db' = [db EXCEPT !.members = With(db.members, x, row)]
        PROVE  k \in DOMAIN db'.members
    <3>1. PICK ms : ms = With(db.members, x, row)
      OBVIOUS
    <3>2. db'.members = ms
      BY <1>1, <2>2, <3>1 DEF Fields
    <3> QED BY <3>1, <3>2 DEF With
  <2> QED BY <2>1, <2>2
<1>4. CASE c = "updateMemberRole"
  <2>1. db' = db \/ \E x, row : db' = [db EXCEPT !.members = [db.members EXCEPT ![x] = row]]
    BY <1>4, ActsOfCalls DEF UpdateMemberRole, Writes
  <2>2. ASSUME NEW x, NEW row, db' = [db EXCEPT !.members = [db.members EXCEPT ![x] = row]]
        PROVE  k \in DOMAIN db'.members
    <3>1. PICK ms : ms = [db.members EXCEPT ![x] = row]
      OBVIOUS
    <3>2. db'.members = ms
      BY <1>1, <2>2, <3>1 DEF Fields
    <3> QED BY <3>1, <3>2
  <2> QED BY <2>1, <2>2
<1>5. CASE c = "deleteOrg"
  <2>1. DeletedOrg(Mem(q).org)
    BY <1>1, <1>5, ActsOfCalls, DeleteOrgDoes
  <2>2. db'.members = Keep(db.members, {x \in DOMAIN db.members : x[2] # Mem(q).org})
    BY <2>1 DEF DeletedOrg
  <2> QED BY <1>5, <2>2 DEF Keep
<1>6. CASE c \notin {"addMember", "upsertMember", "updateMemberRole", "removeMember", "deleteOrg"}
  BY <1>6, SparedToo
<1> QED BY <1>2, <1>3, <1>4, <1>5, <1>6

\* An account that there is keeps its row, unless it is edited or goes with its
\* organisation; another is made by the request whose it is.
LEMMA AccountsPersist ==
    ASSUME AccountsInv, UnmadeFree, NEW q \in Requests, NEW c, At(q, c), ActsAs(q, c), Spares(c, db')
    PROVE  /\ \A a \in DOMAIN db.accounts :
                \/ a \in DOMAIN db'.accounts /\ db'.accounts[a] = db.accounts[a]
                \/ c \in {"updateAccount", "deleteAccount"} /\ a = Mem(q).ref
                \/ c = "deleteOrg" /\ db.accounts[a].org = Mem(q).org
           /\ \A a \in DOMAIN db'.accounts :
                \/ a \in DOMAIN db.accounts /\ db'.accounts[a].internal = db.accounts[a].internal
                \/ a = q /\ c \in Inserters
<1>1. DOMAIN db = Fields /\ AccountsOK(db.accounts, db.orgs)
  BY DEF AccountsInv, DbOK
<1>2. CASE c \in Inserters
  <2>1. c \in Left(q)
    BY AtCall
  <2>2. q \notin DOMAIN db.accounts
    BY <1>2, <2>1 DEF UnmadeFree, Unmade
  <2>3. CASE db' = db
    BY <2>3
  <2>4. CASE db' # db
    <3>1. PICK row, as : as = With(db.accounts, q, row) /\ db' = [db EXCEPT !.accounts = as]
      BY <1>2, <2>4, InsertDoes
    <3>2. db'.accounts = as
      BY <1>1, <3>1 DEF Fields
    <3> QED BY <1>2, <2>2, <3>1, <3>2 DEF With
  <2> QED BY <2>3, <2>4
<1>3. CASE c = "deleteOrg"
  <2>1. DeletedOrg(Mem(q).org)
    BY <1>1, <1>3, ActsOfCalls, DeleteOrgDoes
  <2>2. db'.accounts = Keep(db.accounts, {x \in DOMAIN db.accounts : db.accounts[x].org # Mem(q).org})
    BY <2>1 DEF DeletedOrg
  <2> QED BY <1>3, <2>2 DEF Keep
<1>4. CASE c \notin Inserters \cup {"deleteOrg"}
  <2>1. AccountsStay
    BY <1>4, AccountsOn
  <2>2. \A a \in DOMAIN db.accounts :
            db'.accounts[a] = db.accounts[a] \/ (c \in {"updateAccount", "deleteAccount"} /\ a = Mem(q).ref)
    <3>1. CASE c \in {"updateAccount", "deleteAccount"}
      <4>1. db' = db \/ \E row : db' = [db EXCEPT !.accounts = [db.accounts EXCEPT ![Mem(q).ref] = row]]
        <5>1. CASE c = "updateAccount"
          BY <5>1, ActsOfCalls DEF UpdateServiceAccount, Writes
        <5>2. CASE c = "deleteAccount"
          BY <5>2, ActsOfCalls DEF DeleteServiceAccount, Writes
        <5> QED BY <3>1, <5>1, <5>2
      <4>2. ASSUME NEW row, db' = [db EXCEPT !.accounts = [db.accounts EXCEPT ![Mem(q).ref] = row]]
            PROVE  \A a \in DOMAIN db.accounts : db'.accounts[a] = db.accounts[a] \/ a = Mem(q).ref
        <5>1. PICK r, as : r = Mem(q).ref /\ as = [db.accounts EXCEPT ![r] = row]
          OBVIOUS
        <5>2. db'.accounts = as
          BY <1>1, <4>2, <5>1 DEF Fields
        <5> QED BY <5>1, <5>2
      <4> QED BY <3>1, <4>1, <4>2
    <3>2. CASE c \notin {"updateAccount", "deleteAccount"}
      BY <1>4, <3>2, SparedToo
    <3> QED BY <3>1, <3>2
  <2> QED BY <2>1, <2>2 DEF AccountsStay
<1> QED BY <1>2, <1>3, <1>4

(***************************************************************************)
(* Sign-ups.                                                               *)
(***************************************************************************)
ProvisionCallSet ==
    {"emailFree", "createUser", "createOrg", "addMember", "createSystemAccount", "createSession"}

LEMMA ProvisionOrder ==
    /\ \A d \in ProvisionCallSet : ~Precedes("createSession", d)
    /\ ~Precedes("addMember", "createOrg") /\ ~Precedes("addMember", "createUser")
    /\ ~Precedes("createSystemAccount", "createOrg") /\ ~Precedes("createSystemAccount", "addMember")
    /\ \A c \in {"createOrg", "addMember", "createSystemAccount", "createSession"} : ~Precedes(c, c)
BY DEF Precedes, Rank, ProvisionCallSet, Inserters, Makers

LEMMA ProvisionAtCall ==
    ASSUME AccountsInv, ProvisionsKnow, NEW q \in Requests, NEW c, At(q, c), Op(q) = "provision"
    PROVE  /\ Provisions(q) /\ ProvisionCalls(Left(q)) /\ c \in Left(q) /\ c \in ProvisionCallSet
           /\ Left(q) \subseteq ProvisionCallSet
           /\ c = "createSession" => Left(q) \subseteq {"createSession"}
           /\ c = "addMember" => "createOrg" \notin Left(q) /\ "createUser" \notin Left(q)
           /\ c = "createSystemAccount" => "createOrg" \notin Left(q) /\ "addMember" \notin Left(q)
<1>1. c \in Left(q) /\ \A d \in Left(q) : d = c \/ Precedes(c, d)
  BY AtCall
<1>2. Provisions(q)
  BY <1>1 DEF Provisions
<1>3. ProvisionCalls(Left(q))
  BY <1>2 DEF ProvisionsKnow
<1>4. Left(q) \subseteq ProvisionCallSet
  BY <1>3 DEF ProvisionCalls, ProvisionCallSet
<1> QED BY <1>1, <1>2, <1>3, <1>4, ProvisionOrder

LEMMA ProvisionGoesOn ==
    ASSUME AccountsInv, ProvisionsKnow, NEW q \in Requests, NEW c, Foot(q, c), Op(q) = "provision",
           Left(q)' # {}
    PROVE  /\ Left(q)' \subseteq Left(q) /\ Left(q) \subseteq Left(q)' \cup {c}
           /\ Recalls(c, Mem(q), Mem(q)') /\ c # "createSession"
           /\ c \in {"createOrg", "addMember", "createSystemAccount"} => c \notin Left(q)'
<1>1. At(q, c)
  BY DEF Foot
<1>2. c \in ProvisionCallSet /\ (c = "createSession" => Left(q) \subseteq {"createSession"})
  BY <1>1, ProvisionAtCall
<1>3. c \notin Loops
  BY <1>2 DEF Loops, ProvisionCallSet
<1>4. /\ Left(q)' \subseteq Left(q) /\ Left(q) \subseteq Left(q)' \cup {c} /\ Recalls(c, Mem(q), Mem(q)')
  BY <1>3, GoesOn
<1>5. c \in {"createOrg", "addMember", "createSystemAccount", "createSession"} => c \notin Left(q)'
  BY <1>3, CallDone, ProvisionOrder
<1> QED BY <1>2, <1>4, <1>5

LEMMA ProvisionsKnowActs ==
    ASSUME AccountsInv, ProvisionsKnow, NEW q \in Requests, Acts(q)
    PROVE  ProvisionsKnow'
<1>1. PICK c : Foot(q, c)
  BY ActsFoot
<1>2. At(q, c) /\ ActsAs(q, c) /\ Others(q) /\ Op(q)' = Op(q)
  BY <1>1, ActsAt DEF Foot, Advances, Ended, Moved
<1> SUFFICES ASSUME NEW p \in Requests, Provisions(p)'
             PROVE  /\ ProvisionCalls(Left(p))'
                    /\ Mem(p)'.user = p \/ ("createUser" \in Left(p)' /\ Mem(p)'.user = Null)
                    /\ "createOrg" \in Left(p)' \/ Mem(p)'.org = p
  BY DEF ProvisionsKnow
<1>3. CASE p # q
  <2>1. proc'[p] = proc[p]
    BY <1>2, <1>3 DEF Others
  <2> QED BY <2>1 DEF ProvisionsKnow, Provisions, ProvisionCalls, Op, Left, Mem
<1>4. CASE p = q
  <2>1. Op(q) = "provision" /\ Left(q)' # {}
    BY <1>2, <1>4 DEF Provisions
  <2>2. PICK L, M, m, n : L = Left(q) /\ M = Left(q)' /\ m = Mem(q) /\ n = Mem(q)'
    OBVIOUS
  <2>3. /\ Provisions(q) /\ ProvisionCalls(L) /\ c \in L /\ c \in ProvisionCallSet
        /\ c = "addMember" => "createOrg" \notin L
        /\ c = "createSystemAccount" => "addMember" \notin L
    BY <1>2, <2>1, <2>2, ProvisionAtCall
  <2>4. /\ M \subseteq L /\ L \subseteq M \cup {c} /\ Recalls(c, m, n) /\ c # "createSession"
    BY <1>1, <2>1, <2>2, ProvisionGoesOn
  <2>5. ProvisionCalls(M)
    BY <2>3, <2>4 DEF ProvisionCalls
  <2>6. (m.user = q \/ ("createUser" \in L /\ m.user = Null)) /\ ("createOrg" \in L \/ m.org = q)
    BY <2>2, <2>3 DEF ProvisionsKnow
  <2>7. Mem(q) \in AccountMemory /\ Listed(proc[q].todo) /\ ProcType
    BY <1>2, AtCall DEF AccountsInv
  <2>8. n.user = q \/ ("createUser" \in M /\ n.user = Null)
    <3>1. CASE c = "createUser"
      <4>1. CreateUser(q)
        BY <1>2, <3>1, ActsOfCalls
      <4>2. ~Refuses(q)
        BY <2>1, <2>7, EndsMoves DEF Refuses, Ended
      <4>3. CASE m.user # Null
        <5>1. Keeps(q, m)
          BY <2>2, <4>1, <4>3 DEF CreateUser, Reads
        <5>2. Moved(q, c, m)
          BY <1>2, <2>2, <2>7, <5>1, KeepsMoves
        <5> QED BY <2>1, <2>2, <2>6, <4>3, <5>2 DEF Moved
      <4>4. CASE m.user = Null
        <5>1. PICK x : x = [m EXCEPT !.user = q] /\ Keeps(q, x)
          BY <2>2, <4>1, <4>2, <4>4 DEF CreateUser, Writes
        <5>2. x \in AccountMemory /\ x.user = q
          BY <2>2, <2>7, <5>1 DEF AccountMemory, MaybeId, Ids
        <5>3. Moved(q, c, x)
          BY <1>2, <2>7, <5>1, <5>2, KeepsMoves
        <5> QED BY <2>1, <2>2, <5>2, <5>3 DEF Moved
      <4> QED BY <4>3, <4>4
    <3>2. CASE c # "createUser"
      BY <2>3, <2>4, <2>6, <3>2 DEF Recalls, ProvisionCallSet
    <3> QED BY <3>1, <3>2
  <2>9. "createOrg" \in M \/ n.org = q
    <3>1. CASE c = "createOrg"
      <4>1. PICK x : x = [m EXCEPT !.org = q] /\ Keeps(q, x)
        BY <1>2, <2>2, <3>1, ActsOfCalls DEF CreateOrg, Writes
      <4>2. x \in AccountMemory /\ x.org = q
        BY <2>2, <2>7, <4>1 DEF AccountMemory, MaybeId, Ids
      <4>3. Moved(q, c, x)
        BY <1>2, <2>7, <4>1, <4>2, KeepsMoves
      <4> QED BY <2>1, <2>2, <4>2, <4>3 DEF Moved
    <3>2. CASE c # "createOrg"
      BY <2>4, <2>6, <3>2 DEF Recalls
    <3> QED BY <3>1, <3>2
  <2> QED BY <1>4, <2>2, <2>5, <2>8, <2>9 DEF ProvisionCalls
<1> QED BY <1>3, <1>4

LEMMA ProvisionsKnowStep ==
    ASSUME AccountsInv, ProvisionsKnow, [Next]_vars
    PROVE  ProvisionsKnow'
<1>1. ASSUME NEW q \in Requests, Starts(q) PROVE ProvisionsKnow'
  <2>1. Others(q) /\ Fresh(Op(q)', Left(q)') /\ (Op(q)' = "provision" => Mem(q)'.user = Null)
    BY <1>1, StartsFresh, StartsHolding
  <2>2. Op(q)' = "provision" => Left(q)' = ProvisionCallSet
    BY <2>1 DEF Fresh, ProvisionCallSet
  <2>3. /\ ProvisionCalls(ProvisionCallSet)
        /\ "createUser" \in ProvisionCallSet /\ "createOrg" \in ProvisionCallSet
    BY DEF ProvisionCalls, ProvisionCallSet
  <2>4. Provisions(q)' =>
          /\ ProvisionCalls(Left(q))'
          /\ Mem(q)'.user = q \/ ("createUser" \in Left(q)' /\ Mem(q)'.user = Null)
          /\ "createOrg" \in Left(q)' \/ Mem(q)'.org = q
    BY <2>1, <2>2, <2>3 DEF Provisions, ProvisionCalls
  <2> QED BY <2>1, <2>4 DEF ProvisionsKnow, Provisions, ProvisionCalls, Others, Op, Left, Mem
<1>2. CASE \A p \in Requests : proc'[p] = proc[p] \/ Left(p)' = {}
  BY <1>2 DEF ProvisionsKnow, Provisions, ProvisionCalls, Op, Left, Mem
<1>3. ASSUME NEW q \in Requests, Aborts(q) PROVE \A p \in Requests : proc'[p] = proc[p] \/ Left(p)' = {}
  BY <1>3, EndsMoves DEF AccountsInv, Ended, Others
<1> QED BY <1>1, <1>2, <1>3, SetUpKinds, ProvisionsKnowActs

LEMMA UnbornStep ==
    ASSUME AccountsInv, UnbornInv, [Next]_vars
    PROVE  UnbornInv'
<1>1. CASE db' = db /\ \A p \in Requests : Still(p)
  <2>1. \A p \in Requests, x \in {"createOrg", "createSession"} : Unborn(p, x)' => Unborn(p, x)
    BY <1>1 DEF Still, Unborn, Op, Left, AllOps, PeopleOps, SignInOps, TokenOps, BootOps
  <2> QED BY <1>1, <2>1 DEF UnbornInv
<1>2. ASSUME NEW q \in Requests, Acts(q) PROVE UnbornInv'
  <2>1. PICK c : Foot(q, c)
    BY <1>2, ActsFoot
  <2>2. At(q, c) /\ ActsAs(q, c) /\ Op(q)' = Op(q) /\ Spares(c, db') /\ Op(q) # "none"
    BY <1>2, <2>1, ActsAt, AtCall DEF Foot, Advances, Ended, Moved
  <2>3. \A p \in Requests, x \in {"createOrg", "createSession"} : Unborn(p, x)' => Unborn(p, x)
    BY <2>1, UnbornOn
  <2>4. ASSUME NEW p \in Requests, Unborn(p, "createOrg")' PROVE p \notin DOMAIN db'.orgs
    <3>1. p \notin DOMAIN db.orgs
      BY <2>3, <2>4 DEF UnbornInv
    <3>2. CASE c = "createOrg"
      <4>1. "createOrg" \notin Loops
        BY DEF Loops
      <4>2. "createOrg" \notin Left(q)'
        BY <2>1, <3>2, <4>1, CallDone, ProvisionOrder
      <4>3. p # q
        BY <2>2, <2>4, <4>2 DEF Unborn
      <4> QED BY <2>2, <3>1, <4>3, OrgsGrow
    <3> QED BY <2>2, <3>1, <3>2, OrgsGrow
  <2>5. ASSUME NEW p \in Requests, Unborn(p, "createSession")' PROVE p \notin DOMAIN db'.sessions
    <3>1. p \notin DOMAIN db.sessions
      BY <2>3, <2>5 DEF UnbornInv
    <3>2. CASE c = "createSession"
      <4>1. "createSession" \notin Loops
        BY DEF Loops
      <4>2. "createSession" \notin Left(q)'
        BY <2>1, <3>2, <4>1, CallDone, ProvisionOrder
      <4>3. p # q
        BY <2>2, <2>5, <4>2 DEF Unborn
      <4> QED BY <2>2, <3>1, <4>3, SessionsGrow
    <3> QED BY <2>2, <3>1, <3>2, SessionsGrow
  <2> QED BY <2>4, <2>5 DEF UnbornInv
<1> QED BY <1>1, <1>2, StepOrStill

LEMMA RemoverStep ==
    ASSUME AccountsInv, RemoverInv, [Next]_vars
    PROVE  RemoverInv'
<1>1. CASE \A p \in Requests : Still(p)
  BY <1>1 DEF RemoverInv, Still, Op, Left, Fresh
<1>2. ASSUME NEW q \in Requests, Acts(q) PROVE RemoverInv'
  <2>1. PICK c : Foot(q, c)
    BY <1>2, ActsFoot
  <2>2. Others(q)
    BY <2>1, FootBusy
  <2>3. "removeMember" \in Left(q)' => Op(q)' = "removeMember"
    BY <2>1, GoesOn DEF RemoverInv
  <2> QED BY <2>2, <2>3 DEF RemoverInv, Others, Op, Left
<1> QED BY <1>1, <1>2, StepOrStill

(***************************************************************************)
(* Accounts that are edited.                                               *)
(***************************************************************************)
LEMMA EditOrder ==
    \A d \in {"updateAccount", "deleteAccount"} :
        /\ ~Precedes(d, "getAccount")
        /\ \A c \in {"getToken", "findImportAccount", "createImportAccount"} : ~Precedes(c, d)
<1>1. \A d \in {"updateAccount", "deleteAccount"} : Rank(d) = 2 /\ Rank("getAccount") = 1
  BY DEF Rank
<1>2. Rank("getToken") = 2 /\ Rank("findImportAccount") = 3 /\ Rank("createImportAccount") = 7
  BY DEF Rank, Inserters
<1> QED BY <1>1, <1>2 DEF Precedes

LEMMA EditActs ==
    ASSUME AccountsInv, AccountsInv', UnmadeFree, EditInv, NEW q \in Requests, Acts(q)
    PROVE  EditInv'
<1>1. PICK c : Foot(q, c)
  BY ActsFoot
<1>2. At(q, c) /\ ActsAs(q, c) /\ Others(q) /\ Op(q)' = Op(q) /\ Spares(c, db')
  BY <1>1, ActsAt DEF Foot, Advances, Ended, Moved
<1> SUFFICES ASSUME NEW p \in Requests, Editing(p)'
             PROVE  /\ Mem(p)'.ref \in DOMAIN db'.accounts => ~db'.accounts[Mem(p)'.ref].internal
                    /\ \A r \in Requests : Unmade(r)' => Mem(p)'.ref # r
  BY DEF EditInv
<1>3. PICK a : a = Mem(p)'.ref
  OBVIOUS
<1>4. /\ a \in DOMAIN db.accounts => ~db.accounts[a].internal
      /\ \A r \in Requests : Unmade(r) => a # r
  <2>1. CASE p # q
    <3>1. proc'[p] = proc[p]
      BY <1>2, <2>1 DEF Others
    <3>2. Editing(p) /\ Mem(p).ref = a
      BY <1>3, <3>1 DEF Editing, Left, Mem
    <3> QED BY <3>2 DEF EditInv
  <2>2. CASE p = q
    <3>1. Left(q)' # {} /\ "getAccount" \notin Left(q)'
      BY <2>2 DEF Editing
    <3>2. /\ Recalls(c, Mem(q), Mem(q)') /\ Left(q) \subseteq Left(q)' \cup {c}
          /\ Left(q)' \subseteq Left(q) \cup {"createImportAccount", "applyMigration"}
      BY <1>1, <3>1, GoesOn
    <3>3. PICK d \in {"updateAccount", "deleteAccount"} : d \in Left(q)'
      BY <2>2 DEF Editing
    <3>4. d \in Left(q)
      BY <3>2, <3>3
    <3>5. d = c \/ Precedes(c, d)
      BY <1>2, <3>4, AtCall
    <3>6. c \notin {"getToken", "findImportAccount", "createImportAccount"}
      BY <3>3, <3>5, EditOrder
    <3>7. a = Mem(q).ref
      BY <1>3, <2>2, <3>2, <3>6 DEF Recalls
    <3>8. CASE c = "getAccount"
      <4>1. GetServiceAccount(q)
        BY <1>2, <3>8, ActsOfCalls
      <4>2. ~Refuses(q)
        BY <3>1, EndsMoves DEF Refuses, Ended, AccountsInv
      <4>3. a \in DOMAIN db.accounts /\ ~db.accounts[a].internal
        BY <3>7, <4>1, <4>2 DEF GetServiceAccount, LiveAccount, Editable
      <4> QED BY <4>3 DEF UnmadeFree
    <3>9. CASE c # "getAccount"
      <4>1. "getAccount" \notin Left(q)
        BY <3>1, <3>2, <3>9
      <4>2. Editing(q)
        BY <3>3, <3>4, <4>1 DEF Editing
      <4> QED BY <3>7, <4>2 DEF EditInv
    <3> QED BY <3>8, <3>9
  <2> QED BY <2>1, <2>2
<1>5. \A r \in Requests : Unmade(r)' => Unmade(r)
  BY <1>1, <1>2, UnmadeOn
<1>6. a \in DOMAIN db'.accounts => ~db'.accounts[a].internal
  <2>1. c \in Inserters => Unmade(q)
    BY <1>2, AtCall DEF Unmade
  <2>2. c \in Inserters => a # q
    BY <1>4, <2>1
  <2>3. a \in DOMAIN db'.accounts =>
          a \in DOMAIN db.accounts /\ db'.accounts[a].internal = db.accounts[a].internal
    BY <1>2, <2>2, AccountsPersist
  <2> QED BY <1>4, <2>3
<1> QED BY <1>3, <1>4, <1>5, <1>6

LEMMA EditStep ==
    ASSUME AccountsInv, AccountsInv', UnmadeFree, EditInv, [Next]_vars
    PROVE  EditInv'
<1>1. CASE db' = db /\ \A p \in Requests : Still(p)
  <2>1. \A p \in Requests : Editing(p)' => Editing(p) /\ Mem(p)' = Mem(p)
    BY <1>1 DEF Still, Editing, Left, Mem, Fresh
  <2>2. \A p \in Requests : Unmade(p)' => Unmade(p)
    BY <1>1 DEF Still, Unmade, Op, Left, AllOps, PeopleOps, SignInOps, TokenOps, BootOps
  <2> QED BY <1>1, <2>1, <2>2 DEF EditInv
<1> QED BY <1>1, StepOrStill, EditActs

(***************************************************************************)
(* What was signed up is whole.                                            *)
(***************************************************************************)
\* The account of an organisation that is there stays.
LEMMA OwnPersists ==
    ASSUME AccountsInv, UnmadeFree, EditInv, NEW q \in Requests, NEW c, At(q, c), ActsAs(q, c), Spares(c, db'),
           NEW p \in DOMAIN db'.orgs, NEW a \in DOMAIN db.accounts, OwnAccount(p, a)
    PROVE  a \in DOMAIN db'.accounts /\ OwnAccount(p, a)'
<1>1. \/ a \in DOMAIN db'.accounts /\ db'.accounts[a] = db.accounts[a]
      \/ c \in {"updateAccount", "deleteAccount"} /\ a = Mem(q).ref
      \/ c = "deleteOrg" /\ db.accounts[a].org = Mem(q).org
  BY AccountsPersist
<1>2. ASSUME c \in {"updateAccount", "deleteAccount"}, a = Mem(q).ref PROVE FALSE
  <2>1. c \in Left(q) /\ \A d \in Left(q) : d = c \/ Precedes(c, d)
    BY AtCall
  <2>2. "getAccount" \notin Left(q)
    BY <1>2, <2>1, EditOrder
  <2>3. Editing(q)
    BY <1>2, <2>1, <2>2 DEF Editing
  <2> QED BY <1>2, <2>3 DEF EditInv, OwnAccount
<1>3. ASSUME c = "deleteOrg", db.accounts[a].org = Mem(q).org PROVE FALSE
  BY <1>3, OrgsGrow DEF OwnAccount
<1>4. a \in DOMAIN db'.accounts /\ db'.accounts[a] = db.accounts[a]
  BY <1>1, <1>2, <1>3
<1> QED BY <1>4 DEF OwnAccount

JoinedOwn(q) ==
    \/ "addMember" \in Left(q) \/ <<q, q>> \in DOMAIN db.members
    \/ \E p \in Requests : Op(p) = "removeMember"
Owns(q) == "createSystemAccount" \in Left(q) \/ \E a \in DOMAIN db.accounts : OwnAccount(q, a)

\* Somebody else acts, or the call at hand is another one.
LEMMA JoinedPersists ==
    ASSUME AccountsInv, RemoverInv, NEW q \in Requests, NEW c, Foot(q, c), ActsAs(q, c),
           NEW p \in Requests, p \in DOMAIN db'.orgs, JoinedOwn(p), "addMember" \notin Left(p)
    PROVE  JoinedOwn(p)'
<1>1. At(q, c) /\ Others(q) /\ Op(q)' = Op(q) /\ Spares(c, db') /\ c \in Left(q)
  BY AtCall DEF Foot, Advances, Ended, Moved
<1>2. \A r \in Requests : Op(r)' = Op(r)
  BY <1>1 DEF Others, Op
<1>3. CASE \E r \in Requests : Op(r) = "removeMember"
  BY <1>2, <1>3 DEF JoinedOwn
<1>4. CASE <<p, p>> \in DOMAIN db.members /\ ~\E r \in Requests : Op(r) = "removeMember"
  <2>1. c # "removeMember"
    BY <1>1, <1>4 DEF RemoverInv
  <2>2. ~(c = "deleteOrg" /\ p = Mem(q).org)
    BY <1>1, OrgsGrow
  <2>3. <<p, p>>[2] = p
    OBVIOUS
  <2>4. <<p, p>> \in DOMAIN db'.members
    BY <1>1, <1>4, <2>1, <2>2, <2>3, MembersPersist
  <2> QED BY <2>4 DEF JoinedOwn
<1> QED BY <1>3, <1>4 DEF JoinedOwn

LEMMA OwnsPersists ==
    ASSUME AccountsInv, UnmadeFree, EditInv, NEW q \in Requests, NEW c, Foot(q, c), ActsAs(q, c),
           NEW p \in Requests, p \in DOMAIN db'.orgs, Owns(p), "createSystemAccount" \notin Left(p)
    PROVE  Owns(p)'
<1>1. At(q, c) /\ Spares(c, db')
  BY DEF Foot
<1>2. PICK a \in DOMAIN db.accounts : OwnAccount(p, a)
  BY DEF Owns
<1>3. a \in DOMAIN db'.accounts /\ OwnAccount(p, a)'
  BY <1>1, <1>2, OwnPersists
<1> QED BY <1>3 DEF Owns

LEMMA WholeActs ==
    ASSUME AccountsInv, UnmadeFree, EditInv, RemoverInv, UnbornInv, ProvisionsKnow, WholeInv,
           NEW q \in Requests, Acts(q)
    PROVE  WholeInv'
<1>1. PICK c : Foot(q, c)
  BY ActsFoot
<1>2. /\ At(q, c) /\ ActsAs(q, c) /\ Others(q) /\ Op(q)' = Op(q) /\ Spares(c, db') /\ ProcType
      /\ Mem(q) \in AccountMemory /\ Listed(proc[q].todo) /\ c \in Left(q)
  BY <1>1, ActsAt, AtCall DEF Foot, Advances, Ended, Moved, AccountsInv
<1> SUFFICES ASSUME NEW p \in Requests, Op(p)' = "provision", p \in DOMAIN db'.orgs,
                    Left(p)' # {} \/ p \in DOMAIN db'.sessions
             PROVE  JoinedOwn(p)' /\ Owns(p)'
  BY DEF WholeInv, JoinedOwn, Owns
<1>3. CASE p # q
  <2>1. proc'[p] = proc[p]
    BY <1>2, <1>3 DEF Others
  <2>2. Op(p) = "provision" /\ Left(p)' = Left(p)
    BY <2>1 DEF Op, Left
  <2>3. p \in DOMAIN db.orgs
    BY <1>2, <1>3, OrgsGrow
  <2>4. Left(p) # {} \/ p \in DOMAIN db.sessions
    BY <1>2, <1>3, <2>2, SessionsGrow
  <2>5. JoinedOwn(p) /\ Owns(p)
    BY <2>2, <2>3, <2>4 DEF WholeInv, JoinedOwn, Owns
  <2>6. JoinedOwn(p)'
    <3>1. CASE "addMember" \in Left(p)
      BY <2>2, <3>1 DEF JoinedOwn
    <3> QED BY <1>1, <1>2, <2>5, <3>1, JoinedPersists
  <2>7. Owns(p)'
    <3>1. CASE "createSystemAccount" \in Left(p)
      BY <2>2, <3>1 DEF Owns
    <3> QED BY <1>1, <1>2, <2>5, <3>1, OwnsPersists
  <2> QED BY <2>6, <2>7
<1>4. CASE p = q
  <2>1. Op(q) = "provision"
    BY <1>2, <1>4
  <2>2. /\ Provisions(q) /\ ProvisionCalls(Left(q))
        /\ c = "createSession" => Left(q) \subseteq {"createSession"}
        /\ c = "addMember" => "createOrg" \notin Left(q) /\ "createUser" \notin Left(q)
        /\ c = "createSystemAccount" => "createOrg" \notin Left(q) /\ "addMember" \notin Left(q)
    BY <1>2, <2>1, ProvisionAtCall
  <2>3. "createSession" \in Left(q) /\ q \notin DOMAIN db.sessions
    BY <2>2 DEF ProvisionCalls, UnbornInv, Unborn
  <2>4. c = "createSession" \/ Left(q)' # {}
    BY <1>2, <1>4, <2>3, SessionsGrow
  <2>5. CASE c = "createOrg"
    <3>1. Left(q) \subseteq Left(q)' \cup {c}
      BY <1>1, <2>1, <2>4, <2>5, ProvisionGoesOn
    <3>2. "addMember" \in Left(q) /\ "createSystemAccount" \in Left(q)
      BY <1>2, <2>2, <2>5 DEF ProvisionCalls
    <3>3. "addMember" \in Left(q)' /\ "createSystemAccount" \in Left(q)'
      BY <2>5, <3>1, <3>2
    <3> QED BY <1>4, <3>3 DEF JoinedOwn, Owns
  <2>6. CASE c # "createOrg"
    <3>1. q \in DOMAIN db.orgs
      BY <1>2, <1>4, <2>6, OrgsGrow
    <3>2. JoinedOwn(q) /\ Owns(q)
      BY <1>2, <2>1, <3>1 DEF WholeInv, JoinedOwn, Owns
    <3>3. Left(q)' # {} => Left(q) \subseteq Left(q)' \cup {c}
      BY <1>1, <2>1, ProvisionGoesOn
    <3>4. JoinedOwn(q)'
      <4>1. CASE "addMember" \in Left(q) /\ c # "addMember"
        <5>1. "addMember" \in Left(q)'
          BY <2>2, <2>4, <3>3, <4>1
        <5> QED BY <5>1 DEF JoinedOwn
      <4>2. CASE c = "addMember"
        <5>1. AddMember(q) /\ Left(q)' # {}
          BY <1>2, <2>4, <4>2, ActsOfCalls
        <5>2. ~Refuses(q)
          BY <1>2, <5>1, EndsMoves DEF Refuses, Ended
        <5>3. Mem(q).user = q /\ Mem(q).org = q
          BY <2>2, <4>2 DEF ProvisionsKnow
        <5>4. PICK row, ms : ms = With(db.members, <<q, q>>, row) /\ db' = [db EXCEPT !.members = ms]
          BY <5>1, <5>2, <5>3 DEF AddMember, Writes
        <5>5. db'.members = ms
          BY <5>4 DEF AccountsInv, DbOK, Fields
        <5>6. <<q, q>> \in DOMAIN db'.members
          BY <5>4, <5>5 DEF With
        <5> QED BY <5>6 DEF JoinedOwn
      <4>3. CASE "addMember" \notin Left(q)
        BY <1>1, <1>2, <1>4, <3>2, <4>3, JoinedPersists
      <4> QED BY <4>1, <4>2, <4>3
    <3>5. Owns(q)'
      <4>1. CASE "createSystemAccount" \in Left(q) /\ c # "createSystemAccount"
        <5>1. "createSystemAccount" \in Left(q)'
          BY <2>2, <2>4, <3>3, <4>1
        <5> QED BY <5>1 DEF Owns
      <4>2. CASE c = "createSystemAccount"
        <5>1. CreateSystemAccount(q) /\ Left(q)' # {}
          BY <1>2, <2>4, <4>2, ActsOfCalls
        <5>2. ~Refuses(q)
          BY <1>2, <5>1, EndsMoves DEF Refuses, Ended
        <5>3. Mem(q).org = q
          BY <2>2, <4>2 DEF ProvisionsKnow
        <5>4. PICK row, as : /\ row = [org |-> q, name |-> "System", internal |-> TRUE,
                                       disabled |-> FALSE, deleted |-> FALSE]
                             /\ as = With(db.accounts, q, row) /\ db' = [db EXCEPT !.accounts = as]
          BY <5>1, <5>2, <5>3 DEF CreateSystemAccount, Writes, InsertAccount
        <5>5. db'.accounts = as
          BY <5>4 DEF AccountsInv, DbOK, Fields
        <5>6. q \in DOMAIN db'.accounts /\ db'.accounts[q] = row
          BY <5>4, <5>5 DEF With
        <5>7. OwnAccount(q, q)'
          BY <5>4, <5>6 DEF OwnAccount
        <5> QED BY <5>6, <5>7 DEF Owns
      <4>3. CASE "createSystemAccount" \notin Left(q)
        BY <1>1, <1>2, <1>4, <3>2, <4>3, OwnsPersists
      <4> QED BY <4>1, <4>2, <4>3
    <3> QED BY <1>4, <3>4, <3>5
  <2> QED BY <2>5, <2>6
<1> QED BY <1>3, <1>4

LEMMA WholeStep ==
    ASSUME AccountsInv, UnmadeFree, EditInv, RemoverInv, UnbornInv, ProvisionsKnow, WholeInv, [Next]_vars
    PROVE  WholeInv'
<1>1. CASE db' = db /\ \A p \in Requests : Still(p)
  <2> SUFFICES ASSUME NEW p \in Requests, Op(p)' = "provision", p \in DOMAIN db.orgs,
                      Left(p)' # {} \/ p \in DOMAIN db.sessions
               PROVE  JoinedOwn(p)' /\ Owns(p)'
    BY <1>1 DEF WholeInv, JoinedOwn, Owns
  <2>1. Op(p) # "none"
    BY DEF UnbornInv, Unborn
  <2>2. Op(p) = "provision" /\ (Left(p)' = Left(p) \/ Left(p)' = {})
    BY <1>1, <2>1 DEF Still, Op, Left
  <2>3. Left(p) # {} => p \notin DOMAIN db.sessions
    BY <2>2 DEF ProvisionsKnow, Provisions, ProvisionCalls, UnbornInv, Unborn
  <2>4. Left(p)' = Left(p)
    BY <2>2, <2>3
  <2>5. JoinedOwn(p) /\ Owns(p)
    BY <2>2, <2>4 DEF WholeInv, JoinedOwn, Owns
  <2>6. \A r \in Requests : Op(r) = "removeMember" => Op(r)' = "removeMember"
    BY <1>1 DEF Still, Op
  <2> QED BY <1>1, <2>4, <2>5, <2>6 DEF JoinedOwn, Owns, OwnAccount
<1> QED BY <1>1, StepOrStill, WholeActs

(***************************************************************************)
(* What is set up is whole.                                                *)
(***************************************************************************)
SetUpInv ==
    /\ OpsInv /\ BootsKnow /\ MigratesInv /\ AdminInv
    /\ ProvisionsKnow /\ UnbornInv /\ RemoverInv /\ EditInv /\ WholeInv

LEMMA SetUpTables ==
    ASSUME Init
    PROVE  /\ HasAdmins /\ DOMAIN db.orgs \subseteq {Seed} /\ DOMAIN db.sessions \subseteq {Seed}
           /\ SchemaInOrder /\ DOMAIN db.users \subseteq {Seed}
           /\ Len(schema) = Migrations \/ (workload.ops = {"boot"} /\ db.users = Empty)
<1>1. workload \in Workloads /\ Migrations \in Nat
  BY StartupAssumption DEF Init
<1>2. CASE "boot" \in workload.ops
  <2>1. PICK e : e = Empty
    OBVIOUS
  <2>2. db.orgs = e /\ db.sessions = e /\ db.users = e
    BY <1>2, <2>1 DEF Init, Nothing
  <2>3. DOMAIN e = {}
    BY <2>1 DEF Empty
  <2>4. schema = <<>>
    BY <1>2 DEF Init
  <2>5. SchemaInOrder
    BY <1>1, <2>4 DEF SchemaInOrder
  <2>6. workload.ops = {"boot"}
    BY <1>1, <1>2, AccountsAssumption
  <2> QED BY <2>1, <2>2, <2>3, <2>5, <2>6 DEF HasAdmins
<1>3. CASE "boot" \notin workload.ops
  <2>1. PICK disabled, i, name : /\ name = workload.account
                                 /\ db = [Populated(disabled, name) EXCEPT !.installation = i]
    BY <1>3 DEF Init
  <2>2. PICK u, us, o, os, m, ms, s, ss :
          /\ u = [email |-> SeedEmail, login |-> SeedEmail, password |-> Seed, disabled |-> disabled,
                  serverAdmin |-> FALSE]
          /\ o = [name |-> Seed, autoJoin |-> Seed, onboarded |-> FALSE]
          /\ m = [role |-> "admin", source |-> "manual"]
          /\ s = [user |-> Seed, state |-> Null, began |-> Null, ended |-> Null]
          /\ us = Only(u) /\ os = Only(o) /\ ms = [k \in {<<Seed, Seed>>} |-> m] /\ ss = Only(s)
    OBVIOUS
  <2>3. db.users = us /\ db.orgs = os /\ db.members = ms /\ db.sessions = ss
    BY <2>1, <2>2 DEF Populated, Nothing
  <2>4. /\ DOMAIN us = {Seed} /\ DOMAIN os = {Seed} /\ DOMAIN ms = {<<Seed, Seed>>} /\ DOMAIN ss = {Seed}
        /\ ms[<<Seed, Seed>>] = m /\ m.role = "admin"
    BY <2>2 DEF Only
  <2>5. HasAdmins
    BY <2>3, <2>4 DEF HasAdmins
  <2>6. schema = [n \in 1..Migrations |-> n]
    BY <1>3 DEF Init
  <2>7. SchemaInOrder /\ Len(schema) = Migrations
    BY <1>1, <2>6 DEF SchemaInOrder
  <2> QED BY <2>3, <2>4, <2>5, <2>7
<1> QED BY <1>2, <1>3

LEMMA SetUpInit ==
    ASSUME Init
    PROVE  SetUpInv
<1>1. \A q \in Requests : Op(q) = "none" /\ Left(q) = {}
  BY NoCalls DEF Init, ReqsInit, Op, Left
<1>2. Seed \notin Requests /\ workload \in Workloads
  BY AccountTablesAssumption DEF Init
<1>3. OpsInv /\ BootsKnow /\ ProvisionsKnow /\ RemoverInv /\ EditInv /\ WholeInv
  BY <1>1, <1>2 DEF OpsInv, BootsKnow, Boots, ProvisionsKnow, Provisions, RemoverInv, EditInv, Editing, WholeInv
<1>4. MigratesInv
  BY <1>1, SetUpTables DEF MigratesInv, Boots
<1>5. AdminInv
  BY <1>1, SetUpTables DEF AdminInv, Founding, Boots
<1>6. UnbornInv
  BY <1>2, SetUpTables DEF UnbornInv
<1> QED BY <1>3, <1>4, <1>5, <1>6 DEF SetUpInv

LEMMA SetUpStep ==
    ASSUME AccountsInv, AccountsInv', LimitsInv, SetUpInv, [Next]_vars
    PROVE  SetUpInv'
<1>1. BusyInv /\ UnmadeFree
  BY DEF LimitsInv, ImportInv
<1>2. /\ OpsInv /\ BootsKnow /\ MigratesInv /\ AdminInv
      /\ ProvisionsKnow /\ UnbornInv /\ RemoverInv /\ EditInv /\ WholeInv
  BY DEF SetUpInv
<1>3. OpsInv' /\ BootsKnow' /\ MigratesInv' /\ AdminInv'
  BY <1>1, <1>2, OpsStep, BootsKnowStep, MigratesStep, AdminStep
<1>4. ProvisionsKnow' /\ UnbornInv' /\ RemoverInv' /\ EditInv'
  BY <1>1, <1>2, ProvisionsKnowStep, UnbornStep, RemoverStep, EditStep
<1>5. WholeInv'
  BY <1>1, <1>2, WholeStep
<1> QED BY <1>3, <1>4, <1>5 DEF SetUpInv

LEMMA SetUpInvariant == Spec => [](AccountsInv /\ GithubInv /\ LimitsInv /\ SetUpInv)
<1>1. Init => AccountsInv /\ GithubInv /\ LimitsInv /\ SetUpInv
  BY AccountsInit, LimitsInit, SetUpInit
<1>2. AccountsInv /\ GithubInv /\ LimitsInv /\ SetUpInv /\ [Next]_vars =>
        AccountsInv' /\ GithubInv' /\ LimitsInv' /\ SetUpInv'
  BY AccountsStep, LimitsStep, SetUpStep
<1> QED BY <1>1, <1>2, PTL DEF Spec

\* What is set up in several steps is whole at the end (SetUpWhole): however
\* many processes start at once and wherever they stop, each migration is
\* committed once, in order, and before any user is stored; starts that do not
\* overlap leave no organisation without an admin; and a sign-up that got as far
\* as its session owns its organisation with the membership and the system
\* account, whatever requests run beside it.
THEOREM AccountsSetUpWhole == Spec => []SetUpWhole
<1>1. AccountsInv /\ SetUpInv => SetUpWhole
  <2> SUFFICES ASSUME AccountsInv, SetUpInv PROVE SetUpWhole
    OBVIOUS
  <2>1. /\ BootsKnow /\ MigratesInv /\ AdminInv /\ ProvisionsKnow /\ UnbornInv /\ WholeInv
    BY DEF SetUpInv
  <2>2. MigratedInOrder
    <3>1. SchemaInOrder /\ (db.users # Empty => Len(schema) = Migrations)
      BY <2>1 DEF MigratesInv
    <3>2. schema = [i \in 1..Len(schema) |-> i]
      BY <3>1 DEF SchemaInOrder
    <3> QED BY <3>1, <3>2 DEF MigratedInOrder
  <2>3. EveryOrgHasAdmin
    <3> SUFFICES ASSUME clean, Quiet, OnlyBoots PROVE HasAdmins
      BY DEF EveryOrgHasAdmin, OnlyBoots, HasAdmins
    <3>1. \A q \in Requests : Left(q) = {}
      BY NoCalls DEF Quiet, Busy, Left
    <3> QED BY <2>1, <3>1 DEF AdminInv, Founding, Boots
  <2>4. ProvisionedIsWhole
    <3> SUFFICES ASSUME NEW q \in DOMAIN db.sessions \cap Requests, Op(q) = "provision", q \in DOMAIN db.orgs
                 PROVE  /\ <<q, q>> \in DOMAIN db.members \/ \E p \in Requests : Op(p) = "removeMember"
                        /\ \E a \in DOMAIN db.accounts : OwnAccount(q, a)
      BY DEF ProvisionedIsWhole, OwnAccount
    <3>1. Left(q) = {}
      BY <2>1 DEF ProvisionsKnow, Provisions, ProvisionCalls, UnbornInv, Unborn
    <3> QED BY <2>1, <3>1 DEF WholeInv
  <2> QED BY <2>2, <2>3, <2>4 DEF SetUpWhole
<1> QED BY <1>1, SetUpInvariant, PTL

(***************************************************************************)
(* What is read is still so when it is used, as long as nothing overlaps.  *)
(***************************************************************************)
\* The calls that a request has left are those of its operation.
MemberCalls == {"getUser", "getClash", "updateUser", "updateMemberRole", "leaveTeams", "joinTeam"}

RouteOf(o, L) ==
    /\ o = "login" => L \subseteq {"findLogin", "createSession"}
    /\ o = "sessionToken" => L \subseteq {"getSession", "createSession"}
    /\ o = "createOrgByKey" => L \subseteq {"getToken", "getKeyAccount", "createOrg", "createSystemAccount"}
    /\ o = "uninstall" => L \subseteq {"getInstallation", "deleteAtGitHub", "deleteInstallation"}
    /\ o = "updateMember" => L \subseteq MemberCalls
    /\ "createSession" \in L => o \in {"login", "sessionToken", "callback", "provision"}
    /\ "updateUser" \in L =>
         /\ L \subseteq MemberCalls
         /\ o \in {"updateUser", "resetPassword", "setAccountPassword", "updateMember"}
    /\ L \cap {"updateProvider", "ensureKeypair"} # {} =>
         L \subseteq {"load", "updateProvider", "ensureKeypair"}

RouteInv == \A q \in Requests : RouteOf(Op(q), Left(q))

\* Only an update of a user says that the user is enabled.
EnableInv ==
    \A q \in Requests : "updateUser" \in Left(q) /\ Mem(q).change = "enable" => Op(q) = "updateUser"

\* A user is made by the request whose it is.
MadeInv == \A q \in Requests : Unborn(q, "createUser") => q \notin DOMAIN db.users

\* What an uninstallation has deleted at GitHub was there.
GoneInv ==
    \A q \in Requests :
        Op(q) = "uninstall" /\ "deleteInstallation" \in Left(q) /\ "deleteAtGitHub" \notin Left(q) =>
            Mem(q).aux \in github.had /\ "getInstallation" \notin Left(q)

UserRead(q) ==
    "updateUser" \in Left(q) /\ "getUser" \notin Left(q) => Mem(q).held = db.users[Mem(q).user]

ProviderRead(q) ==
    Left(q) \cap {"updateProvider", "ensureKeypair"} # {} /\ "load" \notin Left(q) =>
        Mem(q).provider \in DOMAIN db.providers /\ Mem(q).held = db.providers[Mem(q).provider]

TeamsLeft(q) ==
    Op(q) = "updateMember" =>
        /\ Mem(q).org \in DOMAIN db.orgs
        /\ "joinTeam" \in Left(q) /\ "leaveTeams" \notin Left(q) => TeamsOf(Mem(q).user, Mem(q).org) = {}

LoggedIn(q) ==
    Op(q) = "login" /\ Mem(q).user # Null =>
        /\ Mem(q).user \in DOMAIN db.users
        /\ ~db.users[Mem(q).user].disabled /\ db.users[Mem(q).user].password = Mem(q).aux

SessionRead(q) ==
    Op(q) = "sessionToken" /\ Mem(q).user # Null =>
        Mem(q).ref \in DOMAIN db.sessions /\ db.sessions[Mem(q).ref].user = Mem(q).user

CalledBack(q) ==
    Op(q) = "callback" =>
        /\ Mem(q).user # Null => Mem(q).user \in DOMAIN db.users /\ ~db.users[Mem(q).user].disabled
        /\ "loadProvider" \notin Left(q) =>
             Mem(q).provider \in DOMAIN db.providers /\ db.providers[Mem(q).provider].enabled

KeyRead(q) ==
    Op(q) = "createOrgByKey" =>
        /\ "getToken" \in Left(q) => "getKeyAccount" \in Left(q)
        /\ "getToken" \notin Left(q) => Mem(q).aux \in DOMAIN db.tokens /\ ~db.tokens[Mem(q).aux].revoked
        /\ "createOrg" \in Left(q) /\ "getKeyAccount" \notin Left(q) =>
             Mem(q).ref \in DOMAIN db.accounts /\ Usable(db.accounts[Mem(q).ref])

Current(q) ==
    /\ UserRead(q) /\ ProviderRead(q) /\ TeamsLeft(q)
    /\ LoggedIn(q) /\ SessionRead(q) /\ CalledBack(q) /\ KeyRead(q)

CurrentInv == clean => \A q \in Requests : Left(q) # {} => Current(q)

LEMMA HoldsAfter ==
    ASSUME AccountsInv, NEW q \in Requests, NEW n, Keeps(q, n), Left(q)' # {}
    PROVE  Mem(q)' = n
BY GoesElsewhere DEF Keeps

LEMMA NoneAfter ==
    ASSUME AccountsInv, NEW q \in Requests, Refuses(q) \/ Ends(q)
    PROVE  Left(q)' = {}
BY EndsMoves DEF Refuses, Ended, AccountsInv

\* A route is a route of fewer calls.
LEMMA RouteFewer ==
    ASSUME NEW o, NEW L, NEW M, RouteOf(o, L), M \subseteq L
    PROVE  RouteOf(o, M)
BY DEF RouteOf

LEMMA RouteStarts ==
    ASSUME NEW o, NEW L, Fresh(o, L)
    PROVE  RouteOf(o, L)
BY DEF RouteOf, Fresh, MemberCalls

LEMMA RouteStep ==
    ASSUME AccountsInv, RouteInv, [Next]_vars
    PROVE  RouteInv'
<1>1. CASE \A p \in Requests : Still(p)
  <2> SUFFICES ASSUME NEW p \in Requests PROVE RouteOf(Op(p)', Left(p)')
    BY DEF RouteInv
  <2>1. RouteOf(Op(p), Left(p))
    BY DEF RouteInv
  <2>2. CASE proc'[p] = proc[p]
    BY <2>1, <2>2 DEF Op, Left
  <2>3. CASE Left(p)' = {} /\ Op(p)' = Op(p)
    BY <2>1, <2>3, RouteFewer
  <2>4. CASE Fresh(Op(p)', Left(p)')
    BY <2>4, RouteStarts
  <2> QED BY <1>1, <2>2, <2>3, <2>4 DEF Still
<1>2. ASSUME NEW q \in Requests, Acts(q) PROVE RouteInv'
  <2>1. PICK c : Foot(q, c)
    BY <1>2, ActsFoot
  <2>2. Others(q) /\ At(q, c)
    BY <2>1, FootBusy DEF Foot
  <2>3. PICK o, L, M : o = Op(q) /\ L = Left(q) /\ M = Left(q)'
    OBVIOUS
  <2>4. RouteOf(o, L)
    BY <2>3 DEF RouteInv
  <2>5. M # {} => /\ Op(q)' = o /\ M \subseteq L \cup {"createImportAccount", "applyMigration"}
                  /\ c \notin Loops => M \subseteq L
    BY <2>1, <2>3, GoesOn
  <2>6. RouteOf(Op(q)', M)
    <3>1. CASE M = {}
      BY <3>1 DEF RouteOf
    <3>2. CASE M # {} /\ c \notin Loops
      BY <2>4, <2>5, <3>2, RouteFewer
    <3>3. CASE M # {} /\ c \in Loops
      <4>1. (o = "importToken" \/ o = "boot") /\ CallsOfOp(o, L)
        BY <2>2, <2>3, <3>3, LoopCalls, AtCall DEF Known
      <4>2. L \subseteq {"getInstallation", "findImportAccount", "listTokens", "revokeTokens",
                         "createToken", "createImportAccount", "isApplied", "anyUser", "createOrg",
                         "upsertUser", "addMember", "applyMigration"}
        BY <4>1 DEF CallsOfOp, CreateImportTokenSteps, BootSteps
      <4> QED BY <2>5, <3>3, <4>1, <4>2 DEF RouteOf
    <3> QED BY <3>1, <3>2, <3>3
  <2> QED BY <2>2, <2>3, <2>6 DEF RouteInv, Others, Op, Left
<1> QED BY <1>1, <1>2, StepOrStill

LEMMA EnableStep ==
    ASSUME AccountsInv, RouteInv, EnableInv, [Next]_vars
    PROVE  EnableInv'
<1>1. ASSUME NEW q \in Requests, Starts(q) PROVE EnableInv'
  <2>1. Others(q) /\ Fresh(Op(q)', Left(q)')
    BY <1>1, StartsFresh
  <2>2. "updateUser" \in Left(q)' =>
          Op(q)' \in {"updateUser", "resetPassword", "setAccountPassword", "updateMember"}
    BY <2>1 DEF Fresh
  <2>3. "updateUser" \in Left(q)' /\ Mem(q)'.change = "enable" => Op(q)' = "updateUser"
    BY <1>1, <2>2, StartsHolding
  <2> QED BY <2>1, <2>3 DEF EnableInv, Others, Op, Left, Mem
<1>2. CASE \A p \in Requests : proc'[p] = proc[p] \/ Left(p)' = {}
  BY <1>2 DEF EnableInv, Op, Left, Mem
<1>3. ASSUME NEW q \in Requests, Aborts(q) PROVE \A p \in Requests : proc'[p] = proc[p] \/ Left(p)' = {}
  BY <1>3, EndsMoves DEF AccountsInv, Ended, Others
<1>4. ASSUME NEW q \in Requests, Acts(q) PROVE EnableInv'
  <2>1. PICK c : Foot(q, c)
    BY <1>4, ActsFoot
  <2>2. Others(q)
    BY <2>1, FootBusy
  <2>3. "updateUser" \in Left(q)' =>
          "updateUser" \in Left(q) /\ Op(q)' = Op(q) /\ Mem(q)'.change = Mem(q).change
    BY <2>1, GoesOn DEF Recalls
  <2> QED BY <2>2, <2>3 DEF EnableInv, Others, Op, Left, Mem
<1> QED BY <1>1, <1>2, <1>3, <1>4, SetUpKinds

\* A user is made by the request whose it is, and is never removed.
LEMMA UsersGrow ==
    ASSUME AccountsInv, NEW q \in Requests, NEW c, ActsAs(q, c), Spares(c, db')
    PROVE  /\ c \notin {"createUser", "upsertUser"} => DOMAIN db'.users = DOMAIN db.users
           /\ DOMAIN db'.users \subseteq DOMAIN db.users \cup {q}
<1>1. DOMAIN db = Fields
  BY DEF AccountsInv, DbOK
<1>2. CASE c \notin {"createUser", "updateUser", "disableUser", "upsertUser"}
  BY <1>2, UsersSpared
<1>3. CASE c = "createUser"
  <2>1. CreateUser(q)
    BY <1>3, ActsOfCalls
  <2>2. \/ db' = db
        \/ \E us, row : us = With(db.users, q, row) /\ db' = [db EXCEPT !.users = us]
    BY <2>1 DEF CreateUser, Reads, Refuses, Writes
  <2>3. CASE \E us, row : us = With(db.users, q, row) /\ db' = [db EXCEPT !.users = us]
    <3>1. PICK us, row : us = With(db.users, q, row) /\ db' = [db EXCEPT !.users = us]
      BY <2>3
    <3>2. db'.users = us
      BY <1>1, <3>1 DEF Fields
    <3> QED BY <1>3, <3>1, <3>2 DEF With
  <2> QED BY <1>3, <2>2, <2>3
<1>4. CASE c \in {"updateUser", "disableUser"}
  <2>1. UpdateUser(q) \/ DisableUser(q)
    BY <1>4 DEF ActsAs, SharedAs, PeopleAs, SignInAs, TokenAs, BootAs,
                SharedCalls, PeopleCalls, SignInCalls, TokenCalls, BootCalls
  <2>2. \/ db' = db
        \/ \E us, u, row : us = [db.users EXCEPT ![u] = row] /\ db' = [db EXCEPT !.users = us]
    BY <2>1 DEF UpdateUser, DisableUser, Refuses, Writes
  <2>3. CASE \E us, u, row : us = [db.users EXCEPT ![u] = row] /\ db' = [db EXCEPT !.users = us]
    <3>1. PICK us, u, row : us = [db.users EXCEPT ![u] = row] /\ db' = [db EXCEPT !.users = us]
      BY <2>3
    <3>2. db'.users = us
      BY <1>1, <3>1 DEF Fields
    <3> QED BY <3>1, <3>2
  <2> QED BY <2>2, <2>3
<1>5. CASE c = "upsertUser"
  <2>1. UpsertUser(q)
    BY <1>5 DEF ActsAs, SharedAs, PeopleAs, SignInAs, TokenAs, BootAs,
                SharedCalls, PeopleCalls, SignInCalls, TokenCalls, BootCalls
  <2>2. PICK us, there, row :
          /\ us = IF there = {} THEN With(db.users, q, row)
                  ELSE [u \in DOMAIN db.users |-> IF u \in there THEN row ELSE db.users[u]]
          /\ db' = [db EXCEPT !.users = us]
    BY <2>1 DEF UpsertUser, Writes
  <2>3. db'.users = us
    BY <1>1, <2>2 DEF Fields
  <2> QED BY <1>5, <2>2, <2>3 DEF With
<1> QED BY <1>2, <1>3, <1>4, <1>5

LEMMA MadeStep ==
    ASSUME AccountsInv, MadeInv, [Next]_vars
    PROVE  MadeInv'
<1>1. CASE db' = db /\ \A p \in Requests : Still(p)
  <2>1. \A p \in Requests : Unborn(p, "createUser")' => Unborn(p, "createUser")
    BY <1>1 DEF Still, Unborn, Op, Left, AllOps, PeopleOps, SignInOps, TokenOps, BootOps
  <2> QED BY <1>1, <2>1 DEF MadeInv
<1>2. ASSUME NEW q \in Requests, Acts(q) PROVE MadeInv'
  <2>1. PICK c : Foot(q, c)
    BY <1>2, ActsFoot
  <2>2. /\ At(q, c) /\ ActsAs(q, c) /\ Op(q)' = Op(q) /\ Spares(c, db') /\ Op(q) # "none"
        /\ CallsOfOp(Op(q), Left(q)) /\ c \in Left(q)
    BY <1>2, <2>1, ActsAt, AtCall DEF Foot, Advances, Ended, Moved, Known
  <2>3. ASSUME NEW p \in Requests, Unborn(p, "createUser")' PROVE p \notin DOMAIN db'.users
    <3>1. Unborn(p, "createUser")
      BY <2>1, <2>3, UnbornOn
    <3>2. p \notin DOMAIN db.users
      BY <3>1 DEF MadeInv
    <3>3. CASE c = "createUser"
      <4>1. ~Precedes("createUser", "createUser") /\ "createUser" \notin Loops
        BY DEF Precedes, Loops
      <4>2. "createUser" \notin Left(q)'
        BY <2>1, <3>3, <4>1, CallDone
      <4>3. p # q
        BY <2>2, <2>3, <4>2 DEF Unborn
      <4> QED BY <2>2, <3>2, <4>3, UsersGrow
    <3>4. CASE c = "upsertUser"
      <4>1. Op(q) = "boot"
        BY <2>2, <3>4 DEF CallsOfOp
      <4>2. "createUser" \notin Left(q)
        BY <2>2, <4>1 DEF CallsOfOp, BootSteps
      <4>3. p # q
        BY <2>2, <3>1, <4>2 DEF Unborn
      <4> QED BY <2>2, <3>2, <4>3, UsersGrow
    <3> QED BY <2>2, <3>2, <3>3, <3>4, UsersGrow
  <2> QED BY <2>3 DEF MadeInv
<1> QED BY <1>1, <1>2, StepOrStill

\* GitHub forgets nothing that it had.
LEMMA HadGrows ==
    ASSUME GithubInv, [Next]_vars
    PROVE  github.had \subseteq github'.had
<1>1. github \in [has : SUBSET Ids, had : SUBSET Ids]
  BY DEF GithubInv
<1>2. CASE github' = github
  BY <1>2
<1>3. ASSUME NEW i, InstalledAtGitHub(i) PROVE github.had \subseteq github'.had
  BY <1>1, <1>3 DEF InstalledAtGitHub
<1>4. ASSUME NEW q, DeleteAtGitHub(q) PROVE github.had \subseteq github'.had
  BY <1>1, <1>4 DEF DeleteAtGitHub
<1>5. ASSUME NEW q, TokenStep(q) PROVE github' = github \/ DeleteAtGitHub(q)
  BY <1>5 DEF TokenStep, githubVars
<1>6. ASSUME NEW q, Starts(q) PROVE github' = github
  BY <1>6 DEF Starts, TokenStart, githubVars
<1>7. CASE UNCHANGED vars
  BY <1>7 DEF vars, githubVars
<1> QED BY <1>2, <1>3, <1>4, <1>5, <1>6, <1>7 DEF Next, githubVars

LEMMA GoneStep ==
    ASSUME AccountsInv, GithubInv, RouteInv, GoneInv, [Next]_vars
    PROVE  GoneInv'
<1>1. github.had \subseteq github'.had
  BY HadGrows
<1>2. CASE \A p \in Requests : proc'[p] = proc[p] \/ Left(p)' = {}
  BY <1>1, <1>2 DEF GoneInv, Op, Left, Mem
<1>3. ASSUME NEW q \in Requests, Aborts(q) PROVE \A p \in Requests : proc'[p] = proc[p] \/ Left(p)' = {}
  BY <1>3, EndsMoves DEF AccountsInv, Ended, Others
<1>4. ASSUME NEW q \in Requests, Starts(q) PROVE GoneInv'
  <2>1. Others(q) /\ Fresh(Op(q)', Left(q)')
    BY <1>4, StartsFresh
  <2>2. Op(q)' = "uninstall" => "deleteAtGitHub" \in Left(q)'
    BY <2>1 DEF Fresh
  <2> QED BY <1>1, <2>1, <2>2 DEF GoneInv, Others, Op, Left, Mem
<1>5. ASSUME NEW q \in Requests, Acts(q) PROVE GoneInv'
  <2>1. PICK c : Foot(q, c)
    BY <1>5, ActsFoot
  <2>2. Others(q) /\ At(q, c) /\ c \in Left(q) /\ ActsAs(q, c)
    BY <1>5, <2>1, FootBusy, ActsAt, AtCall DEF Foot
  <2>3. ASSUME Op(q)' = "uninstall", "deleteInstallation" \in Left(q)', "deleteAtGitHub" \notin Left(q)'
        PROVE  Mem(q)'.aux \in github'.had /\ "getInstallation" \notin Left(q)'
    <3>1. /\ Op(q) = "uninstall" /\ Recalls(c, Mem(q), Mem(q)') /\ Left(q) \subseteq Left(q)' \cup {c}
          /\ Left(q)' \subseteq Left(q) \cup {"createImportAccount", "applyMigration"}
      BY <2>1, <2>3, GoesOn
    <3>2. c \in {"getInstallation", "deleteAtGitHub", "deleteInstallation"}
      BY <2>2, <3>1 DEF RouteInv, RouteOf
    <3>3. CASE c = "deleteAtGitHub"
      <4>1. Rank("getInstallation") = 1 /\ Rank("deleteAtGitHub") = 2
        BY DEF Rank
      <4>2. ~Precedes("deleteAtGitHub", "getInstallation")
        BY <4>1 DEF Precedes
      <4>3. "getInstallation" \notin Left(q)
        BY <2>2, <3>3, <4>2, AtCall
      <4>4. DeleteAtGitHub(q)
        BY <2>2, <3>3 DEF ActsAs, SharedAs, PeopleAs, SignInAs, TokenAs, BootAs,
                          SharedCalls, PeopleCalls, SignInCalls, TokenCalls, BootCalls
      <4>5. ~Refuses(q)
        BY <2>3, NoneAfter
      <4>6. Mem(q).aux \in github'.had
        BY <4>4, <4>5 DEF DeleteAtGitHub
      <4> QED BY <3>1, <3>3, <4>3, <4>6 DEF Recalls
    <3>4. CASE c # "deleteAtGitHub"
      <4>1. "deleteAtGitHub" \notin Left(q) /\ "deleteInstallation" \in Left(q)
        BY <2>3, <3>1, <3>4
      <4>2. Mem(q).aux \in github.had /\ "getInstallation" \notin Left(q)
        BY <3>1, <4>1 DEF GoneInv
      <4> QED BY <1>1, <2>2, <3>1, <3>2, <4>2 DEF Recalls
    <3> QED BY <3>3, <3>4
  <2> QED BY <1>1, <2>2, <2>3 DEF GoneInv, Others, Op, Left, Mem
<1> QED BY <1>2, <1>3, <1>4, <1>5, SetUpKinds DEF Left

(***************************************************************************)
(* What a request that runs alone has read, as it goes on.                 *)
(***************************************************************************)
LEMMA NotAfter ==
    ASSUME NEW q \in Requests, NEW c, Foot(q, c), c \notin Loops
    PROVE  \A d \in Left(q)' : Precedes(c, d)
BY DEF Foot, Advances, Ended, Moved

\* A call that does not write a table.
LEMMA TablesSpared ==
    ASSUME NEW c, Spares(c, db')
    PROVE  /\ c \notin {"createOrg", "updateOrg", "setOnboardingDone", "deleteOrg"} => db'.orgs = db.orgs
           /\ c \notin {"joinTeam", "leaveTeam", "leaveTeams", "deleteTeam", "deleteOrg"} =>
                db'.teamMembers = db.teamMembers
           /\ c \notin {"createToken", "revokeToken", "revokeTokens", "deleteOrg"} => db'.tokens = db.tokens
           /\ c \notin {"createAccount", "createSystemAccount", "createImportAccount", "updateAccount",
                        "deleteAccount", "deleteOrg"} => db'.accounts = db.accounts
           /\ c \notin {"createProvider", "updateProvider", "ensureKeypair", "deleteProvider", "deleteOrg"} =>
                db'.providers = db.providers
           /\ c \notin {"createSession", "deleteSession"} => db'.sessions = db.sessions
<1>1. {"orgs", "teamMembers", "tokens", "accounts", "providers", "sessions"} \subseteq Fields
  BY DEF Fields
<1>2. Writers("orgs") = {"createOrg", "updateOrg", "setOnboardingDone", "deleteOrg"}
  BY DEF Writers
<1>3. Writers("teamMembers") = {"joinTeam", "leaveTeam", "leaveTeams", "deleteTeam", "deleteOrg"}
  BY DEF Writers
<1>4. Writers("tokens") = {"createToken", "revokeToken", "revokeTokens", "deleteOrg"}
  BY DEF Writers
<1>5. Writers("accounts") = {"createAccount", "createSystemAccount", "createImportAccount", "updateAccount",
                             "deleteAccount", "deleteOrg"}
  BY DEF Writers, Inserters
<1>6. Writers("providers") = {"createProvider", "updateProvider", "ensureKeypair", "deleteProvider",
                              "deleteOrg"}
  BY DEF Writers
<1>7. Writers("sessions") = {"createSession", "deleteSession"}
  BY DEF Writers
<1> QED BY <1>1, <1>2, <1>3, <1>4, <1>5, <1>6, <1>7 DEF Spares

LEMMA UserReadOn ==
    ASSUME AccountsInv, RouteInv, NEW q \in Requests, NEW c, Foot(q, c), ActsAs(q, c), UserRead(q),
           Left(q)' # {}
    PROVE  UserRead(q)'
<1> SUFFICES ASSUME "updateUser" \in Left(q)', "getUser" \notin Left(q)'
             PROVE  Mem(q)'.held = db'.users[Mem(q)'.user]
  BY DEF UserRead
<1>1. /\ At(q, c) /\ Recalls(c, Mem(q), Mem(q)') /\ Left(q) \subseteq Left(q)' \cup {c}
      /\ Left(q)' \subseteq Left(q) \cup {"createImportAccount", "applyMigration"}
  BY GoesOn
<1>2. c \in MemberCalls /\ c \in Left(q) /\ "updateUser" \in Left(q)
  BY <1>1, AtCall DEF RouteInv, RouteOf
<1>3. CASE c = "getUser"
  <2>1. GetUser(q)
    BY <1>3 DEF ActsAs, SharedAs, PeopleAs, SignInAs, TokenAs, BootAs,
                SharedCalls, PeopleCalls, SignInCalls, TokenCalls, BootCalls
  <2>2. PICK m : m = Mem(q)
    OBVIOUS
  <2>3. PICK n : n = [m EXCEPT !.held = db.users[m.user]] /\ Keeps(q, n) /\ db' = db
    BY <2>1, <2>2 DEF GetUser, Reads
  <2>4. Mem(q)' = n /\ m \in AccountMemory
    BY <1>1, <2>2, <2>3, HoldsAfter, AtCall
  <2>5. n.held = db.users[m.user] /\ n.user = m.user
    BY <2>3, <2>4 DEF AccountMemory
  <2> QED BY <2>3, <2>4, <2>5
<1>4. CASE c # "getUser"
  <2>1. Rank("updateUser") = 2
    BY DEF Rank
  <2>2. ~Precedes("updateUser", "updateUser") /\ "updateUser" \notin Loops
    BY <2>1 DEF Precedes, Loops
  <2>3. c # "updateUser"
    BY <2>2, CallDone
  <2>4. db'.users = db.users
    BY <1>2, <2>3, UsersSpared DEF Foot, MemberCalls
  <2>5. "getUser" \notin Left(q)
    BY <1>1, <1>4
  <2> QED BY <1>1, <1>2, <1>4, <2>4, <2>5 DEF UserRead, Recalls, MemberCalls
<1> QED BY <1>3, <1>4

LEMMA ProviderReadOn ==
    ASSUME AccountsInv, RouteInv, NEW q \in Requests, NEW c, Foot(q, c), ActsAs(q, c), Left(q)' # {}
    PROVE  ProviderRead(q)'
<1> SUFFICES ASSUME Left(q)' \cap {"updateProvider", "ensureKeypair"} # {}, "load" \notin Left(q)'
             PROVE  /\ Mem(q)'.provider \in DOMAIN db'.providers
                    /\ Mem(q)'.held = db'.providers[Mem(q)'.provider]
  BY DEF ProviderRead
<1>1. /\ At(q, c) /\ Left(q) \subseteq Left(q)' \cup {c}
      /\ Left(q)' \subseteq Left(q) \cup {"createImportAccount", "applyMigration"}
  BY GoesOn
<1>2. c \in {"load", "updateProvider", "ensureKeypair"}
  BY <1>1, AtCall DEF RouteInv, RouteOf
<1>3. c = "load"
  <2>1. Rank("updateProvider") = 2 /\ Rank("ensureKeypair") = 2
    BY DEF Rank
  <2>2. /\ ~Precedes("updateProvider", "updateProvider") /\ ~Precedes("updateProvider", "ensureKeypair")
        /\ ~Precedes("ensureKeypair", "updateProvider") /\ ~Precedes("ensureKeypair", "ensureKeypair")
    BY <2>1 DEF Precedes
  <2>3. "updateProvider" \notin Loops /\ "ensureKeypair" \notin Loops
    BY DEF Loops
  <2> QED BY <1>2, <2>2, <2>3, NotAfter
<1>4. Load(q)
  BY <1>3 DEF ActsAs, SharedAs, PeopleAs, SignInAs, TokenAs, BootAs,
              SharedCalls, PeopleCalls, SignInCalls, TokenCalls, BootCalls
<1>5. ~Refuses(q)
  BY NoneAfter
<1>6. PICK m : m = Mem(q)
  OBVIOUS
<1>7. PICK p \in DOMAIN db.providers : Reads(q, [m EXCEPT !.provider = p, !.held = db.providers[p]])
  BY <1>4, <1>5, <1>6 DEF Load
<1>8. PICK n : n = [m EXCEPT !.provider = p, !.held = db.providers[p]] /\ Keeps(q, n) /\ db' = db
  BY <1>7 DEF Reads
<1>9. Mem(q)' = n /\ m \in AccountMemory
  BY <1>1, <1>6, <1>8, HoldsAfter, AtCall
<1>10. n.provider = p /\ n.held = db.providers[p]
  BY <1>8, <1>9 DEF AccountMemory
<1> QED BY <1>8, <1>9, <1>10

LEMMA TeamsLeftOn ==
    ASSUME AccountsInv, RouteInv, NEW q \in Requests, NEW c, Foot(q, c), ActsAs(q, c), TeamsLeft(q),
           Left(q)' # {}
    PROVE  TeamsLeft(q)'
<1> SUFFICES ASSUME Op(q)' = "updateMember" PROVE TeamsLeft(q)'
  BY DEF TeamsLeft
<1>1. /\ At(q, c) /\ Recalls(c, Mem(q), Mem(q)') /\ Left(q) \subseteq Left(q)' \cup {c}
      /\ Left(q)' \subseteq Left(q) \cup {"createImportAccount", "applyMigration"} /\ Op(q) = "updateMember"
      /\ Spares(c, db')
  BY GoesOn DEF Foot
<1>2. c \in MemberCalls
  BY <1>1, AtCall DEF RouteInv, RouteOf
<1>3. Mem(q)'.org = Mem(q).org /\ Mem(q)'.user = Mem(q).user
  BY <1>1, <1>2 DEF Recalls, MemberCalls
<1>4. Mem(q).org \in DOMAIN db'.orgs
  BY <1>1, <1>2, TablesSpared DEF TeamsLeft, MemberCalls
<1>5. ASSUME "joinTeam" \in Left(q)', "leaveTeams" \notin Left(q)'
      PROVE  \A k \in DOMAIN db'.teamMembers : ~(k[2] = Mem(q).user /\ db'.teamMembers[k] = Mem(q).org)
  <2>1. CASE c = "leaveTeams"
    <3>1. RemoveUserFromOrgTeams(q)
      BY <2>1 DEF ActsAs, SharedAs, PeopleAs, SignInAs, TokenAs, BootAs,
                  SharedCalls, PeopleCalls, SignInCalls, TokenCalls, BootCalls
    <3>2. PICK u, o : u = Mem(q).user /\ o = Mem(q).org
      OBVIOUS
    <3>3. PICK S, tm : S = TeamsOf(u, o) /\ tm = Keep(db.teamMembers, DOMAIN db.teamMembers \ S)
                       /\ db' = [db EXCEPT !.teamMembers = tm]
      BY <3>1, <3>2 DEF RemoveUserFromOrgTeams, Writes
    <3>4. db'.teamMembers = tm
      BY <3>3 DEF AccountsInv, DbOK, Fields
    <3> QED BY <3>2, <3>3, <3>4 DEF TeamsOf, Keep
  <2>2. CASE c # "leaveTeams"
    <3>1. Rank("joinTeam") = 4
      BY DEF Rank
    <3>2. ~Precedes("joinTeam", "joinTeam") /\ "joinTeam" \notin Loops
      BY <3>1 DEF Precedes, Loops
    <3>3. c # "joinTeam"
      BY <1>5, <3>2, CallDone
    <3>4. db'.teamMembers = db.teamMembers
      BY <1>1, <1>2, <2>2, <3>3, TablesSpared DEF MemberCalls
    <3>5. "joinTeam" \in Left(q) /\ "leaveTeams" \notin Left(q)
      BY <1>1, <1>5, <2>2
    <3> QED BY <1>1, <3>4, <3>5 DEF TeamsLeft, TeamsOf
  <2> QED BY <2>1, <2>2
<1> QED BY <1>3, <1>4, <1>5 DEF TeamsLeft, TeamsOf

LEMMA LoggedInOn ==
    ASSUME AccountsInv, RouteInv, NEW q \in Requests, NEW c, Foot(q, c), ActsAs(q, c), Left(q)' # {}
    PROVE  LoggedIn(q)'
<1> SUFFICES ASSUME Op(q)' = "login" PROVE LoggedIn(q)'
  BY DEF LoggedIn
<1>1. At(q, c) /\ Op(q) = "login"
  BY GoesOn
<1>2. c \in {"findLogin", "createSession"}
  BY <1>1, AtCall DEF RouteInv, RouteOf
<1>3. \A d : ~Precedes("createSession", d)
  BY DEF Precedes
<1>4. c = "findLogin"
  BY <1>2, <1>3, NotAfter DEF Loops
<1>5. FindLogin(q)
  BY <1>4 DEF ActsAs, SharedAs, PeopleAs, SignInAs, TokenAs, BootAs,
              SharedCalls, PeopleCalls, SignInCalls, TokenCalls, BootCalls
<1>6. ~Refuses(q)
  BY NoneAfter
<1>7. PICK m : m = Mem(q)
  OBVIOUS
<1>8. PICK u \in DOMAIN db.users : MayLogin(db.users[u], m) /\ Reads(q, [m EXCEPT !.user = u])
  BY <1>5, <1>6, <1>7 DEF FindLogin, ByEmail
<1>9. PICK n : n = [m EXCEPT !.user = u] /\ Keeps(q, n) /\ db' = db
  BY <1>8 DEF Reads
<1>10. Mem(q)' = n /\ m \in AccountMemory
  BY <1>1, <1>7, <1>9, HoldsAfter, AtCall
<1>11. n.user = u /\ n.aux = m.aux
  BY <1>9, <1>10 DEF AccountMemory
<1> QED BY <1>8, <1>9, <1>10, <1>11 DEF LoggedIn, MayLogin

LEMMA SessionReadOn ==
    ASSUME AccountsInv, RouteInv, NEW q \in Requests, NEW c, Foot(q, c), ActsAs(q, c), Left(q)' # {}
    PROVE  SessionRead(q)'
<1> SUFFICES ASSUME Op(q)' = "sessionToken" PROVE SessionRead(q)'
  BY DEF SessionRead
<1>1. At(q, c) /\ Op(q) = "sessionToken"
  BY GoesOn
<1>2. c \in {"getSession", "createSession"}
  BY <1>1, AtCall DEF RouteInv, RouteOf
<1>3. \A d : ~Precedes("createSession", d)
  BY DEF Precedes
<1>4. c = "getSession"
  BY <1>2, <1>3, NotAfter DEF Loops
<1>5. GetSessionByToken(q)
  BY <1>4 DEF ActsAs, SharedAs, PeopleAs, SignInAs, TokenAs, BootAs,
              SharedCalls, PeopleCalls, SignInCalls, TokenCalls, BootCalls
<1>6. ~Refuses(q)
  BY NoneAfter
<1>7. PICK m : m = Mem(q)
  OBVIOUS
<1>8. m.ref \in DOMAIN db.sessions /\ Reads(q, [m EXCEPT !.user = db.sessions[m.ref].user])
  BY <1>5, <1>6, <1>7 DEF GetSessionByToken
<1>9. PICK n : n = [m EXCEPT !.user = db.sessions[m.ref].user] /\ Keeps(q, n) /\ db' = db
  BY <1>8 DEF Reads
<1>10. Mem(q)' = n /\ m \in AccountMemory
  BY <1>1, <1>7, <1>9, HoldsAfter, AtCall
<1>11. n.user = db.sessions[m.ref].user /\ n.ref = m.ref
  BY <1>9, <1>10 DEF AccountMemory
<1> QED BY <1>8, <1>9, <1>10, <1>11 DEF SessionRead

\* A user who was found, or was just made, is not disabled.
LEMMA CalledUserOn ==
    ASSUME AccountsInv, NEW q \in Requests, NEW c \in {CallbackSteps[n] : n \in 1..10}, Foot(q, c),
           ActsAs(q, c), Left(q)' # {},
           Mem(q).user # Null => Mem(q).user \in DOMAIN db.users /\ ~db.users[Mem(q).user].disabled,
           Mem(q)'.user # Null
    PROVE  Mem(q)'.user \in DOMAIN db'.users /\ ~db'.users[Mem(q)'.user].disabled
<1>1. At(q, c) /\ Recalls(c, Mem(q), Mem(q)') /\ Spares(c, db')
  BY GoesOn DEF Foot
<1>2. c \in {"consumeState", "loadProvider", "findUser", "createUser", "listRoleMappings", "getMember",
             "seats", "upsertMember", "upsertIdentity", "createSession"}
  BY DEF CallbackSteps
<1>3. PICK m : m = Mem(q)
  OBVIOUS
<1>4. m \in AccountMemory
  BY <1>1, <1>3, AtCall
<1>5. ~Refuses(q)
  BY NoneAfter
<1>6. CASE c = "findUser"
  <2>1. FindUser(q)
    BY <1>6 DEF ActsAs, SharedAs, PeopleAs, SignInAs, TokenAs, BootAs,
                SharedCalls, PeopleCalls, SignInCalls, TokenCalls, BootCalls
  <2>2. \/ Reads(q, m)
        \/ \E u \in DOMAIN db.users : ~db.users[u].disabled /\ Reads(q, [m EXCEPT !.user = u])
    BY <1>3, <1>5, <2>1 DEF FindUser, ByEmail
  <2>3. CASE Reads(q, m)
    BY <1>3, <2>3, HoldsAfter DEF Reads
  <2>4. CASE \E u \in DOMAIN db.users : ~db.users[u].disabled /\ Reads(q, [m EXCEPT !.user = u])
    <3>1. PICK u \in DOMAIN db.users : ~db.users[u].disabled /\ Reads(q, [m EXCEPT !.user = u])
      BY <2>4
    <3>2. PICK n : n = [m EXCEPT !.user = u] /\ Keeps(q, n) /\ db' = db
      BY <3>1 DEF Reads
    <3>3. Mem(q)' = n /\ n.user = u
      BY <1>4, <3>2, HoldsAfter DEF AccountMemory
    <3> QED BY <3>1, <3>2, <3>3
  <2> QED BY <2>2, <2>3, <2>4
<1>7. CASE c = "createUser"
  <2>1. CreateUser(q)
    BY <1>7, ActsOfCalls
  <2>2. CASE m.user # Null
    <3>1. Reads(q, m)
      BY <1>3, <2>1, <2>2 DEF CreateUser
    <3> QED BY <1>3, <3>1, HoldsAfter DEF Reads
  <2>3. CASE m.user = Null
    <3>1. PICK x, row, us, n : /\ row = NewUser(q, m.email, x) /\ us = With(db.users, q, row)
                               /\ db' = [db EXCEPT !.users = us]
                               /\ n = [m EXCEPT !.user = q] /\ Keeps(q, n)
      BY <1>3, <1>5, <2>1, <2>3 DEF CreateUser, Writes
    <3>2. db'.users = us
      BY <3>1 DEF AccountsInv, DbOK, Fields
    <3>3. Mem(q)' = n /\ n.user = q
      BY <1>4, <3>1, HoldsAfter DEF AccountMemory
    <3>4. ~row.disabled
      BY <3>1 DEF NewUser
    <3> QED BY <3>1, <3>2, <3>3, <3>4 DEF With
  <2> QED BY <2>2, <2>3
<1>8. CASE c \notin {"findUser", "createUser"}
  <2>1. db'.users = db.users
    BY <1>1, <1>2, <1>8, UsersSpared
  <2>2. Mem(q)'.user = Mem(q).user
    BY <1>1, <1>2, <1>8 DEF Recalls
  <2> QED BY <2>1, <2>2
<1> QED BY <1>6, <1>7, <1>8

LEMMA CalledBackOn ==
    ASSUME AccountsInv, NEW q \in Requests, NEW c, Foot(q, c), ActsAs(q, c), CalledBack(q), Left(q)' # {}
    PROVE  CalledBack(q)'
<1> SUFFICES ASSUME Op(q)' = "callback" PROVE CalledBack(q)'
  BY DEF CalledBack
<1>1. /\ At(q, c) /\ Op(q) = "callback" /\ Recalls(c, Mem(q), Mem(q)') /\ Spares(c, db')
      /\ Left(q) \subseteq Left(q)' \cup {c}
  BY GoesOn DEF Foot
<1>2. c \in Left(q) /\ CallsOfOp("callback", Left(q)) /\ HeldState("callback", Left(q), Mem(q))
  BY <1>1, AtCall DEF Known
<1>3. c \in {CallbackSteps[n] : n \in 1..10}
  BY <1>2 DEF CallsOfOp
<1>4. Mem(q)'.user # Null => Mem(q)'.user \in DOMAIN db'.users /\ ~db'.users[Mem(q)'.user].disabled
  BY <1>1, <1>3, CalledUserOn DEF CalledBack
<1>5. ASSUME "loadProvider" \notin Left(q)'
      PROVE  Mem(q)'.provider \in DOMAIN db'.providers /\ db'.providers[Mem(q)'.provider].enabled
  <2>1. CASE c = "loadProvider"
    <3>1. LoadProvider(q)
      BY <2>1 DEF ActsAs, SharedAs, PeopleAs, SignInAs, TokenAs, BootAs,
                  SharedCalls, PeopleCalls, SignInCalls, TokenCalls, BootCalls
    <3>2. ~Refuses(q)
      BY NoneAfter
    <3>3. PICK m : m = Mem(q)
      OBVIOUS
    <3>4. PICK p \in DOMAIN db.providers :
            db.providers[p].enabled /\ Reads(q, [m EXCEPT !.provider = p, !.held = db.providers[p]])
      BY <3>1, <3>2, <3>3 DEF LoadProvider
    <3>5. PICK n : n = [m EXCEPT !.provider = p, !.held = db.providers[p]] /\ Keeps(q, n) /\ db' = db
      BY <3>4 DEF Reads
    <3>6. Mem(q)' = n /\ m \in AccountMemory
      BY <1>1, <3>3, <3>5, HoldsAfter, AtCall
    <3>7. n.provider = p
      BY <3>5, <3>6 DEF AccountMemory
    <3> QED BY <3>4, <3>5, <3>6, <3>7
  <2>2. CASE c # "loadProvider"
    <3>1. "loadProvider" \notin Left(q)
      BY <1>1, <1>5, <2>2
    <3>2. c \in {"consumeState", "findUser", "createUser", "listRoleMappings", "getMember", "seats",
                 "upsertMember", "upsertIdentity", "createSession"}
      BY <1>3, <2>2 DEF CallbackSteps
    <3>3. db'.providers = db.providers /\ Mem(q)'.provider = Mem(q).provider
      BY <1>1, <3>2, TablesSpared DEF Recalls
    <3> QED BY <1>1, <3>1, <3>3 DEF CalledBack
  <2> QED BY <2>1, <2>2
<1> QED BY <1>4, <1>5 DEF CalledBack

LEMMA KeyReadOn ==
    ASSUME AccountsInv, RouteInv, NEW q \in Requests, NEW c, Foot(q, c), ActsAs(q, c), KeyRead(q),
           Left(q)' # {}
    PROVE  KeyRead(q)'
<1> SUFFICES ASSUME Op(q)' = "createOrgByKey" PROVE KeyRead(q)'
  BY DEF KeyRead
<1>1. /\ At(q, c) /\ Op(q) = "createOrgByKey" /\ Recalls(c, Mem(q), Mem(q)') /\ Spares(c, db')
      /\ Left(q) \subseteq Left(q)' \cup {c} /\ \A d \in Left(q) : d = c \/ Precedes(c, d)
      /\ Left(q)' \subseteq Left(q) \cup {"createImportAccount", "applyMigration"}
  BY GoesOn, AtCall DEF Foot
<1>2. c \in {"getToken", "getKeyAccount", "createOrg", "createSystemAccount"}
  BY <1>1, AtCall DEF RouteInv, RouteOf
<1>3. /\ Rank("getToken") = 2 /\ Rank("getKeyAccount") = 3 /\ Rank("createOrg") = 4
      /\ Rank("createSystemAccount") = 7
  BY DEF Rank, Inserters
<1>4. /\ ~Precedes("getKeyAccount", "getToken") /\ ~Precedes("createOrg", "createOrg")
      /\ ~Precedes("createSystemAccount", "createOrg") /\ ~Precedes("getToken", "getToken")
      /\ ~Precedes("getKeyAccount", "getKeyAccount")
  BY <1>3 DEF Precedes
<1>5. c \notin Loops
  BY <1>2 DEF Loops
<1>6. c \in {"createOrg", "createSystemAccount"} => "createOrg" \notin Left(q)'
  BY <1>2, <1>4, <1>5, NotAfter
<1>7. db'.tokens = db.tokens /\ Mem(q)'.aux = Mem(q).aux
  BY <1>1, <1>2, TablesSpared DEF Recalls
<1>8. CASE c = "getToken"
  <2>1. GetTokenByPrefix(q)
    BY <1>8 DEF ActsAs, SharedAs, PeopleAs, SignInAs, TokenAs, BootAs,
                SharedCalls, PeopleCalls, SignInCalls, TokenCalls, BootCalls
  <2>2. ~Refuses(q)
    BY NoneAfter
  <2>3. Mem(q).aux \in DOMAIN db.tokens /\ ~db.tokens[Mem(q).aux].revoked
    BY <2>1, <2>2 DEF GetTokenByPrefix
  <2>4. "getKeyAccount" \in Left(q)'
    BY <1>1, <1>8, AtCall DEF KeyRead
  <2> QED BY <1>7, <2>3, <2>4 DEF KeyRead
<1>9. CASE c = "getKeyAccount"
  <2>1. VerifyAPIKey(q)
    BY <1>9 DEF ActsAs, SharedAs, PeopleAs, SignInAs, TokenAs, BootAs,
                SharedCalls, PeopleCalls, SignInCalls, TokenCalls, BootCalls
  <2>2. ~Refuses(q)
    BY NoneAfter
  <2>3. Mem(q).ref \in DOMAIN db.accounts /\ Usable(db.accounts[Mem(q).ref]) /\ db' = db
    BY <2>1, <2>2 DEF VerifyAPIKey, Reads
  <2>4. "getToken" \notin Left(q) /\ "getToken" \notin Left(q)'
    BY <1>1, <1>4, <1>9
  <2>5. Mem(q)'.ref = Mem(q).ref
    BY <1>1, <1>9 DEF Recalls
  <2> QED BY <1>1, <1>7, <2>3, <2>4, <2>5 DEF KeyRead
<1>10. CASE c \in {"createOrg", "createSystemAccount"}
  <2>1. "createOrg" \notin Left(q)'
    BY <1>6, <1>10
  <2>2. "getToken" \in Left(q)' => "getKeyAccount" \in Left(q)'
    BY <1>1, <1>10 DEF KeyRead
  <2>3. "getToken" \notin Left(q)' => "getToken" \notin Left(q)
    BY <1>1, <1>10
  <2> QED BY <1>1, <1>7, <2>1, <2>2, <2>3 DEF KeyRead
<1> QED BY <1>2, <1>8, <1>9, <1>10

LEMMA CurrentStarts ==
    ASSUME AccountsInv, NEW q \in Requests, Starts(q)
    PROVE  Current(q)'
<1>1. Fresh(Op(q)', Left(q)') /\ db' = db
  BY StartsFresh
<1>2. /\ Op(q)' \in {"provision", "login", "sessionToken", "callback"} => Mem(q)'.user = Null
      /\ Op(q)' = "updateMember" => Mem(q)'.org \in DOMAIN db.orgs
  BY StartsHolding
<1>3. /\ "updateUser" \in Left(q)' => "getUser" \in Left(q)'
      /\ Left(q)' \cap {"updateProvider", "ensureKeypair"} # {} => "load" \in Left(q)'
      /\ Op(q)' = "updateMember" => "leaveTeams" \in Left(q)'
      /\ Op(q)' = "callback" => "loadProvider" \in Left(q)'
      /\ Op(q)' = "createOrgByKey" => {"getToken", "getKeyAccount"} \subseteq Left(q)'
  BY <1>1 DEF Fresh
<1>4. UserRead(q)' /\ ProviderRead(q)' /\ TeamsLeft(q)'
  BY <1>1, <1>2, <1>3 DEF UserRead, ProviderRead, TeamsLeft
<1>5. LoggedIn(q)' /\ SessionRead(q)' /\ CalledBack(q)' /\ KeyRead(q)'
  BY <1>1, <1>2, <1>3 DEF LoggedIn, SessionRead, CalledBack, KeyRead
<1> QED BY <1>4, <1>5 DEF Current

LEMMA CurrentStep ==
    ASSUME AccountsInv, BusyInv, RouteInv, CurrentInv, [Next]_vars
    PROVE  CurrentInv'
<1> SUFFICES ASSUME clean', NEW p \in Requests, Left(p)' # {} PROVE Current(p)'
  BY DEF CurrentInv
<1>1. ASSUME NEW q \in Requests, Starts(q) PROVE Current(p)'
  <2>1. Others(q) /\ Quiet
    BY <1>1, StartsFresh
  <2>2. p = q \/ Left(p) = {}
    BY <2>1, BusyCalls DEF Quiet, AccountsInv
  <2>3. p = q
    BY <2>1, <2>2 DEF Others, Left
  <2> QED BY <1>1, <2>3, CurrentStarts
<1>2. ASSUME NEW q \in Requests, Acts(q) PROVE Current(p)'
  <2>1. PICK c : Foot(q, c)
    BY <1>2, ActsFoot
  <2>2. Busy(q) /\ Others(q) /\ clean /\ At(q, c) /\ ActsAs(q, c)
    BY <1>2, <2>1, FootBusy, ActsAt DEF Foot
  <2>3. p = q
    <3>1. ASSUME p # q PROVE FALSE
      <4>1. Left(p) # {}
        BY <2>2, <3>1 DEF Others, Left
      <4>2. p \in UnderWay /\ q \in UnderWay
        BY <2>2, <4>1, NoneBusyLeft DEF UnderWay, AccountsInv
      <4> QED BY <2>2, <3>1, <4>2 DEF BusyInv
    <3> QED BY <3>1
  <2>4. Current(q)
    <3>1. Left(q) # {}
      BY <2>2, AtCall
    <3> QED BY <2>2, <3>1 DEF CurrentInv
  <2>5. UserRead(q)' /\ ProviderRead(q)' /\ TeamsLeft(q)'
    BY <2>1, <2>2, <2>3, <2>4, UserReadOn, ProviderReadOn, TeamsLeftOn DEF Current
  <2>6. LoggedIn(q)' /\ SessionRead(q)' /\ CalledBack(q)' /\ KeyRead(q)'
    BY <2>1, <2>2, <2>3, <2>4, LoggedInOn, SessionReadOn, CalledBackOn, KeyReadOn DEF Current
  <2> QED BY <2>3, <2>5, <2>6 DEF Current
<1>3. ASSUME NEW q \in Requests, Aborts(q) PROVE FALSE
  BY <1>3 DEF Aborts
<1>4. CASE UNCHANGED <<proc, clean, db>>
  <2>1. Left(p) # {} /\ clean
    BY <1>4 DEF Left
  <2>2. Current(p)
    BY <2>1 DEF CurrentInv
  <2>3. Left(p)' = Left(p) /\ Op(p)' = Op(p) /\ Mem(p)' = Mem(p) /\ db' = db
    BY <1>4 DEF Left, Op, Mem
  <2>4. UserRead(p)' /\ ProviderRead(p)' /\ TeamsLeft(p)'
    BY <2>2, <2>3 DEF Current, UserRead, ProviderRead, TeamsLeft, TeamsOf
  <2>5. LoggedIn(p)' /\ SessionRead(p)' /\ CalledBack(p)' /\ KeyRead(p)'
    BY <2>2, <2>3 DEF Current, LoggedIn, SessionRead, CalledBack, KeyRead
  <2> QED BY <2>4, <2>5 DEF Current
<1> QED BY <1>1, <1>2, <1>3, <1>4, SetUpKinds

(***************************************************************************)
(* The invariant.                                                          *)
(***************************************************************************)
AccessInv == RouteInv /\ EnableInv /\ MadeInv /\ GoneInv /\ CurrentInv

LEMMA AccessInit ==
    ASSUME Init
    PROVE  AccessInv
<1>1. \A q \in Requests : Op(q) = "none" /\ Left(q) = {}
  BY NoCalls DEF Init, ReqsInit, Op, Left
<1>2. Seed \notin Requests
  BY AccountTablesAssumption
<1>3. RouteInv
  BY <1>1 DEF RouteInv, RouteOf
<1>4. EnableInv /\ GoneInv /\ CurrentInv
  BY <1>1 DEF EnableInv, GoneInv, CurrentInv
<1>5. MadeInv
  BY <1>2, SetUpTables DEF MadeInv
<1> QED BY <1>3, <1>4, <1>5 DEF AccessInv

LEMMA AccessStep ==
    ASSUME AccountsInv, GithubInv, LimitsInv, AccessInv, [Next]_vars
    PROVE  AccessInv'
<1>1. BusyInv /\ RouteInv /\ EnableInv /\ MadeInv /\ GoneInv /\ CurrentInv
  BY DEF LimitsInv, AccessInv
<1>2. RouteInv' /\ EnableInv' /\ MadeInv' /\ GoneInv' /\ CurrentInv'
  BY <1>1, RouteStep, EnableStep, MadeStep, GoneStep, CurrentStep
<1> QED BY <1>2 DEF AccessInv

\* All that is known of the states that are reached.
RulesInv == AccountsInv /\ GithubInv /\ LimitsInv /\ SetUpInv /\ AccessInv

LEMMA RulesInvariant == Spec => []RulesInv
<1>1. Init => RulesInv
  BY AccountsInit, LimitsInit, SetUpInit, AccessInit DEF RulesInv
<1>2. RulesInv /\ [Next]_vars => RulesInv'
  BY AccountsStep, LimitsStep, SetUpStep, AccessStep DEF RulesInv
<1> QED BY <1>1, <1>2, PTL DEF Spec

(***************************************************************************)
(* Steps.                                                                  *)
(***************************************************************************)
LEMMA CleanBefore ==
    ASSUME AccountsInv, [Next]_vars, clean'
    PROVE  clean
<1>1. ASSUME NEW q \in Requests, Starts(q) PROVE clean
  BY <1>1, StartsFresh
<1>2. ASSUME NEW q \in Requests, Acts(q) PROVE clean
  BY <1>2, ActsFoot, FootBusy
<1>3. ASSUME NEW q \in Requests, Aborts(q) PROVE FALSE
  BY <1>3 DEF Aborts
<1> QED BY <1>1, <1>2, <1>3, SetUpKinds

\* A request that changes without failing does its call.
LEMMA WhoActs ==
    ASSUME AccountsInv, [Next]_vars, clean', NEW q \in Requests, Op(q) # "none", proc'[q] # proc[q]
    PROVE  Acts(q)
<1>1. ASSUME NEW p \in Requests, Starts(p) PROVE FALSE
  BY <1>1, StartsFresh DEF Others
<1>2. ASSUME NEW p \in Requests, Acts(p) PROVE p = q
  BY <1>2, ActsFoot, FootBusy DEF Others
<1>3. ASSUME NEW p \in Requests, Aborts(p) PROVE FALSE
  BY <1>3 DEF Aborts
<1> QED BY <1>1, <1>2, <1>3, SetUpKinds

LEMMA CallMoves ==
    ASSUME AccountsInv, NEW q \in Requests, NEW c, Foot(q, c), c \notin Loops
    PROVE  proc'[q] # proc[q]
<1>1. c \in Left(q)
  BY AtCall DEF Foot
<1> QED BY <1>1 DEF Foot, Advances, Ended, Moved, Left

LEMMA OnboardingStep ==
    ASSUME AccountsInv, UnbornInv, [Next]_vars, NEW o \in DOMAIN db.orgs \cap DOMAIN db'.orgs,
           db.orgs[o].onboarded
    PROVE  db'.orgs[o].onboarded
<1>1. CASE db' = db
  BY <1>1
<1>2. ASSUME NEW q \in Requests, Acts(q) PROVE db'.orgs[o].onboarded
  <2>1. PICK c : Foot(q, c)
    BY <1>2, ActsFoot
  <2>2. At(q, c) /\ c \in Left(q) /\ ActsAs(q, c) /\ Spares(c, db')
    BY <1>2, <2>1, ActsAt, AtCall DEF Foot
  <2>3. DOMAIN db = Fields /\ OrgsOK(db.orgs)
    BY DEF AccountsInv, DbOK
  <2>4. CASE c \notin {"createOrg", "updateOrg", "setOnboardingDone", "deleteOrg"}
    BY <2>2, <2>4, TablesSpared
  <2>5. CASE c = "createOrg"
    <3>1. CreateOrg(q) /\ o # q
      BY <2>2, <2>5, ActsOfCalls DEF UnbornInv, Unborn
    <3>2. PICK os, row : os = With(db.orgs, q, row) /\ db' = [db EXCEPT !.orgs = os]
      BY <3>1 DEF CreateOrg, Writes
    <3>3. db'.orgs = os
      BY <2>3, <3>2 DEF Fields
    <3> QED BY <3>1, <3>2, <3>3 DEF With
  <2>6. CASE c = "updateOrg"
    <3>1. UpdateOrg(q)
      BY <2>2, <2>6, ActsOfCalls
    <3>2. CASE Mem(q).org \notin DOMAIN db.orgs
      BY <1>1, <3>1, <3>2 DEF UpdateOrg, Writes
    <3>3. CASE Mem(q).org \in DOMAIN db.orgs
      <4>1. PICK m, x : m = Mem(q) /\ x = m.org
        OBVIOUS
      <4>2. PICK old, row, os : /\ old = db.orgs[x] /\ row = OrgMerged(q, old, m)
                                /\ os = [db.orgs EXCEPT ![x] = row]
        OBVIOUS
      <4>3. db' = [db EXCEPT !.orgs = os]
        BY <3>1, <3>3, <4>1, <4>2 DEF UpdateOrg, Writes
      <4>4. db'.orgs = os
        BY <2>3, <4>3 DEF Fields
      <4>5. row.onboarded = old.onboarded
        BY <2>3, <3>3, <4>1, <4>2 DEF OrgsOK, OrgRow, OrgMerged
      <4> QED BY <4>2, <4>4, <4>5
    <3> QED BY <3>2, <3>3
  <2>7. CASE c = "setOnboardingDone"
    <3>1. SetOnboardingDone(q)
      BY <2>2, <2>7, ActsOfCalls
    <3>2. CASE Mem(q).org \notin DOMAIN db.orgs
      BY <1>1, <3>1, <3>2 DEF SetOnboardingDone, Writes
    <3>3. CASE Mem(q).org \in DOMAIN db.orgs
      <4>1. PICK x : x = Mem(q).org
        OBVIOUS
      <4>2. PICK row, os : row = [db.orgs[x] EXCEPT !.onboarded = TRUE] /\ os = [db.orgs EXCEPT ![x] = row]
        OBVIOUS
      <4>3. db' = [db EXCEPT !.orgs = os]
        BY <3>1, <3>3, <4>1, <4>2 DEF SetOnboardingDone, Writes
      <4>4. db'.orgs = os
        BY <2>3, <4>3 DEF Fields
      <4>5. row.onboarded
        BY <2>3, <3>3, <4>1, <4>2 DEF OrgsOK, OrgRow
      <4> QED BY <4>2, <4>4, <4>5
    <3> QED BY <3>2, <3>3
  <2>8. CASE c = "deleteOrg"
    <3>1. DeletedOrg(Mem(q).org)
      BY <2>2, <2>3, <2>8, ActsOfCalls, DeleteOrgDoes
    <3> QED BY <3>1 DEF DeletedOrg, Keep
  <2> QED BY <2>4, <2>5, <2>6, <2>7, <2>8
<1> QED BY <1>1, <1>2, StepOrStill

\* A start of a server that runs alone makes its admin when there is nobody.
LEMMA NobodyYet ==
    ASSUME AccountsInv, OpsInv, AdminInv, clean, NEW q \in Requests, At(q, "upsertUser")
    PROVE  DOMAIN db.users = {}
<1>1. "upsertUser" \in Left(q) /\ CallsOfOp(Op(q), Left(q))
  BY AtCall DEF Known
<1>2. Op(q) = "boot"
  BY <1>1 DEF CallsOfOp
<1>3. Rank("anyUser") = 3 /\ Rank("upsertUser") = 5
  BY DEF Rank
<1>4. ~Precedes("upsertUser", "anyUser")
  BY <1>3 DEF Precedes
<1>5. "anyUser" \notin Left(q)
  BY <1>4, AtCall
<1>6. Founding(q)
  BY <1>1, <1>2, <1>5 DEF Founding, Boots
<1>7. workload \in Workloads /\ "boot" \in workload.ops
  BY <1>2 DEF OpsInv
<1>8. workload.ops = {"boot"}
  BY <1>7, AccountsAssumption
<1>9. OnlyBoots
  BY <1>8 DEF OpsInv, OnlyBoots
<1>10. Founded(q)
  BY <1>6, <1>9 DEF AdminInv
<1> QED BY <1>1, <1>10 DEF Founded

LEMMA DisableStep ==
    ASSUME RulesInv, [Next]_vars, clean', NEW u \in DOMAIN db.users, db.users[u].disabled,
           ~db'.users[u].disabled
    PROVE  \E q \in Requests : Busy(q) /\ Op(q) = "updateUser" /\ Mem(q).change = "enable" /\ proc'[q] # proc[q]
<1>1. AccountsInv /\ OpsInv /\ AdminInv /\ EnableInv /\ MadeInv /\ CurrentInv
  BY DEF RulesInv, SetUpInv, AccessInv
<1>2. PICK q \in Requests : Acts(q)
  BY <1>1, StepOrStill
<1>3. PICK c : Foot(q, c)
  BY <1>1, <1>2, ActsFoot
<1>4. /\ At(q, c) /\ c \in Left(q) /\ ActsAs(q, c) /\ Spares(c, db') /\ clean
      /\ Mem(q) \in AccountMemory /\ Known(Op(q), Left(q), Mem(q))
  BY <1>1, <1>2, <1>3, ActsAt, AtCall, CleanBefore DEF Foot
<1>5. DOMAIN db = Fields /\ UsersOK(db.users)
  BY <1>1 DEF AccountsInv, DbOK
<1>6. c \in {"createUser", "updateUser", "disableUser", "upsertUser"}
  BY <1>4, UsersSpared
<1>7. db' # db
  OBVIOUS
<1>8. c # "createUser"
  <2> SUFFICES ASSUME c = "createUser" PROVE FALSE
    OBVIOUS
  <2>1. CreateUser(q) /\ u # q
    BY <1>1, <1>4, ActsOfCalls DEF MadeInv, Unborn
  <2>2. PICK us, row : us = With(db.users, q, row) /\ db' = [db EXCEPT !.users = us]
    BY <1>7, <2>1 DEF CreateUser, Reads, Refuses, Writes
  <2>3. db'.users = us
    BY <1>5, <2>2 DEF Fields
  <2> QED BY <2>1, <2>2, <2>3 DEF With
<1>9. c # "disableUser"
  <2> SUFFICES ASSUME c = "disableUser" PROVE FALSE
    OBVIOUS
  <2>1. DisableUser(q)
    BY <1>4 DEF ActsAs, SharedAs, PeopleAs, SignInAs, TokenAs, BootAs,
                SharedCalls, PeopleCalls, SignInCalls, TokenCalls, BootCalls
  <2>2. PICK x, row, us : /\ x = Mem(q).user /\ row = [db.users[x] EXCEPT !.disabled = TRUE]
                          /\ us = [db.users EXCEPT ![x] = row]
    OBVIOUS
  <2>3. db' = [db EXCEPT !.users = us]
    BY <2>1, <2>2 DEF DisableUser, Writes
  <2>4. db'.users = us
    BY <1>5, <2>3 DEF Fields
  <2>5. x = u => row.disabled
    BY <1>5, <2>2 DEF UsersOK, NamedUser, UserRow
  <2> QED BY <2>2, <2>4, <2>5
<1>10. c # "upsertUser"
  BY <1>1, <1>4, NobodyYet
<1>11. c = "updateUser"
  BY <1>6, <1>8, <1>9, <1>10
<1>12. UpdateUser(q)
  BY <1>4, <1>11 DEF ActsAs, SharedAs, PeopleAs, SignInAs, TokenAs, BootAs,
                     SharedCalls, PeopleCalls, SignInCalls, TokenCalls, BootCalls
<1>13. PICK m, x, row, us : /\ m = Mem(q) /\ x = m.user /\ row = Changed(q, m.held, m)
                            /\ us = [db.users EXCEPT ![x] = row]
  OBVIOUS
<1>14. db' = [db EXCEPT !.users = us]
  BY <1>7, <1>12, <1>13 DEF UpdateUser, Refuses, Writes
<1>15. db'.users = us
  BY <1>5, <1>14 DEF Fields
<1>16. u = x /\ ~row.disabled
  BY <1>13, <1>15
<1>17. m.held = db.users[u]
  <2>1. Rank("getUser") = 1 /\ Rank("updateUser") = 2
    BY DEF Rank
  <2>2. ~Precedes("updateUser", "getUser")
    BY <2>1 DEF Precedes
  <2>3. "getUser" \notin Left(q)
    BY <1>1, <1>4, <1>11, <2>2, AtCall
  <2>4. Current(q)
    BY <1>1, <1>4 DEF CurrentInv
  <2> QED BY <1>4, <1>11, <1>13, <1>16, <2>3, <2>4 DEF Current, UserRead
<1>18. m.change \in {"promote", "disable", "enable", "password", "login"}
  BY <1>4, <1>11, <1>13 DEF Known, Given
<1>19. m.change = "enable"
  <2>1. PICK h : h = m.held
    OBVIOUS
  <2>2. h \in UserRow /\ h.disabled
    BY <1>5, <1>17, <2>1 DEF UsersOK, NamedUser
  <2> QED BY <1>13, <1>16, <1>18, <2>1, <2>2 DEF Changed, UserRow
<1>20. proc'[q] # proc[q]
  BY <1>1, <1>3, <1>11, CallMoves DEF Loops
<1> QED BY <1>1, <1>4, <1>11, <1>13, <1>19, <1>20 DEF EnableInv, At, Busy

LEMMA ProviderStep ==
    ASSUME RulesInv, [Next]_vars, clean', NEW p \in DOMAIN db.providers \cap DOMAIN db'.providers
    PROVE  /\ db.providers[p].key # Null => db'.providers[p].key = db.providers[p].key
           /\ db'.providers[p].secret # db.providers[p].secret => db'.providers[p].secret # Null
<1>1. AccountsInv /\ CurrentInv
  BY DEF RulesInv, AccessInv
<1>2. CASE db'.providers[p] = db.providers[p]
  BY <1>2
<1>3. CASE db'.providers[p] # db.providers[p]
  <2>1. PICK q \in Requests : Acts(q)
    BY <1>1, <1>3, StepOrStill
  <2>2. PICK c : Foot(q, c)
    BY <1>1, <2>1, ActsFoot
  <2>3. /\ At(q, c) /\ c \in Left(q) /\ ActsAs(q, c) /\ Spares(c, db') /\ clean
        /\ Mem(q) \in AccountMemory /\ Known(Op(q), Left(q), Mem(q))
    BY <1>1, <2>1, <2>2, ActsAt, AtCall, CleanBefore DEF Foot
  <2>4. DOMAIN db = Fields /\ db.providers[p] \in ProviderRow
    BY <1>1 DEF AccountsInv, DbOK, ProvidersOK
  <2>5. c \in {"createProvider", "updateProvider", "ensureKeypair", "deleteProvider", "deleteOrg"}
    BY <1>3, <2>3, TablesSpared
  <2>6. db' # db
    BY <1>3
  <2>7. c # "createProvider"
    <3>1. ASSUME c = "createProvider" PROVE CreateAuthProvider(q)
      BY <2>3, <3>1 DEF ActsAs, SharedAs, PeopleAs, SignInAs, TokenAs, BootAs,
                        SharedCalls, PeopleCalls, SignInCalls, TokenCalls, BootCalls
    <3>2. db.providers # Empty
      BY DEF Empty
    <3> QED BY <2>6, <3>1, <3>2 DEF CreateAuthProvider, Refuses
  <2>8. c # "deleteOrg"
    <3> SUFFICES ASSUME c = "deleteOrg" PROVE FALSE
      OBVIOUS
    <3>1. DeletedOrg(Mem(q).org)
      BY <2>3, <2>4, ActsOfCalls, DeleteOrgDoes
    <3>2. db'.providers = db.providers \/ db'.providers = Empty
      BY <3>1 DEF DeletedOrg
    <3> QED BY <1>3, <3>2 DEF Empty
  <2>9. c # "deleteProvider"
    <3> SUFFICES ASSUME c = "deleteProvider" PROVE FALSE
      OBVIOUS
    <3>1. DeleteAuthProvider(q)
      BY <2>3 DEF ActsAs, SharedAs, PeopleAs, SignInAs, TokenAs, BootAs,
                  SharedCalls, PeopleCalls, SignInCalls, TokenCalls, BootCalls
    <3>2. PICK x, ps, rs, ls : /\ ps = Keep(db.providers, DOMAIN db.providers \ {x})
                               /\ db' = [db EXCEPT !.providers = ps, !.rules = rs, !.loginStates = ls]
      BY <3>1 DEF DeleteAuthProvider, Writes
    <3>3. db'.providers = ps
      BY <2>4, <3>2 DEF Fields
    <3> QED BY <1>3, <3>2, <3>3 DEF Keep
  <2>10. c \in {"updateProvider", "ensureKeypair"}
    BY <2>5, <2>7, <2>8, <2>9
  <2>11. PICK m, x, h : m = Mem(q) /\ x = m.provider /\ h = m.held
    OBVIOUS
  <2>12. x \in DOMAIN db.providers /\ h = db.providers[x]
    <3>1. Rank("load") = 1 /\ Rank("updateProvider") = 2 /\ Rank("ensureKeypair") = 2
      BY DEF Rank
    <3>2. ~Precedes("updateProvider", "load") /\ ~Precedes("ensureKeypair", "load")
      BY <3>1 DEF Precedes
    <3>3. "load" \notin Left(q)
      BY <1>1, <2>3, <2>10, <3>2, AtCall
    <3>4. Current(q)
      BY <1>1, <2>3 DEF CurrentInv
    <3> QED BY <2>3, <2>10, <2>11, <3>3, <3>4 DEF Current, ProviderRead
  <2>13. h \in ProviderRow
    BY <1>1, <2>12 DEF AccountsInv, DbOK, ProvidersOK
  <2>14. CASE c = "updateProvider"
    <3>1. UpdateAuthProvider(q)
      BY <2>3, <2>14 DEF ActsAs, SharedAs, PeopleAs, SignInAs, TokenAs, BootAs,
                         SharedCalls, PeopleCalls, SignInCalls, TokenCalls, BootCalls
    <3>2. PICK b, row, ps : b = m.body /\ row = Applied(q, b, h) /\ ps = [db.providers EXCEPT ![x] = row]
      OBVIOUS
    <3>3. db' = [db EXCEPT !.providers = ps]
      BY <2>11, <2>12, <3>1, <3>2 DEF UpdateAuthProvider, Writes
    <3>4. db'.providers = ps
      BY <2>4, <3>3 DEF Fields
    <3>5. x = p
      BY <1>3, <3>2, <3>4
    <3>6. b \in ProviderRow
      BY <2>3, <2>11, <2>14, <3>2 DEF Known, Given
    <3>7. /\ h.key # Null => row.key = h.key
          /\ row.secret # h.secret => row.secret # Null
      BY <2>13, <3>2, <3>6 DEF Applied, ProviderRow
    <3> QED BY <2>12, <3>2, <3>4, <3>5, <3>7
  <2>15. CASE c = "ensureKeypair"
    <3>1. EnsureSPKeypair(q)
      BY <2>3, <2>15 DEF ActsAs, SharedAs, PeopleAs, SignInAs, TokenAs, BootAs,
                         SharedCalls, PeopleCalls, SignInCalls, TokenCalls, BootCalls
    <3>2. PICK row, ps : row = [h EXCEPT !.key = q] /\ ps = [db.providers EXCEPT ![x] = row]
      OBVIOUS
    <3>3. h.key = Null /\ db' = [db EXCEPT !.providers = ps]
      BY <2>6, <2>11, <2>12, <3>1, <3>2 DEF EnsureSPKeypair, Writes, Reads, Refuses
    <3>4. db'.providers = ps
      BY <2>4, <3>3 DEF Fields
    <3>5. x = p
      BY <1>3, <3>2, <3>4
    <3>6. row.secret = h.secret
      BY <2>13, <3>2 DEF ProviderRow
    <3> QED BY <2>12, <3>2, <3>3, <3>4, <3>5, <3>6
  <2> QED BY <2>10, <2>14, <2>15
<1> QED BY <1>2, <1>3

LEMMA TeamStep ==
    ASSUME RulesInv, [Next]_vars, clean', NEW q \in Requests, proc'[q] # proc[q], Op(q) = "updateMember",
           At(q, "joinTeam"), NEW u, NEW o, NEW t, NEW wanted,
           u = Mem(q).user, o = Mem(q).org, t = Mem(q).ref, wanted = {t} \ {Null},
           wanted \subseteq DOMAIN db.teams,
           \A k \in DOMAIN db.teamMembers : k = <<t, u>> => db.teamMembers[k] = o
    PROVE  {k[1] : k \in {x \in DOMAIN db'.teamMembers : x[2] = u /\ db'.teamMembers[x] = o}} = wanted
<1>1. AccountsInv /\ CurrentInv
  BY DEF RulesInv, AccessInv
<1>2. Acts(q) /\ clean
  BY <1>1, WhoActs, CleanBefore
<1>3. AddTeamMember(q)
  <2>1. ActsAs(q, "joinTeam")
    BY <1>2, ActsAt
  <2> QED BY <2>1 DEF ActsAs, SharedAs, PeopleAs, SignInAs, TokenAs, BootAs,
                      SharedCalls, PeopleCalls, SignInCalls, TokenCalls, BootCalls
<1>4. "joinTeam" \in Left(q) /\ "leaveTeams" \notin Left(q)
  <2>1. Rank("leaveTeams") = 3 /\ Rank("joinTeam") = 4
    BY DEF Rank
  <2>2. ~Precedes("joinTeam", "leaveTeams")
    BY <2>1 DEF Precedes
  <2> QED BY <1>1, <2>2, AtCall
<1>5. o \in DOMAIN db.orgs /\ \A k \in DOMAIN db.teamMembers : ~(k[2] = u /\ db.teamMembers[k] = o)
  <2>1. Current(q)
    BY <1>1, <1>2, <1>4 DEF CurrentInv
  <2> QED BY <1>4, <2>1 DEF Current, TeamsLeft, TeamsOf
<1>6. CASE t = Null
  <2>1. db' = db
    BY <1>3, <1>6 DEF AddTeamMember, Reads
  <2> QED BY <1>5, <1>6, <2>1
<1>7. CASE t # Null
  <2>1. t \in DOMAIN db.teams
    BY <1>7
  <2>2. PICK k : k = <<t, u>>
    OBVIOUS
  <2>3. k \notin DOMAIN db.teamMembers
    BY <1>5, <2>2
  <2>4. PICK tm : tm = With(db.teamMembers, k, o)
    OBVIOUS
  <2>5. db' = [db EXCEPT !.teamMembers = tm]
    BY <1>3, <1>5, <1>7, <2>1, <2>2, <2>3, <2>4 DEF AddTeamMember, Writes
  <2>6. db'.teamMembers = tm
    BY <1>1, <2>5 DEF AccountsInv, DbOK, Fields
  <2>7. DOMAIN tm = DOMAIN db.teamMembers \cup {k} /\ tm[k] = o
        /\ \A x \in DOMAIN db.teamMembers : tm[x] = db.teamMembers[x]
    BY <2>3, <2>4 DEF With
  <2>8. {x \in DOMAIN tm : x[2] = u /\ tm[x] = o} = {k}
    BY <1>5, <2>2, <2>7
  <2>9. k[1] = t
    BY <2>2
  <2> QED BY <1>7, <2>6, <2>8, <2>9
<1> QED BY <1>6, <1>7

LEMMA SessionStep ==
    ASSUME RulesInv, clean, NEW q \in Requests, At(q, "createSession")
    PROVE  /\ Op(q) = "login" => /\ ~db.users[Mem(q).user].disabled
                                 /\ db.users[Mem(q).user].password = Mem(q).aux
           /\ Op(q) = "callback" => /\ ~db.users[Mem(q).user].disabled
                                    /\ db.providers[Mem(q).provider].enabled
           /\ Op(q) = "sessionToken" => /\ Mem(q).ref \in DOMAIN db.sessions
                                        /\ db.sessions[Mem(q).ref].user = Mem(q).user
           /\ Op(q) = "provision" => Mem(q).user = q
           /\ Op(q) \in {"login", "sessionToken", "callback", "provision"}
<1>1. AccountsInv /\ ProvisionsKnow /\ RouteInv /\ CurrentInv
  BY DEF RulesInv, SetUpInv, AccessInv
<1>2. \A d : ~Precedes("createSession", d)
  BY DEF Precedes
<1>3. Left(q) = {"createSession"} /\ HeldUser(Left(q), Mem(q))
  BY <1>1, <1>2, AtCall DEF Known
<1>4. Mem(q).user \in DOMAIN db.users
  BY <1>3 DEF HeldUser
<1>5. Mem(q).user # Null
  BY <1>1, <1>4, AccountTablesAssumption DEF AccountsInv, DbOK, UsersOK, Ids
<1>6. Current(q)
  BY <1>1, <1>3 DEF CurrentInv
<1>7. Op(q) \in {"login", "sessionToken", "callback", "provision"}
  BY <1>1, <1>3 DEF RouteInv, RouteOf
<1>8. Op(q) = "provision" => Mem(q).user = q
  BY <1>1, <1>3 DEF ProvisionsKnow, Provisions
<1> QED BY <1>3, <1>5, <1>6, <1>7, <1>8 DEF Current, LoggedIn, CalledBack, SessionRead

LEMMA KeyStep ==
    ASSUME RulesInv, clean, NEW q \in Requests, Op(q) = "createOrgByKey", At(q, "createOrg")
    PROVE  /\ ~db.tokens[Mem(q).aux].revoked
           /\ ~db.accounts[Mem(q).ref].disabled /\ ~db.accounts[Mem(q).ref].deleted
<1>1. AccountsInv /\ CurrentInv
  BY DEF RulesInv, AccessInv
<1>2. Rank("getToken") = 2 /\ Rank("getKeyAccount") = 3 /\ Rank("createOrg") = 4
  BY DEF Rank
<1>3. ~Precedes("createOrg", "getToken") /\ ~Precedes("createOrg", "getKeyAccount")
  BY <1>2 DEF Precedes
<1>4. "createOrg" \in Left(q) /\ "getToken" \notin Left(q) /\ "getKeyAccount" \notin Left(q)
  BY <1>1, <1>3, AtCall
<1>5. Current(q)
  BY <1>1, <1>4 DEF CurrentInv
<1> QED BY <1>4, <1>5 DEF Current, KeyRead, Usable

LEMMA ForgottenStep ==
    ASSUME RulesInv, NEW q \in Requests, Op(q) = "uninstall", At(q, "deleteInstallation")
    PROVE  Mem(q).aux \in github.had
<1>1. AccountsInv /\ GoneInv
  BY DEF RulesInv, AccessInv
<1>2. Rank("deleteAtGitHub") = 2 /\ Rank("deleteInstallation") = 3
  BY DEF Rank
<1>3. ~Precedes("deleteInstallation", "deleteAtGitHub")
  BY <1>2 DEF Precedes
<1>4. "deleteInstallation" \in Left(q) /\ "deleteAtGitHub" \notin Left(q)
  BY <1>1, <1>3, AtCall
<1> QED BY <1>1, <1>4 DEF GoneInv

\* What an administrator or an identity provider relies on stays as it was set
\* (SettingsStay): completed onboarding, whatever overlaps; and, as long as
\* requests neither overlap nor fail, a disabled user until an update enables
\* it, a provider's key pair and secret, and the one team that an update of a
\* member names.
THEOREM AccountsSettingsStay == Spec => SettingsStay
<1>1. RulesInv /\ [Next]_vars =>
        [\A o \in DOMAIN db.orgs \cap DOMAIN db'.orgs :
           db.orgs[o].onboarded => db'.orgs[o].onboarded]_db
  BY OnboardingStep DEF RulesInv, SetUpInv
<1>2. RulesInv /\ [Next]_vars =>
        [\A u \in DOMAIN db.users : clean' /\ db.users[u].disabled /\ ~db'.users[u].disabled =>
           \E q \in Requests : Busy(q) /\ Op(q) = "updateUser" /\ Mem(q).change = "enable" /\
                               proc'[q] # proc[q]]_<<db, proc, clean>>
  BY DisableStep
<1>3. RulesInv /\ [Next]_vars =>
        [\A p \in DOMAIN db.providers \cap DOMAIN db'.providers : clean' =>
           LET old == db.providers[p]
               new == db'.providers[p] IN
           /\ old.key # Null => new.key = old.key
           /\ new.secret # old.secret => new.secret # Null]_<<db, proc, clean>>
  BY ProviderStep
<1>4. RulesInv /\ [Next]_vars =>
        [\A q \in Requests :
           LET u == Mem(q).user
               o == Mem(q).org
               t == Mem(q).ref
               wanted == {t} \ {Null} IN
           (/\ clean' /\ proc'[q] # proc[q] /\ Op(q) = "updateMember" /\ At(q, "joinTeam")
            /\ wanted \subseteq DOMAIN db.teams
            /\ \A k \in DOMAIN db.teamMembers : k = <<t, u>> => db.teamMembers[k] = o) =>
               {k[1] : k \in {x \in DOMAIN db'.teamMembers : x[2] = u /\ db'.teamMembers[x] = o}}
                   = wanted]_<<db, proc, clean>>
  BY TeamStep
<1>5. Spec => OnboardingSticks
  BY <1>1, RulesInvariant, PTL DEF Spec, OnboardingSticks
<1>6. Spec => DisableSticks
  BY <1>2, RulesInvariant, PTL DEF Spec, DisableSticks
<1>7. Spec => ProviderSecretsKept
  BY <1>3, RulesInvariant, PTL DEF Spec, ProviderSecretsKept
<1>8. Spec => MemberTeamReplaced
  BY <1>4, RulesInvariant, PTL DEF Spec, MemberTeamReplaced
<1> QED BY <1>5, <1>6, <1>7, <1>8 DEF SettingsStay

\* Access is decided on what holds when it is used (AccessIsCurrent): a request
\* that runs alone makes a session only for a user who is not disabled and whose
\* password is the one given, through a provider that is enabled, or for a
\* session that is there; a key acts only while neither its token is revoked nor
\* its account disabled or deleted; and, whatever overlaps, an installation is
\* forgotten only after GitHub has deleted it.
THEOREM AccountsAccessIsCurrent == Spec => AccessIsCurrent
<1>1. RulesInv /\ [Next]_vars =>
        [\A q \in Requests : (clean' /\ At(q, "createSession") /\ proc'[q] # proc[q]) =>
           LET m == Mem(q)
               user == db.users[m.user] IN
           CASE Op(q) = "login" -> ~user.disabled /\ user.password = m.aux
             [] Op(q) = "callback" -> ~user.disabled /\ db.providers[m.provider].enabled
             [] Op(q) = "sessionToken" -> m.ref \in DOMAIN db.sessions /\ db.sessions[m.ref].user = m.user
             [] Op(q) = "provision" -> m.user = q]_<<db, proc, clean>>
  <2> SUFFICES ASSUME RulesInv, [Next]_vars, clean', NEW q \in Requests, At(q, "createSession")
               PROVE  LET m == Mem(q)
                          user == db.users[m.user] IN
                      CASE Op(q) = "login" -> ~user.disabled /\ user.password = m.aux
                        [] Op(q) = "callback" -> ~user.disabled /\ db.providers[m.provider].enabled
                        [] Op(q) = "sessionToken" ->
                             m.ref \in DOMAIN db.sessions /\ db.sessions[m.ref].user = m.user
                        [] Op(q) = "provision" -> m.user = q
    OBVIOUS
  <2>1. clean
    BY CleanBefore DEF RulesInv
  <2> QED BY <2>1, SessionStep
<1>2. RulesInv /\ [Next]_vars =>
        [\A q \in Requests :
           (clean' /\ Op(q) = "createOrgByKey" /\ At(q, "createOrg") /\ proc'[q] # proc[q]) =>
           /\ ~db.tokens[Mem(q).aux].revoked
           /\ ~db.accounts[Mem(q).ref].disabled /\ ~db.accounts[Mem(q).ref].deleted]_<<db, proc, clean>>
  BY KeyStep, CleanBefore DEF RulesInv
<1>3. RulesInv /\ [Next]_vars =>
        [\A q \in Requests :
           Op(q) = "uninstall" /\ At(q, "deleteInstallation") /\ db' # db /\ proc'[q] # proc[q] =>
           Mem(q).aux \in github.had]_<<db, proc, github>>
  BY ForgottenStep
<1>4. Spec => SignInIsCurrent
  BY <1>1, RulesInvariant, PTL DEF Spec, SignInIsCurrent
<1>5. Spec => KeyIsCurrent
  BY <1>2, RulesInvariant, PTL DEF Spec, KeyIsCurrent
<1>6. Spec => UninstalledBeforeForgotten
  BY <1>3, RulesInvariant, PTL DEF Spec, UninstalledBeforeForgotten
<1> QED BY <1>4, <1>5, <1>6 DEF AccessIsCurrent
=============================================================================
