--------------------------- MODULE AccountsProofs ---------------------------
(***************************************************************************)
(* Proofs about provisioning and deletion, for any subjects, any number of *)
(* logins and deletions in progress, and any number of users.              *)
(***************************************************************************)
EXTENDS Accounts, WellFoundedInduction, TLAPS

LoginRecord == [phase : LoginPhase, subject : Subject \cup {None}, batch : UserId \cup {None},
                existing : UserId \cup {None}, who : UserId \cup {None}, org : UserId \cup {None}]

DeletionRecord == [phase : DeletionPhase, org : UserId \cup {None}, users : SUBSET UserId,
                   identities : SUBSET UserId, guards : SUBSET Subject, memberships : SUBSET Pair]

\* Ids that no row has yet: those not minted, and those of batches that have
\* not been written.
Unwritten(u) == u > minted \/ \E c \in Login : At(c, "provision") /\ login[c].batch = u
Fresh == {u \in UserId : Unwritten(u)}

\* No two batches have the same id.
BatchesDiffer ==
  \A c, e \in Login :
    At(c, "provision") /\ At(e, "provision") /\ login[c].batch = login[e].batch => c = e

\* No row has an id of Fresh.
FreshIsNew ==
  \A u \in Fresh :
    /\ u \notin user /\ org[u] = "absent"
    /\ \A m \in member : m[1] # u /\ m[2] # u
    /\ \A s \in Subject : guard[s] # u

\* A uniqueness record names a user of its subject; in SQLite, one that exists.
GuardsAgree ==
  \A s \in Subject :
    guard[s] # None =>
      /\ subjectOf[guard[s]] = s
      /\ adapter = "sqlite" => guard[s] \in user

\* What a login l may rely on.
LoginSound(l) ==
  /\ l.phase # "idle" => l.subject \in Subject
  /\ l.phase = "user" => l.who \in 1 .. minted /\ subjectOf[l.who] = l.subject
  /\ l.phase = "provision" => l.batch \in 1 .. minted /\ subjectOf[l.batch] = l.subject

\* Every user keeps its identity record and owns its organization.
UserIsWhole ==
  \A u \in user : u \in identity /\ <<u, u>> \in member /\ org[u] # "absent"

\* What the deletion q may rely on: whatever it is going to delete of a user
\* goes after the user.
Scanned(q) == q.phase \in {"identities", "guards", "erase"}
DeletionSound(q) ==
  /\ q.phase # "idle" => q.org \in UserId
  /\ Scanned(q) \/ q.phase = "memberships" => adapter = "dynamodb" /\ q.org \notin Fresh
  /\ Scanned(q) =>
       /\ q.users \cap Fresh = {}
       /\ q.org \in user => q.org \in q.users
       /\ \A m \in q.memberships : m[1] \notin Fresh
       /\ \A u \in user : <<u, u>> \in q.memberships => u \in q.users
  /\ q.phase \in {"guards", "erase"} =>
       /\ q.identities \cap Fresh = {}
       /\ q.identities \cap user \subseteq q.users
       /\ q.users \cap user \subseteq q.identities
  /\ q.phase = "erase" =>
       \A s \in Subject : guard[s] \in q.users \cap user => s \in q.guards
  /\ q.phase # "erase" => q.guards = {}

\* The inductive invariant.
IInv ==
  /\ TypeOK
  /\ BatchesDiffer
  /\ FreshIsNew
  /\ GuardsAgree
  /\ \A c \in Login : LoginSound(login[c])
  /\ UserIsWhole
  /\ \A d \in Operator : DeletionSound(deletion[d])
  /\ LockoutOnlyAfterFailure

---------------------------------------------------------------------------
(***************************************************************************)
(* The earliest organization of a list.                                    *)
(***************************************************************************)
\* A set of natural numbers that is not empty has a least element.
LEMMA LeastExists ==
  ASSUME NEW S \in SUBSET Nat, S # {}
  PROVE  \E x \in S : \A y \in S : x =< y
<1>1. PICK x \in S : \A y \in S : <<y, x>> \notin OpToRel(<, Nat)
  BY NatLessThanWellFounded, WFMin
<1>2. OpToRel(<, Nat) = {p \in Nat \X Nat : p[1] < p[2]}
  BY DEF OpToRel
<1>3. ASSUME NEW y \in S PROVE x =< y
  <2>1. x \in Nat /\ y \in Nat /\ ~ (y < x)
    BY <1>1, <1>2
  <2>2. QED
    BY <2>1
<1>4. QED
  BY <1>1, <1>3

\* So the earliest organization of a list that is not empty is one of the list.
LEMMA EarliestIsListed ==
  ASSUME NEW S \in SUBSET UserId, S # {}
  PROVE  Min(S) \in S
<1>1. S \in SUBSET Nat
  BY BoundIsNatural DEF UserId
<1>2. \E x \in S : \A y \in S : x =< y
  BY <1>1, LeastExists
<1>3. QED
  BY <1>2 DEF Min
---------------------------------------------------------------------------
(***************************************************************************)
(* What keeps the parts of the invariant.                                  *)
(***************************************************************************)
\* The records of logins and deletions are as TypeOK says.
LEMMA Records ==
  ASSUME TypeOK
  PROVE  login \in [Login -> LoginRecord] /\ deletion \in [Operator -> DeletionRecord]
  BY DEF TypeOK, LoginRecord, DeletionRecord

\* The records of idle slots are sound.
LEMMA IdleIsSound ==
  /\ NoLogin \in LoginRecord /\ LoginSound(NoLogin)
  /\ NoDeletion \in DeletionRecord /\ DeletionSound(NoDeletion)
  BY DEF NoLogin, LoginRecord, LoginPhase, LoginSound, NoDeletion, DeletionRecord, DeletionPhase,
         DeletionSound, Scanned

\* What a login relies on stays true while it waits.
LEMMA LoginWaits ==
  ASSUME NEW l \in LoginRecord, LoginSound(l), TypeOK, minted' \in Nat, minted =< minted',
         \A u \in 1 .. minted : subjectOf'[u] = subjectOf[u]
  PROVE  LoginSound(l)'
  BY DEF LoginSound, TypeOK

\* What a deletion relies on stays true while others create and delete users.
LEMMA DeletionWaits ==
  ASSUME NEW q \in DeletionRecord, DeletionSound(q), UNCHANGED adapter,
         Fresh' \subseteq Fresh, user' \subseteq user \cup Fresh,
         \A s \in Subject : guard'[s] \in {guard[s], None} \cup Fresh
  PROVE  DeletionSound(q)'
<1>1. None \notin q.users
  BY BoundIsNatural DEF DeletionRecord, None, UserId
<1>2. q.phase # "idle" => q.org \in UserId
  BY DEF DeletionSound
<1>3. Scanned(q) \/ q.phase = "memberships" => adapter' = "dynamodb" /\ q.org \notin Fresh'
  BY DEF DeletionSound
<1>4. Scanned(q) =>
        /\ q.users \cap Fresh' = {}
        /\ q.org \in user' => q.org \in q.users
        /\ \A m \in q.memberships : m[1] \notin Fresh'
        /\ \A u \in user' : <<u, u>> \in q.memberships => u \in q.users
  BY DEF DeletionSound
<1>5. q.phase \in {"guards", "erase"} =>
        /\ q.identities \cap Fresh' = {}
        /\ q.identities \cap user' \subseteq q.users
        /\ q.users \cap user' \subseteq q.identities
  BY DEF DeletionSound, Scanned
<1>6. q.phase = "erase" =>
        \A s \in Subject : guard'[s] \in q.users \cap user' => s \in q.guards
  BY <1>1 DEF DeletionSound, Scanned
<1>7. QED
  BY <1>2, <1>3, <1>4, <1>5, <1>6 DEF DeletionSound, Scanned

\* When one deletion moves on, the others wait.
LEMMA DeletionsWait ==
  ASSUME IInv, NEW d \in Operator, NEW n \in DeletionRecord, DeletionSound(n)', Pursue(d, n),
         UNCHANGED adapter,
         Fresh' \subseteq Fresh, user' \subseteq user \cup Fresh,
         \A s \in Subject : guard'[s] \in {guard[s], None} \cup Fresh
  PROVE  \A e \in Operator : DeletionSound(deletion[e])'
<1> SUFFICES ASSUME NEW e \in Operator PROVE DeletionSound(deletion[e])'
  OBVIOUS
<1>1. deletion \in [Operator -> DeletionRecord]
  BY Records DEF IInv
<1>2. CASE e = d
  <2>1. deletion'[e] = n
    BY <1>1, <1>2 DEF Pursue
  <2>2. QED
    BY <2>1
<1>3. CASE e # d
  <2>1. PICK q : q = deletion[e]
    OBVIOUS
  <2>2. q \in DeletionRecord /\ DeletionSound(q)
    BY <1>1, <2>1 DEF IInv
  <2>3. DeletionSound(q)'
    BY <2>2, DeletionWaits
  <2>4. deletion'[e] = q
    BY <1>1, <1>3, <2>1 DEF Pursue
  <2>5. QED
    BY <2>3, <2>4
<1>4. QED
  BY <1>2, <1>3
---------------------------------------------------------------------------
(***************************************************************************)
(* Logins.                                                                 *)
(***************************************************************************)
\* A login that leaves "provision", or never was there, claims no new id.
LEMMA FreshShrinks ==
  ASSUME NEW c \in Login, NEW n \in LoginRecord, n.phase # "provision", TypeOK,
         login' = [login EXCEPT ![c] = n], UNCHANGED minted
  PROVE  Fresh' \subseteq Fresh
<1>1. \A e \in Login : At(e, "provision")' => At(e, "provision") /\ login'[e] = login[e]
  BY Records DEF At
<1>2. QED
  BY <1>1 DEF Fresh, Unwritten

\* Every answer has its type.
LEMMA AnswersAreTyped ==
  ASSUME NEW c \in Login
  PROVE  /\ Silence \in [Login -> Answer]
         /\ \A a \in Answer : [Silence EXCEPT ![c] = a] \in [Login -> Answer]
  BY DEF Silence, Answer

\* A login that writes nothing keeps the invariant if its own record is sound.
LEMMA LoginMoves ==
  ASSUME IInv, NEW c \in Login, NEW n \in LoginRecord, n.phase # "provision", LoginSound(n),
         login' = [login EXCEPT ![c] = n], answer' \in [Login -> Answer],
         UNCHANGED <<adapter, ids, rows, indexed, deletion, broken>>
  PROVE  IInv'
<1> USE DEF ids, rows
<1>1. login \in [Login -> LoginRecord]
  BY Records DEF IInv
<1>2. Fresh' \subseteq Fresh
  BY FreshShrinks DEF IInv
<1>3. TypeOK'
  <2>1. login' \in [Login -> LoginRecord]
    BY <1>1
  <2>2. QED
    BY <2>1 DEF IInv, TypeOK, LoginRecord
<1>4. BatchesDiffer'
  BY <1>1 DEF IInv, BatchesDiffer, At
<1>5. FreshIsNew' /\ GuardsAgree' /\ UserIsWhole'
  BY <1>2 DEF IInv, FreshIsNew, GuardsAgree, UserIsWhole
<1>6. ASSUME NEW e \in Login PROVE LoginSound(login[e])'
  <2>1. \A l \in LoginRecord : LoginSound(l) => LoginSound(l)'
    BY DEF LoginSound
  <2>2. login'[e] \in LoginRecord /\ LoginSound(login'[e])
    BY <1>1 DEF IInv
  <2>3. QED
    BY <2>2 DEF LoginSound
<1>7. ASSUME NEW d \in Operator PROVE DeletionSound(deletion[d])'
  <2>1. PICK q : q = deletion[d]
    OBVIOUS
  <2>2. q \in DeletionRecord /\ DeletionSound(q)
    BY <2>1, Records DEF IInv
  <2>3. DeletionSound(q)'
    BY <1>2, <2>2, DeletionWaits
  <2>4. QED
    BY <2>1, <2>3
<1>8. LockoutOnlyAfterFailure'
  BY DEF IInv, LockoutOnlyAfterFailure, LockedOut
<1>9. QED
  BY <1>3, <1>4, <1>5, <1>6, <1>7, <1>8 DEF IInv

\* A login that ends keeps the invariant.
LEMMA EndKeeps ==
  ASSUME IInv, NEW c \in Login, NEW a \in Answer, End(c, a),
         UNCHANGED <<adapter, ids, rows, indexed, deletion, broken>>
  PROVE  IInv'
<1>1. NoLogin.phase # "provision"
  BY DEF NoLogin
<1>2. login' = [login EXCEPT ![c] = NoLogin] /\ answer' \in [Login -> Answer]
  BY AnswersAreTyped DEF End
<1>3. QED
  BY <1>1, <1>2, IdleIsSound, LoginMoves

\* A login that goes on keeps the invariant if its next record is sound.
LEMMA ContinueKeeps ==
  ASSUME IInv, NEW c \in Login, NEW n \in LoginRecord, n.phase # "provision", LoginSound(n),
         Continue(c, n),
         UNCHANGED <<adapter, ids, rows, indexed, deletion, broken>>
  PROVE  IInv'
<1>1. login' = [login EXCEPT ![c] = n] /\ answer' \in [Login -> Answer]
  BY AnswersAreTyped DEF Continue
<1>2. QED
  BY <1>1, LoginMoves

\* A login in progress has a subject.
LEMMA HasSubject ==
  ASSUME IInv, NEW c \in Login, login[c].phase # "idle"
  PROVE  login[c] \in LoginRecord /\ login[c].subject \in Subject
  BY Records DEF IInv, LoginSound

\* A lookup that finds a user keeps the invariant,
LEMMA FoundKeeps ==
  ASSUME IInv, NEW c \in Login, login[c].phase # "idle", NEW u \in UserId, Found(c, u),
         UNCHANGED <<adapter, ids, rows, indexed, deletion, broken>>
  PROVE  IInv'
<1>1. PICK l : l = login[c]
  OBVIOUS
<1>2. l \in LoginRecord /\ l.subject \in Subject
  BY <1>1, HasSubject
<1>3. CASE End(c, "conflict")
  BY <1>3, EndKeeps DEF Answer
<1>4. CASE Continue(c, [login[c] EXCEPT !.phase = "list", !.who = u])
  <2>1. PICK n : n = [l EXCEPT !.phase = "list", !.who = u]
    OBVIOUS
  <2>2. n \in LoginRecord /\ n.phase = "list" /\ n.subject = l.subject
    BY <1>2, <2>1 DEF LoginRecord, LoginPhase
  <2>3. LoginSound(n)
    BY <1>2, <2>2 DEF LoginSound
  <2>4. QED
    BY <1>1, <1>4, <2>1, <2>2, <2>3, ContinueKeeps
<1>5. QED
  BY <1>3, <1>4 DEF Found

\* and one that finds nobody.
LEMMA MissedKeeps ==
  ASSUME IInv, NEW c \in Login, login[c].phase # "idle", Missed(c),
         UNCHANGED <<adapter, ids, rows, indexed, deletion, broken>>
  PROVE  IInv'
<1>1. PICK l : l = login[c]
  OBVIOUS
<1>2. l \in LoginRecord /\ l.subject \in Subject
  BY <1>1, HasSubject
<1>3. CASE End(c, "conflict")
  BY <1>3, EndKeeps DEF Answer
<1>4. CASE Continue(c, [login[c] EXCEPT !.phase = "profile", !.who = None])
  <2>1. PICK n : n = [l EXCEPT !.phase = "profile", !.who = None]
    OBVIOUS
  <2>2. n \in LoginRecord /\ n.phase = "profile" /\ n.subject = l.subject
    BY <1>2, <2>1 DEF LoginRecord, LoginPhase
  <2>3. LoginSound(n)
    BY <1>2, <2>2 DEF LoginSound
  <2>4. QED
    BY <1>1, <1>4, <2>1, <2>2, <2>3, ContinueKeeps
<1>5. QED
  BY <1>3, <1>4 DEF Missed

\* What a uniqueness record names is an id.
LEMMA GuardNamesId ==
  ASSUME IInv, NEW s \in Subject, guard[s] # None
  PROVE  guard[s] \in UserId /\ guard[s] \in 1 .. minted /\ subjectOf[guard[s]] = s
<1>1. guard[s] \in UserId /\ minted \in Nat
  BY DEF IInv, TypeOK
<1>2. guard[s] \notin Fresh
  BY <1>1 DEF IInv, FreshIsNew
<1>3. guard[s] \in Nat /\ guard[s] >= 1
  BY <1>1, BoundIsNatural DEF UserId
<1>4. ~ (guard[s] > minted)
  BY <1>1, <1>2 DEF Fresh, Unwritten
<1>5. subjectOf[guard[s]] = s
  BY DEF IInv, GuardsAgree
<1>6. QED
  BY <1>1, <1>3, <1>4, <1>5

\* No login step that writes nothing disturbs the invariant.
LEMMA AskKeeps ==
  ASSUME IInv, NEW c \in Login, NEW s \in Subject, Ask(c, s),
         UNCHANGED <<adapter, indexed, deletion, broken>>
  PROVE  IInv'
<1>1. PICK n : n = [NoLogin EXCEPT !.phase = "guard", !.subject = s]
  OBVIOUS
<1>2. n \in LoginRecord /\ n.phase = "guard" /\ n.subject = s
  BY <1>1 DEF LoginRecord, LoginPhase, NoLogin
<1>3. LoginSound(n)
  BY <1>2 DEF LoginSound
<1>4. QED
  BY <1>1, <1>2, <1>3, ContinueKeeps DEF Ask

LEMMA LookupKeeps ==
  ASSUME IInv, NEW c \in Login, Lookup(c), UNCHANGED <<adapter, indexed, deletion, broken>>
  PROVE  IInv'
<1>1. login[c].phase # "idle"
  BY DEF Lookup, At
<1>2. PICK u : u = guard[login[c].subject]
  OBVIOUS
<1>3. CASE u = None
  BY <1>1, <1>2, <1>3, MissedKeeps DEF Lookup
<1>4. CASE u # None
  <2>1. u \in UserId
    BY <1>1, <1>2, <1>4, HasSubject, GuardNamesId
  <2>2. Found(c, u)
    BY <1>2, <1>4 DEF Lookup
  <2>3. QED
    BY <1>1, <2>1, <2>2, FoundKeeps DEF Lookup
<1>5. QED
  BY <1>3, <1>4

LEMMA ReadGuardKeeps ==
  ASSUME IInv, NEW c \in Login, ReadGuard(c), UNCHANGED <<adapter, indexed, deletion, broken>>
  PROVE  IInv'
<1>1. login[c].phase # "idle"
  BY DEF ReadGuard, At
<1>2. PICK l : l = login[c]
  OBVIOUS
<1>3. l \in LoginRecord /\ l.subject \in Subject
  BY <1>1, <1>2, HasSubject
<1>4. PICK u : u = guard[l.subject]
  OBVIOUS
<1>5. CASE u = None
  BY <1>1, <1>2, <1>4, <1>5, MissedKeeps DEF ReadGuard
<1>6. CASE u # None
  <2>1. u \in UserId /\ u \in 1 .. minted /\ subjectOf[u] = l.subject
    BY <1>3, <1>4, <1>6, GuardNamesId
  <2>2. PICK n : n = [l EXCEPT !.phase = "user", !.who = u]
    OBVIOUS
  <2>3. n \in LoginRecord /\ n.phase = "user" /\ n.who = u /\ n.subject = l.subject
    BY <1>3, <2>1, <2>2 DEF LoginRecord, LoginPhase
  <2>4. LoginSound(n)
    BY <1>3, <2>1, <2>3 DEF LoginSound
  <2>5. Continue(c, n)
    BY <1>2, <1>4, <1>6, <2>2 DEF ReadGuard
  <2>6. QED
    BY <2>3, <2>4, <2>5, ContinueKeeps DEF ReadGuard
<1>7. QED
  BY <1>5, <1>6

LEMMA ReadUserKeeps ==
  ASSUME IInv, NEW c \in Login, ReadUser(c), UNCHANGED <<adapter, indexed, deletion, broken>>
  PROVE  IInv'
<1>1. login[c].phase # "idle"
  BY DEF ReadUser, At
<1>2. CASE login[c].who \in user
  <2>1. login[c].who \in UserId
    BY <1>2 DEF IInv, TypeOK
  <2>2. QED
    BY <1>1, <1>2, <2>1, FoundKeeps DEF ReadUser
<1>3. CASE login[c].who \notin user
  BY <1>1, <1>3, MissedKeeps DEF ReadUser
<1>4. QED
  BY <1>2, <1>3

LEMMA ResolveWinnerKeeps ==
  ASSUME IInv, NEW c \in Login, ResolveWinner(c), UNCHANGED <<adapter, indexed, deletion, broken>>
  PROVE  IInv'
<1>1. login[c].phase # "idle"
  BY DEF ResolveWinner, At
<1>2. PICK l : l = login[c]
  OBVIOUS
<1>3. l \in LoginRecord /\ l.subject \in Subject
  BY <1>1, <1>2, HasSubject
<1>4. PICK u : u = guard[l.subject]
  OBVIOUS
<1>5. u \in UserId \cup {None}
  BY <1>3, <1>4 DEF IInv, TypeOK
<1>6. PICK n : n = [l EXCEPT !.phase = "guard", !.existing = u]
  OBVIOUS
<1>7. n \in LoginRecord /\ n.phase = "guard" /\ n.subject = l.subject
  BY <1>3, <1>5, <1>6 DEF LoginRecord, LoginPhase
<1>8. LoginSound(n)
  BY <1>3, <1>7 DEF LoginSound
<1>9. QED
  BY <1>2, <1>4, <1>6, <1>7, <1>8, ContinueKeeps DEF ResolveWinner

LEMMA ListOrganizationsKeeps ==
  ASSUME IInv, NEW c \in Login, ListOrganizations(c),
         UNCHANGED <<adapter, indexed, deletion, broken>>
  PROVE  IInv'
<1>1. login[c].phase # "idle"
  BY DEF ListOrganizations, At
<1>2. PICK l : l = login[c]
  OBVIOUS
<1>3. l \in LoginRecord /\ l.subject \in Subject
  BY <1>1, <1>2, HasSubject
<1>4. PICK mine : mine = {o \in UserId : <<o, l.who>> \in Listed}
  OBVIOUS
<1>5. CASE mine = {} /\ End(c, "no_organization")
  BY <1>5, EndKeeps DEF ListOrganizations, Answer
<1>6. CASE mine # {}
  <2>1. Min(mine) \in UserId
    BY <1>4, <1>6, EarliestIsListed
  <2>2. PICK n : n = [l EXCEPT !.org = Min(mine),
                        !.phase = IF adapter = "sqlite" THEN "membership" ELSE "readback"]
    OBVIOUS
  <2>3. /\ n \in LoginRecord /\ n.subject = l.subject
        /\ n.phase \in {"membership", "readback"}
    BY <1>3, <2>1, <2>2 DEF LoginRecord, LoginPhase
  <2>4. LoginSound(n)
    BY <1>3, <2>3 DEF LoginSound
  <2>5. Continue(c, n)
    BY <1>2, <1>4, <1>6, <2>2 DEF ListOrganizations
  <2>6. QED
    BY <2>3, <2>4, <2>5, ContinueKeeps DEF ListOrganizations
<1>7. QED
  BY <1>2, <1>4, <1>5, <1>6 DEF ListOrganizations

LEMMA ReadBackKeeps ==
  ASSUME IInv, NEW c \in Login, ReadBackOrganization(c),
         UNCHANGED <<adapter, indexed, deletion, broken>>
  PROVE  IInv'
<1>1. login[c].phase # "idle"
  BY DEF ReadBackOrganization, At
<1>2. PICK l : l = login[c]
  OBVIOUS
<1>3. l \in LoginRecord /\ l.subject \in Subject
  BY <1>1, <1>2, HasSubject
<1>4. CASE End(c, "error")
  BY <1>4, EndKeeps DEF ReadBackOrganization, Answer
<1>5. CASE Continue(c, [login[c] EXCEPT !.phase = "membership"])
  <2>1. PICK n : n = [l EXCEPT !.phase = "membership"]
    OBVIOUS
  <2>2. n \in LoginRecord /\ n.phase = "membership" /\ n.subject = l.subject
    BY <1>3, <2>1 DEF LoginRecord, LoginPhase
  <2>3. LoginSound(n)
    BY <1>3, <2>2 DEF LoginSound
  <2>4. QED
    BY <1>2, <1>5, <2>1, <2>2, <2>3, ContinueKeeps DEF ReadBackOrganization
<1>6. QED
  BY <1>4, <1>5 DEF ReadBackOrganization

LEMMA ReadMembershipKeeps ==
  ASSUME IInv, NEW c \in Login, ReadMembership(c),
         UNCHANGED <<adapter, indexed, deletion, broken>>
  PROVE  IInv'
<1>1. PICK a \in Answer : End(c, a)
  BY DEF ReadMembership, Answer
<1>2. QED
  BY <1>1, EndKeeps DEF ReadMembership

LEMMA FailKeeps ==
  ASSUME IInv, NEW c \in Login, Fail(c), UNCHANGED <<adapter, indexed, deletion, broken>>
  PROVE  IInv'
  BY EndKeeps DEF Fail, Answer
---------------------------------------------------------------------------
(***************************************************************************)
(* The two login steps that mint an id and write a batch.                  *)
(***************************************************************************)
\* A new id is the last of all, and nobody has it.
LEMMA MintKeeps ==
  ASSUME IInv, NEW c \in Login, At(c, "profile"), minted < MaxUser, minted' = minted + 1,
         subjectOf' = [subjectOf EXCEPT ![minted + 1] = login[c].subject],
         Continue(c, [login[c] EXCEPT !.phase = "provision", !.batch = minted + 1]),
         UNCHANGED <<adapter, rows, indexed, deletion, broken>>
  PROVE  IInv'
<1> USE DEF rows
<1>1. PICK l : l = login[c]
  OBVIOUS
<1>2. l \in LoginRecord /\ l.subject \in Subject
  BY <1>1, HasSubject DEF At
<1>3. login \in [Login -> LoginRecord]
  BY Records DEF IInv
<1>4. PICK v : v = minted + 1
  OBVIOUS
<1>5. v \in UserId /\ v \in Nat /\ minted \in Nat /\ v > minted /\ minted' = v
  BY <1>4, BoundIsNatural DEF IInv, TypeOK, UserId
<1>6. PICK n : n = [l EXCEPT !.phase = "provision", !.batch = v]
  OBVIOUS
<1>7. /\ n \in LoginRecord /\ n.phase = "provision" /\ n.batch = v
      /\ n.subject = l.subject
  BY <1>2, <1>5, <1>6 DEF LoginRecord, LoginPhase
<1>8. /\ login' = [login EXCEPT ![c] = n] /\ answer' \in [Login -> Answer]
      /\ subjectOf' = [subjectOf EXCEPT ![v] = l.subject]
  BY <1>1, <1>4, <1>6, AnswersAreTyped DEF Continue
<1>9. /\ subjectOf' \in [UserId -> Subject \cup {None}]
      /\ subjectOf'[v] = l.subject
      /\ \A u \in 1 .. minted : subjectOf'[u] = subjectOf[u]
  <2>1. subjectOf \in [UserId -> Subject \cup {None}]
    BY DEF IInv, TypeOK
  <2>2. \A u \in 1 .. minted : u \in UserId /\ u # v
    BY <1>5, BoundIsNatural DEF UserId
  <2>3. QED
    BY <1>2, <1>5, <1>8, <2>1, <2>2
<1>10. login' \in [Login -> LoginRecord] /\ login'[c] = n /\ \A e \in Login \ {c} : login'[e] = login[e]
  BY <1>3, <1>7, <1>8
<1>11. \A e \in Login \ {c} : login[e].phase = "provision" => login[e].batch # v
  BY <1>5 DEF IInv, LoginSound
<1>12. Fresh' \subseteq Fresh
  <2>1. \A u \in UserId : u > minted' => u > minted
    BY <1>5, BoundIsNatural DEF UserId
  <2>2. v \in Fresh
    BY <1>5 DEF Fresh, Unwritten
  <2>3. ASSUME NEW u \in UserId, NEW e \in Login, At(e, "provision")', login'[e].batch = u
        PROVE  u \in Fresh
    BY <1>7, <1>10, <2>2, <2>3 DEF Fresh, Unwritten, At
  <2>4. QED
    BY <2>1, <2>3 DEF Fresh, Unwritten
<1>13. TypeOK'
  <2>1. minted' \in 0 .. MaxUser
    BY <1>5, BoundIsNatural DEF UserId
  <2>2. login' \in [Login -> [phase : LoginPhase, subject : Subject \cup {None},
                              batch : UserId \cup {None}, existing : UserId \cup {None},
                              who : UserId \cup {None}, org : UserId \cup {None}]]
    BY <1>10 DEF LoginRecord
  <2>3. QED
    BY <1>8, <1>9, <2>1, <2>2 DEF IInv, TypeOK
<1>14. BatchesDiffer'
  BY <1>7, <1>10, <1>11 DEF IInv, BatchesDiffer, At
<1>15. FreshIsNew' /\ UserIsWhole'
  BY <1>12 DEF IInv, FreshIsNew, UserIsWhole
<1>16. GuardsAgree'
  <2>1. ASSUME NEW s \in Subject, guard[s] # None
        PROVE  subjectOf'[guard[s]] = s
    BY <1>9, <2>1, GuardNamesId
  <2>2. QED
    BY <2>1 DEF IInv, GuardsAgree
<1>17. ASSUME NEW e \in Login PROVE LoginSound(login[e])'
  <2>1. CASE e = c
    <3>1. LoginSound(n)'
      BY <1>2, <1>5, <1>7, <1>9 DEF LoginSound
    <3>2. QED
      BY <1>10, <2>1, <3>1
  <2>2. CASE e # c
    <3>1. PICK m : m = login[e]
      OBVIOUS
    <3>2. m \in LoginRecord /\ LoginSound(m)
      BY <1>3, <3>1 DEF IInv
    <3>3. LoginSound(m)'
      BY <1>5, <1>9, <3>2, LoginWaits DEF IInv
    <3>4. QED
      BY <1>10, <2>2, <3>1, <3>3
  <2>3. QED
    BY <2>1, <2>2
<1>18. ASSUME NEW d \in Operator PROVE DeletionSound(deletion[d])'
  <2>1. PICK q : q = deletion[d]
    OBVIOUS
  <2>2. q \in DeletionRecord /\ DeletionSound(q)
    BY <2>1, Records DEF IInv
  <2>3. DeletionSound(q)'
    BY <1>12, <2>2, DeletionWaits
  <2>4. QED
    BY <2>1, <2>3
<1>19. LockoutOnlyAfterFailure'
  BY DEF IInv, LockoutOnlyAfterFailure, LockedOut
<1>20. QED
  BY <1>13, <1>14, <1>15, <1>16, <1>17, <1>18, <1>19 DEF IInv

LEMMA CheckProfileKeeps ==
  ASSUME IInv, NEW c \in Login, CheckProfile(c), UNCHANGED <<adapter, indexed, deletion, broken>>
  PROVE  IInv'
<1>1. CASE End(c, "unauthorized") /\ UNCHANGED ids
  BY <1>1, EndKeeps DEF CheckProfile, Answer
<1>2. CASE ~ (End(c, "unauthorized") /\ UNCHANGED ids)
  BY <1>2, MintKeeps DEF CheckProfile
<1>3. QED
  BY <1>1, <1>2

\* The batch u of the login c is written.
LEMMA CreateKeeps ==
  ASSUME IInv, NEW c \in Login, At(c, "provision"),
         NEW s \in Subject, s = login[c].subject, NEW u, u = login[c].batch,
         guard[s] = None, Create(u, s),
         Continue(c, [login[c] EXCEPT !.phase = "list", !.who = u]),
         UNCHANGED <<adapter, ids, indexed, deletion, broken>>
  PROVE  /\ IInv' /\ u \in Fresh /\ subjectOf[u] = s
<1> USE DEF ids
<1>1. PICK l : l = login[c]
  OBVIOUS
<1>2. l \in LoginRecord /\ l.subject = s /\ l.batch = u /\ l.phase = "provision"
  BY <1>1, HasSubject DEF At
<1>3. login \in [Login -> LoginRecord]
  BY Records DEF IInv
<1>4. u \in 1 .. minted /\ subjectOf[u] = s /\ minted \in Nat
  BY <1>1, <1>2 DEF IInv, LoginSound, TypeOK
<1>5. u \in UserId
  BY <1>4, BoundIsNatural DEF IInv, TypeOK, UserId
<1>6. u \in Fresh
  BY <1>1, <1>2, <1>5 DEF Fresh, Unwritten, At
<1>7. PICK n : n = [l EXCEPT !.phase = "list", !.who = u]
  OBVIOUS
<1>8. n \in LoginRecord /\ n.phase = "list" /\ n.subject = s
  BY <1>2, <1>5, <1>7 DEF LoginRecord, LoginPhase
<1>9. login' = [login EXCEPT ![c] = n] /\ answer' \in [Login -> Answer]
  BY <1>1, <1>7, AnswersAreTyped DEF Continue
<1>10. login' \in [Login -> LoginRecord] /\ login'[c] = n /\ \A e \in Login \ {c} : login'[e] = login[e]
  BY <1>3, <1>8, <1>9
<1>11. Fresh' \subseteq Fresh
  BY <1>8, <1>9, FreshShrinks DEF IInv
<1>12. u \notin Fresh'
  <2>1. ~ (u > minted')
    BY <1>4
  <2>2. \A e \in Login \ {c} : login'[e].phase = "provision" => login'[e].batch # u
    BY <1>1, <1>2, <1>10 DEF IInv, BatchesDiffer, At
  <2>3. QED
    BY <1>8, <1>10, <2>1, <2>2 DEF Fresh, Unwritten, At
<1>13. /\ guard \in [Subject -> UserId \cup {None}] /\ org \in [UserId -> {"absent", "active", "disabled"}]
       /\ guard' = [guard EXCEPT ![s] = u] /\ org' = [org EXCEPT ![u] = "active"]
       /\ user' = user \cup {u} /\ identity' = identity \cup {u} /\ member' = member \cup {<<u, u>>}
  BY DEF IInv, TypeOK, Create
<1>14. TypeOK'
  <2>1. login' \in [Login -> [phase : LoginPhase, subject : Subject \cup {None},
                              batch : UserId \cup {None}, existing : UserId \cup {None},
                              who : UserId \cup {None}, org : UserId \cup {None}]]
    BY <1>10 DEF LoginRecord
  <2>2. /\ guard' \in [Subject -> UserId \cup {None}]
        /\ org' \in [UserId -> {"absent", "active", "disabled"}]
        /\ <<u, u>> \in Pair
    BY <1>5, <1>13 DEF Pair
  <2>3. QED
    BY <1>5, <1>9, <1>13, <2>1, <2>2 DEF IInv, TypeOK
<1>15. BatchesDiffer'
  BY <1>8, <1>10 DEF IInv, BatchesDiffer, At
<1>16. FreshIsNew'
  <2> SUFFICES ASSUME NEW v \in Fresh'
               PROVE  /\ v \notin user' /\ org'[v] = "absent"
                      /\ \A m \in member' : m[1] # v /\ m[2] # v
                      /\ \A t \in Subject : guard'[t] # v
    BY DEF FreshIsNew
  <2>1. v \in Fresh /\ v # u /\ v \in UserId
    BY <1>11, <1>12 DEF Fresh
  <2>2. v \notin user' /\ org'[v] = "absent"
    BY <1>13, <2>1 DEF IInv, FreshIsNew
  <2>3. \A m \in member' : m[1] # v /\ m[2] # v
    BY <1>13, <2>1 DEF IInv, FreshIsNew
  <2>4. \A t \in Subject : guard'[t] # v
    BY <1>13, <2>1 DEF IInv, FreshIsNew
  <2>5. QED
    BY <2>2, <2>3, <2>4
<1>17. GuardsAgree'
  BY <1>4, <1>13 DEF IInv, GuardsAgree
<1>18. ASSUME NEW e \in Login PROVE LoginSound(login[e])'
  <2>1. \A m \in LoginRecord : LoginSound(m) => LoginSound(m)'
    BY DEF LoginSound
  <2>2. LoginSound(n)
    BY <1>8 DEF LoginSound
  <2>3. login'[e] \in LoginRecord /\ LoginSound(login'[e])
    BY <1>3, <1>8, <1>10, <2>2 DEF IInv
  <2>4. QED
    BY <2>3 DEF LoginSound
<1>19. UserIsWhole'
  BY <1>5, <1>13 DEF IInv, TypeOK, UserIsWhole
<1>20. ASSUME NEW d \in Operator PROVE DeletionSound(deletion[d])'
  <2>1. PICK q : q = deletion[d]
    OBVIOUS
  <2>2. q \in DeletionRecord /\ DeletionSound(q)
    BY <2>1, Records DEF IInv
  <2>3. user' \subseteq user \cup Fresh /\ \A t \in Subject : guard'[t] \in {guard[t], None} \cup Fresh
    BY <1>6, <1>13
  <2>4. DeletionSound(q)'
    BY <1>11, <2>2, <2>3, DeletionWaits
  <2>5. QED
    BY <2>1, <2>4
<1>21. LockoutOnlyAfterFailure'
  BY <1>13 DEF IInv, LockoutOnlyAfterFailure, LockedOut
<1>22. QED
  BY <1>4, <1>6, <1>14, <1>15, <1>16, <1>17, <1>18, <1>19, <1>20, <1>21 DEF IInv

LEMMA ProvisionKeeps ==
  ASSUME IInv, NEW c \in Login, Provision(c), UNCHANGED <<adapter, indexed, deletion, broken>>
  PROVE  IInv'
<1>1. PICK l : l = login[c]
  OBVIOUS
<1>2. At(c, "provision") /\ l \in LoginRecord /\ l.subject \in Subject
  BY <1>1, HasSubject DEF Provision, At
<1>3. CASE guard[login[c].subject] = None
  BY <1>1, <1>2, <1>3, CreateKeeps DEF Provision
<1>4. CASE guard[login[c].subject] # None
  <2>1. PICK n : n = [l EXCEPT !.phase = "winner"]
    OBVIOUS
  <2>2. n \in LoginRecord /\ n.phase = "winner" /\ n.subject = l.subject
    BY <1>2, <2>1 DEF LoginRecord, LoginPhase
  <2>3. LoginSound(n)
    BY <1>2, <2>2 DEF LoginSound
  <2>4. QED
    BY <1>1, <1>4, <2>1, <2>2, <2>3, ContinueKeeps DEF Provision
<1>5. QED
  BY <1>3, <1>4

LEMMA LoginStepKeeps ==
  ASSUME IInv, LoginNext, UNCHANGED <<adapter, indexed, deletion, broken>>
  PROVE  IInv'
  BY AskKeeps, LookupKeeps, ReadGuardKeeps, ReadUserKeeps, CheckProfileKeeps, ProvisionKeeps,
     ResolveWinnerKeeps, ListOrganizationsKeeps, ReadBackKeeps, ReadMembershipKeeps, FailKeeps
     DEF LoginNext, LoginStep
---------------------------------------------------------------------------
(***************************************************************************)
(* Deletions.                                                              *)
(***************************************************************************)
\* A step that creates no user, uniqueness record or organization keeps the
\* invariant if it keeps what is said of users, deletions and lockouts.
LEMMA RowsGo ==
  ASSUME IInv, TypeOK', UNCHANGED <<adapter, ids, login>>,
         user' \subseteq user,
         \A m \in member' \ member : m[1] \notin Fresh /\ m[2] \notin Fresh,
         \A o \in UserId : org'[o] # "absent" => org[o] # "absent",
         \A s \in Subject : guard'[s] \in {guard[s], None},
         adapter = "sqlite" => \A s \in Subject : guard'[s] \in user' \cup {None},
         UserIsWhole', LockoutOnlyAfterFailure',
         \A d \in Operator : DeletionSound(deletion[d])'
  PROVE  IInv' /\ Fresh' = Fresh
<1> USE DEF ids
<1>1. Fresh' = Fresh
  BY DEF Fresh, Unwritten, At
<1>2. BatchesDiffer'
  BY DEF IInv, BatchesDiffer, At
<1>3. FreshIsNew'
  <2> SUFFICES ASSUME NEW u \in Fresh
               PROVE  /\ u \notin user' /\ org'[u] = "absent"
                      /\ \A m \in member' : m[1] # u /\ m[2] # u
                      /\ \A s \in Subject : guard'[s] # u
    BY <1>1 DEF FreshIsNew
  <2>1. u \in UserId /\ u # None
    BY BoundIsNatural DEF Fresh, UserId, None
  <2>2. u \notin user' /\ org'[u] = "absent"
    BY <2>1 DEF IInv, FreshIsNew
  <2>3. \A m \in member' : m[1] # u /\ m[2] # u
    BY DEF IInv, FreshIsNew
  <2>4. \A s \in Subject : guard'[s] # u
    BY <2>1 DEF IInv, FreshIsNew
  <2>5. QED
    BY <2>2, <2>3, <2>4
<1>4. GuardsAgree'
  BY DEF IInv, GuardsAgree
<1>5. ASSUME NEW c \in Login PROVE LoginSound(login[c])'
  BY DEF IInv, LoginSound
<1>6. QED
  BY <1>1, <1>2, <1>3, <1>4, <1>5 DEF IInv

\* A deletion that writes nothing keeps the invariant if its own record is
\* sound and it forgets no uniqueness record without a trace.
LEMMA PursueKeeps ==
  ASSUME IInv, NEW d \in Operator, NEW n \in DeletionRecord, DeletionSound(n), Pursue(d, n),
         answer' = Silence, broken' \in BOOLEAN, broken => broken',
         broken' \/ deletion[d].guards \subseteq n.guards,
         UNCHANGED <<adapter, ids, rows, indexed, login>>
  PROVE  IInv'
<1> USE DEF ids, rows
<1>1. deletion \in [Operator -> DeletionRecord]
  BY Records DEF IInv
<1>2. deletion' \in [Operator -> DeletionRecord] /\ deletion'[d] = n
      /\ \A e \in Operator \ {d} : deletion'[e] = deletion[e]
  BY <1>1 DEF Pursue
<1>3. TypeOK'
  <2>1. answer' \in [Login -> Answer]
    BY DEF Silence, Answer
  <2>2. QED
    BY <1>2, <2>1 DEF IInv, TypeOK, DeletionRecord
<1>4. Fresh' = Fresh
  BY DEF Fresh, Unwritten, At
<1>5. DeletionSound(n)'
  BY <1>4, DeletionWaits
<1>6. \A e \in Operator : DeletionSound(deletion[e])'
  BY <1>4, <1>5, DeletionsWait
<1>7. UserIsWhole'
  BY DEF IInv, UserIsWhole
<1>8. LockoutOnlyAfterFailure'
  BY <1>2 DEF IInv, LockoutOnlyAfterFailure, LockedOut
<1>9. adapter = "sqlite" => \A s \in Subject : guard'[s] \in user' \cup {None}
  BY DEF IInv, GuardsAgree
<1>10. QED
  BY <1>3, <1>6, <1>7, <1>8, <1>9, RowsGo

\* Before it erases, a deletion has found no uniqueness record.
LEMMA AskDeletionKeeps ==
  ASSUME IInv, NEW d \in Operator, NEW o \in UserId, AskDeletion(d, o),
         answer' = Silence, UNCHANGED <<adapter, ids, indexed, login>>
  PROVE  IInv'
<1>1. PICK n : n = [NoDeletion EXCEPT !.phase = "confirm", !.org = o]
  OBVIOUS
<1>2. n \in DeletionRecord /\ n.phase = "confirm" /\ n.org = o /\ n.guards = {}
  BY <1>1 DEF DeletionRecord, DeletionPhase, NoDeletion
<1>3. DeletionSound(n)
  BY <1>2 DEF DeletionSound, Scanned
<1>4. deletion[d].guards = {}
  BY DEF AskDeletion, Is, IInv, DeletionSound
<1>5. broken' = broken /\ broken \in BOOLEAN
  BY DEF AskDeletion, IInv, TypeOK
<1>6. QED
  BY <1>1, <1>2, <1>3, <1>4, <1>5, PursueKeeps DEF AskDeletion

LEMMA ConfirmKeeps ==
  ASSUME IInv, NEW d \in Operator, Confirm(d) \/ Gone(d),
         answer' = Silence, UNCHANGED <<adapter, ids, indexed, login>>
  PROVE  IInv'
<1>1. PICK q : q = deletion[d]
  OBVIOUS
<1>2. q \in DeletionRecord /\ DeletionSound(q) /\ q.phase \in {"confirm", "suspend"}
  BY <1>1, Records DEF IInv, Confirm, Gone, Is
<1>3. q.guards = {} /\ q.org \in UserId
  BY <1>2 DEF DeletionSound
<1>4. broken' = broken /\ broken \in BOOLEAN
  BY DEF Confirm, Gone, IInv, TypeOK
<1>5. CASE Pursue(d, NoDeletion)
  BY <1>1, <1>3, <1>4, <1>5, IdleIsSound, PursueKeeps DEF Confirm, Gone
<1>6. CASE Confirm(d) /\ Pursue(d, [deletion[d] EXCEPT !.phase = "suspend"])
  <2>1. PICK n : n = [q EXCEPT !.phase = "suspend"]
    OBVIOUS
  <2>2. n \in DeletionRecord /\ n.phase = "suspend" /\ n.org = q.org /\ n.guards = {}
    BY <1>2, <1>3, <2>1 DEF DeletionRecord, DeletionPhase
  <2>3. DeletionSound(n)
    BY <1>3, <2>2 DEF DeletionSound, Scanned
  <2>4. QED
    BY <1>1, <1>3, <1>4, <1>6, <2>1, <2>2, <2>3, PursueKeeps DEF Confirm
<1>7. QED
  BY <1>5, <1>6 DEF Confirm, Gone

\* An abandoned erasure is remembered.
LEMMA AbandonKeeps ==
  ASSUME IInv, NEW d \in Operator, Abandon(d),
         answer' = Silence, UNCHANGED <<adapter, ids, indexed, login>>
  PROVE  IInv'
<1>1. broken' \in BOOLEAN /\ (broken => broken')
  BY DEF Abandon, IInv, TypeOK, Is
<1>2. broken' \/ deletion[d].guards = {}
  BY DEF Abandon, IInv, DeletionSound, Is
<1>3. QED
  BY <1>1, <1>2, IdleIsSound, PursueKeeps DEF Abandon

\* A deletion in a phase it has reached, with what it has found.
LEMMA InPhase ==
  ASSUME IInv, NEW d \in Operator, NEW q, q = deletion[d], q.phase # "idle"
  PROVE  /\ q \in DeletionRecord /\ DeletionSound(q) /\ q.org \in UserId
         /\ q.phase # "erase" => q.guards = {}
  BY Records DEF IInv, DeletionSound

\* The scan finds all members, among them the owner.
LEMMA ScanMembershipsKeeps ==
  ASSUME IInv, NEW d \in Operator, ScanMemberships(d),
         answer' = Silence, UNCHANGED <<adapter, ids, indexed, login>>
  PROVE  IInv'
<1>1. PICK q : q = deletion[d]
  OBVIOUS
<1>2. q \in DeletionRecord /\ DeletionSound(q) /\ q.phase = "memberships" /\ q.org \in UserId
      /\ q.guards = {} /\ adapter = "dynamodb" /\ q.org \notin Fresh
  BY <1>1, InPhase DEF ScanMemberships, Is, DeletionSound
<1>3. PICK us : us = MembersOf(q.org)
  OBVIOUS
<1>4. PICK ms : ms = member \ Without(us, q.org)
  OBVIOUS
<1>5. PICK n : n = [q EXCEPT !.phase = "identities", !.users = us, !.memberships = ms]
  OBVIOUS
<1>6. member \subseteq Pair /\ ms \subseteq member /\ us \subseteq UserId
  BY <1>3, <1>4 DEF IInv, TypeOK, MembersOf
<1>7. /\ n \in DeletionRecord /\ n.phase = "identities" /\ n.users = us /\ n.memberships = ms
      /\ n.org = q.org /\ n.guards = {}
  BY <1>2, <1>5, <1>6 DEF DeletionRecord, DeletionPhase
<1>8. \A u \in us : u \notin Fresh
  <2>1. \A u \in us : <<q.org, u>> \in member
    BY <1>3 DEF MembersOf
  <2>2. QED
    BY <2>1 DEF IInv, FreshIsNew
<1>9. \A m \in ms : m[1] \notin Fresh
  BY <1>6 DEF IInv, FreshIsNew
<1>10. \A u \in user : u \in UserId /\ <<u, u>> \in member
  BY DEF IInv, TypeOK, UserIsWhole
<1>11. q.org \in user => q.org \in us
  BY <1>3, <1>10 DEF MembersOf
<1>12. ASSUME NEW u \in user, <<u, u>> \in ms PROVE u \in us
  <2>1. <<u, u>> \notin Without(us, q.org)
    BY <1>4, <1>12
  <2>2. u = q.org \/ u \in us
    BY <1>10, <2>1 DEF Without
  <2>3. QED
    BY <1>11, <2>2
<1>13. DeletionSound(n)
  BY <1>2, <1>7, <1>8, <1>9, <1>11, <1>12 DEF DeletionSound, Scanned
<1>14. broken' = broken /\ broken \in BOOLEAN
  BY DEF ScanMemberships, IInv, TypeOK
<1>15. Pursue(d, n)
  BY <1>1, <1>3, <1>4, <1>5 DEF ScanMemberships
<1>16. QED
  BY <1>1, <1>2, <1>7, <1>13, <1>14, <1>15, PursueKeeps DEF ScanMemberships

\* The scan finds the identity record of every user that is still there.
LEMMA ScanIdentitiesKeeps ==
  ASSUME IInv, NEW d \in Operator, ScanIdentities(d),
         answer' = Silence, UNCHANGED <<adapter, ids, indexed, login>>
  PROVE  IInv'
<1>1. PICK q : q = deletion[d]
  OBVIOUS
<1>2. q \in DeletionRecord /\ DeletionSound(q) /\ q.phase = "identities" /\ q.guards = {}
  BY <1>1, InPhase DEF ScanIdentities, Is
<1>3. PICK is : is = q.users \cap identity
  OBVIOUS
<1>4. is \subseteq UserId /\ is \subseteq q.users
  BY <1>2, <1>3 DEF DeletionRecord
<1>5. PICK n : n = [q EXCEPT !.phase = "guards", !.identities = is]
  OBVIOUS
<1>6. /\ n \in DeletionRecord /\ n.phase = "guards" /\ n.users = q.users /\ n.identities = is
      /\ n.memberships = q.memberships /\ n.org = q.org /\ n.guards = {}
  BY <1>2, <1>4, <1>5 DEF DeletionRecord, DeletionPhase
<1>7. q.users \cap user \subseteq is
  BY <1>3 DEF IInv, UserIsWhole
<1>8. DeletionSound(n)
  BY <1>2, <1>4, <1>6, <1>7 DEF DeletionSound, Scanned
<1>9. broken' = broken /\ broken \in BOOLEAN
  BY DEF ScanIdentities, IInv, TypeOK
<1>10. Pursue(d, n)
  BY <1>1, <1>3, <1>5 DEF ScanIdentities
<1>11. QED
  BY <1>1, <1>2, <1>6, <1>8, <1>9, <1>10, PursueKeeps DEF ScanIdentities

\* The scan finds the uniqueness record of every user that is still there.
LEMMA ScanGuardsKeeps ==
  ASSUME IInv, NEW d \in Operator, ScanGuards(d),
         answer' = Silence, UNCHANGED <<adapter, ids, indexed, login>>
  PROVE  IInv'
<1>1. PICK q : q = deletion[d]
  OBVIOUS
<1>2. q \in DeletionRecord /\ DeletionSound(q) /\ q.phase = "guards" /\ q.guards = {}
  BY <1>1, InPhase DEF ScanGuards, Is
<1>3. PICK gs : gs = {s \in Subject : guard[s] \in q.identities}
  OBVIOUS
<1>4. PICK n : n = [q EXCEPT !.phase = "erase", !.guards = gs]
  OBVIOUS
<1>5. /\ n \in DeletionRecord /\ n.phase = "erase" /\ n.users = q.users
      /\ n.identities = q.identities
      /\ n.memberships = q.memberships /\ n.org = q.org /\ n.guards = gs
  BY <1>2, <1>3, <1>4 DEF DeletionRecord, DeletionPhase
<1>6. DeletionSound(n)
  BY <1>2, <1>3, <1>5 DEF DeletionSound, Scanned
<1>7. broken' = broken /\ broken \in BOOLEAN
  BY DEF ScanGuards, IInv, TypeOK
<1>8. Pursue(d, n)
  BY <1>1, <1>3, <1>4 DEF ScanGuards
<1>9. QED
  BY <1>1, <1>2, <1>5, <1>6, <1>7, <1>8, PursueKeeps DEF ScanGuards
---------------------------------------------------------------------------
(***************************************************************************)
(* The steps that delete, and the changes from outside.                    *)
(***************************************************************************)
\* A deletion that deletes keeps the invariant if what it leaves is sound.
LEMMA EraseKeeps ==
  ASSUME IInv, NEW d \in Operator, NEW n \in DeletionRecord, Pursue(d, n), DeletionSound(n)',
         answer' = Silence, UNCHANGED <<adapter, ids, indexed, login, broken>>,
         user' \subseteq user, identity' \subseteq identity, member' \subseteq member,
         guard' \in [Subject -> UserId \cup {None}],
         org' \in [UserId -> {"absent", "active", "disabled"}],
         \A o \in UserId : org'[o] # "absent" => org[o] # "absent",
         \A s \in Subject : guard'[s] \in {guard[s], None},
         adapter = "sqlite" => \A s \in Subject : guard'[s] \in user' \cup {None},
         UserIsWhole',
         \A s \in Subject :
           LockedOut(s)' => s \in n.guards \/ (LockedOut(s) /\ s \notin deletion[d].guards)
  PROVE  IInv' /\ Fresh' = Fresh
<1> USE DEF ids
<1>1. deletion \in [Operator -> DeletionRecord]
  BY Records DEF IInv
<1>2. deletion' \in [Operator -> DeletionRecord] /\ deletion'[d] = n
      /\ \A e \in Operator \ {d} : deletion'[e] = deletion[e]
  BY <1>1 DEF Pursue
<1>3. TypeOK'
  <2>1. answer' \in [Login -> Answer]
    BY DEF Silence, Answer
  <2>2. QED
    BY <1>2, <2>1 DEF IInv, TypeOK, DeletionRecord
<1>4. Fresh' \subseteq Fresh
  BY DEF Fresh, Unwritten, At
<1>5. \A e \in Operator : DeletionSound(deletion[e])'
  BY <1>4, DeletionsWait
<1>6. LockoutOnlyAfterFailure'
  BY <1>2 DEF IInv, LockoutOnlyAfterFailure
<1>7. QED
  BY <1>3, <1>5, <1>6, RowsGo

\* SQLite deletes everything at once.
LEMMA DeleteAtOnceKeeps ==
  ASSUME IInv, NEW d \in Operator, DeleteAtOnce(d),
         answer' = Silence, UNCHANGED <<adapter, ids, indexed, login>>
  PROVE  IInv' /\ Fresh' = Fresh
<1>1. PICK o : o = deletion[d].org
  OBVIOUS
<1>2. o \in UserId
  BY <1>1, InPhase DEF DeleteAtOnce, Is
<1>3. PICK us : us = MembersOf(o)
  OBVIOUS
<1>4. /\ adapter = "sqlite" /\ user' = user \ us /\ identity' = identity \ us
      /\ guard' = [s \in Subject |-> IF guard[s] \in us THEN None ELSE guard[s]]
      /\ org' = [org EXCEPT ![o] = "absent"]
      /\ member' = Without(us, o) /\ Pursue(d, NoDeletion) /\ UNCHANGED broken
  BY <1>1, <1>3 DEF DeleteAtOnce
<1>5. /\ guard \in [Subject -> UserId \cup {None}]
      /\ org \in [UserId -> {"absent", "active", "disabled"}]
      /\ user \subseteq UserId
  BY DEF IInv, TypeOK
<1>6. /\ guard' \in [Subject -> UserId \cup {None}]
      /\ org' \in [UserId -> {"absent", "active", "disabled"}]
      /\ \A p \in UserId : org'[p] # "absent" => org[p] # "absent"
      /\ \A s \in Subject : guard'[s] \in {guard[s], None}
  BY <1>4, <1>5
<1>7. \A s \in Subject : guard'[s] \in user' \cup {None}
  BY <1>4, <1>5 DEF IInv, GuardsAgree
<1>8. \A u \in user : u # o \/ u \in us
  BY <1>3, <1>5 DEF IInv, UserIsWhole, MembersOf
<1>9. UserIsWhole'
  BY <1>4, <1>5, <1>8 DEF IInv, UserIsWhole, Without
<1>10. \A s \in Subject : ~ LockedOut(s)'
  BY <1>7 DEF LockedOut
<1>11. DeletionSound(NoDeletion)'
  BY DEF DeletionSound, Scanned, NoDeletion
<1>12. member' \subseteq member
  BY <1>4 DEF Without
<1>13. QED
  BY <1>4, <1>6, <1>7, <1>9, <1>10, <1>11, <1>12, IdleIsSound, EraseKeeps

\* A suspension suspends an organization that is there.
LEMMA SuspendKeeps ==
  ASSUME IInv, NEW d \in Operator, Suspend(d),
         answer' = Silence, UNCHANGED <<adapter, ids, indexed, login>>
  PROVE  IInv' /\ Fresh' = Fresh
<1>1. PICK q : q = deletion[d]
  OBVIOUS
<1>2. q \in DeletionRecord /\ DeletionSound(q) /\ q.org \in UserId /\ q.guards = {}
  BY <1>1, InPhase DEF Suspend, Is
<1>3. PICK n : n = [q EXCEPT !.phase = "memberships"]
  OBVIOUS
<1>4. n \in DeletionRecord /\ n.phase = "memberships" /\ n.org = q.org /\ n.guards = {}
  BY <1>2, <1>3 DEF DeletionRecord, DeletionPhase
<1>5. /\ adapter = "dynamodb" /\ org[q.org] # "absent" /\ Pursue(d, n)
      /\ org' = [org EXCEPT ![q.org] = "disabled"]
      /\ UNCHANGED <<user, identity, guard, member, broken>>
  BY <1>1, <1>3 DEF Suspend
<1>6. q.org \notin Fresh'
  <2>1. Fresh' = Fresh
    BY DEF Fresh, Unwritten, At, ids
  <2>2. QED
    BY <1>5, <2>1 DEF IInv, FreshIsNew
<1>7. DeletionSound(n)'
  BY <1>2, <1>4, <1>5, <1>6 DEF DeletionSound, Scanned
<1>8. /\ org \in [UserId -> {"absent", "active", "disabled"}]
      /\ guard \in [Subject -> UserId \cup {None}]
  BY DEF IInv, TypeOK
<1>9. /\ org' \in [UserId -> {"absent", "active", "disabled"}]
      /\ \A p \in UserId : org'[p] # "absent" <=> org[p] # "absent"
  BY <1>2, <1>5, <1>8
<1>10. UserIsWhole'
  BY <1>5, <1>9 DEF IInv, UserIsWhole, TypeOK
<1>11. \A s \in Subject : LockedOut(s)' => LockedOut(s) /\ s \notin deletion[d].guards
  BY <1>1, <1>2, <1>5 DEF LockedOut
<1>12. QED
  BY <1>4, <1>5, <1>7, <1>8, <1>9, <1>10, <1>11, EraseKeeps

\* Users go first; each leaves its uniqueness record to the deletion.
LEMMA EraseUserKeeps ==
  ASSUME IInv, NEW d \in Operator, NEW u \in UserId, EraseUser(d, u),
         answer' = Silence, UNCHANGED <<adapter, ids, indexed, login>>
  PROVE  IInv' /\ Fresh' = Fresh
<1>1. PICK q : q = deletion[d]
  OBVIOUS
<1>2. q \in DeletionRecord /\ DeletionSound(q) /\ q.org \in UserId /\ q.phase = "erase"
  BY <1>1, InPhase DEF EraseUser, Is
<1>3. PICK n : n = [q EXCEPT !.users = q.users \ {u}]
  OBVIOUS
<1>4. /\ n \in DeletionRecord /\ n.phase = "erase" /\ n.org = q.org /\ n.guards = q.guards
      /\ n.users = q.users \ {u} /\ n.identities = q.identities /\ n.memberships = q.memberships
  BY <1>2, <1>3 DEF DeletionRecord
<1>5. /\ u \in q.users /\ user' = user \ {u} /\ Pursue(d, n)
      /\ UNCHANGED <<identity, guard, org, member, broken>>
  BY <1>1, <1>3 DEF EraseUser
<1>6. Fresh' = Fresh
  BY DEF Fresh, Unwritten, At, ids
<1>7. DeletionSound(n)'
  BY <1>2, <1>4, <1>5, <1>6 DEF DeletionSound, Scanned
<1>8. /\ org \in [UserId -> {"absent", "active", "disabled"}]
      /\ guard \in [Subject -> UserId \cup {None}]
  BY DEF IInv, TypeOK
<1>9. UserIsWhole'
  BY <1>5 DEF IInv, UserIsWhole
<1>10. ASSUME NEW s \in Subject, LockedOut(s)'
       PROVE  s \in n.guards \/ (LockedOut(s) /\ s \notin deletion[d].guards)
  <2>1. CASE guard[s] = u /\ u \in user
    BY <1>2, <1>4, <1>5, <2>1 DEF DeletionSound
  <2>2. CASE ~ (guard[s] = u /\ u \in user)
    BY <1>1, <1>4, <1>5, <1>10, <2>2 DEF LockedOut
  <2>3. QED
    BY <2>1, <2>2
<1>11. adapter # "sqlite"
  BY <1>2 DEF DeletionSound, Scanned
<1>12. QED
  BY <1>4, <1>5, <1>7, <1>8, <1>9, <1>10, <1>11, EraseKeeps

\* Once its users are gone, what a deletion deletes belongs to no user.
LEMMA UsersGone ==
  ASSUME IInv, NEW d \in Operator, NEW q, q = deletion[d], q.phase = "erase", q.users = {}
  PROVE  /\ q \in DeletionRecord /\ DeletionSound(q) /\ q.org \in UserId /\ adapter = "dynamodb"
         /\ q.identities \cap user = {}
         /\ q.org \notin user
         /\ \A u \in user : <<u, u>> \notin q.memberships
<1>1. q \in DeletionRecord /\ DeletionSound(q) /\ q.org \in UserId
  BY InPhase
<1>2. QED
  BY <1>1 DEF DeletionSound, Scanned

LEMMA EraseIdentityKeeps ==
  ASSUME IInv, NEW d \in Operator, NEW u \in UserId, EraseIdentity(d, u),
         answer' = Silence, UNCHANGED <<adapter, ids, indexed, login>>
  PROVE  IInv' /\ Fresh' = Fresh
<1>1. PICK q : q = deletion[d]
  OBVIOUS
<1>2. q.phase = "erase" /\ q.users = {}
  BY <1>1 DEF EraseIdentity, Is
<1>3. /\ q \in DeletionRecord /\ DeletionSound(q) /\ q.org \in UserId /\ adapter = "dynamodb"
      /\ q.identities \cap user = {} /\ q.org \notin user
      /\ \A v \in user : <<v, v>> \notin q.memberships
  BY <1>1, <1>2, UsersGone
<1>4. PICK n : n = [q EXCEPT !.identities = q.identities \ {u}]
  OBVIOUS
<1>5. /\ n \in DeletionRecord /\ n.phase = "erase" /\ n.org = q.org /\ n.guards = q.guards
      /\ n.users = {} /\ n.identities = q.identities \ {u} /\ n.memberships = q.memberships
  BY <1>2, <1>3, <1>4 DEF DeletionRecord
<1>6. /\ u \in q.identities /\ identity' = identity \ {u} /\ Pursue(d, n)
      /\ UNCHANGED <<user, guard, org, member, broken>>
  BY <1>1, <1>4 DEF EraseIdentity
<1>7. Fresh' = Fresh
  BY DEF Fresh, Unwritten, At, ids
<1>8. DeletionSound(n)'
  BY <1>2, <1>3, <1>5, <1>6, <1>7 DEF DeletionSound, Scanned
<1>9. /\ org \in [UserId -> {"absent", "active", "disabled"}]
      /\ guard \in [Subject -> UserId \cup {None}]
  BY DEF IInv, TypeOK
<1>10. UserIsWhole'
  BY <1>3, <1>6 DEF IInv, UserIsWhole
<1>11. ASSUME NEW s \in Subject, LockedOut(s)'
       PROVE  s \in n.guards \/ (LockedOut(s) /\ s \notin deletion[d].guards)
  BY <1>1, <1>5, <1>6, <1>11 DEF LockedOut
<1>12. QED
  BY <1>3, <1>5, <1>6, <1>8, <1>9, <1>10, <1>11, EraseKeeps

LEMMA EraseGuardKeeps ==
  ASSUME IInv, NEW d \in Operator, NEW t \in Subject, EraseGuard(d, t),
         answer' = Silence, UNCHANGED <<adapter, ids, indexed, login>>
  PROVE  IInv' /\ Fresh' = Fresh
<1>1. PICK q : q = deletion[d]
  OBVIOUS
<1>2. q.phase = "erase" /\ q.users = {}
  BY <1>1 DEF EraseGuard, Is
<1>3. /\ q \in DeletionRecord /\ DeletionSound(q) /\ q.org \in UserId /\ adapter = "dynamodb"
      /\ q.identities \cap user = {} /\ q.org \notin user
      /\ \A v \in user : <<v, v>> \notin q.memberships
  BY <1>1, <1>2, UsersGone
<1>4. PICK n : n = [q EXCEPT !.guards = q.guards \ {t}]
  OBVIOUS
<1>5. /\ n \in DeletionRecord /\ n.phase = "erase" /\ n.org = q.org /\ n.guards = q.guards \ {t}
      /\ n.users = {} /\ n.identities = q.identities /\ n.memberships = q.memberships
  BY <1>2, <1>3, <1>4 DEF DeletionRecord
<1>6. /\ t \in q.guards /\ guard' = [guard EXCEPT ![t] = None] /\ Pursue(d, n)
      /\ UNCHANGED <<user, identity, org, member, broken>>
  BY <1>1, <1>4 DEF EraseGuard
<1>7. Fresh' = Fresh
  BY DEF Fresh, Unwritten, At, ids
<1>8. DeletionSound(n)'
  BY <1>2, <1>3, <1>5, <1>6, <1>7 DEF DeletionSound, Scanned
<1>9. /\ org \in [UserId -> {"absent", "active", "disabled"}]
      /\ guard \in [Subject -> UserId \cup {None}]
  BY DEF IInv, TypeOK
<1>10. /\ guard' \in [Subject -> UserId \cup {None}]
       /\ \A s \in Subject : guard'[s] \in {guard[s], None}
       /\ guard'[t] = None /\ \A s \in Subject \ {t} : guard'[s] = guard[s]
  BY <1>6, <1>9
<1>11. UserIsWhole'
  BY <1>6 DEF IInv, UserIsWhole
<1>12. ASSUME NEW s \in Subject, LockedOut(s)'
       PROVE  s \in n.guards \/ (LockedOut(s) /\ s \notin deletion[d].guards)
  BY <1>1, <1>5, <1>6, <1>10, <1>12 DEF LockedOut
<1>13. QED
  BY <1>3, <1>5, <1>6, <1>8, <1>9, <1>10, <1>11, <1>12, EraseKeeps

LEMMA EraseMembershipKeeps ==
  ASSUME IInv, NEW d \in Operator, NEW m \in Pair, EraseMembership(d, m),
         answer' = Silence, UNCHANGED <<adapter, ids, indexed, login>>
  PROVE  IInv' /\ Fresh' = Fresh
<1>1. PICK q : q = deletion[d]
  OBVIOUS
<1>2. q.phase = "erase" /\ q.users = {} /\ q.guards = {}
  BY <1>1 DEF EraseMembership, Is
<1>3. /\ q \in DeletionRecord /\ DeletionSound(q) /\ q.org \in UserId /\ adapter = "dynamodb"
      /\ q.identities \cap user = {} /\ q.org \notin user
      /\ \A v \in user : <<v, v>> \notin q.memberships
  BY <1>1, <1>2, UsersGone
<1>4. PICK n : n = [q EXCEPT !.memberships = q.memberships \ {m}]
  OBVIOUS
<1>5. /\ n \in DeletionRecord /\ n.phase = "erase" /\ n.org = q.org /\ n.guards = q.guards
      /\ n.users = {} /\ n.identities = q.identities /\ n.memberships = q.memberships \ {m}
  BY <1>2, <1>3, <1>4 DEF DeletionRecord
<1>6. /\ m \in q.memberships /\ member' = member \ {m} /\ Pursue(d, n)
      /\ UNCHANGED <<user, identity, guard, org, broken>>
  BY <1>1, <1>4 DEF EraseMembership
<1>7. Fresh' = Fresh
  BY DEF Fresh, Unwritten, At, ids
<1>8. DeletionSound(n)'
  BY <1>2, <1>3, <1>5, <1>6, <1>7 DEF DeletionSound, Scanned
<1>9. /\ org \in [UserId -> {"absent", "active", "disabled"}]
      /\ guard \in [Subject -> UserId \cup {None}]
  BY DEF IInv, TypeOK
<1>10. UserIsWhole'
  BY <1>3, <1>6 DEF IInv, UserIsWhole
<1>11. ASSUME NEW s \in Subject, LockedOut(s)'
       PROVE  s \in n.guards \/ (LockedOut(s) /\ s \notin deletion[d].guards)
  BY <1>1, <1>2, <1>5, <1>6, <1>11 DEF LockedOut
<1>12. QED
  BY <1>3, <1>5, <1>6, <1>8, <1>9, <1>10, <1>11, EraseKeeps

LEMMA EraseOrganizationKeeps ==
  ASSUME IInv, NEW d \in Operator, EraseOrganization(d),
         answer' = Silence, UNCHANGED <<adapter, ids, indexed, login>>
  PROVE  IInv' /\ Fresh' = Fresh
<1>1. PICK q : q = deletion[d]
  OBVIOUS
<1>2. q.phase = "erase" /\ q.users = {} /\ q.guards = {}
  BY <1>1 DEF EraseOrganization, Is
<1>3. q.org \in UserId /\ adapter = "dynamodb" /\ q.org \notin user
  BY <1>1, <1>2, UsersGone
<1>4. /\ org' = [org EXCEPT ![q.org] = "absent"] /\ Pursue(d, NoDeletion)
      /\ UNCHANGED <<user, identity, guard, member, broken>>
  BY <1>1 DEF EraseOrganization
<1>5. DeletionSound(NoDeletion)'
  BY DEF DeletionSound, Scanned, NoDeletion
<1>6. /\ org \in [UserId -> {"absent", "active", "disabled"}]
      /\ guard \in [Subject -> UserId \cup {None}]
  BY DEF IInv, TypeOK
<1>7. /\ org' \in [UserId -> {"absent", "active", "disabled"}]
      /\ \A p \in UserId : org'[p] # "absent" => org[p] # "absent"
  BY <1>4, <1>6
<1>8. UserIsWhole'
  BY <1>3, <1>4, <1>6 DEF IInv, UserIsWhole, TypeOK
<1>9. ASSUME NEW s \in Subject, LockedOut(s)'
      PROVE  LockedOut(s) /\ s \notin deletion[d].guards
  BY <1>1, <1>2, <1>4, <1>9 DEF LockedOut
<1>10. QED
  BY <1>3, <1>4, <1>5, <1>6, <1>7, <1>8, <1>9, IdleIsSound, EraseKeeps

LEMMA DeletionStepKeeps ==
  ASSUME IInv, DeletionNext, answer' = Silence, UNCHANGED <<adapter, ids, indexed, login>>
  PROVE  IInv'
<1>1. PICK d \in Operator : (\E o \in UserId : AskDeletion(d, o)) \/ DeletionStep(d)
  BY DEF DeletionNext
<1>2. CASE \E o \in UserId : AskDeletion(d, o)
  BY <1>2, AskDeletionKeeps
<1>3. CASE Confirm(d) \/ Gone(d) \/ Abandon(d)
  BY <1>3, ConfirmKeeps, AbandonKeeps
<1>4. CASE DeleteAtOnce(d) \/ Suspend(d)
  BY <1>4, DeleteAtOnceKeeps, SuspendKeeps
<1>5. CASE ScanMemberships(d) \/ ScanIdentities(d) \/ ScanGuards(d)
  BY <1>5, ScanMembershipsKeeps, ScanIdentitiesKeeps, ScanGuardsKeeps
<1>6. CASE \E u \in UserId : EraseUser(d, u) \/ EraseIdentity(d, u)
  BY <1>6, EraseUserKeeps, EraseIdentityKeeps
<1>7. CASE \E s \in Subject : EraseGuard(d, s)
  BY <1>7, EraseGuardKeeps
<1>8. CASE (\E m \in Pair : EraseMembership(d, m)) \/ EraseOrganization(d)
  BY <1>8, EraseMembershipKeeps, EraseOrganizationKeeps
<1>9. QED
  BY <1>1, <1>2, <1>3, <1>4, <1>5, <1>6, <1>7, <1>8 DEF DeletionStep

\* Members join and leave, and organizations change their status.
LEMMA EnvironmentKeeps ==
  ASSUME IInv, Environment, answer' = Silence,
         UNCHANGED <<adapter, ids, indexed, login, deletion, broken>>
  PROVE  IInv' /\ Fresh' = Fresh
<1>1. /\ org \in [UserId -> {"absent", "active", "disabled"}] /\ member \subseteq Pair
      /\ user \subseteq UserId
  BY DEF IInv, TypeOK
<1>2. /\ UNCHANGED <<user, identity, guard>>
      /\ org' \in [UserId -> {"absent", "active", "disabled"}]
      /\ \A o \in UserId : org'[o] # "absent" <=> org[o] # "absent"
      /\ member' \subseteq Pair
      /\ \A u \in user : <<u, u>> \in member => <<u, u>> \in member'
      /\ \A m \in member' \ member : org[m[1]] # "absent" /\ m[2] \in user
  <2>1. CASE \E o, u \in UserId : Join(o, u)
    BY <1>1, <2>1 DEF Join, Pair
  <2>2. CASE \E o, u \in UserId : Leave(o, u)
    BY <1>1, <2>2 DEF Leave
  <2>3. CASE \E o \in UserId, status \in {"active", "disabled"} : SetStatus(o, status)
    BY <1>1, <2>3 DEF SetStatus
  <2>4. QED
    BY <2>1, <2>2, <2>3 DEF Environment
<1>3. TypeOK'
  <2>1. answer' \in [Login -> Answer]
    BY DEF Silence, Answer
  <2>2. QED
    BY <1>2, <2>1 DEF IInv, TypeOK, ids
<1>4. \A m \in member' \ member : m[1] \notin Fresh /\ m[2] \notin Fresh
  BY <1>2 DEF IInv, FreshIsNew
<1>5. UserIsWhole'
  BY <1>1, <1>2 DEF IInv, UserIsWhole
<1>6. LockoutOnlyAfterFailure'
  BY <1>2 DEF IInv, LockoutOnlyAfterFailure, LockedOut
<1>7. Fresh' = Fresh
  BY DEF Fresh, Unwritten, At, ids
<1>8. ASSUME NEW d \in Operator PROVE DeletionSound(deletion[d])'
  <2>1. PICK q : q = deletion[d]
    OBVIOUS
  <2>2. q \in DeletionRecord /\ DeletionSound(q)
    BY <2>1, Records DEF IInv
  <2>3. DeletionSound(q)'
    BY <1>2, <1>7, <2>2, DeletionWaits
  <2>4. QED
    BY <2>1, <2>3
<1>9. adapter = "sqlite" => \A s \in Subject : guard'[s] \in user' \cup {None}
  BY <1>2 DEF IInv, GuardsAgree
<1>10. QED
  BY <1>2, <1>3, <1>4, <1>5, <1>6, <1>8, <1>9, RowsGo

\* Of the index the invariant says nothing but its type.
LEMMA PropagateKeeps ==
  ASSUME IInv, NEW m \in Pair, Propagate(m), answer' = Silence, UNCHANGED <<adapter, login>>
  PROVE  IInv'
<1>1. UNCHANGED <<adapter, ids, rows, login, deletion, broken>>
  BY DEF Propagate
<1>2. TypeOK'
  <2>1. answer' \in [Login -> Answer] /\ indexed' \subseteq Pair
    BY DEF Silence, Answer, Propagate, IInv, TypeOK
  <2>2. QED
    BY <1>1, <2>1 DEF IInv, TypeOK, ids, rows
<1>3. Fresh' = Fresh
  BY <1>1 DEF Fresh, Unwritten, At, ids
<1>4. ASSUME NEW d \in Operator PROVE DeletionSound(deletion[d])'
  BY <1>1, <1>3 DEF IInv, DeletionSound, Scanned, rows
<1>5. UserIsWhole' /\ LockoutOnlyAfterFailure'
  BY <1>1 DEF IInv, UserIsWhole, LockoutOnlyAfterFailure, LockedOut, rows
<1>6. adapter = "sqlite" => \A s \in Subject : guard'[s] \in user' \cup {None}
  BY <1>1 DEF IInv, GuardsAgree, rows
<1>7. QED
  BY <1>1, <1>2, <1>4, <1>5, <1>6, RowsGo DEF rows
---------------------------------------------------------------------------
(***************************************************************************)
(* The invariant, and what follows from it.                                *)
(***************************************************************************)
\* Initially nobody is provisioned and every slot is idle.
LEMMA InvInit == Init => IInv
<1> SUFFICES ASSUME Init PROVE IInv
  OBVIOUS
<1> USE DEF Init
<1>1. login \in [Login -> LoginRecord] /\ deletion \in [Operator -> DeletionRecord]
  BY IdleIsSound
<1>2. TypeOK
  <2>1. minted \in 0 .. MaxUser
    BY BoundIsNatural
  <2>2. answer \in [Login -> Answer]
    BY DEF Answer
  <2>3. QED
    BY <1>1, <2>1, <2>2 DEF TypeOK, LoginRecord, DeletionRecord
<1>3. BatchesDiffer
  BY DEF BatchesDiffer, At, NoLogin
<1>4. FreshIsNew /\ GuardsAgree /\ UserIsWhole
  <2>1. \A u \in UserId : u # None
    BY BoundIsNatural DEF UserId, None
  <2>2. QED
    BY <2>1 DEF FreshIsNew, GuardsAgree, UserIsWhole, Fresh
<1>5. \A c \in Login : LoginSound(login[c])
  BY IdleIsSound
<1>6. \A d \in Operator : DeletionSound(deletion[d])
  BY IdleIsSound
<1>7. LockoutOnlyAfterFailure
  BY DEF LockoutOnlyAfterFailure, LockedOut
<1>8. QED
  BY <1>2, <1>3, <1>4, <1>5, <1>6, <1>7 DEF IInv

\* No step of the system breaks the invariant,
LEMMA InvNext == IInv /\ Next => IInv'
<1> SUFFICES ASSUME IInv, Next PROVE IInv'
  OBVIOUS
<1>1. CASE LoginNext /\ UNCHANGED <<indexed, deletion, broken>>
  BY <1>1, LoginStepKeeps DEF Next
<1>2. CASE DeletionNext /\ UNCHANGED <<ids, indexed>> /\ UNCHANGED login /\ answer' = Silence
  BY <1>2, DeletionStepKeeps DEF Next
<1>3. CASE Environment /\ UNCHANGED <<ids, indexed, deletion, broken>> /\ UNCHANGED login
           /\ answer' = Silence
  BY <1>3, EnvironmentKeeps DEF Next
<1>4. CASE (\E m \in Pair : Propagate(m)) /\ UNCHANGED login /\ answer' = Silence
  BY <1>4, PropagateKeeps DEF Next
<1>5. QED
  BY <1>1, <1>2, <1>3, <1>4 DEF Next

\* nor does a step that changes nothing.
LEMMA InvStutter == IInv /\ UNCHANGED vars => IInv'
<1> SUFFICES ASSUME IInv, UNCHANGED vars PROVE IInv'
  OBVIOUS
<1>1. UNCHANGED <<adapter, ids, rows, indexed, login, answer, deletion, broken>>
  BY DEF vars
<1>2. Fresh' = Fresh
  BY <1>1 DEF Fresh, Unwritten, At, ids
<1>3. TypeOK' /\ UserIsWhole' /\ LockoutOnlyAfterFailure'
  BY <1>1 DEF IInv, TypeOK, UserIsWhole, LockoutOnlyAfterFailure, LockedOut, ids, rows
<1>4. ASSUME NEW d \in Operator PROVE DeletionSound(deletion[d])'
  BY <1>1, <1>2 DEF IInv, DeletionSound, Scanned, rows
<1>5. adapter = "sqlite" => \A s \in Subject : guard'[s] \in user' \cup {None}
  BY <1>1 DEF IInv, GuardsAgree, rows
<1>6. QED
  BY <1>1, <1>3, <1>4, <1>5, RowsGo DEF rows

\* The invariant holds in every reachable state.
THEOREM Invariance == Spec => []IInv
<1>1. IInv /\ [Next]_vars => IInv'
  BY InvNext, InvStutter
<1>2. QED
  BY InvInit, <1>1, PTL DEF Spec

\* Every variable keeps its type.
THEOREM TypeCorrectness == Spec => []TypeOK
<1>1. IInv => TypeOK
  BY DEF IInv
<1>2. QED
  BY Invariance, <1>1, PTL

\* Every user owns an organization that exists, however many deletions run at
\* once and wherever they stop.
THEOREM WorkspaceIsKept == Spec => []UserHasWorkspace
<1>1. IInv => UserHasWorkspace
  BY DEF IInv, UserIsWhole, UserHasWorkspace
<1>2. QED
  BY Invariance, <1>1, PTL

\* A subject is locked out of a user that is gone only while a deletion is
\* about to free it, or after one has failed.
THEOREM LockoutIsAFailure == Spec => []LockoutOnlyAfterFailure
<1>1. IInv => LockoutOnlyAfterFailure
  BY DEF IInv
<1>2. QED
  BY Invariance, <1>1, PTL
---------------------------------------------------------------------------
(***************************************************************************)
(* One subject, one user.  The uniqueness record is deleted by its key, so *)
(* two deletions at once may delete the record of a user that has come     *)
(* since.  With one deletion at a time that cannot be.                     *)
(***************************************************************************)
Busy(d) == deletion[d].phase # "idle"
OneAtATime == \A d, e \in Operator : Busy(d) /\ Busy(e) => d = e

\* A uniqueness record that a deletion is going to delete names a user that
\* the deletion deletes first.
OwnsItsGuards(q) ==
  \A s \in q.guards : guard[s] # None /\ (guard[s] \in user => guard[s] \in q.users)

\* Whoever has an id is some subject.
UserHasSubject == \A u \in user : subjectOf[u] \in Subject

\* The inductive invariant of one deletion at a time.
IInvOne ==
  /\ UserIsGuarded
  /\ UserHasSubject
  /\ \A d \in Operator : OwnsItsGuards(deletion[d])

\* While users may only go and the uniqueness records stay, nothing is lost,
\* unless a deletion begins to erase.
LEMMA GuardsStay ==
  ASSUME IInv, IInv', IInvOne, UNCHANGED guard, user' \subseteq user,
         \A u \in user : subjectOf'[u] = subjectOf[u],
         identity \cap user' \subseteq identity',
         \A d \in Operator : \/ deletion'[d] = deletion[d]
                             \/ deletion'[d].phase # "erase"
                             \/ OwnsItsGuards(deletion[d])'
  PROVE  IInvOne'
<1>1. UserIsGuarded' /\ UserHasSubject'
  BY DEF IInvOne, UserIsGuarded, UserHasSubject
<1>2. ASSUME NEW d \in Operator PROVE OwnsItsGuards(deletion[d])'
  <2>1. CASE deletion'[d] = deletion[d]
    BY <2>1 DEF IInvOne, OwnsItsGuards
  <2>2. CASE deletion'[d].phase # "erase"
    <3>1. deletion'[d].guards = {}
      BY <2>2 DEF IInv, DeletionSound
    <3>2. QED
      BY <3>1 DEF OwnsItsGuards
  <2>3. QED
    BY <2>1, <2>2
<1>3. QED
  BY <1>1, <1>2 DEF IInvOne

\* The id of a user was minted before.
LEMMA UserIsMinted ==
  ASSUME IInv, NEW u \in user
  PROVE  u \in 1 .. minted /\ u \in UserId /\ minted \in Nat
<1>1. u \in UserId /\ minted \in Nat /\ u \notin Fresh
  BY DEF IInv, TypeOK, FreshIsNew
<1>2. u \in Nat /\ u >= 1
  BY <1>1, BoundIsNatural DEF UserId
<1>3. ~ (u > minted)
  BY <1>1 DEF Fresh, Unwritten
<1>4. QED
  BY <1>1, <1>2, <1>3

\* Logins take no uniqueness record from anybody.
LEMMA LoginKeepsOne ==
  ASSUME IInv, IInv', IInvOne, LoginNext, UNCHANGED deletion
  PROVE  IInvOne'
<1>1. PICK c \in Login : (\E s \in Subject : Ask(c, s)) \/ LoginStep(c)
  BY DEF LoginNext
<1>2. CASE UNCHANGED rows
  <2>1. \A u \in user : subjectOf'[u] = subjectOf[u]
    <3>1. CASE UNCHANGED subjectOf
      BY <3>1
    <3>2. CASE minted' = minted + 1
               /\ subjectOf' = [subjectOf EXCEPT ![minted + 1] = login[c].subject]
      <4>1. \A u \in user : u # minted + 1 /\ u \in UserId
        BY UserIsMinted
      <4>2. subjectOf \in [UserId -> Subject \cup {None}]
        BY DEF IInv, TypeOK
      <4>3. QED
        BY <3>2, <4>1, <4>2
    <3>3. QED
      BY <1>1, <3>1, <3>2 DEF LoginStep, Ask, Lookup, ReadGuard, ReadUser, CheckProfile, Provision,
            ResolveWinner, ListOrganizations, ReadBackOrganization, ReadMembership, Fail, ids
  <2>2. QED
    BY <1>2, <2>1, GuardsStay DEF rows
<1>3. CASE Provision(c) /\ ~ UNCHANGED rows
  <2>1. PICK s, u : s = login[c].subject /\ u = login[c].batch
    OBVIOUS
  <2>2. At(c, "provision") /\ s \in Subject
    BY <1>3, <2>1, HasSubject DEF Provision, At
  <2>3. guard[s] = None /\ Create(u, s) /\ UNCHANGED ids
    BY <1>3, <2>1 DEF Provision
  <2>4. u \in Fresh /\ subjectOf[u] = s
    <3>1. u \in 1 .. minted /\ subjectOf[u] = s /\ minted \in 0 .. MaxUser
      BY <2>1, <2>2 DEF IInv, LoginSound, At, TypeOK
    <3>2. u \in UserId
      BY <3>1, BoundIsNatural DEF UserId
    <3>3. QED
      BY <2>1, <2>2, <3>1, <3>2 DEF Fresh, Unwritten
  <2>5. /\ user' = user \cup {u} /\ identity' = identity \cup {u} /\ subjectOf' = subjectOf
        /\ guard' = [guard EXCEPT ![s] = u] /\ guard \in [Subject -> UserId \cup {None}]
    BY <2>3 DEF Create, ids, IInv, TypeOK
  <2>6. guard'[s] = u /\ \A t \in Subject \ {s} : guard'[t] = guard[t]
    BY <2>2, <2>5
  <2>7. \A v \in user : v # None
    BY BoundIsNatural DEF IInv, TypeOK, UserId, None
  <2>8. \A v \in user : subjectOf[v] \in Subject \ {s}
    BY <2>3, <2>7 DEF IInvOne, UserIsGuarded, UserHasSubject
  <2>9. UserIsGuarded' /\ UserHasSubject'
    BY <2>2, <2>4, <2>5, <2>6, <2>8 DEF IInvOne, UserIsGuarded, UserHasSubject
  <2>10. ASSUME NEW d \in Operator PROVE OwnsItsGuards(deletion[d])'
    <3>1. \A t \in deletion[d].guards : t \in Subject \ {s}
      BY <2>3, Records DEF IInv, IInvOne, OwnsItsGuards, DeletionRecord
    <3>2. \A t \in Subject : guard[t] # u
      BY <2>4 DEF IInv, FreshIsNew
    <3>3. QED
      BY <2>5, <2>6, <3>1, <3>2 DEF IInvOne, OwnsItsGuards
  <2>11. QED
    BY <2>9, <2>10 DEF IInvOne
<1>4. QED
  BY <1>1, <1>2, <1>3 DEF LoginStep, Ask, Lookup, ReadGuard, ReadUser, CheckProfile, ResolveWinner,
        ListOrganizations, ReadBackOrganization, ReadMembership, Fail

\* A deletion takes the uniqueness records of its own users only.
LEMMA DeletionKeepsOne ==
  ASSUME IInv, IInv', IInvOne, OneAtATime, DeletionNext, UNCHANGED ids
  PROVE  IInvOne'
<1> USE DEF ids, rows
<1>1. PICK d \in Operator : (\E o \in UserId : AskDeletion(d, o)) \/ DeletionStep(d)
  BY DEF DeletionNext
<1>2. PICK q : q = deletion[d]
  OBVIOUS
<1>3. /\ deletion \in [Operator -> DeletionRecord] /\ q \in DeletionRecord
      /\ OwnsItsGuards(q)
  BY <1>2, Records DEF IInv, IInvOne
<1>4. \A n : Pursue(d, n) => /\ deletion'[d] = n
                             /\ \A e \in Operator \ {d} : deletion'[e] = deletion[e]
  BY <1>3 DEF Pursue
<1>5. CASE \/ \E o \in UserId : AskDeletion(d, o)
           \/ Confirm(d) \/ Gone(d) \/ Abandon(d)
           \/ Suspend(d) \/ ScanMemberships(d) \/ ScanIdentities(d)
           \/ EraseOrganization(d)
  <2>1. UNCHANGED <<user, identity, guard>>
    BY <1>5 DEF AskDeletion, Confirm, Gone, Abandon, Suspend, ScanMemberships, ScanIdentities,
                EraseOrganization
  <2>2. deletion'[d].phase # "erase"
    <3>1. CASE Confirm(d) \/ Gone(d) \/ Abandon(d) \/ EraseOrganization(d)
               \/ \E o \in UserId : AskDeletion(d, o)
      <4>1. \A o : [NoDeletion EXCEPT !.phase = "confirm", !.org = o].phase = "confirm"
        BY DEF NoDeletion
      <4>2. NoDeletion.phase = "idle"
        BY DEF NoDeletion
      <4>3. [q EXCEPT !.phase = "suspend"].phase = "suspend"
        BY <1>3 DEF DeletionRecord
      <4>4. QED
        BY <1>2, <1>4, <3>1, <4>1, <4>2, <4>3
           DEF AskDeletion, Confirm, Gone, Abandon, EraseOrganization
    <3>2. CASE Suspend(d) \/ ScanIdentities(d)
      <4>1. \A is : [q EXCEPT !.phase = "guards", !.identities = is].phase = "guards"
        BY <1>3 DEF DeletionRecord
      <4>2. [q EXCEPT !.phase = "memberships"].phase = "memberships"
        BY <1>3 DEF DeletionRecord
      <4>3. QED
        BY <1>2, <1>4, <3>2, <4>1, <4>2 DEF Suspend, ScanIdentities
    <3>3. CASE ScanMemberships(d)
      <4>1. PICK n : n = [q EXCEPT !.phase = "identities", !.users = MembersOf(q.org),
                            !.memberships = member \ Without(MembersOf(q.org), q.org)]
        OBVIOUS
      <4>2. n.phase = "identities"
        BY <1>3, <4>1 DEF DeletionRecord
      <4>3. Pursue(d, n)
        BY <1>2, <3>3, <4>1 DEF ScanMemberships
      <4>4. QED
        BY <1>4, <4>2, <4>3
    <3>4. QED
      BY <1>5, <3>1, <3>2, <3>3
  <2>3. \A e \in Operator \ {d} : deletion'[e] = deletion[e]
    BY <1>4, <1>5 DEF AskDeletion, Confirm, Gone, Abandon, Suspend, ScanMemberships,
                      ScanIdentities, EraseOrganization
  <2>4. QED
    BY <2>1, <2>2, <2>3, GuardsStay
<1>6. CASE ScanGuards(d)
  <2>1. DeletionSound(q) /\ q.phase = "guards"
    BY <1>2, <1>6 DEF IInv, ScanGuards, Is
  <2>2. PICK gs : gs = {s \in Subject : guard[s] \in q.identities}
    OBVIOUS
  <2>3. Pursue(d, [q EXCEPT !.phase = "erase", !.guards = gs]) /\ UNCHANGED rows
    BY <1>2, <1>6, <2>2 DEF ScanGuards
  <2>4. deletion'[d].guards = gs /\ deletion'[d].users = q.users
    <3>1. PICK n : n = [q EXCEPT !.phase = "erase", !.guards = gs]
      OBVIOUS
    <3>2. n.guards = gs /\ n.users = q.users
      BY <1>3, <3>1 DEF DeletionRecord
    <3>3. deletion'[d] = n
      BY <1>4, <2>3, <3>1
    <3>4. QED
      BY <3>2, <3>3
  <2>5. \A u \in q.identities : u # None
    BY <1>3, BoundIsNatural DEF DeletionRecord, UserId, None
  <2>6. OwnsItsGuards(deletion[d])'
    BY <2>1, <2>2, <2>3, <2>4, <2>5 DEF OwnsItsGuards, DeletionSound
  <2>7. QED
    BY <1>4, <2>3, <2>6, GuardsStay
<1>7. CASE \E u \in UserId : EraseUser(d, u)
  <2>1. PICK u \in UserId : EraseUser(d, u)
    BY <1>7
  <2>2. /\ user' = user \ {u} /\ UNCHANGED <<identity, guard>>
        /\ Pursue(d, [q EXCEPT !.users = @ \ {u}])
    BY <1>2, <2>1 DEF EraseUser
  <2>3. deletion'[d].guards = q.guards /\ deletion'[d].users = q.users \ {u}
    BY <1>3, <1>4, <2>2 DEF DeletionRecord
  <2>4. OwnsItsGuards(deletion[d])'
    BY <1>3, <2>2, <2>3 DEF OwnsItsGuards
  <2>5. QED
    BY <1>4, <2>2, <2>4, GuardsStay
<1>8. CASE \E u \in UserId : EraseIdentity(d, u)
  <2>1. PICK u \in UserId : EraseIdentity(d, u)
    BY <1>8
  <2>2. /\ identity' = identity \ {u} /\ UNCHANGED <<user, guard>> /\ u \in q.identities
        /\ Pursue(d, [q EXCEPT !.identities = @ \ {u}])
        /\ q.phase = "erase" /\ q.users = {}
    BY <1>2, <2>1 DEF EraseIdentity, Is
  <2>3. deletion'[d].guards = q.guards /\ deletion'[d].users = q.users
    BY <1>3, <1>4, <2>2 DEF DeletionRecord
  <2>4. OwnsItsGuards(deletion[d])'
    BY <1>3, <2>2, <2>3 DEF OwnsItsGuards
  <2>5. u \notin user
    BY <1>2, <2>2, UsersGone
  <2>6. QED
    BY <1>4, <2>2, <2>4, <2>5, GuardsStay
<1>9. CASE \E m \in Pair : EraseMembership(d, m)
  <2>1. PICK m \in Pair : EraseMembership(d, m)
    BY <1>9
  <2>2. UNCHANGED <<user, identity, guard>> /\ Pursue(d, [q EXCEPT !.memberships = @ \ {m}])
    BY <1>2, <2>1 DEF EraseMembership
  <2>3. deletion'[d].guards = q.guards /\ deletion'[d].users = q.users
    BY <1>3, <1>4, <2>2 DEF DeletionRecord
  <2>4. OwnsItsGuards(deletion[d])'
    BY <1>3, <2>2, <2>3 DEF OwnsItsGuards
  <2>5. QED
    BY <1>4, <2>2, <2>4, GuardsStay
<1>10. CASE \E s \in Subject : EraseGuard(d, s)
  <2>1. PICK s \in Subject : EraseGuard(d, s)
    BY <1>10
  <2>2. /\ UNCHANGED <<user, identity>> /\ guard' = [guard EXCEPT ![s] = None]
        /\ q.users = {} /\ q.phase = "erase" /\ s \in q.guards
        /\ Pursue(d, [q EXCEPT !.guards = @ \ {s}])
    BY <1>2, <2>1 DEF EraseGuard, Is
  <2>3. deletion'[d].guards = q.guards \ {s} /\ deletion'[d].users = {}
    BY <1>3, <1>4, <2>2 DEF DeletionRecord
  <2>4. guard'[s] = None /\ \A t \in Subject \ {s} : guard'[t] = guard[t]
    BY <2>2 DEF IInv, TypeOK
  <2>5. \A u \in user : subjectOf[u] # s
    BY <1>3, <2>2 DEF IInvOne, UserIsGuarded, OwnsItsGuards
  <2>6. UserIsGuarded' /\ UserHasSubject'
    BY <2>2, <2>4, <2>5 DEF IInvOne, UserIsGuarded, UserHasSubject
  <2>7. \A t \in q.guards : t \in Subject
    BY <1>3 DEF DeletionRecord
  <2>8. ASSUME NEW e \in Operator PROVE OwnsItsGuards(deletion[e])'
    <3>1. CASE e = d
      BY <1>3, <2>2, <2>3, <2>4, <2>7, <3>1 DEF OwnsItsGuards
    <3>2. CASE e # d
      <4>1. deletion[e].phase = "idle"
        BY <1>2, <2>2, <3>2 DEF OneAtATime, Busy
      <4>2. deletion'[e].guards = {}
        BY <1>4, <2>2, <3>2, <4>1 DEF IInv, DeletionSound
      <4>3. QED
        BY <4>2 DEF OwnsItsGuards
    <3>3. QED
      BY <3>1, <3>2
  <2>9. QED
    BY <2>6, <2>8 DEF IInvOne
<1>11. CASE DeleteAtOnce(d)
  <2>1. PICK us : us = MembersOf(q.org)
    OBVIOUS
  <2>2. /\ adapter = "sqlite" /\ user' = user \ us /\ identity' = identity \ us
        /\ guard' = [s \in Subject |-> IF guard[s] \in us THEN None ELSE guard[s]]
        /\ Pursue(d, NoDeletion)
    BY <1>2, <1>11, <2>1 DEF DeleteAtOnce
  <2>3. UserIsGuarded' /\ UserHasSubject'
    BY <2>2 DEF IInvOne, UserIsGuarded, UserHasSubject
  <2>4. ASSUME NEW e \in Operator PROVE OwnsItsGuards(deletion[e])'
    <3>1. deletion'[e].guards = {}
      <4>1. CASE e = d
        BY <1>4, <2>2, <4>1 DEF NoDeletion
      <4>2. CASE e # d
        <5>1. deletion'[e] = deletion[e] /\ DeletionSound(deletion[e])
          BY <1>4, <2>2, <4>2 DEF IInv
        <5>2. deletion[e].phase # "erase"
          BY <2>2, <5>1 DEF DeletionSound, Scanned
        <5>3. QED
          BY <5>1, <5>2 DEF DeletionSound
      <4>3. QED
        BY <4>1, <4>2
    <3>2. QED
      BY <3>1 DEF OwnsItsGuards
  <2>5. QED
    BY <2>3, <2>4 DEF IInvOne
<1>12. QED
  BY <1>1, <1>5, <1>6, <1>7, <1>8, <1>9, <1>10, <1>11 DEF DeletionStep

\* A step of a system that deletes one organization at a time.
LEMMA OneNext == IInv /\ IInv' /\ IInvOne /\ OneAtATime /\ [Next]_vars => IInvOne'
<1> SUFFICES ASSUME IInv, IInv', IInvOne, OneAtATime, [Next]_vars PROVE IInvOne'
  OBVIOUS
<1>1. CASE LoginNext /\ UNCHANGED <<indexed, deletion, broken>>
  BY <1>1, LoginKeepsOne
<1>2. CASE DeletionNext /\ UNCHANGED <<ids, indexed>>
  BY <1>2, DeletionKeepsOne
<1>3. CASE Environment /\ UNCHANGED <<ids, indexed, deletion, broken>>
  <2>1. UNCHANGED <<user, identity, guard, subjectOf, deletion>>
    BY <1>3 DEF Environment, Join, Leave, SetStatus, ids
  <2>2. QED
    BY <2>1, GuardsStay
<1>4. CASE (\E m \in Pair : Propagate(m)) \/ UNCHANGED vars
  <2>1. UNCHANGED <<user, identity, guard, subjectOf, deletion>>
    BY <1>4 DEF Propagate, ids, rows, vars
  <2>2. QED
    BY <2>1, GuardsStay
<1>5. QED
  BY <1>1, <1>2, <1>3, <1>4 DEF Next

\* While one organization is deleted at a time, no subject ever has two users,
\* however many logins race and wherever deletions stop.
THEOREM OneSubjectOneUser == Spec /\ []OneAtATime => []UserIsGuarded
<1>1. Init => IInvOne
  BY DEF Init, IInvOne, UserIsGuarded, UserHasSubject, OwnsItsGuards, NoDeletion
<1>2. IInvOne => UserIsGuarded
  BY DEF IInvOne
<1>3. QED
  BY Invariance, OneNext, <1>1, <1>2, PTL DEF Spec
---------------------------------------------------------------------------
(***************************************************************************)
(* What logins are answered.                                               *)
(***************************************************************************)
\* A login that goes on is not answered; one that ends is in no organization.
LEMMA Answering ==
  ASSUME IInv, NEW e \in Login, NEW c \in Login
  PROVE  /\ \A n : Continue(e, n) => answer'[c] = "none"
         /\ \A n : Continue(e, n) => login'[c] = (IF c = e THEN n ELSE login[c])
         /\ \A a : End(e, a) => answer'[c] = (IF c = e THEN a ELSE "none")
         /\ \A a : End(e, a) => login'[c] = (IF c = e THEN NoLogin ELSE login[c])
  BY Records DEF IInv, Continue, End, Silence

\* A login that finds a user was looking for it.
LEMMA FoundIsLive ==
  ASSUME IInv, NEW c \in Login, NEW u, Found(c, u), u \in user, UNCHANGED user,
         subjectOf[u] = login[c].subject, login[c].phase # "idle"
  PROVE  /\ Resolved(c)' =>
              login'[c].who \in user' /\ subjectOf[login'[c].who] = login[c].subject
         /\ answer'[c] # "ok"
<1>1. PICK l : l = login[c]
  OBVIOUS
<1>2. l \in LoginRecord
  BY <1>1, HasSubject
<1>3. CASE End(c, "conflict")
  BY <1>3, Answering DEF Resolved, NoLogin
<1>4. CASE Continue(c, [login[c] EXCEPT !.phase = "list", !.who = u])
  <2>1. PICK n : n = [l EXCEPT !.phase = "list", !.who = u]
    OBVIOUS
  <2>2. n.who = u
    BY <1>2, <2>1 DEF LoginRecord
  <2>3. login'[c] = n /\ answer'[c] = "none"
    BY <1>1, <1>4, <2>1, Answering
  <2>4. QED
    BY <2>2, <2>3
<1>5. QED
  BY <1>3, <1>4 DEF Found

\* A login that finds nobody resolves to nobody.
LEMMA MissedIsNobody ==
  ASSUME IInv, NEW c \in Login, Missed(c), login[c].phase # "idle"
  PROVE  ~ Resolved(c)' /\ answer'[c] # "ok"
<1>1. PICK l : l = login[c]
  OBVIOUS
<1>2. l \in LoginRecord
  BY <1>1, HasSubject
<1>3. CASE End(c, "conflict")
  BY <1>3, Answering DEF Resolved, NoLogin
<1>4. CASE Continue(c, [login[c] EXCEPT !.phase = "profile", !.who = None])
  <2>1. PICK n : n = [l EXCEPT !.phase = "profile", !.who = None]
    OBVIOUS
  <2>2. n.phase = "profile"
    BY <1>2, <2>1 DEF LoginRecord
  <2>3. login'[c] = n /\ answer'[c] = "none"
    BY <1>1, <1>4, <2>1, Answering
  <2>4. QED
    BY <2>2, <2>3 DEF Resolved
<1>5. QED
  BY <1>3, <1>4 DEF Missed

\* What a step may answer the login c.
AnswersWell(c) ==
  /\ ~Resolved(c) /\ Resolved(c)' =>
       LET who == login'[c].who IN who \in user' /\ subjectOf[who] = login[c].subject
  /\ answer'[c] = "ok" => <<login[c].org, login[c].who>> \in member

\* The steps that resolve, or end.
LEMMA LookupAnswersWell ==
  ASSUME IInv, NEW c \in Login, Lookup(c)
  PROVE  AnswersWell(c)
<1>1. login[c].phase # "idle" /\ UNCHANGED user
  BY DEF Lookup, At, rows
<1>2. PICK u : u = guard[login[c].subject]
  OBVIOUS
<1>3. CASE u = None
  BY <1>1, <1>2, <1>3, MissedIsNobody DEF Lookup, AnswersWell
<1>4. CASE u # None
  <2>1. u \in user /\ subjectOf[u] = login[c].subject
    BY <1>1, <1>2, <1>4, HasSubject DEF IInv, GuardsAgree, Lookup
  <2>2. Found(c, u)
    BY <1>2, <1>4 DEF Lookup
  <2>3. QED
    BY <1>1, <2>1, <2>2, FoundIsLive DEF AnswersWell
<1>5. QED
  BY <1>3, <1>4

LEMMA ReadUserAnswersWell ==
  ASSUME IInv, NEW c \in Login, ReadUser(c)
  PROVE  AnswersWell(c)
<1>1. login[c].phase = "user" /\ UNCHANGED user
  BY DEF ReadUser, At, rows
<1>2. PICK u : u = login[c].who
  OBVIOUS
<1>3. CASE u \notin user
  BY <1>1, <1>2, <1>3, MissedIsNobody DEF ReadUser, AnswersWell
<1>4. CASE u \in user
  <2>1. subjectOf[u] = login[c].subject
    BY <1>1, <1>2 DEF IInv, LoginSound
  <2>2. Found(c, u)
    BY <1>2, <1>4 DEF ReadUser
  <2>3. QED
    BY <1>1, <1>4, <2>1, <2>2, FoundIsLive DEF AnswersWell
<1>5. QED
  BY <1>3, <1>4

LEMMA ProvisionAnswersWell ==
  ASSUME IInv, NEW c \in Login, Provision(c)
  PROVE  AnswersWell(c)
<1>1. PICK l : l = login[c]
  OBVIOUS
<1>2. l \in LoginRecord /\ l.subject \in Subject /\ l.phase = "provision"
  BY <1>1, HasSubject DEF Provision, At
<1>3. CASE guard[l.subject] = None
  <2>1. PICK n : n = [l EXCEPT !.phase = "list", !.who = l.batch]
    OBVIOUS
  <2>2. n.who = l.batch
    BY <1>2, <2>1 DEF LoginRecord
  <2>3. Continue(c, n) /\ l.batch \in user'
    BY <1>1, <1>3, <2>1 DEF Provision, Create
  <2>4. login'[c] = n /\ answer'[c] = "none"
    BY <2>3, Answering
  <2>5. subjectOf[l.batch] = l.subject
    BY <1>1, <1>2 DEF IInv, LoginSound
  <2>6. QED
    BY <1>1, <2>2, <2>3, <2>4, <2>5 DEF AnswersWell
<1>4. CASE guard[l.subject] # None
  <2>1. PICK n : n = [l EXCEPT !.phase = "winner"]
    OBVIOUS
  <2>2. n.phase = "winner"
    BY <1>2, <2>1 DEF LoginRecord
  <2>3. Continue(c, n)
    BY <1>1, <1>4, <2>1 DEF Provision
  <2>4. login'[c] = n /\ answer'[c] = "none"
    BY <2>3, Answering
  <2>5. QED
    BY <2>2, <2>4 DEF AnswersWell, Resolved
<1>5. QED
  BY <1>3, <1>4

\* The last read decides.
LEMMA ReadMembershipAnswersWell ==
  ASSUME IInv, NEW c \in Login, ReadMembership(c)
  PROVE  AnswersWell(c)
<1>1. Resolved(c)
  BY DEF ReadMembership, At, Resolved
<1>2. answer'[c] = "ok" => <<login[c].org, login[c].who>> \in member
  BY Answering DEF ReadMembership
<1>3. QED
  BY <1>1, <1>2 DEF AnswersWell

\* The other steps answer no login with success, and resolve none.
LEMMA OthersAnswerWell ==
  ASSUME IInv, NEW c \in Login,
         \/ \E s \in Subject : Ask(c, s)
         \/ ReadGuard(c) \/ CheckProfile(c) \/ ResolveWinner(c)
         \/ ListOrganizations(c) \/ ReadBackOrganization(c) \/ Fail(c)
  PROVE  AnswersWell(c)
<1>1. PICK l : l = login[c]
  OBVIOUS
<1>2. l \in LoginRecord
  BY <1>1, Records DEF IInv
<1>3. CASE \/ End(c, "error") \/ End(c, "unauthorized") \/ End(c, "no_organization")
           \/ End(c, "conflict")
  BY <1>3, Answering DEF AnswersWell, Resolved, NoLogin
<1>4. CASE (ListOrganizations(c) \/ ReadBackOrganization(c)) /\ \E n : Continue(c, n)
  <2>1. Resolved(c)
    BY <1>4 DEF ListOrganizations, ReadBackOrganization, At, Resolved
  <2>2. answer'[c] = "none"
    BY <1>4, Answering
  <2>3. QED
    BY <2>1, <2>2 DEF AnswersWell
<1>5. ASSUME NEW n, Continue(c, n), n.phase \in {"guard", "user", "profile", "provision"}
      PROVE  AnswersWell(c)
  BY <1>5, Answering DEF AnswersWell, Resolved
<1>6. CASE \E s \in Subject : Ask(c, s)
  <2>1. PICK s \in Subject : Ask(c, s)
    BY <1>6
  <2>2. PICK n : n = [NoLogin EXCEPT !.phase = "guard", !.subject = s]
    OBVIOUS
  <2>3. n.phase = "guard"
    BY <2>2 DEF NoLogin
  <2>4. QED
    BY <1>5, <2>1, <2>2, <2>3 DEF Ask
<1>7. CASE ReadGuard(c)
  <2>1. CASE Missed(c)
    BY <1>7, <2>1, MissedIsNobody DEF ReadGuard, At, AnswersWell
  <2>2. CASE ~ Missed(c)
    <3>1. PICK n : n = [l EXCEPT !.phase = "user", !.who = guard[l.subject]]
      OBVIOUS
    <3>2. n.phase = "user"
      BY <1>2, <3>1 DEF LoginRecord
    <3>3. QED
      BY <1>1, <1>5, <1>7, <2>2, <3>1, <3>2 DEF ReadGuard
  <2>3. QED
    BY <2>1, <2>2
<1>8. CASE CheckProfile(c)
  <2>1. PICK n : n = [l EXCEPT !.phase = "provision", !.batch = minted + 1]
    OBVIOUS
  <2>2. n.phase = "provision"
    BY <1>2, <2>1 DEF LoginRecord
  <2>3. QED
    BY <1>1, <1>3, <1>5, <1>8, <2>1, <2>2 DEF CheckProfile
<1>9. CASE ResolveWinner(c)
  <2>1. PICK n : n = [l EXCEPT !.phase = "guard", !.existing = guard[l.subject]]
    OBVIOUS
  <2>2. n.phase = "guard"
    BY <1>2, <2>1 DEF LoginRecord
  <2>3. QED
    BY <1>1, <1>5, <1>9, <2>1, <2>2 DEF ResolveWinner
<1>10. CASE ListOrganizations(c) \/ ReadBackOrganization(c) \/ Fail(c)
  BY <1>3, <1>4, <1>10 DEF ListOrganizations, ReadBackOrganization, Fail
<1>11. QED
  BY <1>6, <1>7, <1>8, <1>9, <1>10

\* So every step answers every login well.
LEMMA StepAnswersWell ==
  ASSUME IInv, Next, NEW c \in Login
  PROVE  AnswersWell(c)
<1>1. CASE LoginNext
  <2>1. PICK e \in Login : (\E s \in Subject : Ask(e, s)) \/ LoginStep(e)
    BY <1>1 DEF LoginNext
  <2>2. CASE e = c
    BY <2>1, <2>2, LookupAnswersWell, ReadUserAnswersWell, ProvisionAnswersWell,
       ReadMembershipAnswersWell, OthersAnswerWell DEF LoginStep
  <2>3. CASE e # c
    <3>1. (\E n : Continue(e, n)) \/ (\E a : End(e, a))
      BY <2>1 DEF LoginStep, Ask, Lookup, ReadGuard, ReadUser, CheckProfile, Provision,
            ResolveWinner, ListOrganizations, ReadBackOrganization, ReadMembership, Fail,
            Found, Missed
    <3>2. login'[c] = login[c] /\ answer'[c] = "none"
      BY <2>3, <3>1, Answering
    <3>3. QED
      BY <3>2 DEF AnswersWell, Resolved
  <2>4. QED
    BY <2>2, <2>3
<1>2. CASE UNCHANGED login /\ answer' = Silence
  BY <1>2 DEF AnswersWell, Resolved, Silence
<1>3. QED
  BY <1>1, <1>2 DEF Next

\* A login resolves to the user its subject has at that instant, and is
\* answered in an organization the user belongs to at that instant.
THEOREM AnswersAreLive == Spec => AnswersLiveUser
<1>1. IInv /\ [Next]_vars =>
        [\A c \in Login :
           /\ ~Resolved(c) /\ Resolved(c)' =>
                LET who == login'[c].who IN who \in user' /\ subjectOf[who] = login[c].subject
           /\ answer'[c] = "ok" => <<login[c].org, login[c].who>> \in member]_vars
  BY StepAnswersWell DEF AnswersWell
<1>2. QED
  BY Invariance, <1>1, PTL DEF Spec, AnswersLiveUser
============================================================================
