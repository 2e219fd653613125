------------------------------ MODULE Accounts ------------------------------
(***************************************************************************)
(* Users come into being at their first login (resolve_or_provision in     *)
(* services/identity.py) and go with an organization they belong to        *)
(* (admin_delete_organization of both adapters).                           *)
(*                                                                         *)
(* SQLite reads and writes each step in one transaction.  DynamoDB         *)
(* provisions in one transaction too, but looks an identity up in two      *)
(* reads, lists organizations through a lagging index, and deletes item by *)
(* item after a series of scans, and may stop in between.                  *)
(*                                                                         *)
(* A user, its identity record and its personal organization are created   *)
(* together and share an id here; ids count up, so that the id orders      *)
(* organizations by creation.                                              *)
(***************************************************************************)
EXTENDS Integers, FiniteSetsExt

CONSTANTS
  Subject,       \* subjects of the identity provider
  MaxUser,       \* bound on the number of provisioning attempts
  Login,         \* slots for logins in progress
  Operator       \* slots for deletions in progress

ASSUME BoundIsNatural == MaxUser \in Nat

UserId == 1 .. MaxUser
None == 0

VARIABLES
  adapter,       \* the storage adapter of this deployment
  minted,        \* number of ids minted so far
  subjectOf,     \* subject of each id, None before it is minted
  user,          \* rows of users
  identity,      \* rows of external_identities
  guard,         \* owner named by the uniqueness record of each subject
  org,           \* OrganizationStatus of personal organizations, or "absent"
  member,        \* memberships, as pairs <<organization, user>>
  indexed,       \* memberships the by-user index shows
  login,         \* each login in progress
  answer,        \* what the last step has answered, and to which login
  deletion,      \* each deletion in progress
  broken         \* history: a deletion has failed half way

rows == <<user, identity, guard, org, member>>
ids == <<minted, subjectOf>>
vars == <<adapter, ids, rows, indexed, login, answer, deletion, broken>>

Pair == UserId \X UserId
LoginPhase == {"idle", "guard", "user", "profile", "provision", "winner", "list", "readback",
               "membership"}
DeletionPhase == {"idle", "confirm", "suspend", "memberships", "identities", "guards", "erase"}
Answer == {"none", "ok", "unauthorized", "conflict", "no_organization", "error"}

NoLogin == [phase |-> "idle", subject |-> None, batch |-> None, existing |-> None,
            who |-> None, org |-> None]
NoDeletion == [phase |-> "idle", org |-> None, users |-> {}, identities |-> {},
               guards |-> {}, memberships |-> {}]

\* Type invariant of accounts.
TypeOK ==
  /\ adapter \in {"sqlite", "dynamodb"}
  /\ minted \in 0 .. MaxUser
  /\ subjectOf \in [UserId -> Subject \cup {None}]
  /\ user \in SUBSET UserId
  /\ identity \in SUBSET UserId
  /\ guard \in [Subject -> UserId \cup {None}]
  /\ org \in [UserId -> {"absent", "active", "disabled"}]
  /\ member \in SUBSET Pair
  /\ indexed \in SUBSET Pair
  /\ login \in [Login -> [phase : LoginPhase, subject : Subject \cup {None},
                          batch : UserId \cup {None}, existing : UserId \cup {None},
                          who : UserId \cup {None}, org : UserId \cup {None}]]
  /\ answer \in [Login -> Answer]
  /\ deletion \in [Operator -> [phase : DeletionPhase, org : UserId \cup {None},
                                users : SUBSET UserId, identities : SUBSET UserId,
                                guards : SUBSET Subject, memberships : SUBSET Pair]]
  /\ broken \in BOOLEAN

Init ==
  /\ adapter \in {"sqlite", "dynamodb"}
  /\ minted = 0
  /\ subjectOf = [u \in UserId |-> None]
  /\ user = {}
  /\ identity = {}
  /\ guard = [s \in Subject |-> None]
  /\ org = [u \in UserId |-> "absent"]
  /\ member = {}
  /\ indexed = {}
  /\ login = [c \in Login |-> NoLogin]
  /\ answer = [c \in Login |-> "none"]
  /\ deletion = [d \in Operator |-> NoDeletion]
  /\ broken = FALSE
---------------------------------------------------------------------------
(***************************************************************************)
(* Logins.                                                                 *)
(***************************************************************************)
Silence == [c \in Login |-> "none"]

Continue(c, next) == login' = [login EXCEPT ![c] = next] /\ answer' = Silence

End(c, a) ==
  /\ login' = [login EXCEPT ![c] = NoLogin]
  /\ answer' = [Silence EXCEPT ![c] = a]

At(c, p) == login[c].phase = p

Ask(c, s) ==
  /\ At(c, "idle")
  /\ Continue(c, [NoLogin EXCEPT !.phase = "guard", !.subject = s])
  /\ UNCHANGED <<ids, rows>>

\* The lookup finds u.  After a lost race the storage's hint must agree.
Found(c, u) ==
  LET e == login[c].existing IN
  \/ e \notin {None, u} /\ End(c, "conflict")
  \/ e \in {None, u} /\ Continue(c, [login[c] EXCEPT !.phase = "list", !.who = u])

\* The lookup finds nobody: a first login, or nothing to converge on.
Missed(c) ==
  \/ login[c].batch = None /\ Continue(c, [login[c] EXCEPT !.phase = "profile", !.who = None])
  \/ login[c].batch # None /\ End(c, "conflict")

\* SQLite: one join of identities and users.
Lookup(c) ==
  LET u == guard[login[c].subject] IN
  /\ adapter = "sqlite"
  /\ At(c, "guard")
  /\ \/ u = None /\ Missed(c)
     \/ u # None /\ Found(c, u)
  /\ UNCHANGED <<ids, rows>>

\* DynamoDB: the uniqueness record, then the user it names.
ReadGuard(c) ==
  LET u == guard[login[c].subject] IN
  /\ adapter = "dynamodb"
  /\ At(c, "guard")
  /\ \/ u = None /\ Missed(c)
     \/ u # None /\ Continue(c, [login[c] EXCEPT !.phase = "user", !.who = u])
  /\ UNCHANGED <<ids, rows>>

ReadUser(c) ==
  LET u == login[c].who IN
  /\ At(c, "user")
  /\ \/ u \notin user /\ Missed(c)
     \/ u \in user /\ Found(c, u)
  /\ UNCHANGED <<ids, rows>>

\* Without a verified profile nothing is written.
CheckProfile(c) ==
  /\ At(c, "profile")
  /\ UNCHANGED rows
  /\ \/ End(c, "unauthorized") /\ UNCHANGED ids
     \/ /\ minted < MaxUser
        /\ minted' = minted + 1
        /\ subjectOf' = [subjectOf EXCEPT ![minted + 1] = login[c].subject]
        /\ Continue(c, [login[c] EXCEPT !.phase = "provision", !.batch = minted + 1])

\* Mutant of Create: the status of the name is written as the status of the
\* organization.
CreatePlaceholder(u, s) ==
  /\ user' = user \cup {u}
  /\ identity' = identity \cup {u}
  /\ guard' = [guard EXCEPT ![s] = u]
  /\ org' = [org EXCEPT ![u] = "placeholder"]
  /\ member' = member \cup {<<u, u>>}

\* Writes user, identity, personal organization and owner membership.
Create(u, s) ==
  /\ user' = user \cup {u}
  /\ identity' = identity \cup {u}
  /\ guard' = [guard EXCEPT ![s] = u]
  /\ org' = [org EXCEPT ![u] = "active"]
  /\ member' = member \cup {<<u, u>>}

\* The batch commits as a whole, or loses to the owner of the subject.
Provision(c) ==
  LET s == login[c].subject
      u == login[c].batch
  IN /\ At(c, "provision")
     /\ UNCHANGED ids
     /\ \/ /\ guard[s] = None
           /\ Create(u, s)
           /\ Continue(c, [login[c] EXCEPT !.phase = "list", !.who = u])
        \/ /\ guard[s] # None
           /\ Continue(c, [login[c] EXCEPT !.phase = "winner"])
           /\ UNCHANGED rows

\* Mutant of ResolveWinner: the storage's hint is taken for the user.
ConvergeUnread(c) ==
  /\ At(c, "winner")
  /\ Continue(c, [login[c] EXCEPT !.phase = "list", !.who = guard[login[c].subject]])
  /\ guard[login[c].subject] # None
  /\ UNCHANGED <<ids, rows>>

\* The storage names the winner if it still can; the service looks again.
ResolveWinner(c) ==
  /\ At(c, "winner")
  /\ Continue(c, [login[c] EXCEPT !.phase = "guard", !.existing = guard[login[c].subject]])
  /\ UNCHANGED <<ids, rows>>

Listed == IF adapter = "sqlite" THEN member ELSE indexed

\* The earliest organization of the user, disabled or not.
ListOrganizations(c) ==
  LET mine == {o \in UserId : <<o, login[c].who>> \in Listed} IN
  /\ At(c, "list")
  /\ UNCHANGED <<ids, rows>>
  /\ \/ mine = {} /\ End(c, "no_organization")
     \/ /\ mine # {}
        /\ Continue(c, [login[c] EXCEPT !.org = Min(mine),
                          !.phase = IF adapter = "sqlite" THEN "membership" ELSE "readback"])

\* DynamoDB: the index holds no organizations, they are read one by one.
ReadBackOrganization(c) ==
  LET there == org[login[c].org] # "absent" IN
  /\ At(c, "readback")
  /\ UNCHANGED <<ids, rows>>
  /\ \/ there /\ Continue(c, [login[c] EXCEPT !.phase = "membership"])
     \/ ~there /\ End(c, "error")

ReadMembership(c) ==
  LET held == <<login[c].org, login[c].who>> \in member IN
  /\ At(c, "membership")
  /\ End(c, IF held THEN "ok" ELSE "no_organization")
  /\ UNCHANGED <<ids, rows>>

\* A storage fault, the last of the transaction's retries, or a crash.
Fail(c) == ~At(c, "idle") /\ End(c, "error") /\ UNCHANGED <<ids, rows>>

LoginStep(c) ==
  \/ Lookup(c)
  \/ ReadGuard(c)
  \/ ReadUser(c)
  \/ CheckProfile(c)
  \/ Provision(c)
  \/ ResolveWinner(c)
  \/ ListOrganizations(c)
  \/ ReadBackOrganization(c)
  \/ ReadMembership(c)
  \/ Fail(c)
---------------------------------------------------------------------------
(***************************************************************************)
(* Deletion of an organization, all its members, and all they have.        *)
(***************************************************************************)
Pursue(d, next) == deletion' = [deletion EXCEPT ![d] = next]
Is(d, p) == deletion[d].phase = p
MembersOf(o) == {u \in UserId : <<o, u>> \in member}
Without(us, o) == {m \in member : m[1] # o /\ m[2] \notin us}

AskDeletion(d, o) ==
  /\ Is(d, "idle")
  /\ Pursue(d, [NoDeletion EXCEPT !.phase = "confirm", !.org = o])
  /\ UNCHANGED <<rows, broken>>

\* The organization must exist, under the name the administrator typed.
Confirm(d) ==
  /\ Is(d, "confirm")
  /\ UNCHANGED <<rows, broken>>
  /\ \/ Pursue(d, NoDeletion)
     \/ org[deletion[d].org] # "absent" /\ Pursue(d, [deletion[d] EXCEPT !.phase = "suspend"])

\* The other operator was faster.
Gone(d) ==
  /\ Is(d, "suspend")
  /\ org[deletion[d].org] = "absent"
  /\ Pursue(d, NoDeletion)
  /\ UNCHANGED <<rows, broken>>

\* SQLite: one transaction.
DeleteAtOnce(d) ==
  LET o == deletion[d].org
      us == MembersOf(o)
  IN /\ adapter = "sqlite"
     /\ Is(d, "suspend")
     /\ org[o] # "absent"
     /\ user' = user \ us
     /\ identity' = identity \ us
     /\ guard' = [s \in Subject |-> IF guard[s] \in us THEN None ELSE guard[s]]
     /\ org' = [org EXCEPT ![o] = "absent"]
     /\ member' = Without(us, o)
     /\ Pursue(d, NoDeletion)
     /\ UNCHANGED broken

\* DynamoDB: suspend first ...
Suspend(d) ==
  LET o == deletion[d].org IN
  /\ adapter = "dynamodb"
  /\ Is(d, "suspend")
  /\ org[o] # "absent"
  /\ org' = [org EXCEPT ![o] = "disabled"]
  /\ Pursue(d, [deletion[d] EXCEPT !.phase = "memberships"])
  /\ UNCHANGED <<user, identity, guard, member, broken>>

\* ... then find what to delete ...
ScanMemberships(d) ==
  LET us == MembersOf(deletion[d].org) IN
  /\ Is(d, "memberships")
  /\ Pursue(d, [deletion[d] EXCEPT !.phase = "identities", !.users = us,
                  !.memberships = member \ Without(us, deletion[d].org)])
  /\ UNCHANGED <<rows, broken>>

ScanIdentities(d) ==
  /\ Is(d, "identities")
  /\ Pursue(d, [deletion[d] EXCEPT !.phase = "guards", !.identities = deletion[d].users \cap identity])
  /\ UNCHANGED <<rows, broken>>

\* Mutant of ScanGuards: uniqueness records are not looked for.
ScanNoGuards(d) ==
  /\ Is(d, "guards")
  /\ Pursue(d, [deletion[d] EXCEPT !.phase = "erase"])
  /\ UNCHANGED <<rows, broken>>

\* Uniqueness records are found through the identity records that own them.
ScanGuards(d) ==
  /\ Is(d, "guards")
  /\ Pursue(d, [deletion[d] EXCEPT !.phase = "erase",
                  !.guards = {s \in Subject : guard[s] \in deletion[d].identities}])
  /\ UNCHANGED <<rows, broken>>

\* ... then delete item by item, users first, the organization last.
EraseUser(d, u) ==
  /\ Is(d, "erase")
  /\ u \in deletion[d].users
  /\ user' = user \ {u}
  /\ Pursue(d, [deletion[d] EXCEPT !.users = @ \ {u}])
  /\ UNCHANGED <<identity, guard, org, member, broken>>

EraseIdentity(d, u) ==
  /\ Is(d, "erase")
  /\ deletion[d].users = {}
  /\ u \in deletion[d].identities
  /\ identity' = identity \ {u}
  /\ Pursue(d, [deletion[d] EXCEPT !.identities = @ \ {u}])
  /\ UNCHANGED <<user, guard, org, member, broken>>

\* Mutant of EraseGuard: the subject is freed before the user is gone.
EraseGuardEarly(d, s) ==
  /\ Is(d, "erase")
  /\ s \in deletion[d].guards
  /\ guard' = [guard EXCEPT ![s] = None]
  /\ Pursue(d, [deletion[d] EXCEPT !.guards = @ \ {s}])
  /\ UNCHANGED <<user, identity, org, member, broken>>

\* The record is deleted by its key, whoever owns it by now.
EraseGuard(d, s) ==
  /\ Is(d, "erase")
  /\ deletion[d].users = {} /\ deletion[d].identities = {}
  /\ s \in deletion[d].guards
  /\ guard' = [guard EXCEPT ![s] = None]
  /\ Pursue(d, [deletion[d] EXCEPT !.guards = @ \ {s}])
  /\ UNCHANGED <<user, identity, org, member, broken>>

\* Mutant of EraseMembership: memberships go before the users that hold them.
EraseMembershipEarly(d, m) ==
  /\ Is(d, "erase")
  /\ m \in deletion[d].memberships
  /\ member' = member \ {m}
  /\ Pursue(d, [deletion[d] EXCEPT !.memberships = @ \ {m}])
  /\ UNCHANGED <<user, identity, guard, org, broken>>

EraseMembership(d, m) ==
  /\ Is(d, "erase")
  /\ deletion[d].users = {} /\ deletion[d].identities = {} /\ deletion[d].guards = {}
  /\ m \in deletion[d].memberships
  /\ member' = member \ {m}
  /\ Pursue(d, [deletion[d] EXCEPT !.memberships = @ \ {m}])
  /\ UNCHANGED <<user, identity, guard, org, broken>>

EraseOrganization(d) ==
  /\ Is(d, "erase")
  /\ deletion[d].users = {} /\ deletion[d].identities = {} /\ deletion[d].guards = {}
  /\ deletion[d].memberships = {}
  /\ org' = [org EXCEPT ![deletion[d].org] = "absent"]
  /\ Pursue(d, NoDeletion)
  /\ UNCHANGED <<user, identity, guard, member, broken>>

\* A storage fault, or the end of the process.
Abandon(d) ==
  /\ ~Is(d, "idle")
  /\ Pursue(d, NoDeletion)
  /\ broken' = (broken \/ Is(d, "erase"))
  /\ UNCHANGED rows

DeletionStep(d) ==
  \/ Confirm(d)
  \/ Gone(d)
  \/ DeleteAtOnce(d)
  \/ Suspend(d)
  \/ ScanMemberships(d)
  \/ ScanIdentities(d)
  \/ ScanGuards(d)
  \/ \E u \in UserId : EraseUser(d, u) \/ EraseIdentity(d, u)
  \/ \E s \in Subject : EraseGuard(d, s)
  \/ \E m \in Pair : EraseMembership(d, m)
  \/ EraseOrganization(d)
  \/ Abandon(d)
---------------------------------------------------------------------------
(***************************************************************************)
(* What Members, suspensions and the index do, seen from here.             *)
(***************************************************************************)
\* create_membership checks that both parents exist.
Join(o, u) ==
  /\ org[o] # "absent" /\ u \in user
  /\ <<o, u>> \notin member
  /\ member' = member \cup {<<o, u>>}
  /\ UNCHANGED <<user, identity, guard, org>>

\* Owners stay: see OwnersFixed of Members.
Leave(o, u) ==
  /\ o # u
  /\ <<o, u>> \in member
  /\ member' = member \ {<<o, u>>}
  /\ UNCHANGED <<user, identity, guard, org>>

SetStatus(o, status) ==
  /\ org[o] \notin {"absent", status}
  /\ org' = [org EXCEPT ![o] = status]
  /\ UNCHANGED <<user, identity, guard, member>>

Environment ==
  \/ \E o, u \in UserId : Join(o, u) \/ Leave(o, u)
  \/ \E o \in UserId, status \in {"active", "disabled"} : SetStatus(o, status)

\* The index catches up with the table, entry by entry.
Propagate(m) ==
  /\ adapter = "dynamodb"
  /\ (m \in member) # (m \in indexed)
  /\ indexed' = IF m \in member THEN indexed \cup {m} ELSE indexed \ {m}
  /\ UNCHANGED <<ids, rows, deletion, broken>>

LoginNext == \E c \in Login : (\E s \in Subject : Ask(c, s)) \/ LoginStep(c)
DeletionNext == \E d \in Operator : (\E o \in UserId : AskDeletion(d, o)) \/ DeletionStep(d)

Next ==
  /\ \/ LoginNext /\ UNCHANGED <<indexed, deletion, broken>>
     \/ /\ \/ DeletionNext /\ UNCHANGED <<ids, indexed>>
           \/ Environment /\ UNCHANGED <<ids, indexed, deletion, broken>>
           \/ \E m \in Pair : Propagate(m)
        /\ UNCHANGED login /\ answer' = Silence
  /\ UNCHANGED adapter

Spec == Init /\ [][Next]_vars
---------------------------------------------------------------------------
\* Every user is the one its subject's uniqueness record names, with its
\* identity record; so no subject ever has two users, whatever logins race
\* and wherever a deletion stops (provision_user, admin_delete_organization).
UserIsGuarded ==
  \A u \in user : u \in identity /\ guard[subjectOf[u]] = u

\* Every user owns an organization that exists: creation is atomic, and
\* deletion takes users before memberships and organizations.
UserHasWorkspace ==
  \A u \in user : <<u, u>> \in member /\ org[u] # "absent"

\* A subject whose record names a user that is gone cannot log in (409).
\* That happens only while the deletion of the user runs, or after a
\* deletion failed half way.
LockedOut(s) == guard[s] # None /\ guard[s] \notin user
LockoutOnlyAfterFailure ==
  \A s \in Subject : LockedOut(s) => broken \/ \E d \in Operator : s \in deletion[d].guards

\* A login resolves to the user its subject has at that instant, and is
\* answered in an organization the user belongs to at that instant, however
\* stale index, hint and earlier reads were (_provision_or_converge,
\* build_user_context).
Resolved(c) == login[c].phase \in {"list", "readback", "membership"}
AnswersLiveUser ==
  [][\A c \in Login :
       /\ ~Resolved(c) /\ Resolved(c)' =>
            LET who == login'[c].who IN who \in user' /\ subjectOf[who] = login[c].subject
       /\ answer'[c] = "ok" => <<login[c].org, login[c].who>> \in member]_vars

\* identity.py and docs/authentication.md: the default context is the
\* earliest active organization of the user.
ContextIsActive ==
  [][\A c \in Login :
       answer'[c] = "ok" => org[login[c].org] = "active"]_vars
============================================================================
