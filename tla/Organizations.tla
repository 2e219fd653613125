---------------------------- MODULE Organizations ----------------------------
(***************************************************************************)
(* Organizations, their names and their slugs: creation, renaming, the     *)
(* availability check and deletion (api/organizations.py,                  *)
(* services/organization.py and both storage adapters).                    *)
(*                                                                         *)
(* A slug belongs to one organization at most.  SQLite keeps that with an  *)
(* index on the rows; DynamoDB with a second table of registrations, which *)
(* every write of a slug must keep in step with the rows, in transactions  *)
(* whose conditions are tried in the order of submission.                  *)
(***************************************************************************)
EXTENDS Integers, Sequences, FiniteSets

CONSTANTS
  Org,           \* organizations, those not created yet included
  Name,          \* organization names
  Slug,          \* organization slugs
  SlugOf,        \* organization_slug_from_name; None if no slug can be made
  Initial,       \* rows of the organizations that exist in the beginning
  Call,          \* slots for requests in progress
  MaxAttempts,   \* MAX_TRANSACTION_ATTEMPTS
  None           \* no value

Row == [name : Name, slug : Slug, active : BOOLEAN, confirmed : BOOLEAN]

ASSUME SlugsAreDerived == SlugOf \in [Name -> Slug \cup {None}]
ASSUME InitialIsRegistered ==
  /\ Initial \in [Org -> Row \cup {None}]
  /\ \A o, p \in Org : o # p /\ Initial[o] # None /\ Initial[p] # None => Initial[o].slug # Initial[p].slug
ASSUME SomeAttempts == MaxAttempts \in Nat \ {0}
ASSUME NoneIsNothing == None \notin Org \cup Slug \cup Name /\ None \notin Row

VARIABLES
  adapter,       \* the storage adapter of this deployment
  organization,  \* table organizations
  registry,      \* the slugs of DynamoDB's table unique_constraints
  minted,        \* organization ids in use or used before
  call,          \* each request in progress
  outcome,       \* what the last step has answered, and to which request
  erasing,       \* the deletion in progress
  loose          \* history: organizations whose registration a deletion erased

tables == <<organization, registry, minted>>
vars == <<adapter, tables, call, outcome, erasing, loose>>

Kind == {"create", "rename", "available"}
Phase == {"idle", "context", "access", "create", "update", "read", "name", "slug", "lookup"}
Answer == {"none", "ok", "conflict", "missing", "reference", "forbidden", "invalid", "taken", "error"}

NoCall == [phase |-> "idle", kind |-> "create", org |-> None, home |-> None, name |-> None,
           slug |-> None, old |-> None, attempts |-> 0]
NoErasing == [phase |-> "idle", org |-> None, slugs |-> {}]
Silence == [c \in Call |-> "none"]

\* Type invariant of organizations and their slugs.
TypeOK ==
  /\ adapter \in {"sqlite", "dynamodb"}
  /\ organization \in [Org -> Row \cup {None}]
  /\ registry \in [Slug -> Org \cup {None}]
  /\ minted \in SUBSET Org
  /\ call \in [Call -> [phase : Phase, kind : Kind, org : Org \cup {None}, home : Org \cup {None},
                        name : Name \cup {None}, slug : Slug \cup {None}, old : Slug \cup {None},
                        attempts : 0 .. MaxAttempts - 1]]
  /\ outcome \in [Call -> Answer]
  /\ erasing \in [phase : {"idle", "scan", "slugs"}, org : Org \cup {None}, slugs : SUBSET Slug]
  /\ loose \in SUBSET Org

Exists(o) == organization[o] # None
Active(o) == Exists(o) /\ organization[o].active
Having(s) == {o \in Org : Exists(o) /\ organization[o].slug = s}

Init ==
  /\ adapter \in {"sqlite", "dynamodb"}
  /\ organization = Initial
  /\ minted = {o \in Org : Exists(o)}
  /\ registry = [s \in Slug |-> IF adapter = "dynamodb" /\ Having(s) # {}
                                THEN CHOOSE o \in Having(s) : TRUE ELSE None]
  /\ call = [c \in Call |-> NoCall]
  /\ outcome = Silence
  /\ erasing = NoErasing
  /\ loose = {}
---------------------------------------------------------------------------
At(c, phase) == call[c].phase = phase

Continue(c, next) == call' = [call EXCEPT ![c] = next] /\ outcome' = Silence

Goto(c, phase) == Continue(c, [call[c] EXCEPT !.phase = phase])

Reply(c, a) ==
  call' = [call EXCEPT ![c] = NoCall] /\ outcome' = [Silence EXCEPT ![c] = a]

\* Mutant of Free: no other organization is looked for.
AlwaysFree(o, s) == TRUE

\* Nobody but o has the slug: the unique index, or attribute_not_exists.
Free(o, s) ==
  \/ adapter = "sqlite" /\ Having(s) \subseteq {o}
  \/ adapter = "dynamodb" /\ registry[s] = None

\* Mutant of Verdict: the last failed condition decides.
LastVerdict(conditions) ==
  LET failed == {i \in DOMAIN conditions : ~conditions[i].holds}
      last == CHOOSE i \in failed : \A k \in failed : k <= i
  IN  IF failed = {} THEN "ok" ELSE conditions[last].answer

\* The first condition that fails, in the order of submission, decides.
Verdict(conditions) ==
  LET failed == {i \in DOMAIN conditions : ~conditions[i].holds}
      first == CHOOSE i \in failed : \A k \in failed : i <= k
  IN  IF failed = {} THEN "ok" ELSE conditions[first].answer

Condition(h, a) == [holds |-> h, answer |-> a]

\* Mutant of Write: one attempt too many.
WriteOnceMore(c, conditions, commit) ==
  \/ Verdict(conditions) = "ok" /\ commit /\ Reply(c, "ok")
  \/ Verdict(conditions) # "ok" /\ Reply(c, Verdict(conditions)) /\ UNCHANGED tables
  \/ /\ adapter = "dynamodb" /\ call[c].attempts < MaxAttempts
     /\ Continue(c, [call[c] EXCEPT !.attempts = @ + 1])
     /\ UNCHANGED tables

\* One write of an adapter: its commit, whose reply DynamoDB may lose; the
\* first broken condition; a fault; on DynamoDB, at times, a conflict with
\* another transaction, after which the same items are submitted again.
Write(c, conditions, commit) ==
  \/ /\ Verdict(conditions) = "ok" /\ commit
     /\ Reply(c, "ok") \/ (adapter = "dynamodb" /\ Reply(c, "error"))
  \/ Verdict(conditions) # "ok" /\ Reply(c, Verdict(conditions)) /\ UNCHANGED tables
  \/ Reply(c, "error") /\ UNCHANGED tables
  \/ /\ adapter = "dynamodb" /\ call[c].attempts + 1 < MaxAttempts
     /\ Continue(c, [call[c] EXCEPT !.attempts = @ + 1])
     /\ UNCHANGED tables

Registered(o, s) == IF adapter = "dynamodb" THEN [registry EXCEPT ![s] = o] ELSE registry
---------------------------------------------------------------------------
(***************************************************************************)
(* POST /organizations: the caller's own organization must be active.      *)
(* Slug and name are the caller's, and need not fit together.              *)
(***************************************************************************)
AskCreate(c, o, h, n, s) ==
  /\ At(c, "idle") /\ o \notin minted
  /\ Continue(c, [NoCall EXCEPT !.phase = "context", !.org = o, !.home = h, !.name = n, !.slug = s])
  /\ UNCHANGED tables

\* An organization type nobody may select is refused before any write.
ReadContext(c) ==
  /\ At(c, "context")
  /\ \/ Active(call[c].home) /\ (Goto(c, "create") \/ Reply(c, "invalid"))
     \/ ~Active(call[c].home) /\ Reply(c, "forbidden")
  /\ UNCHANGED tables

\* Organization, registration, membership and audit events at once; the
\* creator's row is checked last and may be gone.
Create(c) ==
  LET o == call[c].org
      s == call[c].slug
  IN  /\ At(c, "create")
      /\ \E creator \in BOOLEAN :
           Write(c,
             << Condition(o \notin minted, "error"), Condition(Free(o, s), "conflict"),
                Condition(creator, "reference") >>,
             /\ organization' = [organization EXCEPT ![o] =
                  [name |-> call[c].name, slug |-> s, active |-> TRUE, confirmed |-> TRUE]]
             /\ registry' = Registered(o, s)
             /\ minted' = minted \cup {o})
---------------------------------------------------------------------------
(***************************************************************************)
(* PATCH /organizations/{id} and the availability check, both for an       *)
(* administrator of an active organization.                                *)
(***************************************************************************)
Ask(c, kind, o, n) ==
  /\ At(c, "idle")
  /\ Continue(c, [NoCall EXCEPT !.phase = "access", !.kind = kind, !.org = o, !.name = n])
  /\ UNCHANGED tables

\* An unknown organization is refused like an inactive one.  The slug is
\* derived after the access check; a name without a slug is an
\* error of the rename and an invalid question of the check.
Authorize(c) ==
  LET q == call[c]
      s == SlugOf[q.name]
      next == IF q.kind = "available" THEN "lookup" ELSE IF adapter = "sqlite" THEN "update" ELSE "read"
  IN  /\ At(c, "access")
      /\ \/ ~Active(q.org) /\ Reply(c, "forbidden")
         \/ Active(q.org) /\ s # None /\ Continue(c, [q EXCEPT !.phase = next, !.slug = s])
         \/ Active(q.org) /\ s = None /\ Reply(c, IF q.kind = "rename" THEN "error" ELSE "invalid")
      /\ UNCHANGED tables

Renamed(o, n, s) ==
  [organization EXCEPT ![o].name = n, ![o].slug = s, ![o].confirmed = TRUE]

\* SQLite: one UPDATE; a row count of zero means the organization is gone.
Update(c) ==
  LET q == call[c] IN
  /\ At(c, "update")
  /\ Write(c, << Condition(Exists(q.org) => Free(q.org, q.slug), "conflict"),
                 Condition(Exists(q.org), "missing") >>,
           organization' = Renamed(q.org, q.name, q.slug) /\ UNCHANGED <<registry, minted>>)

\* DynamoDB reads the current slug and chooses between two writes.
ReadSlug(c) ==
  LET o == call[c].org IN
  /\ At(c, "read")
  /\ \/ ~Exists(o) /\ Reply(c, "missing")
     \/ Exists(o) /\ organization[o].slug = call[c].slug /\ Goto(c, "name")
     \/ /\ Exists(o) /\ organization[o].slug # call[c].slug
        /\ Continue(c, [call[c] EXCEPT !.phase = "slug", !.old = organization[o].slug])
  /\ UNCHANGED tables

\* The slug read a moment ago is the one wanted: only the name is written,
\* and only the existence of the row is a condition.  A conflict is final.
UpdateName(c) ==
  LET q == call[c] IN
  /\ At(c, "name")
  /\ \/ /\ Exists(q.org) /\ (Reply(c, "ok") \/ Reply(c, "error"))
        /\ organization' = [organization EXCEPT ![q.org].name = q.name, ![q.org].confirmed = TRUE]
        /\ UNCHANGED <<registry, minted>>
     \/ ~Exists(q.org) /\ Reply(c, "missing") /\ UNCHANGED tables
     \/ Reply(c, "error") /\ UNCHANGED tables

Moved(o, old, s) == [registry EXCEPT ![old] = None, ![s] = o]

\* Mutant of UpdateSlug: the slug read before is taken to be current.
UpdateSlugUnchecked(c) ==
  LET q == call[c] IN
  /\ At(c, "slug")
  /\ Write(c, << Condition(Exists(q.org), "missing"), Condition(Free(q.org, q.slug), "conflict") >>,
           /\ organization' = Renamed(q.org, q.name, q.slug)
           /\ registry' = Moved(q.org, q.old, q.slug)
           /\ UNCHANGED minted)

\* Row, old registration and new registration in one transaction.
UpdateSlug(c) ==
  LET q == call[c] IN
  /\ At(c, "slug")
  /\ Write(c, << Condition(Exists(q.org) /\ organization[q.org].slug = q.old, "missing"),
                 Condition(registry[q.old] = q.org, "missing"),
                 Condition(Free(q.org, q.slug), "conflict") >>,
           /\ organization' = Renamed(q.org, q.name, q.slug)
           /\ registry' = Moved(q.org, q.old, q.slug)
           /\ UNCHANGED minted)

\* is_organization_slug_available, the asking organization excepted.
LookupSlug(c) ==
  LET o == call[c].org
      s == call[c].slug
      free == IF adapter = "sqlite" THEN Having(s) \subseteq {o} ELSE registry[s] \in {None, o}
  IN  /\ At(c, "lookup")
      /\ Reply(c, IF free THEN "ok" ELSE "taken")
      /\ UNCHANGED tables

Fail(c) ==
  /\ ~At(c, "idle") /\ Reply(c, "error") /\ UNCHANGED tables

CallStep(c) ==
  \/ \E o, h \in Org, n \in Name, s \in Slug : AskCreate(c, o, h, n, s)
  \/ ReadContext(c)
  \/ Create(c)
  \/ \E o \in Org, n \in Name, kind \in {"rename", "available"} : Ask(c, kind, o, n)
  \/ Authorize(c)
  \/ Update(c)
  \/ ReadSlug(c)
  \/ UpdateName(c)
  \/ UpdateSlug(c)
  \/ LookupSlug(c)
  \/ Fail(c)

Serve(c) == CallStep(c) /\ UNCHANGED <<adapter, erasing, loose>>
---------------------------------------------------------------------------
(***************************************************************************)
(* Suspension, reactivation and deletion by an administrator of the        *)
(* application.                                                            *)
(***************************************************************************)
SetActive(o, active) ==
  /\ Exists(o)
  /\ organization' = [organization EXCEPT ![o].active = active]
  /\ UNCHANGED <<adapter, registry, minted, erasing, loose>>

\* SQLite: one transaction.
DeleteAtOnce(o) ==
  /\ adapter = "sqlite" /\ Exists(o)
  /\ organization' = [organization EXCEPT ![o] = None]
  /\ UNCHANGED <<adapter, registry, minted, erasing, loose>>

\* DynamoDB: suspended first.
BeginDeletion(o) ==
  /\ adapter = "dynamodb" /\ erasing.phase = "idle" /\ Exists(o)
  /\ organization' = [organization EXCEPT ![o].active = FALSE]
  /\ erasing' = [NoErasing EXCEPT !.phase = "scan", !.org = o]
  /\ UNCHANGED <<adapter, registry, minted, loose>>

ScanSlugs ==
  /\ erasing.phase = "scan"
  /\ erasing' = [erasing EXCEPT !.phase = "slugs", !.slugs = {s \in Slug : registry[s] = erasing.org}]
  /\ UNCHANGED <<adapter, tables, loose>>

\* By its key, whoever holds it by now.
EraseSlug(s) ==
  /\ erasing.phase = "slugs" /\ s \in erasing.slugs
  /\ registry' = [registry EXCEPT ![s] = None]
  /\ loose' = loose \cup ({registry[s]} \ {None})
  /\ erasing' = [erasing EXCEPT !.slugs = @ \ {s}]
  /\ UNCHANGED <<adapter, organization, minted>>

EraseOrganization ==
  /\ erasing.phase = "slugs" /\ erasing.slugs = {}
  /\ organization' = [organization EXCEPT ![erasing.org] = None]
  /\ erasing' = NoErasing
  /\ UNCHANGED <<adapter, registry, minted, loose>>

\* A storage fault, or the end of the process.
Abandon == erasing.phase # "idle" /\ erasing' = NoErasing /\ UNCHANGED <<adapter, tables, loose>>

Administer ==
  /\ \/ \E o \in Org : DeleteAtOnce(o) \/ BeginDeletion(o) \/ \E a \in BOOLEAN : SetActive(o, a)
     \/ ScanSlugs \/ EraseOrganization \/ Abandon
     \/ \E s \in Slug : EraseSlug(s)
  /\ outcome' = Silence
  /\ UNCHANGED call

Next == (\E c \in Call : Serve(c)) \/ Administer

Spec == Init /\ [][Next]_vars
---------------------------------------------------------------------------
(***************************************************************************)
(* Properties.                                                             *)
(***************************************************************************)
\* Every organization holds the registration of its slug, however renames,
\* creations and the retries of both interleave, unless a deletion has erased
\* it (update_organization, provision_organization of the DynamoDB adapter).
SlugsGuarded ==
  adapter = "dynamodb" =>
    \A o \in Org : Exists(o) /\ o \notin loose => registry[organization[o].slug] = o

\* Two organizations have one slug only if a deletion that stopped half-way,
\* or overlapped a rename, has erased the registration of one of them.
SlugsUnique ==
  \A o, p \in Org :
    o # p /\ Exists(o) /\ Exists(p) /\ organization[o].slug = organization[p].slug =>
      adapter = "dynamodb" /\ {o, p} \cap loose # {}

Answers(c, a) == ~At(c, "idle") /\ outcome'[c] = a

\* Of several broken conditions the caller hears of the first, on DynamoDB as
\* with the statement order of SQLite: the creator's missing row is reported
\* only if the slug was free, and a taken slug of a rename only for an
\* organization that exists (classify_cancellation_reasons).
FirstConditionDecides ==
  [][\A c \in Call :
       /\ Answers(c, "reference") => Free(call[c].org, call[c].slug)
       /\ Answers(c, "conflict") /\ call[c].kind = "rename" => Exists(call[c].org)]_vars

\* docs/authorization.md: "Renaming persists the confirmed name and derived
\* slug together": when the rename has answered, the row has both.
RenamePersistsBoth ==
  [][\A c \in Call :
       Answers(c, "ok") /\ call[c].kind = "rename" =>
         /\ organization'[call[c].org].name = call[c].name
         /\ organization'[call[c].org].slug = call[c].slug]_vars

\* No two organizations have one slug.
NoSharedSlug ==
  \A o, p \in Org : o # p /\ Exists(o) /\ Exists(p) => organization[o].slug # organization[p].slug
============================================================================
