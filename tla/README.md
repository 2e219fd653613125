# A TLA+ model of feednow-auth

feednow-auth is a multi-tenant identity and access service: people sign in
through an external identity provider, belong to organizations, manage members
and API keys, and application administrators run the whole. Its logic sits in
`src/src/app/services`, `src/src/app/auth` and `src/src/app/api`; its state sits in a storage contract
(`src/src/app/storage/contract.py`) with two adapters, SQLite and DynamoDB.

The program keeps no state between requests except in storage
and in a cache of token keys, and a request makes several storage calls. So everything that is hard about it lies in
*what other requests do between two storage calls of one request*, and in what
is left when a request stops half way. SQLite makes each storage operation one
transaction. DynamoDB makes some of them several requests, reads some of them
through indexes that lag, and lets a cancelled transaction be retried. The
modules below model requests at that grain: **one action per storage call**
(SQLite) **or per DynamoDB request** (DynamoDB).

## 1. Inventory

| Component | State | Operations | What is hard | What makes it correct | Where |
|---|---|---|---|---|---|
| Application roles (`services/administration.py`, `transition_application_role`) | `users.application_role`, audit log | grant, revoke | DynamoDB checks one *witness* instead of counting administrators; retries; lagging index; audit anchor deleted meanwhile, audit events erased | a demotion never leaves no active administrator; role and audit agree until a deletion erases events; both adapters behave as one atomic transition | `RoleStore`, `AdminRoles`, `DynamoRoles` |
| Organization access (`auth/organization_access.py`, `services/authorization.py`) | none of its own | fetch organization, fetch membership, classify, audited denial, unaudited refusal of unknown organizations | decision and effect are separate storage calls | decisions rest on what was read within the call | `OrganizationAccess` |
| Members (`services/member.py`, `api/members.py`) | memberships, audit log | add, remove | the owner guard is read before the delete; the audit follows the commit | owners stay; the audit log accounts for every membership | `Members` |
| API keys (`services/api_key_service.py`, `auth/api_key_auth.py`, `scope_access`) | keys | create, revoke, present | revocation, suspension, creation and use race | revocation is final and stays in the tenant; an accepted key was current during the call | `ApiKeys` |
| Organization lifecycle (`api/admin.py`, `admin_*_organization`) | organization status | suspend (with a sweep of keys), reactivate, delete | DynamoDB goes item by item and may stop | a successful suspension has revoked what it owed; a deletion leaves no subject with two users, no user without workspace, no session that serves a user who is gone | `ApiKeys`, `Accounts`, `Organizations`, `SignIn` |
| Identity and provisioning (`services/identity.py`, `provision_user`) | users, identities, uniqueness records, personal organizations | look up, provision, converge, choose a context | first logins race each other and deletions; stale hints; lagging index | one user per subject; a login answers with the live user of its subject | `Accounts` |
| Organization creation and rename (`services/organization.py`, `api/organizations.py`) | organizations, slugs, the registrations of slugs | create, rename, availability check | the slug is read before it is replaced; conflicts are retried; deletions erase registrations by key | slug and registration move together; two organizations share no slug | `Organizations` |
| Cancelled transactions (`classify_cancellation_reasons`) | none | classify | several conditions fail at once | the first failure in submission order decides | `Organizations` (`Verdict`) |
| Pagination (`models/pagination.py`, `_query_matches`, `_admin_scan`, SQLite's keyset queries) | the client's cursor | the pages of a list | rows change between two pages, and on DynamoDB between two reads of one page | nothing that stays is skipped, nothing is shown twice | `Listing` |
| OAuth login and sessions (`api/oauth.py`, `auth/session.py`, `api/session_support.py`, `auth/dependencies.py`) | login states, sessions, two cookies | log in, call back, verify, CSRF check, log out | a state presented twice; lost replies; expiry, exact and rounded; users deleted meanwhile; two look-ups of one session in one request | a state serves once; a session serves its living user until it expires; writes carry the token of their session; every callback is answered | `SignIn` |
| Cognito tokens and keys (`auth/cognito.py`, `auth/jwks.py`, `auth/cognito_triggers.py`) | cached keys and key sets, accounts of the pool | verify, fetch keys, fetch the profile, register, map claims | rotation under cached sets; key ids of different issuers; facts about an address read at different times | an accepted token is its own issuer's; no published key is called unknown; a first login has a verified address | `Tokens` |
| Internal tokens (`auth/tokens.py`) | none | issue, verify | two chains of tokens side by side; two kinds of role with common names | roles are those the issuer was asked for | `Tokens` |
| Migrations (`_ensure_schema`, `_apply_migration`) | schema and its version stamp | open | processes open one file at once and stop anywhere | the stamp tells the schema; no statement is run twice | `Migrations` |

Components interact through storage only (threads that verify tokens share the key cache): there are no callbacks, queues or
background jobs. An access decision precedes every member and key operation;
a suspension writes what the access decision reads; a deletion removes what
logins, sessions, renames, role transitions and access decisions read.
`Accounts` shows a login in its storage calls; `SignIn`, where a login is one
step of a callback, takes over what it can answer (`Resolves`).

## 2. Modules

    RoleStore <- AdminRoles              OrganizationAccess <- Members <- MembersProofs
    RoleStore <- DynamoRoles             OrganizationAccess <- ApiKeys <- ApiKeysProofs
                 DynamoRoles --refines--> AdminRoles
                 DynamoRoles <- DynamoRolesProofs           Accounts <- AccountsProofs
    Tokens <- TokensProofs               SignIn <- SignInProofs
    Organizations <- Listing <- OrganizationsProofs         Migrations <- MigrationsProofs

An arrow reads "is extended by". `MC*` modules give each of `DynamoRoles`,
`Members`, `ApiKeys`, `Accounts`, `SignIn`, `Tokens`, `Migrations` and
(`MCOrganizations`) `Listing` a small instance; the `.cfg` files pick what is checked.

**RoleStore, AdminRoles, DynamoRoles.** `AdminRoles` is the contract: a role
transition is one atomic step (`NotFound`, `NoChange`, `RefuseLastAdmin`,
`RejectMissingParent`, `Commit`, `StorageFailure`). It is also, step for step, what
the SQLite adapter does under `BEGIN IMMEDIATE`. `DynamoRoles` is the other
adapter: `ReadTarget` (GetItem), `QueryAdmins` (the index `by-application-role`),
`Commit` (TransactWriteItems: witness check, compare-and-set, audit put, parent
check), `Conflict` (the retry, at most `MAX_TRANSACTION_ATTEMPTS`), `ResolveMiss`,
`ReadBack`. `RoleStore` holds the rows and the writes both share. The index is a
variable of its own that `Propagate` brings up to date one entry at a time.
`auditBalance` counts grants minus revokes on record.
Provisioning and deletion appear as the steps by which a user's row comes and goes, and by which audit
events go: deleting an organization erases the events about its members *and* every event anchored in it
(`sqlite.py:1422`, `dynamodb.py:1432`). A role event is anchored in the user's earliest active organization at the time, which the
user may have left since; then the user stays, an administrator perhaps, without the event. Which events are where is not modelled: `EraseEvents` may
take events of anybody (`EraseEvent` on DynamoDB, item by item; `staying` in the atomic `Erase`), and `expunged` is
history, the users it has happened to.

**OrganizationAccess, Members, ApiKeys.** `phase[c]` is the storage call that slot
`c` makes next; `request[c]` what it was asked; `seenStatus` and `found` what it
has read and not yet used. `held` and `current` are history variables that say what
was true at some instant since the call began. An organization may be one nobody knows (`Known`): access to it is refused
without an audit event (`RefuseUnknown`), and its suspension is not found (`SuspendUnknown`). `balance` and `unaudited` count
audit events on record and lost. `Fail` ends a call at any point: a storage
fault, or the end of the process. In `ApiKeys`, `adapter` is chosen once; on SQLite a suspension is
`SuspendAtOnce`, on DynamoDB it is `DisableOrganization`, `ScanKeys`, `SweepKey`*,
`SweepDone`.

**Accounts.** `login[c]` and `deletion[d]` are records of calls in progress. A
user, its identity and its personal organization share an id, because they are
minted together; `guard[s]` is the uniqueness record of a subject. On SQLite a
lookup and a deletion are one step each. On DynamoDB a lookup is `ReadGuard` and
`ReadUser`, organizations are listed from `indexed` and read back, and a
deletion is `Suspend`, three scans, and deletes item by item in the code's
order (users, identities, uniqueness records, memberships, organization).
`Environment` is what members and suspensions do, seen from here.

**Organizations.** `call[c]` is a request with the storage call it makes next.
A creation is `AskCreate`, `ReadContext`, `Create`; a rename on SQLite `Ask`,
`Authorize`, `Update`, on DynamoDB `Ask`, `Authorize`, `ReadSlug` and then `UpdateName` or
`UpdateSlug`, according to the slug that was read. `Write` is the shape all
transactions have: the commit (whose reply may be lost on DynamoDB), the first
broken condition (`Verdict`, which is `classify_cancellation_reasons`), a
fault, a conflict and another attempt. `registry` is the part of
`unique_constraints` that guards slugs. A deletion on DynamoDB is
`BeginDeletion`, `ScanSlugs`, `EraseSlug`, `EraseOrganization`; `loose` is history:
the organizations whose registration a deletion has erased.

**Listing** extends it with one list a client follows from the first page to the
last: `PageAtOnce` on SQLite, on DynamoDB `StartPage`, then `QueryBatch`* and `ReadBack`
(a user's organizations, over the lagging index) or `ScanSegment`* and `SortPage` (the
administrator's search). Everything else goes on between these
steps. A page is kept as the set of what it shows, because the handlers sort a page when they build
it; `list.returned` is the sequence of the pages. `list.stable` is history: what the list had to show
in every state since it began.

**SignIn.** One person, one browser with two cookies, and their
callbacks `visit[v]` and other requests `request[r]`. A callback is `Arrive`, `Consume`, `Exchange`,
`VerifyToken`, `Resolve`, `Issue`, with `Conflicts` for the retries of the two
conditional writes. A request is `Send`, `EnforceCsrf` (the middleware), then `CurrentSession`,
`ReadUser`, `BuildContext` (three reads) or `ResolveToken`. `World` deletes
the person's user (at once on SQLite, sessions last on DynamoDB), sweeps rows up to half a second
early, lets the index catch up; `Redeploy` changes the allow-list of return URLs.
Users are numbered: the same person signing in after a deletion is another user, and an
old session must not serve the new one. `began` and `living` are history: the time of the request
and the user who existed then.

**Tokens.** A verification is `Present` (checks that need no key), `LookupKey`, `Fetch` (once more if
the set that arrived lacks the key),
`Decode`, and for unknown callers `FetchProfile`; or `PresentInternal` and `VerifyInternal`. `jwks[i]` is
the key client of issuer `i`, shared by all threads of the process. `SignUp`, `Confirm` and `MapClaims` are the pool's triggers,
`Rotate` is what issuers do. `handle_pre_sign_up` asks a Google account for Google's proof of its address (`custom:g_verified`) and asks nothing
about the proof of other accounts, and `cognito.py:692` accepts the proof whoever has it; its comment says that the claim "is populated only by
the configured Google mapping". That is a property of the pool's configuration, so it is a constant, `ProofIsGoogles`, and an assumption the reader
sees: where it is `TRUE` only Google accounts come with a proof, where it is `FALSE` any account may. (Both
`deploy/aws/feednow_aws_operator.py:301` and the fix provider of `deploy/aws/cdk` add the attribute to those the client may write, because a mapping needs that.) `gap` is history: whether the key was unpublished at some instant of the call.

**Migrations.** `stamp` and `shape` are the committed file, `draft` what the process in the write
transaction (`writer`) would commit. A new file gets its tables in statements committed one by one
and its stamp last (`CreateTable`); an old file is migrated in one transaction (`Begin`, `Recheck`, `Migrate`*,
`Commit`). `Stop` may come anywhere.

### Abstractions to know of

- Text, times, ids and pages are model values or small numbers. `created_at` order is the order of ids.
- Membership status is always ACTIVE, because no code path writes anything else. User status never
  changes after creation; in `SignIn` a user may be disabled from the beginning, because the code
  checks for it.
- An API key's `expires_at` is not modelled; every key is one without expiry.
- In `Accounts` a user's e-mail, the profile and the token are one choice: verified or not. How a
  profile comes to be verified is in `Tokens`.
- `Members` has no deletion of organizations: that takes all its memberships away without `membership.removed` events, and the
  audit events with them. `OwnersFixed` and `AuditExplainsMembership` speak of organizations while they are there.
- In `Accounts` an organization is the personal one a user is provisioned with;
  organizations created later are in `Organizations`, where the personal organization of a first login is one whose
  name is not confirmed. Each deletion is seen from the component that may be hurt: users, identities and memberships in
  `Accounts`, registrations in `Organizations`, sessions in `SignIn`.
- The application administrator is outside `Subject` in `Accounts`.
- The owner check before suspension is modelled in `ApiKeys` (`RefuseOwner`); deletion makes the
  same check and does not repeat it elsewhere.
- A return URL is its origin (or the service's own path); a search is the set of names it matches;
  a signature is the key that made it.
- `Migrations` assumes that all processes run one release. An older release that opens a file while
  a newer one migrates it would, after `Recheck`, go on with a schema it does not know.

## 3. What is checked

Bounds are small on purpose: the hazards are races of two calls, so two calls
in progress, and one more party than a call can name, are where they show.

| Run | Instance | Checks |
|---|---|---|
| `dynamo_roles` | 3 users (target, witness, another), 2 clients, 1 organization, 2 attempts, at most one user erased, or events of one who stays erased beside one call at a time, one index entry lagging, one client at its last attempt | `TypeOK`, `AuditExplainsRole`, `WitnessIsAnother`, `DemotionLeavesAdmin`, `ImplementsAtomic` (refinement of `AdminRoles`) |
| `members` | 1 organization or an id nobody knows, 3 users, 2 calls; at most one lost audit event, net, of one user's membership | `TypeOK`, `AuditExplainsMembership`, `DecisionIsFresh`, `OwnersFixed` |
| `api_keys` | 2 organizations, or one and an id nobody knows, 2 users, 2 keys (one of them to be created), 2 calls, both adapters | `TypeOK`, `RevocationIsFinal`, `RevokedWithinTenant`, `SuspensionSweeps`, `AcceptedIsCurrent` |
| `accounts` | 2 subjects, 3 provisioning attempts (one more than subjects, so that one can be provisioned again once a deletion has begun), 2 calls at a time, one deletion, one index entry lagging | `TypeOK`, `UserIsGuarded`, `UserHasWorkspace`, `LockoutOnlyAfterFailure`, `AnswersLiveUser` |
| `sign_in` | both adapters, 1 login state, 2 callbacks, 1 request, 2 users (one before and one after a deletion), a clock of 2 ticks with states that live 1 and sessions that live 2, 2 attempts, 2 allow-lists | `TypeOK`, `StateServesOnce`, `SessionsAreKept`, `ServedBeforeExpiry`, `ServedToLivingUser`, `WritesCarryToken`, `CallbackIsAnswered` |
| `organizations` | both adapters, 2 organizations and one to come, 3 names (one without a slug), 3 slugs; two calls, or a call and a deletion, or a list and whatever goes on beside it; 2 attempts; pages of 1 and 2, index batches of 1, one index entry lagging; a list is followed to its end once | `TypeOK`, `SlugsGuarded`, `SlugsUnique`, `NothingMissed`, `NothingTwice`, `FirstConditionDecides` |
| `tokens` | 3 issuers of whom 2 are allowed and share a key id, 2 key ids, 8 tokens with one defect or several, 2 threads, a clock of 2 ticks, life times of 1 tick, 1 token of the service; `ProofIsGoogles` is `TRUE` | `TypeOK`, `AcceptedIsGenuine`, `UnknownMeansUnpublished`, `OwnRolesWereAsked`, `ProvisionedIsVerified`, `VerificationEnds` |
| `migrations` | 3 processes, the 5 versions of the repository with their 8 statements, files with no stamp, every older stamp, the latest and one unknown; 2 session tables; the thirteen statements that create a new file are three in the instance: users, organizations, everything else (the theorems have any `Fresh`) | `StampTellsShape`, `NoStatementFails` |

The state constraints (`Bounded` in the MC modules) say which things may go on at the same time. They leave out
combinations of which one part cannot touch the other's state, for example a check of a slug beside a rename.
In `members` and `api_keys` requests that are refused in any state (an unknown user or organization, the role nobody may grant, the owner as a
target, a key on a route for humans, the owner's own suspension, a key of another tenant that never changes) are made with no other call in progress. In `dynamo_roles`, `members`, `api_keys` and `tokens` a call that has
changed nothing is not followed beyond its answer (`Effective`): what can happen next is what can happen without it. In `organizations`
the changes beside a user's list are those of memberships and the deletion of the organization in the middle of it; names and slugs mean nothing to that
list. In `tokens` the second thread has a token of the issuer's next key. The safety properties have no such limits where they are proved.

What these show:

- `DemotionLeavesAdmin`: even two demotions that name each other as witness
  cannot both commit, because the transaction checks the witness's role *now*.
  How stale the index is does not matter for safety.
- `ImplementsAtomic`: nobody can tell the DynamoDB protocol from one atomic transition by
  its effects and answers, except for the refusal (see findings). The mapping
  ends the call at the commit: `readback` is already answered.
- `OwnersFixed` holds although the guard and the delete are two calls, because no
  operation makes anyone an owner in between. Add an operation that does, and
  it breaks.
- `AuditExplainsMembership` says exactly what the documented limitation costs:
  an audit event is lost only for a call that ended between write and audit.
- `DecisionIsFresh` and `AcceptedIsCurrent` state what a decision on separate reads is worth:
  not that access is held when the effect happens, but that it was held at some instant of the call.
- `SuspensionSweeps`: a suspension that answers 204 has revoked every key that was
  active when the organization was disabled.
- `UserIsGuarded` and `UserHasWorkspace` hold with one deletion at a time, however it is cut
  off; they do not survive two (see findings).
- `AuditExplainsRole` holds for every user about whom no deletion has erased an event, and is not claimed of others: deleting the
  organization a grant is anchored in erases the grant of an administrator who has left it and stays one.
- `SessionsAreKept`: a session is taken away in the tick of its expiry or when its user is gone, and in no other case.
  The deletion finds the sessions of a user before it deletes the user, and deletes sessions after users; what it deletes last, perhaps after the
  person has come back, are sessions of the user who was.
- `StateServesOnce`: the conditional delete is what makes a state serve once; neither
  expiry nor sweeping nor a lost reply lets a second callback through.
- `ServedToLivingUser`: sessions that a deletion leaves behind, or that are issued to a user
  who is deleted a moment before, serve nobody, because the user is read on every request and ids are never used again.
- `WritesCarryToken`: the middleware lets an unsafe request pass unchecked if it finds no live session, and
  the endpoint looks the session up once more. That is sound only because a session once dead stays dead
  and a cookie names a session that already exists.
- `CallbackIsAnswered`: retries end, so that a callback does.
- `SlugsGuarded`: the old registration is given up and the new one taken in the transaction that
  rewrites the row, on the condition that the row still has the slug that was read. `SlugsUnique` says what a
  deletion that stops can cost, and nothing else does.
- `NothingMissed` and `NothingTwice`: the cursor is the last item *returned*, so that rows that come and go do not move it.
- `AcceptedIsGenuine` depends on one key client per issuer and on the check of the expiry after the key has been waited for; `UnknownMeansUnpublished` on the second fetch.
- `ProvisionedIsVerified`: whichever of the pool, Google's proof and the profile is read first, the address was verified by one of them.
  That the proof is Google's, and of a Google account, is claimed where the pool guarantees it (`ProofIsGoogles`).
- `StampTellsShape`: the stamp is written last in a new file and with the last statement's transaction in an old one.

Every property also has a plausible bug (`Mutant of ...` in the modules) that breaks it.

**Fairness** is assumed in two places, for the steps of a callback that has begun (`SignIn.Fairness`) and of a
verification that has begun (`Tokens.Fairness`), as weak fairness of the handler's steps taken together. The code
justifies it: a handler waits for nothing but its own storage and HTTP calls, each of which has a timeout and ends in
an answer or an exception, and no handler holds a lock another one waits for across such a call. Nothing is assumed of users,
administrators, the clock, the sweeper, an index or an issuer: they may do nothing for ever. All other properties are safety
properties. A behaviour that leaves a state constraint is not followed any further, so the liveness properties speak of
the behaviours within it.

**Deadlock** is checked in `dynamo_roles`, `members`, `api_keys` and `migrations`. In `accounts`, `sign_in`,
`organizations` and `tokens` it is not, because there user ids, login states, callbacks, organization ids or the
clock run out: bounds of the model, not of the program.

### Findings

Each is a run that TLC must find violated, on the instance of the passing run of its component.

| Run | Property | What happens |
|---|---|---|
| `api_keys_suspended` | `SuspendedHasNoActiveKey` | A key creation authorized before a suspension inserts an active key after it. |
| `accounts_context` | `ContextIsActive` | The default context is the earliest organization, suspended or not. |
| `organizations_rename` | `RenamePersistsBoth` | A DynamoDB rename that finds its slug in place writes the name alone. Raced by a rename to another slug, it leaves the name of the one with the slug of the other. |
| `organizations_deletion` | `NoSharedSlug` | A DynamoDB deletion that stops after erasing the registration of a slug leaves the organization without it, and the next creation takes the slug a second time. |

The models also show, without a run of its own in the present set:

- The witness of a demotion is the *first* entry of a lagging index. If it is stale, the demotion is
  refused as "last administrator" although another is listed second (`DynamoRoles.QueryAdmins`).
- A removal audits the role it read, not the role it removed, when the membership was removed and
  granted anew in between (`Members.DeleteMembership`).
- Two overlapping DynamoDB deletions of one organization: the slower one deletes the uniqueness record of a user
  who has registered anew, and the subject's next login makes a second user (`Accounts`, with two operators).
- With a lagging index, a first login is refused although it has just provisioned its user (`Accounts`, `SignIn.Resolves`).
- A rename that lost a race for its own slug is answered "organization not found"
  (`UpdateSlug`, `dynamodb.py:2035`); `contract.py:434` promises that answer for a missing organization.
- A request with a bearer token is still subject to the CSRF check if it carries the cookie of a live session
  (`SignIn.EnforceCsrf`), where `docs/sessions.md` says "Bearer-token requests do not use this cookie check."
- In the session branch a user without a listed organization is an untranslated error, a 500 (`SignIn.BuildContext`), where
  the bearer branch answers 403.

## 4. What is proved

The proofs are for every value of the constants, under the named assumptions of the modules.

**`DynamoRolesProofs`**: any number of users, clients, organizations and attempts.
Assumes `UserIsOrdered` (ids are numbers, which stand for the sort order),
`MaxAttemptsIsPositive`, `NoWitnessIsNoUser`. The inductive invariant adds to
`TypeOK` what each phase knows: a call in `guard` wants to demote, a call in
`commit` has, if guarded, a witness other than its target, a call between requests
has no witness and no attempt. From it follow `TypeCorrect`,
`WitnessCorrect`, `AuditCorrect` (for users without erased events), `DemotionSafe`, and `Implementation` (`ImplementsAtomic`): initial states map to
initial states, and each action maps to the abstract action of its name or a
stutter. The argument for `DemotionSafe` is the one the code rests on: a commit that
demotes an active user holds a witness that is another user and, by the
transaction's check, an active administrator in the same state.

**`MembersProofs`**: any number of users, organizations and calls (finite, `CallIsFinite`), a
stranger that is no user. `TypeCorrect`, `FreshCorrect` (`DecisionIsFresh`) and
`OwnersStay` (`OwnersFixed`). The strengthening records what a phase has established: past the
organization read, `seenStatus = "active"` implies that the organization has been active; past
the decision, the actor has been an administrator; a call in `delete` is a
removal whose target is not an owner; and a call in `audit` that adds does not add an owner.

**`ApiKeysProofs`**: any number of users, organizations, keys and calls, both adapters; no
assumption. All properties of the run are proved: `TypeCorrect`, `RevocationIsForever`,
`RevokedByTenant`, `SuspensionsSweep`, `AcceptedWasCurrent`. The inductive invariant is what one
call *knows* at each phase (`Knows`): a call about to revoke has seen the key in its organization; a
suspension that sweeps finds each key it owes either still in its list or revoked. Other
calls cannot take that knowledge away because keys only *age* (`KeysAge`: no key becomes
absent, changes organization or comes back from revocation). So each action has one lemma (`...IsLocal`:
it keeps types, ages keys, leaves the other calls alone and establishes what its own call
knows next), and one lemma carries the knowledge of the others (`OthersKeep`).

**`OrganizationsProofs`**: any organizations, names, slugs, calls and attempts, both adapters. Assumes
`SlugsAreDerived`, `InitialIsRegistered` (the initial organizations have different slugs), `SomeAttempts`,
`NoneIsNothing`. `TypeCorrect`, `SlugsAreGuarded` (`SlugsGuarded`), `SlugsAreUnique` (`SlugsUnique`), and
`FirstDecides` (`FirstConditionDecides`). What
makes it inductive: `HoldsOneSlug` (a registration of an organization that exists is that of its slug, so that giving up
the old slug cannot rob anybody else), `HoldersExisted` (an id to come holds nothing), and `IndexIsUnique` for
SQLite. `VerdictOfTwo` and `VerdictOfThree` say what it means that no condition of a transaction has failed.

**`MigrationsProofs`**: any processes, versions, statements and initial stamps. Assumes `VersionsAreOrdered`,
`FreshIsComplete` (a new file gets everything the migrations bring), `FoundIsVersion`, `SomeAdditional`,
`NoneIsNobody`. Both properties of the run, `StampsTell` and `StatementsSucceed`. The invariant is what each process
relies on in each phase (`Relies`): above all, that one which migrates is *the* writer, and has in its draft
exactly the parts of its version and the statements done since.

**`SignInProofs`**: any login states, callbacks, requests, users, life times, attempts and
allow-lists, both adapters. Assumes `BoundsArePositive` and `NoneIsNobody`. `TypeCorrect` and all safety
properties of the run: `ServesOnce`, `SessionsStay`, `BeforeExpiry`, `ToLivingUser`, `CarryToken`. The invariant says of a
request what it has found out about its session (`Holds`), in words that stay true while the world moves on
(`Progress`: time and user numbers grow, a user who has gone does not come back, an answered callback stays answered and
its session can only go). `Belongs(u, q)` is the heart of `ToLivingUser`: the user of a session cannot have
come to be since request `q` arrived. `SessionsStay` needs a second invariant, `ErasingInv`: the sessions a deletion has
found are sessions of callbacks that are over (`Over`) and, while they have a row, of the user it deletes, and by the time it
erases them that user is gone (`Gone`) for good (`GoneForGood`). For `CarryToken` the lemma is `SessionsEnd`: a session that does not
verify never will, which closes the gap between the middleware's look at the session and the endpoint's.

**`TokensProofs`**: any issuers, keys, clients, tokens, accounts, life times and threads. Assumes `AllowListsAreLists` (the
service is no issuer and no client), `TokensAreForeign` (tokens presented from outside are not signed with the service's key),
`KeysArePublished`, `BoundsAreNatural`, `ProofIsGooglesOrNot`, `NoneIsNothing`. All safety properties of the run: `TypeCorrect`, `Genuineness`
(`AcceptedIsGenuine`, the expiry included: `AcceptsInTime` finds every step that accepts in the checks of `Decode`), `KeysAreFound` (`UnknownMeansUnpublished`), `RolesAreThoseAsked` (`OwnRolesWereAsked`),
`AddressesAreVerified` (`ProvisionedIsVerified`). The invariant: a client knows of an issuer only what that issuer has published
(`Sound`); Google's proof is kept of Google accounts only, if `ProofIsGoogles` (`AccountInv`; the theorems hold for both values); a verification knows in each phase what it
has checked (`Knows`), and while it looks for a key, that the key is published or has been missing during the call. `Checked` says
what a list of checks means; `Steps`, that every step keeps the invariant and gives only answers it can justify (`Justified`), from which
the four theorems about steps follow.

**`AccountsProofs`**: any subjects, logins and deletions in progress, and any bound on users. Assumes `BoundIsNatural`. With
any number of deletions at a time: `TypeCorrectness`, `WorkspaceIsKept` (`UserHasWorkspace`), `LockoutIsAFailure`
(`LockoutOnlyAfterFailure`) and `AnswersAreLive` (`AnswersLiveUser`). The inductive invariant `IInv` says of every id that has no
row yet (`Fresh`) that nothing names it, so that a provisioning batch cannot collide with anything (`FreshIsNew`,
`BatchesDiffer`); of a deletion that it deletes of a user whatever it deletes only after the user (`DeletionSound`,
which is the order of deletes in `admin_delete_organization`); of a login that the user it has found was minted for its
subject (`LoginSound`), since the record it read may have gone meanwhile. `LoginWaits`, `DeletionWaits` and `RowsGo` carry what a call relies
on over the steps of the others. `OneSubjectOneUser` (`UserIsGuarded`) has the hypothesis
`[]OneAtATime`, that no two deletions are in progress at once, and needs a second invariant (`IInvOne`): a uniqueness record a deletion is going
to delete names a user it has deleted before. The hypothesis is necessary: of two overlapping deletions the slower one deletes by key
the record of a user who has come since (see findings). The run satisfies it by having one operator.

**`MembersProofs`** also has `AuditCorrect` (`AuditExplainsMembership`). The property is inductive once it is known what a call between
its write and its audit append has done; the work is in the cardinalities of those calls (`CallIsFinite`).

**`OrganizationsProofs`**, second part: the lists, for any page sizes, batch sizes, searches and finite sets of organizations
(`OrgsAreOrdered`, `QueriesMatchNames`, `SizesArePositive`), both adapters. `NothingIsMissed` (`NothingMissed`) and `NothingIsTwice`
(`NothingTwice`). The inductive invariant `ListInv` says of the pages that they have shown everything that was there
throughout up to the cursor, and nothing beyond it (`PagesSound`); of the page being collected what it may still lack: on the index nothing
up to the position the next query resumes from, in a scan only what is in the segments to come, and once a page is built only
what comes after all of it (`ReadingSound`, `Complete`). `NextPageKeeps` is the argument for the probe of one item more than the limit:
either the page is full, and what it lacks lies behind its last item, which is the cursor; or it is the last one. `StableShrinks` is why changes
in between do no harm. About `First`, the first *n* of a set, `FirstIsInitial`, `FirstIsEnough`, `FirstIsBounded` and `FirstIsThere` say what a limited
query returns. `ListInvariance`, `SlugsBesideLists` and `FirstDecidesBesideLists` carry the first part over to `ListSpec`, the specification of the run.

With these every safety property of a passing run is proved, for the specification without the bounds of the run.
Only model-checked are the two liveness properties, `CallbackIsAnswered` and `VerificationEnds`: liveness under fairness is out of
the prover's reach.

## 5. Not modelled, and why

- **AWS runtime and deployment, Docker runtime** (`src/deploy`): infrastructure as code and the composition of the
  application at start; no state of their own that requests share.
- **HTTP surface** (`main.py`, `api/errors.py`, schemas): wiring and envelopes. The answers the models tell apart are its status codes.
- **Credentials and pepper**: stateless hashing; that a hash is compared with the stored one is part of `ApiKeys`.
- **Lists of members, keys and audit events**: the same keyset pages as `Listing` with other rows. A member whose user a
  deletion removed makes the list of members fail; that needs memberships across organizations beside a list.
- **Profile operations of users, encoding of rows and items, driver errors**: straight-line translation without interleaving of
  interest, except for a commit outside the `try` of a role transition (`sqlite.py:1158`), where the state of the driver's
  connection would have to be modelled.
- **An administrator's deletion of the organization of the last other administrator**: deletion has no guard of the
  role transition's kind; `DemotionLeavesAdmin` speaks of demotions only.

## 6. Plan

Done: roles and their refinement, tenancy, accounts, organizations with lists, login and sessions, tokens,
migrations. What is left, in this order:

1. What remains of `UserIsGuarded` when deletions overlap: which users may lose their record, and to whom.
2. The classification of callers (`OrganizationAccess`) as lemmas that `MembersProofs` and `ApiKeysProofs` share.
3. Termination of the retries of `DynamoRoles` under weak fairness of a client's own steps, with TLC.
