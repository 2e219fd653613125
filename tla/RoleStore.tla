----------------------------- MODULE RoleStore -----------------------------
(***************************************************************************)
(* The stored data behind administrator roles and the writes the storage   *)
(* adapters make to it, shared by AdminRoles (one atomic transaction) and  *)
(* DynamoRoles (several DynamoDB requests).                                *)
(***************************************************************************)
EXTENDS Integers

CONSTANTS
  User,          \* user ids, numbered in (created_at, id) order
  Client,        \* concurrent runs of the administration command line
  Organization,  \* organization ids
  NoRequest      \* the request of a client that has none

ASSUME UserIsOrdered == User \subseteq Nat

VARIABLES
  life,          \* "unborn": not provisioned yet, "live": has a row, "gone": row deleted
  role,          \* application_role of a live user
  status,        \* UserStatus; no code path changes it after creation
  orgs,          \* organizations that have a row
  auditBalance,  \* grant events minus revoke events on record for a user
  expunged,      \* history: users some of whose role events a deletion has erased
  request        \* the transition each client asked for

data == <<life, role, status, orgs, auditBalance, expunged>>

Role == {"admin", "user"}
Request == [user : User, to : Role, anchor : Organization]

\* The record type of the stored data and of the requests.
StoreTypeOK ==
  /\ life \in [User -> {"unborn", "live", "gone"}]
  /\ role \in [User -> Role]
  /\ status \in [User -> {"active", "disabled"}]
  /\ orgs \subseteq Organization
  /\ auditBalance \in [User -> Int]
  /\ expunged \subseteq User
  /\ request \in [Client -> Request \cup {NoRequest}]

IsActiveAdmin(u) == life[u] = "live" /\ role[u] = "admin" /\ status[u] = "active"
ActiveAdmins == {u \in User : IsActiveAdmin(u)}

\* Any population, administrators and disabled users included; whoever is an
\* administrator already has one grant on record.
StoreInit ==
  /\ life \in [User -> {"unborn", "live"}]
  /\ role \in [User -> Role]
  /\ status \in [User -> {"active", "disabled"}]
  /\ \A u \in User : life[u] = "unborn" => role[u] = "user" /\ status[u] = "active"
  /\ orgs = Organization
  /\ auditBalance = [u \in User |-> IF role[u] = "admin" THEN 1 ELSE 0]
  /\ expunged = {}
  /\ request = [c \in Client |-> NoRequest]
---------------------------------------------------------------------------
\* grant_administrator (to = "admin") or revoke_administrator (to = "user"):
\* the user and an organization to anchor the audit event are resolved first.
Ask(c, u, to, o) ==
  /\ life[u] = "live"
  /\ o \in orgs
  /\ request' = [request EXCEPT ![c] = [user |-> u, to |-> to, anchor |-> o]]
  /\ UNCHANGED data

\* Only the demotion of an ACTIVE administrator is guarded.
Guarded(r) == r.to = "user" /\ status[r.user] = "active"

\* expected_role is the role a request does not ask for: the vocabulary is
\* closed, so the compare-and-set holds iff the user is live in another role.
\* Mutant of CasHolds: the update forgets application_role = :expected_role.
CasOnlyExists(r) == life[r.user] = "live"
CasHolds(r) == life[r.user] = "live" /\ role[r.user] # r.to

\* What is left on record of a user with erased events says nothing, and is
\* not followed: see EraseEvents.
WriteRoleAndAudit(r) ==
  /\ role' = [role EXCEPT ![r.user] = r.to]
  /\ auditBalance' = IF r.user \in expunged THEN auditBalance
                     ELSE [auditBalance EXCEPT ![r.user] =
                             @ + (IF r.to = "admin" THEN 1 ELSE -1)]
  /\ UNCHANGED <<life, status, orgs, expunged>>
---------------------------------------------------------------------------
\* First login of a new user: role USER, status ACTIVE.
ProvisionRow(u) ==
  /\ life[u] = "unborn"
  /\ life' = [life EXCEPT ![u] = "live"]
  /\ role' = [role EXCEPT ![u] = "user"]
  /\ status' = [status EXCEPT ![u] = "active"]
  /\ UNCHANGED <<orgs, auditBalance, expunged>>

\* Organization deletion erases organizations and the users that were members.
\* One SQLite transaction erases both; the DynamoDB adapter deletes item by
\* item, so either set may be empty.
EraseRows(lost, erased) ==
  /\ lost \subseteq orgs
  /\ \A u \in erased : life[u] = "live"
  /\ orgs' = orgs \ lost
  /\ life' = [u \in User |-> IF u \in erased THEN "gone" ELSE life[u]]
  /\ UNCHANGED <<role, status>>

\* It also erases the events about the users erased and all events anchored in
\* the organization, those about users who have left it and keep their roles
\* included.  Who has events where is not modelled, so anyone may lose some.
EraseEvents(us) ==
  /\ expunged' = expunged \cup us
  /\ auditBalance' = [u \in User |-> IF u \in us THEN 0 ELSE auditBalance[u]]
===========================================================================
