------------------------------ MODULE ApiKeys ------------------------------
(***************************************************************************)
(* The life of an API key: created and revoked by organization             *)
(* administrators (services/api_key_service.py), presented by services     *)
(* (auth/api_key_auth.py, scope_access in auth/organization_access.py),    *)
(* and swept when an application administrator suspends the organization   *)
(* (api/admin.py, admin_suspend_organization of both adapters).            *)
(*                                                                         *)
(* SQLite disables the organization and revokes its keys in one            *)
(* transaction.  DynamoDB disables it, scans the key table, then revokes   *)
(* the keys of the scan one by one, and may stop in between.               *)
(***************************************************************************)
EXTENDS OrganizationAccess

CONSTANTS
  Key,           \* ids and literals of API keys
  NoCall         \* nobody has revoked the key

VARIABLES
  adapter,       \* the storage adapter of this deployment
  keyStatus,     \* ApiKeyStatus, "absent" before creation
  keyOrg,        \* organization of a key, fixed at creation
  revokedBy,     \* whose revoked_at the key carries
  sweep,         \* active keys a suspension has scanned and not yet revoked
  owed,          \* history: active keys when a suspension disabled their organization
  current        \* history: keys that were active at some instant of the call

keys == <<keyStatus, keyOrg, revokedBy>>
vars == <<accessVars, adapter, keys, sweep, owed, current>>

HumanRequest == [op : {"create", "revoke"}, actor : User, org : Organization, key : Key]
\* "use" presents a key with the required scope, "misuse" one without it, and
\* "manage" presents a key on a route for humans.
KeyRequest == [op : {"use", "misuse", "manage"}, actor : {NoCall}, org : Organization, key : Key]
AdminRequest == [op : {"suspend"}, actor : User, org : Organization]
Request == HumanRequest \cup KeyRequest \cup AdminRequest

Phase == {"idle", "organization", "membership", "deny", "act", "cas", "audit",
          "verify", "key", "owner", "suspend", "scan", "sweep"}
Answer == {"none", "forbidden", "unauthorized", "not_found", "conflict", "created",
           "revoked", "accepted", "suspended", "error"}

\* Type invariant of the API-key life cycle.
TypeOK ==
  /\ AccessTypeOK(Phase, Request, Answer)
  /\ adapter \in {"sqlite", "dynamodb"}
  /\ keyStatus \in [Key -> {"absent", "active", "revoked"}]
  /\ keyOrg \in [Key -> Organization]
  /\ revokedBy \in [Key -> Call \cup {NoCall}]
  /\ sweep \in [Call -> SUBSET Key]
  /\ owed \in [Call -> SUBSET Key]
  /\ current \in [Call -> SUBSET Key]

ActiveKeys(o) == {k \in Key : keyStatus[k] = "active" /\ keyOrg[k] = o}

Init ==
  /\ AccessInit
  /\ adapter \in {"sqlite", "dynamodb"}
  /\ keyStatus \in [Key -> {"absent", "active"}]
  /\ keyOrg \in [Key -> Organization]
  /\ \A k \in Key : keyStatus[k] = "active" => orgStatus[keyOrg[k]] = "active"
  /\ revokedBy = [k \in Key |-> NoCall]
  /\ sweep = [c \in Call |-> {}]
  /\ owed = [c \in Call |-> {}]
  /\ current = [c \in Call |-> {}]
---------------------------------------------------------------------------
store == <<orgStatus, member>>
progress == <<request, seenStatus, answer>>

\* Mutant of Revoke: a status outside the vocabulary of keys.
RevokeAsDisabled(ks, c) ==
  /\ keyStatus' = [k \in Key |-> IF k \in ks THEN "disabled" ELSE keyStatus[k]]
  /\ revokedBy' = [k \in Key |-> IF k \in ks THEN c ELSE revokedBy[k]]
  /\ UNCHANGED keyOrg

\* Sets status and revoked_at of the keys ks.
Revoke(ks, c) ==
  /\ keyStatus' = [k \in Key |-> IF k \in ks THEN "revoked" ELSE keyStatus[k]]
  /\ revokedBy' = [k \in Key |-> IF k \in ks THEN c ELSE revokedBy[k]]
  /\ UNCHANGED keyOrg

End(c, a) ==
  /\ Finish(c, a)
  /\ sweep' = [sweep EXCEPT ![c] = {}]
  /\ owed' = [owed EXCEPT ![c] = {}]

AskHuman(c, r) ==
  /\ r \in HumanRequest
  /\ Begin(c, "organization", r)
  /\ UNCHANGED <<keys, sweep, owed>>

Authorize(c) ==
  /\ \/ phase[c] = "organization" /\ request[c].op \in {"create", "revoke"}
        /\ FetchOrganization(c, "membership")
     \/ CheckMembership(c)
  /\ UNCHANGED <<keys, sweep, owed>>

RefuseUnknown(c) ==
  /\ IsUnknown(c)
  /\ End(c, "forbidden")
  /\ UNCHANGED <<store, keys>>

\* Every denial is audited before the 403; if it cannot be, the call fails.
Deny(c) ==
  /\ phase[c] = "deny"
  /\ End(c, "forbidden")
  /\ UNCHANGED <<store, keys>>

\* The insert checks that the organization exists, not that it is active.
CreateKey(c) ==
  LET r == request[c] IN
  /\ phase[c] = "act"
  /\ r.op = "create"
  /\ UNCHANGED store
  /\ \/ keyStatus[r.key] # "absent" /\ End(c, "conflict") /\ UNCHANGED keys
     \/ /\ keyStatus[r.key] = "absent"
        /\ Goto(c, "act", "audit")
        /\ keyStatus' = [keyStatus EXCEPT ![r.key] = "active"]
        /\ keyOrg' = [keyOrg EXCEPT ![r.key] = r.org]
        /\ UNCHANGED <<revokedBy, progress, sweep, owed>>

\* Mutant of LookupKey: the tenancy of the key is not checked.
LookupAnyKey(c) ==
  LET r == request[c] IN
  /\ phase[c] = "act"
  /\ r.op = "revoke"
  /\ keyStatus[r.key] # "absent"
  /\ Goto(c, "act", "cas")
  /\ UNCHANGED <<store, keys, progress, sweep, owed>>

\* A key of another organization is not found.
LookupKey(c) ==
  LET r == request[c]
      mine == keyStatus[r.key] # "absent" /\ keyOrg[r.key] = r.org
  IN /\ phase[c] = "act"
     /\ r.op = "revoke"
     /\ UNCHANGED <<store, keys>>
     /\ \/ ~mine /\ End(c, "not_found")
        \/ mine /\ Goto(c, "act", "cas") /\ UNCHANGED <<progress, sweep, owed>>

\* Mutant of RevokeKey: the update is not conditional on status = active.
RevokeUnconditionally(c) ==
  /\ Goto(c, "cas", "audit")
  /\ Revoke({request[c].key}, c)
  /\ UNCHANGED <<store, progress, sweep, owed>>

\* First write wins: a revoked key keeps its revoked_at, and the call succeeds.
RevokeKey(c) ==
  /\ Goto(c, "cas", "audit")
  /\ Revoke({k \in {request[c].key} : keyStatus[k] = "active"}, c)
  /\ UNCHANGED <<store, progress, sweep, owed>>

AppendAudit(c) ==
  /\ phase[c] = "audit"
  /\ End(c, IF request[c].op = "create" THEN "created" ELSE "revoked")
  /\ UNCHANGED <<store, keys>>
---------------------------------------------------------------------------
Present(c, r) ==
  /\ r \in KeyRequest
  /\ Begin(c, "verify", r)
  /\ UNCHANGED <<keys, sweep, owed>>

\* Mutant of VerifyKey: the status of the key is not looked at.
VerifyAnyKey(c) ==
  /\ phase[c] = "verify"
  /\ keyStatus[request[c].key] # "absent"
  /\ Goto(c, "verify", "organization")
  /\ UNCHANGED <<store, keys, progress, sweep, owed>>

\* verify_api_key: unknown, wrong and revoked keys get the same answer.
VerifyKey(c) ==
  LET k == request[c].key IN
  /\ phase[c] = "verify"
  /\ UNCHANGED <<store, keys>>
  /\ \/ keyStatus[k] # "active" /\ End(c, "unauthorized")
     \/ /\ keyStatus[k] = "active"
        /\ Goto(c, "verify", "organization")
        /\ UNCHANGED <<progress, sweep, owed>>

FetchKeyOrganization(c) ==
  /\ phase[c] = "organization"
  /\ request[c].op \in {"use", "misuse", "manage"}
  /\ FetchOrganization(c, "key")
  /\ UNCHANGED <<keys, sweep, owed>>

\* scope_access: organization status, tenancy, scope; routes for humans refuse
\* every key.
CheckKey(c) ==
  LET r == request[c]
      granted == r.op = "use" /\ seenStatus[c] = "active" /\ keyOrg[r.key] = r.org
  IN /\ phase[c] = "key"
     /\ UNCHANGED <<store, keys>>
     /\ \/ granted /\ End(c, "accepted")
        \/ ~granted /\ Goto(c, "key", "deny") /\ UNCHANGED <<progress, sweep, owed>>
---------------------------------------------------------------------------
AskSuspension(c, r) ==
  /\ r \in AdminRequest
  /\ Begin(c, "owner", r)
  /\ UNCHANGED <<keys, sweep, owed>>

\* Application administrators cannot suspend an organization they own.
RefuseOwner(c) ==
  LET owns == member[request[c].org][request[c].actor] = "owner" IN
  /\ phase[c] = "owner"
  /\ UNCHANGED <<store, keys>>
  /\ \/ owns /\ End(c, "conflict")
     \/ ~owns /\ Goto(c, "owner", "suspend") /\ UNCHANGED <<progress, sweep, owed>>

SuspendUnknown(c) ==
  /\ phase[c] = "suspend" /\ ~Known(request[c].org)
  /\ End(c, "not_found")
  /\ UNCHANGED <<store, keys>>

\* SQLite: one transaction.
SuspendAtOnce(c) ==
  LET o == request[c].org IN
  /\ adapter = "sqlite"
  /\ phase[c] = "suspend" /\ Known(o)
  /\ orgStatus' = [orgStatus EXCEPT ![o] = "disabled"]
  /\ Revoke(ActiveKeys(o), c)
  /\ End(c, "suspended")
  /\ UNCHANGED member

\* DynamoDB: the organization first ...
DisableOrganization(c) ==
  LET o == request[c].org IN
  /\ adapter = "dynamodb"
  /\ Goto(c, "suspend", "scan")
  /\ Known(o)
  /\ orgStatus' = [orgStatus EXCEPT ![o] = "disabled"]
  /\ owed' = [owed EXCEPT ![c] = ActiveKeys(o)]
  /\ UNCHANGED <<member, keys, progress, sweep>>

\* Mutant of ScanKeys: the scan is not consistent and may miss keys.
ScanSomeKeys(c) ==
  /\ Goto(c, "scan", "sweep")
  /\ \E ks \in SUBSET ActiveKeys(request[c].org) : sweep' = [sweep EXCEPT ![c] = ks]
  /\ UNCHANGED <<store, keys, progress, owed>>

\* ... then a consistent scan ...
ScanKeys(c) ==
  /\ Goto(c, "scan", "sweep")
  /\ sweep' = [sweep EXCEPT ![c] = ActiveKeys(request[c].org)]
  /\ UNCHANGED <<store, keys, progress, owed>>

\* ... then one conditional update for each key of the scan.
SweepKey(c, k) ==
  /\ phase[c] = "sweep"
  /\ k \in sweep[c]
  /\ sweep' = [sweep EXCEPT ![c] = @ \ {k}]
  /\ Revoke({j \in {k} : keyStatus[j] = "active"}, c)
  /\ UNCHANGED <<store, phase, progress, owed>>

SweepDone(c) ==
  /\ phase[c] = "sweep"
  /\ sweep[c] = {}
  /\ End(c, "suspended")
  /\ UNCHANGED <<store, keys>>
---------------------------------------------------------------------------
\* A storage fault or the end of the process, at any point of a call.
Fail(c) ==
  /\ phase[c] # "idle"
  /\ End(c, "error")
  /\ UNCHANGED <<store, keys>>

\* Reactivation does not bring keys back.
Reactivate(o) ==
  /\ SetStatus(o, "active")
  /\ UNCHANGED <<keys, sweep, owed>>

\* What Members does, seen from here: someone is or is no longer allowed to
\* manage the keys.
ChangeRole(o, u, role) ==
  /\ Known(o) /\ member[o][u] \notin {"owner", role}
  /\ member' = [member EXCEPT ![o][u] = role]
  /\ UNCHANGED <<orgStatus, phase, progress, keys, sweep, owed>>

\* History: the keys active at some instant since the call began.
ObserveKeys ==
  current' = [c \in Call |->
    IF phase'[c] = "idle" THEN {}
    ELSE current[c] \cup {k \in Key : keyStatus'[k] = "active"}]

CallStep(c) ==
  \/ Authorize(c)
  \/ RefuseUnknown(c)
  \/ Deny(c)
  \/ CreateKey(c)
  \/ LookupKey(c)
  \/ RevokeKey(c)
  \/ AppendAudit(c)
  \/ VerifyKey(c)
  \/ FetchKeyOrganization(c)
  \/ CheckKey(c)
  \/ RefuseOwner(c)
  \/ SuspendUnknown(c)
  \/ SuspendAtOnce(c)
  \/ DisableOrganization(c)
  \/ ScanKeys(c)
  \/ \E k \in Key : SweepKey(c, k)
  \/ SweepDone(c)
  \/ Fail(c)

Next ==
  /\ \/ \E c \in Call, r \in Request : AskHuman(c, r) \/ Present(c, r) \/ AskSuspension(c, r)
     \/ \E c \in Call : CallStep(c)
     \/ \E o \in Organization : Reactivate(o)
     \/ \E o \in Organization, u \in User, role \in {"none", "admin"} : ChangeRole(o, u, role)
  /\ Observe
  /\ ObserveKeys
  /\ UNCHANGED adapter

Spec == Init /\ [][Next]_vars
---------------------------------------------------------------------------
\* Revocation is final and first-write-wins: no call, racing suspension or
\* reactivation makes a revoked key active or rewrites its revoked_at
\* (revoke_api_key and admin_suspend_organization, both adapters).
RevocationIsFinal ==
  [][\A k \in Key :
       keyStatus[k] = "revoked" => keyStatus'[k] = "revoked" /\ revokedBy'[k] = revokedBy[k]]_vars

\* Only a call about a key's own organization revokes it.
RevokedWithinTenant ==
  [][\A k \in Key, c \in Call :
       (revokedBy[k] # c /\ revokedBy'[k] = c) => request[c].org = keyOrg[k]]_vars

\* The keys a suspension must have revoked when it answers.
Owed(c) == IF adapter = "sqlite" THEN ActiveKeys(request[c].org) ELSE owed[c]

\* When a suspension succeeds, every key that was active when the organization
\* was disabled is revoked, whatever was created, revoked or reactivated since.
SuspensionSweeps ==
  [][\A c \in Call :
       (answer[c] # "suspended" /\ answer'[c] = "suspended")
          => \A k \in Owed(c) : keyStatus'[k] = "revoked"]_vars

\* A key is accepted only for its own organization, and only if key and
\* organization were each active at some instant of the call: revocation and
\* suspension take effect for every call that starts after them.
AcceptedIsCurrent ==
  [][\A c \in Call :
       (answer[c] # "accepted" /\ answer'[c] = "accepted")
          => /\ keyOrg[request[c].key] = request[c].org
             /\ request[c].key \in current[c]
             /\ held[c].active]_vars

\* docs/storage.md: suspension and key revocation are coordinated.  With the
\* one-transaction suspension of SQLite a disabled organization should then
\* have no active key.
SuspendedHasNoActiveKey ==
  \A o \in Organization :
    (adapter = "sqlite" /\ orgStatus[o] = "disabled") => ActiveKeys(o) = {}
============================================================================
