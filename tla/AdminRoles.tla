---------------------------- MODULE AdminRoles ----------------------------
(***************************************************************************)
(* Promotion and demotion of application administrators, with the role     *)
(* transition as ONE atomic step.  This is what storage/contract.py        *)
(* promises of transition_application_role and what the SQLite adapter     *)
(* does: BEGIN IMMEDIATE takes the write lock before the guard reads, so   *)
(* guard, role write and audit insert cannot be interleaved.  The DynamoDB *)
(* adapter (module DynamoRoles) needs several requests for the same work   *)
(* and is shown to implement this module.                                  *)
(*                                                                         *)
(* A client is one run of the administration command line                  *)
(* (services/administration.py).  Its e-mail lookup and its search for an  *)
(* anchor organization are one step, Resolve: the transition trusts        *)
(* neither, it reads the user again and the audit insert checks the parent.*)
(***************************************************************************)
EXTENDS RoleStore

VARIABLES
  phase,         \* "pending" while a client's call is in progress
  answer         \* what a client's last call answered

vars == <<life, role, status, orgs, auditBalance, expunged, request, phase, answer>>

\* RoleTransitionOutcome, and the StorageError subclasses the call can raise.
Answer == {"none", "transitioned", "no_change", "not_found", "last_admin",
           "missing_parent", "storage_error"}

\* Type invariant of the abstract specification.
TypeOK ==
  /\ StoreTypeOK
  /\ phase \in [Client -> {"idle", "pending"}]
  /\ answer \in [Client -> Answer]

Init ==
  /\ StoreInit
  /\ phase = [c \in Client |-> "idle"]
  /\ answer = [c \in Client |-> "none"]
---------------------------------------------------------------------------
Resolve(c, u, to, o) ==
  /\ phase[c] = "idle"
  /\ Ask(c, u, to, o)
  /\ phase' = [phase EXCEPT ![c] = "pending"]
  /\ answer' = [answer EXCEPT ![c] = "none"]

Finish(c, a) ==
  /\ phase[c] = "pending"
  /\ phase' = [phase EXCEPT ![c] = "idle"]
  /\ answer' = [answer EXCEPT ![c] = a]
  /\ request' = [request EXCEPT ![c] = NoRequest]

NotFound(c) ==
  /\ Finish(c, "not_found")
  /\ life[request[c].user] # "live"
  /\ UNCHANGED data

NoChange(c) ==
  /\ Finish(c, "no_change")
  /\ life[request[c].user] = "live"
  /\ role[request[c].user] = request[c].to
  /\ UNCHANGED data

\* The guard counts the OTHER active administrators.
GuardPasses(r) == Guarded(r) => ActiveAdmins \ {r.user} # {}

RefuseLastAdmin(c) ==
  /\ Finish(c, "last_admin")
  /\ CasHolds(request[c])
  /\ ~GuardPasses(request[c])
  /\ UNCHANGED data

\* The audit insert comes last: its foreign key fails only after the guard.
RejectMissingParent(c) ==
  /\ Finish(c, "missing_parent")
  /\ CasHolds(request[c])
  /\ GuardPasses(request[c])
  /\ request[c].anchor \notin orgs
  /\ UNCHANGED data

Commit(c) ==
  /\ Finish(c, "transitioned")
  /\ CasHolds(request[c])
  /\ GuardPasses(request[c])
  /\ request[c].anchor \in orgs
  /\ WriteRoleAndAudit(request[c])

\* Any driver failure rolls the whole transaction back.
StorageFailure(c) ==
  /\ Finish(c, "storage_error")
  /\ UNCHANGED data

Provision(u) == ProvisionRow(u) /\ UNCHANGED <<request, phase, answer>>

Erase(lost, erased) ==
  /\ EraseRows(lost, erased)
  /\ \E staying \in SUBSET User : EraseEvents(erased \cup staying)
  /\ UNCHANGED <<request, phase, answer>>

CallStep(c) ==
  \/ \E u \in User, to \in Role, o \in Organization : Resolve(c, u, to, o)
  \/ NotFound(c)
  \/ NoChange(c)
  \/ RefuseLastAdmin(c)
  \/ RejectMissingParent(c)
  \/ Commit(c)
  \/ StorageFailure(c)

Next ==
  \/ \E c \in Client : CallStep(c)
  \/ \E u \in User : Provision(u)
  \/ \E lost \in SUBSET Organization, erased \in SUBSET User : Erase(lost, erased)

Spec == Init /\ [][Next]_vars
===========================================================================
