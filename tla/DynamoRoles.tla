---------------------------- MODULE DynamoRoles ---------------------------
(***************************************************************************)
(* The DynamoDB adapter's transition_application_role.  DynamoDB has no    *)
(* BEGIN IMMEDIATE: the adapter reads the target, queries a secondary      *)
(* index for the other active administrators, picks the earliest of them   *)
(* as WITNESS, and submits one TransactWriteItems that re-checks only the  *)
(* witness, the target's role and the audit parent.  Between any two of    *)
(* these requests other clients, provisioning and organization deletion    *)
(* may run, and the index may lag behind the table it indexes.             *)
(*                                                                         *)
(* A cancelled transaction (TransactionConflict) re-runs the whole cycle,  *)
(* at most MaxAttempts times (MAX_TRANSACTION_ATTEMPTS in the code).       *)
(***************************************************************************)
EXTENDS RoleStore, FiniteSets

CONSTANTS
  MaxAttempts,   \* cycles before "aborted by concurrent activity"
  NoWitness      \* no witness chosen (yet, or the call needs none)

ASSUME MaxAttemptsIsPositive == MaxAttempts \in Nat \ {0}
ASSUME NoWitnessIsNoUser == NoWitness \notin User

VARIABLES
  index,         \* users the by-application-role index lists as active administrators
  phase,         \* the request each client sends next
  witness,       \* the administrator a client's transaction will re-check
  attempt,       \* cycles the client has started
  answer         \* what the storage call answered

callVars == <<request, phase, witness, attempt, answer>>
vars == <<life, role, status, orgs, auditBalance, expunged, index, request, phase, witness,
          attempt, answer>>

\* "unread" is the StorageError raised when the read-back after the commit
\* fails: the transition is stored all the same.
Answer == {"none", "transitioned", "unread", "no_change", "not_found", "last_admin",
           "missing_parent", "storage_error"}
Phase == {"idle", "read", "guard", "commit", "miss", "readback"}

\* Type invariant of the DynamoDB adapter's calls.
TypeOK ==
  /\ StoreTypeOK
  /\ index \subseteq User
  /\ phase \in [Client -> Phase]
  /\ witness \in [Client -> User \cup {NoWitness}]
  /\ attempt \in [Client -> 0 .. MaxAttempts]
  /\ answer \in [Client -> Answer]

Init ==
  /\ StoreInit
  /\ index = ActiveAdmins
  /\ phase = [c \in Client |-> "idle"]
  /\ witness = [c \in Client |-> NoWitness]
  /\ attempt = [c \in Client |-> 0]
  /\ answer = [c \in Client |-> "none"]
---------------------------------------------------------------------------
Goto(c, from, to) ==
  /\ phase[c] = from
  /\ phase' = [phase EXCEPT ![c] = to]

Finish(c, from, a) ==
  /\ Goto(c, from, "idle")
  /\ request' = [request EXCEPT ![c] = NoRequest]
  /\ answer' = [answer EXCEPT ![c] = a]
  /\ witness' = [witness EXCEPT ![c] = NoWitness]
  /\ attempt' = [attempt EXCEPT ![c] = 0]
  /\ UNCHANGED index

Resolve(c, u, to, o) ==
  /\ Goto(c, "idle", "read")
  /\ Ask(c, u, to, o)
  /\ attempt' = [attempt EXCEPT ![c] = 1]
  /\ answer' = [answer EXCEPT ![c] = "none"]
  /\ UNCHANGED <<index, witness>>

\* The strongly consistent GetItem of the target.
ReadTarget(c) ==
  LET r == request[c] IN
  /\ phase[c] = "read"
  /\ UNCHANGED data
  /\ \/ life[r.user] # "live" /\ Finish(c, "read", "not_found")
     \/ life[r.user] = "live" /\ role[r.user] = r.to /\ Finish(c, "read", "no_change")
     \/ /\ CasHolds(r)
        /\ Goto(c, "read", IF Guarded(r) THEN "guard" ELSE "commit")
        /\ UNCHANGED <<request, index, witness, attempt, answer>>

\* Mutant of QueryAdmins: the target may prop up its own demotion.
QueryAdminsWithTarget(c) ==
  /\ phase[c] = "guard"
  /\ UNCHANGED data
  /\ \/ index = {} /\ Finish(c, "guard", "last_admin")
     \/ \E w \in index :
          /\ \A v \in index : w <= v
          /\ Goto(c, "guard", "commit")
          /\ witness' = [witness EXCEPT ![c] = w]
          /\ UNCHANGED <<request, index, attempt, answer>>

\* The other active administrators as the index lists them, the target excluded.
QueryAdmins(c) ==
  LET others == index \ {request[c].user} IN
  /\ phase[c] = "guard"
  /\ UNCHANGED data
  /\ \/ others = {} /\ Finish(c, "guard", "last_admin")
     \/ \E w \in others :
          /\ \A v \in others : w <= v
          /\ Goto(c, "guard", "commit")
          /\ witness' = [witness EXCEPT ![c] = w]
          /\ UNCHANGED <<request, index, attempt, answer>>

\* Mutant of WitnessHolds: the transaction trusts the query.
WitnessUnchecked(c) == TRUE
WitnessHolds(c) == witness[c] # NoWitness => IsActiveAdmin(witness[c])

\* TransactWriteItems: witness check, role compare-and-set, audit put, parent
\* check.  The first condition that fails, in this order, decides the error.
Commit(c) ==
  LET r == request[c] IN
  /\ phase[c] = "commit"
  /\ \/ ~WitnessHolds(c) /\ Finish(c, "commit", "last_admin") /\ UNCHANGED data
     \/ /\ WitnessHolds(c) /\ ~CasHolds(r)
        /\ Goto(c, "commit", "miss")
        /\ UNCHANGED <<data, request, index, witness, attempt, answer>>
     \/ /\ WitnessHolds(c) /\ CasHolds(r) /\ r.anchor \notin orgs
        /\ Finish(c, "commit", "missing_parent")
        /\ UNCHANGED data
     \/ /\ WitnessHolds(c) /\ CasHolds(r) /\ r.anchor \in orgs
        /\ Goto(c, "commit", "readback")
        /\ WriteRoleAndAudit(r)
        /\ UNCHANGED <<request, index, witness, attempt, answer>>

\* Mutant of Conflict: one cycle too many.
ConflictOnceMore(c) ==
  /\ UNCHANGED data
  /\ attempt[c] <= MaxAttempts
  /\ Goto(c, "commit", "read")
  /\ attempt' = [attempt EXCEPT ![c] = @ + 1]
  /\ witness' = [witness EXCEPT ![c] = NoWitness]
  /\ UNCHANGED <<request, index, answer>>

\* TransactionConflict: nothing was written, the cycle starts over.
Conflict(c) ==
  /\ UNCHANGED data
  /\ \/ /\ attempt[c] < MaxAttempts
        /\ Goto(c, "commit", "read")
        /\ attempt' = [attempt EXCEPT ![c] = @ + 1]
        /\ witness' = [witness EXCEPT ![c] = NoWitness]
        /\ UNCHANGED <<request, index, answer>>
     \/ attempt[c] = MaxAttempts /\ Finish(c, "commit", "storage_error")

\* Mutant of ResolveMiss: the target is not read again.
ResolveMissUnread(c) ==
  /\ UNCHANGED data
  /\ Finish(c, "miss", "no_change")

\* A lost compare-and-set is resolved by reading the target again.
ResolveMiss(c) ==
  LET r == request[c] IN
  /\ phase[c] = "miss"
  /\ UNCHANGED data
  /\ \/ life[r.user] # "live" /\ Finish(c, "miss", "not_found")
     \/ life[r.user] = "live" /\ role[r.user] = r.to /\ Finish(c, "miss", "no_change")
     \/ CasHolds(r) /\ Finish(c, "miss", "storage_error")

ReadBack(c) ==
  /\ phase[c] = "readback"
  /\ UNCHANGED data
  /\ Finish(c, "readback",
            IF life[request[c].user] = "live" THEN "transitioned" ELSE "unread")

\* Throttling or any other fault of a request.  Only after the commit has the
\* call had an effect.
StorageFailure(c) ==
  /\ UNCHANGED data
  /\ \/ \E p \in {"read", "guard", "commit", "miss"} : Finish(c, p, "storage_error")
     \/ Finish(c, "readback", "unread")

---------------------------------------------------------------------------
\* DynamoDB brings one index entry up to date, in its own time.
Propagate(u) ==
  /\ index' = IF IsActiveAdmin(u) THEN index \cup {u} ELSE index \ {u}
  /\ UNCHANGED <<data, callVars>>

Provision(u) == ProvisionRow(u) /\ UNCHANGED <<index, callVars>>

\* The deletes of admin_delete_organization, one item each, in the order of the
\* code; a deletion may stop after any of them, and overlap another.  An event
\* about u, anchored in the organization or about a member of it ...
EraseEvent(u) ==
  /\ life[u] # "unborn"
  /\ EraseRows({}, {}) /\ EraseEvents({u})
  /\ UNCHANGED <<index, callVars>>

\* ... then a member, whose events are gone by now ...
EraseUser(u) == EraseRows({}, {u}) /\ EraseEvents({u}) /\ UNCHANGED <<index, callVars>>

\* ... and the organization.
EraseOrganization(o) == EraseRows({o}, {}) /\ EraseEvents({}) /\ UNCHANGED <<index, callVars>>

\* Everything one call does after it was made.
CallStep(c) ==
  \/ ReadTarget(c)
  \/ QueryAdmins(c)
  \/ Commit(c)
  \/ Conflict(c)
  \/ ResolveMiss(c)
  \/ ReadBack(c)
  \/ StorageFailure(c)

Next ==
  \/ \E c \in Client, u \in User, to \in Role, o \in Organization : Resolve(c, u, to, o)
  \/ \E c \in Client : CallStep(c)
  \/ \E u \in User : Propagate(u) \/ Provision(u) \/ EraseEvent(u) \/ EraseUser(u)
  \/ \E o \in Organization : EraseOrganization(o)

Spec == Init /\ [][Next]_vars
---------------------------------------------------------------------------
\* A demotion never takes the role from the last active administrator: some
\* active administrator remains in the very state the demotion produces
\* (contract.py, LastActiveAdministratorError).
DemotionLeavesAdmin ==
  [][\A u \in User :
        (IsActiveAdmin(u) /\ life'[u] = "live" /\ role'[u] = "user")
           => ActiveAdmins' # {}]_vars

\* Role and audit trail commit together: whatever the order of the calls, the
\* grants minus the revokes on record are the user's present role.  Nothing is
\* claimed of users about whom the deletion of an organization has erased an
\* event: they may be administrators without a grant on record.
AuditExplainsRole ==
  \A u \in User \ expunged : auditBalance[u] = IF role[u] = "admin" THEN 1 ELSE 0

\* A call in its transaction carries what the transaction must re-check: a
\* witness other than its target when the demotion is guarded.
WitnessIsAnother ==
  \A c \in Client :
    phase[c] \in {"commit", "miss", "readback"} =>
      IF Guarded(request[c]) THEN witness[c] \in User \ {request[c].user}
                             ELSE witness[c] = NoWitness

\* Each call is in one of AdminRoles' phases.  LastActiveAdministratorError is
\* a StorageError, and no more is claimed of it here: the refusal is always
\* safe but, unlike AdminRoles', not always necessary: the one witness a
\* lagging index offers may be stale while another administrator exists.
atomicPhase ==
  [c \in Client |-> IF phase[c] \in {"read", "guard", "commit", "miss"}
                     THEN "pending" ELSE "idle"]
atomicRequest ==
  [c \in Client |-> IF phase[c] = "readback" THEN NoRequest ELSE request[c]]
atomicAnswer ==
  [c \in Client |-> IF phase[c] = "readback" \/ answer[c] = "unread" THEN "transitioned"
                     ELSE IF answer[c] = "last_admin" THEN "storage_error"
                     ELSE answer[c]]

Atomic == INSTANCE AdminRoles
            WITH phase <- atomicPhase, request <- atomicRequest, answer <- atomicAnswer

\* The several requests of the DynamoDB adapter look like the one transaction
\* of the contract: every effect and every answer but the refusal is one of
\* AdminRoles' atomic transitions.
ImplementsAtomic == Atomic!Spec
===========================================================================
