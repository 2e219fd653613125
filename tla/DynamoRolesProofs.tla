-------------------------- MODULE DynamoRolesProofs -------------------------
(***************************************************************************)
(* Proofs about the DynamoDB role transition, for any set of users,        *)
(* clients and organizations and any retry bound.                          *)
(***************************************************************************)
EXTENDS DynamoRoles, TLAPS

\* A call in progress has a request for a user that was registered, and the
\* witness is only chosen when the guard asks for one.
CallsWellFormed ==
  \A c \in Client :
    /\ phase[c] # "idle" => request[c] \in Request /\ life[request[c].user] # "unborn"
    /\ phase[c] = "guard" => Guarded(request[c])
    /\ phase[c] \in {"idle", "read", "guard"} => witness[c] = NoWitness

\* Nobody is an administrator before being provisioned.
UnbornIsPlain == \A u \in User : life[u] = "unborn" => role[u] = "user"

\* The inductive invariant: WitnessIsAnother alone is not inductive, because
\* Commit trusts what ReadTarget and QueryAdmins left behind.
IInv == TypeOK /\ AuditExplainsRole /\ UnbornIsPlain /\ WitnessIsAnother /\ CallsWellFormed

---------------------------------------------------------------------------
\* Initially no call is in progress and every administrator has one grant on
\* record.
LEMMA InvInit == Init => IInv
<1> SUFFICES ASSUME Init PROVE IInv
  OBVIOUS
<1>1. TypeOK
  BY MaxAttemptsIsPositive
  DEF Init, TypeOK, StoreInit, StoreTypeOK, ActiveAdmins, Answer, Phase, Role
<1>2. AuditExplainsRole /\ UnbornIsPlain
  BY DEF Init, StoreInit, AuditExplainsRole, UnbornIsPlain
<1>3. WitnessIsAnother /\ CallsWellFormed
  BY DEF Init, WitnessIsAnother, CallsWellFormed
<1>4. QED
  BY <1>1, <1>2, <1>3 DEF IInv

\* A call that ends leaves nothing behind that the invariant speaks of.
LEMMA FinishKeepsInv ==
  ASSUME IInv, NEW c \in Client, NEW from \in Phase, NEW a \in Answer,
         Finish(c, from, a), UNCHANGED data
  PROVE  IInv'
<1> USE DEF Finish, Goto, data
<1>1. TypeOK'
  BY MaxAttemptsIsPositive DEF IInv, TypeOK, StoreTypeOK, Phase
<1>2. (AuditExplainsRole /\ UnbornIsPlain)'
  BY DEF IInv, AuditExplainsRole, UnbornIsPlain
<1>3. WitnessIsAnother'
  BY DEF IInv, TypeOK, StoreTypeOK, WitnessIsAnother, Guarded
<1>4. CallsWellFormed'
  BY DEF IInv, TypeOK, StoreTypeOK, CallsWellFormed, Guarded
<1>5. QED
  BY <1>1, <1>2, <1>3, <1>4 DEF IInv

\* Making a call records a request for a registered user and chooses no witness.
LEMMA ResolveKeepsInv ==
  ASSUME IInv, NEW c \in Client, NEW u \in User, NEW to \in Role,
         NEW o \in Organization, Resolve(c, u, to, o)
  PROVE  IInv'
<1> USE DEF Resolve, Ask, Goto, data
<1>1. TypeOK'
  BY MaxAttemptsIsPositive DEF IInv, TypeOK, StoreTypeOK, Phase, Answer, Request
<1>2. (AuditExplainsRole /\ UnbornIsPlain)'
  BY DEF IInv, AuditExplainsRole, UnbornIsPlain
<1>3. WitnessIsAnother'
  BY DEF IInv, TypeOK, StoreTypeOK, WitnessIsAnother, Guarded
<1>4. CallsWellFormed'
  BY DEF IInv, TypeOK, StoreTypeOK, CallsWellFormed, Guarded, Request
<1>5. QED
  BY <1>1, <1>2, <1>3, <1>4 DEF IInv

\* The read of the target sends exactly the guarded demotions to the guard.
LEMMA ReadTargetKeepsInv ==
  ASSUME IInv, NEW c \in Client, ReadTarget(c)
  PROVE  IInv'
<1>1. CASE Finish(c, "read", "not_found") \/ Finish(c, "read", "no_change")
  BY <1>1, FinishKeepsInv DEF ReadTarget, Phase, Answer
<1>2. CASE /\ Goto(c, "read", IF Guarded(request[c]) THEN "guard" ELSE "commit")
           /\ UNCHANGED <<data, request, index, witness, attempt, answer>>
  <2> USE <1>2 DEF Goto, data
  <2>1. TypeOK'
    BY DEF IInv, TypeOK, StoreTypeOK, Phase
  <2>2. (AuditExplainsRole /\ UnbornIsPlain)'
    BY DEF IInv, AuditExplainsRole, UnbornIsPlain
  <2>3. WitnessIsAnother'
    BY DEF IInv, TypeOK, StoreTypeOK, WitnessIsAnother, CallsWellFormed, Guarded
  <2>4. CallsWellFormed'
    BY DEF IInv, TypeOK, StoreTypeOK, CallsWellFormed, Guarded
  <2>5. QED
    BY <2>1, <2>2, <2>3, <2>4 DEF IInv
<1>3. QED
  BY <1>1, <1>2 DEF ReadTarget

\* The guard's query picks a witness other than the target, or ends the call.
LEMMA QueryAdminsKeepsInv ==
  ASSUME IInv, NEW c \in Client, QueryAdmins(c)
  PROVE  IInv'
<1>1. CASE Finish(c, "guard", "last_admin")
  BY <1>1, FinishKeepsInv DEF QueryAdmins, Phase, Answer
<1>2. CASE \E w \in index \ {request[c].user} :
             /\ Goto(c, "guard", "commit")
             /\ witness' = [witness EXCEPT ![c] = w]
             /\ UNCHANGED <<data, request, index, attempt, answer>>
  <2> PICK w \in index \ {request[c].user} :
             /\ Goto(c, "guard", "commit")
             /\ witness' = [witness EXCEPT ![c] = w]
             /\ UNCHANGED <<data, request, index, attempt, answer>>
    BY <1>2
  <2> USE DEF Goto, data
  <2>1. TypeOK'
    BY DEF IInv, TypeOK, StoreTypeOK, Phase
  <2>2. (AuditExplainsRole /\ UnbornIsPlain)'
    BY DEF IInv, AuditExplainsRole, UnbornIsPlain
  <2>3. WitnessIsAnother'
    BY DEF IInv, TypeOK, StoreTypeOK, WitnessIsAnother, CallsWellFormed, Guarded
  <2>4. CallsWellFormed'
    BY DEF IInv, TypeOK, StoreTypeOK, CallsWellFormed, Guarded
  <2>5. QED
    BY <2>1, <2>2, <2>3, <2>4 DEF IInv
<1>3. QED
  BY <1>1, <1>2 DEF QueryAdmins

\* The transaction writes role and audit event together, or neither.
LEMMA CommitKeepsInv ==
  ASSUME IInv, NEW c \in Client, Commit(c)
  PROVE  IInv'
<1>1. CASE /\ Finish(c, "commit", "last_admin") \/ Finish(c, "commit", "missing_parent")
           /\ UNCHANGED data
  BY <1>1, FinishKeepsInv DEF Phase, Answer
<1>2. CASE /\ Goto(c, "commit", "miss")
           /\ UNCHANGED <<data, request, index, witness, attempt, answer>>
  <2> USE <1>2 DEF Goto, data
  <2>1. TypeOK'
    BY DEF IInv, TypeOK, StoreTypeOK, Phase
  <2>2. (AuditExplainsRole /\ UnbornIsPlain)'
    BY DEF IInv, AuditExplainsRole, UnbornIsPlain
  <2>3. WitnessIsAnother'
    BY DEF IInv, TypeOK, StoreTypeOK, WitnessIsAnother, Guarded
  <2>4. CallsWellFormed'
    BY DEF IInv, TypeOK, StoreTypeOK, CallsWellFormed, Guarded
  <2>5. QED
    BY <2>1, <2>2, <2>3, <2>4 DEF IInv
<1>3. CASE /\ CasHolds(request[c])
           /\ Goto(c, "commit", "readback")
           /\ WriteRoleAndAudit(request[c])
           /\ UNCHANGED <<request, index, witness, attempt, answer>>
  <2> USE <1>3 DEF Goto, WriteRoleAndAudit
  <2>0. request[c] \in Request
    BY DEF IInv, CallsWellFormed
  <2>1. TypeOK'
    BY <2>0 DEF IInv, TypeOK, StoreTypeOK, Phase, Request
  <2>2. (AuditExplainsRole /\ UnbornIsPlain)'
    BY <2>0 DEF IInv, TypeOK, StoreTypeOK, AuditExplainsRole, UnbornIsPlain, CasHolds, Request, Role
  <2>3. WitnessIsAnother'
    BY DEF IInv, TypeOK, StoreTypeOK, WitnessIsAnother, Guarded
  <2>4. CallsWellFormed'
    BY DEF IInv, TypeOK, StoreTypeOK, CallsWellFormed, Guarded
  <2>5. QED
    BY <2>1, <2>2, <2>3, <2>4 DEF IInv
<1>4. QED
  BY <1>1, <1>2, <1>3 DEF Commit

\* A cancelled cycle starts over without a witness, within the bound.
LEMMA ConflictKeepsInv ==
  ASSUME IInv, NEW c \in Client, Conflict(c)
  PROVE  IInv'
<1>1. CASE Finish(c, "commit", "storage_error")
  BY <1>1, FinishKeepsInv DEF Conflict, Phase, Answer
<1>2. CASE /\ attempt[c] < MaxAttempts
           /\ Goto(c, "commit", "read")
           /\ attempt' = [attempt EXCEPT ![c] = @ + 1]
           /\ witness' = [witness EXCEPT ![c] = NoWitness]
           /\ UNCHANGED <<data, request, index, answer>>
  <2> USE <1>2 DEF Goto, data
  <2>1. TypeOK'
    BY MaxAttemptsIsPositive DEF IInv, TypeOK, StoreTypeOK, Phase
  <2>2. (AuditExplainsRole /\ UnbornIsPlain)'
    BY DEF IInv, AuditExplainsRole, UnbornIsPlain
  <2>3. WitnessIsAnother'
    BY DEF IInv, TypeOK, StoreTypeOK, WitnessIsAnother, Guarded
  <2>4. CallsWellFormed'
    BY DEF IInv, TypeOK, StoreTypeOK, CallsWellFormed, Guarded
  <2>5. QED
    BY <2>1, <2>2, <2>3, <2>4 DEF IInv
<1>3. QED
  BY <1>1, <1>2 DEF Conflict

\* Whatever a call does next keeps the invariant.
LEMMA CallKeepsInv ==
  ASSUME IInv, NEW c \in Client, CallStep(c)
  PROVE  IInv'
<1>1. CASE ResolveMiss(c)
  <2>1. CASE Finish(c, "miss", "not_found")
    BY <1>1, <2>1, FinishKeepsInv DEF ResolveMiss, Phase, Answer
  <2>2. CASE Finish(c, "miss", "storage_error")
    BY <1>1, <2>2, FinishKeepsInv DEF ResolveMiss, Phase, Answer
  <2>3. CASE Finish(c, "miss", "no_change")
    BY <1>1, <2>3, FinishKeepsInv DEF ResolveMiss, Phase, Answer
  <2>4. QED
    BY <1>1, <2>1, <2>2, <2>3 DEF ResolveMiss
<1>2. CASE ReadBack(c)
  <2>1. CASE Finish(c, "readback", "transitioned")
    BY <1>2, <2>1, FinishKeepsInv DEF ReadBack, Phase, Answer
  <2>2. CASE Finish(c, "readback", "unread")
    BY <1>2, <2>2, FinishKeepsInv DEF ReadBack, Phase, Answer
  <2>3. QED
    BY <1>2, <2>1, <2>2 DEF ReadBack
<1>3. CASE StorageFailure(c)
  <2>1. CASE Finish(c, "readback", "unread")
    BY <1>3, <2>1, FinishKeepsInv DEF StorageFailure, Phase, Answer
  <2>2. CASE \E p \in {"read", "guard", "commit", "miss"} : Finish(c, p, "storage_error")
    <3>1. PICK p \in {"read", "guard", "commit", "miss"} : Finish(c, p, "storage_error")
      BY <2>2
    <3>2. p \in Phase /\ "storage_error" \in Answer
      BY DEF Phase, Answer
    <3>3. QED
      BY <1>3, <3>1, <3>2, FinishKeepsInv DEF StorageFailure
  <2>3. QED
    BY <1>3, <2>1, <2>2 DEF StorageFailure
<1>4. QED
  BY <1>1, <1>2, <1>3, ReadTargetKeepsInv, QueryAdminsKeepsInv, CommitKeepsInv,
     ConflictKeepsInv DEF CallStep

\* The rest of the system: provisioning touches users no call has named,
\* deletion only turns live users into gone ones and erases events, the index is
\* not trusted.
LEMMA EnvironmentKeepsInv ==
  ASSUME IInv, UNCHANGED callVars,
         \/ \E u \in User : Propagate(u) \/ Provision(u) \/ EraseEvent(u) \/ EraseUser(u)
         \/ \E o \in Organization : EraseOrganization(o)
  PROVE  IInv'
<1> USE DEF callVars
<1>1. ASSUME NEW u \in User, Propagate(u) PROVE IInv'
  BY <1>1 DEF Propagate, data, IInv, TypeOK, StoreTypeOK, AuditExplainsRole, UnbornIsPlain,
              WitnessIsAnother, CallsWellFormed, Guarded
<1>2. ASSUME NEW u \in User, Provision(u) PROVE IInv'
  <2> USE <1>2 DEF Provision, ProvisionRow
  <2>1. TypeOK'
    BY DEF IInv, TypeOK, StoreTypeOK, Role
  <2>2. (AuditExplainsRole /\ UnbornIsPlain)'
    BY DEF IInv, TypeOK, StoreTypeOK, AuditExplainsRole, UnbornIsPlain
  <2>3. WitnessIsAnother'
    BY DEF IInv, TypeOK, StoreTypeOK, WitnessIsAnother, CallsWellFormed, Guarded
  <2>4. CallsWellFormed'
    BY DEF IInv, TypeOK, StoreTypeOK, CallsWellFormed, Guarded, Request
  <2>5. QED
    BY <2>1, <2>2, <2>3, <2>4 DEF IInv
<1>3. ASSUME NEW lost \in SUBSET Organization, NEW erased \in SUBSET User,
             NEW us \in SUBSET User, EraseRows(lost, erased), EraseEvents(us), UNCHANGED index
      PROVE  IInv'
  <2> USE <1>3 DEF EraseRows, EraseEvents
  <2>1. TypeOK'
    BY DEF IInv, TypeOK, StoreTypeOK
  <2>2. (AuditExplainsRole /\ UnbornIsPlain)'
    BY DEF IInv, AuditExplainsRole, UnbornIsPlain
  <2>3. WitnessIsAnother'
    BY DEF IInv, TypeOK, StoreTypeOK, WitnessIsAnother, Guarded
  <2>4. CallsWellFormed'
    BY DEF IInv, TypeOK, StoreTypeOK, CallsWellFormed, Guarded, Request
  <2>5. QED
    BY <2>1, <2>2, <2>3, <2>4 DEF IInv
<1>4. ASSUME NEW u \in User, EraseUser(u) PROVE IInv'
  BY <1>3, <1>4 DEF EraseUser
<1>5. ASSUME NEW o \in Organization, EraseOrganization(o) PROVE IInv'
  BY <1>3, <1>5 DEF EraseOrganization
<1>6. ASSUME NEW u \in User, EraseEvent(u) PROVE IInv'
  BY <1>3, <1>6 DEF EraseEvent
<1>7. QED
  BY <1>1, <1>2, <1>4, <1>5, <1>6

\* Every step of the system keeps the invariant.
LEMMA NextKeepsInv == IInv /\ [Next]_vars => IInv'
<1> SUFFICES ASSUME IInv, [Next]_vars PROVE IInv'
  OBVIOUS
<1>1. CASE \E c \in Client, u \in User, to \in Role, o \in Organization : Resolve(c, u, to, o)
  BY <1>1, ResolveKeepsInv
<1>2. CASE \E c \in Client : CallStep(c)
  BY <1>2, CallKeepsInv
<1>3. ASSUME NEW u \in User, Propagate(u) \/ Provision(u) \/ EraseEvent(u) \/ EraseUser(u)
      PROVE  IInv'
  BY <1>3, EnvironmentKeepsInv DEF Propagate, Provision, EraseEvent, EraseUser, EraseRows
<1>4. ASSUME NEW o \in Organization, EraseOrganization(o) PROVE IInv'
  BY <1>4, EnvironmentKeepsInv DEF EraseOrganization
<1>5. CASE UNCHANGED vars
  BY <1>5 DEF vars, IInv, TypeOK, StoreTypeOK, AuditExplainsRole, UnbornIsPlain,
              WitnessIsAnother, CallsWellFormed, Guarded
<1>6. QED
  BY <1>1, <1>2, <1>3, <1>4, <1>5 DEF Next

\* The inductive invariant holds in every reachable state.
THEOREM Invariance == Spec => []IInv
<1>1. QED
  BY InvInit, NextKeepsInv, PTL DEF Spec

\* The type invariant of the DynamoDB calls, from the inductive invariant.
THEOREM TypeCorrect == Spec => []TypeOK
<1>1. IInv => TypeOK
  BY DEF IInv
<1>2. QED
  BY <1>1, Invariance, PTL

\* Role and audit trail never part, whatever fails or interleaves, except by
\* the deletion of an organization, which erases events of users who stay.
THEOREM AuditCorrect == Spec => []AuditExplainsRole
<1>1. IInv => AuditExplainsRole
  BY DEF IInv
<1>2. QED
  BY <1>1, Invariance, PTL

\* A guarded demotion always re-checks an administrator other than its target.
THEOREM WitnessCorrect == Spec => []WitnessIsAnother
<1>1. IInv => WitnessIsAnother
  BY DEF IInv
<1>2. QED
  BY <1>1, Invariance, PTL
---------------------------------------------------------------------------
\* The only step that changes a role to "user" of a live administrator is a
\* commit, and its witness is an active administrator before and after.
LEMMA StepLeavesAdmin ==
  ASSUME IInv, [Next]_vars, NEW u \in User, IsActiveAdmin(u),
         life'[u] = "live", role'[u] = "user"
  PROVE  ActiveAdmins' # {}
<1>1. CASE \E c \in Client : Commit(c)
  <2>1. PICK c \in Client : Commit(c)
    BY <1>1
  <2>2. CASE UNCHANGED data
    BY <2>2 DEF data, IsActiveAdmin
  <2>3. CASE WitnessHolds(c) /\ CasHolds(request[c]) /\ WriteRoleAndAudit(request[c])
    <3>1. request[c] \in Request
      BY <2>1 DEF IInv, CallsWellFormed, Commit
    <3>2. request[c].user = u /\ request[c].to = "user"
      BY <2>3, <3>1 DEF WriteRoleAndAudit, IsActiveAdmin, IInv, TypeOK, StoreTypeOK, Request
    <3>3. PICK w \in User \ {u} : IsActiveAdmin(w)
      BY <2>1, <2>3, <3>2, NoWitnessIsNoUser
      DEF IInv, WitnessIsAnother, Commit, Guarded, IsActiveAdmin, WitnessHolds
    <3>4. IsActiveAdmin(w)'
      BY <2>3, <3>2, <3>3 DEF WriteRoleAndAudit, IInv, TypeOK, StoreTypeOK, IsActiveAdmin
    <3>5. QED
      BY <3>4 DEF ActiveAdmins
  <2>4. QED
    BY <2>1, <2>2, <2>3 DEF Commit
<1>2. CASE ~ \E c \in Client : Commit(c)
  <2>1. role' = role \/ \E v \in User : Provision(v)
    BY <1>2 DEF Next, CallStep, Resolve, Ask, ReadTarget, QueryAdmins, Conflict, ResolveMiss,
                ReadBack, StorageFailure, Propagate, EraseEvent, EraseUser, EraseOrganization, EraseRows,
                vars, data
  <2>2. QED
    BY <2>1 DEF Provision, ProvisionRow, IsActiveAdmin, IInv, TypeOK, StoreTypeOK
<1>3. QED
  BY <1>1, <1>2

\* Demotions can race on any interleaving and any stale index without leaving
\* the system without an active administrator.
THEOREM DemotionSafe == Spec => DemotionLeavesAdmin
<1>1. IInv /\ [Next]_vars =>
        [\A u \in User : (IsActiveAdmin(u) /\ life'[u] = "live" /\ role'[u] = "user")
                            => ActiveAdmins' # {}]_vars
  BY StepLeavesAdmin
<1>2. QED
  BY <1>1, Invariance, PTL DEF Spec, DemotionLeavesAdmin
---------------------------------------------------------------------------
\* A call that ends before its commit ends AdminRoles' call with the same
\* answer, the refusal being one more storage error.
LEMMA FinishRefines ==
  ASSUME IInv, NEW c \in Client, NEW from \in {"read", "guard", "commit", "miss"},
         NEW a \in Answer \ {"unread"}, Finish(c, from, a)
  PROVE  Atomic!Finish(c, IF a = "last_admin" THEN "storage_error" ELSE a)
<1> USE DEF IInv, TypeOK, StoreTypeOK, Finish, Goto, Phase
<1>1. atomicPhase[c] = "pending"
  BY DEF atomicPhase
<1>2. atomicPhase' = [atomicPhase EXCEPT ![c] = "idle"]
  BY DEF atomicPhase
<1>3. atomicRequest' = [atomicRequest EXCEPT ![c] = NoRequest]
  BY DEF atomicRequest
<1>4. atomicAnswer' = [atomicAnswer EXCEPT ![c] = IF a = "last_admin" THEN "storage_error" ELSE a]
  BY DEF atomicAnswer
<1>5. QED
  BY <1>1, <1>2, <1>3, <1>4 DEF Atomic!Finish

\* The commit of the transaction is AdminRoles' atomic transition.
LEMMA CommitRefines ==
  ASSUME IInv, NEW c \in Client, phase[c] = "commit",
         WitnessHolds(c), CasHolds(request[c]), request[c].anchor \in orgs,
         Goto(c, "commit", "readback"), WriteRoleAndAudit(request[c]),
         UNCHANGED <<request, index, witness, attempt, answer>>
  PROVE  Atomic!Commit(c)
<1> USE DEF IInv, TypeOK, StoreTypeOK, Goto, Phase
<1>1. atomicPhase[c] = "pending" /\ atomicPhase' = [atomicPhase EXCEPT ![c] = "idle"]
  BY DEF atomicPhase
<1>2. atomicRequest' = [atomicRequest EXCEPT ![c] = NoRequest]
  BY DEF atomicRequest
<1>3. atomicAnswer' = [atomicAnswer EXCEPT ![c] = "transitioned"]
  BY DEF atomicAnswer
<1>4. atomicRequest[c] = request[c]
  BY DEF atomicRequest
<1>5. Atomic!GuardPasses(request[c])
  <2> SUFFICES ASSUME Guarded(request[c]) PROVE Atomic!ActiveAdmins \ {request[c].user} # {}
    BY DEF Atomic!GuardPasses, Atomic!Guarded, Guarded
  <2>1. PICK w \in User \ {request[c].user} : IsActiveAdmin(w)
    BY NoWitnessIsNoUser DEF WitnessIsAnother, WitnessHolds
  <2>2. QED
    BY <2>1 DEF Atomic!ActiveAdmins, Atomic!IsActiveAdmin, IsActiveAdmin
<1>6. Atomic!CasHolds(request[c]) /\ Atomic!WriteRoleAndAudit(request[c])
  BY DEF Atomic!CasHolds, CasHolds, Atomic!WriteRoleAndAudit, WriteRoleAndAudit
<1>7. QED
  BY <1>1, <1>2, <1>3, <1>4, <1>5, <1>6 DEF Atomic!Commit, Atomic!Finish

\* Steps within a call that AdminRoles does not see.
LEMMA InnerStepStutters ==
  ASSUME IInv, UNCHANGED <<data, request, answer>>, NEW c \in Client,
         NEW from \in {"read", "guard", "commit", "miss"},
         NEW to \in {"read", "guard", "commit", "miss"}, Goto(c, from, to)
  PROVE  UNCHANGED Atomic!vars
<1> USE DEF IInv, TypeOK, StoreTypeOK, Goto, Phase
<1>1. atomicPhase' = atomicPhase
  BY DEF atomicPhase
<1>2. atomicRequest' = atomicRequest
  BY DEF atomicRequest
<1>3. atomicAnswer' = atomicAnswer
  BY DEF atomicAnswer
<1>4. QED
  BY <1>1, <1>2, <1>3 DEF Atomic!vars, data

\* After the commit a call only turns the answer it already has into a return.
LEMMA ReadBackStutters ==
  ASSUME IInv, UNCHANGED data, NEW c \in Client, NEW a \in {"transitioned", "unread"},
         Finish(c, "readback", a)
  PROVE  UNCHANGED Atomic!vars
<1> USE DEF IInv, TypeOK, StoreTypeOK, Finish, Goto, Phase
<1>1. atomicPhase' = atomicPhase
  BY DEF atomicPhase
<1>2. atomicRequest' = atomicRequest
  BY DEF atomicRequest
<1>3. atomicAnswer' = atomicAnswer
  BY DEF atomicAnswer
<1>4. QED
  BY <1>1, <1>2, <1>3 DEF Atomic!vars, data

\* Each step of a call is one of AdminRoles' outcomes or is not seen there.
LEMMA CallRefines ==
  ASSUME IInv, NEW c \in Client, CallStep(c)
  PROVE  Atomic!CallStep(c) \/ UNCHANGED Atomic!vars
<1> USE DEF Atomic!data, data
<1>0. phase[c] \in {"read", "guard", "commit", "miss"} => atomicRequest[c] = request[c]
  BY DEF atomicRequest
<1>1. CASE ReadTarget(c)
  <2>1. CASE life[request[c].user] # "live" /\ Finish(c, "read", "not_found")
    <3>1. Atomic!Finish(c, "not_found")
      BY <2>1, FinishRefines DEF Answer
    <3>2. QED
      BY <1>0, <1>1, <2>1, <3>1 DEF ReadTarget, Atomic!CallStep, Atomic!NotFound
  <2>2. CASE /\ life[request[c].user] = "live" /\ role[request[c].user] = request[c].to
             /\ Finish(c, "read", "no_change")
    <3>1. Atomic!Finish(c, "no_change")
      BY <2>2, FinishRefines DEF Answer
    <3>2. QED
      BY <1>0, <1>1, <2>2, <3>1 DEF ReadTarget, Atomic!CallStep, Atomic!NoChange
  <2>3. CASE /\ Goto(c, "read", IF Guarded(request[c]) THEN "guard" ELSE "commit")
             /\ UNCHANGED <<request, answer>>
    BY <1>1, <2>3, InnerStepStutters DEF ReadTarget
  <2>4. QED
    BY <1>1, <2>1, <2>2, <2>3 DEF ReadTarget
<1>2. CASE QueryAdmins(c)
  <2>1. CASE Finish(c, "guard", "last_admin")
    <3>1. Atomic!Finish(c, "storage_error")
      BY <2>1, FinishRefines DEF Answer
    <3>2. QED
      BY <1>2, <3>1 DEF QueryAdmins, Atomic!CallStep, Atomic!StorageFailure
  <2>2. CASE Goto(c, "guard", "commit") /\ UNCHANGED <<request, answer>>
    BY <1>2, <2>2, InnerStepStutters DEF QueryAdmins
  <2>3. QED
    BY <1>2, <2>1, <2>2 DEF QueryAdmins
<1>3. CASE Commit(c)
  <2>1. CASE Finish(c, "commit", "last_admin") /\ UNCHANGED data
    <3>1. Atomic!Finish(c, "storage_error")
      BY <2>1, FinishRefines DEF Answer
    <3>2. QED
      BY <2>1, <3>1 DEF Atomic!CallStep, Atomic!StorageFailure
  <2>2. CASE Goto(c, "commit", "miss") /\ UNCHANGED <<data, request, answer>>
    BY <2>2, InnerStepStutters
  <2>3. CASE /\ WitnessHolds(c) /\ CasHolds(request[c]) /\ request[c].anchor \notin orgs
             /\ Finish(c, "commit", "missing_parent") /\ UNCHANGED data
    <3>1. Atomic!Finish(c, "missing_parent")
      BY <2>3, FinishRefines DEF Answer
    <3>2. Atomic!CasHolds(request[c]) /\ Atomic!GuardPasses(request[c])
      BY <1>3, <2>3, NoWitnessIsNoUser
      DEF Commit, IInv, WitnessIsAnother, WitnessHolds, IsActiveAdmin, Guarded, CasHolds,
          Atomic!CasHolds, Atomic!GuardPasses, Atomic!Guarded, Atomic!ActiveAdmins,
          Atomic!IsActiveAdmin
    <3>3. QED
      BY <1>0, <1>3, <2>3, <3>1, <3>2 DEF Commit, Atomic!CallStep, Atomic!RejectMissingParent
  <2>4. CASE /\ WitnessHolds(c) /\ CasHolds(request[c]) /\ request[c].anchor \in orgs
             /\ Goto(c, "commit", "readback") /\ WriteRoleAndAudit(request[c])
             /\ UNCHANGED <<request, index, witness, attempt, answer>>
    BY <1>3, <2>4, CommitRefines DEF Commit, Atomic!CallStep
  <2>5. QED
    BY <1>3, <2>1, <2>2, <2>3, <2>4 DEF Commit
<1>4. CASE Conflict(c)
  <2>1. CASE Finish(c, "commit", "storage_error")
    <3>1. Atomic!Finish(c, "storage_error")
      BY <2>1, FinishRefines DEF Answer
    <3>2. QED
      BY <1>4, <3>1 DEF Conflict, Atomic!CallStep, Atomic!StorageFailure
  <2>2. CASE Goto(c, "commit", "read") /\ UNCHANGED <<request, answer>>
    BY <1>4, <2>2, InnerStepStutters DEF Conflict
  <2>3. QED
    BY <1>4, <2>1, <2>2 DEF Conflict
<1>5. CASE ResolveMiss(c)
  <2>1. CASE life[request[c].user] # "live" /\ Finish(c, "miss", "not_found")
    <3>1. Atomic!Finish(c, "not_found")
      BY <2>1, FinishRefines DEF Answer
    <3>2. QED
      BY <1>0, <1>5, <2>1, <3>1 DEF ResolveMiss, Atomic!CallStep, Atomic!NotFound
  <2>2. CASE /\ life[request[c].user] = "live" /\ role[request[c].user] = request[c].to
             /\ Finish(c, "miss", "no_change")
    <3>1. Atomic!Finish(c, "no_change")
      BY <2>2, FinishRefines DEF Answer
    <3>2. QED
      BY <1>0, <1>5, <2>2, <3>1 DEF ResolveMiss, Atomic!CallStep, Atomic!NoChange
  <2>3. CASE Finish(c, "miss", "storage_error")
    <3>1. Atomic!Finish(c, "storage_error")
      BY <2>3, FinishRefines DEF Answer
    <3>2. QED
      BY <1>5, <3>1 DEF ResolveMiss, Atomic!CallStep, Atomic!StorageFailure
  <2>4. QED
    BY <1>5, <2>1, <2>2, <2>3 DEF ResolveMiss
<1>6. CASE ReadBack(c)
  <2>1. CASE Finish(c, "readback", "transitioned")
    BY <1>6, <2>1, ReadBackStutters DEF ReadBack
  <2>2. CASE Finish(c, "readback", "unread")
    BY <1>6, <2>2, ReadBackStutters DEF ReadBack
  <2>3. QED
    BY <1>6, <2>1, <2>2 DEF ReadBack
<1>7. CASE StorageFailure(c)
  <2>1. CASE Finish(c, "readback", "unread")
    BY <1>7, <2>1, ReadBackStutters DEF StorageFailure
  <2>2. CASE \E p \in {"read", "guard", "commit", "miss"} : Finish(c, p, "storage_error")
    <3>1. Atomic!Finish(c, "storage_error")
      BY <2>2, FinishRefines DEF Answer
    <3>2. QED
      BY <1>7, <3>1 DEF StorageFailure, Atomic!CallStep, Atomic!StorageFailure
  <2>3. QED
    BY <1>7, <2>1, <2>2 DEF StorageFailure
<1>8. QED
  BY <1>1, <1>2, <1>3, <1>4, <1>5, <1>6, <1>7 DEF CallStep

\* The rest of the system takes the same step in both specifications.
LEMMA EnvironmentRefines ==
  ASSUME UNCHANGED callVars,
         \/ \E u \in User : Propagate(u) \/ Provision(u) \/ EraseEvent(u) \/ EraseUser(u)
         \/ \E o \in Organization : EraseOrganization(o)
  PROVE  Atomic!Next \/ UNCHANGED Atomic!vars
<1> USE DEF callVars, data
<1>1. UNCHANGED <<atomicPhase, atomicRequest, atomicAnswer>>
  BY DEF atomicPhase, atomicRequest, atomicAnswer
<1>2. ASSUME NEW u \in User, Propagate(u) PROVE UNCHANGED Atomic!vars
  BY <1>1, <1>2 DEF Propagate, Atomic!vars
<1>3. ASSUME NEW u \in User, Provision(u) PROVE Atomic!Next
  <2>1. Atomic!Provision(u)
    BY <1>1, <1>3 DEF Provision, ProvisionRow, Atomic!Provision, Atomic!ProvisionRow
  <2>2. QED
    BY <2>1 DEF Atomic!Next
<1>4. ASSUME NEW lost \in SUBSET Organization, NEW erased \in SUBSET User,
             NEW us \in SUBSET User, EraseRows(lost, erased), EraseEvents(erased \cup us)
      PROVE  Atomic!Next
  <2>1. Atomic!EraseRows(lost, erased) /\ Atomic!EraseEvents(erased \cup us)
    BY <1>4 DEF EraseRows, Atomic!EraseRows, EraseEvents, Atomic!EraseEvents
  <2>2. Atomic!Erase(lost, erased)
    BY <1>1, <2>1 DEF Atomic!Erase
  <2>3. QED
    BY <2>2 DEF Atomic!Next
<1>5. ASSUME NEW u \in User, EraseUser(u) PROVE Atomic!Next
  <2>1. EraseEvents({u} \cup {})
    BY <1>5 DEF EraseUser, EraseEvents
  <2>2. QED
    BY <1>4, <1>5, <2>1 DEF EraseUser
<1>6. ASSUME NEW o \in Organization, EraseOrganization(o) PROVE Atomic!Next
  <2>1. EraseEvents({} \cup {})
    BY <1>6 DEF EraseOrganization, EraseEvents
  <2>2. QED
    BY <1>4, <1>6, <2>1 DEF EraseOrganization
<1>7. ASSUME NEW u \in User, EraseEvent(u) PROVE Atomic!Next
  <2>1. EraseEvents({} \cup {u})
    BY <1>7 DEF EraseEvent, EraseEvents
  <2>2. QED
    BY <1>4, <1>7, <2>1 DEF EraseEvent
<1>8. QED
  BY <1>2, <1>3, <1>5, <1>6, <1>7

\* Making a call is making AdminRoles' call.
LEMMA ResolveRefines ==
  ASSUME IInv, NEW c \in Client, NEW u \in User, NEW to \in Role,
         NEW o \in Organization, Resolve(c, u, to, o)
  PROVE  Atomic!Resolve(c, u, to, o)
<1> USE DEF Resolve, Ask, Goto, IInv, TypeOK, StoreTypeOK, Phase, data
<1>1. atomicPhase[c] = "idle" /\ atomicPhase' = [atomicPhase EXCEPT ![c] = "pending"]
  BY DEF atomicPhase
<1>2. atomicRequest' = [atomicRequest EXCEPT ![c] = [user |-> u, to |-> to, anchor |-> o]]
  BY DEF atomicRequest
<1>3. atomicAnswer' = [atomicAnswer EXCEPT ![c] = "none"]
  BY DEF atomicAnswer
<1>4. QED
  BY <1>1, <1>2, <1>3 DEF Atomic!Resolve, Atomic!Ask, Atomic!data

\* The DynamoDB protocol implements the atomic transition of the contract.
THEOREM Implementation == Spec => ImplementsAtomic
<1>1. Init => Atomic!Init
  <2> SUFFICES ASSUME Init PROVE Atomic!Init
    OBVIOUS
  <2>1. /\ atomicPhase = [c \in Client |-> "idle"]
        /\ atomicRequest = [c \in Client |-> NoRequest]
        /\ atomicAnswer = [c \in Client |-> "none"]
    BY DEF Init, StoreInit, atomicPhase, atomicRequest, atomicAnswer
  <2>2. QED
    BY <2>1 DEF Init, StoreInit, Role, Atomic!Init, Atomic!StoreInit, Atomic!Role
<1>2. IInv /\ [Next]_vars => [Atomic!Next]_(Atomic!vars)
  <2> SUFFICES ASSUME IInv, [Next]_vars PROVE Atomic!Next \/ UNCHANGED Atomic!vars
    OBVIOUS
  <2>1. ASSUME NEW c \in Client, NEW u \in User, NEW to \in Role, NEW o \in Organization,
               Resolve(c, u, to, o)
        PROVE  Atomic!Next
    BY <2>1, ResolveRefines DEF Atomic!Next, Atomic!CallStep, Role, Atomic!Role
  <2>2. ASSUME NEW c \in Client, CallStep(c) PROVE Atomic!Next \/ UNCHANGED Atomic!vars
    BY <2>2, CallRefines DEF Atomic!Next
  <2>3. ASSUME NEW u \in User, Propagate(u) \/ Provision(u) \/ EraseEvent(u) \/ EraseUser(u)
        PROVE  Atomic!Next \/ UNCHANGED Atomic!vars
    BY <2>3, EnvironmentRefines DEF Propagate, Provision, EraseEvent, EraseUser
  <2>4. ASSUME NEW o \in Organization, EraseOrganization(o)
        PROVE  Atomic!Next \/ UNCHANGED Atomic!vars
    BY <2>4, EnvironmentRefines DEF EraseOrganization
  <2>5. CASE UNCHANGED vars
    BY <2>5 DEF vars, Atomic!vars, atomicPhase, atomicRequest, atomicAnswer
  <2>6. QED
    BY <2>1, <2>2, <2>3, <2>4, <2>5 DEF Next
<1>3. QED
  BY <1>1, <1>2, Invariance, PTL DEF Spec, Atomic!Spec, ImplementsAtomic
=============================================================================
