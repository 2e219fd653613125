--------------------------- MODULE MembersProofs ---------------------------
(***************************************************************************)
(* Proofs about the member API, for any users, organizations and number of *)
(* concurrent calls.                                                       *)
(***************************************************************************)
EXTENDS Members, FiniteSetTheorems, TLAPS

\* A call in progress has a request.
WellFormed == \A c \in Call : phase[c] # "idle" => request[c] \in Request

\* What remove_member relies on between its read and its delete: whoever was
\* no owner when it looked is none now.
DeletesNoOwner ==
  \A c \in Call : phase[c] = "delete" => RoleOf(request[c]) # "owner"

\* An active status a call has read was active during the call.
SeenWasActive ==
  \A c \in Call : (phase[c] = "membership" /\ seenStatus[c] = "active") => held[c].active

\* The inductive invariant.
IInv == TypeOK /\ WellFormed /\ DeletesNoOwner /\ SeenWasActive /\ DecisionIsFresh

Step(c) ==
  \/ \E r \in Request : Ask(c, r)
  \/ CallStep(c)

Environment == \E o \in Organization, s \in Status : Administer(o, s)
---------------------------------------------------------------------------
\* Next, regrouped by actor.
LEMMA NextIsStep == Next => Observe /\ (Environment \/ \E c \in Call : Step(c))
  BY DEF Next, Step, Environment

\* Initially every slot is idle.
LEMMA InvInit == Init => IInv
<1> SUFFICES ASSUME Init PROVE IInv
  OBVIOUS
<1> USE DEF Init, AccessInit
<1>1. TypeOK
  BY DEF TypeOK, AccessTypeOK, Phase, Answer, Status
<1>2. WellFormed /\ DeletesNoOwner /\ SeenWasActive /\ DecisionIsFresh
  BY DEF WellFormed, DeletesNoOwner, SeenWasActive, DecisionIsFresh
<1>3. QED
  BY <1>1, <1>2 DEF IInv

\* The history variable keeps its type in every step.
LEMMA ObserveKeepsType ==
  ASSUME IInv, Observe
  PROVE  held' \in [Call -> [admin : BOOLEAN, active : BOOLEAN]]
<1>1. \A c \in Call : held[c] \in [admin : BOOLEAN, active : BOOLEAN]
  BY DEF IInv, TypeOK, AccessTypeOK
<1>2. \A c \in Call : \A o, r : (held[c].active \/ orgStatus'[o] = "active") \in BOOLEAN
                               /\ (held[c].admin \/ IsAdministrator(r, o)) \in BOOLEAN
  BY <1>1 DEF IsAdministrator
<1>3. QED
  BY <1>1, <1>2 DEF Observe, IsAdministrator

\* What a request is made of.
LEMMA RequestFields ==
  ASSUME NEW r \in Request
  PROVE  /\ r.op \in {"add", "remove"}
         /\ r.org \in Organization
         /\ r.actor \in User
         /\ r.target \in User \cup {Stranger}
         /\ r.op = "add" => r.role \in Role
  BY DEF Request

\* What was true at some instant of a call stays so until the call ends.
LEMMA HeldGrows ==
  ASSUME IInv, Observe, NEW d \in Call, phase'[d] # "idle"
  PROVE  /\ held[d].admin => held'[d].admin
         /\ held[d].active => held'[d].active
         /\ orgStatus'[request'[d].org] = "active" => held'[d].active
         /\ IsAdministrator(member'[request'[d].org], request'[d].actor) => held'[d].admin
  BY DEF Observe

\* A call that ends, having changed no role, keeps the invariant.
LEMMA EndKeepsInv ==
  ASSUME IInv, Observe, NEW c \in Call, NEW a \in Answer, End(c, a),
         UNCHANGED <<orgStatus, member>>,
         balance' \in [Organization -> [User -> Int]],
         unaudited' \in [Organization -> [User -> Int]]
  PROVE  IInv'
<1> USE DEF End, Finish
<1>1. TypeOK'
  BY ObserveKeepsType DEF IInv, TypeOK, AccessTypeOK, Phase, Status
<1>2. \A d \in Call : phase'[d] # "idle" =>
        d # c /\ phase'[d] = phase[d] /\ request'[d] = request[d] /\ seenStatus'[d] = seenStatus[d]
  BY DEF IInv, TypeOK, AccessTypeOK
<1>3. WellFormed'
  BY <1>2 DEF IInv, WellFormed
<1>4. DeletesNoOwner'
  BY <1>2 DEF IInv, DeletesNoOwner, RoleOf
<1>5. SeenWasActive'
  BY <1>2, HeldGrows DEF IInv, SeenWasActive
<1>6. DecisionIsFresh'
  BY <1>2, HeldGrows DEF IInv, DecisionIsFresh
<1>7. QED
  BY <1>1, <1>3, <1>4, <1>5, <1>6 DEF IInv

\* A call that moves on without changing a role keeps the invariant if its own
\* part does.
LEMMA MoveKeepsInv ==
  ASSUME IInv, Observe, NEW c \in Call, NEW from \in Phase, NEW to \in Phase \ {"idle"},
         Goto(c, from, to),
         request' \in [Call -> Request \cup {NoRequest}], request'[c] \in Request,
         seenStatus' \in [Call -> Status], answer' \in [Call -> Answer],
         found' \in [Call -> Role \cup {"none"}],
         \A d \in Call \ {c} : request'[d] = request[d] /\ seenStatus'[d] = seenStatus[d],
         UNCHANGED <<orgStatus, member, balance, unaudited>>,
         to = "delete" => RoleOf(request'[c]) # "owner",
         (to = "membership" /\ seenStatus'[c] = "active") => held'[c].active,
         to \in {"act", "delete", "audit"} => held'[c].admin /\ held'[c].active
  PROVE  IInv'
<1> USE DEF Goto
<1>1. TypeOK'
  BY ObserveKeepsType DEF IInv, TypeOK, AccessTypeOK
<1>2. phase'[c] = to /\ \A d \in Call \ {c} : phase'[d] = phase[d]
  BY DEF IInv, TypeOK, AccessTypeOK
<1>3. WellFormed'
  BY <1>2 DEF IInv, WellFormed
<1>4. DeletesNoOwner'
  BY <1>2 DEF IInv, DeletesNoOwner, RoleOf
<1>5. SeenWasActive'
  BY <1>2, HeldGrows DEF IInv, SeenWasActive
<1>6. DecisionIsFresh'
  BY <1>2, HeldGrows DEF IInv, DecisionIsFresh
<1>7. QED
  BY <1>1, <1>3, <1>4, <1>5, <1>6 DEF IInv
---------------------------------------------------------------------------
\* A call begins in a slot that is idle.
LEMMA AskKeepsInv ==
  ASSUME IInv, Observe, NEW c \in Call, NEW r \in Request, Ask(c, r)
  PROVE  IInv'
<1>1. /\ Goto(c, "idle", "organization")
      /\ request' \in [Call -> Request \cup {NoRequest}] /\ request'[c] \in Request
      /\ answer' \in [Call -> Answer]
      /\ UNCHANGED <<seenStatus, found, orgStatus, member, balance, unaudited>>
      /\ \A d \in Call \ {c} : request'[d] = request[d]
  BY DEF Ask, Begin, Answer, IInv, TypeOK, AccessTypeOK
<1>2. "idle" \in Phase /\ "organization" \in Phase \ {"idle"}
  BY DEF Phase
<1>3. QED
  BY <1>1, <1>2, MoveKeepsInv DEF IInv, TypeOK, AccessTypeOK

\* The decision uses the status and the membership the call itself has read.
LEMMA AuthorizeKeepsInv ==
  ASSUME IInv, Observe, NEW c \in Call, Authorize(c)
  PROVE  IInv'
<1> USE DEF IInv, TypeOK, AccessTypeOK
<1>0. {"organization", "membership", "act", "deny"} \subseteq Phase \ {"idle"}
  BY DEF Phase
<1>1. CASE FetchOrganization(c, "membership")
  <2>1. request[c] \in Request
    BY <1>1 DEF FetchOrganization, Goto, WellFormed
  <2>2. orgStatus[request[c].org] \in Status
    BY <1>1, <2>1, RequestFields DEF FetchOrganization, Known
  <2>3. /\ seenStatus' \in [Call -> Status]
        /\ seenStatus'[c] = orgStatus'[request'[c].org]
        /\ phase'[c] = "membership"
        /\ \A d \in Call \ {c} : seenStatus'[d] = seenStatus[d]
    BY <1>1, <2>1, <2>2, RequestFields DEF FetchOrganization, Goto
  <2>4. seenStatus'[c] = "active" => held'[c].active
    BY <2>3, HeldGrows
  <2>5. QED
    BY <1>0, <1>1, <2>1, <2>3, <2>4, MoveKeepsInv DEF FetchOrganization, Authorize
<1>2. CASE CheckMembership(c)
  <2> DEFINE granted == Granted(seenStatus[c], member[request[c].org][request[c].actor], "admin")
  <2>1. request[c] \in Request
    BY <1>2 DEF CheckMembership, WellFormed
  <2>2. CASE granted
    <3>1. Goto(c, "membership", "act") /\ UNCHANGED <<orgStatus, member, request, seenStatus, answer>>
      BY <1>2, <2>2 DEF CheckMembership
    <3>2. phase'[c] # "idle"
      BY <3>1 DEF Goto
    <3>3. held'[c].active
      BY <2>2, <3>1, <3>2, HeldGrows DEF Granted, SeenWasActive, Goto
    <3>4. held'[c].admin
      BY <2>1, <2>2, <3>1, <3>2, RequestFields, HeldGrows DEF Granted, IsAdministrator
    <3>5. QED
      BY <1>0, <2>1, <3>1, <3>3, <3>4, MoveKeepsInv DEF Authorize
  <2>3. CASE ~granted
    <3>1. Goto(c, "membership", "deny") /\ UNCHANGED <<orgStatus, member, request, seenStatus, answer>>
      BY <1>2, <2>3 DEF CheckMembership
    <3>2. QED
      BY <1>0, <2>1, <3>1, MoveKeepsInv DEF Authorize
  <2>4. QED
    BY <2>2, <2>3
<1>3. QED
  BY <1>1, <1>2 DEF Authorize

\* A call that has written its membership, not an owner's, goes on to the audit.
LEMMA WriteKeepsInv ==
  ASSUME IInv, Observe, NEW c \in Call, NEW from \in {"act", "delete"},
         Goto(c, from, "audit"), request[c].target \in User,
         NEW role \in (Role \cup {"none"}) \ {"owner"},
         member' = [member EXCEPT ![request[c].org][request[c].target] = role],
         UNCHANGED <<orgStatus, request, seenStatus, answer, found, balance, unaudited>>
  PROVE  IInv'
<1> USE DEF Goto
<1>0. request[c] \in Request /\ request[c].org \in Organization
  BY RequestFields DEF IInv, WellFormed
<1>1. TypeOK'
  BY <1>0, ObserveKeepsType DEF IInv, TypeOK, AccessTypeOK, Phase
<1>2. phase'[c] = "audit" /\ \A d \in Call \ {c} : phase'[d] = phase[d]
  BY DEF IInv, TypeOK, AccessTypeOK
<1>3. WellFormed'
  BY <1>2 DEF IInv, WellFormed
<1>4. DeletesNoOwner'
  <2> SUFFICES ASSUME NEW d \in Call, phase'[d] = "delete" PROVE RoleOf(request[d])' # "owner"
    BY DEF DeletesNoOwner
  <2>1. d # c /\ phase[d] = "delete" /\ RoleOf(request[d]) # "owner"
    BY <1>2 DEF IInv, DeletesNoOwner
  <2>2. request[d] \in Request
    BY <2>1 DEF IInv, WellFormed
  <2>3. QED
    BY <1>0, <2>1, <2>2, RequestFields DEF RoleOf, IInv, TypeOK, AccessTypeOK
<1>5. SeenWasActive'
  BY <1>2, HeldGrows DEF IInv, SeenWasActive
<1>6. DecisionIsFresh'
  BY <1>2, HeldGrows DEF IInv, DecisionIsFresh
<1>7. QED
  BY <1>1, <1>3, <1>4, <1>5, <1>6 DEF IInv

\* add_member refuses the owner role before it writes.
LEMMA CreateKeepsInv ==
  ASSUME IInv, Observe, NEW c \in Call, CreateMembership(c)
  PROVE  IInv'
<1>1. CASE \E a \in Answer : End(c, a) /\ UNCHANGED member
  BY <1>1, EndKeepsInv DEF CreateMembership, IInv, TypeOK
<1>2. CASE /\ request[c].role # "owner" /\ request[c].target # Stranger
           /\ Goto(c, "act", "audit")
           /\ member' = [member EXCEPT ![request[c].org][request[c].target] = request[c].role]
           /\ UNCHANGED <<request, seenStatus, answer, found>>
  <2>1. request[c] \in Request
    BY <1>2 DEF Goto, IInv, WellFormed
  <2>2. request[c].role \in (Role \cup {"none"}) \ {"owner"} /\ request[c].target \in User
    BY <1>2, <2>1, RequestFields DEF CreateMembership
  <2>3. QED
    BY <1>2, <2>2, WriteKeepsInv DEF CreateMembership
<1>3. QED
  BY <1>1, <1>2 DEF CreateMembership, Answer

\* remove_member refuses owners before it deletes.
LEMMA LookupKeepsInv ==
  ASSUME IInv, Observe, NEW c \in Call, LookupMembership(c)
  PROVE  IInv'
<1>1. CASE \E a \in Answer : End(c, a)
  BY <1>1, EndKeepsInv DEF LookupMembership, IInv, TypeOK
<1>2. CASE /\ RoleOf(request[c]) \notin {"none", "owner"}
           /\ Goto(c, "act", "delete")
           /\ found' = [found EXCEPT ![c] = RoleOf(request[c])]
           /\ UNCHANGED <<request, seenStatus, answer>>
  <2>1. request[c] \in Request
    BY <1>2 DEF Goto, IInv, WellFormed
  <2>2. RoleOf(request[c]) \in Role \cup {"none"}
    BY <2>1, RequestFields DEF RoleOf, IInv, TypeOK, AccessTypeOK
  <2>3. found' \in [Call -> Role \cup {"none"}]
    BY <1>2, <2>2 DEF IInv, TypeOK
  <2>4. held'[c].admin /\ held'[c].active
    BY <1>2, HeldGrows DEF Goto, IInv, DecisionIsFresh, TypeOK, AccessTypeOK
  <2>5. "act" \in Phase /\ "delete" \in Phase \ {"idle"}
    BY DEF Phase
  <2>6. RoleOf(request[c]) = RoleOf(request'[c])
    BY <1>2
  <2>7. QED
    BY <1>2, <2>1, <2>3, <2>4, <2>5, <2>6, MoveKeepsInv DEF LookupMembership, IInv, TypeOK, AccessTypeOK
<1>3. QED
  BY <1>1, <1>2 DEF LookupMembership, Answer

\* The delete takes a membership that is no owner's.
LEMMA DeleteKeepsInv ==
  ASSUME IInv, Observe, NEW c \in Call, DeleteMembership(c)
  PROVE  IInv'
<1>1. CASE End(c, "not_found") /\ UNCHANGED member
  BY <1>1, EndKeepsInv DEF DeleteMembership, IInv, TypeOK, Answer
<1>2. CASE /\ RoleOf(request[c]) # "none"
           /\ Goto(c, "delete", "audit")
           /\ member' = [member EXCEPT ![request[c].org][request[c].target] = "none"]
           /\ UNCHANGED <<request, seenStatus, answer, found>>
  <2>1. request[c] \in Request
    BY <1>2 DEF Goto, IInv, WellFormed
  <2>2. request[c].target \in User
    BY <1>2, <2>1, RequestFields DEF RoleOf
  <2>3. "none" \in (Role \cup {"none"}) \ {"owner"}
    OBVIOUS
  <2>4. QED
    BY <1>2, <2>2, <2>3, WriteKeepsInv DEF DeleteMembership
<1>3. QED
  BY <1>1, <1>2 DEF DeleteMembership

\* Refusals, denials, audits and failures end a call.
LEMMA FinalStepKeepsInv ==
  ASSUME IInv, Observe, NEW c \in Call,
         RefuseUnknown(c) \/ Deny(c) \/ AppendAudit(c) \/ Fail(c)
  PROVE  IInv'
<1>0. phase[c] # "idle" => request[c].org \in Organization /\ Change(request[c]) \in Int
  BY RequestFields DEF IInv, WellFormed, Change
<1>a. ASSUME NEW f \in [Organization -> [User -> Int]], NEW o \in Organization, NEW u, NEW n \in Int
      PROVE  [f EXCEPT ![o][u] = @ + n] \in [Organization -> [User -> Int]]
  <2> DEFINE g == [f[o] EXCEPT ![u] = @ + n]
  <2>1. f[o] \in [User -> Int]
    OBVIOUS
  <2>2. \A v \in User : g[v] \in Int
    BY <2>1
  <2>3. g \in [User -> Int]
    BY <2>1, <2>2
  <2>4. [f EXCEPT ![o] = g] \in [Organization -> [User -> Int]]
    BY <2>3
  <2>5. QED
    BY <2>4
<1>1. CASE RefuseUnknown(c) \/ Deny(c)
  <2>1. UNCHANGED <<orgStatus, member, balance, unaudited>> /\ End(c, "forbidden")
    BY <1>1 DEF RefuseUnknown, Deny
  <2>2. QED
    BY <2>1, EndKeepsInv DEF IInv, TypeOK, Answer
<1>2. CASE AppendAudit(c)
  <2>1. balance' \in [Organization -> [User -> Int]]
    BY <1>0, <1>2, <1>a DEF AppendAudit, IInv, TypeOK
  <2>2. QED
    BY <1>2, <2>1, EndKeepsInv DEF AppendAudit, IInv, TypeOK, Answer
<1>3. CASE Fail(c)
  <2>1. unaudited' \in [Organization -> [User -> Int]]
    BY <1>0, <1>3, <1>a DEF Fail, IInv, TypeOK
  <2>2. QED
    BY <1>3, <2>1, EndKeepsInv DEF Fail, IInv, TypeOK, Answer
<1>4. QED
  BY <1>1, <1>2, <1>3

\* A suspension or reactivation changes no call.
LEMMA EnvironmentKeepsInv ==
  ASSUME IInv, Observe, Environment
  PROVE  IInv'
<1>1. PICK o \in Organization, s \in Status : Administer(o, s)
  BY DEF Environment
<1> USE <1>1 DEF Administer, SetStatus
<1>2. TypeOK'
  BY ObserveKeepsType DEF IInv, TypeOK, AccessTypeOK
<1>3. WellFormed' /\ DeletesNoOwner'
  BY DEF IInv, WellFormed, DeletesNoOwner, RoleOf
<1>4. SeenWasActive' /\ DecisionIsFresh'
  BY HeldGrows DEF IInv, SeenWasActive, DecisionIsFresh
<1>5. QED
  BY <1>2, <1>3, <1>4 DEF IInv

\* Every step keeps the invariant.
LEMMA NextKeepsInv == IInv /\ [Next]_vars => IInv'
<1> SUFFICES ASSUME IInv, [Next]_vars PROVE IInv'
  OBVIOUS
<1>1. CASE Next
  <2>1. Observe
    BY <1>1 DEF Next
  <2>2. CASE Environment
    BY <2>1, <2>2, EnvironmentKeepsInv
  <2>3. ASSUME NEW c \in Call, Step(c) PROVE IInv'
    BY <2>1, <2>3, AskKeepsInv, AuthorizeKeepsInv, CreateKeepsInv, LookupKeepsInv,
       DeleteKeepsInv, FinalStepKeepsInv DEF Step, CallStep
  <2>4. QED
    BY <1>1, <2>2, <2>3, NextIsStep
<1>2. CASE UNCHANGED vars
  BY <1>2 DEF vars, accessVars, IInv, TypeOK, AccessTypeOK, WellFormed, DeletesNoOwner,
              SeenWasActive, DecisionIsFresh, RoleOf
<1>3. QED
  BY <1>1, <1>2

\* The inductive invariant holds in every reachable state.
THEOREM Invariance == Spec => []IInv
<1>1. QED
  BY InvInit, NextKeepsInv, PTL DEF Spec

\* The type invariant of the member API.
THEOREM TypeCorrect == Spec => []TypeOK
<1>1. IInv => TypeOK
  BY DEF IInv
<1>2. QED
  BY <1>1, Invariance, PTL

\* No call acts on a decision older than itself.
THEOREM FreshCorrect == Spec => []DecisionIsFresh
<1>1. IInv => DecisionIsFresh
  BY DEF IInv
<1>2. QED
  BY <1>1, Invariance, PTL
---------------------------------------------------------------------------
\* The two writes leave the owners of every organization alone: one fills an
\* empty place with another role, the other empties the place of a non-owner.
LEMMA StepKeepsOwners ==
  ASSUME IInv, [Next]_vars, NEW o \in Organization
  PROVE  Owners(o)' = Owners(o)
<1>1. ASSUME NEW c \in Call, CreateMembership(c), ~ UNCHANGED member PROVE Owners(o)' = Owners(o)
  <2>1. request[c] \in Request
    BY <1>1 DEF CreateMembership, IInv, WellFormed
  <2>2. /\ request[c].role # "owner" /\ request[c].target \in User /\ request[c].org \in Organization
        /\ member[request[c].org][request[c].target] = "none"
        /\ member' = [member EXCEPT ![request[c].org][request[c].target] = request[c].role]
    BY <1>1, <2>1, RequestFields DEF CreateMembership, RoleOf
  <2>3. QED
    BY <2>2 DEF Owners, IInv, TypeOK, AccessTypeOK
<1>2. ASSUME NEW c \in Call, DeleteMembership(c), ~ UNCHANGED member PROVE Owners(o)' = Owners(o)
  <2>1. request[c] \in Request
    BY <1>2 DEF DeleteMembership, IInv, WellFormed
  <2>2. /\ request[c].target \in User /\ request[c].org \in Organization
        /\ member[request[c].org][request[c].target] # "owner"
        /\ member' = [member EXCEPT ![request[c].org][request[c].target] = "none"]
    BY <1>2, <2>1, RequestFields DEF DeleteMembership, RoleOf, IInv, DeletesNoOwner
  <2>3. QED
    BY <2>2 DEF Owners, IInv, TypeOK, AccessTypeOK
<1>3. CASE UNCHANGED member
  BY <1>3 DEF Owners
<1>4. CASE ~ UNCHANGED member
  BY <1>1, <1>2, <1>4 DEF Next, vars, accessVars, Ask, Begin, CallStep, Authorize,
     FetchOrganization, CheckMembership, RefuseUnknown, Deny, LookupMembership, AppendAudit, Fail,
     Administer, SetStatus
<1>5. QED
  BY <1>3, <1>4

\* An organization keeps its owners whatever its members do.
THEOREM OwnersStay == Spec => OwnersFixed
<1>1. IInv /\ [Next]_vars => [\A o \in Organization : Owners(o)' = Owners(o)]_vars
  BY StepKeepsOwners
<1>2. QED
  BY <1>1, Invariance, PTL DEF Spec, OwnersFixed
---------------------------------------------------------------------------
(***************************************************************************)
(* The audit log accounts for every membership.  The memberships granted   *)
(* and removed but not yet audited are counted as calls.                   *)
(***************************************************************************)
\* A set of calls and one more call.
LEMMA OneMore ==
  ASSUME NEW S \in SUBSET Call, NEW c \in Call
  PROVE  /\ Cardinality(S) \in Nat
         /\ c \notin S => Cardinality(S \cup {c}) = Cardinality(S) + 1
         /\ c \in S => Cardinality(S \ {c}) = Cardinality(S) - 1
<1>1. IsFiniteSet(S)
  BY CallIsFinite, FS_Subset
<1>2. Cardinality(S) \in Nat
  BY <1>1, FS_CardinalityType
<1>3. Cardinality(S \cup {c}) = IF c \in S THEN Cardinality(S) ELSE Cardinality(S) + 1
  BY <1>1, FS_AddElement, Zenon
<1>4. Cardinality(S \ {c}) = IF c \in S THEN Cardinality(S) - 1 ELSE Cardinality(S)
  BY <1>1, FS_RemoveElement, Zenon
<1>5. QED
  BY <1>2, <1>3, <1>4

\* Only a removal deletes.
OnlyRemovalsDelete == \A c \in Call : phase[c] = "delete" => request[c].op = "remove"

\* What explains the membership of u in o.
Explained(o, u) ==
  (IF member[o][u] = "none" THEN 0 ELSE 1) =
    balance[o][u] + unaudited[o][u]
      + Cardinality(Unlogged("add", o, u)) - Cardinality(Unlogged("remove", o, u))

\* The request of c changes the membership of u in o.
Concerns(c, o, u) == request[c].org = o /\ request[c].target = u

\* A step of a call that neither was nor is between its write and its audit
\* explains what was explained.
LEMMA NothingNew ==
  ASSUME NEW c \in Call, phase[c] # "audit", phase'[c] # "audit",
         \A d \in Call \ {c} : phase'[d] = phase[d] /\ request'[d] = request[d],
         UNCHANGED <<member, balance, unaudited>>,
         NEW o \in Organization, NEW u \in User, Explained(o, u)
  PROVE  Explained(o, u)'
<1>1. \A op : Unlogged(op, o, u)' = Unlogged(op, o, u)
  BY DEF Unlogged
<1>2. QED
  BY <1>1 DEF Explained

\* A write adds the call to those not logged yet.
LEMMA WriteExplained ==
  ASSUME IInv, NEW c \in Call, NEW from \in {"act", "delete"}, Goto(c, from, "audit"),
         UNCHANGED <<request, balance, unaudited>>,
         NEW role \in Role \cup {"none"},
         request[c] \in Request, request[c].target \in User,
         member' = [member EXCEPT ![request[c].org][request[c].target] = role],
         \/ request[c].op = "add" /\ role # "none" /\ RoleOf(request[c]) = "none"
         \/ request[c].op = "remove" /\ role = "none" /\ RoleOf(request[c]) # "none",
         NEW o \in Organization, NEW u \in User, Explained(o, u)
  PROVE  Explained(o, u)'
<1>1. request[c].org \in Organization /\ request[c].target # Stranger
  BY RequestFields, StrangerIsNoUser
<1>2. /\ phase'[c] = "audit" /\ phase[c] # "audit"
      /\ \A d \in Call \ {c} : phase'[d] = phase[d]
  BY DEF Goto, IInv, TypeOK, AccessTypeOK
<1>3. /\ \A op : Unlogged(op, o, u) \in SUBSET Call /\ c \notin Unlogged(op, o, u)
      /\ \A op : Unlogged(op, o, u)' = IF Concerns(c, o, u) /\ request[c].op = op
                                         THEN Unlogged(op, o, u) \cup {c}
                                         ELSE Unlogged(op, o, u)
  BY <1>2 DEF Unlogged, Concerns
<1>4. balance[o][u] \in Int /\ unaudited[o][u] \in Int
  BY DEF IInv, TypeOK
<1>5. /\ member'[o][u] = IF Concerns(c, o, u) THEN role ELSE member[o][u]
  BY <1>1 DEF IInv, TypeOK, AccessTypeOK, Concerns
<1>6. /\ Cardinality(Unlogged("add", o, u)) \in Nat
      /\ Cardinality(Unlogged("remove", o, u)) \in Nat
      /\ \A op : Cardinality(Unlogged(op, o, u) \cup {c}) = Cardinality(Unlogged(op, o, u)) + 1
  BY <1>3, OneMore
<1>7. CASE ~ Concerns(c, o, u)
  BY <1>3, <1>5, <1>7 DEF Explained
<1>8. CASE Concerns(c, o, u) /\ request[c].op = "add"
  <2>1. member[o][u] = "none" /\ member'[o][u] # "none"
    BY <1>1, <1>5, <1>8 DEF RoleOf, Concerns
  <2>2. /\ Cardinality(Unlogged("add", o, u)') = Cardinality(Unlogged("add", o, u)) + 1
        /\ Unlogged("remove", o, u)' = Unlogged("remove", o, u)
    BY <1>3, <1>6, <1>8
  <2>3. QED
    BY <1>4, <1>6, <2>1, <2>2 DEF Explained
<1>9. CASE Concerns(c, o, u) /\ request[c].op = "remove"
  <2>1. member[o][u] # "none" /\ member'[o][u] = "none"
    BY <1>1, <1>5, <1>9 DEF RoleOf, Concerns
  <2>2. /\ Cardinality(Unlogged("remove", o, u)') = Cardinality(Unlogged("remove", o, u)) + 1
        /\ Unlogged("add", o, u)' = Unlogged("add", o, u)
    BY <1>3, <1>6, <1>9
  <2>3. QED
    BY <1>4, <1>6, <2>1, <2>2 DEF Explained
<1>10. QED
  BY <1>7, <1>8, <1>9

\* A counter f, one of balance and unaudited, takes over the change of a call.
LEMMA ChangeIsCounted ==
  ASSUME NEW f \in [Organization -> [User -> Int]], NEW r \in Request,
         NEW o \in Organization, NEW u \in User
  PROVE  LET g == [f EXCEPT ![r.org][r.target] = @ + Change(r)]
         IN g[o][u] = IF r.org = o /\ r.target = u THEN f[o][u] + Change(r) ELSE f[o][u]
<1>1. r.org \in Organization
  BY RequestFields
<1>2. f[r.org] \in [User -> Int]
  BY <1>1
<1>3. QED
  BY <1>1, <1>2

\* A call that ends after its write, audited or not, is counted for good.
LEMMA EndExplained ==
  ASSUME IInv, NEW c \in Call, phase[c] = "audit", phase'[c] = "idle",
         \A d \in Call \ {c} : phase'[d] = phase[d] /\ request'[d] = request[d],
         UNCHANGED member,
         NEW o \in Organization, NEW u \in User, Explained(o, u),
         balance'[o][u] + unaudited'[o][u] =
           balance[o][u] + unaudited[o][u] +
             (IF Concerns(c, o, u) THEN Change(request[c]) ELSE 0),
         balance'[o][u] \in Int, unaudited'[o][u] \in Int
  PROVE  Explained(o, u)'
<1>1. request[c] \in Request
  BY DEF IInv, WellFormed
<1>2. request[c].op \in {"add", "remove"}
  BY <1>1, RequestFields
<1>3. /\ \A op : Unlogged(op, o, u) \in SUBSET Call
      /\ \A op : c \in Unlogged(op, o, u) <=> Concerns(c, o, u) /\ request[c].op = op
      /\ \A op : Unlogged(op, o, u)' = Unlogged(op, o, u) \ {c}
  BY DEF Unlogged, Concerns
<1>4. balance[o][u] \in Int /\ unaudited[o][u] \in Int
  BY DEF IInv, TypeOK
<1>5. /\ Cardinality(Unlogged("add", o, u)) \in Nat
      /\ Cardinality(Unlogged("remove", o, u)) \in Nat
      /\ \A op : c \in Unlogged(op, o, u) =>
           Cardinality(Unlogged(op, o, u) \ {c}) = Cardinality(Unlogged(op, o, u)) - 1
      /\ \A op : c \notin Unlogged(op, o, u) =>
           Cardinality(Unlogged(op, o, u) \ {c}) = Cardinality(Unlogged(op, o, u))
  <2>1. \A op : c \notin Unlogged(op, o, u) => Unlogged(op, o, u) \ {c} = Unlogged(op, o, u)
    OBVIOUS
  <2>2. QED
    BY <1>3, <2>1, OneMore
<1>6. CASE ~ Concerns(c, o, u)
  <2>1. \A op : Cardinality(Unlogged(op, o, u)') = Cardinality(Unlogged(op, o, u))
    BY <1>3, <1>5, <1>6
  <2>2. QED
    BY <1>4, <1>5, <1>6, <2>1 DEF Explained
<1>7. CASE Concerns(c, o, u) /\ request[c].op = "add"
  <2>1. /\ Cardinality(Unlogged("add", o, u)') = Cardinality(Unlogged("add", o, u)) - 1
        /\ Cardinality(Unlogged("remove", o, u)') = Cardinality(Unlogged("remove", o, u))
    BY <1>3, <1>5, <1>7
  <2>2. QED
    BY <1>4, <1>5, <1>7, <2>1 DEF Explained, Change
<1>8. CASE Concerns(c, o, u) /\ request[c].op = "remove"
  <2>1. /\ Cardinality(Unlogged("remove", o, u)') = Cardinality(Unlogged("remove", o, u)) - 1
        /\ Cardinality(Unlogged("add", o, u)') = Cardinality(Unlogged("add", o, u))
    BY <1>3, <1>5, <1>8
  <2>2. QED
    BY <1>4, <1>5, <1>8, <2>1 DEF Explained, Change
<1>9. QED
  BY <1>2, <1>6, <1>7, <1>8

\* How the steps of a call move it, and only it.
LEMMA OnlyOneMoves ==
  ASSUME IInv, NEW c \in Call
  PROVE  /\ \A a : End(c, a) =>
              /\ phase'[c] = "idle"
              /\ \A d \in Call \ {c} : phase'[d] = phase[d] /\ request'[d] = request[d]
         /\ \A from, to : Goto(c, from, to) =>
              /\ phase[c] = from /\ phase'[c] = to
              /\ \A d \in Call \ {c} : phase'[d] = phase[d]
  BY DEF End, Finish, Goto, IInv, TypeOK, AccessTypeOK

LEMMA AskExplained ==
  ASSUME IInv, NEW c \in Call, NEW r \in Request, Ask(c, r) \/ Authorize(c) \/ RefuseUnknown(c) \/ Deny(c),
         NEW o \in Organization, NEW u \in User, Explained(o, u)
  PROVE  Explained(o, u)'
<1>1. UNCHANGED <<member, balance, unaudited>>
  BY DEF Ask, Begin, Authorize, FetchOrganization, CheckMembership, RefuseUnknown, Deny
<1>2. phase[c] # "audit" /\ phase'[c] # "audit"
  BY OnlyOneMoves DEF Ask, Begin, Authorize, FetchOrganization, CheckMembership, RefuseUnknown,
     IsUnknown, Deny
<1>3. \A d \in Call \ {c} : phase'[d] = phase[d] /\ request'[d] = request[d]
  BY OnlyOneMoves DEF Ask, Begin, Authorize, FetchOrganization, CheckMembership, RefuseUnknown,
     Deny, IInv, TypeOK, AccessTypeOK
<1>4. QED
  BY <1>1, <1>2, <1>3, NothingNew

LEMMA CreateExplained ==
  ASSUME IInv, NEW c \in Call, CreateMembership(c),
         NEW o \in Organization, NEW u \in User, Explained(o, u)
  PROVE  Explained(o, u)'
<1>1. phase[c] = "act" /\ request[c] \in Request /\ UNCHANGED <<balance, unaudited>>
  BY DEF CreateMembership, IInv, WellFormed
<1>2. ASSUME NEW a, End(c, a), UNCHANGED member PROVE Explained(o, u)'
  BY <1>1, <1>2, OnlyOneMoves, NothingNew
<1>3. CASE Goto(c, "act", "audit")
  <2>1. phase'[c] = "audit"
    BY <1>3, OnlyOneMoves
  <2>2. /\ request[c].role # "owner" /\ request[c].target # Stranger /\ RoleOf(request[c]) = "none"
        /\ member' = [member EXCEPT ![request[c].org][request[c].target] = request[c].role]
        /\ UNCHANGED request /\ request[c].op = "add"
    BY <2>1, OnlyOneMoves DEF CreateMembership
  <2>3. /\ request[c].target \in User /\ request[c].role \in Role
        /\ request[c].role # "none"
    BY <1>1, <2>2, RequestFields DEF Role
  <2>4. QED
    BY <1>1, <1>3, <2>2, <2>3, WriteExplained
<1>4. QED
  BY <1>2, <1>3 DEF CreateMembership

LEMMA LookupExplained ==
  ASSUME IInv, NEW c \in Call, LookupMembership(c),
         NEW o \in Organization, NEW u \in User, Explained(o, u)
  PROVE  Explained(o, u)'
<1>1. phase[c] = "act" /\ UNCHANGED <<member, balance, unaudited>>
  BY DEF LookupMembership
<1>2. /\ phase'[c] # "audit"
      /\ \A d \in Call \ {c} : phase'[d] = phase[d] /\ request'[d] = request[d]
  BY OnlyOneMoves DEF LookupMembership
<1>3. QED
  BY <1>1, <1>2, NothingNew

LEMMA DeleteExplained ==
  ASSUME IInv, OnlyRemovalsDelete, NEW c \in Call, DeleteMembership(c),
         NEW o \in Organization, NEW u \in User, Explained(o, u)
  PROVE  Explained(o, u)'
<1>1. phase[c] = "delete" /\ request[c] \in Request /\ UNCHANGED <<balance, unaudited>>
  BY DEF DeleteMembership, IInv, WellFormed
<1>2. CASE End(c, "not_found") /\ UNCHANGED member
  BY <1>1, <1>2, OnlyOneMoves, NothingNew
<1>3. CASE RoleOf(request[c]) # "none" /\ Goto(c, "delete", "audit")
  <2>1. phase'[c] = "audit"
    BY <1>3, OnlyOneMoves
  <2>2. /\ member' = [member EXCEPT ![request[c].org][request[c].target] = "none"]
        /\ UNCHANGED request
    BY <2>1, OnlyOneMoves DEF DeleteMembership
  <2>3. request[c].target \in User /\ request[c].op = "remove"
    BY <1>1, <1>3, RequestFields DEF RoleOf, OnlyRemovalsDelete
  <2>4. QED
    BY <1>1, <1>3, <2>2, <2>3, WriteExplained
<1>4. QED
  BY <1>2, <1>3 DEF DeleteMembership

\* An audit event appended and an audit event lost both count.
LEMMA AppendExplained ==
  ASSUME IInv, NEW c \in Call, AppendAudit(c),
         NEW o \in Organization, NEW u \in User, Explained(o, u)
  PROVE  Explained(o, u)'
<1>1. /\ phase[c] = "audit" /\ request[c] \in Request /\ UNCHANGED <<member, unaudited>>
      /\ balance' = [balance EXCEPT ![request[c].org][request[c].target] = @ + Change(request[c])]
      /\ End(c, "done")
  BY DEF AppendAudit, IInv, WellFormed
<1>2. balance \in [Organization -> [User -> Int]] /\ unaudited \in [Organization -> [User -> Int]]
  BY DEF IInv, TypeOK
<1>3. balance[o][u] \in Int /\ unaudited[o][u] \in Int /\ Change(request[c]) \in Int
  BY <1>2 DEF Change
<1>4. balance'[o][u] = IF Concerns(c, o, u) THEN balance[o][u] + Change(request[c])
                                            ELSE balance[o][u]
  BY <1>1, <1>2, ChangeIsCounted DEF Concerns
<1>5. /\ balance'[o][u] + unaudited'[o][u] =
           balance[o][u] + unaudited[o][u] +
             (IF Concerns(c, o, u) THEN Change(request[c]) ELSE 0)
      /\ balance'[o][u] \in Int /\ unaudited'[o][u] \in Int
  BY <1>1, <1>3, <1>4
<1>6. QED
  BY <1>1, <1>5, OnlyOneMoves, EndExplained

LEMMA FailExplained ==
  ASSUME IInv, NEW c \in Call, Fail(c),
         NEW o \in Organization, NEW u \in User, Explained(o, u)
  PROVE  Explained(o, u)'
<1>1. phase[c] # "idle" /\ End(c, "error") /\ UNCHANGED <<member, balance>>
  BY DEF Fail
<1>2. CASE phase[c] = "audit"
  <2>1. /\ request[c] \in Request
        /\ unaudited' = [unaudited EXCEPT ![request[c].org][request[c].target]
                           = @ + Change(request[c])]
    BY <1>2 DEF Fail, IInv, WellFormed
  <2>2. balance \in [Organization -> [User -> Int]] /\ unaudited \in [Organization -> [User -> Int]]
    BY DEF IInv, TypeOK
  <2>3. balance[o][u] \in Int /\ unaudited[o][u] \in Int /\ Change(request[c]) \in Int
    BY <2>2 DEF Change
  <2>4. unaudited'[o][u] = IF Concerns(c, o, u) THEN unaudited[o][u] + Change(request[c])
                                                ELSE unaudited[o][u]
    BY <2>1, <2>2, ChangeIsCounted DEF Concerns
  <2>5. /\ balance'[o][u] + unaudited'[o][u] =
             balance[o][u] + unaudited[o][u] +
               (IF Concerns(c, o, u) THEN Change(request[c]) ELSE 0)
        /\ balance'[o][u] \in Int /\ unaudited'[o][u] \in Int
    BY <1>1, <2>3, <2>4
  <2>6. QED
    BY <1>1, <1>2, <2>5, OnlyOneMoves, EndExplained
<1>3. CASE phase[c] # "audit"
  <2>1. UNCHANGED unaudited
    BY <1>3 DEF Fail
  <2>2. QED
    BY <1>1, <1>3, <2>1, OnlyOneMoves, NothingNew
<1>4. QED
  BY <1>2, <1>3

\* A membership is looked up for removal only.
LEMMA NextKeepsRemovals == IInv /\ OnlyRemovalsDelete /\ [Next]_vars => OnlyRemovalsDelete'
<1> SUFFICES ASSUME IInv, OnlyRemovalsDelete, [Next]_vars PROVE OnlyRemovalsDelete'
  OBVIOUS
<1>1. ASSUME NEW c \in Call, Step(c), NEW d \in Call, phase'[d] = "delete"
      PROVE  request'[d].op = "remove"
  <2>1. CASE d # c
    <3>1. phase[d] = "delete" /\ request'[d] = request[d]
      BY <1>1, <2>1, OnlyOneMoves DEF Step, CallStep, Ask, Begin, Authorize, FetchOrganization,
         CheckMembership, RefuseUnknown, Deny, CreateMembership, LookupMembership, DeleteMembership,
         AppendAudit, Fail, IInv, TypeOK, AccessTypeOK
    <3>2. QED
      BY <3>1 DEF OnlyRemovalsDelete
  <2>2. CASE d = c
    <3>1. LookupMembership(c)
      BY <1>1, <2>2, OnlyOneMoves DEF Step, CallStep, Ask, Begin, Authorize, FetchOrganization,
         CheckMembership, RefuseUnknown, Deny, CreateMembership, DeleteMembership, AppendAudit, Fail
    <3>2. request'[c] = request[c] /\ request[c].op = "remove"
      BY <1>1, <2>2, <3>1, OnlyOneMoves DEF LookupMembership
    <3>3. QED
      BY <2>2, <3>2
  <2>3. QED
    BY <2>1, <2>2
<1>2. CASE Environment
  BY <1>2 DEF Environment, Administer, SetStatus, OnlyRemovalsDelete
<1>3. CASE UNCHANGED vars
  BY <1>3 DEF vars, accessVars, OnlyRemovalsDelete
<1>4. QED
  BY <1>1, <1>2, <1>3, NextIsStep DEF OnlyRemovalsDelete

\* Every step explains what was explained.
LEMMA NextExplained ==
  ASSUME IInv, OnlyRemovalsDelete, [Next]_vars,
         NEW o \in Organization, NEW u \in User, Explained(o, u)
  PROVE  Explained(o, u)'
<1>1. ASSUME NEW c \in Call, Step(c) PROVE Explained(o, u)'
  <2>1. CASE Authorize(c) \/ RefuseUnknown(c) \/ Deny(c)
    <3>1. request[c] \in Request
      BY <2>1 DEF Authorize, FetchOrganization, CheckMembership, Goto, RefuseUnknown, IsUnknown,
         Deny, IInv, WellFormed
    <3>2. QED
      BY <2>1, <3>1, AskExplained
  <2>2. CASE \E r \in Request : Ask(c, r)
    BY <2>2, AskExplained
  <2>3. QED
    BY <1>1, <2>1, <2>2, CreateExplained, LookupExplained, DeleteExplained, AppendExplained,
       FailExplained DEF Step, CallStep
<1>2. CASE Environment
  BY <1>2 DEF Environment, Administer, SetStatus, Explained, Unlogged
<1>3. CASE UNCHANGED vars
  BY <1>3 DEF vars, accessVars, Explained, Unlogged
<1>4. QED
  BY <1>1, <1>2, <1>3, NextIsStep

\* Every grant and every removal is audited once, or lost by a call that ended
\* between its write and its audit.
THEOREM AuditCorrect == Spec => []AuditExplainsMembership
<1> DEFINE AuditInv == OnlyRemovalsDelete /\ AuditExplainsMembership
<1>1. Init => AuditInv
  <2> SUFFICES ASSUME Init PROVE AuditInv
    OBVIOUS
  <2>1. OnlyRemovalsDelete
    BY DEF Init, AccessInit, OnlyRemovalsDelete
  <2>2. ASSUME NEW o \in Organization, NEW u \in User PROVE Explained(o, u)
    <3>1. \A op : Unlogged(op, o, u) = {}
      BY DEF Init, AccessInit, Unlogged
    <3>2. Cardinality({}) = 0
      BY FS_EmptySet
    <3>3. \A op : Cardinality(Unlogged(op, o, u)) = 0
      BY <3>1, <3>2
    <3>4. QED
      BY <3>3 DEF Init, Explained
  <2>3. QED
    BY <2>1, <2>2 DEF AuditExplainsMembership, Explained
<1>2. IInv /\ AuditInv /\ [Next]_vars => AuditInv'
  <2>1. ASSUME IInv, AuditInv, [Next]_vars, NEW o \in Organization, NEW u \in User
        PROVE  Explained(o, u)'
    BY <2>1, NextExplained DEF AuditExplainsMembership, Explained
  <2>2. QED
    BY <2>1, NextKeepsRemovals DEF AuditExplainsMembership, Explained
<1>3. AuditInv => AuditExplainsMembership
  OBVIOUS
<1>4. QED
  BY <1>1, <1>2, <1>3, Invariance, PTL DEF Spec
============================================================================
