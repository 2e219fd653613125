------------------------------ MODULE Members ------------------------------
(***************************************************************************)
(* Adding and removing organization members (api/members.py,               *)
(* services/member.py): access decision, owner guard, write, audit event.  *)
(* The write is one conditional storage operation in both adapters; every  *)
(* arrow between two phases is a point where other calls run, and where    *)
(* the process may stop or the storage fail.                               *)
(***************************************************************************)
EXTENDS OrganizationAccess, FiniteSets

CONSTANT Stranger     \* a well-formed user id without a user row

ASSUME StrangerIsNoUser == Stranger \notin User
ASSUME CallIsFinite == IsFiniteSet(Call)

VARIABLES
  found,         \* role remove_member has read
  balance,       \* membership.created minus membership.removed events on record
  unaudited      \* history: grants minus removals whose audit event was lost

vars == <<accessVars, found, balance, unaudited>>

Request ==
  [op : {"add"}, actor : User, org : Organization, target : User \cup {Stranger}, role : Role]
    \cup
  [op : {"remove"}, actor : User, org : Organization, target : User \cup {Stranger},
   role : {"none"}]

Phase == {"idle", "organization", "membership", "deny", "act", "delete", "audit"}
Answer == {"none", "forbidden", "bad_request", "not_found", "conflict", "done", "error"}

\* Type invariant of the member API.
TypeOK ==
  /\ AccessTypeOK(Phase, Request, Answer)
  /\ found \in [Call -> Role \cup {"none"}]
  /\ balance \in [Organization -> [User -> Int]]
  /\ unaudited \in [Organization -> [User -> Int]]

Init ==
  /\ AccessInit
  /\ found = [c \in Call |-> "none"]
  /\ balance = [o \in Organization |-> [u \in User |-> IF member[o][u] = "none" THEN 0 ELSE 1]]
  /\ unaudited = [o \in Organization |-> [u \in User |-> 0]]
---------------------------------------------------------------------------
RoleOf(r) == IF r.target = Stranger THEN "none" ELSE member[r.org][r.target]

End(c, a) == Finish(c, a) /\ found' = [found EXCEPT ![c] = "none"]

Ask(c, r) == Begin(c, "organization", r) /\ UNCHANGED <<found, balance, unaudited>>

Authorize(c) ==
  /\ FetchOrganization(c, "membership") \/ CheckMembership(c)
  /\ UNCHANGED <<found, balance, unaudited>>

RefuseUnknown(c) ==
  /\ IsUnknown(c)
  /\ End(c, "forbidden")
  /\ UNCHANGED <<orgStatus, member, balance, unaudited>>

\* Every denial is audited before the 403; if it cannot be, the call fails.
Deny(c) ==
  /\ phase[c] = "deny"
  /\ End(c, "forbidden")
  /\ UNCHANGED <<orgStatus, member, balance, unaudited>>

\* add_member: the owner role is refused before anything is written; the
\* membership is unique per organization and user.
CreateMembership(c) ==
  LET r == request[c] IN
  /\ phase[c] = "act"
  /\ r.op = "add"
  /\ UNCHANGED <<orgStatus, balance, unaudited>>
  /\ \/ r.role = "owner" /\ End(c, "bad_request") /\ UNCHANGED member
     \/ /\ r.role # "owner" /\ r.target = Stranger
        /\ End(c, "not_found") /\ UNCHANGED member
     \/ /\ r.role # "owner" /\ RoleOf(r) # "none"
        /\ End(c, "conflict") /\ UNCHANGED member
     \/ /\ r.role # "owner" /\ r.target # Stranger /\ RoleOf(r) = "none"
        /\ Goto(c, "act", "audit")
        /\ member' = [member EXCEPT ![r.org][r.target] = r.role]
        /\ UNCHANGED <<request, seenStatus, answer, found>>

\* Mutant of LookupMembership: owners can be removed.
LookupAnyMembership(c) ==
  LET r == request[c] IN
  /\ phase[c] = "act"
  /\ r.op = "remove"
  /\ UNCHANGED <<orgStatus, member, balance, unaudited>>
  /\ \/ RoleOf(r) = "none" /\ End(c, "not_found")
     \/ /\ RoleOf(r) # "none"
        /\ Goto(c, "act", "delete")
        /\ found' = [found EXCEPT ![c] = RoleOf(r)]
        /\ UNCHANGED <<request, seenStatus, answer>>

\* remove_member reads the membership first: owners cannot be removed.
LookupMembership(c) ==
  LET r == request[c] IN
  /\ phase[c] = "act"
  /\ r.op = "remove"
  /\ UNCHANGED <<orgStatus, member, balance, unaudited>>
  /\ \/ RoleOf(r) = "none" /\ End(c, "not_found")
     \/ RoleOf(r) = "owner" /\ End(c, "conflict")
     \/ /\ RoleOf(r) \notin {"none", "owner"}
        /\ Goto(c, "act", "delete")
        /\ found' = [found EXCEPT ![c] = RoleOf(r)]
        /\ UNCHANGED <<request, seenStatus, answer>>

\* Mutant of DeleteMembership: deleting an absent membership succeeds.
DeleteIdempotently(c) ==
  LET r == request[c] IN
  /\ Goto(c, "delete", "audit")
  /\ member' = [member EXCEPT ![r.org][r.target] = "none"]
  /\ UNCHANGED <<orgStatus, request, seenStatus, answer, found, balance, unaudited>>

\* The delete is conditional on the row alone, whatever its role is by now.
DeleteMembership(c) ==
  LET r == request[c] IN
  /\ phase[c] = "delete"
  /\ UNCHANGED <<orgStatus, balance, unaudited>>
  /\ \/ RoleOf(r) = "none" /\ End(c, "not_found") /\ UNCHANGED member
     \/ /\ RoleOf(r) # "none"
        /\ Goto(c, "delete", "audit")
        /\ member' = [member EXCEPT ![r.org][r.target] = "none"]
        /\ UNCHANGED <<request, seenStatus, answer, found>>

Change(r) == IF r.op = "add" THEN 1 ELSE -1

\* membership.created or membership.removed, after the write has committed.
AppendAudit(c) ==
  LET r == request[c] IN
  /\ phase[c] = "audit"
  /\ balance' = [balance EXCEPT ![r.org][r.target] = @ + Change(r)]
  /\ End(c, "done")
  /\ UNCHANGED <<orgStatus, member, unaudited>>

\* A storage fault or the end of the process, at any point of a call.  What
\* was written stays; an audit event not yet appended never will be.
Fail(c) ==
  LET r == request[c] IN
  /\ phase[c] # "idle"
  /\ unaudited' = IF phase[c] = "audit"
                    THEN [unaudited EXCEPT ![r.org][r.target] = @ + Change(r)]
                    ELSE unaudited
  /\ End(c, "error")
  /\ UNCHANGED <<orgStatus, member, balance>>

Administer(o, s) == SetStatus(o, s) /\ UNCHANGED <<found, balance, unaudited>>

CallStep(c) ==
  \/ Authorize(c)
  \/ RefuseUnknown(c)
  \/ Deny(c)
  \/ CreateMembership(c)
  \/ LookupMembership(c)
  \/ DeleteMembership(c)
  \/ AppendAudit(c)
  \/ Fail(c)

Next ==
  /\ \/ \E c \in Call, r \in Request : Ask(c, r)
     \/ \E c \in Call : CallStep(c)
     \/ \E o \in Organization, s \in Status : Administer(o, s)
  /\ Observe

Spec == Init /\ [][Next]_vars
---------------------------------------------------------------------------
Owners(o) == {u \in User : member[o][u] = "owner"}

\* However calls interleave, the member API neither removes nor makes an
\* owner: an organization keeps the owners it was created with, although
\* remove_member decides on a role it read one storage call earlier.
OwnersFixed == [][\A o \in Organization : Owners(o)' = Owners(o)]_vars

\* The calls that have changed a membership and not yet audited it.
Unlogged(op, o, u) ==
  {c \in Call : /\ phase[c] = "audit"
                /\ request[c].op = op
                /\ request[c].org = o
                /\ request[c].target = u}

\* Every grant and every removal is audited once, except those whose call
\* ended between the write and the audit append: racing removals of one
\* membership do not both claim it.
AuditExplainsMembership ==
  \A o \in Organization, u \in User :
    (IF member[o][u] = "none" THEN 0 ELSE 1) =
      balance[o][u] + unaudited[o][u]
        + Cardinality(Unlogged("add", o, u)) - Cardinality(Unlogged("remove", o, u))

\* A call acts only if its actor was an administrator, and the organization
\* active, at some instant since the call began: decisions are made on storage
\* read within the call, never on anything older.
DecisionIsFresh ==
  \A c \in Call :
    phase[c] \in {"act", "delete", "audit"} => held[c].admin /\ held[c].active
============================================================================
