------------------------ MODULE OrganizationAccess -------------------------
(***************************************************************************)
(* The access decision every organization-scoped call makes before it acts *)
(* (auth/organization_access.py, services/authorization.py).  A handler    *)
(* fetches the organization, then the caller's membership, classifies the  *)
(* two, and only then acts; each of these is a storage call of its own and *)
(* other calls run in between.  Members and ApiKeys add what the handlers  *)
(* do once access is granted.                                              *)
(*                                                                         *)
(* Memberships have no status here: no code path writes any but ACTIVE.    *)
(***************************************************************************)
EXTENDS Integers

CONSTANTS
  Organization,  \* organization ids
  User,          \* user ids
  Call,          \* slots for the calls in progress
  NoRequest      \* the request of an idle slot

VARIABLES
  orgStatus,     \* OrganizationStatus, "absent" for an id without a row
  member,        \* role of each user in each organization, "none" without a row
  phase,         \* the storage call each slot makes next
  request,       \* what each slot was asked
  seenStatus,    \* organization status a call has read
  answer,        \* what the last call of a slot answered
  held           \* history: what was true at some instant of the call so far

accessVars == <<orgStatus, member, phase, request, seenStatus, answer, held>>

Role == {"viewer", "member", "admin", "owner"}
Status == {"active", "disabled"}

\* ROLE_RANK, and the absent membership below every role.
Rank == [none |-> 0, viewer |-> 1, member |-> 2, admin |-> 3, owner |-> 4]

\* classify_access: organization status, presence, role rank.
Granted(status, role, minRole) ==
  /\ status = "active"
  /\ role # "none"
  /\ Rank[role] >= Rank[minRole]

Known(o) == orgStatus[o] # "absent"

AccessTypeOK(phases, requests, answers) ==
  /\ orgStatus \in [Organization -> Status \cup {"absent"}]
  /\ member \in [Organization -> [User -> Role \cup {"none"}]]
  /\ phase \in [Call -> phases]
  /\ request \in [Call -> requests \cup {NoRequest}]
  /\ seenStatus \in [Call -> Status]
  /\ answer \in [Call -> answers]
  /\ held \in [Call -> [admin : BOOLEAN, active : BOOLEAN]]

\* Every organization has an owner from its creation on (provision_user and
\* provision_organization write both in one transaction); what is no
\* organization has no members.
AccessInit ==
  /\ orgStatus \in [Organization -> Status \cup {"absent"}]
  /\ member \in [Organization -> [User -> Role \cup {"none"}]]
  /\ \A o \in Organization : IF Known(o) THEN \E u \in User : member[o][u] = "owner"
                             ELSE \A u \in User : member[o][u] = "none"
  /\ phase = [c \in Call |-> "idle"]
  /\ request = [c \in Call |-> NoRequest]
  /\ seenStatus = [c \in Call |-> "disabled"]
  /\ answer = [c \in Call |-> "none"]
  /\ held = [c \in Call |-> [admin |-> FALSE, active |-> FALSE]]
---------------------------------------------------------------------------
Goto(c, from, to) ==
  /\ phase[c] = from
  /\ phase' = [phase EXCEPT ![c] = to]

\* Ends a call; the caller of the API sees the answer.
Finish(c, a) ==
  /\ phase' = [phase EXCEPT ![c] = "idle"]
  /\ request' = [request EXCEPT ![c] = NoRequest]
  /\ seenStatus' = [seenStatus EXCEPT ![c] = "disabled"]
  /\ answer' = [answer EXCEPT ![c] = a]

Begin(c, first, r) ==
  /\ Goto(c, "idle", first)
  /\ request' = [request EXCEPT ![c] = r]
  /\ answer' = [answer EXCEPT ![c] = "none"]
  /\ UNCHANGED <<orgStatus, member, seenStatus>>

FetchOrganization(c, next) ==
  /\ Goto(c, "organization", next)
  /\ Known(request[c].org)
  /\ seenStatus' = [seenStatus EXCEPT ![c] = orgStatus[request[c].org]]
  /\ UNCHANGED <<orgStatus, member, request, answer>>

\* An unknown organization gets the 403 of every denial, and no audit event.
IsUnknown(c) == phase[c] = "organization" /\ ~Known(request[c].org)

\* Mutant of CheckMembership: the organization's status is not classified.
CheckMembershipOnly(c) ==
  LET r == request[c]
      granted == Granted("active", member[r.org][r.actor], "admin")
  IN /\ phase[c] = "membership"
     /\ Goto(c, "membership", IF granted THEN "act" ELSE "deny")
     /\ UNCHANGED <<orgStatus, member, request, seenStatus, answer>>

\* Managing members and keys takes an administrator.  The decision rests on
\* the status read before the membership.
CheckMembership(c) ==
  LET r == request[c]
      granted == Granted(seenStatus[c], member[r.org][r.actor], "admin")
  IN /\ phase[c] = "membership"
     /\ Goto(c, "membership", IF granted THEN "act" ELSE "deny")
     /\ UNCHANGED <<orgStatus, member, request, seenStatus, answer>>
---------------------------------------------------------------------------
\* Mutant of SetStatus: a status outside the vocabulary.
SetStatusSuspended(o, s) ==
  /\ Known(o)
  /\ orgStatus' = [orgStatus EXCEPT ![o] = IF s = "disabled" THEN "suspended" ELSE s]
  /\ UNCHANGED <<member, phase, request, seenStatus, answer>>

\* Suspension and reactivation by an application administrator.
SetStatus(o, s) ==
  /\ Known(o)
  /\ orgStatus' = [orgStatus EXCEPT ![o] = s]
  /\ UNCHANGED <<member, phase, request, seenStatus, answer>>

IsAdministrator(roles, u) == u \in User /\ Rank[roles[u]] >= Rank["admin"]

\* History: has the actor been an administrator, and the organization active,
\* at some instant since the call began?  A conjunct of every step.
Observe ==
  held' = [c \in Call |->
    IF phase'[c] = "idle" THEN [admin |-> FALSE, active |-> FALSE]
    ELSE [admin |-> held[c].admin \/ IsAdministrator(member'[request'[c].org], request'[c].actor),
          active |-> held[c].active \/ orgStatus'[request'[c].org] = "active"]]
============================================================================
