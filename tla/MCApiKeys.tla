----------------------------- MODULE MCApiKeys -----------------------------
(***************************************************************************)
(* Two organizations, or one and an id nobody knows, two keys, two         *)
(* concurrent calls.  User u1 owns the organizations, u2 is the            *)
(* administrator whose membership may change.                              *)
(***************************************************************************)
EXTENDS ApiKeys, TLC

CONSTANTS c1, c2, o1, o2, u1, u2, k1, k2

MCCall == {c1, c2}
MCOrganization == {o1, o2}
MCUser == {u1, u2}
MCKey == {k1, k2}

\* Both keys start in o1; a key that does not exist yet can be created in
\* either organization.
MCInit ==
  /\ Init
  /\ orgStatus[o1] = "active" /\ orgStatus[o2] # "disabled"
  /\ \A o \in Organization : Known(o) => member[o] = (u1 :> "owner") @@ (u2 :> "admin")
  /\ keyOrg = [k \in Key |-> o1]
  /\ keyStatus[k1] = "active"

MCSpec == MCInit /\ [][Next]_vars

\* Only the membership of u2 in o1 changes, between administrator and none.
FewRoles == (Known(o2) => member[o2][u2] = "admin") /\ member[o1][u2] \in {"admin", "none"}

\* Keys are managed by u2, and of the two organizations only o1 is suspended.
\* What is refused in any state is tried with nothing beside it: the owner's
\* suspension, k1 in the other organization, whatever is asked where o2 is unknown.
Refused(r) ==
  \/ r.op \in {"misuse", "manage"}
  \/ r.actor = u1
  \/ r.op \in {"revoke", "use"} /\ r.key = k1 /\ r.org = o2
  \/ ~Known(o2)

FewRequests ==
  \A c \in Call : phase[c] # "idle" =>
    LET r == request[c] IN
    /\ r.op \in {"create", "revoke"} => r.actor = u2
    /\ r.op = "create" => r.key = k2
    /\ r.op \in {"misuse", "manage"} => r.key = k1 /\ r.org = o1
    /\ r.op = "suspend" => r.org = o1 \/ ~Known(o2)
    /\ Refused(r) => \A d \in Call \ {c} : phase[d] = "idle"

\* A call that has written nothing is over with its answer: what follows is
\* what follows without it.  Of the writes, only a suspension on DynamoDB can
\* stop half way.
Effective ==
  \A c \in Call : phase[c] = "idle" =>
    \/ answer[c] \in {"none", "created", "revoked", "suspended"}
    \/ answer[c] = "error" /\ adapter = "dynamodb" /\ orgStatus[o1] # "active"

Bounded == FewRoles /\ FewRequests /\ Effective

Symmetric == Permutations(MCCall)
============================================================================
