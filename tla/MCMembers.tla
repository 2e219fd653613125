----------------------------- MODULE MCMembers -----------------------------
(***************************************************************************)
(* One organization with an owner and two more users, any of whom may be   *)
(* members, or an id nobody knows, and two concurrent calls.               *)
(***************************************************************************)
EXTENDS Members, TLC

CONSTANTS c1, c2, o1, u1, u2, u3

MCCall == {c1, c2}
MCOrganization == {o1}
MCUser == {u1, u2, u3}

MCInit ==
  /\ Init
  /\ Known(o1) =>
       /\ member[o1][u1] = "owner"
       /\ member[o1][u2] \in {"admin", "none"}
       /\ member[o1][u3] \in {"member", "none"}

MCSpec == MCInit /\ [][Next]_vars

\* Calls come from the owner and from one user that may be an administrator;
\* they ask for a role that makes a difference or, with nothing beside them, for
\* what is refused in any state: the role nobody may grant, the owner as a
\* target, a user nobody knows.
FewRequests ==
  \A c \in Call :
    phase[c] # "idle" =>
      /\ request[c].actor \in {u1, u2}
      /\ \/ request[c].role \in {"none", "admin"} /\ request[c].target \in {u2, u3}
         \/ \A d \in Call \ {c} : phase[d] = "idle"

\* Of one membership an audit event is lost, net.
FewLost ==
  /\ unaudited[o1][u3] \in -1 .. 1
  /\ \A u \in User \ {u3} : unaudited[o1][u] = 0

\* A call that has written nothing is over with its answer: what follows is
\* what follows without it.
Effective ==
  \A c \in Call : phase[c] = "idle" =>
    answer[c] \in {"none", "done"} \/ (answer[c] = "error" /\ \E u \in User : unaudited[o1][u] # 0)

Bounded == FewRequests /\ FewLost /\ Effective

Symmetric == Permutations(MCCall)
============================================================================
