--------------------------- MODULE MCDynamoRoles ---------------------------
(***************************************************************************)
(* A small instance of DynamoRoles: three users, so that a demotion can    *)
(* have a witness and a second other administrator, and two concurrent     *)
(* runs of the command line.                                               *)
(***************************************************************************)
EXTENDS DynamoRoles, TLC

CONSTANTS c1, c2, o1

MCUser == 1 .. 3
MCClient == {c1, c2}
MCOrganization == {o1}

\* Populations worth distinguishing: users 1 and 2 are registered and active,
\* user 1 is an administrator to begin with, user 3 may be either, disabled,
\* or still to be provisioned.
MCInit ==
  /\ Init
  /\ \A u \in {1, 2} : life[u] = "live" /\ status[u] = "active"
  /\ role[1] = "admin"

MCSpec == MCInit /\ [][Next]_vars

\* Organization deletion erases at most one user, the first or the last; or
\* events about the first, who stays, beside one call at a time.
OneErased ==
  \/ expunged = {}
  \/ expunged = {3} /\ life[3] = "gone"
  \/ expunged = {1} /\ life[1] = "gone"
  \/ expunged = {1} /\ \E c \in Client : \A d \in Client \ {c} : phase[d] = "idle"

\* A call that has written nothing is over with its answer: what follows is
\* what follows without it.
Effective == \A c \in Client : phase[c] = "idle" => answer[c] \in {"none", "transitioned"}

\* The index lags by one entry at a time, while a call is in progress,
\* and one call at a time is retried.
Lagging == (index \ ActiveAdmins) \cup (ActiveAdmins \ index)
OneLags ==
  /\ Cardinality(Lagging) <= 1
  /\ Lagging # {} => \E c \in Client : phase[c] # "idle"
OneRetried == Cardinality({c \in Client : attempt[c] = MaxAttempts}) <= 1

Bounded == OneErased /\ Effective /\ OneLags /\ OneRetried

Symmetric == Permutations(MCClient)
============================================================================
