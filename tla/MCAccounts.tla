----------------------------- MODULE MCAccounts -----------------------------
(***************************************************************************)
(* Two subjects, at most three users, two logins, one deletion at a time.  *)
(***************************************************************************)
EXTENDS Accounts, TLC

CONSTANTS s1, s2, c1, c2, d1

MCSubject == {s1, s2}
MCLogin == {c1, c2}
MCOperator == {d1}

\* Only user 2 joins anything, and only the organization of user 1; only that
\* organization is deleted, and suspended only to be deleted.
FewChanges ==
  /\ member \subseteq {<<u, u>> : u \in UserId} \cup {<<1, 2>>}
  /\ \A o \in UserId : org[o] = "disabled" =>
       o = 1 /\ (broken \/ \E d \in Operator : deletion[d].phase \notin {"idle", "confirm", "suspend"})
  /\ \A d \in Operator : deletion[d].org \in {None, 1}

\* One entry of the index lags at a time.
OneLags == adapter = "dynamodb" => Cardinality((member \ indexed) \cup (indexed \ member)) < 2

\* The third attempt to provision comes after a deletion has begun.
ThirdIsAgain == minted = 3 => org[1] # "active"

\* Two calls overlap.
FewCalls ==
  LET busy == {c \in Login : login[c] # NoLogin}
      deleting == {d \in Operator : deletion[d] # NoDeletion}
  IN Cardinality(busy) + Cardinality(deleting) <= 2

Bounded == FewChanges /\ OneLags /\ ThirdIsAgain /\ FewCalls

Symmetric == Permutations(MCLogin) \cup Permutations(MCSubject)
============================================================================
