--------------------------- MODULE MCOrganizations ---------------------------
(***************************************************************************)
(* Two organizations that exist and one to come, three slugs, and either   *)
(* two calls and a deletion, or a list and whatever goes on beside it.     *)
(***************************************************************************)
EXTENDS Listing, TLC

CONSTANTS c1, c2, n1, n2, n3, s1, s2, s3

MCOrg == 1 .. 3
MCCall == {c1, c2}
Calls == {c \in Call : ~At(c, "idle")}
Symmetric == Permutations(MCCall)

\* n3 has neither letters nor digits.
MCName == {n1, n2, n3}
MCSlug == {s1, s2, s3}
MCSlugOf == (n1 :> s1) @@ (n2 :> s2) @@ (n3 :> None)

\* The third organization is the workspace of a user's first login.
MCRow(n, s, c) == [name |-> n, slug |-> s, active |-> TRUE, confirmed |-> c]
MCInitial == << MCRow(n1, s1, TRUE), None, MCRow(n2, s3, FALSE) >>

MCQuery == {{n1}}
MCRequested == {0, 2}

Listed == list.phase # "idle"

\* Two things go on at once, one beside a list, and one less after a deletion
\* that has erased a slug.  Beside a user's list memberships change and
\* organizations are deleted, beside a search they are created, renamed and
\* deleted.
Deleting == IF erasing.phase = "idle" THEN 0 ELSE 1
Overlap ==
  /\ Cardinality(Calls) + Deleting + Cardinality(loose) <= IF Listed THEN 1 ELSE 2
  /\ Listed => \A c \in Calls :
       /\ list.kind = "search" /\ call[c].kind # "available" /\ call[c].attempts = 0
       /\ call[c].kind = "create" => call[c].slug = s2

\* The index lags by one membership.
Lag == adapter = "dynamodb" => Cardinality((member \ indexed) \cup (indexed \ member)) <= 1

\* Otherwise the user is a member of the organizations of the beginning.
Membered == {o \in Org : Initial[o] # None /\ Exists(o)}
QuietMembership == ~(Listed /\ list.kind = "user") => member = Membered /\ indexed = Membered

\* Creations come from members of the first organization, with slugs a rename
\* may want.  A check of a slug writes nothing and is made alone.  Suspensions
\* fall into calls, and mean nothing to a list.
Few ==
  /\ \A c \in Calls : call[c].kind = "available" => Calls = {c} /\ Deleting = 0 /\ loose = {}
  /\ \A c \in Calls : call[c].kind = "create" =>
       call[c].home = 1 /\ call[c].slug # s3 /\ call[c].name = n1
  /\ \A o \in Org : Exists(o) /\ ~Active(o) =>
       \/ erasing.org = o \/ o \in loose
       \/ ~Listed /\ \E c \in Calls : At(c, "context") \/ At(c, "access")

\* Names and slugs are nothing to a user's list; beside it the organization in
\* the middle is deleted.
AsInTheBeginning ==
  Listed /\ list.kind = "user" =>
    /\ erasing.org \in {None, 2} /\ loose \subseteq {2}
    /\ \A o \in Org : Exists(o) =>
      IF o = 2 THEN organization[o].slug = s2 /\ organization[o].name = n1
      ELSE organization[o].name = Initial[o].name /\ organization[o].slug = Initial[o].slug

\* A list that has come to its end is looked at and followed no further: the
\* next one begins as the first.
OneList == list.phase # "done"

Bounded == OneList /\ Lag /\ AsInTheBeginning /\ Overlap /\ QuietMembership /\ Few
============================================================================
