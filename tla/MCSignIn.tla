------------------------------ MODULE MCSignIn ------------------------------
(***************************************************************************)
(* One login state, two callbacks, one request at a time.                  *)
(***************************************************************************)
EXTENDS SignIn

CONSTANTS j1, v1, v2, r1, app

MCJourney == {j1}
MCVisit == {v1, v2}
MCRequest == {r1}

MCUrl == {Here, app}

\* The second deployment does not list app any more.
MCOrigins == {{app}, {}}

\* At most two calls overlap: two callbacks, or one call and a deletion.
Callbacks == {v \in Visit : visit[v].phase \notin {"idle", "served", "refused"}}
Requests == {r \in Request : request[r].phase # "idle"}
Overlap ==
  \/ Requests = {} /\ (erasing.phase = "idle" \/ Cardinality(Callbacks) < 2)
  \/ Callbacks = {}

\* The allow-list changes while a login is under way; requests ignore it.
OneRedeploy == app \notin origins => begun # {} /\ Requests = {}

\* An index lags while something reads it.
ShortLag == account = "unlisted" => Callbacks # {} \/ Requests # {}

\* Requests carry the session cookie, some a bearer token as well.
Interesting == \A r \in Requests : request[r].cookie # None

Bounded == Overlap /\ OneRedeploy /\ ShortLag /\ Interesting
============================================================================
