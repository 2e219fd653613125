------------------------------- MODULE SignIn -------------------------------
(***************************************************************************)
(* Browser login and the sessions it issues: the OAuth routes              *)
(* (api/oauth.py), the session store of both adapters (auth/session.py,    *)
(* storage), the CSRF middleware (api/session_support.py) and the session  *)
(* branch of the request dependencies (auth/dependencies.py).              *)
(*                                                                         *)
(* One person signs in with one browser.  Deleting the person's user and   *)
(* signing in again makes a new user, so users are numbered, and only the  *)
(* latest can exist.  Everything is timed by one clock, in ticks of half a *)
(* second: the sweeper of DynamoDB rounds expiry down to a second.         *)
(***************************************************************************)
EXTENDS Integers, FiniteSets

CONSTANTS
  Url,           \* return URLs, each standing for all that lead to one origin
  Here,          \* the paths of the service's own origin
  Origins,       \* allow-lists the service is deployed with, sets of origins
  Journey,       \* login states /oauth/login may mint
  Visit,         \* requests of /oauth/callback; a session has its visit's name
  Request,       \* slots for other requests in progress
  MaxUser,       \* bound on the users created for the person
  MaxTime,       \* bound on the clock
  StateTTL,      \* LOGIN_STATE_TTL_SECONDS
  SessionTTL,    \* ttl_seconds of the session manager
  MaxAttempts,   \* MAX_TRANSACTION_ATTEMPTS
  None           \* no value

ASSUME BoundsArePositive ==
  {MaxUser, MaxTime, StateTTL, SessionTTL, MaxAttempts} \subseteq Nat \ {0}

ASSUME NoneIsNobody == None \notin Journey \cup Visit \cup Url

VARIABLES
  adapter,       \* the storage adapter of this deployment
  now,           \* the clock
  origins,       \* allow-list of the current deployment
  current,       \* number of users created so far
  account,       \* what the latest of them is: see Account
  begun,         \* login states minted so far
  state,         \* rows of oauth_login_states
  session,       \* rows of app_sessions
  visit,         \* each callback
  browser,       \* the cookies feednow_session and feednow_csrf
  request,       \* each request in progress
  outcome,       \* what the last step has answered, and to which request
  erasing        \* the deletion of the person's user in progress

person == <<current, account>>
rows == <<state, session>>
calls == <<visit, browser, request, outcome>>
vars == <<adapter, now, origins, person, begun, rows, calls, erasing>>

Time == 0 .. MaxTime + StateTTL + SessionTTL
User == 1 .. MaxUser
\* unlisted: DynamoDB's index does not show the user's organization yet.
Account == {"absent", "active", "unlisted", "disabled"}
VisitPhase == {"idle", "consume", "exchange", "verify", "resolve", "issue", "served", "refused"}
Answer == {"none", "ok", "unauthorized", "forbidden", "csrf", "conflict",
           "unavailable", "error"}
RequestPhase == {"idle", "middleware", "session", "user", "context", "token"}
Endpoint == {"read", "write", "csrf", "admin"}

NoVisit == [phase |-> "idle", journey |-> None, origins |-> {}, url |-> None, won |-> FALSE,
            attempts |-> 0, user |-> 0, expires |-> 0]
NoRequest == [phase |-> "idle", endpoint |-> "read", cookie |-> None, csrf |-> None, header |-> None,
              bearer |-> FALSE, user |-> 0, began |-> 0, living |-> 0]
NoOutcome == [answer |-> "none", session |-> FALSE, user |-> 0]
NoErasing == [phase |-> "idle", user |-> 0, sessions |-> {}]

Exists(u) == u = current /\ account # "absent"

StateRow == [url : Url, expires : Time]
SessionRow == [user : User, expires : Time]

\* Type invariant of logins and sessions.
TypeOK ==
  /\ adapter \in {"sqlite", "dynamodb"}
  /\ now \in 0 .. MaxTime
  /\ origins \in Origins
  /\ current \in 0 .. MaxUser
  /\ account \in Account /\ (account # "absent" => current # 0)
  /\ begun \in SUBSET Journey
  /\ state \in [Journey -> StateRow \cup {None}]
  /\ session \in [Visit -> SessionRow \cup {None}]
  /\ visit \in [Visit -> [phase : VisitPhase, journey : Journey \cup {None},
                          origins : Origins \cup {{}}, url : Url \cup {None}, won : BOOLEAN,
                          attempts : 0 .. MaxAttempts - 1, user : 0 .. MaxUser, expires : Time]]
  /\ browser \in [session : Visit \cup {None}, csrf : Visit \cup {None}]
  /\ request \in [Request -> [phase : RequestPhase, endpoint : Endpoint, cookie : Visit \cup {None},
                              csrf : Visit \cup {None}, header : Visit \cup {None},
                              bearer : BOOLEAN, user : 0 .. MaxUser, began : 0 .. MaxTime,
                              living : 0 .. MaxUser]]
  /\ outcome \in [Request -> [answer : Answer, session : BOOLEAN, user : 0 .. MaxUser]]
  /\ erasing \in [phase : {"idle", "scan", "user", "sessions"}, user : 0 .. MaxUser,
                  sessions : SUBSET Visit]

Init ==
  /\ adapter \in {"sqlite", "dynamodb"}
  /\ now = 0
  /\ origins \in Origins
  /\ current \in {0, 1}
  /\ account \in IF current = 0 THEN {"absent"} ELSE {"active", "disabled"}
  /\ begun = {}
  /\ state = [j \in Journey |-> None]
  /\ session = [v \in Visit |-> None]
  /\ visit = [v \in Visit |-> NoVisit]
  /\ browser = [session |-> None, csrf |-> None]
  /\ request = [r \in Request |-> NoRequest]
  /\ outcome = [r \in Request |-> NoOutcome]
  /\ erasing = NoErasing
---------------------------------------------------------------------------
Silence == [r \in Request |-> NoOutcome]

\* A row at or past its expiry counts as absent.
Unexpired(row) == now < row.expires

\* A same-origin path, or a URL of an allowed origin.  What hides where it
\* leads (user information, control characters, backslashes) has no origin.
IsAllowedReturnUrl(u, allowed) == u = Here \/ u \in allowed
---------------------------------------------------------------------------
(***************************************************************************)
(* /oauth/login and /oauth/callback.                                       *)
(***************************************************************************)
SaveState(j, u) == state' = [state EXCEPT ![j] = [url |-> u, expires |-> now + StateTTL]]

\* A refused target is answered with 400 and leaves no state.
Login(j, u) ==
  /\ j \notin begun
  /\ IsAllowedReturnUrl(u, origins)
  /\ begun' = begun \cup {j}
  /\ SaveState(j, u)
  /\ outcome' = Silence
  /\ UNCHANGED <<person, session, visit, browser, request>>

At(v, p) == visit[v].phase = p

Continue(v, next) == visit' = [visit EXCEPT ![v] = next] /\ outcome' = Silence

\* 400, 401, 403, 409, 503 or 500: nothing is left to do.
Refuse(v) ==
  Continue(v, [NoVisit EXCEPT !.phase = "refused", !.journey = visit[v].journey, !.won = visit[v].won])

Succeed(v) ==
  Continue(v, [NoVisit EXCEPT !.phase = "served", !.journey = visit[v].journey, !.won = visit[v].won,
                 !.expires = now + SessionTTL])

\* The provider sends the browser back, with an error or with a code.
Arrive(v, j) ==
  /\ At(v, "idle")
  /\ \/ Refuse(v)
     \/ Continue(v, [NoVisit EXCEPT !.phase = "consume", !.journey = j, !.origins = origins])
  /\ UNCHANGED <<person, begun, rows, browser, request>>

\* Mutant of Conflicts: after the last attempt the count starts over.
ConflictsForever(v) ==
  /\ At(v, "consume") \/ At(v, "issue")
  /\ UNCHANGED <<person, begun, rows, browser, request>>
  /\ \/ Refuse(v)
     \/ /\ adapter = "dynamodb"
        /\ Continue(v, [visit[v] EXCEPT !.attempts = (@ + 1) % MaxAttempts])

\* Mutant of Conflicts: one attempt too many.
ConflictsOnceMore(v) ==
  /\ At(v, "consume") \/ At(v, "issue")
  /\ UNCHANGED <<person, begun, rows, browser, request>>
  /\ \/ Refuse(v)
     \/ /\ adapter = "dynamodb" /\ visit[v].attempts < MaxAttempts
        /\ Continue(v, [visit[v] EXCEPT !.attempts = @ + 1])

\* A write that conflicts with another is tried again, MaxAttempts times in
\* all; a storage fault is final.
Conflicts(v) ==
  /\ At(v, "consume") \/ At(v, "issue")
  /\ UNCHANGED <<person, begun, rows, browser, request>>
  /\ \/ Refuse(v)
     \/ /\ adapter = "dynamodb" /\ visit[v].attempts + 1 < MaxAttempts
        /\ Continue(v, [visit[v] EXCEPT !.attempts = @ + 1])

\* Mutant of Consume: a spent state is kept until it expires.
ConsumeAndKeep(v) ==
  LET row == state[visit[v].journey] IN
  /\ At(v, "consume")
  /\ \/ row = None /\ Refuse(v)
     \/ row # None /\ Continue(v, [visit[v] EXCEPT !.phase = "exchange", !.url = row.url,
                                     !.won = TRUE, !.attempts = 0])
  /\ UNCHANGED <<person, begun, rows, browser, request>>

Spend(j) == state' = [state EXCEPT ![j] = None]

\* Fetches and deletes the state.  DynamoDB's reply may be lost, and the
\* request repeated by the client library then finds nothing to delete.
Consume(v) ==
  LET row == state[visit[v].journey] IN
  /\ At(v, "consume")
  /\ Spend(visit[v].journey)
  /\ \/ /\ row # None /\ Unexpired(row)
        /\ Continue(v, [visit[v] EXCEPT !.phase = "exchange", !.url = row.url, !.won = TRUE,
                          !.attempts = 0])
     \/ row = None /\ Refuse(v)
     \/ row # None /\ (~Unexpired(row) \/ adapter = "dynamodb") /\ Refuse(v)
  /\ UNCHANGED <<person, begun, session, browser, request>>

\* Every fault of the token endpoint is an outage to the caller.
Exchange(v) ==
  /\ At(v, "exchange")
  /\ \/ Continue(v, [visit[v] EXCEPT !.phase = "verify"])
     \/ Refuse(v)
  /\ UNCHANGED <<person, begun, rows, browser, request>>

VerifyToken(v) ==
  /\ At(v, "verify")
  /\ \/ Continue(v, [visit[v] EXCEPT !.phase = "resolve"])
     \/ Refuse(v)
  /\ UNCHANGED <<person, begun, rows, browser, request>>

\* What resolve_or_provision answers and does, a step at a time in Accounts;
\* the administration asks for the user only, not for an organization.
Resolves(a, tenant) ==
  \/ /\ a = "ok" /\ UNCHANGED person
     /\ account = "active" \/ (account = "unlisted" /\ ~tenant)
  \/ /\ account = "absent" /\ current < MaxUser /\ current' = current + 1
     /\ \/ a = "ok" /\ account' \in {"active"} \cup (IF tenant THEN {} ELSE {"unlisted"})
        \/ a = "forbidden" /\ tenant /\ account' = "unlisted"
     /\ account' = "unlisted" => adapter = "dynamodb"
  \/ /\ a = "forbidden" /\ UNCHANGED person
     /\ account = "disabled" \/ (account = "unlisted" /\ tenant)
  \/ a \in {"unauthorized", "conflict", "unavailable"} /\ account = "absent" /\ UNCHANGED person
  \/ a = "error" /\ UNCHANGED person

Resolve(v) ==
  /\ At(v, "resolve")
  /\ \E a \in Answer :
       /\ Resolves(a, TRUE)
       /\ \/ a = "ok" /\ Continue(v, [visit[v] EXCEPT !.phase = "issue", !.user = current'])
          \/ a # "ok" /\ Refuse(v)
  /\ UNCHANGED <<begun, rows, browser, request>>

NewSession(u) == [user |-> u, expires |-> now + SessionTTL]

StoreSession(v) == session' = [session EXCEPT ![v] = NewSession(visit[v].user)]

\* The target may not be allowed any more.  A session whose creation DynamoDB
\* has done but not confirmed is a duplicate to the repeated request.
Issue(v) ==
  /\ At(v, "issue")
  /\ UNCHANGED <<person, begun, state, request>>
  /\ \/ /\ ~IsAllowedReturnUrl(visit[v].url, visit[v].origins)
        /\ Refuse(v)
        /\ UNCHANGED <<session, browser>>
     \/ /\ IsAllowedReturnUrl(visit[v].url, visit[v].origins)
        /\ StoreSession(v)
        /\ \/ Succeed(v) /\ browser' = [browser EXCEPT !.session = v]
           \/ adapter = "dynamodb" /\ Refuse(v) /\ UNCHANGED browser

CallbackStep(v) ==
  \/ Consume(v)
  \/ Exchange(v)
  \/ VerifyToken(v)
  \/ Resolve(v)
  \/ Issue(v)
  \/ Conflicts(v)
---------------------------------------------------------------------------
(***************************************************************************)
(* Requests of the browser, with the session cookie or a bearer token.     *)
(***************************************************************************)
GetAppSession(c) == IF c # None /\ session[c] # None /\ Unexpired(session[c]) THEN session[c] ELSE None

\* Mutant of VerifySession: the row is taken as it is stored.
VerifyStored(c) == IF c = None \/ session[c] = None THEN 0 ELSE session[c].user

\* The user of a live session, or 0.  The manager mirrors the storage's check.
VerifySession(c) ==
  LET row == GetAppSession(c) IN IF row # None /\ Unexpired(row) THEN row.user ELSE 0

Unsafe(e) == e \in {"write", "admin"}

Is(r, p) == request[r].phase = p

Proceed(r, next) == request' = [request EXCEPT ![r] = next] /\ outcome' = Silence

Reply(r, a, u) ==
  /\ request' = [request EXCEPT ![r] = NoRequest]
  /\ outcome' = [Silence EXCEPT ![r] = [answer |-> a, session |-> ~request[r].bearer, user |-> u]]

\* The script of the page copies the token of its cookie into the header.
Send(r, e, bearer, header) ==
  /\ Is(r, "idle")
  /\ header \in {None, browser.csrf}
  /\ Proceed(r, [phase |-> "middleware", endpoint |-> e, cookie |-> browser.session,
                 csrf |-> browser.csrf, header |-> header, bearer |-> bearer, user |-> 0,
                 began |-> now, living |-> IF account = "absent" THEN 0 ELSE current])
  /\ UNCHANGED <<person, begun, rows, visit, browser>>

\* Mutant of EnforceCsrf: the cookie alone is compared.
EnforceCookie(r) ==
  LET q == request[r] IN
  /\ Is(r, "middleware")
  /\ UNCHANGED <<person, begun, rows, visit, browser>>
  /\ IF Unsafe(q.endpoint) /\ VerifySession(q.cookie) # 0 /\ q.csrf # q.cookie
     THEN Reply(r, "csrf", 0)
     ELSE Proceed(r, [q EXCEPT !.phase = IF q.bearer THEN "token" ELSE "session"])

\* An unsafe request with the cookie of a live session must carry the token
\* derived from that cookie twice.  A bearer token makes no difference.
EnforceCsrf(r) ==
  LET q == request[r] IN
  /\ Is(r, "middleware")
  /\ UNCHANGED <<person, begun, rows, visit, browser>>
  /\ \/ /\ Unsafe(q.endpoint) /\ VerifySession(q.cookie) # 0
        /\ q.csrf # q.cookie \/ q.header # q.cookie
        /\ Reply(r, "csrf", 0)
     \/ /\ \/ ~Unsafe(q.endpoint) \/ VerifySession(q.cookie) = 0
           \/ q.csrf = q.cookie /\ q.header = q.cookie
        /\ Proceed(r, [q EXCEPT !.phase = IF q.bearer THEN "token" ELSE "session"])

CurrentSession(r) ==
  LET u == VerifySession(request[r].cookie) IN
  /\ Is(r, "session")
  /\ UNCHANGED <<person, begun, rows, visit, browser>>
  /\ \/ u = 0 /\ Reply(r, "unauthorized", 0)
     \/ u # 0 /\ Proceed(r, [request[r] EXCEPT !.phase = "user", !.user = u])

\* /v1/csrf sets the cookie for the session cookie the browser sent.
Serve(r, u) ==
  LET q == request[r] IN
  \/ q.endpoint \in {"read", "write"} /\ Reply(r, "ok", u) /\ UNCHANGED browser
  \/ q.endpoint = "admin" /\ (Reply(r, "ok", u) \/ Reply(r, "forbidden", u)) /\ UNCHANGED browser
  \/ q.endpoint = "csrf" /\ q.cookie = None /\ Reply(r, "unauthorized", 0) /\ UNCHANGED browser
  \/ q.endpoint = "csrf" /\ q.cookie # None /\ Reply(r, "ok", u)
     /\ browser' = [browser EXCEPT !.csrf = q.cookie]

\* Mutant of ReadUser: the session's word is taken for the user.
TrustSession(r) ==
  /\ Is(r, "user")
  /\ UNCHANGED <<person, begun, rows, visit>>
  /\ \/ request[r].endpoint = "admin" /\ Serve(r, request[r].user)
     \/ /\ request[r].endpoint # "admin"
        /\ Proceed(r, [request[r] EXCEPT !.phase = "context"]) /\ UNCHANGED browser

\* Administration needs no organization, so it stops here.
ReadUser(r) ==
  LET u == request[r].user IN
  /\ Is(r, "user")
  /\ UNCHANGED <<person, begun, rows, visit>>
  /\ \/ ~Exists(u) /\ Reply(r, "unauthorized", 0) /\ UNCHANGED browser
     \/ Exists(u) /\ account = "disabled" /\ Reply(r, "forbidden", 0) /\ UNCHANGED browser
     \/ /\ Exists(u) /\ account # "disabled"
        /\ \/ request[r].endpoint = "admin" /\ Serve(r, u)
           \/ /\ request[r].endpoint # "admin"
              /\ Proceed(r, [request[r] EXCEPT !.phase = "context"]) /\ UNCHANGED browser

\* A user without a listed organization is an untranslated error here.
BuildContext(r) ==
  LET u == request[r].user IN
  /\ Is(r, "context")
  /\ UNCHANGED <<person, begun, rows, visit>>
  /\ \/ Exists(u) /\ account # "unlisted" /\ Serve(r, u)
     \/ ~(Exists(u) /\ account # "unlisted") /\ Reply(r, "error", 0) /\ UNCHANGED browser

\* A valid token of the person, resolved with the published mapping.
ResolveToken(r) ==
  /\ Is(r, "token")
  /\ UNCHANGED <<begun, rows, visit>>
  /\ \E a \in Answer :
       /\ Resolves(a, request[r].endpoint # "admin")
       /\ \/ a = "ok" /\ Serve(r, current')
          \/ a # "ok" /\ Reply(r, a, 0) /\ UNCHANGED browser

\* Clears both cookies; the session's row stays until it expires.
Logout ==
  /\ browser' = [session |-> None, csrf |-> None]
  /\ outcome' = Silence
  /\ UNCHANGED <<person, begun, rows, visit, request>>

RequestStep(r) ==
  \/ \E e \in Endpoint, bearer \in BOOLEAN, h \in Visit \cup {None} : Send(r, e, bearer, h)
  \/ EnforceCsrf(r)
  \/ CurrentSession(r)
  \/ ReadUser(r)
  \/ BuildContext(r)
  \/ ResolveToken(r)
---------------------------------------------------------------------------
(***************************************************************************)
(* The world: an index catches up, an administrator deletes the person's   *)
(* user, rows are swept, the service is deployed anew.                     *)
(***************************************************************************)
\* The index by-user catches up.
Propagate == account = "unlisted" /\ account' = "active" /\ UNCHANGED <<current, rows, erasing>>

SessionsOf(u) == {v \in Visit : session[v] # None /\ session[v].user = u}
Erased(vs) == [v \in Visit |-> IF v \in vs THEN None ELSE session[v]]

\* SQLite: one transaction.
DeleteAtOnce ==
  /\ adapter = "sqlite" /\ account # "absent"
  /\ session' = Erased(SessionsOf(current))
  /\ account' = "absent"
  /\ UNCHANGED <<current, state, erasing>>

\* DynamoDB: sessions are found first, users go before them.
ScanSessions ==
  /\ erasing.phase = "idle" /\ adapter = "dynamodb" /\ account # "absent"
  /\ erasing' = [phase |-> "user", user |-> current, sessions |-> SessionsOf(current)]
  /\ UNCHANGED <<person, rows>>

\* Mutant of EraseUser: the sessions found go before their user.
EraseSessionsFirst ==
  /\ erasing.phase = "user"
  /\ \/ /\ erasing.sessions # {}
        /\ \E v \in erasing.sessions :
             session' = Erased({v}) /\ erasing' = [erasing EXCEPT !.sessions = @ \ {v}]
        /\ UNCHANGED <<person, state>>
     \/ /\ erasing.sessions = {} /\ account' = "absent" /\ erasing' = NoErasing
        /\ UNCHANGED <<current, rows>>

EraseUser ==
  /\ erasing.phase = "user"
  /\ account' = "absent"
  /\ erasing' = [erasing EXCEPT !.phase = "sessions"]
  /\ UNCHANGED <<current, rows>>

EraseSessions ==
  /\ erasing.phase = "sessions"
  /\ \/ /\ erasing.sessions # {}
        /\ \E v \in erasing.sessions :
             session' = Erased({v}) /\ erasing' = [erasing EXCEPT !.sessions = @ \ {v}]
     \/ erasing.sessions = {} /\ erasing' = NoErasing /\ UNCHANGED session
  /\ UNCHANGED <<person, state>>

\* A storage fault, or the end of the process.
Abandon == erasing.phase # "idle" /\ erasing' = NoErasing /\ UNCHANGED <<person, rows>>

\* DynamoDB's time to live rounds down, so a row may go one tick early.
Sweep ==
  /\ adapter = "dynamodb"
  /\ \/ \E j \in Journey : /\ state[j] # None /\ state[j].expires <= now + 1
                           /\ state' = [state EXCEPT ![j] = None] /\ UNCHANGED session
     \/ \E v \in Visit : /\ session[v] # None /\ session[v].expires <= now + 1
                         /\ session' = Erased({v}) /\ UNCHANGED state
  /\ UNCHANGED <<person, erasing>>

World ==
  /\ Propagate \/ DeleteAtOnce \/ ScanSessions \/ EraseUser \/ EraseSessions \/ Abandon \/ Sweep
  /\ outcome' = Silence
  /\ UNCHANGED <<now, origins, begun, visit, browser, request>>

Redeploy ==
  /\ origins' \in Origins \ {origins}
  /\ outcome' = Silence
  /\ UNCHANGED <<now, person, begun, rows, visit, browser, request, erasing>>

Tick ==
  /\ now < MaxTime /\ now' = now + 1
  /\ outcome' = Silence
  /\ UNCHANGED <<origins, person, begun, rows, visit, browser, request, erasing>>

Browse ==
  /\ \/ \E j \in Journey, u \in Url : Login(j, u)
     \/ \E v \in Visit, j \in Journey : Arrive(v, j)
     \/ \E v \in Visit : CallbackStep(v)
     \/ (\E r \in Request : RequestStep(r)) \/ Logout
  /\ UNCHANGED <<now, origins, erasing>>

Next == (Browse \/ World \/ Redeploy \/ Tick) /\ UNCHANGED adapter

\* A callback that has begun is carried on: the handler waits for nothing but
\* its own calls, each of which has a timeout.
ServeCallback(v) == CallbackStep(v) /\ UNCHANGED <<adapter, now, origins, erasing>>

Fairness == \A v \in Visit : WF_vars(ServeCallback(v))

Spec == Init /\ [][Next]_vars
FairSpec == Spec /\ Fairness
---------------------------------------------------------------------------
(***************************************************************************)
(* Properties.                                                             *)
(***************************************************************************)
\* A login state serves one callback: whatever the order of two callbacks
\* with the same state, lost replies, expiry and sweeping, one of them at
\* most goes on to redeem a code (consume_oauth_login_state).
StateServesOnce ==
  \A v, w \in Visit : v # w /\ visit[v].won /\ visit[w].won => visit[v].journey # visit[w].journey

\* A session is not lost before its time: it goes within a tick of its expiry,
\* or when its user is gone.  Neither the sweeper's rounding, nor a deletion
\* that stops half way, nor one that goes on while the person has signed in
\* anew takes the session of a user who is still there (ttl_epoch_seconds,
\* the order of the deletes of admin_delete_organization).
SessionsAreKept ==
  [][\A v \in Visit, u \in User : v \in SessionsOf(u) /\ session'[v] = None =>
       session[v].expires <= now + 1 \/ ~Exists(u)']_vars

AcceptedBySession(r) == outcome'[r].answer = "ok" /\ outcome'[r].session

\* A request is served on a session only if the session had not expired when
\* the request arrived (SessionManager.verify, get_app_session of both
\* adapters; the sweeper is not relied on).
ServedBeforeExpiry ==
  [][\A r \in Request : AcceptedBySession(r) => request[r].began < visit[request[r].cookie].expires]_vars

\* A session left behind by a deletion, or issued to a user deleted meanwhile,
\* serves nobody: the user must have existed when the request arrived
\* (session branch of build_current_user and its sibling).
ServedToLivingUser ==
  [][\A r \in Request : AcceptedBySession(r) => outcome'[r].user = request[r].living]_vars

\* An unsafe request served on a session has passed the double-submit check
\* for that very session, though the middleware and the endpoint look the
\* session up at different times (install_session_csrf_middleware).
WritesCarryToken ==
  [][\A r \in Request : AcceptedBySession(r) /\ Unsafe(request[r].endpoint) =>
       request[r].csrf = request[r].cookie /\ request[r].header = request[r].cookie]_vars

\* Every callback that reaches the service is answered, whatever conflicts
\* its writes meet (execute_conditional_write, MAX_TRANSACTION_ATTEMPTS).
CallbackIsAnswered == \A v \in Visit : At(v, "consume") ~> At(v, "served") \/ At(v, "refused")
============================================================================
