----------------------------- MODULE SignInProofs -----------------------------
(***************************************************************************)
(* Proofs about logins and sessions, for any login states, callbacks,      *)
(* requests, users, life times and deployments.                            *)
(***************************************************************************)
EXTENDS SignIn, TLAPS

VisitRecord ==
  [phase : VisitPhase, journey : Journey \cup {None}, origins : Origins \cup {{}}, url : Url \cup {None},
   won : BOOLEAN, attempts : 0 .. MaxAttempts - 1, user : 0 .. MaxUser, expires : Time]

RequestRecord ==
  [phase : RequestPhase, endpoint : Endpoint, cookie : Visit \cup {None}, csrf : Visit \cup {None},
   header : Visit \cup {None}, bearer : BOOLEAN, user : 0 .. MaxUser, began : 0 .. MaxTime, living : 0 .. MaxUser]

OutcomeRecord == [answer : Answer, session : BOOLEAN, user : 0 .. MaxUser]

\* Types, one group of variables at a time.
WorldTypes ==
  /\ adapter \in {"sqlite", "dynamodb"}
  /\ now \in 0 .. MaxTime
  /\ origins \in Origins
  /\ current \in 0 .. MaxUser
  /\ account \in Account /\ (account # "absent" => current # 0)
  /\ begun \in SUBSET Journey
  /\ erasing \in [phase : {"idle", "scan", "user", "sessions"}, user : 0 .. MaxUser, sessions : SUBSET Visit]

RowTypes ==
  /\ state \in [Journey -> StateRow \cup {None}]
  /\ session \in [Visit -> SessionRow \cup {None}]

CallTypes ==
  /\ visit \in [Visit -> VisitRecord]
  /\ request \in [Request -> RequestRecord]
  /\ browser \in [session : Visit \cup {None}, csrf : Visit \cup {None}]

Types == WorldTypes /\ RowTypes /\ CallTypes

\* What won a state has spent it for good.
StateInv ==
  /\ \A j \in Journey : state[j] # None => j \in begun
  /\ \A v \in Visit : visit[v].won =>
       /\ visit[v].journey \in begun
       /\ state[visit[v].journey] = None
  /\ StateServesOnce

\* A callback issues its session in its last step.
Fits(v, q) ==
  /\ q.phase \in {"idle", "consume"} => ~q.won
  /\ q.phase = "consume" => q.journey \in Journey
  /\ q.phase = "issue" => q.user \in 1 .. current
  /\ session[v] # None =>
       /\ q.phase \in {"served", "refused"}
       /\ session[v].user \in 1 .. current
       /\ q.phase = "served" => session[v].expires = q.expires

VisitInv == \A v \in Visit : Fits(v, visit[v])

CookieInv == browser.session # None => visit[browser.session].phase = "served"

\* User u cannot have come to be since request q arrived.
Belongs(u, q) ==
  IF q.living # 0 THEN u <= q.living ELSE u < current \/ (u = current /\ account = "absent")

Carried(q) == q.csrf = q.cookie /\ q.header = q.cookie

\* What has been found out about a request.
Holds(q) ==
  /\ q.cookie # None => visit[q.cookie].phase = "served"
  /\ q.began <= now
  /\ q.living <= current
  /\ q.cookie # None /\ session[q.cookie] # None => Belongs(session[q.cookie].user, q)
  /\ (q.phase = "token" => q.bearer) /\ (q.phase \in {"session", "user", "context"} => ~q.bearer)
  /\ q.phase \in {"user", "context"} =>
       q.cookie # None /\ q.began < visit[q.cookie].expires /\ Belongs(q.user, q)
  /\ q.phase \in {"session", "user", "context"} /\ Unsafe(q.endpoint) =>
       Carried(q) \/ (q.phase = "session" /\ VerifySession(q.cookie) = 0)

RequestInv == \A r \in Request : request[r].phase # "idle" => Holds(request[r])

\* The inductive invariant.
IInv == Types /\ StateInv /\ VisitInv /\ CookieInv /\ RequestInv
---------------------------------------------------------------------------
\* How the world moves on: a user who has gone comes back as another, a
\* callback that is over stays so, and its session can only go.
PersonMoves ==
  /\ current' >= current
  /\ current' = current /\ account = "absent" => account' = "absent"

Progress ==
  /\ PersonMoves
  /\ now' >= now
  /\ \A v \in Visit : visit[v].phase = "served" =>
       visit'[v] = visit[v] /\ (session'[v] = session[v] \/ session'[v] = None)

LEMMA Bounds ==
  /\ MaxUser \in Nat \ {0} /\ MaxTime \in Nat \ {0} /\ StateTTL \in Nat \ {0}
  /\ SessionTTL \in Nat \ {0} /\ MaxAttempts \in Nat \ {0}
  BY BoundsArePositive

LEMMA InvInit == Init => IInv
<1> SUFFICES ASSUME Init PROVE IInv
  OBVIOUS
<1>1. NoVisit \in VisitRecord
  BY Bounds DEF NoVisit, VisitRecord, VisitPhase, Time
<1>2. NoRequest \in RequestRecord
  BY Bounds DEF NoRequest, RequestRecord, RequestPhase, Endpoint
<1>3. Types
  <2>1. WorldTypes
    BY Bounds DEF Init, WorldTypes, Account, NoErasing
  <2>2. RowTypes
    BY DEF Init, RowTypes
  <2>3. CallTypes
    BY <1>1, <1>2 DEF Init, CallTypes
  <2>4. QED
    BY <2>1, <2>2, <2>3 DEF Types
<1>4. StateInv
  BY DEF Init, StateInv, StateServesOnce, NoVisit
<1>5. VisitInv
  BY DEF Init, VisitInv, Fits, NoVisit
<1>6. CookieInv /\ RequestInv
  BY DEF Init, CookieInv, RequestInv, NoRequest
<1>7. QED
  BY <1>3, <1>4, <1>5, <1>6 DEF IInv

\* A session that does not verify never will, once its callback is over.
LEMMA SessionsEnd ==
  ASSUME IInv, Progress, WorldTypes', RowTypes', NEW c \in Visit, visit[c].phase = "served",
         VerifySession(c) = 0
  PROVE  VerifySession(c)' = 0
<1>1. session'[c] = session[c] \/ session'[c] = None
  BY DEF Progress
<1>2. session[c] = None \/ (session[c] \in SessionRow /\ session[c] # None /\ ~(now < session[c].expires))
  <2>1. session[c] \in SessionRow \cup {None}
    BY DEF IInv, Types, RowTypes
  <2>2. ASSUME session[c] # None, now < session[c].expires PROVE FALSE
    <3>1. VerifySession(c) = session[c].user
      BY <2>2, NoneIsNobody, Zenon DEF VerifySession, GetAppSession, Unexpired
    <3>2. session[c].user # 0
      BY <2>1, <2>2 DEF SessionRow, User
    <3>3. QED
      BY <3>1, <3>2
  <2>3. QED
    BY <2>1, <2>2
<1>3. now' >= now /\ now \in Int /\ now' \in Int
  BY DEF Progress, IInv, Types, WorldTypes
<1>4. session[c] # None => session[c].expires \in Int
  BY <1>2, Bounds DEF SessionRow, Time
<1>5. session'[c] = None \/ (session'[c] # None /\ ~(now' < session'[c].expires))
  BY <1>1, <1>2, <1>3, <1>4
<1>6. QED
  BY <1>5 DEF VerifySession, GetAppSession, Unexpired

\* A request that nobody touches knows tomorrow what it knows today.
LEMMA HoldsStill ==
  ASSUME IInv, Progress, WorldTypes', RowTypes', NEW q \in RequestRecord, Holds(q)
  PROVE  Holds(q)'
<1>1. /\ current \in Nat /\ current' \in Nat /\ now \in Nat /\ now' \in Nat
      /\ q.began \in Nat /\ q.living \in Nat /\ q.user \in Nat /\ q.cookie \in Visit \cup {None}
  BY Bounds DEF IInv, Types, WorldTypes, RequestRecord
<1>2. ASSUME NEW u \in Nat, Belongs(u, q) PROVE Belongs(u, q)'
  BY <1>1, <1>2 DEF Belongs, Progress, PersonMoves
<1>3. q.cookie # None =>
        /\ q.cookie \in Visit /\ visit[q.cookie].phase = "served" /\ visit'[q.cookie] = visit[q.cookie]
        /\ session'[q.cookie] = session[q.cookie] \/ session'[q.cookie] = None
  BY <1>1 DEF Holds, Progress
<1>4. q.cookie # None /\ session[q.cookie] # None => session[q.cookie].user \in Nat
  BY <1>1 DEF IInv, Types, RowTypes, SessionRow, User
<1>5. q.cookie # None /\ VerifySession(q.cookie) = 0 => VerifySession(q.cookie)' = 0
  BY <1>3, SessionsEnd
<1>6. q.cookie = None => VerifySession(q.cookie)' = 0
  BY DEF VerifySession, GetAppSession
<1>7. q.began <= now' /\ q.living <= current'
  BY <1>1 DEF Holds, Progress, PersonMoves
<1>8. ASSUME q.cookie # None, session'[q.cookie] # None PROVE Belongs(session[q.cookie].user, q)'
  <2>1. session'[q.cookie] = session[q.cookie] /\ session[q.cookie].user \in Nat
    BY <1>3, <1>4, <1>8
  <2>2. PICK u \in Nat : u = session[q.cookie].user
    BY <2>1
  <2>3. Belongs(u, q)'
    BY <1>2, <1>8, <2>1, <2>2 DEF Holds
  <2>4. QED
    BY <2>1, <2>2, <2>3 DEF Belongs
<1>9. q.phase \in {"user", "context"} =>
        q.cookie # None /\ q.began < visit'[q.cookie].expires /\ Belongs(q.user, q)'
  BY <1>1, <1>2, <1>3 DEF Holds
<1>10. q.phase \in {"session", "user", "context"} /\ Unsafe(q.endpoint) =>
        Carried(q) \/ (q.phase = "session" /\ VerifySession(q.cookie)' = 0)
  BY <1>5, <1>6 DEF Holds
<1>11. QED
  BY <1>3, <1>7, <1>8, <1>9, <1>10 DEF Holds

LEMMA OthersHold ==
  ASSUME IInv, Progress, WorldTypes', RowTypes', NEW r \in Request, request'[r] = request[r],
         request[r].phase # "idle"
  PROVE  Holds(request[r])'
<1>1. request[r] \in RequestRecord /\ Holds(request[r])
  BY DEF IInv, Types, CallTypes, RequestInv
<1>2. PICK q \in RequestRecord : q = request[r]
  BY <1>1
<1>3. Holds(q)'
  BY <1>1, <1>2, HoldsStill
<1>4. q = request'[r]
  BY <1>2
<1>5. QED
  BY <1>3, <1>4
---------------------------------------------------------------------------
(***************************************************************************)
(* The three kinds of steps: of a callback, of a request, of the world.    *)
(***************************************************************************)
LEMMA CallbackKeeps ==
  ASSUME IInv, NEW v \in Visit, visit[v].phase \notin {"served", "refused"},
         NEW next \in VisitRecord, Continue(v, next),
         UNCHANGED <<adapter, now, origins, begun, erasing, request>>,
         WorldTypes', RowTypes', PersonMoves,
         \A j \in Journey : state'[j] = state[j] \/ state'[j] = None,
         \A w \in Visit : w # v => session'[w] = session[w],
         UNCHANGED browser \/ (browser' = [browser EXCEPT !.session = v] /\ next.phase = "served"),
         Fits(v, next)',
         next.won => /\ next.journey = visit[v].journey
                     /\ \/ visit[v].won
                        \/ /\ next.journey \in Journey /\ state[next.journey] # None
                           /\ state'[next.journey] = None
  PROVE  IInv'
<1>1. /\ visit' \in [Visit -> VisitRecord] /\ visit'[v] = next
      /\ \A w \in Visit : w # v => visit'[w] = visit[w]
  BY DEF Continue, IInv, Types, CallTypes
<1>2. browser' \in [session : Visit \cup {None}, csrf : Visit \cup {None}]
  BY DEF IInv, Types, CallTypes
<1>3. Types'
  BY <1>1, <1>2 DEF IInv, Types, CallTypes
<1>4. Progress
  BY <1>1 DEF Progress, IInv, Types, WorldTypes
<1>5. RequestInv'
  BY <1>4, OthersHold DEF RequestInv
<1>6. VisitInv'
  <2>1. ASSUME NEW w \in Visit, w # v PROVE Fits(w, visit[w])'
    <3>1. current \in Nat /\ current' \in Nat /\ current' >= current
      BY Bounds DEF IInv, Types, WorldTypes, PersonMoves
    <3>2. visit'[w] = visit[w] /\ session'[w] = session[w] /\ Fits(w, visit[w])
      BY <1>1, <2>1 DEF IInv, VisitInv
    <3>3. QED
      BY <3>1, <3>2 DEF Fits
  <2>2. QED
    BY <1>1, <2>1 DEF VisitInv
<1>7. StateInv'
  <2>1. \A j \in Journey : state'[j] # None => j \in begun'
    BY DEF IInv, StateInv
  <2>2. begun \subseteq Journey
    BY DEF IInv, Types, WorldTypes
  <2>3. ASSUME NEW w \in Visit, visit'[w].won
        PROVE  visit'[w].journey \in begun' /\ state'[visit'[w].journey] = None
    BY <1>1, <2>2, <2>3 DEF IInv, StateInv
  <2>4. ASSUME NEW w \in Visit, w # v, next.won, visit[w].won PROVE visit[w].journey # next.journey
    BY <2>4 DEF IInv, StateInv, StateServesOnce
  <2>5. StateServesOnce'
    BY <1>1, <2>4 DEF IInv, StateInv, StateServesOnce
  <2>6. QED
    BY <2>1, <2>3, <2>5 DEF StateInv
<1>8. CookieInv'
  BY <1>1 DEF IInv, CookieInv, Types, CallTypes
<1>9. QED
  BY <1>3, <1>5, <1>6, <1>7, <1>8 DEF IInv

LEMMA RequestKeeps ==
  ASSUME IInv, NEW r \in Request, NEW next \in RequestRecord, request' = [request EXCEPT ![r] = next],
         UNCHANGED <<adapter, now, origins, begun, erasing, state, session, visit>>,
         WorldTypes', PersonMoves,
         browser' \in [session : Visit \cup {None}, csrf : Visit \cup {None}], UNCHANGED browser.session,
         next.phase # "idle" => Holds(next)'
  PROVE  IInv'
<1>1. /\ request' \in [Request -> RequestRecord] /\ request'[r] = next
      /\ \A o \in Request : o # r => request'[o] = request[o]
  BY DEF IInv, Types, CallTypes
<1>2. Types' /\ RowTypes'
  BY <1>1 DEF IInv, Types, CallTypes, RowTypes
<1>3. Progress
  BY DEF Progress, IInv, Types, WorldTypes
<1>4. RequestInv'
  <2>1. ASSUME NEW o \in Request, request'[o].phase # "idle" PROVE Holds(request[o])'
    <3>1. CASE o = r
      BY <1>1, <2>1, <3>1
    <3>2. CASE o # r
      BY <1>1, <1>2, <1>3, <2>1, <3>2, OthersHold
    <3>3. QED
      BY <3>1, <3>2
  <2>2. QED
    BY <2>1 DEF RequestInv
<1>5. VisitInv'
  <2>1. current \in Nat /\ current' \in Nat /\ current' >= current
    BY Bounds DEF IInv, Types, WorldTypes, PersonMoves
  <2>2. QED
    BY <2>1 DEF IInv, VisitInv, Fits
<1>6. StateInv' /\ CookieInv'
  BY DEF IInv, StateInv, StateServesOnce, CookieInv
<1>7. QED
  BY <1>2, <1>4, <1>5, <1>6 DEF IInv

LEMMA WorldKeeps ==
  ASSUME IInv, UNCHANGED <<begun, visit, request>>, WorldTypes', RowTypes', PersonMoves, now' >= now,
         \A j \in Journey : state'[j] = state[j] \/ state'[j] = None,
         \A v \in Visit : session'[v] = session[v] \/ session'[v] = None,
         browser' \in [session : Visit \cup {None}, csrf : Visit \cup {None}],
         browser'.session = browser.session \/ browser'.session = None
  PROVE  IInv'
<1>1. Types'
  BY DEF IInv, Types, CallTypes
<1>2. Progress
  BY DEF Progress
<1>3. RequestInv'
  BY <1>2, OthersHold DEF RequestInv
<1>4. VisitInv'
  <2>1. current \in Nat /\ current' \in Nat /\ current' >= current
    BY Bounds DEF IInv, Types, WorldTypes, PersonMoves
  <2>2. QED
    BY <2>1 DEF IInv, VisitInv, Fits
<1>5. StateInv'
  <2>1. begun \subseteq Journey
    BY DEF IInv, Types, WorldTypes
  <2>2. QED
    BY <2>1 DEF IInv, StateInv, StateServesOnce
<1>6. CookieInv'
  BY DEF IInv, CookieInv
<1>7. QED
  BY <1>1, <1>3, <1>4, <1>5, <1>6 DEF IInv
---------------------------------------------------------------------------
(***************************************************************************)
(* The steps of a callback.                                                *)
(***************************************************************************)
Busy(v) == visit[v].phase \notin {"served", "refused"}

LEMMA BusyFacts ==
  ASSUME IInv, NEW v \in Visit, Busy(v)
  PROVE  session[v] = None /\ visit[v] \in VisitRecord /\ Fits(v, visit[v])
  BY DEF IInv, VisitInv, Fits, Busy, Types, CallTypes

LEMMA NobodyMoves == ASSUME IInv, UNCHANGED person PROVE PersonMoves
  BY DEF person, PersonMoves, IInv, Types, WorldTypes

LEMMA TypesStay ==
  ASSUME IInv, UNCHANGED <<adapter, now, origins, begun, erasing, person>>
  PROVE  WorldTypes'
  BY DEF person, IInv, Types, WorldTypes

LEMMA RowsStay == ASSUME IInv, UNCHANGED rows PROVE RowTypes'
  BY DEF rows, IInv, Types, RowTypes

\* What resolve_or_provision may do to the person's user.
LEMMA ResolvesMoves ==
  ASSUME IInv, UNCHANGED <<adapter, now, origins, begun, erasing>>, NEW a, NEW tenant, Resolves(a, tenant)
  PROVE  WorldTypes' /\ PersonMoves /\ (a = "ok" => current' \in 1 .. current' /\ account' # "absent")
<1>1. current \in 0 .. MaxUser /\ account \in Account /\ (account # "absent" => current # 0) /\ MaxUser \in Nat
  BY Bounds DEF IInv, Types, WorldTypes
<1>2. CASE UNCHANGED person /\ (a = "ok" => account \in {"active", "unlisted"})
  <2>1. WorldTypes' /\ PersonMoves
    BY <1>2, TypesStay, NobodyMoves
  <2>2. QED
    BY <1>1, <1>2, <2>1 DEF person
<1>3. CASE account = "absent" /\ current < MaxUser /\ current' = current + 1 /\ account' \in {"active", "unlisted"}
  <2>1. current' \in 0 .. MaxUser /\ current' # 0 /\ current' > current /\ account' \in Account
    BY <1>1, <1>3 DEF Account
  <2>2. QED
    BY <1>1, <1>3, <2>1 DEF IInv, Types, WorldTypes, PersonMoves
<1>4. QED
  BY <1>2, <1>3 DEF Resolves

LEMMA Refused ==
  ASSUME NEW q \in VisitRecord
  PROVE  LET next == [NoVisit EXCEPT !.phase = "refused", !.journey = q.journey, !.won = q.won]
         IN  next \in VisitRecord /\ next.phase = "refused" /\ next.journey = q.journey /\ next.won = q.won
<1>1. NoVisit \in VisitRecord
  BY Bounds DEF NoVisit, VisitRecord, VisitPhase, Time
<1>2. QED
  BY <1>1 DEF VisitRecord, VisitPhase

\* A callback is refused, at whatever step.
LEMMA RefuseKeeps ==
  ASSUME IInv, NEW v \in Visit, Busy(v), Refuse(v),
         UNCHANGED <<adapter, now, origins, begun, erasing, request, browser>>,
         WorldTypes', RowTypes', PersonMoves,
         \A j \in Journey : state'[j] = state[j] \/ state'[j] = None,
         \A w \in Visit : w # v => session'[w] = session[w],
         session'[v] # None => session'[v].user \in 1 .. current'
  PROVE  IInv'
<1>1. PICK q \in VisitRecord : q = visit[v]
  BY BusyFacts
<1>2. PICK next \in VisitRecord :
        /\ next = [NoVisit EXCEPT !.phase = "refused", !.journey = q.journey, !.won = q.won]
        /\ next.phase = "refused" /\ next.journey = q.journey /\ next.won = q.won
  BY Refused
<1>3. Continue(v, next)
  BY <1>1, <1>2 DEF Refuse
<1>4. Fits(v, next)'
  BY <1>2 DEF Fits
<1>5. QED
  BY <1>1, <1>2, <1>3, <1>4, CallbackKeeps DEF Busy

\* A callback goes on and changes nothing but its own record.
LEMMA ContinueKeeps ==
  ASSUME IInv, NEW v \in Visit, Busy(v), NEW next \in VisitRecord, Continue(v, next),
         UNCHANGED <<adapter, now, origins, begun, erasing, request, browser, session>>,
         WorldTypes', PersonMoves,
         state' \in [Journey -> StateRow \cup {None}],
         \A j \in Journey : state'[j] = state[j] \/ state'[j] = None,
         next.phase \in {"idle", "consume"} => ~next.won,
         next.phase = "consume" => next.journey \in Journey,
         next.phase = "issue" => next.user \in 1 .. current',
         next.won => /\ next.journey = visit[v].journey
                     /\ \/ visit[v].won
                        \/ /\ next.journey \in Journey /\ state[next.journey] # None
                           /\ state'[next.journey] = None
  PROVE  IInv'
<1>1. session[v] = None
  BY BusyFacts
<1>2. Fits(v, next)'
  BY <1>1 DEF Fits
<1>3. RowTypes'
  BY DEF IInv, Types, RowTypes
<1>4. QED
  BY <1>2, <1>3, CallbackKeeps DEF Busy

LEMMA ArriveKeeps ==
  ASSUME IInv, UNCHANGED <<adapter, now, origins, erasing>>, NEW v \in Visit, NEW j \in Journey, Arrive(v, j)
  PROVE  IInv'
<1>1. UNCHANGED <<adapter, now, origins, begun, erasing, request, browser, session, state>> /\ UNCHANGED person
  BY DEF Arrive, rows
<1>2. Busy(v) /\ WorldTypes' /\ PersonMoves /\ RowTypes'
  BY <1>1, TypesStay, NobodyMoves, RowsStay DEF Arrive, At, Busy, rows
<1>3. CASE Refuse(v)
  BY <1>1, <1>2, <1>3, BusyFacts, RefuseKeeps
<1>4. CASE Continue(v, [NoVisit EXCEPT !.phase = "consume", !.journey = j, !.origins = origins])
  <2>1. NoVisit \in VisitRecord /\ NoVisit.won = FALSE
    BY Bounds DEF NoVisit, VisitRecord, VisitPhase, Time
  <2> DEFINE next == [NoVisit EXCEPT !.phase = "consume", !.journey = j, !.origins = origins]
  <2>2. /\ next \in VisitRecord
        /\ next.phase = "consume" /\ next.journey = j /\ next.won = FALSE
    BY <2>1 DEF VisitRecord, VisitPhase, IInv, Types, WorldTypes
  <2>go. Continue(v, next)
    BY <1>4
  <2> HIDE DEF next
  <2>3. QED
    BY <1>1, <1>2, <2>2, <2>go, ContinueKeeps DEF IInv, Types, RowTypes
<1>5. QED
  BY <1>3, <1>4 DEF Arrive

LEMMA ConflictsKeep ==
  ASSUME IInv, UNCHANGED <<adapter, now, origins, erasing>>, NEW v \in Visit, Conflicts(v)
  PROVE  IInv'
<1>1. UNCHANGED <<adapter, now, origins, begun, erasing, request, browser, session, state>> /\ UNCHANGED person
  BY DEF Conflicts, rows
<1>2. Busy(v) /\ WorldTypes' /\ PersonMoves /\ RowTypes'
  BY <1>1, TypesStay, NobodyMoves, RowsStay DEF Conflicts, At, Busy, rows
<1>3. CASE Refuse(v)
  BY <1>1, <1>2, <1>3, BusyFacts, RefuseKeeps
<1>4. CASE /\ visit[v].attempts + 1 < MaxAttempts
           /\ Continue(v, [visit[v] EXCEPT !.attempts = @ + 1])
  <2>1. visit[v] \in VisitRecord /\ Fits(v, visit[v])
    BY <1>2, BusyFacts
  <2>2. visit[v].attempts + 1 \in 0 .. MaxAttempts - 1
    BY <1>4, <2>1, Bounds DEF VisitRecord
  <2> DEFINE next == [visit[v] EXCEPT !.attempts = @ + 1]
  <2>3. /\ next \in VisitRecord
        /\ next.phase = visit[v].phase /\ next.journey = visit[v].journey /\ next.won = visit[v].won
        /\ next.user = visit[v].user
    BY <2>1, <2>2 DEF VisitRecord
  <2>go. Continue(v, next)
    BY <1>4
  <2> HIDE DEF next
  <2>4. UNCHANGED current
    BY <1>1 DEF person
  <2>5. QED
    BY <1>1, <1>2, <2>1, <2>3, <2>4, <2>go, ContinueKeeps DEF Fits, IInv, Types, RowTypes
<1>5. QED
  BY <1>3, <1>4 DEF Conflicts

LEMMA ConsumeKeeps ==
  ASSUME IInv, UNCHANGED <<adapter, now, origins, erasing>>, NEW v \in Visit, Consume(v)
  PROVE  IInv'
<1> DEFINE j == visit[v].journey
<1>1. UNCHANGED <<adapter, now, origins, begun, erasing, request, browser, session>> /\ UNCHANGED person
  BY DEF Consume
<1>2. Busy(v) /\ WorldTypes' /\ PersonMoves /\ visit[v].phase = "consume"
  BY <1>1, TypesStay, NobodyMoves DEF Consume, At, Busy
<1>3. visit[v] \in VisitRecord /\ j \in Journey
  BY <1>2, BusyFacts DEF Fits
<1>4. state' = [state EXCEPT ![j] = None]
  BY DEF Consume, Spend
<1>5. /\ state' \in [Journey -> StateRow \cup {None}] /\ state'[j] = None
      /\ \A i \in Journey : state'[i] = state[i] \/ state'[i] = None
      /\ RowTypes'
  BY <1>1, <1>3, <1>4 DEF IInv, Types, RowTypes
<1>6. CASE Refuse(v)
  BY <1>1, <1>2, <1>5, <1>6, BusyFacts, RefuseKeeps
<1>7. CASE /\ state[j] # None
           /\ Continue(v, [visit[v] EXCEPT !.phase = "exchange", !.url = state[j].url, !.won = TRUE, !.attempts = 0])
  <2>1. state[j].url \in Url /\ 0 \in 0 .. MaxAttempts - 1
    BY <1>3, <1>7, Bounds DEF IInv, Types, RowTypes, StateRow
  <2>2. PICK zero \in 0 .. MaxAttempts - 1 : zero = 0
    BY <2>1
  <2> DEFINE next == [visit[v] EXCEPT !.phase = "exchange", !.url = state[j].url, !.won = TRUE, !.attempts = zero]
  <2>3. /\ next \in VisitRecord
        /\ next.phase = "exchange" /\ next.journey = j /\ next.won
    BY <1>3, <2>1 DEF VisitRecord, VisitPhase
  <2>4. Continue(v, next)
    BY <1>7, <2>2
  <2> HIDE DEF next
  <2> HIDE DEF j
  <2>5. QED
    BY <1>1, <1>2, <1>3, <1>5, <1>7, <2>3, <2>4, ContinueKeeps DEF j
<1>8. QED
  BY <1>6, <1>7 DEF Consume

LEMMA ExchangeOrVerifyKeeps ==
  ASSUME IInv, UNCHANGED <<adapter, now, origins, erasing>>, NEW v \in Visit, Exchange(v) \/ VerifyToken(v)
  PROVE  IInv'
<1>1. UNCHANGED <<adapter, now, origins, begun, erasing, request, browser, session, state>> /\ UNCHANGED person
  BY DEF Exchange, VerifyToken, rows
<1>2. Busy(v) /\ WorldTypes' /\ PersonMoves /\ RowTypes'
  BY <1>1, TypesStay, NobodyMoves, RowsStay DEF Exchange, VerifyToken, At, Busy, rows
<1>3. CASE Refuse(v)
  BY <1>1, <1>2, <1>3, BusyFacts, RefuseKeeps
<1>4. ASSUME NEW p \in {"verify", "resolve"}, Continue(v, [visit[v] EXCEPT !.phase = p]) PROVE IInv'
  <2>1. visit[v] \in VisitRecord /\ Fits(v, visit[v])
    BY <1>2, BusyFacts
  <2> DEFINE next == [visit[v] EXCEPT !.phase = p]
  <2>2. /\ next \in VisitRecord
        /\ next.phase = p /\ next.journey = visit[v].journey /\ next.won = visit[v].won
    BY <2>1 DEF VisitRecord, VisitPhase
  <2>go. Continue(v, next)
    BY <1>4
  <2> HIDE DEF next
  <2>3. QED
    BY <1>1, <1>2, <2>2, <2>go, ContinueKeeps DEF IInv, Types, RowTypes
<1>5. QED
  BY <1>3, <1>4 DEF Exchange, VerifyToken

LEMMA ResolveKeeps ==
  ASSUME IInv, UNCHANGED <<adapter, now, origins, erasing>>, NEW v \in Visit, Resolve(v)
  PROVE  IInv'
<1>1. UNCHANGED <<adapter, now, origins, begun, erasing, request, browser, session, state>>
  BY DEF Resolve, rows
<1>2. PICK a \in Answer :
        /\ Resolves(a, TRUE)
        /\ \/ a = "ok" /\ Continue(v, [visit[v] EXCEPT !.phase = "issue", !.user = current'])
           \/ a # "ok" /\ Refuse(v)
  BY DEF Resolve
<1>3. WorldTypes' /\ PersonMoves /\ (a = "ok" => current' \in 1 .. current')
  BY <1>1, <1>2, ResolvesMoves
<1>4. Busy(v) /\ RowTypes'
  BY <1>1, RowsStay DEF Resolve, At, Busy, rows
<1>5. CASE Refuse(v)
  BY <1>1, <1>3, <1>4, <1>5, BusyFacts, RefuseKeeps
<1>6. CASE a = "ok" /\ Continue(v, [visit[v] EXCEPT !.phase = "issue", !.user = current'])
  <2>1. visit[v] \in VisitRecord
    BY <1>4, BusyFacts
  <2>2. current' \in 0 .. MaxUser
    BY <1>3 DEF WorldTypes
  <2> DEFINE next == [visit[v] EXCEPT !.phase = "issue", !.user = current']
  <2>3. /\ next \in VisitRecord
        /\ next.phase = "issue" /\ next.journey = visit[v].journey /\ next.won = visit[v].won
        /\ next.user = current'
    BY <2>1, <2>2 DEF VisitRecord, VisitPhase
  <2>go. Continue(v, next)
    BY <1>6
  <2> HIDE DEF next
  <2>4. PICK x \in VisitRecord : x = next
    BY <2>3
  <2>5. /\ Continue(v, x) /\ x.phase = "issue" /\ x.journey = visit[v].journey /\ x.won = visit[v].won
        /\ x.user \in 1 .. current'
    BY <1>3, <1>6, <2>3, <2>4, <2>go
  <2>6. state' \in [Journey -> StateRow \cup {None}]
    BY <1>1 DEF IInv, Types, RowTypes
  <2>7. QED
    BY <1>1, <1>3, <1>4, <2>5, <2>6, ContinueKeeps
<1>7. QED
  BY <1>2, <1>5, <1>6

LEMMA IssueKeeps ==
  ASSUME IInv, UNCHANGED <<adapter, now, origins, erasing>>, NEW v \in Visit, Issue(v)
  PROVE  IInv'
<1>1. UNCHANGED <<adapter, now, origins, begun, erasing, request, state>> /\ UNCHANGED person
  BY DEF Issue
<1>2. Busy(v) /\ WorldTypes' /\ PersonMoves /\ visit[v].phase = "issue"
  BY <1>1, TypesStay, NobodyMoves DEF Issue, At, Busy
<1>3. visit[v] \in VisitRecord /\ visit[v].user \in 1 .. current /\ current \in 0 .. MaxUser
      /\ current' = current /\ MaxUser \in Nat
  BY <1>1, <1>2, BusyFacts, Bounds DEF Fits, IInv, Types, WorldTypes, person
<1>4. now + SessionTTL \in Time
  BY Bounds DEF IInv, Types, WorldTypes, Time
<1>5. CASE Refuse(v) /\ UNCHANGED <<session, browser>>
  <2>1. RowTypes'
    BY <1>1, <1>5, RowsStay DEF rows
  <2>2. QED
    BY <1>1, <1>2, <1>5, <2>1, BusyFacts, RefuseKeeps
<1>6. CASE StoreSession(v)
  <2> DEFINE row == [user |-> visit[v].user, expires |-> now + SessionTTL]
  <2>1. session' = [session EXCEPT ![v] = row]
    BY <1>6 DEF StoreSession, NewSession
  <2>2. row \in SessionRow /\ row.user = visit[v].user /\ row.expires = now + SessionTTL
    BY <1>3, <1>4 DEF SessionRow, User
  <2> HIDE DEF row
  <2>3. /\ session' \in [Visit -> SessionRow \cup {None}] /\ session'[v] = row
        /\ \A w \in Visit : w # v => session'[w] = session[w]
    BY <2>1, <2>2 DEF IInv, Types, RowTypes
  <2>4. RowTypes'
    BY <1>1, <2>3 DEF IInv, Types, RowTypes
  <2>5. session'[v].user \in 1 .. current'
    BY <1>3, <2>2, <2>3
  <2>6. CASE Refuse(v) /\ UNCHANGED browser
    BY <1>1, <1>2, <2>3, <2>4, <2>5, <2>6, RefuseKeeps
  <2>7. CASE Succeed(v) /\ browser' = [browser EXCEPT !.session = v]
    <3>1. NoVisit \in VisitRecord
      BY Bounds DEF NoVisit, VisitRecord, VisitPhase, Time
    <3> DEFINE next == [NoVisit EXCEPT !.phase = "served", !.journey = visit[v].journey,
                                       !.won = visit[v].won, !.expires = now + SessionTTL]
    <3>2. /\ next \in VisitRecord
          /\ next.phase = "served" /\ next.journey = visit[v].journey /\ next.won = visit[v].won
          /\ next.expires = now + SessionTTL
      BY <1>3, <1>4, <3>1 DEF VisitRecord, VisitPhase
    <3>3. Continue(v, next)
      BY <2>7 DEF Succeed
    <3> HIDE DEF next
    <3>4. PICK x \in VisitRecord : x = next
      BY <3>2
    <3>5. Fits(v, x)'
      BY <2>2, <2>3, <2>5, <3>2, <3>4 DEF Fits
    <3>6. /\ Continue(v, x) /\ x.phase = "served" /\ x.journey = visit[v].journey
          /\ x.won => visit[v].won
      BY <3>2, <3>3, <3>4
    <3>7. QED
      BY <1>1, <1>2, <2>3, <2>4, <2>7, <3>5, <3>6, CallbackKeeps DEF Busy
  <2>8. QED
    BY <1>6, <2>6, <2>7 DEF Issue, StoreSession
<1>7. QED
  BY <1>5, <1>6 DEF Issue
---------------------------------------------------------------------------
(***************************************************************************)
(* The steps of a request.                                                 *)
(***************************************************************************)
LEMMA RequestFacts ==
  ASSUME IInv, NEW r \in Request
  PROVE  request[r] \in RequestRecord /\ (request[r].phase # "idle" => Holds(request[r]))
  BY DEF IInv, Types, CallTypes, RequestInv

\* A request is answered.
LEMMA AnsweredKeeps ==
  ASSUME IInv, NEW r \in Request, request' = [request EXCEPT ![r] = NoRequest],
         UNCHANGED <<adapter, now, origins, begun, erasing, rows, visit>>, WorldTypes', PersonMoves,
         browser' \in [session : Visit \cup {None}, csrf : Visit \cup {None}], UNCHANGED browser.session
  PROVE  IInv'
<1>1. NoRequest \in RequestRecord
  BY Bounds DEF NoRequest, RequestRecord, RequestPhase, Endpoint
<1>2. NoRequest.phase = "idle"
  BY DEF NoRequest
<1>3. PICK next \in RequestRecord : next = NoRequest /\ next.phase = "idle"
  BY <1>1, <1>2
<1>4. QED
  BY <1>3, RequestKeeps DEF rows

\* What serving a request does to it and to the cookies.
LEMMA ServeDoes ==
  ASSUME IInv, NEW r \in Request, request' = [request EXCEPT ![r] = NoRequest],
         UNCHANGED browser \/ browser' = [browser EXCEPT !.csrf = request[r].cookie]
  PROVE  /\ browser' \in [session : Visit \cup {None}, csrf : Visit \cup {None}]
         /\ UNCHANGED browser.session
<1>1. /\ browser \in [session : Visit \cup {None}, csrf : Visit \cup {None}]
      /\ request[r].cookie \in Visit \cup {None}
  BY RequestFacts DEF IInv, Types, CallTypes, RequestRecord
<1>2. QED
  BY <1>1

\* A request goes on with what has been found out about it.
LEMMA ProceedKeeps ==
  ASSUME IInv, NEW r \in Request, NEW next \in RequestRecord, Proceed(r, next),
         UNCHANGED <<adapter, now, origins, begun, erasing, person, rows, visit, browser>>, Holds(next)
  PROVE  IInv'
<1>1. WorldTypes' /\ PersonMoves
  BY TypesStay, NobodyMoves
<1>2. UNCHANGED <<state, session, account, current>>
  BY DEF rows, person
<1>3. Holds(next)'
  BY <1>2 DEF Holds, Belongs, VerifySession, GetAppSession, Unexpired
<1>4. browser' \in [session : Visit \cup {None}, csrf : Visit \cup {None}]
  BY DEF IInv, Types, CallTypes
<1>5. QED
  BY <1>1, <1>2, <1>3, <1>4, RequestKeeps DEF Proceed

LEMMA SendKeeps ==
  ASSUME IInv, UNCHANGED <<adapter, now, origins, erasing>>, NEW r \in Request, NEW e \in Endpoint,
         NEW bearer \in BOOLEAN, NEW header \in Visit \cup {None}, Send(r, e, bearer, header)
  PROVE  IInv'
<1> DEFINE next == [phase |-> "middleware", endpoint |-> e, cookie |-> browser.session,
                    csrf |-> browser.csrf, header |-> header, bearer |-> bearer, user |-> 0,
                    began |-> now, living |-> IF account = "absent" THEN 0 ELSE current]
<1>1. Proceed(r, next) /\ UNCHANGED <<person, begun, rows, visit, browser>>
  BY DEF Send
<1>2. current \in 0 .. MaxUser /\ 0 \in 0 .. MaxUser /\ now \in 0 .. MaxTime
      /\ browser.session \in Visit \cup {None} /\ browser.csrf \in Visit \cup {None}
      /\ (account # "absent" => current # 0)
  BY Bounds DEF IInv, Types, WorldTypes, CallTypes
<1>3. next \in RequestRecord
  BY <1>2 DEF RequestRecord, RequestPhase
<1>4. PICK x \in RequestRecord : x = next
  BY <1>3
<1>5. /\ x.phase = "middleware" /\ x.cookie = browser.session /\ x.began = now
      /\ x.living = IF account = "absent" THEN 0 ELSE current
  BY <1>4
<1> HIDE DEF next
<1>6. x.cookie # None => x.cookie \in Visit /\ visit[x.cookie].phase = "served"
  BY <1>2, <1>5 DEF IInv, CookieInv
<1>7. ASSUME x.cookie # None, session[x.cookie] # None PROVE Belongs(session[x.cookie].user, x)
  <2>1. session[x.cookie].user \in 1 .. current
    BY <1>6, <1>7 DEF IInv, VisitInv, Fits
  <2>2. QED
    BY <1>2, <1>5, <2>1 DEF Belongs
<1>8. Holds(x)
  BY <1>2, <1>5, <1>6, <1>7 DEF Holds
<1>9. QED
  BY <1>1, <1>4, <1>8, ProceedKeeps

\* A request goes to its next phase.
LEMMA NextPhase ==
  ASSUME NEW q \in RequestRecord, NEW p \in RequestPhase
  PROVE  LET x == [q EXCEPT !.phase = p]
         IN  /\ x \in RequestRecord /\ x.phase = p /\ x.endpoint = q.endpoint /\ x.cookie = q.cookie
             /\ x.csrf = q.csrf /\ x.header = q.header /\ x.bearer = q.bearer /\ x.user = q.user
             /\ x.began = q.began /\ x.living = q.living
  BY DEF RequestRecord

LEMMA EnforceCsrfKeeps ==
  ASSUME IInv, UNCHANGED <<adapter, now, origins, erasing>>, NEW r \in Request, EnforceCsrf(r)
  PROVE  IInv'
<1> DEFINE p == IF request[r].bearer THEN "token" ELSE "session"
<1>1. request[r].phase = "middleware" /\ UNCHANGED <<person, begun, rows, visit, browser>>
  BY DEF EnforceCsrf, Is
<1>2. PICK q \in RequestRecord : q = request[r] /\ Holds(q) /\ q.phase = "middleware"
  BY <1>1, RequestFacts
<1>3. CASE request' = [request EXCEPT ![r] = NoRequest]
  BY <1>1, <1>3, AnsweredKeeps, TypesStay, NobodyMoves DEF IInv, Types, CallTypes
<1>4. CASE /\ \/ ~Unsafe(q.endpoint) \/ VerifySession(q.cookie) = 0
              \/ Carried(q)
           /\ Proceed(r, [q EXCEPT !.phase = IF q.bearer THEN "token" ELSE "session"])
  <2>1. PICK x \in RequestRecord :
          /\ x = [q EXCEPT !.phase = IF q.bearer THEN "token" ELSE "session"]
          /\ x.phase = (IF q.bearer THEN "token" ELSE "session") /\ x.endpoint = q.endpoint
          /\ x.cookie = q.cookie /\ x.csrf = q.csrf /\ x.header = q.header /\ x.bearer = q.bearer
          /\ x.began = q.began /\ x.living = q.living
    <3>1. PICK s \in RequestPhase : s = IF q.bearer THEN "token" ELSE "session"
      BY DEF RequestPhase
    <3>2. QED
      BY <3>1, NextPhase
  <2>2. q.bearer \in BOOLEAN
    BY DEF RequestRecord
  <2>3. Holds(x)
    BY <1>2, <1>4, <2>1, <2>2 DEF Holds, Belongs, Carried
  <2>4. QED
    BY <1>1, <1>4, <2>1, <2>3, ProceedKeeps
<1>5. QED
  BY <1>2, <1>3, <1>4 DEF EnforceCsrf, Reply, Carried

LEMMA CurrentSessionKeeps ==
  ASSUME IInv, UNCHANGED <<adapter, now, origins, erasing>>, NEW r \in Request, CurrentSession(r)
  PROVE  IInv'
<1>1. request[r].phase = "session" /\ UNCHANGED <<person, begun, rows, visit, browser>>
  BY DEF CurrentSession, Is
<1>2. PICK q \in RequestRecord : q = request[r] /\ Holds(q) /\ q.phase = "session"
  BY <1>1, RequestFacts
<1>3. CASE request' = [request EXCEPT ![r] = NoRequest]
  BY <1>1, <1>3, AnsweredKeeps, TypesStay, NobodyMoves DEF IInv, Types, CallTypes
<1>4. CASE /\ VerifySession(q.cookie) # 0
           /\ Proceed(r, [q EXCEPT !.phase = "user", !.user = VerifySession(q.cookie)])
  <2>1. /\ q.cookie # None /\ session[q.cookie] # None /\ now < session[q.cookie].expires
        /\ VerifySession(q.cookie) = session[q.cookie].user
    BY <1>4, Zenon DEF VerifySession, GetAppSession, Unexpired
  <2>2. q.cookie \in Visit /\ visit[q.cookie].phase = "served"
    BY <1>2, <2>1 DEF RequestRecord, Holds
  <2>3. /\ session[q.cookie].user \in 1 .. current /\ current \in 0 .. MaxUser /\ MaxUser \in Nat
        /\ session[q.cookie].expires = visit[q.cookie].expires
    BY <2>1, <2>2, Bounds DEF IInv, VisitInv, Fits, Types, WorldTypes
  <2>4. session[q.cookie].user \in 0 .. MaxUser
    BY <2>3
  <2> DEFINE next == [q EXCEPT !.phase = "user", !.user = session[q.cookie].user]
  <2>5. next \in RequestRecord
    BY <2>4 DEF RequestRecord, RequestPhase
  <2>6. /\ next.phase = "user" /\ next.endpoint = q.endpoint
        /\ next.cookie = q.cookie /\ next.csrf = q.csrf /\ next.header = q.header
    BY DEF RequestRecord
  <2>7. /\ next.bearer = q.bearer /\ next.began = q.began /\ next.living = q.living
        /\ next.user = session[q.cookie].user
    BY DEF RequestRecord
  <2>8. Proceed(r, next)
    BY <1>4, <2>1
  <2> HIDE DEF next
  <2>9. PICK x \in RequestRecord : x = next
    BY <2>5
  <2>10. Belongs(x.user, x) /\ Belongs(session[q.cookie].user, x)
    BY <1>2, <2>1, <2>6, <2>7, <2>9 DEF Holds, Belongs
  <2>11. q.began <= now /\ q.began \in Nat /\ now \in Nat /\ session[q.cookie].expires \in Int
    BY <1>2, <2>1, <2>2, Bounds DEF Holds, RequestRecord, IInv, Types, WorldTypes, RowTypes, SessionRow, Time
  <2>12. Holds(x)
    BY <1>2, <1>4, <2>1, <2>2, <2>3, <2>6, <2>7, <2>9, <2>10, <2>11 DEF Holds, Carried
  <2>13. QED
    BY <1>1, <2>8, <2>9, <2>12, ProceedKeeps
<1>5. QED
  BY <1>2, <1>3, <1>4 DEF CurrentSession, Reply

\* A request that has been served, refused or gone wrong.
LEMMA ServeAnswers ==
  ASSUME NEW r \in Request, NEW u, Serve(r, u)
  PROVE  /\ request' = [request EXCEPT ![r] = NoRequest]
         /\ UNCHANGED browser \/ browser' = [browser EXCEPT !.csrf = request[r].cookie]
  BY DEF Serve, Reply

LEMMA ReadUserKeeps ==
  ASSUME IInv, UNCHANGED <<adapter, now, origins, erasing>>, NEW r \in Request, ReadUser(r)
  PROVE  IInv'
<1>1. request[r].phase = "user" /\ UNCHANGED <<person, begun, rows, visit>>
  BY DEF ReadUser, Is
<1>2. PICK q \in RequestRecord : q = request[r] /\ Holds(q) /\ q.phase = "user"
  BY <1>1, RequestFacts
<1>3. CASE /\ request' = [request EXCEPT ![r] = NoRequest]
           /\ UNCHANGED browser \/ browser' = [browser EXCEPT !.csrf = request[r].cookie]
  BY <1>1, <1>3, ServeDoes, AnsweredKeeps, TypesStay, NobodyMoves
<1>4. CASE Proceed(r, [q EXCEPT !.phase = "context"]) /\ UNCHANGED browser
  <2>1. PICK x \in RequestRecord :
          /\ x = [q EXCEPT !.phase = "context"]
          /\ x.phase = "context" /\ x.endpoint = q.endpoint
          /\ x.cookie = q.cookie /\ x.csrf = q.csrf /\ x.header = q.header /\ x.bearer = q.bearer
          /\ x.began = q.began /\ x.living = q.living /\ x.user = q.user
    <3>1. PICK s \in RequestPhase : s = "context"
      BY DEF RequestPhase
    <3>2. QED
      BY <3>1, NextPhase
  <2>2. Holds(x)
    BY <1>2, <2>1 DEF Holds, Belongs, Carried
  <2>3. QED
    BY <1>1, <1>4, <2>1, <2>2, ProceedKeeps
<1>5. QED
  <2>1. ASSUME NEW a, Reply(r, a, 0) PROVE request' = [request EXCEPT ![r] = NoRequest]
    BY <2>1 DEF Reply
  <2>2. QED
    BY <1>2, <1>3, <1>4, <2>1, ServeAnswers DEF ReadUser

LEMMA BuildContextKeeps ==
  ASSUME IInv, UNCHANGED <<adapter, now, origins, erasing>>, NEW r \in Request, BuildContext(r)
  PROVE  IInv'
<1>1. UNCHANGED <<person, begun, rows, visit>>
  BY DEF BuildContext
<1>2. /\ request' = [request EXCEPT ![r] = NoRequest]
      /\ UNCHANGED browser \/ browser' = [browser EXCEPT !.csrf = request[r].cookie]
  BY ServeAnswers DEF BuildContext, Reply
<1>3. QED
  BY <1>1, <1>2, ServeDoes, AnsweredKeeps, TypesStay, NobodyMoves

LEMMA ResolveTokenKeeps ==
  ASSUME IInv, UNCHANGED <<adapter, now, origins, erasing>>, NEW r \in Request, ResolveToken(r)
  PROVE  IInv'
<1>1. UNCHANGED <<begun, rows, visit>>
  BY DEF ResolveToken
<1>2. PICK a \in Answer :
        /\ Resolves(a, request[r].endpoint # "admin")
        /\ \/ a = "ok" /\ Serve(r, current')
           \/ a # "ok" /\ Reply(r, a, 0) /\ UNCHANGED browser
  BY DEF ResolveToken
<1>3. PICK tenant : tenant = (request[r].endpoint # "admin")
  OBVIOUS
<1>4. WorldTypes' /\ PersonMoves
  BY <1>1, <1>2, <1>3, ResolvesMoves
<1>5. /\ request' = [request EXCEPT ![r] = NoRequest]
      /\ UNCHANGED browser \/ browser' = [browser EXCEPT !.csrf = request[r].cookie]
  BY <1>2 DEF Serve, Reply
<1>6. QED
  BY <1>1, <1>4, <1>5, ServeDoes, AnsweredKeeps
---------------------------------------------------------------------------
(***************************************************************************)
(* Logins, and the steps of the world.                                     *)
(***************************************************************************)
LEMMA LoginKeeps ==
  ASSUME IInv, UNCHANGED <<adapter, now, origins, erasing>>, NEW j \in Journey, NEW u \in Url, Login(j, u)
  PROVE  IInv'
<1>1. /\ j \notin begun /\ begun' = begun \cup {j}
      /\ UNCHANGED <<person, session, visit, browser, request>>
  BY DEF Login
<1>2. now + StateTTL \in Time
  BY Bounds DEF IInv, Types, WorldTypes, Time
<1>3. PICK row \in StateRow : row = [url |-> u, expires |-> now + StateTTL]
  BY <1>2 DEF StateRow
<1>4. /\ state' \in [Journey -> StateRow \cup {None}]
      /\ \A i \in Journey : i # j => state'[i] = state[i]
  BY <1>3 DEF Login, SaveState, IInv, Types, RowTypes
<1>5. WorldTypes'
  BY <1>1 DEF IInv, Types, WorldTypes, person
<1>6. RowTypes'
  BY <1>1, <1>4 DEF IInv, Types, RowTypes
<1>7. Types'
  BY <1>1, <1>5, <1>6 DEF IInv, Types, CallTypes
<1>8. StateInv'
  <2>1. begun \subseteq Journey
    BY DEF IInv, Types, WorldTypes
  <2>2. \A w \in Visit : visit[w].won => visit[w].journey \in begun /\ state[visit[w].journey] = None
    BY DEF IInv, StateInv
  <2>3. \A i \in Journey : state'[i] # None => i \in begun'
    BY <1>1, <1>4 DEF IInv, StateInv
  <2>4. StateServesOnce'
    BY <1>1 DEF IInv, StateInv, StateServesOnce
  <2>5. QED
    BY <1>1, <1>4, <2>1, <2>2, <2>3, <2>4 DEF StateInv
<1>9. PersonMoves
  BY <1>1, NobodyMoves
<1>10. Progress
  BY <1>1, <1>9 DEF Progress, IInv, Types, WorldTypes
<1>11. RequestInv'
  BY <1>1, <1>5, <1>6, <1>10, OthersHold DEF RequestInv
<1>12. VisitInv' /\ CookieInv'
  BY <1>1 DEF IInv, VisitInv, Fits, CookieInv, person
<1>13. QED
  BY <1>7, <1>8, <1>11, <1>12 DEF IInv

LEMMA LogoutKeeps == ASSUME IInv, UNCHANGED <<adapter, now, origins, erasing>>, Logout PROVE IInv'
<1>1. UNCHANGED <<begun, visit, request, state, session>> /\ UNCHANGED person /\ UNCHANGED rows
  BY DEF Logout, rows
<1>2. WorldTypes' /\ RowTypes' /\ PersonMoves /\ now' >= now
  BY <1>1, TypesStay, RowsStay, NobodyMoves DEF IInv, Types, WorldTypes
<1>3. browser' = [session |-> None, csrf |-> None]
  BY DEF Logout
<1>4. QED
  BY <1>1, <1>2, <1>3, WorldKeeps

\* Rows only go.
RowsGo ==
  /\ \A j \in Journey : state'[j] = state[j] \/ state'[j] = None
  /\ \A v \in Visit : session'[v] = session[v] \/ session'[v] = None
  /\ RowTypes'

LEMMA ErasedKeeps == ASSUME IInv, NEW vs, session' = Erased(vs), UNCHANGED state PROVE RowsGo
  BY DEF RowsGo, Erased, IInv, Types, RowTypes

LEMMA WorldRows == ASSUME IInv, World PROVE RowsGo
<1>1. CASE UNCHANGED rows
  BY <1>1, RowsStay DEF rows, RowsGo
<1>2. ASSUME NEW vs, session' = Erased(vs), UNCHANGED state PROVE RowsGo
  BY <1>2, ErasedKeeps
<1>3. ASSUME NEW j \in Journey, state' = [state EXCEPT ![j] = None], UNCHANGED session PROVE RowsGo
  BY <1>3 DEF RowsGo, IInv, Types, RowTypes
<1>4. CASE Propagate \/ DeleteAtOnce \/ ScanSessions \/ EraseUser \/ Abandon
  BY <1>1, <1>2, <1>4 DEF Propagate, DeleteAtOnce, ScanSessions, EraseUser, Abandon, rows
<1>5. CASE EraseSessions
  <2>1. UNCHANGED state /\ (UNCHANGED session \/ \E vs \in SUBSET Visit : session' = Erased(vs))
    <3>1. erasing.sessions \subseteq Visit
      BY DEF IInv, Types, WorldTypes
    <3>2. ASSUME NEW v \in Visit, session' = Erased({v}) PROVE \E vs \in SUBSET Visit : session' = Erased(vs)
      <4>1. PICK vs \in SUBSET Visit : vs = {v}
        OBVIOUS
      <4>2. QED
        BY <3>2, <4>1
    <3>3. QED
      BY <1>5, <3>1, <3>2, Zenon DEF EraseSessions
  <2>2. QED
    BY <1>1, <1>2, <2>1 DEF rows
<1>6. CASE Sweep
  <2>1. \/ \E j \in Journey : state' = [state EXCEPT ![j] = None] /\ UNCHANGED session
        \/ \E v \in Visit : session' = Erased({v}) /\ UNCHANGED state
    BY <1>6, Zenon DEF Sweep
  <2>2. QED
    BY <1>2, <1>3, <2>1
<1>7. QED
  BY <1>4, <1>5, <1>6 DEF World

LEMMA WorldStepKeeps == ASSUME IInv, UNCHANGED adapter, World PROVE IInv'
<1>1. UNCHANGED <<now, origins, begun, visit, browser, request>>
  BY DEF World
<1>2. browser' \in [session : Visit \cup {None}, csrf : Visit \cup {None}] /\ now' >= now
  BY <1>1 DEF IInv, Types, CallTypes, WorldTypes
<1>3. RowsGo
  BY WorldRows
<1>4. /\ current' = current /\ account' \in Account
      /\ account' # "absent" => account # "absent"
      /\ erasing' \in [phase : {"idle", "scan", "user", "sessions"}, user : 0 .. MaxUser,
                       sessions : SUBSET Visit]
  <2>1. /\ current \in 0 .. MaxUser /\ account \in Account /\ 0 \in 0 .. MaxUser
        /\ erasing \in [phase : {"idle", "scan", "user", "sessions"}, user : 0 .. MaxUser,
                        sessions : SUBSET Visit]
    BY Bounds DEF IInv, Types, WorldTypes
  <2>2. CASE Propagate \/ DeleteAtOnce \/ Sweep
    BY <2>1, <2>2 DEF Propagate, DeleteAtOnce, Sweep, person, Account
  <2>3. CASE ScanSessions
    BY <2>1, <2>3 DEF ScanSessions, person, SessionsOf
  <2>4. CASE EraseUser
    BY <2>1, <2>4 DEF EraseUser, Account
  <2>5. CASE EraseSessions
    <3>1. \/ \E v \in Visit : erasing' = [erasing EXCEPT !.sessions = @ \ {v}]
          \/ erasing' = NoErasing
      BY <2>1, <2>5, Zenon DEF EraseSessions
    <3>2. UNCHANGED <<current, account>>
      BY <2>5 DEF EraseSessions, person
    <3>3. QED
      BY <2>1, <3>1, <3>2 DEF NoErasing
  <2>6. CASE Abandon
    BY <2>1, <2>6 DEF Abandon, NoErasing, person
  <2>7. QED
    BY <2>2, <2>3, <2>4, <2>5, <2>6 DEF World
<1>5. WorldTypes'
  BY <1>1, <1>4 DEF IInv, Types, WorldTypes
<1>6. PersonMoves
  BY <1>4 DEF PersonMoves, IInv, Types, WorldTypes
<1>7. QED
  BY <1>1, <1>2, <1>3, <1>5, <1>6, WorldKeeps DEF RowsGo

LEMMA RedeployKeeps == ASSUME IInv, UNCHANGED adapter, Redeploy PROVE IInv'
<1>1. UNCHANGED <<now, begun, visit, browser, request, erasing, state, session, current, account>>
      /\ UNCHANGED person /\ origins' \in Origins
  BY DEF Redeploy, person, rows
<1>2. WorldTypes' /\ RowTypes' /\ PersonMoves /\ now' >= now
  BY <1>1, NobodyMoves DEF IInv, Types, WorldTypes, RowTypes
<1>3. browser' \in [session : Visit \cup {None}, csrf : Visit \cup {None}]
  BY <1>1 DEF IInv, Types, CallTypes
<1>4. QED
  BY <1>1, <1>2, <1>3, WorldKeeps

LEMMA TickKeeps == ASSUME IInv, UNCHANGED adapter, Tick PROVE IInv'
<1>1. UNCHANGED <<origins, begun, visit, browser, request, erasing, state, session, current, account>>
      /\ UNCHANGED person /\ now < MaxTime /\ now' = now + 1
  BY DEF Tick, person, rows
<1>2. WorldTypes' /\ RowTypes' /\ PersonMoves /\ now' >= now
  BY <1>1, NobodyMoves, Bounds DEF IInv, Types, WorldTypes, RowTypes
<1>3. browser' \in [session : Visit \cup {None}, csrf : Visit \cup {None}]
  BY <1>1 DEF IInv, Types, CallTypes
<1>4. QED
  BY <1>1, <1>2, <1>3, WorldKeeps

LEMMA InvNext == IInv /\ [Next]_vars => IInv'
<1>1. CASE UNCHANGED vars
  BY <1>1 DEF vars, rows, calls, person, IInv, Types, WorldTypes, RowTypes, CallTypes, StateInv,
     StateServesOnce, VisitInv, Fits, CookieInv, RequestInv, Holds, Belongs, Carried, VerifySession,
     GetAppSession, Unexpired
<1>2. CASE Next
  <2>1. CASE World \/ Redeploy \/ Tick
    BY <1>2, <2>1, WorldStepKeeps, RedeployKeeps, TickKeeps DEF Next
  <2>2. CASE Browse
    <3>1. UNCHANGED <<adapter, now, origins, erasing>>
      BY <1>2, <2>2 DEF Next, Browse
    <3>2. ASSUME IInv, NEW v \in Visit, CallbackStep(v) PROVE IInv'
      BY <3>1, <3>2, ConsumeKeeps, ExchangeOrVerifyKeeps, ResolveKeeps, IssueKeeps, ConflictsKeep
      DEF CallbackStep
    <3>3. ASSUME IInv, NEW r \in Request, RequestStep(r) PROVE IInv'
      BY <3>1, <3>3, SendKeeps, EnforceCsrfKeeps, CurrentSessionKeeps, ReadUserKeeps, BuildContextKeeps,
         ResolveTokenKeeps DEF RequestStep
    <3>4. QED
      BY <2>2, <3>1, <3>2, <3>3, LoginKeeps, ArriveKeeps, LogoutKeeps DEF Browse
  <2>3. QED
    BY <1>2, <2>1, <2>2 DEF Next
<1>3. QED
  BY <1>1, <1>2

\* The inductive invariant holds in every state of every behaviour.
THEOREM Invariance == Spec => []IInv
<1>1. QED
  BY InvInit, InvNext, PTL DEF Spec

\* A login state serves one callback, whatever the order of two callbacks with
\* the same state, lost replies, expiry and sweeping (consume_oauth_login_state
\* of both adapters).
THEOREM ServesOnce == Spec => []StateServesOnce
<1>1. IInv => StateServesOnce
  BY DEF IInv, StateInv
<1>2. QED
  BY <1>1, Invariance, PTL
---------------------------------------------------------------------------
(***************************************************************************)
(* What the answers say.                                                   *)
(***************************************************************************)
LEMMA RepliesAccept ==
  ASSUME NEW r \in Request, NEW s \in Request, NEW a, NEW u, Reply(s, a, u), AcceptedBySession(r)
  PROVE  r = s /\ a = "ok" /\ ~request[s].bearer /\ outcome'[r].user = u
<1>1. /\ outcome'[s] = [answer |-> a, session |-> ~request[s].bearer, user |-> u]
      /\ r # s => outcome'[r] = NoOutcome
  BY DEF Reply, Silence
<1>2. NoOutcome.answer = "none"
  BY DEF NoOutcome
<1>3. r = s
  BY <1>1, <1>2 DEF AcceptedBySession
<1>4. a = "ok" /\ outcome'[r].user = u
  BY <1>1, <1>3 DEF AcceptedBySession
<1>5. PICK b : b = ~request[s].bearer
  BY Zenon
<1>6. outcome'[s] = [answer |-> a, session |-> b, user |-> u]
  BY <1>1, <1>5, Zenon
<1>7. outcome'[r].session = b
  BY <1>3, <1>6
<1>8. b
  BY <1>7, Zenon DEF AcceptedBySession
<1>9. ~request[s].bearer
  BY <1>5, <1>8, Zenon
<1>10. QED
  BY <1>3, <1>4, <1>9

LEMMA SilenceRefuses == ASSUME NEW r \in Request, outcome' = Silence PROVE ~AcceptedBySession(r)
  BY DEF AcceptedBySession, Silence, NoOutcome

LEMMA ServesAccept ==
  ASSUME NEW r \in Request, NEW s \in Request, NEW u, Serve(s, u), AcceptedBySession(r)
  PROVE  r = s /\ ~request[s].bearer /\ outcome'[r].user = u
<1>1. Reply(s, "ok", u) \/ Reply(s, "forbidden", u) \/ Reply(s, "unauthorized", 0)
  BY DEF Serve
<1>2. QED
  BY <1>1, RepliesAccept

LEMMA CallbacksAreSilent == ASSUME NEW v \in Visit, CallbackStep(v) PROVE outcome' = Silence
  BY Zenon DEF CallbackStep, Consume, Exchange, VerifyToken, Resolve, Issue, Conflicts, Refuse, Succeed, Continue

\* Only the last step on a session accepts, and only for a user who exists.
LEMMA Accepted ==
  ASSUME IInv, Next, NEW r \in Request, AcceptedBySession(r)
  PROVE  /\ request[r].phase \in {"user", "context"}
         /\ outcome'[r].user = request[r].user
         /\ Exists(request[r].user)
<1>1. CASE World \/ Redeploy \/ Tick \/ Logout
  BY <1>1, SilenceRefuses DEF World, Redeploy, Tick, Logout
<1>2. CASE \E j \in Journey, u \in Url : Login(j, u)
  BY <1>2, SilenceRefuses DEF Login
<1>3. CASE \E v \in Visit, j \in Journey : Arrive(v, j)
  BY <1>3, SilenceRefuses, Zenon DEF Arrive, Refuse, Continue
<1>4. CASE \E v \in Visit : CallbackStep(v)
  BY <1>4, SilenceRefuses, CallbacksAreSilent
<1>5. ASSUME NEW s \in Request, RequestStep(s)
      PROVE  /\ request[r].phase \in {"user", "context"}
             /\ outcome'[r].user = request[r].user
             /\ Exists(request[r].user)
  <2>1. CASE \E e \in Endpoint, bearer \in BOOLEAN, h \in Visit \cup {None} : Send(s, e, bearer, h)
    BY <2>1, SilenceRefuses, Zenon DEF Send, Proceed
  <2>2. CASE EnforceCsrf(s)
    <3>1. outcome' = Silence \/ Reply(s, "csrf", 0)
      BY <2>2, Zenon DEF EnforceCsrf, Proceed
    <3>2. QED
      BY <3>1, SilenceRefuses, RepliesAccept
  <2>3. CASE CurrentSession(s)
    <3>1. outcome' = Silence \/ Reply(s, "unauthorized", 0)
      BY <2>3, Zenon DEF CurrentSession, Proceed
    <3>2. QED
      BY <3>1, SilenceRefuses, RepliesAccept
  <2>4. CASE ReadUser(s)
    <3>1. request[s].phase = "user"
      BY <2>4 DEF ReadUser, Is
    <3>2. \/ outcome' = Silence \/ Reply(s, "unauthorized", 0) \/ Reply(s, "forbidden", 0)
          \/ Exists(request[s].user) /\ Serve(s, request[s].user)
      BY <2>4, Zenon DEF ReadUser, Proceed
    <3>3. QED
      BY <3>1, <3>2, SilenceRefuses, RepliesAccept, ServesAccept
  <2>5. CASE BuildContext(s)
    <3>1. request[s].phase = "context"
      BY <2>5 DEF BuildContext, Is
    <3>2. Reply(s, "error", 0) \/ (Exists(request[s].user) /\ Serve(s, request[s].user))
      BY <2>5, Zenon DEF BuildContext
    <3>3. QED
      BY <3>1, <3>2, RepliesAccept, ServesAccept
  <2>6. CASE ResolveToken(s)
    <3>1. request[s].phase = "token"
      BY <2>6 DEF ResolveToken, Is
    <3>2. request[s].bearer
      BY <3>1, RequestFacts DEF Holds
    <3>3. PICK a \in Answer : (a = "ok" /\ Serve(s, current')) \/ (a # "ok" /\ Reply(s, a, 0))
      BY <2>6, Zenon DEF ResolveToken
    <3>4. QED
      BY <3>2, <3>3, RepliesAccept, ServesAccept
  <2>7. QED
    BY <1>5, <2>1, <2>2, <2>3, <2>4, <2>5, <2>6 DEF RequestStep
<1>6. QED
  BY <1>1, <1>2, <1>3, <1>4, <1>5 DEF Next, Browse

\* What is known when a request is accepted.
LEMMA AcceptedKnows ==
  ASSUME IInv, Next, NEW r \in Request, AcceptedBySession(r)
  PROVE  /\ request[r].began < visit[request[r].cookie].expires
         /\ outcome'[r].user = request[r].living
         /\ Unsafe(request[r].endpoint) => Carried(request[r])
<1>1. PICK q \in RequestRecord :
        /\ q = request[r] /\ q.phase \in {"user", "context"} /\ Holds(q)
        /\ Exists(q.user) /\ outcome'[r].user = q.user
  BY Accepted, RequestFacts
<1>2. q.user \in Nat /\ q.living \in Nat /\ current \in Nat
  BY Bounds DEF RequestRecord, IInv, Types, WorldTypes
<1>3. q.user = q.living
  BY <1>1, <1>2 DEF Holds, Belongs, Exists
<1>4. QED
  BY <1>1, <1>3 DEF Holds

\* A request is served on a session only if the session had not expired when
\* the request arrived (SessionManager.verify, get_app_session).
THEOREM BeforeExpiry == Spec => ServedBeforeExpiry
<1>1. IInv /\ [Next]_vars =>
        [\A r \in Request : AcceptedBySession(r) => request[r].began < visit[request[r].cookie].expires]_vars
  BY AcceptedKnows
<1>2. QED
  BY <1>1, Invariance, PTL DEF Spec, ServedBeforeExpiry

\* A session left behind by a deletion, or issued to a user deleted meanwhile,
\* serves nobody (the session branch of build_current_user and its sibling).
THEOREM ToLivingUser == Spec => ServedToLivingUser
<1>1. IInv /\ [Next]_vars =>
        [\A r \in Request : AcceptedBySession(r) => outcome'[r].user = request[r].living]_vars
  BY AcceptedKnows
<1>2. QED
  BY <1>1, Invariance, PTL DEF Spec, ServedToLivingUser

\* An unsafe request served on a session has passed the double-submit check for
\* that very session (install_session_csrf_middleware).
THEOREM CarryToken == Spec => WritesCarryToken
<1>1. IInv /\ [Next]_vars =>
        [\A r \in Request : AcceptedBySession(r) /\ Unsafe(request[r].endpoint) =>
           request[r].csrf = request[r].cookie /\ request[r].header = request[r].cookie]_vars
  BY AcceptedKnows DEF Carried
<1>2. QED
  BY <1>1, Invariance, PTL DEF Spec, WritesCarryToken

---------------------------------------------------------------------------
(***************************************************************************)
(* A deletion in progress.                                                 *)
(***************************************************************************)
Gone(u) == u < current \/ (u = current /\ account = "absent")

Over(v) == visit[v].phase \in {"served", "refused"}

\* The sessions to be erased are those of a user who is gone by then; who has
\* signed in anew is another user, with other sessions.
ErasingInv ==
  erasing.phase # "idle" =>
    /\ erasing.user <= current
    /\ erasing.phase = "sessions" => Gone(erasing.user)
    /\ \A v \in erasing.sessions :
         Over(v) /\ (session[v] # None => session[v].user = erasing.user)

\* What browsers do brings no user back and touches no callback that is over.
LEMMA BrowseSpares ==
  ASSUME IInv, Browse, UNCHANGED adapter
  PROVE  PersonMoves /\ \A v \in Visit : Over(v) => Over(v)' /\ session'[v] = session[v]
<1>0. UNCHANGED <<adapter, now, origins, erasing>>
  BY DEF Browse
<1>1. CASE Logout \/ \E j \in Journey, u \in Url : Login(j, u)
  BY <1>1, NobodyMoves, Zenon DEF Logout, Login, rows, Over
<1>2. ASSUME NEW w \in Visit, Busy(w), NEW n, Continue(w, n), NEW v \in Visit, Over(v)
      PROVE  w # v /\ Over(v)'
  BY <1>2 DEF Continue, Busy, Over, IInv, Types, CallTypes
<1>3. CASE \E w \in Visit, j \in Journey : Arrive(w, j)
  <2>1. PICK w \in Visit, j \in Journey : Arrive(w, j)
    BY <1>3
  <2>2. Busy(w) /\ UNCHANGED <<person, session>> /\ \E n : Continue(w, n)
    BY <2>1, Zenon DEF Arrive, Refuse, rows, Busy, At
  <2>3. QED
    BY <1>2, <2>2, NobodyMoves
<1>4. ASSUME NEW w \in Visit, CallbackStep(w)
      PROVE  PersonMoves /\ \A v \in Visit : Over(v) => Over(v)' /\ session'[v] = session[v]
  <2>1. Busy(w)
    BY <1>4, Zenon DEF CallbackStep, Consume, Exchange, VerifyToken, Resolve, Issue, Conflicts, At, Busy
  <2>2. \E n : Continue(w, n)
    BY <1>4, Zenon
    DEF CallbackStep, Consume, Exchange, VerifyToken, Resolve, Issue, Conflicts, Refuse, Succeed
  <2>3. UNCHANGED person \/ \E a \in Answer : Resolves(a, TRUE) /\ UNCHANGED begun
    BY <1>4, Zenon DEF CallbackStep, Consume, Exchange, VerifyToken, Resolve, Issue, Conflicts
  <2>4. PersonMoves
    BY <1>0, <2>3, NobodyMoves, ResolvesMoves
  <2>5. UNCHANGED session \/ StoreSession(w)
    BY <1>4, Zenon DEF CallbackStep, Consume, Exchange, VerifyToken, Resolve, Issue, Conflicts, rows
  <2>6. \A v \in Visit : v # w => session'[v] = session[v]
    BY <2>5 DEF StoreSession, IInv, Types, RowTypes
  <2>7. QED
    BY <1>2, <2>1, <2>2, <2>4, <2>6
<1>5. ASSUME NEW r \in Request, RequestStep(r)
      PROVE  PersonMoves /\ \A v \in Visit : Over(v) => Over(v)' /\ session'[v] = session[v]
  <2>1. UNCHANGED <<rows, visit, begun>>
    BY <1>5, Zenon DEF RequestStep, Send, EnforceCsrf, CurrentSession, ReadUser, BuildContext, ResolveToken
  <2>2. UNCHANGED person \/ \E a \in Answer, tenant \in BOOLEAN : Resolves(a, tenant)
    BY <1>5, Zenon DEF RequestStep, Send, EnforceCsrf, CurrentSession, ReadUser, BuildContext, ResolveToken
  <2>3. PersonMoves
    BY <1>0, <2>1, <2>2, NobodyMoves, ResolvesMoves
  <2>4. QED
    BY <2>1, <2>3 DEF rows, Over
<1>6. QED
  BY <1>1, <1>3, <1>4, <1>5 DEF Browse

LEMMA GoneForGood ==
  ASSUME IInv, IInv', PersonMoves, NEW u \in Nat, Gone(u)
  PROVE  Gone(u)'
<1>1. current \in Nat /\ current' \in Nat
  BY Bounds DEF IInv, Types, WorldTypes
<1>2. QED
  BY <1>1 DEF Gone, PersonMoves

\* Everybody but the deletion itself leaves what it relies on.
LEMMA ErasingStays ==
  ASSUME IInv, IInv', ErasingInv, PersonMoves, UNCHANGED erasing,
         \A v \in Visit : Over(v) => Over(v)' /\ (session'[v] = session[v] \/ session'[v] = None)
  PROVE  ErasingInv'
<1>1. erasing.user \in Nat /\ erasing.sessions \subseteq Visit /\ current \in Nat /\ current' \in Nat
  BY Bounds DEF IInv, Types, WorldTypes
<1>2. PICK u \in Nat : u = erasing.user
  BY <1>1
<1>3. Gone(u) => Gone(u)'
  BY GoneForGood
<1>4. current' >= current
  BY DEF PersonMoves
<1>5. QED
  BY <1>1, <1>2, <1>3, <1>4 DEF ErasingInv, Gone

LEMMA ErasingNext == ASSUME IInv, IInv', ErasingInv, [Next]_vars PROVE ErasingInv'
<1>1. CASE UNCHANGED vars
  BY <1>1 DEF vars, person, rows, calls, ErasingInv, Gone, Over
<1>2. CASE Next /\ Browse
  BY <1>2, BrowseSpares, ErasingStays DEF Next, Browse
<1>3. CASE Redeploy \/ Tick
  BY <1>3, NobodyMoves, ErasingStays DEF Redeploy, Tick, rows, Over
<1>4. CASE World
  <2>1. /\ UNCHANGED visit /\ current \in Nat
        /\ erasing.user \in Nat /\ erasing.sessions \subseteq Visit
        /\ erasing \in [phase : {"idle", "scan", "user", "sessions"}, user : 0 .. MaxUser, sessions : SUBSET Visit]
    BY <1>4, Bounds DEF World, IInv, Types, WorldTypes
  <2>2. \A v \in Visit : Over(v) => Over(v)' /\ (session'[v] = session[v] \/ session'[v] = None)
    BY <1>4, <2>1, WorldRows DEF RowsGo, Over
  <2>3. CASE Propagate \/ DeleteAtOnce \/ Sweep
    <3>1. UNCHANGED <<current, erasing>> /\ (account = "absent" => account' = "absent")
      BY <2>3, Zenon DEF Propagate, DeleteAtOnce, Sweep, person
    <3>2. PersonMoves
      BY <2>1, <3>1 DEF PersonMoves
    <3>3. QED
      BY <2>2, <3>1, <3>2, ErasingStays
  <2>4. CASE ScanSessions
    <3>1. \A v \in SessionsOf(current) : Over(v) /\ session[v].user = current
      BY DEF SessionsOf, Over, IInv, VisitInv, Fits
    <3>2. /\ erasing' = [phase |-> "user", user |-> current, sessions |-> SessionsOf(current)]
          /\ UNCHANGED <<current, account, session, visit>>
      BY <2>1, <2>4 DEF ScanSessions, person, rows
    <3>3. erasing'.phase = "user" /\ erasing'.user = current /\ erasing'.sessions = SessionsOf(current)
      BY <3>2
    <3>4. QED
      BY <2>1, <3>1, <3>2, <3>3 DEF ErasingInv, Over
  <2>5. CASE EraseUser
    <3>1. /\ erasing.phase = "user" /\ account' = "absent" /\ UNCHANGED <<current, session, visit>>
          /\ erasing' = [erasing EXCEPT !.phase = "sessions"]
      BY <2>1, <2>5 DEF EraseUser, rows
    <3>2. erasing'.phase = "sessions" /\ erasing'.user = erasing.user /\ erasing'.sessions = erasing.sessions
      BY <2>1, <3>1
    <3>3. QED
      BY <2>1, <3>1, <3>2 DEF ErasingInv, Gone, Over
  <2>6. CASE EraseSessions
    <3>1. erasing.phase = "sessions" /\ UNCHANGED <<current, account, visit>>
      BY <2>1, <2>6 DEF EraseSessions, person
    <3>2. CASE erasing' = NoErasing
      BY <3>2 DEF NoErasing, ErasingInv
    <3>3. ASSUME NEW v \in Visit, erasing' = [erasing EXCEPT !.sessions = @ \ {v}]
          PROVE  ErasingInv'
      <4>1. /\ erasing'.phase = "sessions" /\ erasing'.user = erasing.user
            /\ erasing'.sessions \subseteq erasing.sessions
        BY <2>1, <3>1, <3>3
      <4>2. QED
        BY <2>1, <2>2, <3>1, <4>1 DEF ErasingInv, Gone, Over
    <3>4. QED
      BY <2>1, <2>6, <3>2, <3>3, Zenon DEF EraseSessions
  <2>7. CASE Abandon
    BY <2>7 DEF Abandon, NoErasing, ErasingInv
  <2>8. QED
    BY <1>4, <2>3, <2>4, <2>5, <2>6, <2>7 DEF World
<1>5. QED
  BY <1>1, <1>2, <1>3, <1>4 DEF Next

\* A session goes within a tick of its expiry or with its user, never before,
\* wherever a deletion stops and whoever has signed in anew meanwhile
\* (ttl_epoch_seconds, admin_delete_organization).
THEOREM SessionsStay == Spec => SessionsAreKept
<1>1. ASSUME IInv, ErasingInv, Next, NEW v \in Visit, NEW u \in User, v \in SessionsOf(u), session'[v] = None
      PROVE  session[v].expires <= now + 1 \/ ~Exists(u)'
  <2>1. session[v] # None /\ session[v].user = u /\ Over(v)
    BY <1>1 DEF SessionsOf, Over, IInv, VisitInv, Fits
  <2>2. CASE Browse
    BY <1>1, <2>1, <2>2, BrowseSpares DEF Next
  <2>3. CASE Redeploy \/ Tick \/ Propagate \/ ScanSessions \/ EraseUser \/ Abandon
    BY <1>1, <2>1, <2>3 DEF Redeploy, Tick, Propagate, ScanSessions, EraseUser, Abandon, rows
  <2>4. CASE DeleteAtOnce
    BY <2>4 DEF DeleteAtOnce, Exists
  <2>5. CASE Sweep
    <3>1. PICK w \in Visit : session[w].expires <= now + 1 /\ session' = Erased({w})
      BY <1>1, <2>1, <2>5, Zenon DEF Sweep
    <3>2. w = v
      BY <1>1, <2>1, <3>1 DEF Erased
    <3>3. QED
      BY <3>1, <3>2
  <2>6. CASE EraseSessions
    <3>1. PICK w \in erasing.sessions : session' = Erased({w})
      BY <1>1, <2>1, <2>6, Zenon DEF EraseSessions
    <3>2. w = v
      BY <1>1, <2>1, <3>1 DEF Erased
    <3>3. u = erasing.user /\ Gone(u)
      BY <2>1, <2>6, <1>1, <3>1, <3>2 DEF ErasingInv, EraseSessions
    <3>4. UNCHANGED <<current, account>>
      BY <2>6 DEF EraseSessions, person
    <3>5. u \in Nat /\ current \in Nat
      BY Bounds, <1>1 DEF User, IInv, Types, WorldTypes
    <3>6. QED
      BY <3>3, <3>4, <3>5 DEF Gone, Exists
  <2>7. QED
    BY <1>1, <2>2, <2>3, <2>4, <2>5, <2>6 DEF Next, World
<1>2. IInv /\ ErasingInv /\ [Next]_vars =>
        [\A v \in Visit, u \in User : v \in SessionsOf(u) /\ session'[v] = None =>
           session[v].expires <= now + 1 \/ ~Exists(u)']_vars
  BY <1>1
<1>3. Init => ErasingInv
  BY DEF Init, ErasingInv, NoErasing
<1>4. IInv /\ IInv' /\ ErasingInv /\ [Next]_vars => ErasingInv'
  BY ErasingNext
<1>5. QED
  BY <1>2, <1>3, <1>4, Invariance, PTL DEF Spec, SessionsAreKept
---------------------------------------------------------------------------
(***************************************************************************)
(* Type correctness: what is left is the type of the answers.              *)
(***************************************************************************)
Answers(s) == \E a \in Answer, u \in 0 .. MaxUser : Reply(s, a, u)

LEMMA ServesAnswer ==
  ASSUME NEW s \in Request, NEW u \in 0 .. MaxUser, Serve(s, u) PROVE Answers(s)
<1>1. "ok" \in Answer /\ "forbidden" \in Answer /\ "unauthorized" \in Answer /\ 0 \in 0 .. MaxUser
  BY Bounds DEF Answer
<1>2. Reply(s, "ok", u) \/ Reply(s, "forbidden", u) \/ Reply(s, "unauthorized", 0)
  BY Zenon DEF Serve
<1>3. QED
  BY <1>1, <1>2, Zenon DEF Answers

LEMMA StepsAnswer ==
  ASSUME IInv, NEW s \in Request, RequestStep(s), current' \in 0 .. MaxUser
  PROVE  outcome' = Silence \/ Answers(s)
<1>1. /\ 0 \in 0 .. MaxUser /\ request[s].user \in 0 .. MaxUser
      /\ {"csrf", "unauthorized", "forbidden", "error"} \subseteq Answer
  BY RequestFacts, Bounds DEF Answer, RequestRecord
<1>2. ASSUME NEW a \in Answer, Reply(s, a, 0) PROVE Answers(s)
  BY <1>1, <1>2, Zenon DEF Answers
<1>3. CASE \E e \in Endpoint, bearer \in BOOLEAN, h \in Visit \cup {None} : Send(s, e, bearer, h)
  BY <1>3, Zenon DEF Send, Proceed
<1>4. CASE EnforceCsrf(s)
  <2>1. outcome' = Silence \/ Reply(s, "csrf", 0)
    BY <1>4, Zenon DEF EnforceCsrf, Proceed
  <2>2. QED
    BY <1>1, <1>2, <2>1
<1>5. CASE CurrentSession(s)
  <2>1. outcome' = Silence \/ Reply(s, "unauthorized", 0)
    BY <1>5, Zenon DEF CurrentSession, Proceed
  <2>2. QED
    BY <1>1, <1>2, <2>1
<1>6. CASE ReadUser(s)
  <2>1. \/ outcome' = Silence \/ Reply(s, "unauthorized", 0) \/ Reply(s, "forbidden", 0)
        \/ Serve(s, request[s].user)
    BY <1>6, Zenon DEF ReadUser, Proceed
  <2>2. QED
    BY <1>1, <1>2, <2>1, ServesAnswer
<1>7. CASE BuildContext(s)
  <2>1. Reply(s, "error", 0) \/ Serve(s, request[s].user)
    BY <1>7, Zenon DEF BuildContext
  <2>2. QED
    BY <1>1, <1>2, <2>1, ServesAnswer
<1>8. CASE ResolveToken(s)
  <2>1. PICK a \in Answer : Serve(s, current') \/ Reply(s, a, 0)
    BY <1>8, Zenon DEF ResolveToken
  <2>2. PICK u \in 0 .. MaxUser : u = current'
    OBVIOUS
  <2>3. Serve(s, u) \/ Reply(s, a, 0)
    BY <2>1, <2>2
  <2>4. QED
    BY <1>2, <2>3, ServesAnswer
<1>9. QED
  BY <1>3, <1>4, <1>5, <1>6, <1>7, <1>8 DEF RequestStep

OutcomeTypes == outcome \in [Request -> OutcomeRecord]

LEMMA OutcomesStay == ASSUME IInv, OutcomeTypes, [Next]_vars PROVE OutcomeTypes'
<1>1. NoOutcome \in OutcomeRecord
  BY Bounds DEF NoOutcome, OutcomeRecord, Answer
<1>2. Silence \in [Request -> OutcomeRecord]
  BY <1>1 DEF Silence
<1>3. ASSUME NEW s \in Request, Answers(s) PROVE OutcomeTypes'
  <2>1. PICK a \in Answer, u \in 0 .. MaxUser : Reply(s, a, u)
    BY <1>3 DEF Answers
  <2>2. PICK b \in BOOLEAN : b = ~request[s].bearer
    BY Zenon
  <2>3. outcome' = [Silence EXCEPT ![s] = [answer |-> a, session |-> b, user |-> u]]
    BY <2>1, <2>2, Zenon DEF Reply
  <2>4. PICK o \in OutcomeRecord : o = [answer |-> a, session |-> b, user |-> u]
    BY <2>2 DEF OutcomeRecord
  <2>5. QED
    BY <1>2, <2>3, <2>4 DEF OutcomeTypes
<1>4. CASE outcome' = Silence
  BY <1>2, <1>4 DEF OutcomeTypes
<1>5. CASE UNCHANGED vars
  BY <1>5 DEF vars, calls, OutcomeTypes
<1>6. CASE \E s \in Request : RequestStep(s)
  <2>1. current' \in 0 .. MaxUser
    BY InvNext DEF IInv, Types, WorldTypes
  <2>2. QED
    BY <1>3, <1>4, <1>6, <2>1, StepsAnswer
<1>7. CASE World \/ Redeploy \/ Tick \/ Logout
  BY <1>4, <1>7 DEF World, Redeploy, Tick, Logout
<1>8. CASE \E j \in Journey, u \in Url : Login(j, u)
  BY <1>4, <1>8 DEF Login
<1>9. CASE \E v \in Visit, j \in Journey : Arrive(v, j)
  BY <1>4, <1>9, Zenon DEF Arrive, Refuse, Continue
<1>10. CASE \E v \in Visit : CallbackStep(v)
  BY <1>4, <1>10, CallbacksAreSilent
<1>11. QED
  BY <1>5, <1>6, <1>7, <1>8, <1>9, <1>10 DEF Next, Browse

\* Every variable keeps its type, whatever the number of logins, callbacks,
\* requests and users.
THEOREM TypeCorrect == Spec => []TypeOK
<1>1. Init => OutcomeTypes
  BY Bounds DEF Init, OutcomeTypes, OutcomeRecord, NoOutcome, Answer
<1>2. IInv /\ OutcomeTypes => TypeOK
  BY DEF IInv, Types, WorldTypes, RowTypes, CallTypes, OutcomeTypes, TypeOK, VisitRecord, RequestRecord, OutcomeRecord
<1>3. IInv /\ OutcomeTypes /\ [Next]_vars => OutcomeTypes'
  BY OutcomesStay
<1>4. QED
  BY <1>1, <1>2, <1>3, Invariance, PTL DEF Spec
=============================================================================
