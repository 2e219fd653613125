---------------------------- MODULE TokensProofs ----------------------------
(***************************************************************************)
(* Proofs about the verification of tokens, for any issuers, keys,         *)
(* clients, accounts, tokens, life times and verifications side by side.   *)
(***************************************************************************)
EXTENDS Tokens, FiniteSetTheorems, TLAPS

JwksRecord == [keys : SUBSET Kid, set : SUBSET Kid, until : -1 .. MaxTime + KeySetTTL]

CallRecord ==
  [phase : Phase, chain : {"cognito", "internal"}, token : Token \cup Own \cup {NoToken},
   gap : BOOLEAN, first : BOOLEAN]

Types ==
  /\ now \in 0 .. MaxTime
  /\ published \in [Issuer -> (SUBSET Kid) \ {{}}]
  /\ ever \in SUBSET Key
  /\ jwks \in [Issuer -> JwksRecord]
  /\ account \in [Subject -> Account \cup {None}]
  /\ call \in [Thread -> CallRecord]
  /\ outcome \in [Thread -> Answer]

\* What a client has of an issuer, that issuer has published.
Sound(i, client) == \A k \in client.keys \cup client.set : <<i, k>> \in ever

KeyInv == \A i \in Issuer : Sound(i, jwks[i]) /\ \A k \in published[i] : <<i, k>> \in ever

MintedInv ==
  /\ IsFiniteSet(minted) /\ Cardinality(minted) <= MaxMinted
  /\ \A m \in minted : m.token.alg = "HS256" /\ m.asked = {"membership"} \X m.token.roles

\* A proof is Google's, of a Google account, if the pool lets nobody else write it.
AccountInv ==
  ProofIsGoogles => \A s \in Subject : account[s] # None /\ account[s].proof => account[s].google

Fetching == {"key", "fetch", "refetch"}
HasKey == {"decode", "profile"}

\* What a verification has found out by each phase.
Knows(q) ==
  /\ q.chain = "internal" <=> q.phase = "internal"
  /\ q.phase \in Fetching \cup HasKey =>
       q.token \in Token /\ q.token.alg = "RS256" /\ q.token.iss \in Allowed /\ q.token.kid \in Kid
  /\ q.phase \in Fetching => q.gap \/ q.token.kid \in published[q.token.iss]
  /\ q.phase \in HasKey => <<q.token.iss, q.token.kid>> \in ever
  /\ q.phase = "internal" => q.token \in Token \cup Own
  /\ q.phase = "profile" =>
       /\ q.token.signer = <<q.token.iss, q.token.kid>>
       /\ q.token.use = "access" /\ q.token.client \in AllowedClient

CallInv == \A c \in Thread : Knows(call[c])

\* The inductive invariant.
IInv == Types /\ KeyInv /\ MintedInv /\ AccountInv /\ CallInv
---------------------------------------------------------------------------
(***************************************************************************)
(* Lists of checks, of which none is longer than eight.                    *)
(***************************************************************************)
LEMMA Smallest ==
  ASSUME NEW S \in SUBSET (1 .. 8), S # {}
  PROVE  \E i \in S : \A k \in S : i <= k
<1>0. ASSUME NEW m \in S, \A j \in 1 .. 8 : j < m => j \notin S PROVE \E i \in S : \A k \in S : i <= k
  BY <1>0
<1>1. CASE 1 \in S
  BY <1>0, <1>1
<1>2. CASE 1 \notin S /\ 2 \in S
  BY <1>0, <1>2
<1>3. CASE 1 \notin S /\ 2 \notin S /\ 3 \in S
  BY <1>0, <1>3
<1>4. CASE 1 \notin S /\ 2 \notin S /\ 3 \notin S /\ 4 \in S
  BY <1>0, <1>4
<1>5. CASE 1 \notin S /\ 2 \notin S /\ 3 \notin S /\ 4 \notin S /\ 5 \in S
  BY <1>0, <1>5
<1>6. CASE 1 \notin S /\ 2 \notin S /\ 3 \notin S /\ 4 \notin S /\ 5 \notin S /\ 6 \in S
  BY <1>0, <1>6
<1>7. CASE 1 \notin S /\ 2 \notin S /\ 3 \notin S /\ 4 \notin S /\ 5 \notin S /\ 6 \notin S /\ 7 \in S
  BY <1>0, <1>7
<1>8. CASE 1 \notin S /\ 2 \notin S /\ 3 \notin S /\ 4 \notin S /\ 5 \notin S /\ 6 \notin S /\ 7 \notin S /\ 8 \in S
  BY <1>0, <1>8
<1>9. S \cap {1, 2, 3, 4, 5, 6, 7, 8} # {}
  <2>1. 1 .. 8 = {1, 2, 3, 4, 5, 6, 7, 8}
    OBVIOUS
  <2>2. QED
    BY <2>1
<1>10. QED
  BY <1>1, <1>2, <1>3, <1>4, <1>5, <1>6, <1>7, <1>8, <1>9

\* Either every check holds, or the answer is that of one that does not.
LEMMA Checked ==
  ASSUME NEW cs, DOMAIN cs \subseteq 1 .. 8
  PROVE  \/ FirstFailure(cs) = "accepted" /\ \A i \in DOMAIN cs : cs[i].holds
         \/ \E i \in DOMAIN cs : FirstFailure(cs) = cs[i].answer /\ ~cs[i].holds
<1> DEFINE failed == {i \in DOMAIN cs : ~cs[i].holds}
<1> DEFINE first == CHOOSE i \in failed : \A k \in failed : i <= k
<1>1. CASE failed = {}
  <2>1. FirstFailure(cs) = "accepted"
    BY <1>1, Zenon DEF FirstFailure
  <2>2. QED
    BY <1>1, <2>1
<1>2. CASE failed # {}
  <2>1. first \in failed
    BY <1>2, Smallest
  <2>2. FirstFailure(cs) = cs[first].answer
    BY <1>2, Zenon DEF FirstFailure
  <2>3. QED
    BY <2>1, <2>2
<1>3. QED
  BY <1>1, <1>2

\* What a token has that is looked at further.
LEMMA Inspected ==
  ASSUME NEW t
  PROVE  /\ FirstFailure(Inspect(t)) = "accepted" =>
              t.alg = "RS256" /\ t.kid # None /\ t.iss \in Allowed
         /\ FirstFailure(Inspect(t)) \in {"accepted", "malformed", "algorithm", "kid", "issuer"}
<1> DEFINE cs == Inspect(t)
<1>1. /\ DOMAIN cs = 1 .. 4
      /\ cs[1] = Check(t.form, "malformed") /\ cs[2] = Check(t.alg = "RS256", "algorithm")
      /\ cs[3] = Check(t.kid # None, "kid") /\ cs[4] = Check(t.iss \in Allowed, "issuer")
  BY DEF Inspect
<1> HIDE DEF cs
<1>2. /\ cs[1].answer = "malformed" /\ cs[2].answer = "algorithm" /\ cs[3].answer = "kid"
      /\ cs[4].answer = "issuer"
  BY <1>1 DEF Check
<1>3. /\ cs[2].holds <=> (t.alg = "RS256")
      /\ cs[3].holds <=> (t.kid # None)
      /\ cs[4].holds <=> (t.iss \in Allowed)
  <2>1. /\ Check(t.alg = "RS256", "algorithm").holds <=> (t.alg = "RS256")
        /\ Check(t.kid # None, "kid").holds <=> (t.kid # None)
        /\ Check(t.iss \in Allowed, "issuer").holds <=> (t.iss \in Allowed)
    BY DEF Check
  <2>2. QED
    BY <1>1, <2>1, Zenon
<1>5. \/ FirstFailure(cs) = "accepted" /\ \A i \in 1 .. 4 : cs[i].holds
      \/ \E i \in 1 .. 4 : FirstFailure(cs) = cs[i].answer
  BY <1>1, Checked
<1>6. QED
  BY <1>2, <1>3, <1>5 DEF cs

LEMMA CognitoChecked ==
  ASSUME NEW t
  PROVE  /\ FirstFailure(CognitoChecks(t)) = "accepted" =>
              /\ t.signer = <<t.iss, t.kid>> /\ t.use = "access" /\ t.client \in AllowedClient
              /\ now < t.exp + Leeway
         /\ FirstFailure(CognitoChecks(t)) \in {"accepted", "signature", "expired", "use", "client", "claims"}
<1> DEFINE cs == CognitoChecks(t)
<1>1. /\ DOMAIN cs = 1 .. 5
      /\ cs[1] = Check(t.signer = KeyFor(t), "signature") /\ cs[2] = Check(now < t.exp + Leeway, "expired")
      /\ cs[3] = Check(t.use = "access", "use") /\ cs[4] = Check(t.client \in AllowedClient, "client")
      /\ cs[5] = Check(t.sub # None, "claims")
  BY DEF CognitoChecks
<1> HIDE DEF cs
<1>2. /\ cs[1].answer = "signature" /\ cs[2].answer = "expired" /\ cs[3].answer = "use"
      /\ cs[4].answer = "client" /\ cs[5].answer = "claims"
  BY <1>1 DEF Check
<1>3. /\ cs[1].holds <=> (t.signer = KeyFor(t))
      /\ cs[2].holds <=> (now < t.exp + Leeway)
      /\ cs[3].holds <=> (t.use = "access")
      /\ cs[4].holds <=> (t.client \in AllowedClient)
  <2>1. /\ Check(t.signer = KeyFor(t), "signature").holds <=> (t.signer = KeyFor(t))
        /\ Check(now < t.exp + Leeway, "expired").holds <=> (now < t.exp + Leeway)
        /\ Check(t.use = "access", "use").holds <=> (t.use = "access")
        /\ Check(t.client \in AllowedClient, "client").holds <=> (t.client \in AllowedClient)
    BY DEF Check
  <2>2. QED
    BY <1>1, <2>1, Zenon
<1>4. \/ FirstFailure(cs) = "accepted" /\ \A i \in 1 .. 5 : cs[i].holds
      \/ \E i \in 1 .. 5 : FirstFailure(cs) = cs[i].answer
  BY <1>1, Checked
<1>5. QED
  BY <1>2, <1>3, <1>4 DEF cs, KeyFor, ClientOf

LEMMA ProfileChecked ==
  ASSUME NEW t, NEW s
  PROVE  /\ FirstFailure(ProfileChecks(t, s)) = "accepted" =>
              s = t.sub /\ account[s].email /\ EmailVerified(account[s])
         /\ FirstFailure(ProfileChecks(t, s)) \in {"accepted", "profile"}
<1> DEFINE cs == ProfileChecks(t, s)
<1>0. PICK e : e = account[s].email
  BY Zenon
<1>1. /\ DOMAIN cs = 1 .. 3
      /\ cs[1] = Check(s = t.sub, "profile") /\ cs[2] = Check(e, "profile")
      /\ cs[3] = Check(EmailVerified(account[s]), "profile")
  BY <1>0 DEF ProfileChecks
<1> HIDE DEF cs
<1>2. cs[1].answer = "profile" /\ cs[2].answer = "profile" /\ cs[3].answer = "profile"
  BY <1>1 DEF Check
<1>3. /\ cs[1].holds <=> (s = t.sub)
      /\ cs[3].holds <=> EmailVerified(account[s])
  <2>1. /\ Check(s = t.sub, "profile").holds <=> (s = t.sub)
        /\ Check(EmailVerified(account[s]), "profile").holds <=> EmailVerified(account[s])
    BY DEF Check
  <2>2. QED
    BY <1>1, <2>1, Zenon
<1>4. cs[2].holds = e
  BY <1>1 DEF Check
<1>5. cs[2].holds => account[s].email
  BY <1>0, <1>4, Zenon
<1>6. \/ FirstFailure(cs) = "accepted" /\ cs[1].holds /\ cs[2].holds /\ cs[3].holds
      \/ \E i \in 1 .. 3 : FirstFailure(cs) = cs[i].answer
  BY <1>1, Checked
<1>7. QED
  BY <1>2, <1>3, <1>5, <1>6 DEF cs

LEMMA InternalChecked ==
  ASSUME NEW t
  PROVE  /\ FirstFailure(InternalChecks(t)) = "accepted" => t.signer = Service
         /\ FirstFailure(InternalChecks(t)) \in
              {"accepted", "malformed", "algorithm", "issuer", "signature", "expired", "client", "claims", "roles"}
<1> DEFINE cs == InternalChecks(t)
<1>1. /\ DOMAIN cs = 1 .. 8
      /\ cs[1] = Check(t.form, "malformed") /\ cs[2] = Check(t.alg = "HS256", "algorithm")
      /\ cs[3] = Check(t.iss = "service", "issuer") /\ cs[4] = Check(t.signer = Service, "signature")
      /\ cs[5] = Check(now < t.exp + Leeway, "expired") /\ cs[6] = Check(t.client = "service", "client")
      /\ cs[7] = Check(t.sub # None, "claims")
      /\ cs[8] = Check(t.role \in ApplicationRole /\ t.roles \subseteq MembershipRole, "roles")
  BY DEF InternalChecks
<1> HIDE DEF cs
<1>2. /\ cs[1].answer = "malformed" /\ cs[2].answer = "algorithm" /\ cs[3].answer = "issuer"
      /\ cs[4].answer = "signature" /\ cs[5].answer = "expired" /\ cs[6].answer = "client"
      /\ cs[7].answer = "claims" /\ cs[8].answer = "roles"
  BY <1>1 DEF Check
<1>3. cs[4].holds <=> (t.signer = Service)
  <2>1. Check(t.signer = Service, "signature").holds <=> (t.signer = Service)
    BY DEF Check
  <2>2. QED
    BY <1>1, <2>1, Zenon
<1>4. \/ FirstFailure(cs) = "accepted" /\ \A i \in 1 .. 8 : cs[i].holds
      \/ \E i \in 1 .. 8 : FirstFailure(cs) = cs[i].answer
  BY <1>1, Checked
<1>5. QED
  BY <1>2, <1>3, <1>4 DEF cs
---------------------------------------------------------------------------
(***************************************************************************)
(* Steps of a verification.                                                *)
(***************************************************************************)
LEMMA InvInit == Init => IInv
<1> SUFFICES ASSUME Init PROVE IInv
  OBVIOUS
<1>1. Types
  BY BoundsAreNatural, KeysArePublished
  DEF Init, Types, Key, JwksRecord, CallRecord, NoJwks, NoCall, Phase, Silence, Answer
<1>2. KeyInv
  BY KeysArePublished DEF Init, KeyInv, Sound, NoJwks, Key
<1>3. MintedInv
  BY FS_EmptySet, BoundsAreNatural DEF Init, MintedInv
<1>4. AccountInv /\ CallInv
  BY DEF Init, AccountInv, CallInv, Knows, NoCall, Fetching, HasKey
<1>5. QED
  BY <1>1, <1>2, <1>3, <1>4 DEF IInv

\* What a step answers, it answers to one call.
LEMMA Answered ==
  ASSUME NEW c \in Thread, NEW a, Reply(c, a), NEW d \in Thread, NEW as, "none" \notin as, Answers(d, as)
  PROVE  d = c /\ a \in as
BY DEF Reply, Silence, Answers

LEMMA Silent ==
  ASSUME outcome' = Silence, NEW d \in Thread, NEW as, "none" \notin as
  PROVE  ~Answers(d, as)
BY DEF Silence, Answers

\* No answer that a property is about.
Quiet == \A d \in Thread : ~Answers(d, {"accepted", "provisioned", "unknown"})

LEMMA ReplyIsQuiet ==
  ASSUME NEW c \in Thread, NEW a, Reply(c, a), At(c, "idle") \/ a \notin {"accepted", "provisioned", "unknown"}
  PROVE  Quiet
<1> SUFFICES ASSUME NEW d \in Thread, Answers(d, {"accepted", "provisioned", "unknown"}) PROVE FALSE
  BY DEF Quiet
<1>1. d = c /\ a \in {"accepted", "provisioned", "unknown"}
  BY Answered
<1>2. QED
  BY <1>1 DEF Answers

LEMMA SilenceIsQuiet ==
  ASSUME outcome' = Silence
  PROVE  Quiet
BY Silent DEF Quiet

Still == UNCHANGED <<now, published, ever>>

\* The client of one issuer may have learned something.
Learned ==
  \/ UNCHANGED jwks
  \/ \E i \in Issuer, client \in JwksRecord : Sound(i, client) /\ jwks' = [jwks EXCEPT ![i] = client]

LEMMA StepKeeps ==
  ASSUME IInv, Still, UNCHANGED <<account, minted>>, Learned, outcome' \in [Thread -> Answer],
         NEW c \in Thread, NEW next \in CallRecord, Knows(next), call' = [call EXCEPT ![c] = next]
  PROVE  IInv'
<1>1. Own' = Own
  BY DEF Own
<1>2. jwks' \in [Issuer -> JwksRecord] /\ \A i \in Issuer : Sound(i, jwks'[i])
  <2>1. CASE UNCHANGED jwks
    BY <2>1 DEF IInv, Types, KeyInv
  <2>2. ASSUME NEW i \in Issuer, NEW client \in JwksRecord, Sound(i, client), jwks' = [jwks EXCEPT ![i] = client]
        PROVE  <1>2!1 /\ <1>2!2
    <3>1. jwks' \in [Issuer -> JwksRecord] /\ \A k \in Issuer : jwks'[k] \in {jwks[k], client} /\ (k # i => jwks'[k] = jwks[k])
      BY <2>2 DEF IInv, Types
    <3>2. QED
      BY <2>2, <3>1 DEF IInv, KeyInv
  <2>3. QED
    BY <2>1, <2>2 DEF Learned
<1>3. Types'
  BY <1>1, <1>2 DEF IInv, Types, CallRecord, Still
<1>4. KeyInv'
  BY <1>2 DEF IInv, KeyInv, Sound, Still
<1>5. MintedInv' /\ AccountInv'
  BY DEF IInv, MintedInv, AccountInv
<1>6. \A d \in Thread : call'[d] = IF d = c THEN next ELSE call[d]
  BY DEF IInv, Types
<1>7. \A d \in Thread : Knows(call'[d])
  BY <1>6 DEF IInv, CallInv
<1>8. CallInv'
  BY <1>1, <1>7 DEF CallInv, Knows, Still
<1>9. QED
  BY <1>3, <1>4, <1>5, <1>8 DEF IInv

LEMMA ReplyKeeps ==
  ASSUME IInv, Still, UNCHANGED <<account, minted>>, Learned, NEW c \in Thread,
         NEW a \in Answer, Reply(c, a)
  PROVE  IInv'
<1>1. NoCall \in CallRecord /\ Knows(NoCall)
  BY DEF NoCall, CallRecord, Phase, Knows, Fetching, HasKey
<1>2. PICK next \in CallRecord : next = NoCall /\ Knows(next)
  BY <1>1
<1>3. outcome' \in [Thread -> Answer]
  BY DEF Reply, Silence, Answer
<1>4. QED
  BY <1>2, <1>3, StepKeeps DEF Reply

LEMMA ContinueKeeps ==
  ASSUME IInv, Still, UNCHANGED <<account, minted>>, Learned, NEW c \in Thread,
         NEW next \in CallRecord, Knows(next), Continue(c, next)
  PROVE  IInv' /\ Quiet
<1>1. outcome' \in [Thread -> Answer]
  BY DEF Continue, Silence, Answer
<1>2. QED
  BY <1>1, StepKeeps, SilenceIsQuiet DEF Continue

LEMMA PresentSteps ==
  ASSUME IInv, Still, NEW c \in Thread, NEW t \in Token \cup Own, NEW first \in BOOLEAN, Present(c, t, first)
  PROVE  IInv' /\ Quiet
<1> DEFINE a == FirstFailure(Inspect(t))
<1>1. Learned /\ UNCHANGED <<account, minted>> /\ At(c, "idle")
  BY DEF Present, Learned
<1>2. CASE a # "accepted" /\ Reply(c, a)
  <2>1. a \in Answer
    BY Inspected DEF Answer
  <2>2. QED
    BY <1>1, <1>2, <2>1, ReplyKeeps, ReplyIsQuiet
<1>3. CASE a = "accepted" /\ ~(a # "accepted" /\ Reply(c, a))
  <2> DEFINE next == [phase |-> "key", chain |-> "cognito", token |-> t, first |-> first,
                      gap |-> t.kid \notin published[t.iss]]
  <2>1. t.alg = "RS256" /\ t.kid # None /\ t.iss \in Allowed
    BY <1>3, Inspected
  <2>2. t \in Token
    BY <2>1 DEF Own, IInv, MintedInv
  <2>3. t.kid \in Kid
    BY <2>1, <2>2, TokensAreForeign DEF TokenType
  <2>4. PICK g \in BOOLEAN : g = (t.kid \notin published[t.iss])
    OBVIOUS
  <2>5. next \in CallRecord /\ Knows(next)
    <3> DEFINE n == [phase |-> "key", chain |-> "cognito", token |-> t, first |-> first, gap |-> g]
    <3>1. n \in CallRecord /\ Knows(n)
      BY <2>1, <2>2, <2>3, <2>4 DEF CallRecord, Phase, Knows, Fetching, HasKey
    <3>2. QED
      BY <2>4, <3>1, Zenon
  <2>6. Continue(c, next)
    BY <1>3, Zenon DEF Present
  <2> HIDE DEF next
  <2>7. QED
    BY <1>1, <2>5, <2>6, ContinueKeeps
<1>4. QED
  BY <1>2, <1>3 DEF Present

\* A call that goes on to another phase keeps its token.
LEMMA Moved ==
  ASSUME IInv, NEW c \in Thread, NEW p \in Phase
  PROVE  LET q == call[c]
             next == [call[c] EXCEPT !.phase = p]
         IN  /\ q \in CallRecord /\ Knows(q) /\ next \in CallRecord
             /\ next.phase = p /\ next.chain = q.chain /\ next.token = q.token
             /\ next.gap = q.gap /\ next.first = q.first
<1>1. call[c] \in CallRecord /\ Knows(call[c])
  BY DEF IInv, Types, CallInv
<1>2. QED
  BY <1>1 DEF CallRecord

\* The key is found in what the client has, or gets.
LEMMA FoundKeeps ==
  ASSUME IInv, Still, UNCHANGED <<account, minted>>, NEW c \in Thread, call[c].phase \in Fetching,
         NEW client \in JwksRecord, Sound(call[c].token.iss, client), call[c].token.kid \in client.set,
         Found(c, client)
  PROVE  IInv' /\ Quiet
<1> DEFINE t == call[c].token
           next == [call[c] EXCEPT !.phase = "decode"]
           known == [client EXCEPT !.keys = @ \cup {t.kid}]
<1>1. t.iss \in Issuer /\ t.kid \in Kid
  BY AllowListsAreLists DEF IInv, CallInv, Knows
<1>2. known \in JwksRecord /\ Sound(t.iss, known)
  BY <1>1 DEF JwksRecord, Sound
<1>3. Learned
  BY <1>1, <1>2 DEF Learned, Found, ClientOf
<1>4. next \in CallRecord /\ Knows(next)
  <2>1. <<t.iss, t.kid>> \in ever
    BY DEF Sound
  <2>2. "decode" \in Phase
    BY DEF Phase
  <2> HIDE DEF t, next
  <2>3. QED
    BY <2>1, <2>2, Moved DEF Knows, Fetching, HasKey, t, next
<1>5. Continue(c, next)
  BY DEF Found, Goto
<1>6. QED
  BY <1>3, <1>4, <1>5, ContinueKeeps

LEMMA LookupKeySteps ==
  ASSUME IInv, Still, NEW c \in Thread, LookupKey(c)
  PROVE  IInv' /\ Quiet
<1> DEFINE t == call[c].token
           client == jwks[t.iss]
<1>1. call[c].phase = "key" /\ UNCHANGED <<account, minted>>
  BY DEF LookupKey, At
<1>2. Knows(call[c]) /\ t.iss \in Issuer /\ client \in JwksRecord /\ Sound(t.iss, client)
  BY <1>1, AllowListsAreLists DEF IInv, Types, KeyInv, CallInv, Knows, Fetching
<1>3. CASE t.kid \in client.keys /\ Goto(c, "decode") /\ UNCHANGED jwks
  <2> DEFINE next == [call[c] EXCEPT !.phase = "decode"]
  <2>1. <<t.iss, t.kid>> \in ever
    BY <1>2, <1>3 DEF Sound
  <2>2. "decode" \in Phase
    BY DEF Phase
  <2>3. next \in CallRecord /\ Knows(next)
    BY <1>1, <1>2, <2>1, <2>2, Moved DEF Knows, Fetching, HasKey
  <2>4. QED
    BY <1>1, <1>3, <2>3, ContinueKeeps DEF Goto, Learned
<1>4. CASE t.kid \in client.set /\ Found(c, client)
  BY <1>1, <1>2, <1>4, FoundKeeps DEF Fetching
<1>5. ASSUME NEW p \in {"fetch", "refetch"}, Goto(c, p), UNCHANGED jwks PROVE IInv' /\ Quiet
  <2> DEFINE next == [call[c] EXCEPT !.phase = p]
  <2>1. p \in Phase
    BY DEF Phase
  <2>2. next \in CallRecord /\ Knows(next)
    BY <1>1, <1>2, <2>1, Moved DEF Knows, Fetching, HasKey
  <2>3. QED
    BY <1>1, <1>5, <2>2, ContinueKeeps DEF Goto, Learned
<1>6. QED
  BY <1>3, <1>4, <1>5, Zenon DEF LookupKey, ClientOf

\* Unknown is what a second set without the key makes it.
UnknownStep(c) == Reply(c, "unknown") /\ call[c].gap

LEMMA FetchSteps ==
  ASSUME IInv, Still, NEW c \in Thread, Fetch(c)
  PROVE  IInv' /\ (Quiet \/ UnknownStep(c))
<1> DEFINE t == call[c].token
           client == Fetched(c)
           empty == [jwks[t.iss] EXCEPT !.set = {}, !.until = -1]
<1>1. call[c].phase \in Fetching /\ UNCHANGED <<account, minted>>
  BY DEF Fetch, At, Fetching
<1>2. Knows(call[c]) /\ t.iss \in Issuer /\ jwks[t.iss] \in JwksRecord
  BY <1>1, AllowListsAreLists DEF IInv, Types, CallInv, Knows, Fetching
<1>3. client \in JwksRecord /\ client.set = published[t.iss] /\ client.keys = jwks[t.iss].keys
  <2>1. MaxTime \in Nat /\ KeySetTTL \in Nat /\ now \in 0 .. MaxTime
    BY BoundsAreNatural DEF IInv, Types
  <2>2. now + KeySetTTL \in -1 .. MaxTime + KeySetTTL
    BY <2>1
  <2>3. published[t.iss] \in SUBSET Kid
    BY <1>2 DEF IInv, Types
  <2>4. client = [jwks[t.iss] EXCEPT !.set = published[t.iss], !.until = now + KeySetTTL]
    BY DEF Fetched, ClientOf
  <2> HIDE DEF client
  <2>5. QED
    BY <1>2, <2>2, <2>3, <2>4 DEF JwksRecord
<1>4. empty \in JwksRecord /\ empty.set = {} /\ empty.keys = jwks[t.iss].keys
  <2>1. -1 \in -1 .. MaxTime + KeySetTTL
    BY BoundsAreNatural
  <2>2. QED
    BY <1>2, <2>1 DEF JwksRecord
<1>5. Sound(t.iss, client) /\ Sound(t.iss, empty)
  BY <1>2, <1>3, <1>4 DEF IInv, KeyInv, Sound
<1> HIDE DEF client, empty
<1>6. ASSUME NEW k \in {client, empty}, Store(c, k) PROVE Learned
  BY <1>2, <1>3, <1>4, <1>5, <1>6 DEF Store, Learned, ClientOf
<1>7. CASE t.kid \in client.set /\ Found(c, client)
  BY <1>1, <1>3, <1>5, <1>7, FoundKeeps
<1>8. CASE Store(c, client) /\ Goto(c, "refetch")
  <2> DEFINE next == [call[c] EXCEPT !.phase = "refetch"]
  <2>1. "refetch" \in Phase
    BY DEF Phase
  <2>2. next \in CallRecord /\ Knows(next)
    BY <1>1, <1>2, <2>1, Moved DEF Knows, Fetching, HasKey
  <2>3. QED
    BY <1>1, <1>6, <1>8, <2>2, ContinueKeeps DEF Goto
<1>9. CASE t.kid \notin client.set /\ Store(c, client) /\ Reply(c, "unknown")
  <2>1. call[c].gap
    BY <1>1, <1>2, <1>3, <1>9 DEF Knows
  <2>2. "unknown" \in Answer
    BY DEF Answer
  <2>3. QED
    BY <1>1, <1>6, <1>9, <2>1, <2>2, ReplyKeeps DEF UnknownStep
<1>10. CASE Store(c, empty) /\ Reply(c, "unavailable")
  <2>1. "unavailable" \in Answer
    BY DEF Answer
  <2>2. QED
    BY <1>1, <1>6, <1>10, <2>1, ReplyKeeps, ReplyIsQuiet
<1>11. QED
  BY <1>7, <1>8, <1>9, <1>10, Zenon DEF Fetch, Outage, ClientOf, client, empty

\* What the chain of Cognito knows of the token it accepts.
Genuine(c) ==
  LET t == call[c].token IN
  /\ call[c].chain = "cognito"
  /\ t.iss \in Allowed /\ t.client \in AllowedClient /\ t.use = "access"
  /\ t.signer = <<t.iss, t.kid>> /\ t.signer \in ever
  /\ t \notin Own

LEMMA ForeignIsNotOwn ==
  ASSUME IInv, NEW t, t.alg = "RS256"
  PROVE  t \notin Own
BY DEF IInv, MintedInv, Own

LEMMA DecodeSteps ==
  ASSUME IInv, Still, NEW c \in Thread, Decode(c)
  PROVE  IInv' /\ (Quiet \/ (Reply(c, "accepted") /\ Genuine(c)))
<1> DEFINE t == call[c].token
           a == FirstFailure(CognitoChecks(t))
<1>1. call[c].phase = "decode" /\ UNCHANGED <<account, minted>> /\ Learned
  BY DEF Decode, At, Learned
<1>2. Knows(call[c]) /\ t.alg = "RS256" /\ t.iss \in Allowed /\ <<t.iss, t.kid>> \in ever
  BY <1>1 DEF IInv, CallInv, Knows, HasKey
<1>3. a = "accepted" => /\ t.signer = <<t.iss, t.kid>> /\ t.use = "access" /\ t.client \in AllowedClient
  BY CognitoChecked
<1>4. a \in {"accepted", "signature", "expired", "use", "client", "claims"}
  BY CognitoChecked
<1>5. a = "accepted" => Genuine(c)
  BY <1>1, <1>2, <1>3, ForeignIsNotOwn DEF Genuine, Knows, HasKey, IInv, Types, CallRecord
<1> HIDE DEF a
<1>6. CASE a = "accepted" /\ Goto(c, "profile")
  <2> DEFINE next == [call[c] EXCEPT !.phase = "profile"]
  <2>1. "profile" \in Phase
    BY DEF Phase
  <2>2. next \in CallRecord /\ Knows(next)
    BY <1>1, <1>2, <1>3, <1>6, <2>1, Moved DEF Knows, Fetching, HasKey
  <2>3. QED
    BY <1>1, <1>6, <2>2, ContinueKeeps DEF Goto
<1>7. CASE Reply(c, a)
  <2>1. a \in Answer
    BY <1>4 DEF Answer
  <2>2. IInv'
    BY <1>1, <1>7, <2>1, ReplyKeeps
  <2>3. CASE a = "accepted"
    BY <1>5, <1>7, <2>2, <2>3
  <2>4. CASE a # "accepted"
    <3>1. a \notin {"accepted", "provisioned", "unknown"}
      BY <1>4, <2>4
    <3>2. Quiet
      BY <1>7, <3>1, ReplyIsQuiet
    <3>3. QED
      BY <2>2, <3>2
  <2>5. QED
    BY <2>3, <2>4
<1>8. QED
  BY <1>6, <1>7, Zenon DEF Decode, a

\* What is known of the profile a first login is let through with.
Profiled(c) ==
  LET a == account[call[c].token.sub] IN
  a # None /\ a.email /\ (a.verified = "true" \/ (a.proof /\ (ProofIsGoogles => a.google)))

LEMMA FetchProfileSteps ==
  ASSUME IInv, Still, NEW c \in Thread, FetchProfile(c)
  PROVE  IInv' /\ (Quiet \/ (Reply(c, "provisioned") /\ Genuine(c) /\ Profiled(c)))
<1> DEFINE t == call[c].token
<1>1. call[c].phase = "profile" /\ UNCHANGED <<account, minted>> /\ Learned
  BY DEF FetchProfile, At, Learned
<1>2. Genuine(c)
  BY <1>1, ForeignIsNotOwn DEF IInv, CallInv, Knows, HasKey, Genuine, Types, CallRecord
<1>3. CASE Reply(c, "unavailable")
  <2>1. "unavailable" \in Answer
    BY DEF Answer
  <2>2. QED
    BY <1>1, <1>3, <2>1, ReplyKeeps, ReplyIsQuiet
<1>4. ASSUME NEW s \in Subject, account[s] # None, FirstFailure(ProfileChecks(t, s)) = "accepted",
             Reply(c, "provisioned")
      PROVE  IInv' /\ Reply(c, "provisioned") /\ Genuine(c) /\ Profiled(c)
  <2>1. s = t.sub /\ account[s].email /\ EmailVerified(account[s])
    BY <1>4, ProfileChecked
  <2>2. account[s].verified = "true" \/ account[s].proof
    BY <2>1, Zenon DEF EmailVerified
  <2>3. ProofIsGoogles => (account[s].proof => account[s].google)
    BY <1>4, Zenon DEF IInv, AccountInv
  <2>4. Profiled(c)
    BY <1>4, <2>1, <2>2, <2>3, Zenon DEF Profiled
  <2>5. "provisioned" \in Answer
    BY DEF Answer
  <2>6. IInv'
    BY <1>1, <1>4, <2>5, ReplyKeeps
  <2>7. QED
    BY <1>2, <1>4, <2>4, <2>6
<1>5. CASE Reply(c, "profile")
  <2>1. "profile" \in Answer
    BY DEF Answer
  <2>2. QED
    BY <1>1, <1>5, <2>1, ReplyKeeps, ReplyIsQuiet
<1>6. ASSUME NEW s \in Subject, account[s] # None,
             Reply(c, IF FirstFailure(ProfileChecks(t, s)) = "accepted" THEN "provisioned"
                      ELSE FirstFailure(ProfileChecks(t, s)))
      PROVE  IInv' /\ (Quiet \/ (Reply(c, "provisioned") /\ Genuine(c) /\ Profiled(c)))
  <2>1. CASE FirstFailure(ProfileChecks(t, s)) = "accepted"
    BY <1>4, <1>6, <2>1
  <2>2. CASE FirstFailure(ProfileChecks(t, s)) # "accepted"
    <3>1. FirstFailure(ProfileChecks(t, s)) = "profile"
      BY <2>2, ProfileChecked
    <3>2. QED
      BY <1>5, <1>6, <3>1
  <2>3. QED
    BY <2>1, <2>2
<1>7. QED
  BY <1>3, <1>6, Zenon DEF FetchProfile

LEMMA PresentInternalSteps ==
  ASSUME IInv, Still, NEW c \in Thread, NEW t \in Token \cup Own, PresentInternal(c, t)
  PROVE  IInv' /\ Quiet
<1> DEFINE next == [NoCall EXCEPT !.phase = "internal", !.chain = "internal", !.token = t]
<1>1. next \in CallRecord /\ Knows(next)
  BY DEF NoCall, CallRecord, Phase, Knows, Fetching, HasKey
<1>2. UNCHANGED <<account, minted>> /\ Learned /\ Continue(c, next)
  BY DEF PresentInternal, Learned
<1>3. QED
  BY <1>1, <1>2, ContinueKeeps

\* What the chain of the service's own tokens knows of the token it accepts.
Asked(c) ==
  /\ call[c].chain = "internal"
  /\ \E m \in minted : m.token = call[c].token /\ m.asked = {"membership"} \X call[c].token.roles

LEMMA VerifyInternalSteps ==
  ASSUME IInv, Still, NEW c \in Thread, VerifyInternal(c)
  PROVE  IInv' /\ (Quiet \/ (Reply(c, "accepted") /\ Asked(c)))
<1> DEFINE t == call[c].token
           a == FirstFailure(InternalChecks(t))
<1>1. call[c].phase = "internal" /\ UNCHANGED <<account, minted>> /\ Learned /\ Reply(c, a)
  BY DEF VerifyInternal, At, Learned
<1>2. call[c].chain = "internal" /\ t \in Token \cup Own
  BY <1>1 DEF IInv, CallInv, Knows
<1>3. a = "accepted" => t.signer = Service
  BY InternalChecked
<1>4. a \in {"accepted", "malformed", "algorithm", "issuer", "signature", "expired", "client", "claims", "roles"}
  BY InternalChecked
<1> HIDE DEF a
<1>5. a \in Answer
  BY <1>4 DEF Answer
<1>6. IInv'
  BY <1>1, <1>5, ReplyKeeps
<1>7. CASE a = "accepted"
  <2>1. Service \notin Key \cup {None}
    BY AllowListsAreLists, NoneIsNothing DEF Service, Key
  <2>2. t \notin Token
    BY <1>3, <1>7, <2>1, TokensAreForeign DEF TokenType
  <2>3. Asked(c)
    BY <1>2, <2>2 DEF Asked, Own, IInv, MintedInv
  <2>4. QED
    BY <1>1, <1>6, <1>7, <2>3
<1>8. CASE a # "accepted"
  <2>1. a \notin {"accepted", "provisioned", "unknown"}
    BY <1>4, <1>8
  <2>2. QED
    BY <1>1, <1>6, <2>1, ReplyIsQuiet
<1>9. QED
  BY <1>7, <1>8

\* What a step of a verification may answer.
Justified ==
  \/ Quiet
  \/ \E c \in Thread : UnknownStep(c)
  \/ \E c \in Thread : Reply(c, "accepted") /\ (Genuine(c) \/ Asked(c))
  \/ \E c \in Thread : Reply(c, "provisioned") /\ Genuine(c) /\ Profiled(c)

LEMMA ServeSteps ==
  ASSUME IInv, NEW c \in Thread, Serve(c)
  PROVE  IInv' /\ Justified
<1>1. Still
  BY DEF Serve, Still
<1>2. ASSUME NEW t \in Token \cup Own, NEW first \in BOOLEAN, Present(c, t, first) PROVE IInv' /\ Justified
  BY <1>1, <1>2, PresentSteps DEF Justified
<1>3. ASSUME NEW t \in Token \cup Own, PresentInternal(c, t) PROVE IInv' /\ Justified
  BY <1>1, <1>3, PresentInternalSteps DEF Justified
<1>4. CASE LookupKey(c)
  BY <1>1, <1>4, LookupKeySteps DEF Justified
<1>5. CASE Fetch(c)
  BY <1>1, <1>5, FetchSteps DEF Justified
<1>6. CASE Decode(c)
  BY <1>1, <1>6, DecodeSteps DEF Justified
<1>7. CASE FetchProfile(c)
  BY <1>1, <1>7, FetchProfileSteps DEF Justified
<1>8. CASE VerifyInternal(c)
  BY <1>1, <1>8, VerifyInternalSteps DEF Justified
<1>9. QED
  BY <1>2, <1>3, <1>4, <1>5, <1>6, <1>7, <1>8 DEF Serve, VerifyStep
---------------------------------------------------------------------------
(***************************************************************************)
(* The user pool, the keys, the service's own tokens and the clock.        *)
(***************************************************************************)
LEMMA AccountsKeep ==
  ASSUME IInv, UNCHANGED <<now, published, ever, jwks, minted, call>>, outcome' = Silence,
         account' \in [Subject -> Account \cup {None}], AccountInv'
  PROVE  IInv'
<1>1. outcome' \in [Thread -> Answer]
  BY DEF Silence, Answer
<1>2. Own' = Own
  BY DEF Own
<1>3. Types' /\ KeyInv'
  BY <1>1, <1>2 DEF IInv, Types, KeyInv, Sound, CallRecord
<1>4. MintedInv' /\ CallInv'
  BY <1>2 DEF IInv, MintedInv, CallInv, Knows
<1>5. QED
  BY <1>3, <1>4 DEF IInv

LEMMA SignUpKeeps ==
  ASSUME IInv, UNCHANGED now, outcome' = Silence, NEW s \in Subject, NEW a \in Account, SignUp(s, a)
  PROVE  IInv'
<1>1. account' \in [Subject -> Account \cup {None}]
  BY DEF IInv, Types, SignUp
<1>2. a.google \in BOOLEAN /\ a.proof \in BOOLEAN
  BY DEF Account
<1>3. ProofIsGoogles => (a.proof => a.google)
  BY DEF SignUp
<1>4. \A k \in Subject : account'[k] = IF k = s THEN a ELSE account[k]
  BY DEF IInv, Types, SignUp
<1>5. AccountInv'
  <2>1. ASSUME ProofIsGoogles, NEW k \in Subject, account'[k] # None, account'[k].proof
        PROVE  account'[k].google
    <3>1. CASE k = s
      BY <1>3, <1>4, <2>1, <3>1, Zenon
    <3>2. CASE k # s
      BY <1>4, <2>1, <3>2, Zenon DEF IInv, AccountInv
    <3>3. QED
      BY <3>1, <3>2
  <2>2. QED
    BY <2>1, Zenon DEF AccountInv
<1>6. QED
  BY <1>1, <1>5, AccountsKeep DEF SignUp

LEMMA ConfirmKeeps ==
  ASSUME IInv, UNCHANGED now, outcome' = Silence, NEW s \in Subject, Confirm(s)
  PROVE  IInv'
<1> DEFINE a == [account[s] EXCEPT !.verified = "true"]
<1>1. account[s] \in Account
  BY DEF IInv, Types, Confirm
<1>2. a \in Account /\ a.google = account[s].google /\ a.proof = account[s].proof
  BY <1>1 DEF Account
<1>3. account' = [account EXCEPT ![s] = a]
  BY DEF Confirm
<1> HIDE DEF a
<1>4. account' \in [Subject -> Account \cup {None}] /\ \A k \in Subject : account'[k] = IF k = s THEN a ELSE account[k]
  BY <1>2, <1>3 DEF IInv, Types
<1>5. AccountInv'
  <2>1. ASSUME ProofIsGoogles, NEW k \in Subject, account'[k] # None, account'[k].proof
        PROVE  account'[k].google
    <3>1. CASE k = s
      BY <1>2, <1>4, <2>1, <3>1, Zenon DEF IInv, AccountInv, Confirm
    <3>2. CASE k # s
      BY <1>4, <2>1, <3>2, Zenon DEF IInv, AccountInv
    <3>3. QED
      BY <3>1, <3>2
  <2>2. QED
    BY <2>1, Zenon DEF AccountInv
<1>6. QED
  BY <1>4, <1>5, AccountsKeep DEF Confirm

LEMMA MapClaimsKeeps ==
  ASSUME IInv, UNCHANGED now, outcome' = Silence, NEW s \in Subject, NEW proof \in BOOLEAN, NEW email \in BOOLEAN,
         MapClaims(s, proof, email)
  PROVE  IInv'
<1> DEFINE a == [[[account[s] EXCEPT !.proof = proof] EXCEPT !.email = email] EXCEPT !.verified = "false"]
<1>1. account[s] \in Account
  BY DEF IInv, Types, MapClaims
<1>2. a \in Account /\ a.google = account[s].google
  BY <1>1 DEF Account
<1>3. account' = [account EXCEPT ![s] = a]
  BY <1>1 DEF MapClaims, IInv, Types
<1> HIDE DEF a
<1>4. account' \in [Subject -> Account \cup {None}] /\ \A k \in Subject : account'[k] = IF k = s THEN a ELSE account[k]
  BY <1>2, <1>3 DEF IInv, Types
<1>5. AccountInv'
  <2>1. ASSUME ProofIsGoogles, NEW k \in Subject, account'[k] # None, account'[k].proof
        PROVE  account'[k].google
    <3>1. CASE k = s
      BY <1>2, <1>4, <3>1, Zenon DEF MapClaims
    <3>2. CASE k # s
      BY <1>4, <2>1, <3>2, Zenon DEF IInv, AccountInv
    <3>3. QED
      BY <3>1, <3>2
  <2>2. QED
    BY <2>1, Zenon DEF AccountInv
<1>6. QED
  BY <1>4, <1>5, AccountsKeep DEF MapClaims

\* Calls that wait for a key of the issuer take note of the gap.
LEMMA RotateKeeps ==
  ASSUME IInv, UNCHANGED now, outcome' = Silence, NEW i \in Issuer, NEW kids \in SUBSET Kid, Rotate(i, kids)
  PROVE  IInv'
<1>1. /\ published' = [published EXCEPT ![i] = kids] /\ kids # {}
      /\ ever' = ever \cup {<<i, k>> : k \in kids} /\ UNCHANGED <<jwks, minted, account>>
  BY DEF Rotate
<1>2. Own' = Own
  BY <1>1 DEF Own
<1>3. /\ published' \in [Issuer -> (SUBSET Kid) \ {{}}] /\ ever' \in SUBSET Key
      /\ \A j \in Issuer : published'[j] = IF j = i THEN kids ELSE published[j]
  BY <1>1 DEF IInv, Types, Key
<1>4. ever \subseteq ever' /\ \A k \in kids : <<i, k>> \in ever'
  BY <1>1
<1>5. KeyInv'
  BY <1>1, <1>3, <1>4 DEF IInv, KeyInv, Sound
<1>6. ASSUME NEW c \in Thread, NEW q, q = call[c], NEW n, n = call'[c]
      PROVE  n \in CallRecord /\ Knows(n)'
  <2> DEFINE waits == q.phase \in Fetching /\ q.token.iss = i
             next == [q EXCEPT !.gap = @ \/ q.token.kid \notin kids]
  <2>1. q \in CallRecord /\ Knows(q)
    BY <1>6 DEF IInv, Types, CallInv
  <2>2. n = IF waits THEN next ELSE q
    BY <1>6, Zenon DEF Rotate, Fetching
  <2>3. CASE ~waits
    <3>1. n = q
      BY <2>2, <2>3
    <3>2. Knows(q)'
      BY <1>2, <1>3, <1>4, <2>1, <2>3, AllowListsAreLists DEF Knows
    <3>3. QED
      BY <2>1, <3>1, <3>2
  <2>4. CASE waits
    <3>1. PICK g \in BOOLEAN : g = (q.gap \/ q.token.kid \notin kids)
      OBVIOUS
    <3>2. n = [q EXCEPT !.gap = g]
      BY <2>2, <2>4, <3>1, Zenon
    <3>3. g \/ q.token.kid \in kids
      BY <3>1
    <3>4. n \in CallRecord /\ n.phase = q.phase /\ n.token = q.token /\ n.chain = q.chain /\ n.gap = g
      BY <2>1, <3>2 DEF CallRecord
    <3>5. Knows(n)'
      BY <1>2, <1>3, <1>4, <2>1, <2>4, <3>3, <3>4 DEF Knows, Fetching, HasKey
    <3>6. QED
      BY <3>4, <3>5
  <2>5. QED
    BY <2>3, <2>4
<1>7. call' \in [Thread -> CallRecord]
  BY <1>6, Zenon DEF Rotate
<1>8. CallInv'
  <2>1. SUFFICES ASSUME NEW c \in Thread PROVE Knows(call[c])'
    BY DEF CallInv
  <2>2. PICK n : n = call'[c]
    BY Zenon
  <2>3. Knows(n)'
    BY <1>6, <2>2
  <2>4. QED
    BY <2>2, <2>3 DEF Knows
<1>9. Types'
  <2>1. outcome' \in [Thread -> Answer]
    BY DEF Silence, Answer
  <2>2. QED
    BY <1>1, <1>2, <1>3, <1>7, <2>1 DEF IInv, Types, CallRecord
<1>10. MintedInv' /\ AccountInv'
  BY <1>1 DEF IInv, MintedInv, AccountInv
<1>11. QED
  BY <1>5, <1>8, <1>9, <1>10 DEF IInv

\* The service's tokens only become more.
LEMMA MintKeeps ==
  ASSUME IInv, Still, outcome' = Silence, NEW s \in Subject, NEW role \in ApplicationRole,
         NEW asked \in SUBSET {<<"membership", "member">>, <<"membership", "admin">>, <<"application", "admin">>},
         Mint(s, role, asked)
  PROVE  IInv'
<1> DEFINE roles == {r[2] : r \in asked}
           m == [token |-> OwnToken(s, role, roles), asked |-> asked]
<1>1. minted' = minted \cup {m} /\ UNCHANGED <<jwks, account, call>> /\ Cardinality(minted) < MaxMinted
  BY DEF Mint
<1>2. m.token.alg = "HS256" /\ m.token.roles = roles /\ m.asked = asked
  BY DEF OwnToken
<1>3. asked = {"membership"} \X roles
  <2>1. \A r \in asked : r = <<"membership", r[2]>>
    BY DEF Mint, Coerce
  <2>2. QED
    BY <2>1
<1> HIDE DEF m
<1>4. MintedInv'
  <2>1. IsFiniteSet(minted) /\ Cardinality(minted) \in Nat /\ MaxMinted \in Nat
    BY FS_CardinalityType, BoundsAreNatural DEF IInv, MintedInv
  <2>2. IsFiniteSet(minted') /\ Cardinality(minted') <= Cardinality(minted) + 1 /\ Cardinality(minted') \in Nat
    <3>1. /\ IsFiniteSet(minted \cup {m})
          /\ Cardinality(minted \cup {m}) = IF m \in minted THEN Cardinality(minted) ELSE Cardinality(minted) + 1
      BY <2>1, FS_AddElement, Zenon
    <3>2. QED
      BY <1>1, <2>1, <3>1
  <2>3. Cardinality(minted') <= MaxMinted
    BY <1>1, <2>1, <2>2
  <2>4. QED
    BY <1>1, <1>2, <1>3, <2>2, <2>3 DEF IInv, MintedInv
<1>5. Own \subseteq Own'
  BY <1>1 DEF Own
<1>6. Types'
  <2>1. outcome' \in [Thread -> Answer]
    BY DEF Silence, Answer
  <2>2. \A c \in Thread : call[c] \in CallRecord'
    BY <1>5 DEF IInv, Types, CallRecord
  <2>3. call' \in [Thread -> CallRecord']
    BY <1>1, <2>2 DEF IInv, Types
  <2>4. QED
    BY <1>1, <2>1, <2>3 DEF IInv, Types, Still
<1>7. KeyInv' /\ AccountInv'
  BY <1>1 DEF IInv, KeyInv, Sound, AccountInv, Still
<1>8. CallInv'
  BY <1>1, <1>5 DEF IInv, CallInv, Knows, Still
<1>9. QED
  BY <1>4, <1>6, <1>7, <1>8 DEF IInv

LEMMA TickKeeps ==
  ASSUME IInv, Tick
  PROVE  IInv'
<1>1. UNCHANGED <<published, ever, jwks, minted, account, call>> /\ outcome' = Silence
  BY DEF Tick
<1>2. now' \in 0 .. MaxTime
  BY BoundsAreNatural DEF IInv, Types, Tick
<1>3. outcome' \in [Thread -> Answer] /\ Own' = Own
  BY <1>1 DEF Silence, Answer, Own
<1>4. Types' /\ KeyInv'
  BY <1>1, <1>2, <1>3 DEF IInv, Types, KeyInv, Sound, CallRecord
<1>5. MintedInv' /\ AccountInv' /\ CallInv'
  BY <1>1, <1>3 DEF IInv, MintedInv, AccountInv, CallInv, Knows
<1>6. QED
  BY <1>4, <1>5 DEF IInv

LEMMA StutterKeeps ==
  ASSUME IInv, UNCHANGED vars
  PROVE  IInv'
<1>1. Own' = Own
  BY DEF vars, Own
<1>2. Types' /\ KeyInv'
  BY <1>1 DEF vars, IInv, Types, KeyInv, Sound, CallRecord
<1>3. MintedInv' /\ AccountInv' /\ CallInv'
  BY <1>1 DEF vars, IInv, MintedInv, AccountInv, CallInv, Knows
<1>4. QED
  BY <1>2, <1>3 DEF IInv

LEMMA AroundKeeps ==
  ASSUME IInv, Around
  PROVE  IInv'
<1>1. UNCHANGED now /\ outcome' = Silence
  BY DEF Around
<1>2. ASSUME NEW s \in Subject, NEW a \in Account, SignUp(s, a) PROVE IInv'
  BY <1>1, <1>2, SignUpKeeps
<1>3. ASSUME NEW s \in Subject, Confirm(s) PROVE IInv'
  BY <1>1, <1>3, ConfirmKeeps
<1>4. ASSUME NEW s \in Subject, NEW proof \in BOOLEAN, NEW email \in BOOLEAN, MapClaims(s, proof, email)
      PROVE  IInv'
  BY <1>1, <1>4, MapClaimsKeeps
<1>5. ASSUME NEW i \in Issuer, NEW kids \in SUBSET Kid, Rotate(i, kids) PROVE IInv'
  BY <1>1, <1>5, RotateKeeps
<1>6. QED
  BY <1>2, <1>3, <1>4, <1>5 DEF Around

\* Every step keeps the invariant and answers nothing it cannot justify.
LEMMA Steps ==
  ASSUME IInv, [Next]_vars
  PROVE  IInv' /\ (Justified \/ UNCHANGED vars)
<1>1. ASSUME NEW c \in Thread, Serve(c) PROVE IInv' /\ Justified
  BY <1>1, ServeSteps
<1>2. CASE Around
  BY <1>2, AroundKeeps, SilenceIsQuiet DEF Around, Justified
<1>3. CASE Issue
  <2>1. PICK s \in Subject, role \in ApplicationRole,
             asked \in SUBSET {<<"membership", "member">>, <<"membership", "admin">>, <<"application", "admin">>} :
          Mint(s, role, asked)
    BY <1>3 DEF Issue
  <2>2. Still /\ outcome' = Silence
    BY <1>3, <2>1 DEF Issue, Still, Mint
  <2>3. QED
    BY <2>1, <2>2, MintKeeps, SilenceIsQuiet DEF Justified
<1>4. CASE Tick
  BY <1>4, TickKeeps, SilenceIsQuiet DEF Tick, Justified
<1>5. CASE UNCHANGED vars
  BY <1>5, StutterKeeps
<1>6. QED
  BY <1>1, <1>2, <1>3, <1>4, <1>5 DEF Next

\* The invariant is one.
THEOREM Invariance == Spec => []IInv
<1>1. IInv /\ [Next]_vars => IInv'
  BY Steps
<1>2. QED
  BY InvInit, <1>1, PTL DEF Spec

\* Types of clients, calls and answers; nothing is fetched for an issuer that
\* is not allowed.
THEOREM TypeCorrect == Spec => []TypeOK
<1>1. IInv => TypeOK
  BY DEF IInv, Types, MintedInv, CallInv, Knows, TypeOK, JwksRecord, CallRecord, Fetching
<1>2. QED
  BY Invariance, <1>1, PTL
---------------------------------------------------------------------------
(***************************************************************************)
(* When a token is accepted.                                               *)
(***************************************************************************)
\* A step for one call accepts nothing for another.
LEMMA OthersWait ==
  ASSUME IInv, NEW d \in Thread, Serve(d), NEW c \in Thread, c # d
  PROVE  ~Accepts(c)
<1>1. ASSUME NEW a, Reply(d, a) PROVE ~Accepts(c)
  BY <1>1 DEF Reply, Silence, Accepts, Answers, At, IInv, Types
<1>2. ASSUME NEW n, Continue(d, n) PROVE ~Accepts(c)
  BY <1>2 DEF Continue, Silence, Accepts, Answers, At, IInv, Types
<1>3. CASE LookupKey(d)
  BY <1>2, <1>3, Zenon DEF LookupKey, Goto, Found
<1>4. CASE Fetch(d)
  BY <1>1, <1>2, <1>4, Zenon DEF Fetch, Goto, Found, Outage
<1>5. CASE Decode(d)
  BY <1>1, <1>2, <1>5, Zenon DEF Decode, Goto
<1>6. CASE FetchProfile(d)
  BY <1>1, <1>6, Zenon DEF FetchProfile
<1>7. CASE VerifyInternal(d)
  BY <1>1, <1>7, Zenon DEF VerifyInternal
<1>8. ASSUME NEW t \in Token \cup Own, NEW first \in BOOLEAN, Present(d, t, first) PROVE ~Accepts(c)
  BY <1>1, <1>2, <1>8, Zenon DEF Present
<1>9. ASSUME NEW t \in Token \cup Own, PresentInternal(d, t) PROVE ~Accepts(c)
  BY <1>2, <1>9, Zenon DEF PresentInternal
<1>10. QED
  BY <1>3, <1>4, <1>5, <1>6, <1>7, <1>8, <1>9 DEF Serve, VerifyStep

\* Of the steps for a call only Decode accepts, and it has looked at the time.
LEMMA OwnStepInTime ==
  ASSUME IInv, NEW c \in Thread, Serve(c), call[c].chain = "cognito", Accepts(c)
  PROVE  now < call[c].token.exp + Leeway
<1>1. ~At(c, "idle") /\ (Answers(c, {"accepted"}) \/ At(c, "decode"))
  BY DEF Accepts, Answers, At
<1>2. ASSUME NEW a, a # "accepted", Reply(c, a) PROVE ~Answers(c, {"accepted"})
  BY <1>2, Answered
<1>3. ASSUME NEW n, Continue(c, n) PROVE ~Answers(c, {"accepted"})
  BY <1>3, Silent DEF Continue
<1>4. CASE LookupKey(c)
  BY <1>1, <1>3, <1>4, Zenon DEF LookupKey, Goto, Found, At
<1>5. CASE Fetch(c)
  BY <1>1, <1>2, <1>3, <1>5, Zenon DEF Fetch, Goto, Found, Outage, At
<1>6. CASE Decode(c)
  <2> DEFINE a == FirstFailure(CognitoChecks(call[c].token))
  <2>1. a = "accepted"
    <3>1. CASE Reply(c, a)
      <4>1. call'[c].phase = "idle"
        BY <3>1 DEF Reply, NoCall, IInv, Types
      <4>2. Answers(c, {"accepted"})
        BY <4>1 DEF Accepts
      <4>3. QED
        BY <1>2, <3>1, <4>2
    <3>2. QED
      BY <1>6, <3>1 DEF Decode
  <2>2. QED
    BY <2>1, CognitoChecked
<1>7. CASE FetchProfile(c)
  BY <1>1, <1>2, <1>7, Zenon DEF FetchProfile, At
<1>8. CASE VerifyInternal(c)
  BY <1>8 DEF VerifyInternal, At, IInv, CallInv, Knows
<1>9. ASSUME NEW t \in Token \cup Own, NEW first \in BOOLEAN, Present(c, t, first) PROVE FALSE
  BY <1>1, <1>9 DEF Present
<1>10. ASSUME NEW t \in Token \cup Own, PresentInternal(c, t) PROVE FALSE
  BY <1>1, <1>10 DEF PresentInternal
<1>11. QED
  BY <1>4, <1>5, <1>6, <1>7, <1>8, <1>9, <1>10 DEF Serve, VerifyStep

\* The steps of nobody's call accept nothing.
LEMMA NobodyAccepts ==
  ASSUME IInv, NEW c \in Thread, outcome' = Silence, call'[c].phase = call[c].phase
  PROVE  ~Accepts(c)
BY Silent DEF Accepts, At

LEMMA AcceptsInTime ==
  ASSUME IInv, Next, NEW c \in Thread, call[c].chain = "cognito", Accepts(c)
  PROVE  now < call[c].token.exp + Leeway
<1>1. ASSUME NEW d \in Thread, Serve(d) PROVE now < call[c].token.exp + Leeway
  BY <1>1, OthersWait, OwnStepInTime
<1>2. CASE Around
  <2>1. ASSUME NEW i \in Issuer, NEW kids \in SUBSET Kid, Rotate(i, kids) PROVE call'[c].phase = call[c].phase
    <3>1. call[c] \in CallRecord
      BY DEF IInv, Types
    <3>2. PICK g : call'[c] = [call[c] EXCEPT !.gap = g] \/ call'[c] = call[c]
      BY <2>1, Zenon DEF Rotate
    <3>3. QED
      BY <3>1, <3>2 DEF CallRecord
  <2>2. call'[c].phase = call[c].phase
    BY <1>2, <2>1 DEF Around, SignUp, Confirm, MapClaims
  <2>3. QED
    BY <1>2, <2>2, NobodyAccepts DEF Around
<1>3. CASE Issue \/ Tick
  BY <1>3, NobodyAccepts DEF Issue, Mint, Tick
<1>4. QED
  BY <1>1, <1>2, <1>3 DEF Next
---------------------------------------------------------------------------
(***************************************************************************)
(* The theorems about steps.                                               *)
(***************************************************************************)
\* A token that the chain of Cognito accepts is one of an allowed issuer and
\* client, signed by a key that issuer has published, and has not expired
\* (CognitoJwksSource, CognitoAccessTokenVerifier.verify).
THEOREM Genuineness == Spec => AcceptedIsGenuine
<1> DEFINE P == \A c \in Thread : LET t == call[c].token IN
       call[c].chain = "cognito" =>
         /\ Answers(c, {"accepted", "provisioned"}) =>
              /\ t.iss \in Allowed /\ t.client \in AllowedClient /\ t.use = "access"
              /\ t.signer = <<t.iss, t.kid>> /\ t.signer \in ever
         /\ Accepts(c) => now < t.exp + Leeway
<1>1. ASSUME Justified, NEW c \in Thread, call[c].chain = "cognito", Answers(c, {"accepted", "provisioned"})
      PROVE  Genuine(c)
  <2>1. CASE Quiet
    BY <1>1, <2>1 DEF Quiet, Answers
  <2>2. ASSUME NEW d \in Thread, UnknownStep(d) PROVE FALSE
    BY <1>1, <2>2, Answered DEF UnknownStep
  <2>3. ASSUME NEW d \in Thread, NEW a, Reply(d, a), Genuine(d) \/ Asked(d) PROVE Genuine(c)
    BY <1>1, <2>3, Answered DEF Asked
  <2>4. QED
    BY <1>1, <2>1, <2>2, <2>3 DEF Justified
<1>2. IInv /\ [Next]_vars => P \/ UNCHANGED vars
  <2>1. SUFFICES ASSUME IInv, Next, Justified PROVE P
    BY Steps
  <2>3. ASSUME NEW c \in Thread, call[c].chain = "cognito", Answers(c, {"accepted", "provisioned"})
        PROVE  Genuine(c)
    BY <1>1, <2>1, <2>3
  <2>4. ASSUME NEW c \in Thread, call[c].chain = "cognito", Accepts(c)
        PROVE  now < call[c].token.exp + Leeway
    BY <2>1, <2>4, AcceptsInTime
  <2>5. QED
    BY <2>3, <2>4 DEF Genuine
<1>3. QED
  BY Invariance, <1>2, PTL DEF Spec, AcceptedIsGenuine

\* A key is called unknown only if it was unpublished at some instant of the
\* call (the second fetch of CognitoJwksSource.signing_key).
THEOREM KeysAreFound == Spec => UnknownMeansUnpublished
<1> DEFINE P == \A c \in Thread : Answers(c, {"unknown"}) => call[c].gap
<1>1. IInv /\ [Next]_vars => P \/ UNCHANGED vars
  <2>1. SUFFICES ASSUME Justified, NEW c \in Thread, Answers(c, {"unknown"}) PROVE call[c].gap
    BY Steps, Zenon
  <2>2. CASE Quiet
    BY <2>1, <2>2 DEF Quiet, Answers
  <2>3. ASSUME NEW d \in Thread, UnknownStep(d) PROVE call[c].gap
    <3>1. d = c
      BY <2>1, <2>3, Answered DEF UnknownStep
    <3>2. QED
      BY <2>3, <3>1, Zenon DEF UnknownStep
  <2>4. ASSUME NEW d \in Thread, NEW a \in {"accepted", "provisioned"}, Reply(d, a) PROVE FALSE
    BY <2>1, <2>4, Answered
  <2>5. QED
    BY <2>1, <2>2, <2>3, <2>4 DEF Justified
<1>2. QED
  BY Invariance, <1>1, PTL DEF Spec, UnknownMeansUnpublished

\* The two chains accept different tokens, and what the service's own chain
\* accepts carries the roles it was issued for (JwtTokenIssuer,
\* JwtTokenVerifier).
THEOREM RolesAreThoseAsked == Spec => OwnRolesWereAsked
<1> DEFINE P == \A c \in Thread : LET t == call[c].token IN
       Answers(c, {"accepted", "provisioned"}) =>
         IF call[c].chain = "cognito" THEN t \notin Own
         ELSE \E m \in minted : m.token = t /\ m.asked = {"membership"} \X t.roles
<1>1. IInv /\ [Next]_vars => P \/ UNCHANGED vars
  <2>1. SUFFICES ASSUME Justified, NEW c \in Thread, Answers(c, {"accepted", "provisioned"})
                 PROVE  Genuine(c) \/ Asked(c)
    BY Steps DEF Genuine, Asked
  <2>2. CASE Quiet
    BY <2>1, <2>2 DEF Quiet, Answers
  <2>3. ASSUME NEW d \in Thread, UnknownStep(d) PROVE FALSE
    BY <2>1, <2>3, Answered DEF UnknownStep
  <2>4. ASSUME NEW d \in Thread, NEW a, Reply(d, a), Genuine(d) \/ Asked(d) PROVE Genuine(c) \/ Asked(c)
    BY <2>1, <2>4, Answered
  <2>5. QED
    BY <2>1, <2>2, <2>3, <2>4 DEF Justified
<1>2. QED
  BY Invariance, <1>1, PTL DEF Spec, OwnRolesWereAsked

\* No account is provisioned but for the token's own subject with an address
\* that is verified or proven (CognitoUserInfoClient.fetch,
\* require_provisioning_profile): whoever may write the proof, and by Google
\* for a Google account if the pool lets only Google's mapping write it.
THEOREM AddressesAreVerified == Spec => ProvisionedIsVerified
<1> DEFINE P == \A c \in Thread : Answers(c, {"provisioned"}) =>
       LET a == account[call[c].token.sub] IN
         /\ a # None /\ a.email
         /\ a.verified = "true" \/ (a.proof /\ (ProofIsGoogles => a.google))
<1>1. IInv /\ [Next]_vars => P \/ UNCHANGED vars
  <2>1. SUFFICES ASSUME Justified, NEW c \in Thread, Answers(c, {"provisioned"}) PROVE Profiled(c)
    BY Steps, Zenon DEF Profiled
  <2>2. CASE Quiet
    BY <2>1, <2>2 DEF Quiet, Answers
  <2>3. ASSUME NEW d \in Thread, UnknownStep(d) PROVE FALSE
    BY <2>1, <2>3, Answered DEF UnknownStep
  <2>4. ASSUME NEW d \in Thread, Reply(d, "accepted") PROVE FALSE
    BY <2>1, <2>4, Answered
  <2>5. ASSUME NEW d \in Thread, Reply(d, "provisioned"), Profiled(d) PROVE Profiled(c)
    <3>1. d = c
      BY <2>1, <2>5, Answered
    <3>2. QED
      BY <2>5, <3>1
  <2>6. QED
    BY <2>1, <2>2, <2>3, <2>4, <2>5 DEF Justified
<1>2. QED
  BY Invariance, <1>1, PTL DEF Spec, ProvisionedIsVerified
=============================================================================
