-------------------------------- MODULE Tokens --------------------------------
(***************************************************************************)
(* Verification of bearer tokens: access tokens of Cognito                 *)
(* (auth/cognito.py) with the keys their issuers publish (auth/jwks.py),   *)
(* the profile a first login needs, the registration triggers of the user  *)
(* pool (auth/cognito_triggers.py), and the tokens the service can issue   *)
(* itself (auth/tokens.py).                                                *)
(*                                                                         *)
(* Issuers rotate their keys while requests are verified side by side.  A  *)
(* key is named by its issuer and its key id: two issuers may use one key  *)
(* id for different keys.  The client of the JWT library, one per issuer,  *)
(* remembers keys for good and whole key sets for KeySetTTL.               *)
(***************************************************************************)
EXTENDS Integers, Sequences, FiniteSets

CONSTANTS
  Issuer,        \* issuers of tokens; the service itself is not among them
  Allowed,       \* allowed_issuers
  Kid,           \* key ids
  Client,        \* app clients
  AllowedClient, \* allowed_client_ids
  Subject,       \* accounts of the user pool
  Token,         \* Cognito-like tokens presented
  Published,     \* the key sets in the beginning
  ProofIsGoogles,\* assumption on the pool: see SignUp
  Thread,        \* slots for verifications in progress
  KeySetTTL,     \* lifespan of a cached key set (PyJWKClient)
  Leeway,        \* leeway_seconds of both verifiers
  TTL,           \* ttl_seconds of the service's own tokens
  MaxTime,       \* bound on the clock
  MaxMinted,     \* bound on the tokens of the service
  None           \* no value

Key == Issuer \X Kid
Service == <<"service", "key">>

\* What a token says.  signer is the key that signed it, None a forgery;
\* client stands for client_id or aud, sub for the shape of the other claims.
TokenType == [form : BOOLEAN, alg : {"RS256", "HS256", "none"}, kid : Kid \cup {None},
              iss : Issuer \cup {"service"}, signer : Key \cup {None}, use : {"access", "id", "none"},
              client : Client \cup {"service"}, sub : Subject \cup {None}, exp : Int,
              role : STRING, roles : SUBSET STRING]

\* What the user pool says of an account; proof is Google's word.
Account == [google : BOOLEAN, email : BOOLEAN, verified : {"true", "false"}, proof : BOOLEAN]

ASSUME AllowListsAreLists ==
  /\ Allowed \subseteq Issuer /\ AllowedClient \subseteq Client
  /\ "service" \notin Issuer \cup Client
ASSUME TokensAreForeign == Token \subseteq TokenType
ASSUME NoneIsNothing == None # Service /\ None \notin Kid \cup Account
ASSUME ProofIsGooglesOrNot == ProofIsGoogles \in BOOLEAN
ASSUME KeysArePublished == Published \in [Issuer -> (SUBSET Kid) \ {{}}]
ASSUME BoundsAreNatural == {KeySetTTL, Leeway, TTL, MaxTime, MaxMinted} \subseteq Nat /\ TTL > 0

VARIABLES
  now,           \* the clock
  published,     \* key ids each issuer publishes
  ever,          \* history: every key ever published
  jwks,          \* the client of each issuer: keys, and the cached key set
  minted,        \* tokens of the service, each with the roles asked for
  account,       \* accounts of the user pool
  call,          \* each verification
  outcome        \* what the last step has answered, and to which call

vars == <<now, published, ever, jwks, minted, account, call, outcome>>

ApplicationRole == {"user", "admin"}
MembershipRole == {"owner", "admin", "member", "viewer"}

NoJwks == [keys |-> {}, set |-> {}, until |-> -1]
NoToken == [form |-> FALSE]
NoCall == [phase |-> "idle", chain |-> "cognito", token |-> NoToken, gap |-> FALSE, first |-> FALSE]
Silence == [c \in Thread |-> "none"]

Phase == {"idle", "key", "fetch", "refetch", "decode", "internal", "profile"}
Answer == {"none", "accepted", "provisioned", "malformed", "algorithm", "kid", "issuer", "unknown",
           "unavailable", "signature", "expired", "use", "client", "claims", "roles", "profile"}

\* A token of the service with what its issuer was asked to put into it.
OwnToken(n, role, roles) ==
  [form |-> TRUE, alg |-> "HS256", kid |-> None, iss |-> "service", signer |-> Service,
   use |-> "none", client |-> "service", sub |-> n, exp |-> now + TTL, role |-> role, roles |-> roles]

Own == {m.token : m \in minted}

\* Type invariant of keys and verifications.
TypeOK ==
  /\ now \in 0 .. MaxTime
  /\ published \in [Issuer -> (SUBSET Kid) \ {{}}]
  /\ ever \in SUBSET Key
  /\ jwks \in [Issuer -> [keys : SUBSET Kid, set : SUBSET Kid, until : -1 .. MaxTime + KeySetTTL]]
  /\ Cardinality(minted) <= MaxMinted
  /\ account \in [Subject -> Account \cup {None}]
  /\ \A c \in Thread :
       /\ call[c].phase \in Phase /\ call[c].chain \in {"cognito", "internal"}
       /\ call[c].token \in Token \cup Own \cup {NoToken}
       /\ call[c].gap \in BOOLEAN /\ call[c].first \in BOOLEAN
       /\ call[c].phase \in {"key", "fetch", "refetch"} => call[c].token.iss \in Allowed
  /\ outcome \in [Thread -> Answer]

Init ==
  /\ now = 0
  /\ published = Published
  /\ ever = {k \in Key : k[2] \in published[k[1]]}
  /\ jwks = [i \in Issuer |-> NoJwks]
  /\ minted = {}
  /\ account = [s \in Subject |-> None]
  /\ call = [c \in Thread |-> NoCall]
  /\ outcome = Silence
---------------------------------------------------------------------------
At(c, phase) == call[c].phase = phase

Continue(c, next) == call' = [call EXCEPT ![c] = next] /\ outcome' = Silence

Goto(c, phase) == Continue(c, [call[c] EXCEPT !.phase = phase])

Reply(c, a) == call' = [call EXCEPT ![c] = NoCall] /\ outcome' = [Silence EXCEPT ![c] = a]

Check(h, a) == [holds |-> h, answer |-> a]

\* Checks are made in order and end with the first that fails.
FirstFailure(checks) ==
  LET failed == {i \in DOMAIN checks : ~checks[i].holds}
      first == CHOOSE i \in failed : \A k \in failed : i <= k
  IN  IF failed = {} THEN "accepted" ELSE checks[first].answer
---------------------------------------------------------------------------
(***************************************************************************)
(* CognitoAccessTokenVerifier.verify.                                      *)
(***************************************************************************)
\* Mutant of Inspect: any issuer will do.
InspectHeader(t) ==
  << Check(t.form, "malformed"), Check(t.alg = "RS256", "algorithm"), Check(t.kid # None, "kid") >>

\* Before anything is fetched: structure, header, issuer.
Inspect(t) ==
  << Check(t.form, "malformed"), Check(t.alg = "RS256", "algorithm"),
     Check(t.kid # None, "kid"), Check(t.iss \in Allowed, "issuer") >>

\* first: the caller is unknown, so that a profile will be needed.
Present(c, t, first) ==
  LET a == FirstFailure(Inspect(t)) IN
  /\ At(c, "idle")
  /\ \/ a # "accepted" /\ Reply(c, a)
     \/ /\ a = "accepted"
        /\ Continue(c, [phase |-> "key", chain |-> "cognito", token |-> t, first |-> first,
                        gap |-> t.kid \notin published[t.iss]])
  /\ UNCHANGED <<jwks, account, minted>>

\* Mutant of ClientOf: one client serves every issuer.
SharedClient(i) == CHOOSE k \in Allowed : TRUE

\* The library's client for an issuer, made when first needed.
ClientOf(i) == i

\* The key is found: remembered, and used.
Found(c, client) ==
  /\ jwks' = [jwks EXCEPT ![ClientOf(call[c].token.iss)] =
                [client EXCEPT !.keys = @ \cup {call[c].token.kid}]]
  /\ Goto(c, "decode")

\* Mutant of LookupKey: a fresh set without the key is final.
LookupCached(c) ==
  LET kid == call[c].token.kid
      client == jwks[ClientOf(call[c].token.iss)]
      fresh == now <= client.until
  IN  /\ At(c, "key")
      /\ \/ kid \in client.keys /\ Goto(c, "decode") /\ UNCHANGED jwks
         \/ kid \notin client.keys /\ fresh /\ kid \in client.set /\ Found(c, client)
         \/ kid \notin client.keys /\ ~fresh /\ Goto(c, "fetch") /\ UNCHANGED jwks
         \/ /\ kid \notin client.keys /\ fresh /\ kid \notin client.set
            /\ Reply(c, "unknown") /\ UNCHANGED jwks
      /\ UNCHANGED <<account, minted>>

\* A remembered key, or the cached key set while it is fresh.
LookupKey(c) ==
  LET kid == call[c].token.kid
      client == jwks[ClientOf(call[c].token.iss)]
      fresh == now <= client.until
  IN  /\ At(c, "key")
      /\ \/ kid \in client.keys /\ Goto(c, "decode") /\ UNCHANGED jwks
         \/ kid \notin client.keys /\ fresh /\ kid \in client.set /\ Found(c, client)
         \/ /\ kid \notin client.keys /\ ~fresh
            /\ Goto(c, "fetch") /\ UNCHANGED jwks
         \/ /\ kid \notin client.keys /\ fresh /\ kid \notin client.set
            /\ Goto(c, "refetch") /\ UNCHANGED jwks
      /\ UNCHANGED <<account, minted>>

\* The key set arrives and is cached.
Fetched(c) ==
  [jwks[ClientOf(call[c].token.iss)] EXCEPT !.set = published[ClientOf(call[c].token.iss)],
                                            !.until = now + KeySetTTL]

Store(c, client) == jwks' = [jwks EXCEPT ![ClientOf(call[c].token.iss)] = client]

\* An outage, or a timeout, empties the cache.
Outage(c) ==
  /\ Store(c, [jwks[ClientOf(call[c].token.iss)] EXCEPT !.set = {}, !.until = -1])
  /\ Reply(c, "unavailable")

\* Mutant of Fetch: it is tried until the key appears.
FetchForever(c) ==
  LET client == Fetched(c) IN
  /\ At(c, "fetch") \/ At(c, "refetch")
  /\ \/ call[c].token.kid \in client.set /\ Found(c, client)
     \/ call[c].token.kid \notin client.set /\ Store(c, client) /\ Goto(c, "refetch")
     \/ Outage(c)
  /\ UNCHANGED <<account, minted>>

\* A set without the key is fetched once more; then the key is unknown.
Fetch(c) ==
  LET client == Fetched(c) IN
  /\ At(c, "fetch") \/ At(c, "refetch")
  /\ \/ call[c].token.kid \in client.set /\ Found(c, client)
     \/ /\ call[c].token.kid \notin client.set /\ Store(c, client)
        /\ \/ At(c, "fetch") /\ Goto(c, "refetch")
           \/ At(c, "refetch") /\ Reply(c, "unknown")
     \/ Outage(c)
  /\ UNCHANGED <<account, minted>>

KeyFor(t) == <<ClientOf(t.iss), t.kid>>

\* Signature and time, then the claims.
CognitoChecks(t) ==
  << Check(t.signer = KeyFor(t), "signature"), Check(now < t.exp + Leeway, "expired"),
     Check(t.use = "access", "use"), Check(t.client \in AllowedClient, "client"),
     Check(t.sub # None, "claims") >>

Decode(c) ==
  LET a == FirstFailure(CognitoChecks(call[c].token)) IN
  /\ At(c, "decode")
  /\ \/ a = "accepted" /\ call[c].first /\ Goto(c, "profile")
     \/ ~(a = "accepted" /\ call[c].first) /\ Reply(c, a)
  /\ UNCHANGED <<jwks, account, minted>>
---------------------------------------------------------------------------
(***************************************************************************)
(* The user-info endpoint and the gate of provisioning.                    *)
(***************************************************************************)
\* Mutant of EmailVerified: Google's word is not asked for.
EmailTrusted(a) == a.verified = "true" \/ a.google

\* The pool's own word, or Google's where the pool has not caught up.
EmailVerified(a) == a.verified = "true" \/ a.proof

\* The profile of s, for a token: its own subject, an address, verified.
ProfileChecks(t, s) ==
  << Check(s = t.sub, "profile"), Check(account[s].email, "profile"),
     Check(EmailVerified(account[s]), "profile") >>

\* Whosever profile the endpoint answers with, or an outage.
FetchProfile(c) ==
  /\ At(c, "profile")
  /\ \/ Reply(c, "unavailable")
     \/ \E s \in Subject :
          /\ account[s] # None
          /\ LET a == FirstFailure(ProfileChecks(call[c].token, s)) IN
               Reply(c, IF a = "accepted" THEN "provisioned" ELSE a)
  /\ UNCHANGED <<jwks, account, minted>>
---------------------------------------------------------------------------
(***************************************************************************)
(* JwtTokenIssuer and JwtTokenVerifier.                                    *)
(***************************************************************************)
\* Mutant of Coerce: a role is known by its value alone.
CoerceValues(asked) == {r[2] : r \in asked} \subseteq MembershipRole

\* Roles of organizations only: a role of the application is refused, though
\* "admin" is the value of one of either kind.
Coerce(asked) == \A r \in asked : r[1] = "membership" /\ r[2] \in MembershipRole

Mint(s, role, asked) ==
  /\ Coerce(asked)
  /\ Cardinality(minted) < MaxMinted
  /\ minted' = minted \cup {[token |-> OwnToken(s, role, {r[2] : r \in asked}), asked |-> asked]}
  /\ outcome' = Silence
  /\ UNCHANGED <<jwks, account, call>>

PresentInternal(c, t) ==
  /\ At(c, "idle")
  /\ Continue(c, [NoCall EXCEPT !.phase = "internal", !.chain = "internal", !.token = t])
  /\ UNCHANGED <<jwks, account, minted>>

\* The same stages with the service's key, then the roles.
InternalChecks(t) ==
  << Check(t.form, "malformed"), Check(t.alg = "HS256", "algorithm"),
     Check(t.iss = "service", "issuer"), Check(t.signer = Service, "signature"),
     Check(now < t.exp + Leeway, "expired"), Check(t.client = "service", "client"),
     Check(t.sub # None, "claims"),
     Check(t.role \in ApplicationRole /\ t.roles \subseteq MembershipRole, "roles") >>

VerifyInternal(c) ==
  /\ At(c, "internal")
  /\ Reply(c, FirstFailure(InternalChecks(call[c].token)))
  /\ UNCHANGED <<jwks, account, minted>>

VerifyStep(c) == LookupKey(c) \/ Fetch(c) \/ Decode(c) \/ FetchProfile(c) \/ VerifyInternal(c)

Serve(c) ==
  /\ \/ \E t \in Token \cup Own : PresentInternal(c, t) \/ \E first \in BOOLEAN : Present(c, t, first)
     \/ VerifyStep(c)
  /\ UNCHANGED <<now, published, ever>>
---------------------------------------------------------------------------
(***************************************************************************)
(* The world: the user pool with its triggers, keys that are rotated.      *)
(***************************************************************************)
\* handle_pre_sign_up: an address, and for Google its proof.  The pool is
\* asked to verify a Google address and need not have done so.  An account an
\* administrator makes may come verified.  The trigger does not look at the
\* proof of accounts that are not Google's: that they have none, because only
\* the mapping of Google's claims writes it, is up to the pool (ProofIsGoogles).
SignUp(s, a) ==
  /\ account[s] = None
  /\ a.email /\ (a.google => a.proof)
  /\ ProofIsGoogles => (a.proof => a.google)
  /\ account' = [account EXCEPT ![s] = a]
  /\ UNCHANGED <<published, ever, jwks, minted, call>>

\* A native address is confirmed with a code.
Confirm(s) ==
  /\ account[s] # None /\ ~account[s].google /\ account[s].email
  /\ account' = [account EXCEPT ![s].verified = "true"]
  /\ UNCHANGED <<published, ever, jwks, minted, call>>

\* Every login with Google maps its claims anew, the proof included.
MapClaims(s, proof, email) ==
  /\ account[s] # None /\ account[s].google
  /\ account' = [account EXCEPT ![s].proof = proof, ![s].email = email, ![s].verified = "false"]
  /\ UNCHANGED <<published, ever, jwks, minted, call>>

\* Keys come and go; some key is always there.
Rotate(i, kids) ==
  /\ kids # {} /\ kids # published[i]
  /\ published' = [published EXCEPT ![i] = kids]
  /\ ever' = ever \cup {<<i, k>> : k \in kids}
  /\ call' = [c \in Thread |->
       IF call[c].phase \in {"key", "fetch", "refetch"} /\ call[c].token.iss = i
       THEN [call[c] EXCEPT !.gap = @ \/ call[c].token.kid \notin kids]
       ELSE call[c]]
  /\ UNCHANGED <<jwks, minted, account>>

Around ==
  /\ \/ \E s \in Subject, a \in Account : SignUp(s, a)
     \/ \E s \in Subject : Confirm(s) \/ \E proof, email \in BOOLEAN : MapClaims(s, proof, email)
     \/ \E i \in Issuer, kids \in SUBSET Kid : Rotate(i, kids)
  /\ outcome' = Silence /\ UNCHANGED now

Issue ==
  /\ \E s \in Subject, role \in ApplicationRole :
       \E asked \in SUBSET {<<"membership", "member">>, <<"membership", "admin">>, <<"application", "admin">>} :
         Mint(s, role, asked)
  /\ UNCHANGED <<now, published, ever>>

Tick ==
  /\ now < MaxTime /\ now' = now + 1 /\ outcome' = Silence
  /\ UNCHANGED <<published, ever, jwks, minted, account, call>>

Next == (\E c \in Thread : Serve(c)) \/ Around \/ Issue \/ Tick

\* A verification waits for nothing but its own fetches, which time out.
Verify(c) == VerifyStep(c) /\ UNCHANGED <<now, published, ever>>

Fairness == \A c \in Thread : WF_vars(Verify(c))

Spec == Init /\ [][Next]_vars
FairSpec == Spec /\ Fairness
---------------------------------------------------------------------------
(***************************************************************************)
(* Properties.                                                             *)
(***************************************************************************)
Answers(c, as) == ~At(c, "idle") /\ outcome'[c] \in as

\* A token is accepted, if need be with a profile, which is then asked for.
Accepts(c) ==
  \/ Answers(c, {"accepted"})
  \/ At(c, "decode") /\ call'[c].phase = "profile"

\* An accepted access token names an allowed issuer and client, has not
\* expired (for a first login: when its profile was asked for), and is signed
\* by a key that this very issuer has published under this key id, whatever
\* other issuers call their keys and whoever else fills the caches
\* (CognitoAccessTokenVerifier, CognitoJwksSource).
AcceptedIsGenuine ==
  [][\A c \in Thread : LET t == call[c].token IN
       call[c].chain = "cognito" =>
         /\ Answers(c, {"accepted", "provisioned"}) =>
              /\ t.iss \in Allowed /\ t.client \in AllowedClient /\ t.use = "access"
              /\ t.signer = <<t.iss, t.kid>> /\ t.signer \in ever
         /\ Accepts(c) => now < t.exp + Leeway]_vars

\* A key is called unknown only if its issuer did not publish it at some
\* instant of the call: a key rotated in before is found, however old the
\* cached set is (the second fetch of CognitoJwksSource.signing_key).
UnknownMeansUnpublished ==
  [][\A c \in Thread : Answers(c, {"unknown"}) => call[c].gap]_vars

\* Tokens of the one chain are nothing to the other, and the roles of an
\* accepted token of the service are those of an organization it was asked
\* for, never the application role of the same name (JwtTokenIssuer,
\* JwtTokenVerifier).
OwnRolesWereAsked ==
  [][\A c \in Thread : LET t == call[c].token IN
       Answers(c, {"accepted", "provisioned"}) =>
         IF call[c].chain = "cognito" THEN t \notin Own
         ELSE \E m \in minted : m.token = t /\ m.asked = {"membership"} \X t.roles]_vars

\* A first login is let through to provisioning only with the profile of the
\* token's own subject, whose address the pool has verified or is proven by
\* now, though the proof given at registration may be gone; and the proof is
\* Google's, of a Google account, if the pool lets nobody else write it
\* (CognitoUserInfoClient.fetch, require_provisioning_profile).
ProvisionedIsVerified ==
  [][\A c \in Thread : Answers(c, {"provisioned"}) =>
       LET a == account[call[c].token.sub] IN
         /\ a # None /\ a.email
         /\ a.verified = "true" \/ (a.proof /\ (ProofIsGoogles => a.google))]_vars

\* Every verification is answered, also while keys rotate and endpoints fail.
VerificationEnds == \A c \in Thread : ~At(c, "idle") ~> At(c, "idle")
============================================================================
