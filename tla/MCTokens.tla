------------------------------- MODULE MCTokens -------------------------------
(***************************************************************************)
(* Tokens with two allowed issuers whose keys share a key id, a third      *)
(* issuer nobody allows, and two verifications side by side.               *)
(***************************************************************************)
EXTENDS Tokens, TLC

CONSTANTS i1, i2, i3, k1, k2, app, other, u1, u2

Good ==
  [form |-> TRUE, alg |-> "RS256", kid |-> k1, iss |-> i1, signer |-> <<i1, k1>>, use |-> "access",
   client |-> app, sub |-> u1, exp |-> 1, role |-> "user", roles |-> {}]

\* Signed with the issuer's next key; by another issuer's key of the same id;
\* with several defects at once; refused before a key is looked for.
MCToken ==
  { Good,
    [Good EXCEPT !.kid = k2, !.signer = <<i1, k2>>],
    [Good EXCEPT !.iss = i2],
    [Good EXCEPT !.use = "id", !.client = other, !.exp = 0],
    [Good EXCEPT !.iss = i3, !.signer = <<i3, k1>>],
    [Good EXCEPT !.alg = "HS256", !.signer = None, !.iss = "service", !.client = "service",
                 !.role = "admin"],
    [Good EXCEPT !.kid = None],
    [Good EXCEPT !.form = FALSE] }

MCPublished == [i \in {i1, i2, i3} |-> {k1}]

Idle(c) == call[c].phase = "idle"
First(c) == call[c].first

\* A call refused before a key is looked for has changed nothing and is over
\* with its answer: what follows is what follows without it.
Effective == \A c \in Thread : outcome[c] \notin {"malformed", "algorithm", "kid", "issuer"}

\* One concern at a time: keys that rotate under two verifications, or
\* accounts that change under one, or tokens of the service.
Bounded ==
  /\ Effective
  /\ \A i \in {i2, i3} : published[i] = {k1}
  /\ \/ published = Published
     \/ jwks[i2] = NoJwks /\ \A c \in Thread : Idle(c) \/ call[c].token.iss # i2
  /\ \A c, d \in Thread : First(c) /\ d # c => Idle(d)
  /\ account[u2] \in {None, [google |-> FALSE, email |-> TRUE, verified |-> "false", proof |-> FALSE]}
  /\ account[u2] # None => account[u1] # None
  /\ \/ \A s \in Subject : account[s] = None /\ \A c \in Thread : ~First(c)
     \/ /\ minted = {} /\ published = Published /\ now = 0
        /\ jwks[i2] = NoJwks
        /\ Cardinality({c \in Thread : ~Idle(c)}) <= 1
        /\ \A c \in Thread : Idle(c) \/ First(c)
  /\ \A m \in minted : m.token.sub = u1
  /\ \/ Idle(2)
     \/ call[2].token.kid = k2 /\ (Idle(1) \/ call[1].token.use = "access")
  /\ \/ minted = {}
     \/ published = Published /\ jwks = [i \in Issuer |-> NoJwks]
  /\ \/ \A c \in Thread : call[c].chain = "cognito"
     \/ Idle(2) /\ published = Published /\ jwks = [i \in Issuer |-> NoJwks]
==============================================================================
