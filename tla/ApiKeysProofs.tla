--------------------------- MODULE ApiKeysProofs ---------------------------
(***************************************************************************)
(* Proofs about the life of API keys, for any users, organizations, keys   *)
(* and number of concurrent calls, on both storage adapters.               *)
(***************************************************************************)
EXTENDS ApiKeys, TLAPS

\* What a call knows at each of its phases, whatever other calls do.
Knows(c) ==
  LET r == request[c]
      mine(k) == keyStatus[k] # "absent" /\ keyOrg[k] = r.org
  IN /\ phase[c] \in {"organization", "deny"} => r \in HumanRequest \cup KeyRequest
     /\ phase[c] \in {"membership", "act", "cas", "audit"} => r \in HumanRequest
     /\ phase[c] \in {"verify", "key"} => r \in KeyRequest
     /\ phase[c] \in {"owner", "suspend", "scan", "sweep"} => r \in AdminRequest
     /\ phase[c] = "cas" => mine(r.key)
     /\ (phase[c] \in {"organization", "key"} /\ r \in KeyRequest) => r.key \in current[c]
     /\ (phase[c] = "key" /\ seenStatus[c] = "active") => held[c].active
     /\ phase[c] \in {"scan", "sweep"} => adapter = "dynamodb" /\ \A k \in owed[c] : mine(k)
     /\ phase[c] = "sweep" => \A k \in sweep[c] : mine(k)
     /\ phase[c] = "sweep" => \A k \in owed[c] \ sweep[c] : keyStatus[k] = "revoked"

\* The inductive invariant.
IInv == TypeOK /\ \A c \in Call : Knows(c)

\* What a step may do to the keys: no key becomes absent, changes its
\* organization, or comes back from revocation.
KeysAge ==
  \A k \in Key :
    /\ keyStatus[k] # "absent" => keyStatus'[k] # "absent" /\ keyOrg'[k] = keyOrg[k]
    /\ keyStatus[k] = "revoked" => keyStatus'[k] = "revoked" /\ revokedBy'[k] = revokedBy[k]

\* A step of call c leaves the other calls where they are.
Frame(c) ==
  \A d \in Call \ {c} :
    /\ phase'[d] = phase[d] /\ request'[d] = request[d] /\ seenStatus'[d] = seenStatus[d]
    /\ answer'[d] = answer[d] /\ sweep'[d] = sweep[d] /\ owed'[d] = owed[d]

\* The conjuncts of Next every step has.
History == Observe /\ ObserveKeys /\ UNCHANGED adapter

\* All that has to be shown of a step of call c.
Local(c) == TypeOK' /\ KeysAge /\ Frame(c) /\ Knows(c)'
---------------------------------------------------------------------------
\* What a request is made of.
LEMMA RequestFields ==
  /\ \A r \in HumanRequest :
       r.op \in {"create", "revoke"} /\ r.actor \in User /\ r.org \in Organization /\ r.key \in Key
  /\ \A r \in KeyRequest :
       r.op \in {"use", "misuse", "manage"} /\ r.org \in Organization /\ r.key \in Key
  /\ \A r \in AdminRequest : r.op = "suspend" /\ r.actor \in User /\ r.org \in Organization
  BY DEF HumanRequest, KeyRequest, AdminRequest

\* The history variables keep their types in every step.
LEMMA HistoryKeepsType ==
  ASSUME TypeOK, History
  PROVE  /\ held' \in [Call -> [admin : BOOLEAN, active : BOOLEAN]]
         /\ current' \in [Call -> SUBSET Key]
<1>1. \A c \in Call : held[c] \in [admin : BOOLEAN, active : BOOLEAN] /\ current[c] \subseteq Key
  BY DEF TypeOK, AccessTypeOK
<1>2. \A c \in Call : \A o, r : (held[c].active \/ orgStatus'[o] = "active") \in BOOLEAN
                               /\ (held[c].admin \/ IsAdministrator(r, o)) \in BOOLEAN
  BY <1>1 DEF IsAdministrator
<1>3. held' \in [Call -> [admin : BOOLEAN, active : BOOLEAN]]
  BY <1>1, <1>2 DEF History, Observe, IsAdministrator
<1>4. current' \in [Call -> SUBSET Key]
  BY <1>1 DEF History, ObserveKeys
<1>5. QED
  BY <1>3, <1>4

\* What was true at some instant of a call stays so until the call ends.
LEMMA HistoryGrows ==
  ASSUME History, NEW d \in Call, phase'[d] # "idle"
  PROVE  /\ held[d].active => held'[d].active
         /\ orgStatus'[request'[d].org] = "active" => held'[d].active
         /\ current[d] \subseteq current'[d]
         /\ \A k \in Key : keyStatus'[k] = "active" => k \in current'[d]
  BY DEF History, Observe, ObserveKeys

\* A call that does not move keeps what it knows: keys only age.
LEMMA OthersKeep ==
  ASSUME IInv, History, KeysAge, NEW d \in Call,
         phase'[d] = phase[d], request'[d] = request[d], seenStatus'[d] = seenStatus[d],
         sweep'[d] = sweep[d], owed'[d] = owed[d]
  PROVE  Knows(d)'
<1> USE DEF IInv, Knows
<1>1. CASE phase[d] = "idle"
  BY <1>1
<1>2. CASE phase[d] # "idle"
  <2>1. sweep[d] \subseteq Key /\ owed[d] \subseteq Key
    BY DEF TypeOK
  <2>2. \A r \in HumanRequest \cup KeyRequest : r.key \in Key
    BY RequestFields
  <2>3. /\ held[d].active => held'[d].active
        /\ current[d] \subseteq current'[d]
    BY <1>2, HistoryGrows
  <2>4. phase[d] = "cas" => request[d].key \in Key
    BY <2>2
  <2>5. QED
    BY <2>1, <2>3, <2>4 DEF KeysAge, History
<1>3. QED
  BY <1>1, <1>2

\* So the invariant survives a step that is local to one call.
LEMMA LocalKeepsInv ==
  ASSUME IInv, History, NEW c \in Call, Local(c)
  PROVE  IInv'
<1>1. ASSUME NEW d \in Call \ {c} PROVE Knows(d)'
  BY OthersKeep DEF Local, Frame
<1>2. QED
  BY <1>1 DEF Local, IInv
---------------------------------------------------------------------------
\* A call that ends without a write.
LEMMA EndIsLocal ==
  ASSUME IInv, History, NEW c \in Call, NEW a \in Answer, End(c, a),
         UNCHANGED <<orgStatus, member, keyStatus, keyOrg, revokedBy>>
  PROVE  Local(c)
<1> USE DEF IInv, TypeOK, AccessTypeOK, End, Finish
<1>1. TypeOK'
  BY HistoryKeepsType DEF Phase, Status, History
<1>2. KeysAge /\ Frame(c)
  BY DEF KeysAge, Frame
<1>3. phase'[c] = "idle"
  OBVIOUS
<1>4. Knows(c)'
  BY <1>3 DEF Knows
<1>5. QED
  BY <1>1, <1>2, <1>4 DEF Local

\* A call that moves on without a write, having read what it may.
LEMMA MoveIsLocal ==
  ASSUME IInv, History, NEW c \in Call, NEW from \in Phase, NEW to \in Phase,
         Goto(c, from, to), Knows(c)',
         UNCHANGED <<orgStatus, member, keyStatus, keyOrg, revokedBy>>,
         request' \in [Call -> Request \cup {NoRequest}],
         seenStatus' \in [Call -> Status], answer' \in [Call -> Answer],
         sweep' \in [Call -> SUBSET Key], owed' \in [Call -> SUBSET Key],
         \A d \in Call \ {c} :
           /\ request'[d] = request[d] /\ seenStatus'[d] = seenStatus[d] /\ answer'[d] = answer[d]
           /\ sweep'[d] = sweep[d] /\ owed'[d] = owed[d]
  PROVE  Local(c)
<1> USE DEF IInv, TypeOK, AccessTypeOK, Goto
<1>1. TypeOK'
  BY HistoryKeepsType DEF History
<1>2. KeysAge /\ Frame(c)
  BY DEF KeysAge, Frame
<1>3. QED
  BY <1>1, <1>2 DEF Local

\* Revoking active keys only makes them older.
LEMMA RevokeAges ==
  ASSUME TypeOK, NEW c \in Call, NEW ks, Revoke(ks, c),
         \A k \in ks : k \in Key => keyStatus[k] = "active"
  PROVE  /\ KeysAge
         /\ keyStatus' \in [Key -> {"absent", "active", "revoked"}]
         /\ keyOrg' \in [Key -> Organization]
         /\ revokedBy' \in [Key -> Call \cup {NoCall}]
         /\ \A k \in Key : k \in ks => keyStatus'[k] = "revoked"
  BY DEF TypeOK, Revoke, KeysAge
---------------------------------------------------------------------------
\* Beginning a call, of whichever kind.
LEMMA BeginIsLocal ==
  ASSUME IInv, History, NEW c \in Call, NEW r \in Request,
         AskHuman(c, r) \/ Present(c, r) \/ AskSuspension(c, r)
  PROVE  Local(c)
<1>1. PICK first \in {"organization", "verify", "owner"} :
        /\ Begin(c, first, r)
        /\ first = "organization" => r \in HumanRequest
        /\ first = "verify" => r \in KeyRequest
        /\ first = "owner" => r \in AdminRequest
  BY DEF AskHuman, Present, AskSuspension
<1> USE DEF IInv, TypeOK, AccessTypeOK
<1>2. /\ UNCHANGED <<keyStatus, keyOrg, revokedBy, orgStatus, member, sweep, owed, seenStatus>>
      /\ Goto(c, "idle", first)
      /\ phase'[c] = first /\ request'[c] = r
      /\ request' \in [Call -> Request \cup {NoRequest}]
      /\ answer' \in [Call -> Answer]
      /\ \A d \in Call \ {c} : request'[d] = request[d] /\ answer'[d] = answer[d]
  BY <1>1 DEF Begin, Goto, Answer, AskHuman, Present, AskSuspension, keys
<1>3. r \in HumanRequest => r \notin KeyRequest
  BY RequestFields
<1>4. Knows(c)'
  BY <1>1, <1>2, <1>3 DEF Knows
<1>5. "idle" \in Phase /\ first \in Phase
  BY DEF Phase
<1>6. QED
  BY <1>2, <1>4, <1>5, MoveIsLocal

\* The access decision of the human routes.
LEMMA AuthorizeIsLocal ==
  ASSUME IInv, History, NEW c \in Call, Authorize(c)
  PROVE  Local(c)
<1> USE DEF IInv, TypeOK, AccessTypeOK
<1>1. CASE /\ phase[c] = "organization" /\ request[c].op \in {"create", "revoke"}
           /\ FetchOrganization(c, "membership")
  <2>1. request[c] \in HumanRequest /\ request[c].org \in Organization
    BY <1>1, RequestFields DEF Knows
  <2>2. orgStatus[request[c].org] \in Status
    BY <1>1, <2>1 DEF FetchOrganization, Known
  <2>3. /\ Goto(c, "organization", "membership") /\ phase'[c] = "membership"
        /\ UNCHANGED <<orgStatus, member, request, answer, keyStatus, keyOrg, revokedBy, sweep, owed>>
        /\ seenStatus' \in [Call -> Status]
        /\ \A d \in Call \ {c} : seenStatus'[d] = seenStatus[d]
    BY <1>1, <2>1, <2>2 DEF FetchOrganization, Goto, Authorize, keys
  <2>4. Knows(c)'
    BY <2>1, <2>3 DEF Knows
  <2>5. "organization" \in Phase /\ "membership" \in Phase
    BY DEF Phase
  <2>6. QED
    BY <2>3, <2>4, <2>5, MoveIsLocal
<1>2. CASE CheckMembership(c)
  <2>1. PICK to \in {"act", "deny"} : Goto(c, "membership", to)
    BY <1>2 DEF CheckMembership
  <2>2. UNCHANGED <<orgStatus, member, request, seenStatus, answer, keyStatus, keyOrg, revokedBy,
                    sweep, owed>>
    BY <1>2 DEF CheckMembership, Authorize, keys
  <2>3. Knows(c)'
    BY <2>1, <2>2 DEF Knows, Goto
  <2>4. "membership" \in Phase /\ to \in Phase
    BY DEF Phase
  <2>5. QED
    BY <2>1, <2>2, <2>3, <2>4, MoveIsLocal
<1>3. QED
  BY <1>1, <1>2 DEF Authorize

\* Steps that do nothing but end a call.
LEMMA FinalStepIsLocal ==
  ASSUME IInv, History, NEW c \in Call,
         \/ RefuseUnknown(c) \/ SuspendUnknown(c) \/ Deny(c)
         \/ AppendAudit(c) \/ SweepDone(c) \/ Fail(c)
  PROVE  Local(c)
<1>1. PICK a \in Answer : End(c, a)
  BY DEF RefuseUnknown, SuspendUnknown, Deny, AppendAudit, SweepDone, Fail, Answer
<1>2. UNCHANGED <<orgStatus, member, keyStatus, keyOrg, revokedBy>>
  BY DEF RefuseUnknown, SuspendUnknown, Deny, AppendAudit, SweepDone, Fail, store, keys
<1>3. QED
  BY <1>1, <1>2, EndIsLocal

\* Creation fills an absent key.
LEMMA CreateIsLocal ==
  ASSUME IInv, History, NEW c \in Call, CreateKey(c)
  PROVE  Local(c)
<1> USE DEF IInv, TypeOK, AccessTypeOK
<1>1. CASE End(c, "conflict") /\ UNCHANGED keys
  BY <1>1, EndIsLocal DEF CreateKey, store, keys, Answer
<1>2. CASE /\ keyStatus[request[c].key] = "absent"
           /\ Goto(c, "act", "audit")
           /\ keyStatus' = [keyStatus EXCEPT ![request[c].key] = "active"]
           /\ keyOrg' = [keyOrg EXCEPT ![request[c].key] = request[c].org]
           /\ UNCHANGED <<revokedBy, progress, sweep, owed>>
  <2>1. request[c] \in HumanRequest /\ request[c].org \in Organization /\ request[c].key \in Key
    BY <1>2, RequestFields DEF Knows, Goto
  <2>2. TypeOK'
    BY <1>2, <2>1, HistoryKeepsType DEF CreateKey, Goto, store, progress, Phase, History
  <2>3. KeysAge /\ Frame(c)
    BY <1>2, <2>1 DEF KeysAge, Frame, Goto, progress
  <2>4. Knows(c)'
    BY <1>2, <2>1 DEF Knows, Goto, progress
  <2>5. QED
    BY <2>2, <2>3, <2>4 DEF Local
<1>3. QED
  BY <1>1, <1>2 DEF CreateKey

\* The lookup lets only keys of the caller's organization through.
LEMMA LookupIsLocal ==
  ASSUME IInv, History, NEW c \in Call, LookupKey(c)
  PROVE  Local(c)
<1> USE DEF IInv, TypeOK, AccessTypeOK
<1>1. CASE End(c, "not_found")
  BY <1>1, EndIsLocal DEF LookupKey, store, keys, Answer
<1>2. CASE /\ keyStatus[request[c].key] # "absent" /\ keyOrg[request[c].key] = request[c].org
           /\ Goto(c, "act", "cas") /\ UNCHANGED <<progress, sweep, owed>>
  <2>1. Knows(c)'
    BY <1>2 DEF LookupKey, Knows, Goto, progress, keys
  <2>2. "act" \in Phase /\ "cas" \in Phase
    BY DEF Phase
  <2>3. QED
    BY <1>2, <2>1, <2>2, MoveIsLocal DEF LookupKey, store, keys, progress
<1>3. QED
  BY <1>1, <1>2 DEF LookupKey

\* The conditional update revokes the key if it is still active.
LEMMA RevokeIsLocal ==
  ASSUME IInv, History, NEW c \in Call, RevokeKey(c)
  PROVE  Local(c)
<1> USE DEF IInv, TypeOK, AccessTypeOK
<1>1. /\ KeysAge
      /\ keyStatus' \in [Key -> {"absent", "active", "revoked"}]
      /\ keyOrg' \in [Key -> Organization]
      /\ revokedBy' \in [Key -> Call \cup {NoCall}]
  BY RevokeAges DEF RevokeKey
<1>2. TypeOK'
  BY <1>1, HistoryKeepsType DEF RevokeKey, Goto, store, progress, Phase, History
<1>3. Frame(c)
  BY DEF RevokeKey, Frame, Goto, progress
<1>4. Knows(c)'
  BY DEF RevokeKey, Knows, Goto, progress
<1>5. QED
  BY <1>1, <1>2, <1>3, <1>4 DEF Local
---------------------------------------------------------------------------
\* Verification lets only keys through that are active at that instant.
LEMMA VerifyIsLocal ==
  ASSUME IInv, History, NEW c \in Call, VerifyKey(c)
  PROVE  Local(c)
<1> USE DEF IInv, TypeOK, AccessTypeOK
<1>1. CASE End(c, "unauthorized")
  BY <1>1, EndIsLocal DEF VerifyKey, store, keys, Answer
<1>2. CASE /\ keyStatus[request[c].key] = "active"
           /\ Goto(c, "verify", "organization") /\ UNCHANGED <<progress, sweep, owed>>
  <2>1. request[c] \in KeyRequest /\ request[c].key \in Key /\ UNCHANGED <<keyStatus, request>>
    BY <1>2, RequestFields DEF VerifyKey, Knows, Goto, progress, keys
  <2>2. phase'[c] = "organization"
    BY <1>2 DEF Goto
  <2>3. request[c].key \in current'[c]
    BY <1>2, <2>1, <2>2, HistoryGrows
  <2>4. Knows(c)'
    BY <2>1, <2>2, <2>3 DEF Knows
  <2>5. "verify" \in Phase /\ "organization" \in Phase
    BY DEF Phase
  <2>6. QED
    BY <1>2, <2>4, <2>5, MoveIsLocal DEF VerifyKey, store, keys, progress
<1>3. QED
  BY <1>1, <1>2 DEF VerifyKey

\* The organization a key is presented for is read once.
LEMMA FetchIsLocal ==
  ASSUME IInv, History, NEW c \in Call, FetchKeyOrganization(c)
  PROVE  Local(c)
<1> USE DEF IInv, TypeOK, AccessTypeOK
<1>1. request[c] \in KeyRequest /\ request[c].org \in Organization /\ request[c].key \in current[c]
  BY RequestFields DEF FetchKeyOrganization, Knows
<1>s. orgStatus[request[c].org] \in Status
  BY <1>1 DEF FetchKeyOrganization, FetchOrganization, Known
<1>2. /\ Goto(c, "organization", "key") /\ phase'[c] = "key"
      /\ UNCHANGED <<orgStatus, member, request, answer, keyStatus, keyOrg, revokedBy, sweep, owed>>
      /\ seenStatus' \in [Call -> Status]
      /\ seenStatus'[c] = orgStatus'[request'[c].org]
      /\ \A d \in Call \ {c} : seenStatus'[d] = seenStatus[d]
  BY <1>1, <1>s DEF FetchKeyOrganization, FetchOrganization, Goto, keys
<1>3. request[c].key \in current'[c] /\ (seenStatus'[c] = "active" => held'[c].active)
  BY <1>1, <1>2, HistoryGrows
<1>4. Knows(c)'
  BY <1>1, <1>2, <1>3 DEF Knows
<1>5. "organization" \in Phase /\ "key" \in Phase
  BY DEF Phase
<1>6. QED
  BY <1>2, <1>4, <1>5, MoveIsLocal

\* The last decision on a presented key ends the call or goes to the denial.
LEMMA CheckIsLocal ==
  ASSUME IInv, History, NEW c \in Call, CheckKey(c)
  PROVE  Local(c)
<1> USE DEF IInv, TypeOK, AccessTypeOK
<1>1. CASE End(c, "accepted")
  BY <1>1, EndIsLocal DEF CheckKey, store, keys, Answer
<1>2. CASE Goto(c, "key", "deny") /\ UNCHANGED <<progress, sweep, owed>>
  <2>1. Knows(c)'
    BY <1>2 DEF Knows, Goto, progress
  <2>2. "key" \in Phase /\ "deny" \in Phase
    BY DEF Phase
  <2>3. QED
    BY <1>2, <2>1, <2>2, MoveIsLocal DEF CheckKey, store, keys, progress
<1>3. QED
  BY <1>1, <1>2 DEF CheckKey
---------------------------------------------------------------------------
\* The owner check of a suspension.
LEMMA OwnerCheckIsLocal ==
  ASSUME IInv, History, NEW c \in Call, RefuseOwner(c)
  PROVE  Local(c)
<1> USE DEF IInv, TypeOK, AccessTypeOK
<1>1. CASE End(c, "conflict")
  BY <1>1, EndIsLocal DEF RefuseOwner, store, keys, Answer
<1>2. CASE Goto(c, "owner", "suspend") /\ UNCHANGED <<progress, sweep, owed>>
  <2>1. Knows(c)'
    BY <1>2 DEF Knows, Goto, progress
  <2>2. "owner" \in Phase /\ "suspend" \in Phase
    BY DEF Phase
  <2>3. QED
    BY <1>2, <2>1, <2>2, MoveIsLocal DEF RefuseOwner, store, keys, progress
<1>3. QED
  BY <1>1, <1>2 DEF RefuseOwner

\* The suspension of SQLite.
LEMMA SuspendIsLocal ==
  ASSUME IInv, History, NEW c \in Call, SuspendAtOnce(c)
  PROVE  Local(c)
<1> USE DEF IInv, TypeOK, AccessTypeOK
<1>1. /\ KeysAge
      /\ keyStatus' \in [Key -> {"absent", "active", "revoked"}]
      /\ keyOrg' \in [Key -> Organization]
      /\ revokedBy' \in [Key -> Call \cup {NoCall}]
  BY RevokeAges DEF SuspendAtOnce, ActiveKeys
<1>2. orgStatus' \in [Organization -> Status \cup {"absent"}]
  BY DEF SuspendAtOnce, Status
<1>3. TypeOK'
  BY <1>1, <1>2, HistoryKeepsType DEF SuspendAtOnce, End, Finish, Phase, Status, Answer, History
<1>4. Frame(c)
  BY DEF SuspendAtOnce, Frame, End, Finish
<1>5. phase'[c] = "idle"
  BY DEF SuspendAtOnce, End, Finish
<1>6. Knows(c)'
  BY <1>5 DEF Knows
<1>7. QED
  BY <1>1, <1>3, <1>4, <1>6 DEF Local

\* The suspension of DynamoDB, first write: what it owes from now on are keys
\* of its organization.
LEMMA DisableIsLocal ==
  ASSUME IInv, History, NEW c \in Call, DisableOrganization(c)
  PROVE  Local(c)
<1> USE DEF IInv, TypeOK, AccessTypeOK
<1>1. orgStatus' \in [Organization -> Status \cup {"absent"}] /\ owed' \in [Call -> SUBSET Key]
  BY DEF DisableOrganization, Status, ActiveKeys
<1>2. UNCHANGED <<member, keyStatus, keyOrg, revokedBy, request, seenStatus, answer, sweep>>
  BY DEF DisableOrganization, keys, progress
<1>3. phase' \in [Call -> Phase] /\ phase[c] = "suspend" /\ phase'[c] = "scan"
  BY DEF DisableOrganization, Goto, Phase
<1>4. TypeOK'
  BY <1>1, <1>2, <1>3, HistoryKeepsType DEF History
<1>5. KeysAge /\ Frame(c)
  BY <1>2 DEF DisableOrganization, Goto, KeysAge, Frame
<1>6. owed'[c] = ActiveKeys(request[c].org) /\ adapter' = "dynamodb"
  BY DEF DisableOrganization, History
<1>7. Knows(c)'
  BY <1>2, <1>3, <1>6 DEF Knows, ActiveKeys
<1>8. QED
  BY <1>4, <1>5, <1>7 DEF Local

\* The scan finds every key still owed that is still active.
LEMMA ScanIsLocal ==
  ASSUME IInv, History, NEW c \in Call, ScanKeys(c)
  PROVE  Local(c)
<1> USE DEF IInv, TypeOK, AccessTypeOK
<1>1. /\ Goto(c, "scan", "sweep") /\ phase[c] = "scan" /\ phase'[c] = "sweep"
      /\ UNCHANGED <<orgStatus, member, keyStatus, keyOrg, revokedBy, request, seenStatus, answer, owed, adapter>>
      /\ sweep' \in [Call -> SUBSET Key]
      /\ sweep'[c] = ActiveKeys(request[c].org)
      /\ \A d \in Call \ {c} : sweep'[d] = sweep[d]
  BY DEF ScanKeys, Goto, store, keys, progress, ActiveKeys, History
<1>2. \A k \in owed[c] \ sweep'[c] : keyStatus[k] = "revoked"
  BY <1>1 DEF Knows, ActiveKeys
<1>3. Knows(c)'
  BY <1>1, <1>2 DEF Knows, ActiveKeys
<1>4. "scan" \in Phase /\ "sweep" \in Phase
  BY DEF Phase
<1>5. QED
  BY <1>1, <1>3, <1>4, MoveIsLocal

\* The sweep pays for one key at a time.
LEMMA SweepIsLocal ==
  ASSUME IInv, History, NEW c \in Call, NEW k \in Key, SweepKey(c, k)
  PROVE  Local(c)
<1> USE DEF IInv, TypeOK, AccessTypeOK
<1>1. /\ KeysAge
      /\ keyStatus' \in [Key -> {"absent", "active", "revoked"}]
      /\ keyOrg' \in [Key -> Organization]
      /\ revokedBy' \in [Key -> Call \cup {NoCall}]
      /\ keyStatus[k] = "active" => keyStatus'[k] = "revoked"
  BY RevokeAges DEF SweepKey
<1>2. /\ UNCHANGED <<orgStatus, member, phase, request, seenStatus, answer, owed, adapter>>
      /\ sweep' \in [Call -> SUBSET Key] /\ sweep'[c] = sweep[c] \ {k}
      /\ phase[c] = "sweep"
  BY DEF SweepKey, store, progress, History
<1>3. TypeOK'
  BY <1>1, <1>2, HistoryKeepsType
<1>4. Frame(c)
  BY DEF SweepKey, Frame, progress
<1>5. k \in sweep[c] /\ keyStatus[k] # "absent"
  BY <1>2 DEF SweepKey, Knows
<1>6. keyStatus'[k] = "revoked"
  BY <1>1, <1>5 DEF KeysAge
<1>7. Knows(c)'
  BY <1>1, <1>2, <1>6 DEF Knows, KeysAge
<1>8. QED
  BY <1>1, <1>3, <1>4, <1>7 DEF Local
---------------------------------------------------------------------------
\* What happens outside the calls touches neither calls nor keys.
Environment ==
  \/ \E o \in Organization : Reactivate(o)
  \/ \E o \in Organization, u \in User, role \in {"none", "admin"} : ChangeRole(o, u, role)

LEMMA EnvironmentKeepsInv ==
  ASSUME IInv, History, Environment
  PROVE  IInv' /\ KeysAge /\ UNCHANGED <<keyStatus, keyOrg, revokedBy, request, answer>>
<1>t. /\ orgStatus \in [Organization -> Status \cup {"absent"}]
      /\ member \in [Organization -> [User -> Role \cup {"none"}]]
  BY DEF IInv, TypeOK, AccessTypeOK
<1>r. ASSUME NEW o \in Organization, Reactivate(o)
      PROVE  /\ UNCHANGED <<keyStatus, keyOrg, revokedBy, phase, request, seenStatus, answer, sweep, owed>>
             /\ orgStatus' \in [Organization -> Status \cup {"absent"}]
             /\ member' \in [Organization -> [User -> Role \cup {"none"}]]
  BY <1>t, <1>r DEF Reactivate, SetStatus, keys, Status
<1>c. ASSUME NEW o \in Organization, NEW u \in User, NEW role \in {"none", "admin"}, ChangeRole(o, u, role)
      PROVE  /\ UNCHANGED <<keyStatus, keyOrg, revokedBy, phase, request, seenStatus, answer, sweep, owed>>
             /\ orgStatus' \in [Organization -> Status \cup {"absent"}]
             /\ member' \in [Organization -> [User -> Role \cup {"none"}]]
  <2>1. UNCHANGED <<keyStatus, keyOrg, revokedBy, phase, request, seenStatus, answer, sweep, owed, orgStatus>>
    BY <1>c DEF ChangeRole, keys, progress
  <2>2. [member[o] EXCEPT ![u] = role] \in [User -> Role \cup {"none"}]
    BY <1>t DEF Role
  <2>3. member' = [member EXCEPT ![o] = [member[o] EXCEPT ![u] = role]]
    BY <1>c DEF ChangeRole
  <2>4. QED
    BY <1>t, <2>1, <2>2, <2>3
<1>1. /\ UNCHANGED <<keyStatus, keyOrg, revokedBy, phase, request, seenStatus, answer, sweep, owed>>
      /\ orgStatus' \in [Organization -> Status \cup {"absent"}]
      /\ member' \in [Organization -> [User -> Role \cup {"none"}]]
  BY <1>r, <1>c DEF Environment
<1>2. TypeOK'
  BY <1>1, HistoryKeepsType DEF IInv, TypeOK, AccessTypeOK, History
<1>3. KeysAge
  BY <1>1 DEF KeysAge
<1>4. ASSUME NEW d \in Call PROVE Knows(d)'
  BY <1>1, <1>3, OthersKeep
<1>5. QED
  BY <1>1, <1>2, <1>3, <1>4 DEF IInv

Asks(c) == \E r \in Request : AskHuman(c, r) \/ Present(c, r) \/ AskSuspension(c, r)

\* Next, regrouped by actor.
LEMMA NextIsStep == Next => History /\ (Environment \/ \E c \in Call : Asks(c) \/ CallStep(c))
  BY DEF Next, History, Environment, Asks

\* Every step of a call is local to it.
LEMMA StepIsLocal ==
  ASSUME IInv, History, NEW c \in Call, Asks(c) \/ CallStep(c)
  PROVE  Local(c)
  BY BeginIsLocal, AuthorizeIsLocal, FinalStepIsLocal, CreateIsLocal, LookupIsLocal,
     RevokeIsLocal, VerifyIsLocal, FetchIsLocal, CheckIsLocal, OwnerCheckIsLocal,
     SuspendIsLocal, DisableIsLocal, ScanIsLocal, SweepIsLocal DEF Asks, CallStep

\* Initially every slot is idle.
LEMMA InvInit == Init => IInv
<1> SUFFICES ASSUME Init PROVE IInv
  OBVIOUS
<1>1. TypeOK
  BY DEF Init, AccessInit, TypeOK, AccessTypeOK, Phase, Answer, Status
<1>2. \A c \in Call : Knows(c)
  BY DEF Init, AccessInit, Knows
<1>3. QED
  BY <1>1, <1>2 DEF IInv

\* Every step keeps the invariant, and the keys only age.
LEMMA NextKeepsInv == IInv /\ [Next]_vars => IInv' /\ KeysAge
<1> SUFFICES ASSUME IInv, [Next]_vars PROVE IInv' /\ KeysAge
  OBVIOUS
<1>1. CASE Next
  <2>1. CASE Environment
    BY <1>1, <2>1, NextIsStep, EnvironmentKeepsInv
  <2>2. ASSUME NEW c \in Call, Asks(c) \/ CallStep(c) PROVE IInv' /\ KeysAge
    <3>1. Local(c)
      BY <1>1, <2>2, NextIsStep, StepIsLocal
    <3>2. QED
      BY <1>1, <3>1, NextIsStep, LocalKeepsInv DEF Local
  <2>3. QED
    BY <1>1, <2>1, <2>2, NextIsStep
<1>2. CASE UNCHANGED vars
  BY <1>2 DEF vars, accessVars, keys, IInv, TypeOK, AccessTypeOK, Knows, KeysAge
<1>3. QED
  BY <1>1, <1>2

\* The inductive invariant holds in every reachable state.
THEOREM Invariance == Spec => []IInv
<1>1. IInv /\ [Next]_vars => IInv'
  BY NextKeepsInv
<1>2. QED
  BY <1>1, InvInit, PTL DEF Spec

\* The type invariant of the API-key life cycle.
THEOREM TypeCorrect == Spec => []TypeOK
<1>1. IInv => TypeOK
  BY DEF IInv
<1>2. QED
  BY <1>1, Invariance, PTL

\* A revoked key stays revoked, with the revoked_at of its first revocation,
\* whatever calls, suspensions and reactivations race.
THEOREM RevocationIsForever == Spec => RevocationIsFinal
<1>1. IInv /\ [Next]_vars =>
        [\A k \in Key :
           keyStatus[k] = "revoked" => keyStatus'[k] = "revoked" /\ revokedBy'[k] = revokedBy[k]]_vars
  BY NextKeepsInv DEF KeysAge
<1>2. QED
  BY <1>1, Invariance, PTL DEF Spec, RevocationIsFinal
---------------------------------------------------------------------------
\* A call revokes only keys of the organization it is about: the tenancy check
\* precedes the update, but a key never changes its organization.
LEMMA StepRevokesOwn ==
  ASSUME IInv, [Next]_vars, NEW k \in Key, NEW c \in Call,
         revokedBy[k] # c, revokedBy'[k] = c
  PROVE  request[c].org = keyOrg[k]
<1> USE DEF IInv, TypeOK, AccessTypeOK
<1>1. ASSUME NEW d \in Call, CallStep(d), revokedBy'[k] # revokedBy[k]
      PROVE  /\ d = c
             /\ \/ RevokeKey(d) \/ SuspendAtOnce(d) \/ (\E j \in Key : SweepKey(d, j))
  BY <1>1 DEF CallStep, Authorize, FetchOrganization, CheckMembership, RefuseUnknown, Deny, CreateKey,
     LookupKey, RevokeKey, AppendAudit, VerifyKey, FetchKeyOrganization, CheckKey, RefuseOwner,
     SuspendUnknown, SuspendAtOnce, DisableOrganization, ScanKeys, SweepKey, SweepDone, Fail, Revoke, keys, store, progress
<1>2. ASSUME RevokeKey(c) PROVE request[c].org = keyOrg[k]
  BY <1>2 DEF RevokeKey, Revoke, Goto, Knows
<1>3. ASSUME SuspendAtOnce(c) PROVE request[c].org = keyOrg[k]
  BY <1>3 DEF SuspendAtOnce, Revoke, ActiveKeys
<1>4. ASSUME NEW j \in Key, SweepKey(c, j) PROVE request[c].org = keyOrg[k]
  BY <1>4 DEF SweepKey, Revoke, Knows
<1>5. ASSUME Next PROVE \E d \in Call : CallStep(d)
  BY <1>5 DEF Next, AskHuman, Present, AskSuspension, Reactivate, ChangeRole, keys
<1>6. QED
  BY <1>1, <1>2, <1>3, <1>4, <1>5 DEF vars, keys

\* No call revokes a key of another tenant.
THEOREM RevokedByTenant == Spec => RevokedWithinTenant
<1>1. IInv /\ [Next]_vars =>
        [\A k \in Key, c \in Call :
           (revokedBy[k] # c /\ revokedBy'[k] = c) => request[c].org = keyOrg[k]]_vars
  BY StepRevokesOwn
<1>2. QED
  BY <1>1, Invariance, PTL DEF Spec, RevokedWithinTenant

\* Which steps answer a call: those that end it, with their own answer.
LEMMA StepAnswers ==
  ASSUME IInv, Next, NEW c \in Call, answer'[c] \in {"suspended", "accepted"}, answer'[c] # answer[c]
  PROVE  SuspendAtOnce(c) \/ SweepDone(c) \/ (CheckKey(c) /\ answer'[c] = "accepted")
<1> USE DEF IInv, TypeOK, AccessTypeOK
<1>1. ASSUME NEW d \in Call, Asks(d) \/ CallStep(d) PROVE d = c
  BY <1>1, NextIsStep, StepIsLocal DEF Local, Frame
<1>2. ASSUME Asks(c) PROVE FALSE
  BY <1>2 DEF Asks, AskHuman, Present, AskSuspension, Begin
<1>3. ASSUME CallStep(c)
      PROVE  SuspendAtOnce(c) \/ SweepDone(c) \/ (CheckKey(c) /\ answer'[c] = "accepted")
  BY <1>3 DEF CallStep, Authorize, FetchOrganization, CheckMembership, RefuseUnknown, Deny, CreateKey,
     LookupKey, RevokeKey, AppendAudit, VerifyKey, FetchKeyOrganization, CheckKey, RefuseOwner,
     SuspendUnknown, DisableOrganization, ScanKeys, SweepKey, Fail, End, Finish, progress
<1>4. ASSUME Environment PROVE FALSE
  BY <1>4, NextIsStep, EnvironmentKeepsInv
<1>5. QED
  BY <1>1, <1>2, <1>3, <1>4, NextIsStep

\* When a suspension answers, nothing it owed is left to sweep.
LEMMA StepSweeps ==
  ASSUME IInv, [Next]_vars, NEW c \in Call,
         answer[c] # "suspended", answer'[c] = "suspended", NEW k \in Owed(c)
  PROVE  keyStatus'[k] = "revoked"
<1> USE DEF IInv, TypeOK, AccessTypeOK
<1>1. SuspendAtOnce(c) \/ SweepDone(c)
  BY StepAnswers DEF vars, accessVars
<1>2. CASE SuspendAtOnce(c)
  BY <1>2 DEF SuspendAtOnce, Revoke, Owed, ActiveKeys
<1>3. CASE SweepDone(c)
  <2>1. adapter = "dynamodb" /\ k \in owed[c] \ sweep[c] /\ keyStatus' = keyStatus
    BY <1>3 DEF SweepDone, Knows, Owed, keys
  <2>2. QED
    BY <1>3, <2>1 DEF SweepDone, Knows
<1>4. QED
  BY <1>1, <1>2, <1>3

\* A suspension that succeeds has revoked every key that was active when it
\* disabled the organization.
THEOREM SuspensionsSweep == Spec => SuspensionSweeps
<1>1. IInv /\ [Next]_vars =>
        [\A c \in Call :
           (answer[c] # "suspended" /\ answer'[c] = "suspended")
              => \A k \in Owed(c) : keyStatus'[k] = "revoked"]_vars
  BY StepSweeps
<1>2. QED
  BY <1>1, Invariance, PTL DEF Spec, SuspensionSweeps

\* An accepted key belongs to the organization, and both were active during
\* the call.
LEMMA StepAccepts ==
  ASSUME IInv, [Next]_vars, NEW c \in Call, answer[c] # "accepted", answer'[c] = "accepted"
  PROVE  /\ keyOrg[request[c].key] = request[c].org
         /\ request[c].key \in current[c]
         /\ held[c].active
<1> USE DEF IInv, TypeOK, AccessTypeOK
<1>1. CheckKey(c)
  BY StepAnswers DEF vars, accessVars, SuspendAtOnce, SweepDone, End, Finish
<1>2. phase[c] = "key" /\ seenStatus[c] = "active" /\ keyOrg[request[c].key] = request[c].org
  BY <1>1 DEF CheckKey, progress
<1>3. QED
  BY <1>2 DEF Knows

\* Revocation and suspension take effect for every call that starts after them.
THEOREM AcceptedWasCurrent == Spec => AcceptedIsCurrent
<1>1. IInv /\ [Next]_vars =>
        [\A c \in Call :
           (answer[c] # "accepted" /\ answer'[c] = "accepted")
              => /\ keyOrg[request[c].key] = request[c].org
                 /\ request[c].key \in current[c]
                 /\ held[c].active]_vars
  BY StepAccepts
<1>2. QED
  BY <1>1, Invariance, PTL DEF Spec, AcceptedIsCurrent
============================================================================
